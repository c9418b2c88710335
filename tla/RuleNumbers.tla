---------------------------- MODULE RuleNumbers ----------------------------
(***************************************************************************)
(* The numbers by which a Discord user speaks of his rules.  A rule has an *)
(* id in watch_rules; /watch list, the reply to /watch add and the alerts  *)
(* call it by its place among the user's rules in order of id, /watch      *)
(* pause, resume and delete take that number, and the buttons of an alert  *)
(* keep the id.  A number is read in one transaction and looked up in      *)
(* another, and rules come and go between the two.                         *)
(*                                                                         *)
(* One user: every query is filtered by his discord_user_id.  The rows'    *)
(* other columns are in module Monitor.                                    *)
(***************************************************************************)
EXTENDS Integers, FiniteSets

CONSTANTS
    Interactions,   \* interactions of the user that may be under way at once
    MaxRules        \* bound on the rules ever added

ASSUME NumbersAssumption == MaxRules \in Nat

VARIABLES
    valid,      \* the user has a row with a valid token
    rules,      \* ids of his committed rows
    enabled,    \* those that are enabled
    nextId,     \* the sequence the ids come from
    alerts,     \* buttons on his alerts: rule, the rule's name, what it does
    task,       \* the interactions
    name,       \* history: which of the rules ever added a row is
    added,      \* history: how many were added
    said        \* history: how often "Rule deleted." was said of each

rows == <<valid, rules, enabled, nextId>>
history == <<name, added, said>>
vars == <<rows, alerts, task, history>>

Names == 1..MaxRules
Kinds == {"pause", "resume", "delete"}

\* number, meant and moved: a number that was read, the id it was read for,
\* and whether rules came or went up to that id since.
IdleTask ==
    [phase |-> "idle", kind |-> "none", rule |-> 0, name |-> 0,
     number |-> 0, meant |-> 0, moved |-> FALSE, button |-> FALSE]

-----------------------------------------------------------------------------
\* Mistakes the properties are meant to notice.

\* The newest rule comes first.
NumberOfNewestFirst(ids, id) == Cardinality({r \in ids : r >= id})

\* Numbers from zero.
NumberOfFromZero(ids, id) == Cardinality({r \in ids : r < id})

\* An id is one more than the largest in the table.
NewIdAfterLast ==
    CHOOSE id \in 1..(MaxRules + 1) : id - 1 \in rules \cup {0} /\ \A r \in rules : r < id

\* The reply does not look at rowcount.
FoundAlways(t) == TRUE

-----------------------------------------------------------------------------
\* list_for_user and _number_rules: the rules in order of id, from 1.
UpTo(ids, id) == {r \in ids : r <= id}
NumberOf(ids, id) == Cardinality(UpTo(ids, id))

\* The sequence of watch_rules.id: not rolled back, never reused.
NewId == nextId

\* rowcount of the UPDATE or DELETE of a rule.
Found(t) == t.rule \in rules

\* Readers of a number whose place moves when id comes or goes.
Moved(tasks, ids) ==
    [c \in Interactions |->
        [tasks[c] EXCEPT !.moved = @ \/ \E id \in ids : id <= tasks[c].meant]]

Set(c, t) == [task EXCEPT ![c] = t]

Without(ids) ==
    /\ rules' = rules \ ids
    /\ enabled' = enabled \ ids

Init ==
    /\ valid = FALSE
    /\ rules = {} /\ enabled = {} /\ nextId = 1
    /\ alerts = {}
    /\ task = [c \in Interactions |-> IdleTask]
    /\ name = [id \in Names |-> 0]
    /\ added = 0
    /\ said = [n \in Names |-> 0]

-----------------------------------------------------------------------------
\* /auth, a poll whose token is refused, and /logout with its cascade, which
\* waits for every add that has shared the user row.

Authenticate ==
    /\ ~valid
    /\ valid' = TRUE
    /\ UNCHANGED <<rules, enabled, nextId, alerts, task, history>>

Invalidate ==
    /\ valid
    /\ valid' = FALSE
    /\ enabled' = {}
    /\ UNCHANGED <<rules, nextId, alerts, task, history>>

Logout ==
    /\ \A c \in Interactions : task[c].phase \notin {"flushed", "numbered"}
    /\ valid' = FALSE
    /\ Without(rules)
    /\ task' = Moved(task, rules)
    /\ UNCHANGED <<nextId, alerts, history>>

-----------------------------------------------------------------------------
\* /watch add.

\* _require_valid_user, create: the INSERT draws the id.  What may come
\* between the two is in module Monitor.
Flush(c) ==
    /\ task[c].phase = "idle" /\ valid /\ added < MaxRules
    /\ added' = added + 1
    /\ nextId' = nextId + 1
    /\ task' = Set(c, [IdleTask EXCEPT !.phase = "flushed", !.kind = "add", !.rule = NewId,
                                       !.name = added'])
    /\ UNCHANGED <<valid, rules, enabled, alerts, name, said>>

\* _find_displayed_rule: it sees what is committed and its own row.
Number(c) ==
    /\ task[c].phase = "flushed"
    /\ LET id == task[c].rule
       IN  task' = Set(c, [task[c] EXCEPT !.phase = "numbered", !.meant = id,
                                          !.number = NumberOf(rules \cup {id}, id)])
    /\ UNCHANGED <<rows, alerts, history>>

Commit(c) ==
    /\ task[c].phase = "numbered"
    /\ LET id == task[c].rule
       IN  /\ rules' = rules \cup {id} /\ enabled' = enabled \cup {id}
           /\ name' = [name EXCEPT ![id] = task[c].name]
           /\ task' = [Moved(task, {id}) EXCEPT ![c] = [task[c] EXCEPT !.phase = "checking"]]
    /\ UNCHANGED <<valid, nextId, alerts, added, said>>

\* The first check succeeded; the reply tells the number of before it, and
\* the user may go by that.
Created(c) ==
    /\ task[c].phase = "checking"
    /\ \/ task' = Set(c, IdleTask)
       \/ \E kind \in Kinds :
             task' = Set(c, [task[c] EXCEPT !.phase = "issued", !.kind = kind, !.rule = 0,
                                            !.name = 0])
    /\ UNCHANGED <<rows, alerts, history>>

\* It failed: the rule is deleted by its id.
Discard(c) ==
    /\ task[c].phase = "checking"
    /\ LET gone == rules \cap {task[c].rule}
       IN  Without(gone) /\ task' = [Moved(task, gone) EXCEPT ![c] = IdleTask]
    /\ UNCHANGED <<valid, nextId, alerts, history>>

-----------------------------------------------------------------------------
\* /watch pause, resume and delete.

\* The user reads a number in /watch list or the autocompletion.
Issue(c) ==
    /\ task[c].phase = "idle" /\ valid
    /\ \E kind \in Kinds, id \in rules :
          task' = Set(c, [IdleTask EXCEPT !.phase = "issued", !.kind = kind, !.meant = id,
                                          !.number = NumberOf(rules, id)])
    /\ UNCHANGED <<rows, alerts, history>>

\* _rule_by_display_id on the list of now.
Resolve(c) ==
    /\ task[c].phase = "issued"
    /\ LET found == {id \in rules : valid /\ NumberOf(rules, id) = task[c].number}
       IN  \/ found = {} /\ task' = Set(c, IdleTask)
           \/ \E id \in found :
                 task' = Set(c, [task[c] EXCEPT !.phase = "resolved", !.rule = id,
                                                !.name = name[id]])
    /\ UNCHANGED <<rows, alerts, history>>

\* A button of an alert, by the rule's id.
Press(c) ==
    /\ task[c].phase = "idle" /\ valid
    /\ \E a \in alerts :
          task' = Set(c, [IdleTask EXCEPT !.phase = "resolved", !.kind = a.kind, !.rule = a.rule,
                                          !.name = a.name, !.button = TRUE])
    /\ UNCHANGED <<rows, alerts, history>>

\* The buttons that are disabled after t, one or all of its view; an older
\* alert of the rule may still show the same.
Disabled(t) ==
    {a \in alerts : t.button /\ a.rule = t.rule /\ (t.kind = "delete" \/ a.kind = t.kind)}

\* set_enabled or delete, COMMIT and the reply.
Write(c) ==
    /\ task[c].phase = "resolved"
    /\ LET t == task[c]
           hit == rules \cap {t.rule}
       IN  /\ IF t.kind = "delete" THEN Without(hit) ELSE
                 /\ enabled' = IF t.kind = "resume" THEN enabled \cup hit ELSE enabled \ hit
                 /\ UNCHANGED rules
           /\ said' = IF t.kind = "delete" /\ Found(t) THEN [said EXCEPT ![t.name] = @ + 1]
                      ELSE said
           /\ task' = [IF t.kind = "delete" THEN Moved(task, hit) ELSE task
                          EXCEPT ![c] = IdleTask]
           /\ alerts' \in {alerts, alerts \ Disabled(t)}
    /\ UNCHANGED <<valid, nextId, name, added>>

\* The database or Discord fails on the way; nothing was committed.
Fail(c) ==
    /\ task[c].phase \in {"flushed", "numbered", "issued", "resolved"}
    /\ task' = Set(c, IdleTask)
    /\ UNCHANGED <<rows, alerts, history>>

-----------------------------------------------------------------------------
\* send_alert: a message with an AlertActionsView.
Alert ==
    /\ \E id \in rules :
          alerts' = alerts \cup {[rule |-> id, name |-> name[id], kind |-> kind] :
                                    kind \in {"pause", "delete"}}
    /\ UNCHANGED <<rows, task, history>>

\* The views are not registered again: the old buttons do nothing from now on.
Restart ==
    /\ task' = [c \in Interactions |-> IdleTask]
    /\ alerts' = {}
    /\ UNCHANGED <<rows, history>>

Next ==
    \/ Authenticate \/ Invalidate \/ Logout \/ Alert \/ Restart
    \/ \E c \in Interactions :
          \/ Flush(c) \/ Number(c) \/ Commit(c) \/ Created(c) \/ Discard(c)
          \/ Issue(c) \/ Resolve(c) \/ Press(c) \/ Write(c) \/ Fail(c)

Spec == Init /\ [][Next]_vars

-----------------------------------------------------------------------------
\* Types; ids and names are those drawn so far, and numbers count from one.
TypeOK ==
    /\ valid \in BOOLEAN
    /\ rules \subseteq Names /\ enabled \subseteq rules
    /\ nextId = added + 1 /\ added \in 0..MaxRules
    /\ alerts \subseteq [rule : Names, name : Names, kind : Kinds]
    /\ task \in [Interactions ->
                    [phase : {"idle", "flushed", "numbered", "checking", "issued", "resolved"},
                     kind : Kinds \cup {"none", "add"}, rule : 0..MaxRules, name : 0..MaxRules,
                     number : 0..MaxRules, meant : 0..MaxRules, moved : BOOLEAN,
                     button : BOOLEAN]]
    /\ \A c \in Interactions : task[c].phase = "issued" => task[c].number >= 1
    /\ name \in [Names -> 0..MaxRules] /\ said \in [Names -> Nat]

(***************************************************************************)
(* A command acts on the rule its number was read for, in /watch list or   *)
(* in the reply to /watch add, unless between the reading and the look-up  *)
(* a rule at or before it was deleted, or a rule with a smaller id was     *)
(* committed.  Later rules never move it (services.py 289-311, 376-397).   *)
(***************************************************************************)
NumbersMeanWhatWasRead ==
    \A c \in Interactions :
        task[c].phase = "resolved" /\ ~task[c].button /\ ~task[c].moved
            => task[c].rule = task[c].meant

(***************************************************************************)
(* What a task is about to write is the rule it was about: a button of an  *)
(* old alert, a command that waited, or the clean-up of a failed add never *)
(* touch a rule that was added after theirs was deleted (services.py       *)
(* 271-274, 313-325).                                                      *)
(***************************************************************************)
WritesHitTheirRule ==
    \A c \in Interactions :
        task[c].phase \in {"checking", "resolved"} /\ task[c].rule \in rules
            => name[task[c].rule] = task[c].name

(***************************************************************************)
(* "Rule deleted." is said once of a rule at most, by whichever of several *)
(* commands and buttons came first, and never of one that is still there   *)
(* (discord_ui.py 194-206, 475-494).                                       *)
(***************************************************************************)
DeletionsAreSaidOnce ==
    \A n \in Names : said[n] <= 1 /\ (said[n] = 1 => \A id \in rules : name[id] # n)

=============================================================================
