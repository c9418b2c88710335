------------------------------ MODULE Monitor ------------------------------
(***************************************************************************)
(* The bot's core: users, rules and notifications in PostgreSQL, and the   *)
(* tasks of one event loop that read and write them: the polls of the      *)
(* MonitoringCoordinator, /watch add, /auth, /logout and the rule          *)
(* commands.  An action is one database transaction, or one statement of   *)
(* it where another transaction can commit in between (READ COMMITTED), or *)
(* one answer of the auction API or of Discord.                            *)
(*                                                                         *)
(* Prices, thresholds and conditions are those of Evaluator; every rule    *)
(* here watches for a fall to Threshold or below (AlertRule has both       *)
(* conditions).  The HTTP client and its limiter are the delay before an   *)
(* answer: DonutClient and RateLimiter model them.                         *)
(***************************************************************************)
EXTENDS Evaluator, Sequences, FiniteSets

CONSTANTS
    Users, Tokens, Items,
    Threshold, Hysteresis, Cooldown,
    Prices,       \* the listed prices the auction may show
    CmdKinds,     \* the rule commands users give
    MaxAuths,     \* bound on the /auth commands given
    MaxRules,     \* bound on the rules ever created
    MaxTime,      \* bound on the clock
    MaxFaults     \* bound on crashes and database errors

ASSUME ParametersAssumption ==
    /\ Threshold \in Nat /\ Hysteresis \in Nat /\ Cooldown \in Nat
    /\ Prices \subseteq Int
    /\ CmdKinds \subseteq {"pause", "resume", "delete"}
    /\ MaxAuths \in Nat /\ MaxRules \in Nat /\ MaxTime \in Nat /\ MaxFaults \in Nat
    /\ None \notin Tokens

VARIABLES
    users,      \* table users: one row or None for each Discord user
    rules,      \* table watch_rules: one row or None for each id
    nextId,     \* the sequence ids are drawn from
    notes,      \* table notifications, in order of id
    live,       \* the tokens DonutSMP accepts
    clock,
    job,        \* the poll and the /watch add of each user
    auth,       \* the /auth of each user
    auths,      \* the /auth commands given so far
    cmd,        \* the /watch pause, resume or delete of each user
    faults,     \* crashes and database errors so far
    rejected,   \* history: the tokens the API has refused to the bot
    failed,     \* history: rules whose first check failed
    straddled   \* history: users whose last invalidation crossed a command of theirs

tables == <<users, rules, nextId, notes>>
tasks == <<job, auth, auths, cmd>>
history == <<rejected, failed, straddled>>
vars == <<tables, live, clock, tasks, faults, history>>

RuleIds == 1..MaxRules
Workers == {"poll", "add"} \X Users
Owner(w) == w[2]
IsPoll(w) == w[1] = "poll"

IdleJob ==
    [phase |-> "idle", token |-> None, notify |-> FALSE, todo |-> {}, group |-> {},
     price |-> None, at |-> 0, events |-> << >>, told |-> FALSE]

IdleAuth == [phase |-> "idle", token |-> None, seen |-> None]

IdleCmd == [kind |-> "none", rule |-> 0]

RulesOf(u) == {id \in RuleIds : rules[id] # None /\ rules[id].owner = u}
EnabledOf(u) == {id \in RulesOf(u) : rules[id].enabled}
IsValid(u) == users[u] # None /\ users[u].status = "valid"

-----------------------------------------------------------------------------
\* Mistakes the properties are meant to notice.

\* /auth stores the token but leaves the marks of the invalidation alone.
SavedTokenOnly(row, seen, token) == [row EXCEPT !.token = token]

\* mark_invalid_notified is left to the DM, which may fail.
MarkedInvalidUnnotified(row, notify) == [row EXCEPT !.status = "invalid"]

\* The rules of an invalid token are left running.
PausedWhenEnabledForgotten(row) == row

\* process stores the new state but forgets the time of the alert.
ProcessedUntimed(row, evaluation, at) == [row EXCEPT !.state = evaluation.state]

\* process keeps the old state of a rule that has just alerted.
ProcessedUnspent(row, evaluation, at) ==
    [row EXCEPT !.state = IF evaluation.triggered THEN @ ELSE evaluation.state,
                !.last = IF evaluation.triggered THEN at ELSE @]

\* The add of a rule whose first check failed leaves the rule there.
DiscardedNothing(u, group) == rules

\* Every delivery is recorded as sent.
OutcomeAssumed(j) == "sent"

\* The state of a new rule has no default.
NewRuleStateless(u, item) ==
    [owner |-> u, item |-> item, enabled |-> TRUE, state |-> None, last |-> None]

\* The notifications of a deleted rule stay behind.
NotesKept(ids) == notes

\* A DM that raises ends the task before the outcome is recorded.
DeliverRaises(w, outcome) ==
    /\ job[w].phase = "deliver"
    /\ notes' = IF outcome = "refused" THEN notes
                ELSE [notes EXCEPT ![Head(job[w].events)].dms = @ + 1]
    /\ job' = [job EXCEPT ![w] = IF outcome = "accepted"
                                 THEN [@ EXCEPT !.phase = "record", !.told = TRUE]
                                 ELSE IdleJob]
    /\ UNCHANGED <<users, rules, nextId, live, clock, auth, auths, cmd, faults, history>>

\* A poll takes a refused token for one more failed request.
RejectionDeferred(w) ==
    /\ job[w].phase = "fetch"
    /\ job[w].token \notin live
    /\ job' = [job EXCEPT ![w] = IF IsPoll(w) THEN IdleJob ELSE [@ EXCEPT !.phase = "discard"]]
    /\ rejected' = rejected \cup {job[w].token}
    /\ failed' = IF IsPoll(w) THEN failed ELSE failed \cup job[w].group
    /\ UNCHANGED <<tables, live, clock, auth, auths, cmd, faults, straddled>>

-----------------------------------------------------------------------------
\* WatchRuleRepository.create
NewRule(u, item) ==
    [owner |-> u, item |-> item, enabled |-> TRUE, state |-> "unknown", last |-> None]

\* The columns evaluate_threshold is called with.
Columns(row) ==
    [condition |-> "price_down", threshold |-> Threshold,
     hysteresis_percent |-> Hysteresis, cooldown_seconds |-> Cooldown,
     current_state |-> row.state, last_triggered_at |-> row.last]

\* The columns process sets.
ProcessedRow(row, evaluation, at) ==
    [row EXCEPT !.state = evaluation.state,
                !.last = IF evaluation.triggered THEN at ELSE @]

\* mark_invalid and, in the same transaction, mark_invalid_notified.
MarkedInvalid(row, notify) ==
    [row EXCEPT !.status = "invalid", !.notified = @ \/ notify]

PausedByInvalidation(row) == [row EXCEPT !.enabled = FALSE]

\* save_valid_token on an existing row.  The ciphertext is new every time;
\* status and invalid_token_notified_at are written if they were read changed.
\* The fingerprint, written if it was read changed, goes with the ciphertext:
\* only two /auth of one user at once could part them.
SavedToken(row, seen, token) ==
    [row EXCEPT !.token = token,
                !.status = IF seen.status # "valid" THEN "valid" ELSE @,
                !.notified = IF seen.notified THEN FALSE ELSE @]

\* What a poll does next: the next group, or nothing more.
NextGroup(j) ==
    IF j.todo = {} THEN {IdleJob}
    ELSE {[IdleJob EXCEPT !.phase = "fetch", !.token = j.token, !.notify = j.notify,
                          !.todo = j.todo \ {g}, !.group = g] : g \in j.todo}

\* DELETE of a rule and, by cascade, of its notifications.
Without(ids) == [id \in RuleIds |-> IF id \in ids THEN None ELSE rules[id]]

NotesWithout(ids) ==
    [n \in 1..Len(notes) |->
        IF notes[n].rule \in ids THEN [notes[n] EXCEPT !.row = "deleted"] ELSE notes[n]]

Init ==
    /\ users = [u \in Users |-> None]
    /\ rules = [id \in RuleIds |-> None]
    /\ nextId = 1
    /\ notes = << >>
    /\ live = Tokens
    /\ clock = 0
    /\ job = [w \in Workers |-> IdleJob]
    /\ auth = [u \in Users |-> IdleAuth]
    /\ auths = 0
    /\ cmd = [u \in Users |-> IdleCmd]
    /\ faults = 0
    /\ rejected = {}
    /\ failed = {}
    /\ straddled = {}

-----------------------------------------------------------------------------
(***************************************************************************)
(* The polling cycle.  run_once waits for all polls of the last cycle      *)
(* (gather), reads the valid users with an enabled rule and starts a poll  *)
(* for each that is due; which are due depends on their intervals.         *)
(***************************************************************************)
GroupsOf(u) == {{id \in EnabledOf(u) : rules[id].item = item} : item \in Items} \ {{}}

Polled == {u \in Users : IsValid(u) /\ EnabledOf(u) # {}}

StartCycle(due) ==
    /\ due # {} /\ due \subseteq Polled
    /\ \A u \in Users : job[<<"poll", u>>].phase = "idle"
    /\ \E first \in [due -> SUBSET RuleIds] :
          /\ \A u \in due : first[u] \in GroupsOf(u)
          /\ job' = [w \in Workers |->
                        IF IsPoll(w) /\ Owner(w) \in due
                        THEN LET u == Owner(w)
                             IN  [IdleJob EXCEPT !.phase = "fetch",
                                                 !.token = users[u].token,
                                                 !.notify = ~users[u].notified,
                                                 !.todo = GroupsOf(u) \ {first[u]},
                                                 !.group = first[u]]
                        ELSE job[w]]
    /\ UNCHANGED <<tables, live, clock, auth, auths, cmd, faults, history>>

\* get_price returns a snapshot.
FetchOk(w, price) ==
    /\ job[w].phase = "fetch"
    /\ job[w].token \in live
    /\ job' = [job EXCEPT ![w].phase = "process", ![w].price = price, ![w].at = clock]
    /\ UNCHANGED <<tables, live, clock, auth, auths, cmd, faults, history>>

\* The first check of a rule has failed.
FailedBy(w) == IF IsPoll(w) THEN failed ELSE failed \cup job[w].group

\* get_price raises another DonutApiError: the poll goes on to its next group,
\* the add discards its rule.
FetchFails(w) ==
    /\ job[w].phase = "fetch"
    /\ IF IsPoll(w)
       THEN \E next \in NextGroup(job[w]) : job' = [job EXCEPT ![w] = next]
       ELSE job' = [job EXCEPT ![w].phase = "discard"]
    /\ failed' = FailedBy(w)
    /\ UNCHANGED <<tables, live, clock, auth, auths, cmd, faults, rejected, straddled>>

\* 401 or 403: the poll goes on to invalidate the token, the add discards its
\* rule.  (Stored tokens can be decrypted: the key of the deployment is kept.)
FetchRejected(w) ==
    /\ job[w].phase = "fetch"
    /\ job[w].token \notin live
    /\ job' = [job EXCEPT ![w] =
                  IF IsPoll(w)
                  THEN [IdleJob EXCEPT !.phase = "invalidate", !.token = job[w].token,
                                       !.notify = job[w].notify]
                  ELSE [@ EXCEPT !.phase = "discard"]]
    /\ rejected' = rejected \cup {job[w].token}
    /\ failed' = FailedBy(w)
    /\ UNCHANGED <<tables, live, clock, auth, auths, cmd, faults, straddled>>

(***************************************************************************)
(* The transaction of RuleProcessor.process.  Inserting the observation    *)
(* fails, and ends the task, when the owner has logged out, and otherwise  *)
(* keeps the row of the owner from being deleted before the commit; every  *)
(* rule is locked before it is read.  So the transaction is one step.      *)
(* A rule that was deleted or paused meanwhile is skipped.                 *)
(***************************************************************************)
Processed(w) == job[w].group \cap EnabledOf(Owner(w))

\* Only /watch add passes notify_initial_rule_id.
Evaluated(w, id) ==
    Evaluate(Columns(rules[id]), job[w].price, job[w].at, ~IsPoll(w))

Triggered(w) == {id \in Processed(w) : Evaluated(w, id).triggered}

\* rule_ids is a set: its rules are processed in some order.
Orders(S) ==
    {f \in [1..Cardinality(S) -> S] :
        \A i, j \in 1..Cardinality(S) : f[i] = f[j] => i = j}

Process(w) ==
    /\ job[w].phase = "process"
    /\ IF users[Owner(w)] = None
       THEN /\ job' = [job EXCEPT ![w] = IdleJob]
            /\ UNCHANGED <<rules, notes>>
       ELSE /\ rules' = [id \in RuleIds |->
                  IF id \in Processed(w)
                  THEN ProcessedRow(rules[id], Evaluated(w, id), job[w].at)
                  ELSE rules[id]]
            /\ \E order \in Orders(Triggered(w)) :
                  /\ notes' = notes \o [i \in DOMAIN order |->
                                 [rule |-> order[i], at |-> job[w].at,
                                  row |-> "pending", dms |-> 0]]
                  /\ IF order = << >>
                     THEN \E next \in NextGroup(job[w]) : job' = [job EXCEPT ![w] = next]
                     ELSE job' = [job EXCEPT ![w] =
                            [IdleJob EXCEPT !.phase = "deliver", !.token = job[w].token,
                                            !.notify = job[w].notify, !.todo = job[w].todo,
                                            !.events = [i \in DOMAIN order |-> Len(notes) + i]]]
    /\ UNCHANGED <<users, nextId, live, clock, auth, auths, cmd, faults, history>>

(***************************************************************************)
(* _deliver calls send_alert.  Discord accepts the DM and says so, refuses *)
(* it, or accepts it and the answer is lost (a timeout, a connection that  *)
(* breaks): the last two raise, and the code cannot tell them apart.       *)
(***************************************************************************)
Outcomes == {"accepted", "refused", "answer_lost"}

Deliver(w, outcome) ==
    /\ job[w].phase = "deliver"
    /\ notes' = IF outcome = "refused" THEN notes
                ELSE [notes EXCEPT ![Head(job[w].events)].dms = @ + 1]
    /\ job' = [job EXCEPT ![w].phase = "record", ![w].told = (outcome = "accepted")]
    /\ UNCHANGED <<users, rules, nextId, live, clock, auth, auths, cmd, faults, history>>

\* mark_sent or mark_failed, of a row that may have been deleted meanwhile.
OutcomeOf(j) == IF j.told THEN "sent" ELSE "failed"

Record(w) ==
    /\ job[w].phase = "record"
    /\ LET n == Head(job[w].events)
       IN  notes' = IF notes[n].row = "deleted" THEN notes
                    ELSE [notes EXCEPT ![n].row = OutcomeOf(job[w])]
    /\ IF Len(job[w].events) > 1
       THEN job' = [job EXCEPT ![w].phase = "deliver", ![w].told = FALSE,
                               ![w].events = Tail(@)]
       ELSE \E next \in NextGroup(job[w]) : job' = [job EXCEPT ![w] = next]
    /\ UNCHANGED <<users, rules, nextId, live, clock, auth, auths, cmd, faults, history>>

\* _invalidate_user: one transaction for the row and its rules.
Invalidate(w) ==
    LET u == Owner(w)
    IN  /\ job[w].phase = "invalidate"
        /\ users' = [users EXCEPT ![u] =
                        IF @ = None THEN None ELSE MarkedInvalid(@, job[w].notify)]
        /\ rules' = [id \in RuleIds |-> IF id \in RulesOf(u)
                                        THEN PausedByInvalidation(rules[id])
                                        ELSE rules[id]]
        /\ job' = [job EXCEPT ![w] = IF @.notify THEN [IdleJob EXCEPT !.phase = "dm"]
                                     ELSE IdleJob]
        /\ straddled' = IF \/ auth[u].phase = "write"
                           \/ cmd[u].kind = "resume"
                           \/ job[<<"add", u>>].phase = "insert"
                           \/ users[u] # None /\ users[u].token # job[w].token
                        THEN straddled \cup {u} ELSE straddled \ {u}
        /\ UNCHANGED <<nextId, notes, live, clock, auth, auths, cmd, faults, rejected, failed>>

\* send_invalid_token; whether it arrives only shows in dm_error_count.
ReauthDm(w) ==
    /\ job[w].phase = "dm"
    /\ job' = [job EXCEPT ![w] = IdleJob]
    /\ UNCHANGED <<tables, live, clock, auth, auths, cmd, faults, history>>

-----------------------------------------------------------------------------
(***************************************************************************)
(* WatchService.add.  Its transaction reads the user, finds it valid, and  *)
(* later inserts the rule; the foreign key only asks that the user exists. *)
(***************************************************************************)
AddBegin(u) ==
    LET w == <<"add", u>>
    IN  /\ job[w].phase = "idle"
        /\ nextId \in RuleIds
        /\ IsValid(u)
        /\ job' = [job EXCEPT ![w] = [IdleJob EXCEPT !.phase = "insert",
                                                     !.token = users[u].token]]
        /\ UNCHANGED <<tables, live, clock, auth, auths, cmd, faults, history>>

AddInsert(u, item) ==
    LET w == <<"add", u>>
    IN  /\ job[w].phase = "insert"
        /\ nextId \in RuleIds
        /\ IF users[u] = None
           THEN /\ job' = [job EXCEPT ![w] = IdleJob]
                /\ UNCHANGED <<rules, nextId>>
           ELSE /\ rules' = [rules EXCEPT ![nextId] = NewRule(u, item)]
                /\ nextId' = nextId + 1
                /\ job' = [job EXCEPT ![w].phase = "fetch", ![w].group = {nextId}]
        /\ UNCHANGED <<users, notes, live, clock, auth, auths, cmd, faults, history>>

\* The first check failed: the rule is deleted again.
Discarded(u, group) == Without(group \cap RulesOf(u))

Discard(u) ==
    LET w == <<"add", u>>
    IN  /\ job[w].phase = "discard"
        /\ rules' = Discarded(u, job[w].group)
        /\ notes' = NotesWithout(job[w].group \cap RulesOf(u))
        /\ job' = [job EXCEPT ![w] = IdleJob]
        /\ UNCHANGED <<users, nextId, live, clock, auth, auths, cmd, faults, history>>

-----------------------------------------------------------------------------
\* AuthService.authenticate: the API accepts the token, the row is read ...
AuthRead(u, token) ==
    /\ auth[u].phase = "idle"
    /\ auths < MaxAuths
    /\ token \in live
    /\ auths' = auths + 1
    /\ auth' = [auth EXCEPT ![u] = [phase |-> "write", token |-> token, seen |-> users[u]]]
    /\ UNCHANGED <<tables, live, clock, job, cmd, faults, history>>

\* ... and written: an INSERT of a row another /auth has inserted meanwhile and
\* an UPDATE of a row that is gone fail.
AuthWrite(u) ==
    LET seen == auth[u].seen
        token == auth[u].token
    IN  /\ auth[u].phase = "write"
        /\ users' = [users EXCEPT ![u] =
                        IF seen = None /\ @ = None
                        THEN [token |-> token, status |-> "valid", notified |-> FALSE]
                        ELSE IF seen = None \/ @ = None THEN @
                        ELSE SavedToken(@, seen, token)]
        /\ auth' = [auth EXCEPT ![u] = IdleAuth]
        /\ UNCHANGED <<rules, nextId, notes, live, clock, job, auths, cmd, faults, history>>

\* DELETE of the user and, by cascade, of its rules and notifications.
Logout(u) ==
    /\ users[u] # None
    /\ users' = [users EXCEPT ![u] = None]
    /\ rules' = Without(RulesOf(u))
    /\ notes' = NotesWithout(RulesOf(u))
    /\ UNCHANGED <<nextId, live, clock, tasks, faults, history>>

(***************************************************************************)
(* The rule commands and the buttons under an alert: the user is found     *)
(* valid and the rule chosen, then one UPDATE or DELETE by id and owner.   *)
(***************************************************************************)
CmdBegin(u, kind, id) ==
    /\ cmd[u].kind = "none"
    /\ IsValid(u)
    /\ id \in RulesOf(u)
    /\ cmd' = [cmd EXCEPT ![u] = [kind |-> kind, rule |-> id]]
    /\ UNCHANGED <<tables, live, clock, job, auth, auths, faults, history>>

\* WatchRuleRepository.set_enabled: resuming forgets the state.
SetEnabled(row, kind) ==
    IF kind = "resume" THEN [row EXCEPT !.enabled = TRUE, !.state = "unknown"]
    ELSE [row EXCEPT !.enabled = FALSE]

CmdCommit(u) ==
    LET id == cmd[u].rule
        kind == cmd[u].kind
        hit == {id} \cap RulesOf(u)
    IN  /\ kind # "none"
        /\ rules' = IF kind = "delete" THEN Without(hit)
                    ELSE [i \in RuleIds |-> IF i \in hit THEN SetEnabled(rules[i], kind)
                                            ELSE rules[i]]
        /\ notes' = IF kind = "delete" THEN NotesWithout(hit) ELSE notes
        /\ cmd' = [cmd EXCEPT ![u] = IdleCmd]
        /\ UNCHANGED <<users, nextId, live, clock, job, auth, auths, faults, history>>

-----------------------------------------------------------------------------
\* DonutSMP stops accepting a token.
Revoke(token) ==
    /\ token \in live
    /\ live' = live \ {token}
    /\ UNCHANGED <<tables, clock, tasks, faults, history>>

Tick ==
    /\ clock < MaxTime
    /\ clock' = clock + 1
    /\ UNCHANGED <<tables, live, tasks, faults, history>>

\* A transaction of a poll or an add raises, or the request of a poll does with
\* something other than a DonutApiError: gather or the command reports it, and
\* the task is over.
TaskError(w) ==
    /\ faults < MaxFaults
    /\ \/ job[w].phase \in {"process", "record", "discard", "invalidate"}
       \/ job[w].phase = "fetch" /\ IsPoll(w)
    /\ job' = [job EXCEPT ![w] = IdleJob]
    /\ faults' = faults + 1
    /\ UNCHANGED <<tables, live, clock, auth, auths, cmd, history>>

\* The process ends and starts again with what the database holds.
Crash ==
    /\ faults < MaxFaults
    /\ job' = [w \in Workers |-> IdleJob]
    /\ auth' = [u \in Users |-> IdleAuth]
    /\ cmd' = [u \in Users |-> IdleCmd]
    /\ faults' = faults + 1
    /\ UNCHANGED <<tables, live, clock, auths, history>>

Work(w) ==
    \/ \E price \in Prices \cup {None} : FetchOk(w, price)
    \/ FetchRejected(w)
    \/ Process(w)
    \/ \E outcome \in Outcomes : Deliver(w, outcome)
    \/ Record(w)

Poll(w) == IsPoll(w) /\ (Invalidate(w) \/ ReauthDm(w))

Add(u) == (\E item \in Items : AddInsert(u, item)) \/ Discard(u)

Next ==
    \/ \E due \in SUBSET Users : StartCycle(due)
    \/ \E w \in Workers : Work(w) \/ FetchFails(w) \/ Poll(w) \/ TaskError(w)
    \/ \E u \in Users :
          \/ AddBegin(u) \/ Add(u)
          \/ \E token \in Tokens : AuthRead(u, token)
          \/ AuthWrite(u)
          \/ Logout(u)
          \/ \E kind \in CmdKinds, id \in RuleIds : CmdBegin(u, kind, id)
          \/ CmdCommit(u)
    \/ \E token \in Tokens : Revoke(token)
    \/ Tick
    \/ Crash

Spec == Init /\ [][Next]_vars

(***************************************************************************)
(* Fairness: the event loop runs every task that can go on, every request  *)
(* is answered (the client has a timeout), every DM attempt ends, and a    *)
(* polled user becomes due again after its interval.  A dead token is not  *)
(* for ever hidden behind 5xx answers.  Nothing is assumed of the users.   *)
(***************************************************************************)
CycleOf(u) == \E due \in SUBSET Users : u \in due /\ StartCycle(due)

Fairness ==
    /\ \A w \in Workers :
          /\ WF_vars(Work(w) \/ FetchFails(w) \/ Poll(w))
          /\ SF_vars(FetchRejected(w))
    /\ \A u \in Users :
          /\ WF_vars(Add(u)) /\ WF_vars(AuthWrite(u)) /\ WF_vars(CmdCommit(u))
          /\ SF_vars(CycleOf(u))

FairSpec == Spec /\ Fairness

-----------------------------------------------------------------------------
UserRow == [token : Tokens, status : {"valid", "invalid"}, notified : BOOLEAN]

RuleRow == [owner : Users, item : Items, enabled : BOOLEAN, state : RuleStates,
            last : Nat \cup {None}]

Note == [rule : RuleIds, at : Nat, row : {"pending", "sent", "failed", "deleted"},
         dms : Nat]

ASSUME NoRowAssumption == None \notin UserRow /\ None \notin RuleRow

Phases == {"idle", "insert", "fetch", "process", "deliver", "record", "discard",
           "invalidate", "dm"}

Job == [phase : Phases, token : Tokens \cup {None}, notify : BOOLEAN,
        todo : SUBSET SUBSET RuleIds, group : SUBSET RuleIds, price : Int \cup {None},
        at : Nat, events : Seq(Nat), told : BOOLEAN]

Auth == {IdleAuth} \cup
        [phase : {"write"}, token : Tokens, seen : UserRow \cup {None}]

Cmd == [kind : {"none", "pause", "resume", "delete"}, rule : Nat]

TablesOK ==
    /\ users \in [Users -> UserRow \cup {None}]
    /\ rules \in [RuleIds -> RuleRow \cup {None}]
    /\ nextId \in Nat
    /\ notes \in Seq(Note)

TasksOK ==
    /\ job \in [Workers -> Job]
    /\ auth \in [Users -> Auth]
    /\ cmd \in [Users -> Cmd]

\* Types of the tables (models.py) and of the tasks: no interleaving leaves a
\* row, a task or an alert in a shape the code cannot read.
TypeOK ==
    /\ TablesOK
    /\ TasksOK
    /\ live \subseteq Tokens /\ rejected \subseteq Tokens \cup {None}
    /\ clock \in Nat /\ auths \in Nat /\ faults \in Nat
    /\ failed \subseteq RuleIds
    /\ straddled \subseteq Users

(***************************************************************************)
(* A user is marked as told of the invalid token exactly while the token   *)
(* is marked invalid, whatever /auth, polls and logouts do in between:     *)
(* otherwise the next invalidation would stay silent (invalidate_user      *)
(* reads invalid_token_notified_at), or none would follow.                 *)
(***************************************************************************)
InvalidIffNotified ==
    \A u \in Users : users[u] # None => (users[u].status = "invalid" <=> users[u].notified)

(***************************************************************************)
(* The DM of a row marked "sent" did go out, and none goes out twice,      *)
(* whichever tasks die, answers are lost and rules are deleted on the way. *)
(* The converse does not hold: a row that is "failed" or still pending may *)
(* have been delivered, by a task that did not hear of it or died before   *)
(* it could say so.                                                        *)
(***************************************************************************)
DeliveryTruth ==
    \A n \in 1..Len(notes) :
        /\ notes[n].dms <= 1
        /\ notes[n].row = "sent" => notes[n].dms = 1

(***************************************************************************)
(* As long as nothing crashes and no transaction fails, a pending alert is *)
(* in the hands of exactly one task, which will deliver it.                *)
(***************************************************************************)
Holders(n) == {w \in Workers : \E i \in DOMAIN job[w].events : job[w].events[i] = n}

PendingIsHeld ==
    faults = 0 => \A n \in 1..Len(notes) :
                     notes[n].row = "pending" => Cardinality(Holders(n)) = 1

(***************************************************************************)
(* Two alerts of a rule are a cooldown apart, whichever of the poll and    *)
(* the first check makes them and in whatever order their snapshots are    *)
(* applied, through pauses, resumes, invalidations and restarts.           *)
(***************************************************************************)
CooldownHolds ==
    \A m, n \in 1..Len(notes) :
        m < n /\ notes[m].rule = notes[n].rule => notes[n].at >= notes[m].at + Cooldown

(***************************************************************************)
(* Every rule keeps the promise of AlertGate, from its creation to its     *)
(* deletion: it alerts only while its state is one evaluate_threshold may  *)
(* trigger from, the alert spends that state in the same step, and alerts  *)
(* are a cooldown apart, whichever tasks apply snapshots to it, in         *)
(* whatever order, and whatever commands and crashes fall between.         *)
(***************************************************************************)
AlertsOf(id) == {n \in 1..Len(notes) : notes[n].rule = id}

LatestOf(id) == CHOOSE n \in AlertsOf(id) : \A m \in AlertsOf(id) : m <= n

Armed(id) == rules[id] = None \/ rules[id].state \in {"unknown", Miss("price_down")}

Gate(id) == INSTANCE AlertGate WITH
                open   <- Armed(id),
                alerts <- Cardinality(AlertsOf(id)),
                last   <- IF AlertsOf(id) = {} THEN 0 ELSE notes[LatestOf(id)].at

EveryGate ==
    /\ \A id \in RuleIds : Gate(id)!Init
    /\ [][\A id \in RuleIds : [Gate(id)!Next]_(Gate(id)!vars)]_vars

(***************************************************************************)
(* Without faults, a rule whose first check failed is gone as soon as its  *)
(* /watch add has answered, whatever its owner and the polls did meanwhile *)
(* (test_failed_initial_check_does_not_leave_hidden_rule).                 *)
(***************************************************************************)
Discarding(id) == \E u \in Users :
    job[<<"add", u>>].phase = "discard" /\ id \in job[<<"add", u>>].group

FailedAddLeavesNothing ==
    faults = 0 => \A id \in failed : rules[id] = None \/ Discarding(id)

(***************************************************************************)
(* An invalid token has no running rule, and is a token the API did refuse *)
(* to the bot, unless a command of the user or a new /auth crossed the     *)
(* invalidation.                                                           *)
(***************************************************************************)
InvalidMeansPausedUncrossed ==
    \A u \in Users \ straddled :
        users[u] # None /\ users[u].status = "invalid" => EnabledOf(u) = {}

InvalidMeansRejectedUncrossed ==
    \A u \in Users \ straddled :
        users[u] # None /\ users[u].status = "invalid" => users[u].token \in rejected

\* A rule outlives neither its owner nor the rows of its alerts it.
NothingOutlivesOwner ==
    /\ \A id \in RuleIds : rules[id] # None => users[rules[id].owner] # None
    /\ \A n \in 1..Len(notes) : notes[n].row # "deleted" => rules[notes[n].rule] # None

-----------------------------------------------------------------------------
\* "DonutSMP rejected the stored token" (discord_ui.py): the stored token of an
\* invalid user is one that DonutSMP has rejected.
InvalidMeansRejected ==
    \A u \in Users :
        users[u] # None /\ users[u].status = "invalid" => users[u].token \in rejected

-----------------------------------------------------------------------------
(***************************************************************************)
(* Every alert that was decided is delivered or given up, or its rule is   *)
(* deleted: none stays pending while the process lives.  With a cooldown   *)
(* of at least 1 a rule alerts at most once at each instant.               *)
(***************************************************************************)
IsPending(n) == n \in 1..Len(notes) /\ notes[n].row = "pending"

AlertsSettle == \A n \in 1..MaxRules * (MaxTime + 1) : IsPending(n) ~> ~IsPending(n)

(***************************************************************************)
(* A token that died is found out as long as it is polled: its user cannot *)
(* stay valid with a running rule for ever, whatever commands, logouts and *)
(* new /auth do in between, and although crashes and errors may end a      *)
(* number of polls before they have told.                                  *)
(***************************************************************************)
PolledWithDeadToken(u) == IsValid(u) /\ EnabledOf(u) # {} /\ users[u].token \notin live

DeadTokenFound == \A u \in Users : PolledWithDeadToken(u) ~> ~PolledWithDeadToken(u)

=============================================================================
