----------------------------- MODULE RowLocks ------------------------------
(***************************************************************************)
(* The rows of one Discord user in PostgreSQL and who holds them locked:   *)
(* which transactions of the bot can end up waiting for each other.        *)
(*                                                                         *)
(* A statement locks the rows it writes, an INSERT the rows its foreign    *)
(* keys name, and a DELETE those that fall with it; all are held until the *)
(* transaction ends.  Who has to wait queues at the row, which may give    *)
(* it others to wait for.  What is written is in module Monitor.  Only     *)
(* the names of rows are kept: a row that is deleted leaves its name to    *)
(* the next.  Other users' rows are locked by nobody here but prune.       *)
(*                                                                         *)
(* The coordinator prunes, and polls this user, in one task, one           *)
(* transaction after the other; so does a /watch add.  Any number of       *)
(* commands run beside them.                                               *)
(***************************************************************************)
EXTENDS Naturals

CONSTANTS
    Commands,      \* commands of the user under way, /watch add included
    Rules,         \* rows of watch_rules
    Notes,         \* rows of notifications
    RuleOf,        \* watch_rule_id of each notification
    Observations,  \* rows of price_observations
    Coordinator, User

Tasks == Commands \cup {Coordinator}
Rows == {User} \cup Rules \cup Notes \cup Observations

ASSUME RowsAssumption ==
    /\ RuleOf \in [Notes -> Rules]
    /\ User \notin Rules \cup Notes \cup Observations
    /\ Rules \cap Notes = {} /\ Rules \cap Observations = {} /\ Notes \cap Observations = {}
    /\ Coordinator \notin Commands

VARIABLES
    tx,     \* the transaction of each task
    held,   \* the locks it holds
    asked,  \* the lock it sleeps for; a set of at most one
    first   \* the sleepers that are first in the queue of their row

vars == <<tx, held, asked, first>>

(***************************************************************************)
(* Lock modes: "share" is FOR KEY SHARE, of a foreign key; "write" is FOR  *)
(* NO KEY UPDATE, of an UPDATE; "full" is FOR UPDATE, of a DELETE or a     *)
(* SELECT ... FOR UPDATE.  A key share stands in the way of "full" only.   *)
(***************************************************************************)
Lock(rows, mode) == rows \X {mode}

Conflict(l, m) ==
    /\ l[1] = m[1]
    /\ ~(l[2] = "share" /\ m[2] # "full")
    /\ ~(m[2] = "share" /\ l[2] # "full")

-----------------------------------------------------------------------------
\* A mistake the properties are meant to notice: _deliver writes the alert
\* into the rule as well.
DeliverLocksRule(n) == Lock({n, RuleOf[n]}, "write") \cup Lock({User}, "write")

-----------------------------------------------------------------------------
\* The locks of each transaction.

\* process: INSERT of the observation, then SELECT ... FOR UPDATE of each rule;
\* the INSERT of a notification shares a rule it holds already.
ProcessLocks(rs) == Lock({User}, "share") \cup Lock(rs, "full")

\* _deliver: mark_sent or mark_failed, then clear_ or record_dm_error.
DeliverLocks(n) == Lock({n}, "write") \cup Lock({User}, "write")

\* _invalidate_user: mark_invalid and mark_invalid_notified.
InvalidateLocks == Lock({User}, "write") \cup Lock(Rules, "write")

\* mark_api_success, record_dm_error, and save_valid_token of a known user.
UserLocks == Lock({User}, "write")

\* WatchRuleRepository.create
CreateLocks == Lock({User}, "share")

\* set_enabled
ToggleLocks(r) == Lock({r}, "write")

\* WatchRuleRepository.delete with its cascade
DeleteLocks(r) == Lock({r} \cup {n \in Notes : RuleOf[n] = r}, "full")

\* UserRepository.logout with its cascades
LogoutLocks == Lock(Rows, "full")

\* ObservationRepository.prune
PruneLocks == Lock(Observations, "full")

Tx(kind, needs) == [kind |-> kind, needs |-> needs]
IdleTx == Tx("idle", {})

\* The poll of the user, or the prune before it.
CoordinatorTxs ==
    {Tx("prune", PruneLocks), Tx("invalidate", InvalidateLocks), Tx("user", UserLocks)}
    \cup {Tx("process", ProcessLocks(rs)) : rs \in SUBSET Rules \ {{}}}
    \cup {Tx("deliver", DeliverLocks(n)) : n \in Notes}

\* The first check of /watch add is a process of the new rule alone.
CommandTxs ==
    {Tx("create", CreateLocks), Tx("user", UserLocks), Tx("logout", LogoutLocks)}
    \cup {Tx("process", ProcessLocks({r})) : r \in Rules}
    \cup {Tx("deliver", DeliverLocks(n)) : n \in Notes}
    \cup {Tx("toggle", ToggleLocks(r)) : r \in Rules}
    \cup {Tx("delete", DeleteLocks(r)) : r \in Rules}

TxsOf(t) == IF t = Coordinator THEN CoordinatorTxs ELSE CommandTxs

-----------------------------------------------------------------------------
\* Mistakes the properties are meant to notice.

\* mark_invalid pauses the rules before it marks the user.
PlaceRulesFirst(kind, row) ==
    CASE row \in Rules -> IF kind = "invalidate" THEN 0 ELSE 2
      [] row = User -> IF kind = "deliver" THEN 4 ELSE 1
      [] OTHER -> 3

\* The transaction that ends keeps its locks.
FinishedHolding(t) == held

-----------------------------------------------------------------------------
(***************************************************************************)
(* The order in which the statements of a transaction come to a row: down  *)
(* the foreign keys, except in _deliver.  Rows of one place are taken in   *)
(* any order: that of a Python set in process, of a scan in the others.    *)
(***************************************************************************)
Place(kind, row) ==
    CASE row = User -> IF kind = "deliver" THEN 4 ELSE 1
      [] row \in Rules -> 2
      [] OTHER -> 3

Open(t) == tx[t].needs \ held[t]

\* What the next statement of t may come to.
Coming(t) ==
    {l \in Open(t) : \A m \in Open(t) : Place(tx[t].kind, l[1]) <= Place(tx[t].kind, m[1])}

\* s holds, or is first in the queue for, something l does not go with.
Holds(s, l) == \E m \in held[s] : Conflict(l, m)
Leads(s, l) == s \in first /\ \E m \in asked[s] : Conflict(l, m)

(***************************************************************************)
(* Who keeps t waiting.  The first who waits for a row waits for those     *)
(* that hold it, and holds the tuple lock, which stands in the way of the  *)
(* same modes; who comes later sleeps for that, even when the row itself   *)
(* has become free.  Among those behind, PostgreSQL changes the order when *)
(* it has to, so they do not keep each other waiting.                      *)
(***************************************************************************)
Blocks(s, t) ==
    /\ s # t
    /\ \E l \in asked[t] : IF t \in first THEN Holds(s, l) ELSE Leads(s, l)

Released(t) == [held EXCEPT ![t] = {}]

Init ==
    /\ tx = [t \in Tasks |-> IdleTx]
    /\ held = [t \in Tasks |-> {}]
    /\ asked = [t \in Tasks |-> {}]
    /\ first = {}

Begin(t) ==
    /\ tx[t] = IdleTx
    /\ \E x \in TxsOf(t) : tx' = [tx EXCEPT ![t] = x]
    /\ UNCHANGED <<held, asked, first>>

\* Nobody's lock is in the way: the queue is not looked at.
Take(t) ==
    /\ asked[t] = {}
    /\ \E l \in Coming(t) :
          /\ \A s \in Tasks \ {t} : ~Holds(s, l)
          /\ held' = [held EXCEPT ![t] = @ \cup {l}]
    /\ UNCHANGED <<tx, asked, first>>

Wait(t) ==
    /\ asked[t] = {}
    /\ \E l \in Coming(t) :
          /\ \E s \in Tasks \ {t} : Holds(s, l)
          /\ asked' = [asked EXCEPT ![t] = {l}]
          /\ first' = IF \E s \in Tasks : Leads(s, l) THEN first ELSE first \cup {t}
    /\ UNCHANGED <<tx, held>>

\* The tuple lock has become free and goes to one that slept for it.
Lead(t) ==
    /\ asked[t] # {}
    /\ t \notin first
    /\ \A s \in Tasks : ~Blocks(s, t)
    /\ first' = first \cup {t}
    /\ UNCHANGED <<tx, held, asked>>

Grant(t) ==
    /\ t \in first
    /\ \A s \in Tasks : ~Blocks(s, t)
    /\ held' = [held EXCEPT ![t] = @ \cup asked[t]]
    /\ asked' = [asked EXCEPT ![t] = {}]
    /\ first' = first \ {t}
    /\ UNCHANGED tx

\* COMMIT; also the ROLLBACK after an error, which may come at any point.
Finish(t) ==
    /\ tx[t] # IdleTx
    /\ tx' = [tx EXCEPT ![t] = IdleTx]
    /\ held' = Released(t)
    /\ asked' = [asked EXCEPT ![t] = {}]
    /\ first' = first \ {t}

Next == \E t \in Tasks : Begin(t) \/ Take(t) \/ Wait(t) \/ Lead(t) \/ Grant(t) \/ Finish(t)

Spec == Init /\ [][Next]_vars

-----------------------------------------------------------------------------
\* Types: what is held and asked for is part of what the transaction needs.
TypeOK ==
    /\ tx \in [Tasks -> CoordinatorTxs \cup CommandTxs \cup {IdleTx}]
    /\ \A t \in Tasks : tx[t] \in TxsOf(t) \cup {IdleTx}
    /\ held \in [Tasks -> SUBSET (Rows \X {"share", "write", "full"})]
    /\ asked \in [Tasks -> SUBSET (Rows \X {"share", "write", "full"})]
    /\ \A t \in Tasks : held[t] \cup asked[t] \subseteq tx[t].needs
    /\ first \subseteq {t \in Tasks : asked[t] # {}}

(***************************************************************************)
(* Tasks that wait for each other, round and round: PostgreSQL ends one.   *)
(* Who only waits for a member, or is only waited for, is not part of it.  *)
(***************************************************************************)
Knot(S) ==
    /\ S # {}
    /\ \A t \in S : (\E s \in S : Blocks(s, t)) /\ (\E s \in S : Blocks(t, s))

Kinds(S) == {tx[t].kind : t \in S}

(***************************************************************************)
(* All transactions but _deliver go down the foreign keys, so without a    *)
(* delivery only the order of rows in one table is left to tangle them,    *)
(* and that happens between a prune and a /logout alone (services.py       *)
(* 203-209 goes up, from the notification to the user).                    *)
(***************************************************************************)
TanglesNeedDelivery ==
    \A S \in SUBSET Tasks : Knot(S) =>
        "deliver" \in Kinds(S) \/ {"prune", "logout"} \subseteq Kinds(S)

(***************************************************************************)
(* As long as the user deletes nothing, nobody deadlocks: polls, first     *)
(* checks, deliveries, the invalidation, pauses, resumes, new rules and    *)
(* /auth never wait for each other in a circle.  When he does, a process,  *)
(* a pause or an /auth may be in one too, as the first in a row's queue.   *)
(***************************************************************************)
TanglesNeedDeletion ==
    \A S \in SUBSET Tasks : Knot(S) => Kinds(S) \cap {"delete", "logout"} # {}

=============================================================================
