----------------------------- MODULE Scheduler -----------------------------
(***************************************************************************)
(* When the MonitoringCoordinator polls whom: the loop of run_forever, the *)
(* prune and the selection of run_once, the gather over the polls, their   *)
(* intervals and sleeps, start and stop with the bot, and the death of the *)
(* process.  What a poll does is module Monitor; here it sends requests,   *)
(* sleeps, and ends.                                                       *)
(*                                                                         *)
(* The unit of time is 1/safe_requests_per_minute of a second, so that the *)
(* interval of calculate_poll_interval is a whole number.  Moments are     *)
(* kept as the time left to them.  Time may pass between any two steps.    *)
(***************************************************************************)
EXTENDS Integers

CONSTANTS
    Users,
    MaxGroups,          \* bound on the (item, price type) groups of a user
    MaxSearchPages,     \* max_search_pages
    RequestTime,        \* 60 seconds / safe_requests_per_minute
    DefaultInterval,    \* default_poll_interval_seconds
    Pause,              \* the one second between cycles
    PruneInterval,      \* 86400 seconds
    Waits,              \* what the limiter and the retries may make a poll sleep
    Patience,           \* for how long others may be kept waiting
    MaxKills            \* bound on the deaths of the process

ASSUME SchedulerAssumption ==
    /\ MaxGroups \in Nat /\ MaxSearchPages \in Nat /\ RequestTime \in Nat \ {0}
    /\ DefaultInterval \in Nat /\ Pause \in Nat /\ PruneInterval \in Nat
    /\ Waits \subseteq Nat /\ Patience \in Nat /\ MaxKills \in Nat

VARIABLES
    watched,    \* groups of the user's enabled rules; 0 if the token is invalid
    pc,         \* where the monitoring task is; "off" when there is no process
    nextIn,     \* time to _next_poll_at, 0 when it is due
    pruneIn,    \* time to the next prune
    pauseIn,    \* what is left of the pause
    due,        \* the users who were due when the cycle began
    poll,       \* the poll of each user
    stopping,   \* _stopping
    kills,
    credit,     \* history: time since the last poll began, less RequestTime a request
    heldUp      \* history: time a due user has waited for nothing but others' sleep

loop == <<pc, pauseIn, stopping>>
vars == <<watched, loop, nextIn, pruneIn, due, poll, kills, credit, heldUp>>

Larger(a, b) == IF a >= b THEN a ELSE b
Smaller(a, b) == IF a <= b THEN a ELSE b
Less(n) == Larger(n - 1, 0)

Phases == {"off", "loop", "prune", "select", "gather", "pause", "ended"}

NoPoll == [phase |-> "none", left |-> 0, wait |-> 0, slept |-> FALSE]

MaxPages == Larger(MaxSearchPages, 1)
MaxCredit == MaxGroups * MaxPages * RequestTime

Running(u) == poll[u].phase # "none"
Asking(u) == poll[u].phase = "asking" /\ poll[u].left > 0 /\ poll[u].wait = 0
Sleeping(u) == poll[u].wait > 0

-----------------------------------------------------------------------------
\* Mistakes the properties are meant to notice.

\* The interval forgets that a group may take several pages.
PollIntervalOnePage(groups) == Larger(DefaultInterval, groups * RequestTime)

\* The interval leaves time for four attempts at every page.
PollIntervalOfAttempts(groups) == Larger(DefaultInterval, groups * MaxPages * 4 * RequestTime)

\* gather without return_exceptions: the first poll that ends ends it.
GatherEndsEarly ==
    /\ pc = "gather"
    /\ pc' = "pause" /\ pauseIn' = Pause
    /\ UNCHANGED <<watched, nextIn, pruneIn, due, poll, stopping, kills, credit, heldUp>>

\* run_forever does not catch what run_once raises.
CycleFailsUncaught ==
    /\ pc \in {"prune", "select"}
    /\ pc' = "ended" /\ pruneIn' = IF pc = "prune" THEN 0 ELSE pruneIn
    /\ UNCHANGED <<watched, pauseIn, nextIn, due, poll, stopping, kills, credit, heldUp>>

\* run_forever does not look at _stopping.
BeginCycleAlways ==
    /\ pc = "loop"
    /\ due' = {u \in Users : nextIn[u] = 0}
    /\ pc' = IF pruneIn = 0 THEN "prune" ELSE "select"
    /\ pruneIn' = IF pruneIn = 0 THEN PruneInterval ELSE pruneIn
    /\ UNCHANGED <<watched, pauseIn, nextIn, poll, stopping, kills, credit, heldUp>>

-----------------------------------------------------------------------------
\* calculate_poll_interval
PollInterval(groups) ==
    IF groups <= 0 THEN DefaultInterval
    ELSE Larger(DefaultInterval, groups * MaxPages * RequestTime)

Init ==
    /\ watched \in [Users -> 0..MaxGroups]
    /\ pc = "off" /\ pauseIn = 0 /\ stopping = FALSE
    /\ nextIn = [u \in Users |-> 0]
    /\ pruneIn = 0
    /\ due = {}
    /\ poll = [u \in Users |-> NoPoll]
    /\ kills = 0
    /\ credit = [u \in Users |-> 0]
    /\ heldUp = [u \in Users |-> 0]

-----------------------------------------------------------------------------
\* The task: start, run_forever and run_once.

\* A new process: main builds the coordinator, setup_hook starts it.
Start ==
    /\ pc = "off"
    /\ pc' = "loop" /\ stopping' = FALSE /\ pauseIn' = 0
    /\ nextIn' = [u \in Users |-> 0]
    /\ pruneIn' = 0
    /\ credit' = [u \in Users |-> 0]
    /\ heldUp' = [u \in Users |-> 0]
    /\ UNCHANGED <<watched, due, poll, kills>>

\* The clock is read once: a prune counts from here, and so does who is due.
BeginCycle ==
    /\ pc = "loop" /\ ~stopping
    /\ due' = {u \in Users : nextIn[u] = 0}
    /\ pc' = IF pruneIn = 0 THEN "prune" ELSE "select"
    /\ pruneIn' = IF pruneIn = 0 THEN PruneInterval ELSE pruneIn
    /\ UNCHANGED <<watched, pauseIn, nextIn, poll, stopping, kills, credit, heldUp>>

EndLoop ==
    /\ pc = "loop" /\ stopping
    /\ pc' = "ended"
    /\ UNCHANGED <<watched, pauseIn, nextIn, pruneIn, due, poll, stopping, kills, credit, heldUp>>

Prune ==
    /\ pc = "prune"
    /\ pc' = "select"
    /\ UNCHANGED <<watched, pauseIn, nextIn, pruneIn, due, poll, stopping, kills, credit, heldUp>>

\* The database fails: a prune that failed is due again, and nobody is polled.
CycleFails ==
    /\ pc \in {"prune", "select"}
    /\ pc' = "pause" /\ pauseIn' = Pause
    /\ pruneIn' = IF pc = "prune" THEN 0 ELSE pruneIn
    /\ UNCHANGED <<watched, nextIn, due, poll, stopping, kills, credit, heldUp>>

\* valid_users_with_rules, and a poll for each of those who are due.
Select ==
    /\ pc = "select"
    /\ pc' = "gather"
    /\ poll' = [u \in Users |->
                   IF u \in due /\ watched[u] > 0
                   THEN [NoPoll EXCEPT !.phase = "listed", !.left = watched[u]]
                   ELSE poll[u]]
    /\ UNCHANGED <<watched, pauseIn, nextIn, pruneIn, due, stopping, kills, credit, heldUp>>

GatherEnds ==
    /\ pc = "gather"
    /\ \A u \in Users : ~Running(u)
    /\ pc' = "pause" /\ pauseIn' = Pause
    /\ UNCHANGED <<watched, nextIn, pruneIn, due, poll, stopping, kills, credit, heldUp>>

\* wait_for(_stopping.wait(), 1)
Resume ==
    /\ pc = "pause"
    /\ pauseIn = 0 \/ stopping
    /\ pc' = "loop" /\ pauseIn' = 0
    /\ UNCHANGED <<watched, nextIn, pruneIn, due, poll, stopping, kills, credit, heldUp>>

-----------------------------------------------------------------------------
\* A poll.

StartPoll(u) ==
    /\ poll[u].phase = "listed"
    /\ poll' = [poll EXCEPT ![u].phase = "asking"]
    /\ nextIn' = [nextIn EXCEPT ![u] = PollInterval(poll[u].left)]
    /\ credit' = [credit EXCEPT ![u] = 0]
    /\ heldUp' = [heldUp EXCEPT ![u] = 0]
    /\ UNCHANGED <<watched, loop, pruneIn, due, kills>>

\* acquire has to wait, for the window or a Retry-After, or an attempt is
\* repeated after a pause; once for each group.
Delay(u) ==
    /\ Asking(u) /\ ~poll[u].slept
    /\ \E seconds \in Waits :
          poll' = [poll EXCEPT ![u].wait = seconds, ![u].slept = TRUE]
    /\ UNCHANGED <<watched, loop, nextIn, pruneIn, due, kills, credit, heldUp>>

\* Requests are counted once, however often they are repeated.
Send(u, n) == credit' = [credit EXCEPT ![u] = @ - n * RequestTime]

\* get_price returns, or raises a DonutApiError and the poll goes on.
Answer(u) ==
    /\ Asking(u)
    /\ poll' = [poll EXCEPT ![u].left = @ - 1, ![u].slept = FALSE]
    /\ \E n \in 1..MaxPages : Send(u, n)
    /\ UNCHANGED <<watched, loop, nextIn, pruneIn, due, kills, heldUp>>

\* A token that is refused, or cannot be decrypted: _invalidate_user.
Refused(u) ==
    /\ Asking(u)
    /\ poll' = [poll EXCEPT ![u] = NoPoll]
    /\ watched' = [watched EXCEPT ![u] = 0]
    /\ \E n \in 0..MaxPages : Send(u, n)
    /\ UNCHANGED <<loop, nextIn, pruneIn, due, kills, heldUp>>

\* Any other exception; gather keeps it.
PollFails(u) ==
    /\ Asking(u)
    /\ poll' = [poll EXCEPT ![u] = NoPoll]
    /\ \E n \in 0..MaxPages : Send(u, n)
    /\ UNCHANGED <<watched, loop, nextIn, pruneIn, due, kills, heldUp>>

\* All groups are done; mark_api_success may fail.
PollEnds(u) ==
    /\ poll[u].phase = "asking" /\ poll[u].left = 0
    /\ poll' = [poll EXCEPT ![u] = NoPoll]
    /\ UNCHANGED <<watched, loop, nextIn, pruneIn, due, kills, credit, heldUp>>

PollStep(u) == StartPoll(u) \/ Delay(u) \/ Answer(u) \/ Refused(u) \/ PollFails(u) \/ PollEnds(u)

-----------------------------------------------------------------------------
\* The world around it.

\* DonutBot.close sets _stopping and waits for the task.
Close ==
    /\ pc # "off" /\ ~stopping
    /\ stopping' = TRUE
    /\ UNCHANGED <<watched, pc, pauseIn, nextIn, pruneIn, due, poll, kills, credit, heldUp>>

\* The task has ended: the HTTP client and the database are closed.
Closed ==
    /\ pc = "ended" /\ stopping
    /\ pc' = "off"
    /\ UNCHANGED <<watched, pauseIn, nextIn, pruneIn, due, poll, stopping, kills, credit, heldUp>>

\* The process dies; memory is lost.
Kill ==
    /\ pc # "off" /\ kills < MaxKills
    /\ kills' = kills + 1
    /\ pc' = "off"
    /\ poll' = [u \in Users |-> NoPoll]
    /\ UNCHANGED <<watched, pauseIn, nextIn, pruneIn, due, stopping, credit, heldUp>>

\* Commands change the user's rules or his token.
Watch(u) ==
    /\ \E groups \in 0..MaxGroups : watched' = [watched EXCEPT ![u] = groups]
    /\ heldUp' = IF watched'[u] = 0 THEN [heldUp EXCEPT ![u] = 0] ELSE heldUp
    /\ UNCHANGED <<loop, nextIn, pruneIn, due, poll, kills, credit>>

\* u waits for the end of a gather that only sleeps.
HeldUp(u) ==
    /\ pc = "gather" /\ ~Running(u)
    /\ watched[u] > 0 /\ nextIn[u] = 0
    /\ \A v \in Users : Running(v) => Sleeping(v)
    /\ \E v \in Users : Sleeping(v)

Tick ==
    /\ nextIn' = [u \in Users |-> Less(nextIn[u])]
    /\ pruneIn' = Less(pruneIn)
    /\ pauseIn' = Less(pauseIn)
    /\ poll' = [u \in Users |-> [poll[u] EXCEPT !.wait = Less(@)]]
    /\ credit' = [u \in Users |-> Smaller(credit[u] + 1, MaxCredit)]
    /\ heldUp' = [u \in Users |->
                     IF HeldUp(u) THEN Smaller(heldUp[u] + 1, Patience + 1) ELSE heldUp[u]]
    /\ UNCHANGED <<watched, pc, due, stopping, kills>>

Next ==
    \/ Start \/ BeginCycle \/ EndLoop \/ Prune \/ CycleFails \/ Select \/ GatherEnds \/ Resume
    \/ \E u \in Users : PollStep(u)
    \/ Close \/ Closed \/ Kill
    \/ \E u \in Users : Watch(u)
    \/ Tick

(***************************************************************************)
(* The event loop runs every task that can run and time passes; the        *)
(* process is started again when it is gone; the database, however often   *)
(* it fails, now and then lets a prune and a selection through.            *)
(***************************************************************************)
Fairness ==
    /\ WF_vars(Start) /\ WF_vars(BeginCycle) /\ WF_vars(EndLoop)
    /\ SF_vars(Prune) /\ SF_vars(Select)
    /\ WF_vars(GatherEnds) /\ WF_vars(Resume) /\ WF_vars(Closed)
    /\ \A u \in Users : WF_vars(PollStep(u))
    /\ WF_vars(Tick)

Spec == Init /\ [][Next]_vars

FairSpec == Spec /\ Fairness

-----------------------------------------------------------------------------
\* Types; a poll of nobody's groups, or one sleeping with none left, is no poll.
TypeOK ==
    /\ watched \in [Users -> 0..MaxGroups]
    /\ pc \in Phases /\ pauseIn \in 0..Pause /\ stopping \in BOOLEAN
    /\ nextIn \in [Users -> 0..Larger(DefaultInterval, MaxCredit)]
    /\ pruneIn \in 0..PruneInterval
    /\ due \subseteq Users
    /\ poll \in [Users -> [phase : {"none", "listed", "asking"}, left : 0..MaxGroups,
                           wait : Nat, slept : BOOLEAN]]
    /\ kills \in 0..MaxKills
    /\ credit \in [Users -> Int]
    /\ heldUp \in [Users -> 0..(Patience + 1)]

(***************************************************************************)
(* A poll lives in the gather of the cycle that started it: it has ended   *)
(* before the task prunes, selects or pauses again, and before the HTTP    *)
(* client and the database are closed, whatever failed and however long    *)
(* it slept (monitoring.py 86-89, 56-60; bot.py 30-35).                    *)
(***************************************************************************)
PollsLiveInTheirCycle == \A u \in Users : Running(u) => pc = "gather"

(***************************************************************************)
(* Polls keep to safe_requests_per_minute by themselves: when the poll of  *)
(* a user is about to begin, the time since his last one began covers all  *)
(* requests it sent, RequestTime for each, retries aside                   *)
(* (rate_limiter.py 100-109).                                              *)
(***************************************************************************)
BudgetKept == \A u \in Users : poll[u].phase = "listed" => credit[u] >= 0

(***************************************************************************)
(* Every user with a valid token and an enabled rule is polled again and   *)
(* again, through failing polls, cycles and prunes and through restarts,   *)
(* until his rules or his token are gone or the bot is told to stop.       *)
(***************************************************************************)
EveryUserPolled ==
    \A u \in Users :
        watched[u] > 0 ~> (poll[u].phase = "asking" \/ watched[u] = 0 \/ stopping)

\* close returns: the task sees _stopping after its polls and ends.
StopReturns == stopping ~> pc = "off"

(***************************************************************************)
(* "A failure in one token group does not stop any other group"            *)
(* (src/README.md:35): a user who is due is not kept from his poll for     *)
(* longer than Patience by others who sleep.                               *)
(***************************************************************************)
NoGroupStopsAnother == \A u \in Users : heldUp[u] <= Patience

=============================================================================
