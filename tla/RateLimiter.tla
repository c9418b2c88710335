---------------------------- MODULE RateLimiter ----------------------------
(***************************************************************************)
(* PerTokenRateLimiter (infrastructure/rate_limiter.py) for one token.     *)
(* The limiter keeps one TokenLimitState per token key and nothing is      *)
(* shared between keys, so one key is the whole story.  No method awaits   *)
(* anything while it reads and writes the state (the asyncio.Lock of       *)
(* try_acquire guards a body without an await), so each call is one step.  *)
(*                                                                         *)
(* Here the calls come in any order from anyone; DonutClient makes them in *)
(* the order the HTTP client does.  The state lives in memory only: when   *)
(* the process is started again (compose.yaml, restart: unless-stopped)    *)
(* the limiter knows of no request, while the server's window goes on.     *)
(***************************************************************************)
EXTENDS Integers, Sequences

CONSTANTS
    MonitoringLimit,   \* requests of background polling per window
    HardLimit,         \* requests of any kind per window
    Window,            \* window_seconds
    MaximumBackoff,    \* `maximum` of record_transient_error
    MaxFloatExponent,  \* largest n for which float(2 ** n) is finite: 1023
    RetryAfters,       \* the Retry-After delays a server may ask for
    MaxErrors,         \* bound on the count of errors, for model checking
    MaxRestarts,       \* bound on the restarts, for model checking
    MaxTime            \* bound on the clock, for model checking

\* Checked by __init__; the window and the delays are durations.
ASSUME LimitsAssumption ==
    /\ MonitoringLimit \in Nat /\ HardLimit \in Nat
    /\ 0 < MonitoringLimit /\ MonitoringLimit <= HardLimit

ASSUME DurationsAssumption ==
    /\ Window \in Nat /\ MaximumBackoff \in Nat /\ MaxFloatExponent \in Nat
    /\ RetryAfters \subseteq Nat

VARIABLES
    requests,            \* the deque: times of the requests in the window
    blocked_until,
    consecutive_errors,
    clock,
    life,                \* history: how often the process was started again
    log                  \* history: every request ever admitted

limiterVars == <<requests, blocked_until, consecutive_errors, clock, life, log>>

Larger(a, b) == IF a >= b THEN a ELSE b
Smaller(a, b) == IF a <= b THEN a ELSE b

-----------------------------------------------------------------------------
\* Mistakes the properties are meant to notice.

\* Background polling may use the whole window.
LimitUnreserved(interactive) == HardLimit

\* A refused task waits for the youngest request of the window to leave it.
RetryAtLast(pruned) ==
    IF clock < blocked_until THEN blocked_until ELSE pruned[Len(pruned)] + Window

\* A new block replaces a longer one.
BlockReplaced(until) == blocked_until' = until

-----------------------------------------------------------------------------
\* `cutoff` has passed exactly the first p entries of the deque (_prune).
Expired(queue, now, p) ==
    /\ \A i \in 1..p : queue[i] <= now - Window
    /\ p < Len(queue) => queue[p + 1] > now - Window

\* What _prune leaves of the deque now (a set of one sequence).
Pruned ==
    {SubSeq(requests, p + 1, Len(requests)) :
        p \in {q \in 0..Len(requests) : Expired(requests, clock, q)}}

Limit(interactive) == IF interactive THEN HardLimit ELSE MonitoringLimit

HasRoom(queue, limit) == Len(queue) < limit

Blocked == clock < blocked_until

Init ==
    /\ requests = << >>
    /\ blocked_until = 0
    /\ consecutive_errors = 0
    /\ clock = 0
    /\ life = 0
    /\ log = << >>

\* try_acquire returning True.
Admit(interactive) ==
    \E pruned \in Pruned :
        /\ ~Blocked
        /\ HasRoom(pruned, Limit(interactive))
        /\ requests' = Append(pruned, clock)
        /\ log' = Append(log, [at |-> clock, interactive |-> interactive, life |-> life])
        /\ UNCHANGED <<blocked_until, consecutive_errors, clock, life>>

\* The time to which retry_after makes acquire sleep (10 ms at the least, which
\* is below the grain of the clock here).
RetryAt(pruned) == IF Blocked THEN blocked_until ELSE pruned[1] + Window

\* try_acquire returning False, and retry_after telling when to come back.
Refuse(interactive, retryAt) ==
    \E pruned \in Pruned :
        /\ Blocked \/ ~HasRoom(pruned, Limit(interactive))
        /\ retryAt = RetryAt(pruned)
        /\ requests' = pruned
        /\ UNCHANGED <<blocked_until, consecutive_errors, clock, life, log>>

\* remaining and budget_reset_at, which /status calls, only prune.
Query ==
    /\ requests' \in Pruned
    /\ UNCHANGED <<blocked_until, consecutive_errors, clock, life, log>>

Block(until) == blocked_until' = Larger(blocked_until, until)

\* The client calls block with the delay of a 429.
RateLimited(seconds) ==
    /\ Block(clock + seconds)
    /\ UNCHANGED <<requests, consecutive_errors, clock, life, log>>

Backoff(errors) == Smaller(2 ^ (errors - 1), MaximumBackoff)

(***************************************************************************)
(* record_transient_error.  The count is incremented first; float() of a   *)
(* power of two beyond the range of a double raises OverflowError, and     *)
(* then nothing is blocked.                                                *)
(***************************************************************************)
Overflows(errors) == errors - 1 > MaxFloatExponent

TransientError ==
    /\ consecutive_errors < MaxErrors
    /\ consecutive_errors' = consecutive_errors + 1
    /\ IF Overflows(consecutive_errors')
       THEN UNCHANGED blocked_until
       ELSE Block(clock + Backoff(consecutive_errors'))
    /\ UNCHANGED <<requests, clock, life, log>>

\* record_success
Success ==
    /\ consecutive_errors' = 0
    /\ blocked_until' = 0
    /\ UNCHANGED <<requests, clock, life, log>>

Tick ==
    /\ clock < MaxTime
    /\ clock' = clock + 1
    /\ UNCHANGED <<requests, blocked_until, consecutive_errors, life, log>>

\* The process ends and starts again: __init__ makes a limiter without states.
Restart ==
    /\ life < MaxRestarts
    /\ life' = life + 1
    /\ requests' = << >>
    /\ blocked_until' = 0
    /\ consecutive_errors' = 0
    /\ UNCHANGED <<clock, log>>

Next ==
    \/ \E interactive \in BOOLEAN :
          \/ Admit(interactive)
          \/ \E pruned \in Pruned : Refuse(interactive, RetryAt(pruned))
    \/ Query
    \/ \E seconds \in RetryAfters : RateLimited(seconds)
    \/ TransientError
    \/ Success
    \/ Tick
    \/ Restart

Spec == Init /\ [][Next]_limiterVars

-----------------------------------------------------------------------------
Request == [at : Nat, interactive : BOOLEAN, life : Nat]

\* Types of TokenLimitState, the clock and the history: the deque never holds
\* more than a window's worth of requests.
TypeOK ==
    /\ requests \in Seq(Nat) /\ Len(requests) <= HardLimit
    /\ blocked_until \in Nat
    /\ consecutive_errors \in Nat
    /\ clock \in Nat
    /\ life \in Nat
    /\ log \in Seq(Request)

\* How many requests a window may hold in which the process was started again so
\* many times.
Places(restarts) == HardLimit * (1 + restarts)

(***************************************************************************)
(* The sliding window is never overrun: a request and the one HardLimit    *)
(* places after it are a whole window apart, however the calls of          *)
(* commands and polls fall in time.  (The server's own limit is 250.)      *)
(* Each restart in between may add HardLimit requests, and no more.        *)
(***************************************************************************)
WindowBound ==
    \A i, j \in 1..Len(log) :
        i <= j /\ j - i >= Places(log[j].life - log[i].life)
            => log[i].at + Window <= log[j].at

(***************************************************************************)
(* Background polling never eats into the reserve: when a poll is let      *)
(* through, fewer than MonitoringLimit requests of any kind that this      *)
(* process has made are in the window, so HardLimit - MonitoringLimit      *)
(* places are left to commands.                                            *)
(***************************************************************************)
ReserveKept ==
    \A i, j \in 1..Len(log) :
        ~log[j].interactive /\ log[i].life = log[j].life /\ j - i >= MonitoringLimit
            => log[i].at + Window <= log[j].at

=============================================================================
