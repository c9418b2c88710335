---------------------------- MODULE DonutClient ----------------------------
(***************************************************************************)
(* DonutApiClient._request_page (infrastructure/donut_api.py): the loop    *)
(* that takes a place in the limiter, sends one HTTP request and retries   *)
(* transient failures.  Several tasks run it at once for one token: the    *)
(* poll of its owner, and the owner's own commands.  They meet only in the *)
(* limiter, whose state this module inherits from RateLimiter.             *)
(***************************************************************************)
EXTENDS RateLimiter

CONSTANTS
    Tasks,         \* the tasks that may be in _request_page for this token
    Interactive,   \* those that serve a command rather than a poll
    MaxRetries     \* max_retries

ASSUME TasksAssumption == Interactive \subseteq Tasks /\ MaxRetries \in Nat

VARIABLES
    call,      \* where each task is in the loop
    sends,     \* history: the HTTP requests, oldest first
    asked,     \* history: until when the last 429s asked to be left alone
    lifted,    \* history: a 200 or a restart has come since the last of them
    barred,    \* history: tasks that a block, and no full window, refused last
    eased      \* history: those of them asleep when a 200 lifted their block

clientVars == <<call, sends, asked, lifted, barred, eased>>
vars == <<limiterVars, clientVars>>

Phases == {"idle", "acquiring", "sent", "backing_off"}

Idle == [phase |-> "idle", attempt |-> 0, wake |-> 0]

-----------------------------------------------------------------------------
\* Mistakes the properties are meant to notice.

\* A retry is sent again without asking the limiter.
AwakeResends(t) ==
    /\ call[t].phase = "backing_off"
    /\ call[t].wake <= clock
    /\ call' = [call EXCEPT ![t].phase = "sent"]
    /\ sends' = Append(sends, [at |-> clock, life |-> life])
    /\ UNCHANGED <<limiterVars, asked, lifted, barred, eased>>

\* Off by one in the last attempt.
FailOnceMore(t) ==
    /\ call[t].phase = "sent"
    /\ call[t].attempt <= MaxRetries
    /\ TransientError
    /\ call' = [call EXCEPT ![t] =
                  IF Overflows(consecutive_errors') THEN Idle
                  ELSE [phase   |-> "backing_off",
                        attempt |-> @.attempt + 1,
                        wake    |-> clock + Backoff(consecutive_errors')]]
    /\ UNCHANGED <<sends, asked, lifted, barred, eased>>

-----------------------------------------------------------------------------
ClientInit ==
    /\ Init
    /\ call = [t \in Tasks |-> Idle]
    /\ sends = << >>
    /\ asked = 0
    /\ lifted = FALSE
    /\ barred = {}
    /\ eased = {}

\* validate_token or a page of get_price enters the loop.
Begin(t) ==
    /\ call[t].phase = "idle"
    /\ call' = [call EXCEPT ![t] = [phase |-> "acquiring", attempt |-> 0, wake |-> clock]]
    /\ UNCHANGED <<limiterVars, sends, asked, lifted, barred, eased>>

Acquiring(t) == call[t].phase = "acquiring" /\ call[t].wake <= clock

Asleep(t) == call[t].phase = "acquiring" /\ clock < call[t].wake

\* acquire: try_acquire succeeds and the request goes out.
Send(t) ==
    /\ Acquiring(t)
    /\ Admit(t \in Interactive)
    /\ call' = [call EXCEPT ![t].phase = "sent"]
    /\ sends' = Append(sends, [at |-> clock, life |-> life])
    /\ barred' = barred \ {t}
    /\ eased' = eased \ {t}
    /\ UNCHANGED <<asked, lifted>>

\* acquire: try_acquire fails and the task sleeps for retry_after.
Wait(t) ==
    /\ Acquiring(t)
    /\ \E pruned \in Pruned :
          /\ Refuse(t \in Interactive, RetryAt(pruned))
          /\ call' = [call EXCEPT ![t].wake = RetryAt(pruned)]
    /\ barred' = IF Blocked THEN barred \union {t} ELSE barred \ {t}
    /\ eased' = eased \ {t}
    /\ UNCHANGED <<sends, asked, lifted>>

\* A well-formed 2xx.
Succeed(t) ==
    /\ call[t].phase = "sent"
    /\ Success
    /\ call' = [call EXCEPT ![t] = Idle]
    /\ lifted' = TRUE
    /\ eased' = eased \union {other \in barred : Asleep(other)}
    /\ UNCHANGED <<sends, asked, barred>>

\* 401, 403, another 4xx, or a body that is not what it should be: an error
\* for the caller of which the limiter hears nothing.
Reject(t) ==
    /\ call[t].phase = "sent"
    /\ call' = [call EXCEPT ![t] = Idle]
    /\ UNCHANGED <<limiterVars, sends, asked, lifted, barred, eased>>

\* 429 with its Retry-After: blocks the token, no retry.
TooManyRequests(t, seconds) ==
    /\ call[t].phase = "sent"
    /\ RateLimited(seconds)
    /\ call' = [call EXCEPT ![t] = Idle]
    /\ asked' = IF lifted THEN clock + seconds ELSE Larger(asked, clock + seconds)
    /\ lifted' = FALSE
    /\ UNCHANGED <<sends, barred, eased>>

\* A 5xx, a timeout or a connection error on the last attempt is raised ...
GiveUp(t) ==
    /\ call[t].phase = "sent"
    /\ call[t].attempt >= MaxRetries
    /\ call' = [call EXCEPT ![t] = Idle]
    /\ UNCHANGED <<limiterVars, sends, asked, lifted, barred, eased>>

\* ... and before that is recorded and slept over; an OverflowError in
\* record_transient_error leaves the loop.
Fail(t) ==
    /\ call[t].phase = "sent"
    /\ call[t].attempt < MaxRetries
    /\ TransientError
    /\ call' = [call EXCEPT ![t] =
                  IF Overflows(consecutive_errors') THEN Idle
                  ELSE [phase   |-> "backing_off",
                        attempt |-> @.attempt + 1,
                        wake    |-> clock + Backoff(consecutive_errors')]]
    /\ UNCHANGED <<sends, asked, lifted, barred, eased>>

\* The sleep is over; the next attempt starts with acquire.
Awake(t) ==
    /\ call[t].phase = "backing_off"
    /\ call[t].wake <= clock
    /\ call' = [call EXCEPT ![t].phase = "acquiring"]
    /\ UNCHANGED <<limiterVars, sends, asked, lifted, barred, eased>>

\* /status reads the remaining budget between two steps of the others.
Status == Query /\ UNCHANGED clientVars

ClientTick == Tick /\ UNCHANGED clientVars

\* The process ends, with whatever its tasks were about, and starts again.
ClientRestart ==
    /\ Restart
    /\ call' = [t \in Tasks |-> Idle]
    /\ lifted' = TRUE
    /\ barred' = {}
    /\ eased' = {}
    /\ UNCHANGED <<sends, asked>>

ClientNext ==
    \/ \E t \in Tasks :
          \/ Begin(t) \/ Send(t) \/ Wait(t)
          \/ Succeed(t) \/ Reject(t) \/ GiveUp(t) \/ Fail(t) \/ Awake(t)
          \/ \E seconds \in RetryAfters : TooManyRequests(t, seconds)
    \/ Status
    \/ ClientTick
    \/ ClientRestart

ClientSpec == ClientInit /\ [][ClientNext]_vars

-----------------------------------------------------------------------------
\* Types of the tasks in the loop.
ClientTypeOK ==
    /\ TypeOK
    /\ call \in [Tasks -> [phase : Phases, attempt : 0..MaxRetries, wake : Nat]]
    /\ sends \in Seq([at : Nat, life : Nat])
    /\ asked \in Nat
    /\ lifted \in BOOLEAN
    /\ barred \subseteq Tasks
    /\ eased \subseteq barred

(***************************************************************************)
(* Whatever mixture of retries, polls and commands, the server never sees  *)
(* more than HardLimit HTTP requests for a token within one window, and as *)
(* many again for each restart of the bot in that window, when the limiter *)
(* forgets what it has sent.                                               *)
(***************************************************************************)
ServerSeesLimit ==
    \A i, j \in 1..Len(sends) :
        i <= j /\ j - i >= Places(sends[j].life - sends[i].life)
            => sends[i].at + Window <= sends[j].at

(***************************************************************************)
(* A Retry-After is only ever cut short by a 200 that arrives during it,   *)
(* or by a restart: neither a transient error, a shorter Retry-After nor a *)
(* retry already under way sends a request before its end.                 *)
(***************************************************************************)
BackoffHolds == [][sends' # sends /\ ~lifted => clock >= asked]_vars

(***************************************************************************)
(* Nobody sleeps in acquire through a moment at which the limiter would    *)
(* let him pass: the time retry_after has told him is right for as long as *)
(* he sleeps, whatever others take, prune, block or are refused meanwhile. *)
(* The exception is a sleep for a block that a 200 lifts: acquire does not *)
(* hear of it and sleeps on.  A task that sleeps for a full window is      *)
(* excepted from nothing, whatever the others are answered meanwhile.      *)
(***************************************************************************)
NobodyOversleeps ==
    \A t \in Tasks \ eased :
        Asleep(t) =>
            Blocked \/ \A pruned \in Pruned : ~HasRoom(pruned, Limit(t \in Interactive))

-----------------------------------------------------------------------------
(***************************************************************************)
(* What the documentation says and the code does not do.                   *)
(***************************************************************************)

\* README.md:17, "isolated per-token backoff for `429`", and the test
\* test_429_honors_retry_after: no request before the end of the delay.
RetryAfterHonored == [][sends' # sends => clock >= asked]_vars

=============================================================================
