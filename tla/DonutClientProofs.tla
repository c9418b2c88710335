------------------------- MODULE DonutClientProofs -------------------------
(***************************************************************************)
(* What is proved of the limiter, and then of the HTTP client, which uses  *)
(* it the way RateLimiter allows: what holds of the limiter carries over   *)
(* to what the server sees.                                                *)
(***************************************************************************)
EXTENDS DonutClient, TLAPS, SequenceTheorems, FiniteSetTheorems

-----------------------------------------------------------------------------
(***************************************************************************)
(* The window and the reserve of the limiter, for all limits, windows and  *)
(* orders of calls.  The inductive invariant ties the deque, which forgets *)
(* requests, to the history, which does not: the deque is the end of the   *)
(* history, and what it has forgotten is at least a window old, or of a    *)
(* process before this one.                                                *)
(***************************************************************************)
Forgotten == Len(log) - Len(requests)

DequeEndsLog ==
    /\ Len(requests) <= Len(log)
    /\ \A i \in 1..Len(requests) : requests[i] = log[Forgotten + i].at

ForgottenIsOld ==
    \A i \in 1..Len(log) :
        i <= Forgotten => log[i].life # life \/ log[i].at + Window <= clock

LogInOrder ==
    /\ \A i \in 1..Len(log) : log[i].at <= clock /\ log[i].life <= life
    /\ \A i, j \in 1..Len(log) :
          i <= j => log[i].at <= log[j].at /\ log[i].life <= log[j].life

Typed ==
    /\ requests \in Seq(Nat)
    /\ clock \in Nat
    /\ life \in Nat
    /\ log \in Seq(Request)

Inv ==
    /\ Typed /\ DequeEndsLog /\ ForgottenIsOld /\ LogInOrder
    /\ WindowBound /\ ReserveKept

-----------------------------------------------------------------------------
\* An element of a sequence over S is in S.
LEMMA ElementType ==
    ASSUME NEW S, NEW l \in Seq(S), NEW i \in 1..Len(l)
    PROVE  l[i] \in S
OBVIOUS

\* The times in the history are times, and the lives are counted.
LEMMA LogTimes ==
    ASSUME NEW l \in Seq(Request), NEW i \in 1..Len(l)
    PROVE  l[i].at \in Nat /\ l[i].life \in Nat
<1>1. l[i] \in Request
  BY ElementType
<1> QED BY <1>1 DEF Request

\* A window without a restart in it has room for HardLimit requests.
LEMMA PlacesOfOneLife == Places(0) = HardLimit
<1>1. \A h \in Nat : h * (1 + 0) = h
  OBVIOUS
<1> QED BY <1>1, LimitsAssumption, Zenon DEF Places

\* One with more restarts in it has room for more requests.
LEMMA PlacesGrow ==
    ASSUME NEW a \in Int, NEW b \in Int, a <= b
    PROVE  Places(a) \in Int /\ Places(b) \in Int /\ Places(a) <= Places(b)
<1>1. 1 + a \in Int /\ 1 + b \in Int /\ 1 + a <= 1 + b /\ HardLimit \in Nat
  BY LimitsAssumption
<1>2. ASSUME NEW h \in Nat, NEW x \in Int, NEW y \in Int, x <= y
      PROVE  h * x \in Int /\ h * y \in Int /\ h * x <= h * y
  BY <1>2
<1> QED BY <1>1, <1>2, Zenon DEF Places

\* Each restart adds HardLimit places.
LEMMA PlacesPerLife ==
    ASSUME NEW a \in Int
    PROVE  Places(a) \in Int /\ Places(a - 1) \in Int /\ Places(a) = HardLimit + Places(a - 1)
<1>1. 1 + (a - 1) = a /\ HardLimit \in Nat
  BY LimitsAssumption
<1>2. ASSUME NEW h \in Nat, NEW y \in Int
      PROVE  h * y \in Int /\ h * (1 + y) \in Int /\ h * (1 + y) = h + h * y
  OBVIOUS
<1>3. Places(a - 1) = HardLimit * a
  BY <1>1, Zenon DEF Places
<1>4. HardLimit * a \in Int /\ HardLimit * (1 + a) \in Int
      /\ HardLimit * (1 + a) = HardLimit + HardLimit * a
  BY <1>1, <1>2, Zenon
<1> QED BY <1>3, <1>4, Zenon DEF Places

\* Pruning keeps the end of the deque and forgets only what is old.
LEMMA PrunedFacts ==
    ASSUME Inv, NEW pruned \in Pruned
    PROVE  /\ pruned \in Seq(Nat)
           /\ Len(pruned) <= Len(log)
           /\ \A i \in 1..Len(pruned) : pruned[i] = log[Len(log) - Len(pruned) + i].at
           /\ \A i \in 1..Len(log) :
                 i <= Len(log) - Len(pruned)
                     => log[i].life # life \/ log[i].at + Window <= clock
<1> /\ requests \in Seq(Nat) /\ clock \in Nat /\ Window \in Nat
    /\ log \in Seq(Request)
  BY DurationsAssumption DEF Inv, Typed
<1>1. PICK p \in 0..Len(requests) :
         /\ Expired(requests, clock, p)
         /\ pruned = SubSeq(requests, p + 1, Len(requests))
  BY DEF Pruned
<1>2. /\ pruned \in Seq(Nat)
      /\ Len(pruned) = Len(requests) - p
      /\ \A i \in 1..Len(pruned) : pruned[i] = requests[p + i]
  BY <1>1
<1>3. /\ Len(requests) <= Len(log)
      /\ \A i \in 1..Len(requests) :
            requests[i] = log[Len(log) - Len(requests) + i].at
  BY DEF Inv, DequeEndsLog, Forgotten
<1>4. ASSUME NEW i \in 1..Len(pruned)
      PROVE  pruned[i] = log[Len(log) - Len(pruned) + i].at
  <2>1. p + i \in 1..Len(requests) /\ pruned[i] = requests[p + i]
    BY <1>2
  <2>2. requests[p + i] = log[Len(log) - Len(requests) + (p + i)].at
    BY <1>3, <2>1
  <2>3. Len(log) - Len(requests) + (p + i) = Len(log) - Len(pruned) + i
    BY <1>2, <1>3
  <2> QED BY <2>1, <2>2, <2>3
<1>5. ASSUME NEW i \in 1..Len(log), i <= Len(log) - Len(pruned)
      PROVE  log[i].life # life \/ log[i].at + Window <= clock
  <2>1. CASE i <= Len(log) - Len(requests)
    BY <2>1 DEF Inv, ForgottenIsOld, Forgotten
  <2>2. CASE i > Len(log) - Len(requests)
    <3> DEFINE k == i - (Len(log) - Len(requests))
    <3>1. k \in 1..p /\ k \in 1..Len(requests)
      BY <1>1, <1>2, <1>3, <1>5, <2>2
    <3>2. requests[k] = log[i].at
      BY <1>3, <3>1
    <3>3. requests[k] <= clock - Window
      BY <1>1, <3>1 DEF Expired
    <3>4. log[i].at \in Nat
      BY LogTimes
    <3> QED BY <3>2, <3>3, <3>4
  <2> QED BY <2>1, <2>2
<1> QED BY <1>2, <1>3, <1>4, <1>5

\* The inductive invariant holds initially.
LEMMA InitInv == Init => Inv
BY DEF Init, Inv, Typed, DequeEndsLog, Forgotten, ForgottenIsOld, LogInOrder,
       WindowBound, ReserveKept

\* The window before a request let through now: of each process at most as many
\* requests as there are places, of this one those the deque still holds.
LEMMA AdmittedWindow ==
    ASSUME Inv, NEW pruned \in Pruned, Len(pruned) < HardLimit,
           NEW i \in 1..Len(log), clock < log[i].at + Window
    PROVE  Len(log) + 1 - i < Places(life - log[i].life)
<1> DEFINE q == Len(log) - Len(pruned)
           d == life - log[i].life
<1>1. /\ Len(log) \in Nat /\ Len(pruned) \in Nat /\ q \in Nat
      /\ HardLimit \in Nat /\ Window \in Nat
  BY PrunedFacts, LenProperties, LimitsAssumption, DurationsAssumption DEF Inv, Typed
<1>2. log[i].at \in Nat /\ log[i].life \in Nat /\ clock \in Nat /\ life \in Nat
  BY LogTimes DEF Inv, Typed
<1>3. d \in Nat
  BY <1>2 DEF Inv, LogInOrder
<1>4. CASE q < i
  <2>1. Len(log) + 1 - i <= Len(pruned)
    BY <1>1, <1>4
  <2> HIDE DEF d
  <2>2. 0 \in Int /\ d \in Int /\ 0 <= d
    BY <1>3
  <2>3. HardLimit <= Places(d) /\ Places(d) \in Int
    BY <2>2, PlacesGrow, PlacesOfOneLife, Zenon
  <2> USE DEF d
  <2>4. Len(log) + 1 - i < Places(d)
    <3> HIDE DEF d
    <3> QED BY <1>1, <2>1, <2>3
  <2> QED BY <2>4
<1>5. CASE i <= q
  <2>1. q \in 1..Len(log) /\ q <= Len(log) - Len(pruned)
    BY <1>1, <1>5
  <2>2. Len(log) + 1 - i <= Len(pruned) + 1 + (q - i)
    BY <1>1
  <2>3. log[q].life # life \/ log[q].at + Window <= clock
    BY <2>1, PrunedFacts
  <2> HIDE DEF q
  <2>4. log[q].at \in Nat /\ log[q].life \in Nat
    BY <2>1, LogTimes DEF Inv, Typed
  <2>5. /\ log[i].at <= log[q].at /\ log[q].at <= clock
        /\ log[i].life <= log[q].life /\ log[q].life <= life
    BY <1>5, <2>1 DEF Inv, LogInOrder
  <2>6. log[q].life # life /\ ~(log[i].at + Window <= log[q].at)
    BY <1>1, <1>2, <2>3, <2>4, <2>5
  <2> DEFINE e == log[q].life - log[i].life
  <2>7. ~(q - i >= Places(e))
    BY <1>5, <2>1, <2>6 DEF Inv, WindowBound
  <2>8. e \in Int /\ d \in Int /\ d - 1 \in Int /\ e <= d - 1
    <3>1. log[q].life <= life /\ log[q].life # life
      BY <2>5, <2>6
    <3>2. \A x, y, z \in Nat :
             y <= z /\ y # z => /\ y - x \in Int /\ z - x \in Int /\ (z - x) - 1 \in Int
                               /\ y - x <= (z - x) - 1
      OBVIOUS
    <3> QED BY <1>2, <2>4, <3>1, <3>2, Zenon
  <2> HIDE DEF d, e
  <2>9. /\ Places(e) \in Int /\ Places(d - 1) \in Int
        /\ Places(e) <= Places(d - 1)
        /\ Places(d) = HardLimit + Places(d - 1)
    BY <2>8, PlacesGrow, PlacesPerLife, Zenon
  <2>10. Len(log) + 1 - i < Places(d)
    BY <1>1, <2>1, <2>2, <2>7, <2>9
  <2> QED BY <2>10 DEF d
<1> QED BY <1>1, <1>4, <1>5

\* A request let through finds the one a limit before it a window old.
LEMMA AdmitInv ==
    ASSUME Inv, NEW interactive \in BOOLEAN, Admit(interactive)
    PROVE  Inv'
<1> DEFINE entry == [at |-> clock, interactive |-> interactive, life |-> life]
<1> /\ requests \in Seq(Nat) /\ clock \in Nat /\ life \in Nat /\ Window \in Nat
    /\ log \in Seq(Request)
    /\ MonitoringLimit \in Nat /\ HardLimit \in Nat /\ MonitoringLimit <= HardLimit
    /\ MonitoringLimit > 0
  BY DurationsAssumption, LimitsAssumption DEF Inv, Typed
<1>1. PICK pruned \in Pruned :
         /\ HasRoom(pruned, Limit(interactive))
         /\ requests' = Append(pruned, clock)
         /\ log' = Append(log, entry)
         /\ UNCHANGED <<blocked_until, consecutive_errors, clock, life>>
  BY DEF Admit
<1>2. /\ pruned \in Seq(Nat)
      /\ Len(pruned) <= Len(log)
      /\ \A i \in 1..Len(pruned) : pruned[i] = log[Len(log) - Len(pruned) + i].at
      /\ \A i \in 1..Len(log) :
            i <= Len(log) - Len(pruned)
                => log[i].life # life \/ log[i].at + Window <= clock
  BY PrunedFacts
<1>3. /\ Len(requests') = Len(pruned) + 1
      /\ requests' \in Seq(Nat)
      /\ \A i \in 1..Len(pruned) : requests'[i] = pruned[i]
      /\ requests'[Len(pruned) + 1] = clock
  BY <1>1, <1>2
<1>4. /\ Len(log') = Len(log) + 1
      /\ log' \in Seq(Request)
      /\ \A i \in 1..Len(log) : log'[i] = log[i]
      /\ log'[Len(log) + 1] = entry
  <2>1. entry \in Request
    BY DEF Request
  <2> HIDE DEF entry
  <2> QED BY <1>1, <2>1
<1>5. Typed'
  BY <1>1, <1>3, <1>4 DEF Inv, Typed
<1>6. DequeEndsLog'
  <2> DEFINE d == Len(log) - Len(pruned)
  <2>0. d \in Nat /\ Len(log') - Len(requests') = d
    BY <1>2, <1>3, <1>4
  <2>1. Len(requests') <= Len(log')
    BY <1>2, <1>3, <1>4
  <2> HIDE DEF d
  <2> SUFFICES ASSUME NEW i \in 1..Len(requests')
               PROVE  requests'[i] = log'[d + i].at
    BY <2>0, <2>1 DEF DequeEndsLog, Forgotten
  <2> USE DEF d
  <2>3. CASE i <= Len(pruned)
    <3>1. i \in 1..Len(pruned) /\ d + i \in 1..Len(log)
      BY <1>2, <2>3
    <3>2. requests'[i] = pruned[i] /\ log'[d + i] = log[d + i]
      BY <1>3, <1>4, <3>1
    <3>3. pruned[i] = log[d + i].at
      BY <1>2, <3>1
    <3> QED BY <3>2, <3>3
  <2>2. CASE i = Len(pruned) + 1
    BY <1>2, <1>3, <1>4, <2>2
  <2> QED BY <1>3, <2>3, <2>2
<1>7. ForgottenIsOld'
  <2> SUFFICES ASSUME NEW i \in 1..Len(log'), i <= Len(log') - Len(requests')
               PROVE  log'[i].life # life \/ log'[i].at + Window <= clock
    BY <1>1 DEF ForgottenIsOld, Forgotten
  <2>1. i \in 1..Len(log) /\ i <= Len(log) - Len(pruned)
    <3>1. Len(pruned) \in Nat /\ Len(log) \in Nat
      BY <1>2, LenProperties
    <3>2. Len(log') = Len(log) + 1 /\ Len(requests') = Len(pruned) + 1
      BY <1>3, <1>4
    <3> QED BY <3>1, <3>2
  <2>2. log'[i] = log[i]
    BY <1>4, <2>1
  <2> QED BY <1>2, <2>1, <2>2
<1>8. Len(pruned) < HardLimit /\ (~interactive => Len(pruned) < MonitoringLimit)
  BY <1>1, <1>2 DEF HasRoom, Limit
<1>9. ASSUME NEW i \in 1..Len(log'), NEW j \in 1..Len(log')
      PROVE  /\ i \in 1..Len(log) \/ i = Len(log) + 1
             /\ j \in 1..Len(log) \/ j = Len(log) + 1
             /\ i \in 1..Len(log) => log'[i] = log[i]
             /\ j \in 1..Len(log) => log'[j] = log[j]
             /\ j = Len(log) + 1
                    => /\ log'[j].at = clock /\ log'[j].life = life
                       /\ log'[j].interactive = interactive
  BY <1>4
<1>10. LogInOrder'
  <2>1. ASSUME NEW i \in 1..Len(log'), NEW j \in 1..Len(log'), i <= j
        PROVE  /\ log'[i].at <= log'[j].at /\ log'[i].life <= log'[j].life
               /\ log'[j].at <= clock /\ log'[j].life <= life
    <3>1. CASE j \in 1..Len(log)
      <4>1. i \in 1..Len(log)
        BY <1>9, <2>1, <3>1
      <4>2. LogInOrder /\ log'[i] = log[i] /\ log'[j] = log[j]
        BY <1>9, <3>1, <4>1 DEF Inv
      <4>3. /\ log[i].at <= log[j].at /\ log[i].life <= log[j].life
            /\ log[j].at <= clock /\ log[j].life <= life
        BY <2>1, <3>1, <4>1, <4>2, Zenon DEF LogInOrder
      <4> QED BY <4>2, <4>3, Zenon
    <3>2. CASE j = Len(log) + 1 /\ i \in 1..Len(log)
      <4>1. log[i].at <= clock /\ log[i].life <= life
        BY <3>2 DEF Inv, LogInOrder
      <4> QED BY <1>9, <3>2, <4>1
    <3>3. CASE j = Len(log) + 1 /\ i = Len(log) + 1
      BY <1>9, <3>3
    <3> QED BY <1>9, <3>1, <3>2, <3>3
  <2> QED BY <1>1, <2>1 DEF LogInOrder
<1>11. WindowBound'
  <2> SUFFICES ASSUME NEW i \in 1..Len(log'), NEW j \in 1..Len(log'), i <= j,
                      j - i >= Places(log'[j].life - log'[i].life)
               PROVE  log'[i].at + Window <= log'[j].at
    BY DEF WindowBound, Places
  <2>1. CASE i \in 1..Len(log) /\ j \in 1..Len(log)
    BY <1>9, <2>1 DEF Inv, WindowBound
  <2>2. CASE i \in 1..Len(log) /\ j = Len(log) + 1
    <3>1. log'[j].at = clock /\ log'[j].life = life /\ log'[i] = log[i]
      BY <1>9, <2>2
    <3>2. log[i].at \in Nat /\ log[i].life \in Nat
      BY <2>2, LogTimes
    <3>3. ~(clock < log[i].at + Window)
      <4> SUFFICES ASSUME clock < log[i].at + Window PROVE FALSE
        OBVIOUS
      <4>1. Len(log) + 1 - i < Places(life - log[i].life)
        <5>1. Len(pruned) < HardLimit /\ i \in 1..Len(log)
          BY <1>8, <2>2
        <5> QED BY <5>1, AdmittedWindow
      <4>2. Len(log) + 1 - i >= Places(life - log[i].life)
        <5>1. log'[j].life - log'[i].life = life - log[i].life
          BY <3>1, Zenon
        <5>2. j = Len(log) + 1
          BY <2>2, Zenon
        <5>3. j - i >= Places(life - log[i].life)
          BY <5>1, Zenon
        <5> QED BY <5>2, <5>3
      <4>3. life - log[i].life \in Int
        BY <3>2
      <4>4. Places(life - log[i].life) \in Int
        BY <4>3, PlacesPerLife, Zenon
      <4> QED BY <2>2, <4>1, <4>2, <4>4
    <3>4. \A a, b, w \in Nat : ~(b < a + w) => a + w <= b
      OBVIOUS
    <3>5. log[i].at + Window <= clock
      BY <3>2, <3>3, <3>4, Zenon
    <3> QED BY <3>1, <3>5, Zenon
  <2>3. CASE i = Len(log) + 1
    <3>1. j = i /\ log'[i].life \in Nat
      BY <1>4, <1>9, <2>3, LogTimes
    <3>2. log'[j].life - log'[i].life = 0 /\ j - i = 0
      BY <3>1
    <3> QED BY <3>2, PlacesOfOneLife
  <2> QED BY <1>9, <2>1, <2>2, <2>3
<1>12. ReserveKept'
  <2> SUFFICES ASSUME NEW i \in 1..Len(log'), NEW j \in 1..Len(log'),
                      ~log'[j].interactive, log'[i].life = log'[j].life,
                      j - i >= MonitoringLimit
               PROVE  log'[i].at + Window <= log'[j].at
    BY DEF ReserveKept
  <2>1. CASE i \in 1..Len(log) /\ j \in 1..Len(log)
    BY <1>9, <2>1 DEF Inv, ReserveKept
  <2>2. CASE i \in 1..Len(log) /\ j = Len(log) + 1
    <3>1. /\ log'[j].at = clock /\ log'[i] = log[i] /\ log[i].life = life
          /\ ~interactive
      BY <1>9, <2>2
    <3>2. i <= Len(log) - Len(pruned)
      BY <1>2, <1>8, <2>2, <3>1
    <3> QED BY <1>2, <2>2, <3>1, <3>2
  <2>3. CASE i = Len(log) + 1
    BY <1>4, <2>3
  <2> QED BY <1>9, <2>1, <2>2, <2>3
<1> QED BY <1>5, <1>6, <1>7, <1>10, <1>11, <1>12 DEF Inv

\* Pruning alone, on a refusal or a query, changes nothing that matters.
LEMMA PruneInv ==
    ASSUME Inv, requests' \in Pruned, UNCHANGED <<clock, life, log>>
    PROVE  Inv'
<1>1. /\ requests' \in Seq(Nat)
      /\ Len(requests') <= Len(log)
      /\ \A i \in 1..Len(requests') :
            requests'[i] = log[Len(log) - Len(requests') + i].at
      /\ \A i \in 1..Len(log) :
            i <= Len(log) - Len(requests')
                => log[i].life # life \/ log[i].at + Window <= clock
  BY PrunedFacts
<1> QED BY <1>1 DEF Inv, Typed, DequeEndsLog, ForgottenIsOld, Forgotten,
                    LogInOrder, WindowBound, ReserveKept

\* A new process remembers nothing: all of the history is of earlier ones.
LEMMA RestartInv ==
    ASSUME Inv, Restart
    PROVE  Inv'
<1>1. /\ requests' = << >> /\ Len(requests') = 0 /\ requests' \in Seq(Nat)
      /\ life' = life + 1 /\ life \in Nat /\ life' \in Nat
      /\ clock' = clock /\ log' = log /\ Len(log) \in Nat
  BY EmptySeq, LenProperties DEF Restart, Inv, Typed
<1>2. Typed'
  BY <1>1 DEF Inv, Typed
<1>3. DequeEndsLog'
  BY <1>1 DEF DequeEndsLog
<1>4. ASSUME NEW i \in 1..Len(log)
      PROVE  log[i].life \in Nat /\ log[i].life <= life
  BY LogTimes DEF Inv, Typed, LogInOrder
<1>5. ForgottenIsOld'
  BY <1>1, <1>4 DEF ForgottenIsOld
<1>6. LogInOrder'
  BY <1>1, <1>4 DEF Inv, LogInOrder
<1>7. WindowBound'
  BY <1>1 DEF Inv, WindowBound
<1>8. ReserveKept'
  BY <1>1 DEF Inv, ReserveKept
<1> QED BY <1>2, <1>3, <1>5, <1>6, <1>7, <1>8 DEF Inv

\* Every step keeps the invariant.
LEMMA NextInv == Inv /\ [Next]_limiterVars => Inv'
<1> SUFFICES ASSUME Inv, [Next]_limiterVars PROVE Inv'
  OBVIOUS
<1> requests \in Seq(Nat) /\ clock \in Nat /\ Window \in Nat
  BY DurationsAssumption DEF Inv, Typed
<1>1. ASSUME NEW interactive \in BOOLEAN, Admit(interactive)
      PROVE  Inv'
  BY <1>1, AdmitInv
<1>2. ASSUME NEW interactive \in BOOLEAN, NEW retryAt, Refuse(interactive, retryAt)
      PROVE  Inv'
  BY <1>2, PruneInv DEF Refuse
<1>3. CASE Query
  BY <1>3, PruneInv DEF Query
<1>4. CASE UNCHANGED <<requests, clock, life, log>>
  BY <1>4 DEF Inv, Typed, DequeEndsLog, ForgottenIsOld, Forgotten, LogInOrder,
              WindowBound, ReserveKept
<1>5. ASSUME NEW seconds \in RetryAfters, RateLimited(seconds)
      PROVE  Inv'
  BY <1>4, <1>5 DEF RateLimited
<1>6. CASE TransientError \/ Success \/ UNCHANGED limiterVars
  BY <1>4, <1>6 DEF TransientError, Success, limiterVars
<1>7. CASE Tick
  <2>1. /\ \A i \in 1..Len(log) : log[i].at \in Nat
        /\ clock' = clock + 1 /\ UNCHANGED <<requests, life, log>>
    BY <1>7, LogTimes DEF Tick, Inv, Typed
  <2>2. Typed' /\ DequeEndsLog' /\ WindowBound' /\ ReserveKept'
    BY <2>1 DEF Inv, Typed, DequeEndsLog, Forgotten, WindowBound, ReserveKept
  <2>3. ForgottenIsOld'
    BY <2>1 DEF Inv, ForgottenIsOld, Forgotten
  <2>4. LogInOrder'
    BY <2>1 DEF Inv, LogInOrder
  <2> QED BY <2>2, <2>3, <2>4 DEF Inv
<1>8. CASE Restart
  BY <1>8, RestartInv
<1> QED BY <1>1, <1>2, <1>3, <1>5, <1>6, <1>7, <1>8 DEF Next

\* The deque and the history stay tied, whatever is called.
THEOREM Invariance == Spec => []Inv
BY InitInv, NextInv, PTL DEF Spec

\* rate_limiter.py (try_acquire): no sliding window ever holds more than HardLimit
\* requests of one process, for every limit, every window and every mix of
\* commands and polls; a restart adds HardLimit at most.
THEOREM WindowNeverOverrun == Spec => []WindowBound
<1>1. Inv => WindowBound
  BY DEF Inv
<1> QED BY <1>1, Invariance, PTL

\* Polling never takes the places kept for commands.
THEOREM ReserveAlwaysKept == Spec => []ReserveKept
<1>1. Inv => ReserveKept
  BY DEF Inv
<1> QED BY <1>1, Invariance, PTL

-----------------------------------------------------------------------------
(***************************************************************************)
(* The block only ever moves forward between two successes.                *)
(***************************************************************************)
BlockTyped == blocked_until \in Int /\ clock \in Nat /\ consecutive_errors \in Nat

\* A power of two is a natural number: it counts the subsets of an interval.
LEMMA PowerType ==
    ASSUME NEW n \in Nat
    PROVE  2 ^ n \in Nat
<1>1. IsFiniteSet(1..n) /\ Cardinality(1..n) = n
  BY FS_Interval
<1>2. IsFiniteSet(SUBSET (1..n)) /\ Cardinality(SUBSET (1..n)) = 2 ^ Cardinality(1..n)
  BY <1>1, FS_SUBSET, Zenon
<1>3. Cardinality(SUBSET (1..n)) \in Nat
  BY <1>2, FS_CardinalityType, Zenon
<1> QED BY <1>1, <1>2, <1>3, Zenon

\* The back-off of any count of errors is a delay.
LEMMA BackoffType ==
    ASSUME NEW errors \in Nat, errors >= 1
    PROVE  Backoff(errors) \in Nat
<1>1. errors - 1 \in Nat
  OBVIOUS
<1>2. 2 ^ (errors - 1) \in Nat
  BY <1>1, PowerType
<1> QED BY <1>2, DurationsAssumption DEF Backoff, Smaller

\* A block never ends earlier than it did, nor than it was asked to.
LEMMA BlockMoves ==
    ASSUME BlockTyped, NEW until \in Int, Block(until)
    PROVE  blocked_until' \in Int /\ blocked_until <= blocked_until' /\ until <= blocked_until'
BY DEF Block, Larger, BlockTyped

LEMMA TransientMoves ==
    ASSUME BlockTyped, TransientError
    PROVE  BlockTyped' /\ blocked_until <= blocked_until'
<1>1. consecutive_errors' \in Nat /\ consecutive_errors' >= 1 /\ clock' = clock
  BY DEF TransientError, BlockTyped
<1>2. CASE Overflows(consecutive_errors')
  BY <1>1, <1>2 DEF TransientError, BlockTyped
<1>3. CASE ~Overflows(consecutive_errors')
  <2>1. clock + Backoff(consecutive_errors') \in Int
    BY <1>1, BackoffType DEF BlockTyped
  <2>2. Block(clock + Backoff(consecutive_errors'))
    BY <1>3 DEF TransientError
  <2> QED BY <1>1, <2>1, <2>2, BlockMoves DEF BlockTyped
<1> QED BY <1>2, <1>3

-----------------------------------------------------------------------------
\* The deque never grows past the hard limit.
LEMMA DequeType ==
    ASSUME TypeOK, NEW interactive \in BOOLEAN, NEW pruned \in Pruned
    PROVE  /\ pruned \in Seq(Nat) /\ Len(pruned) <= HardLimit
           /\ HasRoom(pruned, Limit(interactive)) => Len(pruned) + 1 <= HardLimit
<1>1. PICK p \in 0..Len(requests) : pruned = SubSeq(requests, p + 1, Len(requests))
  BY DEF Pruned
<1>2. requests \in Seq(Nat) /\ Len(requests) <= HardLimit /\ HardLimit \in Nat
      /\ MonitoringLimit \in Nat /\ MonitoringLimit <= HardLimit
  BY LimitsAssumption DEF TypeOK
<1>3. pruned \in Seq(Nat) /\ Len(pruned) = Len(requests) - p
  BY <1>1, <1>2
<1> QED BY <1>2, <1>3 DEF HasRoom, Limit

LEMMA InitType == Init => TypeOK
BY EmptySeq, LimitsAssumption DEF Init, TypeOK

LEMMA NextType ==
    ASSUME TypeOK, [Next]_limiterVars
    PROVE  TypeOK'
<1> USE DEF TypeOK
<1>1. ASSUME NEW interactive \in BOOLEAN, Admit(interactive)
      PROVE  TypeOK'
  <2>1. PICK pruned \in Pruned :
           /\ HasRoom(pruned, Limit(interactive))
           /\ requests' = Append(pruned, clock)
           /\ log' = Append(log, [at |-> clock, interactive |-> interactive, life |-> life])
           /\ UNCHANGED <<blocked_until, consecutive_errors, clock, life>>
    BY <1>1 DEF Admit
  <2>2. pruned \in Seq(Nat) /\ Len(pruned) + 1 <= HardLimit
    BY <2>1, DequeType
  <2>3. requests' \in Seq(Nat) /\ Len(requests') = Len(pruned) + 1
    BY <2>1, <2>2
  <2>4. log' \in Seq(Request)
    BY <2>1 DEF Request
  <2> QED BY <2>1, <2>2, <2>3, <2>4
<1>2. ASSUME NEW interactive \in BOOLEAN, NEW retryAt, Refuse(interactive, retryAt)
      PROVE  TypeOK'
  BY <1>2, DequeType DEF Refuse
<1>3. CASE Query
  BY <1>3, DequeType DEF Query
<1>4. ASSUME NEW seconds \in RetryAfters, RateLimited(seconds)
      PROVE  TypeOK'
  <2>1. clock + seconds \in Int /\ BlockTyped /\ Block(clock + seconds)
    BY <1>4, DurationsAssumption DEF BlockTyped, RateLimited
  <2>2. blocked_until' \in Int /\ blocked_until <= blocked_until'
    BY <2>1, BlockMoves
  <2> QED BY <1>4, <2>2 DEF RateLimited
<1>5. CASE TransientError
  <2>1. BlockTyped' /\ blocked_until <= blocked_until'
    BY <1>5, TransientMoves DEF BlockTyped
  <2> QED BY <1>5, <2>1 DEF TransientError, BlockTyped
<1>6. CASE Success \/ Tick \/ UNCHANGED limiterVars
  BY <1>6 DEF Success, Tick, limiterVars
<1>7. CASE Restart
  BY <1>7, EmptySeq, LimitsAssumption DEF Restart
<1> QED BY <1>1, <1>2, <1>3, <1>4, <1>5, <1>6, <1>7 DEF Next

\* TokenLimitState keeps its shape and the deque its bound: after any calls it
\* holds at most HardLimit times.
THEOREM TypeCorrect == Spec => []TypeOK
<1>1. Init => TypeOK
  BY InitType
<1> QED BY <1>1, NextType, PTL DEF Spec

-----------------------------------------------------------------------------
(***************************************************************************)
(* The HTTP client.                                                        *)
(***************************************************************************)
\* Every HTTP request has its place in the limiter's history.
Accounted ==
    /\ Len(sends) = Len(log)
    /\ \A i \in 1..Len(log) : sends[i].at = log[i].at /\ sends[i].life = log[i].life

SentTyped == sends \in Seq([at : Nat, life : Nat])

-----------------------------------------------------------------------------
\* Every step of the client is a step of the limiter, or none.
LEMMA ClientStepIsLimiterStep == [ClientNext]_vars => [Next]_limiterVars
<1> SUFFICES ASSUME [ClientNext]_vars PROVE [Next]_limiterVars
  OBVIOUS
<1>1. ASSUME NEW t \in Tasks, Send(t)
      PROVE  Next
  <2> DEFINE b == t \in Interactive
  <2>1. b \in BOOLEAN /\ Admit(b)
    BY <1>1 DEF Send
  <2> HIDE DEF b
  <2> QED BY <2>1 DEF Next
<1>2. ASSUME NEW t \in Tasks, Wait(t)
      PROVE  Next
  <2> DEFINE b == t \in Interactive
  <2>1. PICK pruned \in Pruned : Refuse(b, RetryAt(pruned))
    BY <1>2 DEF Wait
  <2>2. b \in BOOLEAN
    OBVIOUS
  <2> HIDE DEF b
  <2> QED BY <2>1, <2>2 DEF Next
<1>3. ASSUME NEW t \in Tasks, Succeed(t)
      PROVE  Next
  BY <1>3 DEF Succeed, Next
<1>4. ASSUME NEW t \in Tasks, NEW seconds \in RetryAfters, TooManyRequests(t, seconds)
      PROVE  Next
  BY <1>4 DEF TooManyRequests, Next
<1>5. ASSUME NEW t \in Tasks, Fail(t)
      PROVE  Next
  BY <1>5 DEF Fail, Next
<1>6. ASSUME NEW t \in Tasks, Begin(t) \/ Reject(t) \/ GiveUp(t) \/ Awake(t)
      PROVE  UNCHANGED limiterVars
  BY <1>6 DEF Begin, Reject, GiveUp, Awake
<1>7. CASE Status
  BY <1>7 DEF Status, Next
<1>8. CASE ClientTick
  BY <1>8 DEF ClientTick, Next
<1>9. CASE UNCHANGED vars
  BY <1>9 DEF vars
<1>10. CASE ClientRestart
  BY <1>10 DEF ClientRestart, Next
<1> QED BY <1>1, <1>2, <1>3, <1>4, <1>5, <1>6, <1>7, <1>8, <1>9, <1>10 DEF ClientNext

\* What is proved of the limiter's specification holds of the client's limiter.
LEMMA ClientUsesLimiter == ClientSpec => Spec
<1>1. ClientInit => Init
  BY DEF ClientInit
<1> QED BY <1>1, ClientStepIsLimiterStep, PTL DEF ClientSpec, Spec

\* What a task carries from one step of the loop to the next.
Calls == [phase : Phases, attempt : 0..MaxRetries, wake : Nat]

\* A refused task sleeps until a time: of the end of the block, or of a window
\* after the first request of a deque that is not empty.
LEMMA RetryAtType ==
    ASSUME TypeOK, NEW interactive \in BOOLEAN, NEW retryAt, Refuse(interactive, retryAt)
    PROVE  retryAt \in Nat
<1>1. PICK pruned \in Pruned :
         /\ Blocked \/ ~HasRoom(pruned, Limit(interactive))
         /\ retryAt = RetryAt(pruned)
  BY DEF Refuse
<1>2. pruned \in Seq(Nat)
  BY DequeType
<1>3. CASE Blocked
  BY <1>1, <1>3 DEF RetryAt, TypeOK
<1>4. CASE ~Blocked
  <2>1. Len(pruned) \in Nat /\ Len(pruned) > 0
    BY <1>1, <1>2, <1>4, LimitsAssumption DEF HasRoom, Limit
  <2>2. pruned[1] \in Nat
    BY <1>2, <2>1
  <2> QED BY <1>1, <1>4, <2>2, DurationsAssumption DEF RetryAt
<1> QED BY <1>3, <1>4

\* A task moves on within the loop, or leaves it.
LEMMA CallMoves ==
    ASSUME ClientTypeOK, TypeOK', NEW t \in Tasks, NEW next \in Calls,
           call' = [call EXCEPT ![t] = next],
           sends' \in Seq([at : Nat, life : Nat]), asked' \in Nat, lifted' \in BOOLEAN,
           barred' \subseteq Tasks, eased' \subseteq barred'
    PROVE  ClientTypeOK'
BY DEF ClientTypeOK, Calls

LEMMA ClientNextType ==
    ASSUME ClientTypeOK, [ClientNext]_vars
    PROVE  ClientTypeOK'
<1> USE DEF ClientTypeOK
<1>0. TypeOK'
  BY NextType, ClientStepIsLimiterStep
<1>1. /\ MaxRetries \in Nat /\ clock \in Nat /\ life \in Nat /\ asked \in Nat
      /\ call \in [Tasks -> Calls] /\ Idle \in Calls
  BY TasksAssumption DEF Calls, Idle, Phases, TypeOK
<1>2. ASSUME NEW t \in Tasks, Begin(t)
      PROVE  ClientTypeOK'
  BY <1>0, <1>1, <1>2, CallMoves DEF Begin, Calls, Phases
<1>3. ASSUME NEW t \in Tasks, Send(t)
      PROVE  ClientTypeOK'
  <2>1. /\ call' = [call EXCEPT ![t] = [call[t] EXCEPT !.phase = "sent"]]
        /\ UNCHANGED <<asked, lifted>>
        /\ barred' = barred \ {t} /\ eased' = eased \ {t}
    BY <1>1, <1>3 DEF Send
  <2>2. sends' \in Seq([at : Nat, life : Nat])
    BY <1>1, <1>3 DEF Send
  <2> QED BY <1>0, <1>1, <2>1, <2>2, CallMoves DEF Calls, Phases
<1>4. ASSUME NEW t \in Tasks, Wait(t)
      PROVE  ClientTypeOK'
  <2> DEFINE b == t \in Interactive
  <2>1. PICK pruned \in Pruned :
           /\ Refuse(b, RetryAt(pruned))
           /\ call' = [call EXCEPT ![t] = [call[t] EXCEPT !.wake = RetryAt(pruned)]]
    BY <1>1, <1>4 DEF Wait
  <2>2. /\ b \in BOOLEAN /\ UNCHANGED <<sends, asked, lifted>>
        /\ barred' \subseteq Tasks /\ eased' \subseteq barred'
    BY <1>4 DEF Wait
  <2> HIDE DEF b
  <2>3. RetryAt(pruned) \in Nat
    BY <2>1, <2>2, RetryAtType
  <2>4. [call[t] EXCEPT !.wake = RetryAt(pruned)] \in Calls
    BY <1>1, <2>3 DEF Calls
  <2> QED BY <1>0, <2>1, <2>2, <2>4, CallMoves
<1>5. ASSUME NEW t \in Tasks, Succeed(t) \/ Reject(t) \/ GiveUp(t)
      PROVE  ClientTypeOK'
  BY <1>0, <1>1, <1>5, CallMoves DEF Succeed, Reject, GiveUp
<1>6. ASSUME NEW t \in Tasks, NEW seconds \in RetryAfters, TooManyRequests(t, seconds)
      PROVE  ClientTypeOK'
  <2>1. clock + seconds \in Nat
    BY <1>1, DurationsAssumption
  <2> QED BY <1>0, <1>1, <1>6, <2>1, CallMoves DEF TooManyRequests, Larger
<1>7. ASSUME NEW t \in Tasks, Fail(t)
      PROVE  ClientTypeOK'
  <2> DEFINE errors == consecutive_errors'
             retry  == [phase   |-> "backing_off",
                        attempt |-> call[t].attempt + 1,
                        wake    |-> clock + Backoff(errors)]
  <2>1. errors \in Nat /\ errors >= 1
    BY <1>7 DEF Fail, TransientError, TypeOK
  <2>2. clock + Backoff(errors) \in Nat
    BY <1>1, <2>1, BackoffType
  <2>3. call[t].attempt + 1 \in 0..MaxRetries
    BY <1>1, <1>7 DEF Fail, Calls
  <2>4. retry \in Calls
    BY <2>2, <2>3 DEF Calls, Phases
  <2>5. /\ call' = [call EXCEPT ![t] = IF Overflows(errors) THEN Idle ELSE retry]
        /\ UNCHANGED <<sends, asked, lifted, barred, eased>>
    BY <1>1, <1>7 DEF Fail
  <2>6. (IF Overflows(errors) THEN Idle ELSE retry) \in Calls
    BY <1>1, <2>4
  <2> HIDE DEF errors, retry
  <2> QED BY <1>0, <2>5, <2>6, CallMoves
<1>8. ASSUME NEW t \in Tasks, Awake(t)
      PROVE  ClientTypeOK'
  <2>1. /\ call' = [call EXCEPT ![t] = [call[t] EXCEPT !.phase = "acquiring"]]
        /\ UNCHANGED <<sends, asked, lifted, barred, eased>>
    BY <1>1, <1>8 DEF Awake
  <2> QED BY <1>0, <1>1, <2>1, CallMoves DEF Calls, Phases
<1>9. CASE Status \/ ClientTick \/ UNCHANGED vars
  <2>1. UNCHANGED clientVars
    BY <1>9 DEF Status, ClientTick, vars
  <2> QED BY <1>0, <2>1 DEF clientVars
<1>10. CASE ClientRestart
  <2>1. call' \in [Tasks -> Calls] /\ UNCHANGED <<sends, asked>>
    BY <1>1, <1>10 DEF ClientRestart
  <2>2. lifted' \in BOOLEAN /\ barred' = {} /\ eased' = {}
    BY <1>10 DEF ClientRestart
  <2> QED BY <1>0, <2>1, <2>2 DEF Calls
<1> QED BY <1>2, <1>3, <1>4, <1>5, <1>6, <1>7, <1>8, <1>9, <1>10 DEF ClientNext

\* donut_api.py (_request_page): no task makes more attempts than max_retries
\* allows, and each sleep of the loop ends at a time of the clock, for every
\* limit, window and number of tasks.
THEOREM ClientTypeCorrect == ClientSpec => []ClientTypeOK
<1>1. ASSUME ClientInit PROVE ClientTypeOK
  <2>1. TypeOK
    BY <1>1, InitType DEF ClientInit
  <2>2. call \in [Tasks -> Calls]
    BY <1>1, TasksAssumption DEF ClientInit, Idle, Calls, Phases
  <2>3. sends \in Seq([at : Nat, life : Nat]) /\ asked \in Nat
    BY <1>1 DEF ClientInit
  <2>4. lifted \in BOOLEAN /\ barred = {} /\ eased = {}
    BY <1>1 DEF ClientInit
  <2> QED BY <2>1, <2>2, <2>3, <2>4 DEF ClientTypeOK, Calls
<1> QED BY <1>1, ClientNextType, PTL DEF ClientSpec

\* A request leaves only with a place in the history, and takes one.
LEMMA AccountedStep ==
    ASSUME Typed, SentTyped, Accounted, [ClientNext]_vars
    PROVE  SentTyped' /\ Accounted'
<1> USE DEF Typed, SentTyped, Accounted
<1>1. ASSUME NEW t \in Tasks, Send(t)
      PROVE  SentTyped' /\ Accounted'
  <2>1. /\ sends' = Append(sends, [at |-> clock, life |-> life])
        /\ log' = Append(log, [at |-> clock, interactive |-> t \in Interactive,
                               life |-> life])
    BY <1>1 DEF Send, Admit
  <2>2. /\ Len(sends') = Len(sends) + 1
        /\ \A i \in 1..Len(sends) : sends'[i] = sends[i]
        /\ sends'[Len(sends) + 1].at = clock /\ sends'[Len(sends) + 1].life = life
        /\ sends' \in Seq([at : Nat, life : Nat])
    BY <2>1
  <2>3. /\ Len(log') = Len(log) + 1
        /\ \A i \in 1..Len(log) : log'[i] = log[i]
        /\ log'[Len(log) + 1].at = clock /\ log'[Len(log) + 1].life = life
    BY <2>1
  <2>4. ASSUME NEW i \in 1..Len(log')
        PROVE  sends'[i].at = log'[i].at /\ sends'[i].life = log'[i].life
    <3>1. i \in 1..Len(log) \/ i = Len(log) + 1
      BY <2>3
    <3> QED BY <2>2, <2>3, <3>1
  <2> QED BY <2>2, <2>3, <2>4
<1>2. CASE UNCHANGED <<log, sends>>
  BY <1>2
<1>3. ASSUME NEW t \in Tasks, Wait(t)
      PROVE  UNCHANGED <<log, sends>>
  BY <1>3 DEF Wait, Refuse
<1>4. ASSUME NEW t \in Tasks, Succeed(t)
      PROVE  UNCHANGED <<log, sends>>
  BY <1>4 DEF Succeed, Success
<1>5. ASSUME NEW t \in Tasks, NEW seconds \in RetryAfters, TooManyRequests(t, seconds)
      PROVE  UNCHANGED <<log, sends>>
  BY <1>5 DEF TooManyRequests, RateLimited
<1>6. ASSUME NEW t \in Tasks, Fail(t)
      PROVE  UNCHANGED <<log, sends>>
  BY <1>6 DEF Fail, TransientError
<1>7. ASSUME NEW t \in Tasks, Begin(t) \/ Reject(t) \/ GiveUp(t) \/ Awake(t)
      PROVE  UNCHANGED <<log, sends>>
  BY <1>7 DEF Begin, Reject, GiveUp, Awake, limiterVars
<1>8. CASE Status \/ ClientTick \/ ClientRestart \/ UNCHANGED vars
  BY <1>8 DEF Status, ClientTick, ClientRestart, Query, Tick, Restart, vars, limiterVars,
              clientVars
<1> QED BY <1>1, <1>2, <1>3, <1>4, <1>5, <1>6, <1>7, <1>8 DEF ClientNext

\* Whatever is retried, polled or commanded, the server sees no more than
\* HardLimit requests of a token in any window in which the bot was not started
\* again, and HardLimit more for each time it was.
THEOREM ServerLimitHolds == ClientSpec => []ServerSeesLimit
<1>1. ClientInit => SentTyped /\ Accounted
  BY DEF ClientInit, Init, SentTyped, Accounted
<1>2. Inv => Typed
  BY DEF Inv
<1>3. Inv /\ Accounted => ServerSeesLimit
  BY DEF Inv, Accounted, WindowBound, ServerSeesLimit
<1>4. SentTyped /\ Accounted /\ Typed /\ [ClientNext]_vars => (SentTyped /\ Accounted)'
  BY AccountedStep
<1> QED BY <1>1, <1>2, <1>3, <1>4, Invariance, ClientUsesLimiter, PTL
           DEF ClientSpec

-----------------------------------------------------------------------------
(***************************************************************************)
(* NobodyOversleeps.  A task asleep that a block refused waits for the end *)
(* of a block that is there still; one that a full window refused waits    *)
(* for the oldest request of the deque to leave the window, and until that *)
(* happens nothing can be pruned, so the deque stays full.                 *)
(***************************************************************************)
WaitsForBlock(t) == call[t].wake <= blocked_until

WaitsForPlace(t) ==
    /\ Len(requests) >= Limit(t \in Interactive)
    /\ call[t].wake <= requests[1] + Window

WaitsRightly(t) == IF t \in barred THEN WaitsForBlock(t) ELSE WaitsForPlace(t)

SleepInv == \A t \in Tasks \ eased : Asleep(t) => WaitsRightly(t)

\* While the oldest request of a deque is in the window, pruning leaves it alone.
LEMMA NothingToPrune ==
    ASSUME TypeOK, Len(requests) > 0, clock < requests[1] + Window, NEW pruned \in Pruned
    PROVE  pruned = requests
<1>1. PICK p \in 0..Len(requests) :
         /\ Expired(requests, clock, p)
         /\ pruned = SubSeq(requests, p + 1, Len(requests))
  BY DEF Pruned
<1>2. requests \in Seq(Nat) /\ requests[1] \in Nat /\ clock \in Nat /\ Window \in Nat
  BY DurationsAssumption DEF TypeOK
<1>3. p = 0
  <2> SUFFICES ASSUME p # 0 PROVE FALSE
    OBVIOUS
  <2>1. 1 \in 1..p
    BY <1>1
  <2>2. requests[1] <= clock - Window
    BY <1>1, <2>1 DEF Expired
  <2> QED BY <1>2, <2>2
<1> QED BY <1>1, <1>2, <1>3

\* What a task sleeps for is what keeps the limiter from letting it through.
LEMMA SleepersAreBlocked ==
    ASSUME ClientTypeOK, SleepInv
    PROVE  NobodyOversleeps
<1> SUFFICES ASSUME NEW t \in Tasks \ eased, Asleep(t), ~Blocked, NEW pruned \in Pruned
             PROVE  ~HasRoom(pruned, Limit(t \in Interactive))
  BY DEF NobodyOversleeps
<1> DEFINE limit == Limit(t \in Interactive)
<1>1. /\ clock \in Nat /\ blocked_until \in Nat /\ Len(requests) \in Nat
      /\ requests \in Seq(Nat) /\ Window \in Nat /\ call[t].wake \in Nat
  BY LenProperties, DurationsAssumption DEF ClientTypeOK, TypeOK
<1>2. limit \in Nat /\ limit > 0
  BY LimitsAssumption DEF Limit
<1>3. Len(requests) >= limit /\ clock < call[t].wake /\ call[t].wake <= requests[1] + Window
  BY <1>1 DEF SleepInv, Asleep, Blocked, WaitsRightly, WaitsForBlock, WaitsForPlace
<1> HIDE DEF limit
<1>4. Len(requests) > 0
  BY <1>1, <1>2, <1>3
<1>5. requests[1] \in Nat
  BY <1>1, <1>4
<1>6. clock < requests[1] + Window
  BY <1>1, <1>3, <1>5
<1>7. pruned = requests
  BY <1>4, <1>6, NothingToPrune DEF ClientTypeOK
<1>8. ~HasRoom(pruned, limit)
  BY <1>1, <1>2, <1>3, <1>7 DEF HasRoom
<1> QED BY <1>8 DEF limit

\* A sleeper goes on to wait for what it waited for when another task acts: blocks
\* are not shortened, and of its full deque only the end changes.
LEMMA SleeperKept ==
    ASSUME ClientTypeOK, SleepInv, NEW t \in Tasks \ eased, Asleep(t),
           call'[t] = call[t], t \in barred' <=> t \in barred,
           blocked_until' \in Nat, blocked_until <= blocked_until',
           \/ requests' = requests
           \/ requests' \in Pruned
           \/ \E pruned \in Pruned : requests' = Append(pruned, clock)
    PROVE  WaitsRightly(t)'
<1> DEFINE limit == Limit(t \in Interactive)
<1>1. /\ clock \in Nat /\ blocked_until \in Nat /\ Len(requests) \in Nat
      /\ requests \in Seq(Nat) /\ Window \in Nat /\ call[t].wake \in Nat
  BY LenProperties, DurationsAssumption DEF ClientTypeOK, TypeOK
<1>2. limit \in Nat /\ limit > 0
  BY LimitsAssumption DEF Limit
<1>3. CASE t \in barred
  BY <1>1, <1>3 DEF SleepInv, WaitsRightly, WaitsForBlock
<1>4. CASE t \notin barred
  <2>1. Len(requests) >= limit /\ clock < call[t].wake /\ call[t].wake <= requests[1] + Window
    BY <1>4 DEF Asleep, SleepInv, WaitsRightly, WaitsForPlace
  <2> HIDE DEF limit
  <2>2. Len(requests) > 0
    BY <1>1, <1>2, <2>1
  <2>3. requests[1] \in Nat
    BY <1>1, <2>2
  <2>4. clock < requests[1] + Window
    BY <1>1, <2>1, <2>3
  <2>5. \A pruned \in Pruned : pruned = requests
    BY <2>2, <2>4, NothingToPrune DEF ClientTypeOK
  <2>6. requests' = requests \/ requests' = Append(requests, clock)
    BY <2>5
  <2>7. Len(requests') >= Len(requests) /\ requests'[1] = requests[1] /\ Len(requests') \in Nat
    <3>1. CASE requests' = requests
      BY <1>1, <3>1
    <3>2. CASE requests' = Append(requests, clock)
      BY <1>1, <2>2, <3>2
    <3> QED BY <2>6, <3>1, <3>2
  <2>8. Len(requests') >= limit /\ call'[t].wake <= requests'[1] + Window
    BY <1>1, <1>2, <2>1, <2>7
  <2> QED BY <1>4, <2>8 DEF limit, WaitsRightly, WaitsForPlace
<1> QED BY <1>3, <1>4

\* The invariant is kept where one task acts and the others sleep on.
LEMMA SleepStep ==
    ASSUME ClientTypeOK, ClientTypeOK', SleepInv,
           NEW t \in Tasks,
           \A u \in Tasks : u # t => call'[u] = call[u],
           clock' = clock, blocked_until <= blocked_until',
           \/ requests' = requests
           \/ requests' \in Pruned
           \/ \E pruned \in Pruned : requests' = Append(pruned, clock),
           eased \subseteq eased' \union {t},
           \A u \in Tasks : u # t => (u \in barred' <=> u \in barred),
           ~Asleep(t)' \/ WaitsRightly(t)'
    PROVE  SleepInv'
<1> SUFFICES ASSUME NEW u \in Tasks \ eased', Asleep(u)'
             PROVE  WaitsRightly(u)'
  BY DEF SleepInv
<1>1. CASE u = t
  BY <1>1
<1>2. CASE u # t
  <2>1. u \in Tasks \ eased /\ call'[u] = call[u]
    BY <1>2
  <2>2. Asleep(u)
    BY <2>1 DEF Asleep
  <2>3. blocked_until' \in Nat
    BY DEF ClientTypeOK, TypeOK
  <2> QED BY <2>1, <2>2, <2>3, SleeperKept
<1> QED BY <1>1, <1>2

\* Every step of the client keeps it.
LEMMA SleepNext ==
    ASSUME ClientTypeOK, SleepInv, [ClientNext]_vars
    PROVE  SleepInv'
<1>0. ClientTypeOK'
  BY ClientNextType
<1>1. /\ call \in [Tasks -> Calls] /\ clock \in Nat /\ blocked_until \in Nat
      /\ consecutive_errors \in Nat
  BY DEF ClientTypeOK, TypeOK, Calls
<1>2. ASSUME NEW t \in Tasks, Begin(t) \/ Reject(t) \/ GiveUp(t) \/ Awake(t)
      PROVE  SleepInv'
  <2>1. /\ UNCHANGED <<requests, clock, blocked_until, barred, eased>>
        /\ \A u \in Tasks : u # t => call'[u] = call[u]
    BY <1>1, <1>2 DEF Begin, Reject, GiveUp, Awake, limiterVars
  <2>2. ~Asleep(t)'
    <3>1. CASE Begin(t)
      BY <1>1, <3>1 DEF Begin, Asleep, limiterVars
    <3>2. CASE Reject(t) \/ GiveUp(t)
      BY <1>1, <3>2 DEF Reject, GiveUp, Asleep, Idle
    <3>3. CASE Awake(t)
      BY <1>1, <3>3 DEF Awake, Asleep, limiterVars, Calls
    <3> QED BY <1>2, <3>1, <3>2, <3>3
  <2> QED BY <1>0, <1>1, <2>1, <2>2, SleepStep
<1>3. ASSUME NEW t \in Tasks, Send(t)
      PROVE  SleepInv'
  <2>1. /\ \E pruned \in Pruned : requests' = Append(pruned, clock)
        /\ UNCHANGED <<clock, blocked_until>>
        /\ barred' = barred \ {t} /\ eased' = eased \ {t}
        /\ \A u \in Tasks : u # t => call'[u] = call[u]
        /\ call'[t].phase = "sent"
    BY <1>1, <1>3 DEF Send, Admit, Calls
  <2>2. ~Asleep(t)'
    BY <2>1 DEF Asleep
  <2> QED BY <1>0, <1>1, <2>1, <2>2, SleepStep
<1>4. ASSUME NEW t \in Tasks, Wait(t)
      PROVE  SleepInv'
  <2> DEFINE b == t \in Interactive
  <2>1. PICK pruned \in Pruned :
           /\ Refuse(b, RetryAt(pruned))
           /\ call' = [call EXCEPT ![t].wake = RetryAt(pruned)]
    BY <1>4 DEF Wait
  <2>2. /\ eased' = eased \ {t}
        /\ barred' = IF Blocked THEN barred \union {t} ELSE barred \ {t}
    BY <1>4 DEF Wait
  <2> HIDE DEF b
  <2>3. PICK left \in Pruned :
           /\ Blocked \/ ~HasRoom(left, Limit(b))
           /\ RetryAt(pruned) = RetryAt(left)
           /\ requests' = left
           /\ UNCHANGED <<blocked_until, clock>>
    BY <2>1 DEF Refuse
  <2>4. /\ \A u \in Tasks : u # t => call'[u] = call[u]
        /\ call'[t].wake = RetryAt(left)
    BY <1>1, <2>1, <2>3 DEF Calls
  <2>5. WaitsRightly(t)'
    <3>1. CASE Blocked
      BY <1>1, <2>2, <2>3, <2>4, <3>1 DEF RetryAt, WaitsRightly, WaitsForBlock
    <3>2. CASE ~Blocked
      <4>1. Limit(b) \in Nat /\ Len(left) \in Nat
        BY <2>3, DequeType, LenProperties, LimitsAssumption DEF Limit, ClientTypeOK
      <4>2. Len(left) >= Limit(b) /\ call'[t].wake = left[1] + Window
        BY <2>3, <2>4, <3>2, <4>1 DEF HasRoom, RetryAt
      <4>3. left[1] + Window \in Nat
        BY <1>0, <4>2 DEF ClientTypeOK
      <4> QED BY <2>2, <2>3, <3>2, <4>2, <4>3 DEF WaitsRightly, WaitsForPlace, b
    <3> QED BY <3>1, <3>2
  <2> QED BY <1>0, <1>1, <2>2, <2>3, <2>4, <2>5, SleepStep
<1>5. ASSUME NEW t \in Tasks, Succeed(t)
      PROVE  SleepInv'
  <2>1. /\ \A u \in Tasks : u # t => call'[u] = call[u]
        /\ call'[t].phase = "idle" /\ UNCHANGED <<requests, clock, barred>>
        /\ eased' = eased \union {u \in barred : Asleep(u)}
    BY <1>1, <1>5 DEF Succeed, Success, Idle
  <2> SUFFICES ASSUME NEW u \in Tasks \ eased', Asleep(u)'
               PROVE  WaitsRightly(u)'
    BY DEF SleepInv
  <2>2. u # t
    BY <2>1 DEF Asleep
  <2>3. Asleep(u) /\ call'[u] = call[u]
    BY <2>1, <2>2 DEF Asleep
  <2>4. u \notin eased /\ u \notin barred
    BY <2>1, <2>3
  <2>5. WaitsForPlace(u)
    BY <2>3, <2>4 DEF SleepInv, WaitsRightly
  <2> QED BY <2>1, <2>3, <2>4, <2>5 DEF WaitsRightly, WaitsForPlace
<1>6. ASSUME NEW t \in Tasks, NEW seconds \in RetryAfters, TooManyRequests(t, seconds)
      PROVE  SleepInv'
  <2>1. /\ \A u \in Tasks : u # t => call'[u] = call[u]
        /\ call'[t].phase = "idle" /\ UNCHANGED <<requests, clock, barred, eased>>
        /\ Block(clock + seconds)
    BY <1>1, <1>6 DEF TooManyRequests, RateLimited, Idle
  <2>2. blocked_until <= blocked_until'
    BY <1>1, <2>1, BlockMoves, DurationsAssumption DEF BlockTyped
  <2>3. ~Asleep(t)'
    BY <2>1 DEF Asleep
  <2> QED BY <1>0, <1>1, <2>1, <2>2, <2>3, SleepStep
<1>7. ASSUME NEW t \in Tasks, Fail(t)
      PROVE  SleepInv'
  <2>1. /\ \A u \in Tasks : u # t => call'[u] = call[u]
        /\ call'[t].phase \in {"idle", "backing_off"}
        /\ UNCHANGED <<requests, clock, barred, eased>> /\ TransientError
    BY <1>1, <1>7 DEF Fail, TransientError, Idle
  <2>2. blocked_until <= blocked_until'
    BY <1>1, <2>1, TransientMoves DEF BlockTyped
  <2>3. ~Asleep(t)'
    BY <2>1 DEF Asleep
  <2> QED BY <1>0, <1>1, <2>1, <2>2, <2>3, SleepStep
<1>8. ASSUME UNCHANGED <<call, blocked_until, barred, eased>>, clock' \in Nat, clock <= clock',
             requests' = requests \/ requests' \in Pruned
      PROVE  SleepInv'
  <2> SUFFICES ASSUME NEW u \in Tasks \ eased, Asleep(u)'
               PROVE  WaitsRightly(u)'
    BY <1>8 DEF SleepInv
  <2>1. call[u].wake \in Nat /\ call'[u] = call[u]
    BY <1>1, <1>8 DEF Calls
  <2>2. Asleep(u)
    BY <1>1, <1>8, <2>1 DEF Asleep
  <2> QED BY <1>1, <1>8, <2>1, <2>2, SleeperKept
<1>9. CASE Status \/ ClientTick \/ UNCHANGED vars
  BY <1>1, <1>8, <1>9 DEF Status, Query, ClientTick, Tick, vars, limiterVars, clientVars
<1>10. CASE ClientRestart
  BY <1>10 DEF ClientRestart, SleepInv, Asleep, Idle
<1> QED BY <1>2, <1>3, <1>4, <1>5, <1>6, <1>7, <1>9, <1>10 DEF ClientNext

\* rate_limiter.py (acquire, retry_after): the time a refused task sleeps to stays
\* right while it sleeps, for any limits, tasks and order of calls: always for a
\* task that a full window refused, and until a 200 for one that a block refused.
THEOREM SleepersWakeInTime == ClientSpec => []NobodyOversleeps
<1>1. ClientInit => SleepInv
  BY DEF ClientInit, SleepInv, Asleep, Idle
<1>2. ClientTypeOK /\ SleepInv => NobodyOversleeps
  BY SleepersAreBlocked
<1>3. ClientTypeOK /\ SleepInv /\ [ClientNext]_vars => SleepInv'
  BY SleepNext
<1> QED BY <1>1, <1>2, <1>3, ClientTypeCorrect, PTL DEF ClientSpec

-----------------------------------------------------------------------------
(***************************************************************************)
(* BackoffHolds.  The end of the block is never before what the last 429s  *)
(* asked for, unless a 200 has arrived since: a shorter Retry-After and    *)
(* the back-off of a transient error only ever move it forward.            *)
(***************************************************************************)
BlockCovers == BlockTyped /\ asked \in Int /\ (lifted \/ asked <= blocked_until)

LEMMA CoversStep ==
    ASSUME BlockCovers, [ClientNext]_vars
    PROVE  BlockCovers'
<1> USE DEF BlockCovers
<1>1. ASSUME NEW t \in Tasks, Begin(t) \/ Send(t) \/ Wait(t) \/ Reject(t) \/ GiveUp(t) \/ Awake(t)
      PROVE  UNCHANGED <<blocked_until, consecutive_errors, clock, asked, lifted>>
  BY <1>1 DEF Begin, Send, Wait, Reject, GiveUp, Awake, Admit, Refuse, limiterVars
<1>2. CASE UNCHANGED <<blocked_until, consecutive_errors, clock, asked, lifted>>
  BY <1>2 DEF BlockTyped
<1>3. ASSUME NEW t \in Tasks, Succeed(t)
      PROVE  BlockCovers'
  BY <1>3 DEF Succeed, Success, BlockTyped
<1>4. ASSUME NEW t \in Tasks, NEW seconds \in RetryAfters, TooManyRequests(t, seconds)
      PROVE  BlockCovers'
  <2>1. seconds \in Nat /\ clock \in Nat
    BY DurationsAssumption DEF BlockTyped
  <2>2. /\ Block(clock + seconds)
        /\ UNCHANGED <<consecutive_errors, clock>>
        /\ asked' = IF lifted THEN clock + seconds ELSE Larger(asked, clock + seconds)
    BY <1>4 DEF TooManyRequests, RateLimited
  <2>3. /\ blocked_until' \in Int /\ blocked_until <= blocked_until'
        /\ clock + seconds <= blocked_until'
    BY <2>1, <2>2, BlockMoves
  <2> QED BY <2>1, <2>2, <2>3 DEF BlockTyped, Larger
<1>5. ASSUME NEW t \in Tasks, Fail(t)
      PROVE  BlockCovers'
  <2>1. TransientError /\ UNCHANGED <<asked, lifted, barred, eased>>
    BY <1>5 DEF Fail
  <2>2. BlockTyped' /\ blocked_until <= blocked_until'
    BY <2>1, TransientMoves
  <2> QED BY <2>1, <2>2 DEF BlockTyped
<1>6. CASE Status \/ UNCHANGED vars
  BY <1>2, <1>6 DEF Status, Query, vars, limiterVars, clientVars
<1>7. CASE ClientTick
  BY <1>7 DEF ClientTick, Tick, clientVars, BlockTyped
<1>8. CASE ClientRestart
  BY <1>8 DEF ClientRestart, Restart, BlockTyped
<1> QED BY <1>1, <1>2, <1>3, <1>4, <1>5, <1>6, <1>7, <1>8 DEF ClientNext

\* Only a request let through by the limiter is sent.
LEMMA SentUnblocked ==
    ASSUME BlockCovers, [ClientNext]_vars, sends' # sends, ~lifted
    PROVE  clock >= asked
<1>1. PICK t \in Tasks : Send(t)
  BY DEF ClientNext, vars, clientVars, limiterVars, Begin, Wait, Succeed, Reject, GiveUp,
         Fail, Awake, TooManyRequests, Status, ClientTick, ClientRestart
<1>2. ~Blocked
  BY <1>1 DEF Send, Admit
<1> QED BY <1>2 DEF Blocked, BlockCovers, BlockTyped

\* donut_api.py, rate_limiter.py: no request leaves before the end of a
\* Retry-After that no 200 and no restart has cut short, for any number of tasks and retries.
THEOREM BackoffAlwaysHolds == ClientSpec => BackoffHolds
<1>1. ClientInit => BlockCovers
  BY DEF ClientInit, Init, BlockCovers, BlockTyped
<1>2. BlockCovers /\ [ClientNext]_vars => [sends' # sends /\ ~lifted => clock >= asked]_vars
  BY SentUnblocked
<1>3. BlockCovers /\ [ClientNext]_vars => BlockCovers'
  BY CoversStep
<1> QED BY <1>1, <1>2, <1>3, PTL DEF ClientSpec, BackoffHolds

=============================================================================
