-------------------------- MODULE SchedulerProofs --------------------------
(***************************************************************************)
(* Proofs about Scheduler, for any users, groups, pages, rates and sleeps. *)
(***************************************************************************)
EXTENDS Scheduler, TLAPS

\* The time the requests of some groups take at most.
Cost(groups) == groups * MaxPages * RequestTime

\* Who is selected is due; a poll's interval and the time gone by cover what
\* it may still send, and without a poll they leave no debt behind.
Paid ==
    \A u \in Users :
        /\ poll[u].phase = "listed" => nextIn[u] = 0
        /\ pc = "select" /\ u \in due => nextIn[u] = 0
        /\ pc = "prune" /\ u \in due => nextIn[u] = 0
        /\ nextIn[u] + credit[u] >=
              IF poll[u].phase = "asking" THEN Cost(poll[u].left) ELSE 0

IInv == TypeOK /\ PollsLiveInTheirCycle /\ Paid

LEMMA ConstantTypes ==
    ASSUME SchedulerAssumption
    PROVE  /\ MaxPages \in Nat \ {0} /\ MaxCredit \in Nat
           /\ Larger(DefaultInterval, MaxCredit) \in Nat
  BY DEF SchedulerAssumption, MaxPages, MaxCredit, Larger

\* The types that only touch one table of timers or another.
TimersOK ==
    /\ nextIn \in [Users -> 0..Larger(DefaultInterval, MaxCredit)]
    /\ credit \in [Users -> Int]
    /\ heldUp \in [Users -> 0..(Patience + 1)]

PollsOK ==
    poll \in [Users -> [phase : {"none", "listed", "asking"}, left : 0..MaxGroups,
                       wait : Nat, slept : BOOLEAN]]

\* Timers may stand at nothing.
LEMMA ZeroTimes ==
    ASSUME SchedulerAssumption
    PROVE  0 \in 0..Larger(DefaultInterval, MaxCredit) /\ 0 \in 0..(Patience + 1)
  <1>1. Larger(DefaultInterval, MaxCredit) \in Nat
    BY ConstantTypes
  <1>2. 0 \in 0..Larger(DefaultInterval, MaxCredit)
    BY <1>1
  <1>3. 0 \in 0..(Patience + 1)
    BY DEF SchedulerAssumption
  <1> QED
    BY <1>2, <1>3

\* Costs grow with the groups, one group's at a time, and stay in the limit.
LEMMA Costs ==
    ASSUME SchedulerAssumption, NEW g \in 0..MaxGroups
    PROVE  /\ Cost(g) \in Nat /\ Cost(g) <= MaxCredit /\ Cost(0) = 0
           /\ g > 0 => Cost(g) = Cost(g - 1) + MaxPages * RequestTime
           /\ g > 0 => PollInterval(g) = Larger(DefaultInterval, Cost(g))
           /\ PollInterval(g) \in 0..Larger(DefaultInterval, MaxCredit)
           /\ PollInterval(g) >= Cost(g)
  <1> DEFINE P == MaxPages * RequestTime
  <1>1. MaxPages \in Nat /\ RequestTime \in Nat /\ P \in Nat /\ MaxGroups \in Nat
        /\ DefaultInterval \in Nat
    BY ConstantTypes DEF SchedulerAssumption
  <1>2. \A k \in Nat : k * MaxPages * RequestTime = k * P
    BY <1>1
  <1>3. Cost(g) = g * P /\ MaxCredit = MaxGroups * P /\ Cost(0) = 0
    BY <1>1, <1>2 DEF Cost, MaxCredit
  <1>4. g > 0 => Cost(g - 1) = (g - 1) * P
    BY <1>1, <1>2 DEF Cost
  <1> HIDE DEF P
  <1>5. g * P \in Nat /\ g * P <= MaxGroups * P
    BY <1>1
  <1>6. g > 0 => g * P = (g - 1) * P + P
    BY <1>1
  <1>7. g > 0 => PollInterval(g) = Larger(DefaultInterval, Cost(g))
    BY DEF PollInterval, Cost
  <1>8. g = 0 => PollInterval(g) = DefaultInterval
    BY DEF PollInterval
  <1>9. CASE g = 0
    BY <1>1, <1>3, <1>5, <1>8, <1>9 DEF Larger
  <1>10. CASE g > 0
    <2>1. Cost(g) = Cost(g - 1) + MaxPages * RequestTime
      BY <1>3, <1>4, <1>6, <1>10 DEF P
    <2> QED
      BY <1>1, <1>3, <1>5, <1>7, <1>10, <2>1 DEF Larger
  <1> QED
    BY <1>9, <1>10, <1>1

\* The requests for one group take at most the time of its pages.
LEMMA SentCost ==
    ASSUME SchedulerAssumption, NEW n \in 0..MaxPages
    PROVE  n * RequestTime \in Nat /\ n * RequestTime <= MaxPages * RequestTime
  BY ConstantTypes DEF SchedulerAssumption

LEMMA InitIInv ==
    ASSUME SchedulerAssumption, Init
    PROVE  IInv
  <1> USE ConstantTypes DEF Init, NoPoll, SchedulerAssumption
  <1>1. TypeOK
    <2>1. TimersOK
      BY ZeroTimes DEF TimersOK
    <2>2. PollsOK
      BY DEF PollsOK
    <2>3. watched \in [Users -> 0..MaxGroups] /\ pc \in Phases /\ stopping \in BOOLEAN
      BY DEF Phases
    <2>4. pauseIn \in 0..Pause /\ pruneIn \in 0..PruneInterval /\ kills \in 0..MaxKills
          /\ due \subseteq Users
      OBVIOUS
    <2> QED
      BY <2>1, <2>2, <2>3, <2>4 DEF TypeOK, TimersOK, PollsOK
  <1>2. PollsLiveInTheirCycle /\ Paid
    BY DEF PollsLiveInTheirCycle, Paid, Running
  <1> QED
    BY <1>1, <1>2 DEF IInv

\* The steps of the task itself.
LEMMA TaskStep ==
    ASSUME SchedulerAssumption, IInv,
           Start \/ BeginCycle \/ EndLoop \/ Prune \/ CycleFails \/ Select \/ GatherEnds \/ Resume
           \/ Close \/ Closed \/ Kill
    PROVE  IInv'
  <1> USE ConstantTypes DEF IInv, SchedulerAssumption
  <1>1. CASE Start
    <2>1. \A u \in Users : poll[u].phase = "none"
      BY <1>1 DEF Start, TypeOK, PollsLiveInTheirCycle, Running
    <2>2. TypeOK'
      <3>1. TimersOK'
        BY <1>1, ZeroTimes DEF Start, TimersOK
      <3>2. pc' \in Phases /\ stopping' \in BOOLEAN
        BY <1>1 DEF Start, Phases
      <3>3. pauseIn' \in 0..Pause /\ pruneIn' \in 0..PruneInterval
        BY <1>1 DEF Start
      <3> QED
        BY <1>1, <3>1, <3>2, <3>3 DEF Start, TypeOK, TimersOK
    <2>3. Paid'
      BY <1>1, <2>1 DEF Start, Paid
    <2> QED
      BY <1>1, <2>1, <2>2, <2>3 DEF Start, PollsLiveInTheirCycle, Running
  <1>2. CASE BeginCycle
    BY <1>2 DEF BeginCycle, TypeOK, PollsLiveInTheirCycle, Paid, Running, Phases
  <1>3. CASE EndLoop
    BY <1>3 DEF EndLoop, TypeOK, PollsLiveInTheirCycle, Paid, Running, Phases
  <1>4. CASE Prune
    BY <1>4 DEF Prune, TypeOK, PollsLiveInTheirCycle, Paid, Running, Phases
  <1>5. CASE CycleFails
    BY <1>5 DEF CycleFails, TypeOK, PollsLiveInTheirCycle, Paid, Running, Phases
  <1>6. CASE Select
    <2>1. \A u \in Users : poll[u].phase = "none"
      BY <1>6 DEF Select, TypeOK, PollsLiveInTheirCycle, Running
    <2>2. TypeOK'
      BY <1>6, <2>1 DEF Select, TypeOK, Phases, NoPoll
    <2>3. Paid'
      BY <1>6, <2>1, <2>2 DEF Select, TypeOK, Paid, NoPoll
    <2> QED
      BY <1>6, <2>2, <2>3 DEF Select, PollsLiveInTheirCycle
  <1>7. CASE GatherEnds
    BY <1>7 DEF GatherEnds, TypeOK, PollsLiveInTheirCycle, Paid, Running, Phases
  <1>8. CASE Resume
    BY <1>8 DEF Resume, TypeOK, PollsLiveInTheirCycle, Paid, Running, Phases
  <1>9. CASE Close
    BY <1>9 DEF Close, TypeOK, PollsLiveInTheirCycle, Paid, Running, Phases
  <1>10. CASE Closed
    BY <1>10 DEF Closed, TypeOK, PollsLiveInTheirCycle, Paid, Running, Phases
  <1>11. CASE Kill
    <2>1. TypeOK'
      BY <1>11 DEF Kill, TypeOK, Phases, NoPoll
    <2>2. PollsLiveInTheirCycle'
      BY <1>11 DEF Kill, PollsLiveInTheirCycle, Running, NoPoll
    <2>3. ASSUME NEW u \in Users PROVE nextIn[u] + credit[u] >= 0
      <3>1. CASE poll[u].phase = "asking"
        <4>1. poll[u].left \in 0..MaxGroups
          BY DEF TypeOK
        <4>2. Cost(poll[u].left) \in Nat /\ nextIn[u] + credit[u] >= Cost(poll[u].left)
          BY <3>1, <4>1, Costs DEF Paid
        <4> QED
          BY <4>2 DEF TypeOK
      <3> QED
        BY <3>1 DEF Paid
    <2> QED
      BY <1>11, <2>1, <2>2, <2>3 DEF Kill, Paid, NoPoll
  <1> QED
    BY <1>1, <1>2, <1>3, <1>4, <1>5, <1>6, <1>7, <1>8, <1>9, <1>10, <1>11

\* A step of a poll.
LEMMA PollStepIInv ==
    ASSUME SchedulerAssumption, IInv, NEW u \in Users, PollStep(u)
    PROVE  IInv'
  <1> USE ConstantTypes DEF IInv, SchedulerAssumption
  <1>1. poll[u].phase # "none" /\ pc = "gather" /\ pc' = pc /\ poll[u].left \in 0..MaxGroups
    BY DEF PollStep, StartPoll, Delay, Answer, Refused, PollFails, PollEnds, Asking, loop,
           PollsLiveInTheirCycle, Running, TypeOK
  <1>2. ASSUME NEW v \in Users, v # u
        PROVE  poll'[v] = poll[v] /\ nextIn'[v] = nextIn[v] /\ credit'[v] = credit[v]
    BY <1>2 DEF PollStep, StartPoll, Delay, Answer, Refused, PollFails, PollEnds, TypeOK, Send
  <1>3. PollsLiveInTheirCycle'
    BY <1>1, <1>2 DEF PollsLiveInTheirCycle, Running
  <1>4. Cost(poll[u].left) \in Nat
    BY <1>1, Costs
  <1>5. SUFFICES /\ TypeOK'
                 /\ poll'[u].phase = "listed" => nextIn'[u] = 0
                 /\ nextIn'[u] + credit'[u] >=
                       IF poll'[u].phase = "asking" THEN Cost(poll'[u].left) ELSE 0
    BY <1>1, <1>2, <1>3 DEF Paid
  <1>6. CASE StartPoll(u)
    BY <1>6, <1>1, Costs DEF StartPoll, TypeOK, Paid, loop, Larger
  <1>7. CASE Delay(u)
    BY <1>7, <1>1 DEF Delay, Asking, TypeOK, Paid, loop
  <1>8. CASE Answer(u)
    <2>1. PICK n \in 1..MaxPages : credit' = [credit EXCEPT ![u] = @ - n * RequestTime]
      BY <1>8 DEF Answer, Send
    <2>2. n * RequestTime \in Nat /\ n * RequestTime <= MaxPages * RequestTime
      BY <2>1, SentCost
    <2>3. poll[u].left - 1 \in 0..MaxGroups /\ poll[u].left > 0 /\ poll[u].phase = "asking"
      BY <1>8, <1>1 DEF Answer, Asking
    <2>4. TypeOK'
      <3>1. credit' \in [Users -> Int]
        <4>1. \A x \in Int : x - n * RequestTime \in Int
          BY <2>2
        <4> QED
          BY <2>1, <4>1 DEF TypeOK
      <3> QED
        BY <1>8, <3>1, <2>3, ZenonT(30) DEF Answer, TypeOK, loop
    <2>5. /\ poll'[u].phase = "asking" /\ poll'[u].left = poll[u].left - 1
          /\ nextIn'[u] = nextIn[u] /\ credit'[u] = credit[u] - n * RequestTime
      BY <1>8, <2>1, <2>3 DEF Answer, TypeOK
    <2>6. nextIn[u] + credit[u] >= Cost(poll[u].left)
      BY <2>3 DEF Paid
    <2>7. Cost(poll[u].left) = Cost(poll[u].left - 1) + MaxPages * RequestTime
          /\ Cost(poll[u].left - 1) \in Nat
      BY <2>3, <1>1, Costs
    <2>8. nextIn[u] + (credit[u] - n * RequestTime) >= Cost(poll[u].left - 1)
      <3> DEFINE a == n * RequestTime
                 b == MaxPages * RequestTime
                 c == Cost(poll[u].left - 1)
                 d == Cost(poll[u].left)
      <3>1. a \in Nat /\ a <= b /\ b \in Nat /\ c \in Nat /\ d = c + b
            /\ nextIn[u] \in Nat /\ credit[u] \in Int /\ nextIn[u] + credit[u] >= d
        BY <2>2, <2>6, <2>7 DEF TypeOK
      <3> HIDE DEF a, b, c, d
      <3>2. nextIn[u] + (credit[u] - a) >= c
        BY <3>1
      <3> QED
        BY <3>2 DEF a, c
    <2> QED
      BY <2>4, <2>5, <2>8
  <1>9. CASE Refused(u) \/ PollFails(u)
    <2>1. PICK n \in 0..MaxPages : credit' = [credit EXCEPT ![u] = @ - n * RequestTime]
      BY <1>9 DEF Refused, PollFails, Send
    <2>2. n * RequestTime \in Nat /\ n * RequestTime <= MaxPages * RequestTime
      BY <2>1, SentCost
    <2>3. poll[u].left - 1 \in 0..MaxGroups /\ poll[u].left > 0 /\ poll[u].phase = "asking"
      BY <1>9, <1>1 DEF Refused, PollFails, Asking
    <2>4. TypeOK'
      <3>1. credit' \in [Users -> Int]
        <4>1. \A x \in Int : x - n * RequestTime \in Int
          BY <2>2
        <4> QED
          BY <2>1, <4>1 DEF TypeOK
      <3>2. poll' = [poll EXCEPT ![u] = NoPoll]
        BY <1>9 DEF Refused, PollFails
      <3>3. PollsOK'
        BY <3>2 DEF TypeOK, PollsOK, NoPoll
      <3>4. watched' \in [Users -> 0..MaxGroups]
        BY <1>9 DEF Refused, PollFails, TypeOK
      <3> QED
        BY <1>9, <3>1, <3>3, <3>4 DEF Refused, PollFails, TypeOK, PollsOK, loop
    <2>5. /\ poll'[u].phase = "none"
          /\ nextIn'[u] = nextIn[u] /\ credit'[u] = credit[u] - n * RequestTime
      BY <1>9, <2>1 DEF Refused, PollFails, TypeOK, NoPoll
    <2>6. nextIn[u] + credit[u] >= Cost(poll[u].left)
      BY <2>3 DEF Paid
    <2>7. Cost(poll[u].left) = Cost(poll[u].left - 1) + MaxPages * RequestTime
          /\ Cost(poll[u].left - 1) \in Nat
      BY <2>3, <1>1, Costs
    <2>8. nextIn[u] + (credit[u] - n * RequestTime) >= 0
      <3> DEFINE a == n * RequestTime
                 b == MaxPages * RequestTime
                 c == Cost(poll[u].left - 1)
                 d == Cost(poll[u].left)
      <3>1. a \in Nat /\ a <= b /\ b \in Nat /\ c \in Nat /\ d = c + b
            /\ nextIn[u] \in Nat /\ credit[u] \in Int /\ nextIn[u] + credit[u] >= d
        BY <2>2, <2>6, <2>7 DEF TypeOK
      <3> HIDE DEF a, b, c, d
      <3>2. nextIn[u] + (credit[u] - a) >= 0
        BY <3>1
      <3> QED
        BY <3>2 DEF a
    <2> QED
      BY <2>4, <2>5, <2>8
  <1>10. CASE PollEnds(u)
    BY <1>10, <1>1, <1>4, Costs DEF PollEnds, TypeOK, Paid, loop, NoPoll
  <1> QED
    BY <1>6, <1>7, <1>8, <1>9, <1>10 DEF PollStep

\* The passing of time: what leaves the interval comes to the credit.
LEMMA TickIInv ==
    ASSUME SchedulerAssumption, IInv, Tick
    PROVE  IInv'
  <1> USE ConstantTypes DEF IInv, SchedulerAssumption
  <1>1. TypeOK'
    <2>1. nextIn' \in [Users -> 0..Larger(DefaultInterval, MaxCredit)]
      <3>1. ASSUME NEW k \in Nat, NEW n \in 0..k PROVE Less(n) \in 0..k
        BY DEF Less, Larger
      <3>2. Larger(DefaultInterval, MaxCredit) \in Nat
        BY ConstantTypes
      <3> QED
        BY <3>1, <3>2 DEF Tick, TypeOK
    <2>2. credit' \in [Users -> Int]
      BY DEF Tick, TypeOK, Smaller
    <2>2a. heldUp' \in [Users -> 0..(Patience + 1)]
      <3>1. ASSUME NEW n \in 0..(Patience + 1)
            PROVE  Smaller(n + 1, Patience + 1) \in 0..(Patience + 1)
        BY DEF Smaller
      <3> QED
        BY <3>1 DEF Tick, TypeOK
    <2>3. PollsOK'
      <3>1. \A n \in Nat : Less(n) \in Nat
        BY DEF Less, Larger
      <3> QED
        BY <3>1 DEF Tick, TypeOK, PollsOK
    <2>4. pruneIn' \in 0..PruneInterval /\ pauseIn' \in 0..Pause
      BY DEF Tick, TypeOK, Less, Larger
    <2> QED
      BY <2>1, <2>2, <2>2a, <2>3, <2>4 DEF Tick, TypeOK, PollsOK
  <1>2. PollsLiveInTheirCycle'
    BY DEF Tick, TypeOK, PollsLiveInTheirCycle, Running
  <1>3. ASSUME NEW u \in Users
        PROVE  /\ poll'[u].phase = poll[u].phase /\ poll'[u].left = poll[u].left
               /\ nextIn'[u] = Less(nextIn[u])
               /\ credit'[u] = Smaller(credit[u] + 1, MaxCredit)
    BY DEF Tick, TypeOK
  <1>4. ASSUME NEW u \in Users, NEW k \in Nat, k <= MaxCredit, nextIn[u] + credit[u] >= k
        PROVE  Less(nextIn[u]) + Smaller(credit[u] + 1, MaxCredit) >= k
    BY <1>4 DEF TypeOK, Less, Larger, Smaller
  <1>5. ASSUME NEW u \in Users
        PROVE  nextIn'[u] + credit'[u] >=
                  IF poll'[u].phase = "asking" THEN Cost(poll'[u].left) ELSE 0
    <2>1. poll[u].left \in 0..MaxGroups
      BY DEF TypeOK
    <2>2. Cost(poll[u].left) \in Nat /\ Cost(poll[u].left) <= MaxCredit
      BY <2>1, Costs
    <2>3. CASE poll[u].phase = "asking"
      BY <2>2, <2>3, <1>3, <1>4 DEF Paid
    <2>4. CASE poll[u].phase # "asking"
      BY <2>4, <1>3, <1>4 DEF Paid
    <2> QED
      BY <2>3, <2>4
  <1>6. Paid'
    BY <1>3, <1>5 DEF Paid, Tick, Less, Larger
  <1> QED
    BY <1>1, <1>2, <1>6

LEMMA StepIInv ==
    ASSUME SchedulerAssumption, IInv, [Next]_vars
    PROVE  IInv'
  <1>1. ASSUME NEW u \in Users, Watch(u) PROVE IInv'
    BY <1>1 DEF Watch, IInv, TypeOK, PollsLiveInTheirCycle, Paid, Running, loop
  <1>2. CASE UNCHANGED vars
    BY <1>2 DEF vars, loop, IInv, TypeOK, PollsLiveInTheirCycle, Paid, Running
  <1> QED
    BY <1>1, <1>2, TaskStep, PollStepIInv, TickIInv DEF Next

(***************************************************************************)
(* Types hold, polls live in the gather of their cycle, and every poll is  *)
(* paid for by its interval: for any number of users and any rate.         *)
(***************************************************************************)
THEOREM SchedulerInvariant == Spec => []IInv
  <1>1. Init => IInv
    BY InitIInv, SchedulerAssumption
  <1>2. IInv /\ [Next]_vars => IInv'
    BY StepIInv, SchedulerAssumption
  <1> QED
    BY <1>1, <1>2, PTL DEF Spec

\* The types of the scheduler.
THEOREM TypeCorrect == Spec => []TypeOK
  <1>1. IInv => TypeOK
    BY DEF IInv
  <1> QED
    BY <1>1, SchedulerInvariant, PTL

\* A poll that still asks can afford it: its interval and the time gone by
\* since its requests cover all that are left, and who is selected is due.
THEOREM PollsArePaid == Spec => []Paid
  <1>1. IInv => Paid
    BY DEF IInv
  <1> QED
    BY <1>1, SchedulerInvariant, PTL

\* No poll outlives its gather, be it of any length.
THEOREM PollsStayInTheirCycle == Spec => []PollsLiveInTheirCycle
  <1>1. IInv => PollsLiveInTheirCycle
    BY DEF IInv
  <1> QED
    BY <1>1, SchedulerInvariant, PTL

\* A due poll has left the requests of the last one behind: what is listed
\* has no time left to wait, so that the credit alone is not negative.
THEOREM PollsKeepTheBudget == Spec => []BudgetKept
  <1>1. IInv => BudgetKept
    <2> SUFFICES ASSUME IInv, NEW u \in Users, poll[u].phase = "listed"
                 PROVE  credit[u] >= 0
      BY DEF BudgetKept
    <2>1. nextIn[u] = 0 /\ nextIn[u] + credit[u] >= 0 /\ credit[u] \in Int
      BY DEF IInv, Paid, TypeOK
    <2> QED
      BY <2>1
  <1> QED
    BY <1>1, SchedulerInvariant, PTL

=============================================================================
