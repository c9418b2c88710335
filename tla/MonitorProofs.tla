--------------------------- MODULE MonitorProofs ---------------------------
(***************************************************************************)
(* Proofs about Monitor, for any users, tokens, items, prices and bounds.  *)
(*                                                                         *)
(* The type invariant comes first; every other invariant is proved         *)
(* relative to the ones before it, one step for each action that writes a  *)
(* variable of it.                                                         *)
(***************************************************************************)
EXTENDS Monitor, TLAPS, SequenceTheorems, FiniteSetTheorems

\* The answer of evaluate_threshold for any stored rule.
LEMMA EvaluateType ==
    ASSUME NEW row \in RuleRow, NEW price \in Int \cup {None}, NEW at \in Nat,
           NEW initial \in BOOLEAN
    PROVE  Evaluate(Columns(row), price, at, initial)
               \in [state : RuleStates, triggered : BOOLEAN]
<1>1. /\ Columns(row).condition = "price_down"
      /\ Columns(row).current_state = row.state
      /\ Columns(row).last_triggered_at = row.last
      /\ Columns(row).threshold = Threshold
      /\ Columns(row).cooldown_seconds = Cooldown
  BY DEF Columns
<1>2. row.state \in RuleStates /\ row.last \in Nat \cup {None}
  BY DEF RuleRow
<1>3. CASE price = None
  BY <1>3 DEF Evaluate, Evaluation, RuleStates
<1>4. CASE price # None
  <2> DEFINE matched == Matches("price_down", Threshold, price)
             ready == CooldownReady(row.last, at, Cooldown)
  <2>1. matched \in BOOLEAN /\ ready \in BOOLEAN
    BY DEF Matches, CooldownReady
  <2> QED
    BY <1>1, <1>2, <1>4, <2>1, Zenon
    DEF Evaluate, Evaluation, RuleStates, Hit, Miss, Matches, CooldownReady
<1> QED BY <1>3, <1>4

\* An alert is made only of a listed price, and once the cooldown has passed.
LEMMA EvaluateTriggers ==
    ASSUME NEW row \in RuleRow, NEW price \in Int \cup {None}, NEW at \in Nat,
           NEW initial \in BOOLEAN,
           Evaluate(Columns(row), price, at, initial).triggered
    PROVE  row.last = None \/ at >= row.last + Cooldown
<1>1. /\ Columns(row).condition = "price_down"
      /\ Columns(row).current_state = row.state
      /\ Columns(row).last_triggered_at = row.last
      /\ Columns(row).cooldown_seconds = Cooldown
  BY DEF Columns
<1>2. CooldownReady(row.last, at, Cooldown)
  BY <1>1 DEF Evaluate, Evaluation
<1> QED BY <1>2 DEF CooldownReady

-----------------------------------------------------------------------------
LEMMA WorkersAre ==
    ASSUME NEW w \in Workers
    PROVE  Owner(w) \in Users
BY DEF Workers, Owner

LEMMA AddIsWorker ==
    ASSUME NEW u \in Users
    PROVE  <<"add", u>> \in Workers /\ <<"poll", u>> \in Workers
           /\ Owner(<<"add", u>>) = u /\ ~IsPoll(<<"add", u>>)
BY DEF Workers, Owner, IsPoll

LEMMA IdleTypes ==
    IdleJob \in Job /\ IdleAuth \in Auth /\ IdleCmd \in Cmd
BY DEF IdleJob, IdleAuth, IdleCmd, Job, Auth, Cmd, Phases

\* What a poll goes on to is a task.
LEMMA NextGroupType ==
    ASSUME NEW j \in Job, NEW next \in NextGroup(j)
    PROVE  next \in Job
<1>1. CASE j.todo = {}
  BY <1>1, IdleTypes DEF NextGroup
<1>2. CASE j.todo # {}
  <2>1. PICK g \in j.todo :
            next = [IdleJob EXCEPT !.phase = "fetch", !.token = j.token, !.notify = j.notify,
                                   !.todo = j.todo \ {g}, !.group = g]
    BY <1>2 DEF NextGroup
  <2>2. j.todo \in SUBSET SUBSET RuleIds /\ j.token \in Tokens \cup {None} /\ j.notify \in BOOLEAN
    BY DEF Job
  <2>3. j.todo \ {g} \in SUBSET SUBSET RuleIds /\ g \in SUBSET RuleIds
    BY <2>1, <2>2
  <2>4. next = [phase |-> "fetch", token |-> j.token, notify |-> j.notify,
                todo |-> j.todo \ {g}, group |-> g, price |-> None, at |-> 0,
                events |-> << >>, told |-> FALSE]
    BY <2>1 DEF IdleJob
  <2>5. << >> \in Seq(Nat) /\ None \in Int \cup {None} /\ "fetch" \in Phases
    BY DEF Phases
  <2> QED BY <2>2, <2>3, <2>4, <2>5 DEF Job
<1> QED BY <1>1, <1>2

\* A function on 1..n is a sequence of length n.
LEMMA FunctionIsSeq ==
    ASSUME NEW S, NEW n \in Nat, NEW f \in [1..n -> S]
    PROVE  f \in Seq(S) /\ Len(f) = n
<1>1. f \in Seq(S)
  BY SeqDef
<1>2. DOMAIN f = 1..Len(f) /\ Len(f) \in Nat
  BY <1>1, LenProperties
<1>3. 1..n = 1..Len(f)
  BY <1>2
<1> QED BY <1>1, <1>2, <1>3

LEMMA WithoutType ==
    ASSUME TablesOK, NEW ids
    PROVE  /\ Without(ids) \in [RuleIds -> RuleRow \cup {None}]
           /\ NotesWithout(ids) \in Seq(Note)
           /\ Len(NotesWithout(ids)) = Len(notes)
<1>1. Without(ids) \in [RuleIds -> RuleRow \cup {None}]
  BY DEF Without, TablesOK
<1>2. ASSUME NEW n \in 1..Len(notes)
      PROVE  (IF notes[n].rule \in ids THEN [notes[n] EXCEPT !.row = "deleted"] ELSE notes[n])
                 \in Note
  <2>1. notes[n] \in Note
    BY ElementOfSeq DEF TablesOK
  <2> QED BY <2>1 DEF Note
<1>3. Len(notes) \in Nat
  BY LenProperties DEF TablesOK
<1>4. NotesWithout(ids) \in [1..Len(notes) -> Note]
  BY <1>2 DEF NotesWithout
<1> QED BY <1>1, <1>3, <1>4, FunctionIsSeq

-----------------------------------------------------------------------------
(***************************************************************************)
(* The type invariant.                                                     *)
(***************************************************************************)
LEMMA InitType == Init => TypeOK
<1> SUFFICES ASSUME Init PROVE TypeOK
  OBVIOUS
<1>1. TablesOK
  BY EmptySeq DEF Init, TablesOK
<1>2. TasksOK
  BY IdleTypes DEF Init, TasksOK
<1> QED BY <1>1, <1>2 DEF Init, TypeOK

LEMMA PollJobType ==
    ASSUME TypeOK, NEW u \in Users, IsValid(u), NEW todo \in SUBSET SUBSET RuleIds,
           NEW group \in SUBSET RuleIds
    PROVE  [IdleJob EXCEPT !.phase = "fetch", !.token = users[u].token,
                           !.notify = ~users[u].notified, !.todo = todo, !.group = group] \in Job
<1>1. users[u] \in UserRow
  BY DEF TypeOK, TablesOK, IsValid
<1>2. users[u].token \in Tokens /\ (~users[u].notified) \in BOOLEAN
  BY <1>1 DEF UserRow
<1> QED BY <1>2, EmptySeq DEF IdleJob, Job, Phases

LEMMA StartCycleType ==
    ASSUME TypeOK, NEW due \in SUBSET Users, StartCycle(due)
    PROVE  TypeOK'
<1>1. PICK first \in [due -> SUBSET RuleIds] :
          /\ \A u \in due : first[u] \in GroupsOf(u)
          /\ job' = [w \in Workers |->
                        IF IsPoll(w) /\ Owner(w) \in due
                        THEN LET u == Owner(w)
                             IN  [IdleJob EXCEPT !.phase = "fetch",
                                                 !.token = users[u].token,
                                                 !.notify = ~users[u].notified,
                                                 !.todo = GroupsOf(u) \ {first[u]},
                                                 !.group = first[u]]
                        ELSE job[w]]
  BY DEF StartCycle
<1>2. ASSUME NEW w \in Workers PROVE job'[w] \in Job
  <2>1. CASE IsPoll(w) /\ Owner(w) \in due
    <3>1. IsValid(Owner(w))
      BY <2>1 DEF StartCycle, Polled
    <3>2. GroupsOf(Owner(w)) \ {first[Owner(w)]} \in SUBSET SUBSET RuleIds
      BY DEF GroupsOf, EnabledOf, RulesOf
    <3>3. first[Owner(w)] \in SUBSET RuleIds /\ Owner(w) \in Users
      BY <2>1
    <3> QED BY <1>1, <2>1, <3>1, <3>2, <3>3, PollJobType
  <2>2. CASE ~(IsPoll(w) /\ Owner(w) \in due)
    BY <1>1, <2>2 DEF TypeOK, TasksOK
  <2> QED BY <2>1, <2>2
<1>3. job' \in [Workers -> Job]
  BY <1>1, <1>2
<1> QED BY <1>3 DEF StartCycle, TypeOK, TablesOK, TasksOK, tables, history

LEMMA FetchType ==
    ASSUME TypeOK, NEW w \in Workers, NEW price \in Prices \cup {None},
           FetchOk(w, price) \/ FetchFails(w) \/ FetchRejected(w)
    PROVE  TypeOK'
<1>1. job[w] \in Job /\ Prices \subseteq Int
  BY ParametersAssumption DEF TypeOK, TasksOK
<1>2. job[w].group \subseteq RuleIds /\ job[w].token \in Tokens \cup {None}
      /\ job[w].notify \in BOOLEAN
  BY <1>1 DEF Job
<1>3. CASE FetchOk(w, price)
  <2>1. [job[w] EXCEPT !.phase = "process", !.price = price, !.at = clock] \in Job
    BY <1>1 DEF Job, Phases, TypeOK
  <2>2. job' \in [Workers -> Job]
    BY <1>3, <2>1 DEF FetchOk, TypeOK, TasksOK
  <2> QED BY <1>3, <2>2 DEF FetchOk, TypeOK, TablesOK, TasksOK, tables, history
<1>4. CASE FetchFails(w)
  <2>1. [job[w] EXCEPT !.phase = "discard"] \in Job
    BY <1>1 DEF Job, Phases
  <2>2. job' \in [Workers -> Job]
    BY <1>1, <1>4, <2>1, NextGroupType DEF FetchFails, TypeOK, TasksOK
  <2>3. failed' \subseteq RuleIds
    BY <1>2, <1>4 DEF FetchFails, FailedBy, TypeOK
  <2> QED BY <1>4, <2>2, <2>3 DEF FetchFails, TypeOK, TablesOK, TasksOK, tables
<1>5. CASE FetchRejected(w)
  <2>1. [job[w] EXCEPT !.phase = "discard"] \in Job
    BY <1>1 DEF Job, Phases
  <2>2. [IdleJob EXCEPT !.phase = "invalidate", !.token = job[w].token,
                        !.notify = job[w].notify] \in Job
    BY <1>2, EmptySeq DEF IdleJob, Job, Phases
  <2>3. job' \in [Workers -> Job]
    <3> DEFINE next == IF IsPoll(w)
                       THEN [IdleJob EXCEPT !.phase = "invalidate", !.token = job[w].token,
                                            !.notify = job[w].notify]
                       ELSE [job[w] EXCEPT !.phase = "discard"]
    <3>1. next \in Job
      BY <2>1, <2>2
    <3>2. job' = [job EXCEPT ![w] = next]
      BY <1>5 DEF FetchRejected
    <3> HIDE DEF next
    <3> QED BY <3>1, <3>2 DEF TypeOK, TasksOK
  <2>4. failed' \subseteq RuleIds
    BY <1>2, <1>5 DEF FetchRejected, FailedBy, TypeOK
  <2>5. rejected' \subseteq Tokens \cup {None}
    BY <1>2, <1>5 DEF FetchRejected, TypeOK
  <2> QED BY <1>5, <2>3, <2>4, <2>5 DEF FetchRejected, TypeOK, TablesOK, TasksOK, tables
<1> QED BY <1>3, <1>4, <1>5

\* The rules process writes, and the alerts it adds.
LEMMA ProcessedType ==
    ASSUME TypeOK, NEW w \in Workers, NEW id \in Processed(w)
    PROVE  /\ id \in RuleIds /\ rules[id] \in RuleRow
           /\ Evaluated(w, id) \in [state : RuleStates, triggered : BOOLEAN]
           /\ ProcessedRow(rules[id], Evaluated(w, id), job[w].at) \in RuleRow
<1>1. id \in RuleIds /\ rules[id] \in RuleRow
  BY DEF Processed, EnabledOf, RulesOf, TypeOK, TablesOK
<1>2. job[w].at \in Nat /\ job[w].price \in Int \cup {None} /\ IsPoll(w) \in BOOLEAN
  BY DEF TypeOK, TasksOK, Job, IsPoll
<1>3. Evaluated(w, id) \in [state : RuleStates, triggered : BOOLEAN]
  BY <1>1, <1>2, EvaluateType DEF Evaluated
<1>4. ProcessedRow(rules[id], Evaluated(w, id), job[w].at) \in RuleRow
  BY <1>1, <1>2, <1>3 DEF ProcessedRow, RuleRow
<1> QED BY <1>1, <1>3, <1>4

\* The alerts of one transaction.
NewNotes(w, order) ==
    [i \in DOMAIN order |->
        [rule |-> order[i], at |-> job[w].at, row |-> "pending", dms |-> 0]]

LEMMA NewNotesType ==
    ASSUME TypeOK, NEW w \in Workers, NEW order \in Orders(Triggered(w))
    PROVE  \E k \in Nat :
              /\ order \in [1..k -> Triggered(w)]
              /\ \A i, j \in 1..k : order[i] = order[j] => i = j
              /\ NewNotes(w, order) \in Seq(Note)
              /\ Len(NewNotes(w, order)) = k
              /\ notes \o NewNotes(w, order) \in Seq(Note)
              /\ Len(notes \o NewNotes(w, order)) = Len(notes) + k
              /\ [i \in DOMAIN order |-> Len(notes) + i] \in Seq(Nat)
<1> DEFINE k == Cardinality(Triggered(w))
<1>1. Triggered(w) \subseteq RuleIds
  BY DEF Triggered, Processed, EnabledOf, RulesOf
<1>2. IsFiniteSet(RuleIds)
  BY FS_Interval, ParametersAssumption DEF RuleIds
<1>3. k \in Nat
  BY <1>1, <1>2, FS_Subset, FS_CardinalityType
<1>4. /\ order \in [1..k -> Triggered(w)]
      /\ \A i, j \in 1..k : order[i] = order[j] => i = j
  BY DEF Orders
<1>5. job[w].at \in Nat
  BY DEF TypeOK, TasksOK, Job
<1>6. NewNotes(w, order) \in [1..k -> Note]
  BY <1>1, <1>4, <1>5 DEF NewNotes, Note
<1>7. NewNotes(w, order) \in Seq(Note) /\ Len(NewNotes(w, order)) = k
  BY <1>3, <1>6, FunctionIsSeq
<1>8. notes \in Seq(Note) /\ Len(notes) \in Nat
  BY LenProperties DEF TypeOK, TablesOK
<1>9. /\ notes \o NewNotes(w, order) \in Seq(Note)
      /\ Len(notes \o NewNotes(w, order)) = Len(notes) + k
  BY <1>7, <1>8, ConcatProperties
<1>10. [i \in DOMAIN order |-> Len(notes) + i] \in [1..k -> Nat]
  BY <1>4, <1>8, <1>3
<1>11. [i \in DOMAIN order |-> Len(notes) + i] \in Seq(Nat)
  BY <1>3, <1>10, FunctionIsSeq
<1> QED BY <1>3, <1>4, <1>7, <1>9, <1>11

LEMMA ProcessType ==
    ASSUME TypeOK, NEW w \in Workers, Process(w)
    PROVE  TypeOK'
<1>1. CASE users[Owner(w)] = None
  BY <1>1, IdleTypes DEF Process, TypeOK, TablesOK, TasksOK, history
<1>2. CASE users[Owner(w)] # None
  <2>0. rules' = [id \in RuleIds |->
                     IF id \in Processed(w)
                     THEN ProcessedRow(rules[id], Evaluated(w, id), job[w].at)
                     ELSE rules[id]]
    BY <1>2 DEF Process
  <2>1. rules' \in [RuleIds -> RuleRow \cup {None}]
    BY <2>0, ProcessedType DEF TypeOK, TablesOK
  <2>2. PICK order \in Orders(Triggered(w)) :
           /\ notes' = notes \o NewNotes(w, order)
           /\ IF order = << >>
              THEN \E next \in NextGroup(job[w]) : job' = [job EXCEPT ![w] = next]
              ELSE job' = [job EXCEPT ![w] =
                     [IdleJob EXCEPT !.phase = "deliver", !.token = job[w].token,
                                     !.notify = job[w].notify, !.todo = job[w].todo,
                                     !.events = [i \in DOMAIN order |-> Len(notes) + i]]]
    BY <1>2 DEF Process, NewNotes
  <2>3. notes' \in Seq(Note) /\ [i \in DOMAIN order |-> Len(notes) + i] \in Seq(Nat)
    BY <2>2, NewNotesType
  <2>4. job[w] \in Job
    BY DEF TypeOK, TasksOK
  <2>5. job[w].token \in Tokens \cup {None} /\ job[w].notify \in BOOLEAN
        /\ job[w].todo \in SUBSET SUBSET RuleIds
    BY <2>4 DEF Job
  <2>6. [IdleJob EXCEPT !.phase = "deliver", !.token = job[w].token,
                        !.notify = job[w].notify, !.todo = job[w].todo,
                        !.events = [i \in DOMAIN order |-> Len(notes) + i]] \in Job
    BY <2>3, <2>5 DEF IdleJob, Job, Phases
  <2>7. job' \in [Workers -> Job]
    BY <2>2, <2>4, <2>6, NextGroupType DEF TypeOK, TasksOK
  <2> QED BY <2>1, <2>3, <2>7 DEF Process, TypeOK, TablesOK, TasksOK, history
<1> QED BY <1>1, <1>2

LEMMA DeliverType ==
    ASSUME TypeOK, NEW w \in Workers, NEW outcome \in Outcomes, Deliver(w, outcome)
    PROVE  TypeOK'
<1> DEFINE n == Head(job[w].events)
<1>1. job[w] \in Job /\ notes \in Seq(Note)
  BY DEF TypeOK, TasksOK, TablesOK
<1>2. [job[w] EXCEPT !.phase = "record", !.told = (outcome = "accepted")] \in Job
  BY <1>1 DEF Job, Phases
<1>3. job' \in [Workers -> Job]
  BY <1>2 DEF Deliver, TypeOK, TasksOK
<1>4. ASSUME n \in 1..Len(notes)
      PROVE  [notes EXCEPT ![n].dms = @ + 1] \in Seq(Note)
  <2>1. notes[n] \in Note
    BY <1>1, <1>4, ElementOfSeq
  <2>2. [notes[n] EXCEPT !.dms = @ + 1] \in Note
    BY <2>1 DEF Note
  <2> QED BY <1>1, <1>4, <2>2, ExceptSeq
<1>5. ASSUME n \notin 1..Len(notes)
      PROVE  [notes EXCEPT ![n].dms = @ + 1] = notes
  BY <1>1, <1>5, LenProperties
<1>6. notes' \in Seq(Note)
  BY <1>1, <1>4, <1>5 DEF Deliver
<1> QED BY <1>3, <1>6 DEF Deliver, TypeOK, TablesOK, TasksOK, history

LEMMA RecordType ==
    ASSUME TypeOK, NEW w \in Workers, Record(w)
    PROVE  TypeOK'
<1> DEFINE n == Head(job[w].events)
<1>1. job[w] \in Job /\ notes \in Seq(Note)
  BY DEF TypeOK, TasksOK, TablesOK
<1>2. job[w].events \in Seq(Nat)
  BY <1>1 DEF Job
<1>3. job' \in [Workers -> Job]
  <2>1. CASE Len(job[w].events) > 1
    <3>1. job[w].events # << >>
      BY <2>1
    <3>2. Tail(job[w].events) \in Seq(Nat)
      BY <1>2, <3>1, HeadTailProperties
    <3>3. [job[w] EXCEPT !.phase = "deliver", !.told = FALSE,
                         !.events = Tail(@)] \in Job
      BY <1>1, <3>2 DEF Job, Phases
    <3> QED BY <2>1, <3>3 DEF Record, TypeOK, TasksOK
  <2>2. CASE ~(Len(job[w].events) > 1)
    BY <1>1, <2>2, NextGroupType DEF Record, TypeOK, TasksOK
  <2> QED BY <2>1, <2>2
<1>4. OutcomeOf(job[w]) \in {"sent", "failed"}
  BY DEF OutcomeOf
<1>5. ASSUME n \in 1..Len(notes)
      PROVE  [notes EXCEPT ![n].row = OutcomeOf(job[w])] \in Seq(Note)
  <2>1. notes[n] \in Note
    BY <1>1, <1>5, ElementOfSeq
  <2>2. [notes[n] EXCEPT !.row = OutcomeOf(job[w])] \in Note
    BY <1>4, <2>1 DEF Note
  <2> QED BY <1>1, <1>5, <2>2, ExceptSeq
<1>6. ASSUME n \notin 1..Len(notes)
      PROVE  [notes EXCEPT ![n].row = OutcomeOf(job[w])] = notes
  BY <1>1, <1>6, LenProperties
<1>7. notes' \in Seq(Note)
  BY <1>1, <1>5, <1>6 DEF Record
<1> QED BY <1>3, <1>7 DEF Record, TypeOK, TablesOK, TasksOK, history

LEMMA InvalidateType ==
    ASSUME TypeOK, NEW w \in Workers, Invalidate(w)
    PROVE  TypeOK'
<1>1. Owner(w) \in Users
  BY WorkersAre
<1>2. users' \in [Users -> UserRow \cup {None}]
  <2>1. users[Owner(w)] # None => MarkedInvalid(users[Owner(w)], job[w].notify) \in UserRow
    <3>1. ASSUME NEW row \in UserRow, NEW notify \in BOOLEAN
          PROVE  MarkedInvalid(row, notify) \in UserRow
      BY DEF MarkedInvalid, UserRow
    <3>2. job[w].notify \in BOOLEAN
      BY DEF TypeOK, TasksOK, Job
    <3> QED BY <1>1, <3>1, <3>2 DEF TypeOK, TablesOK
  <2> QED BY <1>1, <2>1 DEF Invalidate, TypeOK, TablesOK
<1>3. rules' \in [RuleIds -> RuleRow \cup {None}]
  <2>1. ASSUME NEW id \in RulesOf(Owner(w))
        PROVE  PausedByInvalidation(rules[id]) \in RuleRow
    BY <2>1 DEF RulesOf, PausedByInvalidation, RuleRow, TypeOK, TablesOK
  <2>2. rules' = [id \in RuleIds |-> IF id \in RulesOf(Owner(w))
                                     THEN PausedByInvalidation(rules[id]) ELSE rules[id]]
    BY DEF Invalidate
  <2> QED BY <2>1, <2>2 DEF TypeOK, TablesOK
<1>4. job' \in [Workers -> Job]
  <2>1. [IdleJob EXCEPT !.phase = "dm"] \in Job
    BY EmptySeq DEF IdleJob, Job, Phases
  <2> QED BY <2>1, IdleTypes DEF Invalidate, TypeOK, TasksOK
<1>5. straddled' \subseteq Users
  BY <1>1 DEF Invalidate, TypeOK
<1> QED BY <1>2, <1>3, <1>4, <1>5 DEF Invalidate, TypeOK, TablesOK, TasksOK

LEMMA EndOfTaskType ==
    ASSUME TypeOK,
           NEW w \in Workers,
           ReauthDm(w) \/ TaskError(w)
    PROVE  TypeOK'
<1>1. [job EXCEPT ![w] = IdleJob] \in [Workers -> Job]
  BY IdleTypes DEF TypeOK, TasksOK
<1>2. faults \in Nat /\ faults + 1 \in Nat
  BY DEF TypeOK
<1>3. CASE ReauthDm(w)
  BY <1>1, <1>3 DEF ReauthDm, TypeOK, TablesOK, TasksOK, tables, history
<1>4. CASE TaskError(w)
  BY <1>1, <1>2, <1>4 DEF TaskError, TypeOK, TablesOK, TasksOK, tables, history
<1> QED BY <1>3, <1>4

LEMMA AddType ==
    ASSUME TypeOK, NEW u \in Users,
           AddBegin(u) \/ (\E item \in Items : AddInsert(u, item)) \/ Discard(u)
    PROVE  TypeOK'
<1> DEFINE w == <<"add", u>>
<1>1. w \in Workers /\ job[w] \in Job
  BY AddIsWorker DEF TypeOK, TasksOK
<1>2. CASE AddBegin(u)
  <2>1. users[u].token \in Tokens
    BY <1>2 DEF AddBegin, IsValid, TypeOK, TablesOK, UserRow
  <2>2. [IdleJob EXCEPT !.phase = "insert", !.token = users[u].token] \in Job
    BY <2>1, EmptySeq DEF IdleJob, Job, Phases
  <2>3. job' \in [Workers -> Job]
    BY <1>1, <1>2, <2>2 DEF AddBegin, TypeOK, TasksOK
  <2> QED BY <1>2, <2>3 DEF AddBegin, TypeOK, TablesOK, TasksOK, tables, history
<1>3. ASSUME NEW item \in Items, AddInsert(u, item) PROVE TypeOK'
  <2>1. CASE users[u] = None
    <3>1. job' \in [Workers -> Job]
      BY <1>3, <2>1, IdleTypes DEF AddInsert, TypeOK, TasksOK
    <3> QED BY <1>3, <2>1, <3>1 DEF AddInsert, TypeOK, TablesOK, TasksOK, history
  <2>2. CASE users[u] # None
    <3>1. NewRule(u, item) \in RuleRow
      BY DEF NewRule, RuleRow, RuleStates
    <3>2. nextId \in RuleIds /\ nextId \in Nat
      BY <1>3 DEF AddInsert, TypeOK, TablesOK
    <3>3. [job[w] EXCEPT !.phase = "fetch", !.group = {nextId}] \in Job
      BY <1>1, <3>2 DEF Job, Phases
    <3>4. job' \in [Workers -> Job]
      BY <1>3, <2>2, <3>3 DEF AddInsert, TypeOK, TasksOK
    <3>5. rules' \in [RuleIds -> RuleRow \cup {None}]
      BY <1>3, <2>2, <3>1, <3>2 DEF AddInsert, TypeOK, TablesOK
    <3> QED BY <1>3, <2>2, <3>2, <3>4, <3>5 DEF AddInsert, TypeOK, TablesOK, TasksOK, history
  <2> QED BY <2>1, <2>2
<1>4. CASE Discard(u)
  <2>1. job' \in [Workers -> Job]
    BY <1>4, IdleTypes DEF Discard, TypeOK, TasksOK
  <2>2. rules' \in [RuleIds -> RuleRow \cup {None}] /\ notes' \in Seq(Note)
    BY <1>4, WithoutType DEF Discard, Discarded, TypeOK
  <2> QED BY <1>4, <2>1, <2>2 DEF Discard, TypeOK, TablesOK, TasksOK, history
<1> QED BY <1>2, <1>3, <1>4

LEMMA AuthType ==
    ASSUME TypeOK, NEW u \in Users,
           (\E token \in Tokens : AuthRead(u, token)) \/ AuthWrite(u) \/ Logout(u)
    PROVE  TypeOK'
<1>1. ASSUME NEW token \in Tokens, AuthRead(u, token) PROVE TypeOK'
  <2>1. [phase |-> "write", token |-> token, seen |-> users[u]] \in Auth
    BY DEF Auth, TypeOK, TablesOK
  <2>2. auth' \in [Users -> Auth]
    BY <1>1, <2>1 DEF AuthRead, TypeOK, TasksOK
  <2>3. auths' \in Nat
    BY <1>1 DEF AuthRead, TypeOK
  <2> QED BY <1>1, <2>2, <2>3 DEF AuthRead, TypeOK, TablesOK, TasksOK, tables, history
<1>2. CASE AuthWrite(u)
  <2>1. auth[u] \in Auth /\ users[u] \in UserRow \cup {None}
    BY DEF TypeOK, TablesOK, TasksOK
  <2>2. auth[u].token \in Tokens /\ auth[u].seen \in UserRow \cup {None}
    BY <1>2, <2>1 DEF Auth, AuthWrite, IdleAuth
  <2>3. auth' \in [Users -> Auth]
    BY <1>2, IdleTypes DEF AuthWrite, TypeOK, TasksOK
  <2>4. ASSUME NEW row \in UserRow, NEW seen \in UserRow, NEW token \in Tokens
        PROVE  SavedToken(row, seen, token) \in UserRow
    BY DEF SavedToken, UserRow
  <2>5. [token |-> auth[u].token, status |-> "valid", notified |-> FALSE] \in UserRow
    BY <2>2 DEF UserRow
  <2>6. users' \in [Users -> UserRow \cup {None}]
    BY <1>2, <2>1, <2>2, <2>4, <2>5 DEF AuthWrite, TypeOK, TablesOK
  <2> QED BY <1>2, <2>3, <2>6 DEF AuthWrite, TypeOK, TablesOK, TasksOK, history
<1>3. CASE Logout(u)
  <2>1. rules' \in [RuleIds -> RuleRow \cup {None}] /\ notes' \in Seq(Note)
    BY <1>3, WithoutType DEF Logout, TypeOK
  <2> QED BY <1>3, <2>1 DEF Logout, TypeOK, TablesOK, TasksOK, tasks, history
<1> QED BY <1>1, <1>2, <1>3

LEMMA CmdType ==
    ASSUME TypeOK, NEW u \in Users,
           \/ \E kind \in CmdKinds, id \in RuleIds : CmdBegin(u, kind, id)
           \/ CmdCommit(u)
    PROVE  TypeOK'
<1>1. ASSUME NEW kind \in CmdKinds, NEW id \in RuleIds, CmdBegin(u, kind, id)
      PROVE  TypeOK'
  <2>1. [kind |-> kind, rule |-> id] \in Cmd
    BY ParametersAssumption DEF Cmd, RuleIds
  <2>2. cmd' \in [Users -> Cmd]
    BY <1>1, <2>1 DEF CmdBegin, TypeOK, TasksOK
  <2> QED BY <1>1, <2>2 DEF CmdBegin, TypeOK, TablesOK, TasksOK, tables, history
<1>2. CASE CmdCommit(u)
  <2>1. cmd' \in [Users -> Cmd]
    BY <1>2, IdleTypes DEF CmdCommit, TypeOK, TasksOK
  <2>2. ASSUME NEW id \in RulesOf(u), NEW kind
        PROVE  SetEnabled(rules[id], kind) \in RuleRow
    <3>1. ASSUME NEW row \in RuleRow
          PROVE  SetEnabled(row, kind) \in RuleRow
      BY DEF SetEnabled, RuleRow, RuleStates
    <3> QED BY <3>1 DEF RulesOf, TypeOK, TablesOK
  <2>3. rules' \in [RuleIds -> RuleRow \cup {None}]
    <3>1. CASE cmd[u].kind = "delete"
      BY <1>2, <3>1, WithoutType DEF CmdCommit, TypeOK
    <3>2. CASE cmd[u].kind # "delete"
      <4>1. rules' = [i \in RuleIds |-> IF i \in {cmd[u].rule} \cap RulesOf(u)
                                        THEN SetEnabled(rules[i], cmd[u].kind)
                                        ELSE rules[i]]
        BY <1>2, <3>2 DEF CmdCommit
      <4> QED BY <2>2, <4>1 DEF TypeOK, TablesOK
    <3> QED BY <3>1, <3>2
  <2>4. notes' \in Seq(Note)
    BY <1>2, WithoutType DEF CmdCommit, TypeOK, TablesOK
  <2> QED BY <1>2, <2>1, <2>3, <2>4 DEF CmdCommit, TypeOK, TablesOK, TasksOK, history
<1> QED BY <1>1, <1>2

LEMMA WorldType ==
    ASSUME TypeOK, (\E token \in Tokens : Revoke(token)) \/ Tick \/ Crash
    PROVE  TypeOK'
<1>1. CASE \E token \in Tokens : Revoke(token)
  BY <1>1 DEF Revoke, TypeOK, TablesOK, TasksOK, tables, tasks, history
<1>2. CASE Tick
  BY <1>2 DEF Tick, TypeOK, TablesOK, TasksOK, tables, tasks, history
<1>3. CASE Crash
  <2>1. job' \in [Workers -> Job] /\ auth' \in [Users -> Auth] /\ cmd' \in [Users -> Cmd]
    BY <1>3, IdleTypes DEF Crash
  <2> QED BY <1>3, <2>1 DEF Crash, TypeOK, TablesOK, TasksOK, tables, history
<1> QED BY <1>1, <1>2, <1>3

LEMMA NextType == TypeOK /\ [Next]_vars => TypeOK'
<1> SUFFICES ASSUME TypeOK, [Next]_vars PROVE TypeOK'
  OBVIOUS
<1>1. CASE \E due \in SUBSET Users : StartCycle(due)
  BY <1>1, StartCycleType
<1>2. ASSUME NEW w \in Workers, Work(w) \/ FetchFails(w) \/ Poll(w) \/ TaskError(w)
      PROVE  TypeOK'
  BY <1>2, FetchType, ProcessType, DeliverType, RecordType, InvalidateType, EndOfTaskType
  DEF Work, Poll
<1>3. ASSUME NEW u \in Users,
             \/ AddBegin(u) \/ Add(u)
             \/ \E token \in Tokens : AuthRead(u, token)
             \/ AuthWrite(u)
             \/ Logout(u)
             \/ \E kind \in CmdKinds, id \in RuleIds : CmdBegin(u, kind, id)
             \/ CmdCommit(u)
      PROVE  TypeOK'
  BY <1>3, AddType, AuthType, CmdType DEF Add
<1>4. CASE (\E token \in Tokens : Revoke(token)) \/ Tick \/ Crash
  BY <1>4, WorldType
<1>5. CASE UNCHANGED vars
  BY <1>5 DEF vars, tables, tasks, history, TypeOK, TablesOK, TasksOK
<1> QED BY <1>1, <1>2, <1>3, <1>4, <1>5 DEF Next

\* models.py: every interleaving of the tasks leaves well-formed rows.
THEOREM TypeCorrect == Spec => []TypeOK
BY InitType, NextType, PTL DEF Spec

=============================================================================
