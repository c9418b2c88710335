------------------------- MODULE RuleNumbersProofs -------------------------
(***************************************************************************)
(* Proofs about RuleNumbers, for any number of interactions and rules.     *)
(***************************************************************************)
EXTENDS RuleNumbers, FiniteSetTheorems, TLAPS

\* The sequence names the rules: the n-th that is added has the id n.
RowsOK ==
    /\ \A id \in rules : name[id] = id /\ id <= added
    /\ \A a \in alerts : a.name = a.rule /\ a.rule <= added
    /\ \A n \in Names : said[n] <= 1 /\ (said[n] = 1 => n \notin rules /\ n <= added)

Pending(c) == task[c].phase \in {"flushed", "numbered"}
Reading(c) == task[c].phase \in {"numbered", "checking", "issued"}

TaskOK(c) ==
    /\ task[c].phase \in {"flushed", "numbered", "checking", "resolved"} =>
          task[c].name = task[c].rule /\ task[c].rule \in 1..added
    /\ Pending(c) => task[c].rule \notin rules /\ said[task[c].rule] = 0
    /\ Reading(c) => task[c].number >= 1 /\ task[c].meant \in Names
    /\ task[c].phase \in {"numbered", "checking"} => task[c].meant = task[c].rule
    /\ Reading(c) /\ ~task[c].moved =>
          task[c].number = NumberOf(rules \cup {task[c].meant}, task[c].meant)
    /\ task[c].phase \in {"checking", "issued"} /\ ~task[c].moved => task[c].meant \in rules
    /\ task[c].phase = "resolved" /\ ~task[c].button /\ ~task[c].moved =>
          task[c].rule = task[c].meant

Distinct ==
    \A c, d \in Interactions :
        c # d /\ Pending(c) /\ Pending(d) => task[c].rule # task[d].rule

IInv ==
    /\ TypeOK /\ RowsOK /\ Distinct
    /\ \A c \in Interactions : TaskOK(c)

-----------------------------------------------------------------------------
\* Numbers.

\* A set of ids is finite, and so is what lies below one of them.
LEMMA FiniteIds ==
    ASSUME NumbersAssumption, NEW ids \in SUBSET Names, NEW id
    PROVE  /\ IsFiniteSet(ids) /\ Cardinality(ids) \in 0..MaxRules
           /\ IsFiniteSet(UpTo(ids, id)) /\ NumberOf(ids, id) \in 0..MaxRules
  <1>1. IsFiniteSet(Names) /\ Cardinality(Names) = MaxRules
    BY FS_Interval DEF Names, NumbersAssumption
  <1>2. ASSUME NEW T \in SUBSET Names
        PROVE  IsFiniteSet(T) /\ Cardinality(T) \in 0..MaxRules
    BY <1>1, <1>2, FS_Subset, FS_CardinalityType DEF NumbersAssumption
  <1>3. UpTo(ids, id) \in SUBSET Names
    BY DEF UpTo
  <1> QED
    BY <1>2, <1>3 DEF NumberOf

\* Numbers start from one.
LEMMA NumberType ==
    ASSUME NumbersAssumption, NEW ids \in SUBSET Names, NEW id \in ids
    PROVE  NumberOf(ids, id) \in 1..MaxRules
  <1>1. IsFiniteSet(UpTo(ids, id)) /\ NumberOf(ids, id) \in 0..MaxRules
    BY FiniteIds
  <1>2. id \in UpTo(ids, id)
    BY DEF UpTo, Names
  <1>3. Cardinality(UpTo(ids, id)) # 0
    BY <1>1, <1>2, FS_EmptySet
  <1> QED
    BY <1>1, <1>3 DEF NumberOf, NumbersAssumption

LEMMA StrictSubset ==
    ASSUME NEW S, IsFiniteSet(S), NEW T \in SUBSET S, S # T
    PROVE  Cardinality(T) \in Nat /\ Cardinality(S) \in Nat /\ Cardinality(T) < Cardinality(S)
  <1>1. /\ IsFiniteSet(T) /\ Cardinality(T) <= Cardinality(S)
        /\ Cardinality(S) # Cardinality(T)
    BY FS_Subset
  <1>2. Cardinality(T) \in Nat /\ Cardinality(S) \in Nat
    BY <1>1, FS_CardinalityType
  <1> QED
    BY <1>1, <1>2

\* A smaller id has a smaller number.
LEMMA NumbersGrow ==
    ASSUME NumbersAssumption, NEW ids \in SUBSET Names, NEW a \in ids, NEW b \in ids, a < b
    PROVE  NumberOf(ids, a) < NumberOf(ids, b)
  <1>1. UpTo(ids, a) \subseteq UpTo(ids, b)
    <2>1. \A r \in ids : r \in Int
      BY DEF Names
    <2>2. \A r \in ids : r <= a => r <= b
      BY <2>1
    <2> QED
      BY <2>2 DEF UpTo
  <1>2. b \in UpTo(ids, b) /\ b \notin UpTo(ids, a)
    BY DEF UpTo, Names
  <1>3. /\ IsFiniteSet(UpTo(ids, b))
        /\ NumberOf(ids, a) \in 0..MaxRules /\ NumberOf(ids, b) \in 0..MaxRules
    BY FiniteIds
  <1>4. UpTo(ids, a) \in SUBSET UpTo(ids, b) /\ UpTo(ids, b) # UpTo(ids, a)
    BY <1>1, <1>2
  <1>5. Cardinality(UpTo(ids, a)) < Cardinality(UpTo(ids, b))
    BY <1>3, <1>4, StrictSubset
  <1> QED
    BY <1>3, <1>5 DEF NumberOf

\* So a number stands for one rule.
LEMMA OneRuleForANumber ==
    ASSUME NumbersAssumption, NEW ids \in SUBSET Names, NEW a \in ids, NEW b \in ids,
           NumberOf(ids, a) = NumberOf(ids, b)
    PROVE  a = b
  <1>1. a \in Int /\ b \in Int
    BY DEF Names
  <1>2. NumberOf(ids, a) \in Int /\ NumberOf(ids, b) \in Int
    BY NumberType
  <1>3. ~(a < b) /\ ~(b < a)
    BY <1>2, NumbersGrow
  <1> QED
    BY <1>1, <1>3

\* What comes or goes above an id does not move it.
LEMMA Unmoved ==
    ASSUME NEW ids \in SUBSET Names, NEW more \in SUBSET Names, NEW id \in Names,
           \A r \in Names : r <= id => (r \in ids <=> r \in more)
    PROVE  /\ NumberOf(ids \cup {id}, id) = NumberOf(more \cup {id}, id)
           /\ id \in ids <=> id \in more
  <1>1. UpTo(ids \cup {id}, id) = UpTo(more \cup {id}, id)
    BY DEF UpTo, Names
  <1> QED
    BY <1>1 DEF NumberOf, Names

-----------------------------------------------------------------------------
LEMMA InitIInv ==
    ASSUME NumbersAssumption, Init
    PROVE  IInv
  <1> USE DEF Init, IdleTask, NumbersAssumption
  <1>1. TypeOK
    <2>1. task \in [Interactions ->
                    [phase : {"idle", "flushed", "numbered", "checking", "issued", "resolved"},
                     kind : Kinds \cup {"none", "add"}, rule : 0..MaxRules, name : 0..MaxRules,
                     number : 0..MaxRules, meant : 0..MaxRules, moved : BOOLEAN,
                     button : BOOLEAN]]
      BY DEF Kinds
    <2>2. name \in [Names -> 0..MaxRules] /\ said \in [Names -> Nat]
      BY DEF Names
    <2>3. valid \in BOOLEAN /\ rules \subseteq Names /\ enabled \subseteq rules
      OBVIOUS
    <2>6. nextId = added + 1 /\ added \in 0..MaxRules
      OBVIOUS
    <2>4. alerts \subseteq [rule : Names, name : Names, kind : Kinds]
      OBVIOUS
    <2>5. \A c \in Interactions : task[c].phase = "idle"
      OBVIOUS
    <2> QED
      BY <2>1, <2>2, <2>3, <2>4, <2>5, <2>6 DEF TypeOK
  <1>2. RowsOK /\ Distinct /\ \A c \in Interactions : TaskOK(c)
    BY DEF RowsOK, Distinct, TaskOK, Pending, Reading, Names
  <1> QED
    BY <1>1, <1>2 DEF IInv

\* A task that is left alone, or only told that its number may have moved.
LEMMA Untouched ==
    ASSUME NumbersAssumption, IInv, TypeOK', NEW c \in Interactions,
           NEW gone \in SUBSET Names, NEW come \in SUBSET Names,
           rules' = (rules \ gone) \cup come, gone \subseteq rules,
           added' \in {added, added + 1},
           Pending(c) => task[c].rule \notin come /\ said'[task[c].rule] = said[task[c].rule],
           task'[c].moved = (task[c].moved \/ \E id \in gone \cup come : id <= task[c].meant),
           \A f \in {"phase", "rule", "name", "number", "meant", "button"} :
              task'[c][f] = task[c][f]
    PROVE  TaskOK(c)'
  <1> DEFINE t == task[c]
             u == task'[c]
  <1>1. /\ u.phase = t.phase /\ u.rule = t.rule /\ u.name = t.name /\ u.number = t.number
        /\ u.meant = t.meant /\ u.button = t.button
    BY DEF TypeOK
  <1>2. TaskOK(c) /\ added \in Nat /\ rules \subseteq Names /\ rules' \subseteq Names
    BY DEF IInv, TypeOK
  <1>3. ~u.moved => ~t.moved /\ \A id \in gone \cup come : ~(id <= t.meant)
    OBVIOUS
  <1>4. ASSUME Reading(c), ~u.moved
        PROVE  /\ NumberOf(rules \cup {t.meant}, t.meant)
                     = NumberOf(rules' \cup {t.meant}, t.meant)
               /\ t.meant \in rules <=> t.meant \in rules'
    <2>1. t.meant \in Names
      BY <1>2, <1>4 DEF TaskOK, Reading
    <2>2. \A r \in Names : r <= t.meant => (r \in rules <=> r \in rules')
      BY <1>3, <1>4
    <2>3. rules \in SUBSET Names /\ rules' \in SUBSET Names
      BY <1>2
    <2>4. ASSUME NEW m \in Names, \A r \in Names : r <= m => (r \in rules <=> r \in rules')
          PROVE  /\ NumberOf(rules \cup {m}, m) = NumberOf(rules' \cup {m}, m)
                 /\ m \in rules <=> m \in rules'
      BY <2>3, <2>4, Unmoved
    <2> QED
      BY <2>1, <2>2, <2>4
  <1> QED
    BY <1>1, <1>2, <1>3, <1>4 DEF TaskOK, Pending, Reading

TaskType ==
    [phase : {"idle", "flushed", "numbered", "checking", "issued", "resolved"},
     kind : Kinds \cup {"none", "add"}, rule : 0..MaxRules, name : 0..MaxRules,
     number : 0..MaxRules, meant : 0..MaxRules, moved : BOOLEAN, button : BOOLEAN]

LEMMA IdleIsTask ==
    ASSUME NumbersAssumption PROVE IdleTask \in TaskType
  BY DEF IdleTask, TaskType, NumbersAssumption

\* Being told that a number may have moved changes nothing else of a task.
LEMMA MovedTasks ==
    ASSUME TypeOK, NEW ids \in SUBSET Names
    PROVE  /\ Moved(task, ids) \in [Interactions -> TaskType]
           /\ \A c \in Interactions :
                 /\ Moved(task, ids)[c].moved = (task[c].moved \/ \E id \in ids : id <= task[c].meant)
                 /\ \A f \in {"phase", "rule", "name", "number", "meant", "button"} :
                       Moved(task, ids)[c][f] = task[c][f]
                 /\ Moved(task, ids)[c].phase = task[c].phase
                 /\ Moved(task, ids)[c].rule = task[c].rule
                 /\ Moved(task, ids)[c].number = task[c].number
  BY ZenonT(40) DEF TypeOK, Moved, TaskType

\* The tasks' type, said once more.
LEMMA TaskTypes ==
    TypeOK => /\ task \in [Interactions -> TaskType]
              /\ \A c \in Interactions : task[c] \in TaskType
  BY DEF TypeOK, TaskType

\* The types of what is not a task after a step.
RestOK ==
    /\ enabled' \subseteq rules' /\ valid' \in BOOLEAN
    /\ nextId' = added' + 1 /\ added' \in {added, added + 1} /\ added' \in 0..MaxRules
    /\ alerts' \subseteq [rule : Names, name : Names, kind : Kinds]
    /\ name' \in [Names -> 0..MaxRules] /\ said' \in [Names -> Nat]

\* No row comes that another task is to add, and c does not add another's.
Apart(c, t, come) ==
    \A d \in Interactions : d # c /\ Pending(d) =>
        /\ task[d].rule \notin come /\ said'[task[d].rule] = said[task[d].rule]
        /\ t.phase \in {"flushed", "numbered"} => t.rule # task[d].rule

\* A step that ends or moves task c, and may tell others that numbers moved.
LEMMA TaskStep ==
    ASSUME NumbersAssumption, IInv, NEW c \in Interactions, NEW t \in TaskType,
           NEW gone \in SUBSET Names, NEW come \in SUBSET Names, gone \subseteq rules,
           rules' = (rules \ gone) \cup come,
           task' = [Moved(task, gone \cup come) EXCEPT ![c] = t],
           RestOK, t.phase = "issued" => t.number >= 1,
           RowsOK', TaskOK(c)', Apart(c, t, come)
    PROVE  IInv'
  <1>1. gone \cup come \in SUBSET Names
    OBVIOUS
  <1>2. task' \in [Interactions -> TaskType]
    BY <1>1, MovedTasks DEF IInv
  <1>3. task'[c] = t
    BY <1>1, MovedTasks DEF IInv
  <1>4. ASSUME NEW d \in Interactions, d # c
        PROVE  /\ task'[d] = Moved(task, gone \cup come)[d]
               /\ task'[d].phase = task[d].phase /\ task'[d].rule = task[d].rule
               /\ task'[d].number = task[d].number
    BY <1>1, <1>4, MovedTasks DEF IInv
  <1>5. TypeOK'
    <2>1. \A d \in Interactions : task'[d].phase = "issued" => task'[d].number >= 1
      BY <1>3, <1>4 DEF IInv, TypeOK
    <2>2. rules' \subseteq Names
      BY DEF IInv, TypeOK
    <2> QED
      BY <1>2, <2>1, <2>2 DEF TypeOK, TaskType, RestOK
  <1>6. ASSUME NEW d \in Interactions, d # c PROVE TaskOK(d)'
    <2>1. /\ task'[d].moved = (task[d].moved \/ \E id \in gone \cup come : id <= task[d].meant)
          /\ \A f \in {"phase", "rule", "name", "number", "meant", "button"} :
                task'[d][f] = task[d][f]
      BY <1>1, <1>4, <1>6, MovedTasks DEF IInv
    <2> QED
      BY <1>5, <1>6, <2>1, Untouched DEF Apart, RestOK
  <1>7. Distinct'
    <2>1. SUFFICES ASSUME NEW a \in Interactions, NEW b \in Interactions, a # b,
                          Pending(a)', Pending(b)', task'[a].rule = task'[b].rule
                   PROVE  FALSE
      BY DEF Distinct
    <2>2. ASSUME NEW d \in Interactions, d # c, Pending(d)', Pending(c)'
          PROVE  task'[c].rule # task'[d].rule
      <3>1. t.phase \in {"flushed", "numbered"}
        BY <2>2, <1>3 DEF Pending
      <3>2. Pending(d) /\ task'[d].rule = task[d].rule
        BY <2>2, <1>4 DEF Pending
      <3> QED
        BY <3>1, <3>2, <2>2, <1>3 DEF Apart
    <2>3. CASE a # c /\ b # c
      <3>1. Pending(a) /\ Pending(b) /\ task[a].rule = task[b].rule
        BY <2>1, <2>3, <1>4 DEF Pending
      <3> QED
        BY <2>1, <3>1 DEF IInv, Distinct
    <2> QED
      BY <2>1, <2>2, <2>3
  <1> QED
    BY <1>5, <1>6, <1>7 DEF IInv

\* A step of task c with which no row comes or goes.
LEMMA QuietStep ==
    ASSUME NumbersAssumption, IInv, NEW c \in Interactions, NEW t \in TaskType,
           UNCHANGED <<rules, said>>, task' = [task EXCEPT ![c] = t],
           RestOK, t.phase = "issued" => t.number >= 1,
           RowsOK', TaskOK(c)',
           t.phase \in {"flushed", "numbered"} =>
              \A d \in Interactions : d # c /\ Pending(d) => t.rule # task[d].rule
    PROVE  IInv'
  <1>1. PICK none \in SUBSET Names : none = {}
    OBVIOUS
  <1>2. Moved(task, none \cup none) = task
    <2>1. \A d \in Interactions : task[d].moved \in BOOLEAN /\ task[d] \in TaskType
      BY TaskTypes DEF IInv, TaskType
    <2>2. \A d \in Interactions : [task[d] EXCEPT !.moved = task[d].moved] = task[d]
      BY <2>1 DEF TaskType
    <2>3. ASSUME NEW d \in Interactions
          PROVE  Moved(task, none \cup none)[d] = task[d]
      <3>1. Moved(task, none \cup none)[d] = [task[d] EXCEPT !.moved = task[d].moved]
        BY <1>1, <2>1 DEF Moved
      <3> QED
        BY <2>2, <3>1
    <2>4. none \cup none \in SUBSET Names
      BY <1>1
    <2>5. Moved(task, none \cup none) \in [Interactions -> TaskType]
      BY <2>4, MovedTasks DEF IInv
    <2>6. task \in [Interactions -> TaskType]
      BY TaskTypes DEF IInv
    <2> QED
      BY <2>3, <2>5, <2>6
  <1>3. Apart(c, t, none)
    BY <1>1 DEF Apart
  <1>4. /\ rules' = (rules \ none) \cup none /\ none \subseteq rules
        /\ task' = [Moved(task, none \cup none) EXCEPT ![c] = t]
    BY <1>1, <1>2
  <1> QED
    BY <1>3, <1>4, TaskStep

-----------------------------------------------------------------------------
\* What holds of c before and after its own step.
LEMMA OwnTask ==
    ASSUME IInv, NEW c \in Interactions
    PROVE  TaskOK(c) /\ task[c] \in TaskType /\ task \in [Interactions -> TaskType]
  BY TaskTypes DEF IInv

LEMMA FlushStep ==
    ASSUME NumbersAssumption, IInv, NEW c \in Interactions, Flush(c)
    PROVE  IInv'
  <1> DEFINE t == [IdleTask EXCEPT !.phase = "flushed", !.kind = "add", !.rule = NewId,
                                   !.name = added']
  <1>1. /\ task' = [task EXCEPT ![c] = t] /\ added \in Nat /\ added < MaxRules
        /\ added' = added + 1 /\ nextId = added + 1
    BY DEF Flush, Set, IInv, TypeOK, NumbersAssumption
  <1>2. /\ t.phase = "flushed" /\ t.rule = added + 1 /\ t.name = added + 1 /\ t.meant = 0
        /\ t \in TaskType
    <2>1. added + 1 \in 0..MaxRules /\ added' = added + 1 /\ NewId = added + 1
      BY <1>1 DEF NewId, NumbersAssumption
    <2>2. t = [IdleTask EXCEPT !.phase = "flushed", !.kind = "add", !.rule = added + 1,
                               !.name = added + 1]
      BY <2>1
    <2> HIDE DEF t
    <2>3. 0 \in 0..MaxRules
      BY DEF NumbersAssumption
    <2> QED
      BY <2>1, <2>2, <2>3 DEF IdleTask, TaskType
  <1>3. RestOK
    BY <1>1 DEF RestOK, Flush, IInv, TypeOK, NumbersAssumption
  <1>4. RowsOK'
    BY <1>1 DEF RowsOK, Flush, IInv, TypeOK, Names
  <1>5. task'[c] = t
    BY <1>1, OwnTask
  <1>6. added + 1 \notin rules /\ said[added + 1] = 0 /\ added + 1 \in Names
    BY <1>1 DEF IInv, RowsOK, TypeOK, Names, NumbersAssumption
  <1>7. TaskOK(c)'
    <2> HIDE DEF t
    <2> QED
      BY <1>1, <1>2, <1>5, <1>6 DEF TaskOK, Pending, Reading, Flush
  <1>8. \A d \in Interactions : d # c /\ Pending(d) => t.rule # task[d].rule
    <2>1. \A d \in Interactions : Pending(d) => task[d].rule \in 1..added
      BY OwnTask DEF TaskOK, Pending
    <2> HIDE DEF t
    <2> QED
      BY <1>1, <1>2, <2>1
  <1> HIDE DEF t
  <1> QED
    BY <1>1, <1>2, <1>3, <1>4, <1>7, <1>8, QuietStep DEF Flush

LEMMA NumberStep ==
    ASSUME NumbersAssumption, IInv, NEW c \in Interactions, Number(c)
    PROVE  IInv'
  <1> DEFINE id == task[c].rule
             n == NumberOf(rules \cup {id}, id)
             t == [task[c] EXCEPT !.phase = "numbered", !.meant = id, !.number = n]
  <1>1. /\ task' = [task EXCEPT ![c] = t] /\ task[c].phase = "flushed"
        /\ task[c] \in TaskType /\ TaskOK(c)
    BY OwnTask DEF Number, Set
  <1>2. id \in Names /\ rules \cup {id} \in SUBSET Names
    BY <1>1 DEF TaskOK, IInv, TypeOK, Names, NumbersAssumption
  <1>3. n \in 1..MaxRules
    BY <1>2, NumberType
  <1>4. /\ t \in TaskType /\ t.phase = "numbered" /\ t.meant = id /\ t.number = n
        /\ t.rule = id /\ t.name = task[c].name
    <2>1. id \in 0..MaxRules /\ n \in 0..MaxRules
      BY <1>2, <1>3 DEF Names, NumbersAssumption
    <2> HIDE DEF n
    <2> QED
      BY <1>1, <2>1 DEF TaskType
  <1>5. RestOK /\ RowsOK'
    BY DEF RestOK, RowsOK, Number, rows, history, IInv, TypeOK
  <1>6. task'[c] = t
    BY <1>1, OwnTask
  <1>7. TaskOK(c)'
    <2>1. /\ task'[c].phase = "numbered" /\ task'[c].meant = id /\ task'[c].number = n
          /\ task'[c].rule = id /\ task'[c].name = task[c].name
      BY <1>4, <1>6
    <2>2. UNCHANGED <<rules, said, added>> /\ n >= 1
      BY <1>3 DEF Number, rows, history
    <2> QED
      BY <1>1, <1>2, <2>1, <2>2 DEF TaskOK, Pending, Reading
  <1>8. \A d \in Interactions : d # c /\ Pending(d) => t.rule # task[d].rule
    BY <1>1, <1>4 DEF IInv, Distinct, Pending
  <1> HIDE DEF t
  <1> QED
    BY <1>1, <1>4, <1>5, <1>7, <1>8, QuietStep DEF Number, rows, history

LEMMA CommitStep ==
    ASSUME NumbersAssumption, IInv, NEW c \in Interactions, Commit(c)
    PROVE  IInv'
  <1> DEFINE id == task[c].rule
             t == [task[c] EXCEPT !.phase = "checking"]
  <1>1. /\ task[c] \in TaskType /\ TaskOK(c) /\ task[c].phase = "numbered"
        /\ rules' = rules \cup {id} /\ enabled' = enabled \cup {id}
        /\ name' = [name EXCEPT ![id] = task[c].name]
        /\ task' = [Moved(task, {id}) EXCEPT ![c] = t]
        /\ UNCHANGED <<valid, nextId, alerts, added, said>>
    BY OwnTask DEF Commit
  <1>2. /\ id \in 1..added /\ id \in Names /\ id \notin rules /\ said[id] = 0
        /\ task[c].name = id /\ task[c].meant = id
    BY <1>1 DEF TaskOK, Pending, IInv, TypeOK, Names, NumbersAssumption
  <1>3. PICK none \in SUBSET Names, come \in SUBSET Names : none = {} /\ come = {id}
    BY <1>2
  <1>4. /\ t \in TaskType /\ t.phase = "checking" /\ t.rule = id /\ t.name = id /\ t.meant = id
        /\ t.number = task[c].number /\ t.moved = task[c].moved
    BY <1>1, <1>2 DEF TaskType
  <1>5. task'[c] = t
    <2>1. come \in SUBSET Names /\ task' = [Moved(task, come) EXCEPT ![c] = t]
      BY <1>1, <1>3
    <2> HIDE DEF t
    <2> QED
      BY <2>1, MovedTasks DEF IInv
  <1>6. RestOK
    <2>1. id \in 0..MaxRules
      BY <1>2 DEF Names, NumbersAssumption
    <2> QED
      BY <1>1, <1>2, <2>1 DEF RestOK, IInv, TypeOK
  <1>7. RowsOK'
    BY <1>1, <1>2 DEF RowsOK, IInv, TypeOK
  <1>8. TaskOK(c)'
    <2>1. /\ task'[c].phase = "checking" /\ task'[c].rule = id /\ task'[c].name = id
          /\ task'[c].meant = id /\ task'[c].number = task[c].number
          /\ task'[c].moved = task[c].moved
      BY <1>4, <1>5
    <2>2. rules' \cup {id} = rules \cup {id} /\ id \in rules'
      BY <1>1
    <2>3. /\ task[c].number >= 1
          /\ ~task[c].moved => task[c].number = NumberOf(rules \cup {id}, id)
      BY <1>1, <1>2 DEF TaskOK, Reading
    <2> HIDE DEF id, t
    <2> QED
      BY <1>1, <1>2, <2>1, <2>2, <2>3 DEF TaskOK, Pending, Reading
  <1>9. Apart(c, t, come)
    <2>1. \A d \in Interactions : d # c /\ Pending(d) => task[d].rule # id
      BY <1>1 DEF IInv, Distinct, Pending
    <2> HIDE DEF t
    <2> QED
      BY <1>1, <1>3, <1>4, <2>1 DEF Apart
  <1>10. /\ rules' = (rules \ none) \cup come /\ none \subseteq rules
         /\ task' = [Moved(task, none \cup come) EXCEPT ![c] = t]
    <2>1. none \cup come = {id}
      BY <1>3
    <2> QED
      BY <1>1, <1>3, <2>1
  <1>11. t.phase = "issued" => t.number >= 1
    BY <1>4
  <1> HIDE DEF t, id
  <1> QED
    BY <1>4, <1>6, <1>7, <1>8, <1>9, <1>10, <1>11, TaskStep

\* A task that has ended.
LEMMA IdleOK ==
    ASSUME NEW c \in Interactions, task'[c] = IdleTask
    PROVE  TaskOK(c)'
  BY DEF TaskOK, IdleTask, Pending, Reading

\* A step that ends c and does nothing else, which many do on some way.
LEMMA EndStep ==
    ASSUME NumbersAssumption, IInv, NEW c \in Interactions,
           task' = Set(c, IdleTask), UNCHANGED <<rows, alerts, history>>
    PROVE  IInv'
  <1>1. task' = [task EXCEPT ![c] = IdleTask] /\ task'[c] = IdleTask
    BY OwnTask DEF Set
  <1>2. RestOK /\ RowsOK'
    BY DEF RestOK, RowsOK, rows, history, IInv, TypeOK
  <1>3. TaskOK(c)'
    BY <1>1, IdleOK
  <1>4. IdleTask \in TaskType /\ IdleTask.phase = "idle"
    BY IdleIsTask DEF IdleTask
  <1> QED
    BY <1>1, <1>2, <1>3, <1>4, QuietStep DEF rows, history

LEMMA CreatedStep ==
    ASSUME NumbersAssumption, IInv, NEW c \in Interactions, Created(c)
    PROVE  IInv'
  <1>1. UNCHANGED <<rows, alerts, history>> /\ task[c].phase = "checking"
    BY DEF Created
  <1>2. CASE task' = Set(c, IdleTask)
    BY <1>1, <1>2, EndStep
  <1>3. ASSUME NEW kind \in Kinds,
               task' = Set(c, [task[c] EXCEPT !.phase = "issued", !.kind = kind, !.rule = 0,
                                              !.name = 0])
        PROVE  IInv'
    <2> DEFINE t == [task[c] EXCEPT !.phase = "issued", !.kind = kind, !.rule = 0, !.name = 0]
    <2>1. /\ task' = [task EXCEPT ![c] = t] /\ task[c] \in TaskType /\ TaskOK(c)
          /\ task'[c] = t
      BY <1>3, OwnTask DEF Set
    <2>2. /\ t \in TaskType /\ t.phase = "issued" /\ t.number = task[c].number
          /\ t.meant = task[c].meant /\ t.moved = task[c].moved
      <3>1. 0 \in 0..MaxRules
        BY DEF NumbersAssumption
      <3> QED
        BY <2>1, <3>1 DEF TaskType
    <2>3. RestOK /\ RowsOK'
      BY <1>1 DEF RestOK, RowsOK, rows, history, IInv, TypeOK
    <2>4. UNCHANGED <<rules, said, added>> /\ task'[c].phase = "issued"
      BY <1>1, <2>1, <2>2 DEF rows, history
    <2>5. t.number >= 1
      BY <1>1, <2>1, <2>2 DEF TaskOK, Reading
    <2> HIDE DEF t
    <2>6. /\ rules' \cup {task'[c].meant} = rules \cup {task[c].meant}
          /\ task'[c].meant = task[c].meant /\ task'[c].moved = task[c].moved
          /\ task'[c].number = task[c].number
      BY <2>1, <2>2, <2>4
    <2>7. /\ task[c].number >= 1 /\ task[c].meant \in Names
          /\ ~task[c].moved =>
                /\ task[c].number = NumberOf(rules \cup {task[c].meant}, task[c].meant)
                /\ task[c].meant \in rules
      BY <1>1, <2>1 DEF TaskOK, Reading
    <2>8. TaskOK(c)'
      BY <2>4, <2>6, <2>7 DEF TaskOK, Pending, Reading
    <2> QED
      BY <2>1, <2>2, <2>3, <2>4, <2>5, <2>8, QuietStep
  <1> QED
    BY <1>2, <1>3 DEF Created

LEMMA IssueStep ==
    ASSUME NumbersAssumption, IInv, NEW c \in Interactions, Issue(c)
    PROVE  IInv'
  <1>1. PICK kind \in Kinds, id \in rules :
           task' = Set(c, [IdleTask EXCEPT !.phase = "issued", !.kind = kind, !.meant = id,
                                           !.number = NumberOf(rules, id)])
    BY DEF Issue
  <1> DEFINE n == NumberOf(rules, id)
             t == [IdleTask EXCEPT !.phase = "issued", !.kind = kind, !.meant = id, !.number = n]
  <1>2. UNCHANGED <<rows, alerts, history>>
    BY DEF Issue
  <1>3. task' = [task EXCEPT ![c] = t] /\ task'[c] = t
    BY <1>1, OwnTask DEF Set
  <1>4. rules \in SUBSET Names /\ id \in Names /\ n \in 1..MaxRules
    BY NumberType DEF IInv, TypeOK
  <1>5. NumberOf(rules \cup {id}, id) = n
    <2>1. rules \cup {id} = rules
      OBVIOUS
    <2> QED
      BY <2>1
  <1> HIDE DEF n
  <1>6. t \in TaskType /\ t.phase = "issued" /\ t.number = n /\ t.meant = id
    <2>1. 0 \in 0..MaxRules /\ n \in 0..MaxRules /\ id \in 0..MaxRules
      BY <1>4 DEF NumbersAssumption, Names
    <2> QED
      BY <2>1 DEF TaskType, IdleTask
  <1>7. RestOK /\ RowsOK'
    BY <1>2 DEF RestOK, RowsOK, rows, history, IInv, TypeOK
  <1>8. UNCHANGED <<rules, said>> /\ t.number >= 1
    BY <1>2, <1>4, <1>6 DEF rows, history
  <1> HIDE DEF t
  <1>9. TaskOK(c)'
    <2>1. /\ task'[c].phase = "issued" /\ task'[c].meant = id /\ task'[c].number = n
          /\ rules' \cup {id} = rules \cup {id} /\ id \in rules'
      BY <1>3, <1>6, <1>8
    <2> QED
      BY <1>4, <1>5, <1>8, <2>1 DEF TaskOK, Pending, Reading
  <1> QED
    BY <1>3, <1>6, <1>7, <1>8, <1>9, QuietStep

LEMMA ResolveStep ==
    ASSUME NumbersAssumption, IInv, NEW c \in Interactions, Resolve(c)
    PROVE  IInv'
  <1>1. UNCHANGED <<rows, alerts, history>> /\ task[c].phase = "issued"
    BY DEF Resolve
  <1>2. CASE task' = Set(c, IdleTask)
    BY <1>1, <1>2, EndStep
  <1>3. ASSUME NEW id \in rules, NumberOf(rules, id) = task[c].number,
               task' = Set(c, [task[c] EXCEPT !.phase = "resolved", !.rule = id,
                                              !.name = name[id]])
        PROVE  IInv'
    <2> DEFINE t == [task[c] EXCEPT !.phase = "resolved", !.rule = id, !.name = name[id]]
    <2>1. /\ task' = [task EXCEPT ![c] = t] /\ task[c] \in TaskType /\ TaskOK(c)
          /\ task'[c] = t
      BY <1>3, OwnTask DEF Set
    <2>2. /\ id \in Names /\ id \in 1..added /\ name[id] = id /\ id \in 0..MaxRules
          /\ rules \in SUBSET Names
      BY DEF IInv, TypeOK, RowsOK, Names, NumbersAssumption
    <2>3. /\ t \in TaskType /\ t.phase = "resolved" /\ t.rule = id /\ t.name = id
          /\ t.meant = task[c].meant /\ t.moved = task[c].moved
      BY <2>1, <2>2 DEF TaskType
    <2>4. ~task[c].moved => id = task[c].meant
      <3>1. SUFFICES ASSUME ~task[c].moved PROVE id = task[c].meant
        OBVIOUS
      <3>2. /\ task[c].meant \in rules
            /\ task[c].number = NumberOf(rules \cup {task[c].meant}, task[c].meant)
        BY <1>1, <2>1, <3>1 DEF TaskOK, Reading
      <3>3. rules \cup {task[c].meant} = rules
        BY <3>2
      <3>4. NumberOf(rules, id) = NumberOf(rules, task[c].meant)
        BY <1>3, <3>2, <3>3
      <3> QED
        BY <2>2, <3>2, <3>4, OneRuleForANumber
    <2>5. RestOK /\ RowsOK' /\ UNCHANGED <<rules, said, added>>
      BY <1>1 DEF RestOK, RowsOK, rows, history, IInv, TypeOK
    <2> HIDE DEF t
    <2>6. TaskOK(c)'
      BY <2>1, <2>2, <2>3, <2>4, <2>5 DEF TaskOK, Pending, Reading
    <2> QED
      BY <2>1, <2>3, <2>5, <2>6, QuietStep
  <1> QED
    BY <1>2, <1>3 DEF Resolve

LEMMA PressStep ==
    ASSUME NumbersAssumption, IInv, NEW c \in Interactions, Press(c)
    PROVE  IInv'
  <1>1. PICK a \in alerts :
           task' = Set(c, [IdleTask EXCEPT !.phase = "resolved", !.kind = a.kind,
                                           !.rule = a.rule, !.name = a.name, !.button = TRUE])
    BY DEF Press
  <1> DEFINE t == [IdleTask EXCEPT !.phase = "resolved", !.kind = a.kind, !.rule = a.rule,
                                   !.name = a.name, !.button = TRUE]
  <1>2. task' = [task EXCEPT ![c] = t] /\ task'[c] = t
    BY <1>1, OwnTask DEF Set
  <1>3. a.kind \in Kinds /\ a.rule \in Names /\ a.name = a.rule /\ a.rule \in 1..added
    BY DEF IInv, TypeOK, RowsOK, Names, NumbersAssumption
  <1>4. t \in TaskType /\ t.phase = "resolved" /\ t.rule = t.name /\ t.rule \in 1..added /\ t.button
    <2>1. 0 \in 0..MaxRules /\ a.rule \in 0..MaxRules
      BY <1>3 DEF NumbersAssumption, Names
    <2> QED
      BY <1>3, <2>1 DEF TaskType, IdleTask
  <1>5. RestOK /\ RowsOK' /\ UNCHANGED <<rules, said, added>>
    BY DEF Press, RestOK, RowsOK, rows, history, IInv, TypeOK
  <1> HIDE DEF t
  <1>6. TaskOK(c)'
    BY <1>2, <1>4, <1>5 DEF TaskOK, Pending, Reading
  <1> QED
    BY <1>2, <1>4, <1>5, <1>6, QuietStep

LEMMA FailStep ==
    ASSUME NumbersAssumption, IInv, NEW c \in Interactions, Fail(c)
    PROVE  IInv'
  BY EndStep DEF Fail

LEMMA DiscardStep ==
    ASSUME NumbersAssumption, IInv, NEW c \in Interactions, Discard(c)
    PROVE  IInv'
  <1>1. PICK none \in SUBSET Names, gone \in SUBSET Names :
           none = {} /\ gone = rules \cap {task[c].rule}
    BY DEF IInv, TypeOK
  <1>2. /\ rules' = rules \ gone /\ enabled' = enabled \ gone
        /\ task' = [Moved(task, gone) EXCEPT ![c] = IdleTask]
        /\ UNCHANGED <<valid, nextId, alerts, history>>
    BY <1>1 DEF Discard, Without
  <1>3. /\ gone \cup none = gone /\ gone \subseteq rules /\ rules' = (rules \ gone) \cup none
    BY <1>1, <1>2
  <1>4. IdleTask \in TaskType /\ IdleTask.phase = "idle"
    BY IdleIsTask DEF IdleTask
  <1>5. task'[c] = IdleTask
    BY <1>2, MovedTasks DEF IInv
  <1>6. TaskOK(c)'
    BY <1>5, IdleOK
  <1>7. RestOK /\ RowsOK'
    BY <1>1, <1>2 DEF RestOK, RowsOK, history, IInv, TypeOK
  <1>8. Apart(c, IdleTask, none)
    BY <1>1, <1>2, <1>4 DEF Apart, history
  <1> QED
    BY <1>2, <1>3, <1>4, <1>6, <1>7, <1>8, TaskStep

LEMMA WriteStep ==
    ASSUME NumbersAssumption, IInv, NEW c \in Interactions, Write(c)
    PROVE  IInv'
  <1> DEFINE t == task[c]
  <1>1. PICK none \in SUBSET Names, hit \in SUBSET Names :
           none = {} /\ hit = rules \cap {t.rule}
    BY DEF IInv, TypeOK
  <1>2. /\ t.phase = "resolved" /\ t \in TaskType /\ TaskOK(c)
        /\ UNCHANGED <<valid, nextId, name, added>> /\ alerts' \subseteq alerts
    BY OwnTask DEF Write
  <1>3. t.name = t.rule /\ t.rule \in 1..added /\ t.rule \in Names
    BY <1>2 DEF TaskOK, IInv, TypeOK, Names, NumbersAssumption
  <1>4. IdleTask \in TaskType /\ IdleTask.phase = "idle"
    BY IdleIsTask DEF IdleTask
  <1>5. CASE t.kind = "delete"
    <2>1. /\ rules' = rules \ hit /\ enabled' = enabled \ hit
          /\ task' = [Moved(task, hit) EXCEPT ![c] = IdleTask]
          /\ said' = IF Found(t) THEN [said EXCEPT ![t.name] = @ + 1] ELSE said
      BY <1>1, <1>5 DEF Write, Without
    <2>2. /\ hit \cup none = hit /\ hit \subseteq rules /\ rules' = (rules \ hit) \cup none
      BY <1>1, <2>1
    <2>3. TaskOK(c)'
      <3>1. task'[c] = IdleTask
        BY <2>1, MovedTasks DEF IInv
      <3> QED
        BY <3>1, IdleOK
    <2>4. /\ said' \in [Names -> Nat] /\ t.rule \notin rules'
          /\ \A n \in Names : said'[n] = said[n] \/ (n = t.rule /\ n \in rules /\ said'[n] = said[n] + 1)
      <3>1. said \in [Names -> Nat]
        BY DEF IInv, TypeOK
      <3> QED
        BY <1>1, <1>3, <2>1, <3>1 DEF Found
    <2>5. RowsOK'
      <3>1. /\ \A id \in rules : name[id] = id /\ id <= added
            /\ \A a \in alerts : a.name = a.rule /\ a.rule <= added
        BY DEF IInv, RowsOK
      <3>2. \A n \in Names : /\ said[n] <= 1 /\ said[n] \in Nat
                             /\ said[n] = 1 => n \notin rules /\ n <= added
        BY DEF IInv, RowsOK, TypeOK
      <3>3. ASSUME NEW n \in Names
            PROVE  said'[n] <= 1 /\ (said'[n] = 1 => n \notin rules' /\ n <= added)
        <4>1. CASE said'[n] = said[n]
          BY <2>1, <3>2, <4>1
        <4>2. CASE n = t.rule /\ n \in rules /\ said'[n] = said[n] + 1
          <5>1. said[n] = 0
            BY <3>2, <4>2
          <5> QED
            BY <1>3, <2>4, <4>2, <5>1
        <4> QED
          BY <2>4, <4>1, <4>2
      <3> QED
        BY <1>2, <2>1, <3>1, <3>3 DEF RowsOK
    <2>6. RestOK
      BY <1>2, <2>1, <2>4 DEF RestOK, IInv, TypeOK
    <2>7. Apart(c, IdleTask, none)
      <3>1. ASSUME NEW d \in Interactions, Pending(d)
            PROVE  said'[task[d].rule] = said[task[d].rule]
        <4>1. TaskOK(d) /\ added \in 0..MaxRules
          BY OwnTask DEF IInv, TypeOK
        <4>2. task[d].rule \in 1..added /\ task[d].rule \notin rules
          BY <3>1, <4>1 DEF TaskOK, Pending
        <4>3. task[d].rule \in Names
          BY <4>1, <4>2 DEF Names, NumbersAssumption
        <4> QED
          BY <2>4, <4>2, <4>3
      <3> QED
        BY <1>1, <1>4, <3>1 DEF Apart
    <2> QED
      BY <1>4, <2>1, <2>2, <2>3, <2>5, <2>6, <2>7, TaskStep
  <1>6. CASE t.kind # "delete"
    <2>1. /\ UNCHANGED <<rules, said>> /\ enabled' \in {enabled \cup hit, enabled \ hit}
          /\ task' = [task EXCEPT ![c] = IdleTask]
      BY <1>1, <1>6 DEF Write
    <2>2. TaskOK(c)'
      <3>1. task'[c] = IdleTask
        BY <2>1, OwnTask
      <3> QED
        BY <3>1, IdleOK
    <2>3. RestOK
      BY <1>1, <1>2, <2>1 DEF RestOK, IInv, TypeOK
    <2>4. RowsOK'
      BY <1>2, <2>1 DEF RowsOK, IInv
    <2> QED
      BY <1>4, <2>1, <2>2, <2>3, <2>4, QuietStep
  <1> QED
    BY <1>5, <1>6

\* A step of nobody: rows may go, and every task may be told.
LEMMA RowStep ==
    ASSUME NumbersAssumption, IInv, NEW gone \in SUBSET Names, gone \subseteq rules,
           rules' = rules \ gone, task' = Moved(task, gone), UNCHANGED said,
           RestOK, RowsOK'
    PROVE  IInv'
  <1>1. PICK none \in SUBSET Names : none = {}
    OBVIOUS
  <1>2. /\ gone \cup none = gone /\ rules' = (rules \ gone) \cup none
        /\ task' \in [Interactions -> TaskType]
    BY <1>1, MovedTasks DEF IInv
  <1>3. ASSUME NEW c \in Interactions
        PROVE  /\ task'[c].moved = (task[c].moved \/ \E id \in gone : id <= task[c].meant)
               /\ \A f \in {"phase", "rule", "name", "number", "meant", "button"} :
                     task'[c][f] = task[c][f]
               /\ task'[c].phase = task[c].phase /\ task'[c].rule = task[c].rule
               /\ task'[c].number = task[c].number
    BY MovedTasks DEF IInv
  <1>4. TypeOK'
    <2>1. \A d \in Interactions : task'[d].phase = "issued" => task'[d].number >= 1
      BY <1>3 DEF IInv, TypeOK
    <2>2. rules' \subseteq Names
      BY DEF IInv, TypeOK
    <2> QED
      BY <1>2, <2>1, <2>2 DEF TypeOK, TaskType, RestOK
  <1>5. ASSUME NEW c \in Interactions PROVE TaskOK(c)'
    <2>1. task'[c].moved = (task[c].moved \/ \E id \in gone \cup none : id <= task[c].meant)
      BY <1>2, <1>3
    <2>2. Pending(c) => task[c].rule \notin none /\ said'[task[c].rule] = said[task[c].rule]
      BY <1>1
    <2>3. added' \in {added, added + 1}
      BY DEF RestOK
    <2> QED
      BY <1>2, <1>3, <1>4, <2>1, <2>2, <2>3, Untouched
  <1>6. Distinct'
    BY <1>3 DEF IInv, Distinct, Pending
  <1> QED
    BY <1>4, <1>5, <1>6 DEF IInv

\* Nobody is told when nothing comes or goes.
LEMMA StillStep ==
    ASSUME NumbersAssumption, IInv, UNCHANGED <<rules, task, said>>, RestOK, RowsOK'
    PROVE  IInv'
  <1>1. TypeOK'
    BY DEF IInv, TypeOK, RestOK
  <1>2. ASSUME NEW c \in Interactions PROVE TaskOK(c)'
    <2>1. TaskOK(c) /\ added \in Nat /\ added' \in {added, added + 1}
      BY DEF IInv, TypeOK, RestOK
    <2> QED
      BY <2>1 DEF TaskOK, Pending, Reading
  <1>3. Distinct'
    BY DEF IInv, Distinct, Pending
  <1> QED
    BY <1>1, <1>2, <1>3 DEF IInv

LEMMA OthersStep ==
    ASSUME NumbersAssumption, IInv,
           Authenticate \/ Invalidate \/ Logout \/ Alert \/ Restart \/ UNCHANGED vars
    PROVE  IInv'
  <1>1. CASE Authenticate \/ Invalidate \/ UNCHANGED vars
    <2>1. UNCHANGED <<rules, task, said, nextId, added, name, alerts>>
      BY <1>1 DEF Authenticate, Invalidate, vars, rows, history
    <2>2. valid' \in BOOLEAN /\ enabled' \in {enabled, {}}
      BY <1>1 DEF Authenticate, Invalidate, vars, rows, history, IInv, TypeOK
    <2>3. RestOK /\ RowsOK'
      BY <2>1, <2>2 DEF RestOK, RowsOK, IInv, TypeOK
    <2> QED
      BY <2>1, <2>3, StillStep
  <1>2. CASE Logout
    <2>1. PICK gone \in SUBSET Names : gone = rules
      BY DEF IInv, TypeOK
    <2>2. /\ rules' = rules \ gone /\ enabled' = enabled \ gone /\ task' = Moved(task, gone)
          /\ valid' = FALSE /\ UNCHANGED <<nextId, alerts, name, added, said>>
      BY <1>2, <2>1 DEF Logout, Without, history
    <2>3. RestOK /\ RowsOK'
      <3>1. rules' = {} /\ enabled' = {}
        BY <2>1, <2>2 DEF IInv, TypeOK
      <3>2. RestOK
        BY <2>2, <3>1 DEF RestOK, IInv, TypeOK
      <3>3. RowsOK'
        BY <2>2, <3>1 DEF RowsOK, IInv
      <3> QED
        BY <3>2, <3>3
    <2>4. gone \subseteq rules
      BY <2>1
    <2> QED
      BY <2>2, <2>3, <2>4, RowStep
  <1>3. CASE Alert
    <2>1. PICK id \in rules :
             alerts' = alerts \cup {[rule |-> id, name |-> name[id], kind |-> kind] :
                                       kind \in {"pause", "delete"}}
      BY <1>3 DEF Alert
    <2>2. UNCHANGED <<valid, rules, enabled, nextId, task, name, added, said>>
      BY <1>3 DEF Alert, rows, history
    <2>3. id \in Names /\ name[id] = id /\ id <= added
      BY DEF IInv, TypeOK, RowsOK
    <2>4. \A a \in alerts' : a \in alerts \/
             \E kind \in {"pause", "delete"} : a = [rule |-> id, name |-> id, kind |-> kind]
      BY <2>1, <2>3
    <2>5. \A a \in alerts' : /\ a \in [rule : Names, name : Names, kind : Kinds]
                             /\ a.name = a.rule /\ a.rule <= added
      <3>1. \A a \in alerts : /\ a \in [rule : Names, name : Names, kind : Kinds]
                              /\ a.name = a.rule /\ a.rule <= added
        BY DEF IInv, TypeOK, RowsOK
      <3> QED
        BY <2>3, <2>4, <3>1 DEF Kinds
    <2>6. RestOK
      BY <2>2, <2>5 DEF RestOK, IInv, TypeOK
    <2>7. RowsOK'
      BY <2>2, <2>5 DEF RowsOK, IInv
    <2> QED
      BY <2>2, <2>6, <2>7, StillStep
  <1>4. CASE Restart
    <2>1. /\ task' = [c \in Interactions |-> IdleTask] /\ alerts' = {}
          /\ UNCHANGED <<valid, rules, enabled, nextId, name, added, said>>
      BY <1>4 DEF Restart, rows, history
    <2>2. /\ \A c \in Interactions : task'[c] = IdleTask /\ task'[c].phase = "idle"
          /\ task' \in [Interactions -> TaskType]
      BY <2>1, IdleIsTask DEF IdleTask
    <2>3. TypeOK'
      <3>1. \A c \in Interactions : task'[c].phase = "issued" => task'[c].number >= 1
        BY <2>2
      <3> QED
        BY <2>1, <2>2, <3>1 DEF IInv, TypeOK, TaskType
    <2>4. RowsOK'
      BY <2>1 DEF IInv, RowsOK
    <2>5. Distinct' /\ \A c \in Interactions : TaskOK(c)'
      BY <2>2, IdleOK DEF Distinct, Pending
    <2> QED
      BY <2>3, <2>4, <2>5 DEF IInv
  <1> QED
    BY <1>1, <1>2, <1>3, <1>4

LEMMA StepIInv ==
    ASSUME NumbersAssumption, IInv, [Next]_vars
    PROVE  IInv'
  <1>1. CASE \E c \in Interactions :
                \/ Flush(c) \/ Number(c) \/ Commit(c) \/ Created(c) \/ Discard(c)
                \/ Issue(c) \/ Resolve(c) \/ Press(c) \/ Write(c) \/ Fail(c)
    BY <1>1, FlushStep, NumberStep, CommitStep, CreatedStep, DiscardStep, IssueStep,
       ResolveStep, PressStep, WriteStep, FailStep
  <1>2. CASE Authenticate \/ Invalidate \/ Logout \/ Alert \/ Restart \/ UNCHANGED vars
    BY <1>2, OthersStep
  <1> QED
    BY <1>1, <1>2 DEF Next

-----------------------------------------------------------------------------
\* The inductive invariant, TypeOK among it: the n-th rule that is added has
\* the id n, and an unmoved number is the place of its rule, its own row
\* counted.
THEOREM NumbersInvariant == Spec => []IInv
  <1>1. NumbersAssumption
    BY NumbersAssumption
  <1>2. Init => IInv
    BY <1>1, InitIInv
  <1>3. IInv /\ [Next]_vars => IInv'
    BY <1>1, StepIInv
  <1> QED
    BY <1>2, <1>3, PTL DEF Spec

\* The types of the rules, the interactions and the alerts.
THEOREM TypeCorrect == Spec => []TypeOK
  <1>1. IInv => TypeOK
    BY DEF IInv
  <1> QED
    BY <1>1, NumbersInvariant, PTL

\* What a number means: the n-th rule that was added has the id n, and a
\* number about which nothing moved is the place of a rule that is there.
NumbersArePlaces ==
    /\ \A id \in rules : name[id] = id
    /\ \A c \in Interactions :
          task[c].phase \in {"checking", "issued"} /\ ~task[c].moved =>
              task[c].meant \in rules /\ task[c].number = NumberOf(rules, task[c].meant)

\* A number that was told or typed is right until rules come or go at or
\* before it.
THEOREM NumbersStayPlaces == Spec => []NumbersArePlaces
  <1>1. IInv => NumbersArePlaces
    <2> SUFFICES ASSUME IInv, NEW c \in Interactions,
                        task[c].phase \in {"checking", "issued"}, ~task[c].moved
                 PROVE  task[c].meant \in rules
                        /\ task[c].number = NumberOf(rules, task[c].meant)
      BY DEF NumbersArePlaces, IInv, RowsOK
    <2>1. task[c].meant \in rules
      BY DEF IInv, TaskOK
    <2>2. rules \cup {task[c].meant} = rules
      BY <2>1
    <2>3. task[c].number = NumberOf(rules \cup {task[c].meant}, task[c].meant)
      BY DEF IInv, TaskOK, Reading
    <2> QED
      BY <2>1, <2>2, <2>3
  <1> QED
    BY <1>1, NumbersInvariant, PTL

\* Whatever is typed and whoever comes between, a command acts on the rule
\* its number was read for unless rules came or went at or before it.
THEOREM NumbersKeepTheirMeaning == Spec => []NumbersMeanWhatWasRead
  <1>1. IInv => NumbersMeanWhatWasRead
    BY DEF IInv, TaskOK, NumbersMeanWhatWasRead
  <1> QED
    BY <1>1, NumbersInvariant, PTL

\* No button and no clean-up reaches a rule that was added later.
THEOREM WritesReachTheirRule == Spec => []WritesHitTheirRule
  <1>1. IInv => WritesHitTheirRule
    BY DEF IInv, TaskOK, RowsOK, WritesHitTheirRule
  <1> QED
    BY <1>1, NumbersInvariant, PTL

\* One deletion is said of one rule, by whoever came first.
THEOREM OneDeletionIsSaid == Spec => []DeletionsAreSaidOnce
  <1>1. IInv => DeletionsAreSaidOnce
    BY DEF IInv, RowsOK, TypeOK, DeletionsAreSaidOnce
  <1> QED
    BY <1>1, NumbersInvariant, PTL

=============================================================================
