-------------------------- MODULE RowLocksProofs ---------------------------
(***************************************************************************)
(* Proofs about RowLocks, for any number of commands, rules, notifications *)
(* and observations.                                                       *)
(***************************************************************************)
EXTENDS RowLocks, TLAPS

\* What is held comes before what is asked for, and that before the rest.
Ordered ==
    \A t \in Tasks :
        /\ asked[t] \cap held[t] = {}
        /\ \A o \in Open(t), h \in held[t] \cup asked[t] :
              Place(tx[t].kind, h[1]) <= Place(tx[t].kind, o[1])

\* Two tasks never hold locks that conflict.
Exclusive ==
    \A s, t \in Tasks : s # t => \A l \in held[s], m \in held[t] : ~Conflict(l, m)

\* Who sleeps does so for one lock.
OneAsked == \A t \in Tasks : asked[t] # {} => \E l \in Open(t) : asked[t] = {l}

IInv == TypeOK /\ Ordered /\ Exclusive /\ OneAsked

\* Conflict does not depend on who comes first.
LEMMA ConflictSymmetric ==
    ASSUME NEW l, NEW m, Conflict(l, m) PROVE Conflict(m, l)
  BY DEF Conflict

\* A place is a number.
LEMMA PlaceType ==
    ASSUME NEW kind, NEW row PROVE Place(kind, row) \in Nat
  BY DEF Place

\* Every lock a transaction needs is one on a row, in one of the modes.
LEMMA NeedsType ==
    ASSUME RowsAssumption, NEW x \in CoordinatorTxs \cup CommandTxs \cup {IdleTx}
    PROVE  x.needs \subseteq Rows \X {"share", "write", "full"}
  <1> USE DEF Lock, Rows, Tx
  <1>1. CASE x \in CoordinatorTxs
    BY <1>1 DEF CoordinatorTxs, ProcessLocks, DeliverLocks, InvalidateLocks, UserLocks,
                PruneLocks
  <1>2. CASE x \in CommandTxs
    BY <1>2 DEF CommandTxs, ProcessLocks, DeliverLocks, UserLocks, CreateLocks, ToggleLocks,
                DeleteLocks, LogoutLocks
  <1>3. CASE x = IdleTx
    BY <1>3 DEF IdleTx
  <1> QED
    BY <1>1, <1>2, <1>3

LEMMA InitIInv ==
    Init => IInv
  BY DEF Init, IInv, TypeOK, Ordered, Exclusive, OneAsked, Open, IdleTx, Tx

LEMMA StepIInv ==
    ASSUME RowsAssumption, IInv, [Next]_vars
    PROVE  IInv'
  <1> USE DEF IInv
  <1>0. ASSUME NEW t \in Tasks
        PROVE  tx[t].needs \subseteq Rows \X {"share", "write", "full"}
    BY NeedsType DEF TypeOK
  <1>1. ASSUME NEW t \in Tasks, Begin(t) PROVE IInv'
    <2>1. tx[t].needs = {} /\ held[t] = {} /\ asked[t] = {}
      BY <1>1 DEF Begin, TypeOK, IdleTx, Tx
    <2>2. PICK x \in TxsOf(t) : tx' = [tx EXCEPT ![t] = x]
      BY <1>1 DEF Begin
    <2>3. TypeOK'
      BY <1>1, <2>1, <2>2 DEF TypeOK, Begin, TxsOf
    <2>4. Ordered'
      BY <1>1, <2>1, <2>2 DEF TypeOK, Begin, Ordered, Open
    <2>5. OneAsked'
      BY <1>1, <2>1, <2>2 DEF TypeOK, Begin, OneAsked, Open
    <2> QED
      BY <1>1, <2>3, <2>4, <2>5 DEF Begin, Exclusive
  <1>2. ASSUME NEW t \in Tasks, Take(t) PROVE IInv'
    <2>1. PICK l \in Coming(t) :
             /\ \A s \in Tasks \ {t} : ~Holds(s, l)
             /\ held' = [held EXCEPT ![t] = @ \cup {l}]
      BY <1>2 DEF Take
    <2>2. /\ l \in Open(t) /\ asked[t] = {}
          /\ \A m \in Open(t) : Place(tx[t].kind, l[1]) <= Place(tx[t].kind, m[1])
      BY <1>2, <2>1 DEF Coming, Take
    <2>3. TypeOK'
      <3>1. l \in tx[t].needs /\ l \in Rows \X {"share", "write", "full"}
        BY <1>0, <2>2 DEF Open
      <3> QED
        BY <1>2, <2>1, <3>1 DEF TypeOK, Take
    <2>4. Ordered'
      BY <1>2, <2>1, <2>2 DEF TypeOK, Take, Ordered, Open
    <2>5. ASSUME NEW s \in Tasks, s # t, NEW m \in held[s]
          PROVE  ~Conflict(l, m) /\ ~Conflict(m, l)
      BY <2>1, <2>5, ConflictSymmetric DEF Holds
    <2>6. Exclusive'
      BY <1>2, <2>1, <2>5 DEF TypeOK, Take, Exclusive
    <2>7. OneAsked'
      BY <1>2, <2>1, <2>2 DEF TypeOK, Take, OneAsked, Open
    <2> QED
      BY <2>3, <2>4, <2>6, <2>7
  <1>3. ASSUME NEW t \in Tasks, Wait(t) PROVE IInv'
    <2>1. PICK l \in Coming(t) :
             /\ asked' = [asked EXCEPT ![t] = {l}]
             /\ first' = IF \E s \in Tasks : Leads(s, l) THEN first ELSE first \cup {t}
      BY <1>3 DEF Wait
    <2>2. /\ l \in Open(t) /\ asked[t] = {} /\ tx' = tx /\ held' = held
          /\ \A m \in Open(t) : Place(tx[t].kind, l[1]) <= Place(tx[t].kind, m[1])
      BY <1>3, <2>1 DEF Coming, Wait
    <2>3. TypeOK'
      <3>1. l \in tx[t].needs /\ l \in Rows \X {"share", "write", "full"}
        BY <1>0, <2>2 DEF Open
      <3> QED
        BY <2>1, <2>2, <3>1 DEF TypeOK
    <2>4. Ordered'
      BY <2>1, <2>2 DEF TypeOK, Ordered, Open
    <2>5. OneAsked'
      BY <2>1, <2>2 DEF TypeOK, OneAsked, Open
    <2> QED
      BY <2>2, <2>3, <2>4, <2>5 DEF Exclusive
  <1>4. ASSUME NEW t \in Tasks, Lead(t) PROVE IInv'
    <2>1. tx' = tx /\ held' = held /\ asked' = asked
      BY <1>4 DEF Lead
    <2>2. TypeOK'
      BY <1>4, <2>1 DEF TypeOK, Lead
    <2> QED
      BY <2>1, <2>2 DEF Ordered, Exclusive, OneAsked, Open
  <1>5. ASSUME NEW t \in Tasks, Grant(t) PROVE IInv'
    <2>1. TypeOK'
      BY <1>5 DEF TypeOK, Grant
    <2>2. Ordered'
      BY <1>5 DEF TypeOK, Grant, Ordered, Open
    <2>3. ASSUME NEW s \in Tasks, s # t, NEW l \in held[s], NEW m \in asked[t]
          PROVE  ~Conflict(l, m) /\ ~Conflict(m, l)
      BY <1>5, <2>3, ConflictSymmetric DEF Grant, Blocks, Holds
    <2>4. Exclusive'
      BY <1>5, <2>3 DEF TypeOK, Grant, Exclusive
    <2>5. OneAsked'
      BY <1>5 DEF TypeOK, Grant, OneAsked, Open
    <2> QED
      BY <2>1, <2>2, <2>4, <2>5
  <1>6. ASSUME NEW t \in Tasks, Finish(t) PROVE IInv'
    <2>1. TypeOK'
      BY <1>6 DEF TypeOK, Finish, Released, IdleTx, Tx
    <2>2. Ordered'
      BY <1>6 DEF TypeOK, Finish, Released, Ordered, Open, IdleTx, Tx
    <2>3. Exclusive'
      BY <1>6 DEF TypeOK, Finish, Released, Exclusive
    <2>4. OneAsked'
      BY <1>6 DEF TypeOK, Finish, Released, OneAsked, Open
    <2> QED
      BY <2>1, <2>2, <2>3, <2>4
  <1>7. CASE UNCHANGED vars
    BY <1>7 DEF vars, TypeOK, Ordered, Exclusive, OneAsked, Open, Conflict
  <1> QED
    BY <1>1, <1>2, <1>3, <1>4, <1>5, <1>6, <1>7 DEF Next

(***************************************************************************)
(* Types hold, what is held comes before what is asked for, and no two     *)
(* tasks hold conflicting locks: for every set of rows and commands.       *)
(***************************************************************************)
THEOREM LocksAreOrdered == Spec => []IInv
  <1>1. Init => IInv
    BY InitIInv
  <1>2. IInv /\ [Next]_vars => IInv'
    BY StepIInv, RowsAssumption
  <1> QED
    BY <1>1, <1>2, PTL DEF Spec

\* A transaction holds and asks for nothing but what it needs.
THEOREM TypeCorrect == Spec => []TypeOK
  <1>1. IInv => TypeOK
    BY DEF IInv
  <1> QED
    BY <1>1, LocksAreOrdered, PTL

-----------------------------------------------------------------------------
\* What a task may run, and the locks that takes.
LEMMA KindTable ==
    ASSUME TypeOK, NEW t \in Tasks
    PROVE
      \/ tx[t].kind = "idle" /\ tx[t].needs = {}
      \/ tx[t].kind = "prune" /\ tx[t].needs = PruneLocks /\ t = Coordinator
      \/ tx[t].kind = "invalidate" /\ tx[t].needs = InvalidateLocks /\ t = Coordinator
      \/ tx[t].kind = "user" /\ tx[t].needs = UserLocks
      \/ tx[t].kind = "create" /\ tx[t].needs = CreateLocks
      \/ tx[t].kind = "logout" /\ tx[t].needs = LogoutLocks
      \/ /\ tx[t].kind = "process"
         /\ \E rs \in SUBSET Rules :
               /\ tx[t].needs = ProcessLocks(rs)
               /\ t # Coordinator => \E r \in Rules : rs = {r}
      \/ tx[t].kind = "deliver" /\ \E n \in Notes : tx[t].needs = DeliverLocks(n)
      \/ tx[t].kind = "toggle" /\ \E r \in Rules : tx[t].needs = ToggleLocks(r)
      \/ tx[t].kind = "delete" /\ \E r \in Rules : tx[t].needs = DeleteLocks(r)
  <1>1. tx[t] \in TxsOf(t) \cup {IdleTx}
    BY DEF TypeOK
  <1>2. CASE tx[t] = IdleTx
    BY <1>2 DEF IdleTx, Tx
  <1>3. CASE t = Coordinator /\ tx[t] \in CoordinatorTxs
    BY <1>3 DEF CoordinatorTxs, Tx
  <1>4. CASE t # Coordinator /\ tx[t] \in CommandTxs
    <2> USE <1>4 DEF Tx
    <2>1. CASE tx[t] \in {Tx("create", CreateLocks), Tx("user", UserLocks),
                         Tx("logout", LogoutLocks)}
      BY <2>1
    <2>2. CASE \E r \in Rules : tx[t] = Tx("process", ProcessLocks({r}))
      <3>1. PICK r \in Rules : tx[t] = Tx("process", ProcessLocks({r}))
        BY <2>2
      <3>2. tx[t].kind = "process" /\ tx[t].needs = ProcessLocks({r}) /\ {r} \in SUBSET Rules
        BY <3>1
      <3> QED
        BY <3>2
    <2>3. CASE \E n \in Notes : tx[t] = Tx("deliver", DeliverLocks(n))
      BY <2>3
    <2>4. CASE \E r \in Rules : tx[t] = Tx("toggle", ToggleLocks(r))
      BY <2>4
    <2>5. CASE \E r \in Rules : tx[t] = Tx("delete", DeleteLocks(r))
      BY <2>5
    <2> QED
      BY <1>4, <2>1, <2>2, <2>3, <2>4, <2>5 DEF CommandTxs
  <1> QED
    BY <1>1, <1>2, <1>3, <1>4 DEF TxsOf

\* Rows of different tables are different, and so are their places.
LEMMA Places ==
    ASSUME RowsAssumption, NEW kind, NEW row \in Rows
    PROVE  /\ row = User => Place(kind, row) = IF kind = "deliver" THEN 4 ELSE 1
           /\ row \in Rules => row # User /\ Place(kind, row) = 2
           /\ row \in Notes \cup Observations =>
                 row # User /\ row \notin Rules /\ Place(kind, row) = 3
  BY DEF RowsAssumption, Place, Rows

\* A transaction needs one lock of a row at most, and rows have one kind.
LEMMA OneLockPerRow ==
    ASSUME RowsAssumption, TypeOK, NEW t \in Tasks,
           NEW l \in tx[t].needs, NEW m \in tx[t].needs, l[1] = m[1]
    PROVE  l = m
  <1> USE DEF Lock, RowsAssumption
  <1>1. CASE tx[t].kind = "process"
    <2>1. PICK rs \in SUBSET Rules : tx[t].needs = ProcessLocks(rs)
      BY <1>1, KindTable
    <2>2. \A x \in tx[t].needs :
             x = <<User, "share">> \/ (x = <<x[1], "full">> /\ x[1] \in Rules)
      BY <2>1 DEF ProcessLocks
    <2> QED
      BY <2>2
  <1>2. CASE tx[t].kind = "deliver"
    BY <1>2, KindTable DEF DeliverLocks
  <1>3. CASE tx[t].kind = "invalidate"
    BY <1>3, KindTable DEF InvalidateLocks
  <1>4. CASE tx[t].kind \notin {"process", "deliver", "invalidate"}
    BY <1>4, KindTable DEF UserLocks, CreateLocks, LogoutLocks, PruneLocks, ToggleLocks,
                           DeleteLocks
  <1> QED
    BY <1>1, <1>2, <1>3, <1>4

\* What a transaction has come to lies behind everything it still needs.
LEMMA Reached ==
    ASSUME IInv, NEW t \in Tasks, NEW h \in held[t] \cup asked[t],
           NEW x \in tx[t].needs, Place(tx[t].kind, x[1]) < Place(tx[t].kind, h[1])
    PROVE  x \in held[t]
  <1>1. SUFFICES ASSUME x \in Open(t) PROVE FALSE
    BY DEF Open
  <1>2. Place(tx[t].kind, h[1]) <= Place(tx[t].kind, x[1])
    BY <1>1 DEF IInv, Ordered
  <1> QED
    BY <1>2, PlaceType

\* What is held is not asked for again, and does not lie ahead of what is.
LEMMA HeldFirst ==
    ASSUME RowsAssumption, IInv, NEW t \in Tasks, NEW h \in held[t], NEW l \in asked[t]
    PROVE  /\ h \in tx[t].needs /\ l \in tx[t].needs
           /\ h[1] # l[1]
           /\ h[1] \in Rows /\ l[1] \in Rows
           /\ Place(tx[t].kind, h[1]) <= Place(tx[t].kind, l[1])
  <1>1. h \in tx[t].needs /\ l \in tx[t].needs /\ h # l /\ l \in Open(t)
    BY DEF IInv, TypeOK, Ordered, Open
  <1>2. h[1] # l[1]
    BY <1>1, OneLockPerRow DEF IInv
  <1>3. h[1] \in Rows /\ l[1] \in Rows
    BY DEF IInv, TypeOK
  <1> QED
    BY <1>1, <1>2, <1>3 DEF IInv, Ordered

-----------------------------------------------------------------------------
\* Which transactions need which tables.
LEMMA WhoNeeds ==
    ASSUME RowsAssumption, TypeOK, NEW t \in Tasks, NEW x \in tx[t].needs
    PROVE  /\ x[1] \in Rules =>
                 tx[t].kind \in {"process", "invalidate", "toggle", "delete", "logout"}
           /\ x[1] \in Notes => tx[t].kind \in {"deliver", "delete", "logout"}
           /\ x[1] \in Observations => tx[t].kind \in {"prune", "logout"}
  <1> USE DEF Lock, RowsAssumption
  <1>1. CASE tx[t].kind = "process"
    <2>1. PICK rs \in SUBSET Rules : tx[t].needs = ProcessLocks(rs)
      BY <1>1, KindTable
    <2>2. x[1] = User \/ x[1] \in Rules
      BY <2>1 DEF ProcessLocks
    <2> QED
      BY <1>1, <2>2
  <1>2. CASE tx[t].kind \in {"deliver", "toggle", "delete"}
    BY <1>2, KindTable DEF DeliverLocks, ToggleLocks, DeleteLocks
  <1>3. CASE tx[t].kind \in {"idle", "prune", "invalidate", "user", "create", "logout"}
    BY <1>3, KindTable DEF PruneLocks, InvalidateLocks, UserLocks, CreateLocks
  <1> QED
    BY <1>1, <1>2, <1>3, KindTable

\* Every member of a knot waits, and for one lock.
LEMMA KnotMemberAsks ==
    ASSUME IInv, NEW S \in SUBSET Tasks, Knot(S), NEW t \in S
    PROVE  \E l \in asked[t] : asked[t] = {l}
  BY DEF Knot, Blocks, IInv, OneAsked

(***************************************************************************)
(* The row a member of a knot waits for is held by another one: by who     *)
(* keeps it waiting, or, if that is the first of the queue, by who keeps   *)
(* him waiting.                                                            *)
(***************************************************************************)
LEMMA HolderInKnot ==
    ASSUME RowsAssumption, IInv, NEW S \in SUBSET Tasks, Knot(S), NEW t \in S,
           NEW l \in asked[t]
    PROVE  \E u \in S : u # t /\ \E m \in held[u] : m[1] = l[1]
  <1>1. asked[t] = {l}
    BY KnotMemberAsks
  <1>2. PICK s \in S : Blocks(s, t)
    BY DEF Knot
  <1>3. CASE t \in first
    BY <1>1, <1>2, <1>3 DEF Blocks, Holds, Conflict
  <1>4. CASE t \notin first
    <2>1. s \in first /\ \E k \in asked[s] : k[1] = l[1]
      BY <1>1, <1>2, <1>4 DEF Blocks, Leads, Conflict
    <2>2. PICK k \in asked[s] : k[1] = l[1]
      BY <2>1
    <2>3. asked[s] = {k}
      BY <2>2, KnotMemberAsks
    <2>4. PICK u \in S : Blocks(u, s)
      BY DEF Knot
    <2>5. PICK m \in held[u] : m[1] = k[1]
      BY <2>1, <2>3, <2>4 DEF Blocks, Holds, Conflict
    <2>6. u # t
      BY <2>2, <2>5, HeldFirst
    <2> QED
      BY <2>2, <2>5, <2>6
  <1> QED
    BY <1>3, <1>4

\* Who holds a rule and waits for another row polls the user, unless he deletes.
LEMMA RuleHolderPolls ==
    ASSUME RowsAssumption, IInv, NEW u \in Tasks, tx[u].kind \notin {"delete", "logout"},
           NEW m \in held[u], m[1] \in Rules, NEW k \in asked[u]
    PROVE  u = Coordinator /\ k[1] \in Rules
  <1>1. /\ m \in tx[u].needs /\ k \in tx[u].needs /\ m[1] # k[1] /\ k[1] \in Rows
        /\ Place(tx[u].kind, m[1]) <= Place(tx[u].kind, k[1])
    BY HeldFirst
  <1>2. tx[u].kind \in {"process", "invalidate", "toggle"}
    BY <1>1, WhoNeeds DEF IInv
  <1>3. k[1] # User
    <2>1. Place(tx[u].kind, m[1]) = 2 /\ Place(tx[u].kind, User) = 1
      BY <1>2, Places DEF Rows
    <2> QED
      BY <1>1, <2>1
  <1>4. k[1] \in Rules
    BY <1>1, <1>2, <1>3, WhoNeeds DEF Rows, IInv
  <1>5. u = Coordinator
    <2>1. SUFFICES ASSUME u # Coordinator PROVE FALSE
      OBVIOUS
    <2>2. \E r \in Rules : tx[u].needs = ProcessLocks({r}) \/ tx[u].needs = ToggleLocks(r)
      BY <1>2, <2>1, KindTable DEF IInv
    <2> QED
      BY <1>1, <1>3, <1>4, <2>2
      DEF ProcessLocks, ToggleLocks, Lock, RowsAssumption
  <1> QED
    BY <1>4, <1>5

-----------------------------------------------------------------------------
\* Knots without a deletion: each table in turn has nobody that waits for it.
Untouched(S) == Kinds(S) \cap {"delete", "logout"} = {}

\* The observations are left to prune.
LEMMA NobodyAsksForObservations ==
    ASSUME RowsAssumption, IInv, NEW S \in SUBSET Tasks, Knot(S), Untouched(S),
           NEW t \in S, NEW l \in asked[t]
    PROVE  l[1] \notin Observations
  <1>1. SUFFICES ASSUME l[1] \in Observations PROVE FALSE
    OBVIOUS
  <1>2. PICK u \in S : u # t /\ \E m \in held[u] : m[1] = l[1]
    BY HolderInKnot
  <1>3. ASSUME NEW s \in {t, u} PROVE tx[s].kind = "prune"
    <2>1. \E x \in tx[s].needs : x[1] \in Observations
      BY <1>1, <1>2, <1>3 DEF IInv, TypeOK
    <2> QED
      BY <1>3, <2>1, WhoNeeds DEF IInv, Untouched, Kinds
  <1> QED
    BY <1>2, <1>3, KindTable DEF IInv

\* A rule another waits for is held by the poll, and that would wait for the
\* next one, which is held by the poll again.
LEMMA NobodyAsksForRules ==
    ASSUME RowsAssumption, IInv, NEW S \in SUBSET Tasks, Knot(S), Untouched(S),
           NEW t \in S, NEW l \in asked[t]
    PROVE  l[1] \notin Rules
  <1>1. SUFFICES ASSUME l[1] \in Rules PROVE FALSE
    OBVIOUS
  <1>2. ASSUME NEW s \in S, NEW k \in asked[s], k[1] \in Rules
        PROVE  s # Coordinator /\ Coordinator \in S
               /\ \E j \in asked[Coordinator] : j[1] \in Rules
    <2>1. PICK u \in S : u # s /\ \E m \in held[u] : m[1] = k[1]
      BY <1>2, HolderInKnot
    <2>2. PICK m \in held[u] : m[1] = k[1]
      BY <2>1
    <2>3. PICK j \in asked[u] : TRUE
      BY KnotMemberAsks
    <2>4. u = Coordinator /\ j[1] \in Rules
      BY <1>2, <2>2, <2>3, RuleHolderPolls DEF Untouched, Kinds
    <2> QED
      BY <2>1, <2>3, <2>4
  <1> QED
    BY <1>1, <1>2

\* Who holds the user row and still waits has come to rules or observations.
LEMMA NobodyAsksForUser ==
    ASSUME RowsAssumption, IInv, NEW S \in SUBSET Tasks, Knot(S), Untouched(S),
           NEW t \in S, NEW l \in asked[t]
    PROVE  l[1] # User
  <1>1. SUFFICES ASSUME l[1] = User PROVE FALSE
    OBVIOUS
  <1>2. PICK u \in S : \E m \in held[u] : m[1] = User
    BY <1>1, HolderInKnot
  <1>3. PICK m \in held[u] : m[1] = User
    BY <1>2
  <1>4. PICK k \in asked[u] : TRUE
    BY KnotMemberAsks
  <1>5. /\ k \in tx[u].needs /\ k[1] # User /\ k[1] \in Rows
        /\ Place(tx[u].kind, User) <= Place(tx[u].kind, k[1])
    BY <1>3, HeldFirst
  <1>6. k[1] \in Notes
    BY <1>5, NobodyAsksForRules, NobodyAsksForObservations DEF Rows
  <1>7. tx[u].kind = "deliver"
    BY <1>5, <1>6, WhoNeeds DEF IInv, Untouched, Kinds
  <1>8. Place(tx[u].kind, User) = 4 /\ Place(tx[u].kind, k[1]) = 3
    BY <1>6, <1>7, Places DEF Rows
  <1> QED
    BY <1>5, <1>8

\* Who holds a notification is a delivery, and waits for the user row.
LEMMA IInvImpliesTanglesNeedDeletion ==
    ASSUME RowsAssumption, IInv PROVE TanglesNeedDeletion
  <1> SUFFICES ASSUME NEW S \in SUBSET Tasks, Knot(S), Untouched(S) PROVE FALSE
    BY DEF TanglesNeedDeletion, Untouched
  <1>1. PICK t \in S : TRUE
    BY DEF Knot
  <1>2. PICK l \in asked[t] : TRUE
    BY KnotMemberAsks
  <1>3. l[1] \in Notes
    <2>1. l[1] \in Rows
      BY DEF IInv, TypeOK
    <2> QED
      BY <2>1, NobodyAsksForObservations, NobodyAsksForRules, NobodyAsksForUser DEF Rows
  <1>4. PICK u \in S : \E m \in held[u] : m[1] = l[1]
    BY HolderInKnot
  <1>5. PICK m \in held[u] : m[1] = l[1]
    BY <1>4
  <1>6. PICK k \in asked[u] : TRUE
    BY KnotMemberAsks
  <1>7. m \in tx[u].needs /\ k \in tx[u].needs /\ k[1] # m[1]
    BY HeldFirst
  <1>8. tx[u].kind = "deliver"
    BY <1>3, <1>5, <1>7, WhoNeeds DEF IInv, Untouched, Kinds
  <1>9. PICK n \in Notes : tx[u].needs = DeliverLocks(n)
    BY <1>8, KindTable DEF IInv
  <1>10. k[1] = User
    BY <1>3, <1>5, <1>7, <1>9 DEF DeliverLocks, Lock, RowsAssumption
  <1> QED
    BY <1>10, NobodyAsksForUser

(***************************************************************************)
(* As long as the user deletes nothing, no two transactions of the bot end *)
(* up waiting for each other: for any number of commands, rules, alerts    *)
(* and observations, and whoever comes first in the queue of a row.        *)
(***************************************************************************)
THEOREM OnlyDeletionsTangle == Spec => []TanglesNeedDeletion
  <1>1. IInv => TanglesNeedDeletion
    BY IInvImpliesTanglesNeedDeletion, RowsAssumption
  <1> QED
    BY <1>1, LocksAreOrdered, PTL

-----------------------------------------------------------------------------
\* Knots without a delivery.

\* Such a transaction that has come past the user row holds it, if it needs it.
LEMMA HoldsUser ==
    ASSUME RowsAssumption, IInv, NEW t \in Tasks,
           tx[t].kind \in {"process", "invalidate", "logout"},
           NEW h \in held[t] \cup asked[t], h[1] # User
    PROVE  /\ \E mode \in {"share", "write", "full"} : <<User, mode>> \in held[t]
           /\ tx[t].kind = "logout" => <<User, "full">> \in held[t]
  <1>1. /\ \E mode \in {"share", "write", "full"} : <<User, mode>> \in tx[t].needs
        /\ tx[t].kind = "logout" => <<User, "full">> \in tx[t].needs
    <2>1. CASE tx[t].kind = "process"
      <3>1. \E rs \in SUBSET Rules : tx[t].needs = ProcessLocks(rs)
        BY <2>1, KindTable DEF IInv
      <3> QED
        BY <2>1, <3>1 DEF ProcessLocks, Lock
    <2>2. CASE tx[t].kind \in {"invalidate", "logout"}
      BY <2>2, KindTable DEF IInv, InvalidateLocks, LogoutLocks, Lock, Rows
    <2> QED
      BY <2>1, <2>2
  <1>2. h[1] \in Rows
    BY DEF IInv, TypeOK
  <1>3. Place(tx[t].kind, User) = 1 /\ Place(tx[t].kind, h[1]) \in {2, 3}
    BY <1>2, Places DEF Rows
  <1> QED
    BY <1>1, <1>3, Reached

\* The user row of a logout is held by nobody else.
LEMMA LogoutIsAlone ==
    ASSUME IInv, NEW s \in Tasks, NEW t \in Tasks, s # t, NEW mode,
           <<User, "full">> \in held[s], <<User, mode>> \in held[t]
    PROVE  FALSE
  BY DEF IInv, Exclusive, Conflict

\* Who has come to a notification holds its rule, unless he delivers it.
LEMMA HoldsRule ==
    ASSUME RowsAssumption, IInv, NEW t \in Tasks, tx[t].kind # "deliver",
           NEW h \in held[t] \cup asked[t], h[1] \in Notes
    PROVE  <<RuleOf[h[1]], "full">> \in held[t]
  <1>1. h \in tx[t].needs
    BY DEF IInv, TypeOK
  <1>2. RuleOf[h[1]] \in Rules
    BY DEF RowsAssumption
  <1>3. Place(tx[t].kind, RuleOf[h[1]]) = 2 /\ Place(tx[t].kind, h[1]) = 3
    BY <1>2, Places DEF Rows
  <1>4. tx[t].kind \in {"delete", "logout"}
    BY <1>1, WhoNeeds DEF IInv
  <1>5. CASE tx[t].kind = "delete"
    <2>1. PICK r \in Rules : tx[t].needs = DeleteLocks(r)
      BY <1>5, KindTable DEF IInv
    <2>2. RuleOf[h[1]] = r
      BY <1>1, <2>1 DEF DeleteLocks, Lock, RowsAssumption
    <2>3. <<r, "full">> \in tx[t].needs
      BY <2>1 DEF DeleteLocks, Lock
    <2> QED
      BY <1>3, <2>2, <2>3, Reached
  <1>6. CASE tx[t].kind = "logout"
    <2>1. <<RuleOf[h[1]], "full">> \in tx[t].needs
      BY <1>2, <1>6, KindTable DEF IInv, LogoutLocks, Lock, Rows
    <2> QED
      BY <1>3, <2>1, Reached
  <1> QED
    BY <1>4, <1>5, <1>6

Undelivered(S) == "deliver" \notin Kinds(S)

\* Whoever holds something took the user row before it.
LEMMA HolderHasUser ==
    ASSUME RowsAssumption, IInv, NEW S \in SUBSET Tasks, Knot(S), Undelivered(S),
           NEW t \in S, NEW h \in held[t], NEW l \in asked[t]
    PROVE  l[1] # User
  <1>1. Place(tx[t].kind, h[1]) <= Place(tx[t].kind, l[1]) /\ h[1] # l[1] /\ h[1] \in Rows
    BY HeldFirst
  <1>2. tx[t].kind # "deliver"
    BY DEF Undelivered, Kinds
  <1>3. /\ Place(tx[t].kind, User) = 1
        /\ h[1] # User => Place(tx[t].kind, h[1]) \in {2, 3}
    BY <1>1, <1>2, Places DEF Rows
  <1> QED
    BY <1>1, <1>3

\* Two that come to one notification would both hold its rule.
LEMMA HolderHasNotes ==
    ASSUME RowsAssumption, IInv, NEW S \in SUBSET Tasks, Knot(S), Undelivered(S),
           NEW t \in S, NEW l \in asked[t]
    PROVE  l[1] \notin Notes
  <1>1. SUFFICES ASSUME l[1] \in Notes PROVE FALSE
    OBVIOUS
  <1>2. PICK u \in S : u # t /\ \E m \in held[u] : m[1] = l[1]
    BY HolderInKnot
  <1>3. tx[t].kind # "deliver" /\ tx[u].kind # "deliver"
    BY DEF Undelivered, Kinds
  <1>4. <<RuleOf[l[1]], "full">> \in held[t]
    BY <1>1, <1>3, HoldsRule
  <1>5. <<RuleOf[l[1]], "full">> \in held[u]
    BY <1>1, <1>2, <1>3, HoldsRule
  <1> QED
    BY <1>2, <1>4, <1>5 DEF IInv, Exclusive, Conflict

\* Who holds something and waits for a rule takes several rules: it has the
\* user row, so no logout is in the way, and nobody but the poll is left.
LEMMA HolderWaitsForPoll ==
    ASSUME RowsAssumption, IInv, NEW S \in SUBSET Tasks, Knot(S), Undelivered(S),
           NEW t \in S, NEW h \in held[t], NEW l \in asked[t], l[1] \in Rules
    PROVE  t # Coordinator /\ Coordinator \in S
           /\ \E m \in held[Coordinator] : m[1] = l[1]
           /\ \E k \in asked[Coordinator] : k[1] \in Rules
  <1>1. PICK u \in S : u # t /\ \E m \in held[u] : m[1] = l[1]
    BY HolderInKnot
  <1>2. PICK m \in held[u] : m[1] = l[1]
    BY <1>1
  <1>3. PICK k \in asked[u] : TRUE
    BY KnotMemberAsks
  <1>4. /\ m \in tx[u].needs /\ k \in tx[u].needs /\ k[1] # m[1]
        /\ Place(tx[u].kind, m[1]) <= Place(tx[u].kind, k[1])
    BY HeldFirst
  <1>5. tx[u].kind # "delete"
    <2>1. SUFFICES ASSUME tx[u].kind = "delete" PROVE FALSE
      OBVIOUS
    <2>2. PICK r \in Rules : tx[u].needs = DeleteLocks(r)
      BY <2>1, KindTable DEF IInv
    <2>3. k[1] \in Notes
      BY <1>2, <1>4, <2>2 DEF DeleteLocks, Lock, RowsAssumption
    <2> QED
      BY <2>3, HolderHasNotes
  <1>6. /\ h \in tx[t].needs /\ l \in tx[t].needs /\ h[1] # l[1] /\ h[1] \in Rows
        /\ Place(tx[t].kind, h[1]) <= Place(tx[t].kind, l[1])
    BY HeldFirst
  <1>7. h[1] = User \/ h[1] \in Rules
    <2>1. Place(tx[t].kind, l[1]) = 2
      BY Places DEF Rows
    <2> QED
      BY <1>6, <2>1, Places DEF Rows
  <1>8. tx[t].kind \in {"process", "invalidate", "logout"}
    <2>1. tx[t].kind \in {"process", "invalidate", "toggle", "delete", "logout"}
      BY <1>6, WhoNeeds DEF IInv
    <2>2. tx[t].kind \notin {"toggle", "delete"}
      BY <1>6, <1>7, KindTable DEF IInv, ToggleLocks, DeleteLocks, Lock, RowsAssumption
    <2> QED
      BY <2>1, <2>2
  <1>9. tx[u].kind # "logout"
    <2>1. SUFFICES ASSUME tx[u].kind = "logout" PROVE FALSE
      OBVIOUS
    <2>2. l[1] # User
      BY DEF RowsAssumption
    <2>3. PICK mode \in {"share", "write", "full"} : <<User, mode>> \in held[t]
      BY <1>8, <2>2, HoldsUser
    <2>4. <<User, "full">> \in held[u]
      BY <1>2, <2>1, <2>2, HoldsUser
    <2> QED
      BY <1>1, <2>3, <2>4, LogoutIsAlone
  <1>10. u = Coordinator /\ k[1] \in Rules
    BY <1>2, <1>3, <1>5, <1>9, RuleHolderPolls
  <1> QED
    BY <1>1, <1>3, <1>10

\* The observations are left, and prune and logout to take them.
LEMMA HolderHasObservation ==
    ASSUME RowsAssumption, IInv, NEW S \in SUBSET Tasks, Knot(S), Undelivered(S),
           NEW t \in S, NEW h \in held[t], NEW l \in asked[t]
    PROVE  l[1] \in Observations
  <1>1. l[1] \in Rows
    BY DEF IInv, TypeOK
  <1>2. l[1] \notin Rules
    <2>1. SUFFICES ASSUME l[1] \in Rules PROVE FALSE
      OBVIOUS
    <2>2. /\ Coordinator \in S /\ \E m \in held[Coordinator] : TRUE
          /\ \E k \in asked[Coordinator] : k[1] \in Rules
      BY <2>1, HolderWaitsForPoll
    <2>3. PICK m \in held[Coordinator], k \in asked[Coordinator] : k[1] \in Rules
      BY <2>2
    <2> QED
      BY <2>2, <2>3, HolderWaitsForPoll
  <1> QED
    BY <1>1, <1>2, HolderHasUser, HolderHasNotes DEF Rows

LEMMA IInvImpliesTanglesNeedDelivery ==
    ASSUME RowsAssumption, IInv PROVE TanglesNeedDelivery
  <1> SUFFICES ASSUME NEW S \in SUBSET Tasks, Knot(S), Undelivered(S)
               PROVE  {"prune", "logout"} \subseteq Kinds(S)
    BY DEF TanglesNeedDelivery, Undelivered
  <1>1. PICK t \in S : \E h \in held[t] : TRUE
    <2>1. PICK s \in S : TRUE
      BY DEF Knot
    <2>2. PICK r \in asked[s] : TRUE
      BY KnotMemberAsks
    <2> QED
      BY HolderInKnot
  <1>2. PICK h \in held[t] : TRUE
    BY <1>1
  <1>3. PICK l \in asked[t] : TRUE
    BY KnotMemberAsks
  <1>4. l[1] \in Observations /\ l[1] # User
    BY HolderHasObservation DEF RowsAssumption
  <1>5. PICK u \in S : u # t /\ \E m \in held[u] : m[1] = l[1]
    BY HolderInKnot
  <1>6. PICK m \in held[u] : m[1] = l[1]
    BY <1>5
  <1>7. l \in tx[t].needs /\ m \in tx[u].needs
    BY DEF IInv, TypeOK
  <1>8. tx[t].kind \in {"prune", "logout"} /\ tx[u].kind \in {"prune", "logout"}
    BY <1>4, <1>6, <1>7, WhoNeeds DEF IInv
  <1>9. ~(tx[t].kind = "logout" /\ tx[u].kind = "logout")
    BY <1>4, <1>5, <1>6, HoldsUser, LogoutIsAlone
  <1>10. ~(tx[t].kind = "prune" /\ tx[u].kind = "prune")
    BY <1>5, KindTable DEF IInv
  <1> QED
    BY <1>8, <1>9, <1>10 DEF Kinds

(***************************************************************************)
(* Without a delivery nobody deadlocks, but for a prune and a /logout that *)
(* come to the observations in a different order.                          *)
(***************************************************************************)
THEOREM OnlyDeliveriesTangle == Spec => []TanglesNeedDelivery
  <1>1. IInv => TanglesNeedDelivery
    BY IInvImpliesTanglesNeedDelivery, RowsAssumption
  <1> QED
    BY <1>1, LocksAreOrdered, PTL

=============================================================================
