------------------------ MODULE MonitorSafetyProofs ------------------------
(***************************************************************************)
(* The safety properties of Monitor, each from an inductive invariant of   *)
(* its own on top of TypeOK.                                               *)
(***************************************************************************)
EXTENDS MonitorProofs, WellFoundedInduction

-----------------------------------------------------------------------------
(***************************************************************************)
(* What one step of a poll or an add does to its own job: it keeps the     *)
(* mark to notify, only the answer 401 or 403 leads to invalidation, and   *)
(* a snapshot is of the time it is answered.                               *)
(***************************************************************************)
Follows(w, next) ==
    /\ job' = [job EXCEPT ![w] = next]
    /\ \/ next.phase = "idle"
       \/ /\ job[w].phase \notin {"idle", "dm"}
          /\ next.notify = job[w].notify
    /\ next.phase \notin {"insert", "dm"}
    /\ next.phase = "invalidate" => next.token \in rejected'
    /\ next.phase = "process" => next.at = clock

LEMMA NextGroupFollows ==
    ASSUME NEW w, NEW next \in NextGroup(job[w]), job[w].phase \notin {"idle", "dm"},
           job' = [job EXCEPT ![w] = next]
    PROVE  Follows(w, next)
<1>1. CASE next = IdleJob
  BY <1>1 DEF Follows, IdleJob
<1>2. CASE next # IdleJob
  <2>1. PICK g \in job[w].todo :
            next = [IdleJob EXCEPT !.phase = "fetch", !.token = job[w].token,
                                   !.notify = job[w].notify,
                                   !.todo = job[w].todo \ {g}, !.group = g]
    BY <1>2 DEF NextGroup
  <2>2. next.phase = "fetch" /\ next.notify = job[w].notify
    BY <2>1 DEF IdleJob
  <2> QED BY <2>2 DEF Follows
<1> QED BY <1>1, <1>2

LEMMA WorkFollows ==
    ASSUME TypeOK, NEW w \in Workers,
           Work(w) \/ FetchFails(w) \/ ReauthDm(w) \/ TaskError(w)
    PROVE  \E next : Follows(w, next)
<1>1. job[w] \in Job
  BY DEF TypeOK, TasksOK
<1>2. ASSUME NEW price \in Prices \cup {None}, FetchOk(w, price)
      PROVE  \E next : Follows(w, next)
  <2> DEFINE next == [job[w] EXCEPT !.phase = "process", !.price = price, !.at = clock]
  <2>1. job' = [job EXCEPT ![w] = next] /\ job[w].phase = "fetch"
    BY <1>2 DEF FetchOk
  <2>2. next.phase = "process" /\ next.notify = job[w].notify /\ next.at = clock
    BY <1>1 DEF Job
  <2> HIDE DEF next
  <2> QED BY <2>1, <2>2 DEF Follows
<1>3. CASE FetchFails(w)
  <2>1. job[w].phase = "fetch"
    BY <1>3 DEF FetchFails
  <2>2. CASE IsPoll(w)
    BY <1>3, <2>1, <2>2, NextGroupFollows DEF FetchFails
  <2>3. CASE ~IsPoll(w)
    <3> DEFINE next == [job[w] EXCEPT !.phase = "discard"]
    <3>1. job' = [job EXCEPT ![w] = next]
      BY <1>3, <2>3 DEF FetchFails
    <3>2. next.phase = "discard" /\ next.notify = job[w].notify
      BY <1>1 DEF Job
    <3> HIDE DEF next
    <3> QED BY <2>1, <3>1, <3>2 DEF Follows
  <2> QED BY <2>2, <2>3
<1>4. CASE FetchRejected(w)
  <2>1. job[w].phase = "fetch" /\ job[w].token \in rejected'
    BY <1>4 DEF FetchRejected
  <2>2. CASE IsPoll(w)
    <3> DEFINE next == [IdleJob EXCEPT !.phase = "invalidate", !.token = job[w].token,
                                       !.notify = job[w].notify]
    <3>1. job' = [job EXCEPT ![w] = next]
      BY <1>4, <2>2 DEF FetchRejected
    <3>2. next.phase = "invalidate" /\ next.notify = job[w].notify /\ next.token = job[w].token
      BY DEF IdleJob
    <3> HIDE DEF next
    <3> QED BY <2>1, <3>1, <3>2 DEF Follows
  <2>3. CASE ~IsPoll(w)
    <3> DEFINE next == [job[w] EXCEPT !.phase = "discard"]
    <3>1. job' = [job EXCEPT ![w] = next]
      BY <1>4, <2>3 DEF FetchRejected
    <3>2. next.phase = "discard" /\ next.notify = job[w].notify
      BY <1>1 DEF Job
    <3> HIDE DEF next
    <3> QED BY <2>1, <3>1, <3>2 DEF Follows
  <2> QED BY <2>2, <2>3
<1>5. CASE Process(w)
  <2>1. job[w].phase = "process"
    BY <1>5 DEF Process
  <2>2. CASE job' = [job EXCEPT ![w] = IdleJob]
    <3>1. Follows(w, IdleJob)
      BY <2>2 DEF Follows, IdleJob
    <3> QED BY <3>1
  <2>3. CASE \E next \in NextGroup(job[w]) : job' = [job EXCEPT ![w] = next]
    BY <2>1, <2>3, NextGroupFollows
  <2>4. ASSUME NEW events,
               job' = [job EXCEPT ![w] =
                   [IdleJob EXCEPT !.phase = "deliver", !.token = job[w].token,
                                   !.notify = job[w].notify, !.todo = job[w].todo,
                                   !.events = events]]
        PROVE  \E next : Follows(w, next)
    <3> DEFINE next == [IdleJob EXCEPT !.phase = "deliver", !.token = job[w].token,
                                       !.notify = job[w].notify, !.todo = job[w].todo,
                                       !.events = events]
    <3>1. next.phase = "deliver" /\ next.notify = job[w].notify
      BY DEF IdleJob
    <3>2. job' = [job EXCEPT ![w] = next]
      BY <2>4
    <3> HIDE DEF next
    <3> QED BY <2>1, <3>1, <3>2 DEF Follows
  <2>5. CASE users[Owner(w)] # None
    <3>1. PICK order \in Orders(Triggered(w)) :
             IF order = << >>
             THEN \E next \in NextGroup(job[w]) : job' = [job EXCEPT ![w] = next]
             ELSE job' = [job EXCEPT ![w] =
                    [IdleJob EXCEPT !.phase = "deliver", !.token = job[w].token,
                                    !.notify = job[w].notify, !.todo = job[w].todo,
                                    !.events = [i \in DOMAIN order |-> Len(notes) + i]]]
      BY <1>5, <2>5 DEF Process
    <3> QED BY <2>3, <2>4, <3>1
  <2> QED BY <1>5, <2>2, <2>5 DEF Process
<1>6. ASSUME NEW outcome \in Outcomes, Deliver(w, outcome)
      PROVE  \E next : Follows(w, next)
  <2> DEFINE next == [job[w] EXCEPT !.phase = "record", !.told = (outcome = "accepted")]
  <2>1. job' = [job EXCEPT ![w] = next] /\ job[w].phase = "deliver"
    BY <1>6 DEF Deliver
  <2>2. next.phase = "record" /\ next.notify = job[w].notify
    BY <1>1 DEF Job
  <2> HIDE DEF next
  <2> QED BY <2>1, <2>2 DEF Follows
<1>7. CASE Record(w)
  <2>1. job[w].phase = "record"
    BY <1>7 DEF Record
  <2>2. CASE Len(job[w].events) > 1
    <3> DEFINE next == [job[w] EXCEPT !.phase = "deliver", !.told = FALSE,
                                      !.events = Tail(@)]
    <3>1. job' = [job EXCEPT ![w] = next]
      BY <1>7, <2>2 DEF Record
    <3>2. next.phase = "deliver" /\ next.notify = job[w].notify
      BY <1>1 DEF Job
    <3> HIDE DEF next
    <3> QED BY <2>1, <3>1, <3>2 DEF Follows
  <2>3. CASE ~(Len(job[w].events) > 1)
    BY <1>7, <2>1, <2>3, NextGroupFollows DEF Record
  <2> QED BY <2>2, <2>3
<1>8. CASE ReauthDm(w) \/ TaskError(w)
  BY <1>8 DEF ReauthDm, TaskError, Follows, IdleJob
<1> QED BY <1>2, <1>3, <1>4, <1>5, <1>6, <1>7, <1>8 DEF Work

-----------------------------------------------------------------------------
(***************************************************************************)
(* InvalidIffNotified.  A poll decides at its start whether its            *)
(* invalidation will mark the user as told, from a row that is valid and   *)
(* therefore unmarked: every poll under way will mark it.  An /auth clears *)
(* the mark only if the row it has read was invalid, that is marked.       *)
(***************************************************************************)
PollsWillNotify ==
    \A w \in Workers : IsPoll(w) /\ job[w].phase \notin {"idle", "dm"} => job[w].notify

SeenConsistent ==
    \A u \in Users : auth[u].phase = "write" /\ auth[u].seen # None
                     => (auth[u].seen.status = "invalid" <=> auth[u].seen.notified)

MarkInv == TypeOK /\ InvalidIffNotified /\ PollsWillNotify /\ SeenConsistent

LEMMA InitMark == Init => MarkInv
BY InitType DEF Init, MarkInv, InvalidIffNotified, PollsWillNotify, SeenConsistent,
                IdleJob, IdleAuth

LEMMA StartCycleMark ==
    ASSUME MarkInv, NEW due \in SUBSET Users, StartCycle(due)
    PROVE  PollsWillNotify'
<1>1. ASSUME NEW w \in Workers, IsPoll(w), Owner(w) \in due
      PROVE  job'[w].notify = TRUE
  <2>1. IsValid(Owner(w)) /\ Owner(w) \in Users
    BY <1>1 DEF StartCycle, Polled
  <2>2. users[Owner(w)].notified = FALSE
    BY <2>1 DEF MarkInv, InvalidIffNotified, IsValid, TypeOK, TablesOK, UserRow
  <2> QED BY <1>1, <2>2 DEF StartCycle, IdleJob
<1>2. ASSUME NEW w \in Workers, ~(IsPoll(w) /\ Owner(w) \in due)
      PROVE  job'[w] = job[w]
  BY <1>2 DEF StartCycle
<1> QED BY <1>1, <1>2 DEF MarkInv, PollsWillNotify

LEMMA WorkMark ==
    ASSUME MarkInv, NEW w \in Workers,
           Work(w) \/ FetchFails(w) \/ ReauthDm(w) \/ TaskError(w)
    PROVE  PollsWillNotify'
<1>1. PICK next : Follows(w, next)
  BY WorkFollows DEF MarkInv
<1> QED BY <1>1 DEF MarkInv, PollsWillNotify, Follows, TypeOK, TasksOK

LEMMA InvalidateMark ==
    ASSUME MarkInv, NEW w \in Workers, IsPoll(w), Invalidate(w)
    PROVE  InvalidIffNotified' /\ PollsWillNotify' /\ SeenConsistent'
<1>1. Owner(w) \in Users /\ job[w].notify = TRUE
  BY WorkersAre DEF MarkInv, PollsWillNotify, Invalidate, TypeOK, TasksOK, Job
<1>2. ASSUME NEW u \in Users, users'[u] # None
      PROVE  users'[u].status = "invalid" <=> users'[u].notified
  <2>1. CASE u = Owner(w)
    <3>1. users[u] \in UserRow
      BY <1>2, <2>1 DEF Invalidate, MarkInv, TypeOK, TablesOK
    <3>2. users'[u] = MarkedInvalid(users[u], TRUE)
      BY <1>1, <1>2, <2>1 DEF Invalidate, MarkInv, TypeOK, TablesOK
    <3> QED BY <3>1, <3>2 DEF MarkedInvalid, UserRow
  <2>2. CASE u # Owner(w)
    BY <1>2, <2>2 DEF Invalidate, MarkInv, InvalidIffNotified, TypeOK, TablesOK
  <2> QED BY <2>1, <2>2
<1>3. InvalidIffNotified'
  BY <1>2 DEF InvalidIffNotified
<1>4. PollsWillNotify'
  BY <1>1 DEF Invalidate, MarkInv, PollsWillNotify, TypeOK, TasksOK, IdleJob
<1>5. SeenConsistent'
  BY DEF Invalidate, MarkInv, SeenConsistent
<1> QED BY <1>3, <1>4, <1>5

LEMMA AuthMark ==
    ASSUME MarkInv, NEW u \in Users,
           (\E token \in Tokens : AuthRead(u, token)) \/ AuthWrite(u) \/ Logout(u)
    PROVE  InvalidIffNotified' /\ PollsWillNotify' /\ SeenConsistent'
<1> USE DEF MarkInv
<1>1. ASSUME NEW token \in Tokens, AuthRead(u, token)
      PROVE  InvalidIffNotified' /\ PollsWillNotify' /\ SeenConsistent'
  BY <1>1 DEF AuthRead, InvalidIffNotified, PollsWillNotify, SeenConsistent,
              TypeOK, TablesOK, TasksOK, tables
<1>2. CASE AuthWrite(u)
  <2> DEFINE seen == auth[u].seen
  <2>1. users[u] \in UserRow \cup {None} /\ seen \in UserRow \cup {None}
    BY <1>2 DEF AuthWrite, TypeOK, TablesOK, TasksOK, Auth, IdleAuth
  <2>2. seen # None => (seen.status = "invalid" <=> seen.notified)
    BY <1>2 DEF SeenConsistent, AuthWrite
  <2>3. users[u] # None => (users[u].status = "invalid" <=> users[u].notified)
    BY DEF InvalidIffNotified
  <2>4. ASSUME users[u] # None, seen # None
        PROVE  /\ SavedToken(users[u], seen, auth[u].token).status = "invalid"
                  <=> SavedToken(users[u], seen, auth[u].token).notified
    BY <2>1, <2>2, <2>3, <2>4 DEF SavedToken, UserRow
  <2>5. users'[u] # None => (users'[u].status = "invalid" <=> users'[u].notified)
    BY <1>2, <2>3, <2>4 DEF AuthWrite, TypeOK, TablesOK
  <2>6. InvalidIffNotified'
    BY <1>2, <2>5 DEF AuthWrite, InvalidIffNotified, TypeOK, TablesOK
  <2>7. PollsWillNotify' /\ SeenConsistent'
    BY <1>2 DEF AuthWrite, PollsWillNotify, SeenConsistent, TypeOK, TasksOK, IdleAuth
  <2> QED BY <2>6, <2>7
<1>3. CASE Logout(u)
  BY <1>3 DEF Logout, InvalidIffNotified, PollsWillNotify, SeenConsistent,
              TypeOK, TablesOK, tasks
<1> QED BY <1>1, <1>2, <1>3

LEMMA NextMark == MarkInv /\ [Next]_vars => MarkInv'
<1> SUFFICES ASSUME MarkInv, [Next]_vars
             PROVE  InvalidIffNotified' /\ PollsWillNotify' /\ SeenConsistent'
  BY NextType DEF MarkInv
<1> DEFINE Goal == InvalidIffNotified' /\ PollsWillNotify' /\ SeenConsistent'
<1>0. ASSUME UNCHANGED <<users, auth>>, PollsWillNotify' PROVE Goal
  BY <1>0 DEF MarkInv, InvalidIffNotified, SeenConsistent
<1>1. ASSUME NEW due \in SUBSET Users, StartCycle(due) PROVE Goal
  BY <1>0, <1>1, StartCycleMark DEF StartCycle, tables
<1>2. ASSUME NEW w \in Workers, Work(w) \/ FetchFails(w) \/ Poll(w) \/ TaskError(w)
      PROVE  Goal
  <2>1. CASE Work(w) \/ FetchFails(w) \/ ReauthDm(w) \/ TaskError(w)
    <3>1. UNCHANGED <<users, auth>>
      BY <2>1 DEF Work, FetchOk, FetchFails, FetchRejected, Process, Deliver, Record,
                  ReauthDm, TaskError, tables
    <3> QED BY <1>0, <2>1, <3>1, WorkMark
  <2>2. CASE IsPoll(w) /\ Invalidate(w)
    BY <2>2, InvalidateMark
  <2> QED BY <1>2, <2>1, <2>2 DEF Poll
<1>3. ASSUME NEW u \in Users, AddBegin(u) \/ Add(u) PROVE Goal
  <2>1. UNCHANGED <<users, auth>>
    BY <1>3 DEF AddBegin, Add, AddInsert, Discard, tables
  <2>2. \A w \in Workers : IsPoll(w) => job'[w] = job[w]
    BY <1>3, AddIsWorker DEF AddBegin, Add, AddInsert, Discard, MarkInv, TypeOK, TasksOK
  <2> QED BY <1>0, <2>1, <2>2 DEF MarkInv, PollsWillNotify
<1>4. ASSUME NEW u \in Users,
             (\E token \in Tokens : AuthRead(u, token)) \/ AuthWrite(u) \/ Logout(u)
      PROVE  Goal
  BY <1>4, AuthMark
<1>5. ASSUME NEW u \in Users,
             \/ \E kind \in CmdKinds, id \in RuleIds : CmdBegin(u, kind, id)
             \/ CmdCommit(u)
      PROVE  Goal
  <2>1. UNCHANGED <<users, auth, job>>
    BY <1>5 DEF CmdBegin, CmdCommit, tables
  <2> QED BY <1>0, <2>1 DEF MarkInv, PollsWillNotify
<1>6. CASE (\E token \in Tokens : Revoke(token)) \/ Tick \/ UNCHANGED vars
  <2>1. UNCHANGED <<users, auth, job>>
    BY <1>6 DEF Revoke, Tick, tables, tasks, vars
  <2> QED BY <1>0, <2>1 DEF MarkInv, PollsWillNotify
<1>7. CASE Crash
  BY <1>7 DEF Crash, MarkInv, InvalidIffNotified, PollsWillNotify, SeenConsistent,
              IdleJob, IdleAuth, tables
<1> QED BY <1>1, <1>2, <1>3, <1>4, <1>5, <1>6, <1>7 DEF Next

\* monitoring.py, repositories.py: a user is marked as told exactly while the
\* token is marked invalid, for any number of users, tokens and commands.
THEOREM InvalidUsersAreTold == Spec => []InvalidIffNotified
<1>1. MarkInv => InvalidIffNotified
  BY DEF MarkInv
<1> QED BY <1>1, InitMark, NextMark, PTL DEF Spec

-----------------------------------------------------------------------------
(***************************************************************************)
(* NothingOutlivesOwner is inductive relative to TypeOK: a rule is only    *)
(* inserted for a user that exists, an alert only for a rule that exists,  *)
(* and no step removes a row without what refers to it.                    *)
(***************************************************************************)
OwnerInv == TypeOK /\ NothingOutlivesOwner

\* Steps that keep every user, every rule with its owner, and every alert.
LEMMA KeptOwners ==
    ASSUME OwnerInv,
           \A u \in Users : users[u] # None => users'[u] # None,
           \A id \in RuleIds : rules'[id] # None
                               => rules[id] # None /\ rules'[id].owner = rules[id].owner,
           \A id \in RuleIds : rules[id] # None => rules'[id] # None,
           Len(notes') = Len(notes),
           \A n \in 1..Len(notes) : /\ notes'[n].rule = notes[n].rule
                                    /\ notes'[n].row # "deleted" => notes[n].row # "deleted"
    PROVE  NothingOutlivesOwner'
<1>1. ASSUME NEW id \in RuleIds, rules'[id] # None
      PROVE  users'[rules'[id].owner] # None
  <2>1. rules[id] \in RuleRow /\ rules'[id].owner = rules[id].owner
    BY <1>1 DEF OwnerInv, TypeOK, TablesOK
  <2> QED BY <1>1, <2>1 DEF OwnerInv, NothingOutlivesOwner, RuleRow
<1>2. ASSUME NEW n \in 1..Len(notes), notes'[n].row # "deleted"
      PROVE  rules'[notes'[n].rule] # None
  <2>1. notes[n] \in Note
    BY ElementOfSeq DEF OwnerInv, TypeOK, TablesOK
  <2> QED BY <1>2, <2>1 DEF OwnerInv, NothingOutlivesOwner, Note
<1> QED BY <1>1, <1>2 DEF NothingOutlivesOwner

LEMMA UntouchedOwners ==
    ASSUME OwnerInv, \A u \in Users : users[u] # None => users'[u] # None,
           UNCHANGED <<rules, notes>>
    PROVE  NothingOutlivesOwner'
BY KeptOwners

\* Steps that delete rules, and users whose rules are all among them.
LEMMA DeletedOwners ==
    ASSUME OwnerInv, NEW ids \in SUBSET RuleIds,
           rules' = Without(ids), notes' = NotesWithout(ids),
           \A u \in Users : users[u] # None => users'[u] # None \/ RulesOf(u) \subseteq ids
    PROVE  NothingOutlivesOwner'
<1>1. ASSUME NEW id \in RuleIds, rules'[id] # None
      PROVE  users'[rules'[id].owner] # None
  <2>1. id \notin ids /\ rules'[id] = rules[id] /\ rules[id] # None
    BY <1>1 DEF Without
  <2>2. rules[id].owner \in Users /\ id \in RulesOf(rules[id].owner)
    BY <2>1 DEF OwnerInv, TypeOK, TablesOK, RuleRow, RulesOf
  <2> QED BY <2>1, <2>2 DEF OwnerInv, NothingOutlivesOwner
<1>2. Len(notes') = Len(notes)
  BY WithoutType DEF OwnerInv, TypeOK
<1>3. ASSUME NEW n \in 1..Len(notes), notes'[n].row # "deleted"
      PROVE  rules'[notes'[n].rule] # None
  <2>1. notes[n] \in Note
    BY ElementOfSeq DEF OwnerInv, TypeOK, TablesOK
  <2>2. notes'[n] = IF notes[n].rule \in ids THEN [notes[n] EXCEPT !.row = "deleted"]
                    ELSE notes[n]
    BY DEF NotesWithout
  <2>3. notes[n].rule \notin ids
    BY <1>3, <2>1, <2>2 DEF Note
  <2> QED BY <1>3, <2>1, <2>2, <2>3 DEF OwnerInv, NothingOutlivesOwner, Without, Note
<1> QED BY <1>1, <1>2, <1>3 DEF NothingOutlivesOwner

LEMMA ProcessOwners ==
    ASSUME OwnerInv, NEW w \in Workers, Process(w)
    PROVE  NothingOutlivesOwner'
<1>1. CASE users[Owner(w)] = None
  BY <1>1, UntouchedOwners DEF Process
<1>2. CASE users[Owner(w)] # None
  <2>1. PICK order \in Orders(Triggered(w)) : notes' = notes \o NewNotes(w, order)
    BY <1>2 DEF Process, NewNotes
  <2>2. PICK k \in Nat : /\ order \in [1..k -> Triggered(w)]
                         /\ NewNotes(w, order) \in Seq(Note)
                         /\ Len(NewNotes(w, order)) = k
    BY NewNotesType DEF OwnerInv
  <2>3. users' = users
        /\ rules' = [id \in RuleIds |->
                        IF id \in Processed(w)
                        THEN ProcessedRow(rules[id], Evaluated(w, id), job[w].at)
                        ELSE rules[id]]
    BY <1>2 DEF Process
  <2>4. ASSUME NEW id \in RuleIds
        PROVE  /\ rules[id] # None <=> rules'[id] # None
               /\ rules'[id] # None => rules'[id].owner = rules[id].owner
    <3>1. CASE id \in Processed(w)
      <4>1. rules[id] \in RuleRow /\ rules'[id] \in RuleRow
        BY <2>3, <3>1, ProcessedType DEF OwnerInv
      <4>2. rules'[id].owner = rules[id].owner
        BY <2>3, <3>1, <4>1 DEF ProcessedRow, RuleRow
      <4> QED BY <4>1, <4>2, NoRowAssumption
    <3>2. CASE id \notin Processed(w)
      BY <2>3, <3>2
    <3> QED BY <3>1, <3>2
  <2>5. notes \in Seq(Note) /\ Len(notes) \in Nat
    BY LenProperties DEF OwnerInv, TypeOK, TablesOK
  <2>6. /\ Len(notes') = Len(notes) + k
        /\ \A n \in 1..Len(notes) + k :
              notes'[n] = IF n <= Len(notes) THEN notes[n]
                          ELSE NewNotes(w, order)[n - Len(notes)]
    BY <2>1, <2>2, <2>5, ConcatProperties
  <2>7. ASSUME NEW n \in 1..Len(notes'), notes'[n].row # "deleted"
        PROVE  rules'[notes'[n].rule] # None
    <3>1. CASE n <= Len(notes)
      <4>1. n \in 1..Len(notes) /\ notes'[n] = notes[n]
        BY <2>5, <2>6, <3>1
      <4>2. notes[n].rule \in RuleIds /\ rules[notes[n].rule] # None
        <5>1. notes[n] \in Note
          BY <2>5, <4>1, ElementOfSeq
        <5>2. notes[n].row # "deleted"
          BY <2>7, <4>1
        <5> QED BY <4>1, <5>1, <5>2 DEF OwnerInv, NothingOutlivesOwner, Note
      <4> QED BY <2>4, <4>1, <4>2
    <3>2. CASE ~(n <= Len(notes))
      <4> DEFINE i == n - Len(notes)
      <4>1. i \in 1..k /\ notes'[n] = NewNotes(w, order)[i]
        BY <2>2, <2>5, <2>6, <3>2
      <4>2. notes'[n].rule = order[i] /\ order[i] \in Triggered(w)
        BY <2>2, <4>1 DEF NewNotes
      <4>3. order[i] \in RuleIds /\ rules[order[i]] # None
        BY <4>2 DEF Triggered, Processed, EnabledOf, RulesOf
      <4> QED BY <2>4, <4>2, <4>3
    <3> QED BY <3>1, <3>2
  <2>8. ASSUME NEW id \in RuleIds, rules'[id] # None
        PROVE  users'[rules'[id].owner] # None
    BY <2>3, <2>4, <2>8 DEF OwnerInv, NothingOutlivesOwner
  <2> QED BY <2>7, <2>8 DEF NothingOutlivesOwner
<1> QED BY <1>1, <1>2

LEMMA DeliveryOwners ==
    ASSUME OwnerInv, NEW w \in Workers, Record(w) \/ \E outcome \in Outcomes : Deliver(w, outcome)
    PROVE  NothingOutlivesOwner'
<1> DEFINE n == Head(job[w].events)
<1>1. notes \in Seq(Note) /\ UNCHANGED <<users, rules>>
  BY DEF OwnerInv, TypeOK, TablesOK, Record, Deliver
<1>2. ASSUME NEW i \in 1..Len(notes) PROVE notes[i] \in Note
  BY <1>1, ElementOfSeq
<1>3. /\ DOMAIN notes' = DOMAIN notes
      /\ \A i \in 1..Len(notes) :
            \/ notes'[i] = notes[i]
            \/ notes'[i] = [notes[i] EXCEPT !.dms = @ + 1]
            \/ notes[i].row # "deleted" /\ notes'[i] = [notes[i] EXCEPT !.row = OutcomeOf(job[w])]
  <2>1. DOMAIN notes = 1..Len(notes)
    BY <1>1, LenProperties
  <2>2. CASE Record(w)
    <3>1. CASE notes[n].row = "deleted"
      BY <2>2, <3>1 DEF Record
    <3>2. CASE notes[n].row # "deleted"
      <4>1. notes' = [notes EXCEPT ![n].row = OutcomeOf(job[w])]
        BY <2>2, <3>2 DEF Record
      <4> QED BY <2>1, <3>2, <4>1
    <3> QED BY <3>1, <3>2
  <2>3. ASSUME NEW outcome \in Outcomes, Deliver(w, outcome)
        PROVE  notes' = notes \/ notes' = [notes EXCEPT ![n].dms = @ + 1]
    BY <2>3 DEF Deliver
  <2>4. CASE \E outcome \in Outcomes : Deliver(w, outcome)
    BY <2>1, <2>3, <2>4
  <2> QED BY <2>2, <2>4
<1>4. Len(notes') = Len(notes)
  BY <1>1, <1>3, NextType, LenProperties, DeliverType, RecordType
  DEF OwnerInv, TypeOK, TablesOK
<1>5. ASSUME NEW i \in 1..Len(notes)
      PROVE  /\ notes'[i].rule = notes[i].rule
             /\ notes'[i].row # "deleted" => notes[i].row # "deleted"
  BY <1>2, <1>3 DEF Note
<1> QED BY <1>1, <1>4, <1>5, KeptOwners

LEMMA InvalidateOwners ==
    ASSUME OwnerInv, NEW w \in Workers, Invalidate(w)
    PROVE  NothingOutlivesOwner'
<1>1. ASSUME NEW u \in Users, users[u] # None PROVE users'[u] # None
  <2>1. users[u] \in UserRow /\ job[w].notify \in BOOLEAN
    BY <1>1 DEF OwnerInv, TypeOK, TablesOK, TasksOK, Job
  <2>2. MarkedInvalid(users[u], job[w].notify) \in UserRow
    BY <2>1 DEF MarkedInvalid, UserRow
  <2> QED BY <1>1, <2>2, NoRowAssumption DEF Invalidate, OwnerInv, TypeOK, TablesOK
<1>2. ASSUME NEW id \in RuleIds
      PROVE  /\ rules[id] # None <=> rules'[id] # None
             /\ rules'[id] # None => rules'[id].owner = rules[id].owner
  <2>1. CASE rules[id] = None
    BY <2>1 DEF Invalidate, RulesOf
  <2>2. CASE rules[id] # None
    <3>1. rules[id] \in RuleRow
      BY <2>2 DEF OwnerInv, TypeOK, TablesOK
    <3>2. PausedByInvalidation(rules[id]) \in RuleRow
          /\ PausedByInvalidation(rules[id]).owner = rules[id].owner
      BY <3>1 DEF PausedByInvalidation, RuleRow
    <3> QED BY <2>2, <3>2, NoRowAssumption DEF Invalidate
  <2> QED BY <2>1, <2>2
<1>3. UNCHANGED notes
  BY DEF Invalidate
<1> QED BY <1>1, <1>2, <1>3, KeptOwners

LEMMA CommandOwners ==
    ASSUME OwnerInv, NEW u \in Users, CmdCommit(u) \/ Discard(u) \/ Logout(u)
    PROVE  NothingOutlivesOwner'
<1>1. CASE Logout(u)
  <2>1. RulesOf(u) \subseteq RuleIds
    BY DEF RulesOf
  <2>2. \A v \in Users : users[v] # None => users'[v] # None \/ RulesOf(v) \subseteq RulesOf(u)
    BY <1>1 DEF Logout, OwnerInv, TypeOK, TablesOK
  <2> QED BY <1>1, <2>1, <2>2, DeletedOwners DEF Logout
<1>2. CASE Discard(u)
  <2> DEFINE ids == job[<<"add", u>>].group \cap RulesOf(u)
  <2>1. ids \subseteq RuleIds
    BY DEF RulesOf
  <2> QED BY <1>2, <2>1, DeletedOwners DEF Discard, Discarded
<1>3. CASE CmdCommit(u) /\ cmd[u].kind = "delete"
  <2> DEFINE ids == {cmd[u].rule} \cap RulesOf(u)
  <2>1. ids \subseteq RuleIds
    BY DEF RulesOf
  <2> QED BY <1>3, <2>1, DeletedOwners DEF CmdCommit
<1>4. CASE CmdCommit(u) /\ cmd[u].kind # "delete"
  <2>1. ASSUME NEW id \in RuleIds
        PROVE  /\ rules[id] # None <=> rules'[id] # None
               /\ rules'[id] # None => rules'[id].owner = rules[id].owner
    <3>1. rules'[id] = IF id \in {cmd[u].rule} \cap RulesOf(u)
                       THEN SetEnabled(rules[id], cmd[u].kind) ELSE rules[id]
      BY <1>4 DEF CmdCommit
    <3>2. CASE rules[id] = None
      BY <3>1, <3>2 DEF RulesOf
    <3>3. CASE rules[id] # None
      <4>1. rules[id] \in RuleRow
        BY <3>3 DEF OwnerInv, TypeOK, TablesOK
      <4>2. SetEnabled(rules[id], cmd[u].kind) \in RuleRow
            /\ SetEnabled(rules[id], cmd[u].kind).owner = rules[id].owner
        BY <4>1 DEF SetEnabled, RuleRow, RuleStates
      <4> QED BY <3>1, <3>3, <4>2, NoRowAssumption
    <3> QED BY <3>2, <3>3
  <2>2. UNCHANGED <<users, notes>>
    BY <1>4 DEF CmdCommit
  <2> QED BY <2>1, <2>2, KeptOwners
<1> QED BY <1>1, <1>2, <1>3, <1>4

LEMMA InsertOwners ==
    ASSUME OwnerInv, NEW u \in Users, NEW item \in Items, AddInsert(u, item)
    PROVE  NothingOutlivesOwner'
<1>1. CASE users[u] = None
  BY <1>1, UntouchedOwners DEF AddInsert
<1>2. CASE users[u] # None
  <2>1. NewRule(u, item) \in RuleRow /\ NewRule(u, item).owner = u
    BY DEF NewRule, RuleRow, RuleStates
  <2>2. rules' = [rules EXCEPT ![nextId] = NewRule(u, item)] /\ UNCHANGED <<users, notes>>
    BY <1>2 DEF AddInsert
  <2>3. ASSUME NEW id \in RuleIds, rules'[id] # None
        PROVE  users'[rules'[id].owner] # None
    <3>1. rules \in [RuleIds -> RuleRow \cup {None}]
      BY DEF OwnerInv, TypeOK, TablesOK
    <3>2. CASE id = nextId
      <4>1. rules'[id] = NewRule(u, item)
        BY <2>2, <3>1, <3>2
      <4> QED BY <1>2, <2>1, <2>2, <4>1
    <3>3. CASE id # nextId
      <4>1. rules'[id] = rules[id]
        BY <2>2, <3>1, <3>3
      <4> QED BY <2>2, <2>3, <4>1 DEF OwnerInv, NothingOutlivesOwner
    <3> QED BY <3>2, <3>3
  <2>4. ASSUME NEW n \in 1..Len(notes), notes[n].row # "deleted"
        PROVE  rules'[notes[n].rule] # None
    <3>1. notes[n].rule \in RuleIds /\ rules[notes[n].rule] # None
      <4>1. notes[n] \in Note
        BY ElementOfSeq DEF OwnerInv, TypeOK, TablesOK
      <4> QED BY <2>4, <4>1 DEF OwnerInv, NothingOutlivesOwner, Note
    <3> QED BY <2>1, <2>2, <3>1, NoRowAssumption DEF OwnerInv, TypeOK, TablesOK
  <2> QED BY <2>2, <2>3, <2>4 DEF NothingOutlivesOwner
<1> QED BY <1>1, <1>2

LEMMA AuthWriteOwners ==
    ASSUME OwnerInv, NEW u \in Users, AuthWrite(u)
    PROVE  NothingOutlivesOwner'
<1>1. ASSUME NEW v \in Users, users[v] # None PROVE users'[v] # None
  <2>1. users[v] \in UserRow
    BY <1>1 DEF OwnerInv, TypeOK, TablesOK
  <2>2. auth[u].seen # None =>
           SavedToken(users[v], auth[u].seen, auth[u].token) \in UserRow
    <3>1. auth[u].token \in Tokens /\ auth[u].seen \in UserRow \cup {None}
      BY DEF AuthWrite, OwnerInv, TypeOK, TasksOK, Auth, IdleAuth
    <3> QED BY <2>1, <3>1 DEF SavedToken, UserRow
  <2> QED BY <1>1, <2>2, NoRowAssumption DEF AuthWrite, OwnerInv, TypeOK, TablesOK
<1> QED BY <1>1, UntouchedOwners DEF AuthWrite

LEMMA NextOwners == OwnerInv /\ [Next]_vars => OwnerInv'
<1> SUFFICES ASSUME OwnerInv, [Next]_vars PROVE NothingOutlivesOwner'
  BY NextType DEF OwnerInv
<1>1. CASE \E due \in SUBSET Users : StartCycle(due)
  BY <1>1, UntouchedOwners DEF StartCycle, tables
<1>2. ASSUME NEW w \in Workers, Work(w) \/ FetchFails(w) \/ Poll(w) \/ TaskError(w)
      PROVE  NothingOutlivesOwner'
  <2>1. CASE \/ \E price \in Prices \cup {None} : FetchOk(w, price)
             \/ FetchFails(w) \/ FetchRejected(w) \/ ReauthDm(w) \/ TaskError(w)
    BY <2>1, UntouchedOwners DEF FetchOk, FetchFails, FetchRejected, ReauthDm, TaskError, tables
  <2> QED BY <1>2, <2>1, ProcessOwners, DeliveryOwners, InvalidateOwners DEF Work, Poll
<1>3. ASSUME NEW u \in Users,
             \/ AddBegin(u)
             \/ \E token \in Tokens : AuthRead(u, token)
             \/ \E kind \in CmdKinds, id \in RuleIds : CmdBegin(u, kind, id)
      PROVE  NothingOutlivesOwner'
  BY <1>3, UntouchedOwners DEF AddBegin, AuthRead, CmdBegin, tables
<1>4. ASSUME NEW u \in Users, Add(u) \/ AuthWrite(u) \/ Logout(u) \/ CmdCommit(u)
      PROVE  NothingOutlivesOwner'
  BY <1>4, InsertOwners, CommandOwners, AuthWriteOwners DEF Add
<1>5. CASE (\E token \in Tokens : Revoke(token)) \/ Tick \/ Crash \/ UNCHANGED vars
  BY <1>5, UntouchedOwners DEF Revoke, Tick, Crash, vars, tables
<1> QED BY <1>1, <1>2, <1>3, <1>4, <1>5 DEF Next

\* models.py (ON DELETE CASCADE), services.py: neither a rule nor an alert is
\* left behind by a logout, a delete or a failed add that races its owner.
THEOREM NothingIsOrphaned == Spec => []NothingOutlivesOwner
<1>1. Init => OwnerInv
  BY InitType, EmptySeq DEF Init, OwnerInv, NothingOutlivesOwner
<1>2. OwnerInv => NothingOutlivesOwner
  BY DEF OwnerInv
<1> QED BY <1>1, <1>2, NextOwners, PTL DEF Spec

-----------------------------------------------------------------------------
(***************************************************************************)
(* The two uncrossed properties.  As long as an invalid user is not marked *)
(* as straddled, nothing is under way that could undo the invalidation:    *)
(* no resume, no insert and no /auth that has read the row while valid.    *)
(* The commands cannot begin, since they ask for a valid user; an /auth    *)
(* that begins reads the row as invalid.                                   *)
(***************************************************************************)
NothingCrosses(u) ==
    /\ EnabledOf(u) = {}
    /\ cmd[u].kind # "resume"
    /\ job[<<"add", u>>].phase # "insert"
    /\ users[u].token \in rejected
    /\ auth[u].phase = "write" => auth[u].seen # None /\ auth[u].seen.status = "invalid"

IsInvalid(u) == users[u] # None /\ users[u].status = "invalid"

CrossInv ==
    /\ TypeOK
    /\ \A u \in Users \ straddled : IsInvalid(u) => NothingCrosses(u)
    /\ \A w \in Workers : job[w].phase = "invalidate" => job[w].token \in rejected

\* A step that leaves the row of a user alone and begins or enables nothing.
LEMMA StillUncrossed ==
    ASSUME CrossInv, NEW u \in Users, u \notin straddled, IsInvalid(u),
           users'[u].token = users[u].token, rejected \subseteq rejected',
           \/ auth'[u] = auth[u]
           \/ auth'[u].phase # "write"
           \/ auth'[u].seen # None /\ auth'[u].seen.status = "invalid",
           cmd'[u] = cmd[u] \/ cmd'[u].kind # "resume",
           job'[<<"add", u>>] = job[<<"add", u>>] \/ job'[<<"add", u>>].phase # "insert",
           EnabledOf(u)' \subseteq EnabledOf(u)
    PROVE  NothingCrosses(u)'
BY DEF CrossInv, NothingCrosses

LEMMA EnabledShrinks ==
    ASSUME NEW u \in Users,
           \A id \in RuleIds :
               rules'[id] # None /\ rules'[id].owner = u /\ rules'[id].enabled
               => rules[id] # None /\ rules[id].owner = u /\ rules[id].enabled
    PROVE  EnabledOf(u)' \subseteq EnabledOf(u)
BY DEF EnabledOf, RulesOf

LEMMA StartCycleCross ==
    ASSUME CrossInv, TypeOK', NEW due \in SUBSET Users, StartCycle(due)
    PROVE  CrossInv'
<1>1. ASSUME NEW w \in Workers
      PROVE  job'[w] = job[w] \/ (IsPoll(w) /\ job'[w].phase = "fetch")
  <2>1. PICK first :
           job' = [v \in Workers |->
                        IF IsPoll(v) /\ Owner(v) \in due
                        THEN LET u == Owner(v)
                             IN  [IdleJob EXCEPT !.phase = "fetch",
                                                 !.token = users[u].token,
                                                 !.notify = ~users[u].notified,
                                                 !.todo = GroupsOf(u) \ {first[u]},
                                                 !.group = first[u]]
                        ELSE job[v]]
    BY DEF StartCycle
  <2> QED BY <2>1 DEF IdleJob
<1>2. UNCHANGED <<users, rules, auth, cmd, rejected, straddled>>
  BY DEF StartCycle, tables, history
<1>3. ASSUME NEW u \in Users \ straddled, IsInvalid(u) PROVE NothingCrosses(u)'
  <2>1. job'[<<"add", u>>] = job[<<"add", u>>]
    BY <1>1, AddIsWorker
  <2> QED BY <1>2, <1>3, <2>1, StillUncrossed DEF EnabledOf, RulesOf
<1>4. \A w \in Workers : job'[w].phase = "invalidate" => job'[w].token \in rejected'
  BY <1>1, <1>2 DEF CrossInv
<1> QED BY <1>2, <1>3, <1>4 DEF CrossInv, IsInvalid

LEMMA WorkCross ==
    ASSUME CrossInv, TypeOK', NEW w \in Workers,
           Work(w) \/ FetchFails(w) \/ ReauthDm(w) \/ TaskError(w)
    PROVE  CrossInv'
<1>1. PICK next : Follows(w, next)
  BY WorkFollows DEF CrossInv
<1>2. /\ UNCHANGED <<users, auth, cmd, straddled>>
      /\ rejected \subseteq rejected'
  BY DEF Work, FetchOk, FetchFails, FetchRejected, Process, Deliver, Record, ReauthDm,
         TaskError, tables, history
<1>3. rules' = rules \/ Process(w)
  BY DEF Work, FetchOk, FetchFails, FetchRejected, Deliver, Record, ReauthDm, TaskError,
         tables, history
<1>4. ASSUME NEW u \in Users PROVE EnabledOf(u)' \subseteq EnabledOf(u)
  <2>1. CASE rules' = rules
    BY <2>1, EnabledShrinks
  <2>2. CASE rules' # rules
    <3>1. rules' = [id \in RuleIds |->
                       IF id \in Processed(w)
                       THEN ProcessedRow(rules[id], Evaluated(w, id), job[w].at)
                       ELSE rules[id]]
      BY <1>3, <2>2 DEF Process
    <3>2. ASSUME NEW id \in Processed(w)
          PROVE  /\ id \in RuleIds /\ rules[id] # None
                 /\ rules'[id].owner = rules[id].owner
                 /\ rules[id].enabled
      <4>1. id \in RuleIds /\ rules[id] \in RuleRow /\ rules[id] # None /\ rules[id].enabled
        BY <3>2, ProcessedType, NoRowAssumption DEF CrossInv, Processed, EnabledOf
      <4>2. rules'[id] = ProcessedRow(rules[id], Evaluated(w, id), job[w].at)
        BY <3>1, <4>1
      <4> QED BY <4>1, <4>2 DEF ProcessedRow, RuleRow
    <3>3. ASSUME NEW id \in RuleIds, id \notin Processed(w) PROVE rules'[id] = rules[id]
      BY <3>1, <3>3
    <3> QED BY <3>2, <3>3, EnabledShrinks
  <2> QED BY <2>1, <2>2
<1>5. ASSUME NEW v \in Workers
      PROVE  job'[v] = job[v] \/ (v = w /\ job'[v] = next)
  BY <1>1 DEF Follows, CrossInv, TypeOK, TasksOK
<1>6. ASSUME NEW u \in Users \ straddled, IsInvalid(u) PROVE NothingCrosses(u)'
  <2>1. job'[<<"add", u>>] = job[<<"add", u>>] \/ job'[<<"add", u>>].phase # "insert"
    BY <1>1, <1>5, AddIsWorker DEF Follows
  <2> QED BY <1>2, <1>4, <1>6, <2>1, StillUncrossed
<1>7. \A v \in Workers : job'[v].phase = "invalidate" => job'[v].token \in rejected'
  BY <1>1, <1>2, <1>5 DEF CrossInv, Follows
<1> QED BY <1>2, <1>6, <1>7 DEF CrossInv, IsInvalid

LEMMA InvalidateCross ==
    ASSUME CrossInv, TypeOK', NEW w \in Workers, IsPoll(w), Invalidate(w)
    PROVE  CrossInv'
<1> DEFINE u == Owner(w)
<1>1. u \in Users /\ job[w].token \in rejected
  BY WorkersAre DEF CrossInv, Invalidate
<1>2. UNCHANGED <<auth, cmd, rejected>>
  BY DEF Invalidate
<1>3. ASSUME NEW v \in Workers
      PROVE  job'[v] = job[v] \/ (v = w /\ job'[v].phase \in {"idle", "dm"})
  BY DEF Invalidate, CrossInv, TypeOK, TasksOK, IdleJob
<1>4. ASSUME NEW v \in Users PROVE job'[<<"add", v>>] = job[<<"add", v>>]
  BY <1>3, AddIsWorker
<1>5. rules' = [id \in RuleIds |-> IF id \in RulesOf(u) THEN PausedByInvalidation(rules[id])
                                   ELSE rules[id]]
  BY DEF Invalidate
<1>6. ASSUME NEW id \in RulesOf(u)
      PROVE  id \in RuleIds /\ rules'[id].enabled = FALSE /\ rules'[id].owner = u
  <2>1. id \in RuleIds /\ rules[id] \in RuleRow /\ rules[id].owner = u
    BY DEF RulesOf, CrossInv, TypeOK, TablesOK
  <2> QED BY <1>5, <2>1 DEF PausedByInvalidation, RuleRow
<1>7. ASSUME NEW id \in RuleIds, id \notin RulesOf(u) PROVE rules'[id] = rules[id]
  BY <1>5, <1>7
<1>8. EnabledOf(u)' = {}
  BY <1>6, <1>7 DEF EnabledOf, RulesOf
<1>9. ASSUME NEW v \in Users \ straddled', IsInvalid(v)' PROVE NothingCrosses(v)'
  <2>1. CASE v = u
    <3>1. users[u] # None
      BY <1>9, <1>1, <2>1 DEF IsInvalid, Invalidate, CrossInv, TypeOK, TablesOK
    <3>2. /\ auth[u].phase # "write"
          /\ cmd[u].kind # "resume"
          /\ job[<<"add", u>>].phase # "insert"
          /\ users[u].token = job[w].token
      BY <1>1, <1>9, <2>1, <3>1 DEF Invalidate
    <3>3. users[u] \in UserRow
      BY <1>1, <3>1 DEF CrossInv, TypeOK, TablesOK
    <3>4. users'[u] = MarkedInvalid(users[u], job[w].notify)
      BY <1>1, <3>1 DEF Invalidate, CrossInv, TypeOK, TablesOK
    <3>5. users'[u].token = users[u].token
      BY <3>3, <3>4 DEF MarkedInvalid, UserRow
    <3> QED BY <1>1, <1>2, <1>4, <1>8, <2>1, <3>2, <3>5 DEF NothingCrosses
  <2>2. CASE v # u
    <3>1. users'[v] = users[v] /\ v \notin straddled
      BY <1>9, <2>2 DEF Invalidate, CrossInv, TypeOK, TablesOK
    <3>2. EnabledOf(v)' \subseteq EnabledOf(v)
      BY <1>6, <1>7, <2>2 DEF EnabledOf, RulesOf
    <3> QED BY <1>2, <1>4, <1>9, <3>1, <3>2, StillUncrossed DEF IsInvalid
  <2> QED BY <2>1, <2>2
<1>10. \A v \in Workers : job'[v].phase = "invalidate" => job'[v].token \in rejected'
  BY <1>2, <1>3 DEF CrossInv
<1> QED BY <1>9, <1>10 DEF CrossInv

LEMMA AddCross ==
    ASSUME CrossInv, TypeOK', NEW u \in Users,
           AddBegin(u) \/ (\E item \in Items : AddInsert(u, item)) \/ Discard(u)
    PROVE  CrossInv'
<1> DEFINE a == <<"add", u>>
<1>1. UNCHANGED <<users, auth, cmd, rejected, straddled>>
  BY DEF AddBegin, AddInsert, Discard, tables, history
<1>2. a \in Workers /\ job[a] \in Job
  BY AddIsWorker DEF CrossInv, TypeOK, TasksOK
<1>3. /\ \A v \in Workers : v # a => job'[v] = job[v]
      /\ job'[a].phase \in {"insert", "idle", "fetch"}
      /\ job'[a].phase = "insert" => IsValid(u)
  <2>1. CASE AddBegin(u)
    BY <1>2, <2>1 DEF AddBegin, CrossInv, TypeOK, TasksOK, IdleJob
  <2>2. ASSUME NEW item \in Items, AddInsert(u, item)
        PROVE  /\ \A v \in Workers : v # a => job'[v] = job[v]
               /\ job'[a].phase \in {"idle", "fetch"}
    BY <1>2, <2>2 DEF AddInsert, CrossInv, TypeOK, TasksOK, IdleJob, Job
  <2>3. CASE Discard(u)
    BY <1>2, <2>3 DEF Discard, CrossInv, TypeOK, TasksOK, IdleJob
  <2> QED BY <2>1, <2>2, <2>3
<1>4. ASSUME NEW v \in Users \ straddled, IsInvalid(v) PROVE NothingCrosses(v)'
  <2>1. job'[<<"add", v>>] = job[<<"add", v>>] \/ job'[<<"add", v>>].phase # "insert"
    <3>1. CASE v = u
      BY <1>3, <1>4, <3>1 DEF IsValid, IsInvalid
    <3>2. CASE v # u
      BY <1>3, <3>2, AddIsWorker
    <3> QED BY <3>1, <3>2
  <2>2. EnabledOf(v)' \subseteq EnabledOf(v)
    <3>1. CASE AddBegin(u)
      BY <3>1 DEF AddBegin, tables, EnabledOf, RulesOf
    <3>2. ASSUME NEW item \in Items, AddInsert(u, item) PROVE EnabledOf(v)' \subseteq EnabledOf(v)
      <4>1. v # u
        BY <1>4, <3>2 DEF AddInsert, CrossInv, NothingCrosses
      <4>2. NewRule(u, item).owner = u
        BY DEF NewRule
      <4>3. \A id \in RuleIds : rules'[id] = rules[id] \/ rules'[id] = NewRule(u, item)
        BY <3>2 DEF AddInsert, CrossInv, TypeOK, TablesOK
      <4> QED BY <4>1, <4>2, <4>3, EnabledShrinks
    <3>3. CASE Discard(u)
      <4>1. \A id \in RuleIds : rules'[id] = rules[id] \/ rules'[id] = None
        BY <3>3 DEF Discard, Discarded, Without
      <4> QED BY <4>1, EnabledShrinks
    <3> QED BY <3>1, <3>2, <3>3
  <2> QED BY <1>1, <1>4, <2>1, <2>2, StillUncrossed
<1>5. \A v \in Workers : job'[v].phase = "invalidate" => job'[v].token \in rejected'
  BY <1>1, <1>3 DEF CrossInv
<1> QED BY <1>1, <1>4, <1>5 DEF CrossInv, IsInvalid

LEMMA AuthCross ==
    ASSUME CrossInv, TypeOK', NEW u \in Users,
           (\E token \in Tokens : AuthRead(u, token)) \/ AuthWrite(u) \/ Logout(u)
    PROVE  CrossInv'
<1>1. UNCHANGED <<job, cmd, rejected, straddled>>
  BY DEF AuthRead, AuthWrite, Logout, tables, tasks, history
<1>2. ASSUME NEW v \in Users \ straddled, IsInvalid(v)'
      PROVE  IsInvalid(v) /\ users'[v] = users[v]
  <2>1. CASE \E token \in Tokens : AuthRead(u, token)
    BY <1>2, <2>1 DEF AuthRead, IsInvalid, tables
  <2>2. CASE AuthWrite(u)
    <3>1. CASE v # u
      BY <1>2, <2>2, <3>1 DEF AuthWrite, IsInvalid, CrossInv, TypeOK, TablesOK
    <3>2. CASE v = u
      <4> DEFINE seen == auth[u].seen
      <4>1. users \in [Users -> UserRow \cup {None}] /\ auth[u].phase = "write"
            /\ seen \in UserRow \cup {None}
        BY <2>2 DEF AuthWrite, CrossInv, TypeOK, TablesOK, TasksOK, Auth, IdleAuth
      <4>2. IsInvalid(u) => seen # None /\ seen.status = "invalid"
        BY <1>2, <3>2, <4>1 DEF CrossInv, NothingCrosses
      <4>3. CASE users[u] = None
        BY <1>2, <2>2, <3>2, <4>1, <4>3 DEF AuthWrite, IsInvalid
      <4>4. CASE users[u] # None /\ seen = None
        <5>1. users'[u] = users[u]
          BY <2>2, <4>1, <4>4 DEF AuthWrite
        <5> QED BY <1>2, <3>2, <5>1 DEF IsInvalid
      <4>5. CASE users[u] # None /\ seen # None
        <5>1. users'[u] = SavedToken(users[u], seen, auth[u].token)
          BY <2>2, <4>1, <4>5 DEF AuthWrite
        <5>2. users[u] \in UserRow /\ seen \in UserRow
          BY <4>1, <4>5
        <5>3. users[u].status = "invalid" => seen.status = "invalid"
          BY <4>2, <4>5 DEF IsInvalid
        <5>4. users'[u].status = "valid"
          BY <5>1, <5>2, <5>3 DEF SavedToken, UserRow
        <5> QED BY <1>2, <3>2, <5>4 DEF IsInvalid
      <4> QED BY <4>3, <4>4, <4>5
    <3> QED BY <3>1, <3>2
  <2>3. CASE Logout(u)
    BY <1>2, <2>3 DEF Logout, IsInvalid, CrossInv, TypeOK, TablesOK
  <2> QED BY <2>1, <2>2, <2>3
<1>3. ASSUME NEW v \in Users \ straddled, IsInvalid(v), users'[v] = users[v]
      PROVE  NothingCrosses(v)'
  <2>1. \/ auth'[v] = auth[v]
        \/ auth'[v].phase # "write"
        \/ auth'[v].seen # None /\ auth'[v].seen.status = "invalid"
    <3>1. CASE Logout(u)
      BY <3>1 DEF Logout, tasks
    <3>2. ASSUME NEW token \in Tokens, AuthRead(u, token)
          PROVE  auth'[v] = auth[v] \/ auth'[v].seen = users[v]
      BY <3>2 DEF AuthRead, CrossInv, TypeOK, TasksOK
    <3>3. CASE AuthWrite(u)
      BY <3>3 DEF AuthWrite, CrossInv, TypeOK, TasksOK, IdleAuth
    <3> QED BY <1>3, <3>1, <3>2, <3>3 DEF IsInvalid
  <2>2. EnabledOf(v)' \subseteq EnabledOf(v)
    <3>1. \A id \in RuleIds : rules'[id] = rules[id] \/ rules'[id] = None
      BY DEF AuthRead, AuthWrite, Logout, Without, tables
    <3> QED BY <3>1, EnabledShrinks
  <2> QED BY <1>1, <1>3, <2>1, <2>2, StillUncrossed
<1> QED BY <1>1, <1>2, <1>3 DEF CrossInv

LEMMA CmdCross ==
    ASSUME CrossInv, TypeOK', NEW u \in Users,
           \/ \E kind \in CmdKinds, id \in RuleIds : CmdBegin(u, kind, id)
           \/ CmdCommit(u)
    PROVE  CrossInv'
<1>1. UNCHANGED <<users, job, auth, rejected, straddled>>
  BY DEF CmdBegin, CmdCommit, tables, history
<1>2. ASSUME NEW v \in Users \ straddled, IsInvalid(v) PROVE NothingCrosses(v)'
  <2>1. CASE CmdCommit(u)
    <3>1. cmd'[v] = cmd[v] \/ cmd'[v].kind # "resume"
      BY <2>1 DEF CmdCommit, CrossInv, TypeOK, TasksOK, IdleCmd
    <3>2. ASSUME NEW id \in RuleIds,
                 rules'[id] # None /\ rules'[id].owner = v /\ rules'[id].enabled
          PROVE  rules[id] # None /\ rules[id].owner = v /\ rules[id].enabled
      <4>1. CASE rules'[id] = rules[id]
        BY <3>2, <4>1
      <4>2. CASE rules'[id] # rules[id]
        <5>1. id \in RulesOf(u) /\ rules'[id] = SetEnabled(rules[id], cmd[u].kind)
          BY <2>1, <3>2, <4>2 DEF CmdCommit, Without
        <5>2. rules[id] \in RuleRow /\ rules[id].owner = u
          BY <5>1 DEF RulesOf, CrossInv, TypeOK, TablesOK
        <5>3. rules'[id].owner = u
              /\ (cmd[u].kind # "resume" => rules'[id].enabled = FALSE)
          BY <5>1, <5>2 DEF SetEnabled, RuleRow
        <5>4. v = u /\ cmd[u].kind = "resume"
          BY <3>2, <5>3
        <5> QED BY <1>2, <5>4 DEF CrossInv, NothingCrosses
      <4> QED BY <4>1, <4>2
    <3> QED BY <1>1, <1>2, <3>1, <3>2, EnabledShrinks, StillUncrossed
  <2>2. ASSUME NEW kind \in CmdKinds, NEW id \in RuleIds, CmdBegin(u, kind, id)
        PROVE  NothingCrosses(v)'
    <3>1. v # u
      BY <1>2, <2>2 DEF CmdBegin, IsValid, IsInvalid
    <3>2. cmd'[v] = cmd[v] /\ UNCHANGED rules
      BY <2>2, <3>1 DEF CmdBegin, tables, CrossInv, TypeOK, TasksOK
    <3> QED BY <1>1, <1>2, <3>2, StillUncrossed DEF EnabledOf, RulesOf
  <2> QED BY <2>1, <2>2
<1> QED BY <1>1, <1>2 DEF CrossInv, IsInvalid

LEMMA WorldCross ==
    ASSUME CrossInv, TypeOK',
           (\E token \in Tokens : Revoke(token)) \/ Tick \/ Crash \/ UNCHANGED vars
    PROVE  CrossInv'
<1>1. UNCHANGED <<users, rules, rejected, straddled>>
  BY DEF Revoke, Tick, Crash, tables, history, vars
<1>2. UNCHANGED <<job, auth, cmd>>
      \/ /\ \A w \in Workers : job'[w].phase = "idle"
         /\ \A u \in Users : auth'[u].phase = "idle" /\ cmd'[u].kind = "none"
  BY DEF Revoke, Tick, Crash, tasks, vars, IdleJob, IdleAuth, IdleCmd
<1>3. ASSUME NEW u \in Users \ straddled, IsInvalid(u) PROVE NothingCrosses(u)'
  <2>1. EnabledOf(u)' \subseteq EnabledOf(u)
    BY <1>1 DEF EnabledOf, RulesOf
  <2> QED BY <1>1, <1>2, <1>3, <2>1, AddIsWorker, StillUncrossed
<1> QED BY <1>1, <1>2, <1>3 DEF CrossInv, IsInvalid

LEMMA NextCross == CrossInv /\ [Next]_vars => CrossInv'
<1> SUFFICES ASSUME CrossInv, [Next]_vars PROVE CrossInv'
  OBVIOUS
<1>0. TypeOK'
  BY NextType DEF CrossInv
<1>1. CASE \E due \in SUBSET Users : StartCycle(due)
  BY <1>0, <1>1, StartCycleCross
<1>2. ASSUME NEW w \in Workers, Work(w) \/ FetchFails(w) \/ Poll(w) \/ TaskError(w)
      PROVE  CrossInv'
  BY <1>0, <1>2, WorkCross, InvalidateCross DEF Poll
<1>3. ASSUME NEW u \in Users,
             \/ AddBegin(u) \/ Add(u)
             \/ \E token \in Tokens : AuthRead(u, token)
             \/ AuthWrite(u)
             \/ Logout(u)
             \/ \E kind \in CmdKinds, id \in RuleIds : CmdBegin(u, kind, id)
             \/ CmdCommit(u)
      PROVE  CrossInv'
  BY <1>0, <1>3, AddCross, AuthCross, CmdCross DEF Add
<1>4. CASE (\E token \in Tokens : Revoke(token)) \/ Tick \/ Crash \/ UNCHANGED vars
  BY <1>0, <1>4, WorldCross
<1> QED BY <1>1, <1>2, <1>3, <1>4 DEF Next

LEMMA InitCross == Init => CrossInv
BY InitType DEF Init, CrossInv, IsInvalid, IdleJob

\* monitoring.py (_invalidate_user): unless a command or an /auth crossed the
\* invalidation, an invalid user has no running rule ...
THEOREM UncrossedArePaused == Spec => []InvalidMeansPausedUncrossed
<1>1. CrossInv => InvalidMeansPausedUncrossed
  BY DEF CrossInv, InvalidMeansPausedUncrossed, IsInvalid, NothingCrosses
<1> QED BY <1>1, InitCross, NextCross, PTL DEF Spec

\* ... and its stored token is one the API did refuse.
THEOREM UncrossedWereRejected == Spec => []InvalidMeansRejectedUncrossed
<1>1. CrossInv => InvalidMeansRejectedUncrossed
  BY DEF CrossInv, InvalidMeansRejectedUncrossed, IsInvalid, NothingCrosses
<1> QED BY <1>1, InitCross, NextCross, PTL DEF Spec

-----------------------------------------------------------------------------
(***************************************************************************)
(* CooldownHolds.  While a rule exists, its last_triggered_at is not       *)
(* before any of its alerts; when it is gone its id is not given again, so *)
(* that no later alert can follow them too soon.                           *)
(***************************************************************************)
LastRemembered ==
    \A n \in 1..Len(notes) :
        LET row == rules[notes[n].rule]
        IN  row # None => row.last # None /\ notes[n].at <= row.last

IdsAreFresh ==
    /\ \A id \in RuleIds : rules[id] # None => id < nextId
    /\ \A n \in 1..Len(notes) : notes[n].rule < nextId

CoolInv == TypeOK /\ CooldownHolds /\ LastRemembered /\ IdsAreFresh

LEMMA NoteTypes ==
    ASSUME TypeOK, NEW n \in 1..Len(notes)
    PROVE  /\ notes[n] \in Note /\ notes[n].rule \in RuleIds /\ notes[n].at \in Nat
           /\ Len(notes) \in Nat
<1>1. notes[n] \in Note
  BY ElementOfSeq DEF TypeOK, TablesOK
<1> QED BY <1>1, LenProperties DEF Note, TypeOK, TablesOK

\* Steps that add no rule and no alert and leave the times alone.
LEMMA KeptCool ==
    ASSUME CoolInv, TypeOK', nextId' = nextId, Len(notes') = Len(notes),
           \A n \in 1..Len(notes) : notes'[n].rule = notes[n].rule /\ notes'[n].at = notes[n].at,
           \A id \in RuleIds : rules'[id] # None
                               => rules[id] # None /\ rules'[id].last = rules[id].last
    PROVE  CoolInv'
<1>1. CooldownHolds'
  BY DEF CoolInv, CooldownHolds
<1>2. LastRemembered'
  BY NoteTypes DEF CoolInv, LastRemembered
<1>3. IdsAreFresh'
  BY DEF CoolInv, IdsAreFresh
<1> QED BY <1>1, <1>2, <1>3 DEF CoolInv

LEMMA UntouchedCool ==
    ASSUME CoolInv, TypeOK', UNCHANGED <<rules, nextId, notes>>
    PROVE  CoolInv'
BY KeptCool

\* Deleting a rule leaves its notes their rule and their time.
LEMMA DeletedNotes ==
    ASSUME TypeOK, NEW ids, notes' = NotesWithout(ids)
    PROVE  /\ Len(notes') = Len(notes)
           /\ \A n \in 1..Len(notes) :
                 notes'[n].rule = notes[n].rule /\ notes'[n].at = notes[n].at
<1>1. Len(notes') = Len(notes)
  BY WithoutType DEF TypeOK
<1>2. ASSUME NEW n \in 1..Len(notes)
      PROVE  notes'[n].rule = notes[n].rule /\ notes'[n].at = notes[n].at
  <2>1. notes[n] \in Note
    BY NoteTypes
  <2>2. notes'[n] = IF notes[n].rule \in ids THEN [notes[n] EXCEPT !.row = "deleted"]
                    ELSE notes[n]
    BY DEF NotesWithout
  <2> QED BY <2>1, <2>2 DEF Note
<1> QED BY <1>1, <1>2

LEMMA DeletedCool ==
    ASSUME CoolInv, TypeOK', NEW ids, rules' = Without(ids), notes' = NotesWithout(ids),
           nextId' = nextId
    PROVE  CoolInv'
<1>1. ASSUME NEW id \in RuleIds, rules'[id] # None
      PROVE  rules[id] # None /\ rules'[id].last = rules[id].last
  BY <1>1 DEF Without
<1> QED BY <1>1, DeletedNotes, KeptCool DEF CoolInv

LEMMA ProcessCool ==
    ASSUME CoolInv, TypeOK', NEW w \in Workers, Process(w)
    PROVE  CoolInv'
<1>1. CASE users[Owner(w)] = None
  BY <1>1, UntouchedCool DEF Process
<1>2. CASE users[Owner(w)] # None
  <2> DEFINE at == job[w].at
             old == Len(notes)
  <2>1. PICK order \in Orders(Triggered(w)) : notes' = notes \o NewNotes(w, order)
    BY <1>2 DEF Process, NewNotes
  <2>2. PICK k \in Nat : /\ order \in [1..k -> Triggered(w)]
                         /\ \A i, j \in 1..k : order[i] = order[j] => i = j
                         /\ NewNotes(w, order) \in Seq(Note)
                         /\ Len(NewNotes(w, order)) = k
    BY NewNotesType DEF CoolInv
  <2>3. notes \in Seq(Note) /\ old \in Nat /\ at \in Nat
    BY LenProperties DEF CoolInv, TypeOK, TablesOK, TasksOK, Job
  <2>4. /\ Len(notes') = old + k
        /\ \A n \in 1..old + k :
              notes'[n] = IF n <= old THEN notes[n] ELSE NewNotes(w, order)[n - old]
    BY <2>1, <2>2, <2>3, ConcatProperties
  <2>5. ASSUME NEW n \in 1..old PROVE n \in 1..old + k /\ notes'[n] = notes[n]
    BY <2>2, <2>3, <2>4
  <2>6. ASSUME NEW n \in 1..old + k, n > old
        PROVE  /\ n - old \in 1..k
               /\ notes'[n].rule = order[n - old]
               /\ notes'[n].at = at
               /\ order[n - old] \in Triggered(w)
    <3>1. n - old \in 1..k
      BY <2>2, <2>3, <2>6
    <3>2. notes'[n] = NewNotes(w, order)[n - old]
      BY <2>3, <2>4, <2>6
    <3> QED BY <2>2, <3>1, <3>2 DEF NewNotes
  <2>7. rules' = [id \in RuleIds |->
                     IF id \in Processed(w)
                     THEN ProcessedRow(rules[id], Evaluated(w, id), at)
                     ELSE rules[id]]
        /\ nextId' = nextId
    BY <1>2 DEF Process
  <2>8. ASSUME NEW id \in Triggered(w)
        PROVE  /\ id \in RuleIds /\ rules[id] # None
               /\ rules[id].last = None \/ (rules[id].last \in Nat /\ at >= rules[id].last + Cooldown)
               /\ rules'[id].last = at
    <3>1. id \in Processed(w) /\ Evaluated(w, id).triggered
      BY DEF Triggered
    <3>2. id \in RuleIds /\ rules[id] \in RuleRow
      BY <3>1, ProcessedType DEF CoolInv
    <3>3. job[w].price \in Int \cup {None} /\ IsPoll(w) \in BOOLEAN
      BY DEF CoolInv, TypeOK, TasksOK, Job, IsPoll
    <3>4. rules[id].last = None \/ at >= rules[id].last + Cooldown
      BY <2>3, <3>1, <3>2, <3>3, EvaluateTriggers DEF Evaluated
    <3>5. rules'[id].last = at
      BY <2>7, <3>1, <3>2 DEF ProcessedRow, RuleRow
    <3> QED BY <3>2, <3>4, <3>5, NoRowAssumption DEF RuleRow
  <2>9. ASSUME NEW id \in RuleIds, id \notin Triggered(w)
        PROVE  /\ rules'[id] # None => rules[id] # None /\ rules'[id].last = rules[id].last
    <3>1. CASE id \in Processed(w)
      <4>1. rules[id] \in RuleRow /\ Evaluated(w, id).triggered = FALSE
        BY <2>9, <3>1, ProcessedType DEF CoolInv, Triggered
      <4> QED BY <2>7, <3>1, <4>1, NoRowAssumption DEF ProcessedRow, RuleRow
    <3>2. CASE id \notin Processed(w)
      BY <2>7, <3>2
    <3> QED BY <3>1, <3>2
  <2>10. ASSUME NEW n \in 1..old, notes[n].rule \in Triggered(w)
         PROVE  at >= notes[n].at + Cooldown
    <3>1. rules[notes[n].rule] # None
      BY <2>8, <2>10
    <3>2. /\ rules[notes[n].rule].last # None
          /\ notes[n].at <= rules[notes[n].rule].last
      BY <3>1 DEF CoolInv, LastRemembered
    <3>3. notes[n].at \in Nat /\ Cooldown \in Nat
      BY NoteTypes, ParametersAssumption DEF CoolInv
    <3> QED BY <2>3, <2>8, <2>10, <3>2, <3>3
  <2>11. CooldownHolds'
    <3> SUFFICES ASSUME NEW m \in 1..old + k, NEW n \in 1..old + k, m < n,
                        notes'[m].rule = notes'[n].rule
                 PROVE  notes'[n].at >= notes'[m].at + Cooldown
      BY <2>4 DEF CooldownHolds
    <3>1. CASE n <= old
      <4>1. m \in 1..old /\ n \in 1..old
        BY <2>2, <2>3, <3>1
      <4>2. notes'[m] = notes[m] /\ notes'[n] = notes[n]
        BY <2>5, <4>1
      <4> QED BY <4>1, <4>2 DEF CoolInv, CooldownHolds
    <3>2. CASE n > old /\ m <= old
      <4>1. m \in 1..old
        BY <2>3, <3>2
      <4>2. notes[m].rule \in Triggered(w) /\ notes'[m] = notes[m] /\ notes'[n].at = at
        BY <2>5, <2>6, <3>2, <4>1
      <4> QED BY <2>10, <4>1, <4>2
    <3>3. CASE n > old /\ m > old
      <4>1. order[m - old] = order[n - old] /\ m - old \in 1..k /\ n - old \in 1..k
        BY <2>6, <3>3
      <4>2. m - old = n - old
        BY <2>2, <4>1
      <4> QED BY <2>3, <4>2
    <3> QED BY <2>2, <2>3, <3>1, <3>2, <3>3
  <2>12. LastRemembered'
    <3> SUFFICES ASSUME NEW n \in 1..old + k, rules'[notes'[n].rule] # None
                 PROVE  /\ rules'[notes'[n].rule].last # None
                        /\ notes'[n].at <= rules'[notes'[n].rule].last
      BY <2>4 DEF LastRemembered
    <3>1. CASE n > old
      <4>1. notes'[n].rule \in Triggered(w) /\ notes'[n].at = at
        BY <2>6, <3>1
      <4> QED BY <2>3, <2>8, <4>1, NoneAssumption
    <3>2. CASE n <= old
      <4>1. n \in 1..old /\ notes'[n] = notes[n]
        BY <2>3, <2>5, <3>2
      <4>2. notes[n].rule \in RuleIds /\ notes[n].at \in Nat /\ Cooldown \in Nat
        BY <4>1, NoteTypes, ParametersAssumption DEF CoolInv
      <4>3. CASE notes[n].rule \in Triggered(w)
        <5>1. rules'[notes[n].rule].last = at
          BY <2>8, <4>3
        <5>2. at >= notes[n].at + Cooldown
          BY <2>10, <4>1, <4>3
        <5> QED BY <2>3, <4>1, <4>2, <5>1, <5>2, NoneAssumption
      <4>4. CASE notes[n].rule \notin Triggered(w)
        <5>1. rules[notes[n].rule] # None
              /\ rules'[notes[n].rule].last = rules[notes[n].rule].last
          BY <2>9, <4>1, <4>2, <4>4
        <5> QED BY <4>1, <5>1 DEF CoolInv, LastRemembered
      <4> QED BY <4>3, <4>4
    <3> QED BY <2>2, <2>3, <3>1, <3>2
  <2>13. IdsAreFresh'
    <3>1. ASSUME NEW id \in RuleIds, rules'[id] # None PROVE id < nextId'
      BY <2>7, <2>8, <2>9, <3>1 DEF CoolInv, IdsAreFresh
    <3>2. ASSUME NEW n \in 1..old + k PROVE notes'[n].rule < nextId'
      <4>1. CASE n > old
        BY <2>6, <2>7, <2>8, <4>1 DEF CoolInv, IdsAreFresh
      <4>2. CASE n <= old
        <5>1. n \in 1..old /\ notes'[n] = notes[n]
          BY <2>3, <2>5, <4>2
        <5> QED BY <2>7, <5>1 DEF CoolInv, IdsAreFresh
      <4> QED BY <2>2, <2>3, <4>1, <4>2
    <3> QED BY <2>4, <3>1, <3>2 DEF IdsAreFresh
  <2> QED BY <2>11, <2>12, <2>13 DEF CoolInv
<1> QED BY <1>1, <1>2

\* So does telling it and recording the outcome.
LEMMA DeliveredNotes ==
    ASSUME TypeOK, TypeOK', NEW w \in Workers,
           Record(w) \/ \E outcome \in Outcomes : Deliver(w, outcome)
    PROVE  /\ Len(notes') = Len(notes)
           /\ \A n \in 1..Len(notes) :
                 notes'[n].rule = notes[n].rule /\ notes'[n].at = notes[n].at
<1> DEFINE i == Head(job[w].events)
<1>1. DOMAIN notes = 1..Len(notes) /\ notes \in Seq(Note) /\ notes' \in Seq(Note)
  BY LenProperties DEF TypeOK, TablesOK
<1>2. \/ notes' = notes
      \/ notes' = [notes EXCEPT ![i].dms = @ + 1]
      \/ notes' = [notes EXCEPT ![i].row = OutcomeOf(job[w])]
  BY DEF Record, Deliver
<1>3. Len(notes') = Len(notes)
  BY <1>1, <1>2, LenProperties
<1>4. ASSUME NEW n \in 1..Len(notes)
      PROVE  notes'[n].rule = notes[n].rule /\ notes'[n].at = notes[n].at
  <2>1. notes[n] \in Note
    BY NoteTypes
  <2>2. \/ notes'[n] = notes[n]
        \/ notes'[n] = [notes[n] EXCEPT !.dms = @ + 1]
        \/ notes'[n] = [notes[n] EXCEPT !.row = OutcomeOf(job[w])]
    BY <1>1, <1>2
  <2> QED BY <2>1, <2>2 DEF Note
<1> QED BY <1>3, <1>4

LEMMA DeliveryCool ==
    ASSUME CoolInv, TypeOK', NEW w \in Workers,
           Record(w) \/ \E outcome \in Outcomes : Deliver(w, outcome)
    PROVE  CoolInv'
<1>1. UNCHANGED <<rules, nextId>>
  BY DEF Record, Deliver
<1> QED BY <1>1, DeliveredNotes, KeptCool DEF CoolInv

\* Pausing and resuming leave last_triggered_at alone.
LEMMA EnablingCool ==
    ASSUME CoolInv, TypeOK',
           \/ \E w \in Workers : Invalidate(w)
           \/ \E u \in Users : CmdCommit(u) /\ cmd[u].kind # "delete"
    PROVE  CoolInv'
<1>1. UNCHANGED <<nextId, notes>>
  BY DEF Invalidate, CmdCommit
<1>2. ASSUME NEW id \in RuleIds, rules'[id] # None
      PROVE  rules[id] # None /\ rules'[id].last = rules[id].last
  <2>1. \/ rules'[id] = rules[id]
        \/ rules[id] # None /\ rules'[id] = PausedByInvalidation(rules[id])
        \/ rules[id] # None /\ \E u \in Users : rules'[id] = SetEnabled(rules[id], cmd[u].kind)
    BY DEF Invalidate, CmdCommit, RulesOf
  <2>2. rules[id] \in RuleRow \cup {None}
    BY DEF CoolInv, TypeOK, TablesOK
  <2>3. ASSUME NEW row \in RuleRow, NEW kind
        PROVE  PausedByInvalidation(row).last = row.last /\ SetEnabled(row, kind).last = row.last
    BY DEF PausedByInvalidation, SetEnabled, RuleRow
  <2> QED BY <1>2, <2>1, <2>2, <2>3
<1> QED BY <1>1, <1>2, KeptCool

LEMMA InsertCool ==
    ASSUME CoolInv, TypeOK', NEW u \in Users, NEW item \in Items, AddInsert(u, item)
    PROVE  CoolInv'
<1>1. CASE users[u] = None
  BY <1>1, UntouchedCool DEF AddInsert
<1>2. CASE users[u] # None
  <2>1. /\ rules' = [rules EXCEPT ![nextId] = NewRule(u, item)]
        /\ nextId' = nextId + 1 /\ notes' = notes
        /\ nextId \in Nat /\ rules \in [RuleIds -> RuleRow \cup {None}]
    BY <1>2 DEF AddInsert, CoolInv, TypeOK, TablesOK
  <2>2. ASSUME NEW n \in 1..Len(notes)
        PROVE  notes[n].rule \in RuleIds /\ notes[n].rule # nextId /\ notes[n].rule < nextId + 1
    <3>1. notes[n].rule \in RuleIds /\ notes[n].rule < nextId
      BY NoteTypes DEF CoolInv, IdsAreFresh
    <3> QED BY <2>1, <3>1, ParametersAssumption DEF RuleIds
  <2>3. CooldownHolds'
    BY <2>1 DEF CoolInv, CooldownHolds
  <2>4. LastRemembered'
    BY <2>1, <2>2 DEF CoolInv, LastRemembered
  <2>5. ASSUME NEW id \in RuleIds, rules'[id] # None PROVE id < nextId'
    <3>1. CASE id = nextId
      BY <2>1, <3>1
    <3>2. CASE id # nextId
      <4>1. rules[id] # None
        BY <2>1, <2>5, <3>2
      <4>2. id < nextId
        BY <4>1 DEF CoolInv, IdsAreFresh
      <4> QED BY <2>1, <4>2, ParametersAssumption DEF RuleIds
    <3> QED BY <3>1, <3>2
  <2>6. IdsAreFresh'
    BY <2>1, <2>2, <2>5 DEF IdsAreFresh
  <2> QED BY <2>3, <2>4, <2>6 DEF CoolInv
<1> QED BY <1>1, <1>2

LEMMA NextCool == CoolInv /\ [Next]_vars => CoolInv'
<1> SUFFICES ASSUME CoolInv, [Next]_vars PROVE CoolInv'
  OBVIOUS
<1>0. TypeOK'
  BY NextType DEF CoolInv
<1>1. CASE \E due \in SUBSET Users : StartCycle(due)
  BY <1>0, <1>1, UntouchedCool DEF StartCycle, tables
<1>2. ASSUME NEW w \in Workers, Work(w) \/ FetchFails(w) \/ Poll(w) \/ TaskError(w)
      PROVE  CoolInv'
  <2>1. CASE \/ \E price \in Prices \cup {None} : FetchOk(w, price)
             \/ FetchFails(w) \/ FetchRejected(w) \/ ReauthDm(w) \/ TaskError(w)
    BY <1>0, <2>1, UntouchedCool
    DEF FetchOk, FetchFails, FetchRejected, ReauthDm, TaskError, tables
  <2> QED BY <1>0, <1>2, <2>1, ProcessCool, DeliveryCool, EnablingCool DEF Work, Poll
<1>3. ASSUME NEW u \in Users,
             \/ AddBegin(u) \/ AuthWrite(u)
             \/ \E token \in Tokens : AuthRead(u, token)
             \/ \E kind \in CmdKinds, id \in RuleIds : CmdBegin(u, kind, id)
      PROVE  CoolInv'
  BY <1>0, <1>3, UntouchedCool DEF AddBegin, AuthRead, AuthWrite, CmdBegin, tables
<1>4. ASSUME NEW u \in Users, Discard(u) \/ Logout(u) \/ CmdCommit(u) PROVE CoolInv'
  <2>1. CASE Discard(u) \/ Logout(u)
    BY <1>0, <2>1, DeletedCool DEF Discard, Discarded, Logout
  <2>2. CASE CmdCommit(u) /\ cmd[u].kind = "delete"
    BY <1>0, <2>2, DeletedCool DEF CmdCommit
  <2> QED BY <1>0, <1>4, <2>1, <2>2, EnablingCool
<1>5. CASE (\E token \in Tokens : Revoke(token)) \/ Tick \/ Crash \/ UNCHANGED vars
  BY <1>0, <1>5, UntouchedCool DEF Revoke, Tick, Crash, vars, tables
<1>6. ASSUME NEW u \in Users, NEW item \in Items, AddInsert(u, item) PROVE CoolInv'
  BY <1>0, <1>6, InsertCool
<1> QED BY <1>1, <1>2, <1>3, <1>4, <1>5, <1>6 DEF Next, Add

LEMMA InitCool == Init => CoolInv
BY InitType, EmptySeq DEF Init, CoolInv, CooldownHolds, LastRemembered, IdsAreFresh

\* services.py (process), evaluator.py: two alerts of a rule are a cooldown
\* apart, whatever the order in which polls and first checks apply snapshots.
THEOREM CooldownAlwaysHolds == Spec => []CooldownHolds
<1>1. CoolInv => CooldownHolds
  BY DEF CoolInv
<1> QED BY <1>1, InitCool, NextCool, PTL DEF Spec

-----------------------------------------------------------------------------
(***************************************************************************)
(* EveryGate: the machinery of polls, first checks, commands and crashes   *)
(* implements AlertGate for every rule.  Only Process makes alerts, and it *)
(* makes at most one of a rule in a step; the other steps leave rule and   *)
(* time of every note alone and can only open or shut a gate.              *)
(***************************************************************************)
\* No snapshot comes from the future.
SnapshotsArePast ==
    \A w \in Workers : job[w].phase = "process" => job[w].at <= clock

GateInv == CoolInv /\ SnapshotsArePast

\* A set of naturals that is not empty has a least element.
LEMMA LeastNatural ==
    ASSUME NEW T \in SUBSET Nat, T # {}
    PROVE  \E x \in T : \A y \in T : x <= y
<1> DEFINE R == OpToRel(<, Nat)
<1>1. IsWellFoundedOn(R, Nat)
  BY NatLessThanWellFounded, Zenon
<1>2. \A x, y \in Nat : <<x, y>> \in R <=> x < y
  BY DEF OpToRel
<1> HIDE DEF R
<1>3. PICK x \in T : \A y \in T : <<y, x>> \notin R
  BY <1>1, WFMin
<1>4. ASSUME NEW y \in T PROVE x <= y
  <2>1. x \in Nat /\ y \in Nat /\ ~(y < x)
    BY <1>2, <1>3
  <2> QED BY <2>1
<1> QED BY <1>4

\* A bounded set of numbers that is not empty has a greatest element.
LEMMA GreatestElement ==
    ASSUME NEW N \in Nat, NEW A \in SUBSET (1..N), A # {}
    PROVE  \E b \in A : \A m \in A : m <= b
<1> DEFINE T == {b \in Nat : \A m \in A : m <= b}
<1>1. N \in T
  OBVIOUS
<1>2. PICK b \in T : \A c \in T : b <= c
  BY <1>1, LeastNatural
<1>3. b \in A
  <2> SUFFICES ASSUME b \notin A PROVE FALSE
    OBVIOUS
  <2>1. ASSUME NEW m \in A PROVE m \in Nat /\ m >= 1 /\ m <= b - 1
    <3>1. m \in 1..N /\ m <= b /\ m # b /\ b \in Nat
      BY <1>2
    <3> QED BY <3>1
  <2>2. b - 1 \in Nat
    <3>1. PICK m \in A : m \in Nat /\ m >= 1 /\ m <= b - 1
      BY <2>1
    <3> QED BY <1>2, <3>1
  <2>3. b - 1 \in T
    BY <2>1, <2>2
  <2> QED BY <1>2, <2>3
<1> QED BY <1>2, <1>3

\* The latest alert of a rule that has one is an alert of it, and none follows.
LEMMA LatestIsLast ==
    ASSUME TypeOK, NEW id, AlertsOf(id) # {}
    PROVE  LatestOf(id) \in AlertsOf(id) /\ \A m \in AlertsOf(id) : m <= LatestOf(id)
<1>1. Len(notes) \in Nat /\ AlertsOf(id) \subseteq 1..Len(notes)
  BY LenProperties DEF TypeOK, TablesOK, AlertsOf
<1> QED BY <1>1, GreatestElement DEF LatestOf

\* An alert takes the state from one that may trigger to the one that cannot.
LEMMA EvaluateSpends ==
    ASSUME NEW row \in RuleRow, NEW price \in Int \cup {None}, NEW at \in Nat,
           NEW initial \in BOOLEAN,
           Evaluate(Columns(row), price, at, initial).triggered
    PROVE  /\ row.state \in {"unknown", "above_threshold"}
           /\ Evaluate(Columns(row), price, at, initial).state = "below_threshold"
<1>1. /\ Columns(row).condition = "price_down"
      /\ Columns(row).current_state = row.state
      /\ Columns(row).threshold = Threshold
  BY DEF Columns
<1>2. row.state \in RuleStates
  BY DEF RuleRow
<1> QED BY <1>1, <1>2 DEF Evaluate, Evaluation, Hit, Miss, RuleStates

\* Steps that make no alert of a rule: at most its gate opens or shuts.
LEMMA QuietGate ==
    ASSUME TypeOK, clock' = clock, NEW id \in RuleIds, AlertsOf(id)' = AlertsOf(id),
           \A n \in 1..Len(notes) : notes'[n].at = notes[n].at
    PROVE  [Gate(id)!Next]_(Gate(id)!vars)
<1> DEFINE last == IF AlertsOf(id) = {} THEN 0 ELSE notes[LatestOf(id)].at
<1>1. LatestOf(id)' = LatestOf(id)
  BY DEF LatestOf
<1>2. Cardinality(AlertsOf(id))' = Cardinality(AlertsOf(id))
  OBVIOUS
<1>3. last' = last
  BY <1>1, LatestIsLast DEF AlertsOf
<1> HIDE DEF last
<1>4. Armed(id) \in BOOLEAN /\ Armed(id)' \in BOOLEAN
  BY DEF Armed
<1>5. CASE Armed(id)' = Armed(id)
  BY <1>2, <1>3, <1>5 DEF Gate!vars, last
<1>6. CASE ~Armed(id) /\ Armed(id)' = TRUE
  BY <1>2, <1>3, <1>6 DEF Gate!Next, Gate!Open, last
<1>7. CASE Armed(id) /\ Armed(id)' = FALSE
  BY <1>2, <1>3, <1>7 DEF Gate!Next, Gate!Shut, last
<1> QED BY <1>4, <1>5, <1>6, <1>7

\* Steps that add no note and leave rule and time of each.
LEMMA KeptGate ==
    ASSUME TypeOK, clock' = clock, Len(notes') = Len(notes), NEW id \in RuleIds,
           \A n \in 1..Len(notes) : notes'[n].rule = notes[n].rule /\ notes'[n].at = notes[n].at
    PROVE  [Gate(id)!Next]_(Gate(id)!vars)
<1>1. AlertsOf(id)' = AlertsOf(id)
  BY DEF AlertsOf
<1> QED BY <1>1, QuietGate

\* An order of a finite set names each of its elements once.
LEMMA OrdersAreOnto ==
    ASSUME NEW S, IsFiniteSet(S), NEW order \in Orders(S), NEW x \in S
    PROVE  \E i \in 1..Cardinality(S) : order[i] = x
<1> DEFINE k == Cardinality(S)
<1>1. k \in Nat
  BY FS_CardinalityType
<1>2. IsFiniteSet(1..k) /\ Cardinality(1..k) = k
  BY <1>1, FS_Interval
<1>3. order \in Injection(1..k, S)
  BY DEF Orders, Injection, IsInjective
<1>4. order \in Surjection(1..k, S)
  BY <1>2, <1>3, FS_Injection
<1> QED BY <1>4 DEF Surjection

\* What one transaction does to the notes of a rule: exactly one more of a rule
\* that is triggered, at the time of the snapshot, and none of another.
LEMMA ProcessNotes ==
    ASSUME TypeOK, TypeOK', NEW w \in Workers, Process(w), users[Owner(w)] # None,
           NEW id \in RuleIds
    PROVE  /\ \A n \in 1..Len(notes) : n \in 1..Len(notes') /\ notes'[n] = notes[n]
           /\ id \in Triggered(w) =>
                 \E n \in 1..Len(notes') :
                    /\ n > Len(notes) /\ notes'[n].at = job[w].at
                    /\ AlertsOf(id)' = AlertsOf(id) \cup {n}
           /\ id \notin Triggered(w) => AlertsOf(id)' = AlertsOf(id)
<1> DEFINE old == Len(notes)
           k == Cardinality(Triggered(w))
<1>1. PICK order \in Orders(Triggered(w)) : notes' = notes \o NewNotes(w, order)
  BY DEF Process, NewNotes
<1>2. IsFiniteSet(Triggered(w)) /\ k \in Nat
  <2>1. Triggered(w) \subseteq RuleIds
    BY DEF Triggered, Processed, EnabledOf, RulesOf
  <2>2. IsFiniteSet(RuleIds)
    BY FS_Interval, ParametersAssumption DEF RuleIds
  <2> QED BY <2>1, <2>2, FS_Subset, FS_CardinalityType
<1>3. /\ order \in [1..k -> Triggered(w)]
      /\ \A i, j \in 1..k : order[i] = order[j] => i = j
  BY DEF Orders
<1>4. NewNotes(w, order) \in Seq(Note) /\ notes \in Seq(Note) /\ old \in Nat
  BY NewNotesType, LenProperties DEF TypeOK, TablesOK
<1>5. Len(NewNotes(w, order)) = k
  BY <1>2, <1>3, <1>4, LenProperties DEF NewNotes
<1>6. /\ Len(notes') = old + k
      /\ \A n \in 1..old + k :
            notes'[n] = IF n <= old THEN notes[n] ELSE NewNotes(w, order)[n - old]
  BY <1>1, <1>4, <1>5, ConcatProperties
<1>7. ASSUME NEW n \in 1..old PROVE n \in 1..old + k /\ notes'[n] = notes[n]
  BY <1>2, <1>4, <1>6
<1>8. ASSUME NEW i \in 1..k
      PROVE  /\ old + i \in 1..old + k /\ old + i > old
             /\ notes'[old + i].rule = order[i] /\ notes'[old + i].at = job[w].at
  <2>1. old + i \in 1..old + k /\ old + i > old /\ (old + i) - old = i
    BY <1>2, <1>4
  <2>2. notes'[old + i] = NewNotes(w, order)[i]
    BY <1>6, <2>1
  <2> QED BY <1>3, <2>1, <2>2 DEF NewNotes
<1>9. ASSUME NEW n \in 1..old + k, n > old
      PROVE  \E i \in 1..k : n = old + i
  <2>1. n - old \in 1..k /\ n = old + (n - old)
    BY <1>2, <1>4, <1>9
  <2> QED BY <2>1
<1> HIDE DEF old, k
<1>10. ASSUME id \in Triggered(w)
       PROVE  \E n \in 1..old + k : /\ n > old /\ notes'[n].at = job[w].at
                                    /\ AlertsOf(id)' = AlertsOf(id) \cup {n}
  <2>1. PICK i \in 1..k : order[i] = id
    BY <1>2, <1>10, OrdersAreOnto DEF k
  <2>2. /\ old + i \in 1..old + k /\ old + i > old
        /\ notes'[old + i].rule = id /\ notes'[old + i].at = job[w].at
    BY <1>8, <2>1
  <2>3. ASSUME NEW n \in 1..old + k, n > old, notes'[n].rule = id PROVE n = old + i
    <3>1. PICK j \in 1..k : n = old + j
      BY <1>9, <2>3
    <3>2. order[j] = order[i]
      BY <1>8, <2>1, <2>3, <3>1
    <3> QED BY <1>3, <3>1, <3>2
  <2>4. AlertsOf(id)' = AlertsOf(id) \cup {old + i}
    <3>1. AlertsOf(id)' = {n \in 1..old + k : notes'[n].rule = id}
      BY <1>6 DEF AlertsOf
    <3>2. AlertsOf(id) = {n \in 1..old : notes[n].rule = id}
      BY DEF AlertsOf, old
    <3>3. ASSUME NEW n \in 1..old + k
          PROVE  notes'[n].rule = id <=> n \in AlertsOf(id) \cup {old + i}
      <4>1. CASE n > old
        <5>1. n \notin AlertsOf(id)
          BY <1>4, <3>2, <4>1 DEF old
        <5> QED BY <2>2, <2>3, <4>1, <5>1
      <4>2. CASE ~(n > old)
        <5>1. n \in 1..old /\ n # old + i
          BY <1>2, <1>4, <2>2, <4>2 DEF old
        <5> QED BY <1>7, <3>2, <5>1
      <4> QED BY <4>1, <4>2
    <3>4. AlertsOf(id) \cup {old + i} \subseteq 1..old + k
      BY <1>7, <2>2, <3>2
    <3> QED BY <3>1, <3>3, <3>4
  <2> QED BY <2>2, <2>4
<1>11. ASSUME id \notin Triggered(w) PROVE AlertsOf(id)' = AlertsOf(id)
  <2>1. AlertsOf(id)' = {n \in 1..old + k : notes'[n].rule = id}
    BY <1>6 DEF AlertsOf
  <2>2. AlertsOf(id) = {n \in 1..old : notes[n].rule = id}
    BY DEF AlertsOf, old
  <2>3. ASSUME NEW n \in 1..old + k
        PROVE  notes'[n].rule = id <=> n \in AlertsOf(id)
    <3>1. CASE n > old
      <4>1. PICK i \in 1..k : n = old + i
        BY <1>9, <3>1
      <4>2. notes'[n].rule \in Triggered(w)
        BY <1>3, <1>8, <4>1
      <4>3. n \notin 1..old
        BY <1>4, <3>1 DEF old
      <4> QED BY <1>11, <2>2, <4>2, <4>3
    <3>2. CASE ~(n > old)
      <4>1. n \in 1..old
        BY <1>2, <1>4, <3>2 DEF old
      <4> QED BY <1>7, <2>2, <4>1
    <3> QED BY <3>1, <3>2
  <2>4. AlertsOf(id) \subseteq 1..old + k
    BY <1>7, <2>2
  <2> QED BY <2>1, <2>3, <2>4
<1>12. Len(notes') = old + k /\ Len(notes) = old
  BY <1>6 DEF old
<1> QED BY <1>7, <1>10, <1>11, <1>12

\* A triggered rule passes its gate and shuts it behind itself.
LEMMA TriggeredGate ==
    ASSUME GateInv, TypeOK', NEW w \in Workers, Process(w), users[Owner(w)] # None,
           NEW id \in Triggered(w)
    PROVE  Gate(id)!Next
<1> DEFINE at == job[w].at
           last == IF AlertsOf(id) = {} THEN 0 ELSE notes[LatestOf(id)].at
<1>1. /\ id \in Processed(w) /\ id \in RuleIds
      /\ rules[id] \in RuleRow /\ rules[id] # None
      /\ Evaluated(w, id).triggered
  BY ProcessedType, NoRowAssumption DEF Triggered, GateInv, CoolInv
<1>2. at \in Nat /\ job[w].price \in Int \cup {None} /\ IsPoll(w) \in BOOLEAN
  BY DEF GateInv, CoolInv, TypeOK, TasksOK, Job, IsPoll
<1>3. at \in 0..clock
  <2>1. job[w].phase = "process" /\ clock \in Nat
    BY DEF Process, GateInv, CoolInv, TypeOK
  <2> QED BY <1>2, <2>1 DEF GateInv, SnapshotsArePast
<1>4. /\ rules[id].state \in {"unknown", "above_threshold"}
      /\ Evaluated(w, id).state = "below_threshold"
  BY <1>1, <1>2, EvaluateSpends DEF Evaluated
<1>5. rules[id].last = None \/ at >= rules[id].last + Cooldown
  BY <1>1, <1>2, EvaluateTriggers DEF Evaluated
<1>6. rules'[id] = ProcessedRow(rules[id], Evaluated(w, id), at)
  BY <1>1 DEF Process
<1>7. rules'[id] # None /\ rules'[id].state = "below_threshold"
  BY <1>1, <1>4, <1>6, ProcessedType, NoRowAssumption
     DEF ProcessedRow, RuleRow, GateInv, CoolInv
<1>8. Armed(id) = TRUE /\ Armed(id)' = FALSE
  BY <1>1, <1>4, <1>7 DEF Armed, Miss
<1>9. PICK n \in 1..Len(notes') : /\ n > Len(notes) /\ notes'[n].at = at
                                  /\ AlertsOf(id)' = AlertsOf(id) \cup {n}
  BY <1>1, ProcessNotes DEF GateInv, CoolInv
<1>10. /\ Len(notes) \in Nat /\ AlertsOf(id) \subseteq 1..Len(notes)
       /\ IsFiniteSet(AlertsOf(id))
  <2>1. Len(notes) \in Nat /\ AlertsOf(id) \subseteq 1..Len(notes)
    BY LenProperties DEF AlertsOf, GateInv, CoolInv, TypeOK, TablesOK
  <2>2. IsFiniteSet(1..Len(notes))
    BY <2>1, FS_Interval
  <2> QED BY <2>1, <2>2, FS_Subset
<1>11. n \notin AlertsOf(id)
  BY <1>9, <1>10
<1>12. Cardinality(AlertsOf(id))' = Cardinality(AlertsOf(id)) + 1
  BY <1>9, <1>10, <1>11, FS_AddElement
<1>13. LatestOf(id)' = n
  <2>1. AlertsOf(id)' # {}
    BY <1>9
  <2>2. Len(notes') \in Nat /\ AlertsOf(id)' \subseteq 1..Len(notes')
    BY LenProperties DEF AlertsOf, TypeOK, TablesOK
  <2>3. /\ LatestOf(id)' \in AlertsOf(id)'
        /\ \A m \in AlertsOf(id)' : m <= LatestOf(id)'
    BY <2>1, <2>2, GreatestElement DEF LatestOf
  <2> QED BY <1>9, <1>10, <2>3
<1>14. last' = at
  BY <1>9, <1>13
<1>15. Cardinality(AlertsOf(id)) = 0 \/ at >= last + Cooldown
  <2>1. CASE AlertsOf(id) = {}
    BY <2>1, FS_EmptySet
  <2>2. CASE AlertsOf(id) # {}
    <3>1. LatestOf(id) \in 1..Len(notes) /\ notes[LatestOf(id)].rule = id
      BY <2>2, LatestIsLast DEF AlertsOf, GateInv, CoolInv
    <3>2. rules[id].last # None /\ notes[LatestOf(id)].at <= rules[id].last
      BY <1>1, <3>1 DEF GateInv, CoolInv, LastRemembered
    <3>3. rules[id].last \in Nat /\ notes[LatestOf(id)].at \in Nat /\ Cooldown \in Nat
      BY <1>1, <3>1, <3>2, NoteTypes, ParametersAssumption DEF RuleRow, GateInv, CoolInv
    <3> QED BY <1>2, <1>5, <2>2, <3>2, <3>3
  <2> QED BY <2>1, <2>2
<1>16. clock' = clock
  BY DEF Process
<1> HIDE DEF at, last
<1>17. Gate(id)!Alert(at)
  BY <1>8, <1>12, <1>14, <1>15, <1>16 DEF Gate!Alert, Gate!Spaced, last
<1> QED BY <1>3, <1>17 DEF Gate!Next

LEMMA ProcessGate ==
    ASSUME GateInv, TypeOK', NEW w \in Workers, Process(w), NEW id \in RuleIds
    PROVE  [Gate(id)!Next]_(Gate(id)!vars)
<1>1. CASE users[Owner(w)] = None
  BY <1>1, KeptGate DEF Process, GateInv, CoolInv
<1>2. CASE users[Owner(w)] # None /\ id \in Triggered(w)
  BY <1>2, TriggeredGate
<1>3. CASE users[Owner(w)] # None /\ id \notin Triggered(w)
  <2>1. /\ AlertsOf(id)' = AlertsOf(id)
        /\ \A n \in 1..Len(notes) : notes'[n] = notes[n]
    BY <1>3, ProcessNotes DEF GateInv, CoolInv
  <2>2. clock' = clock
    BY DEF Process
  <2> QED BY <2>1, <2>2, QuietGate DEF GateInv, CoolInv
<1> QED BY <1>1, <1>2, <1>3

\* Nothing but process adds a note, and nothing moves one in time or to another
\* rule.
LEMMA NotesStay ==
    ASSUME TypeOK, TypeOK', [Next]_vars, \A w \in Workers : ~Process(w)
    PROVE  /\ Len(notes') = Len(notes)
           /\ \A n \in 1..Len(notes) :
                 notes'[n].rule = notes[n].rule /\ notes'[n].at = notes[n].at
<1>1. ASSUME NEW w \in Workers, Work(w) \/ FetchFails(w) \/ Poll(w) \/ TaskError(w),
             notes' # notes
      PROVE  Record(w) \/ \E outcome \in Outcomes : Deliver(w, outcome)
  BY <1>1 DEF Work, FetchOk, FetchFails, FetchRejected, Poll, Invalidate, ReauthDm,
              TaskError, tables
<1>2. ASSUME NEW u \in Users,
             \/ AddBegin(u) \/ Add(u)
             \/ \E token \in Tokens : AuthRead(u, token)
             \/ AuthWrite(u)
             \/ Logout(u)
             \/ \E kind \in CmdKinds, id \in RuleIds : CmdBegin(u, kind, id)
             \/ CmdCommit(u),
             notes' # notes
      PROVE  \E ids : notes' = NotesWithout(ids)
  BY <1>2 DEF AddBegin, Add, AddInsert, Discard, AuthRead, AuthWrite, Logout, CmdBegin,
              CmdCommit, tables
<1>3. \/ notes' = notes
      \/ \E ids : notes' = NotesWithout(ids)
      \/ \E w \in Workers : Record(w) \/ \E outcome \in Outcomes : Deliver(w, outcome)
  <2>1. ASSUME \/ \E due \in SUBSET Users : StartCycle(due)
               \/ \E token \in Tokens : Revoke(token)
               \/ Tick \/ Crash \/ UNCHANGED vars
        PROVE  notes' = notes
    BY <2>1 DEF StartCycle, Revoke, Tick, Crash, vars, tables
  <2> QED BY <1>1, <1>2, <2>1 DEF Next
<1>4. CASE \E ids : notes' = NotesWithout(ids)
  BY <1>4, DeletedNotes
<1>5. ASSUME NEW w \in Workers, Record(w) \/ \E outcome \in Outcomes : Deliver(w, outcome)
      PROVE  /\ Len(notes') = Len(notes)
             /\ \A n \in 1..Len(notes) :
                   notes'[n].rule = notes[n].rule /\ notes'[n].at = notes[n].at
  BY <1>5, DeliveredNotes
<1> QED BY <1>3, <1>4, <1>5

\* Only Tick moves the clock.
LEMMA ClockStays ==
    ASSUME [Next]_vars, ~Tick
    PROVE  clock' = clock
BY DEF Next, vars, StartCycle, Work, FetchOk, FetchFails, FetchRejected, Process,
       Deliver, Record, Poll, Invalidate, ReauthDm, TaskError, AddBegin, Add, AddInsert,
       Discard, AuthRead, AuthWrite, Logout, CmdBegin, CmdCommit, Revoke, Crash

\* A job is given its snapshot by the answer of the API, which reads the clock.
LEMMA NextPast == GateInv /\ [Next]_vars => SnapshotsArePast'
<1> SUFFICES ASSUME GateInv, [Next]_vars, NEW v \in Workers, job'[v].phase = "process"
             PROVE  job'[v].at <= clock'
  BY DEF SnapshotsArePast
<1>1. job \in [Workers -> Job] /\ clock \in Nat
  BY DEF GateInv, CoolInv, TypeOK, TasksOK
<1>2. clock' \in Nat /\ clock <= clock'
  BY <1>1, ClockStays DEF Tick
<1>3. job'[v] = job[v] \/ job'[v].at = clock
  <2>1. ASSUME NEW due \in SUBSET Users, StartCycle(due) PROVE job'[v] = job[v]
    <3>1. job'[v] = job[v] \/ job'[v].phase = "fetch"
      BY <2>1 DEF StartCycle, IdleJob
    <3> QED BY <3>1
  <2>2. ASSUME NEW w \in Workers, Work(w) \/ FetchFails(w) \/ ReauthDm(w) \/ TaskError(w)
        PROVE  job'[v] = job[v] \/ job'[v].at = clock
    <3>1. PICK next : Follows(w, next)
      BY <2>2, WorkFollows DEF GateInv, CoolInv
    <3> QED BY <1>1, <3>1 DEF Follows
  <2>3. ASSUME NEW w \in Workers, Invalidate(w) PROVE job'[v] = job[v]
    BY <1>1, <2>3 DEF Invalidate, IdleJob
  <2>4. ASSUME NEW u \in Users, AddBegin(u) \/ Add(u) PROVE job'[v] = job[v]
    <3> DEFINE w == <<"add", u>>
               begun == [IdleJob EXCEPT !.phase = "insert", !.token = users[u].token]
               inserted == [job[w] EXCEPT !.phase = "fetch", !.group = {nextId}]
    <3>1. /\ w \in Workers /\ IdleJob.phase = "idle" /\ begun.phase = "insert"
          /\ inserted.phase = "fetch"
      BY <1>1, AddIsWorker DEF IdleJob, Job
    <3>2. CASE AddBegin(u)
      <4>1. job' = [job EXCEPT ![w] = begun]
        BY <3>2 DEF AddBegin
      <4> HIDE DEF begun
      <4> QED BY <1>1, <3>1, <4>1
    <3>3. CASE Discard(u)
      BY <1>1, <3>1, <3>3 DEF Discard
    <3>4. ASSUME NEW item \in Items, AddInsert(u, item) PROVE job'[v] = job[v]
      <4>1. \/ job' = [job EXCEPT ![w] = IdleJob]
            \/ job' = [job EXCEPT ![w] = inserted]
        BY <3>1, <3>4 DEF AddInsert
      <4> HIDE DEF inserted
      <4> QED BY <1>1, <3>1, <4>1
    <3> QED BY <2>4, <3>2, <3>3, <3>4 DEF Add
  <2>5. CASE Crash
    BY <2>5 DEF Crash, IdleJob
  <2>6. ASSUME \/ \E u \in Users :
                     \/ \E token \in Tokens : AuthRead(u, token)
                     \/ AuthWrite(u) \/ Logout(u)
                     \/ \E kind \in CmdKinds, id \in RuleIds : CmdBegin(u, kind, id)
                     \/ CmdCommit(u)
               \/ \E token \in Tokens : Revoke(token)
               \/ Tick \/ UNCHANGED vars
        PROVE  job' = job
    BY <2>6 DEF AuthRead, AuthWrite, Logout, CmdBegin, CmdCommit, Revoke, Tick, tasks, vars
  <2> QED BY <2>1, <2>2, <2>3, <2>4, <2>5, <2>6 DEF Next, Poll
<1>4. CASE job'[v] = job[v]
  <2>1. job[v].at \in Nat /\ job[v].at <= clock
    BY <1>1, <1>4 DEF GateInv, SnapshotsArePast, Job
  <2> QED BY <1>1, <1>2, <1>4, <2>1
<1> QED BY <1>2, <1>3, <1>4

\* Every step of the bot is, for every rule, a step of its gate or none.
LEMMA NextGate ==
    ASSUME GateInv, TypeOK', [Next]_vars, NEW id \in RuleIds
    PROVE  [Gate(id)!Next]_(Gate(id)!vars)
<1>1. CASE \E w \in Workers : Process(w)
  BY <1>1, ProcessGate
<1>2. CASE Tick
  <2>1. UNCHANGED <<rules, notes>> /\ clock' = clock + 1
    BY <1>2 DEF Tick, tables
  <2>2. Armed(id)' = Armed(id) /\ AlertsOf(id)' = AlertsOf(id) /\ LatestOf(id)' = LatestOf(id)
    BY <2>1 DEF Armed, AlertsOf, LatestOf
  <2> QED BY <2>1, <2>2 DEF Gate!Next, Gate!Tick
<1>3. CASE ~Tick /\ \A w \in Workers : ~Process(w)
  BY <1>3, ClockStays, NotesStay, KeptGate DEF GateInv, CoolInv
<1> QED BY <1>1, <1>2, <1>3

\* services.py (process), evaluator.py: whatever tasks, commands and crashes do
\* to a rule, it alerts only when armed, spends that in the same step, and keeps
\* the cooldown: for any users, rules, prices and bounds, every rule implements
\* AlertGate.
THEOREM EveryRuleKeepsItsGate == Spec => EveryGate
<1>1. Init => GateInv
  BY InitCool DEF Init, GateInv, SnapshotsArePast, IdleJob
<1>2. Init => \A id \in RuleIds : Gate(id)!Init
  <2> SUFFICES ASSUME Init, NEW id \in RuleIds PROVE Gate(id)!Init
    OBVIOUS
  <2>1. AlertsOf(id) = {}
    BY EmptySeq DEF Init, AlertsOf
  <2>2. rules[id] = None /\ clock = 0
    BY DEF Init
  <2> QED BY <2>1, <2>2, FS_EmptySet DEF Gate!Init, Armed
<1>3. GateInv /\ [Next]_vars => GateInv'
  BY NextCool, NextPast DEF GateInv
<1>4. GateInv /\ GateInv' /\ [Next]_vars
         => [\A id \in RuleIds : [Gate(id)!Next]_(Gate(id)!vars)]_vars
  BY NextGate DEF GateInv, CoolInv
<1> QED BY <1>1, <1>2, <1>3, <1>4, PTL DEF Spec, EveryGate

-----------------------------------------------------------------------------
(***************************************************************************)
(* FailedAddLeavesNothing.  The rule an add is checking belongs to the     *)
(* user of the add as long as it exists, and its id is not given again: so *)
(* the DELETE by id and owner that ends a failed add hits it.              *)
(***************************************************************************)
Checking == {"fetch", "process", "discard"}

Owned(u, j) ==
    /\ j.todo = {}
    /\ j.phase \in Checking =>
          \A id \in j.group : id < nextId /\ (rules[id] # None => rules[id].owner = u)

AddOwns == \A u \in Users : Owned(u, job[<<"add", u>>])

FailedFresh == \A id \in failed : id < nextId

FailInv == CoolInv /\ AddOwns /\ FailedFresh /\ FailedAddLeavesNothing

\* What one step of a task may do to the job of an add.
Onward(j, next) ==
    \/ next = j
    \/ /\ j.phase # "discard" \/ faults' # 0
       /\ next.todo = {}
       /\ next.phase \in Checking => j.phase \in Checking /\ next.group = j.group

\* Steps that add no rule and fail no check.
LEMMA KeptFail ==
    ASSUME FailInv, CoolInv', nextId' = nextId, failed' = failed,
           faults' # 0 \/ faults' = faults,
           \A id \in RuleIds : rules'[id] # None
                               => rules[id] # None /\ rules'[id].owner = rules[id].owner,
           \A u \in Users : Onward(job[<<"add", u>>], job'[<<"add", u>>])
    PROVE  FailInv'
<1>1. ASSUME NEW u \in Users
      PROVE  Owned(u, job[<<"add", u>>])'
  <2> DEFINE j == job[<<"add", u>>]
             next == job'[<<"add", u>>]
  <2>1. Owned(u, j) /\ Onward(j, next)
    BY DEF FailInv, AddOwns
  <2>2. next \in Job
    BY AddIsWorker DEF CoolInv, TypeOK, TasksOK
  <2>3. next.todo = {}
    BY <2>1 DEF Owned, Onward
  <2>4. ASSUME next.phase \in Checking, NEW id \in next.group
        PROVE  id < nextId /\ (rules'[id] # None => rules'[id].owner = u)
    <3>1. j.phase \in Checking /\ id \in j.group
      BY <2>1, <2>4 DEF Onward
    <3>2. id < nextId /\ (rules[id] # None => rules[id].owner = u)
      BY <2>1, <3>1 DEF Owned
    <3>3. id \in RuleIds
      BY <2>2, <2>4 DEF Job
    <3> QED BY <3>2, <3>3
  <2> QED BY <2>3, <2>4 DEF Owned
<1>2. ASSUME NEW id \in failed, faults' = 0
      PROVE  rules'[id] = None \/ Discarding(id)'
  <2>1. id \in RuleIds
    BY DEF FailInv, CoolInv, TypeOK
  <2>2. rules[id] = None \/ Discarding(id)
    BY <1>2 DEF FailInv, FailedAddLeavesNothing
  <2>3. CASE rules[id] = None
    BY <2>1, <2>3
  <2>4. CASE Discarding(id)
    <3>1. PICK u \in Users : job[<<"add", u>>].phase = "discard" /\ id \in job[<<"add", u>>].group
      BY <2>4 DEF Discarding
    <3>2. job'[<<"add", u>>] = job[<<"add", u>>]
      BY <1>2, <3>1 DEF Onward
    <3> QED BY <3>1, <3>2 DEF Discarding
  <2> QED BY <2>2, <2>3, <2>4
<1> QED BY <1>1, <1>2 DEF FailInv, AddOwns, FailedFresh, FailedAddLeavesNothing

\* A task that is not a poll is the add of its user.
LEMMA AddsAre ==
    ASSUME NEW w \in Workers, ~IsPoll(w)
    PROVE  w = <<"add", Owner(w)>> /\ Owner(w) \in Users
BY DEF Workers, IsPoll, Owner

\* One step of one worker, seen from the adds.
LEMMA OneMoves ==
    ASSUME FailInv, NEW w \in Workers, NEW next, job' = [job EXCEPT ![w] = next],
           IsPoll(w) \/ Onward(job[w], next)
    PROVE  \A u \in Users : Onward(job[<<"add", u>>], job'[<<"add", u>>])
<1> SUFFICES ASSUME NEW u \in Users
             PROVE  Onward(job[<<"add", u>>], job'[<<"add", u>>])
  OBVIOUS
<1>1. <<"add", u>> \in Workers /\ ~IsPoll(<<"add", u>>)
  BY AddIsWorker
<1>2. job \in [Workers -> Job]
  BY DEF FailInv, CoolInv, TypeOK, TasksOK
<1>3. CASE w = <<"add", u>>
  BY <1>1, <1>2, <1>3
<1>4. CASE w # <<"add", u>>
  <2>1. job'[<<"add", u>>] = job[<<"add", u>>]
    BY <1>1, <1>2, <1>4
  <2> QED BY <2>1 DEF Onward
<1> QED BY <1>3, <1>4

\* An add has no other group to go on to.
LEMMA AddEnds ==
    ASSUME FailInv, NEW w \in Workers, ~IsPoll(w)
    PROVE  job[w].todo = {} /\ \A next \in NextGroup(job[w]) : next = IdleJob
BY AddsAre DEF FailInv, AddOwns, Owned, NextGroup

LEMMA WorkFail ==
    ASSUME FailInv, CoolInv', NEW w \in Workers,
           \/ \E price \in Prices \cup {None} : FetchOk(w, price)
           \/ Process(w) \/ Record(w) \/ \E outcome \in Outcomes : Deliver(w, outcome)
    PROVE  FailInv'
<1>1. nextId' = nextId /\ failed' = failed /\ faults' = faults
  BY DEF FetchOk, Process, Record, Deliver, tables, history
<1>2. ASSUME NEW id \in RuleIds, rules'[id] # None
      PROVE  rules[id] # None /\ rules'[id].owner = rules[id].owner
  <2>1. CASE id \in Processed(w) /\ rules' # rules
    <3>1. Process(w) /\ users[Owner(w)] # None
      BY <2>1 DEF FetchOk, Process, Record, Deliver, tables
    <3>2. rules'[id] = ProcessedRow(rules[id], Evaluated(w, id), job[w].at)
      BY <2>1, <3>1 DEF Process
    <3>3. rules[id] \in RuleRow
      BY <2>1, ProcessedType DEF FailInv, CoolInv
    <3> QED BY <3>2, <3>3, NoRowAssumption DEF ProcessedRow, RuleRow
  <2>2. CASE id \notin Processed(w) \/ rules' = rules
    <3>1. rules'[id] = rules[id]
      BY <2>2 DEF FetchOk, Process, Record, Deliver, tables
    <3> QED BY <1>2, <3>1
  <2> QED BY <2>1, <2>2
<1>3. job[w] \in Job
  BY DEF FailInv, CoolInv, TypeOK, TasksOK
<1>4. \E next : job' = [job EXCEPT ![w] = next] /\ (IsPoll(w) \/ Onward(job[w], next))
  <2>1. ASSUME NEW price \in Prices \cup {None}, FetchOk(w, price)
        PROVE  \E next : job' = [job EXCEPT ![w] = next] /\ (IsPoll(w) \/ Onward(job[w], next))
    <3> DEFINE next == [job[w] EXCEPT !.phase = "process", !.price = price, !.at = clock]
    <3>1. job' = [job EXCEPT ![w] = next] /\ job[w].phase = "fetch"
      BY <2>1 DEF FetchOk
    <3>2. next.group = job[w].group /\ next.todo = job[w].todo
      BY <1>3 DEF Job
    <3>3. IsPoll(w) \/ job[w].todo = {}
      BY AddEnds
    <3> HIDE DEF next
    <3> QED BY <3>1, <3>2, <3>3 DEF Onward, Checking
  <2>2. ASSUME NEW next \in NextGroup(job[w]), job' = [job EXCEPT ![w] = next],
               job[w].phase # "discard"
        PROVE  IsPoll(w) \/ Onward(job[w], next)
    BY <2>2, AddEnds DEF Onward, IdleJob, Checking
  <2>3. CASE Process(w)
    <3>1. job[w].phase = "process"
      BY <2>3 DEF Process
    <3>2. CASE job' = [job EXCEPT ![w] = IdleJob]
      <4>1. Onward(job[w], IdleJob)
        BY <3>1 DEF Onward, IdleJob, Checking
      <4> QED BY <3>2, <4>1
    <3>3. ASSUME NEW events,
                 job' = [job EXCEPT ![w] =
                     [IdleJob EXCEPT !.phase = "deliver", !.token = job[w].token,
                                     !.notify = job[w].notify, !.todo = job[w].todo,
                                     !.events = events]]
          PROVE  \E next : job' = [job EXCEPT ![w] = next] /\ (IsPoll(w) \/ Onward(job[w], next))
      <4> DEFINE next == [IdleJob EXCEPT !.phase = "deliver", !.token = job[w].token,
                                         !.notify = job[w].notify, !.todo = job[w].todo,
                                         !.events = events]
      <4>1. next.phase = "deliver" /\ next.todo = job[w].todo
        BY DEF IdleJob
      <4>2. IsPoll(w) \/ job[w].todo = {}
        BY AddEnds
      <4>3. job' = [job EXCEPT ![w] = next]
        BY <3>3
      <4> HIDE DEF next
      <4> QED BY <3>1, <4>1, <4>2, <4>3 DEF Onward, Checking
    <3>4. CASE users[Owner(w)] # None
      <4>1. PICK order \in Orders(Triggered(w)) :
               IF order = << >>
               THEN \E next \in NextGroup(job[w]) : job' = [job EXCEPT ![w] = next]
               ELSE job' = [job EXCEPT ![w] =
                      [IdleJob EXCEPT !.phase = "deliver", !.token = job[w].token,
                                      !.notify = job[w].notify, !.todo = job[w].todo,
                                      !.events = [i \in DOMAIN order |-> Len(notes) + i]]]
        BY <2>3, <3>4 DEF Process
      <4> QED BY <2>2, <3>1, <3>3, <4>1
    <3> QED BY <2>3, <3>2, <3>4 DEF Process
  <2>4. ASSUME NEW outcome \in Outcomes, Deliver(w, outcome)
        PROVE  \E next : job' = [job EXCEPT ![w] = next] /\ (IsPoll(w) \/ Onward(job[w], next))
    <3> DEFINE next == [job[w] EXCEPT !.phase = "record", !.told = (outcome = "accepted")]
    <3>1. job' = [job EXCEPT ![w] = next] /\ job[w].phase = "deliver"
      BY <2>4 DEF Deliver
    <3>2. next.phase = "record" /\ next.todo = job[w].todo
      BY <1>3 DEF Job
    <3>3. IsPoll(w) \/ job[w].todo = {}
      BY AddEnds
    <3> HIDE DEF next
    <3> QED BY <3>1, <3>2, <3>3 DEF Onward, Checking
  <2>5. CASE Record(w)
    <3>1. job[w].phase = "record"
      BY <2>5 DEF Record
    <3>2. CASE Len(job[w].events) > 1
      <4> DEFINE next == [job[w] EXCEPT !.phase = "deliver", !.told = FALSE,
                                        !.events = Tail(@)]
      <4>1. job' = [job EXCEPT ![w] = next]
        BY <2>5, <3>2 DEF Record
      <4>2. next.phase = "deliver" /\ next.todo = job[w].todo
        BY <1>3 DEF Job
      <4>3. IsPoll(w) \/ job[w].todo = {}
        BY AddEnds
      <4> HIDE DEF next
      <4> QED BY <3>1, <4>1, <4>2, <4>3 DEF Onward, Checking
    <3>3. CASE ~(Len(job[w].events) > 1)
      BY <2>2, <2>5, <3>1, <3>3 DEF Record
    <3> QED BY <3>2, <3>3
  <2> QED BY <2>1, <2>3, <2>4, <2>5
<1>5. PICK next : job' = [job EXCEPT ![w] = next] /\ (IsPoll(w) \/ Onward(job[w], next))
  BY <1>4
<1>6. \A u \in Users : Onward(job[<<"add", u>>], job'[<<"add", u>>])
  BY <1>5, OneMoves
<1> QED BY <1>1, <1>2, <1>6, KeptFail

\* The first check of a rule fails: its add is about to delete the rule.
LEMMA CheckFails ==
    ASSUME FailInv, CoolInv', NEW w \in Workers, FetchFails(w) \/ FetchRejected(w)
    PROVE  FailInv'
<1>1. UNCHANGED <<rules, nextId, faults>> /\ job[w].phase = "fetch" /\ job[w] \in Job
  BY DEF FetchFails, FetchRejected, tables, FailInv, CoolInv, TypeOK, TasksOK
<1>2. CASE IsPoll(w)
  <2>1. failed' = failed
    BY <1>2 DEF FetchFails, FetchRejected, FailedBy
  <2>2. PICK next : job' = [job EXCEPT ![w] = next]
    BY <1>2 DEF FetchFails, FetchRejected
  <2>3. \A u \in Users : Onward(job[<<"add", u>>], job'[<<"add", u>>])
    BY <1>2, <2>2, OneMoves
  <2> QED BY <1>1, <2>1, <2>3, KeptFail
<1>3. CASE ~IsPoll(w)
  <2> DEFINE u == Owner(w)
             next == [job[w] EXCEPT !.phase = "discard"]
  <2>1. w = <<"add", u>> /\ u \in Users /\ job \in [Workers -> Job]
    BY <1>3, AddsAre DEF FailInv, CoolInv, TypeOK, TasksOK
  <2>2. job' = [job EXCEPT ![w] = next] /\ failed' = failed \cup job[w].group
    BY <1>3 DEF FetchFails, FetchRejected, FailedBy
  <2>3. next.phase = "discard" /\ next.group = job[w].group /\ next.todo = job[w].todo
    BY <1>1 DEF Job
  <2>4. job'[w] = next /\ \A v \in Users : v # u => job'[<<"add", v>>] = job[<<"add", v>>]
    BY <2>1, <2>2, AddIsWorker
  <2> HIDE DEF next, u
  <2>5. Owned(u, job[w])
    BY <2>1 DEF FailInv, AddOwns
  <2>6. Owned(u, job[w])'
    BY <1>1, <2>3, <2>4, <2>5 DEF Owned, Checking
  <2>7. AddOwns'
    <3> SUFFICES ASSUME NEW v \in Users PROVE Owned(v, job[<<"add", v>>])'
      BY DEF AddOwns
    <3>1. CASE v = u
      BY <2>1, <2>6, <3>1
    <3>2. CASE v # u
      BY <1>1, <2>4, <3>2 DEF FailInv, AddOwns, Owned
    <3> QED BY <3>1, <3>2
  <2>8. FailedFresh'
    BY <1>1, <2>2, <2>5 DEF FailInv, FailedFresh, Owned, Checking
  <2>9. FailedAddLeavesNothing'
    <3> SUFFICES ASSUME faults' = 0, NEW id \in failed'
                 PROVE  rules'[id] = None \/ Discarding(id)'
      BY DEF FailedAddLeavesNothing
    <3>1. CASE id \in job[w].group
      BY <2>1, <2>3, <2>4, <3>1 DEF Discarding
    <3>2. CASE id \in failed /\ Discarding(id)
      <4>1. PICK v \in Users : job[<<"add", v>>].phase = "discard" /\ id \in job[<<"add", v>>].group
        BY <3>2 DEF Discarding
      <4>2. v # u
        BY <1>1, <2>1, <4>1
      <4> QED BY <2>4, <4>1, <4>2 DEF Discarding
    <3>3. CASE id \in failed /\ rules[id] = None
      BY <1>1, <3>3
    <3> QED BY <1>1, <2>2, <3>1, <3>2, <3>3 DEF FailInv, FailedAddLeavesNothing
  <2> QED BY <2>7, <2>8, <2>9 DEF FailInv
<1> QED BY <1>2, <1>3

LEMMA InsertFail ==
    ASSUME FailInv, CoolInv', NEW u \in Users, NEW item \in Items, AddInsert(u, item)
    PROVE  FailInv'
<1> DEFINE w == <<"add", u>>
<1>0. w \in Workers /\ job[w] \in Job /\ job \in [Workers -> Job]
      /\ failed' = failed /\ faults' = faults /\ job[w].phase = "insert"
      /\ nextId \in Nat /\ rules \in [RuleIds -> RuleRow \cup {None}] /\ nextId \in RuleIds
  BY AddIsWorker DEF FailInv, CoolInv, TypeOK, TablesOK, TasksOK, AddInsert, history
<1>1. CASE users[u] = None
  <2>1. job' = [job EXCEPT ![w] = IdleJob] /\ UNCHANGED <<rules, nextId>>
    BY <1>1 DEF AddInsert
  <2>2. Onward(job[w], IdleJob)
    BY <1>0 DEF Onward, IdleJob, Checking
  <2>3. \A v \in Users : Onward(job[<<"add", v>>], job'[<<"add", v>>])
    BY <1>0, <2>1, <2>2, OneMoves
  <2> QED BY <1>0, <2>1, <2>3, KeptFail
<1>2. CASE users[u] # None
  <2> DEFINE next == [job[w] EXCEPT !.phase = "fetch", !.group = {nextId}]
  <2>1. /\ rules' = [rules EXCEPT ![nextId] = NewRule(u, item)] /\ nextId' = nextId + 1
        /\ job' = [job EXCEPT ![w].phase = "fetch", ![w].group = {nextId}]
    BY <1>2 DEF AddInsert
  <2>2. job' = [job EXCEPT ![w] = next]
    BY <1>0, <2>1
  <2>3. next.group = {nextId} /\ next.todo = job[w].todo
    BY <1>0 DEF Job
  <2>4. job'[w] = next /\ \A v \in Users : v # u => job'[<<"add", v>>] = job[<<"add", v>>]
    BY <1>0, <2>2, AddIsWorker
  <2> HIDE DEF next
  <2>5. job[w].todo = {}
    BY DEF FailInv, AddOwns, Owned
  <2>6. rules'[nextId].owner = u
    BY <1>0, <2>1 DEF NewRule
  <2>7. Owned(u, job[w])'
    BY <1>0, <2>1, <2>3, <2>4, <2>5, <2>6 DEF Owned
  <2>8. ASSUME NEW v \in Users, v # u PROVE Owned(v, job[<<"add", v>>])'
    <3> DEFINE j == job[<<"add", v>>]
    <3>1. Owned(v, j) /\ job'[<<"add", v>>] = j /\ j \in Job
      BY <2>4, <2>8, AddIsWorker DEF FailInv, AddOwns, CoolInv, TypeOK, TasksOK
    <3> HIDE DEF j
    <3>2. ASSUME j.phase \in Checking, NEW id \in j.group
          PROVE  id < nextId' /\ (rules'[id] # None => rules'[id].owner = v)
      <4>1. id \in RuleIds /\ id < nextId /\ (rules[id] # None => rules[id].owner = v)
        BY <3>1, <3>2 DEF Owned, Job
      <4>2. id \in Nat
        BY <4>1, ParametersAssumption DEF RuleIds
      <4>3. rules'[id] = rules[id]
        BY <1>0, <2>1, <4>1, <4>2
      <4> QED BY <1>0, <2>1, <4>1, <4>2, <4>3
    <3> QED BY <3>1, <3>2 DEF Owned
  <2>9. ASSUME NEW id \in failed
        PROVE  id < nextId' /\ rules'[id] = rules[id]
    <3>1. id \in Nat /\ id \in RuleIds /\ id < nextId
      BY ParametersAssumption DEF FailInv, FailedFresh, CoolInv, TypeOK, RuleIds
    <3> QED BY <1>0, <2>1, <3>1
  <2>10. FailedAddLeavesNothing'
    <3> SUFFICES ASSUME faults = 0, NEW id \in failed
                 PROVE  rules'[id] = None \/ Discarding(id)'
      BY <1>0 DEF FailedAddLeavesNothing
    <3>1. CASE Discarding(id)
      <4>1. PICK v \in Users : job[<<"add", v>>].phase = "discard" /\ id \in job[<<"add", v>>].group
        BY <3>1 DEF Discarding
      <4>2. v # u
        BY <1>0, <4>1
      <4> QED BY <2>4, <4>1, <4>2 DEF Discarding
    <3> QED BY <2>9, <3>1 DEF FailInv, FailedAddLeavesNothing
  <2> QED BY <1>0, <2>7, <2>8, <2>9, <2>10 DEF FailInv, AddOwns, FailedFresh
<1> QED BY <1>1, <1>2

\* The DELETE hits the rule if it is still there: no one else can own it.
LEMMA DiscardFail ==
    ASSUME FailInv, CoolInv', NEW u \in Users, Discard(u)
    PROVE  FailInv'
<1> DEFINE w == <<"add", u>>
<1>0. /\ w \in Workers /\ job \in [Workers -> Job] /\ job[w] \in Job
      /\ UNCHANGED <<nextId, failed, faults>> /\ job[w].phase = "discard"
      /\ rules' = Without(job[w].group \cap RulesOf(u))
      /\ job' = [job EXCEPT ![w] = IdleJob]
  BY AddIsWorker DEF FailInv, CoolInv, TypeOK, TasksOK, Discard, Discarded, history
<1>1. job'[w] = IdleJob /\ \A v \in Users : v # u => job'[<<"add", v>>] = job[<<"add", v>>]
  BY <1>0, AddIsWorker
<1>2. \A id \in RuleIds : rules'[id] = None \/ rules'[id] = rules[id]
  BY <1>0 DEF Without
<1>3. AddOwns'
  <2> SUFFICES ASSUME NEW v \in Users PROVE Owned(v, job[<<"add", v>>])'
    BY DEF AddOwns
  <2>1. CASE v = u
    BY <1>1, <2>1 DEF Owned, IdleJob, Checking
  <2>2. CASE v # u
    <3> DEFINE j == job[<<"add", v>>]
    <3>1. Owned(v, j) /\ job'[<<"add", v>>] = j /\ j \in Job
      BY <1>1, <2>2, AddIsWorker DEF FailInv, AddOwns, CoolInv, TypeOK, TasksOK
    <3> HIDE DEF j
    <3>2. \A id \in j.group : id \in RuleIds
      BY <3>1 DEF Job
    <3> QED BY <1>0, <1>2, <3>1, <3>2 DEF Owned
  <2> QED BY <2>1, <2>2
<1>4. FailedAddLeavesNothing'
  <2> SUFFICES ASSUME faults = 0, NEW id \in failed
               PROVE  rules'[id] = None \/ Discarding(id)'
    BY <1>0 DEF FailedAddLeavesNothing
  <2>1. id \in RuleIds
    BY DEF FailInv, CoolInv, TypeOK
  <2>2. CASE rules[id] = None
    BY <1>2, <2>1, <2>2
  <2>3. CASE Discarding(id) /\ rules[id] # None
    <3>1. PICK v \in Users : job[<<"add", v>>].phase = "discard" /\ id \in job[<<"add", v>>].group
      BY <2>3 DEF Discarding
    <3>2. CASE v = u
      <4>1. id \in job[w].group /\ rules[id].owner = u
        BY <1>0, <2>3, <3>1, <3>2 DEF FailInv, AddOwns, Owned, Checking
      <4>2. id \in RulesOf(u)
        BY <2>1, <2>3, <4>1 DEF RulesOf
      <4> QED BY <1>0, <2>1, <4>1, <4>2 DEF Without
    <3>3. CASE v # u
      BY <1>1, <3>1, <3>3 DEF Discarding
    <3> QED BY <3>2, <3>3
  <2> QED BY <2>2, <2>3 DEF FailInv, FailedAddLeavesNothing
<1> QED BY <1>0, <1>3, <1>4 DEF FailInv, FailedFresh

LEMMA NextFail == FailInv /\ [Next]_vars => FailInv'
<1> SUFFICES ASSUME FailInv, [Next]_vars PROVE FailInv'
  OBVIOUS
<1>0. CoolInv' /\ CoolInv /\ faults \in Nat /\ job \in [Workers -> Job]
      /\ rules \in [RuleIds -> RuleRow \cup {None}]
  BY NextCool DEF FailInv, CoolInv, TypeOK, TablesOK, TasksOK
<1>a. ASSUME UNCHANGED <<rules, nextId, failed, faults>>,
             \A u \in Users : Onward(job[<<"add", u>>], job'[<<"add", u>>])
      PROVE  FailInv'
  BY <1>0, <1>a, KeptFail
<1>1. ASSUME NEW due \in SUBSET Users, StartCycle(due) PROVE FailInv'
  <2>1. \A u \in Users : job'[<<"add", u>>] = job[<<"add", u>>]
    BY <1>1, AddIsWorker DEF StartCycle
  <2> QED BY <1>1, <1>a, <2>1 DEF StartCycle, tables, history, Onward
<1>2. ASSUME NEW w \in Workers, Work(w) \/ FetchFails(w) PROVE FailInv'
  BY <1>0, <1>2, WorkFail, CheckFails DEF Work
<1>3. ASSUME NEW w \in Workers, Poll(w) PROVE FailInv'
  <2>1. UNCHANGED <<nextId, failed, faults>> /\ IsPoll(w)
    BY <1>3 DEF Poll, Invalidate, ReauthDm, tables, history
  <2>2. \E next : job' = [job EXCEPT ![w] = next]
    BY <1>3, Zenon DEF Poll, Invalidate, ReauthDm
  <2>3. \A u \in Users : Onward(job[<<"add", u>>], job'[<<"add", u>>])
    BY <2>1, <2>2, OneMoves
  <2>4. ASSUME NEW id \in RuleIds, rules'[id] # None
        PROVE  rules[id] # None /\ rules'[id].owner = rules[id].owner
    <3>1. \/ rules'[id] = rules[id]
          \/ rules[id] # None /\ rules'[id] = PausedByInvalidation(rules[id])
      BY <1>3 DEF Poll, Invalidate, ReauthDm, tables, RulesOf
    <3>2. rules[id] # None => rules[id] \in RuleRow
      BY <1>0
    <3> QED BY <2>4, <3>1, <3>2 DEF PausedByInvalidation, RuleRow
  <2> QED BY <1>0, <2>1, <2>3, <2>4, KeptFail
<1>4. ASSUME NEW w \in Workers, TaskError(w) PROVE FailInv'
  <2>1. Onward(job[w], IdleJob)
    BY <1>0, <1>4 DEF TaskError, Onward, IdleJob, Checking
  <2>2. \A u \in Users : Onward(job[<<"add", u>>], job'[<<"add", u>>])
    BY <1>4, <2>1, OneMoves DEF TaskError
  <2> QED BY <1>0, <1>4, <2>2, KeptFail DEF TaskError, tables, history
<1>5. CASE Crash
  <2>1. ASSUME NEW u \in Users
        PROVE  Onward(job[<<"add", u>>], job'[<<"add", u>>])
    <3>1. job'[<<"add", u>>] = IdleJob
      BY <1>5, AddIsWorker DEF Crash
    <3>2. faults' # 0
      BY <1>0, <1>5 DEF Crash
    <3>3. IdleJob.todo = {} /\ IdleJob.phase = "idle"
      BY DEF IdleJob
    <3> QED BY <3>1, <3>2, <3>3 DEF Onward, Checking
  <2> QED BY <1>0, <1>5, <2>1, KeptFail DEF Crash, tables, history
<1>6. ASSUME NEW u \in Users, AddBegin(u) PROVE FailInv'
  <2> DEFINE w == <<"add", u>>
             next == [IdleJob EXCEPT !.phase = "insert", !.token = users[u].token]
  <2>1. w \in Workers /\ job' = [job EXCEPT ![w] = next] /\ job[w].phase = "idle"
    BY <1>6, AddIsWorker DEF AddBegin
  <2>2. next.phase = "insert" /\ next.todo = {}
    BY DEF IdleJob
  <2> HIDE DEF next
  <2>3. Onward(job[w], next)
    BY <2>1, <2>2 DEF Onward, Checking
  <2>4. \A v \in Users : Onward(job[<<"add", v>>], job'[<<"add", v>>])
    BY <2>1, <2>3, OneMoves
  <2> QED BY <1>6, <1>a, <2>4 DEF AddBegin, tables, history
<1>7. ASSUME NEW u \in Users, NEW item \in Items, AddInsert(u, item) PROVE FailInv'
  BY <1>0, <1>7, InsertFail
<1>8. ASSUME NEW u \in Users, Discard(u) PROVE FailInv'
  BY <1>0, <1>8, DiscardFail
<1>9. ASSUME UNCHANGED <<nextId, failed, faults, job>>,
             \/ UNCHANGED rules
             \/ \E ids : rules' = Without(ids)
             \/ \E u \in Users : CmdCommit(u) /\ cmd[u].kind # "delete"
      PROVE  FailInv'
  <2>1. ASSUME NEW id \in RuleIds, rules'[id] # None
        PROVE  rules[id] # None /\ rules'[id].owner = rules[id].owner
    <3>1. \/ rules'[id] = rules[id]
          \/ rules[id] # None /\ \E kind : rules'[id] = SetEnabled(rules[id], kind)
      BY <1>9, <2>1 DEF CmdCommit, RulesOf, Without
    <3>2. rules[id] # None => rules[id] \in RuleRow
      BY <1>0
    <3> QED BY <2>1, <3>1, <3>2 DEF SetEnabled, RuleRow
  <2> QED BY <1>0, <1>9, <2>1, KeptFail DEF Onward
<1>10. ASSUME NEW u \in Users,
              \/ AuthWrite(u) \/ Logout(u) \/ CmdCommit(u)
              \/ \E token \in Tokens : AuthRead(u, token)
              \/ \E kind \in CmdKinds, id \in RuleIds : CmdBegin(u, kind, id)
       PROVE  FailInv'
  BY <1>9, <1>10 DEF AuthWrite, Logout, CmdCommit, AuthRead, CmdBegin, tables, tasks, history
<1>11. CASE (\E token \in Tokens : Revoke(token)) \/ Tick \/ UNCHANGED vars
  BY <1>9, <1>11 DEF Revoke, Tick, tables, tasks, history, vars
<1> QED BY <1>1, <1>2, <1>3, <1>4, <1>5, <1>6, <1>7, <1>8, <1>10, <1>11 DEF Next, Add

LEMMA InitFail == Init => FailInv
<1> SUFFICES ASSUME Init PROVE FailInv
  OBVIOUS
<1>1. IdleJob.todo = {} /\ IdleJob.phase = "idle"
  BY DEF IdleJob
<1>2. \A u \in Users : job[<<"add", u>>] = IdleJob
  BY AddIsWorker DEF Init
<1>3. AddOwns
  BY <1>1, <1>2 DEF AddOwns, Owned, Checking
<1> QED BY <1>3, InitCool DEF Init, FailInv, FailedFresh, FailedAddLeavesNothing

\* services.py (add): without faults, the rule of an add whose first check
\* failed is deleted, whatever its owner, the polls and other adds do meanwhile.
THEOREM FailedAddsLeaveNothing == Spec => []FailedAddLeavesNothing
<1>1. FailInv => FailedAddLeavesNothing
  BY DEF FailInv
<1> QED BY <1>1, InitFail, NextFail, PTL DEF Spec

-----------------------------------------------------------------------------
(***************************************************************************)
(* DeliveryTruth and PendingIsHeld.  Every alert a task still has to tell  *)
(* is in the hands of that task alone, once; its row is still pending, or  *)
(* deleted, and its DM has not gone out, but for the one whose outcome is  *)
(* about to be recorded (Told: how often it may have gone out by then).    *)
(* As long as nothing fails every pending alert is in such hands.          *)
(***************************************************************************)
Telling == {"deliver", "record"}

Told(j, i) ==
    IF j.phase = "record" /\ i = 1 THEN IF j.told THEN {1} ELSE {0, 1} ELSE {0}

Untold(j) ==
    /\ Len(j.events) >= 1 <=> j.phase \in Telling
    /\ \A i \in 1..Len(j.events) :
          /\ j.events[i] \in 1..Len(notes)
          /\ notes[j.events[i]].row \in {"pending", "deleted"}
          /\ notes[j.events[i]].dms \in Told(j, i)

AllUntold == \A w \in Workers : Untold(job[w])

OneHand ==
    \A w, v \in Workers : \A i \in 1..Len(job[w].events), k \in 1..Len(job[v].events) :
        job[w].events[i] = job[v].events[k] => w = v /\ i = k

InHand(n) == \E w \in Workers : \E i \in 1..Len(job[w].events) : job[w].events[i] = n

AllInHand ==
    faults = 0 => \A n \in 1..Len(notes) : notes[n].row = "pending" => InHand(n)

HandInv == TypeOK /\ AllUntold /\ OneHand /\ AllInHand /\ DeliveryTruth

\* What a step that tells nothing may do to a job: at most drop it.
Unheld(j, next) ==
    \/ next = j
    \/ /\ j.phase \notin Telling \/ faults' # 0
       /\ next.phase \notin Telling /\ Len(next.events) = 0

LEMMA JobTypes ==
    ASSUME TypeOK, NEW w \in Workers
    PROVE  job[w] \in Job /\ job[w].events \in Seq(Nat) /\ Len(job[w].events) \in Nat
BY LenProperties DEF TypeOK, TasksOK, Job

\* Steps that make no alert and tell none, but may delete some.
LEMMA KeptHands ==
    ASSUME HandInv, TypeOK', faults' # 0 \/ faults' = faults, Len(notes') = Len(notes),
           \A n \in 1..Len(notes) :
              /\ notes'[n].dms = notes[n].dms
              /\ notes'[n].row = notes[n].row \/ notes'[n].row = "deleted",
           \A w \in Workers : Unheld(job[w], job'[w])
    PROVE  HandInv'
<1>1. AllUntold'
  <2> SUFFICES ASSUME NEW w \in Workers PROVE Untold(job[w])'
    BY DEF AllUntold
  <2>1. CASE job'[w] = job[w]
    BY <2>1 DEF HandInv, AllUntold, Untold, Told
  <2>2. CASE job'[w].phase \notin Telling /\ Len(job'[w].events) = 0
    BY <2>2 DEF Untold
  <2> QED BY <2>1, <2>2 DEF Unheld
<1>2. OneHand'
  <2>1. ASSUME NEW w \in Workers, 1..Len(job'[w].events) # {}
        PROVE  job'[w] = job[w]
    BY <2>1 DEF Unheld
  <2> SUFFICES ASSUME NEW w \in Workers, NEW v \in Workers,
                      NEW i \in 1..Len(job'[w].events), NEW k \in 1..Len(job'[v].events),
                      job'[w].events[i] = job'[v].events[k]
               PROVE  w = v /\ i = k
    BY DEF OneHand
  <2>2. job'[w] = job[w] /\ job'[v] = job[v]
    BY <2>1
  <2> QED BY <2>2 DEF HandInv, OneHand
<1>3. AllInHand'
  <2> SUFFICES ASSUME faults' = 0, NEW n \in 1..Len(notes), notes'[n].row = "pending"
               PROVE  InHand(n)'
    BY DEF AllInHand
  <2>1. PICK w \in Workers : \E i \in 1..Len(job[w].events) : job[w].events[i] = n
    BY DEF HandInv, AllInHand, InHand
  <2>2. job[w].phase \in Telling
    <3>1. Len(job[w].events) >= 1
      BY <2>1, JobTypes DEF HandInv
    <3> QED BY <3>1 DEF HandInv, AllUntold, Untold
  <2>3. job'[w] = job[w]
    BY <2>2 DEF Unheld
  <2> QED BY <2>1, <2>3 DEF InHand
<1>4. DeliveryTruth'
  <2> SUFFICES ASSUME NEW n \in 1..Len(notes)
               PROVE  /\ notes'[n].dms <= 1
                      /\ notes'[n].row = "sent" => notes'[n].dms = 1
    BY DEF DeliveryTruth
  <2>1. \/ notes'[n].row = notes[n].row
        \/ notes'[n].row \notin {"sent", "failed"}
    OBVIOUS
  <2> QED BY <2>1 DEF HandInv, DeliveryTruth
<1> QED BY <1>1, <1>2, <1>3, <1>4 DEF HandInv

\* The step of one worker that has nothing to tell.
LEMMA QuietHands ==
    ASSUME HandInv, TypeOK', NEW w \in Workers, NEW next,
           UNCHANGED <<notes, faults>>, job[w].phase \notin Telling,
           job' = [job EXCEPT ![w] = next], next.phase \notin Telling,
           Len(next.events) = 0
    PROVE  HandInv'
<1>1. \A v \in Workers : Unheld(job[v], job'[v])
  BY DEF HandInv, TypeOK, TasksOK, Unheld
<1>2. Len(notes') = Len(notes)
  OBVIOUS
<1> QED BY <1>1, <1>2, KeptHands

LEMMA DeletedHands ==
    ASSUME HandInv, TypeOK', NEW ids, notes' = NotesWithout(ids), faults' = faults,
           \A w \in Workers : Unheld(job[w], job'[w])
    PROVE  HandInv'
<1>1. Len(notes') = Len(notes)
  BY WithoutType DEF HandInv, TypeOK
<1>2. ASSUME NEW n \in 1..Len(notes)
      PROVE  /\ notes'[n].dms = notes[n].dms
             /\ notes'[n].row = notes[n].row \/ notes'[n].row = "deleted"
  <2>1. notes[n] \in Note
    BY NoteTypes DEF HandInv
  <2>2. notes'[n] = IF notes[n].rule \in ids THEN [notes[n] EXCEPT !.row = "deleted"]
                    ELSE notes[n]
    BY DEF NotesWithout
  <2> QED BY <2>1, <2>2 DEF Note
<1> QED BY <1>1, <1>2, KeptHands

\* What a poll goes on to has nothing to tell yet.
LEMMA NextGroupQuiet ==
    ASSUME NEW j, NEW next \in NextGroup(j)
    PROVE  next.phase \notin Telling /\ Len(next.events) = 0
<1>1. Len(IdleJob.events) = 0 /\ IdleJob.phase = "idle"
  BY EmptySeq DEF IdleJob
<1>2. CASE next = IdleJob
  BY <1>1, <1>2 DEF Telling
<1>3. CASE next # IdleJob
  <2>1. PICK g \in j.todo :
            next = [IdleJob EXCEPT !.phase = "fetch", !.token = j.token,
                                   !.notify = j.notify, !.todo = j.todo \ {g}, !.group = g]
    BY <1>3 DEF NextGroup
  <2>2. next.phase = "fetch" /\ next.events = IdleJob.events
    BY <2>1 DEF IdleJob
  <2> QED BY <1>1, <2>2 DEF Telling
<1> QED BY <1>2, <1>3

\* The alerts of a transaction are new, and in the hands of the task that made
\* them.
LEMMA ProcessHands ==
    ASSUME HandInv, TypeOK', NEW w \in Workers, Process(w)
    PROVE  HandInv'
<1>0. /\ job[w].phase = "process" /\ job \in [Workers -> Job] /\ job[w] \in Job
      /\ faults' = faults /\ job[w].phase \notin Telling
  BY DEF Process, HandInv, TypeOK, TasksOK, Telling
<1>1. CASE users[Owner(w)] = None
  <2>1. IdleJob.phase \notin Telling /\ Len(IdleJob.events) = 0
    BY EmptySeq DEF IdleJob, Telling
  <2> QED BY <1>0, <1>1, <2>1, QuietHands DEF Process
<1>2. CASE users[Owner(w)] # None
  <2> DEFINE old == Len(notes)
  <2>1. PICK order \in Orders(Triggered(w)) :
           /\ notes' = notes \o NewNotes(w, order)
           /\ IF order = << >>
              THEN \E next \in NextGroup(job[w]) : job' = [job EXCEPT ![w] = next]
              ELSE job' = [job EXCEPT ![w] =
                     [IdleJob EXCEPT !.phase = "deliver", !.token = job[w].token,
                                     !.notify = job[w].notify, !.todo = job[w].todo,
                                     !.events = [i \in DOMAIN order |-> Len(notes) + i]]]
    BY <1>2 DEF Process, NewNotes
  <2>2. PICK k \in Nat : /\ order \in [1..k -> Triggered(w)]
                         /\ NewNotes(w, order) \in Seq(Note)
                         /\ Len(NewNotes(w, order)) = k
    BY NewNotesType DEF HandInv
  <2>3. notes \in Seq(Note) /\ old \in Nat
    BY LenProperties DEF HandInv, TypeOK, TablesOK
  <2>4. /\ Len(notes') = old + k
        /\ \A n \in 1..old + k :
              notes'[n] = IF n <= old THEN notes[n] ELSE NewNotes(w, order)[n - old]
    BY <2>1, <2>2, <2>3, ConcatProperties
  <2>5. order \in Seq(Triggered(w)) /\ Len(order) = k /\ DOMAIN order = 1..k
    BY <2>2, FunctionIsSeq
  <2>6. CASE order = << >>
    <3>1. k = 0
      BY <2>5, <2>6, EmptySeq
    <3>2. Len(notes') = Len(notes) /\ \A n \in 1..Len(notes) : notes'[n] = notes[n]
      BY <2>3, <2>4, <3>1
    <3>3. PICK next \in NextGroup(job[w]) : job' = [job EXCEPT ![w] = next]
      BY <2>1, <2>6
    <3>4. \A v \in Workers : Unheld(job[v], job'[v])
      BY <1>0, <3>3, NextGroupQuiet DEF Unheld
    <3> QED BY <1>0, <3>2, <3>4, KeptHands
  <2>7. CASE order # << >>
    <3> DEFINE events == [i \in DOMAIN order |-> Len(notes) + i]
               next == [IdleJob EXCEPT !.phase = "deliver", !.token = job[w].token,
                                       !.notify = job[w].notify, !.todo = job[w].todo,
                                       !.events = events]
    <3>1. k >= 1
      BY <2>5, <2>7, EmptySeq
    <3>2. job' = [job EXCEPT ![w] = next]
      BY <2>1, <2>7
    <3>3. next.phase = "deliver" /\ next.events = events
      BY DEF IdleJob
    <3>4. events \in [1..k -> Nat]
      BY <2>3, <2>5
    <3>5. Len(events) = k
      BY <2>2, <3>4, FunctionIsSeq
    <3>6. \A i \in 1..k : events[i] = old + i
      BY <2>5
    <3>7. job'[w] = next /\ \A v \in Workers : v # w => job'[v] = job[v]
      BY <1>0, <3>2
    <3> HIDE DEF next, events, old
    <3>8. \A i \in 1..k : job'[w].events[i] = old + i
      BY <3>3, <3>6, <3>7
    <3>9. Len(job'[w].events) = k /\ job'[w].phase = "deliver"
      BY <3>3, <3>5, <3>7
    <3>10. \A n \in 1..old : notes'[n] = notes[n] /\ n \in 1..Len(notes')
      BY <2>2, <2>3, <2>4
    <3>11. ASSUME NEW i \in 1..k
           PROVE  /\ notes'[old + i].row = "pending" /\ notes'[old + i].dms = 0
                  /\ old + i \in 1..Len(notes')
      <4>1. old + i \in 1..old + k /\ ~(old + i <= old) /\ (old + i) - old = i
        BY <2>2, <2>3
      <4>2. notes'[old + i] = NewNotes(w, order)[i]
        BY <2>4, <4>1
      <4> QED BY <2>4, <2>5, <4>1, <4>2 DEF NewNotes
    <3>12. ASSUME NEW v \in Workers, v # w, NEW i \in 1..Len(job[v].events)
           PROVE  job[v].events[i] \in 1..old
      BY DEF HandInv, AllUntold, Untold, old
    <3>13. ASSUME NEW v \in Workers, v # w PROVE Untold(job[v])'
      <4>1. Untold(job[v]) /\ job'[v] = job[v]
        BY <3>7, <3>13 DEF HandInv, AllUntold
      <4>2. \A i \in 1..Len(job[v].events) :
               notes'[job[v].events[i]] = notes[job[v].events[i]]
               /\ job[v].events[i] \in 1..Len(notes')
        BY <3>10, <3>12, <3>13
      <4> QED BY <4>1, <4>2 DEF Untold, Told
    <3>14. Untold(job[w])'
      BY <3>1, <3>8, <3>9, <3>11 DEF Untold, Told, Telling
    <3>15. OneHand'
      <4> SUFFICES ASSUME NEW v \in Workers, NEW x \in Workers,
                          NEW i \in 1..Len(job'[v].events), NEW j \in 1..Len(job'[x].events),
                          job'[v].events[i] = job'[x].events[j]
                   PROVE  v = x /\ i = j
        BY DEF OneHand
      <4>1. CASE v # w /\ x # w
        BY <3>7, <4>1 DEF HandInv, OneHand
      <4>2. CASE v = w /\ x = w
        BY <2>3, <3>8, <3>9, <4>2 DEF old
      <4>3. CASE v = w /\ x # w
        <5>1. i \in 1..k /\ job'[v].events[i] = old + i
          BY <3>8, <3>9, <4>3
        <5>2. job'[x].events[j] \in 1..old
          BY <3>7, <3>12, <4>3
        <5> QED BY <2>3, <5>1, <5>2
      <4>4. CASE v # w /\ x = w
        <5>1. j \in 1..k /\ job'[x].events[j] = old + j
          BY <3>8, <3>9, <4>4
        <5>2. job'[v].events[i] \in 1..old
          BY <3>7, <3>12, <4>4
        <5> QED BY <2>3, <5>1, <5>2
      <4> QED BY <4>1, <4>2, <4>3, <4>4
    <3>16. AllInHand'
      <4> SUFFICES ASSUME faults = 0, NEW n \in 1..Len(notes'), notes'[n].row = "pending"
                   PROVE  InHand(n)'
        BY <1>0 DEF AllInHand
      <4>1. CASE n > old
        <5>1. n - old \in 1..k /\ old + (n - old) = n
          BY <2>2, <2>3, <2>4, <4>1 DEF old
        <5>2. job'[w].events[n - old] = n
          BY <3>8, <5>1
        <5> QED BY <3>9, <5>1, <5>2 DEF InHand
      <4>2. CASE n <= old
        <5>1. n \in 1..old /\ notes[n].row = "pending"
          BY <2>3, <3>10, <4>2 DEF old
        <5>2. PICK v \in Workers : \E i \in 1..Len(job[v].events) : job[v].events[i] = n
          BY <5>1 DEF HandInv, AllInHand, InHand, old
        <5>3. v # w
          <6>1. Len(job[v].events) >= 1
            BY <5>2, JobTypes DEF HandInv
          <6> QED BY <1>0, <6>1 DEF HandInv, AllUntold, Untold
        <5> QED BY <3>7, <5>2, <5>3 DEF InHand
      <4> QED BY <2>2, <2>3, <2>4, <4>1, <4>2 DEF old
    <3>17. DeliveryTruth'
      <4> SUFFICES ASSUME NEW n \in 1..old + k
                   PROVE  /\ notes'[n].dms <= 1
                          /\ notes'[n].row = "sent" => notes'[n].dms = 1
        BY <2>4 DEF DeliveryTruth, old
      <4>1. CASE n > old
        <5>1. n - old \in 1..k /\ old + (n - old) = n
          BY <2>2, <2>3, <4>1 DEF old
        <5>2. notes'[n].row = "pending" /\ notes'[n].dms = 0
          BY <3>11, <5>1
        <5> QED BY <5>2
      <4>2. CASE n <= old
        <5>1. n \in 1..old /\ notes'[n] = notes[n]
          BY <2>3, <3>10, <4>2 DEF old
        <5> QED BY <5>1 DEF HandInv, DeliveryTruth, old
      <4> QED BY <2>2, <2>3, <4>1, <4>2 DEF old
    <3> QED BY <3>13, <3>14, <3>15, <3>16, <3>17 DEF HandInv, AllUntold
  <2> QED BY <2>6, <2>7
<1> QED BY <1>1, <1>2

\* The alert a task is telling: no other task, and no later place, has it.
LEMMA HeadFacts ==
    ASSUME HandInv, NEW w \in Workers, job[w].phase \in Telling
    PROVE  /\ Len(job[w].events) >= 1 /\ Head(job[w].events) = job[w].events[1]
           /\ Head(job[w].events) \in 1..Len(notes)
           /\ notes[Head(job[w].events)].row \in {"pending", "deleted"}
           /\ notes[Head(job[w].events)].dms \in Told(job[w], 1)
           /\ \A v \in Workers : \A i \in 1..Len(job[v].events) :
                 job[v].events[i] = Head(job[w].events) => v = w /\ i = 1
<1>1. job[w].events \in Seq(Nat) /\ Len(job[w].events) \in Nat
  BY JobTypes DEF HandInv
<1>2. Untold(job[w])
  BY DEF HandInv, AllUntold
<1>3. Len(job[w].events) >= 1
  BY <1>2 DEF Untold
<1>4. Head(job[w].events) = job[w].events[1] /\ 1 \in 1..Len(job[w].events)
  BY <1>1, <1>3
<1> QED BY <1>2, <1>3, <1>4 DEF Untold, HandInv, OneHand

\* The DM goes out once: the count of its alert was 0 before.
LEMMA DeliverHands ==
    ASSUME HandInv, TypeOK', NEW w \in Workers, NEW outcome \in Outcomes, Deliver(w, outcome)
    PROVE  HandInv'
<1> DEFINE m == Head(job[w].events)
           next == [job[w] EXCEPT !.phase = "record", !.told = (outcome = "accepted")]
<1>0. /\ job[w].phase = "deliver" /\ job \in [Workers -> Job] /\ job[w] \in Job
      /\ faults' = faults /\ notes \in Seq(Note) /\ Len(notes) \in Nat
      /\ DOMAIN notes = 1..Len(notes) /\ notes' \in Seq(Note)
      /\ notes' = IF outcome = "refused" THEN notes ELSE [notes EXCEPT ![m].dms = @ + 1]
      /\ job' = [job EXCEPT ![w] = next]
  BY LenProperties DEF Deliver, HandInv, TypeOK, TasksOK, TablesOK
<1>1. /\ next.phase = "record" /\ next.events = job[w].events
      /\ next.told => outcome = "accepted"
  BY <1>0 DEF Job
<1>2. job'[w] = next /\ \A v \in Workers : v # w => job'[v] = job[v]
  BY <1>0
<1> HIDE DEF next
<1>3. /\ Len(job[w].events) >= 1 /\ m = job[w].events[1] /\ m \in 1..Len(notes)
      /\ notes[m].row \in {"pending", "deleted"} /\ notes[m].dms \in Told(job[w], 1)
      /\ \A v \in Workers : \A i \in 1..Len(job[v].events) :
            job[v].events[i] = m => v = w /\ i = 1
  BY <1>0, HeadFacts DEF Telling
<1>4. notes[m].dms = 0
  BY <1>0, <1>3 DEF Told
<1> HIDE DEF m
<1>5. Len(notes') = Len(notes)
  BY <1>0, LenProperties
<1>6. ASSUME NEW n \in 1..Len(notes)
      PROVE  /\ notes'[n].row = notes[n].row
             /\ n # m => notes'[n].dms = notes[n].dms
             /\ n = m => notes'[n].dms = IF outcome = "refused" THEN 0 ELSE 1
  <2>1. notes[n] \in Note
    BY NoteTypes DEF HandInv
  <2>2. notes'[n] = IF n = m /\ outcome # "refused" THEN [notes[n] EXCEPT !.dms = @ + 1]
                    ELSE notes[n]
    BY <1>0
  <2> QED BY <1>4, <2>1, <2>2 DEF Note
<1>7. ASSUME NEW v \in Workers, v # w PROVE Untold(job[v])'
  <2>1. Untold(job[v]) /\ job'[v] = job[v]
    BY <1>2, <1>7 DEF HandInv, AllUntold
  <2>2. \A i \in 1..Len(job[v].events) : job[v].events[i] # m
    BY <1>3, <1>7
  <2>3. ASSUME NEW i \in 1..Len(job[v].events)
        PROVE  /\ job[v].events[i] \in 1..Len(notes')
               /\ notes'[job[v].events[i]].row \in {"pending", "deleted"}
               /\ notes'[job[v].events[i]].dms \in Told(job[v], i)
    <3>1. /\ job[v].events[i] \in 1..Len(notes)
          /\ notes[job[v].events[i]].row \in {"pending", "deleted"}
          /\ notes[job[v].events[i]].dms \in Told(job[v], i)
      BY <2>1 DEF Untold
    <3> QED BY <1>5, <1>6, <2>2, <3>1
  <2>4. Len(job[v].events) >= 1 <=> job[v].phase \in Telling
    BY <2>1 DEF Untold
  <2> QED BY <2>1, <2>3, <2>4 DEF Untold, Told
<1>8. Untold(job[w])'
  <2>1. Untold(job[w])
    BY DEF HandInv, AllUntold
  <2>2. ASSUME NEW i \in 1..Len(job[w].events)
        PROVE  /\ job[w].events[i] \in 1..Len(notes')
               /\ notes'[job[w].events[i]].row \in {"pending", "deleted"}
               /\ notes'[job[w].events[i]].dms \in Told(next, i)
    <3>1. /\ job[w].events[i] \in 1..Len(notes)
          /\ notes[job[w].events[i]].row \in {"pending", "deleted"}
          /\ notes[job[w].events[i]].dms = 0
      BY <1>0, <2>1 DEF Untold, Told
    <3>2. CASE i = 1
      <4>1. (IF outcome = "refused" THEN 0 ELSE 1) \in Told(next, i)
        BY <1>1, <3>2 DEF Told
      <4> QED BY <1>3, <1>5, <1>6, <3>1, <3>2, <4>1
    <3>3. CASE i # 1
      <4>1. job[w].events[i] # m
        BY <1>3, <3>3
      <4> QED BY <1>1, <1>5, <1>6, <3>1, <3>3, <4>1 DEF Told
    <3> QED BY <3>2, <3>3
  <2>3. job'[w] = next /\ next.phase = "record" /\ next.events = job[w].events
    BY <1>1, <1>2
  <2>4. Len(job[w].events) >= 1 /\ next.phase \in Telling
    BY <1>1, <1>3 DEF Telling
  <2>5. Untold(job[w])' <=>
           /\ Len(next.events) >= 1 <=> next.phase \in Telling
           /\ \A i \in 1..Len(next.events) :
                 /\ next.events[i] \in 1..Len(notes')
                 /\ notes'[next.events[i]].row \in {"pending", "deleted"}
                 /\ notes'[next.events[i]].dms \in Told(next, i)
    BY <2>3 DEF Untold, Told
  <2> QED BY <2>2, <2>3, <2>4, <2>5
<1>9. \A v \in Workers : job'[v].events = job[v].events
  BY <1>1, <1>2
<1>10. OneHand'
  <2>1. OneHand
    BY DEF HandInv
  <2> QED BY <1>9, <2>1 DEF OneHand
<1>11. AllInHand'
  BY <1>0, <1>5, <1>6, <1>9 DEF HandInv, AllInHand, InHand
<1>12. DeliveryTruth'
  <2> SUFFICES ASSUME NEW n \in 1..Len(notes)
               PROVE  /\ notes'[n].dms <= 1
                      /\ notes'[n].row = "sent" => notes'[n].dms = 1
    BY <1>5 DEF DeliveryTruth
  <2>1. CASE n = m
    BY <1>3, <1>6, <2>1
  <2>2. CASE n # m
    BY <1>6, <2>2 DEF HandInv, DeliveryTruth
  <2> QED BY <2>1, <2>2
<1> QED BY <1>7, <1>8, <1>10, <1>11, <1>12 DEF HandInv, AllUntold

\* The outcome is written to the row of the alert that was told, and the task
\* lets go of it.
LEMMA RecordHands ==
    ASSUME HandInv, TypeOK', NEW w \in Workers, Record(w)
    PROVE  HandInv'
<1> DEFINE m == Head(job[w].events)
           more == Len(job[w].events) > 1
<1>0. /\ job[w].phase = "record" /\ job \in [Workers -> Job] /\ job[w] \in Job
      /\ faults' = faults /\ notes \in Seq(Note) /\ Len(notes) \in Nat
      /\ DOMAIN notes = 1..Len(notes) /\ notes' \in Seq(Note)
      /\ notes' = IF notes[m].row = "deleted" THEN notes
                  ELSE [notes EXCEPT ![m].row = OutcomeOf(job[w])]
  BY LenProperties DEF Record, HandInv, TypeOK, TasksOK, TablesOK
<1>1. PICK next : /\ job' = [job EXCEPT ![w] = next]
                  /\ more => next = [job[w] EXCEPT !.phase = "deliver", !.told = FALSE,
                                                   !.events = Tail(@)]
                  /\ ~more => next \in NextGroup(job[w])
  <2>1. CASE more
    BY <2>1 DEF Record
  <2>2. CASE ~more
    BY <2>2 DEF Record
  <2> QED BY <2>1, <2>2
<1>2. job'[w] = next /\ \A v \in Workers : v # w => job'[v] = job[v]
  BY <1>0, <1>1
<1>3. /\ Len(job[w].events) >= 1 /\ m = job[w].events[1] /\ m \in 1..Len(notes)
      /\ notes[m].row \in {"pending", "deleted"} /\ notes[m].dms \in Told(job[w], 1)
      /\ \A v \in Workers : \A i \in 1..Len(job[v].events) :
            job[v].events[i] = m => v = w /\ i = 1
  BY <1>0, HeadFacts DEF Telling
<1>4. job[w].events \in Seq(Nat) /\ Len(job[w].events) \in Nat
  BY JobTypes DEF HandInv
<1>5. /\ more => /\ next.phase = "deliver" /\ Len(next.events) = Len(job[w].events) - 1
                 /\ \A i \in 1..Len(next.events) : next.events[i] = job[w].events[i + 1]
      /\ ~more => next.phase \notin Telling /\ Len(next.events) = 0
  <2>1. CASE more
    <3>1. next.phase = "deliver" /\ next.events = Tail(job[w].events)
      BY <1>0, <1>1, <2>1 DEF Job
    <3>2. job[w].events # << >>
      BY <2>1, EmptySeq
    <3> QED BY <1>4, <2>1, <3>1, <3>2, HeadTailProperties
  <2>2. CASE ~more
    BY <1>1, <2>2, NextGroupQuiet
  <2> QED BY <2>1, <2>2
<1>6. ASSUME NEW i \in 1..Len(next.events)
      PROVE  /\ more /\ i + 1 \in 1..Len(job[w].events) /\ i + 1 # 1
             /\ next.events[i] = job[w].events[i + 1]
  BY <1>4, <1>5
<1> HIDE DEF m, more
<1>7. Len(notes') = Len(notes)
  BY <1>0, LenProperties
<1>8. ASSUME NEW n \in 1..Len(notes)
      PROVE  /\ notes'[n].dms = notes[n].dms
             /\ n # m => notes'[n].row = notes[n].row
             /\ n = m => notes'[n].row \in {"deleted", OutcomeOf(job[w])}
  <2>1. notes[n] \in Note
    BY NoteTypes DEF HandInv
  <2>2. notes'[n] = IF n = m /\ notes[m].row # "deleted"
                    THEN [notes[n] EXCEPT !.row = OutcomeOf(job[w])] ELSE notes[n]
    BY <1>0
  <2> QED BY <2>1, <2>2 DEF Note
<1>9. ASSUME NEW v \in Workers, NEW i \in 1..Len(job'[v].events)
      PROVE  \E k \in 1..Len(job[v].events) :
                /\ job'[v].events[i] = job[v].events[k]
                /\ job[v].events[k] # m
                /\ k = IF v = w THEN i + 1 ELSE i
  <2>1. CASE v = w
    BY <1>2, <1>3, <1>6, <2>1
  <2>2. CASE v # w
    BY <1>2, <1>3, <2>2
  <2> QED BY <2>1, <2>2
<1>10. ASSUME NEW v \in Workers PROVE Untold(job[v])'
  <2>1. Untold(job[v])
    BY DEF HandInv, AllUntold
  <2>2. ASSUME NEW i \in 1..Len(job'[v].events)
        PROVE  /\ job'[v].events[i] \in 1..Len(notes')
               /\ notes'[job'[v].events[i]].row \in {"pending", "deleted"}
               /\ notes'[job'[v].events[i]].dms \in Told(job'[v], i)
    <3>1. PICK k \in 1..Len(job[v].events) :
                /\ job'[v].events[i] = job[v].events[k]
                /\ job[v].events[k] # m
                /\ k = IF v = w THEN i + 1 ELSE i
      BY <1>9
    <3>2. /\ job[v].events[k] \in 1..Len(notes)
          /\ notes[job[v].events[k]].row \in {"pending", "deleted"}
          /\ notes[job[v].events[k]].dms \in Told(job[v], k)
      BY <2>1 DEF Untold
    <3>3. Told(job[v], k) = Told(job'[v], i)
      <4>1. CASE v = w
        <5>1. next.phase = "deliver" /\ k # 1
          BY <1>2, <1>5, <1>6, <2>2, <3>1, <4>1
        <5> QED BY <1>2, <4>1, <5>1 DEF Told
      <4>2. CASE v # w
        BY <1>2, <3>1, <4>2
      <4> QED BY <4>1, <4>2
    <3> QED BY <1>7, <1>8, <3>1, <3>2, <3>3
  <2>3. Len(job'[v].events) >= 1 <=> job'[v].phase \in Telling
    <3>1. CASE v = w
      <4>1. CASE more
        BY <1>2, <1>5, <3>1, <4>1 DEF Telling, more
      <4>2. CASE ~more
        BY <1>2, <1>5, <3>1, <4>2
      <4> QED BY <4>1, <4>2
    <3>2. CASE v # w
      BY <1>2, <2>1, <3>2 DEF Untold
    <3> QED BY <3>1, <3>2
  <2> QED BY <2>2, <2>3 DEF Untold
<1>11. OneHand'
  <2> SUFFICES ASSUME NEW v \in Workers, NEW x \in Workers,
                      NEW i \in 1..Len(job'[v].events), NEW j \in 1..Len(job'[x].events),
                      job'[v].events[i] = job'[x].events[j]
               PROVE  v = x /\ i = j
    BY DEF OneHand
  <2>1. PICK k \in 1..Len(job[v].events) :
              /\ job'[v].events[i] = job[v].events[k] /\ k = IF v = w THEN i + 1 ELSE i
    BY <1>9
  <2>2. PICK l \in 1..Len(job[x].events) :
              /\ job'[x].events[j] = job[x].events[l] /\ l = IF x = w THEN j + 1 ELSE j
    BY <1>9
  <2>3. v = x /\ k = l
    <3>1. job[v].events[k] = job[x].events[l]
      BY <2>1, <2>2
    <3> QED BY <3>1 DEF HandInv, OneHand
  <2>4. i \in Int /\ j \in Int
    OBVIOUS
  <2> QED BY <2>1, <2>2, <2>3, <2>4
<1>12. AllInHand'
  <2> SUFFICES ASSUME faults = 0, NEW n \in 1..Len(notes), notes'[n].row = "pending"
               PROVE  InHand(n)'
    BY <1>0, <1>7 DEF AllInHand
  <2>1. n # m
    <3>1. OutcomeOf(job[w]) \in {"sent", "failed"}
      BY DEF OutcomeOf
    <3> QED BY <1>8, <3>1
  <2>2. PICK v \in Workers : \E i \in 1..Len(job[v].events) : job[v].events[i] = n
    BY <1>8, <2>1 DEF HandInv, AllInHand, InHand
  <2>3. PICK i \in 1..Len(job[v].events) : job[v].events[i] = n
    BY <2>2
  <2>4. CASE v # w
    BY <1>2, <2>3, <2>4 DEF InHand
  <2>5. CASE v = w
    <3>1. i # 1 /\ i \in Nat
      BY <1>3, <2>1, <2>3, <2>5
    <3>2. more /\ i - 1 \in 1..Len(next.events) /\ (i - 1) + 1 = i
      BY <1>4, <1>5, <2>3, <2>5, <3>1 DEF more
    <3>3. job'[w].events[i - 1] = n
      BY <1>2, <1>5, <2>3, <2>5, <3>2
    <3> QED BY <1>2, <3>2, <3>3 DEF InHand
  <2> QED BY <2>4, <2>5
<1>13. DeliveryTruth'
  <2> SUFFICES ASSUME NEW n \in 1..Len(notes)
               PROVE  /\ notes'[n].dms <= 1
                      /\ notes'[n].row = "sent" => notes'[n].dms = 1
    BY <1>7 DEF DeliveryTruth
  <2>1. CASE n = m
    BY <1>0, <1>3, <1>8, <2>1 DEF OutcomeOf, Told
  <2>2. CASE n # m
    BY <1>8, <2>2 DEF HandInv, DeliveryTruth
  <2> QED BY <2>1, <2>2
<1> QED BY <1>10, <1>11, <1>12, <1>13 DEF HandInv, AllUntold

\* Every other step, of a task or of the world.
LEMMA QuietSteps ==
    ASSUME HandInv, TypeOK', NEW w \in Workers,
           \/ \E price \in Prices \cup {None} : FetchOk(w, price)
           \/ FetchFails(w) \/ FetchRejected(w) \/ Invalidate(w) \/ ReauthDm(w)
    PROVE  HandInv'
<1>0. /\ job[w] \in Job /\ UNCHANGED <<notes, faults>>
      /\ job[w].phase \in {"fetch", "invalidate", "dm"} /\ job[w].phase \notin Telling
  BY DEF HandInv, TypeOK, TasksOK, FetchOk, FetchFails, FetchRejected, Invalidate, ReauthDm,
         tables, Telling
<1>1. Len(job[w].events) = 0
  <2>1. Untold(job[w]) /\ Len(job[w].events) \in Nat
    BY JobTypes DEF HandInv, AllUntold
  <2> QED BY <1>0, <2>1 DEF Untold
<1>2. Len(IdleJob.events) = 0 /\ IdleJob.phase = "idle"
  BY EmptySeq DEF IdleJob
<1>3. ASSUME NEW next, job' = [job EXCEPT ![w] = next],
             next.phase \in {"idle", "fetch", "process", "discard", "invalidate", "dm"},
             next.events = job[w].events \/ next.events = IdleJob.events
      PROVE  HandInv'
  BY <1>0, <1>1, <1>2, <1>3, QuietHands DEF Telling
<1> HIDE DEF HandInv
<1>4. ASSUME NEW price \in Prices \cup {None}, FetchOk(w, price) PROVE HandInv'
  <2> DEFINE next == [job[w] EXCEPT !.phase = "process", !.price = price, !.at = clock]
  <2>1. next.phase = "process" /\ next.events = job[w].events
    BY <1>0 DEF Job
  <2>2. job' = [job EXCEPT ![w] = next]
    BY <1>4 DEF FetchOk
  <2> HIDE DEF next
  <2> QED BY <1>3, <2>1, <2>2
<1>5. ASSUME job' = [job EXCEPT ![w].phase = "discard"] PROVE HandInv'
  <2> DEFINE next == [job[w] EXCEPT !.phase = "discard"]
  <2>1. next.phase = "discard" /\ next.events = job[w].events
    BY <1>0 DEF Job
  <2>2. job' = [job EXCEPT ![w] = next]
    BY <1>5
  <2> HIDE DEF next
  <2> QED BY <1>3, <2>1, <2>2
<1>6. CASE FetchFails(w)
  <2>1. ASSUME NEW next \in NextGroup(job[w]), job' = [job EXCEPT ![w] = next]
        PROVE  HandInv'
    BY <1>0, <2>1, NextGroupQuiet, QuietHands
  <2> QED BY <1>5, <1>6, <2>1 DEF FetchFails
<1>7. CASE FetchRejected(w)
  <2>1. CASE IsPoll(w)
    <3> DEFINE next == [IdleJob EXCEPT !.phase = "invalidate", !.token = job[w].token,
                                       !.notify = job[w].notify]
    <3>1. next.phase = "invalidate" /\ next.events = IdleJob.events
      BY DEF IdleJob
    <3>2. job' = [job EXCEPT ![w] = next]
      BY <1>7, <2>1 DEF FetchRejected
    <3> HIDE DEF next
    <3> QED BY <1>3, <3>1, <3>2
  <2>2. CASE ~IsPoll(w)
    <3> DEFINE next == [job[w] EXCEPT !.phase = "discard"]
    <3>1. next.phase = "discard" /\ next.events = job[w].events
      BY <1>0 DEF Job
    <3>2. job' = [job EXCEPT ![w] = next]
      BY <1>7, <2>2 DEF FetchRejected
    <3> HIDE DEF next
    <3> QED BY <1>3, <3>1, <3>2
  <2> QED BY <2>1, <2>2
<1>8. CASE Invalidate(w) \/ ReauthDm(w)
  <2> DEFINE dm == [IdleJob EXCEPT !.phase = "dm"]
  <2>1. dm.phase = "dm" /\ dm.events = IdleJob.events
    BY DEF IdleJob
  <2>2. job' = [job EXCEPT ![w] = dm] \/ job' = [job EXCEPT ![w] = IdleJob]
    BY <1>8 DEF Invalidate, ReauthDm
  <2> HIDE DEF dm
  <2> QED BY <1>2, <1>3, <2>1, <2>2
<1> QED BY <1>4, <1>6, <1>7, <1>8

LEMMA NextHands == HandInv /\ [Next]_vars => HandInv'
<1> SUFFICES ASSUME HandInv, [Next]_vars PROVE HandInv'
  OBVIOUS
<1>0. TypeOK' /\ faults \in Nat /\ job \in [Workers -> Job]
  BY NextType DEF HandInv, TypeOK, TasksOK
<1>i. Len(IdleJob.events) = 0 /\ IdleJob.phase = "idle" /\ IdleJob.phase \notin Telling
  BY EmptySeq DEF IdleJob, Telling
<1>s. ASSUME UNCHANGED <<notes, faults, job>> PROVE HandInv'
  BY <1>0, <1>s, KeptHands DEF Unheld
<1>1. ASSUME NEW due \in SUBSET Users, StartCycle(due) PROVE HandInv'
  <2>1. ASSUME NEW w \in Workers
        PROVE  Unheld(job[w], job'[w])
    <3>1. CASE IsPoll(w) /\ Owner(w) \in due
      <4>1. w = <<"poll", Owner(w)>> /\ Owner(w) \in Users
        BY <3>1 DEF Workers, IsPoll, Owner
      <4>2. job[w].phase = "idle"
        BY <1>1, <4>1 DEF StartCycle
      <4>3. PICK g, h :
               job'[w] = [IdleJob EXCEPT !.phase = "fetch",
                                         !.token = users[Owner(w)].token,
                                         !.notify = ~users[Owner(w)].notified,
                                         !.todo = h, !.group = g]
        BY <1>1, <3>1 DEF StartCycle
      <4>4. job'[w].phase = "fetch" /\ job'[w].events = IdleJob.events
        BY <4>3 DEF IdleJob
      <4> QED BY <1>i, <4>2, <4>4 DEF Unheld, Telling
    <3>2. CASE ~(IsPoll(w) /\ Owner(w) \in due)
      BY <1>1, <3>2 DEF StartCycle, Unheld
    <3> QED BY <3>1, <3>2
  <2>2. UNCHANGED <<notes, faults>>
    BY <1>1 DEF StartCycle, tables
  <2> QED BY <1>0, <2>1, <2>2, KeptHands
<1>2. ASSUME NEW w \in Workers, Work(w) \/ FetchFails(w) \/ Poll(w) PROVE HandInv'
  BY <1>0, <1>2, QuietSteps, ProcessHands, DeliverHands, RecordHands DEF Work, Poll
<1>3. ASSUME NEW w \in Workers, TaskError(w) PROVE HandInv'
  <2>1. job' = [job EXCEPT ![w] = IdleJob] /\ notes' = notes /\ faults' # 0
    BY <1>0, <1>3 DEF TaskError, tables
  <2>2. \A v \in Workers : Unheld(job[v], job'[v])
    BY <1>0, <1>i, <2>1 DEF Unheld
  <2> QED BY <1>0, <2>1, <2>2, KeptHands
<1>4. CASE Crash
  <2>1. notes' = notes /\ faults' # 0
    BY <1>0, <1>4 DEF Crash, tables
  <2>2. ASSUME NEW v \in Workers PROVE job'[v] = IdleJob
    BY <1>4 DEF Crash
  <2>3. \A v \in Workers : Unheld(job[v], job'[v])
    BY <1>i, <2>1, <2>2 DEF Unheld
  <2> QED BY <1>0, <2>1, <2>3, KeptHands
<1>5. ASSUME NEW u \in Users, AddBegin(u) \/ \E item \in Items : AddInsert(u, item)
      PROVE  HandInv'
  <2> DEFINE w == <<"add", u>>
             begun == [IdleJob EXCEPT !.phase = "insert", !.token = users[u].token]
             asks == [job[w] EXCEPT !.phase = "fetch", !.group = {nextId}]
  <2>1. /\ w \in Workers /\ UNCHANGED <<notes, faults>> /\ job[w].phase \in {"idle", "insert"}
        /\ job[w] \in Job
    BY <1>0, <1>5, AddIsWorker DEF AddBegin, AddInsert, tables
  <2>2. job' = [job EXCEPT ![w] = begun] \/ job' = [job EXCEPT ![w] = IdleJob]
        \/ job' = [job EXCEPT ![w] = asks]
    <3>1. CASE AddBegin(u)
      BY <3>1 DEF AddBegin
    <3>2. CASE \E item \in Items : AddInsert(u, item)
      <4>1. \/ job' = [job EXCEPT ![w] = IdleJob]
            \/ job' = [job EXCEPT ![w].phase = "fetch", ![w].group = {nextId}]
        BY <3>2 DEF AddInsert
      <4> QED BY <1>0, <2>1, <4>1
    <3> QED BY <1>5, <3>1, <3>2
  <2>3. Len(job[w].events) = 0
    <3>1. Untold(job[w]) /\ Len(job[w].events) \in Nat
      BY <2>1, JobTypes DEF HandInv, AllUntold
    <3> QED BY <2>1, <3>1 DEF Untold, Telling
  <2>4. /\ begun.phase = "insert" /\ begun.events = IdleJob.events
        /\ asks.phase = "fetch" /\ asks.events = job[w].events
    BY <2>1 DEF IdleJob, Job
  <2> HIDE DEF begun, asks, w
  <2> QED BY <1>0, <1>i, <2>1, <2>2, <2>3, <2>4, QuietHands DEF Telling
<1>6. ASSUME NEW u \in Users, Discard(u) PROVE HandInv'
  <2> DEFINE w == <<"add", u>>
             ids == job[w].group \cap RulesOf(u)
  <2>1. /\ w \in Workers /\ job[w].phase = "discard" /\ job' = [job EXCEPT ![w] = IdleJob]
        /\ notes' = NotesWithout(ids) /\ faults' = faults
    BY <1>6, AddIsWorker DEF Discard
  <2>2. \A v \in Workers : Unheld(job[v], job'[v])
    BY <1>0, <1>i, <2>1 DEF Unheld, Telling
  <2> HIDE DEF ids
  <2> QED BY <1>0, <2>1, <2>2, DeletedHands
<1>7. ASSUME NEW u \in Users, Logout(u) \/ (CmdCommit(u) /\ cmd[u].kind = "delete")
      PROVE  HandInv'
  <2>1. PICK ids : notes' = NotesWithout(ids)
    BY <1>7 DEF Logout, CmdCommit
  <2>2. UNCHANGED <<job, faults>>
    BY <1>7 DEF Logout, CmdCommit, tasks
  <2> QED BY <1>0, <2>1, <2>2, DeletedHands DEF Unheld
<1>8. ASSUME NEW u \in Users,
             \/ AuthWrite(u) \/ (CmdCommit(u) /\ cmd[u].kind # "delete")
             \/ \E token \in Tokens : AuthRead(u, token)
             \/ \E kind \in CmdKinds, id \in RuleIds : CmdBegin(u, kind, id)
      PROVE  HandInv'
  BY <1>s, <1>8 DEF AuthWrite, CmdCommit, AuthRead, CmdBegin, tables
<1>9. CASE (\E token \in Tokens : Revoke(token)) \/ Tick \/ UNCHANGED vars
  BY <1>s, <1>9 DEF Revoke, Tick, tables, tasks, vars
<1> QED BY <1>1, <1>2, <1>3, <1>4, <1>5, <1>6, <1>7, <1>8, <1>9 DEF Next, Add

LEMMA InitHands == Init => HandInv
<1> SUFFICES ASSUME Init PROVE HandInv
  OBVIOUS
<1>1. \A w \in Workers : Len(job[w].events) = 0 /\ job[w].phase \notin Telling
  BY EmptySeq DEF Init, IdleJob, Telling
<1>2. Len(notes) = 0
  BY EmptySeq DEF Init
<1> QED BY <1>1, <1>2, InitType DEF HandInv, AllUntold, Untold, OneHand, AllInHand, DeliveryTruth

\* services.py (process, _deliver): the DM of a row marked sent went out once, and
\* none goes out twice, through lost answers, deletions, errors and restarts.
THEOREM DeliveryIsTrue == Spec => []DeliveryTruth
<1>1. HandInv => DeliveryTruth
  BY DEF HandInv
<1> QED BY <1>1, InitHands, NextHands, PTL DEF Spec

\* services.py: without faults a pending alert is held by exactly one task.
THEOREM PendingIsAlwaysHeld == Spec => []PendingIsHeld
<1>1. ASSUME HandInv, faults = 0, NEW n \in 1..Len(notes), notes[n].row = "pending"
      PROVE  Cardinality(Holders(n)) = 1
  <2>1. PICK w \in Workers : \E i \in 1..Len(job[w].events) : job[w].events[i] = n
    BY <1>1 DEF HandInv, AllInHand, InHand
  <2>2. \A v \in Workers : DOMAIN job[v].events = 1..Len(job[v].events)
    BY <1>1, JobTypes, LenProperties DEF HandInv
  <2>3. \A v \in Workers : (\E i \in 1..Len(job[v].events) : job[v].events[i] = n) => v = w
    BY <1>1, <2>1 DEF HandInv, OneHand
  <2>4. Holders(n) = {w}
    BY <2>1, <2>2, <2>3 DEF Holders
  <2> QED BY <2>4, FS_Singleton
<1>2. HandInv => PendingIsHeld
  BY <1>1 DEF PendingIsHeld
<1> QED BY <1>2, InitHands, NextHands, PTL DEF Spec

=============================================================================
