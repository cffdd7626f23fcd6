------------------------ MODULE PostgresLedgerProofs ------------------------
(***************************************************************************)
(* Proofs about the PostgreSQL ledger, for any subjects, events, writers,  *)
(* readers, hashes of their names and faults.                              *)
(*                                                                         *)
(* The argument is one of ownership.  A backend is named by its call, its  *)
(* round and its attempt, so that no two have one name, a lost one         *)
(* included.  From the lookup on a call owns the locks of its event and of *)
(* its subject; a lost backend that may still commit owns them too.  So    *)
(* whoever is about to write is the only one who is, for that event and    *)
(* that subject, and what it has read is still so.                         *)
(*                                                                         *)
(* The last part maps every step to one of AppendOnlyLedger.  It adds what *)
(* a call and a lost backend know of the row they are about to write, and  *)
(* that the rows of a subject are numbered without a gap.                  *)
(***************************************************************************)
EXTENDS PostgresLedgerProperties, FiniteSetTheorems, TLAPS

Locked(c) ==
  pc[c] \in {"lookup", "readHead", "readTail", "insert", "advance", "commit"}

CallsInv ==
  /\ pc \in [Calls -> Statements]
  /\ round \in [Calls -> Nat \ {0}]
  /\ attempt \in [Calls -> Nat]
  /\ DOMAIN head = Calls
  /\ DOMAIN draft = Calls
  /\ DOMAIN locks = LockKeys
  /\ DOMAIN heads = Subjects

ReadersTypeInv ==
  /\ reading \in [Readers -> {"idle", "events", "heads"}]
  /\ scope \in [Readers -> Subjects \union {AllSubjects}]
  /\ DOMAIN view = Readers
  /\ DOMAIN read = Readers
  /\ DOMAIN verdict = Readers

\* A lost backend has a name that its call no longer uses, and no other backend.
Outlived(b) ==
  /\ b.by \in Calls \X (Nat \ {0}) \X Nat
  /\ \/ pc[b.by[1]] = "done"
     \/ b.by[2] < round[b.by[1]]
     \/ b.by[2] = round[b.by[1]] /\ b.by[3] < attempt[b.by[1]]

NamesInv ==
  /\ \A b \in abandoned : Outlived(b)
  /\ \A a, b \in abandoned : a.by = b.by => a = b

MayCommit(b) == b.committing /\ b.row # NoRow

\* The next event of its subject, of an id that is not stored.
IsNext(row) ==
  /\ row.subject \in Subjects
  /\ row.id \in Ids
  /\ row.sequence = heads[row.subject].sequence + 1
  /\ row.previousHash = heads[row.subject].hash
  /\ row.eventHash = OwnHash(row)
  /\ \A q \in rows : q.id # row.id

\* What a call owns, and what it knows from its reads.
OwnLocks(c) ==
  /\ pc[c] = "lockSubject" \/ Locked(c) => locks[EventKey[Input[c].id]] = Me(c)
  /\ Locked(c) => locks[SubjectKey[SubjectOf(c)]] = Me(c)

OwnDraft(c) ==
  /\ pc[c] \in {"lockEvent", "lockSubject", "lookup", "readHead", "readTail", "insert"}
       => draft[c] = NoRow
  /\ pc[c] \in {"readHead", "readTail", "insert", "advance"} => Existing(c) = {}
  /\ pc[c] \in {"readTail", "insert", "advance"} => head[c] = heads[SubjectOf(c)]
  /\ pc[c] = "advance" \/ (pc[c] = "commit" /\ draft[c] # NoRow) =>
       /\ IsNext(draft[c])
       /\ draft[c].id = Input[c].id
       /\ draft[c].subject = SubjectOf(c)

\* The same of a lost backend that may commit, and of a reader of one subject.
BackendInv(b) ==
  MayCommit(b) =>
    /\ locks[EventKey[b.row.id]] = b.by
    /\ locks[SubjectKey[b.row.subject]] = b.by
    /\ IsNext(b.row)

ReaderInv(r) ==
  /\ reading[r] = "idle" => scope[r] = AllSubjects
  /\ reading[r] = "events" => scope[r] # AllSubjects
  /\ reading[r] # "idle" /\ scope[r] # AllSubjects =>
       /\ locks[SubjectKey[scope[r]]] = <<r, 0, 0>>
       /\ reading[r] = "heads" => read[r] = OfSubjectIn(rows, scope[r])
  /\ reading[r] = "heads" /\ scope[r] = AllSubjects =>
       \A s \in Subjects : Agree(read[r], view[r], s)

OwnersInv ==
  /\ \A c \in Calls : OwnLocks(c) /\ OwnDraft(c)
  /\ \A b \in abandoned : BackendInv(b)
  /\ \A r \in Readers : ReaderInv(r)

\* The chain of a subject, with its head.
ChainInv(s) ==
  /\ Chained(OfSubjectIn(rows, s))
  /\ \/ OfSubjectIn(rows, s) = {} /\ heads[s] = NoHead
     \/ \E r \in OfSubjectIn(rows, s) :
          /\ heads[s] = HeadAt(r)
          /\ \A q \in OfSubjectIn(rows, s) : q.sequence <= r.sequence

RowsInv ==
  /\ \A r \in rows : r.subject \in Subjects /\ r.sequence \in Nat \ {0}
  /\ \A s \in Subjects : ChainInv(s)
  /\ IdIsStoredOnce

LedgerInv ==
  CallsInv /\ ReadersTypeInv /\ NamesInv /\ OwnersInv /\ RowsInv /\ ReadersSeeWholeChains

-----------------------------------------------------------------------------
(***************************************************************************)
(* The chain of a subject.                                                 *)
(***************************************************************************)
\* The head of a chain names its last event.
LEMMA HeadIsTail ==
  ASSUME NEW s, ChainInv(s), \A r \in rows : r.sequence \in Nat
  PROVE  heads[s] = TailIn(rows, s)
<1> DEFINE mine == OfSubjectIn(rows, s)
<1>1. CASE mine = {}
  BY <1>1 DEF ChainInv, TailIn
<1>2. CASE mine # {}
  <2>1. PICK r \in mine : heads[s] = HeadAt(r) /\ \A q \in mine : q.sequence <= r.sequence
    BY <1>2 DEF ChainInv
  <2>2. \A t \in mine : (\A q \in mine : q.sequence <= t.sequence) => t = r
    <3> TAKE t \in mine
    <3> HAVE \A q \in mine : q.sequence <= t.sequence
    <3>1. t.sequence = r.sequence
      BY <2>1 DEF OfSubjectIn
    <3> QED
      BY <3>1 DEF ChainInv, Chained
  <2>3. (CHOOSE t \in mine : \A q \in mine : q.sequence <= t.sequence) = r
    BY <2>1, <2>2
  <2> QED
    BY <1>2, <2>1, <2>3 DEF TailIn
<1> QED
  BY <1>1, <1>2

\* Where every chain is right, events and heads agree.
LEMMA ChainsAgree ==
  ASSUME RowsInv, NEW s \in Subjects
  PROVE  Agree(rows, heads, s)
<1>1. ChainInv(s) /\ \A r \in rows : r.sequence \in Nat
  BY DEF RowsInv
<1> QED
  BY <1>1, HeadIsTail DEF Agree, ChainInv

\* The next event of a subject lengthens its chain and leaves the others alone.
LEMMA StoreKeepsRows ==
  ASSUME RowsInv, DOMAIN heads = Subjects, NEW row, IsNext(row), Store(row)
  PROVE  /\ RowsInv'
         /\ \A s \in Subjects : s # row.subject =>
              heads'[s] = heads[s] /\ OfSubjectIn(rows', s) = OfSubjectIn(rows, s)
         /\ DOMAIN heads' = Subjects
<1>1. /\ rows' = rows \union {row}
      /\ DOMAIN heads' = Subjects
      /\ heads'[row.subject] = HeadAt(row)
      /\ \A s \in Subjects : s # row.subject =>
           heads'[s] = heads[s] /\ OfSubjectIn(rows', s) = OfSubjectIn(rows, s)
  BY DEF Store, IsNext, OfSubjectIn
<1>2. /\ row.sequence \in Nat \ {0}
      /\ \A q \in OfSubjectIn(rows, row.subject) : q.sequence < row.sequence
      /\ \/ row.sequence = 1 /\ row.previousHash = GENESIS
         \/ \E q \in OfSubjectIn(rows, row.subject) :
              row.sequence = q.sequence + 1 /\ row.previousHash = q.eventHash
  <2> DEFINE mine == OfSubjectIn(rows, row.subject)
  <2>1. ChainInv(row.subject) /\ \A q \in mine : q.sequence \in Nat \ {0}
    BY DEF RowsInv, IsNext, OfSubjectIn
  <2>2. CASE mine = {} /\ heads[row.subject] = NoHead
    BY <2>2 DEF IsNext, NoHead
  <2>3. CASE \E r \in mine : heads[row.subject] = HeadAt(r) /\ \A q \in mine : q.sequence <= r.sequence
    <3>1. PICK r \in mine : heads[row.subject] = HeadAt(r) /\ \A q \in mine : q.sequence <= r.sequence
      BY <2>3
    <3>2. row.sequence = r.sequence + 1 /\ row.previousHash = r.eventHash
      BY <3>1 DEF IsNext, HeadAt
    <3> QED
      BY <2>1, <3>1, <3>2
  <2> QED
    BY <2>1, <2>2, <2>3 DEF ChainInv
<1>3. ChainInv(row.subject)'
  <2> DEFINE mine == OfSubjectIn(rows, row.subject)
             next == mine \union {row}
  <2>1. OfSubjectIn(rows', row.subject) = next
    BY <1>1 DEF OfSubjectIn
  <2>2. Chained(mine) /\ \A q \in mine : q.sequence \in Nat
    BY DEF RowsInv, ChainInv, IsNext, OfSubjectIn
  <2>3. Chained(next)
    BY <1>2, <2>2 DEF Chained, IsNext
  <2>4. \A q \in next : q.sequence <= row.sequence
    BY <1>2, <2>2
  <2> QED
    BY <1>1, <2>1, <2>3, <2>4 DEF ChainInv
<1>4. \A s \in Subjects : s # row.subject => ChainInv(s)'
  BY <1>1 DEF RowsInv, ChainInv
<1>5. \A r \in rows' : r.subject \in Subjects /\ r.sequence \in Nat \ {0}
  BY <1>1, <1>2 DEF RowsInv, IsNext
<1>6. IdIsStoredOnce'
  BY <1>1 DEF RowsInv, IdIsStoredOnce, IsNext
<1> QED
  BY <1>1, <1>3, <1>4, <1>5, <1>6 DEF RowsInv

-----------------------------------------------------------------------------
(***************************************************************************)
(* Names, and what their owners own.                                       *)
(***************************************************************************)
\* Two calls, a call and a lost backend, a call and a reader have two names.
LEMMA NamesDiffer ==
  ASSUME CallsInv, NamesInv, NEW c \in Calls
  PROVE  /\ Me(c) # Nobody
         /\ \A d \in Calls : d # c => Me(d) # Me(c)
         /\ \A r : Me(c) # <<r, 0, 0>>
         /\ pc[c] # "done" => \A b \in abandoned : b.by # Me(c)
<1>1. round[c] \in Nat \ {0} /\ attempt[c] \in Nat
  BY DEF CallsInv
<1>2. ASSUME pc[c] # "done", NEW b \in abandoned, b.by = Me(c) PROVE FALSE
  <2>1. b.by[1] = c /\ b.by[2] = round[c] /\ b.by[3] = attempt[c]
    BY <1>2 DEF Me
  <2> QED
    BY <1>1, <1>2, <2>1 DEF NamesInv, Outlived
<1> QED
  BY <1>1, <1>2 DEF Me, Nobody

\* So have a lost backend and a reader.
LEMMA BackendsAreNotReaders ==
  ASSUME NamesInv, NEW b \in abandoned
  PROVE  b.by # Nobody /\ \A r : b.by # <<r, 0, 0>>
<1>1. b.by \in Calls \X (Nat \ {0}) \X Nat
  BY DEF NamesInv, Outlived
<1>2. b.by[2] # 0
  BY <1>1
<1> QED
  BY <1>2 DEF Nobody

\* Whoever owns the locks of an event and a subject is alone with both.
LEMMA OwnersAreAlone ==
  ASSUME OwnersInv, NEW row, NEW me,
         locks[EventKey[row.id]] = me, locks[SubjectKey[row.subject]] = me
  PROVE  /\ \A c \in Calls : Locked(c) /\ Me(c) # me =>
              Input[c].id # row.id /\ SubjectOf(c) # row.subject
         /\ \A b \in abandoned : MayCommit(b) /\ b.by # me =>
              b.row.id # row.id /\ b.row.subject # row.subject
         /\ \A r \in Readers : reading[r] # "idle" /\ scope[r] # AllSubjects /\ <<r, 0, 0>> # me =>
              scope[r] # row.subject
BY DEF OwnersInv, OwnLocks, BackendInv, ReaderInv

\* A step of one call: it gets no name it had before, and nothing of any other
\* call changes.
Moves(c) ==
  /\ pc' \in [Calls -> Statements]
  /\ round' \in [Calls -> Nat \ {0}]
  /\ attempt' \in [Calls -> Nat]
  /\ DOMAIN head' = Calls
  /\ DOMAIN draft' = Calls
  /\ \A d \in Calls : d # c =>
       /\ pc'[d] = pc[d]
       /\ head'[d] = head[d]
       /\ draft'[d] = draft[d]
       /\ round'[d] = round[d]
       /\ attempt'[d] = attempt[d]
  /\ \/ round'[c] = round[c] /\ attempt'[c] = attempt[c]
     \/ round[c] < round'[c]
     \/ round'[c] = round[c] /\ attempt[c] < attempt'[c]

\* A step out of its transaction, to repeat it under a new name or for good.
Leaves(c) ==
  /\ Moves(c)
  /\ draft'[c] = NoRow
  /\ \/ pc'[c] = "done"
     \/ pc'[c] = "lockEvent" /\ (round[c] < round'[c] \/ attempt[c] < attempt'[c])

\* Whoever is answered has left its transaction.
LEMMA SettleLeaves ==
  ASSUME CallsInv, NEW c \in Calls, NEW a, Settle(c, a)
  PROVE  Leaves(c)
BY DEF CallsInv, Settle, GoTo, Leaves, Moves, retries, Statements

\* So has whoever meets an error, answered or not.
LEMMA RaiseLeaves ==
  ASSUME CallsInv, NEW c \in Calls, NEW a, NEW retryable \in BOOLEAN, NEW coded \in BOOLEAN,
         Raise(c, a, retryable, coded)
  PROVE  Leaves(c)
<1> DEFINE again == retryable /\ coded /\ attempt[c] < LedgerAttempts
<1>1. CASE again
  <2>1. /\ attempt' = [attempt EXCEPT ![c] = @ + 1]
        /\ Begin(c)
        /\ round' = round
    BY <1>1 DEF Raise
  <2> QED
    BY <2>1 DEF CallsInv, Begin, GoTo, Leaves, Moves, Statements
<1>2. CASE ~again /\ retryable /\ round[c] < Rounds(c)
  <2>1. /\ attempt' = [attempt EXCEPT ![c] = 1]
        /\ round' = [round EXCEPT ![c] = @ + 1]
        /\ Begin(c)
    BY <1>2 DEF Raise
  <2> QED
    BY <2>1 DEF CallsInv, Begin, GoTo, Leaves, Moves, Statements
<1>3. CASE ~again /\ ~(retryable /\ round[c] < Rounds(c))
  <2>1. Settle(c, a)
    BY <1>3 DEF Raise
  <2> QED
    BY <2>1, SettleLeaves
<1> QED
  BY <1>1, <1>2, <1>3

-----------------------------------------------------------------------------
(***************************************************************************)
(* Steps that write no event.                                              *)
(***************************************************************************)
\* What a lost backend is named stays unused.
LEMMA NamesStay ==
  ASSUME CallsInv, NamesInv, NEW c \in Calls, pc[c] # "done", Moves(c)
  PROVE  \A b \in abandoned : Outlived(b)'
<1> TAKE b \in abandoned
<1>1. Outlived(b) /\ b.by \in Calls \X (Nat \ {0}) \X Nat
  BY DEF NamesInv, Outlived
<1>2. b.by[1] \in Calls /\ b.by[2] \in Nat /\ b.by[3] \in Nat
  BY <1>1
<1>3. CASE b.by[1] # c
  BY <1>1, <1>2, <1>3 DEF Outlived, Moves
<1>4. CASE b.by[1] = c
  BY <1>1, <1>2, <1>4 DEF Outlived, Moves, CallsInv
<1> QED
  BY <1>3, <1>4

\* A call that takes free locks or releases its own, and writes no event,
\* disturbs nobody.
LEMMA CallStep ==
  ASSUME LedgerInv, NEW c \in Calls, pc[c] # "done", Moves(c),
         UNCHANGED <<tables, abandoned, readers>>,
         DOMAIN locks' = LockKeys,
         \A k \in LockKeys : locks[k] \notin {Nobody, Me(c)} => locks'[k] = locks[k],
         OwnLocks(c)', OwnDraft(c)'
  PROVE  LedgerInv'
<1> USE InputAssumption, KeyAssumption DEF LedgerInv
<1>1. UNCHANGED <<rows, heads, abandoned, scope, reading, view, read, verdict>>
  BY DEF tables, readers
<1>2. CallsInv'
  BY <1>1 DEF CallsInv, Moves
<1>3. ReadersTypeInv' /\ RowsInv' /\ ReadersSeeWholeChains'
  BY <1>1 DEF ReadersTypeInv, RowsInv, ChainInv, IdIsStoredOnce, ReadersSeeWholeChains
<1>4. NamesInv'
  BY <1>1, NamesStay DEF NamesInv
<1>5. \A d \in Calls : d # c => OwnLocks(d)'
  <2> SUFFICES ASSUME NEW d \in Calls, d # c PROVE OwnLocks(d)'
    OBVIOUS
  <2>1. Me(d) \notin {Nobody, Me(c)} /\ Me(d)' = Me(d) /\ pc'[d] = pc[d]
    BY NamesDiffer DEF Moves, Me
  <2>2. EventKey[Input[d].id] \in LockKeys /\ SubjectKey[SubjectOf(d)] \in LockKeys
    BY DEF SubjectOf
  <2>3. OwnLocks(d)
    BY DEF OwnersInv
  <2> QED
    BY <2>1, <2>2, <2>3 DEF OwnLocks, Locked
<1>6. \A d \in Calls : d # c => OwnDraft(d)'
  BY <1>1 DEF Moves, OwnersInv, OwnDraft, IsNext, Existing
<1>7. \A b \in abandoned : BackendInv(b)'
  <2> SUFFICES ASSUME NEW b \in abandoned, MayCommit(b) PROVE BackendInv(b)'
    BY DEF BackendInv
  <2>1. b.by \notin {Nobody, Me(c)}
    BY NamesDiffer, BackendsAreNotReaders
  <2>2. BackendInv(b) /\ EventKey[b.row.id] \in LockKeys /\ SubjectKey[b.row.subject] \in LockKeys
    BY DEF OwnersInv, BackendInv, IsNext
  <2> QED
    BY <1>1, <2>1, <2>2 DEF BackendInv, IsNext
<1>8. \A r \in Readers : ReaderInv(r)'
  <2> SUFFICES ASSUME NEW r \in Readers PROVE ReaderInv(r)'
    OBVIOUS
  <2>1. <<r, 0, 0>> \notin {Nobody, Me(c)}
    BY ReaderAssumption, NamesDiffer DEF Nobody
  <2>2. scope[r] # AllSubjects => SubjectKey[scope[r]] \in LockKeys
    BY DEF ReadersTypeInv
  <2>3. ReaderInv(r)
    BY DEF OwnersInv
  <2> QED
    BY <1>1, <2>1, <2>2, <2>3 DEF ReaderInv, Agree
<1> QED
  BY <1>1, <1>2, <1>3, <1>4, <1>5, <1>6, <1>7, <1>8 DEF OwnersInv

\* A call that leaves and releases its locks.
LEMMA LeaveStep ==
  ASSUME LedgerInv, NEW c \in Calls, pc[c] # "done", Leaves(c), Release(Me(c)),
         UNCHANGED <<tables, abandoned, readers>>
  PROVE  LedgerInv'
<1>1. Moves(c)
  BY DEF Leaves
<1>2. /\ DOMAIN locks' = LockKeys
      /\ \A k \in LockKeys : locks[k] \notin {Nobody, Me(c)} => locks'[k] = locks[k]
  BY DEF Release
<1>3. OwnLocks(c)' /\ OwnDraft(c)'
  BY DEF Leaves, OwnLocks, OwnDraft, Locked
<1> QED
  BY <1>1, <1>2, <1>3, CallStep

\* The statements of append() that write nothing yet, refused ones included.
LEMMA StatementStep ==
  ASSUME LedgerInv, NEW c \in Calls,
         \/ Start(c) \/ LockEvent(c) \/ LockSubject(c)
         \/ FindNothing(c) \/ FindOwn(c) \/ FindOther(c)
         \/ ReadHead(c) \/ ReadTail(c) \/ Insert(c) \/ Advance(c)
  PROVE  LedgerInv'
<1> USE DEF LedgerInv
<1> DEFINE LocksStand == DOMAIN locks' = LockKeys /\ \A k \in LockKeys :
                           locks[k] \notin {Nobody, Me(c)} => locks'[k] = locks[k]
           Rest == UNCHANGED <<tables, abandoned, readers>>
<1>own. OwnLocks(c) /\ OwnDraft(c) /\ DOMAIN locks = LockKeys
  BY DEF OwnersInv, CallsInv
<1>1. CASE Start(c)
  <2>1. pc[c] = "idle" /\ Moves(c) /\ Rest /\ LocksStand
    BY <1>1, <1>own DEF Start, Begin, GoTo, Moves, CallsInv, Statements
  <2>2. OwnLocks(c)' /\ OwnDraft(c)'
    BY <1>1 DEF Start, Begin, GoTo, OwnLocks, OwnDraft, Locked, CallsInv
  <2> QED
    BY <2>1, <2>2, CallStep
<1>2. CASE LockEvent(c)
  <2>1. pc[c] = "lockEvent" /\ Moves(c) /\ Rest /\ Me(c)' = Me(c)
    BY <1>2 DEF LockEvent, GoTo, Moves, CallsInv, Statements, retries, locals, Me
  <2>2. LocksStand
    BY <1>2, <1>own DEF LockEvent, Take, Free
  <2>3. EventKey[Input[c].id] \in LockKeys
    BY InputAssumption, KeyAssumption
  <2>4. OwnLocks(c)' /\ OwnDraft(c)'
    BY <1>2, <1>own, <2>1, <2>3 DEF LockEvent, Take, GoTo, OwnLocks, OwnDraft, Locked, CallsInv,
       retries, locals
  <2> QED
    BY <2>1, <2>2, <2>4, CallStep
<1>3. CASE LockSubject(c)
  <2>1. pc[c] = "lockSubject" /\ Moves(c) /\ Rest /\ Me(c)' = Me(c)
    BY <1>3 DEF LockSubject, GoTo, Moves, CallsInv, Statements, retries, locals, Me
  <2>2. LocksStand
    BY <1>3, <1>own DEF LockSubject, Take, Free
  <2>3. SubjectKey[SubjectOf(c)] \in LockKeys
    BY InputAssumption, KeyAssumption DEF SubjectOf
  <2>4. OwnLocks(c)' /\ OwnDraft(c)'
    BY <1>3, <1>own, <2>1, <2>3 DEF LockSubject, Take, GoTo, OwnLocks, OwnDraft, Locked, CallsInv,
       retries, locals
  <2> QED
    BY <2>1, <2>2, <2>4, CallStep
<1>4. CASE FindNothing(c)
  <2>1. pc[c] = "lookup" /\ Moves(c) /\ Rest /\ LocksStand
    BY <1>4, <1>own DEF FindNothing, GoTo, Moves, CallsInv, Statements, retries
  <2>2. OwnLocks(c)' /\ OwnDraft(c)'
    BY <1>4, <1>own DEF FindNothing, GoTo, OwnLocks, OwnDraft, Locked, CallsInv, retries, tables,
       Me, Existing
  <2> QED
    BY <2>1, <2>2, CallStep
<1>5. CASE FindOwn(c)
  <2>1. pc[c] = "lookup" /\ Moves(c) /\ Rest /\ LocksStand
    BY <1>5, <1>own DEF FindOwn, GoTo, Moves, CallsInv, Statements, retries
  <2>2. OwnLocks(c)' /\ OwnDraft(c)'
    BY <1>5, <1>own DEF FindOwn, GoTo, OwnLocks, OwnDraft, Locked, CallsInv, retries, Me
  <2> QED
    BY <2>1, <2>2, CallStep
<1>6. CASE FindOther(c)
  <2>1. pc[c] = "lookup" /\ Settle(c, "reused") /\ Release(Me(c)) /\ Rest
    BY <1>6 DEF FindOther, Refuse
  <2> QED
    BY <2>1, SettleLeaves, LeaveStep
<1>7. CASE ReadHead(c)
  <2>1. pc[c] = "readHead" /\ Moves(c) /\ Rest /\ LocksStand
    BY <1>7, <1>own DEF ReadHead, GoTo, Moves, CallsInv, Statements, retries
  <2>2. OwnLocks(c)' /\ OwnDraft(c)'
    BY <1>7, <1>own DEF ReadHead, GoTo, OwnLocks, OwnDraft, Locked, CallsInv, retries, tables, Me,
       Existing
  <2> QED
    BY <2>1, <2>2, CallStep
<1>8. CASE ReadTail(c)
  <2>0. pc[c] = "readTail" /\ Rest
    BY <1>8 DEF ReadTail
  <2>1. CASE \E a \in {"integrity", "moved"} : Refuse(c, a)
    BY <2>0, <2>1, SettleLeaves, LeaveStep DEF Refuse
  <2>2. CASE GoTo(c, "insert") /\ UNCHANGED <<locks, retries, head, draft, answer>>
    <3>1. Moves(c) /\ LocksStand
      BY <2>0, <2>2, <1>own DEF GoTo, Moves, CallsInv, Statements, retries
    <3>2. OwnLocks(c)' /\ OwnDraft(c)'
      BY <2>0, <2>2, <1>own DEF GoTo, OwnLocks, OwnDraft, Locked, CallsInv, retries, tables, Me,
         Existing
    <3> QED
      BY <2>0, <3>1, <3>2, CallStep
  <2> QED
    BY <1>8, <2>1, <2>2 DEF ReadTail
<1>9. CASE Insert(c)
  <2>0. pc[c] = "insert" /\ Rest
    BY <1>9 DEF Insert
  <2>1. CASE Refuse(c, "duplicate")
    BY <2>0, <2>1, SettleLeaves, LeaveStep DEF Refuse
  <2>2. CASE /\ draft' = [draft EXCEPT ![c] = NewRow(c)]
             /\ GoTo(c, "advance")
             /\ UNCHANGED <<locks, retries, head, answer>>
    <3>1. Moves(c) /\ LocksStand
      BY <2>0, <2>2, <1>own DEF GoTo, Moves, CallsInv, Statements, retries
    <3>2. /\ pc'[c] = "advance"
          /\ UNCHANGED <<rows, heads, locks, head>>
          /\ Me(c)' = Me(c)
          /\ draft'[c] = NewRow(c)
      BY <2>0, <2>2 DEF GoTo, CallsInv, retries, tables, Me
    <3>3. OwnLocks(c)'
      BY <2>0, <3>2, <1>own DEF OwnLocks, Locked
    <3>4. /\ IsNext(NewRow(c))
          /\ NewRow(c).id = Input[c].id
          /\ NewRow(c).subject = SubjectOf(c)
      BY <2>0, <1>own, InputAssumption
         DEF OwnDraft, IsNext, NewRow, StoredEvent, PublicEvent, OwnHash, SubjectOf, Existing
    <3>5. OwnDraft(c)'
      BY <2>0, <3>2, <3>4, <1>own DEF OwnDraft, IsNext, Existing
    <3> QED
      BY <2>0, <3>1, <3>3, <3>5, CallStep
  <2> QED
    BY <1>9, <2>1, <2>2 DEF Insert
<1>10. CASE Advance(c)
  <2>0. pc[c] = "advance" /\ Rest
    BY <1>10 DEF Advance
  <2>1. CASE \E a \in {"duplicate", "integrity"} : Refuse(c, a)
    BY <2>0, <2>1, SettleLeaves, LeaveStep DEF Refuse
  <2>2. CASE GoTo(c, "commit") /\ UNCHANGED <<locks, retries, head, draft, answer>>
    <3>1. Moves(c) /\ LocksStand
      BY <2>0, <2>2, <1>own DEF GoTo, Moves, CallsInv, Statements, retries
    <3>2. OwnLocks(c)' /\ OwnDraft(c)'
      BY <2>0, <2>2, <1>own DEF GoTo, OwnLocks, OwnDraft, Locked, CallsInv, retries, tables, Me,
         IsNext
    <3> QED
      BY <2>0, <3>1, <3>2, CallStep
  <2> QED
    BY <1>10, <2>1, <2>2 DEF Advance
<1> QED
  BY <1>1, <1>2, <1>3, <1>4, <1>5, <1>6, <1>7, <1>8, <1>9, <1>10

\* A statement that fails, and a wait that ends without its lock.
LEMMA FailureStep ==
  ASSUME LedgerInv, NEW c \in Calls,
         LockTimeout(c) \/ \E retryable \in BOOLEAN : StatementFails(c, retryable)
  PROVE  LedgerInv'
<1>1. PICK retryable \in BOOLEAN : Raise(c, "failed", retryable, TRUE)
  BY DEF LockTimeout, StatementFails
<1>2. /\ pc[c] # "done" /\ Release(Me(c))
      /\ UNCHANGED <<tables, abandoned, readers>>
  BY DEF LockTimeout, StatementFails, InTransaction
<1>3. CallsInv
  BY DEF LedgerInv
<1>4. Leaves(c)
  BY <1>1, <1>3, RaiseLeaves
<1> QED
  BY <1>2, <1>4, LeaveStep

\* A lost connection: the backend keeps the name, the locks and the row, the
\* call goes on under another name or gives up.
LEMMA LossStep ==
  ASSUME LedgerInv, NEW c \in Calls, NEW coded \in BOOLEAN, ConnectionLost(c, coded)
  PROVE  LedgerInv'
<1> USE InputAssumption, KeyAssumption DEF LedgerInv
<1>lost. PICK lost : lost = [by |-> Me(c), row |-> draft[c], committing |-> pc[c] = "commit"]
  OBVIOUS
<1>1. /\ UNCHANGED <<rows, heads, locks, scope, reading, view, read, verdict>>
      /\ abandoned' = abandoned \union {lost}
      /\ pc[c] # "done"
  BY <1>lost DEF ConnectionLost, tables, readers, InTransaction
<1>2. Leaves(c) /\ Moves(c)
  BY RaiseLeaves DEF ConnectionLost, Leaves
<1>3. CallsInv' /\ ReadersTypeInv' /\ RowsInv' /\ ReadersSeeWholeChains'
  BY <1>1, <1>2 DEF CallsInv, Moves, ReadersTypeInv, RowsInv, ChainInv, IdIsStoredOnce,
     ReadersSeeWholeChains
<1>4. NamesInv'
  <2>1. \A b \in abandoned : Outlived(b)'
    BY <1>1, <1>2, NamesStay
  <2>2. Outlived(lost)'
    <3>1. lost.by \in Calls \X (Nat \ {0}) \X Nat
      BY <1>lost DEF Me, CallsInv
    <3>2. lost.by[1] = c /\ lost.by[2] = round[c] /\ lost.by[3] = attempt[c]
      BY <1>lost DEF Me
    <3>3. \/ pc'[c] = "done"
          \/ round[c] < round'[c]
          \/ round[c] = round'[c] /\ attempt[c] < attempt'[c]
      BY <1>2 DEF Leaves, Moves, CallsInv
    <3> QED
      BY <3>1, <3>2, <3>3 DEF Outlived
  <2>3. \A b \in abandoned : b.by # lost.by
    BY <1>1, <1>lost, NamesDiffer
  <2> QED
    BY <1>1, <2>1, <2>2, <2>3 DEF NamesInv
<1>5. \A d \in Calls : OwnLocks(d)' /\ OwnDraft(d)'
  <2>1. OwnLocks(c)' /\ OwnDraft(c)'
    BY <1>2 DEF Leaves, OwnLocks, OwnDraft, Locked
  <2>2. ASSUME NEW d \in Calls, d # c PROVE OwnLocks(d)' /\ OwnDraft(d)'
    <3>1. Me(d)' = Me(d) /\ pc'[d] = pc[d] /\ head'[d] = head[d] /\ draft'[d] = draft[d]
      BY <1>2, <2>2 DEF Moves, Me
    <3>2. OwnLocks(d) /\ OwnDraft(d)
      BY DEF OwnersInv
    <3>3. OwnLocks(d)'
      BY <1>1, <3>1, <3>2 DEF OwnLocks, Locked
    <3> QED
      BY <1>1, <3>1, <3>2, <3>3 DEF OwnDraft, IsNext, Existing
  <2> QED
    BY <2>1, <2>2
<1>6. \A b \in abandoned : BackendInv(b)'
  BY <1>1 DEF OwnersInv, BackendInv, IsNext
<1>7. BackendInv(lost)'
  <2> SUFFICES ASSUME pc[c] = "commit", draft[c] # NoRow
               PROVE  /\ locks[EventKey[draft[c].id]] = Me(c)
                      /\ locks[SubjectKey[draft[c].subject]] = Me(c)
                      /\ IsNext(draft[c])
    BY <1>1, <1>lost DEF BackendInv, MayCommit, IsNext
  <2> QED
    BY DEF OwnersInv, OwnLocks, OwnDraft, Locked
<1>8. \A r \in Readers : ReaderInv(r)'
  BY <1>1 DEF OwnersInv, ReaderInv, Agree
<1> QED
  BY <1>1, <1>3, <1>4, <1>5, <1>6, <1>7, <1>8 DEF OwnersInv

-----------------------------------------------------------------------------
(***************************************************************************)
(* Steps that write an event.                                              *)
(***************************************************************************)
\* A write of the owner of event and subject disturbs no other owner.
LEMMA StoreStep ==
  ASSUME LedgerInv, NEW row, NEW me, IsNext(row), Store(row), Release(me), me # Nobody,
         locks[EventKey[row.id]] = me, locks[SubjectKey[row.subject]] = me,
         UNCHANGED readers
  PROVE  /\ RowsInv' /\ DOMAIN heads' = Subjects /\ DOMAIN locks' = LockKeys
         /\ \A c \in Calls :
              /\ Me(c) # me \/ ~Locked(c)
              /\ UNCHANGED <<pc[c], head[c], draft[c], round[c], attempt[c]>>
              /\ Me(c) # me \/ pc[c] # "lockSubject"
              => OwnLocks(c)' /\ OwnDraft(c)'
         /\ \A b \in abandoned : b.by # me => BackendInv(b)'
         /\ (\A r \in Readers : <<r, 0, 0>> # me) => \A r \in Readers : ReaderInv(r)'
<1> USE InputAssumption, KeyAssumption DEF LedgerInv
<1>1. /\ RowsInv'
      /\ \A s \in Subjects : s # row.subject =>
           heads'[s] = heads[s] /\ OfSubjectIn(rows', s) = OfSubjectIn(rows, s)
      /\ DOMAIN heads' = Subjects
      /\ rows' = rows \union {row}
  BY StoreKeepsRows DEF CallsInv, Store
<1>2. /\ DOMAIN locks' = LockKeys
      /\ \A k \in LockKeys : locks[k] # me => locks'[k] = locks[k]
  BY DEF Release
<1>3. /\ \A c \in Calls : Locked(c) /\ Me(c) # me =>
           Input[c].id # row.id /\ SubjectOf(c) # row.subject
      /\ \A b \in abandoned : MayCommit(b) /\ b.by # me =>
           b.row.id # row.id /\ b.row.subject # row.subject
      /\ \A r \in Readers : reading[r] # "idle" /\ scope[r] # AllSubjects /\ <<r, 0, 0>> # me =>
           scope[r] # row.subject
  BY OwnersAreAlone
<1>4. ASSUME NEW c \in Calls,
             Me(c) # me \/ ~Locked(c),
             UNCHANGED <<pc[c], head[c], draft[c], round[c], attempt[c]>>,
             Me(c) # me \/ pc[c] # "lockSubject"
      PROVE  OwnLocks(c)' /\ OwnDraft(c)'
  <2>1. Me(c)' = Me(c) /\ pc'[c] = pc[c] /\ head'[c] = head[c] /\ draft'[c] = draft[c]
    BY <1>4 DEF Me
  <2>2. /\ EventKey[Input[c].id] \in LockKeys /\ SubjectKey[SubjectOf(c)] \in LockKeys
        /\ SubjectOf(c) \in Subjects
    BY DEF SubjectOf
  <2>3. OwnLocks(c) /\ OwnDraft(c)
    BY DEF OwnersInv
  <2>4. OwnLocks(c)'
    BY <1>2, <1>4, <2>1, <2>2, <2>3 DEF OwnLocks, Locked
  <2>5. CASE ~Locked(c)
    BY <2>1, <2>3, <2>4, <2>5 DEF OwnDraft, Locked
  <2>6. CASE Locked(c)
    <3>1. Input[c].id # row.id /\ SubjectOf(c) # row.subject
      BY <1>3, <1>4, <2>6
    <3>2. Existing(c) = {} => Existing(c)' = {}
      BY <1>1, <3>1 DEF Existing
    <3>3. heads'[SubjectOf(c)] = heads[SubjectOf(c)]
      BY <1>1, <2>2, <3>1
    <3>4. ASSUME IsNext(draft[c]), draft[c].id = Input[c].id, draft[c].subject = SubjectOf(c)
          PROVE  IsNext(draft[c])'
      BY <1>1, <2>1, <3>1, <3>3, <3>4 DEF IsNext
    <3> QED
      BY <2>1, <2>3, <2>4, <3>2, <3>3, <3>4 DEF OwnDraft
  <2> QED
    BY <2>4, <2>5, <2>6
<1>5. ASSUME NEW b \in abandoned, b.by # me PROVE BackendInv(b)'
  <2> SUFFICES ASSUME MayCommit(b) PROVE BackendInv(b)'
    BY DEF BackendInv
  <2>1. BackendInv(b) /\ EventKey[b.row.id] \in LockKeys /\ SubjectKey[b.row.subject] \in LockKeys
    BY DEF OwnersInv, BackendInv, IsNext
  <2> QED
    BY <1>1, <1>2, <1>3, <1>5, <2>1 DEF BackendInv, IsNext
<1>6. ASSUME \A r \in Readers : <<r, 0, 0>> # me, NEW r \in Readers PROVE ReaderInv(r)'
  <2>1. UNCHANGED <<scope, reading, view, read>>
    BY DEF readers
  <2>2. scope[r] # AllSubjects => scope[r] \in Subjects /\ SubjectKey[scope[r]] \in LockKeys
    BY DEF ReadersTypeInv
  <2>3. ReaderInv(r) /\ <<r, 0, 0>> # me
    BY <1>6 DEF OwnersInv
  <2> QED
    BY <1>1, <1>2, <1>3, <2>1, <2>2, <2>3 DEF ReaderInv, Agree
<1> QED
  BY <1>1, <1>2, <1>4, <1>5, <1>6

\* The commit of a call: of its row, or of nothing where it found its event.
LEMMA CommitStep ==
  ASSUME LedgerInv, NEW c \in Calls, Commit(c)
  PROVE  LedgerInv'
<1> USE DEF LedgerInv
<1>1. /\ pc[c] = "commit" /\ Release(Me(c)) /\ Leaves(c) /\ Moves(c)
      /\ UNCHANGED abandoned /\ UNCHANGED readers
  BY SettleLeaves DEF Commit, Leaves
<1>2. CASE draft[c] = NoRow
  <2>1. UNCHANGED tables
    BY <1>2 DEF Commit
  <2> QED
    BY <1>1, <2>1, LeaveStep
<1>3. CASE draft[c] # NoRow
  <2>1. OwnLocks(c) /\ OwnDraft(c)
    BY DEF OwnersInv
  <2>2. PICK row : row = draft[c]
    OBVIOUS
  <2>3. PICK me : me = Me(c)
    OBVIOUS
  <2>4. /\ IsNext(row) /\ Store(row) /\ Release(me) /\ me # Nobody
        /\ locks[EventKey[row.id]] = me /\ locks[SubjectKey[row.subject]] = me
    BY <1>1, <1>3, <2>1, <2>2, <2>3, NamesDiffer DEF Commit, OwnLocks, OwnDraft, Locked
  <2>5. /\ RowsInv' /\ DOMAIN heads' = Subjects /\ DOMAIN locks' = LockKeys
        /\ \A d \in Calls :
             /\ Me(d) # me \/ ~Locked(d)
             /\ UNCHANGED <<pc[d], head[d], draft[d], round[d], attempt[d]>>
             /\ Me(d) # me \/ pc[d] # "lockSubject"
             => OwnLocks(d)' /\ OwnDraft(d)'
        /\ \A b \in abandoned : b.by # me => BackendInv(b)'
        /\ (\A r \in Readers : <<r, 0, 0>> # me) => \A r \in Readers : ReaderInv(r)'
    BY <1>1, <2>4, StoreStep
  <2>6. CallsInv'
    BY <1>1, <2>5 DEF CallsInv, Moves
  <2>7. ReadersTypeInv' /\ ReadersSeeWholeChains'
    BY <1>1 DEF readers, ReadersTypeInv, ReadersSeeWholeChains
  <2>8. NamesInv'
    BY <1>1, NamesStay DEF NamesInv
  <2>9. \A d \in Calls : d # c => OwnLocks(d)' /\ OwnDraft(d)'
    BY <1>1, <2>3, <2>5, NamesDiffer DEF Moves
  <2>10. OwnLocks(c)' /\ OwnDraft(c)'
    BY <1>1 DEF Leaves, OwnLocks, OwnDraft, Locked
  <2>11. \A b \in abandoned : BackendInv(b)'
    BY <1>1, <2>3, <2>5, NamesDiffer
  <2>12. \A r \in Readers : ReaderInv(r)'
    BY <2>3, <2>5, NamesDiffer
  <2> QED
    BY <1>1, <2>5, <2>6, <2>7, <2>8, <2>9, <2>10, <2>11, <2>12 DEF OwnersInv
<1> QED
  BY <1>2, <1>3

\* What the database does with a backend whose client is gone.
LEMMA BackendStep ==
  ASSUME LedgerInv, NEW b \in abandoned, BackendAborts(b) \/ BackendCommits(b)
  PROVE  LedgerInv'
<1> USE InputAssumption, KeyAssumption DEF LedgerInv
<1>1. /\ abandoned' = abandoned \ {b} /\ Release(b.by)
      /\ UNCHANGED <<pc, round, attempt, stableTime, head, draft, scope, reading, view, read, verdict>>
  BY DEF BackendAborts, BackendCommits, retries, locals, readers
<1>2. PICK me : me = b.by
  OBVIOUS
<1>3. /\ \A c \in Calls : Me(c) = me => pc[c] = "done"
      /\ \A a \in abandoned' : a.by # me
      /\ me # Nobody
      /\ \A r \in Readers : <<r, 0, 0>> # me
  BY <1>1, <1>2, NamesDiffer, BackendsAreNotReaders DEF NamesInv
<1>4. /\ DOMAIN locks' = LockKeys
      /\ \A k \in LockKeys : locks[k] # me => locks'[k] = locks[k]
  BY <1>1, <1>2 DEF Release
<1>5. ReadersTypeInv' /\ ReadersSeeWholeChains' /\ NamesInv'
  BY <1>1 DEF ReadersTypeInv, ReadersSeeWholeChains, NamesInv, Outlived
<1>6. CASE BackendAborts(b)
  <2>1. UNCHANGED <<rows, heads>>
    BY <1>6 DEF BackendAborts, tables
  <2>2. CallsInv' /\ RowsInv'
    BY <1>1, <1>4, <2>1 DEF CallsInv, RowsInv, ChainInv, IdIsStoredOnce
  <2>3. ASSUME NEW c \in Calls PROVE OwnLocks(c)' /\ OwnDraft(c)'
    <3>1. /\ EventKey[Input[c].id] \in LockKeys /\ SubjectKey[SubjectOf(c)] \in LockKeys
          /\ Me(c)' = Me(c) /\ OwnLocks(c) /\ OwnDraft(c)
      BY <1>1 DEF SubjectOf, Me, OwnersInv
    <3>2. OwnLocks(c)'
      BY <1>1, <1>3, <1>4, <3>1 DEF OwnLocks, Locked
    <3> QED
      BY <1>1, <2>1, <3>1, <3>2 DEF OwnDraft, IsNext, Existing
  <2>4. ASSUME NEW a \in abandoned' PROVE BackendInv(a)'
    <3> SUFFICES ASSUME MayCommit(a) PROVE BackendInv(a)'
      BY DEF BackendInv
    <3>1. BackendInv(a) /\ EventKey[a.row.id] \in LockKeys /\ SubjectKey[a.row.subject] \in LockKeys
      BY <1>1, <2>4 DEF OwnersInv, BackendInv, IsNext
    <3> QED
      BY <1>3, <1>4, <2>1, <2>4, <3>1 DEF BackendInv, IsNext
  <2>5. ASSUME NEW r \in Readers PROVE ReaderInv(r)'
    <3>1. /\ scope[r] # AllSubjects => SubjectKey[scope[r]] \in LockKeys
          /\ ReaderInv(r) /\ <<r, 0, 0>> # me
      BY <1>3 DEF ReadersTypeInv, OwnersInv
    <3> QED
      BY <1>1, <1>4, <2>1, <3>1 DEF ReaderInv, Agree
  <2> QED
    BY <1>5, <2>2, <2>3, <2>4, <2>5 DEF OwnersInv
<1>7. CASE BackendCommits(b)
  <2>1. PICK row : row = b.row
    OBVIOUS
  <2>2. /\ IsNext(row) /\ Store(row) /\ Release(me)
        /\ locks[EventKey[row.id]] = me /\ locks[SubjectKey[row.subject]] = me
    BY <1>1, <1>2, <1>7, <2>1 DEF BackendCommits, OwnersInv, BackendInv, MayCommit
  <2>3. UNCHANGED readers
    BY <1>7 DEF BackendCommits
  <2>4. /\ RowsInv' /\ DOMAIN heads' = Subjects /\ DOMAIN locks' = LockKeys
        /\ \A c \in Calls :
             /\ Me(c) # me \/ ~Locked(c)
             /\ UNCHANGED <<pc[c], head[c], draft[c], round[c], attempt[c]>>
             /\ Me(c) # me \/ pc[c] # "lockSubject"
             => OwnLocks(c)' /\ OwnDraft(c)'
        /\ \A a \in abandoned : a.by # me => BackendInv(a)'
        /\ (\A r \in Readers : <<r, 0, 0>> # me) => \A r \in Readers : ReaderInv(r)'
    BY <1>3, <2>2, <2>3, StoreStep
  <2>5. CallsInv'
    BY <1>1, <2>4 DEF CallsInv
  <2>6. \A c \in Calls : OwnLocks(c)' /\ OwnDraft(c)'
    BY <1>1, <1>3, <2>4 DEF Locked
  <2>7. \A a \in abandoned' : BackendInv(a)'
    BY <1>1, <1>3, <2>4
  <2>8. \A r \in Readers : ReaderInv(r)'
    BY <1>3, <2>4
  <2> QED
    BY <1>5, <2>4, <2>5, <2>6, <2>7, <2>8 DEF OwnersInv
<1> QED
  BY <1>6, <1>7

-----------------------------------------------------------------------------
(***************************************************************************)
(* Readers.                                                                *)
(***************************************************************************)
\* A reader that takes a free lock or releases its own disturbs nobody.
LEMMA ReaderKeeps ==
  ASSUME LedgerInv, NEW r \in Readers, UNCHANGED writers,
         DOMAIN locks' = LockKeys,
         \A k \in LockKeys : locks[k] \notin {Nobody, <<r, 0, 0>>} => locks'[k] = locks[k],
         \A q \in Readers : q # r =>
           /\ reading'[q] = reading[q] /\ scope'[q] = scope[q]
           /\ view'[q] = view[q] /\ read'[q] = read[q],
         ReadersTypeInv', ReadersSeeWholeChains', ReaderInv(r)'
  PROVE  LedgerInv'
<1> USE InputAssumption, KeyAssumption DEF LedgerInv
<1>1. UNCHANGED <<rows, heads, abandoned, pc, attempt, round, head, draft>>
  BY DEF writers, tables, retries, locals
<1>2. CallsInv' /\ NamesInv' /\ RowsInv'
  BY <1>1 DEF CallsInv, NamesInv, Outlived, RowsInv, ChainInv, IdIsStoredOnce
<1>3. ASSUME NEW c \in Calls PROVE OwnLocks(c)' /\ OwnDraft(c)'
  <2>1. /\ EventKey[Input[c].id] \in LockKeys /\ SubjectKey[SubjectOf(c)] \in LockKeys
        /\ Me(c)' = Me(c) /\ OwnLocks(c) /\ OwnDraft(c)
    BY <1>1 DEF SubjectOf, Me, OwnersInv
  <2>2. Me(c) \notin {Nobody, <<r, 0, 0>>}
    BY NamesDiffer
  <2>3. OwnLocks(c)'
    BY <1>1, <2>1, <2>2 DEF OwnLocks, Locked
  <2> QED
    BY <1>1, <2>1, <2>3 DEF OwnDraft, IsNext, Existing
<1>4. ASSUME NEW b \in abandoned PROVE BackendInv(b)'
  <2> SUFFICES ASSUME MayCommit(b) PROVE BackendInv(b)'
    BY DEF BackendInv
  <2>1. b.by \notin {Nobody, <<r, 0, 0>>}
    BY BackendsAreNotReaders
  <2>2. BackendInv(b) /\ EventKey[b.row.id] \in LockKeys /\ SubjectKey[b.row.subject] \in LockKeys
    BY DEF OwnersInv, BackendInv, IsNext
  <2> QED
    BY <1>1, <2>1, <2>2 DEF BackendInv, IsNext
<1>5. ASSUME NEW q \in Readers, q # r PROVE ReaderInv(q)'
  <2>1. /\ scope[q] # AllSubjects => SubjectKey[scope[q]] \in LockKeys
        /\ ReaderInv(q) /\ <<q, 0, 0>> \notin {Nobody, <<r, 0, 0>>}
    BY <1>5, ReaderAssumption DEF ReadersTypeInv, OwnersInv, Nobody
  <2> QED
    BY <1>1, <1>5, <2>1 DEF ReaderInv, Agree
<1> QED
  BY <1>1, <1>2, <1>3, <1>4, <1>5 DEF OwnersInv

\* Every step of a reader; where it reads the heads it finds the chains whole.
LEMMA ReaderStep ==
  ASSUME LedgerInv, NEW r \in Readers, Read(r)
  PROVE  LedgerInv'
<1> USE DEF LedgerInv
<1> DEFINE mine == <<r, 0, 0>>
<1>own. ReaderInv(r) /\ ReadersTypeInv /\ DOMAIN locks = LockKeys
  BY DEF OwnersInv, CallsInv
<1>1. CASE \E s \in Subjects : OpenSubject(r, s)
  <2>1. PICK s \in Subjects : OpenSubject(r, s)
    BY <1>1
  <2>2. ReadersTypeInv' /\ ReadersSeeWholeChains'
    BY <2>1 DEF OpenSubject, ReadFrom, ReadersTypeInv, ReadersSeeWholeChains
  <2>3. ReaderInv(r)'
    BY <1>own, <2>1, ReaderAssumption, KeyAssumption
       DEF OpenSubject, ReadFrom, Take, ReaderInv, ReadersTypeInv
  <2>4. /\ UNCHANGED writers /\ DOMAIN locks' = LockKeys
        /\ \A k \in LockKeys : locks[k] \notin {Nobody, mine} => locks'[k] = locks[k]
        /\ \A q \in Readers : q # r =>
             /\ reading'[q] = reading[q] /\ scope'[q] = scope[q]
             /\ view'[q] = view[q] /\ read'[q] = read[q]
    BY <1>own, <2>1 DEF OpenSubject, ReadFrom, Take, Free, ReadersTypeInv
  <2> QED
    BY <2>2, <2>3, <2>4, ReaderKeeps
<1>2. CASE OpenSnapshot(r)
  <2>1. ReadersTypeInv' /\ ReadersSeeWholeChains'
    BY <1>2 DEF OpenSnapshot, ReadFrom, ReadersTypeInv, ReadersSeeWholeChains
  <2>2. \A s \in Subjects : Agree(rows, heads, s)
    BY ChainsAgree
  <2>3. reading'[r] = "heads" /\ scope'[r] = AllSubjects /\ view'[r] = heads /\ read'[r] = rows
    BY <1>own, <1>2 DEF OpenSnapshot, ReadFrom, ReaderInv, ReadersTypeInv
  <2>4. ReaderInv(r)'
    BY <2>2, <2>3 DEF ReaderInv
  <2>5. /\ UNCHANGED writers /\ DOMAIN locks' = LockKeys
        /\ \A k \in LockKeys : locks[k] \notin {Nobody, mine} => locks'[k] = locks[k]
        /\ \A q \in Readers : q # r =>
             /\ reading'[q] = reading[q] /\ scope'[q] = scope[q]
             /\ view'[q] = view[q] /\ read'[q] = read[q]
    BY <1>own, <1>2 DEF OpenSnapshot, ReadFrom, ReadersTypeInv
  <2> QED
    BY <2>1, <2>4, <2>5, ReaderKeeps
<1>3. CASE ReadEvents(r)
  <2>1. ReadersTypeInv' /\ ReadersSeeWholeChains'
    BY <1>3 DEF ReadEvents, ReadFrom, ReadersTypeInv, ReadersSeeWholeChains
  <2>2. /\ reading'[r] = "heads" /\ scope'[r] = scope[r] /\ scope[r] # AllSubjects
        /\ locks' = locks /\ locks[SubjectKey[scope[r]]] = mine
        /\ rows' = rows /\ read'[r] = OfSubjectIn(rows, scope[r])
    BY <1>own, <1>3 DEF ReadEvents, ReadFrom, ReaderInv, ReadersTypeInv, writers, tables
  <2>3. ReaderInv(r)'
    BY <2>2 DEF ReaderInv
  <2>4. /\ UNCHANGED writers /\ DOMAIN locks' = LockKeys
        /\ \A k \in LockKeys : locks[k] \notin {Nobody, mine} => locks'[k] = locks[k]
        /\ \A q \in Readers : q # r =>
             /\ reading'[q] = reading[q] /\ scope'[q] = scope[q]
             /\ view'[q] = view[q] /\ read'[q] = read[q]
    BY <1>own, <1>3 DEF ReadEvents, ReadFrom, ReadersTypeInv
  <2> QED
    BY <2>1, <2>3, <2>4, ReaderKeeps
<1>4. ASSUME Close(r), ReadersSeeWholeChains', DOMAIN verdict' = Readers PROVE LedgerInv'
  <2>1. ReadersTypeInv'
    BY <1>own, <1>4 DEF Close, ReadFrom, ReadersTypeInv
  <2>2. ReaderInv(r)'
    BY <1>own, <1>4 DEF Close, ReadFrom, ReaderInv, ReadersTypeInv
  <2>3. /\ UNCHANGED writers /\ DOMAIN locks' = LockKeys
        /\ \A k \in LockKeys : locks[k] \notin {Nobody, mine} => locks'[k] = locks[k]
        /\ \A q \in Readers : q # r =>
             /\ reading'[q] = reading[q] /\ scope'[q] = scope[q]
             /\ view'[q] = view[q] /\ read'[q] = read[q]
    BY <1>own, <1>4 DEF Close, ReadFrom, Release, ReadersTypeInv
  <2> QED
    BY <1>4, <2>1, <2>2, <2>3, ReaderKeeps
<1>5. CASE ReadFails(r)
  BY <1>own, <1>4, <1>5 DEF ReadFails, ReadersSeeWholeChains, ReadersTypeInv
<1>6. CASE ReadHeads(r)
  <2>1. \A s \in Scoped(r) : Agree(read[r], VisibleHeads(r), s)
    <3>1. CASE scope[r] = AllSubjects
      BY <1>own, <1>6, <3>1 DEF ReadHeads, ReaderInv, Scoped, VisibleHeads
    <3>2. CASE scope[r] # AllSubjects
      <4>1. scope[r] \in Subjects /\ read[r] = OfSubjectIn(rows, scope[r])
        BY <1>own, <1>6, <3>2 DEF ReadHeads, ReaderInv, ReadersTypeInv
      <4>2. OfSubjectIn(read[r], scope[r]) = OfSubjectIn(rows, scope[r])
        BY <4>1 DEF OfSubjectIn
      <4>3. Agree(rows, heads, scope[r])
        BY <4>1, ChainsAgree
      <4> QED
        BY <3>2, <4>2, <4>3 DEF Agree, TailIn, Scoped, VisibleHeads
    <3> QED
      BY <3>1, <3>2
  <2>2. verdict' = [verdict EXCEPT ![r] = "valid"]
    BY <1>6, <2>1 DEF ReadHeads
  <2>3. ReadersSeeWholeChains' /\ DOMAIN verdict' = Readers
    BY <1>own, <2>2 DEF ReadersSeeWholeChains, ReadersTypeInv
  <2> QED
    BY <1>4, <1>6, <2>3 DEF ReadHeads
<1> QED
  BY <1>1, <1>2, <1>3, <1>5, <1>6 DEF Read

-----------------------------------------------------------------------------
(***************************************************************************)
(* The specification.                                                      *)
(***************************************************************************)
\* Nobody owns anything at first.
LEMMA LedgerInvInitially ==
  ASSUME Init
  PROVE  LedgerInv
<1> USE DEF Init
<1>1. CallsInv /\ ReadersTypeInv /\ NamesInv
  BY DEF CallsInv, Statements, ReadersTypeInv, NamesInv
<1>2. OwnersInv
  BY DEF OwnersInv, OwnLocks, OwnDraft, Locked, ReaderInv
<1>3. RowsInv
  BY DEF RowsInv, ChainInv, Chained, OfSubjectIn, IdIsStoredOnce
<1>4. ReadersSeeWholeChains
  BY DEF ReadersSeeWholeChains
<1> QED
  BY <1>1, <1>2, <1>3, <1>4 DEF LedgerInv

\* Every step keeps the ownership invariant.
LEMMA LedgerInvKept ==
  ASSUME LedgerInv, [Next]_vars
  PROVE  LedgerInv'
<1>1. ASSUME NEW c \in Calls, Start(c) \/ Step(c) \/ Fault(c) PROVE LedgerInv'
  BY <1>1, StatementStep, CommitStep, FailureStep, LossStep DEF Step, Fault
<1>2. ASSUME NEW b \in abandoned, BackendAborts(b) \/ BackendCommits(b) PROVE LedgerInv'
  BY <1>2, BackendStep
<1>3. ASSUME NEW r \in Readers, Read(r) PROVE LedgerInv'
  BY <1>3, ReaderStep
<1>4. CASE UNCHANGED vars
  <2>1. UNCHANGED <<rows, heads, locks, abandoned, pc, attempt, round, head, draft,
                    scope, reading, view, read, verdict>>
    BY <1>4 DEF vars, tables, retries, locals, readers
  <2>2. CallsInv' /\ ReadersTypeInv' /\ NamesInv'
    BY <2>1 DEF LedgerInv, CallsInv, ReadersTypeInv, NamesInv, Outlived
  <2>3. RowsInv' /\ ReadersSeeWholeChains'
    BY <2>1 DEF LedgerInv, RowsInv, ChainInv, IdIsStoredOnce, ReadersSeeWholeChains
  <2>4. \A c \in Calls : OwnLocks(c)' /\ OwnDraft(c)'
    BY <2>1 DEF LedgerInv, OwnersInv, OwnLocks, OwnDraft, Locked, Me, IsNext, Existing
  <2>5. OwnersInv'
    BY <2>1, <2>4 DEF LedgerInv, OwnersInv, BackendInv, IsNext, ReaderInv, Agree
  <2> QED
    BY <2>2, <2>3, <2>5 DEF LedgerInv
<1> QED
  BY <1>1, <1>2, <1>3, <1>4 DEF Next

\* The ownership invariant holds in every reachable state.
LEMMA LedgerInvInvariant == Spec => []LedgerInv
BY LedgerInvInitially, LedgerInvKept, PTL DEF Spec

\* The events of every subject form one chain that its head names, for any
\* writers, faults, retries and collisions of the hashes of the lock names.
THEOREM ContiguousChains == Spec => []ChainsAreContiguous
<1>1. LedgerInv => ChainsAreContiguous
  BY ChainsAgree DEF LedgerInv, ChainsAreContiguous, Agree
<1> QED
  BY <1>1, LedgerInvInvariant, PTL

\* No event id is stored twice, also where append and appendEvent repeat
\* themselves over a lost connection that commits after all.
THEOREM StoredOnce == Spec => []IdIsStoredOnce
<1>1. LedgerInv => IdIsStoredOnce
  BY DEF LedgerInv, RowsInv
<1> QED
  BY <1>1, LedgerInvInvariant, PTL

\* No reader reports a chain as broken, under the lock of one subject as in the
\* snapshot of all of them.
THEOREM WholeChains == Spec => []ReadersSeeWholeChains
<1>1. LedgerInv => ReadersSeeWholeChains
  BY DEF LedgerInv
<1> QED
  BY <1>1, LedgerInvInvariant, PTL

-----------------------------------------------------------------------------
(***************************************************************************)
(* Types.                                                                  *)
(***************************************************************************)
\* A call that is past its lookup has a time for its event.
Timed(c) == pc[c] \in {"readHead", "readTail", "insert"} => stableTime[c] \in Times

TypeInv == TypeOK /\ \A c \in Calls : Timed(c)

\* What the calls know of themselves.
CallTypes ==
  /\ pc \in [Calls -> Statements]
  /\ attempt \in [Calls -> 1 .. LedgerAttempts]
  /\ round \in [Calls -> 1 .. EngineAttempts]
  /\ head \in [Calls -> Heads]
  /\ draft \in [Calls -> Rows \union {NoRow}]
  /\ answer \in [Calls -> Answers]

\* The values the statements make are of their types.
LEMMA HeadTypes == NoHead \in Heads /\ \A r \in Rows : HeadAt(r) \in Heads
BY DEF NoHead, Heads, HeadAt, Rows, Hashes, GENESIS

\* No row is not a row.
LEMMA NoRowIsNone == NoRow \notin Rows
<1>1. DOMAIN NoRow = {"id"} /\ \A r \in Rows : "subject" \in DOMAIN r
  BY DEF NoRow, Rows
<1> QED
  BY <1>1

\* Calls and readers are named as backends are.
LEMMA BackendTypes ==
  ASSUME CallTypes
  PROVE  /\ \A c \in Calls : Me(c) \in Backends
         /\ \A r \in Readers : <<r, 0, 0>> \in Backends
BY BoundsAssumption DEF CallTypes, Me, Backends

\* The row a call makes of what it has read is a row.
LEMMA NewRowTypes ==
  ASSUME NEW c \in Calls, head[c] \in Heads, stableTime[c] \in Times
  PROVE  NewRow(c) \in Rows
<1> DEFINE event == PublicEvent(Input[c], stableTime[c], head[c].sequence + 1)
           Events == [id : Ids, subject : Subjects, data : {Input[d].data : d \in Calls},
                      time : Times, sequence : Nat]
<1>1. head[c].sequence + 1 \in Nat /\ head[c].hash \in Seq(Events)
  BY DEF Heads, Hashes
<1>2. event \in Events
  BY <1>1, InputAssumption DEF PublicEvent
<1>3. Append(head[c].hash, event) \in Seq(Events)
  BY <1>1, <1>2
<1> QED
  BY <1>1, <1>3, InputAssumption DEF NewRow, StoredEvent, EventHash, Rows, Hashes

\* Out of a transaction, for good or to repeat it, a call is as it should be.
LEMMA SettleTypes ==
  ASSUME CallTypes, NEW c \in Calls, NEW a \in Answers, Settle(c, a)
  PROVE  CallTypes' /\ pc' = [pc EXCEPT ![c] = "done"]
BY HeadTypes DEF CallTypes, Settle, GoTo, retries, Statements

\* The same of an error, whether it is repeated, passed on or answered.
LEMMA RaiseTypes ==
  ASSUME CallTypes, NEW c \in Calls, NEW retryable \in BOOLEAN, NEW coded \in BOOLEAN,
         Raise(c, "failed", retryable, coded)
  PROVE  CallTypes' /\ \E s \in {"done", "lockEvent"} : pc' = [pc EXCEPT ![c] = s]
<1> DEFINE again == retryable /\ coded /\ attempt[c] < LedgerAttempts
<1> USE BoundsAssumption, HeadTypes
<1>1. CASE again
  <2>1. /\ attempt' = [attempt EXCEPT ![c] = @ + 1]
        /\ Begin(c)
        /\ UNCHANGED <<round, answer>>
    BY <1>1 DEF Raise
  <2>2. attempt[c] + 1 \in 1 .. LedgerAttempts
    BY <1>1 DEF CallTypes
  <2> QED
    BY <2>1, <2>2 DEF CallTypes, Begin, GoTo, Statements
<1>2. CASE ~again /\ retryable /\ round[c] < Rounds(c)
  <2>1. /\ attempt' = [attempt EXCEPT ![c] = 1]
        /\ round' = [round EXCEPT ![c] = @ + 1]
        /\ Begin(c)
        /\ UNCHANGED answer
    BY <1>2 DEF Raise
  <2>2. round[c] + 1 \in 1 .. EngineAttempts /\ 1 \in 1 .. LedgerAttempts
    BY <1>2 DEF CallTypes, Rounds
  <2> QED
    BY <2>1, <2>2 DEF CallTypes, Begin, GoTo, Statements
<1>3. CASE ~again /\ ~(retryable /\ round[c] < Rounds(c))
  <2>1. Settle(c, "failed")
    BY <1>3 DEF Raise
  <2> QED
    BY <2>1, SettleTypes DEF Answers
<1> QED
  BY <1>1, <1>2, <1>3

\* The time a lookup keeps.
LEMMA KeepTimeTypes ==
  ASSUME NEW c \in Calls, stableTime \in [Calls -> Times \union {NoTime}],
         NEW t \in Times \union {NoTime}, KeepTime(c, t)
  PROVE  /\ stableTime' \in [Calls -> Times \union {NoTime}]
         /\ stableTime'[c] \in Times
         /\ \A d \in Calls : d # c => stableTime'[d] = stableTime[d]
BY DEF KeepTime, EventTime, Times

\* A statement that leaves tables, backends and readers alone.
LEMMA StatementTypes ==
  ASSUME TypeInv, NEW c \in Calls, CallTypes', UNCHANGED <<tables, abandoned, readers>>,
         locks' \in [LockKeys -> Backends \union {Nobody}], faults' \in 0 .. MaxFaults,
         stableTime' \in [Calls -> Times \union {NoTime}],
         \A d \in Calls : d # c => pc'[d] = pc[d] /\ stableTime'[d] = stableTime[d], Timed(c)'
  PROVE  TypeInv'
<1>1. UNCHANGED <<rows, heads, abandoned, scope, reading, view, read, verdict>>
  BY DEF tables, readers
<1>2. TypeOK'
  BY <1>1 DEF TypeInv, TypeOK, CallTypes
<1>3. \A d \in Calls : Timed(d)'
  BY DEF TypeInv, Timed
<1> QED
  BY <1>2, <1>3 DEF TypeInv

\* The statements of append().
LEMMA StepTypes ==
  ASSUME TypeInv, NEW c \in Calls, Start(c) \/ Step(c)
  PROVE  TypeInv'
<1> USE InputAssumption, KeyAssumption
<1> DEFINE LocksOK == locks' \in [LockKeys -> Backends \union {Nobody}]
           TimesOK == stableTime' \in [Calls -> Times \union {NoTime}]
           Rest == UNCHANGED <<tables, abandoned, readers>>
           Others == \A d \in Calls : d # c => pc'[d] = pc[d] /\ stableTime'[d] = stableTime[d]
<1>types. /\ CallTypes /\ locks \in [LockKeys -> Backends \union {Nobody}]
          /\ stableTime \in [Calls -> Times \union {NoTime}] /\ faults \in 0 .. MaxFaults
          /\ rows \subseteq Rows /\ heads \in [Subjects -> Heads] /\ Timed(c)
          /\ Me(c) \in Backends
  BY BackendTypes DEF TypeInv, TypeOK, CallTypes
<1>release. Release(Me(c)) => LocksOK
  BY <1>types DEF Release
<1>refuse. ASSUME NEW a \in Answers, Refuse(c, a), TimesOK, Rest, UNCHANGED faults,
                  \A d \in Calls : d # c => stableTime'[d] = stableTime[d]
           PROVE  TypeInv'
  <2>1. CallTypes' /\ pc' = [pc EXCEPT ![c] = "done"]
    BY <1>types, <1>refuse, SettleTypes DEF Refuse
  <2>2. Timed(c)' /\ Others
    BY <1>types, <1>refuse, <2>1 DEF CallTypes, Timed
  <2> QED
    BY <1>types, <1>release, <1>refuse, <2>1, <2>2, StatementTypes DEF Refuse
<1>1. CASE Start(c)
  <2>1. CallTypes' /\ Others /\ Timed(c)'
    BY <1>types, <1>1, HeadTypes DEF Start, Begin, GoTo, CallTypes, Statements, Timed
  <2> QED
    BY <1>types, <1>1, <2>1, StatementTypes DEF Start
<1>2. CASE LockEvent(c) \/ LockSubject(c)
  <2>1. CallTypes' /\ Others /\ Timed(c)' /\ TimesOK
    BY <1>types, <1>2 DEF LockEvent, LockSubject, GoTo, CallTypes, Statements, retries, locals, Timed
  <2>2. LocksOK
    BY <1>types, <1>2 DEF LockEvent, LockSubject, Take
  <2> QED
    BY <1>types, <1>2, <2>1, <2>2, StatementTypes DEF LockEvent, LockSubject
<1>3. CASE FindNothing(c)
  <2>1. TimesOK /\ stableTime'[c] \in Times /\ \A d \in Calls : d # c => stableTime'[d] = stableTime[d]
    BY <1>types, <1>3, KeepTimeTypes DEF FindNothing
  <2>2. CallTypes' /\ Others /\ Timed(c)'
    BY <1>types, <1>3, <2>1 DEF FindNothing, GoTo, CallTypes, Statements, retries, Timed
  <2> QED
    BY <1>types, <1>3, <2>1, <2>2, StatementTypes DEF FindNothing
<1>4. CASE FindOwn(c)
  <2>1. PICK e \in Existing(c) : KeepTime(c, e.time)
    BY <1>4 DEF FindOwn
  <2>2. e.time \in Times
    BY <1>types DEF Existing, Rows
  <2>3. TimesOK /\ stableTime'[c] \in Times /\ \A d \in Calls : d # c => stableTime'[d] = stableTime[d]
    BY <1>types, <2>1, <2>2, KeepTimeTypes
  <2>4. CallTypes' /\ Others /\ Timed(c)'
    BY <1>types, <1>4, <2>3 DEF FindOwn, GoTo, CallTypes, Statements, retries, Timed
  <2> QED
    BY <1>types, <1>4, <2>3, <2>4, StatementTypes DEF FindOwn
<1>5. CASE FindOther(c)
  <2>1. PICK e \in Existing(c) : KeepTime(c, e.time)
    BY <1>5 DEF FindOther
  <2>2. e.time \in Times
    BY <1>types DEF Existing, Rows
  <2>3. TimesOK /\ \A d \in Calls : d # c => stableTime'[d] = stableTime[d]
    BY <1>types, <2>1, <2>2, KeepTimeTypes
  <2> QED
    BY <1>5, <1>refuse, <2>3 DEF FindOther, Answers
<1>6. CASE ReadHead(c)
  <2>1. CallTypes' /\ Others /\ Timed(c)' /\ TimesOK
    BY <1>types, <1>6 DEF ReadHead, GoTo, CallTypes, Statements, retries, Timed, SubjectOf
  <2> QED
    BY <1>types, <1>6, <2>1, StatementTypes DEF ReadHead
<1>7. CASE ReadTail(c)
  <2>0. Rest /\ UNCHANGED <<stableTime, faults>> /\ pc[c] = "readTail"
    BY <1>7 DEF ReadTail
  <2>1. CASE \E a \in {"integrity", "moved"} : Refuse(c, a)
    BY <1>types, <1>refuse, <2>0, <2>1 DEF Answers
  <2>2. CASE GoTo(c, "insert") /\ UNCHANGED <<locks, retries, head, draft, answer>>
    <3>1. CallTypes' /\ Others /\ Timed(c)'
      BY <1>types, <2>0, <2>2 DEF GoTo, CallTypes, Statements, retries, Timed
    <3> QED
      BY <1>types, <2>0, <2>2, <3>1, StatementTypes
  <2> QED
    BY <1>7, <2>1, <2>2 DEF ReadTail
<1>8. CASE Insert(c)
  <2>0. Rest /\ UNCHANGED <<stableTime, faults>> /\ pc[c] = "insert"
    BY <1>8 DEF Insert
  <2>1. CASE Refuse(c, "duplicate")
    BY <1>types, <1>refuse, <2>0, <2>1 DEF Answers
  <2>2. CASE /\ draft' = [draft EXCEPT ![c] = NewRow(c)]
             /\ GoTo(c, "advance")
             /\ UNCHANGED <<locks, retries, head, answer>>
    <3>1. NewRow(c) \in Rows
      BY <1>types, <2>0, NewRowTypes DEF Timed, CallTypes
    <3>2. CallTypes' /\ Others /\ Timed(c)'
      BY <1>types, <2>0, <2>2, <3>1 DEF GoTo, CallTypes, Statements, retries, Timed
    <3> QED
      BY <1>types, <2>0, <2>2, <3>2, StatementTypes
  <2> QED
    BY <1>8, <2>1, <2>2 DEF Insert
<1>9. CASE Advance(c)
  <2>0. Rest /\ UNCHANGED <<stableTime, faults>> /\ pc[c] = "advance"
    BY <1>9 DEF Advance
  <2>1. CASE \E a \in {"duplicate", "integrity"} : Refuse(c, a)
    BY <1>types, <1>refuse, <2>0, <2>1 DEF Answers
  <2>2. CASE GoTo(c, "commit") /\ UNCHANGED <<locks, retries, head, draft, answer>>
    <3>1. CallTypes' /\ Others /\ Timed(c)'
      BY <1>types, <2>0, <2>2 DEF GoTo, CallTypes, Statements, retries, Timed
    <3> QED
      BY <1>types, <2>0, <2>2, <3>1, StatementTypes
  <2> QED
    BY <1>9, <2>1, <2>2 DEF Advance
<1>10. CASE LockTimeout(c)
  <2>1. PICK s \in {"done", "lockEvent"} : CallTypes' /\ pc' = [pc EXCEPT ![c] = s]
    BY <1>types, <1>10, RaiseTypes DEF LockTimeout
  <2>2. Others /\ Timed(c)'
    BY <1>types, <1>10, <2>1 DEF LockTimeout, CallTypes, Timed
  <2> QED
    BY <1>types, <1>10, <1>release, <2>1, <2>2, StatementTypes DEF LockTimeout
<1>11. CASE Commit(c)
  <2>1. CallTypes' /\ pc' = [pc EXCEPT ![c] = "done"]
    BY <1>types, <1>11, SettleTypes DEF Commit, Answers
  <2>2. rows' \subseteq Rows /\ heads' \in [Subjects -> Heads]
    <3>1. CASE draft[c] = NoRow
      BY <1>types, <1>11, <3>1 DEF Commit, tables
    <3>2. CASE draft[c] # NoRow
      <4>1. draft[c] \in Rows /\ Store(draft[c])
        BY <1>types, <1>11, <3>2 DEF Commit, CallTypes
      <4> QED
        BY <1>types, <4>1, HeadTypes DEF Store
    <3> QED
      BY <3>1, <3>2
  <2>3. UNCHANGED <<abandoned, faults, stableTime, scope, reading, view, read, verdict>> /\ LocksOK
    BY <1>11, <1>release DEF Commit, readers
  <2>4. TypeOK'
    BY <2>1, <2>2, <2>3 DEF TypeInv, TypeOK, CallTypes
  <2>5. \A d \in Calls : Timed(d)'
    BY <1>types, <2>1, <2>3 DEF TypeInv, Timed, CallTypes
  <2> QED
    BY <2>4, <2>5 DEF TypeInv
<1> QED
  BY <1>1, <1>2, <1>3, <1>4, <1>5, <1>6, <1>7, <1>8, <1>9, <1>10, <1>11 DEF Step

\* What goes wrong.
LEMMA FaultTypes ==
  ASSUME TypeInv, NEW c \in Calls, Fault(c)
  PROVE  TypeInv'
<1>types. /\ CallTypes /\ locks \in [LockKeys -> Backends \union {Nobody}]
          /\ stableTime \in [Calls -> Times \union {NoTime}] /\ faults \in 0 .. MaxFaults
          /\ Me(c) \in Backends
  BY BackendTypes DEF TypeInv, TypeOK, CallTypes
<1>1. CASE \E retryable \in BOOLEAN : StatementFails(c, retryable)
  <2>1. PICK retryable \in BOOLEAN : StatementFails(c, retryable)
    BY <1>1
  <2>2. PICK s \in {"done", "lockEvent"} : CallTypes' /\ pc' = [pc EXCEPT ![c] = s]
    BY <1>types, <2>1, RaiseTypes DEF StatementFails
  <2>3. /\ UNCHANGED <<tables, abandoned, stableTime, readers>>
        /\ locks' \in [LockKeys -> Backends \union {Nobody}]
        /\ faults' \in 0 .. MaxFaults
    BY <1>types, <2>1, BoundsAssumption DEF StatementFails, Release
  <2>4. Timed(c)' /\ \A d \in Calls : d # c => pc'[d] = pc[d]
    BY <1>types, <2>2, <2>3 DEF CallTypes, Timed
  <2> QED
    BY <1>types, <2>2, <2>3, <2>4, StatementTypes
<1>2. CASE \E coded \in BOOLEAN : ConnectionLost(c, coded)
  <2>1. PICK coded \in BOOLEAN : ConnectionLost(c, coded)
    BY <1>2
  <2>2. PICK s \in {"done", "lockEvent"} : CallTypes' /\ pc' = [pc EXCEPT ![c] = s]
    BY <1>types, <2>1, RaiseTypes DEF ConnectionLost
  <2>3. /\ UNCHANGED <<rows, heads, locks, stableTime, scope, reading, view, read, verdict>>
        /\ faults' \in 0 .. MaxFaults
    BY <1>types, <2>1, BoundsAssumption DEF ConnectionLost, tables, readers
  <2>4. abandoned' \subseteq [by : Backends, row : Rows \union {NoRow}, committing : BOOLEAN]
    <3>1. (pc[c] = "commit") \in BOOLEAN /\ draft[c] \in Rows \union {NoRow}
      BY <1>types DEF CallTypes
    <3>2. [by |-> Me(c), row |-> draft[c], committing |-> pc[c] = "commit"]
            \in [by : Backends, row : Rows \union {NoRow}, committing : BOOLEAN]
      BY <1>types, <3>1
    <3> QED
      BY <2>1, <3>2 DEF ConnectionLost, TypeInv, TypeOK
  <2>5. TypeOK'
    BY <2>2, <2>3, <2>4 DEF TypeInv, TypeOK, CallTypes
  <2>6. \A d \in Calls : Timed(d)'
    BY <1>types, <2>2, <2>3 DEF TypeInv, Timed, CallTypes
  <2> QED
    BY <2>5, <2>6 DEF TypeInv
<1> QED
  BY <1>1, <1>2 DEF Fault

\* A lost backend writes the row it was left with, and no other.
LEMMA BackendStepTypes ==
  ASSUME TypeInv, NEW b \in abandoned, BackendAborts(b) \/ BackendCommits(b)
  PROVE  TypeInv'
<1>1. /\ UNCHANGED <<faults, pc, attempt, round, stableTime, head, draft, answer,
                     scope, reading, view, read, verdict>>
      /\ abandoned' \subseteq abandoned
  BY DEF BackendAborts, BackendCommits, retries, locals, readers
<1>2. locks' \in [LockKeys -> Backends \union {Nobody}]
  BY DEF BackendAborts, BackendCommits, Release, TypeInv, TypeOK
<1>3. rows' \subseteq Rows /\ heads' \in [Subjects -> Heads]
  <2>1. CASE BackendAborts(b)
    BY <2>1 DEF BackendAborts, tables, TypeInv, TypeOK
  <2>2. CASE BackendCommits(b)
    <3>1. b.row \in Rows /\ Store(b.row) /\ rows \subseteq Rows /\ heads \in [Subjects -> Heads]
      BY <2>2 DEF BackendCommits, TypeInv, TypeOK
    <3> QED
      BY <3>1, HeadTypes DEF Store
  <2> QED
    BY <2>1, <2>2
<1>4. TypeOK'
  BY <1>1, <1>2, <1>3 DEF TypeInv, TypeOK
<1> QED
  BY <1>1, <1>4 DEF TypeInv, Timed

\* What a reader reads are rows and heads.
LEMMA ReadTypes ==
  ASSUME TypeInv, NEW r \in Readers, Read(r)
  PROVE  TypeInv'
<1>1. /\ UNCHANGED <<rows, heads, abandoned, faults, pc, attempt, round, stableTime, head, draft,
                     answer>>
      /\ rows \subseteq Rows /\ heads \in [Subjects -> Heads]
      /\ scope \in [Readers -> Subjects \union {AllSubjects}]
      /\ reading \in [Readers -> {"idle", "events", "heads"}]
      /\ verdict \in [Readers -> {"valid", "LEDGER_INTEGRITY_FAILED"}]
      /\ view \in [Readers -> [Subjects -> Heads] \union {NoView}]
      /\ read \in [Readers -> SUBSET Rows]
      /\ locks \in [LockKeys -> Backends \union {Nobody}]
  BY DEF Read, OpenSubject, OpenSnapshot, ReadEvents, ReadHeads, ReadFails, Close, writers, tables,
     retries, locals, TypeInv, TypeOK
<1>2. locks' \in [LockKeys -> Backends \union {Nobody}]
  BY <1>1, BackendTypes, KeyAssumption
     DEF Read, OpenSubject, OpenSnapshot, ReadEvents, ReadHeads, ReadFails, Close, Take, Release,
     TypeInv, TypeOK, CallTypes
<1>3. /\ scope' \in [Readers -> Subjects \union {AllSubjects}]
      /\ reading' \in [Readers -> {"idle", "events", "heads"}]
      /\ verdict' \in [Readers -> {"valid", "LEDGER_INTEGRITY_FAILED"}]
  BY <1>1 DEF Read, OpenSubject, OpenSnapshot, ReadEvents, ReadHeads, ReadFails, Close, ReadFrom
<1>4. view' \in [Readers -> [Subjects -> Heads] \union {NoView}] /\ read' \in [Readers -> SUBSET Rows]
  <2>1. OfSubjectIn(rows, scope[r]) \in SUBSET Rows /\ rows \in SUBSET Rows /\ {} \in SUBSET Rows
    BY <1>1 DEF OfSubjectIn
  <2>2. heads \in [Subjects -> Heads] \union {NoView} /\ NoView \in [Subjects -> Heads] \union {NoView}
    BY <1>1
  <2> QED
    BY <1>1, <2>1, <2>2 DEF Read, OpenSubject, OpenSnapshot, ReadEvents, ReadHeads, ReadFails, Close
<1>5. TypeOK'
  BY <1>1, <1>2, <1>3, <1>4 DEF TypeInv, TypeOK
<1> QED
  BY <1>1, <1>5 DEF TypeInv, Timed

\* The initial values are of their types.
LEMMA TypeInvInitially ==
  ASSUME Init
  PROVE  TypeInv
<1>1. CallTypes
  BY HeadTypes, BoundsAssumption DEF Init, CallTypes, Statements, Answers
<1>2. stableTime \in [Calls -> Times \union {NoTime}]
  BY DEF Init, Times
<1>3. TypeOK
  BY <1>1, <1>2, HeadTypes, BoundsAssumption DEF Init, CallTypes, TypeOK
<1> QED
  BY <1>3 DEF Init, TypeInv, Timed

\* Every step keeps the types.
LEMMA TypeInvKept ==
  ASSUME TypeInv, [Next]_vars
  PROVE  TypeInv'
<1>1. CASE Next
  BY <1>1, StepTypes, FaultTypes, BackendStepTypes, ReadTypes DEF Next
<1>2. CASE UNCHANGED vars
  BY <1>2 DEF vars, tables, retries, locals, readers, TypeInv, TypeOK, Timed
<1> QED
  BY <1>1, <1>2

\* The strengthened type invariant holds in every reachable state.
LEMMA TypeInvInvariant == Spec => []TypeInv
BY TypeInvInitially, TypeInvKept, PTL DEF Spec

\* Every variable of the ledger, its calls and its readers has its type, and a
\* row is never written without a time.
THEOREM LedgerTypes == Spec => []TypeOK
<1>1. TypeInv => TypeOK
  BY DEF TypeInv
<1> QED
  BY <1>1, TypeInvInvariant, PTL

-----------------------------------------------------------------------------
(***************************************************************************)
(* The refinement of AppendOnlyLedger: what the tables hold of each call,  *)
(* and what each call may still write.                                     *)
(***************************************************************************)
\* The events of a subject are numbered from 1 to n.
Numbered(R, s, n) ==
  /\ IsFiniteSet(OfSubjectIn(R, s))
  /\ Cardinality(OfSubjectIn(R, s)) = n
  /\ \A i \in 1 .. n : \E r \in OfSubjectIn(R, s) : r.sequence = i

Counted(s) == Numbered(rows, s, heads[s].sequence)

\* A row is the event a call asks for, at the sequence it expects.
Asked(c, row) ==
  /\ row.id = Input[c].id
  /\ row.subject = SubjectOf(c)
  /\ row.data = Input[c].data
  /\ Input[c].time \in {NoTime, row.time}
  /\ row.time \in {Input[c].time, c}
  /\ Input[c].expected \in {0, row.sequence}

\* The event of a call is in the table, whoever has written it.
Found(c) ==
  \E r \in rows :
    /\ r.id = Input[c].id
    /\ r.subject = SubjectOf(c)
    /\ r.data = Input[c].data
    /\ Input[c].time \in {NoTime, r.time}

\* No event of its subject is there that is asked for only after the call.
Ahead(c) ==
  \A d \in Calls : Abstract!Follows(d, c) /\ SubjectOf(d) = SubjectOf(c) =>
    \A r \in rows : r.id = Input[d].id => r.subject # SubjectOf(c)

\* The time a call keeps is its own, or that of the event it has found.
OwnTime(c) ==
  \/ stableTime[c] = Input[c].time
  \/ Input[c].time = NoTime /\ stableTime[c] = c
  \/ Input[c].time = NoTime /\ \E r \in Existing(c) : stableTime[c] = r.time

CallKnows(c) ==
  /\ pc[c] # "idle" => \A d \in Earlier[c] : pc[d] = "done"
  /\ pc[c] # "done" => answer[c] = "none" /\ Ahead(c)
  /\ OwnTime(c)
  /\ pc[c] = "insert" => IsExpected(c)
  /\ pc[c] = "advance" => draft[c] # NoRow
  /\ pc[c] \in {"advance", "commit"} /\ draft[c] # NoRow => Asked(c, draft[c])
  /\ pc[c] = "commit" /\ draft[c] = NoRow => Found(c)

BackendKnows(b) ==
  LET c == b.by[1] IN
    /\ pc[c] # "idle"
    /\ MayCommit(b) => Asked(c, b.row) /\ answer[c] \in {"none", "failed"} /\ Ahead(c)

Knows ==
  /\ \A c \in Calls : CallKnows(c)
  /\ \A b \in abandoned : BackendKnows(b)
  /\ \A s \in Subjects : Counted(s)

Refines == LedgerInv /\ TypeInv /\ Knows

EventContents == [id : Ids, data : {Input[c].data : c \in Calls}, time : Times]

\* The list of the events of a subject says of every row what it holds, at its
\* sequence number, and nothing else.
LEMMA ListOfRows ==
  ASSUME NEW R, R \subseteq Rows, NEW s, NEW n \in Nat, Numbered(R, s, n),
         \A r \in OfSubjectIn(R, s) : r.sequence \in 1 .. n,
         \A q, r \in OfSubjectIn(R, s) : q.sequence = r.sequence => q = r
  PROVE  /\ ListIn(R, s) \in Seq(EventContents)
         /\ Len(ListIn(R, s)) = n
         /\ \A r \in OfSubjectIn(R, s) : ListIn(R, s)[r.sequence] = ContentOf(r)
         /\ \A i \in 1 .. n : \E r \in OfSubjectIn(R, s) :
              r.sequence = i /\ ListIn(R, s)[i] = ContentOf(r)
<1> DEFINE mine == OfSubjectIn(R, s)
<1>1. /\ \A r : r \in mine <=> r \in R /\ r.subject = s
      /\ \A r \in mine : ContentOf(r) \in EventContents
  BY DEF OfSubjectIn, ContentOf, EventContents, Rows
<1>2. \A r \in mine : (CHOOSE q \in R : q.subject = s /\ q.sequence = r.sequence) = r
  BY <1>1
<1>3. ListIn(R, s) = [i \in 1 .. n |-> ContentOf(CHOOSE q \in R : q.subject = s /\ q.sequence = i)]
  BY DEF ListIn, Numbered
<1>4. \A r \in mine : ListIn(R, s)[r.sequence] = ContentOf(r)
  BY <1>2, <1>3
<1>5. \A i \in 1 .. n : \E r \in mine : r.sequence = i /\ ListIn(R, s)[i] = ContentOf(r)
  <2> TAKE i \in 1 .. n
  <2>1. PICK r \in mine : r.sequence = i
    BY DEF Numbered
  <2> QED
    BY <1>4, <2>1
<1>6. \A i \in 1 .. n : ListIn(R, s)[i] \in EventContents
  BY <1>1, <1>5
<1>7. ListIn(R, s) \in Seq(EventContents) /\ Len(ListIn(R, s)) = n
  <2> DEFINE f == [i \in 1 .. n |-> ContentOf(CHOOSE q \in R : q.subject = s /\ q.sequence = i)]
  <2>1. \A i \in 1 .. n : f[i] \in EventContents
    BY <1>3, <1>6
  <2> HIDE DEF f
  <2>2. f \in [1 .. n -> EventContents]
    BY <2>1 DEF f
  <2>3. f \in Seq(EventContents) /\ Len(f) = n
    BY <2>2
  <2> QED
    BY <1>3, <2>3 DEF f
<1> QED
  BY <1>4, <1>5, <1>7

\* The sequence numbers of a subject end at its head, and none is there twice.
LEMMA SequencesOfRows ==
  ASSUME RowsInv, heads \in [Subjects -> Heads], NEW s \in Subjects
  PROVE  /\ heads[s].sequence \in Nat
         /\ \A r \in OfSubjectIn(rows, s) : r.sequence \in 1 .. heads[s].sequence
         /\ \A q, r \in OfSubjectIn(rows, s) : q.sequence = r.sequence => q = r
<1>1. heads[s].sequence \in Nat
  BY DEF Heads
<1>2. ChainInv(s) /\ \A r \in OfSubjectIn(rows, s) : r.sequence \in Nat \ {0}
  BY DEF RowsInv, OfSubjectIn
<1>3. ASSUME NEW r \in OfSubjectIn(rows, s) PROVE r.sequence <= heads[s].sequence
  <2>1. PICK t \in OfSubjectIn(rows, s) :
               heads[s] = HeadAt(t) /\ \A q \in OfSubjectIn(rows, s) : q.sequence <= t.sequence
    BY <1>2, <1>3 DEF ChainInv
  <2> QED
    BY <2>1, <1>3 DEF HeadAt
<1>4. \A q, r \in OfSubjectIn(rows, s) : q.sequence = r.sequence => q = r
  BY <1>2 DEF ChainInv, Chained
<1> QED
  BY <1>1, <1>2, <1>3, <1>4

\* The next event of a subject is appended to its list, and to no other.
LEMMA StoreAppends ==
  ASSUME RowsInv, rows \subseteq Rows, heads \in [Subjects -> Heads],
         \A s \in Subjects : Counted(s),
         NEW row \in Rows, IsNext(row), Store(row)
  PROVE  /\ \A s \in Subjects : Counted(s)'
         /\ Contents' = [Contents EXCEPT ![row.subject] = Append(@, ContentOf(row))]
<1> DEFINE s0 == row.subject
           mine == OfSubjectIn(rows, s0)
           n == heads[s0].sequence
<1>1. \A s \in Subjects : s # s0 =>
        heads'[s] = heads[s] /\ OfSubjectIn(rows', s) = OfSubjectIn(rows, s)
  BY StoreKeepsRows
<1>2. /\ s0 \in Subjects /\ n \in Nat /\ row.sequence = n + 1
      /\ heads'[s0].sequence = n + 1
      /\ OfSubjectIn(rows', s0) = mine \union {row}
      /\ rows' \subseteq Rows
  BY DEF IsNext, Store, Heads, HeadAt, OfSubjectIn
<1>3. /\ \A r \in mine : r.sequence \in 1 .. n
      /\ \A q, r \in mine : q.sequence = r.sequence => q = r
      /\ row \notin mine
      /\ Numbered(rows, s0, n)
  BY <1>2, SequencesOfRows DEF Counted
<1>4. Numbered(rows', s0, n + 1)
  <2>1. /\ IsFiniteSet(mine \union {row})
        /\ Cardinality(mine \union {row}) = n + 1
    BY <1>2, <1>3, FS_AddElement DEF Numbered
  <2>2. \A i \in 1 .. n + 1 : \E r \in mine \union {row} : r.sequence = i
    <3> TAKE i \in 1 .. n + 1
    <3>1. CASE i = n + 1
      BY <1>2, <3>1
    <3>2. CASE i # n + 1
      <4>1. i \in 1 .. n
        BY <1>2, <3>2
      <4> QED
        BY <1>3, <4>1 DEF Numbered
    <3> QED
      BY <3>1, <3>2
  <2> QED
    BY <1>2, <2>1, <2>2 DEF Numbered
<1>5. \A s \in Subjects : s # s0 => Counted(s)'
  BY <1>1 DEF Counted, Numbered
<1>6. ASSUME NEW s \in Subjects, s # s0 PROVE ListIn(rows', s) = ListIn(rows, s)
  <2> DEFINE m == heads[s].sequence
             its == OfSubjectIn(rows, s)
  <2>1. /\ m \in Nat
        /\ \A r \in its : r.sequence \in 1 .. m
        /\ \A q, r \in its : q.sequence = r.sequence => q = r
        /\ Numbered(rows, s, m)
    BY <1>6, SequencesOfRows DEF Counted
  <2>2. OfSubjectIn(rows', s) = its /\ Numbered(rows', s, m)
    BY <1>1, <1>6, <2>1 DEF Numbered
  <2>3. /\ ListIn(rows, s) \in Seq(EventContents) /\ Len(ListIn(rows, s)) = m
        /\ \A r \in its : ListIn(rows, s)[r.sequence] = ContentOf(r)
    BY <2>1, ListOfRows
  <2>4. /\ ListIn(rows', s) \in Seq(EventContents) /\ Len(ListIn(rows', s)) = m
        /\ \A r \in its : ListIn(rows', s)[r.sequence] = ContentOf(r)
    BY <1>2, <2>1, <2>2, ListOfRows
  <2>5. \A i \in 1 .. m : \E r \in its : r.sequence = i
    BY <2>1 DEF Numbered
  <2> HIDE DEF m, its
  <2>6. ASSUME NEW i \in 1 .. m PROVE ListIn(rows', s)[i] = ListIn(rows, s)[i]
    BY <2>3, <2>4, <2>5
  <2> QED
    BY <2>1, <2>3, <2>4, <2>6
<1>7. ListIn(rows', s0) = Append(ListIn(rows, s0), ContentOf(row))
  <2>1. ContentOf(row) \in EventContents
    BY DEF Rows, ContentOf, EventContents
  <2>2. /\ ListIn(rows, s0) \in Seq(EventContents) /\ Len(ListIn(rows, s0)) = n
        /\ \A r \in mine : ListIn(rows, s0)[r.sequence] = ContentOf(r)
    BY <1>2, <1>3, ListOfRows
  <2>next. PICK next : next = n + 1
    OBVIOUS
  <2>3. /\ \A r \in OfSubjectIn(rows', s0) : r.sequence \in 1 .. next
        /\ \A q, r \in OfSubjectIn(rows', s0) : q.sequence = r.sequence => q = r
        /\ next \in Nat
        /\ Numbered(rows', s0, next)
    BY <1>2, <1>3, <1>4, <2>next
  <2>list. /\ ListIn(rows', s0) \in Seq(EventContents) /\ Len(ListIn(rows', s0)) = next
           /\ \A r \in OfSubjectIn(rows', s0) : ListIn(rows', s0)[r.sequence] = ContentOf(r)
    BY <1>2, <2>3, ListOfRows
  <2>4. /\ ListIn(rows', s0) \in Seq(EventContents) /\ Len(ListIn(rows', s0)) = n + 1
        /\ \A r \in mine \union {row} : ListIn(rows', s0)[r.sequence] = ContentOf(r)
    BY <1>2, <2>next, <2>list
  <2>5. \A i \in 1 .. n : \E r \in mine : r.sequence = i
    BY <1>3 DEF Numbered
  <2>6. ListIn(rows', s0)[n + 1] = ContentOf(row)
    BY <1>2, <2>4
  <2> HIDE DEF n, mine, s0
  <2>7. ASSUME NEW i \in 1 .. n PROVE ListIn(rows', s0)[i] = ListIn(rows, s0)[i]
    BY <2>2, <2>4, <2>5
  <2> QED
    BY <1>2, <2>1, <2>2, <2>4, <2>6, <2>7
<1>8. Contents' = [s \in Subjects |-> ListIn(rows', s)]
  BY DEF Contents
<1>9. Counted(s0)'
  BY <1>2, <1>4 DEF Counted
<1> QED
  BY <1>2, <1>5, <1>6, <1>7, <1>8, <1>9 DEF Contents

-----------------------------------------------------------------------------
\* What the list of a subject says, read through its rows.
LEMMA ContentsAre ==
  ASSUME Refines, NEW s \in Subjects
  PROVE  /\ Contents[s] \in Seq(EventContents)
         /\ Len(Contents[s]) = heads[s].sequence
         /\ DOMAIN Contents[s] = 1 .. heads[s].sequence
         /\ \A r \in rows : r.subject = s =>
              r.sequence \in DOMAIN Contents[s] /\ Contents[s][r.sequence] = ContentOf(r)
         /\ \A i \in DOMAIN Contents[s] : \E r \in rows :
              r.subject = s /\ r.sequence = i /\ Contents[s][i] = ContentOf(r)
<1>1. /\ RowsInv /\ rows \subseteq Rows /\ heads \in [Subjects -> Heads]
      /\ Numbered(rows, s, heads[s].sequence)
  BY DEF Refines, LedgerInv, TypeInv, TypeOK, Knows, Counted
<1>2. /\ heads[s].sequence \in Nat
      /\ \A r \in OfSubjectIn(rows, s) : r.sequence \in 1 .. heads[s].sequence
      /\ \A q, r \in OfSubjectIn(rows, s) : q.sequence = r.sequence => q = r
  BY <1>1, SequencesOfRows
<1>3. /\ ListIn(rows, s) \in Seq(EventContents)
      /\ Len(ListIn(rows, s)) = heads[s].sequence
      /\ \A r \in OfSubjectIn(rows, s) : ListIn(rows, s)[r.sequence] = ContentOf(r)
      /\ \A i \in 1 .. heads[s].sequence : \E r \in OfSubjectIn(rows, s) :
           r.sequence = i /\ ListIn(rows, s)[i] = ContentOf(r)
  BY <1>1, <1>2, ListOfRows
<1>4. Contents[s] = ListIn(rows, s)
  BY DEF Contents
<1>5. \A r : r \in OfSubjectIn(rows, s) <=> r \in rows /\ r.subject = s
  BY DEF OfSubjectIn
<1>6. DOMAIN Contents[s] = 1 .. heads[s].sequence
  BY <1>3, <1>4
<1> QED
  BY <1>2, <1>3, <1>4, <1>5, <1>6

\* The events of two hashes that are equal are equal.
LEMMA HashesTell ==
  ASSUME NEW S, NEW s \in Seq(S), NEW t \in Seq(S), NEW x \in S, NEW y \in S,
         Append(s, x) = Append(t, y)
  PROVE  x = y
<1>1. /\ Len(Append(s, x)) = Len(s) + 1 /\ Append(s, x)[Len(s) + 1] = x
      /\ Len(Append(t, y)) = Len(t) + 1 /\ Append(t, y)[Len(t) + 1] = y
  OBVIOUS
<1>2. Len(s) = Len(t)
  BY <1>1
<1> QED
  BY <1>1, <1>2

\* The call whose event is in the table is recorded.
LEMMA FoundIsRecorded ==
  ASSUME Refines, NEW c \in Calls, Found(c)
  PROVE  Abstract!Recorded(c)
<1>1. PICK r \in rows : /\ r.id = Input[c].id
                        /\ r.subject = SubjectOf(c)
                        /\ r.data = Input[c].data
                        /\ Input[c].time \in {NoTime, r.time}
  BY DEF Found
<1>2. SubjectOf(c) \in Subjects
  BY InputAssumption DEF SubjectOf
<1>3. r.sequence \in DOMAIN Contents[SubjectOf(c)] /\ Contents[SubjectOf(c)][r.sequence] = ContentOf(r)
  BY <1>1, <1>2, ContentsAre
<1>4. Abstract!IsOf(c, SubjectOf(c), ContentOf(r))
  BY <1>1 DEF Abstract!IsOf, Abstract!NotGiven, NoTime, ContentOf, SubjectOf
<1> QED
  BY <1>3, <1>4 DEF Abstract!Recorded, SubjectOf

\* The owner of an event and a subject writes it: the event of its call is
\* recorded, as the next of its subject and behind none that follows it.
LEMMA StoreRecords ==
  ASSUME Refines, NEW c \in Calls, NEW row \in Rows, IsNext(row), Asked(c, row), Ahead(c),
         Store(row), answer[c] \in {"none", "failed"},
         UNCHANGED answer \/ (answer[c] = "none" /\ answer' = [answer EXCEPT ![c] = "stored"])
  PROVE  (\A s \in Subjects : Counted(s)') /\ Abstract!Next
<1> DEFINE s0 == SubjectOf(c)
<1>1. /\ \A s \in Subjects : Counted(s)'
      /\ Contents' = [Contents EXCEPT ![row.subject] = Append(@, ContentOf(row))]
  BY StoreAppends DEF Refines, LedgerInv, TypeInv, TypeOK, Knows
<1>2. /\ s0 \in Subjects /\ s0 = Input[c].subject /\ row.subject = s0 /\ row.id = Input[c].id
      /\ row.data = Input[c].data /\ row.time \in {Input[c].time, c}
      /\ Input[c].time \in {NoTime, row.time} /\ Input[c].expected \in {0, row.sequence}
  BY InputAssumption DEF SubjectOf, Asked
<1>3. Len(Contents[s0]) + 1 = row.sequence
  BY <1>2, ContentsAre DEF IsNext
<1>4. Contents' = [Contents EXCEPT ![Input[c].subject] = Append(@, Abstract!Content(c, row.time))]
  BY <1>1, <1>2 DEF ContentOf, Abstract!Content
<1>5. ~Abstract!Holds(Input[c].id)
  <2> SUFFICES ASSUME NEW s \in Subjects, NEW i \in DOMAIN Contents[s], Contents[s][i].id = Input[c].id
               PROVE  FALSE
    BY DEF Abstract!Holds
  <2>1. PICK r \in rows : Contents[s][i] = ContentOf(r)
    BY ContentsAre
  <2>2. r.id = row.id
    BY <1>2, <2>1 DEF ContentOf
  <2> QED
    BY <2>2 DEF IsNext
<1>6. ASSUME NEW d \in Calls, Abstract!Follows(d, c), Input[c].subject = Input[d].subject
      PROVE  ~Abstract!Recorded(d)
  <2> SUFFICES ASSUME NEW i \in DOMAIN Contents[s0], Contents[s0][i].id = Input[d].id
               PROVE  FALSE
    BY <1>2, <1>6 DEF Abstract!Recorded, Abstract!IsOf
  <2>1. PICK r \in rows : r.subject = s0 /\ Contents[s0][i] = ContentOf(r)
    BY <1>2, ContentsAre
  <2>2. r.id = Input[d].id
    BY <2>1 DEF ContentOf
  <2> QED
    BY <1>6, <2>1, <2>2 DEF Ahead, SubjectOf
<1>7. Abstract!Record(c, row.time)
  BY <1>2, <1>3, <1>4, <1>5, <1>6 DEF Abstract!Record, Abstract!NotGiven, NoTime
<1>8. row.time \in {Input[c].time} \union Calls
  BY <1>2
<1> QED
  BY <1>1, <1>7, <1>8 DEF Abstract!Next

-----------------------------------------------------------------------------
\* The time a lookup keeps is the call's own, or that of the event it finds.
LEMMA KeepsOwnTime ==
  ASSUME NEW c \in Calls, OwnTime(c), c \in DOMAIN stableTime, UNCHANGED rows,
         NEW t, KeepTime(c, t), t = NoTime \/ \E e \in Existing(c) : t = e.time
  PROVE  OwnTime(c)' /\ (Input[c].time # NoTime => stableTime'[c] = Input[c].time)
<1>1. Existing(c)' = Existing(c)
  BY DEF Existing
<1>2. stableTime'[c] = IF stableTime[c] # NoTime THEN stableTime[c] ELSE EventTime(Input[c], t, c)
  BY DEF KeepTime
<1> QED
  BY <1>1, <1>2 DEF OwnTime, EventTime

\* What another call has written does not make it late for those that are still
\* to be answered.
LEMMA AheadOfAStore ==
  ASSUME Refines, NEW w \in Calls, pc[w] # "idle", NEW row, Store(row),
         row.id = Input[w].id
  PROVE  \A d \in Calls : pc[d] # "done" => Ahead(d)'
<1> SUFFICES ASSUME NEW d \in Calls, pc[d] # "done",
                    NEW e \in Calls, Abstract!Follows(e, d), SubjectOf(e) = SubjectOf(d),
                    NEW r \in rows', r.id = Input[e].id, r.subject = SubjectOf(d)
             PROVE  FALSE
  BY DEF Ahead, SubjectOf, Abstract!Follows
<1>1. CASE r \in rows
  <2>1. Ahead(d)
    BY DEF Refines, Knows, CallKnows
  <2> QED
    BY <1>1, <2>1 DEF Ahead
<1>2. CASE r = row
  <2>1. d \in Earlier[w]
    BY <1>2 DEF Abstract!Follows
  <2>2. CallKnows(w)
    BY DEF Refines, Knows
  <2> QED
    BY <2>1, <2>2 DEF CallKnows
<1> QED
  BY <1>1, <1>2 DEF Store

\* While one call takes a step, the others know what they knew.
LEMMA OthersKnow ==
  ASSUME Refines, NEW c \in Calls, pc[c] # "done", Moves(c), rows \subseteq rows',
         \A d \in Calls : d # c => answer'[d] = answer[d] /\ stableTime'[d] = stableTime[d],
         \A d \in Calls : pc[d] # "done" => Ahead(d)'
  PROVE  \A d \in Calls : d # c => CallKnows(d)'
<1> SUFFICES ASSUME NEW d \in Calls, d # c PROVE CallKnows(d)'
  OBVIOUS
<1>1. /\ pc'[d] = pc[d] /\ head'[d] = head[d] /\ draft'[d] = draft[d]
      /\ answer'[d] = answer[d] /\ stableTime'[d] = stableTime[d]
  BY DEF Moves
<1>2. CallKnows(d)
  BY DEF Refines, Knows
<1>3. pc'[d] # "idle" => \A e \in Earlier[d] : pc'[e] = "done"
  <2> SUFFICES ASSUME pc'[d] # "idle", NEW e \in Earlier[d] PROVE pc'[e] = "done"
    OBVIOUS
  <2>1. pc[e] = "done" /\ e \in Calls
    BY <1>1, <1>2, InputAssumption DEF CallKnows
  <2> QED
    BY <2>1 DEF Moves
<1>4. OwnTime(d)'
  <2>1. OwnTime(d)
    BY <1>2 DEF CallKnows
  <2> QED
    BY <1>1, <2>1 DEF OwnTime, Existing
<1>5. pc'[d] = "commit" /\ draft'[d] = NoRow => Found(d)'
  BY <1>1, <1>2 DEF CallKnows, Found, SubjectOf
<1> QED
  BY <1>1, <1>2, <1>3, <1>4, <1>5 DEF CallKnows, IsExpected, Asked, SubjectOf

\* So do the lost backends: a call that is about to be answered other than
\* "failed" owns its event, and then no lost backend may still commit for it.
LEMMA BackendsKnow ==
  ASSUME Refines, NEW c \in Calls, pc[c] # "done", Moves(c), pc'[c] # "idle", UNCHANGED rows,
         \A d \in Calls : d # c => answer'[d] = answer[d],
         Locked(c) \/ answer'[c] \in {answer[c], "failed"}
  PROVE  \A b \in abandoned : BackendKnows(b)'
<1> SUFFICES ASSUME NEW b \in abandoned PROVE BackendKnows(b)'
  OBVIOUS
<1>1. BackendKnows(b) /\ b.by[1] \in Calls
  BY DEF Refines, Knows, LedgerInv, NamesInv, Outlived
<1>2. pc'[b.by[1]] # "idle"
  BY <1>1 DEF BackendKnows, Moves
<1>3. ASSUME MayCommit(b) PROVE answer'[b.by[1]] \in {"none", "failed"}
  <2>1. CASE b.by[1] # c
    BY <1>1, <1>3, <2>1 DEF BackendKnows
  <2>2. CASE b.by[1] = c /\ ~Locked(c)
    BY <1>1, <1>3, <2>2 DEF BackendKnows
  <2>3. CASE b.by[1] = c /\ Locked(c)
    <3>1. b.row.id = Input[c].id
      BY <1>1, <1>3, <2>3 DEF BackendKnows, Asked
    <3>2. locks[EventKey[b.row.id]] = b.by /\ locks[EventKey[Input[c].id]] = Me(c)
      BY <1>3, <2>3 DEF Refines, LedgerInv, OwnersInv, BackendInv, OwnLocks
    <3>3. b.by # Me(c)
      BY NamesDiffer DEF Refines, LedgerInv
    <3> QED
      BY <3>1, <3>2, <3>3
  <2> QED
    BY <2>1, <2>2, <2>3
<1>4. Ahead(b.by[1]) => Ahead(b.by[1])'
  BY DEF Ahead, SubjectOf, Abstract!Follows
<1> QED
  BY <1>1, <1>2, <1>3, <1>4 DEF BackendKnows, Asked, MayCommit, SubjectOf

-----------------------------------------------------------------------------
\* A step of a call that writes nothing, with what is known after it.
LEMMA CallKnowsStep ==
  ASSUME Refines, NEW c \in Calls, pc[c] # "done", Moves(c), pc'[c] # "idle",
         UNCHANGED <<tables, abandoned>>,
         \A d \in Calls : d # c => answer'[d] = answer[d] /\ stableTime'[d] = stableTime[d],
         Locked(c) \/ answer'[c] \in {answer[c], "failed"},
         CallKnows(c)'
  PROVE  Knows'
<1>1. UNCHANGED <<rows, heads, abandoned>>
  BY DEF tables
<1>2. \A d \in Calls : pc[d] # "done" => Ahead(d)'
  BY <1>1 DEF Refines, Knows, CallKnows, Ahead, SubjectOf, Abstract!Follows
<1>3. \A d \in Calls : CallKnows(d)'
  BY <1>1, <1>2, OthersKnow
<1>4. \A b \in abandoned' : BackendKnows(b)'
  BY <1>1, BackendsKnow
<1>5. \A s \in Subjects : Counted(s)'
  BY <1>1 DEF Refines, Knows, Counted, Numbered
<1> QED
  BY <1>3, <1>4, <1>5 DEF Knows

\* A call that leaves its transaction knows nothing but its time.
LEMMA LeavesKnowing ==
  ASSUME Refines, NEW c \in Calls, InTransaction(c), Leaves(c), UNCHANGED rows, OwnTime(c)',
         pc'[c] # "done" => answer'[c] = answer[c]
  PROVE  CallKnows(c)'
<1>1. CallKnows(c) /\ pc[c] \notin {"idle", "done"}
  BY DEF Refines, Knows, InTransaction
<1>2. \A d \in Earlier[c] : pc'[d] = "done"
  <2> TAKE d \in Earlier[c]
  <2>1. pc[d] = "done" /\ d \in Calls
    BY <1>1, InputAssumption DEF CallKnows
  <2> QED
    BY <1>1, <2>1 DEF Leaves, Moves
<1>3. Ahead(c)'
  BY <1>1 DEF CallKnows, Ahead, SubjectOf, Abstract!Follows
<1> QED
  BY <1>1, <1>2, <1>3 DEF CallKnows, Leaves

\* A step that leaves the tables and the answers alone is none of the list.
LEMMA Stutters ==
  ASSUME UNCHANGED <<tables, answer>>
  PROVE  UNCHANGED Abstract!vars
BY DEF tables, Abstract!vars, Contents, ListIn, OfSubjectIn

\* An answer is one step of the list.
LEMMA SettleAnswers ==
  ASSUME Refines, NEW c \in Calls, pc[c] # "done", NEW a, Settle(c, a), UNCHANGED tables
  PROVE  Abstract!Answer(c, a)
<1>1. answer[c] = "none"
  BY DEF Refines, Knows, CallKnows
<1>2. Contents' = Contents
  BY DEF tables, Contents, ListIn, OfSubjectIn
<1> QED
  BY <1>1, <1>2 DEF Settle, Abstract!Answer

\* A refused call leaves its transaction and tells its caller why.
LEMMA RefuseKnows ==
  ASSUME Refines, NEW c \in Calls, Locked(c), NEW a, Refuse(c, a), UNCHANGED <<tables, abandoned>>,
         OwnTime(c)', \A d \in Calls : d # c => stableTime'[d] = stableTime[d]
  PROVE  Knows' /\ Abstract!Answer(c, a)
<1>1. pc[c] # "done" /\ InTransaction(c) /\ Settle(c, a)
  BY DEF Locked, InTransaction, Refuse
<1>2. Leaves(c) /\ Moves(c)
  BY <1>1, SettleLeaves DEF Leaves, Refines, LedgerInv
<1>3. /\ pc'[c] = "done"
      /\ \A d \in Calls : d # c => answer'[d] = answer[d]
  BY <1>1 DEF Settle, GoTo, Refines, LedgerInv, CallsInv
<1>4. CallKnows(c)'
  BY <1>1, <1>2, <1>3, LeavesKnowing DEF tables
<1> QED
  BY <1>1, <1>2, <1>3, <1>4, CallKnowsStep, SettleAnswers

\* An error is answered as a failure, or not at all.
LEMMA RaiseFails ==
  ASSUME Refines, NEW c \in Calls, NEW retryable \in BOOLEAN, NEW coded \in BOOLEAN,
         Raise(c, "failed", retryable, coded)
  PROVE  /\ Leaves(c)
         /\ \/ pc'[c] = "lockEvent" /\ UNCHANGED answer
            \/ pc'[c] = "done" /\ Settle(c, "failed")
         /\ \A d \in Calls : d # c => answer'[d] = answer[d]
         /\ answer'[c] \in {answer[c], "failed"}
<1>1. Leaves(c)
  BY RaiseLeaves DEF Refines, LedgerInv
<1>2. c \in DOMAIN pc /\ c \in DOMAIN answer
  BY DEF Refines, TypeInv, TypeOK
<1>3. CASE Begin(c) /\ UNCHANGED answer
  BY <1>1, <1>2, <1>3 DEF Begin, GoTo
<1>4. CASE Settle(c, "failed")
  BY <1>1, <1>2, <1>4 DEF Settle, GoTo
<1> QED
  BY <1>3, <1>4 DEF Raise

-----------------------------------------------------------------------------
\* A statement that is not the last of its transaction.
LEMMA GoesOn ==
  ASSUME Refines, NEW c \in Calls, pc[c] # "done", pc'[c] \notin {"idle", "done"}, Moves(c),
         UNCHANGED <<tables, abandoned, answer>>,
         \A d \in Calls : d # c => stableTime'[d] = stableTime[d],
         \A d \in Earlier[c] : pc[d] = "done",
         OwnTime(c)',
         pc'[c] = "insert" => IsExpected(c)',
         pc'[c] = "advance" => draft'[c] # NoRow,
         pc'[c] \in {"advance", "commit"} /\ draft'[c] # NoRow => Asked(c, draft'[c]),
         pc'[c] = "commit" /\ draft'[c] = NoRow => Found(c)
  PROVE  Knows' /\ UNCHANGED Abstract!vars
<1>1. UNCHANGED <<rows, heads>>
  BY DEF tables
<1>2. \A d \in Earlier[c] : pc'[d] = "done"
  BY InputAssumption DEF Moves
<1>3. answer'[c] = "none" /\ Ahead(c)'
  BY <1>1 DEF Refines, Knows, CallKnows, Ahead, SubjectOf, Abstract!Follows
<1>4. Found(c) => Found(c)'
  BY <1>1 DEF Found, SubjectOf
<1>5. CallKnows(c)'
  BY <1>2, <1>3, <1>4 DEF CallKnows, Asked, SubjectOf
<1> QED
  BY <1>5, CallKnowsStep, Stutters

\* The statements of append(): most leave the list alone, a refusal is one of
\* its answers.
LEMMA StatementRefines ==
  ASSUME Refines, NEW c \in Calls,
         \/ Start(c) \/ LockEvent(c) \/ LockSubject(c)
         \/ FindNothing(c) \/ FindOwn(c) \/ FindOther(c)
         \/ ReadHead(c) \/ ReadTail(c) \/ Insert(c) \/ Advance(c)
  PROVE  Knows' /\ (Abstract!Next \/ UNCHANGED Abstract!vars)
<1> DEFINE Others == \A d \in Calls : d # c => stableTime'[d] = stableTime[d]
           Rest == UNCHANGED <<tables, abandoned>>
<1>known. /\ CallKnows(c) /\ OwnDraft(c) /\ CallTypes /\ RowsInv /\ Timed(c)
          /\ stableTime \in [Calls -> Times \union {NoTime}] /\ rows \subseteq Rows
          /\ SubjectOf(c) \in Subjects /\ OwnTime(c)
          /\ CallsInv
  BY InputAssumption
     DEF Refines, Knows, LedgerInv, OwnersInv, TypeInv, TypeOK, CallTypes, SubjectOf, CallKnows
<1>time. UNCHANGED <<tables, stableTime>> => OwnTime(c)'
  BY <1>known DEF OwnTime, Existing, tables
<1>earlier. pc[c] # "idle" => \A d \in Earlier[c] : pc[d] = "done"
  BY <1>known DEF CallKnows
<1>1. CASE Start(c)
  <2>1. /\ Moves(c) /\ Rest /\ UNCHANGED <<answer, stableTime>>
        /\ pc[c] = "idle" /\ pc'[c] = "lockEvent"
        /\ \A d \in Earlier[c] : pc[d] = "done"
    BY <1>1, <1>known DEF Start, Begin, GoTo, Moves, CallsInv, Statements
  <2> QED
    BY <1>time, <2>1, GoesOn
<1>2. CASE LockEvent(c) \/ LockSubject(c)
  <2>1. /\ Moves(c) /\ Rest /\ UNCHANGED <<answer, stableTime>> /\ pc[c] \notin {"idle", "done"}
        /\ pc'[c] \in {"lockSubject", "lookup"}
    BY <1>2, <1>known DEF LockEvent, LockSubject, GoTo, Moves, CallsInv, Statements, retries, locals
  <2> QED
    BY <1>time, <1>earlier, <2>1, GoesOn
<1>3. CASE FindNothing(c)
  <2>1. /\ Moves(c) /\ Rest /\ UNCHANGED answer /\ pc[c] = "lookup" /\ pc'[c] = "readHead" /\ Others
        /\ KeepTime(c, NoTime) /\ UNCHANGED rows
    BY <1>3, <1>known DEF FindNothing, GoTo, Moves, CallsInv, Statements, retries, KeepTime, tables
  <2>2. OwnTime(c)'
    BY <1>known, <2>1, KeepsOwnTime
  <2> QED
    BY <1>earlier, <2>1, <2>2, GoesOn
<1>4. CASE FindOwn(c)
  <2>1. PICK e \in Existing(c) : KeepTime(c, e.time) /\ IsRepeat(c, e)
    BY <1>4 DEF FindOwn
  <2>2. /\ Moves(c) /\ Rest /\ UNCHANGED answer /\ pc[c] = "lookup" /\ pc'[c] = "commit" /\ Others
        /\ UNCHANGED rows /\ draft' = draft
    BY <1>4, <1>known, <2>1 DEF FindOwn, GoTo, Moves, CallsInv, Statements, retries, KeepTime, tables
  <2>3. OwnTime(c)' /\ (Input[c].time # NoTime => stableTime'[c] = Input[c].time)
    BY <1>known, <2>1, <2>2, KeepsOwnTime
  <2>4. e \in rows /\ e.id = Input[c].id /\ e.time \in Times /\ e \in Rows
    BY <1>known, <2>1 DEF Existing, Rows
  <2>5. stableTime'[c] \in Times
    BY <1>known, <2>1, <2>4, KeepTimeTypes
  <2> DEFINE Events == [id : Ids, subject : Subjects, data : {Input[d].data : d \in Calls},
                        time : Times, sequence : Nat]
             asked == PublicEvent(Input[c], stableTime'[c], e.sequence)
             stored == PublicEvent(e, e.time, e.sequence)
  <2>6. asked \in Events /\ stored \in Events /\ e.previousHash \in Seq(Events)
    BY <2>4, <2>5, InputAssumption DEF PublicEvent, Rows, Hashes
  <2>7. Append(e.previousHash, asked) = Append(e.previousHash, stored)
    <3>1. e.eventHash = OwnHash(e)
      BY <1>known, <2>4 DEF RowsInv, ChainInv, Chained, OfSubjectIn
    <3> QED
      BY <2>1, <3>1 DEF IsRepeat, Candidate, EventHash, OwnHash
  <2>8. asked = stored
    BY <2>6, <2>7, HashesTell
  <2>9. Input[c].subject = e.subject /\ Input[c].data = e.data /\ stableTime'[c] = e.time
    BY <2>8 DEF PublicEvent
  <2>10. Found(c)
    BY <2>3, <2>4, <2>9 DEF Found, SubjectOf
  <2>11. draft'[c] = NoRow
    BY <1>known, <2>2 DEF OwnDraft
  <2> QED
    BY <1>earlier, <2>2, <2>3, <2>10, <2>11, GoesOn
<1>5. CASE FindOther(c)
  <2>1. PICK e \in Existing(c) : KeepTime(c, e.time) /\ ~IsRepeat(c, e)
    BY <1>5 DEF FindOther
  <2>2. Rest /\ UNCHANGED rows /\ Others /\ Locked(c) /\ Refuse(c, "reused")
    BY <1>5, <1>known, <2>1 DEF FindOther, KeepTime, tables, Locked
  <2>3. OwnTime(c)'
    BY <1>known, <2>1, <2>2, KeepsOwnTime
  <2>4. Knows' /\ Abstract!Answer(c, "reused")
    BY <2>2, <2>3, RefuseKnows
  <2>5. /\ e \in rows /\ e.id = Input[c].id /\ e.time \in Times /\ e.time # NoTime
        /\ e.subject \in Subjects
    BY <1>known, <2>1, InputAssumption DEF Existing, Rows, Times
  <2>6. /\ e.sequence \in DOMAIN Contents[e.subject]
        /\ Contents[e.subject][e.sequence] = ContentOf(e)
    BY <2>5, ContentsAre
  <2>7. ASSUME e.subject = Input[c].subject, e.data = Input[c].data, Input[c].time \in {NoTime, e.time},
               e.time \in {Input[c].time, c}, Input[c].expected \in {0, e.sequence}
        PROVE  FALSE
    <3>1. stableTime'[c] = IF stableTime[c] # NoTime THEN stableTime[c]
                           ELSE EventTime(Input[c], e.time, c)
      BY <1>known, <2>1 DEF KeepTime
    <3>2. \A r \in Existing(c) : r.time = e.time
      BY <1>known, <2>5 DEF RowsInv, IdIsStoredOnce, Existing
    <3>3. stableTime'[c] = e.time
      BY <1>known, <2>5, <2>7, <3>1, <3>2 DEF OwnTime, EventTime
    <3>4. e.eventHash = OwnHash(e)
      BY <1>known, <2>5 DEF RowsInv, ChainInv, Chained, OfSubjectIn
    <3> QED
      BY <2>1, <2>5, <2>7, <3>3, <3>4 DEF IsRepeat, Candidate, OwnHash, PublicEvent
  <2>8. \/ ~Abstract!IsOf(c, e.subject, ContentOf(e))
        \/ e.time \notin {Input[c].time, c}
        \/ Input[c].expected \notin {0, e.sequence}
    BY <2>7 DEF Abstract!IsOf, Abstract!NotGiven, NoTime, ContentOf
  <2>9. Abstract!Reused(c)
    BY <2>4, <2>5, <2>6, <2>8 DEF Abstract!Reused, ContentOf
  <2> QED
    BY <2>4, <2>9 DEF Abstract!Next
<1>6. CASE ReadHead(c)
  <2>1. /\ Moves(c) /\ Rest /\ UNCHANGED <<answer, stableTime>>
        /\ pc[c] = "readHead" /\ pc'[c] = "readTail"
    BY <1>6, <1>known DEF ReadHead, GoTo, Moves, CallsInv, Statements, retries
  <2> QED
    BY <1>time, <1>earlier, <2>1, GoesOn
<1>7. CASE ReadTail(c)
  <2>0. pc[c] = "readTail" /\ Rest /\ UNCHANGED stableTime /\ Locked(c) /\ Others
    BY <1>7 DEF ReadTail, Locked
  <2>1. head[c] = heads[SubjectOf(c)]
    BY <1>known, <2>0 DEF OwnDraft
  <2>2. head[c] = TailIn(rows, SubjectOf(c))
    BY <1>known, <2>1, HeadIsTail DEF RowsInv
  <2>3. CASE ~IsExpected(c)
    <3>1. Refuse(c, "moved")
      BY <1>7, <2>2, <2>3 DEF ReadTail
    <3>2. Knows' /\ Abstract!Answer(c, "moved")
      BY <1>time, <2>0, <3>1, RefuseKnows
    <3>3. Len(Contents[Input[c].subject]) = head[c].sequence
      BY <1>known, <2>1, ContentsAre DEF SubjectOf
    <3>4. Abstract!Moved(c)
      BY <2>3, <3>2, <3>3 DEF Abstract!Moved, IsExpected
    <3> QED
      BY <3>2, <3>4 DEF Abstract!Next
  <2>4. CASE IsExpected(c)
    <3>1. GoTo(c, "insert") /\ UNCHANGED <<locks, retries, head, draft, answer>>
      BY <1>7, <2>2, <2>4 DEF ReadTail
    <3>2. Moves(c) /\ pc'[c] = "insert" /\ UNCHANGED <<answer, head>>
      BY <1>known, <2>0, <3>1 DEF GoTo, Moves, CallsInv, Statements, retries
    <3>3. IsExpected(c)'
      BY <2>4, <3>2 DEF IsExpected
    <3> QED
      BY <1>time, <1>earlier, <2>0, <3>2, <3>3, GoesOn
  <2> QED
    BY <2>3, <2>4
<1>8. CASE Insert(c)
  <2>0. pc[c] = "insert" /\ Rest /\ UNCHANGED stableTime /\ Others
    BY <1>8 DEF Insert
  <2>1. /\ head[c] = heads[SubjectOf(c)] /\ head[c] \in Heads
        /\ Existing(c) = {} /\ stableTime[c] \in Times
    BY <1>known, <2>0 DEF OwnDraft, Timed, CallTypes
  <2>2. NewRow(c) \in Rows
    BY <2>1, NewRowTypes
  <2>3. ASSUME NEW q \in rows, Clashes(NewRow(c), q) PROVE FALSE
    <3>1. q.id # Input[c].id /\ q \in Rows
      BY <1>known, <2>1 DEF Existing
    <3>2. CASE q.id = NewRow(c).id
      BY <3>1, <3>2 DEF NewRow, StoredEvent
    <3>3. CASE q.eventHash = NewRow(c).eventHash
      <4> DEFINE Events == [id : Ids, subject : Subjects, data : {Input[d].data : d \in Calls},
                            time : Times, sequence : Nat]
                 mine == PublicEvent(Input[c], stableTime[c], head[c].sequence + 1)
                 its == PublicEvent(q, q.time, q.sequence)
      <4>1. mine \in Events /\ its \in Events
            /\ head[c].hash \in Seq(Events) /\ q.previousHash \in Seq(Events)
        BY <2>1, <3>1, InputAssumption DEF PublicEvent, Rows, Heads, Hashes
      <4>2. q.eventHash = OwnHash(q)
        BY <1>known, <3>1 DEF RowsInv, ChainInv, Chained, OfSubjectIn
      <4>3. Append(head[c].hash, mine) = Append(q.previousHash, its)
        BY <3>3, <4>2 DEF NewRow, StoredEvent, EventHash, OwnHash
      <4>4. mine = its
        BY <4>1, <4>3, HashesTell
      <4> QED
        BY <3>1, <4>4 DEF PublicEvent
    <3>4. CASE q.subject = NewRow(c).subject /\ q.sequence = NewRow(c).sequence
      <4>1. q.subject = SubjectOf(c) /\ q.sequence = heads[SubjectOf(c)].sequence + 1
        BY <2>1, <3>4 DEF NewRow, StoredEvent, SubjectOf
      <4>2. q.sequence \in 1 .. heads[SubjectOf(c)].sequence /\ heads[SubjectOf(c)].sequence \in Nat
        BY <1>known, <4>1, SequencesOfRows DEF OfSubjectIn, Refines, TypeInv, TypeOK
      <4> QED
        BY <4>1, <4>2
    <3> QED
      BY <2>3, <3>2, <3>3, <3>4 DEF Clashes
  <2>4. /\ draft' = [draft EXCEPT ![c] = NewRow(c)]
        /\ GoTo(c, "advance")
        /\ UNCHANGED <<locks, retries, head, answer>>
    BY <1>8, <2>3 DEF Insert
  <2>5. Moves(c) /\ pc'[c] = "advance" /\ draft'[c] = NewRow(c) /\ UNCHANGED answer
    BY <1>known, <2>0, <2>4 DEF GoTo, Moves, CallsInv, Statements, retries
  <2>6. Asked(c, NewRow(c))
    <3>1. IsExpected(c) /\ OwnTime(c)
      BY <1>known, <2>0 DEF CallKnows
    <3>2. /\ stableTime[c] \in {Input[c].time, c}
          /\ Input[c].time \in {NoTime, stableTime[c]}
      BY <2>1, <3>1 DEF OwnTime
    <3> QED
      BY <3>1, <3>2 DEF Asked, NewRow, StoredEvent, SubjectOf, IsExpected
  <2> QED
    BY <1>time, <1>earlier, <2>0, <2>2, <2>5, <2>6, NoRowIsNone, GoesOn
<1>9. CASE Advance(c)
  <2>0. pc[c] = "advance" /\ Rest /\ UNCHANGED stableTime /\ Others
    BY <1>9 DEF Advance
  <2>1. head[c] = heads[SubjectOf(c)] /\ draft[c] # NoRow => Asked(c, draft[c])
    BY <1>known, <2>0 DEF OwnDraft, CallKnows
  <2>2. GoTo(c, "commit") /\ UNCHANGED <<locks, retries, head, draft, answer>>
    BY <1>9, <1>known, <2>0 DEF Advance, OwnDraft
  <2>3. Moves(c) /\ pc'[c] = "commit" /\ draft'[c] = draft[c] /\ UNCHANGED answer
    BY <1>known, <2>0, <2>2 DEF GoTo, Moves, CallsInv, Statements, retries
  <2>4. draft[c] # NoRow /\ Asked(c, draft[c])
    BY <1>known, <2>0 DEF CallKnows
  <2> QED
    BY <1>time, <1>earlier, <2>0, <2>3, <2>4, GoesOn
<1> QED
  BY <1>1, <1>2, <1>3, <1>4, <1>5, <1>6, <1>7, <1>8, <1>9

\* A statement that fails, a wait that ends without its lock.
LEMMA FailureRefines ==
  ASSUME Refines, NEW c \in Calls,
         LockTimeout(c) \/ \E retryable \in BOOLEAN : StatementFails(c, retryable)
  PROVE  Knows' /\ (Abstract!Next \/ UNCHANGED Abstract!vars)
<1>1. PICK retryable \in BOOLEAN : Raise(c, "failed", retryable, TRUE)
  BY DEF LockTimeout, StatementFails
<1>2. /\ InTransaction(c) /\ pc[c] # "done"
      /\ UNCHANGED <<tables, abandoned, stableTime>> /\ UNCHANGED rows
  BY DEF LockTimeout, StatementFails, InTransaction, tables
<1>3. /\ Leaves(c) /\ Moves(c)
      /\ \/ pc'[c] = "lockEvent" /\ UNCHANGED answer
         \/ pc'[c] = "done" /\ Settle(c, "failed")
      /\ \A d \in Calls : d # c => answer'[d] = answer[d]
      /\ answer'[c] \in {answer[c], "failed"}
  BY <1>1, RaiseFails DEF Leaves
<1>4. CallKnows(c)'
  <2>1. OwnTime(c)'
    BY <1>2 DEF Refines, Knows, CallKnows, OwnTime, Existing
  <2> QED
    BY <1>2, <1>3, <2>1, LeavesKnowing
<1>5. Knows'
  BY <1>2, <1>3, <1>4, CallKnowsStep
<1>6. CASE UNCHANGED answer
  BY <1>2, <1>5, <1>6, Stutters
<1>7. CASE Settle(c, "failed")
  <2>1. Abstract!Failed(c)
    BY <1>2, <1>7, SettleAnswers DEF Abstract!Failed
  <2> QED
    BY <1>5, <2>1 DEF Abstract!Next
<1> QED
  BY <1>3, <1>6, <1>7

\* A lost connection: what the call knew of its row the backend knows now.
LEMMA LossRefines ==
  ASSUME Refines, NEW c \in Calls, NEW coded \in BOOLEAN, ConnectionLost(c, coded)
  PROVE  Knows' /\ (Abstract!Next \/ UNCHANGED Abstract!vars)
<1>lost. PICK lost : lost = [by |-> Me(c), row |-> draft[c], committing |-> pc[c] = "commit"]
  OBVIOUS
<1>1. /\ InTransaction(c) /\ pc[c] # "done"
      /\ UNCHANGED <<rows, heads, stableTime, tables>>
      /\ abandoned' = abandoned \union {lost}
  BY <1>lost DEF ConnectionLost, InTransaction, tables
<1>2. /\ Leaves(c) /\ Moves(c)
      /\ \/ pc'[c] = "lockEvent" /\ UNCHANGED answer
         \/ pc'[c] = "done" /\ Settle(c, "failed")
      /\ \A d \in Calls : d # c => answer'[d] = answer[d]
      /\ answer'[c] \in {answer[c], "failed"}
  BY RaiseFails DEF ConnectionLost, Leaves
<1>3. CallKnows(c)'
  <2>1. OwnTime(c)'
    BY <1>1 DEF Refines, Knows, CallKnows, OwnTime, Existing
  <2> QED
    BY <1>1, <1>2, <2>1, LeavesKnowing
<1>4. \A d \in Calls : pc[d] # "done" => Ahead(d)'
  BY <1>1 DEF Refines, Knows, CallKnows, Ahead, SubjectOf, Abstract!Follows
<1>5. \A d \in Calls : CallKnows(d)'
  BY <1>1, <1>2, <1>3, <1>4, OthersKnow
<1>6. \A b \in abandoned : BackendKnows(b)'
  BY <1>1, <1>2, BackendsKnow
<1>7. BackendKnows(lost)'
  <2>1. lost.by[1] = c /\ lost.row = draft[c] /\ (lost.committing <=> pc[c] = "commit")
    BY <1>lost DEF Me
  <2>2. CallKnows(c)
    BY DEF Refines, Knows
  <2>3. answer'[c] \in {"none", "failed"} /\ Ahead(c)' /\ pc'[c] # "idle"
    BY <1>1, <1>2, <1>4, <2>2 DEF CallKnows
  <2>4. MayCommit(lost) => Asked(c, lost.row)
    BY <2>1, <2>2 DEF MayCommit, CallKnows
  <2> QED
    BY <2>1, <2>3, <2>4 DEF BackendKnows, MayCommit, Asked, SubjectOf
<1>8. \A s \in Subjects : Counted(s)'
  BY <1>1 DEF Refines, Knows, Counted, Numbered
<1>9. Knows'
  BY <1>1, <1>5, <1>6, <1>7, <1>8 DEF Knows
<1>10. CASE UNCHANGED answer
  BY <1>1, <1>9, <1>10, Stutters
<1>11. CASE Settle(c, "failed")
  <2>1. Abstract!Failed(c)
    BY <1>1, <1>11, SettleAnswers DEF Abstract!Failed
  <2> QED
    BY <1>9, <2>1 DEF Abstract!Next
<1> QED
  BY <1>2, <1>10, <1>11

\* A commit records the row of the call, or finds that its event is there.
LEMMA CommitRefines ==
  ASSUME Refines, NEW c \in Calls, Commit(c)
  PROVE  Knows' /\ (Abstract!Next \/ UNCHANGED Abstract!vars)
<1>1. /\ pc[c] = "commit" /\ Settle(c, "stored") /\ InTransaction(c) /\ Locked(c)
      /\ UNCHANGED <<abandoned, stableTime>>
  BY DEF Commit, InTransaction, Locked
<1>2. Leaves(c) /\ Moves(c)
  BY <1>1, SettleLeaves DEF Leaves, Refines, LedgerInv
<1>3. /\ pc'[c] = "done"
      /\ answer' = [answer EXCEPT ![c] = "stored"]
      /\ \A d \in Calls : d # c => answer'[d] = answer[d]
  BY <1>1 DEF Settle, GoTo, Refines, LedgerInv, CallsInv
<1>4. CallKnows(c)
  BY DEF Refines, Knows
<1>5. CASE draft[c] = NoRow
  <2>1. UNCHANGED tables /\ UNCHANGED rows
    BY <1>5 DEF Commit, tables
  <2>2. OwnTime(c)'
    BY <1>1, <1>4, <2>1 DEF CallKnows, OwnTime, Existing
  <2>3. CallKnows(c)'
    BY <1>1, <1>2, <1>3, <2>1, <2>2, LeavesKnowing
  <2>4. Knows'
    BY <1>1, <1>2, <1>3, <2>1, <2>3, CallKnowsStep
  <2>5. Abstract!Recorded(c)
    BY <1>1, <1>4, <1>5, FoundIsRecorded DEF CallKnows
  <2>6. Abstract!Stored(c)
    BY <1>1, <2>1, <2>5, SettleAnswers DEF Abstract!Stored
  <2> QED
    BY <2>4, <2>6 DEF Abstract!Next
<1>6. CASE draft[c] # NoRow
  <2>1. PICK row : row = draft[c]
    OBVIOUS
  <2>2. row \in Rows /\ IsNext(row) /\ Asked(c, row) /\ Ahead(c) /\ answer[c] = "none" /\ Store(row)
    BY <1>1, <1>4, <1>6, <2>1
       DEF Commit, CallKnows, OwnDraft, Refines, LedgerInv, OwnersInv, TypeInv, TypeOK
  <2>3. (\A s \in Subjects : Counted(s)') /\ Abstract!Next
    BY <1>3, <2>2, StoreRecords
  <2>4. \A d \in Calls : pc[d] # "done" => Ahead(d)'
    BY <1>1, <2>2, AheadOfAStore DEF Asked
  <2>5. rows \subseteq rows'
    BY <2>2 DEF Store
  <2>6. \A d \in Calls : d # c => CallKnows(d)'
    BY <1>1, <1>2, <1>3, <2>4, <2>5, OthersKnow
  <2>7. CallKnows(c)'
    <3>1. OwnTime(c)'
      BY <1>1, <1>4, <2>5 DEF CallKnows, OwnTime, Existing
    <3>2. \A d \in Earlier[c] : pc'[d] = "done"
      <4> TAKE d \in Earlier[c]
      <4>1. pc[d] = "done" /\ d \in Calls
        BY <1>1, <1>4, InputAssumption DEF CallKnows
      <4> QED
        BY <1>1, <4>1, <1>2 DEF Moves
    <3> QED
      BY <1>3, <3>1, <3>2 DEF CallKnows
  <2>8. \A b \in abandoned : BackendKnows(b)'
    <3> SUFFICES ASSUME NEW b \in abandoned PROVE BackendKnows(b)'
      OBVIOUS
    <3>1. BackendKnows(b) /\ b.by[1] \in Calls /\ b.by # Me(c)
      BY <1>1, NamesDiffer DEF Refines, Knows, LedgerInv, NamesInv, Outlived
    <3>2. pc'[b.by[1]] # "idle"
      BY <1>3, <3>1, <1>2 DEF BackendKnows, Moves
    <3>3. ASSUME MayCommit(b) PROVE b.by[1] # c /\ b.row.subject # row.subject
      <4>1. /\ locks[EventKey[row.id]] = Me(c) /\ locks[SubjectKey[row.subject]] = Me(c)
        BY <1>1, <2>2 DEF Refines, LedgerInv, OwnersInv, OwnLocks, Asked
      <4>2. b.row.id # row.id /\ b.row.subject # row.subject
        BY <3>1, <3>3, <4>1, OwnersAreAlone DEF Refines, LedgerInv
      <4> QED
        BY <2>2, <3>1, <3>3, <4>2 DEF BackendKnows, Asked
    <3>4. ASSUME MayCommit(b) PROVE Ahead(b.by[1])'
      <4>1. Ahead(b.by[1]) /\ SubjectOf(b.by[1]) = b.row.subject
        BY <3>1, <3>4 DEF BackendKnows, Asked
      <4> QED
        BY <2>2, <3>3, <3>4, <4>1 DEF Ahead, SubjectOf, Abstract!Follows, Store
    <3> QED
      BY <1>3, <3>1, <3>2, <3>3, <3>4 DEF BackendKnows, Asked, MayCommit, SubjectOf
  <2> QED
    BY <1>1, <2>3, <2>6, <2>7, <2>8 DEF Knows
<1> QED
  BY <1>5, <1>6

\* What a lost backend commits is the event of a call that was told nothing, or
\* that it failed.
LEMMA BackendRefines ==
  ASSUME Refines, NEW b \in abandoned, BackendAborts(b) \/ BackendCommits(b)
  PROVE  Knows' /\ (Abstract!Next \/ UNCHANGED Abstract!vars)
<1>1. /\ UNCHANGED <<pc, attempt, round, stableTime, head, draft, answer>>
      /\ abandoned' = abandoned \ {b}
  BY DEF BackendAborts, BackendCommits, retries, locals
<1>2. CASE BackendAborts(b)
  <2>1. UNCHANGED <<rows, heads>> /\ UNCHANGED tables
    BY <1>2 DEF BackendAborts, tables
  <2>2. \A d \in Calls : Ahead(d) => Ahead(d)'
    BY <2>1 DEF Ahead, SubjectOf, Abstract!Follows
  <2>3. \A d \in Calls : CallKnows(d)'
    BY <1>1, <2>1, <2>2
       DEF Refines, Knows, CallKnows, OwnTime, Existing, IsExpected, Asked, Found, SubjectOf
  <2>4. \A a \in abandoned' : BackendKnows(a)'
    <3> SUFFICES ASSUME NEW a \in abandoned PROVE BackendKnows(a)'
      BY <1>1
    <3>1. BackendKnows(a) /\ a.by[1] \in Calls
      BY DEF Refines, Knows, LedgerInv, NamesInv, Outlived
    <3> QED
      BY <1>1, <2>2, <3>1 DEF BackendKnows, Asked, MayCommit, SubjectOf
  <2>5. \A s \in Subjects : Counted(s)'
    BY <2>1 DEF Refines, Knows, Counted, Numbered
  <2> QED
    BY <1>1, <2>1, <2>3, <2>4, <2>5, Stutters DEF Knows
<1>3. CASE BackendCommits(b)
  <2>1. PICK row, w, me : row = b.row /\ w = b.by[1] /\ me = b.by
    OBVIOUS
  <2>2. /\ MayCommit(b) /\ Store(row) /\ w \in Calls /\ row \in Rows /\ IsNext(row)
        /\ locks[EventKey[row.id]] = me /\ locks[SubjectKey[row.subject]] = me
    BY <1>3, <2>1 DEF BackendCommits, MayCommit, Refines, LedgerInv, NamesInv, Outlived, OwnersInv,
       BackendInv, TypeInv, TypeOK
  <2>3. pc[w] # "idle" /\ Asked(w, row) /\ answer[w] \in {"none", "failed"} /\ Ahead(w)
    BY <2>1, <2>2 DEF Refines, Knows, BackendKnows
  <2>4. (\A s \in Subjects : Counted(s)') /\ Abstract!Next
    BY <1>1, <2>2, <2>3, StoreRecords
  <2>5. \A d \in Calls : pc[d] # "done" => Ahead(d)'
    BY <2>2, <2>3, AheadOfAStore DEF Asked
  <2>6. rows \subseteq rows'
    BY <2>2 DEF Store
  <2>7. \A d \in Calls : CallKnows(d)'
    <3> SUFFICES ASSUME NEW d \in Calls PROVE CallKnows(d)'
      OBVIOUS
    <3>1. CallKnows(d)
      BY DEF Refines, Knows
    <3>2. OwnTime(d)' /\ (Found(d) => Found(d)')
      BY <1>1, <2>6, <3>1 DEF CallKnows, OwnTime, Existing, Found, SubjectOf
    <3> QED
      BY <1>1, <2>5, <3>1, <3>2 DEF CallKnows, IsExpected, Asked, SubjectOf
  <2>8. \A a \in abandoned' : BackendKnows(a)'
    <3> SUFFICES ASSUME NEW a \in abandoned, a # b PROVE BackendKnows(a)'
      BY <1>1
    <3>1. BackendKnows(a) /\ a.by[1] \in Calls /\ a.by # me
      BY <2>1 DEF Refines, Knows, LedgerInv, NamesInv, Outlived
    <3>2. ASSUME MayCommit(a) PROVE Ahead(a.by[1])'
      <4>1. a.row.subject # row.subject
        BY <2>2, <3>1, <3>2, OwnersAreAlone DEF Refines, LedgerInv
      <4>2. Ahead(a.by[1]) /\ SubjectOf(a.by[1]) = a.row.subject
        BY <3>1, <3>2 DEF BackendKnows, Asked
      <4> QED
        BY <2>2, <4>1, <4>2 DEF Ahead, SubjectOf, Abstract!Follows, Store
    <3> QED
      BY <1>1, <3>1, <3>2 DEF BackendKnows, Asked, MayCommit, SubjectOf
  <2> QED
    BY <2>4, <2>7, <2>8 DEF Knows
<1> QED
  BY <1>2, <1>3

\* Where tables, backends and calls stand still, all that is known stays known.
LEMMA ReadersRefine ==
  ASSUME Refines, UNCHANGED writers
  PROVE  Knows' /\ UNCHANGED Abstract!vars
<1>1. UNCHANGED <<rows, heads, abandoned, pc, stableTime, head, draft, answer, tables>>
  BY DEF writers, tables, locals
<1>2. \A d \in Calls : Ahead(d) => Ahead(d)'
  BY <1>1 DEF Ahead, SubjectOf, Abstract!Follows
<1>3. \A d \in Calls : CallKnows(d)'
  BY <1>1, <1>2 DEF Refines, Knows, CallKnows, OwnTime, Existing, IsExpected, Asked, Found, SubjectOf
<1>4. \A a \in abandoned' : BackendKnows(a)'
  <2> SUFFICES ASSUME NEW a \in abandoned PROVE BackendKnows(a)'
    BY <1>1
  <2>1. BackendKnows(a) /\ a.by[1] \in Calls
    BY DEF Refines, Knows, LedgerInv, NamesInv, Outlived
  <2> QED
    BY <1>1, <1>2, <2>1 DEF BackendKnows, Asked, MayCommit, SubjectOf
<1>5. \A s \in Subjects : Counted(s)'
  BY <1>1 DEF Refines, Knows, Counted, Numbered
<1> QED
  BY <1>1, <1>3, <1>4, <1>5, Stutters DEF Knows

-----------------------------------------------------------------------------
\* The empty tables are the empty list.
LEMMA RefinesInitially ==
  ASSUME Init
  PROVE  Refines /\ Abstract!Init
<1>1. LedgerInv /\ TypeInv
  BY LedgerInvInitially, TypeInvInitially
<1>2. \A c \in Calls : CallKnows(c)
  BY DEF Init, CallKnows, Ahead, OwnTime
<1>3. \A s : OfSubjectIn(rows, s) = {}
  BY DEF Init, OfSubjectIn
<1>4. ASSUME NEW s \in Subjects PROVE Counted(s)
  <2>1. heads[s].sequence = 0 /\ 1 .. 0 = {}
    BY DEF Init, NoHead
  <2> QED
    BY <1>3, <2>1, FS_EmptySet DEF Counted, Numbered
<1>5. \A s : ListIn(rows, s) = <<>>
  <2> TAKE s
  <2>1. Cardinality(OfSubjectIn(rows, s)) = 0
    BY <1>3, FS_EmptySet
  <2>2. 1 .. 0 = {}
    OBVIOUS
  <2> QED
    BY <2>1, <2>2 DEF ListIn
<1>6. Abstract!Init
  BY <1>5 DEF Init, Abstract!Init, Contents
<1> QED
  BY <1>1, <1>2, <1>4, <1>6 DEF Init, Refines, Knows

\* Every step keeps what is known and is a step of the list, or none.
LEMMA RefinesKept ==
  ASSUME Refines, [Next]_vars
  PROVE  Refines' /\ (Abstract!Next \/ UNCHANGED Abstract!vars)
<1>1. LedgerInv' /\ TypeInv'
  BY LedgerInvKept, TypeInvKept DEF Refines
<1>2. ASSUME NEW c \in Calls, Start(c) \/ Step(c) \/ Fault(c)
      PROVE  Knows' /\ (Abstract!Next \/ UNCHANGED Abstract!vars)
  BY <1>2, StatementRefines, CommitRefines, FailureRefines, LossRefines DEF Step, Fault
<1>3. ASSUME NEW b \in abandoned, BackendAborts(b) \/ BackendCommits(b)
      PROVE  Knows' /\ (Abstract!Next \/ UNCHANGED Abstract!vars)
  BY <1>3, BackendRefines
<1>4. ASSUME NEW r \in Readers, Read(r)
      PROVE  Knows' /\ (Abstract!Next \/ UNCHANGED Abstract!vars)
  <2>1. UNCHANGED writers
    BY <1>4 DEF Read, OpenSubject, OpenSnapshot, ReadEvents, ReadHeads, ReadFails, Close
  <2> QED
    BY <2>1, ReadersRefine
<1>5. ASSUME UNCHANGED vars
      PROVE  Knows' /\ (Abstract!Next \/ UNCHANGED Abstract!vars)
  <2>1. UNCHANGED writers
    BY <1>5 DEF vars, writers
  <2> QED
    BY <2>1, ReadersRefine
<1>6. Knows' /\ (Abstract!Next \/ UNCHANGED Abstract!vars)
  BY <1>2, <1>3, <1>4, <1>5 DEF Next
<1> QED
  BY <1>1, <1>6 DEF Refines

\* The tables and answers of the PostgreSQL ledger are those of the append-only
\* list of events the engine takes a ledger for: for any writers, faults, retries
\* and lost connections, every step is one of AppendOnlyLedger or leaves it alone.
THEOREM AppendOnly == Spec => ImplementsAppendOnlyLedger
<1>1. Init => Refines /\ Abstract!Init
  BY RefinesInitially
<1>2. Refines /\ [Next]_vars => Refines' /\ [Abstract!Next]_(Abstract!vars)
  BY RefinesKept
<1> QED
  BY <1>1, <1>2, PTL DEF Spec, ImplementsAppendOnlyLedger, Abstract!Spec
=============================================================================
