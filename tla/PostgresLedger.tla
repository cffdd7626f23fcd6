--------------------------- MODULE PostgresLedger ---------------------------
(***************************************************************************)
(* PostgresEventLedger (src/src/postgres/event-ledger.ts) under the retry  *)
(* of the engine's appendEvent, with the database it runs on: statements   *)
(* of several processes interleave, a statement fails, a connection is     *)
(* lost and leaves a backend behind that still holds its locks and may     *)
(* still finish its commit.                                                *)
(*                                                                         *)
(* A step is one statement of append().  A backend is named by its call,   *)
(* round and attempt: each of these is one transaction.  The database      *)
(* gives READ COMMITTED: a statement sees what is committed when it runs.  *)
(***************************************************************************)
EXTENDS LedgerEvents

CONSTANTS
  Subjects, Ids, Calls,
  Input,            \* [Calls -> inputs of append, see LedgerEvents]
  Earlier,          \* [Calls -> SUBSET Calls]: what the same writer awaited before
  LockKeys,
  EventKey,         \* hashtextextended of the names of an event and of a subject:
  SubjectKey,       \*   two names may have one hash
  Readers,          \* calls of chainRoot and verify
  LedgerAttempts,   \* 3, in append
  EngineAttempts,   \* 3, in appendEvent
  MaxFaults         \* bound: statements that fail and connections that are lost

AllSubjects == "all subjects"

ASSUME InputAssumption ==
  /\ \A c \in Calls : Input[c].id \in Ids /\ Input[c].subject \in Subjects
  /\ Earlier \in [Calls -> SUBSET Calls]
  /\ NoTime \notin Calls
ASSUME BoundsAssumption ==
  /\ LedgerAttempts \in Nat \ {0}
  /\ EngineAttempts \in Nat \ {0}
  /\ MaxFaults \in Nat
ASSUME KeyAssumption ==
  /\ EventKey \in [Ids -> LockKeys]
  /\ SubjectKey \in [Subjects -> LockKeys]
ASSUME ReaderAssumption ==
  /\ Calls \intersect Readers = {}
  /\ "nobody" \notin Readers
  /\ AllSubjects \notin Subjects

VARIABLES
  rows,        \* ledger_events: the committed rows
  heads,       \* ledger_chain_heads: the committed row of each subject
  locks,       \* advisory locks: which backend holds a key
  abandoned,   \* backends whose client is gone: [by, row, committing]
  faults,      \* how many there have been
  pc,          \* the statement a call is about to make
  attempt,     \* of append
  round,       \* of appendEvent
  stableTime,
  head,        \* what a call has read of ledger_chain_heads
  draft,       \* the row it has inserted and not yet committed
  answer,      \* what its caller was given
  scope,       \* a subject, or all of them
  reading,     \* the statement a reader is about to make
  view,        \* the chain heads in the snapshot of a REPEATABLE READ reader
  read,        \* the events a reader has read
  verdict      \* what it last found

tables  == <<rows, heads>>
retries == <<attempt, round>>
locals  == <<stableTime, head, draft>>
readers == <<scope, reading, view, read, verdict>>
vars    == <<tables, locks, abandoned, faults, pc, retries, locals, answer, readers>>

NoHead == [sequence |-> 0, hash |-> GENESIS]
NoRow  == [id |-> "no row"]
NoView == <<>>
Nobody == <<"nobody", 0, 0>>

HeadAt(e) == [sequence |-> e.sequence, hash |-> e.eventHash]

OfSubjectIn(R, s) == {r \in R : r.subject = s}

\* The last event of a subject, as its chain head should have it.
TailIn(R, s) ==
  IF OfSubjectIn(R, s) = {} THEN NoHead
  ELSE HeadAt(CHOOSE r \in OfSubjectIn(R, s) : \A q \in OfSubjectIn(R, s) : q.sequence <= r.sequence)

SubjectOf(c) == Input[c].subject
Me(c) == <<c, round[c], attempt[c]>>

Init ==
  /\ rows = {}
  /\ heads = [s \in Subjects |-> NoHead]
  /\ locks = [k \in LockKeys |-> Nobody]
  /\ abandoned = {}
  /\ faults = 0
  /\ pc = [c \in Calls |-> "idle"]
  /\ attempt = [c \in Calls |-> 1]
  /\ round = [c \in Calls |-> 1]
  /\ stableTime = [c \in Calls |-> Input[c].time]
  /\ head = [c \in Calls |-> NoHead]
  /\ draft = [c \in Calls |-> NoRow]
  /\ answer = [c \in Calls |-> "none"]
  /\ scope = [r \in Readers |-> AllSubjects]
  /\ reading = [r \in Readers |-> "idle"]
  /\ view = [r \in Readers |-> NoView]
  /\ read = [r \in Readers |-> {}]
  /\ verdict = [r \in Readers |-> "valid"]

-----------------------------------------------------------------------------
(***************************************************************************)
(* Transactions.                                                           *)
(***************************************************************************)
Free(k, me) == locks[k] \in {Nobody, me}
Take(k, me) == locks' = [locks EXCEPT ![k] = me]

\* pg_advisory_xact_lock: held until the transaction ends.
Release(me) == locks' = [k \in LockKeys |-> IF locks[k] = me THEN Nobody ELSE locks[k]]

Store(row) ==
  /\ rows' = rows \union {row}
  /\ heads' = [heads EXCEPT ![row.subject] = HeadAt(row)]

GoTo(c, statement) == pc' = [pc EXCEPT ![c] = statement]

\* BEGIN on a connection of the pool.
Begin(c) ==
  /\ GoTo(c, "lockEvent")
  /\ head' = [head EXCEPT ![c] = NoHead]
  /\ draft' = [draft EXCEPT ![c] = NoRow]

Settle(c, a) ==
  /\ GoTo(c, "done")
  /\ answer' = [answer EXCEPT ![c] = a]
  /\ head' = [head EXCEPT ![c] = NoHead]
  /\ draft' = [draft EXCEPT ![c] = NoRow]
  /\ UNCHANGED retries

\* appendEvent gives its events a time and expects no sequence; who calls append
\* otherwise has no retry but that of append.
Rounds(c) ==
  IF Input[c].time # NoTime /\ Input[c].expected = 0 THEN EngineAttempts ELSE 1

\* Mutant: the attempts of append are not counted.
RaiseAgain(c, a, retryable, coded) ==
  IF retryable /\ coded THEN Begin(c) /\ UNCHANGED <<retries, answer>> ELSE Settle(c, a)

\* An error leaves the transaction: append repeats it if the database coded it
\* and it is retryable, appendEvent repeats append if it is retryable.
Raise(c, a, retryable, coded) ==
  LET inner == retryable /\ coded /\ attempt[c] < LedgerAttempts
      outer == ~inner /\ retryable /\ round[c] < Rounds(c)
  IN \/ /\ inner
        /\ attempt' = [attempt EXCEPT ![c] = @ + 1]
        /\ Begin(c)
        /\ UNCHANGED <<round, answer>>
     \/ /\ outer
        /\ attempt' = [attempt EXCEPT ![c] = 1]
        /\ round' = [round EXCEPT ![c] = @ + 1]
        /\ Begin(c)
        /\ UNCHANGED answer
     \/ /\ ~inner /\ ~outer
        /\ Settle(c, a)

\* append throws a ZeroGateError of its own: rolled back, and not repeated by
\* any caller that can meet it.
Refuse(c, a) ==
  /\ Settle(c, a)
  /\ Release(Me(c))

-----------------------------------------------------------------------------
(***************************************************************************)
(* append().                                                               *)
(***************************************************************************)
Start(c) ==
  /\ pc[c] = "idle"
  /\ \A d \in Earlier[c] : pc[d] = "done"
  /\ Begin(c)
  /\ UNCHANGED <<tables, locks, abandoned, faults, attempt, round, stableTime, answer, readers>>

\* Mutants: the locks of append are left out, one at a time.
NoEventLock(c) ==
  /\ pc[c] = "lockEvent"
  /\ GoTo(c, "lockSubject")
  /\ UNCHANGED <<tables, locks, abandoned, faults, retries, locals, answer, readers>>

NoSubjectLock(c) ==
  /\ pc[c] = "lockSubject"
  /\ GoTo(c, "lookup")
  /\ UNCHANGED <<tables, locks, abandoned, faults, retries, locals, answer, readers>>

LockEvent(c) ==
  /\ pc[c] = "lockEvent"
  /\ Free(EventKey[Input[c].id], Me(c))
  /\ Take(EventKey[Input[c].id], Me(c))
  /\ GoTo(c, "lockSubject")
  /\ UNCHANGED <<tables, abandoned, faults, retries, locals, answer, readers>>

LockSubject(c) ==
  /\ pc[c] = "lockSubject"
  /\ Free(SubjectKey[SubjectOf(c)], Me(c))
  /\ Take(SubjectKey[SubjectOf(c)], Me(c))
  /\ GoTo(c, "lookup")
  /\ UNCHANGED <<tables, abandoned, faults, retries, locals, answer, readers>>

\* The rows of the event id, and the time the call keeps from now on.
Existing(c) == {r \in rows : r.id = Input[c].id}

KeepTime(c, existingTime) ==
  stableTime' = [stableTime EXCEPT ![c] =
    IF @ # NoTime THEN @ ELSE EventTime(Input[c], existingTime, c)]

FindNothing(c) ==
  /\ pc[c] = "lookup"
  /\ Existing(c) = {}
  /\ KeepTime(c, NoTime)
  /\ GoTo(c, "readHead")
  /\ UNCHANGED <<tables, locks, abandoned, faults, retries, head, draft, answer, readers>>

\* The event a call would have made in place of e.
Candidate(c, e) ==
  EventHash(e.previousHash, PublicEvent(Input[c], stableTime'[c], e.sequence))

\* Mutant: the id alone makes it a repeat.
SameId(c, e) == Input[c].expected \in {0, e.sequence}

IsRepeat(c, e) ==
  /\ Input[c].expected \in {0, e.sequence}
  /\ Candidate(c, e) = e.eventHash

FindOwn(c) ==
  /\ pc[c] = "lookup"
  /\ \E e \in Existing(c) : KeepTime(c, e.time) /\ IsRepeat(c, e)
  /\ GoTo(c, "commit")
  /\ UNCHANGED <<tables, locks, abandoned, faults, retries, head, draft, answer, readers>>

FindOther(c) ==
  /\ pc[c] = "lookup"
  /\ \E e \in Existing(c) : KeepTime(c, e.time) /\ ~IsRepeat(c, e)
  /\ Refuse(c, "reused")
  /\ UNCHANGED <<tables, abandoned, faults, readers>>

ReadHead(c) ==
  /\ pc[c] = "readHead"
  /\ head' = [head EXCEPT ![c] = heads[SubjectOf(c)]]
  /\ GoTo(c, "readTail")
  /\ UNCHANGED <<tables, locks, abandoned, faults, retries, stableTime, draft, answer, readers>>

IsExpected(c) == Input[c].expected \in {0, head[c].sequence + 1}

ReadTail(c) ==
  /\ pc[c] = "readTail"
  /\ IF head[c] # TailIn(rows, SubjectOf(c))
     THEN Refuse(c, "integrity")
     ELSE IF ~IsExpected(c)
     THEN Refuse(c, "moved")
     ELSE GoTo(c, "insert") /\ UNCHANGED <<locks, retries, head, draft, answer>>
  /\ UNCHANGED <<tables, abandoned, faults, stableTime, readers>>

NewRow(c) == StoredEvent(Input[c], stableTime[c], head[c].sequence + 1, head[c].hash)

\* The unique indexes of ledger_events.
Clashes(r, q) ==
  \/ q.id = r.id
  \/ q.eventHash = r.eventHash
  \/ q.subject = r.subject /\ q.sequence = r.sequence

Insert(c) ==
  /\ pc[c] = "insert"
  /\ IF \E q \in rows : Clashes(NewRow(c), q)
     THEN Refuse(c, "duplicate")
     ELSE /\ draft' = [draft EXCEPT ![c] = NewRow(c)]
          /\ GoTo(c, "advance")
          /\ UNCHANGED <<locks, retries, head, answer>>
  /\ UNCHANGED <<tables, abandoned, faults, stableTime, readers>>

\* INSERT of the first chain head, UPDATE of a later one where it still is what
\* the call has read.
Advance(c) ==
  /\ pc[c] = "advance"
  /\ IF heads[SubjectOf(c)] # head[c]
     THEN Refuse(c, IF head[c] = NoHead THEN "duplicate" ELSE "integrity")
     ELSE GoTo(c, "commit") /\ UNCHANGED <<locks, retries, head, draft, answer>>
  /\ UNCHANGED <<tables, abandoned, faults, stableTime, readers>>

Commit(c) ==
  /\ pc[c] = "commit"
  /\ IF draft[c] = NoRow THEN UNCHANGED tables ELSE Store(draft[c])
  /\ Release(Me(c))
  /\ Settle(c, "stored")
  /\ UNCHANGED <<abandoned, faults, stableTime, readers>>

-----------------------------------------------------------------------------
(***************************************************************************)
(* What goes wrong.                                                        *)
(***************************************************************************)
InTransaction(c) == pc[c] \notin {"idle", "done"}

\* lock_timeout, or the deadlock detector.
LockTimeout(c) ==
  /\ \/ pc[c] = "lockEvent" /\ ~Free(EventKey[Input[c].id], Me(c))
     \/ pc[c] = "lockSubject" /\ ~Free(SubjectKey[SubjectOf(c)], Me(c))
  /\ Raise(c, "failed", TRUE, TRUE)
  /\ Release(Me(c))
  /\ UNCHANGED <<tables, abandoned, faults, stableTime, readers>>

\* The database refuses a statement and rolls back: a retryable code, or another.
StatementFails(c, retryable) ==
  /\ InTransaction(c)
  /\ faults < MaxFaults
  /\ faults' = faults + 1
  /\ Raise(c, "failed", retryable, TRUE)
  /\ Release(Me(c))
  /\ UNCHANGED <<tables, abandoned, stableTime, readers>>

\* The connection is lost, with a code or without one.  The backend goes on
\* until it notices; if it was told to commit, it may have done so.
ConnectionLost(c, coded) ==
  /\ InTransaction(c)
  /\ faults < MaxFaults
  /\ faults' = faults + 1
  /\ abandoned' = abandoned \union
       {[by |-> Me(c), row |-> draft[c], committing |-> pc[c] = "commit"]}
  /\ Raise(c, "failed", coded, coded)
  /\ UNCHANGED <<tables, locks, stableTime, readers>>

BackendAborts(b) ==
  /\ abandoned' = abandoned \ {b}
  /\ Release(b.by)
  /\ UNCHANGED <<tables, faults, pc, retries, locals, answer, readers>>

BackendCommits(b) ==
  /\ b.committing
  /\ b.row # NoRow
  /\ Store(b.row)
  /\ abandoned' = abandoned \ {b}
  /\ Release(b.by)
  /\ UNCHANGED <<faults, pc, retries, locals, answer, readers>>

-----------------------------------------------------------------------------
(***************************************************************************)
(* chainRoot(subject), and chainRoot() or verify() on all subjects.        *)
(***************************************************************************)
writers == <<tables, abandoned, faults, pc, retries, locals, answer>>

ReadFrom(r, statement) == reading' = [reading EXCEPT ![r] = statement]

\* READ COMMITTED under the lock of the subject.
OpenSubject(r, s) ==
  /\ reading[r] = "idle"
  /\ Free(SubjectKey[s], <<r, 0, 0>>)
  /\ Take(SubjectKey[s], <<r, 0, 0>>)
  /\ scope' = [scope EXCEPT ![r] = s]
  /\ ReadFrom(r, "events")
  /\ UNCHANGED <<writers, view, read, verdict>>

\* REPEATABLE READ: one snapshot for every statement, taken by the first.
OpenSnapshot(r) ==
  /\ reading[r] = "idle"
  /\ view' = [view EXCEPT ![r] = heads]
  /\ read' = [read EXCEPT ![r] = rows]
  /\ ReadFrom(r, "heads")
  /\ UNCHANGED <<writers, locks, scope, verdict>>

\* Mutant: chainRoot() and verify() run READ COMMITTED.
CommittedHeads(r) == heads

VisibleHeads(r) == IF scope[r] = AllSubjects THEN view[r] ELSE heads

Scoped(r) == IF scope[r] = AllSubjects THEN Subjects ELSE {scope[r]}

ReadEvents(r) ==
  /\ reading[r] = "events"
  /\ read' = [read EXCEPT ![r] = OfSubjectIn(rows, scope[r])]
  /\ ReadFrom(r, "heads")
  /\ UNCHANGED <<writers, locks, scope, view, verdict>>

Close(r) ==
  /\ ReadFrom(r, "idle")
  /\ scope' = [scope EXCEPT ![r] = AllSubjects]
  /\ read' = [read EXCEPT ![r] = {}]
  /\ view' = [view EXCEPT ![r] = NoView]
  /\ Release(<<r, 0, 0>>)
  /\ UNCHANGED writers

\* #assertChainHeads: the events form chains, and every chain has its head.
Agree(events, chainHeads, s) ==
  /\ Chained(OfSubjectIn(events, s))
  /\ chainHeads[s] = TailIn(events, s)

ReadHeads(r) ==
  /\ reading[r] = "heads"
  /\ verdict' = [verdict EXCEPT ![r] =
       IF \A s \in Scoped(r) : Agree(read[r], VisibleHeads(r), s) THEN "valid"
       ELSE "LEDGER_INTEGRITY_FAILED"]
  /\ Close(r)

\* A reader is not repeated by the ledger, whatever the error.
ReadFails(r) ==
  /\ reading[r] # "idle"
  /\ Close(r)
  /\ UNCHANGED verdict

-----------------------------------------------------------------------------
Step(c) ==
  \/ LockEvent(c) \/ LockSubject(c)
  \/ FindNothing(c) \/ FindOwn(c) \/ FindOther(c)
  \/ ReadHead(c) \/ ReadTail(c) \/ Insert(c) \/ Advance(c) \/ Commit(c)
  \/ LockTimeout(c)

Fault(c) ==
  \/ \E retryable \in BOOLEAN : StatementFails(c, retryable)
  \/ \E coded \in BOOLEAN : ConnectionLost(c, coded)

Read(r) ==
  \/ \E s \in Subjects : OpenSubject(r, s)
  \/ OpenSnapshot(r) \/ ReadEvents(r) \/ ReadHeads(r) \/ ReadFails(r)

Next ==
  \/ \E c \in Calls : Start(c) \/ Step(c) \/ Fault(c)
  \/ \E b \in abandoned : BackendAborts(b) \/ BackendCommits(b)
  \/ \E r \in Readers : Read(r)

\* A statement is answered, and lock_timeout ends every wait: while some call
\* can go on, one does.  Nothing is assumed of abandoned backends.
Fairness == WF_vars(\E c \in Calls : Step(c))

Spec     == Init /\ [][Next]_vars
FairSpec == Spec /\ Fairness
=============================================================================
