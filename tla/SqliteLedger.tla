---------------------------- MODULE SqliteLedger ----------------------------
(***************************************************************************)
(* SqliteLedger (src/src/core/sqlite-ledger.ts): several ledgers, in one   *)
(* process or in several, on one file.  Every append is a transaction      *)
(* around the rules of InMemoryEventLedger; a ledger queues its appends    *)
(* behind one promise; a process crashes and opens the file again.         *)
(*                                                                         *)
(* BEGIN IMMEDIATE waits inside a synchronous call: the process runs       *)
(* nothing else meanwhile, not even the ledger that holds the lock.        *)
(***************************************************************************)
EXTENDS LedgerEvents

CONSTANTS
  Subjects, Calls, Ledgers, Processes,
  Input,          \* [Calls -> inputs of append, see LedgerEvents]
  LedgerOf,       \* [Calls -> Ledgers]
  ProcessOf,      \* [Ledgers -> Processes]
  Earlier,        \* [Calls -> SUBSET Calls]: made before, of one ledger
  MaxFaults,      \* bound: statements that fail
  MaxCrashes      \* bound: processes that crash

ASSUME InputAssumption ==
  /\ \A c \in Calls : Input[c].subject \in Subjects
  /\ Earlier \in [Calls -> SUBSET Calls]
  /\ NoTime \notin Calls
ASSUME BoundsAssumption == MaxFaults \in Nat /\ MaxCrashes \in Nat
ASSUME LedgerAssumption ==
  /\ LedgerOf \in [Calls -> Ledgers]
  /\ ProcessOf \in [Ledgers -> Processes]
  /\ \A c \in Calls : \A d \in Earlier[c] : LedgerOf[c] = LedgerOf[d]
  /\ "nobody" \notin Ledgers

VARIABLES
  events,     \* zerogate_events, in the order of their positions
  lock,       \* the ledger that has begun its transaction
  handle,     \* of a ledger on the file: "none", "open", "closed", "refused"
  pending,    \* the appends a ledger has queued, the running one first
  pc,         \* where an append is
  outcome,    \* what the rules said of it
  answer,     \* what its caller was given
  faults, crashes

vars == <<events, lock, handle, pending, pc, outcome, answer, faults, crashes>>
calls  == <<pending, pc, outcome, answer>>
bounds == <<faults, crashes>>

Nobody    == "nobody"
NoOutcome == [said |-> "nothing"]

Ledger(c)  == LedgerOf[c]
Process(c) == ProcessOf[LedgerOf[c]]

Init ==
  /\ events = <<>>
  /\ lock = Nobody
  /\ handle = [l \in Ledgers |-> "none"]
  /\ pending = [l \in Ledgers |-> <<>>]
  /\ pc = [c \in Calls |-> "idle"]
  /\ outcome = [c \in Calls |-> NoOutcome]
  /\ answer = [c \in Calls |-> "none"]
  /\ faults = 0
  /\ crashes = 0

-----------------------------------------------------------------------------
(***************************************************************************)
(* InMemoryEventLedger.                                                    *)
(***************************************************************************)
HasId(list, id) == \E i \in DOMAIN list : list[i].id = id
WithId(list, id) == list[CHOOSE i \in DOMAIN list : list[i].id = id]

\* Mutant: the payload alone.
FingerprintOfData(input, time) == <<input.data>>

\* appendFingerprint of an input, given its time, and of an event.
Fingerprint(input, time) == <<input.subject, time, input.data>>

\* append: what it says to call c, whose clock shows c.
InMemoryAppend(list, c) ==
  LET input    == Input[c]
      existing == HasId(list, input.id)
      found    == WithId(list, input.id)
      time     == EventTime(input, IF existing THEN found.time ELSE NoTime, c)
      mine     == OfSubject(list, input.subject)
  IN IF existing
     THEN IF Fingerprint(input, time) = Fingerprint(found, found.time)
          THEN [said |-> "stored", event |-> found]
          ELSE [said |-> "reused"]
     ELSE IF input.expected \notin {0, Len(mine) + 1}
     THEN [said |-> "moved"]
     ELSE [said |-> "stored",
           event |-> StoredEvent(input, time, Len(mine) + 1, LastHash(mine))]

-----------------------------------------------------------------------------
(***************************************************************************)
(* append() of SqliteLedger.                                               *)
(***************************************************************************)
GoTo(c, where) == pc' = [pc EXCEPT ![c] = where]

\* The operation is settled, either way, and the next one of the queue may start.
Settle(c, a) ==
  /\ answer' = [answer EXCEPT ![c] = a]
  /\ pending' = [pending EXCEPT ![Ledger(c)] = Tail(@)]
  /\ outcome' = [outcome EXCEPT ![c] = NoOutcome]
  /\ GoTo(c, "done")

Blocked(p) == \E c \in Calls : pc[c] = "waiting" /\ Process(c) = p

\* The first of its queue, on a thread that does not wait for the lock.
Runs(c) ==
  /\ pending[Ledger(c)] # <<>>
  /\ Head(pending[Ledger(c)]) = c
  /\ ~Blocked(Process(c))

Enqueue(c) ==
  /\ pc[c] = "idle"
  /\ handle[Ledger(c)] \in {"open", "closed"}
  /\ ~Blocked(Process(c))
  /\ \A d \in Earlier[c] : pc[d] # "idle"
  /\ pending' = [pending EXCEPT ![Ledger(c)] = Append(@, c)]
  /\ GoTo(c, "queued")
  /\ UNCHANGED <<events, lock, handle, outcome, answer, bounds>>

\* BEGIN IMMEDIATE on a handle that was closed throws.
BeginFails(c) ==
  /\ pc[c] = "queued" /\ Runs(c)
  /\ handle[Ledger(c)] = "closed"
  /\ Settle(c, "failed")
  /\ UNCHANGED <<events, lock, handle, bounds>>

Wait(c) ==
  /\ pc[c] = "queued" /\ Runs(c)
  /\ handle[Ledger(c)] = "open"
  /\ lock # Nobody
  /\ GoTo(c, "waiting")
  /\ UNCHANGED <<events, lock, handle, pending, outcome, answer, bounds>>

\* Mutant: the wait for the lock has no bound.
WaitsOn(c) == FALSE /\ UNCHANGED vars

\* busy_timeout: "database is locked".
BusyTimeout(c) ==
  /\ pc[c] = "waiting"
  /\ lock # Nobody
  /\ Settle(c, "failed")
  /\ UNCHANGED <<events, lock, handle, bounds>>

\* Mutant: BEGIN, which does not lock the file.
BeginDeferred(c) ==
  /\ pc[c] = "queued" /\ Runs(c)
  /\ handle[Ledger(c)] = "open"
  /\ lock' = Ledger(c)
  /\ outcome' = [outcome EXCEPT ![c] = InMemoryAppend(events, c)]
  /\ GoTo(c, "begun")
  /\ UNCHANGED <<events, handle, pending, answer, bounds>>

\* BEGIN IMMEDIATE, the snapshot of the whole file and the rules, all before the
\* first await.
Begin(c) ==
  /\ \/ pc[c] = "queued" /\ Runs(c) /\ handle[Ledger(c)] = "open"
     \/ pc[c] = "waiting"
  /\ lock = Nobody
  /\ lock' = Ledger(c)
  /\ outcome' = [outcome EXCEPT ![c] =
       IF VerifyEventChain(events) THEN InMemoryAppend(events, c) ELSE [said |-> "integrity"]]
  /\ GoTo(c, "begun")
  /\ UNCHANGED <<events, handle, pending, answer, bounds>>

\* INSERT OR IGNORE and COMMIT.
Commit(c) ==
  /\ pc[c] = "begun" /\ Runs(c)
  /\ outcome[c].said = "stored"
  /\ events' = IF HasId(events, Input[c].id) THEN events ELSE Append(events, outcome[c].event)
  /\ lock' = Nobody
  /\ GoTo(c, "committed")
  /\ UNCHANGED <<handle, pending, outcome, answer, bounds>>

Resolve(c) ==
  /\ pc[c] = "committed"
  /\ Settle(c, "stored")
  /\ UNCHANGED <<events, lock, handle, bounds>>

\* The rules threw: ROLLBACK, and the error goes to the caller.
Rollback(c) ==
  /\ pc[c] = "begun" /\ Runs(c)
  /\ outcome[c].said # "stored"
  /\ Settle(c, outcome[c].said)
  /\ lock' = Nobody
  /\ UNCHANGED <<events, handle, bounds>>

-----------------------------------------------------------------------------
(***************************************************************************)
(* The rest of a ledger's life, and what goes wrong.                       *)
(***************************************************************************)
StatementFails(c) ==
  /\ pc[c] = "begun" /\ Runs(c)
  /\ faults < MaxFaults
  /\ faults' = faults + 1
  /\ Settle(c, "failed")
  /\ lock' = Nobody
  /\ UNCHANGED <<events, handle, crashes>>

\* The constructor reads and verifies the whole file.
Open(l) ==
  /\ handle[l] = "none"
  /\ ~Blocked(ProcessOf[l])
  /\ handle' = [handle EXCEPT ![l] = IF VerifyEventChain(events) THEN "open" ELSE "refused"]
  /\ UNCHANGED <<events, lock, calls, bounds>>

\* close() waits for the appends that were queued before it.
Close(l) ==
  /\ handle[l] = "open"
  /\ pending[l] = <<>>
  /\ ~Blocked(ProcessOf[l])
  /\ handle' = [handle EXCEPT ![l] = "closed"]
  /\ UNCHANGED <<events, lock, calls, bounds>>

\* The process dies: what it had begun is rolled back, its callers never hear.
Crash(p) ==
  LET dying == {l \in Ledgers : ProcessOf[l] = p}
      lost  == {c \in Calls : Ledger(c) \in dying /\ pc[c] \notin {"idle", "done"}}
  IN /\ crashes < MaxCrashes
     /\ crashes' = crashes + 1
     /\ handle' = [l \in Ledgers |-> IF l \in dying THEN "none" ELSE handle[l]]
     /\ pending' = [l \in Ledgers |-> IF l \in dying THEN <<>> ELSE pending[l]]
     /\ lock' = IF lock \in dying THEN Nobody ELSE lock
     /\ pc' = [c \in Calls |-> IF c \in lost THEN "done" ELSE pc[c]]
     /\ outcome' = [c \in Calls |-> IF c \in lost THEN NoOutcome ELSE outcome[c]]
     /\ UNCHANGED <<events, answer, faults>>

Step(c) ==
  \/ BeginFails(c) \/ Wait(c) \/ BusyTimeout(c) \/ Begin(c)
  \/ Commit(c) \/ Resolve(c) \/ Rollback(c)

Next ==
  \/ \E c \in Calls : Enqueue(c) \/ Step(c) \/ StatementFails(c)
  \/ \E l \in Ledgers : Open(l) \/ Close(l)
  \/ \E p \in Processes : Crash(p)

\* A process that can run does, and busy_timeout ends every wait.
Fairness == WF_vars(\E c \in Calls : Step(c))

Spec     == Init /\ [][Next]_vars
FairSpec == Spec /\ Fairness

-----------------------------------------------------------------------------
(***************************************************************************)
(* Properties.                                                             *)
(***************************************************************************)
Times  == ({Input[c].time : c \in Calls} \ {NoTime}) \union Calls
Hashes ==
  Seq([id : {Input[c].id : c \in Calls}, subject : Subjects,
       data : {Input[c].data : c \in Calls}, time : Times, sequence : Nat])
Events ==
  [id : {Input[c].id : c \in Calls}, subject : Subjects,
   data : {Input[c].data : c \in Calls}, time : Times, sequence : Nat,
   previousHash : Hashes, eventHash : Hashes]
Outcomes ==
  [said : {"stored"}, event : Events] \union
  [said : {"nothing", "reused", "moved", "integrity"}]

\* Every variable has its type: the file, and the ledgers open on it.
TypeOK ==
  /\ events \in Seq(Events)
  /\ lock \in Ledgers \union {Nobody}
  /\ handle \in [Ledgers -> {"none", "open", "closed", "refused"}]
  /\ pending \in [Ledgers -> Seq(Calls)]
  /\ pc \in [Calls -> {"idle", "queued", "waiting", "begun", "committed", "done"}]
  /\ outcome \in [Calls -> Outcomes]
  /\ answer \in [Calls -> {"none", "stored", "reused", "moved", "integrity", "failed"}]
  /\ faults \in 0 .. MaxFaults
  /\ crashes \in 0 .. MaxCrashes

\* The file always opens again (constructor and #snapshot of sqlite-ledger.ts):
\* whoever appends to it and dies, its events form whole chains, and an id is in
\* it once.
FileAlwaysOpens ==
  /\ VerifyEventChain(events)
  /\ \A i, j \in DOMAIN events : events[i].id = events[j].id => i = j
  /\ \A l \in Ledgers : handle[l] # "refused"

Contents ==
  [s \in Subjects |->
    LET list == OfSubject(events, s) IN [i \in DOMAIN list |-> ContentOf(list[i])]]

Abstract == INSTANCE AppendOnlyLedger WITH chain <- Contents

\* The file and the answers of append behave as the append-only list of events
\* the engine takes a ledger for: an event answered with success stays through
\* every crash, a repeated id adds nothing, and the queue keeps the order in
\* which one ledger was called.
ImplementsAppendOnlyLedger == Abstract!Spec

\* Every queued append is answered: a failure does not hold up the queue, and a
\* process that waits for a lock of its own gives up.
AppendsSettle == []<>(\A c \in Calls : pc[c] \in {"idle", "done"})
=============================================================================
