---------------------- MODULE PostgresLedgerProperties ----------------------
(***************************************************************************)
(* What the PostgreSQL ledger must keep, whatever the processes that       *)
(* append to it, the locks they wait for and the connections they lose.    *)
(***************************************************************************)
EXTENDS PostgresLedger

Times  == ({Input[c].time : c \in Calls} \ {NoTime}) \union Calls
Hashes ==
  Seq([id : Ids, subject : Subjects, data : {Input[c].data : c \in Calls},
       time : Times, sequence : Nat])
Rows ==
  [id : Ids, subject : Subjects, data : {Input[c].data : c \in Calls},
   time : Times, sequence : Nat, previousHash : Hashes, eventHash : Hashes]
Heads    == [sequence : Nat, hash : Hashes]
Backends == (Calls \union Readers) \X Nat \X Nat
Statements ==
  {"idle", "lockEvent", "lockSubject", "lookup", "readHead", "readTail",
   "insert", "advance", "commit", "done"}
Answers  == {"none", "stored", "reused", "moved", "duplicate", "integrity", "failed"}

\* Every variable has its type: tables, locks, the calls of append and the
\* readers of src/src/postgres/event-ledger.ts.
TypeOK ==
  /\ rows \subseteq Rows
  /\ heads \in [Subjects -> Heads]
  /\ locks \in [LockKeys -> Backends \union {Nobody}]
  /\ abandoned \subseteq [by : Backends, row : Rows \union {NoRow}, committing : BOOLEAN]
  /\ faults \in 0 .. MaxFaults
  /\ pc \in [Calls -> Statements]
  /\ attempt \in [Calls -> 1 .. LedgerAttempts]
  /\ round \in [Calls -> 1 .. EngineAttempts]
  /\ stableTime \in [Calls -> Times \union {NoTime}]
  /\ head \in [Calls -> Heads]
  /\ draft \in [Calls -> Rows \union {NoRow}]
  /\ answer \in [Calls -> Answers]
  /\ scope \in [Readers -> Subjects \union {AllSubjects}]
  /\ reading \in [Readers -> {"idle", "events", "heads"}]
  /\ view \in [Readers -> [Subjects -> Heads] \union {NoView}]
  /\ read \in [Readers -> SUBSET Rows]
  /\ verdict \in [Readers -> {"valid", "LEDGER_INTEGRITY_FAILED"}]

\* The committed events of every subject form one chain without a gap or a fork,
\* and the chain head of the subject names its last event: what append reads
\* under the advisory locks stays true until it commits, even when the backend
\* of a lost connection commits first.
ChainsAreContiguous ==
  \A s \in Subjects :
    /\ Chained(OfSubjectIn(rows, s))
    /\ heads[s] = TailIn(rows, s)

\* An event id is stored once, whoever appends it, however often append and
\* appendEvent repeat themselves and whichever lost commit lands after all.
IdIsStoredOnce == \A r, q \in rows : r.id = q.id => r = q

\* chainRoot and verify never report a sound ledger as broken: they read events
\* and heads of one moment, while appends commit around them.
ReadersSeeWholeChains == \A r \in Readers : verdict[r] # "LEDGER_INTEGRITY_FAILED"

-----------------------------------------------------------------------------
\* The events of a subject, in the order of their sequence numbers.
ListIn(R, s) ==
  [i \in 1 .. Cardinality(OfSubjectIn(R, s)) |->
    ContentOf(CHOOSE r \in R : r.subject = s /\ r.sequence = i)]

Contents == [s \in Subjects |-> ListIn(rows, s)]

Abstract == INSTANCE AppendOnlyLedger WITH chain <- Contents

\* The tables and the answers of append behave as the append-only list of events
\* the engine takes a ledger for (interface EventLedger): an answer agrees with
\* what is stored, a mismatch of head and tail is never met, and the commit of a
\* lost connection never lands behind a later event of the same writer.
ImplementsAppendOnlyLedger == Abstract!Spec

\* The appends that were started are all answered, again and again: the retries
\* are bounded, and a lock held by a backend without a client ends in
\* lock_timeout.
AppendsSettle == []<>(\A c \in Calls : ~InTransaction(c))
=============================================================================
