---------------------------- MODULE LedgerEvents ----------------------------
(***************************************************************************)
(* The events of a ledger and the chain they form, as all three ledgers    *)
(* of ZeroGate build and check it (src/src/core/event-ledger.ts).          *)
(*                                                                         *)
(* A hash is the value it is a hash of: the hash of an event is the list   *)
(* of the public events of its subject up to and including it, which is    *)
(* what sha256(previousHash, event) commits to.  An input is a record      *)
(* [id, subject, data, time, expected]; NoTime and 0 stand for the members *)
(* a caller may leave out.                                                 *)
(***************************************************************************)
EXTENDS Naturals, Sequences, FiniteSets

NoTime == "no time"
GENESIS == <<>>

PublicEvent(input, time, sequence) ==
  [id |-> input.id, subject |-> input.subject, data |-> input.data,
   time |-> time, sequence |-> sequence]

\* sha256(`${previousHash}\n${canonicalize(publicEvent)}`)
EventHash(previousHash, publicEvent) == Append(previousHash, publicEvent)

StoredEvent(input, time, sequence, previousHash) ==
  [id |-> input.id, subject |-> input.subject, data |-> input.data,
   time |-> time, sequence |-> sequence, previousHash |-> previousHash,
   eventHash |-> EventHash(previousHash, PublicEvent(input, time, sequence))]

\* The public part of a stored event is what its hash was made from.
OwnHash(e) == EventHash(e.previousHash, PublicEvent(e, e.time, e.sequence))

\* Mutant: a call without a time takes none of its own.
AdoptedTime(input, existingTime, now) ==
  IF input.time # NoTime THEN input.time ELSE existingTime

\* input.time ?? existing?.time ?? now
EventTime(input, existingTime, now) ==
  IF input.time # NoTime THEN input.time
  ELSE IF existingTime # NoTime THEN existingTime ELSE now

-----------------------------------------------------------------------------
\* How many of the first n events of a list are of subject s.
CountOf(events, s, n) == Cardinality({i \in 1 .. n : events[i].subject = s})

\* Those events, in their order: the k-th is the one with k of them up to it.
FirstOf(events, s, n) ==
  LET kth(k) == {i \in 1 .. n : events[i].subject = s /\ CountOf(events, s, i) = k}
  IN [k \in 1 .. CountOf(events, s, n) |-> events[CHOOSE i \in kth(k) : TRUE]]

OfSubject(events, s) == FirstOf(events, s, Len(events))

LastHash(events) == IF events = <<>> THEN GENESIS ELSE events[Len(events)].eventHash

\* verifyEventChain: each event carries the hash of its predecessor of the same
\* subject, the next sequence number and its own hash.
VerifyEventChain(events) ==
  \A i \in DOMAIN events :
    LET before == FirstOf(events, events[i].subject, i - 1) IN
      /\ events[i].previousHash = LastHash(before)
      /\ events[i].sequence = Len(before) + 1
      /\ events[i].eventHash = OwnHash(events[i])

\* The same of the events of one subject given as a set: in the order of their
\* sequence numbers they form a chain.
Chained(R) ==
  \A r \in R :
    /\ r.eventHash = OwnHash(r)
    /\ \A q \in R : q.sequence = r.sequence => q = r
    /\ \/ r.sequence = 1 /\ r.previousHash = GENESIS
       \/ \E q \in R : r.sequence = q.sequence + 1 /\ r.previousHash = q.eventHash

\* What an appender asks for, of what a ledger stores.
ContentOf(e) == [id |-> e.id, data |-> e.data, time |-> e.time]
=============================================================================
