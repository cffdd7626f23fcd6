---------------------- MODULE TransactionEngineProofs ----------------------
(***************************************************************************)
(* Proofs about TransactionEngine, for any set of runs, any way an append  *)
(* of the ledger may fail and any error a recovery may throw: its types,   *)
(* the order of its journal, and what its receipts say.                    *)
(***************************************************************************)
EXTENDS TransactionEngineProperties, TLAPS

\* The states of the transaction table, listed.
LEMMA TransactionStatesListed ==
  TransactionStates =
    {"DRAFT", "PREFLIGHTING", "PREFLIGHT_FAILED", "READY", "AWAITING_APPROVAL",
     "APPROVAL_DENIED", "COMMIT_REQUESTED", "COMMITTING", "VERIFYING", "RELEASING",
     "VERIFIED_COMMITTED", "FAILURE_DETECTED", "RECONCILING", "COMPENSATING",
     "VERIFYING_RECOVERY", "VERIFIED_COMPENSATED", "PARTIALLY_COMPENSATED",
     "MANUAL_RECOVERY_REQUIRED", "ABORTED", "EXPIRED"}
BY DEF TransactionStates, TransactionTransitions

\* The states of the action table, listed.
LEMMA ActionStatesListed ==
  ActionStates =
    {"PROPOSED", "PREFLIGHTING", "PREFLIGHT_REJECTED", "PREFLIGHTED", "AWAITING_APPROVAL",
     "ADMITTED", "SCHEDULED", "DISPATCHING", "OUTCOME_UNKNOWN", "RECONCILING",
     "PROVIDER_REJECTED", "REPORTED_SUCCEEDED", "VERIFYING", "VERIFIED_SUCCEEDED",
     "VERIFICATION_FAILED", "DRIFTED", "COMPENSATION_PLANNED", "COMPENSATING",
     "COMPENSATION_UNKNOWN", "COMPENSATION_RECONCILING", "COMPENSATION_REPORTED_SUCCEEDED",
     "COMPENSATION_VERIFYING", "VERIFIED_COMPENSATED", "COMPENSATION_BLOCKED",
     "COMPENSATION_FAILED", "WITHHELD", "RELEASING", "VERIFIED_RELEASED", "CANCELLED"}
BY DEF ActionStates, ActionTransitions

\* A state change to a listed state, or a named event, is a journal write.
LEMMA WritesAreTyped ==
  /\ \A s \in TransactionStates : Tx(s) \in Writes
  /\ \A s \in ActionStates : Act(s) \in Writes
  /\ \A e \in EventTypes : Ev(e) \in Writes
BY DEF Tx, Act, Ev, Write, Writes

\* The longest list an action queues has five writes.
LEMMA TuplesOfWrites ==
  /\ <<>> \in Seq(Writes)
  /\ \A a \in Writes : <<a>> \in Seq(Writes)
  /\ \A a, b \in Writes : <<a, b>> \in Seq(Writes)
  /\ \A a, b, c \in Writes : <<a, b, c>> \in Seq(Writes)
  /\ \A a, b, c, d \in Writes : <<a, b, c, d>> \in Seq(Writes)
  /\ \A a, b, c, d, e \in Writes : <<a, b, c, d, e>> \in Seq(Writes)
OBVIOUS

\* The list BeginVerifying queues, with or without the transaction's own move.
LEMMA VerifyingWritesAreTyped ==
  ASSUME NEW A
  PROVE  (IF A THEN <<Tx("VERIFYING")>> ELSE <<>>) \o <<Act("VERIFYING")>> \in Seq(Writes)
<1>1. Tx("VERIFYING") \in Writes /\ Act("VERIFYING") \in Writes
  BY WritesAreTyped, TransactionStatesListed, ActionStatesListed
<1>2. \A s1, s2 \in Seq(Writes) : s1 \o s2 \in Seq(Writes)
  OBVIOUS
<1>3. /\ (IF A THEN <<Tx("VERIFYING")>> ELSE <<>>) \in Seq(Writes)
      /\ <<Act("VERIFYING")>> \in Seq(Writes)
  BY <1>1, TuplesOfWrites
<1> QED
  BY <1>2, <1>3

\* What the helpers of the actions assign is typed when their arguments are.
LEMMA HelpersAreTyped ==
  ASSUME TypeOK, NEW t \in Txns
  PROVE  /\ \A writes \in Seq(Writes), p \in Points :
              Continue(t, writes, p) => /\ at' \in [Txns -> Points]
                                        /\ todo' \in [Txns -> Seq(Writes)]
         /\ \A kind \in ObservationKinds, ok \in BOOLEAN :
              Observe(t, kind, ok) =>
                observations' \in [Txns -> SUBSET [kind : ObservationKinds, ok : BOOLEAN]]
         /\ \A value \in Finality : Conclude(t, value) => finality' \in [Txns -> Finality]
         /\ \A claim \in Instructions :
              Instruct(t, claim) => manualRecovery' \in [Txns -> Instructions]
         /\ \A error \in Errors :
              Throw(t, error) => /\ at' \in [Txns -> Points]
                                 /\ todo' \in [Txns -> Seq(Writes)]
                                 /\ thrown' \in [Txns -> Errors]
<1>1. ASSUME NEW writes \in Seq(Writes), NEW p \in Points, Continue(t, writes, p)
      PROVE  at' \in [Txns -> Points] /\ todo' \in [Txns -> Seq(Writes)]
  BY <1>1 DEF TypeOK, Continue
<1>2. ASSUME NEW kind \in ObservationKinds, NEW ok \in BOOLEAN, Observe(t, kind, ok)
      PROVE  observations' \in [Txns -> SUBSET [kind : ObservationKinds, ok : BOOLEAN]]
  <2>1. Observed(kind, ok) \in [kind : ObservationKinds, ok : BOOLEAN]
    BY DEF Observed
  <2> QED
    BY <1>2, <2>1 DEF TypeOK, Observe
<1>3. ASSUME NEW value \in Finality, Conclude(t, value)
      PROVE  finality' \in [Txns -> Finality]
  BY <1>3 DEF TypeOK, Conclude
<1>4. ASSUME NEW claim \in Instructions, Instruct(t, claim)
      PROVE  manualRecovery' \in [Txns -> Instructions]
  BY <1>4 DEF TypeOK, Instruct
<1>5. ASSUME NEW error \in Errors, Throw(t, error)
      PROVE  /\ at' \in [Txns -> Points]
             /\ todo' \in [Txns -> Seq(Writes)]
             /\ thrown' \in [Txns -> Errors]
  BY <1>5, TuplesOfWrites DEF TypeOK, Throw, Continue, Points
<1> QED
  BY <1>1, <1>2, <1>3, <1>4, <1>5

\* The catch clauses assign typed values, whatever error they are given.
LEMMA CatchesAreTyped ==
  ASSUME TypeOK, NEW t \in Txns, NEW error
  PROVE  /\ DispatchCatch(t, error) => /\ at' \in [Txns -> Points]
                                       /\ todo' \in [Txns -> Seq(Writes)]
                                       /\ finality' \in [Txns -> Finality]
                                       /\ manualRecovery' \in [Txns -> Instructions]
         /\ RecoveryCatch(t, error) => /\ at' \in [Txns -> Points]
                                       /\ todo' \in [Txns -> Seq(Writes)]
                                       /\ manualRecovery' \in [Txns -> Instructions]
<1> USE HelpersAreTyped, WritesAreTyped, TuplesOfWrites, TransactionStatesListed, ActionStatesListed
    DEF Points, Finality, Instructions
<1>1. ASSUME DispatchCatch(t, error)
      PROVE  /\ at' \in [Txns -> Points]
             /\ todo' \in [Txns -> Seq(Writes)]
             /\ finality' \in [Txns -> Finality]
             /\ manualRecovery' \in [Txns -> Instructions]
  BY <1>1 DEF DispatchCatch, TypeOK
<1>2. ASSUME RecoveryCatch(t, error)
      PROVE  /\ at' \in [Txns -> Points]
             /\ todo' \in [Txns -> Seq(Writes)]
             /\ manualRecovery' \in [Txns -> Instructions]
  BY <1>2 DEF RecoveryCatch, TypeOK
<1> QED
  BY <1>1, <1>2

\* Wherever it is raised, an error of the journal leaves typed values.
LEMMA RaiseIsTyped ==
  ASSUME TypeOK, NEW t \in Txns, NEW error, NEW cause \in Errors, Raise(t, error, cause)
  PROVE  /\ at' \in [Txns -> Points]
         /\ todo' \in [Txns -> Seq(Writes)]
         /\ finality' \in [Txns -> Finality]
         /\ manualRecovery' \in [Txns -> Instructions]
         /\ thrown' \in [Txns -> Errors]
BY CatchesAreTyped, HelpersAreTyped DEF Raise, TypeOK

\* An append stores a typed event.
LEMMA StoreIsTyped ==
  ASSUME TypeOK, NEW t \in Txns, NEW w \in Writes, Store(t, w)
  PROVE  events' \in [Txns -> Seq(Events)]
<1>1. /\ w.kind \in {"transaction", "action", "event"}
      /\ w.to \in TransactionStates \union ActionStates \union EventTypes
  BY DEF Writes
<1>2. Current(t, w.kind) \in TransactionStates \union ActionStates \union {"none"}
  BY <1>1 DEF Current, TypeOK
<1>3. [kind |-> w.kind, from |-> Current(t, w.kind), to |-> w.to] \in Events
  BY <1>1, <1>2 DEF Events
<1> QED
  BY <1>3 DEF Store, TypeOK

\* Counting a dispatch counts in the naturals.
LEMMA CountIsTyped ==
  ASSUME TypeOK, NEW t \in Txns, Dispatch(t)
  PROVE  forwardDispatchCount' \in [Txns -> Nat]
BY DEF Dispatch, TypeOK

\* Every action of the admission keeps the types.
LEMMA AdmissionIsTyped ==
  ASSUME TypeOK, NEW t \in Txns, Admission(t)
  PROVE  TypeOK'
<1> USE HelpersAreTyped, WritesAreTyped, TuplesOfWrites, TransactionStatesListed, ActionStatesListed
    DEF EventTypes, ObservationKinds, Points, Finality, Refusals, Instructions, Errors,
        FinalizeOutcomes, states, evidence, outcome, TypeOK
<1>1. CASE PreflightRejected(t)
  BY <1>1 DEF PreflightRejected
<1>2. CASE Preflighted(t)
  BY <1>2 DEF Preflighted
<1>3. CASE ApprovalRejected(t)
  BY <1>3 DEF ApprovalRejected
<1>4. CASE ApprovalConsumed(t)
  BY <1>4 DEF ApprovalConsumed
<1>5. CASE ApprovalThrows(t)
  BY <1>5 DEF ApprovalThrows
<1>6. CASE Stale(t)
  BY <1>6 DEF Stale
<1>7. CASE Fresh(t)
  BY <1>7 DEF Fresh
<1> QED
  BY <1>1, <1>2, <1>3, <1>4, <1>5, <1>6, <1>7 DEF Admission

\* Every action of dispatch, verification and finalize keeps the types.
LEMMA ForwardIsTyped ==
  ASSUME TypeOK, NEW t \in Txns, Forward(t)
  PROVE  TypeOK'
<1> USE HelpersAreTyped, WritesAreTyped, TuplesOfWrites, TransactionStatesListed, ActionStatesListed
    DEF EventTypes, ObservationKinds, Points, Finality, Refusals, Instructions, Errors,
        FinalizeOutcomes, states, evidence, outcome, TypeOK
<1>1. CASE Dispatch(t)
  BY <1>1, CountIsTyped DEF Dispatch
<1>2. CASE DispatchReported(t)
  BY <1>2 DEF DispatchReported
<1>3. CASE Reconciled(t)
  BY <1>3 DEF Reconciled
<1>4. CASE Unresolved(t)
  BY <1>4 DEF Unresolved
<1>5. CASE Verified(t)
  BY <1>5 DEF Verified
<1>6. CASE VerificationFailed(t)
  BY <1>6 DEF VerificationFailed
<1>7. CASE Finalized(t)
  BY <1>7 DEF Finalized
<1>8. CASE FinalizeThrows(t)
  BY <1>8 DEF FinalizeThrows
<1>9. CASE FinalizeThrowsUndefined(t)
  BY <1>9 DEF FinalizeThrowsUndefined
<1>10. CASE BeginVerifying(t)
  <2>1. (IF transaction[t] = "COMMITTING" THEN <<Tx("VERIFYING")>> ELSE <<>>)
          \o <<Act("VERIFYING")>> \in Seq(Writes)
    BY VerifyingWritesAreTyped
  <2> QED
    BY <1>10, <2>1 DEF BeginVerifying
<1>11. CASE \E error \in DispatchErrors : DispatchThrows(t, error)
  <2>1. PICK error : DispatchThrows(t, error)
    BY <1>11
  <2> HIDE DEF TypeOK
  <2>2. DispatchCatch(t, error)
    BY <2>1 DEF DispatchThrows
  <2> QED
    BY <2>1, <2>2, CatchesAreTyped DEF DispatchThrows, TypeOK
<1> QED
  BY <1>1, <1>2, <1>3, <1>4, <1>5, <1>6, <1>7, <1>8, <1>9, <1>10, <1>11 DEF Forward

\* Every action of the recovery keeps the types.
LEMMA RecoveryIsTyped ==
  ASSUME TypeOK, NEW t \in Txns, Recovery(t)
  PROVE  TypeOK'
<1> USE HelpersAreTyped, WritesAreTyped, TuplesOfWrites, TransactionStatesListed, ActionStatesListed
    DEF EventTypes, ObservationKinds, Points, Finality, Refusals, Instructions, Errors,
        FinalizeOutcomes, states, evidence, outcome, TypeOK
<1>1. CASE RecoveryUnsafe(t)
  BY <1>1 DEF RecoveryUnsafe
<1>2. CASE BlockedObserved(t)
  BY <1>2 DEF BlockedObserved
<1>3. CASE RecoverySafe(t)
  BY <1>3 DEF RecoverySafe
<1>4. CASE ExecuteRecovery(t)
  BY <1>4 DEF ExecuteRecovery
<1>5. CASE RecoveryReported(t)
  BY <1>5 DEF RecoveryReported
<1>6. CASE RecoveryReconciled(t)
  BY <1>6 DEF RecoveryReconciled
<1>7. CASE RecoveryUnresolved(t)
  BY <1>7 DEF RecoveryUnresolved
<1>8. CASE BeginVerifyingRecovery(t)
  BY <1>8 DEF BeginVerifyingRecovery
<1>9. CASE RecoveryVerified(t)
  BY <1>9 DEF RecoveryVerified
<1>10. CASE RecoveryDisputed(t)
  BY <1>10 DEF RecoveryDisputed
<1>11. CASE \E error \in RecoveryErrors : RecoveryThrows(t, error)
  <2>1. PICK error : RecoveryThrows(t, error)
    BY <1>11
  <2> HIDE DEF TypeOK
  <2>2. RecoveryCatch(t, error)
    BY <2>1 DEF RecoveryThrows
  <2> QED
    BY <2>1, <2>2, CatchesAreTyped DEF RecoveryThrows, TypeOK
<1> QED
  BY <1>1, <1>2, <1>3, <1>4, <1>5, <1>6, <1>7, <1>8, <1>9, <1>10, <1>11 DEF Recovery

\* So does every step of the journal.
LEMMA JournalIsTyped ==
  ASSUME TypeOK, NEW t \in Txns, Journal(t)
  PROVE  TypeOK'
<1> USE HelpersAreTyped, WritesAreTyped, TuplesOfWrites
    DEF EventTypes, Points, Errors, states, evidence, outcome
<1>1. CASE AppendEvent(t)
  <2> DEFINE w == Head(todo[t])
  <2>1. w \in Writes /\ Tail(todo[t]) \in Seq(Writes)
    BY <1>1 DEF AppendEvent, TypeOK
  <2>2. events' \in [Txns -> Seq(Events)]
    BY <1>1, <2>1, StoreIsTyped DEF AppendEvent
  <2>3. transaction' \in [Txns -> TransactionStates]
    BY <1>1, <2>1 DEF AppendEvent, TypeOK, Writes
  <2>4. action' \in [Txns -> ActionStates]
    BY <1>1, <2>1 DEF AppendEvent, TypeOK, Writes
  <2> QED
    BY <1>1, <2>1, <2>2, <2>3, <2>4 DEF AppendEvent, TypeOK
<1>2. CASE IllegalTransition(t)
  BY <1>2, RaiseIsTyped DEF IllegalTransition, TypeOK
<1>3. CASE \E fault \in LedgerFaults : AppendThrows(t, fault)
  <2>1. PICK fault \in LedgerFaults : AppendThrows(t, fault)
    BY <1>3
  <2>2. Head(todo[t]) \in Writes
    BY <2>1 DEF AppendThrows, TypeOK
  <2>3. events' \in [Txns -> Seq(Events)]
    BY <2>1, <2>2, StoreIsTyped DEF AppendThrows, TypeOK
  <2> QED
    BY <2>1, <2>3, RaiseIsTyped DEF AppendThrows, TypeOK
<1>4. CASE FinishResult(t)
  BY <1>4 DEF FinishResult, TypeOK
<1>5. CASE SignReceipt(t)
  <2>1. [finalStatus    |-> transaction[t],
         actionStatus   |-> action[t],
         finality       |-> finality[t],
         observations   |-> observations[t],
         manualRecovery |-> manualRecovery[t],
         covered        |-> Len(events[t])] \in Receipts
    BY DEF TypeOK, Receipts
  <2>2. receipt' \in [Txns -> Receipts \union {NoReceipt}]
    BY <1>5, <2>1 DEF SignReceipt, TypeOK
  <2> QED
    BY <1>5, <2>2 DEF SignReceipt, TypeOK
<1>6. CASE Return(t)
  BY <1>6 DEF Return, TypeOK
<1>7. CASE LedgerReadThrows(t)
  BY <1>7 DEF LedgerReadThrows, TypeOK
<1> QED
  BY <1>1, <1>2, <1>3, <1>4, <1>5, <1>6, <1>7 DEF Journal

\* A run that was not started is typed.
LEMMA InitIsTyped == Init => TypeOK
<1> SUFFICES ASSUME Init PROVE TypeOK
  OBVIOUS
<1>1. transaction \in [Txns -> TransactionStates] /\ action \in [Txns -> ActionStates]
  BY TransactionStatesListed, ActionStatesListed DEF Init
<1>2. todo \in [Txns -> Seq(Writes)] /\ events \in [Txns -> Seq(Events)]
  <2>1. <<>> \in Seq(Writes) /\ <<>> \in Seq(Events)
    OBVIOUS
  <2>2. todo = [t \in Txns |-> <<>>] /\ events = [t \in Txns |-> <<>>]
    BY DEF Init
  <2> QED
    BY <2>1, <2>2
<1>3. /\ at \in [Txns -> Points]
      /\ finality \in [Txns -> Finality]
      /\ refusal \in [Txns -> Refusals]
      /\ manualRecovery \in [Txns -> Instructions]
      /\ thrown \in [Txns -> Errors]
      /\ finalize \in [Txns -> FinalizeOutcomes]
  BY DEF Init, Points, Finality, Refusals, Instructions, Errors, FinalizeOutcomes
<1>4. /\ forwardDispatchCount \in [Txns -> Nat]
      /\ observations \in [Txns -> SUBSET [kind : ObservationKinds, ok : BOOLEAN]]
      /\ receipt \in [Txns -> Receipts \union {NoReceipt}]
  BY DEF Init
<1> QED
  BY <1>1, <1>2, <1>3, <1>4 DEF TypeOK

\* No step of any run leaves the types.
LEMMA StepIsTyped == TypeOK /\ [Next]_vars => TypeOK'
<1> SUFFICES ASSUME TypeOK, [Next]_vars
             PROVE  TypeOK'
  OBVIOUS
<1> USE DEF EventTypes, Points, Errors, states, evidence, outcome
<1>1. CASE UNCHANGED vars
  BY <1>1 DEF vars, TypeOK
<1>2. ASSUME NEW t \in Txns, Start(t)
      PROVE  TypeOK'
  BY <1>2, HelpersAreTyped, WritesAreTyped, TuplesOfWrites, TransactionStatesListed,
     ActionStatesListed DEF Start, TypeOK
<1>3. ASSUME NEW t \in Txns, InputThrows(t)
      PROVE  TypeOK'
  BY <1>3, HelpersAreTyped DEF InputThrows, TypeOK
<1>4. ASSUME NEW t \in Txns, AdapterThrows(t)
      PROVE  TypeOK'
  BY <1>4, HelpersAreTyped DEF AdapterThrows, TypeOK
<1> QED
  BY <1>1, <1>2, <1>3, <1>4, AdmissionIsTyped, ForwardIsTyped, RecoveryIsTyped, JournalIsTyped
  DEF Next, Run

\* Every variable of every run keeps its type.
THEOREM TypeCorrect == Spec => []TypeOK
BY InitIsTyped, StepIsTyped, PTL DEF Spec

-----------------------------------------------------------------------------
(***************************************************************************)
(* The durable dispatch boundary of TransactionEngine, proved: whatever    *)
(* the adapter answers and whichever append of the ledger fails, durably   *)
(* or not, a request leaves at most once and only after its approval, its  *)
(* DISPATCHING state and its dispatch_started event are in the ledger.     *)
(*                                                                         *)
(* DispatchIsJournaled is not inductive: it says nothing of the writes     *)
(* still in todo.  BoundaryInv adds what they are on the two ways that     *)
(* lead to the boundary, and that no other way leads there.                *)
(***************************************************************************)
\* The points before the boundary.
Admitting == {"idle", "preflight", "approve", "fresh", "dispatch"}

\* The writes that are not those of the boundary itself.
HarmlessWrites == {w \in Writes : w.to \notin {"DISPATCHING", "action.dispatch_started"}}

Started == Ev("action.dispatch_started")

\* What is written on the way to the boundary, and what is in the ledger by then.
Approaching(t) ==
  /\ at[t] # "dispatch" => todo[t] \in Seq(HarmlessWrites)
  /\ at[t] = "fresh" =>
       \/ todo[t] = <<Ev("approval.consumed"), Act("ADMITTED"), Tx("COMMIT_REQUESTED")>>
       \/ Logged(t, "approval.consumed")
  /\ at[t] = "dispatch" =>
       /\ Logged(t, "approval.consumed")
       /\ \/ todo[t] = <<Act("SCHEDULED"), Tx("COMMITTING"), Act("DISPATCHING"), Started>>
          \/ todo[t] = <<Tx("COMMITTING"), Act("DISPATCHING"), Started>>
          \/ todo[t] = <<Act("DISPATCHING"), Started>>
          \/ todo[t] = <<Started>> /\ Logged(t, "DISPATCHING")
          \/ todo[t] = <<>> /\ Logged(t, "action.dispatch_started")

\* Nothing has left before the boundary, and at most one request after it.
Sent(t) ==
  \/ forwardDispatchCount[t] = 0
  \/ /\ forwardDispatchCount[t] = 1
     /\ at[t] \notin Admitting
     /\ Logged(t, "action.dispatch_started")

Ordered(t) ==
  /\ LoggedBefore(t, "DISPATCHING", "action.dispatch_started")
  /\ LoggedBefore(t, "approval.consumed", "DISPATCHING")

Boundary(t) == Approaching(t) /\ Sent(t) /\ Ordered(t)

BoundaryInv == TypeOK /\ \A t \in Txns : Boundary(t)

-----------------------------------------------------------------------------
\* An event that is appended is the last one, and hides none.
LEMMA AppendHas ==
  ASSUME NEW s \in Seq(Events), NEW e \in Events, NEW type
  PROVE  Has(Append(s, e), type) <=> Has(s, type) \/ e.to = type
<1>1. /\ DOMAIN s = 1 .. Len(s)
      /\ DOMAIN Append(s, e) = 1 .. (Len(s) + 1)
      /\ \A i \in 1 .. Len(s) : Append(s, e)[i] = s[i]
      /\ Append(s, e)[Len(s) + 1] = e
      /\ Len(s) \in Nat
  OBVIOUS
<1> QED
  BY <1>1 DEF Has

\* Appending an event keeps an order, if the event does not come too early itself.
LEMMA AppendHasBefore ==
  ASSUME NEW s \in Seq(Events), NEW e \in Events, NEW first, NEW second,
         HasBefore(s, first, second), e.to = second => Has(s, first)
  PROVE  HasBefore(Append(s, e), first, second)
<1>1. /\ DOMAIN s = 1 .. Len(s)
      /\ DOMAIN Append(s, e) = 1 .. (Len(s) + 1)
      /\ \A i \in 1 .. Len(s) : Append(s, e)[i] = s[i]
      /\ Append(s, e)[Len(s) + 1] = e
      /\ Len(s) \in Nat
  OBVIOUS
<1> SUFFICES ASSUME NEW j \in 1 .. (Len(s) + 1), Append(s, e)[j].to = second
             PROVE  \E i \in 1 .. (j - 1) : Append(s, e)[i].to = first
  BY <1>1 DEF HasBefore
<1>2. CASE j \in 1 .. Len(s)
  BY <1>1, <1>2 DEF HasBefore
<1>3. CASE j = Len(s) + 1
  BY <1>1, <1>3 DEF Has
<1> QED
  BY <1>1, <1>2, <1>3

-----------------------------------------------------------------------------
\* A step of t that goes on, with harmless writes, to a point that is not on the
\* last stretch before the boundary, and comes from before it if it stays there.
Ordinary(t) ==
  /\ \E writes \in Seq(HarmlessWrites), p \in Points \ {"fresh", "dispatch"} :
       /\ Continue(t, writes, p)
       /\ p \in Admitting => at[t] \in Admitting
  /\ UNCHANGED <<forwardDispatchCount, events>>

\* How the actions below are shown to be ordinary.
LEMMA ContinuesOrdinarily ==
  ASSUME NEW t \in Txns, UNCHANGED <<forwardDispatchCount, events>>,
         NEW writes \in Seq(HarmlessWrites), NEW p \in Points \ {"fresh", "dispatch"},
         Continue(t, writes, p), p \in Admitting => at[t] \in Admitting
  PROVE  Ordinary(t)
BY DEF Ordinary

\* Of all writes only two are those of the boundary.
LEMMA WritesAreHarmless ==
  /\ \A s \in TransactionStates : Tx(s) \in HarmlessWrites
  /\ \A s \in ActionStates \ {"DISPATCHING"} : Act(s) \in HarmlessWrites
  /\ \A e \in EventTypes \ {"action.dispatch_started"} : Ev(e) \in HarmlessWrites
BY TransactionStatesListed, ActionStatesListed
DEF Tx, Act, Ev, Write, Writes, HarmlessWrites, EventTypes

\* The longest list an action queues has five writes.
LEMMA TuplesOfHarmlessWrites ==
  /\ <<>> \in Seq(HarmlessWrites)
  /\ \A a \in HarmlessWrites : <<a>> \in Seq(HarmlessWrites)
  /\ \A a, b \in HarmlessWrites : <<a, b>> \in Seq(HarmlessWrites)
  /\ \A a, b, c \in HarmlessWrites : <<a, b, c>> \in Seq(HarmlessWrites)
  /\ \A a, b, c, d \in HarmlessWrites : <<a, b, c, d>> \in Seq(HarmlessWrites)
  /\ \A a, b, c, d, e \in HarmlessWrites : <<a, b, c, d, e>> \in Seq(HarmlessWrites)
OBVIOUS

\* The list BeginVerifying queues is harmless.
LEMMA VerifyingWritesAreHarmless ==
  ASSUME NEW A
  PROVE  (IF A THEN <<Tx("VERIFYING")>> ELSE <<>>) \o <<Act("VERIFYING")>> \in Seq(HarmlessWrites)
<1>1. Tx("VERIFYING") \in HarmlessWrites /\ Act("VERIFYING") \in HarmlessWrites
  BY WritesAreHarmless, TransactionStatesListed, ActionStatesListed
<1>2. \A s1, s2 \in Seq(HarmlessWrites) : s1 \o s2 \in Seq(HarmlessWrites)
  OBVIOUS
<1>3. /\ (IF A THEN <<Tx("VERIFYING")>> ELSE <<>>) \in Seq(HarmlessWrites)
      /\ <<Act("VERIFYING")>> \in Seq(HarmlessWrites)
  BY <1>1, TuplesOfHarmlessWrites
<1> QED
  BY <1>2, <1>3

\* Wherever the catch clauses send a run, they send it past the boundary.
LEMMA CatchesAreOrdinary ==
  ASSUME TypeOK, NEW t \in Txns, NEW error,
         DispatchCatch(t, error) \/ RecoveryCatch(t, error)
  PROVE  \E writes \in Seq(HarmlessWrites), p \in Points \ Admitting : Continue(t, writes, p)
<1> USE WritesAreHarmless, TuplesOfHarmlessWrites, TransactionStatesListed, ActionStatesListed
    DEF Points, Admitting
<1>1. CASE DispatchCatch(t, error)
  BY <1>1 DEF DispatchCatch
<1>2. CASE RecoveryCatch(t, error)
  BY <1>2 DEF RecoveryCatch
<1> QED
  BY <1>1, <1>2

\* Of the admission all actions but consuming the approval and passing the
\* staleness check are ordinary.
LEMMA AdmissionIsOrdinary ==
  ASSUME TypeOK, NEW t \in Txns,
         PreflightRejected(t) \/ Preflighted(t) \/ ApprovalRejected(t)
         \/ ApprovalThrows(t) \/ Stale(t)
  PROVE  Ordinary(t)
<1> USE ContinuesOrdinarily, WritesAreHarmless, TuplesOfHarmlessWrites,
        TransactionStatesListed, ActionStatesListed
    DEF EventTypes, Points, Admitting, Awaits
<1>1. CASE PreflightRejected(t)
  BY <1>1 DEF PreflightRejected
<1>2. CASE Preflighted(t)
  BY <1>2 DEF Preflighted
<1>3. CASE ApprovalRejected(t)
  BY <1>3 DEF ApprovalRejected
<1>4. CASE ApprovalThrows(t)
  BY <1>4 DEF ApprovalThrows, Throw
<1>5. CASE Stale(t)
  BY <1>5 DEF Stale
<1> QED
  BY <1>1, <1>2, <1>3, <1>4, <1>5

\* Of dispatch, verification and finalize all actions but the dispatch are ordinary.
LEMMA ForwardIsOrdinary ==
  ASSUME TypeOK, NEW t \in Txns,
         DispatchReported(t) \/ Reconciled(t) \/ Unresolved(t) \/ BeginVerifying(t)
         \/ Verified(t) \/ VerificationFailed(t)
         \/ Finalized(t) \/ FinalizeThrows(t) \/ FinalizeThrowsUndefined(t)
  PROVE  Ordinary(t)
<1> USE ContinuesOrdinarily, WritesAreHarmless, TuplesOfHarmlessWrites,
        TransactionStatesListed, ActionStatesListed
    DEF EventTypes, Points, Admitting, Awaits
<1>1. CASE DispatchReported(t)
  BY <1>1 DEF DispatchReported
<1>2. CASE Reconciled(t)
  BY <1>2 DEF Reconciled
<1>3. CASE Unresolved(t)
  BY <1>3 DEF Unresolved
<1>4. CASE BeginVerifying(t)
  BY <1>4, VerifyingWritesAreHarmless DEF BeginVerifying
<1>5. CASE Verified(t)
  BY <1>5 DEF Verified
<1>6. CASE VerificationFailed(t)
  BY <1>6 DEF VerificationFailed
<1>7. CASE Finalized(t)
  BY <1>7 DEF Finalized
<1>8. CASE FinalizeThrows(t)
  BY <1>8 DEF FinalizeThrows
<1>9. CASE FinalizeThrowsUndefined(t)
  BY <1>9 DEF FinalizeThrowsUndefined
<1> QED
  BY <1>1, <1>2, <1>3, <1>4, <1>5, <1>6, <1>7, <1>8, <1>9

\* Every action of the recovery is ordinary, but for the errors of its dispatch.
LEMMA RecoveryIsOrdinary ==
  ASSUME TypeOK, NEW t \in Txns,
         RecoveryUnsafe(t) \/ BlockedObserved(t) \/ RecoverySafe(t)
         \/ ExecuteRecovery(t) \/ RecoveryReported(t) \/ RecoveryReconciled(t)
         \/ RecoveryUnresolved(t) \/ BeginVerifyingRecovery(t) \/ RecoveryVerified(t)
         \/ RecoveryDisputed(t)
  PROVE  Ordinary(t)
<1> USE ContinuesOrdinarily, WritesAreHarmless, TuplesOfHarmlessWrites,
        TransactionStatesListed, ActionStatesListed
    DEF EventTypes, Points, Admitting, Awaits
<1>1. CASE RecoveryUnsafe(t)
  BY <1>1 DEF RecoveryUnsafe
<1>2. CASE BlockedObserved(t)
  BY <1>2 DEF BlockedObserved
<1>3. CASE RecoverySafe(t)
  BY <1>3 DEF RecoverySafe
<1>4. CASE ExecuteRecovery(t)
  BY <1>4 DEF ExecuteRecovery
<1>5. CASE RecoveryReported(t)
  BY <1>5 DEF RecoveryReported
<1>6. CASE RecoveryReconciled(t)
  BY <1>6 DEF RecoveryReconciled
<1>7. CASE RecoveryUnresolved(t)
  BY <1>7 DEF RecoveryUnresolved
<1>8. CASE BeginVerifyingRecovery(t)
  BY <1>8 DEF BeginVerifyingRecovery
<1>9. CASE RecoveryVerified(t)
  BY <1>9 DEF RecoveryVerified
<1>10. CASE RecoveryDisputed(t)
  BY <1>10 DEF RecoveryDisputed
<1> QED
  BY <1>1, <1>2, <1>3, <1>4, <1>5, <1>6, <1>7, <1>8, <1>9, <1>10

-----------------------------------------------------------------------------
\* A step of one run does not change what holds of another.
LEMMA OthersStay ==
  ASSUME NEW u \in Txns, Boundary(u), todo'[u] = todo[u], at'[u] = at[u],
         forwardDispatchCount'[u] = forwardDispatchCount[u], events'[u] = events[u]
  PROVE  Boundary(u)'
BY DEF Boundary, Approaching, Sent, Ordered, Logged, LoggedBefore

\* An ordinary step keeps the boundary.
LEMMA OrdinaryKeepsBoundary ==
  ASSUME TypeOK, NEW t \in Txns, Boundary(t), Ordinary(t)
  PROVE  Boundary(t)'
<1>1. PICK writes \in Seq(HarmlessWrites), p \in Points \ {"fresh", "dispatch"} :
        /\ Continue(t, writes, p)
        /\ p \in Admitting => at[t] \in Admitting
  BY DEF Ordinary
<1>2. at'[t] = p /\ todo'[t] = writes
  BY <1>1 DEF Continue, TypeOK
<1>3. forwardDispatchCount'[t] = forwardDispatchCount[t] /\ events'[t] = events[t]
  BY DEF Ordinary
<1>4. Approaching(t)'
  BY <1>2 DEF Approaching
<1>5. Sent(t)'
  BY <1>1, <1>2, <1>3 DEF Boundary, Sent, Logged
<1>6. Ordered(t)'
  BY <1>3 DEF Boundary, Ordered, LoggedBefore
<1> QED
  BY <1>4, <1>5, <1>6 DEF Boundary

\* Consuming the approval queues the event the boundary needs before DISPATCHING.
LEMMA ApprovalConsumedKeepsBoundary ==
  ASSUME TypeOK, NEW t \in Txns, Boundary(t), ApprovalConsumed(t)
  PROVE  Boundary(t)'
<1> DEFINE writes == <<Ev("approval.consumed"), Act("ADMITTED"), Tx("COMMIT_REQUESTED")>>
<1>1. writes \in Seq(HarmlessWrites)
  BY WritesAreHarmless, TuplesOfHarmlessWrites, TransactionStatesListed, ActionStatesListed
  DEF EventTypes
<1>2. /\ at[t] = "approve" /\ at'[t] = "fresh" /\ todo'[t] = writes
      /\ forwardDispatchCount'[t] = forwardDispatchCount[t] /\ events'[t] = events[t]
  BY DEF ApprovalConsumed, Awaits, Continue, TypeOK
<1>3. Approaching(t)'
  BY <1>1, <1>2 DEF Approaching
<1> QED
  BY <1>2, <1>3 DEF Boundary, Sent, Admitting, Ordered, LoggedBefore

\* Passing the staleness check queues the two writes of the boundary in their order.
LEMMA FreshKeepsBoundary ==
  ASSUME TypeOK, NEW t \in Txns, Boundary(t), Fresh(t)
  PROVE  Boundary(t)'
<1>1. /\ at[t] = "fresh" /\ todo[t] = <<>> /\ at'[t] = "dispatch"
      /\ todo'[t] = <<Act("SCHEDULED"), Tx("COMMITTING"), Act("DISPATCHING"), Started>>
      /\ forwardDispatchCount'[t] = forwardDispatchCount[t] /\ events'[t] = events[t]
  BY DEF Fresh, Awaits, Continue, TypeOK, Started
<1>2. Logged(t, "approval.consumed")
  BY <1>1 DEF Boundary, Approaching
<1>3. Approaching(t)'
  BY <1>1, <1>2 DEF Approaching, Logged
<1> QED
  BY <1>1, <1>3 DEF Boundary, Sent, Admitting, Ordered, LoggedBefore

\* The request leaves: the run was at the boundary with nothing left to write.
LEMMA DispatchKeepsBoundary ==
  ASSUME TypeOK, NEW t \in Txns, Boundary(t), Dispatch(t)
  PROVE  Boundary(t)'
<1>1. /\ at[t] = "dispatch" /\ todo[t] = <<>> /\ at'[t] = "dispatching" /\ todo'[t] = <<>>
      /\ forwardDispatchCount'[t] = forwardDispatchCount[t] + 1 /\ events'[t] = events[t]
  BY DEF Dispatch, Awaits, Continue, TypeOK
<1>2. forwardDispatchCount[t] = 0 /\ Logged(t, "action.dispatch_started")
  BY <1>1 DEF Boundary, Approaching, Sent, Admitting
<1>3. Approaching(t)'
  BY <1>1, TuplesOfHarmlessWrites DEF Approaching
<1>4. Sent(t)'
  BY <1>1, <1>2 DEF Sent, Admitting, Logged
<1> QED
  BY <1>1, <1>3, <1>4 DEF Boundary, Ordered, LoggedBefore

-----------------------------------------------------------------------------
\* An append that is durable adds one event, keeps the order of the boundary, and
\* what was logged stays so.
LEMMA StoreKeepsOrder ==
  ASSUME TypeOK, NEW t \in Txns, Boundary(t), todo[t] # <<>>, Store(t, Head(todo[t]))
  PROVE  /\ Ordered(t)'
         /\ \A type : Logged(t, type)' <=> Logged(t, type) \/ Head(todo[t]).to = type
<1> DEFINE w == Head(todo[t])
           e == [kind |-> w.kind, from |-> Current(t, w.kind), to |-> w.to]
<1>1. w \in Writes /\ events[t] \in Seq(Events)
  BY DEF TypeOK
<1>2. e \in Events
  <2>1. /\ w.kind \in {"transaction", "action", "event"}
        /\ w.to \in TransactionStates \union ActionStates \union EventTypes
    BY <1>1 DEF Writes
  <2>2. Current(t, w.kind) \in TransactionStates \union ActionStates \union {"none"}
    BY <2>1 DEF Current, TypeOK
  <2> QED
    BY <2>1, <2>2 DEF Events
<1>3. events'[t] = Append(events[t], e)
  BY DEF Store, TypeOK
<1>4. \A type : Logged(t, type)' <=> Logged(t, type) \/ w.to = type
  <2>1. \A type : Has(Append(events[t], e), type) <=> Has(events[t], type) \/ e.to = type
    BY <1>1, <1>2, AppendHas
  <2> QED
    BY <1>3, <2>1 DEF Logged
<1>5. w.to = "action.dispatch_started" => Logged(t, "DISPATCHING")
  <2>1. CASE at[t] # "dispatch"
    BY <2>1 DEF Boundary, Approaching, HarmlessWrites
  <2>2. CASE at[t] = "dispatch"
    BY <2>2 DEF Boundary, Approaching, Act, Tx, Ev, Write
  <2> QED
    BY <2>1, <2>2
<1>6. w.to = "DISPATCHING" => Logged(t, "approval.consumed")
  <2>1. CASE at[t] # "dispatch"
    BY <2>1 DEF Boundary, Approaching, HarmlessWrites
  <2>2. CASE at[t] = "dispatch"
    BY <2>2 DEF Boundary, Approaching
  <2> QED
    BY <2>1, <2>2
<1>7. /\ HasBefore(Append(events[t], e), "DISPATCHING", "action.dispatch_started")
      /\ HasBefore(Append(events[t], e), "approval.consumed", "DISPATCHING")
  BY <1>1, <1>2, <1>5, <1>6, AppendHasBefore DEF Boundary, Ordered, LoggedBefore, Logged
<1> QED
  BY <1>3, <1>4, <1>7 DEF Ordered, LoggedBefore

\* Each append on the way to the boundary takes the run one write closer to it.
LEMMA AppendEventKeepsBoundary ==
  ASSUME TypeOK, NEW t \in Txns, Boundary(t), AppendEvent(t)
  PROVE  Boundary(t)'
<1> DEFINE w == Head(todo[t])
<1>1. /\ todo[t] # <<>> /\ Store(t, w)
      /\ at'[t] = at[t] /\ todo'[t] = Tail(todo[t])
      /\ forwardDispatchCount'[t] = forwardDispatchCount[t]
  BY DEF AppendEvent, TypeOK
<1>2. /\ Ordered(t)'
      /\ \A type : Logged(t, type)' <=> Logged(t, type) \/ w.to = type
  BY <1>1, StoreKeepsOrder
<1>3. Sent(t)'
  BY <1>1, <1>2 DEF Boundary, Sent
<1>4. ASSUME at[t] # "dispatch"
      PROVE  todo'[t] \in Seq(HarmlessWrites)
  BY <1>1, <1>4 DEF Boundary, Approaching
<1>5. ASSUME at[t] = "fresh"
      PROVE  Logged(t, "approval.consumed")'
  BY <1>1, <1>2, <1>5 DEF Boundary, Approaching, Ev, Write
<1>6. ASSUME at[t] = "dispatch"
      PROVE  /\ Logged(t, "approval.consumed")'
             /\ \/ todo'[t] = <<Tx("COMMITTING"), Act("DISPATCHING"), Started>>
                \/ todo'[t] = <<Act("DISPATCHING"), Started>>
                \/ todo'[t] = <<Started>> /\ Logged(t, "DISPATCHING")'
                \/ todo'[t] = <<>> /\ Logged(t, "action.dispatch_started")'
  <2>1. CASE todo[t] = <<Act("SCHEDULED"), Tx("COMMITTING"), Act("DISPATCHING"), Started>>
    BY <1>1, <1>2, <1>6, <2>1 DEF Boundary, Approaching
  <2>2. CASE todo[t] = <<Tx("COMMITTING"), Act("DISPATCHING"), Started>>
    BY <1>1, <1>2, <1>6, <2>2 DEF Boundary, Approaching
  <2>3. CASE todo[t] = <<Act("DISPATCHING"), Started>>
    <3>1. w.to = "DISPATCHING" /\ todo'[t] = <<Started>>
      BY <1>1, <2>3 DEF Act, Write
    <3> QED
      BY <1>2, <1>6, <3>1 DEF Boundary, Approaching
  <2>4. CASE todo[t] = <<Started>>
    <3>1. w.to = "action.dispatch_started" /\ todo'[t] = <<>>
      BY <1>1, <2>4 DEF Started, Ev, Write
    <3> QED
      BY <1>2, <1>6, <3>1 DEF Boundary, Approaching
  <2> QED
    BY <1>1, <1>6, <2>1, <2>2, <2>3, <2>4 DEF Boundary, Approaching
<1>7. Approaching(t)'
  BY <1>1, <1>4, <1>5, <1>6 DEF Approaching
<1> QED
  BY <1>2, <1>3, <1>7 DEF Boundary

\* An error of the journal sends the run past the boundary, whether the event it
\* failed on is durable or not.
LEMMA RaisesPastBoundary ==
  ASSUME TypeOK, NEW t \in Txns, NEW error, NEW cause, Raise(t, error, cause)
  PROVE  \E writes \in Seq(HarmlessWrites), p \in Points \ Admitting : Continue(t, writes, p)
BY CatchesAreOrdinary, TuplesOfHarmlessWrites DEF Raise, Throw, Points, Admitting

\* A failed append takes the run past the boundary without a dispatch.
LEMMA AppendThrowsKeepsBoundary ==
  ASSUME TypeOK, NEW t \in Txns, Boundary(t), NEW fault, AppendThrows(t, fault)
  PROVE  Boundary(t)'
<1>1. PICK writes \in Seq(HarmlessWrites), p \in Points \ Admitting : Continue(t, writes, p)
  BY RaisesPastBoundary DEF AppendThrows
<1>2. /\ at'[t] = p /\ todo'[t] = writes
      /\ forwardDispatchCount'[t] = forwardDispatchCount[t]
  BY <1>1 DEF Continue, AppendThrows, TypeOK
<1>3. /\ Ordered(t)'
      /\ \A type : Logged(t, type) => Logged(t, type)'
  <2>1. CASE fault.durable
    BY <2>1, StoreKeepsOrder DEF AppendThrows
  <2>2. CASE ~fault.durable
    BY <2>2 DEF AppendThrows, Boundary, Ordered, LoggedBefore, Logged
  <2> QED
    BY <2>1, <2>2
<1>4. Approaching(t)'
  BY <1>2 DEF Approaching, Admitting
<1>5. Sent(t)'
  BY <1>2, <1>3 DEF Boundary, Sent, Admitting
<1> QED
  BY <1>3, <1>4, <1>5 DEF Boundary

-----------------------------------------------------------------------------
\* The steps that are not ordinary.
OnTheWay(t) ==
  \/ ApprovalConsumed(t) \/ Fresh(t) \/ Dispatch(t) \/ AppendEvent(t)
  \/ \E fault \in LedgerFaults : AppendThrows(t, fault)

\* The journal's steps are ordinary or on the way to the boundary.
LEMMA JournalSteps ==
  ASSUME TypeOK, NEW t \in Txns, Journal(t)
  PROVE  Ordinary(t) \/ OnTheWay(t)
<1> USE ContinuesOrdinarily, WritesAreHarmless, TuplesOfHarmlessWrites
    DEF EventTypes, Points, Admitting, Awaits
<1>1. CASE IllegalTransition(t)
  <2>1. PICK writes \in Seq(HarmlessWrites), p \in Points \ Admitting : Continue(t, writes, p)
    BY <1>1, RaisesPastBoundary DEF IllegalTransition
  <2> QED
    BY <1>1, <2>1 DEF IllegalTransition
<1>2. CASE FinishResult(t)
  BY <1>2 DEF FinishResult
<1>3. CASE SignReceipt(t)
  BY <1>3 DEF SignReceipt
<1>4. CASE Return(t)
  BY <1>4 DEF Return
<1>5. CASE LedgerReadThrows(t)
  BY <1>5 DEF LedgerReadThrows, Throw
<1> QED
  BY <1>1, <1>2, <1>3, <1>4, <1>5 DEF Journal, OnTheWay

\* So is every step of a run.
LEMMA Steps ==
  ASSUME TypeOK, NEW t \in Txns, Start(t) \/ InputThrows(t) \/ Run(t)
  PROVE  Ordinary(t) \/ OnTheWay(t)
<1> USE ContinuesOrdinarily, WritesAreHarmless, TuplesOfHarmlessWrites,
        TransactionStatesListed, ActionStatesListed
    DEF EventTypes, Points, Admitting, Awaits
<1>1. CASE Start(t)
  BY <1>1 DEF Start
<1>2. CASE InputThrows(t)
  BY <1>2 DEF InputThrows, Throw
<1>3. CASE Admission(t)
  BY <1>3, AdmissionIsOrdinary DEF Admission, OnTheWay
<1>4. CASE Forward(t)
  <2>1. CASE \E error \in DispatchErrors : DispatchThrows(t, error)
    <3>1. PICK writes \in Seq(HarmlessWrites), p \in Points \ Admitting :
            Continue(t, writes, p)
      BY <2>1, CatchesAreOrdinary DEF DispatchThrows
    <3> QED
      BY <2>1, <3>1 DEF DispatchThrows
  <2> QED
    BY <1>4, <2>1, ForwardIsOrdinary DEF Forward, OnTheWay
<1>5. CASE Recovery(t)
  <2>1. CASE \E error \in RecoveryErrors : RecoveryThrows(t, error)
    <3>1. PICK writes \in Seq(HarmlessWrites), p \in Points \ Admitting :
            Continue(t, writes, p)
      BY <2>1, CatchesAreOrdinary DEF RecoveryThrows
    <3> QED
      BY <2>1, <3>1 DEF RecoveryThrows
  <2> QED
    BY <1>5, <2>1, RecoveryIsOrdinary DEF Recovery
<1>6. CASE AdapterThrows(t)
  BY <1>6 DEF AdapterThrows, Throw
<1> QED
  BY <1>1, <1>2, <1>3, <1>4, <1>5, <1>6, JournalSteps DEF Run

\* A step of t assigns the functions of the model at t alone.
LEMMA StepsAreLocal ==
  ASSUME TypeOK, NEW t \in Txns, Ordinary(t) \/ OnTheWay(t), NEW u \in Txns, u # t
  PROVE  /\ at'[u] = at[u] /\ todo'[u] = todo[u]
         /\ forwardDispatchCount'[u] = forwardDispatchCount[u] /\ events'[u] = events[u]
<1>1. CASE Ordinary(t)
  BY <1>1 DEF Ordinary, Continue, TypeOK
<1>2. CASE ApprovalConsumed(t) \/ Fresh(t) \/ Dispatch(t)
  BY <1>2 DEF ApprovalConsumed, Fresh, Dispatch, Continue, TypeOK
<1>3. CASE AppendEvent(t)
  BY <1>3 DEF AppendEvent, Store, TypeOK
<1>4. ASSUME NEW fault \in LedgerFaults, AppendThrows(t, fault)
      PROVE  /\ at'[u] = at[u] /\ todo'[u] = todo[u]
             /\ forwardDispatchCount'[u] = forwardDispatchCount[u] /\ events'[u] = events[u]
  <2>1. events'[u] = events[u]
    BY <1>4 DEF AppendThrows, Store, TypeOK
  <2>2. PICK writes \in Seq(HarmlessWrites), p \in Points \ Admitting : Continue(t, writes, p)
    BY <1>4, RaisesPastBoundary DEF AppendThrows
  <2> QED
    BY <1>4, <2>1, <2>2 DEF AppendThrows, Continue, TypeOK
<1> QED
  BY <1>1, <1>2, <1>3, <1>4 DEF OnTheWay

\* BoundaryInv is inductive.
LEMMA StepKeepsBoundary == BoundaryInv /\ [Next]_vars => BoundaryInv'
<1> SUFFICES ASSUME BoundaryInv, [Next]_vars
             PROVE  BoundaryInv'
  OBVIOUS
<1>1. TypeOK /\ TypeOK'
  BY StepIsTyped DEF BoundaryInv
<1>2. CASE UNCHANGED vars
  BY <1>1, <1>2, OthersStay DEF BoundaryInv, vars
<1>3. ASSUME NEW t \in Txns, Start(t) \/ InputThrows(t) \/ Run(t)
      PROVE  \A u \in Txns : Boundary(u)'
  <2>1. Ordinary(t) \/ OnTheWay(t)
    BY <1>1, <1>3, Steps
  <2>2. Boundary(t)'
    BY <1>1, <2>1, OrdinaryKeepsBoundary, ApprovalConsumedKeepsBoundary, FreshKeepsBoundary,
       DispatchKeepsBoundary, AppendEventKeepsBoundary, AppendThrowsKeepsBoundary
    DEF BoundaryInv, OnTheWay
  <2>3. ASSUME NEW u \in Txns, u # t
        PROVE  Boundary(u)'
    BY <1>1, <2>1, <2>3, StepsAreLocal, OthersStay DEF BoundaryInv
  <2> QED
    BY <2>2, <2>3
<1> QED
  BY <1>1, <1>2, <1>3 DEF BoundaryInv, Next

\* At most one request leaves, and only past the durable boundary.
THEOREM DispatchBoundary == Spec => []DispatchIsJournaled
<1>1. Init => BoundaryInv
  <2>1. ASSUME Init, NEW t \in Txns
        PROVE  Boundary(t)
    <3>1. /\ at[t] = "idle" /\ todo[t] = <<>> /\ events[t] = <<>>
          /\ forwardDispatchCount[t] = 0
      BY <2>1 DEF Init
    <3> QED
      BY <3>1, TuplesOfHarmlessWrites
      DEF Boundary, Approaching, Sent, Ordered, LoggedBefore, HasBefore
  <2> QED
    BY <2>1, InitIsTyped DEF BoundaryInv
<1>2. BoundaryInv => DispatchIsJournaled
  BY DEF BoundaryInv, Boundary, Sent, Ordered, DispatchIsJournaled
<1> QED
  BY <1>1, <1>2, StepKeepsBoundary, PTL DEF Spec

-----------------------------------------------------------------------------
(***************************************************************************)
(* What a receipt says, proved: five promises of TransactionEngine about   *)
(* how a run ends, whatever the adapter answers and whichever append of    *)
(* the ledger fails.                                                       *)
(*                                                                         *)
(* None is inductive: a verdict is decided some writes before it is        *)
(* reached, and on evidence of steps long past.  OutcomeInv follows the    *)
(* terminal states that a run has reached or has queued (Ends), says what  *)
(* had happened when they were queued, and what has happened at each point *)
(* before.                                                                 *)
(***************************************************************************)

\* The points of a run whose verdict is decided; a blocked compensation is
\* decided one await earlier than the others.
Ending == {"finish", "sign", "return", "returned", "threw"}
Closed == Ending \union {"observe"}

Before == Admitting \ {"dispatch"}
Trying == Admitting \union {"dispatching", "reported", "reconcile", "reconciled", "verify",
                             "finalize"}
Undoing == {"recovering", "recoveryReported", "reconcileRecovery", "recoveryReconciled",
            "verifyRecovery"}

\* The points only a run comes to whose effect is known to have been applied.
Attributed == {"reported", "reconciled", "verify", "finalize", "plan", "observe", "recover"}
                \union Undoing

RefusedStates == {"PREFLIGHT_FAILED", "APPROVAL_DENIED", "ABORTED"}

\* A state, or an event, is among the writes still to be made.
Queued(t, name)  == Has(todo[t], name)
Nowhere(t, name) == ~Logged(t, name) /\ ~Queued(t, name)

\* The transaction has reached a state, or has it queued.
Ends(t, state) == transaction[t] = state \/ Queued(t, state)
EndsIn(t, S)   == \A state \in TerminalTransactionStates : Ends(t, state) => state \in S

OnlyEvents(t)    == \A i \in DOMAIN todo[t] : todo[t][i].kind = "event"
ActsOnly(t, S)   == \A i \in DOMAIN todo[t] : todo[t][i].kind = "action" => todo[t][i].to \in S
WillBe(t, state) == /\ ActsOnly(t, {state})
                    /\ action[t] = state \/ \E i \in DOMAIN todo[t] : todo[t][i] = Act(state)

Failed(t, kind) == Observed(kind, FALSE) \in observations[t]
Applied(t)      == Saw(t, "dispatch") \/ Saw(t, "reconciliation")
Justified(t)    == Failed(t, "verification") \/ Logged(t, "transaction.finalize_failed")

\* A run that has no verdict has nothing of it.
Undecided(t) ==
  /\ \A state \in TerminalTransactionStates : ~Ends(t, state)
  /\ refusal[t] = "none" /\ manualRecovery[t] = "none"
  /\ ~HasReceipt(t)
  /\ ~Failed(t, "reconciliation")

\* What has happened by the time a run is at a point.
Progress(t) ==
  /\ at[t] \in Before => Nowhere(t, "action.dispatch_started")
  /\ at[t] \in Admitting => forwardDispatchCount[t] = 0
  /\ at[t] \notin Admitting \union Ending => forwardDispatchCount[t] = 1
  /\ at[t] \in Attributed => Applied(t)
  /\ at[t] \in Trying => Nowhere(t, "recovery.planned")
  /\ at[t] = "finalize" =>
       Saw(t, "verification") /\ finality[t] = "VERIFIED" /\ WillBe(t, "VERIFIED_SUCCEEDED")
  /\ at[t] = "plan" => Justified(t) \/ Queued(t, "transaction.finalize_failed")
  /\ at[t] \in {"recover"} \union Undoing => Justified(t) /\ Saw(t, "recovery_plan")
  /\ at[t] = "recover" =>
       Logged(t, "recovery.dispatch_started") \/ Queued(t, "recovery.dispatch_started")
  /\ at[t] \in Undoing => Logged(t, "recovery.dispatch_started")
  /\ at[t] \notin Ending => ~Logged(t, "VERIFIED_COMMITTED")

\* A verdict does not change after the terminal event, and the receipt copies it.
Closing(t) ==
  /\ at[t] = "observe" =>
       /\ EndsIn(t, {"MANUAL_RECOVERY_REQUIRED"})
       /\ refusal[t] = "none" /\ manualRecovery[t] = "none"
       /\ ~Failed(t, "reconciliation")
  /\ at[t] \in Ending \ {"finish"} => OnlyEvents(t)
  /\ at[t] \in {"sign", "return", "returned"} => transaction[t] \in TerminalTransactionStates
  /\ HasReceipt(t) =>
       /\ at[t] \in {"return", "returned", "threw"}
       /\ transaction[t] \in TerminalTransactionStates
       /\ receipt[t].finalStatus = transaction[t]
       /\ receipt[t].actionStatus = action[t]
       /\ receipt[t].finality = finality[t]
       /\ receipt[t].manualRecovery = manualRecovery[t]

\* A refusal is decided before anything is sent, and nothing is queued to be.
Refusing(t) ==
  /\ refusal[t] # "none" =>
       /\ forwardDispatchCount[t] = 0
       /\ Nowhere(t, "action.dispatch_started")
       /\ finality[t] = "VERIFIED"
       /\ EndsIn(t, RefusedStates)
  /\ \A state \in RefusedStates : Ends(t, state) => refusal[t] # "none"

\* An unresolved outcome stays one.
Unknowing(t) ==
  Failed(t, "reconciliation") =>
    /\ EndsIn(t, {"MANUAL_RECOVERY_REQUIRED"})
    /\ finality[t] = "UNKNOWN"
    /\ at[t] # "threw" \/ HasReceipt(t) => WillBe(t, "OUTCOME_UNKNOWN")

Committing(t) ==
  Ends(t, "VERIFIED_COMMITTED") =>
    /\ forwardDispatchCount[t] = 1
    /\ Applied(t)
    /\ Saw(t, "verification")
    /\ finality[t] = "VERIFIED"
    /\ action[t] = "VERIFIED_SUCCEEDED" /\ ActsOnly(t, {})
    /\ Nowhere(t, "recovery.planned")
    /\ finalize[t] \notin {"not called", "threw"}

Compensating(t) ==
  Ends(t, "VERIFIED_COMPENSATED") =>
    /\ Applied(t) /\ Justified(t) /\ Saw(t, "recovery_plan")
    /\ Logged(t, "recovery.dispatch_started")
    /\ Nowhere(t, "VERIFIED_COMMITTED")
    /\ Saw(t, "recovery_verification")

Asking(t) ==
  /\ Ends(t, "MANUAL_RECOVERY_REQUIRED") =>
       manualRecovery[t] # "none" \/ (at[t] \in {"observe", "threw"} /\ ~HasReceipt(t))
  /\ manualRecovery[t] # "none" => EndsIn(t, {"MANUAL_RECOVERY_REQUIRED"})

Outcome(t) ==
  /\ at[t] \notin Closed => Undecided(t)
  /\ Progress(t) /\ Closing(t)
  /\ Refusing(t) /\ Unknowing(t) /\ Committing(t) /\ Compensating(t) /\ Asking(t)

OutcomeInv == TypeOK /\ \A t \in Txns : Outcome(t)

-----------------------------------------------------------------------------
\* The sets of points and states are read as what they list from here on.
USE DEF Closed, Ending, Before, Admitting, Trying, Undoing, Attributed, RefusedStates

\* An action that handles an answer leaves what the journal has written alone.
LEMMA Handling ==
  ASSUME TypeOK, NEW t \in Txns, NEW p, NEW q, NEW list,
         Awaits(t, p), Continue(t, list, q), UNCHANGED <<states, receipt, events>>
  PROVE  /\ at[t] = p /\ at'[t] = q /\ todo'[t] = list
         /\ transaction'[t] = transaction[t] /\ action'[t] = action[t]
         /\ receipt'[t] = receipt[t]
         /\ \A name : ~Queued(t, name)
         /\ \A name : Logged(t, name)' <=> Logged(t, name)
BY DEF Awaits, Continue, TypeOK, states, Queued, Has, Logged

\* What has been observed after one more observation, or none.
LEMMA Observing ==
  ASSUME TypeOK, NEW t \in Txns, NEW kind
  PROVE  /\ Observe(t, kind, TRUE) =>
              /\ \A k : Saw(t, k)' <=> Saw(t, k) \/ k = kind
              /\ \A k : Failed(t, k)' <=> Failed(t, k)
         /\ Observe(t, kind, FALSE) =>
              /\ \A k : Saw(t, k)' <=> Saw(t, k)
              /\ \A k : Failed(t, k)' <=> Failed(t, k) \/ k = kind
<1>1. \A k : /\ Observed(k, TRUE) = Observed(kind, TRUE) <=> k = kind
             /\ Observed(k, FALSE) # Observed(kind, TRUE)
  BY DEF Observed
<1>2. \A k : /\ Observed(k, FALSE) = Observed(kind, FALSE) <=> k = kind
             /\ Observed(k, TRUE) # Observed(kind, FALSE)
  BY DEF Observed
<1>3. ASSUME Observe(t, kind, TRUE)
      PROVE  /\ \A k : Saw(t, k)' <=> Saw(t, k) \/ k = kind
             /\ \A k : Failed(t, k)' <=> Failed(t, k)
  <2>1. observations'[t] = observations[t] \union {Observed(kind, TRUE)}
    BY <1>3 DEF Observe, TypeOK
  <2> QED
    BY <2>1, <1>1 DEF Saw, Failed
<1>4. ASSUME Observe(t, kind, FALSE)
      PROVE  /\ \A k : Saw(t, k)' <=> Saw(t, k)
             /\ \A k : Failed(t, k)' <=> Failed(t, k) \/ k = kind
  <2>1. observations'[t] = observations[t] \union {Observed(kind, FALSE)}
    BY <1>4 DEF Observe, TypeOK
  <2> QED
    BY <2>1, <1>2 DEF Saw, Failed
<1> QED
  BY <1>3, <1>4

\* Nothing more has been observed after an action that observes nothing.
LEMMA ObservingNothing ==
  ASSUME NEW t, UNCHANGED observations
  PROVE  /\ \A k : Saw(t, k)' <=> Saw(t, k)
         /\ \A k : Failed(t, k)' <=> Failed(t, k)
BY DEF Saw, Failed

\* A run that goes on to a point where nothing is decided only owes its progress.
LEMMA GoesOn ==
  ASSUME NEW t, at'[t] \notin Closed, Undecided(t)', Progress(t)'
  PROVE  Outcome(t)'
BY DEF Outcome, Undecided, Closing, Refusing, Unknowing, Committing, Compensating, Asking,
   TerminalTransactionStates

\* Nothing is decided by an action that refuses nothing, asks nobody and queues no
\* terminal state.
LEMMA DecidesNothing ==
  ASSUME TypeOK, NEW t \in Txns, Undecided(t),
         transaction'[t] = transaction[t], receipt'[t] = receipt[t],
         refusal'[t] = refusal[t], manualRecovery'[t] = manualRecovery[t],
         Failed(t, "reconciliation")' => Failed(t, "reconciliation"),
         \A state \in TerminalTransactionStates : ~Queued(t, state)'
  PROVE  Undecided(t)'
BY DEF Undecided, Ends, HasReceipt

\* The actions before the dispatch that go on with the run.
LEMMA AdmissionGoesOn ==
  ASSUME TypeOK, NEW t \in Txns, Outcome(t),
         Preflighted(t) \/ ApprovalConsumed(t) \/ Fresh(t)
  PROVE  Outcome(t)'
<1> USE DEF Act, Tx, Ev, Write, outcome, evidence, TerminalTransactionStates
<1>1. CASE Preflighted(t)
  <2>1. /\ at[t] = "preflight" /\ at'[t] = "approve"
        /\ todo'[t] = <<Ev("action.preflighted"), Act("PREFLIGHTED"), Tx("READY"),
                        Tx("AWAITING_APPROVAL"), Act("AWAITING_APPROVAL")>>
        /\ transaction'[t] = transaction[t] /\ receipt'[t] = receipt[t]
        /\ \A name : ~Queued(t, name)
        /\ \A name : Logged(t, name)' <=> Logged(t, name)
    BY <1>1, Handling DEF Preflighted
  <2>2. \A name : Queued(t, name)' <=> name \in {"action.preflighted", "PREFLIGHTED", "READY",
                                                 "AWAITING_APPROVAL", "AWAITING_APPROVAL"}
    BY <2>1 DEF Queued, Has
  <2>3. /\ \A k : Saw(t, k)' <=> Saw(t, k) \/ k = "preflight"
        /\ \A k : Failed(t, k)' <=> Failed(t, k)
    BY <1>1, Observing DEF Preflighted
  <2>4. Undecided(t)'
    BY <1>1, <2>1, <2>2, <2>3, DecidesNothing DEF Preflighted, Outcome
  <2>5. forwardDispatchCount'[t] = forwardDispatchCount[t]
    BY <1>1 DEF Preflighted
  <2>6. Progress(t)'
    BY <2>1, <2>2, <2>3, <2>5 DEF Outcome, Progress, Nowhere, Applied, Justified
  <2> QED
    BY <2>1, <2>4, <2>6, GoesOn
<1>2. CASE ApprovalConsumed(t)
  <2>1. /\ at[t] = "approve" /\ at'[t] = "fresh"
        /\ todo'[t] = <<Ev("approval.consumed"), Act("ADMITTED"), Tx("COMMIT_REQUESTED")>>
        /\ transaction'[t] = transaction[t] /\ receipt'[t] = receipt[t]
        /\ \A name : ~Queued(t, name)
        /\ \A name : Logged(t, name)' <=> Logged(t, name)
    BY <1>2, Handling DEF ApprovalConsumed
  <2>2. \A name : Queued(t, name)' <=> name \in {"approval.consumed", "ADMITTED",
                                                 "COMMIT_REQUESTED"}
    BY <2>1 DEF Queued, Has
  <2>3. /\ \A k : Saw(t, k)' <=> Saw(t, k)
        /\ \A k : Failed(t, k)' <=> Failed(t, k)
    BY <1>2, ObservingNothing DEF ApprovalConsumed
  <2>4. Undecided(t)'
    BY <1>2, <2>1, <2>2, <2>3, DecidesNothing DEF ApprovalConsumed, Outcome
  <2>5. forwardDispatchCount'[t] = forwardDispatchCount[t]
    BY <1>2 DEF ApprovalConsumed
  <2>6. Progress(t)'
    BY <2>1, <2>2, <2>3, <2>5 DEF Outcome, Progress, Nowhere, Applied, Justified
  <2> QED
    BY <2>1, <2>4, <2>6, GoesOn
<1>3. CASE Fresh(t)
  <2>1. /\ at[t] = "fresh" /\ at'[t] = "dispatch"
        /\ todo'[t] = <<Act("SCHEDULED"), Tx("COMMITTING"), Act("DISPATCHING"),
                        Ev("action.dispatch_started")>>
        /\ transaction'[t] = transaction[t] /\ receipt'[t] = receipt[t]
        /\ \A name : ~Queued(t, name)
        /\ \A name : Logged(t, name)' <=> Logged(t, name)
    BY <1>3, Handling DEF Fresh
  <2>2. \A name : Queued(t, name)' <=> name \in {"SCHEDULED", "COMMITTING", "DISPATCHING",
                                                 "action.dispatch_started"}
    BY <2>1 DEF Queued, Has
  <2>3. /\ \A k : Saw(t, k)' <=> Saw(t, k)
        /\ \A k : Failed(t, k)' <=> Failed(t, k)
    BY <1>3, ObservingNothing DEF Fresh
  <2>4. Undecided(t)'
    BY <1>3, <2>1, <2>2, <2>3, DecidesNothing DEF Fresh, Outcome
  <2>5. forwardDispatchCount'[t] = forwardDispatchCount[t]
    BY <1>3 DEF Fresh
  <2>6. Progress(t)'
    BY <2>1, <2>2, <2>3, <2>5 DEF Outcome, Progress, Nowhere, Applied, Justified
  <2> QED
    BY <2>1, <2>4, <2>6, GoesOn
<1> QED
  BY <1>1, <1>2, <1>3

\* The actions from the dispatch to the verdict that go on with the run.
LEMMA ForwardGoesOn ==
  ASSUME TypeOK, NEW t \in Txns, Outcome(t),
         DispatchReported(t) \/ Reconciled(t) \/ VerificationFailed(t) \/ FinalizeThrows(t)
  PROVE  Outcome(t)'
<1> USE DEF Act, Tx, Ev, Write, outcome, evidence, TerminalTransactionStates
<1>1. CASE DispatchReported(t)
  <2>1. /\ at[t] = "dispatching" /\ at'[t] = "reported"
        /\ todo'[t] = <<Ev("action.dispatch_reported"), Act("REPORTED_SUCCEEDED")>>
        /\ transaction'[t] = transaction[t] /\ receipt'[t] = receipt[t]
        /\ \A name : ~Queued(t, name)
        /\ \A name : Logged(t, name)' <=> Logged(t, name)
    BY <1>1, Handling DEF DispatchReported
  <2>2. \A name : Queued(t, name)' <=> name \in {"action.dispatch_reported",
                                                 "REPORTED_SUCCEEDED"}
    BY <2>1 DEF Queued, Has
  <2>3. /\ \A k : Saw(t, k)' <=> Saw(t, k) \/ k = "dispatch"
        /\ \A k : Failed(t, k)' <=> Failed(t, k)
    BY <1>1, Observing DEF DispatchReported
  <2>4. Undecided(t)'
    BY <1>1, <2>1, <2>2, <2>3, DecidesNothing DEF DispatchReported, Outcome
  <2>5. forwardDispatchCount'[t] = forwardDispatchCount[t]
    BY <1>1 DEF DispatchReported
  <2>6. Progress(t)'
    BY <2>1, <2>2, <2>3, <2>5 DEF Outcome, Progress, Nowhere, Applied, Justified
  <2> QED
    BY <2>1, <2>4, <2>6, GoesOn
<1>2. CASE Reconciled(t)
  <2>1. /\ at[t] = "reconcile" /\ at'[t] = "reconciled"
        /\ todo'[t] = <<Ev("action.reconciled"), Act("REPORTED_SUCCEEDED"), Tx("VERIFYING")>>
        /\ transaction'[t] = transaction[t] /\ receipt'[t] = receipt[t]
        /\ \A name : ~Queued(t, name)
        /\ \A name : Logged(t, name)' <=> Logged(t, name)
    BY <1>2, Handling DEF Reconciled
  <2>2. \A name : Queued(t, name)' <=> name \in {"action.reconciled", "REPORTED_SUCCEEDED",
                                                 "VERIFYING"}
    BY <2>1 DEF Queued, Has
  <2>3. /\ \A k : Saw(t, k)' <=> Saw(t, k) \/ k = "reconciliation"
        /\ \A k : Failed(t, k)' <=> Failed(t, k)
    BY <1>2, Observing DEF Reconciled
  <2>4. Undecided(t)'
    BY <1>2, <2>1, <2>2, <2>3, DecidesNothing DEF Reconciled, Outcome
  <2>5. forwardDispatchCount'[t] = forwardDispatchCount[t]
    BY <1>2 DEF Reconciled
  <2>6. Progress(t)'
    BY <2>1, <2>2, <2>3, <2>5 DEF Outcome, Progress, Nowhere, Applied, Justified
  <2> QED
    BY <2>1, <2>4, <2>6, GoesOn
<1>3. CASE VerificationFailed(t)
  <2>1. /\ at[t] = "verify" /\ at'[t] = "plan"
        /\ todo'[t] = <<Ev("action.verified"), Act("VERIFICATION_FAILED"),
                        Tx("FAILURE_DETECTED"), Act("COMPENSATION_PLANNED"),
                        Tx("COMPENSATING")>>
        /\ transaction'[t] = transaction[t] /\ receipt'[t] = receipt[t]
        /\ \A name : ~Queued(t, name)
        /\ \A name : Logged(t, name)' <=> Logged(t, name)
    BY <1>3, Handling DEF VerificationFailed
  <2>2. \A name : Queued(t, name)' <=> name \in {"action.verified", "VERIFICATION_FAILED",
                                                 "FAILURE_DETECTED", "COMPENSATION_PLANNED",
                                                 "COMPENSATING"}
    BY <2>1 DEF Queued, Has
  <2>3. /\ \A k : Saw(t, k)' <=> Saw(t, k)
        /\ \A k : Failed(t, k)' <=> Failed(t, k) \/ k = "verification"
    BY <1>3, Observing DEF VerificationFailed
  <2>4. Undecided(t)'
    BY <1>3, <2>1, <2>2, <2>3, DecidesNothing DEF VerificationFailed, Outcome
  <2>5. forwardDispatchCount'[t] = forwardDispatchCount[t]
    BY <1>3 DEF VerificationFailed
  <2>6. Progress(t)'
    BY <2>1, <2>2, <2>3, <2>5 DEF Outcome, Progress, Nowhere, Applied, Justified
  <2> QED
    BY <2>1, <2>4, <2>6, GoesOn
<1>4. CASE FinalizeThrows(t)
  <2>1. /\ at[t] = "finalize" /\ at'[t] = "plan"
        /\ todo'[t] = <<Tx("FAILURE_DETECTED"), Ev("transaction.finalize_failed"),
                        Act("COMPENSATION_PLANNED"), Tx("COMPENSATING")>>
        /\ transaction'[t] = transaction[t] /\ receipt'[t] = receipt[t]
        /\ \A name : ~Queued(t, name)
        /\ \A name : Logged(t, name)' <=> Logged(t, name)
    BY <1>4, Handling DEF FinalizeThrows
  <2>2. \A name : Queued(t, name)' <=> name \in {"FAILURE_DETECTED",
                                                 "transaction.finalize_failed",
                                                 "COMPENSATION_PLANNED", "COMPENSATING"}
    BY <2>1 DEF Queued, Has
  <2>3. /\ \A k : Saw(t, k)' <=> Saw(t, k)
        /\ \A k : Failed(t, k)' <=> Failed(t, k)
    BY <1>4, ObservingNothing DEF FinalizeThrows
  <2>4. Undecided(t)'
    BY <1>4, <2>1, <2>2, <2>3, DecidesNothing DEF FinalizeThrows, Outcome
  <2>5. forwardDispatchCount'[t] = forwardDispatchCount[t]
    BY <1>4 DEF FinalizeThrows
  <2>6. Progress(t)'
    BY <2>1, <2>2, <2>3, <2>5 DEF Outcome, Progress, Nowhere, Applied, Justified
  <2> QED
    BY <2>1, <2>4, <2>6, GoesOn
<1> QED
  BY <1>1, <1>2, <1>3, <1>4

\* The actions of the recovery that go on with the run.
LEMMA RecoveryGoesOn ==
  ASSUME TypeOK, NEW t \in Txns, Outcome(t),
         RecoverySafe(t) \/ ExecuteRecovery(t) \/ RecoveryReported(t) \/ RecoveryReconciled(t)
  PROVE  Outcome(t)'
<1> USE DEF Act, Tx, Ev, Write, outcome, evidence, TerminalTransactionStates
<1>1. CASE RecoverySafe(t)
  <2>1. /\ at[t] = "plan" /\ at'[t] = "recover"
        /\ todo'[t] = <<Ev("recovery.planned"), Act("COMPENSATING"),
                        Ev("recovery.dispatch_started")>>
        /\ transaction'[t] = transaction[t] /\ receipt'[t] = receipt[t]
        /\ \A name : ~Queued(t, name)
        /\ \A name : Logged(t, name)' <=> Logged(t, name)
    BY <1>1, Handling DEF RecoverySafe
  <2>2. \A name : Queued(t, name)' <=> name \in {"recovery.planned", "COMPENSATING",
                                                 "recovery.dispatch_started"}
    BY <2>1 DEF Queued, Has
  <2>3. /\ \A k : Saw(t, k)' <=> Saw(t, k) \/ k = "recovery_plan"
        /\ \A k : Failed(t, k)' <=> Failed(t, k)
    BY <1>1, Observing DEF RecoverySafe
  <2>4. Undecided(t)'
    BY <1>1, <2>1, <2>2, <2>3, DecidesNothing DEF RecoverySafe, Outcome
  <2>5. forwardDispatchCount'[t] = forwardDispatchCount[t]
    BY <1>1 DEF RecoverySafe
  <2>6. Progress(t)'
    BY <2>1, <2>2, <2>3, <2>5 DEF Outcome, Progress, Nowhere, Applied, Justified
  <2> QED
    BY <2>1, <2>4, <2>6, GoesOn
<1>2. CASE ExecuteRecovery(t)
  <2>1. /\ at[t] = "recover" /\ at'[t] = "recovering" /\ todo'[t] = <<>>
        /\ transaction'[t] = transaction[t] /\ receipt'[t] = receipt[t]
        /\ \A name : ~Queued(t, name)
        /\ \A name : Logged(t, name)' <=> Logged(t, name)
    BY <1>2, Handling DEF ExecuteRecovery
  <2>2. \A name : Queued(t, name)' <=> name \in {}
    BY <2>1 DEF Queued, Has
  <2>3. /\ \A k : Saw(t, k)' <=> Saw(t, k)
        /\ \A k : Failed(t, k)' <=> Failed(t, k)
    BY <1>2, ObservingNothing DEF ExecuteRecovery
  <2>4. Undecided(t)'
    BY <1>2, <2>1, <2>2, <2>3, DecidesNothing DEF ExecuteRecovery, Outcome
  <2>5. forwardDispatchCount'[t] = forwardDispatchCount[t]
    BY <1>2 DEF ExecuteRecovery
  <2>6. Progress(t)'
    BY <2>1, <2>2, <2>3, <2>5 DEF Outcome, Progress, Nowhere, Applied, Justified
  <2> QED
    BY <2>1, <2>4, <2>6, GoesOn
<1>3. CASE RecoveryReported(t)
  <2>1. /\ at[t] = "recovering" /\ at'[t] = "recoveryReported"
        /\ todo'[t] = <<Ev("recovery.dispatched"), Act("COMPENSATION_REPORTED_SUCCEEDED")>>
        /\ transaction'[t] = transaction[t] /\ receipt'[t] = receipt[t]
        /\ \A name : ~Queued(t, name)
        /\ \A name : Logged(t, name)' <=> Logged(t, name)
    BY <1>3, Handling DEF RecoveryReported
  <2>2. \A name : Queued(t, name)' <=> name \in {"recovery.dispatched",
                                                 "COMPENSATION_REPORTED_SUCCEEDED"}
    BY <2>1 DEF Queued, Has
  <2>3. /\ \A k : Saw(t, k)' <=> Saw(t, k) \/ k = "compensation_dispatch"
        /\ \A k : Failed(t, k)' <=> Failed(t, k)
    BY <1>3, Observing DEF RecoveryReported
  <2>4. Undecided(t)'
    BY <1>3, <2>1, <2>2, <2>3, DecidesNothing DEF RecoveryReported, Outcome
  <2>5. forwardDispatchCount'[t] = forwardDispatchCount[t]
    BY <1>3 DEF RecoveryReported
  <2>6. Progress(t)'
    BY <2>1, <2>2, <2>3, <2>5 DEF Outcome, Progress, Nowhere, Applied, Justified
  <2> QED
    BY <2>1, <2>4, <2>6, GoesOn
<1>4. CASE RecoveryReconciled(t)
  <2>1. /\ at[t] = "reconcileRecovery" /\ at'[t] = "recoveryReconciled"
        /\ todo'[t] = <<Ev("recovery.reconciled"), Act("COMPENSATION_REPORTED_SUCCEEDED")>>
        /\ transaction'[t] = transaction[t] /\ receipt'[t] = receipt[t]
        /\ \A name : ~Queued(t, name)
        /\ \A name : Logged(t, name)' <=> Logged(t, name)
    BY <1>4, Handling DEF RecoveryReconciled
  <2>2. \A name : Queued(t, name)' <=> name \in {"recovery.reconciled",
                                                 "COMPENSATION_REPORTED_SUCCEEDED"}
    BY <2>1 DEF Queued, Has
  <2>3. /\ \A k : Saw(t, k)' <=> Saw(t, k) \/ k = "compensation_reconciliation"
        /\ \A k : Failed(t, k)' <=> Failed(t, k)
    BY <1>4, Observing DEF RecoveryReconciled
  <2>4. Undecided(t)'
    BY <1>4, <2>1, <2>2, <2>3, DecidesNothing DEF RecoveryReconciled, Outcome
  <2>5. forwardDispatchCount'[t] = forwardDispatchCount[t]
    BY <1>4 DEF RecoveryReconciled
  <2>6. Progress(t)'
    BY <2>1, <2>2, <2>3, <2>5 DEF Outcome, Progress, Nowhere, Applied, Justified
  <2> QED
    BY <2>1, <2>4, <2>6, GoesOn
<1> QED
  BY <1>1, <1>2, <1>3, <1>4

\* Starting the run queues its first events, and none of what comes later.
LEMMA StartGoesOn ==
  ASSUME TypeOK, NEW t \in Txns, Outcome(t), Start(t)
  PROVE  Outcome(t)'
<1>1. /\ at[t] = "idle" /\ at'[t] = "preflight"
      /\ todo'[t] = <<Ev("transaction.created"), Tx("PREFLIGHTING"), Act("PREFLIGHTING")>>
      /\ transaction'[t] = transaction[t] /\ receipt'[t] = receipt[t]
      /\ forwardDispatchCount'[t] = forwardDispatchCount[t] /\ events'[t] = events[t]
  BY DEF Start, Continue, TypeOK, states, outcome
<1>2. \A name : Queued(t, name)' <=> name \in {"transaction.created", "PREFLIGHTING"}
  BY <1>1 DEF Queued, Has, Ev, Tx, Act, Write
<1>3. \A name : Logged(t, name)' <=> Logged(t, name)
  BY <1>1 DEF Logged
<1>4. Undecided(t)'
  BY <1>1, <1>2, DecidesNothing, ObservingNothing
  DEF Start, evidence, Outcome, TerminalTransactionStates
<1>5. Progress(t)'
  BY <1>1, <1>2, <1>3 DEF Outcome, Progress, Nowhere, Applied, Justified
<1> QED
  BY <1>1, <1>4, <1>5, GoesOn

\* The request leaves from where none has left.
LEMMA DispatchGoesOn ==
  ASSUME TypeOK, NEW t \in Txns, Outcome(t), Dispatch(t)
  PROVE  Outcome(t)'
<1> USE DEF outcome, evidence
<1>1. /\ at[t] = "dispatch" /\ at'[t] = "dispatching" /\ todo'[t] = <<>>
      /\ transaction'[t] = transaction[t] /\ receipt'[t] = receipt[t]
      /\ \A name : ~Queued(t, name)
      /\ \A name : Logged(t, name)' <=> Logged(t, name)
  BY Handling DEF Dispatch
<1>2. \A name : ~Queued(t, name)'
  BY <1>1 DEF Queued, Has
<1>3. Undecided(t)'
  BY <1>1, <1>2, DecidesNothing, ObservingNothing DEF Dispatch, Outcome
<1>4. forwardDispatchCount'[t] = forwardDispatchCount[t] + 1
  BY DEF Dispatch, TypeOK
<1>5. Progress(t)'
  BY <1>1, <1>2, <1>4 DEF Outcome, Progress, Nowhere, Applied, Justified
<1> QED
  BY <1>1, <1>3, <1>5, GoesOn

\* Verification begins from a report or from a look-up that attributed the effect.
LEMMA VerifyingGoesOn ==
  ASSUME TypeOK, NEW t \in Txns, Outcome(t), BeginVerifying(t)
  PROVE  Outcome(t)'
<1> USE DEF outcome, evidence
<1> DEFINE list == (IF transaction[t] = "COMMITTING" THEN <<Tx("VERIFYING")>> ELSE <<>>)
                     \o <<Act("VERIFYING")>>
<1>1. /\ at[t] \in {"reported", "reconciled"} /\ at'[t] = "verify" /\ todo'[t] = list
      /\ transaction'[t] = transaction[t] /\ receipt'[t] = receipt[t]
      /\ \A name : Logged(t, name)' <=> Logged(t, name)
  BY Handling DEF BeginVerifying
<1>2. \A name : Queued(t, name)' => name = "VERIFYING"
  <2>1. /\ Tx("VERIFYING") \in Writes /\ Act("VERIFYING") \in Writes
        /\ Tx("VERIFYING").to = "VERIFYING" /\ Act("VERIFYING").to = "VERIFYING"
    BY WritesAreTyped, TransactionStatesListed, ActionStatesListed DEF Tx, Act, Write
  <2>2. \A a, b \in Writes :
          /\ <<b>> \in Seq(Writes) /\ Len(<<b>>) = 1 /\ <<b>>[1] = b
          /\ <<a>> \o <<b>> \in Seq(Writes) /\ Len(<<a>> \o <<b>>) = 2
          /\ (<<a>> \o <<b>>)[1] = a /\ (<<a>> \o <<b>>)[2] = b
          /\ <<>> \o <<b>> = <<b>>
    OBVIOUS
  <2>3. list \in Seq(Writes) /\ \A i \in 1 .. Len(list) : list[i].to = "VERIFYING"
    <3>1. CASE transaction[t] = "COMMITTING"
      BY <2>1, <2>2, <3>1
    <3>2. CASE transaction[t] # "COMMITTING"
      BY <2>1, <2>2, <3>2
    <3> QED
      BY <3>1, <3>2
  <2> HIDE DEF list
  <2> QED
    BY <1>1, <2>3 DEF Queued, Has
<1>3. Undecided(t)'
  BY <1>1, <1>2, DecidesNothing, ObservingNothing
  DEF BeginVerifying, Outcome, TerminalTransactionStates
<1>4. Progress(t)'
  BY <1>1, <1>2, ObservingNothing DEF BeginVerifying, Outcome, Progress, Nowhere, Applied,
     Justified
<1> QED
  BY <1>1, <1>3, <1>4, GoesOn

\* A verified action becomes VERIFIED_SUCCEEDED before finalize is called.
LEMMA VerifiedGoesOn ==
  ASSUME TypeOK, NEW t \in Txns, Outcome(t), Verified(t)
  PROVE  Outcome(t)'
<1> USE DEF outcome, Act, Ev, Write
<1>1. /\ at[t] = "verify" /\ at'[t] = "finalize"
      /\ todo'[t] = <<Ev("action.verified"), Act("VERIFIED_SUCCEEDED")>>
      /\ transaction'[t] = transaction[t] /\ receipt'[t] = receipt[t]
      /\ \A name : ~Queued(t, name)
      /\ \A name : Logged(t, name)' <=> Logged(t, name)
  BY Handling DEF Verified
<1>2. \A name : Queued(t, name)' <=> name \in {"action.verified", "VERIFIED_SUCCEEDED"}
  BY <1>1 DEF Queued, Has
<1>3. /\ \A k : Saw(t, k)' <=> Saw(t, k) \/ k = "verification"
      /\ \A k : Failed(t, k)' <=> Failed(t, k)
  BY Observing DEF Verified
<1>4. Undecided(t)'
  BY <1>1, <1>2, <1>3, DecidesNothing DEF Verified, Outcome, TerminalTransactionStates
<1>5. forwardDispatchCount'[t] = forwardDispatchCount[t] /\ finality'[t] = "VERIFIED"
  BY DEF Verified, Conclude, TypeOK
<1>6. WillBe(t, "VERIFIED_SUCCEEDED")'
  BY <1>1 DEF WillBe, ActsOnly
<1>7. Progress(t)'
  BY <1>1, <1>2, <1>3, <1>5, <1>6 DEF Outcome, Progress, Nowhere, Applied, Justified
<1> QED
  BY <1>1, <1>4, <1>7, GoesOn

\* So does the verification of a compensation.
LEMMA VerifyingRecoveryGoesOn ==
  ASSUME TypeOK, NEW t \in Txns, Outcome(t), BeginVerifyingRecovery(t)
  PROVE  Outcome(t)'
<1> USE DEF outcome, evidence
<1>1. /\ at[t] \in {"recoveryReported", "recoveryReconciled"} /\ at'[t] = "verifyRecovery"
      /\ todo'[t] = <<Act("COMPENSATION_VERIFYING"), Tx("VERIFYING_RECOVERY")>>
      /\ transaction'[t] = transaction[t] /\ receipt'[t] = receipt[t]
      /\ \A name : Logged(t, name)' <=> Logged(t, name)
  BY Handling DEF BeginVerifyingRecovery
<1>2. \A name : Queued(t, name)' <=> name \in {"COMPENSATION_VERIFYING", "VERIFYING_RECOVERY"}
  BY <1>1 DEF Queued, Has, Tx, Act, Write
<1>3. Undecided(t)'
  BY <1>1, <1>2, DecidesNothing, ObservingNothing
  DEF BeginVerifyingRecovery, Outcome, TerminalTransactionStates
<1>4. Progress(t)'
  BY <1>1, <1>2, ObservingNothing DEF BeginVerifyingRecovery, Outcome, Progress, Nowhere,
     Applied, Justified
<1> QED
  BY <1>1, <1>3, <1>4, GoesOn

-----------------------------------------------------------------------------
\* A run that refuses, with nothing sent and nothing queued to be, has its verdict.
LEMMA Refuses ==
  ASSUME NEW t, at'[t] = "finish",
         \A state \in TerminalTransactionStates : Ends(t, state)' => state \in RefusedStates,
         refusal'[t] # "none", finality'[t] = "VERIFIED",
         forwardDispatchCount'[t] = 0, Nowhere(t, "action.dispatch_started")',
         manualRecovery'[t] = "none", ~HasReceipt(t)', ~Failed(t, "reconciliation")'
  PROVE  Outcome(t)'
<1> USE DEF TerminalTransactionStates
<1>1. Progress(t)' /\ Closing(t)'
  BY DEF Progress, Nowhere, Applied, Justified, Closing
<1>2. Refusing(t)' /\ Unknowing(t)' /\ Asking(t)'
  BY DEF Refusing, Unknowing, Asking, EndsIn
<1>3. Committing(t)' /\ Compensating(t)'
  BY DEF Committing, Compensating
<1> QED
  BY <1>1, <1>2, <1>3 DEF Outcome

\* So has a run that asks a person, and says what for.
LEMMA AsksAPerson ==
  ASSUME NEW t, at'[t] = "finish",
         \A state \in TerminalTransactionStates :
           Ends(t, state)' => state = "MANUAL_RECOVERY_REQUIRED",
         refusal'[t] = "none", manualRecovery'[t] # "none", ~HasReceipt(t)',
         Failed(t, "reconciliation")' =>
           finality'[t] = "UNKNOWN" /\ WillBe(t, "OUTCOME_UNKNOWN")'
  PROVE  Outcome(t)'
<1> USE DEF TerminalTransactionStates
<1>1. Progress(t)' /\ Closing(t)'
  BY DEF Progress, Nowhere, Applied, Justified, Closing
<1>2. Refusing(t)' /\ Unknowing(t)' /\ Asking(t)'
  BY DEF Refusing, Unknowing, Asking, EndsIn
<1>3. Committing(t)' /\ Compensating(t)'
  BY DEF Committing, Compensating
<1> QED
  BY <1>1, <1>2, <1>3 DEF Outcome

\* What a run without a verdict has reached or queued after an action is what the
\* action queued.
LEMMA Decides ==
  ASSUME NEW t, Undecided(t), transaction'[t] = transaction[t], receipt'[t] = receipt[t]
  PROVE  /\ \A state \in TerminalTransactionStates : Ends(t, state)' <=> Queued(t, state)'
         /\ ~HasReceipt(t)'
BY DEF Undecided, Ends, HasReceipt

\* The three refusals come before the boundary.
LEMMA RefusalsDecide ==
  ASSUME TypeOK, NEW t \in Txns, Outcome(t),
  PreflightRejected(t) \/ ApprovalRejected(t) \/ Stale(t)
  PROVE  Outcome(t)'
<1> USE DEF Act, Tx, Ev, Write, outcome, Conclude
<1>1. CASE PreflightRejected(t)
  <2>1. /\ at[t] = "preflight" /\ at'[t] = "finish"
        /\ todo'[t] = <<Act("PREFLIGHT_REJECTED"), Tx("PREFLIGHT_FAILED"),
                        Ev("action.preflight_rejected")>>
        /\ transaction'[t] = transaction[t] /\ receipt'[t] = receipt[t]
        /\ \A name : ~Queued(t, name)
        /\ \A name : Logged(t, name)' <=> Logged(t, name)
    BY <1>1, Handling DEF PreflightRejected
  <2>2. \A name : Queued(t, name)' <=> name \in {"PREFLIGHT_REJECTED", "PREFLIGHT_FAILED",
                                                 "action.preflight_rejected"}
    BY <2>1 DEF Queued, Has
  <2>3. Undecided(t) /\ forwardDispatchCount[t] = 0 /\ Nowhere(t, "action.dispatch_started")
    BY <2>1 DEF Outcome, Progress, Nowhere, Applied, Justified
  <2>4. /\ refusal'[t] # "none" /\ finality'[t] = "VERIFIED"
        /\ forwardDispatchCount'[t] = 0 /\ manualRecovery'[t] = "none"
    BY <1>1, <2>3 DEF PreflightRejected, TypeOK, Undecided
  <2>5. ~Failed(t, "reconciliation")'
    <3>1. \A k : Failed(t, k)' <=> Failed(t, k) \/ k = "preflight-rejection"
      BY <1>1, Observing DEF PreflightRejected
    <3> QED
      BY <2>3, <3>1 DEF Undecided
  <2>6. Nowhere(t, "action.dispatch_started")'
    BY <2>1, <2>2, <2>3 DEF Nowhere
  <2> QED
    BY <2>1, <2>2, <2>3, <2>4, <2>5, <2>6, Decides, Refuses DEF TerminalTransactionStates
<1>2. CASE ApprovalRejected(t)
  <2>1. /\ at[t] = "approve" /\ at'[t] = "finish"
        /\ todo'[t] = <<Ev("approval.rejected"), Act("CANCELLED"), Tx("APPROVAL_DENIED")>>
        /\ transaction'[t] = transaction[t] /\ receipt'[t] = receipt[t]
        /\ \A name : ~Queued(t, name)
        /\ \A name : Logged(t, name)' <=> Logged(t, name)
    BY <1>2, Handling DEF ApprovalRejected
  <2>2. \A name : Queued(t, name)' <=> name \in {"approval.rejected", "CANCELLED",
                                                 "APPROVAL_DENIED"}
    BY <2>1 DEF Queued, Has
  <2>3. Undecided(t) /\ forwardDispatchCount[t] = 0 /\ Nowhere(t, "action.dispatch_started")
    BY <2>1 DEF Outcome, Progress, Nowhere, Applied, Justified
  <2>4. /\ refusal'[t] # "none" /\ finality'[t] = "VERIFIED"
        /\ forwardDispatchCount'[t] = 0 /\ manualRecovery'[t] = "none"
    BY <1>2, <2>3 DEF ApprovalRejected, TypeOK, Undecided
  <2>5. ~Failed(t, "reconciliation")'
    <3>1. \A k : Failed(t, k)' <=> Failed(t, k) \/ k = "approval-rejection"
      BY <1>2, Observing DEF ApprovalRejected
    <3> QED
      BY <2>3, <3>1 DEF Undecided
  <2>6. Nowhere(t, "action.dispatch_started")'
    BY <2>1, <2>2, <2>3 DEF Nowhere
  <2> QED
    BY <2>1, <2>2, <2>3, <2>4, <2>5, <2>6, Decides, Refuses DEF TerminalTransactionStates
<1>3. CASE Stale(t)
  <2>1. /\ at[t] = "fresh" /\ at'[t] = "finish"
        /\ todo'[t] = <<Ev("action.staleness_rejected"), Act("CANCELLED"), Tx("ABORTED")>>
        /\ transaction'[t] = transaction[t] /\ receipt'[t] = receipt[t]
        /\ \A name : ~Queued(t, name)
        /\ \A name : Logged(t, name)' <=> Logged(t, name)
    BY <1>3, Handling DEF Stale
  <2>2. \A name : Queued(t, name)' <=> name \in {"action.staleness_rejected", "CANCELLED",
                                                 "ABORTED"}
    BY <2>1 DEF Queued, Has
  <2>3. Undecided(t) /\ forwardDispatchCount[t] = 0 /\ Nowhere(t, "action.dispatch_started")
    BY <2>1 DEF Outcome, Progress, Nowhere, Applied, Justified
  <2>4. /\ refusal'[t] # "none" /\ finality'[t] = "VERIFIED"
        /\ forwardDispatchCount'[t] = 0 /\ manualRecovery'[t] = "none"
    BY <1>3, <2>3 DEF Stale, TypeOK, Undecided
  <2>5. ~Failed(t, "reconciliation")'
    <3>1. \A k : Failed(t, k)' <=> Failed(t, k) \/ k = "staleness-rejection"
      BY <1>3, Observing DEF Stale
    <3> QED
      BY <2>3, <3>1 DEF Undecided
  <2>6. Nowhere(t, "action.dispatch_started")'
    BY <2>1, <2>2, <2>3 DEF Nowhere
  <2> QED
    BY <2>1, <2>2, <2>3, <2>4, <2>5, <2>6, Decides, Refuses DEF TerminalTransactionStates
<1> QED
  BY <1>1, <1>2, <1>3

\* An answer of the provider that leaves a person to ask.
LEMMA UnresolvedDecide ==
  ASSUME TypeOK, NEW t \in Txns, Outcome(t),
         Unresolved(t) \/ RecoveryUnresolved(t) \/ RecoveryDisputed(t)
  PROVE  Outcome(t)'
<1> USE DEF Act, Tx, Ev, Write, outcome
<1>1. CASE Unresolved(t)
  <2>1. /\ at[t] = "reconcile" /\ at'[t] = "finish"
        /\ todo'[t] = <<Ev("action.reconciled"), Act("OUTCOME_UNKNOWN"),
                        Tx("MANUAL_RECOVERY_REQUIRED")>>
        /\ transaction'[t] = transaction[t] /\ receipt'[t] = receipt[t]
    BY <1>1, Handling DEF Unresolved
  <2>2. \A name : Queued(t, name)' <=> name \in {"action.reconciled", "OUTCOME_UNKNOWN",
                                                 "MANUAL_RECOVERY_REQUIRED"}
    BY <2>1 DEF Queued, Has
  <2>3. Undecided(t)
    BY <2>1 DEF Outcome
  <2>4. refusal'[t] = "none" /\ manualRecovery'[t] # "none"
    BY <1>1, <2>3 DEF Unresolved, Instruct, TypeOK, Undecided
  <2>5. finality'[t] = "UNKNOWN"
    BY <1>1 DEF Unresolved, Conclude, TypeOK
  <2>6. WillBe(t, "OUTCOME_UNKNOWN")'
    BY <2>1 DEF WillBe, ActsOnly
  <2> QED
    BY <2>1, <2>2, <2>3, <2>4, <2>5, <2>6, Decides, AsksAPerson DEF TerminalTransactionStates
<1>2. CASE RecoveryUnresolved(t)
  <2>1. /\ at[t] = "reconcileRecovery" /\ at'[t] = "finish"
        /\ todo'[t] = <<Ev("recovery.reconciled"), Act("COMPENSATION_FAILED"),
                        Tx("MANUAL_RECOVERY_REQUIRED")>>
        /\ transaction'[t] = transaction[t] /\ receipt'[t] = receipt[t]
    BY <1>2, Handling DEF RecoveryUnresolved
  <2>2. \A name : Queued(t, name)' <=> name \in {"recovery.reconciled", "COMPENSATION_FAILED",
                                                 "MANUAL_RECOVERY_REQUIRED"}
    BY <2>1 DEF Queued, Has
  <2>3. Undecided(t)
    BY <2>1 DEF Outcome
  <2>4. refusal'[t] = "none" /\ manualRecovery'[t] # "none"
    BY <1>2, <2>3 DEF RecoveryUnresolved, Instruct, TypeOK, Undecided
  <2>5. ~Failed(t, "reconciliation")'
    BY <1>2, <2>3, Observing DEF RecoveryUnresolved, Undecided
  <2> QED
    BY <2>1, <2>2, <2>3, <2>4, <2>5, Decides, AsksAPerson DEF TerminalTransactionStates
<1>3. CASE RecoveryDisputed(t)
  <2>1. /\ at[t] = "verifyRecovery" /\ at'[t] = "finish"
        /\ todo'[t] = <<Ev("recovery.verified"), Act("COMPENSATION_FAILED"),
                        Tx("MANUAL_RECOVERY_REQUIRED")>>
        /\ transaction'[t] = transaction[t] /\ receipt'[t] = receipt[t]
    BY <1>3, Handling DEF RecoveryDisputed
  <2>2. \A name : Queued(t, name)' <=> name \in {"recovery.verified", "COMPENSATION_FAILED",
                                                 "MANUAL_RECOVERY_REQUIRED"}
    BY <2>1 DEF Queued, Has
  <2>3. Undecided(t)
    BY <2>1 DEF Outcome
  <2>4. refusal'[t] = "none" /\ manualRecovery'[t] # "none"
    BY <1>3, <2>3 DEF RecoveryDisputed, Instruct, TypeOK, Undecided
  <2>5. ~Failed(t, "reconciliation")'
    BY <1>3, <2>3, Observing DEF RecoveryDisputed, Undecided
  <2> QED
    BY <2>1, <2>2, <2>3, <2>4, <2>5, Decides, AsksAPerson DEF TerminalTransactionStates
<1> QED
  BY <1>1, <1>2, <1>3

\* The ledger keeps what it had, and adds at most what was queued.
Journaled(t) ==
  /\ \A name : Logged(t, name) => Logged(t, name)'
  /\ \A name : Logged(t, name)' => Logged(t, name) \/ Queued(t, name)

\* An error of the dispatch, or of the journal after it, is reconciled or reported.
LEMMA DispatchCatchKeeps ==
  ASSUME TypeOK, NEW t \in Txns, Outcome(t), at[t] \in {"dispatching", "reported"},
         NEW error, DispatchCatch(t, error), Journaled(t),
         UNCHANGED <<states, forwardDispatchCount, observations, refusal, receipt>>
  PROVE  Outcome(t)'
<1> USE DEF Act, Tx, Ev, Write, states
<1>1. Undecided(t) /\ transaction'[t] = transaction[t] /\ receipt'[t] = receipt[t]
  BY DEF Outcome
<1>2. ~Failed(t, "reconciliation")'
  BY <1>1, ObservingNothing DEF Undecided
<1>3. CASE OutcomeUnknown(error)
  <2>1. /\ at'[t] = "reconcile"
        /\ todo'[t] = <<Act("OUTCOME_UNKNOWN"), Tx("RECONCILING"), Act("RECONCILING")>>
        /\ manualRecovery'[t] = manualRecovery[t]
    BY <1>3 DEF DispatchCatch, Continue, TypeOK
  <2>2. \A name : Queued(t, name)' <=> name \in {"OUTCOME_UNKNOWN", "RECONCILING"}
    BY <2>1 DEF Queued, Has
  <2>3. Undecided(t)'
    BY <1>1, <1>2, <2>1, <2>2, DecidesNothing DEF TerminalTransactionStates
  <2>4. ~Queued(t, "VERIFIED_COMMITTED")
    BY <1>1 DEF Undecided, Ends, TerminalTransactionStates
  <2>5. Progress(t)'
    BY <2>1, <2>2, <2>4 DEF Journaled, Outcome, Progress, Nowhere, Applied, Justified
  <2> QED
    BY <2>1, <2>3, <2>5, GoesOn
<1>4. CASE ~OutcomeUnknown(error)
  <2>1. /\ at'[t] = "finish"
        /\ todo'[t] = <<Act("PROVIDER_REJECTED"), Tx("FAILURE_DETECTED"),
                        Tx("MANUAL_RECOVERY_REQUIRED")>>
        /\ manualRecovery'[t] # "none"
    BY <1>4 DEF DispatchCatch, Continue, Instruct, TypeOK
  <2>2. \A name : Queued(t, name)' <=>
          name \in {"PROVIDER_REJECTED", "FAILURE_DETECTED", "MANUAL_RECOVERY_REQUIRED"}
    BY <2>1 DEF Queued, Has
  <2>3. refusal'[t] = "none"
    BY <1>1 DEF Undecided
  <2> QED
    BY <1>1, <1>2, <2>1, <2>2, <2>3, Decides, AsksAPerson DEF TerminalTransactionStates
<1> QED
  BY <1>3, <1>4

\* So is an error of the compensation's dispatch.
LEMMA RecoveryCatchKeeps ==
  ASSUME TypeOK, NEW t \in Txns, Outcome(t), at[t] \in {"recovering", "recoveryReported"},
         NEW error, RecoveryCatch(t, error), Journaled(t),
         UNCHANGED <<states, forwardDispatchCount, observations, refusal, receipt>>
  PROVE  Outcome(t)'
<1> USE DEF Act, Tx, Ev, Write, states
<1>1. Undecided(t) /\ transaction'[t] = transaction[t] /\ receipt'[t] = receipt[t]
  BY DEF Outcome
<1>2. ~Failed(t, "reconciliation")'
  BY <1>1, ObservingNothing DEF Undecided
<1>3. CASE OutcomeUnknown(error)
  <2>1. /\ at'[t] = "reconcileRecovery"
        /\ todo'[t] = <<Act("COMPENSATION_UNKNOWN"), Act("COMPENSATION_RECONCILING")>>
        /\ manualRecovery'[t] = manualRecovery[t]
    BY <1>3 DEF RecoveryCatch, OutcomeUnknown, Continue, TypeOK
  <2>2. \A name : Queued(t, name)' <=> name \in {"COMPENSATION_UNKNOWN",
                                                 "COMPENSATION_RECONCILING"}
    BY <2>1 DEF Queued, Has
  <2>3. Undecided(t)'
    BY <1>1, <1>2, <2>1, <2>2, DecidesNothing DEF TerminalTransactionStates
  <2>4. ~Queued(t, "VERIFIED_COMMITTED")
    BY <1>1 DEF Undecided, Ends, TerminalTransactionStates
  <2>5. Progress(t)'
    BY <2>1, <2>2, <2>4, ObservingNothing DEF Journaled, Outcome, Progress, Nowhere, Applied,
       Justified
  <2> QED
    BY <2>1, <2>3, <2>5, GoesOn
<1>4. CASE ~OutcomeUnknown(error)
  <2>1. /\ at'[t] = "finish"
        /\ \/ todo'[t] = <<Act("COMPENSATION_BLOCKED"), Tx("MANUAL_RECOVERY_REQUIRED")>>
           \/ todo'[t] = <<Act("COMPENSATION_FAILED"), Tx("MANUAL_RECOVERY_REQUIRED")>>
        /\ manualRecovery'[t] # "none"
    BY <1>4 DEF RecoveryCatch, Continue, Instruct, TypeOK
  <2>2. \A name : Queued(t, name)' =>
          name \in {"COMPENSATION_BLOCKED", "COMPENSATION_FAILED", "MANUAL_RECOVERY_REQUIRED"}
    BY <2>1 DEF Queued, Has
  <2>3. refusal'[t] = "none"
    BY <1>1 DEF Undecided
  <2> QED
    BY <1>1, <1>2, <2>1, <2>2, <2>3, Decides, AsksAPerson DEF TerminalTransactionStates
<1> QED
  BY <1>3, <1>4

\* A run is committed on what it has observed, once finalize has been called and
\* has not thrown an error.
LEMMA FinalizedDecides ==
  ASSUME TypeOK, NEW t \in Txns, Outcome(t), Finalized(t) \/ FinalizeThrowsUndefined(t)
  PROVE  Outcome(t)'
<1>1. /\ at[t] = "finalize" /\ at'[t] = "finish" /\ todo'[t] = <<Tx("VERIFIED_COMMITTED")>>
      /\ transaction'[t] = transaction[t] /\ action'[t] = action[t] /\ receipt'[t] = receipt[t]
      /\ \A name : ~Queued(t, name)
      /\ \A name : Logged(t, name)' <=> Logged(t, name)
  BY Handling DEF Finalized, FinalizeThrowsUndefined, outcome
<1>2. \A name : Queued(t, name)' <=> name = "VERIFIED_COMMITTED"
  BY <1>1 DEF Queued, Has, Tx, Write
<1>3. /\ Undecided(t) /\ Applied(t) /\ Saw(t, "verification") /\ finality[t] = "VERIFIED"
      /\ forwardDispatchCount[t] = 1 /\ WillBe(t, "VERIFIED_SUCCEEDED")
      /\ Nowhere(t, "recovery.planned")
  BY <1>1 DEF Outcome, Progress, Nowhere, Applied, Justified
<1>4. todo[t] = <<>>
  BY DEF Finalized, FinalizeThrowsUndefined, Awaits
<1>5. action'[t] = "VERIFIED_SUCCEEDED" /\ ActsOnly(t, {})'
  <2>1. action[t] = "VERIFIED_SUCCEEDED"
    BY <1>3, <1>4 DEF WillBe
  <2>2. \A i \in DOMAIN todo'[t] : todo'[t][i].kind = "transaction"
    BY <1>1 DEF Tx, Write
  <2> QED
    BY <1>1, <2>1, <2>2 DEF ActsOnly
<1>6. /\ \A k : Saw(t, k)' <=> Saw(t, k)
      /\ \A k : Failed(t, k)' <=> Failed(t, k)
  BY ObservingNothing DEF Finalized, FinalizeThrowsUndefined
<1>7. /\ refusal'[t] = refusal[t] /\ manualRecovery'[t] = manualRecovery[t]
      /\ finality'[t] = finality[t] /\ forwardDispatchCount'[t] = forwardDispatchCount[t]
      /\ finalize'[t] \in {"returned", "threw undefined"}
  BY DEF Finalized, FinalizeThrowsUndefined, evidence, TypeOK
<1>8. /\ \A state \in TerminalTransactionStates : Ends(t, state)' <=> state = "VERIFIED_COMMITTED"
      /\ ~HasReceipt(t)'
  BY <1>1, <1>2, <1>3, Decides
<1>9. Committing(t)'
  BY <1>1, <1>2, <1>3, <1>5, <1>6, <1>7 DEF Committing, Applied, Nowhere
<1>10. Progress(t)' /\ Closing(t)'
  BY <1>1, <1>8 DEF Progress, Nowhere, Applied, Justified, Closing
<1>11. Refusing(t)' /\ Unknowing(t)' /\ Asking(t)' /\ Compensating(t)'
  BY <1>3, <1>6, <1>7, <1>8
  DEF Undecided, Refusing, Unknowing, Asking, Compensating, EndsIn, TerminalTransactionStates
<1> QED
  BY <1>1, <1>9, <1>10, <1>11 DEF Outcome

\* A run is compensated on what it has observed of the effect and of its undoing.
LEMMA RecoveryVerifiedDecides ==
  ASSUME TypeOK, NEW t \in Txns, Outcome(t), RecoveryVerified(t)
  PROVE  Outcome(t)'
<1> USE DEF Act, Ev, Tx, Write, outcome
<1>1. /\ at[t] = "verifyRecovery" /\ at'[t] = "finish"
      /\ todo'[t] = <<Ev("recovery.verified"), Act("VERIFIED_COMPENSATED"),
                      Tx("VERIFIED_COMPENSATED")>>
      /\ transaction'[t] = transaction[t] /\ receipt'[t] = receipt[t]
      /\ \A name : ~Queued(t, name)
      /\ \A name : Logged(t, name)' <=> Logged(t, name)
  BY Handling DEF RecoveryVerified
<1>2. \A name : Queued(t, name)' <=> name \in {"recovery.verified", "VERIFIED_COMPENSATED"}
  BY <1>1 DEF Queued, Has
<1>3. /\ Undecided(t) /\ Applied(t) /\ Justified(t) /\ Saw(t, "recovery_plan")
      /\ Logged(t, "recovery.dispatch_started") /\ ~Logged(t, "VERIFIED_COMMITTED")
  BY <1>1 DEF Outcome, Progress, Nowhere, Applied, Justified
<1>4. /\ \A k : Saw(t, k)' <=> Saw(t, k) \/ k = "recovery_verification"
      /\ \A k : Failed(t, k)' <=> Failed(t, k)
  BY Observing DEF RecoveryVerified
<1>5. /\ refusal'[t] = refusal[t] /\ manualRecovery'[t] = manualRecovery[t]
  BY DEF RecoveryVerified
<1>6. /\ \A state \in TerminalTransactionStates : Ends(t, state)' <=> state = "VERIFIED_COMPENSATED"
      /\ ~HasReceipt(t)'
  BY <1>1, <1>2, <1>3, Decides DEF TerminalTransactionStates
<1>7. Compensating(t)'
  BY <1>1, <1>2, <1>3, <1>4 DEF Compensating, Applied, Justified, Nowhere
<1>8. Progress(t)' /\ Closing(t)'
  BY <1>1, <1>6 DEF Progress, Nowhere, Applied, Justified, Closing
<1>9. Refusing(t)' /\ Unknowing(t)' /\ Asking(t)' /\ Committing(t)'
  BY <1>3, <1>4, <1>5, <1>6
  DEF Undecided, Refusing, Unknowing, Asking, Committing, EndsIn, TerminalTransactionStates
<1> QED
  BY <1>1, <1>7, <1>8, <1>9 DEF Outcome

\* A plan that is not safe decides the verdict before the instruction is there.
LEMMA RecoveryUnsafeDecides ==
  ASSUME TypeOK, NEW t \in Txns, Outcome(t), RecoveryUnsafe(t)
  PROVE  Outcome(t)'
<1> USE DEF Act, Ev, Tx, Write, outcome, evidence
<1>1. /\ at[t] = "plan" /\ at'[t] = "observe"
      /\ todo'[t] = <<Ev("recovery.planned"), Act("COMPENSATION_BLOCKED"),
                      Tx("MANUAL_RECOVERY_REQUIRED")>>
      /\ transaction'[t] = transaction[t] /\ receipt'[t] = receipt[t]
      /\ \A name : ~Queued(t, name)
      /\ \A name : Logged(t, name)' <=> Logged(t, name)
  BY Handling DEF RecoveryUnsafe
<1>2. \A name : Queued(t, name)' <=>
        name \in {"recovery.planned", "COMPENSATION_BLOCKED", "MANUAL_RECOVERY_REQUIRED"}
  BY <1>1 DEF Queued, Has
<1>3. /\ Undecided(t) /\ Applied(t) /\ forwardDispatchCount[t] = 1
      /\ ~Logged(t, "VERIFIED_COMMITTED")
  BY <1>1 DEF Outcome, Progress, Nowhere, Applied, Justified
<1>4. /\ \A k : Saw(t, k)' <=> Saw(t, k)
      /\ \A k : Failed(t, k)' <=> Failed(t, k) \/ k = "recovery_plan"
  BY Observing DEF RecoveryUnsafe
<1>5. /\ refusal'[t] = refusal[t] /\ manualRecovery'[t] = manualRecovery[t]
      /\ forwardDispatchCount'[t] = forwardDispatchCount[t]
  BY DEF RecoveryUnsafe
<1>6. /\ \A state \in TerminalTransactionStates :
           Ends(t, state)' <=> state = "MANUAL_RECOVERY_REQUIRED"
      /\ ~HasReceipt(t)'
  BY <1>1, <1>2, <1>3, Decides DEF TerminalTransactionStates
<1>7. Progress(t)'
  BY <1>1, <1>3, <1>4, <1>5 DEF Progress, Nowhere, Applied, Justified
<1>8. Closing(t)' /\ Asking(t)'
  BY <1>1, <1>3, <1>4, <1>5, <1>6 DEF Undecided, Closing, Asking, EndsIn
<1>9. Refusing(t)' /\ Unknowing(t)' /\ Committing(t)' /\ Compensating(t)'
  BY <1>3, <1>4, <1>5, <1>6
  DEF Undecided, Refusing, Unknowing, Committing, Compensating, TerminalTransactionStates
<1> QED
  BY <1>1, <1>7, <1>8, <1>9 DEF Outcome

\* The instruction follows, and the verdict stays.
LEMMA BlockedObservedDecides ==
  ASSUME TypeOK, NEW t \in Txns, Outcome(t), BlockedObserved(t)
  PROVE  Outcome(t)'
<1>1. /\ at[t] = "observe" /\ at'[t] = "finish" /\ todo'[t] = <<>>
      /\ transaction'[t] = transaction[t] /\ receipt'[t] = receipt[t]
      /\ \A name : ~Queued(t, name)
  BY Handling DEF BlockedObserved, outcome
<1>2. \A name : ~Queued(t, name)'
  BY <1>1 DEF Queued, Has
<1>3. refusal'[t] = "none" /\ manualRecovery'[t] # "none"
  BY <1>1 DEF BlockedObserved, Instruct, TypeOK, Outcome, Closing
<1>4. ~Failed(t, "reconciliation")' /\ ~HasReceipt(t)'
  BY <1>1, ObservingNothing DEF BlockedObserved, Outcome, Closing, HasReceipt
<1>5. \A state \in TerminalTransactionStates : Ends(t, state)' => state = "MANUAL_RECOVERY_REQUIRED"
  BY <1>1, <1>2 DEF Outcome, Closing, EndsIn, Ends
<1> QED
  BY <1>1, <1>3, <1>4, <1>5, AsksAPerson

-----------------------------------------------------------------------------
\* The last steps write events and leave the verdict alone.
LEMMA Closes ==
  ASSUME NEW t \in Txns, Outcome(t), at[t] \in {"finish", "sign", "return"}, todo[t] = <<>>,
         at'[t] \in {"sign", "return", "returned"},
         transaction[t] \in TerminalTransactionStates,
         transaction'[t] = transaction[t], action'[t] = action[t],
         events'[t] = events[t], OnlyEvents(t)',
         \A name : Queued(t, name)' => name \in {"transaction.terminal", "receipt.issued"},
         HasReceipt(t)' => /\ at'[t] \in {"return", "returned"}
                           /\ receipt'[t].finalStatus = transaction[t]
                           /\ receipt'[t].actionStatus = action[t]
                           /\ receipt'[t].finality = finality[t]
                           /\ receipt'[t].manualRecovery = manualRecovery[t],
         UNCHANGED <<forwardDispatchCount, observations, evidence, finalize>>
  PROVE  Outcome(t)'
<1> USE DEF evidence, TerminalTransactionStates
<1>1. \A name : Logged(t, name)' <=> Logged(t, name)
  BY DEF Logged
<1>2. /\ \A k : Saw(t, k)' <=> Saw(t, k)
      /\ \A k : Failed(t, k)' <=> Failed(t, k)
  BY ObservingNothing
<1>3. \A state \in TerminalTransactionStates : Ends(t, state)' => Ends(t, state)
  BY DEF Ends
<1>4. \A S : ActsOnly(t, S)'
  BY DEF ActsOnly, OnlyEvents
<1>5. Progress(t)' /\ Closing(t)'
  BY DEF Progress, Nowhere, Applied, Justified, Closing
<1>6. Refusing(t)'
  BY <1>1, <1>3 DEF Outcome, Refusing, EndsIn, Nowhere
<1>7. Unknowing(t)'
  <2>1. WillBe(t, "OUTCOME_UNKNOWN") => action[t] = "OUTCOME_UNKNOWN"
    BY DEF WillBe
  <2> QED
    BY <1>2, <1>3, <1>4, <2>1 DEF Outcome, Unknowing, EndsIn, WillBe
<1>8. Committing(t)'
  <2>1. ActsOnly(t, {})'
    BY <1>4
  <2>2. Ends(t, "VERIFIED_COMMITTED")' => Ends(t, "VERIFIED_COMMITTED")
    BY <1>3
  <2>3. Nowhere(t, "recovery.planned") => Nowhere(t, "recovery.planned")'
    BY <1>1 DEF Nowhere
  <2> QED
    BY <1>2, <2>1, <2>2, <2>3 DEF Outcome, Committing, Applied
<1>9. Compensating(t)'
  BY <1>1, <1>2, <1>3 DEF Outcome, Compensating, Applied, Justified, Nowhere
<1>10. Asking(t)'
  BY <1>3 DEF Outcome, Asking, EndsIn
<1> QED
  BY <1>5, <1>6, <1>7, <1>8, <1>9, <1>10 DEF Outcome

\* The terminal event, the receipt and the result.
LEMMA FinishingCloses ==
  ASSUME TypeOK, NEW t \in Txns, Outcome(t), FinishResult(t) \/ SignReceipt(t) \/ Return(t)
  PROVE  Outcome(t)'
<1> USE DEF Ev, Write, Awaits, Continue, states, outcome, TypeOK
<1>1. CASE FinishResult(t)
  <2>1. /\ at[t] = "finish" /\ todo[t] = <<>> /\ at'[t] = "sign"
        /\ todo'[t] = <<Ev("transaction.terminal")>>
        /\ transaction[t] \in TerminalTransactionStates
        /\ transaction'[t] = transaction[t] /\ action'[t] = action[t]
        /\ receipt'[t] = receipt[t] /\ events'[t] = events[t]
    BY <1>1 DEF FinishResult
  <2>2. OnlyEvents(t)' /\ \A name : Queued(t, name)' => name = "transaction.terminal"
    BY <2>1 DEF OnlyEvents, Queued, Has
  <2>3. ~HasReceipt(t)'
    BY <2>1 DEF Outcome, Closing, HasReceipt
  <2> QED
    BY <1>1, <2>1, <2>2, <2>3, Closes DEF FinishResult
<1>2. CASE SignReceipt(t)
  <2>1. /\ at[t] = "sign" /\ todo[t] = <<>> /\ at'[t] = "return"
        /\ todo'[t] = <<Ev("receipt.issued")>>
        /\ transaction'[t] = transaction[t] /\ action'[t] = action[t]
        /\ events'[t] = events[t]
    BY <1>2 DEF SignReceipt
  <2>2. OnlyEvents(t)' /\ \A name : Queued(t, name)' => name = "receipt.issued"
    BY <2>1 DEF OnlyEvents, Queued, Has
  <2>3. /\ receipt'[t].finalStatus = transaction[t] /\ receipt'[t].actionStatus = action[t]
        /\ receipt'[t].finality = finality[t] /\ receipt'[t].manualRecovery = manualRecovery[t]
    BY <1>2 DEF SignReceipt
  <2>4. transaction[t] \in TerminalTransactionStates
    BY <2>1 DEF Outcome, Closing
  <2> QED
    BY <1>2, <2>1, <2>2, <2>3, <2>4, Closes DEF SignReceipt
<1>3. CASE Return(t)
  <2>1. /\ at[t] = "return" /\ todo[t] = <<>> /\ at'[t] = "returned" /\ todo'[t] = <<>>
        /\ transaction'[t] = transaction[t] /\ action'[t] = action[t]
        /\ receipt'[t] = receipt[t] /\ events'[t] = events[t]
    BY <1>3 DEF Return
  <2>2. OnlyEvents(t)' /\ \A name : ~Queued(t, name)'
    BY <2>1 DEF OnlyEvents, Queued, Has
  <2>3. transaction[t] \in TerminalTransactionStates
    BY <2>1 DEF Outcome, Closing
  <2>4. HasReceipt(t)' => /\ receipt'[t].finalStatus = transaction[t]
                          /\ receipt'[t].actionStatus = action[t]
                          /\ receipt'[t].finality = finality[t]
                          /\ receipt'[t].manualRecovery = manualRecovery[t]
    BY <2>1 DEF Outcome, Closing, HasReceipt
  <2> QED
    BY <1>3, <2>1, <2>2, <2>3, <2>4, Closes DEF Return
<1> QED
  BY <1>1, <1>2, <1>3

-----------------------------------------------------------------------------
\* An event that is stored is the head of the queue.
LEMMA StoringJournals ==
  ASSUME TypeOK, NEW t \in Txns, todo[t] # <<>>, Store(t, Head(todo[t]))
  PROVE  /\ \A name : Logged(t, name)' <=> Logged(t, name) \/ Head(todo[t]).to = name
         /\ Queued(t, Head(todo[t]).to)
         /\ Journaled(t)
<1> DEFINE w == Head(todo[t])
           e == [kind |-> w.kind, from |-> Current(t, w.kind), to |-> w.to]
<1>1. /\ w \in Writes /\ events[t] \in Seq(Events) /\ todo[t] \in Seq(Writes)
      /\ 1 \in DOMAIN todo[t] /\ todo[t][1] = w
  BY DEF TypeOK
<1>2. e \in Events
  <2>1. /\ w.kind \in {"transaction", "action", "event"}
        /\ w.to \in TransactionStates \union ActionStates \union EventTypes
    BY <1>1 DEF Writes
  <2>2. Current(t, w.kind) \in TransactionStates \union ActionStates \union {"none"}
    BY <2>1 DEF Current, TypeOK
  <2> QED
    BY <2>1, <2>2 DEF Events
<1>3. events'[t] = Append(events[t], e)
  BY DEF Store, TypeOK
<1>4. \A name : Logged(t, name)' <=> Logged(t, name) \/ w.to = name
  <2>1. \A name : Has(Append(events[t], e), name) <=> Has(events[t], name) \/ e.to = name
    BY <1>1, <1>2, AppendHas
  <2> QED
    BY <1>3, <2>1 DEF Logged
<1>5. Queued(t, w.to)
  BY <1>1 DEF Queued, Has
<1> QED
  BY <1>4, <1>5 DEF Journaled

\* Making a write only takes it off the queue.
LEMMA AppendEventTakes ==
  ASSUME TypeOK, NEW t \in Txns, AppendEvent(t)
  PROVE  /\ \A name : Queued(t, name)' => Queued(t, name)
         /\ \A name : Queued(t, name) => Queued(t, name)' \/ Logged(t, name)'
         /\ \A name : Ends(t, name)' => Ends(t, name)
         /\ \A name : Nowhere(t, name) => Nowhere(t, name)'
         /\ \A S : ActsOnly(t, S) => ActsOnly(t, S)' /\ (action'[t] = action[t] \/ action'[t] \in S)
         /\ \A state : WillBe(t, state) => WillBe(t, state)'
         /\ OnlyEvents(t) => /\ OnlyEvents(t)'
                             /\ transaction'[t] = transaction[t] /\ action'[t] = action[t]
         /\ Journaled(t)
<1> DEFINE w == Head(todo[t])
<1>1. /\ todo[t] # <<>> /\ todo[t] \in Seq(Writes) /\ Store(t, w)
      /\ todo'[t] = Tail(todo[t])
      /\ transaction'[t] = IF w.kind = "transaction" THEN w.to ELSE transaction[t]
      /\ action'[t] = IF w.kind = "action" THEN w.to ELSE action[t]
  BY DEF AppendEvent, TypeOK
<1>2. /\ \A name : Logged(t, name)' <=> Logged(t, name) \/ w.to = name
      /\ Queued(t, w.to) /\ Journaled(t)
  BY <1>1, StoringJournals
<1>3. /\ \A i \in DOMAIN todo'[t] : i + 1 \in DOMAIN todo[t] /\ todo'[t][i] = todo[t][i + 1]
      /\ \A i \in DOMAIN todo[t] :
           todo[t][i] = w \/ (i - 1 \in DOMAIN todo'[t] /\ todo'[t][i - 1] = todo[t][i])
      /\ 1 \in DOMAIN todo[t] /\ todo[t][1] = w
  BY <1>1
<1> HIDE DEF w
<1>4. \A name : Queued(t, name)' => Queued(t, name)
  BY <1>3 DEF Queued, Has
<1>5. \A name : Queued(t, name) => Queued(t, name)' \/ w.to = name
  BY <1>3 DEF Queued, Has
<1>6. \A name : Ends(t, name)' => Ends(t, name)
  BY <1>1, <1>2, <1>4 DEF Ends
<1>7. \A name : Nowhere(t, name) => Nowhere(t, name)'
  BY <1>2, <1>4 DEF Nowhere
<1>8. \A S : ActsOnly(t, S) => ActsOnly(t, S)' /\ (action'[t] = action[t] \/ action'[t] \in S)
  BY <1>1, <1>3 DEF ActsOnly
<1>9. ASSUME NEW state, WillBe(t, state)
      PROVE  WillBe(t, state)'
  <2>1. ActsOnly(t, {state})' /\ (action'[t] = action[t] \/ action'[t] = state)
    BY <1>8, <1>9 DEF WillBe
  <2>2. CASE action[t] = state
    BY <2>1, <2>2 DEF WillBe
  <2>3. CASE w = Act(state)
    BY <1>1, <2>1, <2>3 DEF WillBe, Act, Write
  <2>4. CASE \E i \in DOMAIN todo[t] : todo[t][i] = Act(state) /\ w # Act(state)
    BY <1>3, <2>1, <2>4 DEF WillBe
  <2> QED
    BY <1>9, <2>2, <2>3, <2>4 DEF WillBe
<1>10. OnlyEvents(t) => /\ OnlyEvents(t)'
                        /\ transaction'[t] = transaction[t] /\ action'[t] = action[t]
  BY <1>1, <1>3 DEF OnlyEvents
<1> QED
  BY <1>2, <1>4, <1>5, <1>6, <1>7, <1>8, <1>9, <1>10

\* Making a write keeps what holds of the run.
LEMMA AppendEventKeeps ==
  ASSUME TypeOK, NEW t \in Txns, Outcome(t), AppendEvent(t)
  PROVE  Outcome(t)'
<1>1. /\ at'[t] = at[t] /\ receipt'[t] = receipt[t]
      /\ forwardDispatchCount'[t] = forwardDispatchCount[t] /\ finality'[t] = finality[t]
      /\ refusal'[t] = refusal[t] /\ manualRecovery'[t] = manualRecovery[t]
      /\ finalize'[t] = finalize[t]
  BY DEF AppendEvent, evidence, outcome
<1>2. /\ \A k : Saw(t, k)' <=> Saw(t, k)
      /\ \A k : Failed(t, k)' <=> Failed(t, k)
  BY ObservingNothing DEF AppendEvent
<1>3. HasReceipt(t)' <=> HasReceipt(t)
  BY <1>1 DEF HasReceipt
<1>4. /\ \A name : Logged(t, name) => Logged(t, name)'
      /\ \A name : Logged(t, name)' => Logged(t, name) \/ Queued(t, name)
  BY AppendEventTakes DEF Journaled
<1>5. at[t] \notin Closed => Undecided(t)'
  BY <1>1, <1>2, <1>3, AppendEventTakes DEF Outcome, Undecided
<1>6. Progress(t)'
  <2>1. /\ at[t] \in Before => Nowhere(t, "action.dispatch_started")'
        /\ at[t] \in Trying => Nowhere(t, "recovery.planned")'
        /\ at[t] = "finalize" =>
             Saw(t, "verification") /\ finality[t] = "VERIFIED" /\ WillBe(t, "VERIFIED_SUCCEEDED")'
    BY AppendEventTakes DEF Outcome, Progress
  <2>2. at[t] \notin Ending => ~Queued(t, "VERIFIED_COMMITTED")
    BY DEF Outcome, Closing, Undecided, EndsIn, Ends, TerminalTransactionStates
  <2>3. Justified(t) => Justified(t)'
    BY <1>2, <1>4 DEF Justified
  <2>4. at[t] = "plan" => Justified(t)' \/ Queued(t, "transaction.finalize_failed")'
    BY <2>3, AppendEventTakes DEF Outcome, Progress, Justified
  <2>5. at[t] = "recover" => \/ Logged(t, "recovery.dispatch_started")'
                             \/ Queued(t, "recovery.dispatch_started")'
    BY <1>4, AppendEventTakes DEF Outcome, Progress
  <2> QED
    BY <1>1, <1>2, <1>4, <2>1, <2>2, <2>3, <2>4, <2>5 DEF Outcome, Progress, Applied
<1>7. Closing(t)'
  BY <1>1, <1>2, <1>3, AppendEventTakes DEF Outcome, Closing, EndsIn
<1>8. Refusing(t)'
  BY <1>1, AppendEventTakes DEF Outcome, Refusing, EndsIn
<1>9. Unknowing(t)'
  BY <1>1, <1>2, <1>3, AppendEventTakes DEF Outcome, Unknowing, EndsIn
<1>10. Committing(t)'
  <2>1. ActsOnly(t, {}) => ActsOnly(t, {})' /\ action'[t] = action[t]
    BY AppendEventTakes
  <2>2. /\ Ends(t, "VERIFIED_COMMITTED")' => Ends(t, "VERIFIED_COMMITTED")
        /\ Nowhere(t, "recovery.planned") => Nowhere(t, "recovery.planned")'
    BY AppendEventTakes
  <2> QED
    BY <1>1, <1>2, <2>1, <2>2 DEF Outcome, Committing, Applied
<1>11. Compensating(t)'
  BY <1>1, <1>2, <1>4, AppendEventTakes DEF Outcome, Compensating, Applied, Justified
<1>12. Asking(t)'
  BY <1>1, <1>3, AppendEventTakes DEF Outcome, Asking, EndsIn
<1> QED
  BY <1>1, <1>5, <1>6, <1>7, <1>8, <1>9, <1>10, <1>11, <1>12 DEF Outcome

-----------------------------------------------------------------------------
\* A run that throws drops its queue, and with it a verdict it had not reached.
LEMMA ThrowKeeps ==
  ASSUME TypeOK, NEW t \in Txns, Outcome(t), NEW cause, Throw(t, cause), Journaled(t),
         UNCHANGED <<states, forwardDispatchCount, observations, evidence, receipt, finalize>>
  PROVE  Outcome(t)'
<1> USE DEF evidence, states
<1>1. at'[t] = "threw" /\ todo'[t] = <<>>
  BY DEF Throw, Continue, TypeOK
<1>2. \A name : ~Queued(t, name)'
  BY <1>1 DEF Queued, Has
<1>3. /\ \A k : Saw(t, k)' <=> Saw(t, k)
      /\ \A k : Failed(t, k)' <=> Failed(t, k)
  BY ObservingNothing
<1>4. \A name : Ends(t, name)' => Ends(t, name)
  BY <1>2 DEF Ends
<1>5. \A name : Nowhere(t, name) => Nowhere(t, name)'
  BY <1>2 DEF Nowhere, Journaled
<1>6. OnlyEvents(t)' /\ \A S : ActsOnly(t, S)'
  BY <1>1 DEF OnlyEvents, ActsOnly
<1>7. HasReceipt(t)' <=> HasReceipt(t)
  BY DEF HasReceipt
<1>8. Progress(t)'
  BY <1>1 DEF Progress, Nowhere, Applied, Justified
<1>9. Closing(t)'
  BY <1>1, <1>6, <1>7 DEF Outcome, Closing
<1>10. Refusing(t)'
  BY <1>4, <1>5 DEF Outcome, Refusing, EndsIn
<1>11. Unknowing(t)'
  <2>1. ASSUME HasReceipt(t), WillBe(t, "OUTCOME_UNKNOWN")
        PROVE  WillBe(t, "OUTCOME_UNKNOWN")'
    <3>1. OnlyEvents(t)
      BY <2>1 DEF Outcome, Closing
    <3>2. action[t] = "OUTCOME_UNKNOWN"
      BY <2>1, <3>1 DEF WillBe, OnlyEvents, Act, Write
    <3> QED
      BY <1>6, <3>2 DEF WillBe
  <2> QED
    BY <1>1, <1>3, <1>4, <1>7, <2>1 DEF Outcome, Unknowing, EndsIn
<1>12. Committing(t)'
  BY <1>3, <1>4, <1>5, <1>6 DEF Outcome, Committing, Applied
<1>13. Compensating(t)'
  BY <1>3, <1>4, <1>5 DEF Outcome, Compensating, Applied, Justified, Journaled
<1>14. Asking(t)'
  BY <1>1, <1>4, <1>7 DEF Outcome, Asking, EndsIn
<1> QED
  BY <1>1, <1>8, <1>9, <1>10, <1>11, <1>12, <1>13, <1>14 DEF Outcome

\* An error raised while the journal is written is caught, or ends the run.
LEMMA RaiseKeeps ==
  ASSUME TypeOK, NEW t \in Txns, Outcome(t), NEW error, NEW cause, Raise(t, error, cause),
         Journaled(t),
         UNCHANGED <<states, forwardDispatchCount, observations, refusal, receipt, finalize>>
  PROVE  Outcome(t)'
<1>1. CASE at[t] = "reported" /\ DispatchCatch(t, error)
  BY <1>1, DispatchCatchKeeps
<1>2. CASE at[t] = "recoveryReported" /\ RecoveryCatch(t, error)
  BY <1>2, RecoveryCatchKeeps
<1>3. CASE Throw(t, cause) /\ UNCHANGED <<finality, manualRecovery>>
  BY <1>3, ThrowKeeps DEF evidence
<1> QED
  BY <1>1, <1>2, <1>3 DEF Raise

\* Every failure of an append, an adapter call or the input keeps what holds.
LEMMA FailuresKeep ==
  ASSUME TypeOK, NEW t \in Txns, Outcome(t),
         \/ IllegalTransition(t) \/ (\E fault \in LedgerFaults : AppendThrows(t, fault))
         \/ LedgerReadThrows(t) \/ AdapterThrows(t) \/ ApprovalThrows(t) \/ InputThrows(t)
  PROVE  Outcome(t)'
<1>1. UNCHANGED events => Journaled(t)
  BY DEF Journaled, Logged
<1>2. CASE IllegalTransition(t)
  BY <1>1, <1>2, RaiseKeeps DEF IllegalTransition
<1>3. CASE \E fault \in LedgerFaults : AppendThrows(t, fault)
  <2>1. PICK fault \in LedgerFaults : AppendThrows(t, fault)
    BY <1>3
  <2>2. Journaled(t)
    BY <1>1, <2>1, StoringJournals DEF AppendThrows
  <2>3. Raise(t, fault.error, "ledger")
    BY <2>1 DEF AppendThrows
  <2>4. UNCHANGED <<states, forwardDispatchCount, observations, refusal, receipt, finalize>>
    BY <2>1 DEF AppendThrows
  <2> QED
    BY <2>2, <2>3, <2>4, RaiseKeeps
<1>4. CASE LedgerReadThrows(t)
  BY <1>1, <1>4, ThrowKeeps DEF LedgerReadThrows
<1>5. CASE AdapterThrows(t)
  BY <1>1, <1>5, ThrowKeeps DEF AdapterThrows
<1>6. CASE ApprovalThrows(t)
  BY <1>1, <1>6, ThrowKeeps DEF ApprovalThrows
<1>7. CASE InputThrows(t)
  BY <1>1, <1>7, ThrowKeeps DEF InputThrows
<1> QED
  BY <1>2, <1>3, <1>4, <1>5, <1>6, <1>7

\* The catch clauses around the two dispatches.
LEMMA DispatchErrorsKeep ==
  ASSUME TypeOK, NEW t \in Txns, Outcome(t),
         \/ \E error \in DispatchErrors : DispatchThrows(t, error)
         \/ \E error \in RecoveryErrors : RecoveryThrows(t, error)
  PROVE  Outcome(t)'
<1>1. UNCHANGED events => Journaled(t)
  BY DEF Journaled, Logged
<1>2. CASE \E error \in DispatchErrors : DispatchThrows(t, error)
  <2>1. PICK error : DispatchThrows(t, error)
    BY <1>2
  <2>2. /\ at[t] = "dispatching" /\ DispatchCatch(t, error)
        /\ UNCHANGED <<states, forwardDispatchCount, observations, refusal, receipt, events>>
    BY <2>1 DEF DispatchThrows, Awaits, outcome
  <2> QED
    BY <1>1, <2>2, DispatchCatchKeeps
<1>3. CASE \E error \in RecoveryErrors : RecoveryThrows(t, error)
  <2>1. PICK error : RecoveryThrows(t, error)
    BY <1>3
  <2>2. /\ at[t] = "recovering" /\ RecoveryCatch(t, error)
        /\ UNCHANGED <<states, forwardDispatchCount, observations, refusal, receipt, events>>
    BY <2>1 DEF RecoveryThrows, Awaits, outcome
  <2> QED
    BY <1>1, <2>2, RecoveryCatchKeeps
<1> QED
  BY <1>2, <1>3

-----------------------------------------------------------------------------
\* What is known of a run depends on the run's own state only.
Untouched(u) ==
  /\ at'[u] = at[u] /\ todo'[u] = todo[u] /\ events'[u] = events[u]
  /\ transaction'[u] = transaction[u] /\ action'[u] = action[u]
  /\ forwardDispatchCount'[u] = forwardDispatchCount[u]
  /\ observations'[u] = observations[u] /\ finality'[u] = finality[u]
  /\ refusal'[u] = refusal[u] /\ manualRecovery'[u] = manualRecovery[u]
  /\ receipt'[u] = receipt[u] /\ thrown'[u] = thrown[u] /\ finalize'[u] = finalize[u]

\* So it stays when that state does.
LEMMA UntouchedKeeps ==
  ASSUME NEW u, Outcome(u), Untouched(u)
  PROVE  Outcome(u)'
<1> USE DEF Untouched
<1>1. /\ \A name : Queued(u, name)' <=> Queued(u, name)
      /\ \A name : Logged(u, name)' <=> Logged(u, name)
  BY DEF Queued, Logged
<1>2. /\ \A k : Saw(u, k)' <=> Saw(u, k)
      /\ \A k : Failed(u, k)' <=> Failed(u, k)
  BY DEF Saw, Failed
<1>3. /\ \A name : Ends(u, name)' <=> Ends(u, name)
      /\ \A name : Nowhere(u, name)' <=> Nowhere(u, name)
  BY <1>1 DEF Ends, Nowhere
<1>4. /\ OnlyEvents(u)' <=> OnlyEvents(u)
      /\ \A S : ActsOnly(u, S)' <=> ActsOnly(u, S)
      /\ \A state : WillBe(u, state)' <=> WillBe(u, state)
  BY DEF OnlyEvents, ActsOnly, WillBe
<1>5. /\ HasReceipt(u)' <=> HasReceipt(u)
      /\ \A S : EndsIn(u, S)' <=> EndsIn(u, S)
      /\ Applied(u)' <=> Applied(u)
      /\ Justified(u)' <=> Justified(u)
  BY <1>1, <1>2, <1>3 DEF HasReceipt, EndsIn, Applied, Justified
<1>6. Undecided(u)' <=> Undecided(u)
  BY <1>2, <1>3, <1>5 DEF Undecided
<1>7. Progress(u)'
  BY <1>1, <1>2, <1>3, <1>4, <1>5 DEF Outcome, Progress
<1>8. Closing(u)' /\ Refusing(u)'
  BY <1>2, <1>3, <1>4, <1>5 DEF Outcome, Closing, Refusing
<1>9. Unknowing(u)'
  BY <1>2, <1>4, <1>5 DEF Outcome, Unknowing
<1>10. Committing(u)'
  BY <1>2, <1>3, <1>4, <1>5 DEF Outcome, Committing
<1>11. Compensating(u)' /\ Asking(u)'
  BY <1>1, <1>2, <1>3, <1>5 DEF Outcome, Compensating, Asking
<1> QED
  BY <1>6, <1>7, <1>8, <1>9, <1>10, <1>11 DEF Outcome

\* A step of one run does not touch another.
LEMMA OthersUntouched ==
  ASSUME TypeOK, NEW t \in Txns, NEW u \in Txns, u # t,
         Start(t) \/ InputThrows(t) \/ Run(t)
  PROVE  Untouched(u)
<1> USE DEF TypeOK, Untouched, states, evidence, outcome, Continue, Observe, Conclude,
  Instruct, Throw
<1>1. CASE Start(t) \/ InputThrows(t) \/ AdapterThrows(t)
  BY <1>1 DEF Start, InputThrows, AdapterThrows
<1>2. CASE Admission(t)
  BY <1>2 DEF Admission, PreflightRejected, Preflighted, ApprovalRejected, ApprovalConsumed,
     ApprovalThrows, Stale, Fresh
<1>3. ASSUME NEW error, DispatchCatch(t, error)
      PROVE  /\ at'[u] = at[u] /\ todo'[u] = todo[u] /\ finality'[u] = finality[u]
             /\ manualRecovery'[u] = manualRecovery[u]
  BY <1>3 DEF DispatchCatch
<1>4. ASSUME NEW error, RecoveryCatch(t, error)
      PROVE  /\ at'[u] = at[u] /\ todo'[u] = todo[u]
             /\ manualRecovery'[u] = manualRecovery[u]
  BY <1>4 DEF RecoveryCatch
<1>5. CASE Forward(t)
  <2>1. CASE \E error \in DispatchErrors : DispatchThrows(t, error)
    BY <1>3, <2>1 DEF DispatchThrows
  <2>2. CASE Dispatch(t) \/ DispatchReported(t) \/ Reconciled(t) \/ Unresolved(t)
    BY <2>2 DEF Dispatch, DispatchReported, Reconciled, Unresolved
  <2>3. CASE BeginVerifying(t) \/ Verified(t) \/ VerificationFailed(t)
    BY <2>3 DEF BeginVerifying, Verified, VerificationFailed
  <2>4. CASE Finalized(t) \/ FinalizeThrows(t) \/ FinalizeThrowsUndefined(t)
    BY <2>4 DEF Finalized, FinalizeThrows, FinalizeThrowsUndefined
  <2> QED
    BY <1>5, <2>1, <2>2, <2>3, <2>4 DEF Forward
<1>6. CASE Recovery(t)
  <2>1. CASE \E error \in RecoveryErrors : RecoveryThrows(t, error)
    BY <1>4, <2>1 DEF RecoveryThrows
  <2>2. CASE RecoveryUnsafe(t) \/ BlockedObserved(t) \/ RecoverySafe(t) \/ ExecuteRecovery(t)
    BY <2>2 DEF RecoveryUnsafe, BlockedObserved, RecoverySafe, ExecuteRecovery
  <2>3. CASE RecoveryReported(t) \/ RecoveryReconciled(t) \/ RecoveryUnresolved(t)
    BY <2>3 DEF RecoveryReported, RecoveryReconciled, RecoveryUnresolved
  <2>4. CASE BeginVerifyingRecovery(t) \/ RecoveryVerified(t) \/ RecoveryDisputed(t)
    BY <2>4 DEF BeginVerifyingRecovery, RecoveryVerified, RecoveryDisputed
  <2> QED
    BY <1>6, <2>1, <2>2, <2>3, <2>4 DEF Recovery
<1>7. CASE Journal(t)
  <2>1. ASSUME NEW error, NEW cause, Raise(t, error, cause)
        PROVE  /\ at'[u] = at[u] /\ todo'[u] = todo[u] /\ finality'[u] = finality[u]
               /\ manualRecovery'[u] = manualRecovery[u] /\ thrown'[u] = thrown[u]
    BY <1>3, <1>4, <2>1 DEF Raise
  <2>2. CASE AppendEvent(t)
    BY <2>2 DEF AppendEvent, Store
  <2>3. CASE IllegalTransition(t)
    BY <2>1, <2>3 DEF IllegalTransition
  <2>4. CASE \E fault \in LedgerFaults : AppendThrows(t, fault)
    BY <2>1, <2>4 DEF AppendThrows, Store
  <2>5. CASE FinishResult(t) \/ SignReceipt(t) \/ Return(t) \/ LedgerReadThrows(t)
    BY <2>5 DEF FinishResult, SignReceipt, Return, LedgerReadThrows
  <2> QED
    BY <1>7, <2>2, <2>3, <2>4, <2>5 DEF Journal
<1> QED
  BY <1>1, <1>2, <1>5, <1>6, <1>7 DEF Run

\* A step of a run keeps what holds of it.
LEMMA OwnStepKeeps ==
  ASSUME TypeOK, NEW t \in Txns, Outcome(t), Start(t) \/ InputThrows(t) \/ Run(t)
  PROVE  Outcome(t)'
<1>1. CASE Start(t) \/ InputThrows(t) \/ AdapterThrows(t)
  BY <1>1, StartGoesOn, FailuresKeep
<1>2. CASE Admission(t)
  BY <1>2, AdmissionGoesOn, RefusalsDecide, FailuresKeep DEF Admission
<1>3. CASE Forward(t)
  BY <1>3, ForwardGoesOn, DispatchGoesOn, VerifyingGoesOn, VerifiedGoesOn, DispatchErrorsKeep,
     UnresolvedDecide, FinalizedDecides DEF Forward
<1>4. CASE Recovery(t)
  BY <1>4, RecoveryGoesOn, VerifyingRecoveryGoesOn, DispatchErrorsKeep, UnresolvedDecide,
     RecoveryVerifiedDecides, RecoveryUnsafeDecides, BlockedObservedDecides DEF Recovery
<1>5. CASE Journal(t)
  BY <1>5, AppendEventKeeps, FailuresKeep, FinishingCloses DEF Journal
<1> QED
  BY <1>1, <1>2, <1>3, <1>4, <1>5 DEF Run

-----------------------------------------------------------------------------
\* A run that was not started has no verdict.
LEMMA InitOutcome == Init => OutcomeInv
<1> SUFFICES ASSUME Init
             PROVE  OutcomeInv
  OBVIOUS
<1>1. TypeOK
  BY InitIsTyped
<1>2. ASSUME NEW t \in Txns
      PROVE  Outcome(t)
  <2>1. /\ at[t] = "idle" /\ todo[t] = <<>> /\ events[t] = <<>> /\ transaction[t] = "DRAFT"
        /\ forwardDispatchCount[t] = 0 /\ observations[t] = {}
        /\ refusal[t] = "none" /\ manualRecovery[t] = "none" /\ receipt[t] = NoReceipt
    BY <1>2 DEF Init
  <2>2. \A name : ~Queued(t, name) /\ ~Logged(t, name)
    BY <2>1 DEF Queued, Logged, Has
  <2>3. Undecided(t)
    BY <2>1, <2>2 DEF Undecided, Ends, HasReceipt, Failed, TerminalTransactionStates
  <2>4. Progress(t)
    BY <2>1, <2>2 DEF Progress, Nowhere, Applied, Justified
  <2>5. Closing(t)
    BY <2>1, <2>3 DEF Closing, Undecided
  <2> QED
    BY <2>3, <2>4, <2>5 DEF Outcome, Undecided, Refusing, Unknowing, Committing, Compensating,
       Asking, TerminalTransactionStates
<1> QED
  BY <1>1, <1>2 DEF OutcomeInv

\* No step of any run breaks what holds of one.
LEMMA StepOutcome == OutcomeInv /\ [Next]_vars => OutcomeInv'
<1> SUFFICES ASSUME OutcomeInv, [Next]_vars
             PROVE  OutcomeInv'
  OBVIOUS
<1>1. TypeOK /\ TypeOK' /\ \A t \in Txns : Outcome(t)
  BY StepIsTyped DEF OutcomeInv
<1>2. CASE UNCHANGED vars
  <2>1. \A t \in Txns : Untouched(t)
    BY <1>2 DEF vars, Untouched
  <2> QED
    BY <1>1, <2>1, UntouchedKeeps DEF OutcomeInv
<1>3. ASSUME NEW t \in Txns, Start(t) \/ InputThrows(t) \/ Run(t)
      PROVE  OutcomeInv'
  <2>1. Outcome(t)'
    BY <1>1, <1>3, OwnStepKeeps
  <2>2. ASSUME NEW u \in Txns, u # t
        PROVE  Outcome(u)'
    BY <1>1, <1>3, <2>2, OthersUntouched, UntouchedKeeps
  <2> QED
    BY <1>1, <2>1, <2>2 DEF OutcomeInv
<1> QED
  BY <1>2, <1>3 DEF Next

\* What holds of every run at the start holds of it for good.
LEMMA OutcomeInvariant == Spec => []OutcomeInv
BY InitOutcome, StepOutcome, PTL DEF Spec

-----------------------------------------------------------------------------
\* A run that run() ends before the dispatch boundary (preflight, approval or
\* staleness refused it) never sent anything, whichever append fails.
THEOREM RefusedNeverSent == Spec => []RefusedIsNotSent
<1>1. OutcomeInv => RefusedIsNotSent
  <2> SUFFICES ASSUME OutcomeInv, NEW t \in Txns,
                      refusal[t] # "none" \/ transaction[t] \in RefusedStates
               PROVE  /\ forwardDispatchCount[t] = 0
                      /\ ~Logged(t, "action.dispatch_started")
                      /\ HasReceipt(t) => /\ FinalStatus(t) \in RefusedStates
                                          /\ receipt[t].finality = "VERIFIED"
    BY DEF RefusedIsNotSent
  <2>1. Refusing(t) /\ Closing(t)
    BY DEF OutcomeInv, Outcome
  <2>2. refusal[t] # "none"
    BY <2>1 DEF Refusing, Ends
  <2> QED
    BY <2>1, <2>2 DEF Refusing, Closing, EndsIn, Ends, Nowhere, FinalStatus
<1> QED
  BY <1>1, OutcomeInvariant, PTL

\* A signed receipt says VERIFIED_COMMITTED only of one dispatch, attributed to its
\* transaction and read back, with no compensation planned and no finalize error.
THEOREM CommittedOnEvidence == Spec => []CommittedIsVerified
<1>1. OutcomeInv => CommittedIsVerified
  BY DEF OutcomeInv, Outcome, Closing, Committing, Ends, Applied, Nowhere, FinalStatus,
     CommittedIsVerified
<1> QED
  BY <1>1, OutcomeInvariant, PTL

\* executeRecovery is called only for an effect known to be applied, that failed its
\* verification or its finalize, on a safe plan, once the ledger says so.
THEOREM CompensatedOnEvidence == Spec => []CompensationIsJustified
<1>1. OutcomeInv => CompensationIsJustified
  <2> SUFFICES ASSUME OutcomeInv, NEW t \in Txns,
                      at[t] \in Undoing \/ transaction[t] = "VERIFIED_COMPENSATED"
               PROVE  /\ Applied(t) /\ Justified(t) /\ Saw(t, "recovery_plan")
                      /\ Logged(t, "recovery.dispatch_started")
                      /\ ~Logged(t, "VERIFIED_COMMITTED")
    BY DEF CompensationIsJustified, Applied, Justified, Failed
  <2>1. Progress(t) /\ Compensating(t)
    BY DEF OutcomeInv, Outcome
  <2>2. CASE at[t] \in Undoing
    BY <2>1, <2>2 DEF Progress
  <2>3. CASE transaction[t] = "VERIFIED_COMPENSATED"
    BY <2>1, <2>3 DEF Compensating, Ends, Nowhere
  <2> QED
    BY <2>2, <2>3
<1> QED
  BY <1>1, OutcomeInvariant, PTL

\* After a reconciliation without evidence run() verifies, plans and undoes nothing,
\* and its receipt says OUTCOME_UNKNOWN, finality UNKNOWN and asks a person.
THEOREM UnknownStaysUnknown == Spec => []UnknownIsNeverGuessed
<1>1. OutcomeInv => UnknownIsNeverGuessed
  <2> SUFFICES ASSUME OutcomeInv, NEW t \in Txns, Failed(t, "reconciliation")
               PROVE  /\ at[t] \in Ending
                      /\ HasReceipt(t) => /\ FinalStatus(t) = "MANUAL_RECOVERY_REQUIRED"
                                          /\ receipt[t].finality = "UNKNOWN"
                                          /\ receipt[t].actionStatus = "OUTCOME_UNKNOWN"
                                          /\ EffectMayHaveCommitted(t)
    BY DEF UnknownIsNeverGuessed, Failed
  <2>1. Outcome(t)
    BY DEF OutcomeInv
  <2>2. at[t] \in Ending
    BY <2>1 DEF Outcome, Undecided, Closing
  <2>3. ASSUME HasReceipt(t)
        PROVE  /\ FinalStatus(t) = "MANUAL_RECOVERY_REQUIRED"
               /\ receipt[t].finality = "UNKNOWN" /\ action[t] = "OUTCOME_UNKNOWN"
               /\ receipt[t].actionStatus = "OUTCOME_UNKNOWN"
    <3>1. /\ EndsIn(t, {"MANUAL_RECOVERY_REQUIRED"}) /\ finality[t] = "UNKNOWN"
          /\ WillBe(t, "OUTCOME_UNKNOWN")
      BY <2>1, <2>3 DEF Outcome, Unknowing
    <3>2. /\ OnlyEvents(t) /\ transaction[t] \in TerminalTransactionStates
          /\ receipt[t].finalStatus = transaction[t] /\ receipt[t].finality = finality[t]
          /\ receipt[t].actionStatus = action[t]
      BY <2>1, <2>3 DEF Outcome, Closing
    <3>3. action[t] = "OUTCOME_UNKNOWN"
      BY <3>1, <3>2 DEF WillBe, OnlyEvents, Act, Write
    <3> QED
      BY <3>1, <3>2, <3>3 DEF EndsIn, Ends, FinalStatus
  <2> QED
    BY <2>2, <2>3 DEF EffectMayHaveCommitted
<1> QED
  BY <1>1, OutcomeInvariant, PTL

\* A receipt of finishResult carries an instruction exactly when its status is
\* MANUAL_RECOVERY_REQUIRED, and a compensated one has its verification.
THEOREM PersonIsAsked == Spec => []ManualRecoveryIsExplained
<1>1. OutcomeInv => ManualRecoveryIsExplained
  <2> SUFFICES ASSUME OutcomeInv, NEW t \in Txns, HasReceipt(t)
               PROVE  /\ FinalStatus(t) = "MANUAL_RECOVERY_REQUIRED"
                           <=> receipt[t].manualRecovery # "none"
                      /\ FinalStatus(t) = "VERIFIED_COMPENSATED" => Saw(t, "recovery_verification")
    BY DEF ManualRecoveryIsExplained
  <2>1. /\ transaction[t] \in TerminalTransactionStates
        /\ receipt[t].finalStatus = transaction[t]
        /\ receipt[t].manualRecovery = manualRecovery[t]
    BY DEF OutcomeInv, Outcome, Closing
  <2>2. Asking(t) /\ Compensating(t)
    BY DEF OutcomeInv, Outcome
  <2> QED
    BY <2>1, <2>2 DEF Asking, Compensating, EndsIn, Ends, FinalStatus
<1> QED
  BY <1>1, OutcomeInvariant, PTL
-----------------------------------------------------------------------------
(***************************************************************************)
(* What the ledger says, proved: LedgerVerdictsAreTrue, of runs that throw *)
(* too.  As long as a run goes on, a terminal state the ledger names is    *)
(* the one the transaction is in, and OutcomeInv says what had happened;   *)
(* only the write that made run() throw may be stored and not assigned,    *)
(* and it was queued, so OutcomeInv speaks of it as well.                  *)
(***************************************************************************)

\* What the endings of a run rest on, where it has come to them or has them queued.
CommitHolds(t) ==
  /\ forwardDispatchCount[t] = 1
  /\ Applied(t) /\ Saw(t, "verification")
  /\ ~Logged(t, "recovery.planned")
  /\ finalize[t] \notin {"not called", "threw"}

CompensationHolds(t) ==
  Logged(t, "recovery.dispatch_started") /\ Saw(t, "recovery_verification")

\* What the ledger of one run may say.
Truthful(t) ==
  /\ Reached(t, "VERIFIED_COMMITTED") => CommitHolds(t)
  /\ Reached(t, "VERIFIED_COMPENSATED") =>
       CompensationHolds(t) /\ ~Reached(t, "VERIFIED_COMMITTED")
  /\ \A state \in RefusedStates : Reached(t, state) => forwardDispatchCount[t] = 0
  /\ thrown[t] = "adapter" =>
       \A state \in TerminalTransactionStates :
         Reached(t, state) => state = "MANUAL_RECOVERY_REQUIRED"

Testimony(t) ==
  /\ at[t] # "threw" =>
       /\ \A state \in TerminalTransactionStates : Reached(t, state) => transaction[t] = state
       /\ thrown[t] # "adapter"
  /\ at[t] = "threw" => todo[t] = <<>> /\ Truthful(t)

TestimonyInv == OutcomeInv /\ \A t \in Txns : Testimony(t)

\* The endings a run has come to, or has queued, are true of it.
LEMMA EndingsHold ==
  ASSUME NEW t, Outcome(t)
  PROVE  /\ Ends(t, "VERIFIED_COMMITTED") => CommitHolds(t) /\ ~Queued(t, "recovery.planned")
         /\ Ends(t, "VERIFIED_COMPENSATED") =>
              CompensationHolds(t) /\ Nowhere(t, "VERIFIED_COMMITTED")
         /\ \A state \in RefusedStates : Ends(t, state) => forwardDispatchCount[t] = 0
BY DEF Outcome, Committing, Compensating, Refusing, Nowhere, CommitHolds, CompensationHolds

\* A state the ledger says was reached is logged.
LEMMA ReachedIsLogged ==
  ASSUME NEW t, NEW state, Reached(t, state)
  PROVE  Logged(t, state)
BY DEF Reached, Logged, Has

\* A run that goes on has a truthful ledger.
LEMMA GoingOnIsTruthful ==
  ASSUME NEW t, Outcome(t), Testimony(t), at[t] # "threw"
  PROVE  Truthful(t)
<1>1. \A state \in TerminalTransactionStates : Reached(t, state) => Ends(t, state)
  BY DEF Testimony, Ends
<1>2. Reached(t, "VERIFIED_COMMITTED") => CommitHolds(t)
  BY <1>1, EndingsHold DEF TerminalTransactionStates
<1>3. Reached(t, "VERIFIED_COMPENSATED") =>
        CompensationHolds(t) /\ ~Reached(t, "VERIFIED_COMMITTED")
  BY <1>1, EndingsHold, ReachedIsLogged DEF TerminalTransactionStates, Nowhere
<1>4. \A state \in RefusedStates : Reached(t, state) => forwardDispatchCount[t] = 0
  BY <1>1, EndingsHold DEF TerminalTransactionStates
<1> QED
  BY <1>2, <1>3, <1>4 DEF Truthful, Testimony

\* A stored state change is one the ledger says was reached.
LEMMA StoringReaches ==
  ASSUME TypeOK, NEW t \in Txns, todo[t] # <<>>, Store(t, Head(todo[t]))
  PROVE  \A state : Reached(t, state)' <=>
           \/ Reached(t, state)
           \/ (Head(todo[t]).kind = "transaction" /\ Head(todo[t]).to = state)
<1> DEFINE w == Head(todo[t])
           e == [kind |-> w.kind, from |-> Current(t, w.kind), to |-> w.to]
<1>1. /\ events[t] \in Seq(Events) /\ events'[t] = Append(events[t], e)
      /\ e.kind = w.kind /\ e.to = w.to
  BY DEF Store, TypeOK
<1> HIDE DEF e
<1>2. /\ Len(events'[t]) = Len(events[t]) + 1 /\ events'[t][Len(events[t]) + 1] = e
      /\ \A i \in DOMAIN events[t] : events'[t][i] = events[t][i]
      /\ DOMAIN events[t] = 1 .. Len(events[t]) /\ DOMAIN events'[t] = 1 .. Len(events[t]) + 1
      /\ Len(events[t]) \in Nat
  BY <1>1
<1>3. \A i \in DOMAIN events'[t] : i \in DOMAIN events[t] \/ i = Len(events[t]) + 1
  BY <1>2
<1>4. /\ DOMAIN events[t] \subseteq DOMAIN events'[t]
      /\ Len(events[t]) + 1 \in DOMAIN events'[t]
  BY <1>2
<1> QED
  BY <1>1, <1>2, <1>3, <1>4 DEF Reached

\* A run that goes on, with its transaction and its ledger as they were.
Unspoken(t) ==
  /\ at[t] # "threw" /\ at'[t] # "threw"
  /\ transaction'[t] = transaction[t] /\ thrown'[t] = thrown[t] /\ events'[t] = events[t]

\* It has nothing new to tell.
LEMMA UnspokenTestifies ==
  ASSUME NEW t, Testimony(t), Unspoken(t)
  PROVE  Testimony(t)'
BY DEF Unspoken, Testimony, Reached

\* A handler of the admission or of the way forward is quiet.
LEMMA ForwardIsQuiet ==
  ASSUME TypeOK, NEW t \in Txns,
         \/ Start(t) \/ PreflightRejected(t) \/ Preflighted(t)
         \/ ApprovalRejected(t) \/ ApprovalConsumed(t) \/ Stale(t) \/ Fresh(t)
         \/ Dispatch(t) \/ DispatchReported(t) \/ Reconciled(t) \/ Unresolved(t)
         \/ BeginVerifying(t) \/ Verified(t) \/ VerificationFailed(t)
         \/ Finalized(t) \/ FinalizeThrows(t) \/ FinalizeThrowsUndefined(t)
         \/ \E error \in DispatchErrors : DispatchThrows(t, error)
  PROVE  Unspoken(t)
<1> USE DEF Unspoken, TypeOK, states, outcome, Awaits, Continue
<1>1. CASE Start(t) \/ PreflightRejected(t) \/ Preflighted(t)
  BY <1>1 DEF Start, PreflightRejected, Preflighted
<1>2. CASE ApprovalRejected(t) \/ ApprovalConsumed(t) \/ Stale(t) \/ Fresh(t)
  BY <1>2 DEF ApprovalRejected, ApprovalConsumed, Stale, Fresh
<1>3. CASE Dispatch(t) \/ DispatchReported(t) \/ Reconciled(t) \/ Unresolved(t)
  BY <1>3 DEF Dispatch, DispatchReported, Reconciled, Unresolved
<1>4. CASE BeginVerifying(t) \/ Verified(t) \/ VerificationFailed(t)
  BY <1>4 DEF BeginVerifying, Verified, VerificationFailed
<1>5. CASE Finalized(t) \/ FinalizeThrows(t) \/ FinalizeThrowsUndefined(t)
  BY <1>5 DEF Finalized, FinalizeThrows, FinalizeThrowsUndefined
<1>6. CASE \E error \in DispatchErrors : DispatchThrows(t, error)
  BY <1>6 DEF DispatchThrows, DispatchCatch
<1> QED
  BY <1>1, <1>2, <1>3, <1>4, <1>5, <1>6

\* So is a handler of the recovery or of finishResult.
LEMMA RecoveryIsQuiet ==
  ASSUME TypeOK, NEW t \in Txns,
         Recovery(t) \/ FinishResult(t) \/ SignReceipt(t) \/ Return(t)
  PROVE  Unspoken(t)
<1> USE DEF Unspoken, TypeOK, states, outcome, Awaits, Continue
<1>1. CASE RecoveryUnsafe(t) \/ BlockedObserved(t) \/ RecoverySafe(t) \/ ExecuteRecovery(t)
  BY <1>1 DEF RecoveryUnsafe, BlockedObserved, RecoverySafe, ExecuteRecovery
<1>2. CASE RecoveryReported(t) \/ RecoveryReconciled(t) \/ RecoveryUnresolved(t)
  BY <1>2 DEF RecoveryReported, RecoveryReconciled, RecoveryUnresolved
<1>3. CASE BeginVerifyingRecovery(t) \/ RecoveryVerified(t) \/ RecoveryDisputed(t)
  BY <1>3 DEF BeginVerifyingRecovery, RecoveryVerified, RecoveryDisputed
<1>4. CASE \E error \in RecoveryErrors : RecoveryThrows(t, error)
  BY <1>4 DEF RecoveryThrows, RecoveryCatch
<1>5. CASE FinishResult(t) \/ SignReceipt(t) \/ Return(t)
  BY <1>5 DEF FinishResult, SignReceipt, Return
<1> QED
  BY <1>1, <1>2, <1>3, <1>4, <1>5 DEF Recovery

\* A write that is made moves the transaction to the state it stores, and a terminal
\* state is left by no write.
LEMMA AppendEventTestifies ==
  ASSUME TypeOK, NEW t \in Txns, Testimony(t), AppendEvent(t)
  PROVE  Testimony(t)'
<1> DEFINE w == Head(todo[t])
<1>1. /\ todo[t] # <<>> /\ Store(t, w) /\ at'[t] = at[t] /\ thrown'[t] = thrown[t]
      /\ w.kind = "transaction" => TransactionMayMove(transaction[t], w.to)
      /\ transaction'[t] = IF w.kind = "transaction" THEN w.to ELSE transaction[t]
  BY DEF AppendEvent, Allowed, TypeOK, outcome
<1>2. \A state : Reached(t, state)' <=>
        Reached(t, state) \/ (w.kind = "transaction" /\ w.to = state)
  BY <1>1, StoringReaches
<1>3. at[t] # "threw"
  BY <1>1 DEF Testimony
<1>4. w.kind = "transaction" => transaction[t] \notin TerminalTransactionStates
  BY <1>1 DEF TransactionMayMove, TransactionTransitions, TerminalTransactionStates
<1> HIDE DEF w
<1>5. ASSUME NEW state \in TerminalTransactionStates, Reached(t, state)'
      PROVE  transaction'[t] = state
  <2>1. CASE Reached(t, state)
    BY <1>1, <1>3, <1>4, <2>1 DEF Testimony
  <2>2. CASE w.kind = "transaction" /\ w.to = state
    BY <1>1, <2>2
  <2> QED
    BY <1>2, <1>5, <2>1, <2>2
<1> QED
  BY <1>1, <1>3, <1>5 DEF Testimony

\* A run that throws leaves what it had, and perhaps the write it was at.
LEMMA ThrowTestifies ==
  ASSUME TypeOK, NEW t \in Txns, Outcome(t), Testimony(t), at[t] # "threw",
         NEW cause, Throw(t, cause), Journaled(t),
         \A state : Reached(t, state)' => Reached(t, state) \/ Queued(t, state),
         cause = "adapter" =>
           \A state \in TerminalTransactionStates :
             Reached(t, state)' => state = "MANUAL_RECOVERY_REQUIRED",
         UNCHANGED <<forwardDispatchCount, observations, finalize>>
  PROVE  Testimony(t)'
<1>1. at'[t] = "threw" /\ todo'[t] = <<>> /\ thrown'[t] = cause
  BY DEF Throw, Continue, TypeOK
<1>2. \A state \in TerminalTransactionStates : Reached(t, state)' => Ends(t, state)
  BY DEF Testimony, Ends
<1>3. \A k : Saw(t, k)' <=> Saw(t, k)
  BY ObservingNothing
<1>4. Reached(t, "VERIFIED_COMMITTED")' => CommitHolds(t)'
  <2>1. CASE Ends(t, "VERIFIED_COMMITTED")
    <3>1. CommitHolds(t) /\ ~Queued(t, "recovery.planned")
      BY <2>1, EndingsHold
    <3> QED
      BY <1>3, <3>1 DEF CommitHolds, Applied, Journaled
  <2> QED
    BY <1>2, <2>1 DEF TerminalTransactionStates
<1>5. Reached(t, "VERIFIED_COMPENSATED")' =>
        CompensationHolds(t)' /\ ~Reached(t, "VERIFIED_COMMITTED")'
  <2>1. CASE Ends(t, "VERIFIED_COMPENSATED")
    <3>1. CompensationHolds(t) /\ Nowhere(t, "VERIFIED_COMMITTED")
      BY <2>1, EndingsHold
    <3>2. ~Reached(t, "VERIFIED_COMMITTED")'
      BY <3>1, ReachedIsLogged DEF Nowhere
    <3> QED
      BY <1>3, <3>1, <3>2 DEF CompensationHolds, Journaled
  <2> QED
    BY <1>2, <2>1 DEF TerminalTransactionStates
<1>6. \A state \in RefusedStates : Reached(t, state)' => forwardDispatchCount'[t] = 0
  BY <1>2, EndingsHold DEF TerminalTransactionStates
<1> QED
  BY <1>1, <1>4, <1>5, <1>6 DEF Testimony, Truthful

\* An error of the journal is caught where nothing is decided, or ends the run.
LEMMA RaiseTestifies ==
  ASSUME TypeOK, NEW t \in Txns, Outcome(t), Testimony(t), at[t] # "threw",
         NEW error, NEW cause, cause # "adapter", Raise(t, error, cause), Journaled(t),
         \A state : Reached(t, state)' => Reached(t, state) \/ Queued(t, state),
         UNCHANGED <<states, forwardDispatchCount, observations, finalize>>
  PROVE  Testimony(t)'
<1>1. CASE at[t] \in {"reported", "recoveryReported"}
  <2>1. at'[t] # "threw" /\ thrown'[t] = thrown[t] /\ transaction'[t] = transaction[t]
    BY <1>1 DEF Raise, DispatchCatch, RecoveryCatch, Continue, TypeOK, states
  <2>2. \A state \in TerminalTransactionStates : ~Queued(t, state)
    BY <1>1 DEF Outcome, Undecided, Ends
  <2> QED
    BY <2>1, <2>2 DEF Testimony
<1>2. CASE Throw(t, cause)
  BY <1>2, ThrowTestifies
<1> QED
  BY <1>1, <1>2 DEF Raise

\* Every failure of an append, an adapter call or the input leaves the truth.
LEMMA FailuresTestify ==
  ASSUME TypeOK, NEW t \in Txns, Outcome(t), Testimony(t),
         \/ IllegalTransition(t) \/ (\E fault \in LedgerFaults : AppendThrows(t, fault))
         \/ LedgerReadThrows(t) \/ AdapterThrows(t) \/ ApprovalThrows(t) \/ InputThrows(t)
  PROVE  Testimony(t)'
<1>1. UNCHANGED events => /\ Journaled(t)
                          /\ \A state : Reached(t, state)' <=> Reached(t, state)
  BY DEF Journaled, Logged, Reached
<1>2. CASE IllegalTransition(t)
  <2>1. at[t] # "threw"
    BY <1>2 DEF IllegalTransition, Testimony
  <2> QED
    BY <1>1, <1>2, <2>1, RaiseTestifies DEF IllegalTransition
<1>3. CASE \E fault \in LedgerFaults : AppendThrows(t, fault)
  <2>1. PICK fault \in LedgerFaults : AppendThrows(t, fault)
    BY <1>3
  <2>2. at[t] # "threw"
    BY <2>1 DEF AppendThrows, Testimony
  <2>3. Journaled(t) /\ \A state : Reached(t, state)' => Reached(t, state) \/ Queued(t, state)
    BY <1>1, <2>1, StoringJournals, StoringReaches DEF AppendThrows
  <2>4. Raise(t, fault.error, "ledger")
    BY <2>1 DEF AppendThrows
  <2>5. UNCHANGED <<states, forwardDispatchCount, observations, finalize>>
    BY <2>1 DEF AppendThrows
  <2> QED
    BY <2>2, <2>3, <2>4, <2>5, RaiseTestifies
<1>4. CASE LedgerReadThrows(t)
  <2>1. at[t] # "threw"
    BY <1>4 DEF LedgerReadThrows, Awaits
  <2> QED
    BY <1>1, <1>4, <2>1, ThrowTestifies DEF LedgerReadThrows
<1>5. CASE AdapterThrows(t)
  <2>1. /\ at[t] \in {"fresh", "reconcile", "verify", "plan", "observe", "reconcileRecovery",
                      "verifyRecovery"}
        /\ UNCHANGED events
    BY <1>5 DEF AdapterThrows, Awaits
  <2>2. \A state \in TerminalTransactionStates : Reached(t, state) => Ends(t, state)
    BY <2>1 DEF Testimony, Ends
  <2>3. \A state \in TerminalTransactionStates :
          Reached(t, state) => state = "MANUAL_RECOVERY_REQUIRED"
    BY <2>1, <2>2 DEF Outcome, Undecided, Closing, EndsIn
  <2> QED
    BY <1>1, <1>5, <2>1, <2>3, ThrowTestifies DEF AdapterThrows
<1>6. CASE ApprovalThrows(t) \/ InputThrows(t)
  <2>1. at[t] # "threw"
    BY <1>6 DEF ApprovalThrows, InputThrows, Awaits
  <2> QED
    BY <1>1, <1>6, <2>1, ThrowTestifies DEF ApprovalThrows, InputThrows
<1> QED
  BY <1>2, <1>3, <1>4, <1>5, <1>6

\* What a ledger says of a run depends on the run's own state only.
LEMMA UntouchedTestifies ==
  ASSUME NEW u, Testimony(u), Untouched(u)
  PROVE  Testimony(u)'
<1>1. /\ \A state : Reached(u, state)' <=> Reached(u, state)
      /\ \A name : Logged(u, name)' <=> Logged(u, name)
      /\ \A k : Saw(u, k)' <=> Saw(u, k)
  BY DEF Untouched, Reached, Logged, Saw
<1>2. /\ CommitHolds(u)' <=> CommitHolds(u)
      /\ CompensationHolds(u)' <=> CompensationHolds(u)
  BY <1>1 DEF Untouched, CommitHolds, CompensationHolds, Applied
<1>3. Truthful(u) => Truthful(u)'
  BY <1>1, <1>2 DEF Untouched, Truthful
<1> QED
  BY <1>1, <1>3 DEF Untouched, Testimony

\* No step of any run makes its ledger say what is not so.
LEMMA StepTestifies == TestimonyInv /\ [Next]_vars => TestimonyInv'
<1> SUFFICES ASSUME TestimonyInv, [Next]_vars
             PROVE  TestimonyInv'
  OBVIOUS
<1>1. OutcomeInv' /\ TypeOK /\ \A t \in Txns : Outcome(t) /\ Testimony(t)
  BY StepOutcome DEF TestimonyInv, OutcomeInv
<1>2. CASE UNCHANGED vars
  <2>1. \A t \in Txns : Untouched(t)
    BY <1>2 DEF vars, Untouched
  <2> QED
    BY <1>1, <2>1, UntouchedTestifies DEF TestimonyInv
<1>3. ASSUME NEW t \in Txns, Start(t) \/ InputThrows(t) \/ Run(t)
      PROVE  TestimonyInv'
  <2>1. AppendEvent(t) => Testimony(t)'
    BY <1>1, AppendEventTestifies
  <2>2. \/ IllegalTransition(t) \/ (\E fault \in LedgerFaults : AppendThrows(t, fault))
        \/ LedgerReadThrows(t) \/ AdapterThrows(t) \/ ApprovalThrows(t) \/ InputThrows(t)
        => Testimony(t)'
    BY <1>1, FailuresTestify
  <2>3. Unspoken(t) => Testimony(t)'
    BY <1>1, UnspokenTestifies
  <2>4. Testimony(t)'
    BY <1>1, <1>3, <2>1, <2>2, <2>3, ForwardIsQuiet, RecoveryIsQuiet
    DEF Run, Admission, Forward, Journal
  <2>5. ASSUME NEW u \in Txns, u # t
        PROVE  Testimony(u)'
    BY <1>1, <1>3, <2>5, OthersUntouched, UntouchedTestifies
  <2> QED
    BY <1>1, <2>4, <2>5 DEF TestimonyInv
<1> QED
  BY <1>2, <1>3 DEF Next

\* The ledger names no ending of a run that is not true, also where run() throws with
\* the effect applied: because an append failed, durably or not, or because the
\* provider could not be read after the dispatch.
THEOREM TrueLedger == Spec => []LedgerVerdictsAreTrue
<1>1. Init => TestimonyInv
  <2> SUFFICES ASSUME Init
               PROVE  TestimonyInv
    OBVIOUS
  <2>1. \A t \in Txns : at[t] = "idle" /\ events[t] = <<>> /\ thrown[t] = "none"
    BY DEF Init
  <2>2. \A t \in Txns : \A state : ~Reached(t, state)
    BY <2>1 DEF Reached
  <2> QED
    BY <2>1, <2>2, InitOutcome DEF TestimonyInv, Testimony
<1>2. TestimonyInv => LedgerVerdictsAreTrue
  <2> SUFFICES ASSUME TestimonyInv, NEW t \in Txns
               PROVE  Truthful(t)
    BY DEF LedgerVerdictsAreTrue, Truthful, CommitHolds, CompensationHolds, Applied
  <2> QED
    BY GoingOnIsTruthful DEF TestimonyInv, OutcomeInv, Testimony
<1>3. Spec => []TestimonyInv
  BY <1>1, StepTestifies, PTL DEF Spec
<1> QED
  BY <1>2, <1>3, PTL
=============================================================================
