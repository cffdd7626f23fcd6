---------------------- MODULE PublishTransactionProofs ----------------------
(***************************************************************************)
(* Proofs about the worked example as a whole: any number of transactions  *)
(* that publish to one document, whatever the network, the service and the *)
(* people who edit do.                                                     *)
(*                                                                         *)
(* The engine and the service were proved apart, and the proofs are used   *)
(* here as they are (Law, Provider): the composed system takes only steps  *)
(* of the engine (StepsOfTheEngine), so what is invariant of the engine is *)
(* invariant here.  What is left to show is the link between the two: what *)
(* a run has observed, or tells a person, is so at the provider (LinkInv). *)
(***************************************************************************)
EXTENDS PublishTransaction, TLAPS

Law      == INSTANCE TransitionProofs WITH LedgerFaults <- {}
Provider == INSTANCE DocumentServiceProofs

\* The points of a run whose verdict is decided, and those before at which its
\* compensation has left.
Ending  == {"finish", "sign", "return", "returned", "threw"}
Undoing == {"recovering", "recoveryReported", "reconcileRecovery", "recoveryReconciled",
            "verifyRecovery"}

\* The points from its approval to its dispatch.
Sending == {"approve", "fresh", "dispatch"}

\* The answers after which nothing was written and nothing will be.
Fruitless == {"none", "refused", "409", "412", "422", "503"}

\* What an instruction says of the forward write alone, and of both writes.
NothingClaims == {"never reached the provider", "rejected outright"}
InPlaceClaims == {"committed and not undone", "forward effect still in place",
                  "compensation never dispatched"}

Saw(t, kind) == Engine!Observed(kind, TRUE) \in observations[t]

\* The action was read as rejected, or the write that says so is queued.
Rejecting(t) ==
  \/ action[t] = "PROVIDER_REJECTED"
  \/ \E i \in DOMAIN todo[t] : todo[t][i].to = "PROVIDER_REJECTED"

\* The run takes the forward write for one that failed, or tells a person so.
Dismissed(t) == Rejecting(t) \/ manualRecovery[t] \in NothingClaims

-----------------------------------------------------------------------------
\* A key is sent once, in one request, and its answer tells what became of it.
Conn(key) ==
  /\ replies[key] \in Fruitless => ~Landed(key) /\ ~OnItsWay(key)
  /\ replies[key] = "200" => Landed(key)
  /\ OnItsWay(key) => ~Landed(key)
  /\ \A q, r \in requests : q.key = key /\ r.key = key => q = r

\* What a run knows of its forward write, and what the provider has of it.
ForwardLink(t) ==
  /\ forwardDispatchCount[t] = 0 <=> replies[Forward(t)] = "none"
  /\ Saw(t, "dispatch") \/ Saw(t, "reconciliation") => Landed(Forward(t))
  /\ Dismissed(t) => replies[Forward(t)] \in Fruitless

\* The provider has acknowledged the compensation, or evidence of it was found.
Restored(t) ==
  \/ at[t] \in {"recoveryReported", "recoveryReconciled", "verifyRecovery"}
  \/ Saw(t, "recovery_verification")
  \/ manualRecovery[t] = "compensation not proven"

\* The same of its compensation, which is never sent of an effect that did not
\* land nor after the effect was accepted.
CompensationLink(t) ==
  /\ replies[Compensation(t)] # "none" =>
       at[t] \in Undoing \union Ending /\ Landed(Forward(t))
  /\ finalize[t] \in {"returned", "threw undefined"} =>
       at[t] \in Ending /\ replies[Compensation(t)] = "none"
  /\ Restored(t) => Landed(Compensation(t))
  /\ manualRecovery[t] \in InPlaceClaims =>
       Landed(Forward(t)) /\ replies[Compensation(t)] \in Fruitless
  /\ manualRecovery[t] = "ask the provider about the compensation" => Landed(Forward(t))

\* What was previewed, once it is approved or has left: a document of the past,
\* or the one that is there.
Previewed(t) == at[t] \in Sending \/ replies[Forward(t)] # "none"

Preflights == [before   : Service!Documents,
               expected : [Fields -> Values],
               diff     : SUBSET MaterialFields]

Snapshot(t) ==
  Previewed(t) =>
    /\ preflight[t] \in Preflights
    /\ preflight[t].before.version <= document.version
    /\ preflight[t].before.version = document.version => preflight[t].before = document

\* A request on its way is the one the preview calls for.
Asked(t) ==
  \A r \in requests :
    /\ r.key = Forward(t)      => r = ForwardRequest(t)
    /\ r.key = Compensation(t) => r = CompensationRequest(t)

TypesInv ==
  /\ Service!TypeOK
  /\ input \in [Txns -> [MaterialFields -> Values]]
  /\ DOMAIN preflight = Txns

LinkInv ==
  /\ TypesInv
  /\ \A key \in Keys : Conn(key)
  /\ \A t \in Txns : ForwardLink(t) /\ CompensationLink(t) /\ Snapshot(t) /\ Asked(t)

-----------------------------------------------------------------------------
(***************************************************************************)
(* The two components, proved apart.                                       *)
(***************************************************************************)
\* The actions of PublishTransaction's engine are those the engine's proofs are
\* about: both are TransactionEngine with a ledger that does not fail.
LEMMA SameSteps ==
  ASSUME NEW t
  PROVE  /\ Engine!Start(t) => Law!Start(t)
         /\ Engine!InputThrows(t) => Law!InputThrows(t)
         /\ Engine!PreflightRejected(t) => Law!PreflightRejected(t)
         /\ Engine!Preflighted(t) => Law!Preflighted(t)
         /\ Engine!ApprovalRejected(t) => Law!ApprovalRejected(t)
         /\ Engine!ApprovalConsumed(t) => Law!ApprovalConsumed(t)
         /\ Engine!Stale(t) => Law!Stale(t)
         /\ Engine!Fresh(t) => Law!Fresh(t)
         /\ Engine!Dispatch(t) => Law!Dispatch(t)
         /\ Engine!DispatchReported(t) => Law!DispatchReported(t)
         /\ Engine!Reconciled(t) => Law!Reconciled(t)
         /\ Engine!Unresolved(t) => Law!Unresolved(t)
         /\ Engine!BeginVerifying(t) => Law!BeginVerifying(t)
         /\ Engine!Verified(t) => Law!Verified(t)
         /\ Engine!VerificationFailed(t) => Law!VerificationFailed(t)
         /\ Engine!Finalized(t) => Law!Finalized(t)
         /\ Engine!FinalizeThrows(t) => Law!FinalizeThrows(t)
         /\ Engine!FinalizeThrowsUndefined(t) => Law!FinalizeThrowsUndefined(t)
         /\ Engine!RecoveryUnsafe(t) => Law!RecoveryUnsafe(t)
         /\ Engine!BlockedObserved(t) => Law!BlockedObserved(t)
         /\ Engine!RecoverySafe(t) => Law!RecoverySafe(t)
         /\ Engine!ExecuteRecovery(t) => Law!ExecuteRecovery(t)
         /\ Engine!RecoveryReported(t) => Law!RecoveryReported(t)
         /\ Engine!RecoveryReconciled(t) => Law!RecoveryReconciled(t)
         /\ Engine!RecoveryUnresolved(t) => Law!RecoveryUnresolved(t)
         /\ Engine!BeginVerifyingRecovery(t) => Law!BeginVerifyingRecovery(t)
         /\ Engine!RecoveryVerified(t) => Law!RecoveryVerified(t)
         /\ Engine!RecoveryDisputed(t) => Law!RecoveryDisputed(t)
         /\ Engine!FinishResult(t) => Law!FinishResult(t)
         /\ Engine!SignReceipt(t) => Law!SignReceipt(t)
         /\ Engine!Return(t) => Law!Return(t)
         /\ Engine!AdapterThrows(t) => Law!AdapterThrows(t)
         /\ Engine!AppendEvent(t) => Law!AppendEvent(t)
         /\ Engine!IllegalTransition(t) => Law!IllegalTransition(t)
         /\ \A error : Engine!DispatchThrows(t, error) => Law!DispatchThrows(t, error)
         /\ \A error : Engine!RecoveryThrows(t, error) => Law!RecoveryThrows(t, error)
<1> USE DEF Engine!Awaits, Law!Awaits, Engine!Continue, Law!Continue, Engine!Observe, Law!Observe,
          Engine!Observed, Law!Observed, Engine!Conclude, Law!Conclude, Engine!Instruct,
          Law!Instruct, Engine!Throw, Law!Throw, Engine!Act, Law!Act, Engine!Tx, Law!Tx,
          Engine!Ev, Law!Ev, Engine!Write, Law!Write, Engine!states, Law!states,
          Engine!evidence, Law!evidence, Engine!outcome, Law!outcome, Engine!OutcomeUnknown,
          Law!OutcomeUnknown, Engine!NoReceipt, Law!NoReceipt
<1>1. /\ Engine!Start(t) => Law!Start(t)
      /\ Engine!InputThrows(t) => Law!InputThrows(t)
      /\ Engine!PreflightRejected(t) => Law!PreflightRejected(t)
      /\ Engine!Preflighted(t) => Law!Preflighted(t)
      /\ Engine!ApprovalRejected(t) => Law!ApprovalRejected(t)
      /\ Engine!ApprovalConsumed(t) => Law!ApprovalConsumed(t)
      /\ Engine!Stale(t) => Law!Stale(t)
      /\ Engine!Fresh(t) => Law!Fresh(t)
  BY
  DEF Engine!Start, Law!Start, Engine!InputThrows, Law!InputThrows, Engine!PreflightRejected,
      Law!PreflightRejected, Engine!Preflighted, Law!Preflighted, Engine!ApprovalRejected,
      Law!ApprovalRejected, Engine!ApprovalConsumed, Law!ApprovalConsumed, Engine!Stale,
      Law!Stale, Engine!Fresh, Law!Fresh
<1>2. /\ Engine!Dispatch(t) => Law!Dispatch(t)
      /\ Engine!DispatchReported(t) => Law!DispatchReported(t)
      /\ Engine!Reconciled(t) => Law!Reconciled(t)
      /\ Engine!Unresolved(t) => Law!Unresolved(t)
  BY
  DEF Engine!Dispatch, Law!Dispatch, Engine!DispatchReported, Law!DispatchReported,
      Engine!Reconciled, Law!Reconciled, Engine!Unresolved, Law!Unresolved
<1>3. /\ Engine!BeginVerifying(t) => Law!BeginVerifying(t)
      /\ Engine!Verified(t) => Law!Verified(t)
      /\ Engine!VerificationFailed(t) => Law!VerificationFailed(t)
      /\ Engine!Finalized(t) => Law!Finalized(t)
      /\ Engine!FinalizeThrows(t) => Law!FinalizeThrows(t)
      /\ Engine!FinalizeThrowsUndefined(t) => Law!FinalizeThrowsUndefined(t)
  BY
  DEF Engine!BeginVerifying, Law!BeginVerifying, Engine!Verified, Law!Verified,
      Engine!VerificationFailed, Law!VerificationFailed, Engine!Finalized, Law!Finalized,
      Engine!FinalizeThrows, Law!FinalizeThrows, Engine!FinalizeThrowsUndefined,
      Law!FinalizeThrowsUndefined
<1>4. /\ Engine!RecoveryUnsafe(t) => Law!RecoveryUnsafe(t)
      /\ Engine!BlockedObserved(t) => Law!BlockedObserved(t)
      /\ Engine!RecoverySafe(t) => Law!RecoverySafe(t)
      /\ Engine!ExecuteRecovery(t) => Law!ExecuteRecovery(t)
      /\ Engine!RecoveryReported(t) => Law!RecoveryReported(t)
      /\ Engine!RecoveryReconciled(t) => Law!RecoveryReconciled(t)
  BY
  DEF Engine!RecoveryUnsafe, Law!RecoveryUnsafe, Engine!BlockedObserved, Law!BlockedObserved,
      Engine!RecoverySafe, Law!RecoverySafe, Engine!ExecuteRecovery, Law!ExecuteRecovery,
      Engine!RecoveryReported, Law!RecoveryReported, Engine!RecoveryReconciled,
      Law!RecoveryReconciled
<1>5. /\ Engine!RecoveryUnresolved(t) => Law!RecoveryUnresolved(t)
      /\ Engine!BeginVerifyingRecovery(t) => Law!BeginVerifyingRecovery(t)
      /\ Engine!RecoveryVerified(t) => Law!RecoveryVerified(t)
      /\ Engine!RecoveryDisputed(t) => Law!RecoveryDisputed(t)
  BY
  DEF Engine!RecoveryUnresolved, Law!RecoveryUnresolved, Engine!BeginVerifyingRecovery,
      Law!BeginVerifyingRecovery, Engine!RecoveryVerified, Law!RecoveryVerified,
      Engine!RecoveryDisputed, Law!RecoveryDisputed
<1>6. /\ Engine!FinishResult(t) => Law!FinishResult(t)
      /\ Engine!SignReceipt(t) => Law!SignReceipt(t)
      /\ Engine!Return(t) => Law!Return(t)
      /\ Engine!AdapterThrows(t) => Law!AdapterThrows(t)
  BY
  DEF Engine!FinishResult, Law!FinishResult, Engine!SignReceipt, Law!SignReceipt, Engine!Return,
      Law!Return, Engine!AdapterThrows, Law!AdapterThrows, Engine!TerminalTransactionStates,
      Law!TerminalTransactionStates
<1>7. /\ Engine!AppendEvent(t) => Law!AppendEvent(t)
  BY
  DEF Engine!AppendEvent, Law!AppendEvent, Engine!Allowed, Law!Allowed,
      Engine!TransactionMayMove, Law!TransactionMayMove, Engine!ActionMayMove,
      Law!ActionMayMove, Engine!TransactionTransitions, Law!TransactionTransitions,
      Engine!ActionTransitions, Law!ActionTransitions, Engine!Store, Law!Store, Engine!Current,
      Law!Current
<1>8. /\ Engine!IllegalTransition(t) => Law!IllegalTransition(t)
  BY
  DEF Engine!IllegalTransition, Law!IllegalTransition, Engine!Allowed, Law!Allowed,
      Engine!TransactionMayMove, Law!TransactionMayMove, Engine!ActionMayMove,
      Law!ActionMayMove, Engine!TransactionTransitions, Law!TransactionTransitions,
      Engine!ActionTransitions, Law!ActionTransitions, Engine!Raise, Law!Raise,
      Engine!DispatchCatch, Law!DispatchCatch, Engine!RecoveryCatch, Law!RecoveryCatch
<1>9. \A error : Engine!DispatchThrows(t, error) => Law!DispatchThrows(t, error)
  BY
  DEF Engine!DispatchThrows, Law!DispatchThrows, Engine!DispatchCatch, Law!DispatchCatch
<1>10. \A error : Engine!RecoveryThrows(t, error) => Law!RecoveryThrows(t, error)
  BY
  DEF Engine!RecoveryThrows, Law!RecoveryThrows, Engine!RecoveryCatch, Law!RecoveryCatch
<1> QED
  BY <1>1, <1>2, <1>3, <1>4, <1>5, <1>6, <1>7, <1>8, <1>9, <1>10

\* So are those of the service.
LEMMA SameService ==
  /\ Service!TypeOK <=> Provider!TypeOK
  /\ Service!TypeOK' <=> Provider!TypeOK'
  /\ \A r, fault : Service!Patch(r, fault) => Provider!Patch(r, fault)
  /\ \A patch : Service!Apply(patch) => Provider!Apply(patch)
  /\ Service!FaultModes = Provider!FaultModes
  /\ Service!Patches = Provider!Patches
  /\ Service!Documents = Provider!Documents
  /\ Provider!ServiceAssumption
<1> USE DEF Service!Patches, Provider!Patches, Service!Operations, Provider!Operations,
            Service!Documents, Provider!Documents, Service!Recorded, Provider!Recorded
<1>1. /\ Service!TypeOK <=> Provider!TypeOK
      /\ Service!TypeOK' <=> Provider!TypeOK'
  BY DEF Service!TypeOK, Provider!TypeOK, Service!Requests, Provider!Requests,
         Service!Replies, Provider!Replies
<1>2. \A patch : Service!Apply(patch) <=> Provider!Apply(patch)
  BY DEF Service!Apply, Provider!Apply
<1>3. \A r, fault : Service!Patch(r, fault) => Provider!Patch(r, fault)
  BY <1>2
     DEF Service!Patch, Provider!Patch, Service!Replay, Provider!Replay,
         Service!Refuse, Provider!Refuse, Service!Reject, Provider!Reject,
         Service!FailPrecondition, Provider!FailPrecondition,
         Service!Commit, Provider!Commit, Service!Respond, Provider!Respond,
         Service!PreconditionHolds, Provider!PreconditionHolds
<1>4. Provider!ServiceAssumption
  BY PublishAssumption DEF Service!ServiceAssumption, Provider!ServiceAssumption
<1> QED
  BY <1>1, <1>2, <1>3, <1>4 DEF Service!FaultModes, Provider!FaultModes

\* How mutate() reads an answer: with a code of its own only if nothing was written.
LEMMA ErrorsOfAnswers ==
  ASSUME NEW reply, NEW code, NEW error \in MutateErrors(reply, code)
  PROVE  /\ error \in {code, "unclassified", "PROVIDER_TIMEOUT_AFTER_DISPATCH",
                       "PROVIDER_SAFE_TO_RETRY", "PROVIDER_REJECTED"}
         /\ ~Engine!OutcomeUnknown(error) => reply \in Fruitless
BY DEF MutateErrors, Engine!OutcomeUnknown, Fruitless

\* A step of a run is one of the engine.
LEMMA OwnStepOfTheEngine ==
  ASSUME NEW t \in Txns, RunStep(t) \/ JournalWrite(t)
  PROVE  Law!Start(t) \/ Law!InputThrows(t) \/ Law!Run(t)
<1>1. CASE Preview(t) \/ AssertFresh(t)
  BY <1>1, SameSteps DEF Preview, AssertFresh, Law!Run, Law!Admission
<1>2. CASE Reconcile(t) \/ Verify(t) \/ SendForward(t)
  BY <1>2, SameSteps DEF Reconcile, Verify, SendForward, Law!Run, Law!Forward
<1>3. CASE PlanRecovery(t) \/ ReconcileRecovery(t) \/ VerifyRecovery(t) \/ SendCompensation(t)
  BY <1>3, SameSteps
     DEF PlanRecovery, ReconcileRecovery, VerifyRecovery, SendCompensation, Law!Run, Law!Recovery
<1>4. CASE ReceiveForward(t)
  <2>1. ASSUME NEW error \in MutateErrors(replies[Forward(t)], "STALE_WITNESS"),
               Engine!DispatchThrows(t, error)
        PROVE  Law!Run(t)
    <3>1. error \in Law!DispatchErrors
      BY <2>1, ErrorsOfAnswers DEF Law!DispatchErrors
    <3> QED
      BY <2>1, <3>1, SameSteps DEF Law!Run, Law!Forward
  <2> QED
    BY <1>4, <2>1, SameSteps DEF ReceiveForward, Law!Run, Law!Forward
<1>5. CASE ReceiveCompensation(t)
  <2>1. ASSUME NEW error \in MutateErrors(replies[Compensation(t)], "COMPENSATION_BLOCKED"),
               Engine!RecoveryThrows(t, error)
        PROVE  Law!Run(t)
    <3>1. error \in RecoveryErrors
      BY <2>1, ErrorsOfAnswers DEF RecoveryErrors
    <3> QED
      BY <2>1, <3>1, SameSteps DEF Law!Run, Law!Recovery
  <2> QED
    BY <1>5, <2>1, SameSteps DEF ReceiveCompensation, Law!Run, Law!Recovery
<1>6. CASE Internal(t)
  BY <1>6, SameSteps
     DEF Internal, Law!Run, Law!Admission, Law!Forward, Law!Recovery, Law!Journal
<1>7. CASE JournalWrite(t)
  BY <1>7, SameSteps DEF JournalWrite, Law!Run, Law!Journal
<1> QED
  BY <1>1, <1>2, <1>3, <1>4, <1>5, <1>6, <1>7 DEF RunStep

\* The steps of the others leave the engine alone.
LEMMA StepsOfTheEngine == [Next]_vars => [Law!Next]_(Law!vars)
<1>1. UNCHANGED engine => UNCHANGED Law!vars
  BY DEF engine, Law!vars
<1>2. CASE Others \/ \E key \in Keys : GiveUp(key)
  BY <1>1, <1>2 DEF Others, GiveUp
<1>3. CASE UNCHANGED vars
  BY <1>1, <1>3 DEF vars
<1>4. ASSUME NEW t \in Txns, RunStep(t) \/ JournalWrite(t)
      PROVE  Law!Next
  BY <1>4, OwnStepOfTheEngine DEF Law!Next
<1> QED
  BY <1>2, <1>3, <1>4 DEF Next

\* So what the engine keeps, the composed system keeps: the ledger of this model
\* does not fail, which is all that the engine's proofs ask of it.
EngineInv == Law!OutcomeInv /\ Law!LegalInv

\* Every run of the composed system is one of the engine.
LEMMA EngineInvInvariant == Spec => []EngineInv
<1>1. {} \subseteq Law!LedgerFault /\ RecoveryErrors \subseteq Law!AnyRecoveryError
  BY DEF RecoveryErrors, Law!AnyRecoveryError
<1>2. Init => Law!Init
  BY DEF Init, Engine!Init, Law!Init, Engine!NoReceipt, Law!NoReceipt
<1>3. Spec => Law!Spec
  BY <1>2, StepsOfTheEngine, PTL DEF Spec, Law!Spec
<1>4. Law!Spec => []Law!OutcomeInv
  BY <1>1, Law!OutcomeInvariant
<1>5. Law!Spec => []Law!LegalInv
  BY <1>1, Law!LegalInvariant
<1>6. Law!OutcomeInv /\ Law!LegalInv => EngineInv
  BY DEF EngineInv
<1> QED
  BY <1>3, <1>4, <1>5, <1>6, PTL

-----------------------------------------------------------------------------
(***************************************************************************)
(* The keys, and the steps of the service.                                 *)
(***************************************************************************)
\* Every write has a key of its own.
LEMMA KeysDiffer ==
  /\ \A t \in Txns : Forward(t) \in Keys /\ Compensation(t) \in Keys
  /\ \A t, u : Forward(t) # Compensation(u)
  /\ \A t, u : t # u => Forward(t) # Forward(u) /\ Compensation(t) # Compensation(u)
  /\ \A key \in Keys : \E t \in Txns : key = Forward(t) \/ key = Compensation(t)
BY DEF Keys, Forward, Compensation

\* What no step of the service or of a connection takes back.
Kept(key) ==
  /\ Landed(key) => Landed(key)'
  /\ replies[key] \in Fruitless => replies'[key] = replies[key]
  /\ replies'[key] = "none" => replies[key] = "none"

\* #patch: the one request of a key is handled once, and its answer is so.
LEMMA PatchSettles ==
  ASSUME Service!TypeOK, NEW r \in requests, NEW fault \in Service!FaultModes,
         Service!Patch(r, fault), Conn(r.key)
  PROVE  /\ r.key \in Keys
         /\ ~OnItsWay(r.key)'
         /\ \A k \in Keys : k # r.key => (Landed(k)' <=> Landed(k)) /\ replies'[k] = replies[k]
         /\ ~Landed(r.key) /\ replies[r.key] \notin Fruitless /\ replies[r.key] # "200"
         /\ \/ replies'[r.key] = replies[r.key]
            \/ replies'[r.key] \in {"200", "closed"} /\ Landed(r.key)'
            \/ replies'[r.key] \in {"412", "422", "503"} /\ ~Landed(r.key)'
         /\ replies'[r.key] # "200" \/ Landed(r.key)'
<1>1. /\ r.key \in Keys /\ r.patch \in Service!Patches
      /\ replies \in [Keys -> Service!Replies]
      /\ operations \in [Keys -> Service!Operations \union {NoOperation}]
  BY DEF Service!TypeOK, Service!Requests
<1>2. OnItsWay(r.key) /\ ~Landed(r.key) /\ ~Service!Recorded(r.key)
  BY DEF OnItsWay, Conn, Landed
<1>3. replies[r.key] \notin Fruitless /\ replies[r.key] # "200"
  BY <1>2 DEF Conn
<1>4. ~OnItsWay(r.key)'
  BY DEF OnItsWay, Conn, Service!Patch
<1>5. CASE Service!Commit(r, fault)
  <2> DEFINE operation == [payload |-> r.patch, version |-> document.version + 1]
  <2>1. operation \in Service!Operations
    BY <1>1 DEF Service!Operations, Service!TypeOK, Service!Documents
  <2>2. operation # NoOperation
    BY <2>1, PublishAssumption DEF Service!ServiceAssumption
  <2>3. operations' = [operations EXCEPT ![r.key] = operation]
    BY <1>5 DEF Service!Commit
  <2> HIDE DEF operation
  <2>4. Landed(r.key)' /\ \A k \in Keys : k # r.key => (Landed(k)' <=> Landed(k))
    BY <1>1, <2>2, <2>3 DEF Landed, Service!Recorded
  <2>5. /\ \A k \in Keys : k # r.key => replies'[k] = replies[k]
        /\ replies'[r.key] = replies[r.key] \/ replies'[r.key] \in {"200", "closed"}
    BY <1>1, <1>5 DEF Service!Commit, Service!Respond
  <2> QED
    BY <1>1, <1>2, <1>3, <1>4, <2>4, <2>5
<1>6. CASE \/ Service!Refuse(r, fault) \/ Service!Reject(r, fault)
           \/ Service!FailPrecondition(r, fault)
  <2>1. \A k \in Keys : Landed(k)' <=> Landed(k)
    BY <1>6
       DEF Service!Refuse, Service!Reject, Service!FailPrecondition, Landed, Service!Recorded
  <2>2. /\ \A k \in Keys : k # r.key => replies'[k] = replies[k]
        /\ replies'[r.key] = replies[r.key] \/ replies'[r.key] \in {"412", "422", "503"}
    BY <1>1, <1>6
       DEF Service!Refuse, Service!Reject, Service!FailPrecondition, Service!Respond
  <2> QED
    BY <1>1, <1>2, <1>3, <1>4, <2>1, <2>2
<1>7. ~Service!Replay(r)
  BY <1>2 DEF Service!Replay
<1> QED
  BY <1>5, <1>6, <1>7 DEF Service!Patch

\* What the service and the connections keep, while the runs do nothing.
LEMMA OthersKeep ==
  ASSUME TypesInv, \A key \in Keys : Conn(key), Others \/ \E key \in Keys : GiveUp(key)
  PROVE  /\ TypesInv'
         /\ \A key \in Keys : Conn(key)' /\ Kept(key)
         /\ requests' \subseteq requests
         /\ document' = document \/ document'.version = document.version + 1
         /\ UNCHANGED <<engine, effect>>
<1> USE DEF TypesInv, effect
<1>1. ASSUME NEW r \in requests, NEW fault \in Service!FaultModes,
             Service!Patch(r, fault), UNCHANGED <<engine, effect>>
      PROVE  /\ TypesInv' /\ \A key \in Keys : Conn(key)' /\ Kept(key)
             /\ requests' \subseteq requests
             /\ document' = document \/ document'.version = document.version + 1
  <2>1. Service!TypeOK'
    BY <1>1, SameService, Provider!PatchKeepsTypes
  <2>2. requests' = requests \ {r}
    BY <1>1 DEF Service!Patch
  <2>3. r.key \in Keys
    BY DEF Service!TypeOK, Service!Requests
  <2>4. Conn(r.key)' /\ Kept(r.key)
    BY <1>1, <2>2, <2>3, PatchSettles DEF Conn, Kept, Fruitless, OnItsWay
  <2>5. ASSUME NEW key \in Keys, key # r.key
        PROVE  Conn(key)' /\ Kept(key)
    <3>1. replies'[key] = replies[key] /\ (Landed(key)' <=> Landed(key))
      BY <1>1, <2>3, <2>5, PatchSettles
    <3>2. OnItsWay(key)' <=> OnItsWay(key)
      BY <2>2, <2>5 DEF OnItsWay
    <3> QED
      BY <2>2, <3>1, <3>2 DEF Conn, Kept
  <2>6. document' = document \/ document'.version = document.version + 1
    <3>1. CASE Service!Commit(r, fault)
      BY <3>1 DEF Service!Commit, Service!Apply
    <3>2. CASE ~Service!Commit(r, fault)
      BY <1>1, <3>2 DEF Service!Patch, Service!Replay, Service!Refuse, Service!Reject,
                        Service!FailPrecondition
    <3> QED
      BY <3>1, <3>2
  <2> QED
    BY <1>1, <2>1, <2>2, <2>4, <2>5, <2>6
<1>2. ASSUME NEW patch \in Service!Patches, Service!Edit(patch), UNCHANGED <<engine, effect>>
      PROVE  /\ TypesInv' /\ \A key \in Keys : Conn(key)' /\ Kept(key)
             /\ requests' \subseteq requests
             /\ document' = document \/ document'.version = document.version + 1
  <2>1. UNCHANGED <<operations, requests, replies>> /\ Service!Apply(patch)
    BY <1>2 DEF Service!Edit
  <2>2. document' \in Service!Documents /\ document'.version = document.version + 1
    BY <2>1, SameService, Provider!ApplyMakesADocument DEF Service!TypeOK
  <2>3. TypesInv'
    BY <1>2, <2>1, <2>2 DEF Service!TypeOK
  <2>4. \A key \in Keys : Conn(key)' /\ Kept(key)
    BY <2>1 DEF Conn, Kept, Landed, OnItsWay, Service!Recorded
  <2> QED
    BY <2>1, <2>2, <2>3, <2>4
<1>3. ASSUME NEW gone \in Keys, GiveUp(gone)
      PROVE  /\ TypesInv' /\ \A key \in Keys : Conn(key)' /\ Kept(key)
             /\ UNCHANGED <<document, requests>>
  <2>1. /\ replies' = [replies EXCEPT ![gone] = "closed"] /\ replies[gone] = "open"
        /\ UNCHANGED <<document, operations, requests, effect>>
    BY <1>3 DEF GiveUp, Service!Drop
  <2>2. TypesInv'
    BY <2>1 DEF Service!TypeOK, Service!Replies
  <2>3. \A key \in Keys : (Landed(key)' <=> Landed(key)) /\ (OnItsWay(key)' <=> OnItsWay(key))
    BY <2>1 DEF Landed, OnItsWay, Service!Recorded
  <2>4. replies \in [Keys -> Service!Replies]
    BY DEF Service!TypeOK
  <2>5. \A key \in Keys : Conn(key)' /\ Kept(key)
    BY <2>1, <2>3, <2>4 DEF Conn, Kept, Fruitless
  <2> QED
    BY <2>1, <2>2, <2>5
<1> QED
  BY <1>1, <1>2, <1>3 DEF Others, GiveUp

-----------------------------------------------------------------------------
(***************************************************************************)
(* The steps of a run.  Only SendForward and SendCompensation change       *)
(* anything at the provider or at its connections.                         *)
(***************************************************************************)
Sends(t) == SendForward(t) \/ SendCompensation(t)

\* The other steps leave the service as it is.
LEMMA RunsLeaveTheService ==
  ASSUME NEW t, RunStep(t) \/ JournalWrite(t), ~Sends(t)
  PROVE  UNCHANGED service /\ UNCHANGED input
BY DEF RunStep, JournalWrite, Sends, Preview, AssertFresh, Reconcile, Verify, PlanRecovery,
       ReconcileRecovery, VerifyRecovery, ReceiveForward, ReceiveCompensation, Internal,
       service, effect

\* The transition tables stop no run but one whose compensation was blocked, and
\* that one has told the person already.
LEMMA IllegalOnlyAtTheEnd ==
  ASSUME Law!TypeOK, NEW t \in Txns, Law!Legal(t), Engine!IllegalTransition(t)
  PROVE  at[t] = "finish" /\ Engine!Throw(t, "INVALID_STATE_TRANSITION")
         /\ UNCHANGED <<finality, manualRecovery>>
<1>1. {} \subseteq Law!LedgerFault /\ RecoveryErrors \subseteq Law!AnyRecoveryError
  BY DEF RecoveryErrors, Law!AnyRecoveryError
<1>2. todo[t] # <<>> /\ ~Law!Allowed(t, Head(todo[t]))
  BY SameSteps DEF Law!IllegalTransition
<1>3. ~Law!Orderly(t)
  BY <1>1, <1>2, Law!HeadIsAllowed
<1>4. at[t] = "finish"
  BY <1>3 DEF Law!Orderly
<1> QED
  BY <1>4 DEF Engine!IllegalTransition, Engine!Raise

\* A write takes the head of the queue: what is queued was queued, what is
\* reached was queued.
LEMMA WritesRejectNothing ==
  ASSUME Law!TypeOK, NEW t \in Txns, Engine!AppendEvent(t), Rejecting(t)'
  PROVE  Rejecting(t)
<1> DEFINE s == todo[t]
<1>1. s \in Seq(Law!Writes) /\ s # <<>>
  BY DEF Law!TypeOK, Engine!AppendEvent
<1>2. /\ todo'[t] = Tail(s)
      /\ action'[t] = action[t] \/ action'[t] = s[1].to
  BY DEF Law!TypeOK, Engine!AppendEvent
<1>3. /\ 1 \in DOMAIN s
      /\ \A i \in DOMAIN Tail(s) : i + 1 \in DOMAIN s /\ Tail(s)[i] = s[i + 1]
  BY <1>1
<1> QED
  BY <1>2, <1>3 DEF Rejecting

\* The variables of a run are functions on the transactions.
Shaped ==
  /\ DOMAIN at = Txns /\ DOMAIN todo = Txns /\ DOMAIN action = Txns
  /\ DOMAIN forwardDispatchCount = Txns /\ DOMAIN observations = Txns
  /\ DOMAIN manualRecovery = Txns /\ DOMAIN finalize = Txns /\ DOMAIN receipt = Txns

\* They are, where the types are right.
LEMMA TypesShape == Law!TypeOK => Shaped
BY DEF Law!TypeOK, Shaped

\* The steps of the engine that record no answer of the provider to a write,
\* conclude nothing from one, and preview nothing.
Aside(t) ==
  \/ Engine!Start(t) \/ Engine!InputThrows(t) \/ Engine!AdapterThrows(t)
  \/ Engine!PreflightRejected(t)
  \/ Engine!ApprovalRejected(t) \/ Engine!ApprovalConsumed(t)
  \/ Engine!Stale(t) \/ Engine!Fresh(t)
  \/ Engine!Unresolved(t) \/ Engine!BeginVerifying(t)
  \/ Engine!Verified(t) \/ Engine!VerificationFailed(t)
  \/ Engine!Finalized(t) \/ Engine!FinalizeThrows(t) \/ Engine!FinalizeThrowsUndefined(t)
  \/ Engine!RecoveryUnsafe(t) \/ Engine!RecoverySafe(t)
  \/ Engine!BeginVerifyingRecovery(t)
  \/ Engine!RecoveryVerified(t) \/ Engine!RecoveryDisputed(t)
  \/ Engine!FinishResult(t) \/ Engine!SignReceipt(t) \/ Engine!Return(t)

\* They leave the points of a compensation and of an ending only for later ones,
\* send nothing, accept the effect at finalize only, and tell a person nothing of
\* a write that the run has not seen.
Moves(t) ==
  /\ at[t] \in Ending => at'[t] \in Ending
  /\ at[t] \in Undoing => at'[t] \in Undoing \union Ending
  /\ at'[t] \in Sending => at[t] \in Sending
  /\ forwardDispatchCount'[t] = forwardDispatchCount[t]
  /\ \/ finalize'[t] \notin {"returned", "threw undefined"}
     \/ finalize'[t] = finalize[t]
     \/ at[t] = "finalize" /\ at'[t] = "finish"
  /\ \/ manualRecovery'[t] = manualRecovery[t]
     \/ manualRecovery'[t] \in {"ask the provider", "compensation not proven"}

Sees(t) ==
  /\ Saw(t, "dispatch")' => Saw(t, "dispatch")
  /\ Saw(t, "reconciliation")' => Saw(t, "reconciliation")
  /\ Restored(t)' => Restored(t)

\* Their points and what they tell.
LEMMA AsideMoves ==
  ASSUME Shaped, NEW t \in Txns, Aside(t)
  PROVE  Moves(t)
<1> USE DEF Shaped, Moves, Ending, Undoing, Sending, Engine!Instruct, Engine!Awaits,
            Engine!Continue, Engine!Throw, Engine!evidence, Engine!outcome
<1>1. CASE Engine!Start(t)
  BY <1>1 DEF Engine!Start
<1>2. CASE Engine!InputThrows(t)
  BY <1>2 DEF Engine!InputThrows
<1>3. CASE Engine!AdapterThrows(t)
  BY <1>3 DEF Engine!AdapterThrows
<1>4. CASE Engine!PreflightRejected(t)
  BY <1>4 DEF Engine!PreflightRejected
<1>5. CASE Engine!ApprovalRejected(t)
  BY <1>5 DEF Engine!ApprovalRejected
<1>6. CASE Engine!ApprovalConsumed(t)
  BY <1>6 DEF Engine!ApprovalConsumed
<1>7. CASE Engine!Stale(t)
  BY <1>7 DEF Engine!Stale
<1>8. CASE Engine!Fresh(t)
  BY <1>8 DEF Engine!Fresh
<1>9. CASE Engine!Unresolved(t)
  BY <1>9 DEF Engine!Unresolved
<1>10. CASE Engine!BeginVerifying(t)
  BY <1>10 DEF Engine!BeginVerifying
<1>11. CASE Engine!Verified(t)
  BY <1>11 DEF Engine!Verified
<1>12. CASE Engine!VerificationFailed(t)
  BY <1>12 DEF Engine!VerificationFailed
<1>13. CASE Engine!Finalized(t)
  BY <1>13 DEF Engine!Finalized
<1>14. CASE Engine!FinalizeThrows(t)
  BY <1>14 DEF Engine!FinalizeThrows
<1>15. CASE Engine!FinalizeThrowsUndefined(t)
  BY <1>15 DEF Engine!FinalizeThrowsUndefined
<1>16. CASE Engine!RecoveryUnsafe(t)
  BY <1>16 DEF Engine!RecoveryUnsafe
<1>17. CASE Engine!RecoverySafe(t)
  BY <1>17 DEF Engine!RecoverySafe
<1>18. CASE Engine!BeginVerifyingRecovery(t)
  BY <1>18 DEF Engine!BeginVerifyingRecovery
<1>19. CASE Engine!RecoveryVerified(t)
  BY <1>19 DEF Engine!RecoveryVerified
<1>20. CASE Engine!RecoveryDisputed(t)
  BY <1>20 DEF Engine!RecoveryDisputed
<1>21. CASE Engine!FinishResult(t)
  BY <1>21 DEF Engine!FinishResult
<1>22. CASE Engine!SignReceipt(t)
  BY <1>22 DEF Engine!SignReceipt
<1>23. CASE Engine!Return(t)
  BY <1>23 DEF Engine!Return
<1> QED
  BY <1>1, <1>2, <1>3, <1>4, <1>5, <1>6, <1>7, <1>8, <1>9, <1>10, <1>11, <1>12, <1>13, <1>14,
     <1>15, <1>16, <1>17, <1>18, <1>19, <1>20, <1>21, <1>22, <1>23 DEF Aside

\* What they record is no answer to a write.
LEMMA AsideSees ==
  ASSUME Shaped, NEW t \in Txns, Aside(t)
  PROVE  Sees(t)
<1> USE DEF Shaped, Sees, Saw, Restored, Engine!Observe, Engine!Observed, Engine!Instruct,
            Engine!Awaits, Engine!Continue, Engine!Throw, Engine!evidence
<1>1. CASE Engine!Start(t)
  BY <1>1 DEF Engine!Start
<1>2. CASE Engine!InputThrows(t)
  BY <1>2 DEF Engine!InputThrows
<1>3. CASE Engine!AdapterThrows(t)
  BY <1>3 DEF Engine!AdapterThrows
<1>4. CASE Engine!PreflightRejected(t)
  BY <1>4 DEF Engine!PreflightRejected
<1>5. CASE Engine!ApprovalRejected(t)
  BY <1>5 DEF Engine!ApprovalRejected
<1>6. CASE Engine!ApprovalConsumed(t)
  BY <1>6 DEF Engine!ApprovalConsumed
<1>7. CASE Engine!Stale(t)
  BY <1>7 DEF Engine!Stale
<1>8. CASE Engine!Fresh(t)
  BY <1>8 DEF Engine!Fresh
<1>9. CASE Engine!Unresolved(t)
  BY <1>9 DEF Engine!Unresolved
<1>10. CASE Engine!BeginVerifying(t)
  BY <1>10 DEF Engine!BeginVerifying
<1>11. CASE Engine!Verified(t)
  BY <1>11 DEF Engine!Verified
<1>12. CASE Engine!VerificationFailed(t)
  BY <1>12 DEF Engine!VerificationFailed
<1>13. CASE Engine!Finalized(t)
  BY <1>13 DEF Engine!Finalized
<1>14. CASE Engine!FinalizeThrows(t)
  BY <1>14 DEF Engine!FinalizeThrows
<1>15. CASE Engine!FinalizeThrowsUndefined(t)
  BY <1>15 DEF Engine!FinalizeThrowsUndefined
<1>16. CASE Engine!RecoveryUnsafe(t)
  BY <1>16 DEF Engine!RecoveryUnsafe
<1>17. CASE Engine!RecoverySafe(t)
  BY <1>17 DEF Engine!RecoverySafe
<1>18. CASE Engine!BeginVerifyingRecovery(t)
  BY <1>18 DEF Engine!BeginVerifyingRecovery
<1>19. CASE Engine!RecoveryVerified(t)
  BY <1>19 DEF Engine!RecoveryVerified
<1>20. CASE Engine!RecoveryDisputed(t)
  BY <1>20 DEF Engine!RecoveryDisputed
<1>21. CASE Engine!FinishResult(t)
  BY <1>21 DEF Engine!FinishResult
<1>22. CASE Engine!SignReceipt(t)
  BY <1>22 DEF Engine!SignReceipt
<1>23. CASE Engine!Return(t)
  BY <1>23 DEF Engine!Return
<1> QED
  BY <1>1, <1>2, <1>3, <1>4, <1>5, <1>6, <1>7, <1>8, <1>9, <1>10, <1>11, <1>12, <1>13, <1>14,
     <1>15, <1>16, <1>17, <1>18, <1>19, <1>20, <1>21, <1>22, <1>23 DEF Aside

\* No list they queue has a rejection, or an expiry.
LEMMA AsideQueues ==
  ASSUME Shaped, NEW t \in Txns, Aside(t)
  PROVE  /\ UNCHANGED <<transaction, action>>
         /\ \A i \in DOMAIN todo'[t] : /\ todo'[t][i].to # "PROVIDER_REJECTED"
                                      /\ todo'[t][i].to # "EXPIRED"
<1> USE DEF Shaped, Engine!Act, Engine!Tx, Engine!Ev, Engine!Write, Engine!Continue,
            Engine!Throw, Engine!states
<1>1. CASE Engine!Start(t)
  BY <1>1 DEF Engine!Start
<1>2. CASE Engine!InputThrows(t)
  BY <1>2 DEF Engine!InputThrows
<1>3. CASE Engine!AdapterThrows(t)
  BY <1>3 DEF Engine!AdapterThrows
<1>4. CASE Engine!PreflightRejected(t)
  BY <1>4 DEF Engine!PreflightRejected
<1>5. CASE Engine!ApprovalRejected(t)
  BY <1>5 DEF Engine!ApprovalRejected
<1>6. CASE Engine!ApprovalConsumed(t)
  BY <1>6 DEF Engine!ApprovalConsumed
<1>7. CASE Engine!Stale(t)
  BY <1>7 DEF Engine!Stale
<1>8. CASE Engine!Fresh(t)
  <2>1. todo'[t] = <<Engine!Act("SCHEDULED"), Engine!Tx("COMMITTING"),
                    Engine!Act("DISPATCHING"), Engine!Ev("action.dispatch_started")>>
    BY <1>8 DEF Engine!Fresh
  <2>2. UNCHANGED <<transaction, action>>
    BY <1>8 DEF Engine!Fresh
  <2> QED
    BY <2>1, <2>2
<1>9. CASE Engine!Unresolved(t)
  <2>1. todo'[t] = <<Engine!Ev("action.reconciled"), Engine!Act("OUTCOME_UNKNOWN"),
                    Engine!Tx("MANUAL_RECOVERY_REQUIRED")>>
    BY <1>9 DEF Engine!Unresolved
  <2>2. UNCHANGED <<transaction, action>>
    BY <1>9 DEF Engine!Unresolved
  <2> QED
    BY <2>1, <2>2
<1>10. CASE Engine!BeginVerifying(t)
  BY <1>10 DEF Engine!BeginVerifying
<1>11. CASE Engine!Verified(t)
  BY <1>11 DEF Engine!Verified
<1>12. CASE Engine!VerificationFailed(t)
  BY <1>12 DEF Engine!VerificationFailed
<1>13. CASE Engine!Finalized(t)
  BY <1>13 DEF Engine!Finalized
<1>14. CASE Engine!FinalizeThrows(t)
  BY <1>14 DEF Engine!FinalizeThrows
<1>15. CASE Engine!FinalizeThrowsUndefined(t)
  <2>1. todo'[t] = <<Engine!Tx("VERIFIED_COMMITTED")>>
    BY <1>15 DEF Engine!FinalizeThrowsUndefined
  <2>2. UNCHANGED <<transaction, action>>
    BY <1>15 DEF Engine!FinalizeThrowsUndefined
  <2> QED
    BY <2>1, <2>2
<1>16. CASE Engine!RecoveryUnsafe(t)
  BY <1>16 DEF Engine!RecoveryUnsafe
<1>17. CASE Engine!RecoverySafe(t)
  BY <1>17 DEF Engine!RecoverySafe
<1>18. CASE Engine!BeginVerifyingRecovery(t)
  BY <1>18 DEF Engine!BeginVerifyingRecovery
<1>19. CASE Engine!RecoveryVerified(t)
  BY <1>19 DEF Engine!RecoveryVerified
<1>20. CASE Engine!RecoveryDisputed(t)
  <2>1. todo'[t] = <<Engine!Ev("recovery.verified"), Engine!Act("COMPENSATION_FAILED"),
                    Engine!Tx("MANUAL_RECOVERY_REQUIRED")>>
    BY <1>20 DEF Engine!RecoveryDisputed
  <2>2. UNCHANGED <<transaction, action>>
    BY <1>20 DEF Engine!RecoveryDisputed
  <2> QED
    BY <2>1, <2>2
<1>21. CASE Engine!FinishResult(t)
  BY <1>21 DEF Engine!FinishResult
<1>22. CASE Engine!SignReceipt(t)
  BY <1>22 DEF Engine!SignReceipt
<1>23. CASE Engine!Return(t)
  BY <1>23 DEF Engine!Return
<1> QED
  BY <1>1, <1>2, <1>3, <1>4, <1>5, <1>6, <1>7, <1>8, <1>9, <1>10, <1>11, <1>12, <1>13, <1>14,
     <1>15, <1>16, <1>17, <1>18, <1>19, <1>20, <1>21, <1>22, <1>23 DEF Aside

-----------------------------------------------------------------------------
(***************************************************************************)
(* The links that hold of a run, step by step.  A step that has nothing to *)
(* do with a write keeps the link to it, whatever the service did.         *)
(***************************************************************************)
ForwardAside(t) ==
  /\ forwardDispatchCount'[t] = forwardDispatchCount[t]
  /\ Saw(t, "dispatch")' => Saw(t, "dispatch")
  /\ Saw(t, "reconciliation")' => Saw(t, "reconciliation")
  /\ Dismissed(t)' => Dismissed(t)

CompensationAside(t) ==
  /\ at[t] \in Ending => at'[t] \in Ending
  /\ at[t] \in Undoing => at'[t] \in Undoing \union Ending
  /\ \/ finalize'[t] \notin {"returned", "threw undefined"}
     \/ finalize'[t] = finalize[t]
     \/ at[t] = "finalize" /\ at'[t] = "finish"
  /\ Restored(t)' => Restored(t)
  /\ \/ manualRecovery'[t] = manualRecovery[t]
     \/ manualRecovery'[t] \in {"ask the provider", "compensation not proven"} \union NothingClaims

\* The link to the forward write.
LEMMA ForwardStays ==
  ASSUME NEW t, ForwardLink(t), ForwardAside(t), Kept(Forward(t))
  PROVE  ForwardLink(t)'
BY DEF ForwardLink, ForwardAside, Kept, Fruitless

\* The link to the compensation.
LEMMA CompensationStays ==
  ASSUME NEW t, CompensationLink(t), CompensationAside(t),
         Kept(Forward(t)), Kept(Compensation(t))
  PROVE  CompensationLink(t)'
<1> USE DEF CompensationLink, CompensationAside, Kept
<1>1. replies'[Compensation(t)] # "none" =>
        at'[t] \in Undoing \union Ending /\ Landed(Forward(t))'
  BY DEF Fruitless
<1>2. finalize'[t] \in {"returned", "threw undefined"} =>
        at'[t] \in Ending /\ replies'[Compensation(t)] = "none"
  BY DEF Fruitless, Ending, Undoing
<1>3. Restored(t)' => Landed(Compensation(t))'
  OBVIOUS
<1>4. manualRecovery'[t] \in InPlaceClaims =>
        Landed(Forward(t))' /\ replies'[Compensation(t)] \in Fruitless
  BY DEF InPlaceClaims, NothingClaims
<1>5. manualRecovery'[t] = "ask the provider about the compensation" => Landed(Forward(t))'
  BY DEF NothingClaims
<1> QED
  BY <1>1, <1>2, <1>3, <1>4, <1>5

\* What the runs leave alone is kept.
LEMMA UnchangedIsKept ==
  /\ \A key : replies'[key] = replies[key] /\ (Landed(key)' <=> Landed(key)) => Kept(key)
  /\ UNCHANGED service => \A key : Kept(key) /\ (Conn(key)' <=> Conn(key))
BY DEF Kept, Conn, service, Landed, OnItsWay, Service!Recorded

\* A run that no step touches has nothing to do with any write.
LEMMA UntouchedIsAside ==
  ASSUME NEW t, Law!Untouched(t)
  PROVE  ForwardAside(t) /\ CompensationAside(t) /\ at'[t] = at[t]
<1>1. at'[t] = at[t] /\ todo'[t] = todo[t] /\ action'[t] = action[t]
  BY DEF Law!Untouched
<1>2. /\ observations'[t] = observations[t] /\ manualRecovery'[t] = manualRecovery[t]
      /\ forwardDispatchCount'[t] = forwardDispatchCount[t] /\ finalize'[t] = finalize[t]
  BY DEF Law!Untouched
<1>3. (Rejecting(t)' => Rejecting(t)) /\ \A kind : Saw(t, kind)' => Saw(t, kind)
  BY <1>1, <1>2 DEF Rejecting, Saw
<1> QED
  BY <1>1, <1>2, <1>3 DEF ForwardAside, CompensationAside, Dismissed, Restored

\* What the engine's own invariant says of a run at an await.
LEMMA EngineKnows ==
  ASSUME EngineInv, NEW t \in Txns
  PROVE  /\ Shaped
         /\ at[t] \in Sending \union {"preflight"} => forwardDispatchCount[t] = 0
         /\ at[t] \in {"plan", "observe", "recover"} \union Undoing =>
              /\ forwardDispatchCount[t] = 1
              /\ Saw(t, "dispatch") \/ Saw(t, "reconciliation")
         /\ at[t] \notin Ending => manualRecovery[t] = "none"
         /\ todo[t] = <<>> /\ at[t] \in {"dispatch", "dispatching"} => ~Rejecting(t)
<1>1. {} \subseteq Law!LedgerFault /\ RecoveryErrors \subseteq Law!AnyRecoveryError
  BY DEF RecoveryErrors, Law!AnyRecoveryError
<1>2. Law!TypeOK /\ Law!Outcome(t) /\ Law!Legal(t)
  BY DEF EngineInv, Law!OutcomeInv, Law!LegalInv
<1>3. Shaped
  BY <1>2, TypesShape
<1>4. Law!Progress(t)
  BY <1>2 DEF Law!Outcome
<1>5. at[t] \in Sending \union {"preflight"} => forwardDispatchCount[t] = 0
  BY <1>4 DEF Law!Progress, Law!Admitting, Sending
<1>6. at[t] \in {"plan", "observe", "recover"} \union Undoing =>
        forwardDispatchCount[t] = 1 /\ Law!Applied(t)
  BY <1>4 DEF Law!Progress, Law!Admitting, Law!Ending, Law!Attributed, Law!Undoing, Undoing
<1>7. Law!Applied(t) => Saw(t, "dispatch") \/ Saw(t, "reconciliation")
  BY DEF Law!Applied, Law!Saw, Law!Observed, Saw, Engine!Observed
<1>8. at[t] \notin Ending => manualRecovery[t] = "none"
  <2>1. CASE at[t] = "observe"
    BY <1>2, <2>1 DEF Law!Outcome, Law!Closing
  <2>2. CASE at[t] # "observe"
    BY <1>2, <2>2 DEF Law!Outcome, Law!Undecided, Law!Closed, Law!Ending, Ending
  <2> QED
    BY <2>1, <2>2
<1>9. todo[t] = <<>> /\ at[t] \in {"dispatch", "dispatching"} => ~Rejecting(t)
  <2> SUFFICES ASSUME todo[t] = <<>>, at[t] \in {"dispatch", "dispatching"}
               PROVE  ~Rejecting(t)
    OBVIOUS
  <2>1. <<at[t], transaction[t], action[t]>> \in Law!Stations
    BY <1>1, <1>2, Law!AtStation DEF Law!Closed, Law!Ending
  <2>2. action[t] = "DISPATCHING"
    BY <2>1 DEF Law!Stations
  <2> QED
    BY <2>2 DEF Rejecting
<1> QED
  BY <1>3, <1>5, <1>6, <1>7, <1>8, <1>9

\* The steps that have nothing to do with a write, and those of the journal.
LEMMA AsideIsAside ==
  ASSUME Shaped, NEW t \in Txns, Aside(t)
  PROVE  ForwardAside(t) /\ CompensationAside(t) /\ (at'[t] \in Sending => at[t] \in Sending)
<1>1. Moves(t) /\ Sees(t)
  BY AsideMoves, AsideSees
<1>2. Rejecting(t)' => Rejecting(t)
  BY AsideQueues DEF Rejecting
<1>3. Dismissed(t)' => Dismissed(t)
  BY <1>1, <1>2 DEF Dismissed, Moves, NothingClaims
<1>4. ForwardAside(t)
  BY <1>1, <1>3 DEF ForwardAside, Moves, Sees
<1> QED
  BY <1>1, <1>4 DEF CompensationAside, Moves, Sees

\* So are those of the journal.
LEMMA WritesAreAside ==
  ASSUME EngineInv, NEW t \in Txns, JournalWrite(t)
  PROVE  ForwardAside(t) /\ CompensationAside(t) /\ (at'[t] \in Sending => at[t] \in Sending)
<1>1. Law!TypeOK /\ Law!Legal(t) /\ Shaped
  BY TypesShape DEF EngineInv, Law!LegalInv
<1>2. CASE Engine!AppendEvent(t)
  <2>1. /\ UNCHANGED <<at, forwardDispatchCount, observations, manualRecovery, finalize>>
        /\ Rejecting(t)' => Rejecting(t)
    BY <1>1, <1>2, WritesRejectNothing DEF Engine!AppendEvent, Engine!evidence, Engine!outcome
  <2> QED
    BY <2>1 DEF ForwardAside, CompensationAside, Dismissed, Restored, Saw
<1>3. CASE Engine!IllegalTransition(t)
  <2>1. at[t] = "finish" /\ at'[t] = "threw" /\ todo'[t] = <<>> /\ action'[t] = action[t]
    BY <1>1, <1>3, IllegalOnlyAtTheEnd
       DEF Shaped, Engine!Throw, Engine!Continue, Engine!IllegalTransition, Engine!states
  <2>2. UNCHANGED <<forwardDispatchCount, observations, manualRecovery, finalize>>
    BY <1>1, <1>3, IllegalOnlyAtTheEnd DEF Engine!IllegalTransition
  <2>3. Rejecting(t)' => Rejecting(t)
    BY <2>1 DEF Rejecting
  <2> QED
    BY <2>1, <2>2, <2>3
       DEF ForwardAside, CompensationAside, Dismissed, Restored, Saw, Ending, Undoing, Sending
<1> QED
  BY <1>2, <1>3 DEF JournalWrite

\* The steps before the compensation, or after the forward write, that have to do
\* with the other write only.
LEMMA ForwardStepsAreAside ==
  ASSUME Shaped, NEW t \in Txns,
         \/ Engine!Preflighted(t) \/ Engine!Dispatch(t) \/ Engine!DispatchReported(t)
         \/ \E error : Engine!DispatchThrows(t, error)
         \/ Engine!Reconciled(t)
  PROVE  /\ CompensationAside(t)
         /\ at'[t] \in Sending => at[t] = "preflight"
<1> USE DEF Shaped, CompensationAside, Restored, Saw, Sending, Ending, Undoing, NothingClaims,
            Engine!Continue, Engine!Awaits, Engine!Observe, Engine!Observed, Engine!Instruct,
            Engine!evidence, Engine!outcome
<1>1. CASE Engine!Preflighted(t)
  BY <1>1 DEF Engine!Preflighted
<1>2. CASE Engine!Dispatch(t)
  BY <1>2 DEF Engine!Dispatch
<1>3. CASE Engine!DispatchReported(t)
  BY <1>3 DEF Engine!DispatchReported
<1>4. CASE Engine!Reconciled(t)
  BY <1>4 DEF Engine!Reconciled
<1>5. ASSUME NEW error, Engine!DispatchThrows(t, error)
     PROVE  CompensationAside(t) /\ at'[t] \notin Sending
  <2>1. /\ at[t] = "dispatching" /\ at'[t] \in {"reconcile", "finish"}
        /\ \/ manualRecovery'[t] = manualRecovery[t]
           \/ manualRecovery'[t] \in NothingClaims
        /\ observations'[t] = observations[t] /\ finalize'[t] = finalize[t]
    BY <1>5 DEF Engine!DispatchThrows, Engine!DispatchCatch
  <2> QED
    BY <2>1
<1> QED
  BY <1>1, <1>2, <1>3, <1>4, <1>5

\* The same of the steps of a recovery.
LEMMA RecoveryStepsAreAside ==
  ASSUME Shaped, NEW t \in Txns,
         \/ Engine!Preflighted(t) \/ Engine!BlockedObserved(t) \/ Engine!ExecuteRecovery(t)
         \/ Engine!RecoveryReported(t)
         \/ \E error : Engine!RecoveryThrows(t, error)
         \/ Engine!RecoveryReconciled(t) \/ Engine!RecoveryUnresolved(t)
  PROVE  /\ ForwardAside(t) /\ transaction' = transaction
         /\ at'[t] \in Sending => at[t] = "preflight"
         /\ \A i \in DOMAIN todo'[t] : todo'[t][i].to # "EXPIRED"
<1> USE DEF Shaped, Engine!Continue, Engine!Awaits, Engine!Observe, Engine!Observed,
            Engine!Instruct, Engine!states, Engine!evidence, Engine!outcome
<1>1. CASE Engine!Preflighted(t)
  <2>1. /\ forwardDispatchCount'[t] = forwardDispatchCount[t] /\ action'[t] = action[t]
        /\ transaction' = transaction
        /\ at'[t] \in Sending => at[t] = "preflight"
    BY <1>1 DEF Engine!Preflighted, Sending
  <2>2. /\ Saw(t, "dispatch")' => Saw(t, "dispatch")
        /\ Saw(t, "reconciliation")' => Saw(t, "reconciliation")
    BY <1>1 DEF Engine!Preflighted, Saw
  <2>3. \A i \in DOMAIN todo'[t] : /\ todo'[t][i].to # "PROVIDER_REJECTED"
                                  /\ todo'[t][i].to # "EXPIRED"
    BY <1>1 DEF Engine!Preflighted, Engine!Act, Engine!Tx, Engine!Ev, Engine!Write
  <2>4. manualRecovery'[t] \in NothingClaims => manualRecovery'[t] = manualRecovery[t]
    BY <1>1 DEF Engine!Preflighted, NothingClaims
  <2> QED
    BY <2>1, <2>2, <2>3, <2>4 DEF ForwardAside, Dismissed, Rejecting
<1>2. CASE Engine!BlockedObserved(t)
  <2>1. /\ forwardDispatchCount'[t] = forwardDispatchCount[t] /\ action'[t] = action[t]
        /\ transaction' = transaction
        /\ at'[t] \in Sending => at[t] = "preflight"
    BY <1>2 DEF Engine!BlockedObserved, Sending
  <2>2. /\ Saw(t, "dispatch")' => Saw(t, "dispatch")
        /\ Saw(t, "reconciliation")' => Saw(t, "reconciliation")
    BY <1>2 DEF Engine!BlockedObserved, Saw
  <2>3. \A i \in DOMAIN todo'[t] : /\ todo'[t][i].to # "PROVIDER_REJECTED"
                                  /\ todo'[t][i].to # "EXPIRED"
    <3>1. todo'[t] = <<>>
      BY <1>2 DEF Engine!BlockedObserved
    <3> QED
      BY <3>1 DEF Engine!Act, Engine!Tx, Engine!Ev, Engine!Write
  <2>4. manualRecovery'[t] \in NothingClaims => manualRecovery'[t] = manualRecovery[t]
    BY <1>2 DEF Engine!BlockedObserved, NothingClaims
  <2> QED
    BY <2>1, <2>2, <2>3, <2>4 DEF ForwardAside, Dismissed, Rejecting
<1>3. CASE Engine!ExecuteRecovery(t)
  <2>1. /\ forwardDispatchCount'[t] = forwardDispatchCount[t] /\ action'[t] = action[t]
        /\ transaction' = transaction
        /\ at'[t] \in Sending => at[t] = "preflight"
    BY <1>3 DEF Engine!ExecuteRecovery, Sending
  <2>2. /\ Saw(t, "dispatch")' => Saw(t, "dispatch")
        /\ Saw(t, "reconciliation")' => Saw(t, "reconciliation")
    BY <1>3 DEF Engine!ExecuteRecovery, Saw
  <2>3. \A i \in DOMAIN todo'[t] : /\ todo'[t][i].to # "PROVIDER_REJECTED"
                                  /\ todo'[t][i].to # "EXPIRED"
    BY <1>3 DEF Engine!ExecuteRecovery, Engine!Act, Engine!Tx, Engine!Ev, Engine!Write
  <2>4. manualRecovery'[t] \in NothingClaims => manualRecovery'[t] = manualRecovery[t]
    BY <1>3 DEF Engine!ExecuteRecovery, NothingClaims
  <2> QED
    BY <2>1, <2>2, <2>3, <2>4 DEF ForwardAside, Dismissed, Rejecting
<1>4. CASE Engine!RecoveryReported(t)
  <2>1. /\ forwardDispatchCount'[t] = forwardDispatchCount[t] /\ action'[t] = action[t]
        /\ transaction' = transaction
        /\ at'[t] \in Sending => at[t] = "preflight"
    BY <1>4 DEF Engine!RecoveryReported, Sending
  <2>2. /\ Saw(t, "dispatch")' => Saw(t, "dispatch")
        /\ Saw(t, "reconciliation")' => Saw(t, "reconciliation")
    BY <1>4 DEF Engine!RecoveryReported, Saw
  <2>3. \A i \in DOMAIN todo'[t] : /\ todo'[t][i].to # "PROVIDER_REJECTED"
                                  /\ todo'[t][i].to # "EXPIRED"
    BY <1>4 DEF Engine!RecoveryReported, Engine!Act, Engine!Tx, Engine!Ev, Engine!Write
  <2>4. manualRecovery'[t] \in NothingClaims => manualRecovery'[t] = manualRecovery[t]
    BY <1>4 DEF Engine!RecoveryReported, NothingClaims
  <2> QED
    BY <2>1, <2>2, <2>3, <2>4 DEF ForwardAside, Dismissed, Rejecting
<1>5. CASE Engine!RecoveryReconciled(t)
  <2>1. /\ forwardDispatchCount'[t] = forwardDispatchCount[t] /\ action'[t] = action[t]
        /\ transaction' = transaction
        /\ at'[t] \in Sending => at[t] = "preflight"
    BY <1>5 DEF Engine!RecoveryReconciled, Sending
  <2>2. /\ Saw(t, "dispatch")' => Saw(t, "dispatch")
        /\ Saw(t, "reconciliation")' => Saw(t, "reconciliation")
    BY <1>5 DEF Engine!RecoveryReconciled, Saw
  <2>3. \A i \in DOMAIN todo'[t] : /\ todo'[t][i].to # "PROVIDER_REJECTED"
                                  /\ todo'[t][i].to # "EXPIRED"
    BY <1>5 DEF Engine!RecoveryReconciled, Engine!Act, Engine!Tx, Engine!Ev, Engine!Write
  <2>4. manualRecovery'[t] \in NothingClaims => manualRecovery'[t] = manualRecovery[t]
    BY <1>5 DEF Engine!RecoveryReconciled, NothingClaims
  <2> QED
    BY <2>1, <2>2, <2>3, <2>4 DEF ForwardAside, Dismissed, Rejecting
<1>6. CASE Engine!RecoveryUnresolved(t)
  <2>1. /\ forwardDispatchCount'[t] = forwardDispatchCount[t] /\ action'[t] = action[t]
        /\ transaction' = transaction
        /\ at'[t] \in Sending => at[t] = "preflight"
    BY <1>6 DEF Engine!RecoveryUnresolved, Sending
  <2>2. /\ Saw(t, "dispatch")' => Saw(t, "dispatch")
        /\ Saw(t, "reconciliation")' => Saw(t, "reconciliation")
    BY <1>6 DEF Engine!RecoveryUnresolved, Saw
  <2>3. \A i \in DOMAIN todo'[t] : /\ todo'[t][i].to # "PROVIDER_REJECTED"
                                  /\ todo'[t][i].to # "EXPIRED"
    <3>1. todo'[t] = <<Engine!Ev("recovery.reconciled"), Engine!Act("COMPENSATION_FAILED"),
                        Engine!Tx("MANUAL_RECOVERY_REQUIRED")>>
      BY <1>6 DEF Engine!RecoveryUnresolved
    <3> QED
      BY <3>1 DEF Engine!Act, Engine!Tx, Engine!Ev, Engine!Write
  <2>4. manualRecovery'[t] \in NothingClaims => manualRecovery'[t] = manualRecovery[t]
    BY <1>6 DEF Engine!RecoveryUnresolved, NothingClaims
  <2> QED
    BY <2>1, <2>2, <2>3, <2>4 DEF ForwardAside, Dismissed, Rejecting
<1>7. ASSUME NEW error, Engine!RecoveryThrows(t, error)
     PROVE  /\ ForwardAside(t) /\ at'[t] \notin Sending /\ transaction' = transaction
            /\ \A i \in DOMAIN todo'[t] : todo'[t][i].to # "EXPIRED"
  <2>1. /\ forwardDispatchCount'[t] = forwardDispatchCount[t] /\ action'[t] = action[t]
        /\ transaction' = transaction
        /\ at'[t] \notin Sending
    BY <1>7 DEF Engine!RecoveryThrows, Engine!RecoveryCatch, Sending
  <2>2. /\ Saw(t, "dispatch")' => Saw(t, "dispatch")
        /\ Saw(t, "reconciliation")' => Saw(t, "reconciliation")
    BY <1>7 DEF Engine!RecoveryThrows, Engine!RecoveryCatch, Saw
  <2>3. \A i \in DOMAIN todo'[t] : /\ todo'[t][i].to # "PROVIDER_REJECTED"
                                  /\ todo'[t][i].to # "EXPIRED"
    <3>1. \/ todo'[t] = <<Engine!Act("COMPENSATION_UNKNOWN"),
                           Engine!Act("COMPENSATION_RECONCILING")>>
          \/ todo'[t] = <<Engine!Act("COMPENSATION_BLOCKED"),
                           Engine!Tx("MANUAL_RECOVERY_REQUIRED")>>
          \/ todo'[t] = <<Engine!Act("COMPENSATION_FAILED"),
                           Engine!Tx("MANUAL_RECOVERY_REQUIRED")>>
      BY <1>7 DEF Engine!RecoveryThrows, Engine!RecoveryCatch
    <3> QED
      BY <3>1 DEF Engine!Act, Engine!Tx, Engine!Write
  <2>4. manualRecovery'[t] \in NothingClaims => manualRecovery'[t] = manualRecovery[t]
    BY <1>7 DEF Engine!RecoveryThrows, Engine!RecoveryCatch, NothingClaims
  <2> QED
    BY <2>1, <2>2, <2>3, <2>4 DEF ForwardAside, Dismissed, Rejecting
<1> QED
  BY <1>1, <1>2, <1>3, <1>4, <1>5, <1>6, <1>7

-----------------------------------------------------------------------------
(***************************************************************************)
(* The two steps that send.                                                *)
(***************************************************************************)
\* A key that was never sent is sent once, or not at all.
LEMMA SendingConnects ==
  ASSUME TypesInv, \A key \in Keys : Conn(key),
         NEW k \in Keys, replies[k] = "none", NEW r \in Service!Requests, r.key = k,
         Service!Send(r) \/ Service!FailToSend(k), UNCHANGED effect
  PROVE  /\ TypesInv' /\ \A key \in Keys : Conn(key)'
         /\ replies'[k] \in {"open", "refused"}
         /\ \A key \in Keys : Landed(key)' <=> Landed(key)
         /\ \A key \in Keys : key # k => Kept(key)
         /\ requests' \subseteq requests \union {r}
         /\ document' = document
<1>1. /\ replies \in [Keys -> Service!Replies] /\ UNCHANGED <<document, operations>>
      /\ requests \subseteq Service!Requests
  BY DEF TypesInv, Service!TypeOK, Service!Send, Service!FailToSend
<1>2. ~OnItsWay(k) /\ ~Landed(k)
  BY DEF Conn, Fruitless
<1>3. \A key : Landed(key)' <=> Landed(key)
  BY <1>1 DEF Landed, Service!Recorded
<1>4. CASE Service!Send(r)
  <2>1. replies' = [replies EXCEPT ![k] = "open"] /\ requests' = requests \union {r}
    BY <1>4 DEF Service!Send
  <2>2. TypesInv'
    BY <1>1, <2>1 DEF TypesInv, Service!TypeOK, Service!Replies, effect
  <2>3. replies'[k] = "open" /\ \A key \in Keys : key # k => replies'[key] = replies[key]
    BY <1>1, <2>1
  <2>4. Conn(k)'
    BY <1>2, <1>3, <2>1, <2>3 DEF Conn, OnItsWay, Fruitless
  <2>5. ASSUME NEW key \in Keys, key # k
        PROVE  Conn(key)' /\ Kept(key)
    <3>1. OnItsWay(key)' <=> OnItsWay(key)
      BY <2>1, <2>5 DEF OnItsWay
    <3>2. \A p, q \in requests' : p.key = key /\ q.key = key => p = q
      BY <2>1, <2>5 DEF Conn
    <3>3. replies'[key] = replies[key]
      BY <2>3, <2>5
    <3> QED
      BY <1>3, <3>1, <3>2, <3>3, UnchangedIsKept DEF Conn
  <2> QED
    BY <1>1, <1>3, <2>1, <2>2, <2>3, <2>4, <2>5
<1>5. CASE Service!FailToSend(k)
  <2>1. replies' = [replies EXCEPT ![k] = "refused"] /\ requests' = requests
    BY <1>5 DEF Service!FailToSend
  <2>2. TypesInv'
    BY <1>1, <2>1 DEF TypesInv, Service!TypeOK, Service!Replies, effect
  <2>3. replies'[k] = "refused" /\ \A key \in Keys : key # k => replies'[key] = replies[key]
    BY <1>1, <2>1
  <2>4. \A key : OnItsWay(key)' <=> OnItsWay(key)
    BY <2>1 DEF OnItsWay
  <2>5. Conn(k)'
    BY <1>2, <1>3, <2>1, <2>3, <2>4 DEF Conn
  <2>6. \A key \in Keys : key # k => Conn(key)' /\ Kept(key)
    BY <1>3, <2>1, <2>3, <2>4, UnchangedIsKept DEF Conn
  <2> QED
    BY <1>1, <1>3, <2>1, <2>2, <2>3, <2>5, <2>6
<1> QED
  BY <1>4, <1>5

\* What is asked for is a request of the service, once there is a preview of it.
LEMMA RequestsAreTyped ==
  ASSUME TypesInv, NEW t \in Txns, preflight[t] \in Preflights
  PROVE  /\ ForwardRequest(t) \in Service!Requests /\ ForwardRequest(t).key = Forward(t)
         /\ CompensationRequest(t) \in Service!Requests
         /\ CompensationRequest(t).key = Compensation(t)
<1>1. /\ preflight[t].before \in Service!Documents /\ preflight[t].diff \subseteq Fields
      /\ input[t] \in [MaterialFields -> Values] /\ MaterialFields \subseteq Fields
  BY PublishAssumption DEF TypesInv, Preflights
<1>2. preflight[t].before.version \in Nat /\ preflight[t].before.fields \in [Fields -> Values]
  BY <1>1 DEF Service!Documents
<1>3. Effect!restoreValues(preflight[t]) \in [preflight[t].diff -> Values]
  BY <1>1, <1>2 DEF Effect!restoreValues
<1>4. /\ input[t] \in Service!Patches
      /\ Effect!restoreValues(preflight[t]) \in Service!Patches
  BY <1>1, <1>3 DEF Service!Patches
<1> QED
  BY <1>2, <1>4, KeysDiffer DEF ForwardRequest, CompensationRequest, Service!Requests

\* The forward write leaves once, when nothing was sent before.
LEMMA SendForwardLinks ==
  ASSUME EngineInv, LinkInv, NEW t \in Txns, SendForward(t)
  PROVE  /\ TypesInv' /\ \A key \in Keys : Conn(key)'
         /\ ForwardLink(t)' /\ CompensationLink(t)'
         /\ \A key \in Keys : key # Forward(t) => Kept(key)
         /\ requests' \subseteq requests \union {ForwardRequest(t)}
         /\ at[t] \in Sending /\ document' = document
<1> DEFINE F == Forward(t)
<1>1. /\ TypesInv /\ (\A key \in Keys : Conn(key))
      /\ ForwardLink(t) /\ CompensationLink(t) /\ Snapshot(t)
  BY DEF LinkInv
<1>2. at[t] = "dispatch" /\ todo[t] = <<>> /\ at[t] \in Sending
  BY DEF SendForward, Engine!Dispatch, Engine!Awaits, Sending
<1>3. Shaped /\ forwardDispatchCount[t] = 0 /\ manualRecovery[t] = "none" /\ ~Rejecting(t)
  BY <1>2, EngineKnows DEF Ending
<1>4. replies[F] = "none"
  BY <1>1, <1>3 DEF ForwardLink
<1>5. preflight[t] \in Preflights
  BY <1>1, <1>2 DEF Snapshot, Previewed
<1>6. ForwardRequest(t) \in Service!Requests /\ ForwardRequest(t).key = F /\ F \in Keys
  BY <1>1, <1>5, RequestsAreTyped, KeysDiffer
<1>7. /\ Service!Send(ForwardRequest(t)) \/ Service!FailToSend(F)
      /\ UNCHANGED effect
  BY DEF SendForward
<1>8. /\ TypesInv' /\ \A key \in Keys : Conn(key)'
      /\ replies'[F] \in {"open", "refused"}
      /\ \A key \in Keys : Landed(key)' <=> Landed(key)
      /\ \A key \in Keys : key # F => Kept(key)
      /\ requests' \subseteq requests \union {ForwardRequest(t)}
      /\ document' = document
  BY <1>1, <1>4, <1>6, <1>7, SendingConnects
<1>9. /\ forwardDispatchCount'[t] = 1 /\ observations'[t] = observations[t]
      /\ todo'[t] = <<>> /\ action'[t] = action[t] /\ manualRecovery'[t] = manualRecovery[t]
  BY <1>3 DEF SendForward, Engine!Dispatch, Engine!Continue, Engine!states, Engine!evidence,
              Shaped
<1>10. ~Dismissed(t)'
  <2>1. /\ action'[t] # "PROVIDER_REJECTED"
        /\ \A i \in DOMAIN todo'[t] : todo'[t][i].to # "PROVIDER_REJECTED"
    BY <1>3, <1>9 DEF Rejecting
  <2>2. manualRecovery'[t] \notin NothingClaims
    BY <1>3, <1>9 DEF NothingClaims
  <2> QED
    BY <2>1, <2>2 DEF Dismissed, Rejecting
<1>11. ForwardLink(t)'
  <2>1. Saw(t, "dispatch")' \/ Saw(t, "reconciliation")' => Landed(F)
    BY <1>1, <1>9 DEF ForwardLink, Saw
  <2>2. Landed(F)' <=> Landed(F)
    BY <1>6, <1>8
  <2>3. forwardDispatchCount'[t] # 0 /\ replies'[F] # "none"
    BY <1>8, <1>9
  <2> QED
    BY <1>10, <2>1, <2>2, <2>3 DEF ForwardLink
<1>12. Compensation(t) \in Keys /\ Compensation(t) # F
  BY KeysDiffer
<1>13. CompensationAside(t)
  BY <1>3, ForwardStepsAreAside DEF SendForward
<1>14. Kept(Compensation(t))
  BY <1>8, <1>12
<1>15. ~Landed(F)
  BY <1>1, <1>4, <1>6 DEF Conn, Fruitless
<1>16. replies[Compensation(t)] = "none" /\ finalize[t] \notin {"returned", "threw undefined"}
  BY <1>1, <1>2 DEF CompensationLink, Ending, Undoing
<1>17. ~Restored(t)' \/ Landed(Compensation(t))'
  BY <1>1, <1>13, <1>14 DEF CompensationLink, CompensationAside, Kept
<1>18. replies'[Compensation(t)] = "none"
  BY <1>14, <1>16 DEF Kept, Fruitless
<1>19. manualRecovery'[t] = "none" /\ finalize'[t] = finalize[t]
  BY <1>3, <1>9 DEF SendForward, Engine!Dispatch, Engine!outcome
<1>20. CompensationLink(t)'
  BY <1>16, <1>17, <1>18, <1>19 DEF CompensationLink, InPlaceClaims
<1> QED
  BY <1>2, <1>8, <1>11, <1>20

\* The compensation leaves once, of an effect that landed.
LEMMA SendCompensationLinks ==
  ASSUME EngineInv, LinkInv, NEW t \in Txns, SendCompensation(t)
  PROVE  /\ TypesInv' /\ \A key \in Keys : Conn(key)'
         /\ ForwardLink(t)' /\ CompensationLink(t)'
         /\ \A key \in Keys : key # Compensation(t) => Kept(key)
         /\ requests' \subseteq requests \union {CompensationRequest(t)}
         /\ at'[t] \notin Sending /\ document' = document
<1> DEFINE C == Compensation(t)
<1>1. /\ TypesInv /\ (\A key \in Keys : Conn(key))
      /\ ForwardLink(t) /\ CompensationLink(t) /\ Snapshot(t)
  BY DEF LinkInv
<1>2. at[t] = "recover"
  BY DEF SendCompensation, Engine!ExecuteRecovery, Engine!Awaits
<1>3. /\ Shaped /\ forwardDispatchCount[t] = 1 /\ manualRecovery[t] = "none"
      /\ Saw(t, "dispatch") \/ Saw(t, "reconciliation")
  BY <1>2, EngineKnows DEF Ending
<1>4. replies[C] = "none" /\ finalize[t] \notin {"returned", "threw undefined"}
  BY <1>1, <1>2 DEF CompensationLink, Ending, Undoing
<1>5. preflight[t] \in Preflights /\ Landed(Forward(t))
  BY <1>1, <1>3 DEF Snapshot, Previewed, ForwardLink
<1>6. /\ CompensationRequest(t) \in Service!Requests /\ CompensationRequest(t).key = C
      /\ C \in Keys /\ Forward(t) \in Keys /\ Forward(t) # C
  BY <1>1, <1>5, RequestsAreTyped, KeysDiffer
<1>7. /\ Service!Send(CompensationRequest(t)) \/ Service!FailToSend(C)
      /\ UNCHANGED effect
  BY DEF SendCompensation
<1>8. /\ TypesInv' /\ \A key \in Keys : Conn(key)'
      /\ \A key \in Keys : Landed(key)' <=> Landed(key)
      /\ \A key \in Keys : key # C => Kept(key)
      /\ requests' \subseteq requests \union {CompensationRequest(t)}
      /\ document' = document
  BY <1>1, <1>4, <1>6, <1>7, SendingConnects
<1>9. /\ at'[t] = "recovering" /\ manualRecovery'[t] = "none" /\ finalize'[t] = finalize[t]
      /\ observations'[t] = observations[t]
  BY <1>3 DEF SendCompensation, Engine!ExecuteRecovery, Engine!Continue, Engine!evidence,
              Engine!outcome, Shaped
<1>10. ForwardLink(t)'
  BY <1>1, <1>3, <1>6, <1>8, RecoveryStepsAreAside, ForwardStays DEF SendCompensation
<1>11. Restored(t)' => Landed(C)'
  BY <1>1, <1>6, <1>8, <1>9 DEF Restored, Saw, CompensationLink
<1>12. CompensationLink(t)'
  BY <1>4, <1>5, <1>6, <1>8, <1>9, <1>11 DEF CompensationLink, InPlaceClaims, Undoing
<1>13. at'[t] \notin Sending
  BY <1>9 DEF Sending
<1> QED
  BY <1>8, <1>10, <1>12, <1>13

-----------------------------------------------------------------------------
(***************************************************************************)
(* The steps that read what became of a write.                             *)
(***************************************************************************)
\* They are the steps of a run that have to do with one, and do not send it.
Reads(t) ==
  \/ Engine!Reconciled(t) /\ Landed(Forward(t))
  \/ ReceiveForward(t)
  \/ Engine!BlockedObserved(t)
  \/ ReceiveCompensation(t)
  \/ Engine!RecoveryReconciled(t) /\ Landed(Compensation(t))
  \/ Engine!RecoveryUnresolved(t)

Previews(t) ==
  /\ Engine!Preflighted(t)
  /\ preflight' = [preflight EXCEPT ![t] = Effect!buildPreflight(document, Expected(t))]

\* Every step of a run sends, reads, previews, or has nothing to do with a write.
LEMMA KindsOfSteps ==
  ASSUME NEW t, RunStep(t), ~Sends(t)
  PROVE  Previews(t) \/ ((Aside(t) \/ Reads(t)) /\ UNCHANGED preflight)
<1>1. CASE Preview(t)
  BY <1>1 DEF Preview, Previews, Aside
<1>2. CASE AssertFresh(t) \/ Verify(t) \/ PlanRecovery(t) \/ VerifyRecovery(t)
  BY <1>2 DEF AssertFresh, Verify, PlanRecovery, VerifyRecovery, Aside, effect
<1>3. CASE Reconcile(t) \/ ReconcileRecovery(t)
  BY <1>3 DEF Reconcile, ReconcileRecovery, Aside, Reads, effect, Landed, Service!Lookup
<1>4. CASE ReceiveForward(t) \/ ReceiveCompensation(t)
  BY <1>4 DEF Reads, ReceiveForward, ReceiveCompensation, effect
<1>5. CASE Internal(t)
  BY <1>5 DEF Internal, Aside, Reads, effect
<1> QED
  BY <1>1, <1>2, <1>3, <1>4, <1>5 DEF RunStep, Sends

\* An answer to the forward write, or evidence of it.
LEMMA ForwardReadsLink ==
  ASSUME EngineInv, LinkInv, NEW t \in Txns, UNCHANGED service,
         ReceiveForward(t) \/ (Engine!Reconciled(t) /\ Landed(Forward(t)))
  PROVE  ForwardLink(t)'
<1>1. ForwardLink(t) /\ Shaped /\ Conn(Forward(t)) /\ UNCHANGED service
  BY EngineKnows, KeysDiffer DEF LinkInv
<1>2. /\ replies'[Forward(t)] = replies[Forward(t)]
      /\ Landed(Forward(t))' <=> Landed(Forward(t))
  BY <1>1 DEF service, Landed, Service!Recorded
<1>3. CASE Engine!DispatchReported(t) /\ replies[Forward(t)] = "200"
  <2>1. Landed(Forward(t))
    BY <1>1, <1>3 DEF Conn
  <2>2. at[t] = "dispatching" /\ todo[t] = <<>>
    BY <1>3 DEF Engine!DispatchReported, Engine!Awaits
  <2>3. ~Dismissed(t)
    BY <2>2, EngineKnows DEF Dismissed, Ending, NothingClaims
  <2>4. /\ todo'[t] = <<Engine!Ev("action.dispatch_reported"), Engine!Act("REPORTED_SUCCEEDED")>>
        /\ action'[t] = action[t] /\ manualRecovery'[t] = manualRecovery[t]
        /\ forwardDispatchCount'[t] = forwardDispatchCount[t]
    BY <1>1, <1>3 DEF Engine!DispatchReported, Engine!Continue, Engine!states, Engine!evidence,
                      Shaped
  <2>5. \A i \in DOMAIN todo'[t] : todo'[t][i].to # "PROVIDER_REJECTED"
    BY <2>4 DEF Engine!Ev, Engine!Act, Engine!Write
  <2>6. ~Dismissed(t)'
    BY <2>3, <2>4, <2>5 DEF Dismissed, Rejecting
  <2> QED
    BY <1>1, <1>2, <2>1, <2>4, <2>6 DEF ForwardLink
<1>4. CASE Engine!Reconciled(t) /\ Landed(Forward(t))
  <2>1. /\ todo'[t] = <<Engine!Ev("action.reconciled"), Engine!Act("REPORTED_SUCCEEDED"),
                        Engine!Tx("VERIFYING")>>
        /\ action'[t] = action[t] /\ manualRecovery'[t] = manualRecovery[t]
        /\ forwardDispatchCount'[t] = forwardDispatchCount[t]
    BY <1>1, <1>4 DEF Engine!Reconciled, Engine!Continue, Engine!states, Engine!evidence, Shaped
  <2>2. \A i \in DOMAIN todo'[t] : todo'[t][i].to # "PROVIDER_REJECTED"
    BY <2>1 DEF Engine!Ev, Engine!Act, Engine!Tx, Engine!Write
  <2>3. Dismissed(t)' => Dismissed(t)
    BY <2>1, <2>2 DEF Dismissed, Rejecting
  <2> QED
    BY <1>1, <1>2, <1>4, <2>1, <2>3 DEF ForwardLink
<1>5. ASSUME NEW error \in MutateErrors(replies[Forward(t)], "STALE_WITNESS"),
             Engine!DispatchThrows(t, error)
      PROVE  ForwardLink(t)'
  <2>1. at[t] = "dispatching" /\ todo[t] = <<>>
    BY <1>5 DEF Engine!DispatchThrows, Engine!Awaits
  <2>2. ~Dismissed(t)
    BY <2>1, EngineKnows DEF Dismissed, Ending, NothingClaims
  <2>3. /\ action'[t] = action[t] /\ observations'[t] = observations[t]
        /\ forwardDispatchCount'[t] = forwardDispatchCount[t]
    BY <1>1, <1>5 DEF Engine!DispatchThrows, Engine!states
  <2>4. CASE Engine!OutcomeUnknown(error)
    <3>1. /\ todo'[t] = <<Engine!Act("OUTCOME_UNKNOWN"), Engine!Tx("RECONCILING"),
                          Engine!Act("RECONCILING")>>
          /\ manualRecovery'[t] = manualRecovery[t]
      BY <1>1, <1>5, <2>4
         DEF Engine!DispatchThrows, Engine!DispatchCatch, Engine!Continue, Shaped
    <3>2. \A i \in DOMAIN todo'[t] : todo'[t][i].to # "PROVIDER_REJECTED"
      BY <3>1 DEF Engine!Act, Engine!Tx, Engine!Write
    <3>3. ~Dismissed(t)'
      BY <2>2, <2>3, <3>1, <3>2 DEF Dismissed, Rejecting
    <3> QED
      BY <1>1, <1>2, <2>3, <3>3 DEF ForwardLink, Saw
  <2>5. CASE ~Engine!OutcomeUnknown(error)
    <3>1. replies[Forward(t)] \in Fruitless
      BY <2>5, ErrorsOfAnswers
    <3> QED
      BY <1>1, <1>2, <2>3, <3>1 DEF ForwardLink, Saw
  <2> QED
    BY <2>4, <2>5
<1> QED
  BY <1>3, <1>4, <1>5 DEF ReceiveForward

\* An answer to the compensation, or evidence of it, or its absence.
LEMMA CompensationReadsLink ==
  ASSUME EngineInv, LinkInv, NEW t \in Txns, UNCHANGED service,
         \/ Engine!BlockedObserved(t) \/ ReceiveCompensation(t)
         \/ Engine!RecoveryReconciled(t) /\ Landed(Compensation(t))
         \/ Engine!RecoveryUnresolved(t)
  PROVE  CompensationLink(t)'
<1> DEFINE C == Compensation(t)
<1>1. /\ CompensationLink(t) /\ ForwardLink(t) /\ Shaped /\ Conn(C)
      /\ UNCHANGED service
  BY EngineKnows, KeysDiffer DEF LinkInv
<1>2. /\ replies'[C] = replies[C] /\ (Landed(C)' <=> Landed(C))
      /\ Landed(Forward(t))' <=> Landed(Forward(t))
  BY <1>1 DEF service, Landed, Service!Recorded
<1>3. at[t] \in {"observe"} \union Undoing
  BY DEF Engine!BlockedObserved, ReceiveCompensation, Engine!RecoveryReconciled,
         Engine!RecoveryUnresolved, Engine!RecoveryReported, Engine!RecoveryThrows,
         Engine!Awaits, Undoing
<1>4. Landed(Forward(t)) /\ manualRecovery[t] = "none"
  BY <1>1, <1>3, EngineKnows DEF ForwardLink, Ending, Undoing
<1>5. finalize[t] \notin {"returned", "threw undefined"}
  BY <1>1, <1>3 DEF CompensationLink, Ending, Undoing
<1>6. CASE Engine!BlockedObserved(t)
  <2>1. at[t] = "observe" /\ replies[C] = "none"
    BY <1>1, <1>6
       DEF CompensationLink, Engine!BlockedObserved, Engine!Awaits, Ending, Undoing
  <2>2. /\ at'[t] = "finish" /\ manualRecovery'[t] = "committed and not undone"
        /\ observations'[t] = observations[t] /\ finalize'[t] = finalize[t]
    BY <1>1, <1>6 DEF Engine!BlockedObserved, Engine!Continue, Engine!Instruct,
                      Engine!outcome, Shaped
  <2>3. Restored(t)' => Restored(t)
    BY <2>2 DEF Restored, Saw
  <2> QED
    BY <1>1, <1>2, <1>4, <1>5, <2>1, <2>2, <2>3
       DEF CompensationLink, Ending, Fruitless
<1>7. CASE Engine!RecoveryReported(t) /\ replies[C] = "200"
  <2>1. /\ at'[t] = "recoveryReported" /\ manualRecovery'[t] = "none"
        /\ finalize'[t] = finalize[t]
    BY <1>1, <1>4, <1>7 DEF Engine!RecoveryReported, Engine!Continue, Engine!evidence,
                            Engine!outcome, Shaped
  <2>2. Landed(C)
    BY <1>1, <1>7 DEF Conn
  <2> QED
    BY <1>2, <1>4, <1>5, <2>1, <2>2 DEF CompensationLink, Undoing, InPlaceClaims
<1>8. CASE Engine!RecoveryReconciled(t) /\ Landed(C)
  <2>1. /\ at'[t] = "recoveryReconciled" /\ manualRecovery'[t] = "none"
        /\ finalize'[t] = finalize[t]
    BY <1>1, <1>4, <1>8 DEF Engine!RecoveryReconciled, Engine!Continue, Engine!evidence,
                            Engine!outcome, Shaped
  <2> QED
    BY <1>2, <1>4, <1>5, <1>8, <2>1 DEF CompensationLink, Undoing, InPlaceClaims
<1>9. CASE Engine!RecoveryUnresolved(t)
  <2>1. /\ at'[t] = "finish" /\ finalize'[t] = finalize[t]
        /\ manualRecovery'[t] = "ask the provider about the compensation"
        /\ observations'[t] =
             observations[t] \union {Engine!Observed("compensation_reconciliation", FALSE)}
    BY <1>1, <1>9 DEF Engine!RecoveryUnresolved, Engine!Continue, Engine!Instruct,
                      Engine!Observe, Engine!outcome, Shaped
  <2>2. Restored(t)' => Restored(t)
    BY <2>1 DEF Restored, Saw, Engine!Observed
  <2> QED
    BY <1>1, <1>2, <1>4, <1>5, <2>1, <2>2 DEF CompensationLink, Ending, InPlaceClaims
<1>10. ASSUME NEW error \in MutateErrors(replies[C], "COMPENSATION_BLOCKED"),
              Engine!RecoveryThrows(t, error)
       PROVE  CompensationLink(t)'
  <2>1. /\ at[t] = "recovering" /\ observations'[t] = observations[t]
        /\ finalize'[t] = finalize[t]
    BY <1>10 DEF Engine!RecoveryThrows, Engine!Awaits, Engine!outcome
  <2>2. CASE Engine!OutcomeUnknown(error)
    <3>1. at'[t] = "reconcileRecovery" /\ manualRecovery'[t] = "none"
      BY <1>1, <1>4, <1>10, <2>2 DEF Engine!RecoveryThrows, Engine!RecoveryCatch,
           Engine!Continue, Engine!OutcomeUnknown, Shaped
    <3>2. Restored(t)' => Restored(t)
      BY <2>1, <3>1 DEF Restored, Saw
    <3> QED
      BY <1>1, <1>2, <1>4, <1>5, <2>1, <3>1, <3>2 DEF CompensationLink, Undoing, InPlaceClaims
  <2>3. CASE ~Engine!OutcomeUnknown(error)
    <3>1. at'[t] = "finish" /\ manualRecovery'[t] \in InPlaceClaims
      BY <1>1, <1>10, <2>3 DEF Engine!RecoveryThrows, Engine!RecoveryCatch,
           Engine!Continue, Engine!Instruct, Shaped, InPlaceClaims
    <3>2. replies[C] \in Fruitless
      BY <2>3, ErrorsOfAnswers
    <3>3. Restored(t)' => Restored(t)
      BY <2>1, <3>1 DEF Restored, Saw, InPlaceClaims
    <3> QED
      BY <1>1, <1>2, <1>4, <1>5, <2>1, <3>1, <3>2, <3>3
         DEF CompensationLink, Ending, InPlaceClaims
  <2> QED
    BY <2>2, <2>3
<1> QED
  BY <1>6, <1>7, <1>8, <1>9, <1>10 DEF ReceiveCompensation

-----------------------------------------------------------------------------
(***************************************************************************)
(* The previews, and the requests made of them.                            *)
(***************************************************************************)
\* A preview is of the document that is there.
LEMMA PreviewsAreTyped ==
  ASSUME TypesInv, NEW t \in Txns
  PROVE  LET p == Effect!buildPreflight(document, Expected(t)) IN
         p \in Preflights /\ p.before = document
<1>1. document \in Service!Documents /\ document.fields \in [Fields -> Values]
  BY DEF TypesInv, Service!TypeOK, Service!Documents
<1>2. Expected(t) \in [Fields -> Values]
  <2>1. \A f \in MaterialFields : input[t][f] \in Values
    BY DEF TypesInv
  <2> QED
    BY <1>1, <2>1 DEF Expected
<1> QED
  BY <1>1, <1>2 DEF Effect!buildPreflight, Preflights

\* What was previewed stays what it is, while the document only moves on.
LEMMA SnapshotStays ==
  ASSUME NEW t, Snapshot(t), Previewed(t)' => Previewed(t), preflight'[t] = preflight[t],
         document.version \in Nat,
         document' = document \/ document'.version = document.version + 1
  PROVE  Snapshot(t)'
<1> SUFFICES ASSUME Previewed(t)' PROVE Snapshot(t)'
  BY DEF Snapshot
<1>1. /\ preflight[t] \in Preflights /\ preflight[t].before.version <= document.version
      /\ preflight[t].before.version = document.version => preflight[t].before = document
  BY DEF Snapshot
<1>2. preflight[t].before.version \in Nat
  BY <1>1 DEF Preflights, Service!Documents
<1>3. (preflight[t] \in Preflights)'
  BY <1>1 DEF Preflights, Service!Documents
<1> QED
  BY <1>1, <1>2, <1>3 DEF Snapshot

\* So do the requests made of it.
LEMMA AskedStays ==
  ASSUME NEW t, Asked(t), preflight'[t] = preflight[t], input' = input,
         requests' \subseteq requests
  PROVE  Asked(t)'
<1>1. /\ ForwardRequest(t)' = ForwardRequest(t)
      /\ CompensationRequest(t)' = CompensationRequest(t)
  BY DEF ForwardRequest, CompensationRequest, Effect!restoreValues
<1> QED
  BY <1>1 DEF Asked

-----------------------------------------------------------------------------
(***************************************************************************)
(* Every step keeps the links.                                             *)
(***************************************************************************)
\* The links of one run.
Linked(t) == ForwardLink(t) /\ CompensationLink(t) /\ Snapshot(t) /\ Asked(t)

\* A run that a step leaves alone, whatever the step does to the rest.
LEMMA OthersStayLinked ==
  ASSUME TypesInv, NEW u \in Txns, Linked(u), ForwardAside(u), CompensationAside(u),
         at'[u] \in Sending => at[u] \in Sending,
         Kept(Forward(u)), Kept(Compensation(u)),
         preflight'[u] = preflight[u], input' = input,
         \A r \in requests' \ requests : r.key # Forward(u) /\ r.key # Compensation(u),
         document' = document \/ document'.version = document.version + 1
  PROVE  Linked(u)'
<1>1. document.version \in Nat
  BY DEF TypesInv, Service!TypeOK, Service!Documents
<1>2. Previewed(u)' => Previewed(u)
  BY DEF Previewed, Kept, Fruitless
<1>3. Snapshot(u)'
  BY <1>1, <1>2, SnapshotStays DEF Linked
<1>4. /\ ForwardRequest(u)' = ForwardRequest(u)
      /\ CompensationRequest(u)' = CompensationRequest(u)
  BY DEF ForwardRequest, CompensationRequest, Effect!restoreValues
<1>5. Asked(u)'
  BY <1>4 DEF Asked, Linked
<1> QED
  BY <1>3, <1>5, ForwardStays, CompensationStays DEF Linked

\* The service and the connections.
LEMMA OthersKeepLinks ==
  ASSUME LinkInv, Others \/ \E key \in Keys : GiveUp(key)
  PROVE  LinkInv'
<1>1. /\ TypesInv' /\ \A key \in Keys : Conn(key)' /\ Kept(key)
      /\ requests' \subseteq requests
      /\ document' = document \/ document'.version = document.version + 1
      /\ UNCHANGED <<engine, effect>>
  BY OthersKeep DEF LinkInv
<1>2. ASSUME NEW u \in Txns
      PROVE  Linked(u)'
  <2>1. /\ UNCHANGED <<at, todo, action, forwardDispatchCount, observations, manualRecovery,
                       finalize, input, preflight>>
    BY <1>1 DEF engine, effect
  <2>2. ForwardAside(u) /\ CompensationAside(u)
    BY <2>1 DEF ForwardAside, CompensationAside, Saw, Restored, Dismissed, Rejecting
  <2> QED
    BY <1>1, <2>1, <2>2, KeysDiffer, OthersStayLinked DEF LinkInv, Linked
<1> QED
  BY <1>1, <1>2 DEF LinkInv, Linked

\* A run, as far as the other runs are concerned.
LEMMA RunsKeepOthersLinks ==
  ASSUME EngineInv, LinkInv, NEW t \in Txns, RunStep(t) \/ JournalWrite(t),
         NEW u \in Txns, u # t,
         Kept(Forward(u)), Kept(Compensation(u)), preflight'[u] = preflight[u], input' = input,
         \A r \in requests' \ requests : r.key \in {Forward(t), Compensation(t)},
         document' = document
  PROVE  Linked(u)'
<1>1. {} \subseteq Law!LedgerFault /\ RecoveryErrors \subseteq Law!AnyRecoveryError
  BY DEF RecoveryErrors, Law!AnyRecoveryError
<1>2. Law!Untouched(u)
  BY <1>1, OwnStepOfTheEngine, Law!OthersUntouched DEF EngineInv, Law!LegalInv
<1>3. ForwardAside(u) /\ CompensationAside(u) /\ at'[u] = at[u]
  BY <1>2, UntouchedIsAside
<1>4. \A r \in requests' \ requests : r.key # Forward(u) /\ r.key # Compensation(u)
  BY KeysDiffer
<1>5. TypesInv /\ Linked(u)
  BY DEF LinkInv, Linked
<1> QED
  BY <1>3, <1>4, <1>5, OthersStayLinked

\* A run, as far as the provider and the run itself are concerned.
LEMMA RunsKeepLinks ==
  ASSUME EngineInv, LinkInv, NEW t \in Txns, RunStep(t) \/ JournalWrite(t)
  PROVE  LinkInv'
<1>1. /\ TypesInv /\ (\A key \in Keys : Conn(key)) /\ Linked(t) /\ Shaped
      /\ document.version \in Nat
  BY EngineKnows DEF LinkInv, Linked, TypesInv, Service!TypeOK, Service!Documents
<1>2. SUFFICES /\ TypesInv' /\ (\A key \in Keys : Conn(key)') /\ Linked(t)'
               /\ \A u \in Txns \ {t} : Kept(Forward(u)) /\ Kept(Compensation(u))
               /\ \A u \in Txns \ {t} : preflight'[u] = preflight[u]
               /\ input' = input /\ document' = document
               /\ \A r \in requests' \ requests : r.key \in {Forward(t), Compensation(t)}
  <2>1. \A u \in Txns \ {t} : Linked(u)'
    BY <1>2, RunsKeepOthersLinks
  <2> QED
    BY <1>2, <2>1 DEF LinkInv, Linked
<1>3. CASE SendForward(t)
  <2>1. /\ TypesInv' /\ \A key \in Keys : Conn(key)'
        /\ ForwardLink(t)' /\ CompensationLink(t)'
        /\ \A key \in Keys : key # Forward(t) => Kept(key)
        /\ requests' \subseteq requests \union {ForwardRequest(t)}
        /\ at[t] \in Sending /\ document' = document
    BY <1>3, SendForwardLinks
  <2>2. preflight' = preflight /\ input' = input
    BY <1>3 DEF SendForward, effect
  <2>3. /\ ForwardRequest(t)' = ForwardRequest(t)
        /\ CompensationRequest(t)' = CompensationRequest(t)
    BY <2>2 DEF ForwardRequest, CompensationRequest, Effect!restoreValues
  <2>4. ForwardRequest(t).key = Forward(t) /\ Forward(t) # Compensation(t)
    BY KeysDiffer DEF ForwardRequest
  <2>5. Asked(t)'
    BY <1>1, <2>1, <2>3, <2>4 DEF Asked, Linked
  <2>6. Snapshot(t)'
    BY <1>1, <2>1, <2>2, SnapshotStays DEF Previewed, Linked
  <2>7. \A r \in requests' \ requests : r.key = Forward(t)
    BY <2>1, <2>4
  <2>8. \A u \in Txns \ {t} : Kept(Forward(u)) /\ Kept(Compensation(u))
    BY <2>1, KeysDiffer
  <2> QED
    BY <2>1, <2>2, <2>5, <2>6, <2>7, <2>8 DEF Linked
<1>4. CASE SendCompensation(t)
  <2>1. /\ TypesInv' /\ \A key \in Keys : Conn(key)'
        /\ ForwardLink(t)' /\ CompensationLink(t)'
        /\ \A key \in Keys : key # Compensation(t) => Kept(key)
        /\ requests' \subseteq requests \union {CompensationRequest(t)}
        /\ at'[t] \notin Sending /\ document' = document
    BY <1>4, SendCompensationLinks
  <2>2. preflight' = preflight /\ input' = input
    BY <1>4 DEF SendCompensation, effect
  <2>3. /\ ForwardRequest(t)' = ForwardRequest(t)
        /\ CompensationRequest(t)' = CompensationRequest(t)
    BY <2>2 DEF ForwardRequest, CompensationRequest, Effect!restoreValues
  <2>4. CompensationRequest(t).key = Compensation(t) /\ Forward(t) # Compensation(t)
    BY KeysDiffer DEF CompensationRequest
  <2>5. Asked(t)'
    BY <1>1, <2>1, <2>3, <2>4 DEF Asked, Linked
  <2>6. Kept(Forward(t))
    BY <2>1, KeysDiffer
  <2>7. Previewed(t)' => Previewed(t)
    BY <2>1, <2>6 DEF Previewed, Kept, Fruitless
  <2>8. Snapshot(t)'
    BY <1>1, <2>1, <2>2, <2>7, SnapshotStays DEF Linked
  <2>9. \A r \in requests' \ requests : r.key = Compensation(t)
    BY <2>1, <2>4
  <2>10. \A u \in Txns \ {t} : Kept(Forward(u)) /\ Kept(Compensation(u))
    BY <2>1, KeysDiffer
  <2> QED
    BY <2>1, <2>2, <2>5, <2>8, <2>9, <2>10 DEF Linked
<1>5. CASE ~Sends(t)
  <2>1. UNCHANGED service /\ input' = input
    BY <1>5, RunsLeaveTheService
  <2>2. /\ UNCHANGED <<document, operations, requests, replies>>
        /\ \A key \in Keys : Conn(key)' /\ Kept(key)
    BY <1>1, <2>1, UnchangedIsKept DEF service
  <2>3. \A u \in Txns : Kept(Forward(u)) /\ Kept(Compensation(u))
    BY <2>2, KeysDiffer
  <2>4. Service!TypeOK'
    BY <1>1, <2>2 DEF TypesInv, Service!TypeOK
  <2>5. CASE Previews(t)
    <3> DEFINE p == Effect!buildPreflight(document, Expected(t))
    <3>1. at[t] = "preflight" /\ preflight' = [preflight EXCEPT ![t] = p]
      BY <2>5 DEF Previews, Engine!Preflighted, Engine!Awaits
    <3>2. replies[Forward(t)] = "none"
      BY <1>1, <3>1, EngineKnows DEF Linked, ForwardLink
    <3>3. replies[Compensation(t)] = "none"
      BY <1>1, <3>1 DEF Linked, CompensationLink, Ending, Undoing
    <3>4. ~OnItsWay(Forward(t)) /\ ~OnItsWay(Compensation(t))
      BY <1>1, <3>2, <3>3, KeysDiffer DEF Conn, Fruitless
    <3>5. Asked(t)'
      BY <2>2, <3>4 DEF Asked, OnItsWay
    <3>6. p \in Preflights /\ p.before = document
      BY <1>1, PreviewsAreTyped
    <3>7. preflight'[t] = p /\ DOMAIN preflight' = Txns
      BY <1>1, <3>1 DEF TypesInv
    <3> HIDE DEF p
    <3>8. Snapshot(t)'
      BY <1>1, <2>2, <3>6, <3>7 DEF Snapshot, Preflights, Service!Documents
    <3>9. ForwardLink(t)' /\ CompensationLink(t)'
      BY <1>1, <2>3, <2>5, ForwardStepsAreAside, RecoveryStepsAreAside, ForwardStays,
         CompensationStays DEF Previews, Linked
    <3>10. TypesInv'
      BY <1>1, <2>1, <2>4, <3>7 DEF TypesInv
    <3> QED
      BY <2>1, <2>2, <2>3, <3>1, <3>5, <3>8, <3>9, <3>10 DEF Linked
  <2>6. ASSUME preflight' = preflight, at'[t] \in Sending => at[t] \in Sending
        PROVE  TypesInv' /\ Snapshot(t)' /\ Asked(t)'
    <3>1. TypesInv'
      BY <1>1, <2>1, <2>4, <2>6 DEF TypesInv
    <3>2. Previewed(t)' => Previewed(t)
      BY <2>2, <2>6 DEF Previewed
    <3>3. Snapshot(t)'
      BY <1>1, <2>2, <2>6, <3>2, SnapshotStays DEF Linked
    <3> QED
      BY <1>1, <2>1, <2>2, <2>6, <3>1, <3>3, AskedStays DEF Linked
  <2>7. CASE JournalWrite(t)
    <3>1. preflight' = preflight
      BY <2>7 DEF JournalWrite, effect
    <3>2. /\ ForwardAside(t) /\ CompensationAside(t)
          /\ at'[t] \in Sending => at[t] \in Sending
      BY <2>7, WritesAreAside
    <3>3. ForwardLink(t)' /\ CompensationLink(t)'
      BY <1>1, <2>3, <3>2, ForwardStays, CompensationStays DEF Linked
    <3> QED
      BY <2>1, <2>2, <2>3, <2>6, <3>1, <3>2, <3>3 DEF Linked
  <2>8. CASE Aside(t) /\ UNCHANGED preflight
    <3>1. /\ ForwardAside(t) /\ CompensationAside(t)
          /\ at'[t] \in Sending => at[t] \in Sending
      BY <1>1, <2>8, AsideIsAside
    <3>2. ForwardLink(t)' /\ CompensationLink(t)'
      BY <1>1, <2>3, <3>1, ForwardStays, CompensationStays DEF Linked
    <3> QED
      BY <2>1, <2>2, <2>3, <2>6, <2>8, <3>1, <3>2 DEF Linked
  <2>9. CASE Reads(t) /\ UNCHANGED preflight
    <3>1. at[t] # "preflight"
      BY <2>9 DEF Reads, ReceiveForward, ReceiveCompensation, Engine!Reconciled,
           Engine!DispatchReported, Engine!DispatchThrows, Engine!BlockedObserved,
           Engine!RecoveryReported, Engine!RecoveryThrows, Engine!RecoveryReconciled,
           Engine!RecoveryUnresolved, Engine!Awaits
    <3>2. CASE ReceiveForward(t) \/ (Engine!Reconciled(t) /\ Landed(Forward(t)))
      <4>1. CompensationAside(t) /\ at'[t] \notin Sending
        BY <1>1, <3>1, <3>2, ForwardStepsAreAside DEF ReceiveForward
      <4>2. CompensationLink(t)'
        BY <1>1, <2>3, <4>1, CompensationStays DEF Linked
      <4>3. ForwardLink(t)'
        BY <2>1, <3>2, ForwardReadsLink
      <4> QED
        BY <2>1, <2>2, <2>3, <2>6, <2>9, <4>1, <4>2, <4>3 DEF Linked
    <3>3. CASE \/ Engine!BlockedObserved(t) \/ ReceiveCompensation(t)
               \/ Engine!RecoveryReconciled(t) /\ Landed(Compensation(t))
               \/ Engine!RecoveryUnresolved(t)
      <4>1. ForwardAside(t) /\ at'[t] \notin Sending
        BY <1>1, <3>1, <3>3, RecoveryStepsAreAside DEF ReceiveCompensation
      <4>2. ForwardLink(t)'
        BY <1>1, <2>3, <4>1, ForwardStays DEF Linked
      <4>3. CompensationLink(t)'
        BY <2>1, <3>3, CompensationReadsLink
      <4> QED
        BY <2>1, <2>2, <2>3, <2>6, <2>9, <4>1, <4>2, <4>3 DEF Linked
    <3> QED
      BY <2>9, <3>2, <3>3 DEF Reads
  <2> QED
    BY <1>5, <2>5, <2>7, <2>8, <2>9, KindsOfSteps
<1> QED
  BY <1>3, <1>4, <1>5 DEF Sends

\* At first nothing was sent.
LEMMA InitLinks == Init => LinkInv
<1> SUFFICES ASSUME Init PROVE LinkInv
  OBVIOUS
<1>1. /\ \A key \in Keys : replies[key] = "none" /\ ~Landed(key)
      /\ requests = {}
  BY DEF Init, Service!Init, Landed, Service!Recorded
<1>2. TypesInv
  BY DEF Init, Service!Init, TypesInv, Service!TypeOK, Service!Documents, Service!Replies
<1>3. \A key \in Keys : Conn(key)
  BY <1>1 DEF Conn, OnItsWay
<1>4. ASSUME NEW t \in Txns
      PROVE  Linked(t)
  <2>1. /\ at[t] = "idle" /\ todo[t] = <<>> /\ action[t] = "PROPOSED"
        /\ forwardDispatchCount[t] = 0 /\ observations[t] = {}
        /\ manualRecovery[t] = "none" /\ finalize[t] = "not called"
    BY DEF Init, Engine!Init
  <2>2. replies[Forward(t)] = "none" /\ replies[Compensation(t)] = "none"
    BY <1>1, KeysDiffer
  <2>3. ~Saw(t, "dispatch") /\ ~Saw(t, "reconciliation") /\ ~Saw(t, "recovery_verification")
    BY <2>1 DEF Saw
  <2>4. ~Rejecting(t)
    <3>1. \A i \in DOMAIN todo[t] : todo[t][i].to # "PROVIDER_REJECTED"
      <4>1. DOMAIN <<>> = {}
        OBVIOUS
      <4> QED
        BY <2>1, <4>1
    <3> QED
      BY <2>1, <3>1 DEF Rejecting
  <2>5. ForwardLink(t)
    BY <2>1, <2>2, <2>3, <2>4 DEF ForwardLink, Dismissed, NothingClaims
  <2>6. CompensationLink(t)
    BY <2>1, <2>2, <2>3 DEF CompensationLink, Restored, InPlaceClaims
  <2>7. Snapshot(t) /\ Asked(t)
    BY <1>1, <2>1, <2>2 DEF Snapshot, Previewed, Sending, Asked
  <2> QED
    BY <2>5, <2>6, <2>7 DEF Linked
<1> QED
  BY <1>2, <1>3, <1>4 DEF LinkInv, Linked

\* What a run knows, or says, of its writes is so at the provider.
LEMMA StepLinks == EngineInv /\ LinkInv /\ [Next]_vars => LinkInv'
<1> SUFFICES ASSUME EngineInv, LinkInv, [Next]_vars PROVE LinkInv'
  OBVIOUS
<1>1. ASSUME UNCHANGED vars PROVE LinkInv'
  <2>1. UNCHANGED <<at, todo, action, forwardDispatchCount, observations, manualRecovery,
                    finalize, document, operations, requests, replies, input, preflight>>
    BY <1>1 DEF vars, engine, service, effect
  <2>2. TypesInv'
    BY <2>1 DEF LinkInv, TypesInv, Service!TypeOK
  <2>3. \A key \in Keys : Conn(key)'
    BY <2>1 DEF LinkInv, Conn, Landed, OnItsWay, Service!Recorded
  <2>4. ASSUME NEW t \in Txns PROVE Linked(t)'
    <3>1. ForwardAside(t) /\ CompensationAside(t) /\ at'[t] = at[t]
      BY <2>1 DEF ForwardAside, CompensationAside, Saw, Restored, Dismissed, Rejecting
    <3>2. \A key : Kept(key)
      BY <2>1, UnchangedIsKept DEF service
    <3> QED
      BY <2>1, <3>1, <3>2, OthersStayLinked DEF LinkInv, Linked
  <2> QED
    BY <2>2, <2>3, <2>4 DEF LinkInv, Linked
<1> QED
  BY <1>1, RunsKeepLinks, OthersKeepLinks DEF Next

\* So the link holds in every state of the composed system.
LEMMA LinkInvariant == Spec => []LinkInv
BY InitLinks, StepLinks, EngineInvInvariant, PTL DEF Spec

-----------------------------------------------------------------------------
(***************************************************************************)
(* No run expires: the state machine has the state, run() never asks for   *)
(* it, and VerdictOf has no word for it.                                   *)
(***************************************************************************)
NoExpiry(t) ==
  /\ transaction[t] # "EXPIRED"
  /\ \A i \in DOMAIN todo[t] : todo[t][i].to # "EXPIRED"

ExpiryInv == \A t \in Txns : NoExpiry(t)

\* The steps around the forward write.
LEMMA ForwardQueues ==
  ASSUME Shaped, NEW t \in Txns,
         \/ Engine!Dispatch(t) \/ Engine!DispatchReported(t)
         \/ \E error : Engine!DispatchThrows(t, error)
         \/ Engine!Reconciled(t)
  PROVE  /\ transaction' = transaction
         /\ \A i \in DOMAIN todo'[t] : todo'[t][i].to # "EXPIRED"
<1>1. transaction' = transaction
  BY DEF Engine!Dispatch, Engine!DispatchReported, Engine!DispatchThrows, Engine!Reconciled,
         Engine!states
<1>2. \/ todo'[t] = <<>>
      \/ todo'[t] = <<Engine!Ev("action.dispatch_reported"), Engine!Act("REPORTED_SUCCEEDED")>>
      \/ todo'[t] = <<Engine!Act("OUTCOME_UNKNOWN"), Engine!Tx("RECONCILING"),
                      Engine!Act("RECONCILING")>>
      \/ todo'[t] = <<Engine!Act("PROVIDER_REJECTED"), Engine!Tx("FAILURE_DETECTED"),
                      Engine!Tx("MANUAL_RECOVERY_REQUIRED")>>
      \/ todo'[t] = <<Engine!Ev("action.reconciled"), Engine!Act("REPORTED_SUCCEEDED"),
                      Engine!Tx("VERIFYING")>>
  BY DEF Engine!Dispatch, Engine!DispatchReported, Engine!DispatchThrows, Engine!DispatchCatch,
         Engine!Reconciled, Engine!Continue, Shaped
<1>3. \A i \in DOMAIN todo'[t] : todo'[t][i].to # "EXPIRED"
  BY <1>2 DEF Engine!Ev, Engine!Act, Engine!Tx, Engine!Write
<1> QED
  BY <1>1, <1>3

\* Every step of a run, and its writes, which take what is queued.
LEMMA RunsExpireNothing ==
  ASSUME EngineInv, LinkInv, NEW t \in Txns, NoExpiry(t), RunStep(t) \/ JournalWrite(t)
  PROVE  NoExpiry(t)'
<1>1. Shaped /\ Law!TypeOK /\ Law!Legal(t)
  BY EngineKnows DEF EngineInv, Law!LegalInv
<1>2. CASE Engine!AppendEvent(t)
  <2> DEFINE s == todo[t]
  <2>1. s \in Seq(Law!Writes) /\ s # <<>>
    BY <1>1, <1>2 DEF Law!TypeOK, Engine!AppendEvent
  <2>2. /\ todo'[t] = Tail(s)
        /\ transaction'[t] = transaction[t] \/ transaction'[t] = s[1].to
    BY <1>1, <1>2 DEF Law!TypeOK, Engine!AppendEvent
  <2>3. /\ 1 \in DOMAIN s
        /\ \A i \in DOMAIN Tail(s) : i + 1 \in DOMAIN s /\ Tail(s)[i] = s[i + 1]
    BY <2>1
  <2> QED
    BY <2>2, <2>3 DEF NoExpiry
<1>3. CASE Engine!IllegalTransition(t)
  <2>1. todo'[t] = <<>> /\ transaction'[t] = transaction[t]
    BY <1>1, <1>3, IllegalOnlyAtTheEnd
       DEF Shaped, Engine!Throw, Engine!Continue, Engine!IllegalTransition, Engine!states
  <2> QED
    BY <2>1 DEF NoExpiry
<1>4. CASE Aside(t)
  BY <1>1, <1>4, AsideQueues DEF NoExpiry
<1>5. CASE \/ Engine!Dispatch(t) \/ Engine!DispatchReported(t)
           \/ \E error : Engine!DispatchThrows(t, error)
           \/ Engine!Reconciled(t)
  BY <1>1, <1>5, ForwardQueues DEF NoExpiry
<1>6. CASE \/ Engine!Preflighted(t) \/ Engine!BlockedObserved(t) \/ Engine!ExecuteRecovery(t)
           \/ Engine!RecoveryReported(t)
           \/ \E error : Engine!RecoveryThrows(t, error)
           \/ Engine!RecoveryReconciled(t) \/ Engine!RecoveryUnresolved(t)
  BY <1>1, <1>6, RecoveryStepsAreAside DEF NoExpiry
<1>7. CASE RunStep(t) /\ ~Sends(t)
  BY <1>4, <1>5, <1>6, <1>7, KindsOfSteps
     DEF Previews, Reads, ReceiveForward, ReceiveCompensation
<1>8. CASE Sends(t)
  BY <1>5, <1>6, <1>8 DEF Sends, SendForward, SendCompensation
<1> QED
  BY <1>2, <1>3, <1>7, <1>8 DEF JournalWrite

\* So no run of the composed system does.
LEMMA ExpiryInvariant == Spec => []ExpiryInv
<1>1. Init => ExpiryInv
  <2> SUFFICES ASSUME Init, NEW t \in Txns PROVE NoExpiry(t)
    BY DEF ExpiryInv
  <2>1. transaction[t] = "DRAFT" /\ todo[t] = <<>>
    BY DEF Init, Engine!Init
  <2>2. DOMAIN <<>> = {}
    OBVIOUS
  <2> QED
    BY <2>1, <2>2 DEF NoExpiry
<1>2. EngineInv /\ LinkInv /\ ExpiryInv /\ [Next]_vars => ExpiryInv'
  <2> SUFFICES ASSUME EngineInv, LinkInv, ExpiryInv, [Next]_vars, NEW u \in Txns
               PROVE  NoExpiry(u)'
    BY DEF ExpiryInv
  <2>1. NoExpiry(u)
    BY DEF ExpiryInv
  <2>2. transaction'[u] = transaction[u] /\ todo'[u] = todo[u] => NoExpiry(u)'
    BY <2>1 DEF NoExpiry
  <2>3. CASE UNCHANGED vars \/ Others \/ \E key \in Keys : GiveUp(key)
    BY <2>2, <2>3 DEF vars, engine, Others, GiveUp
  <2>4. ASSUME NEW t \in Txns, RunStep(t) \/ JournalWrite(t) PROVE NoExpiry(u)'
    <3>1. CASE t = u
      BY <2>1, <2>4, <3>1, RunsExpireNothing
    <3>2. CASE t # u
      <4>1. {} \subseteq Law!LedgerFault /\ RecoveryErrors \subseteq Law!AnyRecoveryError
        BY DEF RecoveryErrors, Law!AnyRecoveryError
      <4>2. Law!Untouched(u)
        BY <2>4, <3>2, <4>1, OwnStepOfTheEngine, Law!OthersUntouched
           DEF EngineInv, Law!LegalInv
      <4> QED
        BY <2>2, <4>2 DEF Law!Untouched
    <3> QED
      BY <3>1, <3>2
  <2> QED
    BY <2>3, <2>4 DEF Next
<1> QED
  BY <1>1, <1>2, EngineInvInvariant, LinkInvariant, PTL DEF Spec

-----------------------------------------------------------------------------
(***************************************************************************)
(* What the instructions say, and what a landing write finds.              *)
(***************************************************************************)
\* The instruction of a manual recovery ("transaction-engine.ts", the items of
\* manualRecovery): what it tells a person of the two writes is so, and stays so.
THEOREM TrueInstructions == Spec => []InstructionIsTrue
<1>1. LinkInv => InstructionIsTrue
  <2> SUFFICES ASSUME LinkInv PROVE InstructionIsTrue
    OBVIOUS
  <2>1. ASSUME NEW t \in Txns
        PROVE  /\ ForwardLink(t) /\ CompensationLink(t)
               /\ Conn(Forward(t)) /\ Conn(Compensation(t))
    BY KeysDiffer DEF LinkInv
  <2>2. ASSUME NEW t \in Txns, manualRecovery[t] \in NothingClaims
        PROVE  ~Landed(Forward(t)) /\ ~OnItsWay(Forward(t))
    BY <2>1, <2>2 DEF ForwardLink, Dismissed, Conn
  <2>3. ASSUME NEW t \in Txns, manualRecovery[t] \in InPlaceClaims
        PROVE  Landed(Forward(t)) /\ ~Landed(Compensation(t)) /\ ~OnItsWay(Compensation(t))
    BY <2>1, <2>3 DEF CompensationLink, Conn
  <2>4. ASSUME NEW t \in Txns, manualRecovery[t] = "compensation not proven"
        PROVE  Landed(Forward(t)) /\ Landed(Compensation(t))
    BY <2>1, <2>4 DEF CompensationLink, Restored, Conn, Fruitless
  <2>5. ASSUME NEW t \in Txns, manualRecovery[t] = "ask the provider about the compensation"
        PROVE  Landed(Forward(t))
    BY <2>1, <2>5 DEF CompensationLink
  <2> QED
    BY <2>2, <2>3, <2>4, <2>5 DEF InstructionIsTrue, NothingClaims, InPlaceClaims
<1> QED
  BY <1>1, LinkInvariant, PTL

\* A write lands in one way: its request is handled, for the first time.
LEMMA LandsByCommit ==
  ASSUME LinkInv, [Next]_vars, NEW key \in Keys, ~Landed(key), Landed(key)'
  PROVE  /\ \E r \in requests, fault \in Service!FaultModes :
              r.key = key /\ Service!Commit(r, fault)
         /\ \A k \in Keys : k # key => (Landed(k)' <=> Landed(k))
         /\ UNCHANGED <<engine, effect>>
<1>1. ~UNCHANGED operations
  BY DEF Landed, Service!Recorded
<1>2. ASSUME NEW t \in Txns, RunStep(t) \/ JournalWrite(t) PROVE FALSE
  <2>1. CASE Sends(t)
    BY <1>1, <2>1 DEF Sends, SendForward, SendCompensation, Service!Send, Service!FailToSend
  <2>2. CASE ~Sends(t)
    BY <1>1, <1>2, <2>2, RunsLeaveTheService DEF service
  <2> QED
    BY <2>1, <2>2
<1>3. Others
  <2>1. ~UNCHANGED vars /\ ~\E k \in Keys : GiveUp(k)
    BY <1>1 DEF vars, service, GiveUp, Service!Drop
  <2> QED
    BY <1>2, <2>1 DEF Next
<1>4. PICK r \in requests, fault \in Service!FaultModes : Service!Patch(r, fault)
  BY <1>1, <1>3 DEF Others, Service!Edit
<1>5. Service!TypeOK /\ r.key \in Keys /\ Conn(r.key)
  BY DEF LinkInv, TypesInv, Service!TypeOK, Service!Requests
<1>6. \A k \in Keys : k # r.key => (Landed(k)' <=> Landed(k))
  BY <1>4, <1>5, PatchSettles
<1>7. r.key = key
  BY <1>6
<1>8. Service!Commit(r, fault)
  BY <1>1, <1>4 DEF Service!Patch, Service!Replay, Service!Refuse, Service!Reject,
                    Service!FailPrecondition
<1> QED
  BY <1>3, <1>6, <1>7, <1>8 DEF Others

\* A request that is handled was asked for by a run that has its preview.
LEMMA AskedOfAPreview ==
  ASSUME LinkInv, NEW t \in Txns, NEW r \in requests
  PROVE  /\ r.key = Forward(t) =>
              /\ r = ForwardRequest(t) /\ Snapshot(t) /\ Previewed(t)
              /\ replies[Forward(t)] \notin Fruitless
         /\ r.key = Compensation(t) =>
              /\ r = CompensationRequest(t) /\ Snapshot(t) /\ Previewed(t)
              /\ replies[Compensation(t)] \notin Fruitless /\ Landed(Forward(t))
<1>1. /\ ForwardLink(t) /\ CompensationLink(t) /\ Snapshot(t) /\ Asked(t)
      /\ Conn(Forward(t)) /\ Conn(Compensation(t))
  BY KeysDiffer DEF LinkInv
<1>2. r.key = Forward(t) => replies[Forward(t)] \notin Fruitless
  BY <1>1 DEF Conn, OnItsWay
<1>3. r.key = Compensation(t) =>
        replies[Compensation(t)] \notin Fruitless /\ Landed(Forward(t))
  BY <1>1 DEF Conn, OnItsWay, CompensationLink, Fruitless
<1>4. Landed(Forward(t)) => replies[Forward(t)] # "none"
  BY <1>1 DEF Conn, Fruitless
<1> QED
  BY <1>1, <1>2, <1>3, <1>4 DEF Asked, Previewed, Fruitless

\* patch() of effect.ts sends the version of the preview as if-match: the forward
\* write never lands on a state anyone changed since.
THEOREM ForwardOnApprovedState == Spec => ForwardLandsOnApprovedState
<1> DEFINE OnApproved ==
      \A t \in Txns :
        ~Landed(Forward(t)) /\ Landed(Forward(t))' => document = preflight[t].before
<1>1. LinkInv /\ [Next]_vars => [OnApproved]_vars
  <2> SUFFICES ASSUME LinkInv, [Next]_vars, NEW t \in Txns,
                      ~Landed(Forward(t)), Landed(Forward(t))'
               PROVE  document = preflight[t].before
    OBVIOUS
  <2>1. PICK r \in requests, fault \in Service!FaultModes :
          r.key = Forward(t) /\ Service!Commit(r, fault)
    BY KeysDiffer, LandsByCommit
  <2>2. r = ForwardRequest(t) /\ Snapshot(t) /\ Previewed(t)
    BY <2>1, AskedOfAPreview
  <2>3. /\ r.ifMatch \in {NoIfMatch, document.version}
        /\ r.ifMatch = preflight[t].before.version
    BY <2>1, <2>2 DEF Service!Commit, Service!PreconditionHolds, ForwardRequest
  <2>4. preflight[t].before.version \in Nat /\ NoIfMatch \notin Nat
    BY <2>2, PublishAssumption DEF Snapshot, Preflights, Service!Documents
  <2> QED
    BY <2>2, <2>3, <2>4 DEF Snapshot
<1>2. Spec => [][OnApproved]_vars
  BY <1>1, LinkInvariant, PTL DEF Spec
<1> QED
  BY <1>2 DEF ForwardLandsOnApprovedState

\* compensate() of effect.ts patches restoreValues(): the fields of the diff and no
\* other, whatever anyone wrote in between.
THEOREM CompensationOfItsDiff == Spec => CompensationTouchesOnlyItsDiff
<1> DEFINE Touched ==
      \A t \in Txns :
        ~Landed(Compensation(t)) /\ Landed(Compensation(t))' =>
          \A f \in Fields :
            document'.fields[f] = IF f \in preflight[t].diff THEN preflight[t].before.fields[f]
                                                             ELSE document.fields[f]
<1>1. LinkInv /\ [Next]_vars => [Touched]_vars
  <2> SUFFICES ASSUME LinkInv, [Next]_vars, NEW t \in Txns,
                      ~Landed(Compensation(t)), Landed(Compensation(t))', NEW f \in Fields
               PROVE  document'.fields[f] =
                        IF f \in preflight[t].diff THEN preflight[t].before.fields[f]
                                                   ELSE document.fields[f]
    OBVIOUS
  <2>1. PICK r \in requests, fault \in Service!FaultModes :
          r.key = Compensation(t) /\ Service!Commit(r, fault)
    BY KeysDiffer, LandsByCommit
  <2>2. r.patch = Effect!restoreValues(preflight[t])
    BY <2>1, AskedOfAPreview DEF CompensationRequest
  <2>3. document'.fields = [g \in Fields |-> IF g \in DOMAIN r.patch THEN r.patch[g]
                                                                    ELSE document.fields[g]]
    BY <2>1 DEF Service!Commit, Service!Apply
  <2> QED
    BY <2>2, <2>3 DEF Effect!restoreValues
<1>2. Spec => [][Touched]_vars
  BY <1>1, LinkInvariant, PTL DEF Spec
<1> QED
  BY <1>2 DEF CompensationTouchesOnlyItsDiff


-----------------------------------------------------------------------------
(***************************************************************************)
(* The refinement of VerifiedEffect.  Every verdict a receipt gives is     *)
(* true when it is given, and the link keeps it so: the writes it speaks   *)
(* of have left, or never will.                                            *)
(***************************************************************************)
\* A verdict is true, and what would make it false has not left or never will.
Truthful(t) ==
  /\ VerdictOf(t) \in Promise!Verdicts
  /\ ~Law!HasReceipt(t) => VerdictOf(t) = "open"
  /\ VerdictOf(t) = "nothing" =>
       /\ replies[Forward(t)] \in Fruitless /\ replies[Compensation(t)] = "none"
       /\ EffectOf(t) = "none"
  /\ VerdictOf(t) = "committed" =>
       replies[Compensation(t)] = "none" /\ EffectOf(t) = "applied"
  /\ VerdictOf(t) = "compensated" => EffectOf(t) = "undone"

TruthInv == \A t \in Txns : Truthful(t)

\* A receipt is signed of a terminal state, and the state was not reached without
\* what the link asks of it.
LEMMA VerdictsAreTrue ==
  ASSUME EngineInv, LinkInv, ExpiryInv, NEW t \in Txns
  PROVE  Truthful(t)
<1> USE DEF Truthful
<1>1. /\ Law!TypeOK /\ Law!Outcome(t)
      /\ ForwardLink(t) /\ CompensationLink(t)
      /\ Conn(Forward(t)) /\ Conn(Compensation(t))
      /\ transaction[t] # "EXPIRED"
  BY KeysDiffer DEF EngineInv, Law!OutcomeInv, LinkInv, ExpiryInv, NoExpiry
<1>2. CASE ~Law!HasReceipt(t)
  <2>1. VerdictOf(t) = "open"
    BY <1>2 DEF VerdictOf, Law!HasReceipt, Law!NoReceipt
  <2> QED
    BY <1>2, <2>1 DEF Promise!Verdicts
<1>3. CASE Law!HasReceipt(t)
  <2>1. /\ receipt[t].finalStatus = transaction[t]
        /\ transaction[t] \in {"VERIFIED_COMMITTED", "VERIFIED_COMPENSATED",
                               "MANUAL_RECOVERY_REQUIRED", "APPROVAL_DENIED",
                               "PREFLIGHT_FAILED", "ABORTED"}
    BY <1>1, <1>3 DEF Law!Outcome, Law!Closing, Law!TerminalTransactionStates
  <2>2. CASE transaction[t] \in {"PREFLIGHT_FAILED", "APPROVAL_DENIED", "ABORTED"}
    <3>1. VerdictOf(t) = "nothing"
      BY <2>1, <2>2 DEF VerdictOf
    <3>2. forwardDispatchCount[t] = 0
      BY <1>1, <2>2 DEF Law!Outcome, Law!Refusing, Law!Ends, Law!RefusedStates
    <3>3. replies[Forward(t)] = "none"
      BY <1>1, <3>2 DEF ForwardLink
    <3>4. ~Landed(Forward(t)) /\ replies[Compensation(t)] = "none"
      BY <1>1, <3>3 DEF Conn, Fruitless, CompensationLink
    <3>5. ~Landed(Compensation(t))
      BY <1>1, <3>4 DEF Conn, Fruitless
    <3> QED
      BY <1>3, <3>1, <3>3, <3>4, <3>5 DEF EffectOf, Promise!Verdicts, Fruitless
  <2>3. CASE transaction[t] = "MANUAL_RECOVERY_REQUIRED" /\ action[t] = "PROVIDER_REJECTED"
    <3>1. VerdictOf(t) = "nothing"
      BY <2>1, <2>3 DEF VerdictOf, Engine!EffectMayHaveCommitted
    <3>2. replies[Forward(t)] \in Fruitless
      BY <1>1, <2>3 DEF ForwardLink, Dismissed, Rejecting
    <3>3. ~Landed(Forward(t)) /\ replies[Compensation(t)] = "none"
      BY <1>1, <3>2 DEF Conn, CompensationLink
    <3>4. ~Landed(Compensation(t))
      BY <1>1, <3>3 DEF Conn, Fruitless
    <3> QED
      BY <1>3, <3>1, <3>2, <3>3, <3>4 DEF EffectOf, Promise!Verdicts
  <2>4. CASE transaction[t] = "MANUAL_RECOVERY_REQUIRED" /\ action[t] # "PROVIDER_REJECTED"
    <3>1. VerdictOf(t) = "unresolved"
      BY <2>1, <2>4 DEF VerdictOf, Engine!EffectMayHaveCommitted
    <3> QED
      BY <1>3, <3>1 DEF Promise!Verdicts
  <2>5. CASE transaction[t] = "VERIFIED_COMMITTED"
    <3>1. VerdictOf(t) = "committed"
      BY <2>1, <2>5 DEF VerdictOf
    <3>2. Law!Applied(t) /\ finalize[t] \notin {"not called", "threw"}
      BY <1>1, <2>5 DEF Law!Outcome, Law!Committing, Law!Ends
    <3>3. finalize[t] \in {"returned", "threw undefined"}
      BY <1>1, <3>2 DEF Law!TypeOK, Law!FinalizeOutcomes
    <3>4. Landed(Forward(t)) /\ replies[Compensation(t)] = "none"
      BY <1>1, <3>2, <3>3
         DEF ForwardLink, CompensationLink, Law!Applied, Law!Saw, Law!Observed, Saw,
             Engine!Observed
    <3>5. ~Landed(Compensation(t))
      BY <1>1, <3>4 DEF Conn, Fruitless
    <3> QED
      BY <1>3, <3>1, <3>4, <3>5 DEF EffectOf, Promise!Verdicts
  <2>6. CASE transaction[t] = "VERIFIED_COMPENSATED"
    <3>1. VerdictOf(t) = "compensated"
      BY <2>1, <2>6 DEF VerdictOf
    <3>2. Law!Saw(t, "recovery_verification")
      BY <1>1, <2>6 DEF Law!Outcome, Law!Compensating, Law!Ends
    <3>3. Landed(Compensation(t))
      BY <1>1, <3>2
         DEF CompensationLink, Restored, Law!Saw, Law!Observed, Saw, Engine!Observed
    <3> QED
      BY <1>3, <3>1, <3>3 DEF EffectOf, Promise!Verdicts
  <2> QED
    BY <2>1, <2>2, <2>3, <2>4, <2>5, <2>6
<1> QED
  BY <1>2, <1>3

\* So it is of every receipt, in every state.
LEMMA TruthInvariant == Spec => []TruthInv
<1>1. EngineInv /\ LinkInv /\ ExpiryInv => TruthInv
  BY VerdictsAreTrue DEF TruthInv
<1> QED
  BY <1>1, EngineInvInvariant, LinkInvariant, ExpiryInvariant, PTL

\* A receipt is signed in one place.
LEMMA SignedInOnePlace ==
  ASSUME NEW t, Law!Start(t) \/ Law!InputThrows(t) \/ Law!Run(t), ~Law!SignReceipt(t)
  PROVE  receipt' = receipt
BY DEF Law!outcome, Law!Start, Law!InputThrows, Law!Run, Law!Admission, Law!Forward,
       Law!Recovery, Law!Journal, Law!AdapterThrows, Law!PreflightRejected, Law!Preflighted,
       Law!ApprovalRejected, Law!ApprovalConsumed, Law!ApprovalThrows, Law!Stale, Law!Fresh,
       Law!Dispatch, Law!DispatchReported, Law!DispatchThrows, Law!Reconciled, Law!Unresolved,
       Law!BeginVerifying, Law!Verified, Law!VerificationFailed, Law!Finalized,
       Law!FinalizeThrows, Law!FinalizeThrowsUndefined, Law!RecoveryUnsafe,
       Law!BlockedObserved, Law!RecoverySafe, Law!ExecuteRecovery, Law!RecoveryReported,
       Law!RecoveryThrows, Law!RecoveryReconciled, Law!RecoveryUnresolved,
       Law!BeginVerifyingRecovery, Law!RecoveryVerified, Law!RecoveryDisputed,
       Law!AppendEvent, Law!IllegalTransition, Law!AppendThrows, Law!FinishResult,
       Law!Return, Law!LedgerReadThrows

\* The mapped variables, by transaction.
LEMMA MappedPointwise ==
  /\ (\A t \in Txns : EffectOf(t)' = EffectOf(t)) =>
       [t \in Txns |-> EffectOf(t)]' = [t \in Txns |-> EffectOf(t)]
  /\ (\A t \in Txns : VerdictOf(t)' = VerdictOf(t)) =>
       [t \in Txns |-> VerdictOf(t)]' = [t \in Txns |-> VerdictOf(t)]
  /\ \A u \in Txns :
       (\A t \in Txns : t # u => EffectOf(t)' = EffectOf(t)) =>
         [t \in Txns |-> EffectOf(t)]' =
           [[t \in Txns |-> EffectOf(t)] EXCEPT ![u] = EffectOf(u)']
  /\ \A u \in Txns :
       (\A t \in Txns : t # u => VerdictOf(t)' = VerdictOf(t)) =>
         [t \in Txns |-> VerdictOf(t)]' =
           [[t \in Txns |-> VerdictOf(t)] EXCEPT ![u] = VerdictOf(u)']
OBVIOUS

\* What has landed and the receipt are all that the mapped variables read.
LEMMA EffectFollows ==
  ASSUME NEW t \in Txns,
         Landed(Forward(t))' <=> Landed(Forward(t)),
         Landed(Compensation(t))' <=> Landed(Compensation(t))
  PROVE  EffectOf(t)' = EffectOf(t)
BY DEF EffectOf

\* A step of a run changes nothing at the provider, and decides a verdict once.
LEMMA RunsDecide ==
  ASSUME EngineInv, EngineInv', TruthInv, TruthInv',
         NEW t \in Txns, RunStep(t) \/ JournalWrite(t)
  PROVE  [Promise!Next]_(Promise!vars)
<1>1. \A u \in Txns : EffectOf(u)' = EffectOf(u)
  <2>1. UNCHANGED operations
    <3>1. CASE Sends(t)
      BY <3>1 DEF Sends, SendForward, SendCompensation, Service!Send, Service!FailToSend
    <3>2. CASE ~Sends(t)
      BY <3>2, RunsLeaveTheService DEF service
    <3> QED
      BY <3>1, <3>2
  <2> QED
    BY <2>1 DEF EffectOf, Landed, Service!Recorded
<1>2. ASSUME NEW u \in Txns, u # t PROVE VerdictOf(u)' = VerdictOf(u)
  <2>1. {} \subseteq Law!LedgerFault /\ RecoveryErrors \subseteq Law!AnyRecoveryError
    BY DEF RecoveryErrors, Law!AnyRecoveryError
  <2>2. Law!Untouched(u)
    BY <1>2, <2>1, OwnStepOfTheEngine, Law!OthersUntouched DEF EngineInv, Law!LegalInv
  <2> QED
    BY <2>2 DEF VerdictOf, Engine!EffectMayHaveCommitted, Law!Untouched
<1>3. CASE Law!HasReceipt(t)
  <2>1. Law!Closing(t) /\ Law!Closing(t)'
    BY DEF EngineInv, Law!OutcomeInv, Law!Outcome
  <2>2. ~Law!SignReceipt(t)
    BY <1>3, <2>1 DEF Law!Closing, Law!SignReceipt, Law!Awaits
  <2>3. receipt' = receipt
    BY <2>2, OwnStepOfTheEngine, SignedInOnePlace
  <2>4. action'[t] = action[t]
    BY <1>3, <2>1, <2>3 DEF Law!Closing, Law!HasReceipt
  <2>5. VerdictOf(t)' = VerdictOf(t)
    BY <2>3, <2>4 DEF VerdictOf, Engine!EffectMayHaveCommitted
  <2> QED
    BY <1>1, <1>2, <2>5, MappedPointwise DEF Promise!vars
<1>4. CASE ~Law!HasReceipt(t)
  <2> DEFINE v == VerdictOf(t)'
  <2>1. VerdictOf(t) = "open"
    BY <1>4 DEF TruthInv, Truthful
  <2>2. /\ v \in Promise!Verdicts
        /\ v = "nothing"     => EffectOf(t)' = "none"
        /\ v = "committed"   => EffectOf(t)' = "applied"
        /\ v = "compensated" => EffectOf(t)' = "undone"
    BY DEF TruthInv, Truthful, Promise!Verdicts
  <2>3. CASE v = "open"
    BY <1>1, <1>2, <2>1, <2>3, MappedPointwise DEF Promise!vars
  <2>4. CASE v # "open"
    <3>1. Promise!Decide(t, v)
      BY <1>1, <1>2, <2>1, <2>2, MappedPointwise DEF Promise!Decide
    <3> QED
      BY <2>2, <2>4, <3>1 DEF Promise!Next
  <2> QED
    BY <2>3, <2>4
<1> QED
  BY <1>3, <1>4

\* What the service does is an effect applied or undone whose verdict is open.
LEMMA OthersApply ==
  ASSUME LinkInv, TruthInv, [Next]_vars,
         UNCHANGED vars \/ Others \/ \E key \in Keys : GiveUp(key)
  PROVE  [Promise!Next]_(Promise!vars)
<1>1. UNCHANGED engine
  BY DEF vars, Others, GiveUp
<1>2. \A t \in Txns : VerdictOf(t)' = VerdictOf(t)
  BY <1>1 DEF engine, VerdictOf, Engine!EffectMayHaveCommitted
<1>3. \A key \in Keys : Landed(key) => Landed(key)'
  <2>1. CASE UNCHANGED vars
    BY <2>1 DEF vars, service, Landed, Service!Recorded
  <2>2. CASE Others \/ \E key \in Keys : GiveUp(key)
    BY <2>2, OthersKeep DEF LinkInv, Kept
  <2> QED
    BY <2>1, <2>2
<1>4. CASE \A key \in Keys : Landed(key)' => Landed(key)
  <2>1. \A t \in Txns : EffectOf(t)' = EffectOf(t)
    BY <1>3, <1>4, KeysDiffer, EffectFollows
  <2> QED
    BY <1>2, <2>1, MappedPointwise DEF Promise!vars
<1>5. ASSUME NEW key \in Keys, ~Landed(key), Landed(key)' PROVE Promise!Next
  <2>1. /\ \A k \in Keys : k # key => (Landed(k)' <=> Landed(k))
        /\ \E r \in requests : r.key = key
    BY <1>5, LandsByCommit
  <2>2. PICK r \in requests : r.key = key
    BY <2>1
  <2>3. CASE \E t \in Txns : key = Forward(t)
    <3>1. PICK t \in Txns : key = Forward(t)
      BY <2>3
    <3>2. \A u \in Txns : u # t => EffectOf(u)' = EffectOf(u)
      BY <2>1, <3>1, KeysDiffer, EffectFollows
    <3>3. replies[Forward(t)] \notin Fruitless
      BY <2>2, <3>1, AskedOfAPreview
    <3>4. ~Landed(Compensation(t))
      <4>1. Conn(Compensation(t)) /\ CompensationLink(t)
        BY KeysDiffer DEF LinkInv
      <4> QED
        BY <1>5, <3>1, <4>1 DEF Conn, CompensationLink, Fruitless
    <3>5. EffectOf(t) = "none" /\ EffectOf(t)' = "applied"
      BY <1>5, <2>1, <3>1, <3>4, KeysDiffer DEF EffectOf
    <3>6. VerdictOf(t) \in {"open", "unresolved"}
      BY <3>3, <3>5 DEF TruthInv, Truthful, Promise!Verdicts
    <3>7. Promise!Apply(t)
      BY <1>2, <3>2, <3>5, <3>6, MappedPointwise DEF Promise!Apply, Promise!Undecided
    <3> QED
      BY <3>7 DEF Promise!Next
  <2>4. CASE \E t \in Txns : key = Compensation(t)
    <3>1. PICK t \in Txns : key = Compensation(t)
      BY <2>4
    <3>2. \A u \in Txns : u # t => EffectOf(u)' = EffectOf(u)
      BY <2>1, <3>1, KeysDiffer, EffectFollows
    <3>3. replies[Compensation(t)] \notin Fruitless /\ Landed(Forward(t))
      BY <2>2, <3>1, AskedOfAPreview
    <3>4. EffectOf(t) = "applied" /\ EffectOf(t)' = "undone"
      BY <1>5, <3>1, <3>3 DEF EffectOf
    <3>5. VerdictOf(t) \in {"open", "unresolved"}
      BY <3>3, <3>4 DEF TruthInv, Truthful, Promise!Verdicts, Fruitless
    <3>6. Promise!Undo(t)
      BY <1>2, <3>2, <3>4, <3>5, MappedPointwise DEF Promise!Undo, Promise!Undecided
    <3> QED
      BY <3>6 DEF Promise!Next
  <2> QED
    BY <2>3, <2>4, KeysDiffer
<1> QED
  BY <1>4, <1>5

\* run() against the example's provider implements VerifiedEffect: one effect per
\* transaction, at most one compensation of it, and a verdict that is true when
\* it is given and stays true.
THEOREM PromiseKept == Spec => KeepsPromise
<1>1. Init => Promise!Init
  <2> SUFFICES ASSUME Init PROVE Promise!Init
    OBVIOUS
  <2>1. ASSUME NEW t \in Txns PROVE EffectOf(t) = "none"
    BY KeysDiffer DEF Init, Service!Init, EffectOf, Landed, Service!Recorded
  <2>2. ASSUME NEW t \in Txns PROVE VerdictOf(t) = "open"
    BY DEF Init, Engine!Init, Engine!NoReceipt, VerdictOf
  <2> QED
    BY <2>1, <2>2 DEF Promise!Init
<1>2. EngineInv /\ EngineInv' /\ LinkInv /\ TruthInv /\ TruthInv' /\ [Next]_vars =>
        [Promise!Next]_(Promise!vars)
  BY RunsDecide, OthersApply DEF Next
<1>3. Spec => [][Promise!Next]_(Promise!vars)
  BY <1>2, EngineInvInvariant, LinkInvariant, TruthInvariant, PTL DEF Spec
<1> QED
  BY <1>1, <1>3, PTL DEF Spec, KeepsPromise, Promise!Spec
=============================================================================
