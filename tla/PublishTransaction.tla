------------------------- MODULE PublishTransaction -------------------------
(***************************************************************************)
(* The worked example as a whole: TransactionEngine runs the publish       *)
(* effect of src/examples/rest-resource/effect.ts, through defineEffect,   *)
(* against DocumentService, while people edit the document and connections *)
(* fail.  Every answer the engine's actions leave open is computed here    *)
(* from the state of the service at the moment it is read.                 *)
(*                                                                         *)
(* A journal write touches only its own run and the events of its own      *)
(* transaction, so it commutes with every step of the service and of other *)
(* runs: the writes of a run are taken before any other step (Quiet).      *)
(***************************************************************************)
EXTENDS Naturals, Sequences

CONSTANTS
  Txns,          \* the transactions, each one call of run()
  Fields,        \* the fields of the document that patches may carry
  MaterialFields,
  Values,
  Compensable,   \* whether the effect declares compensate()
  Absent, NoOperation, NoIfMatch, NoPreflight,
  MaxVersion,    \* bound: people edit the document up to this version
  MaxInFlight

VARIABLES
  at, todo, transaction, action, forwardDispatchCount, observations, finality, refusal,
  manualRecovery, receipt, thrown, finalize, events, \* the engine
  document, operations, requests, replies,           \* the service
  input,         \* input[t]: the values run() was asked to publish
  preflight      \* preflight[t]: the preview that was approved

Keys == Txns \X {"forward", "compensation"}
RecoveryErrors == {"unclassified", "PROVIDER_TIMEOUT_AFTER_DISPATCH", "PROVIDER_SAFE_TO_RETRY",
                   "PROVIDER_REJECTED", "COMPENSATION_BLOCKED"}

Engine  == INSTANCE TransactionEngine WITH LedgerFaults <- {}
Service == INSTANCE DocumentService
Effect  == INSTANCE DefineEffect

\* A patch carries fields of a document, an if-match header is told from none.
ASSUME PublishAssumption ==
  /\ MaterialFields \subseteq Fields
  /\ Service!ServiceAssumption
  /\ NoIfMatch \notin Nat

engine  == <<at, todo, transaction, action, forwardDispatchCount, observations, finality,
             refusal, manualRecovery, receipt, thrown, finalize, events>>
service == <<document, operations, requests, replies>>
effect  == <<input, preflight>>
vars    == <<engine, service, effect>>

Init ==
  /\ Engine!Init
  /\ Service!Init
  /\ input \in [Txns -> [MaterialFields -> Values]]
  /\ preflight = [t \in Txns |-> NoPreflight]

\* logicalOperationId and recoveryOperationId
Forward(t)      == <<t, "forward">>
Compensation(t) == <<t, "compensation">>

Quiet == \A t \in Txns : todo[t] = <<>>

-----------------------------------------------------------------------------
(***************************************************************************)
(* Reads of the provider.                                                  *)
(***************************************************************************)
\* expected(): the state before with the input's values.
Expected(t) == [f \in Fields |-> IF f \in MaterialFields THEN input[t][f] ELSE document.fields[f]]

\* evaluatePreflight(): what the document would become, or nothing to change,
\* or a document that cannot be read.
Preview(t) ==
  /\ LET p == Effect!buildPreflight(document, Expected(t)) IN
       \/ /\ Effect!HasMaterialEffect(p)
          /\ Engine!Preflighted(t)
          /\ preflight' = [preflight EXCEPT ![t] = p]
       \/ /\ ~Effect!HasMaterialEffect(p)
          /\ Engine!PreflightRejected(t)
          /\ UNCHANGED preflight
       \/ /\ Engine!PreflightRejected(t)
          /\ UNCHANGED preflight
  /\ UNCHANGED <<service, input>>

AssertFresh(t) ==
  /\ \/ Engine!Fresh(t) /\ Effect!assertFresh(preflight[t], document)
     \/ Engine!Stale(t) /\ ~Effect!assertFresh(preflight[t], document)
  /\ UNCHANGED <<service, effect>>

\* Mutant: the state of the document is taken for evidence of the operation.
AttributesByState(t) ==
  /\ \/ Engine!Reconciled(t) /\ Effect!verifyForward(preflight[t], document)
     \/ Engine!Unresolved(t)
  /\ UNCHANGED <<service, effect>>

\* findEvidence() reads an answer it does not understand as no evidence.
Reconcile(t) ==
  /\ \/ Engine!Reconciled(t) /\ Service!Lookup(Forward(t))
     \/ Engine!Unresolved(t)
  /\ UNCHANGED <<service, effect>>

Verify(t) ==
  /\ \/ Engine!Verified(t) /\ Effect!verifyForward(preflight[t], document)
     \/ Engine!VerificationFailed(t) /\ ~Effect!verifyForward(preflight[t], document)
  /\ UNCHANGED <<service, effect>>

PlanRecovery(t) ==
  /\ \/ Engine!RecoverySafe(t) /\ Effect!planRecovery(preflight[t], document)
     \/ Engine!RecoveryUnsafe(t) /\ ~Effect!planRecovery(preflight[t], document)
  /\ UNCHANGED <<service, effect>>

ReconcileRecovery(t) ==
  /\ \/ Engine!RecoveryReconciled(t) /\ Service!Lookup(Compensation(t))
     \/ Engine!RecoveryUnresolved(t)
  /\ UNCHANGED <<service, effect>>

VerifyRecovery(t) ==
  /\ LET restored == Effect!verifyRecovery(Effect!restoreValues(preflight[t]), document) IN
       \/ Engine!RecoveryVerified(t) /\ restored
       \/ Engine!RecoveryDisputed(t) /\ ~restored
  /\ UNCHANGED <<service, effect>>

-----------------------------------------------------------------------------
(***************************************************************************)
(* Mutations, and how mutate() reads their answers.                        *)
(***************************************************************************)
\* Mutant: the forward write is not conditional.
UnconditionalForward(t) == [key |-> Forward(t), patch |-> input[t], ifMatch |-> NoIfMatch]

ForwardRequest(t) ==
  [key     |-> Forward(t),
   patch   |-> input[t],
   ifMatch |-> preflight[t].before.version]

\* Mutant: the whole document is put back.
RestoresEverything(t) ==
  [key     |-> Compensation(t),
   patch   |-> preflight[t].before.fields,
   ifMatch |-> NoIfMatch]

\* compensate() passes no expectedVersion.
CompensationRequest(t) ==
  [key     |-> Compensation(t),
   patch   |-> Effect!restoreValues(preflight[t]),
   ifMatch |-> NoIfMatch]

\* Mutant: a connection that closed is safe to retry.
ClosedIsSafe(reply, preconditionErrorCode) ==
  CASE reply \in {"412", "409"}               -> {preconditionErrorCode}
    [] reply \in {"503", "refused", "closed"} -> {"PROVIDER_SAFE_TO_RETRY"}
    [] reply = "422"                          -> {"PROVIDER_REJECTED"}
    [] OTHER                                  -> {}

\* Mutant: a connection that closed is waited for.
WaitsForever(reply, preconditionErrorCode) ==
  CASE reply \in {"412", "409"}     -> {preconditionErrorCode}
    [] reply \in {"503", "refused"} -> {"PROVIDER_SAFE_TO_RETRY"}
    [] reply = "422"                -> {"PROVIDER_REJECTED"}
    [] OTHER                        -> {}

MutateErrors(reply, preconditionErrorCode) ==
  CASE reply \in {"412", "409"}     -> {preconditionErrorCode}
    [] reply \in {"503", "refused"} -> {"PROVIDER_SAFE_TO_RETRY"}
    [] reply = "422"                -> {"PROVIDER_REJECTED"}
    [] reply = "closed"             -> {"PROVIDER_TIMEOUT_AFTER_DISPATCH"}
    [] reply = "200"                -> {"unclassified"}   \* a body that is not JSON
    [] OTHER                        -> {}

SendForward(t) ==
  /\ Engine!Dispatch(t)
  /\ Service!Send(ForwardRequest(t)) \/ Service!FailToSend(Forward(t))
  /\ UNCHANGED effect

ReceiveForward(t) ==
  /\ \/ replies[Forward(t)] = "200" /\ Engine!DispatchReported(t)
     \/ \E error \in MutateErrors(replies[Forward(t)], "STALE_WITNESS") :
          Engine!DispatchThrows(t, error)
  /\ UNCHANGED <<service, effect>>

SendCompensation(t) ==
  /\ Engine!ExecuteRecovery(t)
  /\ Service!Send(CompensationRequest(t)) \/ Service!FailToSend(Compensation(t))
  /\ UNCHANGED effect

ReceiveCompensation(t) ==
  /\ \/ replies[Compensation(t)] = "200" /\ Engine!RecoveryReported(t)
     \/ \E error \in MutateErrors(replies[Compensation(t)], "COMPENSATION_BLOCKED") :
          Engine!RecoveryThrows(t, error)
  /\ UNCHANGED <<service, effect>>

-----------------------------------------------------------------------------
\* The steps of a run that involve no provider.
Internal(t) ==
  /\ \/ Engine!Start(t) \/ Engine!InputThrows(t)
     \/ Engine!ApprovalConsumed(t) \/ Engine!ApprovalRejected(t)
     \/ Engine!BeginVerifying(t) \/ Engine!Finalized(t) \/ Engine!FinalizeThrows(t)
     \/ Engine!FinalizeThrowsUndefined(t)
     \/ Engine!BlockedObserved(t) \/ Engine!BeginVerifyingRecovery(t)
     \/ Engine!FinishResult(t) \/ Engine!SignReceipt(t) \/ Engine!Return(t)
     \/ Engine!AdapterThrows(t)
  /\ UNCHANGED <<service, effect>>

JournalWrite(t) ==
  /\ Engine!AppendEvent(t) \/ Engine!IllegalTransition(t)
  /\ UNCHANGED <<service, effect>>

RunStep(t) ==
  \/ Preview(t) \/ AssertFresh(t) \/ Reconcile(t) \/ Verify(t)
  \/ PlanRecovery(t) \/ ReconcileRecovery(t) \/ VerifyRecovery(t)
  \/ SendForward(t) \/ ReceiveForward(t) \/ SendCompensation(t) \/ ReceiveCompensation(t)
  \/ Internal(t)

\* A connection without an answer breaks or times out.
GiveUp(key) ==
  /\ replies[key] = "open"
  /\ Service!Drop(key)
  /\ UNCHANGED <<engine, effect>>

\* The service handles a request, or a person edits the document.
Others ==
  /\ \/ \E r \in requests, fault \in Service!FaultModes : Service!Patch(r, fault)
     \/ \E patch \in Service!Patches : Service!Edit(patch)
  /\ UNCHANGED <<engine, effect>>

Next ==
  \/ \E t \in Txns : JournalWrite(t)
  \/ Quiet /\ \E t \in Txns : RunStep(t)
  \/ Quiet /\ (Others \/ \E key \in Keys : GiveUp(key))

Spec == Init /\ [][Next]_vars

\* A run takes its steps and writes its journal; the HTTP client gives up on a
\* connection that stays silent (fetch has a timeout); nothing is assumed of
\* the service or of the people who edit.
Fairness ==
  /\ \A t \in Txns : WF_vars(JournalWrite(t)) /\ WF_vars(Quiet /\ RunStep(t))
  /\ \A key \in Keys : WF_vars(Quiet /\ GiveUp(key))

FairSpec == Spec /\ Fairness

-----------------------------------------------------------------------------
(***************************************************************************)
(* Properties.                                                             *)
(***************************************************************************)
Landed(key)   == Service!Recorded(key)
OnItsWay(key) == \E r \in requests : r.key = key

EffectOf(t) ==
  IF Landed(Compensation(t)) THEN "undone"
  ELSE IF Landed(Forward(t)) THEN "applied" ELSE "none"

VerdictOf(t) ==
  CASE receipt[t].finalStatus = "none"                 -> "open"
    [] receipt[t].finalStatus = "VERIFIED_COMMITTED"   -> "committed"
    [] receipt[t].finalStatus = "VERIFIED_COMPENSATED" -> "compensated"
    [] receipt[t].finalStatus \in {"PREFLIGHT_FAILED", "APPROVAL_DENIED", "ABORTED"} -> "nothing"
    [] receipt[t].finalStatus = "MANUAL_RECOVERY_REQUIRED" ->
         IF Engine!EffectMayHaveCommitted(t) THEN "unresolved" ELSE "nothing"

Promise == INSTANCE VerifiedEffect WITH effect  <- [t \in Txns |-> EffectOf(t)],
                                        verdict <- [t \in Txns |-> VerdictOf(t)]

\* The whole system keeps the promise of VerifiedEffect: whatever the network,
\* the provider and other writers do, a committed receipt means the effect of
\* this very transaction landed once and was not undone, a compensated one
\* that both writes landed, and a refusal or rejection that none did or ever
\* will, even after the run has returned.
KeepsPromise == Promise!Spec

\* The forward write replaces exactly the document that was previewed and
\* approved: it never lands on a state anyone changed since.
ForwardLandsOnApprovedState ==
  [][\A t \in Txns :
       ~Landed(Forward(t)) /\ Landed(Forward(t))' => document = preflight[t].before]_vars

\* What the instruction of a manual recovery tells a person about the two
\* writes is so, and stays so after they were told.
InstructionIsTrue ==
  \A t \in Txns :
    CASE manualRecovery[t] \in {"never reached the provider", "rejected outright"} ->
           ~Landed(Forward(t)) /\ ~OnItsWay(Forward(t))
      [] manualRecovery[t] \in {"committed and not undone", "forward effect still in place",
                                "compensation never dispatched"} ->
           Landed(Forward(t)) /\ ~Landed(Compensation(t)) /\ ~OnItsWay(Compensation(t))
      [] manualRecovery[t] = "ask the provider about the compensation" -> Landed(Forward(t))
      [] manualRecovery[t] = "compensation not proven" ->
           Landed(Forward(t)) /\ Landed(Compensation(t))
      [] OTHER -> TRUE

\* A compensation gives back the fields the effect changed and leaves every
\* other field as whoever wrote it last left it.
CompensationTouchesOnlyItsDiff ==
  [][\A t \in Txns :
       ~Landed(Compensation(t)) /\ Landed(Compensation(t))' =>
         \A f \in Fields :
           document'.fields[f] = IF f \in preflight[t].diff THEN preflight[t].before.fields[f]
                                                            ELSE document.fields[f]]_vars

\* A compensation never overwrites a value that is not the effect's own: what
\* README.md says of compensation, "refused when the record has moved on".
CompensationOverwritesOnlyItsOwn ==
  [][\A t \in Txns :
       ~Landed(Compensation(t)) /\ Landed(Compensation(t))' =>
         Effect!verifyForward(preflight[t], document)]_vars

\* A run of the example settles even if the service never answers anything and
\* people never stop editing.
RunsSettle == \A t \in Txns : at[t] # "idle" ~> at[t] \in {"returned", "threw"}
=============================================================================
