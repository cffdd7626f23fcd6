-------------------------- MODULE TransactionEngine --------------------------
(***************************************************************************)
(* TransactionEngine.run() of src/src/core/transaction-engine.ts: the      *)
(* control of one transaction from its created event to its signed         *)
(* receipt, for every answer an adapter made by defineEffect may give and  *)
(* every ledger append that may fail.                                      *)
(*                                                                         *)
(* run() is sequential between two awaits.  A transaction t is at a        *)
(* program point at[t], the await it reaches once the journal writes       *)
(* todo[t] are all made; a write is a ledger append and, for a state       *)
(* change, the assignment that follows it.  One action handles one answer  *)
(* of the adapter (its parameters are the answer), and queues the writes   *)
(* the code makes before its next adapter call.  What the code assigns to  *)
(* its local variables on the way is assigned by that action: an append    *)
(* that throws loses these locals with the run.                            *)
(***************************************************************************)
EXTENDS Naturals, Sequences, StateMachine

CONSTANTS
  Txns,            \* the calls of run(), one transaction each
  LedgerFaults,    \* how an append may fail: [error, durable] records
  RecoveryErrors   \* what executeRecovery may throw

\* The PostgreSQL ledger turns every database error into a ZeroGateError
\* (LEDGER_CONFLICT); a SQLite error reaches the engine as it is.
LedgerFault == [error : {"LEDGER_CONFLICT", "unclassified"}, durable : BOOLEAN]

\* What a dispatch may throw: an error that is not a ZeroGateError
\* ("unclassified"), or the code of one that is.
DispatchErrors ==
  {"unclassified", "PROVIDER_TIMEOUT_AFTER_DISPATCH", "PROVIDER_SAFE_TO_RETRY",
   "PROVIDER_REJECTED", "STALE_WITNESS"}

AnyRecoveryError ==
  {"unclassified", "PROVIDER_TIMEOUT_AFTER_DISPATCH", "PROVIDER_SAFE_TO_RETRY",
   "PROVIDER_REJECTED", "COMPENSATION_BLOCKED"}

ASSUME LedgerFaultsAssumption   == LedgerFaults \subseteq LedgerFault
ASSUME RecoveryErrorsAssumption == RecoveryErrors \subseteq AnyRecoveryError

VARIABLES
  at,                    \* the await run() has reached, or reaches after todo
  todo,                  \* the journal writes still to be made before it
  transaction,           \* transaction.state
  action,                \* action.state
  forwardDispatchCount,
  observations,          \* action.observations: each kind is recorded at most once
  finality,              \* actionFinality
  refusal,               \* refusal, by what refused
  manualRecovery,        \* the item of manualRecovery, by what its instruction claims
  receipt,               \* the signed receipt
  thrown,                \* what run() threw instead of returning
  finalize,              \* what the caller's finalize() did
  events                 \* the ledger's events for the transaction

vars == <<at, todo, transaction, action, forwardDispatchCount, observations,
          finality, refusal, manualRecovery, receipt, thrown, finalize, events>>
states   == <<transaction, action>>
evidence == <<finality, refusal, manualRecovery>>
outcome  == <<receipt, thrown, finalize>>

Write(kind, to) == [kind |-> kind, to |-> to]
Tx(to)          == Write("transaction", to)
Act(to)         == Write("action", to)
Ev(type)        == Write("event", type)
Observed(kind, ok) == [kind |-> kind, ok |-> ok]
NoReceipt == [finalStatus |-> "none"]

Init ==
  /\ at = [t \in Txns |-> "idle"]
  /\ todo = [t \in Txns |-> <<>>]
  /\ transaction = [t \in Txns |-> "DRAFT"]
  /\ action = [t \in Txns |-> "PROPOSED"]
  /\ forwardDispatchCount = [t \in Txns |-> 0]
  /\ observations = [t \in Txns |-> {}]
  /\ finality = [t \in Txns |-> "UNKNOWN"]
  /\ refusal = [t \in Txns |-> "none"]
  /\ manualRecovery = [t \in Txns |-> "none"]
  /\ receipt = [t \in Txns |-> NoReceipt]
  /\ thrown = [t \in Txns |-> "none"]
  /\ finalize = [t \in Txns |-> "not called"]
  /\ events = [t \in Txns |-> <<>>]

-----------------------------------------------------------------------------
\* The engine awaits at point p: every earlier write is made.
Awaits(t, p) == at[t] = p /\ todo[t] = <<>>

\* Makes the writes, then awaits at point p.
Continue(t, writes, p) ==
  /\ todo' = [todo EXCEPT ![t] = writes]
  /\ at' = [at EXCEPT ![t] = p]

Observe(t, kind, ok) ==
  observations' = [observations EXCEPT ![t] = @ \union {Observed(kind, ok)}]

Conclude(t, value) == finality' = [finality EXCEPT ![t] = value]
Instruct(t, claim) == manualRecovery' = [manualRecovery EXCEPT ![t] = claim]

\* run() rejects: nothing is returned and no receipt is issued from here on.
Throw(t, error) ==
  /\ Continue(t, <<>>, "threw")
  /\ thrown' = [thrown EXCEPT ![t] = error]

\* Mutant: an error without a code is read as a rejection.
OnlyTimeoutIsUnknown(error) == error = "PROVIDER_TIMEOUT_AFTER_DISPATCH"

\* The catch clauses around dispatch and executeRecovery read an error as an
\* outcome that is not known exactly when it is not a classified one.
OutcomeUnknown(error) == error \in {"unclassified", "PROVIDER_TIMEOUT_AFTER_DISPATCH"}

-----------------------------------------------------------------------------
(***************************************************************************)
(* Preflight and admission.                                                *)
(***************************************************************************)
Start(t) ==
  /\ at[t] = "idle"
  /\ Continue(t, <<Ev("transaction.created"), Tx("PREFLIGHTING"), Act("PREFLIGHTING")>>,
              "preflight")
  /\ UNCHANGED <<states, forwardDispatchCount, observations, evidence, outcome, events>>

\* canonicalizeInput refused the input, or the tenant is not the ledger's: run()
\* throws before there is a transaction to record.
InputThrows(t) ==
  /\ at[t] = "idle"
  /\ Throw(t, "input")
  /\ UNCHANGED <<states, forwardDispatchCount, observations, evidence, receipt, finalize, events>>

\* The preview was rejected or threw, or the credential guard refused it.
PreflightRejected(t) ==
  /\ Awaits(t, "preflight")
  /\ Continue(t, <<Act("PREFLIGHT_REJECTED"), Tx("PREFLIGHT_FAILED"),
                   Ev("action.preflight_rejected")>>, "finish")
  /\ Observe(t, "preflight-rejection", FALSE)
  /\ refusal' = [refusal EXCEPT ![t] = "preflight"]
  /\ Conclude(t, "VERIFIED")
  /\ UNCHANGED <<states, forwardDispatchCount, manualRecovery, outcome, events>>

Preflighted(t) ==
  /\ Awaits(t, "preflight")
  /\ Continue(t, <<Ev("action.preflighted"), Act("PREFLIGHTED"), Tx("READY"),
                   Tx("AWAITING_APPROVAL"), Act("AWAITING_APPROVAL")>>, "approve")
  /\ Observe(t, "preflight", TRUE)
  /\ UNCHANGED <<states, forwardDispatchCount, evidence, outcome, events>>

\* consume() refused the approval with one of its three codes.
ApprovalRejected(t) ==
  /\ Awaits(t, "approve")
  /\ Continue(t, <<Ev("approval.rejected"), Act("CANCELLED"), Tx("APPROVAL_DENIED")>>, "finish")
  /\ Observe(t, "approval-rejection", FALSE)
  /\ refusal' = [refusal EXCEPT ![t] = "approval"]
  /\ Conclude(t, "VERIFIED")
  /\ UNCHANGED <<states, forwardDispatchCount, manualRecovery, outcome, events>>

ApprovalConsumed(t) ==
  /\ Awaits(t, "approve")
  /\ Continue(t, <<Ev("approval.consumed"), Act("ADMITTED"), Tx("COMMIT_REQUESTED")>>, "fresh")
  /\ UNCHANGED <<states, forwardDispatchCount, observations, evidence, outcome, events>>

\* A malformed approval makes consume() throw something else, which run() rethrows.
ApprovalThrows(t) ==
  /\ Awaits(t, "approve")
  /\ Throw(t, "approval")
  /\ UNCHANGED <<states, forwardDispatchCount, observations, evidence, receipt, finalize, events>>

\* Mutant: run() does not return after the refusal.
StaleGoesOn(t) ==
  /\ Awaits(t, "fresh")
  /\ Continue(t, <<Ev("action.staleness_rejected")>>, "dispatch")
  /\ Observe(t, "staleness-rejection", FALSE)
  /\ refusal' = [refusal EXCEPT ![t] = "stale"]
  /\ Conclude(t, "VERIFIED")
  /\ UNCHANGED <<states, forwardDispatchCount, manualRecovery, outcome, events>>

\* assertFresh threw STALE_WITNESS.
Stale(t) ==
  /\ Awaits(t, "fresh")
  /\ Continue(t, <<Ev("action.staleness_rejected"), Act("CANCELLED"), Tx("ABORTED")>>, "finish")
  /\ Observe(t, "staleness-rejection", FALSE)
  /\ refusal' = [refusal EXCEPT ![t] = "stale"]
  /\ Conclude(t, "VERIFIED")
  /\ UNCHANGED <<states, forwardDispatchCount, manualRecovery, outcome, events>>

\* Mutant: the boundary is announced before the action is DISPATCHING.
AnnouncedFirst(t) ==
  /\ Awaits(t, "fresh")
  /\ Continue(t, <<Act("SCHEDULED"), Tx("COMMITTING"), Ev("action.dispatch_started"),
                   Act("DISPATCHING")>>, "dispatch")
  /\ UNCHANGED <<states, forwardDispatchCount, observations, evidence, outcome, events>>

Fresh(t) ==
  /\ Awaits(t, "fresh")
  /\ Continue(t, <<Act("SCHEDULED"), Tx("COMMITTING"), Act("DISPATCHING"),
                   Ev("action.dispatch_started")>>, "dispatch")
  /\ UNCHANGED <<states, forwardDispatchCount, observations, evidence, outcome, events>>

-----------------------------------------------------------------------------
(***************************************************************************)
(* Dispatch.  The call and its answer are two steps: the request is on its *)
(* way between them.  "reported" is the inside of the try block, whose     *)
(* catch clause an append that throws enters too.                          *)
(***************************************************************************)
Dispatch(t) ==
  /\ Awaits(t, "dispatch")
  /\ Continue(t, <<>>, "dispatching")
  /\ forwardDispatchCount' = [forwardDispatchCount EXCEPT ![t] = @ + 1]
  /\ UNCHANGED <<states, observations, evidence, outcome, events>>

DispatchReported(t) ==
  /\ Awaits(t, "dispatching")
  /\ Continue(t, <<Ev("action.dispatch_reported"), Act("REPORTED_SUCCEEDED")>>, "reported")
  /\ Observe(t, "dispatch", TRUE)
  /\ UNCHANGED <<states, forwardDispatchCount, evidence, outcome, events>>

\* Mutant: the instruction is the code of the error.
InstructsTheCode(t, error) ==
  /\ Continue(t, <<Act("PROVIDER_REJECTED"), Tx("FAILURE_DETECTED"),
                   Tx("MANUAL_RECOVERY_REQUIRED")>>, "finish")
  /\ Conclude(t, "VERIFIED")
  /\ Instruct(t, error)

DispatchCatch(t, error) ==
  \/ /\ OutcomeUnknown(error)
     /\ Continue(t, <<Act("OUTCOME_UNKNOWN"), Tx("RECONCILING"), Act("RECONCILING")>>, "reconcile")
     /\ UNCHANGED <<finality, manualRecovery>>
  \/ /\ ~OutcomeUnknown(error)
     /\ Continue(t, <<Act("PROVIDER_REJECTED"), Tx("FAILURE_DETECTED"),
                      Tx("MANUAL_RECOVERY_REQUIRED")>>, "finish")
     /\ Conclude(t, "VERIFIED")
     /\ Instruct(t, IF error = "PROVIDER_SAFE_TO_RETRY" THEN "never reached the provider"
                                                         ELSE "rejected outright")

DispatchThrows(t, error) ==
  /\ Awaits(t, "dispatching")
  /\ DispatchCatch(t, error)
  /\ UNCHANGED <<states, forwardDispatchCount, observations, refusal, outcome, events>>

Reconciled(t) ==
  /\ Awaits(t, "reconcile")
  /\ Continue(t, <<Ev("action.reconciled"), Act("REPORTED_SUCCEEDED"), Tx("VERIFYING")>>,
              "reconciled")
  /\ Observe(t, "reconciliation", TRUE)
  /\ UNCHANGED <<states, forwardDispatchCount, evidence, outcome, events>>

\* Mutant: a look-up without evidence is taken for an answer.
ResolvedAnyway(t) ==
  /\ Awaits(t, "reconcile")
  /\ Continue(t, <<Ev("action.reconciled"), Act("REPORTED_SUCCEEDED"), Tx("VERIFYING")>>,
              "reconciled")
  /\ Observe(t, "reconciliation", FALSE)
  /\ UNCHANGED <<states, forwardDispatchCount, evidence, outcome, events>>

\* No evidence: nothing is dispatched again and a person is asked to find out.
Unresolved(t) ==
  /\ Awaits(t, "reconcile")
  /\ Continue(t, <<Ev("action.reconciled"), Act("OUTCOME_UNKNOWN"),
                   Tx("MANUAL_RECOVERY_REQUIRED")>>, "finish")
  /\ Observe(t, "reconciliation", FALSE)
  /\ Conclude(t, "UNKNOWN")
  /\ Instruct(t, "ask the provider")
  /\ UNCHANGED <<states, forwardDispatchCount, refusal, outcome, events>>

-----------------------------------------------------------------------------
(***************************************************************************)
(* Verification and finalize.                                              *)
(***************************************************************************)
\* Mutant: the transaction moves to VERIFYING again after a reconciliation.
AlwaysToVerifying(t) ==
  /\ Awaits(t, "reported") \/ Awaits(t, "reconciled")
  /\ Continue(t, <<Tx("VERIFYING"), Act("VERIFYING")>>, "verify")
  /\ UNCHANGED <<states, forwardDispatchCount, observations, evidence, outcome, events>>

\* Mutant: a reconciled run is left where it is.
OnlyReportedIsVerified(t) ==
  /\ Awaits(t, "reported")
  /\ Continue(t, <<Tx("VERIFYING"), Act("VERIFYING")>>, "verify")
  /\ UNCHANGED <<states, forwardDispatchCount, observations, evidence, outcome, events>>

BeginVerifying(t) ==
  /\ Awaits(t, "reported") \/ Awaits(t, "reconciled")
  /\ Continue(t, (IF transaction[t] = "COMMITTING" THEN <<Tx("VERIFYING")>> ELSE <<>>)
                   \o <<Act("VERIFYING")>>, "verify")
  /\ UNCHANGED <<states, forwardDispatchCount, observations, evidence, outcome, events>>

\* Mutant: the commit is journaled with the verification, finalize() comes after.
CommittedBeforeFinalize(t) ==
  /\ Awaits(t, "verify")
  /\ Continue(t, <<Ev("action.verified"), Act("VERIFIED_SUCCEEDED"), Tx("VERIFIED_COMMITTED")>>,
              "finalize")
  /\ Observe(t, "verification", TRUE)
  /\ Conclude(t, "VERIFIED")
  /\ UNCHANGED <<states, forwardDispatchCount, refusal, manualRecovery, outcome, events>>

Verified(t) ==
  /\ Awaits(t, "verify")
  /\ Continue(t, <<Ev("action.verified"), Act("VERIFIED_SUCCEEDED")>>, "finalize")
  /\ Observe(t, "verification", TRUE)
  /\ Conclude(t, "VERIFIED")
  /\ UNCHANGED <<states, forwardDispatchCount, refusal, manualRecovery, outcome, events>>

\* Mutant: the result of the verification is recorded and not looked at.
VerificationIgnored(t) ==
  /\ Awaits(t, "verify")
  /\ Continue(t, <<Ev("action.verified"), Act("VERIFIED_SUCCEEDED")>>, "finalize")
  /\ Observe(t, "verification", FALSE)
  /\ Conclude(t, "VERIFIED")
  /\ UNCHANGED <<states, forwardDispatchCount, refusal, manualRecovery, outcome, events>>

VerificationFailed(t) ==
  /\ Awaits(t, "verify")
  /\ Continue(t, <<Ev("action.verified"), Act("VERIFICATION_FAILED"), Tx("FAILURE_DETECTED"),
                   Act("COMPENSATION_PLANNED"), Tx("COMPENSATING")>>, "plan")
  /\ Observe(t, "verification", FALSE)
  /\ Conclude(t, "DISPUTED")
  /\ UNCHANGED <<states, forwardDispatchCount, refusal, manualRecovery, outcome, events>>

\* finalize() returned, or the caller gave none.
Finalized(t) ==
  /\ Awaits(t, "finalize")
  /\ Continue(t, <<Tx("VERIFIED_COMMITTED")>>, "finish")
  /\ finalize' = [finalize EXCEPT ![t] = "returned"]
  /\ UNCHANGED <<states, forwardDispatchCount, observations, evidence, receipt, thrown, events>>

FinalizeThrows(t) ==
  /\ Awaits(t, "finalize")
  /\ Continue(t, <<Tx("FAILURE_DETECTED"), Ev("transaction.finalize_failed"),
                   Act("COMPENSATION_PLANNED"), Tx("COMPENSATING")>>, "plan")
  /\ finalize' = [finalize EXCEPT ![t] = "threw"]
  /\ UNCHANGED <<states, forwardDispatchCount, observations, evidence, receipt, thrown, events>>

\* finalize() threw undefined (it may be a promise rejected without a reason):
\* finalizeError is what it is when nothing was thrown.
FinalizeThrowsUndefined(t) ==
  /\ Awaits(t, "finalize")
  /\ Continue(t, <<Tx("VERIFIED_COMMITTED")>>, "finish")
  /\ finalize' = [finalize EXCEPT ![t] = "threw undefined"]
  /\ UNCHANGED <<states, forwardDispatchCount, observations, evidence, receipt, thrown, events>>

-----------------------------------------------------------------------------
(***************************************************************************)
(* Recovery.                                                               *)
(***************************************************************************)
\* Mutant: a plan that is not safe is executed.
UnsafePlanIsExecuted(t) ==
  /\ Awaits(t, "plan")
  /\ Continue(t, <<Ev("recovery.planned"), Act("COMPENSATING"), Ev("recovery.dispatch_started")>>,
              "recover")
  /\ Observe(t, "recovery_plan", FALSE)
  /\ UNCHANGED <<states, forwardDispatchCount, evidence, outcome, events>>

RecoveryUnsafe(t) ==
  /\ Awaits(t, "plan")
  /\ Continue(t, <<Ev("recovery.planned"), Act("COMPENSATION_BLOCKED"),
                   Tx("MANUAL_RECOVERY_REQUIRED")>>, "observe")
  /\ Observe(t, "recovery_plan", FALSE)
  /\ UNCHANGED <<states, forwardDispatchCount, evidence, outcome, events>>

\* Mutant: nobody is told.
BlockedSilently(t) ==
  /\ Awaits(t, "observe")
  /\ Continue(t, <<>>, "finish")
  /\ UNCHANGED <<states, forwardDispatchCount, observations, evidence, outcome, events>>

\* The state a person is handed is read after the transaction is terminal.
BlockedObserved(t) ==
  /\ Awaits(t, "observe")
  /\ Continue(t, <<>>, "finish")
  /\ Instruct(t, "committed and not undone")
  /\ UNCHANGED <<states, forwardDispatchCount, observations, finality, refusal, outcome, events>>

RecoverySafe(t) ==
  /\ Awaits(t, "plan")
  /\ Continue(t, <<Ev("recovery.planned"), Act("COMPENSATING"), Ev("recovery.dispatch_started")>>,
              "recover")
  /\ Observe(t, "recovery_plan", TRUE)
  /\ UNCHANGED <<states, forwardDispatchCount, evidence, outcome, events>>

ExecuteRecovery(t) ==
  /\ Awaits(t, "recover")
  /\ Continue(t, <<>>, "recovering")
  /\ UNCHANGED <<states, forwardDispatchCount, observations, evidence, outcome, events>>

RecoveryReported(t) ==
  /\ Awaits(t, "recovering")
  /\ Continue(t, <<Ev("recovery.dispatched"), Act("COMPENSATION_REPORTED_SUCCEEDED")>>,
              "recoveryReported")
  /\ Observe(t, "compensation_dispatch", TRUE)
  /\ UNCHANGED <<states, forwardDispatchCount, evidence, outcome, events>>

RecoveryCatch(t, error) ==
  \/ /\ OutcomeUnknown(error)
     /\ Continue(t, <<Act("COMPENSATION_UNKNOWN"), Act("COMPENSATION_RECONCILING")>>,
                 "reconcileRecovery")
     /\ UNCHANGED manualRecovery
  \/ /\ error = "COMPENSATION_BLOCKED"
     /\ Continue(t, <<Act("COMPENSATION_BLOCKED"), Tx("MANUAL_RECOVERY_REQUIRED")>>, "finish")
     /\ Instruct(t, "compensation never dispatched")
  \/ /\ ~OutcomeUnknown(error) /\ error # "COMPENSATION_BLOCKED"
     /\ Continue(t, <<Act("COMPENSATION_FAILED"), Tx("MANUAL_RECOVERY_REQUIRED")>>, "finish")
     /\ Instruct(t, "forward effect still in place")

RecoveryThrows(t, error) ==
  /\ Awaits(t, "recovering")
  /\ RecoveryCatch(t, error)
  /\ UNCHANGED <<states, forwardDispatchCount, observations, finality, refusal, outcome, events>>

RecoveryReconciled(t) ==
  /\ Awaits(t, "reconcileRecovery")
  /\ Continue(t, <<Ev("recovery.reconciled"), Act("COMPENSATION_REPORTED_SUCCEEDED")>>,
              "recoveryReconciled")
  /\ Observe(t, "compensation_reconciliation", TRUE)
  /\ UNCHANGED <<states, forwardDispatchCount, evidence, outcome, events>>

RecoveryUnresolved(t) ==
  /\ Awaits(t, "reconcileRecovery")
  /\ Continue(t, <<Ev("recovery.reconciled"), Act("COMPENSATION_FAILED"),
                   Tx("MANUAL_RECOVERY_REQUIRED")>>, "finish")
  /\ Observe(t, "compensation_reconciliation", FALSE)
  /\ Conclude(t, "UNKNOWN")
  /\ Instruct(t, "ask the provider about the compensation")
  /\ UNCHANGED <<states, forwardDispatchCount, refusal, outcome, events>>

BeginVerifyingRecovery(t) ==
  /\ Awaits(t, "recoveryReported") \/ Awaits(t, "recoveryReconciled")
  /\ Continue(t, <<Act("COMPENSATION_VERIFYING"), Tx("VERIFYING_RECOVERY")>>, "verifyRecovery")
  /\ UNCHANGED <<states, forwardDispatchCount, observations, evidence, outcome, events>>

RecoveryVerified(t) ==
  /\ Awaits(t, "verifyRecovery")
  /\ Continue(t, <<Ev("recovery.verified"), Act("VERIFIED_COMPENSATED"),
                   Tx("VERIFIED_COMPENSATED")>>, "finish")
  /\ Observe(t, "recovery_verification", TRUE)
  /\ Conclude(t, "VERIFIED")
  /\ UNCHANGED <<states, forwardDispatchCount, refusal, manualRecovery, outcome, events>>

RecoveryDisputed(t) ==
  /\ Awaits(t, "verifyRecovery")
  /\ Continue(t, <<Ev("recovery.verified"), Act("COMPENSATION_FAILED"),
                   Tx("MANUAL_RECOVERY_REQUIRED")>>, "finish")
  /\ Observe(t, "recovery_verification", FALSE)
  /\ Conclude(t, "DISPUTED")
  /\ Instruct(t, "compensation not proven")
  /\ UNCHANGED <<states, forwardDispatchCount, refusal, outcome, events>>

-----------------------------------------------------------------------------
(***************************************************************************)
(* finishResult: the terminal event, the chain root, the signature over    *)
(* both, the event that announces the receipt.  Its reads of the provider  *)
(* swallow every error; its reads of the ledger do not.                    *)
(***************************************************************************)
\* Mutant: the receipt is signed before the terminal event.
NoTerminalEvent(t) ==
  /\ Awaits(t, "finish")
  /\ Continue(t, <<>>, "sign")
  /\ UNCHANGED <<states, forwardDispatchCount, observations, evidence, outcome, events>>

FinishResult(t) ==
  /\ Awaits(t, "finish")
  /\ transaction[t] \in TerminalTransactionStates
  /\ Continue(t, <<Ev("transaction.terminal")>>, "sign")
  /\ UNCHANGED <<states, forwardDispatchCount, observations, evidence, outcome, events>>

SignReceipt(t) ==
  /\ Awaits(t, "sign")
  /\ receipt' = [receipt EXCEPT ![t] =
       [finalStatus    |-> transaction[t],
        actionStatus   |-> action[t],
        finality       |-> finality[t],
        observations   |-> observations[t],
        manualRecovery |-> manualRecovery[t],
        covered        |-> Len(events[t])]]
  /\ Continue(t, <<Ev("receipt.issued")>>, "return")
  /\ UNCHANGED <<states, forwardDispatchCount, observations, evidence, thrown, finalize, events>>

Return(t) ==
  /\ Awaits(t, "return")
  /\ Continue(t, <<>>, "returned")
  /\ UNCHANGED <<states, forwardDispatchCount, observations, evidence, outcome, events>>

\* buildRecovery: what the result of a manual recovery says of the effect.
EffectMayHaveCommitted(t) == action[t] # "PROVIDER_REJECTED"

-----------------------------------------------------------------------------
(***************************************************************************)
(* The journal.                                                            *)
(***************************************************************************)
Current(t, kind) ==
  CASE kind = "transaction" -> transaction[t]
    [] kind = "action"      -> action[t]
    [] kind = "event"       -> "none"

Allowed(t, w) ==
  /\ w.kind = "transaction" => TransactionMayMove(transaction[t], w.to)
  /\ w.kind = "action"      => ActionMayMove(action[t], w.to)

Store(t, w) ==
  events' = [events EXCEPT ![t] =
    Append(@, [kind |-> w.kind, from |-> Current(t, w.kind), to |-> w.to])]

\* appendEvent returned: transitionTransaction and transitionAction assign the
\* new state only then.
AppendEvent(t) ==
  /\ todo[t] # <<>>
  /\ LET w == Head(todo[t]) IN
       /\ Allowed(t, w)
       /\ Store(t, w)
       /\ transaction' = [transaction EXCEPT ![t] = IF w.kind = "transaction" THEN w.to ELSE @]
       /\ action' = [action EXCEPT ![t] = IF w.kind = "action" THEN w.to ELSE @]
  /\ todo' = [todo EXCEPT ![t] = Tail(@)]
  /\ UNCHANGED <<at, forwardDispatchCount, observations, evidence, outcome>>

\* An error raised while the journal is written goes to the catch clause of the
\* try block it is raised in, if there is one.
Raise(t, error, cause) ==
  \/ /\ at[t] = "reported"
     /\ DispatchCatch(t, error)
     /\ UNCHANGED thrown
  \/ /\ at[t] = "recoveryReported"
     /\ RecoveryCatch(t, error)
     /\ UNCHANGED <<finality, thrown>>
  \/ /\ at[t] \notin {"reported", "recoveryReported"}
     /\ Throw(t, cause)
     /\ UNCHANGED <<finality, manualRecovery>>

\* assertTransactionTransition or assertActionTransition threw.
IllegalTransition(t) ==
  /\ todo[t] # <<>>
  /\ ~Allowed(t, Head(todo[t]))
  /\ Raise(t, "INVALID_STATE_TRANSITION", "INVALID_STATE_TRANSITION")
  /\ UNCHANGED <<states, forwardDispatchCount, observations, refusal, receipt, finalize, events>>

\* appendEvent threw after its retries; a commit whose acknowledgement was lost
\* is durable all the same.
AppendThrows(t, fault) ==
  /\ todo[t] # <<>>
  /\ Allowed(t, Head(todo[t]))
  /\ IF fault.durable THEN Store(t, Head(todo[t])) ELSE UNCHANGED events
  /\ Raise(t, fault.error, "ledger")
  /\ UNCHANGED <<states, forwardDispatchCount, observations, refusal, receipt, finalize>>

\* chainRoot() or list() threw.
LedgerReadThrows(t) ==
  /\ LedgerFaults # {}
  /\ Awaits(t, "sign") \/ Awaits(t, "return")
  /\ Throw(t, "ledger")
  /\ UNCHANGED <<states, forwardDispatchCount, observations, evidence, receipt, finalize, events>>

\* The adapter calls run() does not guard: what they throw, it throws.
AdapterThrows(t) ==
  /\ \E p \in {"fresh", "reconcile", "verify", "plan", "observe", "reconcileRecovery",
               "verifyRecovery"} : Awaits(t, p)
  /\ Throw(t, "adapter")
  /\ UNCHANGED <<states, forwardDispatchCount, observations, evidence, receipt, finalize, events>>

-----------------------------------------------------------------------------
Admission(t) ==
  \/ PreflightRejected(t) \/ Preflighted(t)
  \/ ApprovalRejected(t) \/ ApprovalConsumed(t) \/ ApprovalThrows(t)
  \/ Stale(t) \/ Fresh(t)

Forward(t) ==
  \/ Dispatch(t) \/ DispatchReported(t)
  \/ \E error \in DispatchErrors : DispatchThrows(t, error)
  \/ Reconciled(t) \/ Unresolved(t)
  \/ BeginVerifying(t) \/ Verified(t) \/ VerificationFailed(t)
  \/ Finalized(t) \/ FinalizeThrows(t) \/ FinalizeThrowsUndefined(t)

Recovery(t) ==
  \/ RecoveryUnsafe(t) \/ BlockedObserved(t) \/ RecoverySafe(t)
  \/ ExecuteRecovery(t) \/ RecoveryReported(t)
  \/ \E error \in RecoveryErrors : RecoveryThrows(t, error)
  \/ RecoveryReconciled(t) \/ RecoveryUnresolved(t)
  \/ BeginVerifyingRecovery(t) \/ RecoveryVerified(t) \/ RecoveryDisputed(t)

Journal(t) ==
  \/ AppendEvent(t) \/ IllegalTransition(t)
  \/ \E fault \in LedgerFaults : AppendThrows(t, fault)
  \/ FinishResult(t) \/ SignReceipt(t) \/ Return(t) \/ LedgerReadThrows(t)

Run(t) == Admission(t) \/ Forward(t) \/ Recovery(t) \/ Journal(t) \/ AdapterThrows(t)

Next == \E t \in Txns : Start(t) \/ InputThrows(t) \/ Run(t)

\* Every await of a started run is answered: the adapter's promises settle and
\* the ledger's calls return or throw.
Fairness == \A t \in Txns : WF_vars(Run(t))

Spec     == Init /\ [][Next]_vars
FairSpec == Spec /\ Fairness
=============================================================================
