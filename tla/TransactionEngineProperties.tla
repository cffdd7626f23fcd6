-------------------- MODULE TransactionEngineProperties --------------------
(***************************************************************************)
(* What a run of the transaction engine promises to the person who reads   *)
(* its receipt, its result or its ledger.                                  *)
(***************************************************************************)
EXTENDS TransactionEngine, EventReplay

Points ==
  {"idle", "preflight", "approve", "fresh", "dispatch", "dispatching", "reported", "reconcile",
   "reconciled", "verify", "finalize", "plan", "observe", "recover", "recovering",
   "recoveryReported", "reconcileRecovery", "recoveryReconciled", "verifyRecovery", "finish",
   "sign", "return", "returned", "threw"}

EventTypes ==
  {"transaction.created", "action.preflight_rejected", "action.preflighted", "approval.rejected",
   "approval.consumed", "action.staleness_rejected", "action.dispatch_started",
   "action.dispatch_reported", "action.reconciled", "action.verified",
   "transaction.finalize_failed", "recovery.planned", "recovery.dispatch_started",
   "recovery.dispatched", "recovery.reconciled", "recovery.verified", "transaction.terminal",
   "receipt.issued"}

ObservationKinds ==
  {"preflight-rejection", "preflight", "approval-rejection", "staleness-rejection", "dispatch",
   "reconciliation", "verification", "recovery_plan", "compensation_dispatch",
   "compensation_reconciliation", "recovery_verification"}

Finality == {"UNKNOWN", "VERIFIED", "DISPUTED"}
Refusals == {"none", "preflight", "approval", "stale"}

Instructions ==
  {"none", "never reached the provider", "rejected outright", "ask the provider",
   "committed and not undone", "compensation never dispatched", "forward effect still in place",
   "ask the provider about the compensation", "compensation not proven"}

\* What run() throws, by what raised it.
Errors == {"none", "input", "approval", "adapter", "ledger", "INVALID_STATE_TRANSITION"}

FinalizeOutcomes == {"not called", "returned", "threw", "threw undefined"}

Writes ==
  [kind : {"transaction"}, to : TransactionStates] \union
  [kind : {"action"}, to : ActionStates] \union
  [kind : {"event"}, to : EventTypes]

Events == [kind : {"transaction", "action", "event"},
           from : TransactionStates \union ActionStates \union {"none"},
           to   : TransactionStates \union ActionStates \union EventTypes]

Receipts == [finalStatus    : TransactionStates,
             actionStatus   : ActionStates,
             finality       : Finality,
             observations   : SUBSET [kind : ObservationKinds, ok : BOOLEAN],
             manualRecovery : Instructions,
             covered        : Nat]

\* Every variable of a run holds a value the code can give it.
TypeOK ==
  /\ at \in [Txns -> Points]
  /\ todo \in [Txns -> Seq(Writes)]
  /\ transaction \in [Txns -> TransactionStates]
  /\ action \in [Txns -> ActionStates]
  /\ forwardDispatchCount \in [Txns -> Nat]
  /\ observations \in [Txns -> SUBSET [kind : ObservationKinds, ok : BOOLEAN]]
  /\ finality \in [Txns -> Finality]
  /\ refusal \in [Txns -> Refusals]
  /\ manualRecovery \in [Txns -> Instructions]
  /\ receipt \in [Txns -> Receipts \union {NoReceipt}]
  /\ thrown \in [Txns -> Errors]
  /\ finalize \in [Txns -> FinalizeOutcomes]
  /\ events \in [Txns -> Seq(Events)]

-----------------------------------------------------------------------------
Has(s, type) == \E i \in DOMAIN s : s[i].to = type
HasBefore(s, first, second) ==
  \A j \in DOMAIN s : s[j].to = second => \E i \in 1 .. (j - 1) : s[i].to = first

Logged(t, type) == Has(events[t], type)
LoggedBefore(t, first, second) == HasBefore(events[t], first, second)

\* The ledger says that the transaction has come to a state.
Reached(t, state) ==
  \E i \in DOMAIN events[t] : events[t][i].kind = "transaction" /\ events[t][i].to = state

HasReceipt(t)   == receipt[t] # NoReceipt
FinalStatus(t)  == receipt[t].finalStatus
Saw(t, kind)    == Observed(kind, TRUE) \in observations[t]
Settled(t)      == at[t] \in {"returned", "threw"}

-----------------------------------------------------------------------------
\* Whatever fails and wherever the process stops, a request leaves at most
\* once, and only when the ledger already holds the approval, the DISPATCHING
\* state and the dispatch_started event, in that order: the durable dispatch
\* boundary of run().
DispatchIsJournaled ==
  \A t \in Txns :
    /\ forwardDispatchCount[t] <= 1
    /\ forwardDispatchCount[t] = 1 => Logged(t, "action.dispatch_started")
    /\ LoggedBefore(t, "DISPATCHING", "action.dispatch_started")
    /\ LoggedBefore(t, "approval.consumed", "DISPATCHING")

\* A transaction that ends before the dispatch boundary (refusal.dispatched is
\* FALSE, and its receipt says so) never sent anything, and no step is left
\* that would.
RefusedIsNotSent ==
  \A t \in Txns :
    refusal[t] # "none" \/ transaction[t] \in {"PREFLIGHT_FAILED", "APPROVAL_DENIED", "ABORTED"}
      => /\ forwardDispatchCount[t] = 0
         /\ ~Logged(t, "action.dispatch_started")
         /\ HasReceipt(t) =>
              /\ FinalStatus(t) \in {"PREFLIGHT_FAILED", "APPROVAL_DENIED", "ABORTED"}
              /\ receipt[t].finality = "VERIFIED"

\* A receipt says VERIFIED_COMMITTED only of one dispatch that the provider
\* acknowledged or that reconciliation attributed, read back as expected, and
\* never of one whose finalize() threw an error or a compensation was sent for.
CommittedIsVerified ==
  \A t \in Txns :
    HasReceipt(t) /\ FinalStatus(t) = "VERIFIED_COMMITTED" =>
      /\ forwardDispatchCount[t] = 1
      /\ Saw(t, "dispatch") \/ Saw(t, "reconciliation")
      /\ Saw(t, "verification")
      /\ receipt[t].finality = "VERIFIED"
      /\ receipt[t].actionStatus = "VERIFIED_SUCCEEDED"
      /\ ~Logged(t, "recovery.planned")
      /\ finalize[t] \notin {"not called", "threw"}

\* A compensation leaves only for an effect known to have been applied, that
\* failed verification or whose downstream work failed, on a plan that was
\* safe, and only once the ledger says so.
CompensationIsJustified ==
  \A t \in Txns :
    at[t] \in {"recovering", "recoveryReported", "reconcileRecovery", "recoveryReconciled",
               "verifyRecovery"} \/ transaction[t] = "VERIFIED_COMPENSATED" =>
      /\ Saw(t, "dispatch") \/ Saw(t, "reconciliation")
      /\ Observed("verification", FALSE) \in observations[t]
           \/ Logged(t, "transaction.finalize_failed")
      /\ Saw(t, "recovery_plan")
      /\ Logged(t, "recovery.dispatch_started")
      /\ ~Logged(t, "VERIFIED_COMMITTED")

\* An outcome that could not be resolved ends as UNKNOWN in the receipt, and
\* no later step of the run touches the provider: it never verifies, plans or
\* compensates what it does not know it did.
UnknownIsNeverGuessed ==
  \A t \in Txns :
    Observed("reconciliation", FALSE) \in observations[t] =>
      /\ at[t] \in {"finish", "sign", "return", "returned", "threw"}
      /\ HasReceipt(t) => /\ FinalStatus(t) = "MANUAL_RECOVERY_REQUIRED"
                          /\ receipt[t].finality = "UNKNOWN"
                          /\ receipt[t].actionStatus = "OUTCOME_UNKNOWN"
                          /\ EffectMayHaveCommitted(t)

\* A receipt asks a person to finish the job exactly when its status is
\* MANUAL_RECOVERY_REQUIRED, and a compensated one carries its own proof.
ManualRecoveryIsExplained ==
  \A t \in Txns :
    HasReceipt(t) =>
      /\ FinalStatus(t) = "MANUAL_RECOVERY_REQUIRED" <=> receipt[t].manualRecovery # "none"
      /\ FinalStatus(t) = "VERIFIED_COMPENSATED" => Saw(t, "recovery_verification")

\* A run that throws leaves its ledger and nothing else, and the append of a
\* verdict may be durable although it failed.  Even so the ledger names no
\* ending that is not true: a commit was read back and finalized, a compensation
\* was proven, a refusal sent nothing; and where run() threw because the provider
\* could not be read (the awaits outside its try blocks), the one ending it may
\* name is the one that calls for a person.
LedgerVerdictsAreTrue ==
  \A t \in Txns :
    /\ Reached(t, "VERIFIED_COMMITTED") =>
         /\ forwardDispatchCount[t] = 1
         /\ Saw(t, "dispatch") \/ Saw(t, "reconciliation")
         /\ Saw(t, "verification")
         /\ ~Logged(t, "recovery.planned")
         /\ finalize[t] \notin {"not called", "threw"}
    /\ Reached(t, "VERIFIED_COMPENSATED") =>
         /\ Logged(t, "recovery.dispatch_started")
         /\ Saw(t, "recovery_verification")
         /\ ~Reached(t, "VERIFIED_COMMITTED")
    /\ \A state \in {"PREFLIGHT_FAILED", "APPROVAL_DENIED", "ABORTED"} :
         Reached(t, state) => forwardDispatchCount[t] = 0
    /\ thrown[t] = "adapter" =>
         \A state \in TerminalTransactionStates :
           Reached(t, state) => state = "MANUAL_RECOVERY_REQUIRED"

\* The ledger replays to the states the receipt reports, the receipt covers
\* every event up to the terminal one, and only receipt.issued follows it.
ReceiptMatchesLedger ==
  \A t \in Txns :
    HasReceipt(t) =>
      LET projection == replayProjection(events[t]) IN
        /\ projection.valid
        /\ projection.transactionState = FinalStatus(t)
        /\ projection.actionState = receipt[t].actionStatus
        /\ events[t][receipt[t].covered].to = "transaction.terminal"
        /\ Len(events[t]) <= receipt[t].covered + 1

\* effectMayHaveCommitted is FALSE, and the instruction says that nothing
\* committed, only if the provider did not acknowledge the dispatch.
NothingCommittedIsHonest ==
  \A t \in Txns : Saw(t, "dispatch") => EffectMayHaveCommitted(t)

\* "The forward effect is still in place" is never said of an effect whose
\* compensation the provider acknowledged.
StillInPlaceIsHonest ==
  \A t \in Txns :
    Saw(t, "compensation_dispatch") => manualRecovery[t] # "forward effect still in place"

\* No run is stopped by its own transition tables.
NoIllegalTransition == \A t \in Txns : thrown[t] # "INVALID_STATE_TRANSITION"

\* Once the adapter and the ledger answer, every started run returns or throws.
RunsSettle == \A t \in Txns : at[t] # "idle" ~> Settled(t)
=============================================================================
