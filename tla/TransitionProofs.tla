-------------------------- MODULE TransitionProofs --------------------------
(***************************************************************************)
(* The engine and its own transition tables, proved: no run() asks for a   *)
(* state change that assertTransactionTransition or assertActionTransition *)
(* refuses, as long as no recovery is refused with COMPENSATION_BLOCKED;   *)
(* what a person is told of an effect is true as long as no error of the   *)
(* ledger has a code; and the ledger replays to what the receipt reports   *)
(* as long as an append that fails stores nothing.                         *)
(*                                                                         *)
(* A handler queues its writes long before they are made, so the           *)
(* invariant is about lists: at every point the state of both machines is  *)
(* known (Stations), every write of the queue is allowed in the state it   *)
(* will find (Lawful), and the queue leads to the states of the point the  *)
(* run is on its way to (Arrives).                                         *)
(***************************************************************************)
EXTENDS TransactionEngineProofs, WellFoundedInduction

MachineStates == TransactionStates \union ActionStates

\* The state a machine has reached once the first n writes of a list are made.
After(list, n, kind, state, reached) ==
  \/ reached = state /\ \A i \in 1 .. n : list[i].kind # kind
  \/ \E i \in 1 .. n : /\ list[i].kind = kind /\ list[i].to = reached
                       /\ \A j \in (i + 1) .. n : list[j].kind # kind

MayMove(kind, from, to) ==
  /\ kind = "transaction" => TransactionMayMove(from, to)
  /\ kind = "action" => ActionMayMove(from, to)

\* Every write of one machine is allowed in the state it will find.
Lawful(list, kind, state) ==
  \A i \in DOMAIN list :
    list[i].kind = kind =>
      \A from \in MachineStates :
        After(list, i - 1, kind, state, from) => MayMove(kind, from, list[i].to)

\* The states of the transaction and of its action at the points of a run that
\* has no verdict.
Stations ==
  {<<"idle", "DRAFT", "PROPOSED">>,
   <<"preflight", "PREFLIGHTING", "PREFLIGHTING">>,
   <<"approve", "AWAITING_APPROVAL", "AWAITING_APPROVAL">>,
   <<"fresh", "COMMIT_REQUESTED", "ADMITTED">>,
   <<"dispatch", "COMMITTING", "DISPATCHING">>,
   <<"dispatching", "COMMITTING", "DISPATCHING">>,
   <<"reported", "COMMITTING", "REPORTED_SUCCEEDED">>,
   <<"reconcile", "RECONCILING", "RECONCILING">>,
   <<"reconciled", "VERIFYING", "REPORTED_SUCCEEDED">>,
   <<"verify", "VERIFYING", "VERIFYING">>,
   <<"finalize", "VERIFYING", "VERIFIED_SUCCEEDED">>,
   <<"plan", "COMPENSATING", "COMPENSATION_PLANNED">>,
   <<"recover", "COMPENSATING", "COMPENSATING">>,
   <<"recovering", "COMPENSATING", "COMPENSATING">>,
   <<"recoveryReported", "COMPENSATING", "COMPENSATION_REPORTED_SUCCEEDED">>,
   <<"reconcileRecovery", "COMPENSATING", "COMPENSATION_RECONCILING">>,
   <<"recoveryReconciled", "COMPENSATING", "COMPENSATION_REPORTED_SUCCEEDED">>,
   <<"verifyRecovery", "VERIFYING_RECOVERY", "COMPENSATION_VERIFYING">>}

Reaches(list, from, by, p) ==
  p \notin Closed =>
    \A s \in TransactionStates, a \in ActionStates :
      /\ After(list, Len(list), "transaction", from, s)
      /\ After(list, Len(list), "action", by, a)
      => <<p, s, a>> \in Stations

\* From the station p the list is lawful and leads to the station q.
Leads(p, list, q) ==
  \A s \in TransactionStates, a \in ActionStates :
    <<p, s, a>> \in Stations =>
      /\ Lawful(list, "transaction", s) /\ Lawful(list, "action", a)
      /\ Reaches(list, s, a, q)

Arrives(t) == Reaches(todo[t], transaction[t], action[t], at[t])

\* The two lists that are written inside a try block.
ReportingDispatch == <<Ev("action.dispatch_reported"), Act("REPORTED_SUCCEEDED")>>
ReportingRecovery == <<Ev("recovery.dispatched"), Act("COMPENSATION_REPORTED_SUCCEEDED")>>

\* An error raised while they are finds the machines where the dispatch left them.
Reporting(t) ==
  /\ at[t] = "reported" /\ todo[t] # <<>> =>
       /\ transaction[t] = "COMMITTING" /\ action[t] = "DISPATCHING"
       /\ todo[t] = ReportingDispatch \/ todo[t] = <<Act("REPORTED_SUCCEEDED")>>
  /\ at[t] = "recoveryReported" /\ todo[t] # <<>> =>
       /\ transaction[t] = "COMPENSATING" /\ action[t] = "COMPENSATING"
       /\ \/ todo[t] = ReportingRecovery
          \/ todo[t] = <<Act("COMPENSATION_REPORTED_SUCCEEDED")>>

\* A recovery refused with COMPENSATION_BLOCKED is the one that breaks the table.
Orderly(t) == at[t] = "finish" => "COMPENSATION_BLOCKED" \notin RecoveryErrors

Legal(t) ==
  /\ Orderly(t) => /\ Lawful(todo[t], "transaction", transaction[t])
                   /\ Lawful(todo[t], "action", action[t])
  /\ Arrives(t) /\ Reporting(t)
  /\ at[t] = "idle" => todo[t] = <<>>
  /\ thrown[t] = "INVALID_STATE_TRANSITION" => "COMPENSATION_BLOCKED" \in RecoveryErrors

LegalInv == TypeOK /\ \A t \in Txns : Legal(t)

-----------------------------------------------------------------------------
USE DEF Closed, Ending

\* One more write moves the machine it is for.
LEMMA AfterOneMore ==
  ASSUME NEW list, NEW kind, NEW state, NEW reached, NEW n \in Nat
  PROVE  After(list, n + 1, kind, state, reached) <=>
           IF list[n + 1].kind = kind THEN reached = list[n + 1].to
                                      ELSE After(list, n, kind, state, reached)
<1>1. 1 .. (n + 1) = (1 .. n) \union {n + 1}
  OBVIOUS
<1>2. \A i \in 1 .. n : (i + 1) .. (n + 1) = ((i + 1) .. n) \union {n + 1}
  OBVIOUS
<1>3. ((n + 1) + 1) .. (n + 1) = {}
  OBVIOUS
<1> QED
  BY <1>1, <1>2, <1>3 DEF After

\* The same for lists of up to five writes, the longest a handler queues.
LEMMA AfterUpToFive ==
  ASSUME NEW list, NEW kind, NEW state, NEW reached
  PROVE  /\ After(list, 0, kind, state, reached) <=> reached = state
         /\ After(list, 1, kind, state, reached) <=>
              IF list[1].kind = kind THEN reached = list[1].to ELSE reached = state
         /\ After(list, 2, kind, state, reached) <=>
              IF list[2].kind = kind THEN reached = list[2].to
                                     ELSE After(list, 1, kind, state, reached)
         /\ After(list, 3, kind, state, reached) <=>
              IF list[3].kind = kind THEN reached = list[3].to
                                     ELSE After(list, 2, kind, state, reached)
         /\ After(list, 4, kind, state, reached) <=>
              IF list[4].kind = kind THEN reached = list[4].to
                                     ELSE After(list, 3, kind, state, reached)
         /\ After(list, 5, kind, state, reached) <=>
              IF list[5].kind = kind THEN reached = list[5].to
                                     ELSE After(list, 4, kind, state, reached)
<1> DEFINE One(n) == IF list[n + 1].kind = kind THEN reached = list[n + 1].to
                                                ELSE After(list, n, kind, state, reached)
<1>1. After(list, 0, kind, state, reached) <=> reached = state
  BY DEF After
<1>2. After(list, 0 + 1, kind, state, reached) <=> One(0)
  BY AfterOneMore
<1>3. After(list, 1 + 1, kind, state, reached) <=> One(1)
  BY AfterOneMore
<1>4. After(list, 2 + 1, kind, state, reached) <=> One(2)
  BY AfterOneMore
<1>5. After(list, 3 + 1, kind, state, reached) <=> One(3)
  BY AfterOneMore
<1>6. After(list, 4 + 1, kind, state, reached) <=> One(4)
  BY AfterOneMore
<1> QED
  BY <1>1, <1>2, <1>3, <1>4, <1>5, <1>6

\* The lists of run() before the dispatch, in the order they are queued.
LEMMA AdmissionIsLawful ==
  /\ Leads("idle", <<Ev("transaction.created"), Tx("PREFLIGHTING"), Act("PREFLIGHTING")>>,
           "preflight")
  /\ Leads("preflight", <<Act("PREFLIGHT_REJECTED"), Tx("PREFLIGHT_FAILED"),
                          Ev("action.preflight_rejected")>>, "finish")
  /\ Leads("preflight", <<Ev("action.preflighted"), Act("PREFLIGHTED"), Tx("READY"),
                          Tx("AWAITING_APPROVAL"), Act("AWAITING_APPROVAL")>>, "approve")
  /\ Leads("approve", <<Ev("approval.rejected"), Act("CANCELLED"), Tx("APPROVAL_DENIED")>>,
           "finish")
  /\ Leads("approve", <<Ev("approval.consumed"), Act("ADMITTED"), Tx("COMMIT_REQUESTED")>>,
           "fresh")
  /\ Leads("fresh", <<Ev("action.staleness_rejected"), Act("CANCELLED"), Tx("ABORTED")>>,
           "finish")
  /\ Leads("fresh", <<Act("SCHEDULED"), Tx("COMMITTING"), Act("DISPATCHING"),
                      Ev("action.dispatch_started")>>, "dispatch")
<1> USE AfterUpToFive
    DEF Leads, Lawful, Reaches, Stations, MayMove, TransactionMayMove, ActionMayMove,
        TransactionTransitions, ActionTransitions, Ev, Act, Tx, Write,
        ReportingDispatch, ReportingRecovery
<1>1. Leads("idle", <<Ev("transaction.created"), Tx("PREFLIGHTING"), Act("PREFLIGHTING")>>,
           "preflight")
  OBVIOUS
<1>2. Leads("preflight", <<Act("PREFLIGHT_REJECTED"), Tx("PREFLIGHT_FAILED"),
                          Ev("action.preflight_rejected")>>, "finish")
  OBVIOUS
<1>3. Leads("preflight", <<Ev("action.preflighted"), Act("PREFLIGHTED"), Tx("READY"),
                          Tx("AWAITING_APPROVAL"), Act("AWAITING_APPROVAL")>>, "approve")
  OBVIOUS
<1>4. Leads("approve", <<Ev("approval.rejected"), Act("CANCELLED"), Tx("APPROVAL_DENIED")>>,
           "finish")
  OBVIOUS
<1>5. Leads("approve", <<Ev("approval.consumed"), Act("ADMITTED"), Tx("COMMIT_REQUESTED")>>,
           "fresh")
  OBVIOUS
<1>6. Leads("fresh", <<Ev("action.staleness_rejected"), Act("CANCELLED"), Tx("ABORTED")>>,
           "finish")
  OBVIOUS
<1>7. Leads("fresh", <<Act("SCHEDULED"), Tx("COMMITTING"), Act("DISPATCHING"),
                      Ev("action.dispatch_started")>>, "dispatch")
  OBVIOUS
<1> QED
  BY <1>1, <1>2, <1>3, <1>4, <1>5, <1>6, <1>7

\* The lists of dispatch, reconciliation, verification and finalize.
LEMMA ForwardIsLawful ==
  /\ Leads("dispatch", <<>>, "dispatching")
  /\ Leads("dispatching", ReportingDispatch, "reported")
  /\ Leads("dispatching", <<Act("OUTCOME_UNKNOWN"), Tx("RECONCILING"), Act("RECONCILING")>>,
           "reconcile")
  /\ Leads("dispatching", <<Act("PROVIDER_REJECTED"), Tx("FAILURE_DETECTED"),
                            Tx("MANUAL_RECOVERY_REQUIRED")>>, "finish")
  /\ Leads("reconcile", <<Ev("action.reconciled"), Act("REPORTED_SUCCEEDED"), Tx("VERIFYING")>>,
           "reconciled")
  /\ Leads("reconcile", <<Ev("action.reconciled"), Act("OUTCOME_UNKNOWN"),
                          Tx("MANUAL_RECOVERY_REQUIRED")>>, "finish")
  /\ Leads("verify", <<Ev("action.verified"), Act("VERIFIED_SUCCEEDED")>>, "finalize")
  /\ Leads("verify", <<Ev("action.verified"), Act("VERIFICATION_FAILED"), Tx("FAILURE_DETECTED"),
                       Act("COMPENSATION_PLANNED"), Tx("COMPENSATING")>>, "plan")
  /\ Leads("finalize", <<Tx("VERIFIED_COMMITTED")>>, "finish")
  /\ Leads("finalize", <<Tx("FAILURE_DETECTED"), Ev("transaction.finalize_failed"),
                         Act("COMPENSATION_PLANNED"), Tx("COMPENSATING")>>, "plan")
<1> USE AfterUpToFive
    DEF Leads, Lawful, Reaches, Stations, MayMove, TransactionMayMove, ActionMayMove,
        TransactionTransitions, ActionTransitions, Ev, Act, Tx, Write,
        ReportingDispatch, ReportingRecovery
<1>1. Leads("dispatch", <<>>, "dispatching")
  OBVIOUS
<1>2. Leads("dispatching", ReportingDispatch, "reported")
  OBVIOUS
<1>3. Leads("dispatching", <<Act("OUTCOME_UNKNOWN"), Tx("RECONCILING"), Act("RECONCILING")>>,
           "reconcile")
  OBVIOUS
<1>4. Leads("dispatching", <<Act("PROVIDER_REJECTED"), Tx("FAILURE_DETECTED"),
                            Tx("MANUAL_RECOVERY_REQUIRED")>>, "finish")
  OBVIOUS
<1>5. Leads("reconcile", <<Ev("action.reconciled"), Act("REPORTED_SUCCEEDED"), Tx("VERIFYING")>>,
           "reconciled")
  OBVIOUS
<1>6. Leads("reconcile", <<Ev("action.reconciled"), Act("OUTCOME_UNKNOWN"),
                          Tx("MANUAL_RECOVERY_REQUIRED")>>, "finish")
  OBVIOUS
<1>7. Leads("verify", <<Ev("action.verified"), Act("VERIFIED_SUCCEEDED")>>, "finalize")
  OBVIOUS
<1>8. Leads("verify", <<Ev("action.verified"), Act("VERIFICATION_FAILED"), Tx("FAILURE_DETECTED"),
                       Act("COMPENSATION_PLANNED"), Tx("COMPENSATING")>>, "plan")
  OBVIOUS
<1>9. Leads("finalize", <<Tx("VERIFIED_COMMITTED")>>, "finish")
  OBVIOUS
<1>10. Leads("finalize", <<Tx("FAILURE_DETECTED"), Ev("transaction.finalize_failed"),
                          Act("COMPENSATION_PLANNED"), Tx("COMPENSATING")>>, "plan")
  OBVIOUS
<1> QED
  BY <1>1, <1>2, <1>3, <1>4, <1>5, <1>6, <1>7, <1>8, <1>9, <1>10

\* The lists of the recovery but the one of a refused compensation.
LEMMA RecoveryIsLawful ==
  /\ Leads("plan", <<Ev("recovery.planned"), Act("COMPENSATION_BLOCKED"),
                     Tx("MANUAL_RECOVERY_REQUIRED")>>, "observe")
  /\ Leads("plan", <<Ev("recovery.planned"), Act("COMPENSATING"), Ev("recovery.dispatch_started")>>,
           "recover")
  /\ Leads("recover", <<>>, "recovering")
  /\ Leads("recovering", ReportingRecovery, "recoveryReported")
  /\ Leads("recovering", <<Act("COMPENSATION_UNKNOWN"), Act("COMPENSATION_RECONCILING")>>,
           "reconcileRecovery")
  /\ Leads("recovering", <<Act("COMPENSATION_FAILED"), Tx("MANUAL_RECOVERY_REQUIRED")>>,
           "finish")
  /\ Leads("reconcileRecovery", <<Ev("recovery.reconciled"),
                                  Act("COMPENSATION_REPORTED_SUCCEEDED")>>,
           "recoveryReconciled")
  /\ Leads("reconcileRecovery", <<Ev("recovery.reconciled"), Act("COMPENSATION_FAILED"),
                                  Tx("MANUAL_RECOVERY_REQUIRED")>>, "finish")
  /\ Leads("recoveryReported", <<Act("COMPENSATION_VERIFYING"), Tx("VERIFYING_RECOVERY")>>,
           "verifyRecovery")
  /\ Leads("recoveryReconciled", <<Act("COMPENSATION_VERIFYING"), Tx("VERIFYING_RECOVERY")>>,
           "verifyRecovery")
  /\ Leads("verifyRecovery", <<Ev("recovery.verified"), Act("VERIFIED_COMPENSATED"),
                               Tx("VERIFIED_COMPENSATED")>>, "finish")
  /\ Leads("verifyRecovery", <<Ev("recovery.verified"), Act("COMPENSATION_FAILED"),
                               Tx("MANUAL_RECOVERY_REQUIRED")>>, "finish")
<1> USE AfterUpToFive
    DEF Leads, Lawful, Reaches, Stations, MayMove, TransactionMayMove, ActionMayMove,
        TransactionTransitions, ActionTransitions, Ev, Act, Tx, Write,
        ReportingDispatch, ReportingRecovery
<1>1. Leads("plan", <<Ev("recovery.planned"), Act("COMPENSATION_BLOCKED"),
                     Tx("MANUAL_RECOVERY_REQUIRED")>>, "observe")
  OBVIOUS
<1>2. Leads("plan", <<Ev("recovery.planned"), Act("COMPENSATING"),
                      Ev("recovery.dispatch_started")>>,
           "recover")
  OBVIOUS
<1>3. Leads("recover", <<>>, "recovering")
  OBVIOUS
<1>4. Leads("recovering", ReportingRecovery, "recoveryReported")
  OBVIOUS
<1>5. Leads("recovering", <<Act("COMPENSATION_UNKNOWN"), Act("COMPENSATION_RECONCILING")>>,
           "reconcileRecovery")
  OBVIOUS
<1>6. Leads("recovering", <<Act("COMPENSATION_FAILED"), Tx("MANUAL_RECOVERY_REQUIRED")>>,
           "finish")
  OBVIOUS
<1>7. Leads("reconcileRecovery", <<Ev("recovery.reconciled"),
                                   Act("COMPENSATION_REPORTED_SUCCEEDED")>>,
           "recoveryReconciled")
  OBVIOUS
<1>8. Leads("reconcileRecovery", <<Ev("recovery.reconciled"), Act("COMPENSATION_FAILED"),
                                  Tx("MANUAL_RECOVERY_REQUIRED")>>, "finish")
  OBVIOUS
<1>9. Leads("recoveryReported", <<Act("COMPENSATION_VERIFYING"), Tx("VERIFYING_RECOVERY")>>,
           "verifyRecovery")
  OBVIOUS
<1>10. Leads("recoveryReconciled", <<Act("COMPENSATION_VERIFYING"), Tx("VERIFYING_RECOVERY")>>,
            "verifyRecovery")
  OBVIOUS
<1>11. Leads("verifyRecovery", <<Ev("recovery.verified"), Act("VERIFIED_COMPENSATED"),
                                Tx("VERIFIED_COMPENSATED")>>, "finish")
  OBVIOUS
<1>12. Leads("verifyRecovery", <<Ev("recovery.verified"), Act("COMPENSATION_FAILED"),
                                Tx("MANUAL_RECOVERY_REQUIRED")>>, "finish")
  OBVIOUS
<1> QED
  BY <1>1, <1>2, <1>3, <1>4, <1>5, <1>6, <1>7, <1>8, <1>9, <1>10, <1>11, <1>12

-----------------------------------------------------------------------------
\* An action that queues a lawful list where the states are those of its station.
LEMMA QueuesLawfully ==
  ASSUME TypeOK, NEW t \in Txns, NEW p, NEW q, NEW list,
         <<p, transaction[t], action[t]>> \in Stations, Leads(p, list, q),
         Continue(t, list, q), UNCHANGED <<states, thrown>>, Legal(t),
         q = "reported" => list = ReportingDispatch /\ p = "dispatching",
         q = "recoveryReported" => list = ReportingRecovery /\ p = "recovering",
         q # "idle"
  PROVE  Legal(t)'
<1>1. /\ at'[t] = q /\ todo'[t] = list /\ thrown'[t] = thrown[t]
      /\ transaction'[t] = transaction[t] /\ action'[t] = action[t]
      /\ transaction[t] \in TransactionStates /\ action[t] \in ActionStates
  BY DEF Continue, TypeOK, states
<1>2. /\ Lawful(list, "transaction", transaction[t]) /\ Lawful(list, "action", action[t])
      /\ Reaches(list, transaction[t], action[t], q)
  BY <1>1 DEF Leads
<1>3. Reporting(t)'
  BY <1>1 DEF Reporting, Stations
<1> QED
  BY <1>1, <1>2, <1>3 DEF Legal, Arrives

\* At an await without a verdict the states are those of the point.
LEMMA AtStation ==
  ASSUME TypeOK, NEW t \in Txns, Legal(t), todo[t] = <<>>, at[t] \notin Closed
  PROVE  <<at[t], transaction[t], action[t]>> \in Stations
<1>1. Len(todo[t]) = 0
  BY DEF TypeOK
<1>2. /\ After(todo[t], 0, "transaction", transaction[t], transaction[t])
      /\ After(todo[t], 0, "action", action[t], action[t])
  BY AfterUpToFive
<1> QED
  BY <1>1, <1>2 DEF Legal, Arrives, Reaches, TypeOK

\* So an action that handles an answer is lawful if its list is.
LEMMA HandlesLawfully ==
  ASSUME TypeOK, NEW t \in Txns, Legal(t), NEW p \in Points \ Closed, NEW q, NEW list,
         Awaits(t, p), Leads(p, list, q), Continue(t, list, q), UNCHANGED <<states, thrown>>,
         q = "reported" => list = ReportingDispatch /\ p = "dispatching",
         q = "recoveryReported" => list = ReportingRecovery /\ p = "recovering",
         q # "idle"
  PROVE  Legal(t)'
BY AtStation, QueuesLawfully DEF Awaits

\* A list of events asks nothing of the machines, and no list nothing at all.
LEMMA EventsAreLawful ==
  ASSUME TypeOK, NEW t \in Txns, Legal(t), NEW q \in Closed, NEW list \in Seq(Writes),
         \A i \in DOMAIN list : list[i].kind = "event",
         Continue(t, list, q), UNCHANGED states,
         thrown'[t] = "INVALID_STATE_TRANSITION" =>
           thrown[t] = thrown'[t] \/ "COMPENSATION_BLOCKED" \in RecoveryErrors
  PROVE  Legal(t)'
<1>1. at'[t] = q /\ todo'[t] = list
  BY DEF Continue, TypeOK
<1> QED
  BY <1>1 DEF Legal, Lawful, Arrives, Reaches, Reporting

\* The actions of the admission.
LEMMA AdmissionKeepsLaw ==
  ASSUME TypeOK, NEW t \in Txns, Legal(t),
         \/ PreflightRejected(t) \/ Preflighted(t) \/ ApprovalRejected(t) \/ ApprovalConsumed(t)
         \/ Stale(t) \/ Fresh(t)
  PROVE  Legal(t)'
<1> USE HandlesLawfully, AdmissionIsLawful DEF outcome, Points
<1>1. CASE PreflightRejected(t)
  BY <1>1 DEF PreflightRejected
<1>2. CASE Preflighted(t)
  BY <1>2 DEF Preflighted
<1>3. CASE ApprovalRejected(t)
  BY <1>3 DEF ApprovalRejected
<1>4. CASE ApprovalConsumed(t)
  BY <1>4 DEF ApprovalConsumed
<1>5. CASE Stale(t)
  BY <1>5 DEF Stale
<1>6. CASE Fresh(t)
  BY <1>6 DEF Fresh
<1> QED
  BY <1>1, <1>2, <1>3, <1>4, <1>5, <1>6

\* The catch clause of the dispatch, from where the dispatch left the machines.
LEMMA DispatchCatchKeepsLaw ==
  ASSUME TypeOK, NEW t \in Txns, Legal(t), NEW error, DispatchCatch(t, error),
         transaction[t] = "COMMITTING", action[t] = "DISPATCHING", UNCHANGED <<states, thrown>>
  PROVE  Legal(t)'
<1>1. <<"dispatching", transaction[t], action[t]>> \in Stations
  BY DEF Stations
<1>2. CASE OutcomeUnknown(error)
  BY <1>1, <1>2, QueuesLawfully, ForwardIsLawful DEF DispatchCatch
<1>3. CASE ~OutcomeUnknown(error)
  BY <1>1, <1>3, QueuesLawfully, ForwardIsLawful DEF DispatchCatch
<1> QED
  BY <1>2, <1>3

\* BeginVerifying moves the transaction only where the reconciliation has not.
LEMMA VerifyingIsLawful ==
  ASSUME TypeOK, NEW t \in Txns, Legal(t), BeginVerifying(t)
  PROVE  Legal(t)'
<1> DEFINE moving == IF transaction[t] = "COMMITTING" THEN <<Tx("VERIFYING")>> ELSE <<>>
           list == moving \o <<Act("VERIFYING")>>
<1>1. Continue(t, list, "verify") /\ UNCHANGED <<states, thrown>>
  BY DEF BeginVerifying, outcome
<1>2. CASE Awaits(t, "reported")
  <2>1. moving = <<Tx("VERIFYING")>>
    BY <1>2, AtStation DEF Awaits, Stations
  <2>2. /\ Len(list) = 2 /\ DOMAIN list = 1 .. 2
        /\ list[1] = Tx("VERIFYING") /\ list[2] = Act("VERIFYING")
    BY <2>1
  <2> HIDE DEF list
  <2>3. Leads("reported", list, "verify")
    BY <2>2, AfterUpToFive
    DEF Leads, Lawful, Reaches, Stations, MayMove, TransactionMayMove, ActionMayMove,
        TransactionTransitions, ActionTransitions, Act, Tx, Write
  <2> QED
    BY <1>1, <1>2, <2>3, HandlesLawfully DEF Points
<1>3. CASE Awaits(t, "reconciled")
  <2>1. moving = <<>>
    BY <1>3, AtStation DEF Awaits, Stations
  <2>2. Len(list) = 1 /\ DOMAIN list = 1 .. 1 /\ list[1] = Act("VERIFYING")
    BY <2>1
  <2> HIDE DEF list
  <2>3. Leads("reconciled", list, "verify")
    BY <2>2, AfterUpToFive
    DEF Leads, Lawful, Reaches, Stations, MayMove, TransactionMayMove, ActionMayMove,
        TransactionTransitions, ActionTransitions, Act, Tx, Write
  <2> QED
    BY <1>1, <1>3, <2>3, HandlesLawfully DEF Points
<1> QED
  BY <1>2, <1>3 DEF BeginVerifying

\* The actions from the dispatch to finalize.
LEMMA ForwardKeepsLaw ==
  ASSUME TypeOK, NEW t \in Txns, Legal(t), Forward(t)
  PROVE  Legal(t)'
<1> USE HandlesLawfully, ForwardIsLawful DEF outcome, Points
<1>1. CASE Dispatch(t)
  BY <1>1 DEF Dispatch
<1>2. CASE DispatchReported(t)
  BY <1>2 DEF DispatchReported, ReportingDispatch
<1>3. CASE \E error \in DispatchErrors : DispatchThrows(t, error)
  <2>1. PICK error \in DispatchErrors : DispatchThrows(t, error)
    BY <1>3
  <2>2. transaction[t] = "COMMITTING" /\ action[t] = "DISPATCHING"
    BY <2>1, AtStation DEF DispatchThrows, Awaits, Stations
  <2> QED
    BY <2>1, <2>2, DispatchCatchKeepsLaw DEF DispatchThrows
<1>4. CASE Reconciled(t)
  BY <1>4 DEF Reconciled
<1>5. CASE Unresolved(t)
  BY <1>5 DEF Unresolved
<1>6. CASE BeginVerifying(t)
  BY <1>6, VerifyingIsLawful
<1>7. CASE Verified(t)
  BY <1>7 DEF Verified
<1>8. CASE VerificationFailed(t)
  BY <1>8 DEF VerificationFailed
<1>9. CASE Finalized(t)
  BY <1>9 DEF Finalized
<1>10. CASE FinalizeThrows(t)
  BY <1>10 DEF FinalizeThrows
<1>11. CASE FinalizeThrowsUndefined(t)
  BY <1>11 DEF FinalizeThrowsUndefined
<1> QED
  BY <1>1, <1>2, <1>3, <1>4, <1>5, <1>6, <1>7, <1>8, <1>9, <1>10, <1>11 DEF Forward

\* The catch clause of the recovery: its list for COMPENSATION_BLOCKED breaks the
\* table, and only the error of a recovery gets there.
LEMMA RecoveryCatchKeepsLaw ==
  ASSUME TypeOK, NEW t \in Txns, Legal(t), NEW error, RecoveryCatch(t, error),
         error = "COMPENSATION_BLOCKED" => error \in RecoveryErrors,
         transaction[t] = "COMPENSATING", action[t] = "COMPENSATING", UNCHANGED <<states, thrown>>
  PROVE  Legal(t)'
<1>1. <<"recovering", transaction[t], action[t]>> \in Stations
  BY DEF Stations
<1>2. CASE OutcomeUnknown(error)
  <2>1. Continue(t, <<Act("COMPENSATION_UNKNOWN"), Act("COMPENSATION_RECONCILING")>>,
                 "reconcileRecovery")
    BY <1>2 DEF RecoveryCatch, OutcomeUnknown
  <2> QED
    BY <1>1, <2>1, QueuesLawfully, RecoveryIsLawful
<1>3. CASE error = "COMPENSATION_BLOCKED"
  <2>1. at'[t] = "finish" /\ thrown'[t] = thrown[t]
    BY <1>3 DEF RecoveryCatch, OutcomeUnknown, Continue, TypeOK
  <2> QED
    BY <1>3, <2>1 DEF Legal, Orderly, Arrives, Reaches, Reporting
<1>4. CASE ~OutcomeUnknown(error) /\ error # "COMPENSATION_BLOCKED"
  BY <1>1, <1>4, QueuesLawfully, RecoveryIsLawful DEF RecoveryCatch
<1> QED
  BY <1>2, <1>3, <1>4

\* The actions of the recovery.
LEMMA RecoveryKeepsLaw ==
  ASSUME TypeOK, NEW t \in Txns, Legal(t), Recovery(t)
  PROVE  Legal(t)'
<1> USE HandlesLawfully, RecoveryIsLawful DEF outcome, Points
<1>1. CASE RecoveryUnsafe(t)
  BY <1>1 DEF RecoveryUnsafe
<1>2. CASE BlockedObserved(t)
  <2>1. Continue(t, <<>>, "finish") /\ UNCHANGED states /\ thrown'[t] = thrown[t]
    BY <1>2 DEF BlockedObserved
  <2>2. <<>> \in Seq(Writes) /\ \A i \in DOMAIN <<>> : <<>>[i].kind = "event"
    OBVIOUS
  <2>3. "finish" \in Closed
    OBVIOUS
  <2> QED
    BY <2>1, <2>2, <2>3, EventsAreLawful
<1>3. CASE RecoverySafe(t)
  BY <1>3 DEF RecoverySafe
<1>4. CASE ExecuteRecovery(t)
  BY <1>4 DEF ExecuteRecovery
<1>5. CASE RecoveryReported(t)
  BY <1>5 DEF RecoveryReported, ReportingRecovery
<1>6. CASE \E error \in RecoveryErrors : RecoveryThrows(t, error)
  <2>1. PICK error \in RecoveryErrors : RecoveryThrows(t, error)
    BY <1>6
  <2>2. transaction[t] = "COMPENSATING" /\ action[t] = "COMPENSATING"
    BY <2>1, AtStation DEF RecoveryThrows, Awaits, Stations
  <2> QED
    BY <2>1, <2>2, RecoveryCatchKeepsLaw DEF RecoveryThrows
<1>7. CASE RecoveryReconciled(t)
  BY <1>7 DEF RecoveryReconciled
<1>8. CASE RecoveryUnresolved(t)
  BY <1>8 DEF RecoveryUnresolved
<1>9. CASE BeginVerifyingRecovery(t)
  BY <1>9 DEF BeginVerifyingRecovery
<1>10. CASE RecoveryVerified(t)
  BY <1>10 DEF RecoveryVerified
<1>11. CASE RecoveryDisputed(t)
  BY <1>11 DEF RecoveryDisputed
<1> QED
  BY <1>1, <1>2, <1>3, <1>4, <1>5, <1>6, <1>7, <1>8, <1>9, <1>10, <1>11 DEF Recovery

-----------------------------------------------------------------------------
\* The last stretch: events only.
LEMMA FinishingKeepsLaw ==
  ASSUME TypeOK, NEW t \in Txns, Legal(t), FinishResult(t) \/ SignReceipt(t) \/ Return(t)
  PROVE  Legal(t)'
<1>1. /\ <<>> \in Seq(Writes) /\ \A i \in DOMAIN <<>> : <<>>[i].kind = "event"
      /\ \A e \in EventTypes : /\ <<Ev(e)>> \in Seq(Writes)
                               /\ \A i \in DOMAIN <<Ev(e)>> : <<Ev(e)>>[i].kind = "event"
  BY WritesAreTyped, TuplesOfWrites DEF Ev, Write
<1>2. "sign" \in Closed /\ "return" \in Closed /\ "returned" \in Closed
  OBVIOUS
<1>3. CASE FinishResult(t)
  <2>1. Continue(t, <<Ev("transaction.terminal")>>, "sign") /\ UNCHANGED <<states, thrown>>
    BY <1>3 DEF FinishResult, outcome
  <2>2. "transaction.terminal" \in EventTypes
    BY DEF EventTypes
  <2> QED
    BY <1>1, <1>2, <2>1, <2>2, EventsAreLawful
<1>4. CASE SignReceipt(t)
  <2>1. Continue(t, <<Ev("receipt.issued")>>, "return") /\ UNCHANGED <<states, thrown>>
    BY <1>4 DEF SignReceipt
  <2>2. "receipt.issued" \in EventTypes
    BY DEF EventTypes
  <2> QED
    BY <1>1, <1>2, <2>1, <2>2, EventsAreLawful
<1>5. CASE Return(t)
  <2>1. Continue(t, <<>>, "returned") /\ UNCHANGED <<states, thrown>>
    BY <1>5 DEF Return, outcome
  <2> QED
    BY <1>1, <1>2, <2>1, EventsAreLawful
<1> QED
  BY <1>3, <1>4, <1>5

\* A run that throws something else than a refused transition.
LEMMA ThrowKeepsLaw ==
  ASSUME TypeOK, NEW t \in Txns, Legal(t), NEW cause, Throw(t, cause), UNCHANGED states,
         cause = "INVALID_STATE_TRANSITION" => "COMPENSATION_BLOCKED" \in RecoveryErrors
  PROVE  Legal(t)'
<1>1. /\ <<>> \in Seq(Writes) /\ \A i \in DOMAIN <<>> : <<>>[i].kind = "event"
      /\ "threw" \in Closed
  OBVIOUS
<1>2. Continue(t, <<>>, "threw") /\ thrown'[t] = cause
  BY DEF Throw, TypeOK
<1> QED
  BY <1>1, <1>2, EventsAreLawful

\* Start queues its list at the first station, and so do the others there.
LEMMA EdgesKeepLaw ==
  ASSUME TypeOK, NEW t \in Txns, Legal(t),
         \/ Start(t) \/ InputThrows(t) \/ ApprovalThrows(t) \/ AdapterThrows(t)
         \/ LedgerReadThrows(t)
  PROVE  Legal(t)'
<1>1. CASE Start(t)
  <2>1. Awaits(t, "idle")
    BY <1>1 DEF Start, Awaits, Legal
  <2> QED
    BY <1>1, <2>1, HandlesLawfully, AdmissionIsLawful DEF Start, outcome, Points
<1>2. CASE InputThrows(t)
  BY <1>2, ThrowKeepsLaw DEF InputThrows
<1>3. CASE ApprovalThrows(t)
  BY <1>3, ThrowKeepsLaw DEF ApprovalThrows
<1>4. CASE AdapterThrows(t)
  BY <1>4, ThrowKeepsLaw DEF AdapterThrows
<1>5. CASE LedgerReadThrows(t)
  BY <1>5, ThrowKeepsLaw DEF LedgerReadThrows
<1> QED
  BY <1>1, <1>2, <1>3, <1>4, <1>5

-----------------------------------------------------------------------------
\* The next write of a lawful list is allowed.
LEMMA HeadIsAllowed ==
  ASSUME TypeOK, NEW t \in Txns, Legal(t), Orderly(t), todo[t] # <<>>
  PROVE  Allowed(t, Head(todo[t]))
<1> DEFINE w == Head(todo[t])
<1>1. 1 \in DOMAIN todo[t] /\ todo[t][1] = w /\ 1 - 1 = 0
  BY DEF TypeOK
<1>2. transaction[t] \in MachineStates /\ action[t] \in MachineStates
  BY DEF TypeOK, MachineStates
<1>3. /\ After(todo[t], 0, "transaction", transaction[t], transaction[t])
      /\ After(todo[t], 0, "action", action[t], action[t])
  BY AfterUpToFive
<1>4. CASE w.kind = "transaction"
  BY <1>1, <1>2, <1>3, <1>4 DEF Legal, Lawful, MayMove, Allowed
<1>5. CASE w.kind = "action"
  BY <1>1, <1>2, <1>3, <1>5 DEF Legal, Lawful, MayMove, Allowed
<1> QED
  BY <1>4, <1>5 DEF Allowed

\* What the rest of a list reaches from where its head leads, the list reaches.
LEMMA AfterTheHead ==
  ASSUME NEW list \in Seq(Writes), list # <<>>, NEW kind, NEW state, NEW reached,
         NEW n \in 0 .. Len(Tail(list)), NEW next,
         next = IF Head(list).kind = kind THEN Head(list).to ELSE state,
         After(Tail(list), n, kind, next, reached)
  PROVE  After(list, n + 1, kind, state, reached)
<1>1. /\ Len(Tail(list)) = Len(list) - 1 /\ Len(list) \in Nat \ {0}
      /\ \A i \in 1 .. n : Tail(list)[i] = list[i + 1]
      /\ list[1] = Head(list) /\ n \in Nat
  OBVIOUS
<1> DEFINE tail == Tail(list)
           head == Head(list)
<1> HIDE DEF tail, head
<1>2. \A i \in 2 .. (n + 1) : i - 1 \in 1 .. n /\ list[i] = tail[i - 1]
  BY <1>1 DEF tail
<1>3. CASE reached = next /\ \A i \in 1 .. n : tail[i].kind # kind
  <2>1. \A i \in 2 .. (n + 1) : list[i].kind # kind
    BY <1>2, <1>3
  <2>2. CASE head.kind = kind
    BY <1>1, <1>3, <2>1, <2>2 DEF After, head
  <2>3. CASE head.kind # kind
    <3>1. \A i \in 1 .. (n + 1) : i = 1 \/ i \in 2 .. (n + 1)
      BY <1>1
    <3> QED
      BY <1>1, <1>3, <2>1, <2>3, <3>1 DEF After, head
  <2> QED
    BY <2>2, <2>3
<1>4. CASE \E i \in 1 .. n : /\ tail[i].kind = kind /\ tail[i].to = reached
                             /\ \A j \in (i + 1) .. n : tail[j].kind # kind
  <2>1. PICK i \in 1 .. n : /\ tail[i].kind = kind /\ tail[i].to = reached
                            /\ \A j \in (i + 1) .. n : tail[j].kind # kind
    BY <1>4
  <2>2. /\ i + 1 \in 1 .. (n + 1) /\ list[i + 1].kind = kind /\ list[i + 1].to = reached
    BY <1>1, <2>1 DEF tail
  <2>3. ASSUME NEW j \in ((i + 1) + 1) .. (n + 1)
        PROVE  list[j].kind # kind
    BY <1>1, <1>2, <2>1
  <2> QED
    BY <2>2, <2>3 DEF After
<1> QED
  BY <1>3, <1>4 DEF After, tail

\* Making the first write of a list leaves the rest lawful, and bound for where the
\* list was.
LEMMA TailIsLawful ==
  ASSUME NEW list \in Seq(Writes), list # <<>>, NEW kind, NEW state, NEW next,
         next = IF Head(list).kind = kind THEN Head(list).to ELSE state
  PROVE  /\ Lawful(list, kind, state) => Lawful(Tail(list), kind, next)
         /\ \A reached : After(Tail(list), Len(Tail(list)), kind, next, reached)
                           => After(list, Len(list), kind, state, reached)
<1>1. /\ Len(Tail(list)) \in Nat /\ Len(list) = Len(Tail(list)) + 1
      /\ \A i \in DOMAIN Tail(list) : /\ i \in 1 .. Len(Tail(list))
                                      /\ i + 1 \in DOMAIN list
                                      /\ Tail(list)[i] = list[i + 1]
  OBVIOUS
<1>2. ASSUME Lawful(list, kind, state)
      PROVE  Lawful(Tail(list), kind, next)
  <2> SUFFICES ASSUME NEW i \in DOMAIN Tail(list), Tail(list)[i].kind = kind,
                      NEW from \in MachineStates, After(Tail(list), i - 1, kind, next, from)
               PROVE  MayMove(kind, from, Tail(list)[i].to)
    BY DEF Lawful
  <2>1. i - 1 \in 0 .. Len(Tail(list)) /\ (i - 1) + 1 = i /\ (i + 1) - 1 = i
    BY <1>1
  <2>2. After(list, i, kind, state, from)
    <3>1. After(list, (i - 1) + 1, kind, state, from)
      BY <2>1, AfterTheHead
    <3> QED
      BY <2>1, <3>1
  <2> QED
    BY <1>1, <1>2, <2>1, <2>2 DEF Lawful
<1>3. ASSUME NEW reached, After(Tail(list), Len(Tail(list)), kind, next, reached)
      PROVE  After(list, Len(list), kind, state, reached)
  <2>1. Len(Tail(list)) \in 0 .. Len(Tail(list))
    BY <1>1
  <2>2. After(list, Len(Tail(list)) + 1, kind, state, reached)
    BY <1>3, <2>1, AfterTheHead
  <2> QED
    BY <1>1, <2>2
<1> QED
  BY <1>2, <1>3

\* appendEvent and the assignment that follows it.
LEMMA AppendEventKeepsLaw ==
  ASSUME TypeOK, NEW t \in Txns, Legal(t), AppendEvent(t)
  PROVE  Legal(t)'
<1> DEFINE list == todo[t]
           w == Head(list)
<1>1. /\ list \in Seq(Writes) /\ list # <<>> /\ todo'[t] = Tail(list) /\ at'[t] = at[t]
      /\ transaction'[t] = IF w.kind = "transaction" THEN w.to ELSE transaction[t]
      /\ action'[t] = IF w.kind = "action" THEN w.to ELSE action[t]
      /\ thrown'[t] = thrown[t]
  BY DEF AppendEvent, TypeOK, outcome
<1>2. /\ Lawful(list, "transaction", transaction[t])
           => Lawful(Tail(list), "transaction", transaction'[t])
      /\ \A reached : After(Tail(list), Len(Tail(list)), "transaction", transaction'[t], reached)
                        => After(list, Len(list), "transaction", transaction[t], reached)
  BY <1>1, TailIsLawful
<1>3. /\ Lawful(list, "action", action[t]) => Lawful(Tail(list), "action", action'[t])
      /\ \A reached : After(Tail(list), Len(Tail(list)), "action", action'[t], reached)
                        => After(list, Len(list), "action", action[t], reached)
  BY <1>1, TailIsLawful
<1>4. Orderly(t)' <=> Orderly(t)
  BY <1>1 DEF Orderly
<1>5. Arrives(t)'
  BY <1>1, <1>2, <1>3 DEF Legal, Arrives, Reaches
<1>6. Reporting(t)'
  <2>1. ASSUME NEW a, NEW b, list = <<Ev(a), Act(b)>>
        PROVE  todo'[t] = <<Act(b)>> /\ transaction'[t] = transaction[t] /\ action'[t] = action[t]
    BY <1>1, <2>1 DEF Ev, Write
  <2>2. ASSUME NEW b, list = <<Act(b)>>
        PROVE  todo'[t] = <<>>
    BY <1>1, <2>2
  <2>3. CASE at[t] = "reported"
    BY <1>1, <2>1, <2>2, <2>3 DEF Legal, Reporting, ReportingDispatch
  <2>4. CASE at[t] = "recoveryReported"
    BY <1>1, <2>1, <2>2, <2>4 DEF Legal, Reporting, ReportingRecovery
  <2> QED
    BY <1>1, <2>3, <2>4 DEF Reporting
<1> QED
  BY <1>1, <1>2, <1>3, <1>4, <1>5, <1>6 DEF Legal

\* An error raised while the journal is written; one with a code of its own
\* comes from the ledger and is none of a recovery's.
LEMMA RaiseKeepsLaw ==
  ASSUME TypeOK, NEW t \in Txns, Legal(t), todo[t] # <<>>, NEW error, NEW cause,
         Raise(t, error, cause), UNCHANGED states, error # "COMPENSATION_BLOCKED",
         cause = "INVALID_STATE_TRANSITION" => "COMPENSATION_BLOCKED" \in RecoveryErrors
  PROVE  Legal(t)'
<1>1. CASE at[t] = "reported" /\ DispatchCatch(t, error) /\ UNCHANGED thrown
  <2>1. transaction[t] = "COMMITTING" /\ action[t] = "DISPATCHING"
    BY <1>1 DEF Legal, Reporting
  <2> QED
    BY <1>1, <2>1, DispatchCatchKeepsLaw
<1>2. CASE at[t] = "recoveryReported" /\ RecoveryCatch(t, error) /\ UNCHANGED thrown
  <2>1. transaction[t] = "COMPENSATING" /\ action[t] = "COMPENSATING"
    BY <1>2 DEF Legal, Reporting
  <2> QED
    BY <1>2, <2>1, RecoveryCatchKeepsLaw
<1>3. CASE Throw(t, cause)
  BY <1>3, ThrowKeepsLaw
<1> QED
  BY <1>1, <1>2, <1>3 DEF Raise

\* An append that throws, and a transition that is refused: only the list of a
\* refused compensation has one.
LEMMA FailedWritesKeepLaw ==
  ASSUME TypeOK, NEW t \in Txns, Legal(t),
         IllegalTransition(t) \/ \E fault \in LedgerFaults : AppendThrows(t, fault)
  PROVE  Legal(t)'
<1>1. CASE IllegalTransition(t)
  <2>1. ~Orderly(t)
    BY <1>1, HeadIsAllowed DEF IllegalTransition
  <2>2. "COMPENSATION_BLOCKED" \in RecoveryErrors
    BY <2>1 DEF Orderly
  <2> QED
    BY <1>1, <2>2, RaiseKeepsLaw DEF IllegalTransition
<1>2. ASSUME NEW fault \in LedgerFaults, AppendThrows(t, fault)
      PROVE  Legal(t)'
  <2>1. fault.error # "COMPENSATION_BLOCKED"
    BY LedgerFaultsAssumption DEF LedgerFault
  <2>2. Raise(t, fault.error, "ledger") /\ todo[t] # <<>> /\ UNCHANGED states
    BY <1>2 DEF AppendThrows
  <2> QED
    BY <2>1, <2>2, RaiseKeepsLaw
<1> QED
  BY <1>1, <1>2

-----------------------------------------------------------------------------
\* A step of a run keeps its queue lawful.
LEMMA OwnStepKeepsLaw ==
  ASSUME TypeOK, NEW t \in Txns, Legal(t), Start(t) \/ InputThrows(t) \/ Run(t)
  PROVE  Legal(t)'
<1>1. CASE Start(t) \/ InputThrows(t) \/ AdapterThrows(t)
  BY <1>1, EdgesKeepLaw
<1>2. CASE Admission(t)
  BY <1>2, AdmissionKeepsLaw, EdgesKeepLaw DEF Admission
<1>3. CASE Forward(t)
  BY <1>3, ForwardKeepsLaw
<1>4. CASE Recovery(t)
  BY <1>4, RecoveryKeepsLaw
<1>5. CASE Journal(t)
  BY <1>5, AppendEventKeepsLaw, FailedWritesKeepLaw, FinishingKeepsLaw, EdgesKeepLaw DEF Journal
<1> QED
  BY <1>1, <1>2, <1>3, <1>4, <1>5 DEF Run

\* The state of another run is no part of it.
LEMMA UntouchedStaysLegal ==
  ASSUME NEW u, Legal(u), Untouched(u)
  PROVE  Legal(u)'
BY DEF Untouched, Legal, Orderly, Arrives, Reporting

\* No step of any run breaks the law of one.
LEMMA LegalInvariant == Spec => []LegalInv
<1>1. Init => LegalInv
  <2>1. ASSUME Init, NEW t \in Txns
        PROVE  Legal(t)
    <3>1. /\ at[t] = "idle" /\ todo[t] = <<>>
          /\ transaction[t] = "DRAFT" /\ action[t] = "PROPOSED" /\ thrown[t] = "none"
      BY <2>1 DEF Init
    <3>2. Len(todo[t]) = 0 /\ DOMAIN todo[t] = {}
      BY <3>1
    <3>3. Arrives(t)
      BY <3>1, <3>2, AfterUpToFive DEF Arrives, Reaches, Stations
    <3> QED
      BY <3>1, <3>2, <3>3 DEF Legal, Lawful, Reporting
  <2> QED
    BY <2>1, InitIsTyped DEF LegalInv
<1>2. LegalInv /\ [Next]_vars => LegalInv'
  <2> SUFFICES ASSUME LegalInv, [Next]_vars
               PROVE  LegalInv'
    OBVIOUS
  <2>1. TypeOK /\ TypeOK' /\ \A t \in Txns : Legal(t)
    BY StepIsTyped DEF LegalInv
  <2>2. CASE UNCHANGED vars
    <3>1. \A t \in Txns : Untouched(t)
      BY <2>2 DEF vars, Untouched
    <3> QED
      BY <2>1, <3>1, UntouchedStaysLegal DEF LegalInv
  <2>3. ASSUME NEW t \in Txns, Start(t) \/ InputThrows(t) \/ Run(t)
        PROVE  LegalInv'
    <3>1. Legal(t)'
      BY <2>1, <2>3, OwnStepKeepsLaw
    <3>2. ASSUME NEW u \in Txns, u # t
          PROVE  Legal(u)'
      BY <2>1, <2>3, <3>2, OthersUntouched, UntouchedStaysLegal
    <3> QED
      BY <2>1, <3>1, <3>2 DEF LegalInv
  <2> QED
    BY <2>2, <2>3 DEF Next
<1> QED
  BY <1>1, <1>2, PTL DEF Spec

\* run() is never stopped by its own transition tables, whatever the adapter answers
\* and whichever append fails, as long as no recovery is refused with
\* COMPENSATION_BLOCKED: the one list of run() that the action table does not allow.
THEOREM LawfulRuns ==
  ASSUME "COMPENSATION_BLOCKED" \notin RecoveryErrors
  PROVE  Spec => []NoIllegalTransition
<1>1. LegalInv => NoIllegalTransition
  BY DEF LegalInv, Legal, NoIllegalTransition
<1> QED
  BY <1>1, LegalInvariant, PTL

-----------------------------------------------------------------------------
(***************************************************************************)
(* What is said of an effect.  A ledger whose errors have no code, as the  *)
(* SQLite one, is read by the catch clauses as an outcome that is not      *)
(* known; a LEDGER_CONFLICT is read as the provider's own refusal.         *)
(***************************************************************************)
UnclassifiedFaults == \A fault \in LedgerFaults : fault.error = "unclassified"

\* The points a run passes before the provider has answered the dispatch, and the
\* ones after it has answered the compensation.
Unanswered    == Admitting \union {"dispatching"}
Acknowledging == {"recoveryReported", "reconcileRecovery", "recoveryReconciled",
                  "verifyRecovery"} \union Ending

Honest(t) ==
  /\ Saw(t, "dispatch") =>
       /\ at[t] \notin Unanswered
       /\ action[t] # "PROVIDER_REJECTED" /\ ~Queued(t, "PROVIDER_REJECTED")
  /\ Saw(t, "compensation_dispatch") =>
       /\ at[t] \in Acknowledging
       /\ manualRecovery[t] # "forward effect still in place"

USE DEF Unanswered, Acknowledging, Admitting

\* A step that records neither answer and says nothing false.
Quiet(t) ==
  /\ Saw(t, "dispatch")' => Saw(t, "dispatch")
  /\ Saw(t, "compensation_dispatch")' => Saw(t, "compensation_dispatch")
  /\ \/ manualRecovery'[t] = manualRecovery[t]
     \/ manualRecovery'[t] # "forward effect still in place"
  /\ action'[t] = action[t] \/ action'[t] # "PROVIDER_REJECTED"

\* What it takes to be quiet.
LEMMA Quietly ==
  ASSUME TypeOK, NEW t \in Txns, UNCHANGED states,
         \/ UNCHANGED observations
         \/ \E kind : /\ Observe(t, kind, TRUE) \/ Observe(t, kind, FALSE)
                      /\ kind # "dispatch" /\ kind # "compensation_dispatch",
         \/ manualRecovery'[t] = manualRecovery[t]
         \/ manualRecovery'[t] # "forward effect still in place"
  PROVE  Quiet(t)
<1>1. /\ Saw(t, "dispatch")' => Saw(t, "dispatch")
      /\ Saw(t, "compensation_dispatch")' => Saw(t, "compensation_dispatch")
  <2>1. CASE UNCHANGED observations
    BY <2>1 DEF Saw
  <2>2. ASSUME NEW kind, Observe(t, kind, TRUE) \/ Observe(t, kind, FALSE),
               kind # "dispatch", kind # "compensation_dispatch"
        PROVE  /\ Saw(t, "dispatch")' => Saw(t, "dispatch")
               /\ Saw(t, "compensation_dispatch")' => Saw(t, "compensation_dispatch")
    BY <2>2, Observing
  <2> QED
    BY <2>1, <2>2
<1>2. action'[t] = action[t]
  BY DEF states
<1> QED
  BY <1>1, <1>2 DEF Quiet

\* A quiet step on the way of a run leaves what is said true.
LEMMA QuietlyHonest ==
  ASSUME NEW t, Honest(t), Quiet(t), ~Queued(t, "PROVIDER_REJECTED")',
         at[t] \in Unanswered \/ at'[t] \notin Unanswered,
         at[t] \notin Acknowledging \/ at'[t] \in Acknowledging
  PROVE  Honest(t)'
BY DEF Honest, Quiet

\* The actions before the dispatch: nothing has been answered yet.
LEMMA AdmissionStaysHonest ==
  ASSUME TypeOK, NEW t \in Txns, Honest(t),
         Start(t) \/ PreflightRejected(t) \/ Preflighted(t) \/ ApprovalRejected(t)
         \/ ApprovalConsumed(t) \/ Stale(t) \/ Fresh(t) \/ Dispatch(t)
  PROVE  Honest(t)'
<1> USE DEF evidence, outcome
<1>1. CASE Start(t)
  <2>1. /\ at[t] = "idle" /\ at'[t] = "preflight"
        /\ todo'[t] = <<Ev("transaction.created"), Tx("PREFLIGHTING"), Act("PREFLIGHTING")>>
    BY <1>1 DEF Start, Awaits, Continue, TypeOK
  <2>2. ~Queued(t, "PROVIDER_REJECTED")'
    BY <2>1 DEF Queued, Has, Ev, Act, Tx, Write
  <2>3. Quiet(t)
    BY <1>1, Quietly DEF Start
  <2> QED
    BY <2>1, <2>2, <2>3, QuietlyHonest
<1>2. CASE PreflightRejected(t)
  <2>1. /\ at[t] = "preflight" /\ at'[t] = "finish"
        /\ todo'[t] = <<Act("PREFLIGHT_REJECTED"), Tx("PREFLIGHT_FAILED"),
                        Ev("action.preflight_rejected")>>
    BY <1>2 DEF PreflightRejected, Awaits, Continue, TypeOK
  <2>2. ~Queued(t, "PROVIDER_REJECTED")'
    BY <2>1 DEF Queued, Has, Ev, Act, Tx, Write
  <2>3. Quiet(t)
    BY <1>2, Quietly DEF PreflightRejected
  <2> QED
    BY <2>1, <2>2, <2>3, QuietlyHonest
<1>3. CASE Preflighted(t)
  <2>1. /\ at[t] = "preflight" /\ at'[t] = "approve"
        /\ todo'[t] = <<Ev("action.preflighted"), Act("PREFLIGHTED"), Tx("READY"),
                        Tx("AWAITING_APPROVAL"), Act("AWAITING_APPROVAL")>>
    BY <1>3 DEF Preflighted, Awaits, Continue, TypeOK
  <2>2. ~Queued(t, "PROVIDER_REJECTED")'
    BY <2>1 DEF Queued, Has, Ev, Act, Tx, Write
  <2>3. Quiet(t)
    BY <1>3, Quietly DEF Preflighted
  <2> QED
    BY <2>1, <2>2, <2>3, QuietlyHonest
<1>4. CASE ApprovalRejected(t)
  <2>1. /\ at[t] = "approve" /\ at'[t] = "finish"
        /\ todo'[t] = <<Ev("approval.rejected"), Act("CANCELLED"), Tx("APPROVAL_DENIED")>>
    BY <1>4 DEF ApprovalRejected, Awaits, Continue, TypeOK
  <2>2. ~Queued(t, "PROVIDER_REJECTED")'
    BY <2>1 DEF Queued, Has, Ev, Act, Tx, Write
  <2>3. Quiet(t)
    BY <1>4, Quietly DEF ApprovalRejected
  <2> QED
    BY <2>1, <2>2, <2>3, QuietlyHonest
<1>5. CASE ApprovalConsumed(t)
  <2>1. /\ at[t] = "approve" /\ at'[t] = "fresh"
        /\ todo'[t] = <<Ev("approval.consumed"), Act("ADMITTED"), Tx("COMMIT_REQUESTED")>>
    BY <1>5 DEF ApprovalConsumed, Awaits, Continue, TypeOK
  <2>2. ~Queued(t, "PROVIDER_REJECTED")'
    BY <2>1 DEF Queued, Has, Ev, Act, Tx, Write
  <2>3. Quiet(t)
    BY <1>5, Quietly DEF ApprovalConsumed
  <2> QED
    BY <2>1, <2>2, <2>3, QuietlyHonest
<1>6. CASE Stale(t)
  <2>1. /\ at[t] = "fresh" /\ at'[t] = "finish"
        /\ todo'[t] = <<Ev("action.staleness_rejected"), Act("CANCELLED"), Tx("ABORTED")>>
    BY <1>6 DEF Stale, Awaits, Continue, TypeOK
  <2>2. ~Queued(t, "PROVIDER_REJECTED")'
    BY <2>1 DEF Queued, Has, Ev, Act, Tx, Write
  <2>3. Quiet(t)
    BY <1>6, Quietly DEF Stale
  <2> QED
    BY <2>1, <2>2, <2>3, QuietlyHonest
<1>7. CASE Fresh(t)
  <2>1. /\ at[t] = "fresh" /\ at'[t] = "dispatch"
        /\ todo'[t] = <<Act("SCHEDULED"), Tx("COMMITTING"), Act("DISPATCHING"),
                        Ev("action.dispatch_started")>>
    BY <1>7 DEF Fresh, Awaits, Continue, TypeOK
  <2>2. ~Queued(t, "PROVIDER_REJECTED")'
    BY <2>1 DEF Queued, Has, Ev, Act, Tx, Write
  <2>3. Quiet(t)
    BY <1>7, Quietly DEF Fresh
  <2> QED
    BY <2>1, <2>2, <2>3, QuietlyHonest
<1>8. CASE Dispatch(t)
  <2>1. /\ at[t] = "dispatch" /\ at'[t] = "dispatching"
        /\ todo'[t] = <<>>
    BY <1>8 DEF Dispatch, Awaits, Continue, TypeOK
  <2>2. ~Queued(t, "PROVIDER_REJECTED")'
    BY <2>1 DEF Queued, Has, Ev, Act, Tx, Write
  <2>3. Quiet(t)
    BY <1>8, Quietly DEF Dispatch
  <2> QED
    BY <2>1, <2>2, <2>3, QuietlyHonest
<1> QED
  BY <1>1, <1>2, <1>3, <1>4, <1>5, <1>6, <1>7, <1>8

\* The actions after it that record no answer of the two dispatches.
LEMMA ForwardStaysHonest ==
  ASSUME TypeOK, NEW t \in Txns, Honest(t),
         Reconciled(t) \/ Unresolved(t) \/ Verified(t) \/ VerificationFailed(t) \/ Finalized(t)
         \/ FinalizeThrows(t) \/ FinalizeThrowsUndefined(t)
  PROVE  Honest(t)'
<1> USE DEF evidence, outcome
<1>1. CASE Reconciled(t)
  <2>1. /\ at[t] = "reconcile" /\ at'[t] = "reconciled"
        /\ todo'[t] = <<Ev("action.reconciled"), Act("REPORTED_SUCCEEDED"), Tx("VERIFYING")>>
    BY <1>1 DEF Reconciled, Awaits, Continue, TypeOK
  <2>2. ~Queued(t, "PROVIDER_REJECTED")'
    BY <2>1 DEF Queued, Has, Ev, Act, Tx, Write
  <2>3. Quiet(t)
    BY <1>1, Quietly DEF Reconciled
  <2> QED
    BY <2>1, <2>2, <2>3, QuietlyHonest
<1>2. CASE Unresolved(t)
  <2>1. /\ at[t] = "reconcile" /\ at'[t] = "finish"
        /\ todo'[t] = <<Ev("action.reconciled"), Act("OUTCOME_UNKNOWN"),
                        Tx("MANUAL_RECOVERY_REQUIRED")>>
    BY <1>2 DEF Unresolved, Awaits, Continue, TypeOK
  <2>2. ~Queued(t, "PROVIDER_REJECTED")'
    BY <2>1 DEF Queued, Has, Ev, Act, Tx, Write
  <2>3. manualRecovery'[t] # "forward effect still in place"
    BY <1>2 DEF Unresolved, Instruct, TypeOK
  <2>4. Quiet(t)
    BY <1>2, <2>3, Quietly DEF Unresolved
  <2> QED
    BY <2>1, <2>2, <2>4, QuietlyHonest
<1>3. CASE Verified(t)
  <2>1. /\ at[t] = "verify" /\ at'[t] = "finalize"
        /\ todo'[t] = <<Ev("action.verified"), Act("VERIFIED_SUCCEEDED")>>
    BY <1>3 DEF Verified, Awaits, Continue, TypeOK
  <2>2. ~Queued(t, "PROVIDER_REJECTED")'
    BY <2>1 DEF Queued, Has, Ev, Act, Tx, Write
  <2>3. Quiet(t)
    BY <1>3, Quietly DEF Verified
  <2> QED
    BY <2>1, <2>2, <2>3, QuietlyHonest
<1>4. CASE VerificationFailed(t)
  <2>1. /\ at[t] = "verify" /\ at'[t] = "plan"
        /\ todo'[t] = <<Ev("action.verified"), Act("VERIFICATION_FAILED"),
                        Tx("FAILURE_DETECTED"), Act("COMPENSATION_PLANNED"), Tx("COMPENSATING")>>
    BY <1>4 DEF VerificationFailed, Awaits, Continue, TypeOK
  <2>2. ~Queued(t, "PROVIDER_REJECTED")'
    BY <2>1 DEF Queued, Has, Ev, Act, Tx, Write
  <2>3. Quiet(t)
    BY <1>4, Quietly DEF VerificationFailed
  <2> QED
    BY <2>1, <2>2, <2>3, QuietlyHonest
<1>5. CASE Finalized(t)
  <2>1. /\ at[t] = "finalize" /\ at'[t] = "finish"
        /\ todo'[t] = <<Tx("VERIFIED_COMMITTED")>>
    BY <1>5 DEF Finalized, Awaits, Continue, TypeOK
  <2>2. ~Queued(t, "PROVIDER_REJECTED")'
    BY <2>1 DEF Queued, Has, Ev, Act, Tx, Write
  <2>3. Quiet(t)
    BY <1>5, Quietly DEF Finalized
  <2> QED
    BY <2>1, <2>2, <2>3, QuietlyHonest
<1>6. CASE FinalizeThrows(t)
  <2>1. /\ at[t] = "finalize" /\ at'[t] = "plan"
        /\ todo'[t] = <<Tx("FAILURE_DETECTED"), Ev("transaction.finalize_failed"),
                        Act("COMPENSATION_PLANNED"), Tx("COMPENSATING")>>
    BY <1>6 DEF FinalizeThrows, Awaits, Continue, TypeOK
  <2>2. ~Queued(t, "PROVIDER_REJECTED")'
    BY <2>1 DEF Queued, Has, Ev, Act, Tx, Write
  <2>3. Quiet(t)
    BY <1>6, Quietly DEF FinalizeThrows
  <2> QED
    BY <2>1, <2>2, <2>3, QuietlyHonest
<1>7. CASE FinalizeThrowsUndefined(t)
  <2>1. /\ at[t] = "finalize" /\ at'[t] = "finish"
        /\ todo'[t] = <<Tx("VERIFIED_COMMITTED")>>
    BY <1>7 DEF FinalizeThrowsUndefined, Awaits, Continue, TypeOK
  <2>2. ~Queued(t, "PROVIDER_REJECTED")'
    BY <2>1 DEF Queued, Has, Ev, Act, Tx, Write
  <2>3. Quiet(t)
    BY <1>7, Quietly DEF FinalizeThrowsUndefined
  <2> QED
    BY <2>1, <2>2, <2>3, QuietlyHonest
<1> QED
  BY <1>1, <1>2, <1>3, <1>4, <1>5, <1>6, <1>7

\* The actions of the recovery but its dispatch and what that threw.
LEMMA RecoveryStaysHonest ==
  ASSUME TypeOK, NEW t \in Txns, Honest(t),
         RecoveryUnsafe(t) \/ BlockedObserved(t) \/ RecoverySafe(t) \/ ExecuteRecovery(t)
         \/ RecoveryReconciled(t) \/ RecoveryUnresolved(t) \/ RecoveryVerified(t)
         \/ RecoveryDisputed(t)
  PROVE  Honest(t)'
<1> USE DEF evidence, outcome
<1>1. CASE RecoveryUnsafe(t)
  <2>1. /\ at[t] = "plan" /\ at'[t] = "observe"
        /\ todo'[t] = <<Ev("recovery.planned"), Act("COMPENSATION_BLOCKED"),
                        Tx("MANUAL_RECOVERY_REQUIRED")>>
    BY <1>1 DEF RecoveryUnsafe, Awaits, Continue, TypeOK
  <2>2. ~Queued(t, "PROVIDER_REJECTED")'
    BY <2>1 DEF Queued, Has, Ev, Act, Tx, Write
  <2>3. Quiet(t)
    BY <1>1, Quietly DEF RecoveryUnsafe
  <2> QED
    BY <2>1, <2>2, <2>3, QuietlyHonest
<1>2. CASE BlockedObserved(t)
  <2>1. /\ at[t] = "observe" /\ at'[t] = "finish"
        /\ todo'[t] = <<>>
    BY <1>2 DEF BlockedObserved, Awaits, Continue, TypeOK
  <2>2. ~Queued(t, "PROVIDER_REJECTED")'
    BY <2>1 DEF Queued, Has, Ev, Act, Tx, Write
  <2>3. manualRecovery'[t] # "forward effect still in place"
    BY <1>2 DEF BlockedObserved, Instruct, TypeOK
  <2>4. Quiet(t)
    BY <1>2, <2>3, Quietly DEF BlockedObserved
  <2> QED
    BY <2>1, <2>2, <2>4, QuietlyHonest
<1>3. CASE RecoverySafe(t)
  <2>1. /\ at[t] = "plan" /\ at'[t] = "recover"
        /\ todo'[t] = <<Ev("recovery.planned"), Act("COMPENSATING"),
                        Ev("recovery.dispatch_started")>>
    BY <1>3 DEF RecoverySafe, Awaits, Continue, TypeOK
  <2>2. ~Queued(t, "PROVIDER_REJECTED")'
    BY <2>1 DEF Queued, Has, Ev, Act, Tx, Write
  <2>3. Quiet(t)
    BY <1>3, Quietly DEF RecoverySafe
  <2> QED
    BY <2>1, <2>2, <2>3, QuietlyHonest
<1>4. CASE ExecuteRecovery(t)
  <2>1. /\ at[t] = "recover" /\ at'[t] = "recovering"
        /\ todo'[t] = <<>>
    BY <1>4 DEF ExecuteRecovery, Awaits, Continue, TypeOK
  <2>2. ~Queued(t, "PROVIDER_REJECTED")'
    BY <2>1 DEF Queued, Has, Ev, Act, Tx, Write
  <2>3. Quiet(t)
    BY <1>4, Quietly DEF ExecuteRecovery
  <2> QED
    BY <2>1, <2>2, <2>3, QuietlyHonest
<1>5. CASE RecoveryReconciled(t)
  <2>1. /\ at[t] = "reconcileRecovery" /\ at'[t] = "recoveryReconciled"
        /\ todo'[t] = <<Ev("recovery.reconciled"), Act("COMPENSATION_REPORTED_SUCCEEDED")>>
    BY <1>5 DEF RecoveryReconciled, Awaits, Continue, TypeOK
  <2>2. ~Queued(t, "PROVIDER_REJECTED")'
    BY <2>1 DEF Queued, Has, Ev, Act, Tx, Write
  <2>3. Quiet(t)
    BY <1>5, Quietly DEF RecoveryReconciled
  <2> QED
    BY <2>1, <2>2, <2>3, QuietlyHonest
<1>6. CASE RecoveryUnresolved(t)
  <2>1. /\ at[t] = "reconcileRecovery" /\ at'[t] = "finish"
        /\ todo'[t] = <<Ev("recovery.reconciled"), Act("COMPENSATION_FAILED"),
                        Tx("MANUAL_RECOVERY_REQUIRED")>>
    BY <1>6 DEF RecoveryUnresolved, Awaits, Continue, TypeOK
  <2>2. ~Queued(t, "PROVIDER_REJECTED")'
    BY <2>1 DEF Queued, Has, Ev, Act, Tx, Write
  <2>3. manualRecovery'[t] # "forward effect still in place"
    BY <1>6 DEF RecoveryUnresolved, Instruct, TypeOK
  <2>4. Quiet(t)
    BY <1>6, <2>3, Quietly DEF RecoveryUnresolved
  <2> QED
    BY <2>1, <2>2, <2>4, QuietlyHonest
<1>7. CASE RecoveryVerified(t)
  <2>1. /\ at[t] = "verifyRecovery" /\ at'[t] = "finish"
        /\ todo'[t] = <<Ev("recovery.verified"), Act("VERIFIED_COMPENSATED"),
                        Tx("VERIFIED_COMPENSATED")>>
    BY <1>7 DEF RecoveryVerified, Awaits, Continue, TypeOK
  <2>2. ~Queued(t, "PROVIDER_REJECTED")'
    BY <2>1 DEF Queued, Has, Ev, Act, Tx, Write
  <2>3. Quiet(t)
    BY <1>7, Quietly DEF RecoveryVerified
  <2> QED
    BY <2>1, <2>2, <2>3, QuietlyHonest
<1>8. CASE RecoveryDisputed(t)
  <2>1. /\ at[t] = "verifyRecovery" /\ at'[t] = "finish"
        /\ todo'[t] = <<Ev("recovery.verified"), Act("COMPENSATION_FAILED"),
                        Tx("MANUAL_RECOVERY_REQUIRED")>>
    BY <1>8 DEF RecoveryDisputed, Awaits, Continue, TypeOK
  <2>2. ~Queued(t, "PROVIDER_REJECTED")'
    BY <2>1 DEF Queued, Has, Ev, Act, Tx, Write
  <2>3. manualRecovery'[t] # "forward effect still in place"
    BY <1>8 DEF RecoveryDisputed, Instruct, TypeOK
  <2>4. Quiet(t)
    BY <1>8, <2>3, Quietly DEF RecoveryDisputed
  <2> QED
    BY <2>1, <2>2, <2>4, QuietlyHonest
<1> QED
  BY <1>1, <1>2, <1>3, <1>4, <1>5, <1>6, <1>7, <1>8

\* The two actions that record the answer of a dispatch.
LEMMA AnswersStayHonest ==
  ASSUME TypeOK, NEW t \in Txns, Honest(t), Legal(t), Outcome(t),
         DispatchReported(t) \/ RecoveryReported(t)
  PROVE  Honest(t)'
<1> USE DEF Honest
<1>1. CASE DispatchReported(t)
  <2>1. /\ at[t] = "dispatching" /\ at'[t] = "reported" /\ todo[t] = <<>>
        /\ todo'[t] = <<Ev("action.dispatch_reported"), Act("REPORTED_SUCCEEDED")>>
        /\ action'[t] = action[t] /\ manualRecovery'[t] = manualRecovery[t]
    BY <1>1 DEF DispatchReported, Awaits, Continue, TypeOK, states, evidence
  <2>2. ~Queued(t, "PROVIDER_REJECTED")'
    BY <2>1 DEF Queued, Has, Ev, Act, Write
  <2>3. \A k : Saw(t, k)' <=> Saw(t, k) \/ k = "dispatch"
    BY <1>1, Observing DEF DispatchReported
  <2>4. action[t] = "DISPATCHING"
    BY <2>1, AtStation DEF Stations
  <2> QED
    BY <2>1, <2>2, <2>3, <2>4
<1>2. CASE RecoveryReported(t)
  <2>1. /\ at[t] = "recovering" /\ at'[t] = "recoveryReported"
        /\ todo'[t] = <<Ev("recovery.dispatched"), Act("COMPENSATION_REPORTED_SUCCEEDED")>>
        /\ action'[t] = action[t] /\ manualRecovery'[t] = manualRecovery[t]
    BY <1>2 DEF RecoveryReported, Awaits, Continue, TypeOK, states, evidence
  <2>2. ~Queued(t, "PROVIDER_REJECTED")'
    BY <2>1 DEF Queued, Has, Ev, Act, Write
  <2>3. \A k : Saw(t, k)' <=> Saw(t, k) \/ k = "compensation_dispatch"
    BY <1>2, Observing DEF RecoveryReported
  <2>4. manualRecovery[t] = "none"
    BY <2>1 DEF Outcome, Undecided, Closed, Ending
  <2> QED
    BY <2>1, <2>2, <2>3, <2>4
<1> QED
  BY <1>1, <1>2

\* The two that go on after an answer or a reconciliation.
LEMMA VerifyingStaysHonest ==
  ASSUME TypeOK, NEW t \in Txns, Honest(t), BeginVerifying(t) \/ BeginVerifyingRecovery(t)
  PROVE  Honest(t)'
<1>1. CASE BeginVerifying(t)
  <2> DEFINE moving == IF transaction[t] = "COMMITTING" THEN <<Tx("VERIFYING")>> ELSE <<>>
  <2>1. /\ at[t] \notin Unanswered /\ at[t] = "recoveryReported" => FALSE
        /\ at[t] \notin Acknowledging /\ at'[t] = "verify"
        /\ todo'[t] = moving \o <<Act("VERIFYING")>>
    BY <1>1 DEF BeginVerifying, Awaits, Continue, TypeOK
  <2>2. \A i \in DOMAIN todo'[t] : todo'[t][i].to = "VERIFYING"
    <3>1. CASE moving = <<>>
      BY <2>1, <3>1 DEF Act, Write
    <3>2. CASE moving = <<Tx("VERIFYING")>>
      BY <2>1, <3>2 DEF Act, Tx, Write
    <3> QED
      BY <3>1, <3>2
  <2>3. ~Queued(t, "PROVIDER_REJECTED")'
    BY <2>2 DEF Queued, Has
  <2>4. Quiet(t)
    BY <1>1, Quietly DEF BeginVerifying, evidence
  <2> QED
    BY <2>1, <2>3, <2>4, QuietlyHonest
<1>2. CASE BeginVerifyingRecovery(t)
  <2>1. /\ at[t] \in {"recoveryReported", "recoveryReconciled"} /\ at'[t] = "verifyRecovery"
        /\ todo'[t] = <<Act("COMPENSATION_VERIFYING"), Tx("VERIFYING_RECOVERY")>>
    BY <1>2 DEF BeginVerifyingRecovery, Awaits, Continue, TypeOK
  <2>2. ~Queued(t, "PROVIDER_REJECTED")'
    BY <2>1 DEF Queued, Has, Act, Tx, Write
  <2>3. Quiet(t)
    BY <1>2, Quietly DEF BeginVerifyingRecovery, evidence
  <2> QED
    BY <2>1, <2>2, <2>3, QuietlyHonest
<1> QED
  BY <1>1, <1>2

\* The catch clause of the dispatch may blame the provider only while it has not
\* answered.
LEMMA DispatchCatchStaysHonest ==
  ASSUME TypeOK, NEW t \in Txns, Honest(t), NEW error, DispatchCatch(t, error),
         at[t] = "dispatching" \/ (at[t] = "reported" /\ OutcomeUnknown(error)),
         UNCHANGED <<states, observations>>
  PROVE  Honest(t)'
<1>1. at'[t] \notin Unanswered
  BY DEF DispatchCatch, Continue, TypeOK
<1>2. CASE OutcomeUnknown(error)
  <2>1. /\ todo'[t] = <<Act("OUTCOME_UNKNOWN"), Tx("RECONCILING"), Act("RECONCILING")>>
        /\ UNCHANGED manualRecovery
    BY <1>2 DEF DispatchCatch, Continue, TypeOK
  <2>2. ~Queued(t, "PROVIDER_REJECTED")'
    BY <2>1 DEF Queued, Has, Act, Tx, Write
  <2>3. Quiet(t)
    BY <2>1, Quietly
  <2> QED
    BY <1>1, <2>2, <2>3, QuietlyHonest
<1>3. CASE ~OutcomeUnknown(error)
  <2>1. at[t] = "dispatching"
    BY <1>3
  <2>2. Saw(t, "dispatch")' <=> Saw(t, "dispatch")
    BY DEF Saw
  <2>3. Saw(t, "compensation_dispatch")' <=> Saw(t, "compensation_dispatch")
    BY DEF Saw
  <2> QED
    BY <2>1, <2>2, <2>3 DEF Honest
<1> QED
  BY <1>2, <1>3

\* So may the catch clause of the recovery say that the effect is still in place.
LEMMA RecoveryCatchStaysHonest ==
  ASSUME TypeOK, NEW t \in Txns, Honest(t), NEW error, RecoveryCatch(t, error),
         at[t] = "recovering" \/ (at[t] = "recoveryReported" /\ OutcomeUnknown(error)),
         UNCHANGED <<states, observations>>
  PROVE  Honest(t)'
<1>1. at'[t] \in Acknowledging /\ ~Queued(t, "PROVIDER_REJECTED")'
  <2>1. CASE Continue(t, <<Act("COMPENSATION_UNKNOWN"), Act("COMPENSATION_RECONCILING")>>,
                      "reconcileRecovery")
    BY <2>1 DEF Continue, TypeOK, Queued, Has, Act, Write
  <2>2. CASE Continue(t, <<Act("COMPENSATION_BLOCKED"), Tx("MANUAL_RECOVERY_REQUIRED")>>, "finish")
    BY <2>2 DEF Continue, TypeOK, Queued, Has, Act, Tx, Write
  <2>3. CASE Continue(t, <<Act("COMPENSATION_FAILED"), Tx("MANUAL_RECOVERY_REQUIRED")>>, "finish")
    BY <2>3 DEF Continue, TypeOK, Queued, Has, Act, Tx, Write
  <2> QED
    BY <2>1, <2>2, <2>3 DEF RecoveryCatch
<1>2. CASE OutcomeUnknown(error)
  <2>1. UNCHANGED manualRecovery
    BY <1>2 DEF RecoveryCatch, OutcomeUnknown
  <2>2. Quiet(t)
    BY <2>1, Quietly
  <2> QED
    BY <1>1, <2>2, QuietlyHonest
<1>3. CASE at[t] = "recovering"
  <2>1. /\ Saw(t, "dispatch")' <=> Saw(t, "dispatch")
        /\ Saw(t, "compensation_dispatch")' <=> Saw(t, "compensation_dispatch")
        /\ action'[t] = action[t]
    BY DEF Saw, states
  <2> QED
    BY <1>1, <1>3, <2>1 DEF Honest
<1> QED
  BY <1>2, <1>3

\* appendEvent only takes a write off the queue.
LEMMA AppendEventStaysHonest ==
  ASSUME TypeOK, NEW t \in Txns, Honest(t), AppendEvent(t)
  PROVE  Honest(t)'
<1>1. /\ at'[t] = at[t] /\ manualRecovery'[t] = manualRecovery[t]
      /\ Saw(t, "dispatch")' <=> Saw(t, "dispatch")
      /\ Saw(t, "compensation_dispatch")' <=> Saw(t, "compensation_dispatch")
  BY DEF AppendEvent, evidence, Saw
<1>2. ~Queued(t, "PROVIDER_REJECTED") => ~Queued(t, "PROVIDER_REJECTED")'
  BY AppendEventTakes
<1>3. action'[t] = action[t] \/ action'[t] = Head(todo[t]).to
  BY DEF AppendEvent, TypeOK
<1>4. Queued(t, Head(todo[t]).to)
  BY StoringJournals DEF AppendEvent
<1> QED
  BY <1>1, <1>2, <1>3, <1>4 DEF Honest

\* So does a run that throws, and the last stretch of one that returns.
LEMMA EndsHonestly ==
  ASSUME TypeOK, NEW t \in Txns, Honest(t), NEW list, NEW q \in Ending,
         Continue(t, list, q), ~Has(list, "PROVIDER_REJECTED"),
         UNCHANGED <<states, observations, manualRecovery>>
  PROVE  Honest(t)'
<1>1. at'[t] = q /\ ~Queued(t, "PROVIDER_REJECTED")'
  BY DEF Continue, TypeOK, Queued
<1>2. Quiet(t)
  BY Quietly
<1> QED
  BY <1>1, <1>2, QuietlyHonest DEF Ending

\* The ends of run(), good and bad.
LEMMA EndsStayHonest ==
  ASSUME TypeOK, NEW t \in Txns, Honest(t),
         \/ FinishResult(t) \/ SignReceipt(t) \/ Return(t)
         \/ InputThrows(t) \/ ApprovalThrows(t) \/ AdapterThrows(t) \/ LedgerReadThrows(t)
  PROVE  Honest(t)'
<1>1. /\ ~Has(<<>>, "PROVIDER_REJECTED")
      /\ ~Has(<<Ev("transaction.terminal")>>, "PROVIDER_REJECTED")
      /\ ~Has(<<Ev("receipt.issued")>>, "PROVIDER_REJECTED")
  BY DEF Has, Ev, Write
<1>2. "sign" \in Ending /\ "return" \in Ending /\ "returned" \in Ending /\ "threw" \in Ending
  BY DEF Ending
<1>3. CASE FinishResult(t)
  BY <1>1, <1>2, <1>3, EndsHonestly DEF FinishResult, evidence
<1>4. CASE SignReceipt(t)
  BY <1>1, <1>2, <1>4, EndsHonestly DEF SignReceipt, evidence
<1>5. CASE Return(t)
  BY <1>1, <1>2, <1>5, EndsHonestly DEF Return, evidence
<1>6. CASE InputThrows(t)
  BY <1>1, <1>2, <1>6, EndsHonestly DEF InputThrows, Throw, evidence
<1>7. CASE ApprovalThrows(t)
  BY <1>1, <1>2, <1>7, EndsHonestly DEF ApprovalThrows, Throw, evidence
<1>8. CASE AdapterThrows(t)
  BY <1>1, <1>2, <1>8, EndsHonestly DEF AdapterThrows, Throw, evidence
<1>9. CASE LedgerReadThrows(t)
  BY <1>1, <1>2, <1>9, EndsHonestly DEF LedgerReadThrows, Throw, evidence
<1> QED
  BY <1>3, <1>4, <1>5, <1>6, <1>7, <1>8, <1>9

\* An append that throws inside a try block is no answer of the provider's, and
\* says so if its error has no code; a refused transition is never there.
LEMMA FailedWritesStayHonest ==
  ASSUME TypeOK, NEW t \in Txns, Honest(t), Legal(t), UnclassifiedFaults,
         IllegalTransition(t) \/ \E fault \in LedgerFaults : AppendThrows(t, fault)
  PROVE  Honest(t)'
<1>1. ~Has(<<>>, "PROVIDER_REJECTED") /\ "threw" \in Ending
  BY DEF Has, Ending
<1>2. CASE IllegalTransition(t)
  <2>1. at[t] = "finish"
    BY <1>2, HeadIsAllowed DEF IllegalTransition, Orderly
  <2>2. /\ Throw(t, "INVALID_STATE_TRANSITION")
        /\ UNCHANGED <<states, observations, manualRecovery>>
    BY <1>2, <2>1 DEF IllegalTransition, Raise
  <2> QED
    BY <1>1, <2>2, EndsHonestly DEF Throw
<1>3. ASSUME NEW fault \in LedgerFaults, AppendThrows(t, fault)
      PROVE  Honest(t)'
  <2>1. /\ Raise(t, fault.error, "ledger") /\ UNCHANGED <<states, observations>>
        /\ OutcomeUnknown(fault.error)
    BY <1>3 DEF AppendThrows, UnclassifiedFaults, OutcomeUnknown
  <2>2. CASE at[t] = "reported" /\ DispatchCatch(t, fault.error)
    BY <2>1, <2>2, DispatchCatchStaysHonest
  <2>3. CASE at[t] = "recoveryReported" /\ RecoveryCatch(t, fault.error)
    BY <2>1, <2>3, RecoveryCatchStaysHonest
  <2>4. CASE Throw(t, "ledger") /\ UNCHANGED manualRecovery
    BY <1>1, <2>1, <2>4, EndsHonestly DEF Throw
  <2> QED
    BY <2>1, <2>2, <2>3, <2>4 DEF Raise
<1> QED
  BY <1>2, <1>3

\* A step of a run leaves what it says of the effect true.
LEMMA OwnStepStaysHonest ==
  ASSUME TypeOK, NEW t \in Txns, Honest(t), Legal(t), Outcome(t), UnclassifiedFaults,
         Start(t) \/ InputThrows(t) \/ Run(t)
  PROVE  Honest(t)'
<1>1. CASE Start(t) \/ InputThrows(t) \/ AdapterThrows(t)
  BY <1>1, AdmissionStaysHonest, EndsStayHonest
<1>2. CASE Admission(t)
  BY <1>2, AdmissionStaysHonest, EndsStayHonest DEF Admission
<1>3. CASE Forward(t)
  <2>1. ASSUME NEW error, DispatchThrows(t, error)
        PROVE  Honest(t)'
    <3>1. at[t] = "dispatching"
      BY <2>1 DEF DispatchThrows, Awaits
    <3>2. DispatchCatch(t, error)
      BY <2>1 DEF DispatchThrows
    <3>3. UNCHANGED <<states, observations>>
      BY <2>1 DEF DispatchThrows
    <3> QED
      BY <3>1, <3>2, <3>3, DispatchCatchStaysHonest
  <2> QED
    BY <1>3, <2>1, AdmissionStaysHonest, ForwardStaysHonest, AnswersStayHonest,
       VerifyingStaysHonest DEF Forward
<1>4. CASE Recovery(t)
  <2>1. ASSUME NEW error, RecoveryThrows(t, error)
        PROVE  Honest(t)'
    <3>1. at[t] = "recovering"
      BY <2>1 DEF RecoveryThrows, Awaits
    <3>2. RecoveryCatch(t, error)
      BY <2>1 DEF RecoveryThrows
    <3>3. UNCHANGED <<states, observations>>
      BY <2>1 DEF RecoveryThrows
    <3> QED
      BY <3>1, <3>2, <3>3, RecoveryCatchStaysHonest
  <2> QED
    BY <1>4, <2>1, RecoveryStaysHonest, AnswersStayHonest, VerifyingStaysHonest DEF Recovery
<1>5. CASE Journal(t)
  BY <1>5, AppendEventStaysHonest, FailedWritesStayHonest, EndsStayHonest DEF Journal
<1> QED
  BY <1>1, <1>2, <1>3, <1>4, <1>5 DEF Run

HonestInv == \A t \in Txns : Honest(t)

\* With such a ledger what is said of every effect stays true.
LEMMA HonestInvariant ==
  ASSUME UnclassifiedFaults
  PROVE  Spec => []HonestInv
<1>1. Init => HonestInv
  BY DEF Init, HonestInv, Honest, Saw
<1>2. LegalInv /\ OutcomeInv /\ HonestInv /\ [Next]_vars => HonestInv'
  <2> SUFFICES ASSUME LegalInv, OutcomeInv, HonestInv, [Next]_vars
               PROVE  \A t \in Txns : Honest(t)'
    BY DEF HonestInv
  <2>1. TypeOK /\ \A t \in Txns : Legal(t) /\ Outcome(t) /\ Honest(t)
    BY DEF LegalInv, OutcomeInv, HonestInv
  <2>2. ASSUME NEW u \in Txns, Untouched(u)
        PROVE  Honest(u)'
    BY <2>1, <2>2 DEF Untouched, Honest, Saw, Queued
  <2>3. CASE UNCHANGED vars
    <3>1. \A t \in Txns : Untouched(t)
      BY <2>3 DEF vars, Untouched
    <3> QED
      BY <2>1, <2>2, <3>1
  <2>4. ASSUME NEW t \in Txns, Start(t) \/ InputThrows(t) \/ Run(t)
        PROVE  \A u \in Txns : Honest(u)'
    <3>1. Honest(t)'
      BY <2>1, <2>4, OwnStepStaysHonest
    <3>2. ASSUME NEW u \in Txns, u # t
          PROVE  Honest(u)'
      BY <2>1, <2>2, <2>4, <3>2, OthersUntouched
    <3> QED
      BY <3>1, <3>2
  <2> QED
    BY <2>3, <2>4 DEF Next
<1> QED
  BY <1>1, <1>2, LegalInvariant, OutcomeInvariant, PTL DEF Spec

\* With a ledger whose errors have no code, buildRecovery says that nothing
\* committed only of a dispatch the provider did not acknowledge.
THEOREM HonestNothingCommitted ==
  ASSUME UnclassifiedFaults
  PROVE  Spec => []NothingCommittedIsHonest
<1>1. HonestInv => NothingCommittedIsHonest
  BY DEF HonestInv, Honest, NothingCommittedIsHonest, EffectMayHaveCommitted
<1> QED
  BY <1>1, HonestInvariant, PTL

\* With such a ledger "the forward effect is still in place" is never said of an
\* effect whose compensation executeRecovery reported.
THEOREM HonestStillInPlace ==
  ASSUME UnclassifiedFaults
  PROVE  Spec => []StillInPlaceIsHonest
<1>1. HonestInv => StillInPlaceIsHonest
  BY DEF HonestInv, Honest, StillInPlaceIsHonest
<1> QED
  BY <1>1, HonestInvariant, PTL
-----------------------------------------------------------------------------
(***************************************************************************)
(* The receipt and the ledger.  A receipt says what is in memory, the      *)
(* ledger what replayProjection makes of its events; they agree because    *)
(* every event stores the state it finds, an append that fails stores      *)
(* nothing (as with the databases that roll it back), and the terminal     *)
(* event is the last one when the receipt is signed.                       *)
(***************************************************************************)
\* An append that throws has stored nothing.
RolledBack == \A fault \in LedgerFaults : ~fault.durable

\* What is in memory is what the ledger says, once it says anything.
Replays(t) ==
  LET projection == replayProjection(events[t]) IN
    /\ projection \in [transactionState : TransactionStates \union {"none"},
                       actionState : ActionStates \union {"none"}, valid : {TRUE}]
    /\ \/ projection.transactionState = transaction[t]
       \/ projection.transactionState = "none" /\ transaction[t] = "DRAFT"
    /\ \/ projection.actionState = action[t]
       \/ projection.actionState = "none" /\ action[t] = "PROPOSED"

\* From the end of the preflight on the action has moved.
Undertaken(t) ==
  HasReceipt(t) \/ at[t] \notin {"idle", "preflight", "threw"} => action[t] # "PROPOSED"

Terminal == Ev("transaction.terminal")
Issued   == Ev("receipt.issued")

EndsInTerminal(s, n) == n \in DOMAIN s /\ s[n].to = "transaction.terminal"

\* The terminal event is the last one when the receipt is signed, and only the
\* one that announces the receipt comes after it.
Sealed(t) ==
  /\ at[t] = "sign" =>
       todo[t] = <<Terminal>> \/ (todo[t] = <<>> /\ EndsInTerminal(events[t], Len(events[t])))
  /\ at[t] \in {"returned", "threw"} => todo[t] = <<>>
  /\ at[t] = "return" => todo[t] = <<Issued>> \/ todo[t] = <<>>
  /\ HasReceipt(t) =>
       /\ EndsInTerminal(events[t], receipt[t].covered)
       /\ \/ Len(events[t]) = receipt[t].covered
          \/ todo[t] = <<>> /\ Len(events[t]) = receipt[t].covered + 1

Matching(t) == Replays(t) /\ Undertaken(t) /\ Sealed(t)

MatchInv == OutcomeInv /\ LegalInv /\ \A t \in Txns : Matching(t)

-----------------------------------------------------------------------------
\* A set of natural numbers has a smallest one.
LEMMA Smallest ==
  ASSUME NEW T \in SUBSET Nat, T # {}
  PROVE  \E x \in T : \A y \in T : x <= y
<1> DEFINE Less == OpToRel(<, Nat)
<1>1. IsWellFoundedOn(Less, Nat)
  BY NatLessThanWellFounded
<1>2. \A y, x \in Nat : <<y, x>> \in Less <=> y < x
  BY DEF OpToRel
<1> HIDE DEF Less
<1>3. PICK x \in T : \A y \in T : <<y, x>> \notin Less
  BY <1>1, WFMin
<1>4. \A y \in T : ~(y < x)
  BY <1>2, <1>3, Zenon
<1>5. \A y \in T : y \in Nat /\ x \in Nat
  OBVIOUS
<1> QED
  BY <1>4, <1>5

\* Induction, about a set instead of an operator.
LEMMA Induction ==
  ASSUME NEW T, 0 \in T, \A n \in Nat : n \in T => n + 1 \in T
  PROVE  Nat \subseteq T
<1> SUFFICES ASSUME Nat \ T # {}
             PROVE  FALSE
  OBVIOUS
<1>1. PICK x \in Nat \ T : \A y \in Nat \ T : x <= y
  BY Smallest
<1>2. x # 0 /\ x - 1 \in Nat /\ x - 1 \in T
  BY <1>1
<1>3. (x - 1) + 1 \in T
  BY <1>2
<1> QED
  BY <1>3

\* The recursion of Projections has a solution on every prefix of a list.
LEMMA ProjectionsExist ==
  ASSUME NEW list, NEW n \in Nat
  PROVE  \E g : g = [i \in 0 .. n |->
                       IF i = 0 THEN NoProjection ELSE ReplayEvent(g[i - 1], list[i])]
<1> DEFINE Solves(g, m) ==
             g = [i \in 0 .. m |-> IF i = 0 THEN NoProjection ELSE ReplayEvent(g[i - 1], list[i])]
           T == {m \in Nat : \E g : Solves(g, m)}
<1>1. 0 \in T
  <2> DEFINE g == [i \in 0 .. 0 |-> NoProjection]
  <2>1. Solves(g, 0)
    OBVIOUS
  <2> QED
    BY <2>1
<1>2. ASSUME NEW m \in Nat, m \in T
      PROVE  m + 1 \in T
  <2>1. PICK g : Solves(g, m)
    BY <1>2
  <2> DEFINE h == [i \in 0 .. (m + 1) |-> IF i = m + 1 THEN ReplayEvent(g[m], list[m + 1]) ELSE g[i]]
  <2>2. ASSUME NEW i \in 0 .. (m + 1)
        PROVE  h[i] = IF i = 0 THEN NoProjection ELSE ReplayEvent(h[i - 1], list[i])
    <3>1. CASE i = m + 1
      <4>1. i # 0 /\ i - 1 = m /\ h[m] = g[m] /\ h[i] = ReplayEvent(g[m], list[m + 1])
        BY <3>1
      <4> QED
        BY <3>1, <4>1
    <3>2. CASE i # m + 1
      <4>1. i \in 0 .. m /\ h[i] = g[i]
        BY <3>2
      <4>2. g[i] = IF i = 0 THEN NoProjection ELSE ReplayEvent(g[i - 1], list[i])
        BY <2>1, <4>1
      <4>3. i # 0 => h[i - 1] = g[i - 1]
        BY <4>1
      <4> QED
        BY <4>1, <4>2, <4>3
    <3> QED
      BY <3>1, <3>2
  <2>3. Solves(h, m + 1)
    <3> HIDE DEF h
    <3>1. h = [i \in 0 .. (m + 1) |-> h[i]]
      BY DEF h
    <3> QED
      BY <2>2, <3>1
  <2> HIDE DEF h, Solves
  <2>4. \E f : Solves(f, m + 1)
    BY <2>3
  <2> QED
    BY <2>4
<1>3. n \in T
  <2> HIDE DEF Solves
  <2>1. \A m \in Nat : m \in T => m + 1 \in T
    BY <1>2
  <2> HIDE DEF T
  <2> QED
    BY <1>1, <2>1, Induction
<1> QED
  BY <1>3

\* So Projections is one.
LEMMA ProjectionsRecur ==
  ASSUME NEW list, Len(list) \in Nat
  PROVE  \A i \in 0 .. Len(list) :
           Projections(list)[i] =
             IF i = 0 THEN NoProjection ELSE ReplayEvent(Projections(list)[i - 1], list[i])
<1> DEFINE n == Len(list)
           Solves(g) ==
             g = [i \in 0 .. n |-> IF i = 0 THEN NoProjection ELSE ReplayEvent(g[i - 1], list[i])]
<1>1. \E g : Solves(g)
  BY ProjectionsExist
<1>2. Projections(list) = CHOOSE g : Solves(g)
  BY DEF Projections
<1>3. Solves(Projections(list))
  BY <1>1, <1>2
<1> QED
  BY <1>3

\* An event that is appended is replayed on what the list before it projects to.
LEMMA ReplayGoesOn ==
  ASSUME NEW S, NEW list \in Seq(S), NEW e \in S
  PROVE  replayProjection(Append(list, e)) = ReplayEvent(replayProjection(list), e)
<1> DEFINE long == Append(list, e)
           n == Len(list)
           T == {i \in Nat : i <= n => Projections(long)[i] = Projections(list)[i]}
<1>1. /\ n \in Nat /\ Len(long) = n + 1 /\ long[n + 1] = e
      /\ \A i \in 1 .. n : long[i] = list[i]
  OBVIOUS
<1> HIDE DEF long, n
<1>2. \A i \in 0 .. n :
        Projections(list)[i] =
          IF i = 0 THEN NoProjection ELSE ReplayEvent(Projections(list)[i - 1], list[i])
  BY <1>1, ProjectionsRecur DEF n
<1>3. \A i \in 0 .. (n + 1) :
        Projections(long)[i] =
          IF i = 0 THEN NoProjection ELSE ReplayEvent(Projections(long)[i - 1], long[i])
  <2>1. Len(long) \in Nat
    BY <1>1
  <2> QED
    BY <1>1, <2>1, ProjectionsRecur
<1>4. 0 \in T
  BY <1>1, <1>2, <1>3
<1>5. ASSUME NEW i \in Nat, i \in T
      PROVE  i + 1 \in T
  <2> SUFFICES ASSUME i + 1 <= n
               PROVE  Projections(long)[i + 1] = Projections(list)[i + 1]
    OBVIOUS
  <2>1. /\ i + 1 \in 0 .. n /\ i + 1 \in 0 .. (n + 1) /\ i + 1 # 0 /\ (i + 1) - 1 = i
        /\ i + 1 \in 1 .. n /\ i <= n
    BY <1>1
  <2>2. Projections(long)[i + 1] = ReplayEvent(Projections(long)[i], long[i + 1])
    BY <1>3, <2>1
  <2>3. Projections(list)[i + 1] = ReplayEvent(Projections(list)[i], list[i + 1])
    BY <1>2, <2>1
  <2>4. Projections(long)[i] = Projections(list)[i]
    BY <1>5, <2>1
  <2> QED
    BY <1>1, <2>1, <2>2, <2>3, <2>4
<1>6. n \in T
  <2> HIDE DEF T
  <2> QED
    BY <1>1, <1>4, <1>5, Induction
<1>7. Projections(long)[n] = Projections(list)[n]
  BY <1>1, <1>6
<1>8. n + 1 \in 0 .. (n + 1) /\ n + 1 # 0 /\ (n + 1) - 1 = n
  BY <1>1
<1>9. Projections(long)[n + 1] = ReplayEvent(Projections(long)[n], e)
  BY <1>1, <1>3, <1>8
<1>10. /\ replayProjection(long) = Projections(long)[n + 1]
       /\ replayProjection(list) = Projections(list)[n]
  BY <1>1 DEF replayProjection, n
<1> QED
  BY <1>7, <1>9, <1>10 DEF long

\* Nothing is projected of no events.
LEMMA ReplayOfNothing == replayProjection(<<>>) = NoProjection
<1>1. Len(<<>>) \in Nat /\ Len(<<>>) = 0
  OBVIOUS
<1> QED
  BY <1>1, ProjectionsRecur DEF replayProjection

-----------------------------------------------------------------------------
\* A run that handles an answer, from its preflight on.
Midway(t) ==
  /\ UNCHANGED <<states, receipt, events>>
  /\ at[t] \notin {"sign", "return", "returned", "threw"}
  /\ at'[t] \notin {"sign", "return", "returned", "threw", "idle"}
  /\ at'[t] = "preflight" \/ Awaits(t, "preflight") \/ at[t] \notin {"idle", "preflight"}

\* A run that gives up.
GivesUp(t) ==
  /\ UNCHANGED <<states, receipt, events>>
  /\ at[t] # "threw" /\ at'[t] = "threw" /\ todo'[t] = <<>>

\* The catch clauses go on.
LEMMA CatchesGoOn ==
  ASSUME TypeOK, NEW t \in Txns, NEW error, DispatchCatch(t, error) \/ RecoveryCatch(t, error)
  PROVE  at'[t] \in {"reconcile", "reconcileRecovery", "finish"}
BY DEF DispatchCatch, RecoveryCatch, Continue, TypeOK

\* An error in the journal goes to a catch clause or ends the run.
LEMMA RaiseGoesOn ==
  ASSUME TypeOK, NEW t \in Txns, todo[t] # <<>>, Sealed(t), NEW error, NEW cause,
         Raise(t, error, cause), UNCHANGED <<states, receipt, events>>
  PROVE  Midway(t) \/ GivesUp(t)
<1>1. at[t] # "threw"
  BY DEF Sealed
<1>2. CASE at[t] \in {"reported", "recoveryReported"}
  BY <1>2, CatchesGoOn DEF Raise, Midway
<1>3. CASE at[t] \notin {"reported", "recoveryReported"}
  BY <1>1, <1>3 DEF Raise, Throw, Continue, TypeOK, GivesUp
<1> QED
  BY <1>2, <1>3

\* Every step of a run but the ones of its end and the writes.
LEMMA StepsGoOn ==
  ASSUME TypeOK, NEW t \in Txns, Sealed(t), RolledBack, Start(t) \/ InputThrows(t) \/ Run(t)
  PROVE  \/ Midway(t) \/ GivesUp(t)
         \/ AppendEvent(t) \/ FinishResult(t) \/ SignReceipt(t) \/ Return(t)
<1> USE DEF outcome, Awaits, Continue, TypeOK, Points
<1>1. CASE Start(t)
  BY <1>1 DEF Start, Midway
<1>2. CASE InputThrows(t) \/ ApprovalThrows(t) \/ AdapterThrows(t) \/ LedgerReadThrows(t)
  BY <1>2 DEF InputThrows, ApprovalThrows, AdapterThrows, LedgerReadThrows, Throw, GivesUp
<1>3. CASE PreflightRejected(t) \/ Preflighted(t) \/ ApprovalRejected(t) \/ ApprovalConsumed(t)
           \/ Stale(t) \/ Fresh(t)
  BY <1>3 DEF PreflightRejected, Preflighted, ApprovalRejected, ApprovalConsumed, Stale, Fresh,
     Midway
<1>4. CASE Forward(t)
  <2>1. CASE \E error \in DispatchErrors : DispatchThrows(t, error)
    <3>1. PICK error \in DispatchErrors : DispatchThrows(t, error)
      BY <2>1
    <3>2. at'[t] \in {"reconcile", "reconcileRecovery", "finish"}
      BY <3>1, CatchesGoOn DEF DispatchThrows
    <3> QED
      BY <3>1, <3>2 DEF DispatchThrows, Midway
  <2>2. CASE Dispatch(t) \/ DispatchReported(t) \/ Reconciled(t) \/ Unresolved(t)
    BY <2>2 DEF Dispatch, DispatchReported, Reconciled, Unresolved, Midway
  <2>3. CASE BeginVerifying(t) \/ Verified(t) \/ VerificationFailed(t)
    BY <2>3 DEF BeginVerifying, Verified, VerificationFailed, Midway
  <2>4. CASE Finalized(t) \/ FinalizeThrows(t) \/ FinalizeThrowsUndefined(t)
    BY <2>4 DEF Finalized, FinalizeThrows, FinalizeThrowsUndefined, Midway
  <2> QED
    BY <1>4, <2>1, <2>2, <2>3, <2>4 DEF Forward
<1>5. CASE Recovery(t)
  <2>1. CASE \E error \in RecoveryErrors : RecoveryThrows(t, error)
    <3>1. PICK error \in RecoveryErrors : RecoveryThrows(t, error)
      BY <2>1
    <3>2. at'[t] \in {"reconcile", "reconcileRecovery", "finish"}
      BY <3>1, CatchesGoOn DEF RecoveryThrows
    <3> QED
      BY <3>1, <3>2 DEF RecoveryThrows, Midway
  <2>2. CASE RecoveryUnsafe(t) \/ BlockedObserved(t) \/ RecoverySafe(t) \/ ExecuteRecovery(t)
    BY <2>2 DEF RecoveryUnsafe, BlockedObserved, RecoverySafe, ExecuteRecovery, Midway
  <2>3. CASE RecoveryReported(t) \/ RecoveryReconciled(t) \/ RecoveryUnresolved(t)
    BY <2>3 DEF RecoveryReported, RecoveryReconciled, RecoveryUnresolved, Midway
  <2>4. CASE BeginVerifyingRecovery(t) \/ RecoveryVerified(t) \/ RecoveryDisputed(t)
    BY <2>4 DEF BeginVerifyingRecovery, RecoveryVerified, RecoveryDisputed, Midway
  <2> QED
    BY <1>5, <2>1, <2>2, <2>3, <2>4 DEF Recovery
<1>6. CASE IllegalTransition(t)
  BY <1>6, RaiseGoesOn DEF IllegalTransition
<1>7. CASE \E fault \in LedgerFaults : AppendThrows(t, fault)
  BY <1>7, RaiseGoesOn DEF AppendThrows, RolledBack
<1> QED
  BY <1>1, <1>2, <1>3, <1>4, <1>5, <1>6, <1>7 DEF Run, Admission, Journal

\* A step that writes nothing and decides nothing leaves ledger and memory alone.
LEMMA MidwayMatches ==
  ASSUME TypeOK, NEW t \in Txns, Outcome(t), Legal(t), Matching(t), Midway(t)
  PROVE  Matching(t)'
<1>1. Replays(t)'
  BY DEF Midway, Matching, Replays, states
<1>2. Undertaken(t)'
  <2>1. CASE Awaits(t, "preflight")
    <3>1. <<at[t], transaction[t], action[t]>> \in Stations
      BY <2>1, AtStation DEF Awaits, Closed, Ending
    <3> QED
      BY <2>1, <3>1 DEF Awaits, Stations, Undertaken, Midway, states
  <2>2. CASE ~Awaits(t, "preflight")
    BY <2>2 DEF Midway, Matching, Undertaken, states, Outcome, Closing, HasReceipt
  <2> QED
    BY <2>1, <2>2
<1>3. Sealed(t)'
  <2>1. ~HasReceipt(t)
    BY DEF Midway, Outcome, Closing
  <2> QED
    BY <2>1 DEF Midway, Sealed, HasReceipt
<1> QED
  BY <1>1, <1>2, <1>3 DEF Matching

\* Nor does one that ends the run with an error.
LEMMA GivingUpMatches ==
  ASSUME TypeOK, NEW t \in Txns, Matching(t), GivesUp(t)
  PROVE  Matching(t)'
<1>1. Replays(t)'
  BY DEF GivesUp, Matching, Replays, states
<1>2. Undertaken(t)'
  BY DEF GivesUp, Matching, Undertaken, states, HasReceipt
<1>3. Sealed(t)'
  BY DEF GivesUp, Matching, Sealed, HasReceipt, EndsInTerminal
<1> QED
  BY <1>1, <1>2, <1>3 DEF Matching

\* The end of a run.
LEMMA EndMatches ==
  ASSUME TypeOK, NEW t \in Txns, Outcome(t), Matching(t),
         FinishResult(t) \/ SignReceipt(t) \/ Return(t)
  PROVE  Matching(t)'
<1>1. UNCHANGED <<states, events>>
  BY DEF FinishResult, SignReceipt, Return
<1>2. at[t] \in {"finish", "sign", "return"}
  BY DEF FinishResult, SignReceipt, Return, Awaits
<1>3. Replays(t)'
  BY <1>1 DEF Matching, Replays, states
<1>4. Undertaken(t)'
  BY <1>1, <1>2 DEF Matching, Undertaken, states
<1>5. Sealed(t)'
  <2>1. CASE FinishResult(t)
    <3>1. ~HasReceipt(t) /\ receipt' = receipt
      BY <2>1 DEF FinishResult, Awaits, Outcome, Closing, outcome
    <3>2. at'[t] = "sign" /\ todo'[t] = <<Terminal>>
      BY <2>1 DEF FinishResult, Continue, TypeOK, Terminal
    <3> QED
      BY <3>1, <3>2 DEF Sealed, HasReceipt
  <2>2. CASE SignReceipt(t)
    <3>1. at'[t] = "return" /\ todo'[t] = <<Issued>> /\ receipt'[t].covered = Len(events[t])
      BY <2>2 DEF SignReceipt, Continue, TypeOK, Issued
    <3>2. EndsInTerminal(events[t], Len(events[t]))
      BY <2>2 DEF SignReceipt, Awaits, Matching, Sealed
    <3> QED
      BY <1>1, <3>1, <3>2 DEF Sealed, EndsInTerminal
  <2>3. CASE Return(t)
    <3>1. at'[t] = "returned" /\ todo'[t] = <<>> /\ receipt' = receipt /\ todo[t] = <<>>
      BY <2>3 DEF Return, Continue, TypeOK, outcome, Awaits
    <3> QED
      BY <1>1, <3>1 DEF Matching, Sealed, EndsInTerminal, HasReceipt
  <2> QED
    BY <2>1, <2>2, <2>3
<1> QED
  BY <1>3, <1>4, <1>5 DEF Matching

\* No move of an action leads back to the state it was proposed in.
LEMMA NoWayBack ==
  ASSUME NEW from \in ActionStates, NEW to, ActionMayMove(from, to)
  PROVE  to # "PROPOSED"
BY DEF ActionMayMove, ActionTransitions, ActionStates

\* A write that is made: what is stored of a move is the move.
LEMMA AppendMatches ==
  ASSUME TypeOK, NEW t \in Txns, Outcome(t), Matching(t), AppendEvent(t)
  PROVE  Matching(t)'
<1> DEFINE w == Head(todo[t])
           e == [kind |-> w.kind, from |-> Current(t, w.kind), to |-> w.to]
           p == replayProjection(events[t])
<1>1. /\ todo[t] \in Seq(Writes) /\ todo[t] # <<>> /\ todo'[t] = Tail(todo[t]) /\ at'[t] = at[t]
      /\ transaction'[t] = IF w.kind = "transaction" THEN w.to ELSE transaction[t]
      /\ action'[t] = IF w.kind = "action" THEN w.to ELSE action[t]
      /\ receipt'[t] = receipt[t] /\ events'[t] = Append(events[t], e)
      /\ Allowed(t, w) /\ w \in Writes
  BY DEF AppendEvent, Store, TypeOK, outcome
<1>2. /\ events[t] \in Seq(Events)
      /\ transaction[t] \in TransactionStates /\ action[t] \in ActionStates
  BY DEF TypeOK
<1>3. e \in Events
  <2>1. /\ w.kind \in {"transaction", "action", "event"}
        /\ w.to \in TransactionStates \union ActionStates \union EventTypes
    BY <1>1 DEF Writes
  <2>2. Current(t, w.kind) \in TransactionStates \union ActionStates \union {"none"}
    BY <1>2, <2>1 DEF Current
  <2> QED
    BY <2>1, <2>2 DEF Events
<1>4. replayProjection(events'[t]) = ReplayEvent(p, e)
  BY <1>1, <1>2, <1>3, ReplayGoesOn
<1>5. e.kind = w.kind /\ e.to = w.to /\ e.from = Current(t, w.kind)
  OBVIOUS
<1>6. /\ p \in [transactionState : TransactionStates \union {"none"},
                actionState : ActionStates \union {"none"}, valid : {TRUE}]
      /\ \/ p.transactionState = transaction[t]
         \/ p.transactionState = "none" /\ transaction[t] = "DRAFT"
      /\ \/ p.actionState = action[t]
         \/ p.actionState = "none" /\ action[t] = "PROPOSED"
  BY DEF Matching, Replays
<1> HIDE DEF e, p, w
<1>7. Replays(t)'
  <2>1. CASE w.kind = "transaction"
    <3>1. e.from = transaction[t] /\ w.to \in TransactionStates
      BY <1>1, <1>5, <2>1 DEF Current, Writes
    <3>2. FollowsOn(p.transactionState, e) /\ TransactionMayMove(e.from, e.to)
      <4>1. FollowsOn(p.transactionState, e)
        BY <1>6, <3>1 DEF FollowsOn
      <4>2. TransactionMayMove(e.from, e.to)
        BY <1>1, <1>5, <2>1, <3>1 DEF Allowed
      <4> QED
        BY <4>1, <4>2
    <3>3. ReplayEvent(p, e) = [p EXCEPT !.transactionState = w.to]
      <4>1. ReplayEvent(p, e) = ReplayTransaction(p, e)
        BY <1>5, <2>1 DEF ReplayEvent
      <4> QED
        BY <1>5, <1>6, <3>2, <4>1 DEF ReplayTransaction
    <3> QED
      BY <1>1, <1>4, <1>6, <2>1, <3>1, <3>3 DEF Replays
  <2>2. CASE w.kind = "action"
    <3>1. e.from = action[t] /\ w.to \in ActionStates
      BY <1>1, <1>5, <2>2 DEF Current, Writes
    <3>2. FollowsOn(p.actionState, e) /\ ActionMayMove(e.from, e.to)
      <4>1. FollowsOn(p.actionState, e)
        BY <1>6, <3>1 DEF FollowsOn
      <4>2. ActionMayMove(e.from, e.to)
        BY <1>1, <1>5, <2>2, <3>1 DEF Allowed
      <4> QED
        BY <4>1, <4>2
    <3>3. ReplayEvent(p, e) = [p EXCEPT !.actionState = w.to]
      <4>1. ReplayEvent(p, e) = ReplayAction(p, e)
        BY <1>5, <2>2 DEF ReplayEvent
      <4> QED
        BY <1>5, <1>6, <3>2, <4>1 DEF ReplayAction
    <3> QED
      BY <1>1, <1>4, <1>6, <2>2, <3>1, <3>3 DEF Replays
  <2>3. CASE w.kind = "event"
    <3>1. ReplayEvent(p, e) = p
      BY <1>5, <2>3 DEF ReplayEvent
    <3> QED
      BY <1>1, <1>4, <1>6, <2>3, <3>1 DEF Replays
  <2> QED
    BY <1>1, <2>1, <2>2, <2>3 DEF Writes
<1>8. Undertaken(t)'
  BY <1>1, <1>2, NoWayBack DEF Matching, Undertaken, Allowed, HasReceipt
<1>9. Sealed(t)'
  <2>1. /\ Len(events'[t]) = Len(events[t]) + 1 /\ Len(events[t]) \in Nat
        /\ events'[t][Len(events[t]) + 1] = e
        /\ \A i \in DOMAIN events[t] : i \in DOMAIN events'[t] /\ events'[t][i] = events[t][i]
        /\ Len(events[t]) + 1 \in DOMAIN events'[t]
    BY <1>1, <1>2, <1>3
  <2>2. CASE at[t] = "sign"
    <3>1. todo[t] = <<Terminal>> /\ ~HasReceipt(t)
      BY <1>1, <2>2 DEF Matching, Sealed, Outcome, Closing
    <3>2. todo'[t] = <<>> /\ e.to = "transaction.terminal"
      BY <1>1, <1>5, <3>1 DEF Terminal, Ev, Write, w
    <3> QED
      BY <1>1, <2>1, <2>2, <3>1, <3>2 DEF Sealed, EndsInTerminal, HasReceipt
  <2>3. CASE at[t] = "return"
    <3>1. todo[t] = <<Issued>> /\ todo'[t] = <<>>
      <4>1. todo[t] = <<Issued>>
        BY <1>1, <2>3 DEF Matching, Sealed
      <4> QED
        BY <1>1, <4>1
    <3>2. HasReceipt(t) => /\ EndsInTerminal(events[t], receipt[t].covered)
                           /\ Len(events[t]) = receipt[t].covered
      BY <1>1 DEF Matching, Sealed
    <3> QED
      BY <1>1, <2>1, <2>3, <3>1, <3>2 DEF Sealed, EndsInTerminal, HasReceipt
  <2>4. CASE at[t] \notin {"sign", "return"}
    <3>1. ~HasReceipt(t) /\ at[t] \notin {"returned", "threw"}
      BY <1>1, <2>4 DEF Matching, Sealed, Outcome, Closing
    <3> QED
      BY <1>1, <2>4, <3>1 DEF Sealed, HasReceipt
  <2> QED
    BY <2>2, <2>3, <2>4
<1> QED
  BY <1>7, <1>8, <1>9 DEF Matching

\* The state of another run is no part of it.
LEMMA UntouchedMatches ==
  ASSUME NEW u, Matching(u), Untouched(u)
  PROVE  Matching(u)'
BY DEF Untouched, Matching, Replays, Undertaken, Sealed, HasReceipt, EndsInTerminal

\* No step of any run makes receipt and ledger differ.
LEMMA MatchInvariant == ASSUME RolledBack PROVE Spec => []MatchInv
<1> DEFINE Inv == \A t \in Txns : Matching(t)
<1>1. Init => Inv
  <2> SUFFICES ASSUME Init, NEW t \in Txns
               PROVE  Matching(t)
    OBVIOUS
  <2>1. /\ at[t] = "idle" /\ todo[t] = <<>> /\ transaction[t] = "DRAFT" /\ action[t] = "PROPOSED"
        /\ receipt[t] = NoReceipt /\ events[t] = <<>>
    BY DEF Init
  <2>2. replayProjection(events[t]) = NoProjection
    BY <2>1, ReplayOfNothing
  <2>3. Replays(t)
    <3>1. NoProjection \in [transactionState : TransactionStates \union {"none"},
                            actionState : ActionStates \union {"none"}, valid : {TRUE}]
      BY DEF NoProjection
    <3>2. NoProjection.transactionState = "none" /\ NoProjection.actionState = "none"
      BY DEF NoProjection
    <3> QED
      BY <2>1, <2>2, <3>1, <3>2 DEF Replays
  <2>4. ~HasReceipt(t)
    BY <2>1 DEF HasReceipt
  <2> QED
    BY <2>1, <2>3, <2>4 DEF Matching, Undertaken, Sealed
<1>2. Inv /\ OutcomeInv /\ LegalInv /\ [Next]_vars => Inv'
  <2> SUFFICES ASSUME Inv, OutcomeInv, LegalInv, [Next]_vars
               PROVE  Inv'
    OBVIOUS
  <2>1. TypeOK /\ \A t \in Txns : Outcome(t) /\ Legal(t) /\ Matching(t)
    BY DEF OutcomeInv, LegalInv
  <2>2. CASE UNCHANGED vars
    <3>1. \A t \in Txns : Untouched(t)
      BY <2>2 DEF vars, Untouched
    <3> QED
      BY <2>1, <3>1, UntouchedMatches
  <2>3. ASSUME NEW t \in Txns, Start(t) \/ InputThrows(t) \/ Run(t)
        PROVE  Inv'
    <3>1. \/ Midway(t) \/ GivesUp(t)
          \/ AppendEvent(t) \/ FinishResult(t) \/ SignReceipt(t) \/ Return(t)
      BY <2>1, <2>3, StepsGoOn DEF Matching
    <3>2. Matching(t)'
      BY <2>1, <3>1, MidwayMatches, GivingUpMatches, AppendMatches, EndMatches
    <3>3. ASSUME NEW u \in Txns, u # t
          PROVE  Matching(u)'
      BY <2>1, <2>3, <3>3, OthersUntouched, UntouchedMatches
    <3> QED
      BY <3>2, <3>3
  <2> QED
    BY <2>2, <2>3 DEF Next
<1> HIDE DEF Inv
<1>3. Spec => []Inv
  BY <1>1, <1>2, OutcomeInvariant, LegalInvariant, PTL DEF Spec
<1>4. Inv /\ OutcomeInv /\ LegalInv => MatchInv
  BY DEF Inv, MatchInv
<1> QED
  BY <1>3, <1>4, OutcomeInvariant, LegalInvariant, PTL

\* The ledger of a run replays to the states its receipt reports, the receipt
\* covers it up to the terminal event, and only receipt.issued follows, over every
\* ledger that stores nothing of an append that throws, as the one in memory and the
\* SQLite one; whatever the adapter answers, and also where a run throws.
THEOREM ReceiptsMatch ==
  ASSUME RolledBack
  PROVE  Spec => []ReceiptMatchesLedger
<1>1. MatchInv => ReceiptMatchesLedger
  <2> SUFFICES ASSUME MatchInv, NEW t \in Txns, HasReceipt(t)
               PROVE  /\ replayProjection(events[t]).valid
                      /\ replayProjection(events[t]).transactionState = FinalStatus(t)
                      /\ replayProjection(events[t]).actionState = receipt[t].actionStatus
                      /\ events[t][receipt[t].covered].to = "transaction.terminal"
                      /\ Len(events[t]) <= receipt[t].covered + 1
    BY DEF ReceiptMatchesLedger
  <2>1. TypeOK /\ Outcome(t) /\ Matching(t)
    BY DEF MatchInv, OutcomeInv
  <2>2. /\ FinalStatus(t) = transaction[t] /\ transaction[t] \in TerminalTransactionStates
        /\ receipt[t].actionStatus = action[t]
    BY <2>1 DEF Outcome, Closing, FinalStatus
  <2>3. transaction[t] # "DRAFT"
    BY <2>2 DEF TerminalTransactionStates
  <2>4. action[t] # "PROPOSED"
    BY <2>1 DEF Matching, Undertaken
  <2>5. receipt[t].covered \in Nat
    BY <2>1 DEF TypeOK, Receipts, HasReceipt
  <2> DEFINE projection == replayProjection(events[t])
  <2>6. projection.valid = TRUE
    BY <2>1 DEF Matching, Replays
  <2>7. projection.transactionState = transaction[t] /\ projection.actionState = action[t]
    BY <2>1, <2>3, <2>4 DEF Matching, Replays
  <2>8. /\ events[t][receipt[t].covered].to = "transaction.terminal"
        /\ Len(events[t]) <= receipt[t].covered + 1
    BY <2>1, <2>5 DEF Matching, Sealed, EndsInTerminal
  <2> QED
    BY <2>2, <2>6, <2>7, <2>8
<1> QED
  BY <1>1, MatchInvariant, PTL
=============================================================================
