---------------------------- MODULE EventReplay ----------------------------
(***************************************************************************)
(* replayProjection of src/src/core/event-ledger.ts: the state a list of   *)
(* ledger events projects to, or its refusal of a list whose state changes *)
(* do not follow one another.  An event is a record [kind, from, to]; the  *)
(* hash chain under it is that of the ledger and is not part of it.        *)
(***************************************************************************)
EXTENDS Naturals, Sequences, StateMachine

NoProjection == [transactionState |-> "none", actionState |-> "none", valid |-> TRUE]

\* The state recorded so far is the one the event leaves.
FollowsOn(state, e) == state \in {"none", e.from}

ReplayTransaction(projection, e) ==
  [projection EXCEPT !.transactionState = e.to,
                     !.valid = /\ @
                               /\ FollowsOn(projection.transactionState, e)
                               /\ TransactionMayMove(e.from, e.to)]

ReplayAction(projection, e) ==
  [projection EXCEPT !.actionState = e.to,
                     !.valid = /\ @
                               /\ FollowsOn(projection.actionState, e)
                               /\ ActionMayMove(e.from, e.to)]

ReplayEvent(projection, e) ==
  CASE e.kind = "transaction" -> ReplayTransaction(projection, e)
    [] e.kind = "action"      -> ReplayAction(projection, e)
    [] OTHER                  -> projection

\* The projections of the first events, by how many they are.
Projections(events) ==
  LET ofFirst[n \in 0 .. Len(events)] ==
        IF n = 0 THEN NoProjection ELSE ReplayEvent(ofFirst[n - 1], events[n])
  IN  ofFirst

\* valid is FALSE where the code throws LEDGER_INTEGRITY_FAILED or
\* INVALID_STATE_TRANSITION.
replayProjection(events) == Projections(events)[Len(events)]
=============================================================================
