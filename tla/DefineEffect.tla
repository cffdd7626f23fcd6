---------------------------- MODULE DefineEffect ----------------------------
(***************************************************************************)
(* The decisions defineEffect (src/src/core/define-effect.ts) takes about  *)
(* provider states: what a preview changes, whether it is still fresh,     *)
(* whether an effect holds, whether it may be undone and by what.          *)
(*                                                                         *)
(* A provider state is a record [version, fields], normalised already; the *)
(* hash of a value stands for the value, so equal hashes are equal values, *)
(* and Absent is the value of a field the state does not have.             *)
(***************************************************************************)
CONSTANTS
  MaterialFields,   \* definition.materialFields
  Absent,           \* a field the state does not have
  Compensable       \* whether the definition declares compensate()

\* buildPreflight, for the expected fields the definition computes: the diff
\* is over the material fields, the witness over the whole state.
buildPreflight(before, expectedFields) ==
  [before   |-> before,
   expected |-> expectedFields,
   diff     |-> {f \in MaterialFields : before.fields[f] # expectedFields[f]}]

\* evaluatePreflight rejects a change without material effect.
HasMaterialEffect(preflight) == preflight.diff # {}

\* compareFields: every named field of the observed state has its target value.
compareFields(observed, target, fields) == \A f \in fields : observed.fields[f] = target[f]

verifyForward(preflight, observed) ==
  compareFields(observed, preflight.expected, preflight.diff)

verifyRecovery(restore, observed) == compareFields(observed, restore, DOMAIN restore)

\* restoreValues, for a definition without restore(): the values before, of
\* the fields the effect changed.
restoreValues(preflight) == [f \in preflight.diff |-> preflight.before.fields[f]]

\* assertFresh returns: neither the version nor any part of the state moved.
assertFresh(preflight, current) == current = preflight.before

\* planRecovery: safe only if the effect still owns every value it changed,
\* and each of them has a value to go back to.
planRecovery(preflight, current) ==
  /\ Compensable
  /\ verifyForward(preflight, current)
  /\ \A f \in preflight.diff : restoreValues(preflight)[f] # Absent
=============================================================================
