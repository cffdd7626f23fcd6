--------------------------- MODULE MCVerifyEffect ---------------------------
(***************************************************************************)
(* An instance of the fault suite for TLC: every definition of the family, *)
(* called with and without the other writer, with some scenarios left out, *)
(* with a setup() that starts afresh or does not.                          *)
(***************************************************************************)
EXTENDS VerifyEffect

Skips ==
  {{}, {"compensation-refuses-concurrent-edit"},
   {"commits-once", "repeat-is-refused-as-no-op", "downstream-failure-is-compensated"},
   {"foreign-change-is-not-claimed"}}

Calls == [skip : Skips, edit : {"none", "same-field", "other-field"}, fresh : BOOLEAN]
=============================================================================
