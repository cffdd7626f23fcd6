------------------------ MODULE MCApprovalAuthority ------------------------
(***************************************************************************)
(* An instance of the approval authority for TLC: two applications and one *)
(* run of `keys new` on one key store.                                     *)
(***************************************************************************)
EXTENDS ApprovalAuthority, TLC

CONSTANTS p, q, cli

Lifetimes == {0, 1}

Alike == Permutations({p, q}) \union Permutations(Keys) \union Permutations(Bindings) \union Permutations(Nonces)
=============================================================================
