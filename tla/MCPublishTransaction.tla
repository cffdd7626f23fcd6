------------------------ MODULE MCPublishTransaction ------------------------
(***************************************************************************)
(* Instances of the composed system for TLC.                               *)
(***************************************************************************)
EXTENDS PublishTransaction, TLC

\* Neither the transactions nor the values of a field are told apart.
Symmetric == Permutations(Txns) \union Permutations(Values)
=============================================================================
