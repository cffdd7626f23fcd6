--------------------------- MODULE VerifiedEffect ---------------------------
(***************************************************************************)
(* What ZeroGate promises of one approved effect, without the protocol:    *)
(* the effect happens at the provider at most once and is undone at most   *)
(* once, the receipt gives one verdict, and a verdict other than           *)
(* "unresolved" is true when it is given and stays true: nothing is        *)
(* applied or undone behind its back.  (README.md, "Outcomes".)            *)
(***************************************************************************)
CONSTANT Txns

VARIABLES
  effect,    \* what happened at the provider
  verdict    \* what the receipt says of it

vars == <<effect, verdict>>

Effects  == {"none", "applied", "undone"}
Verdicts == {"open", "nothing", "committed", "compensated", "unresolved"}

Init ==
  /\ effect = [t \in Txns |-> "none"]
  /\ verdict = [t \in Txns |-> "open"]

\* No verdict yet, or one that admits it does not know.
Undecided(t) == verdict[t] \in {"open", "unresolved"}

Apply(t) ==
  /\ effect[t] = "none"
  /\ Undecided(t)
  /\ effect' = [effect EXCEPT ![t] = "applied"]
  /\ UNCHANGED verdict

Undo(t) ==
  /\ effect[t] = "applied"
  /\ Undecided(t)
  /\ effect' = [effect EXCEPT ![t] = "undone"]
  /\ UNCHANGED verdict

Decide(t, v) ==
  /\ verdict[t] = "open"
  /\ v = "nothing"     => effect[t] = "none"
  /\ v = "committed"   => effect[t] = "applied"
  /\ v = "compensated" => effect[t] = "undone"
  /\ verdict' = [verdict EXCEPT ![t] = v]
  /\ UNCHANGED effect

Next == \E t \in Txns : Apply(t) \/ Undo(t) \/ \E v \in Verdicts \ {"open"} : Decide(t, v)

Spec == Init /\ [][Next]_vars
=============================================================================
