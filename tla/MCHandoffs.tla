----------------------------- MODULE MCHandoffs -----------------------------
(***************************************************************************)
(* Two agents, two intents of one of them, two offers and two keys for     *)
(* each type of command.                                                   *)
(***************************************************************************)
EXTENDS Handoffs, TLC

CONSTANTS a1, a2, i1, i2

OwnIntents == i1 :> a1 @@ i2 :> a1

\* Rows and keys are interchangeable names.
RowSymmetry == Permutations(Offers) \cup Permutations(Keys)
=============================================================================
