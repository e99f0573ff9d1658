----------------------------- MODULE MCSession -----------------------------
(***************************************************************************)
(* JoynetSession with two sets of behaviours, one at a time, which keeps   *)
(* the number of states in bounds: what is expected of each of them is the *)
(* same.                                                                   *)
(***************************************************************************)
EXTENDS JoynetSession, TLC

CONSTANT MoreBehaviours

VARIABLE part

M == INSTANCE JoynetSession WITH Behaviours <- MoreBehaviours

MCInit == part \in {"behaviours", "more"} /\ Init

MCNext ==
  /\ part' = part
  /\ \/ part = "behaviours" /\ Next
     \/ part = "more" /\ M!Next

MCSpec == MCInit /\ [][MCNext]_<<part, vars>>

Symmetry == Permutations(Clients)
=============================================================================
