------------------------------ MODULE MCViews ------------------------------
(* Views with three players at two machines, where the dead stay out.       *)
EXTENDS Views

MCGames == {[clients |-> {{0, 2}, {1}}, here |-> {0, 2}, legacy |-> FALSE,
             respawn |-> FALSE]}
=============================================================================
