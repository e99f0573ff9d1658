----------------------------- MODULE MCContent -----------------------------
(* Content with two clients, of whose two levels each only one is the same. *)
EXTENDS Content

MCHas == [c \in Clients |-> IF c = "a" THEN {1, 2} ELSE {2, 3}]
=============================================================================
