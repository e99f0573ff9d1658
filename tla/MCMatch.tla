------------------------------ MODULE MCMatch ------------------------------
(***************************************************************************)
(* Match with three slots, in five games.                                  *)
(***************************************************************************)
EXTENDS Match

Game(ps, m, l, g, t, s, n, r) ==
  [players |-> ps, mode |-> m, life |-> l, goal |-> g, timeLimit |-> t, stomp |-> s,
   portals |-> n, reach |-> r]

\* In the last one, the portals lie so close that one player blocks both.
MCOptions ==
  { Game(0 .. 2, "eliminator", 2, 0, 0, FALSE, 3, 1),
    Game(0 .. 2, "death match", 1, 2, 3, FALSE, 3, 1),
    Game({0, 2}, "death match", 1, 0, 2, TRUE, 2, 1),
    Game({0, 2}, "coin rush", 1, 0, 4, FALSE, 3, 1),
    Game({0, 2}, "death match", 1, 1, 0, FALSE, 2, 2) }
=============================================================================
