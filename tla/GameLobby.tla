----------------------------- MODULE GameLobby -----------------------------
(***************************************************************************)
(* What a joynet game server promises about its lobby, whatever messages   *)
(* and disconnects it sees: players sit down only between games, each      *)
(* controller of each client at most once, on a free seat; they may get up *)
(* at any time, and when nobody is left the game may be called off; a game *)
(* is started, paused, resumed and ended in that order.                    *)
(***************************************************************************)
EXTENDS Integers

CONSTANTS Clients, NumPlayers, Controllers, Free

Players   == 0 .. NumPlayers - 1
Occupants == Clients \X Controllers

VARIABLES
  phase,   \* of the game: OFF, PLAYING or PAUSED
  seats    \* who plays each player slot

vars == <<phase, seats>>

Init == /\ phase = "OFF"
        /\ seats = [p \in Players |-> Free]

\* A controller of a client takes a free seat.
SitDown(o, p) ==
  /\ phase = "OFF"
  /\ seats[p] = Free
  /\ \A q \in Players : seats[q] # o
  /\ seats' = [seats EXCEPT ![p] = o]
  /\ UNCHANGED phase

\* The seats in S become free.
GetUp(S) ==
  /\ seats' = [p \in Players |-> IF p \in S THEN Free ELSE seats[p]]
  /\ \/ UNCHANGED phase
     \/ phase' = "OFF" /\ \A p \in Players : seats'[p] = Free

StartGame  == phase = "OFF"     /\ phase' = "PLAYING" /\ UNCHANGED seats
PauseGame  == phase = "PLAYING" /\ phase' = "PAUSED"  /\ UNCHANGED seats
ResumeGame == phase = "PAUSED"  /\ phase' = "PLAYING" /\ UNCHANGED seats
EndGame    == phase # "OFF"     /\ phase' = "OFF"     /\ UNCHANGED seats

Next ==
  \/ \E o \in Occupants, p \in Players : SitDown(o, p)
  \/ \E S \in SUBSET Players : GetUp(S)
  \/ StartGame \/ PauseGame \/ ResumeGame \/ EndGame

Spec == Init /\ [][Next]_vars

-----------------------------------------------------------------------------
(* The types of the lobby.                                                  *)
TypeOK == /\ phase \in {"OFF", "PLAYING", "PAUSED"}
          /\ seats \in [Players -> Occupants \cup {Free}]

(* No controller plays two players: its input would steer both.             *)
OneSeatEach == \A p, q \in Players : seats[p] = seats[q] /\ seats[p] # Free => p = q
=============================================================================
