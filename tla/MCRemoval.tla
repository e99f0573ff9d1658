----------------------------- MODULE MCRemoval -----------------------------
(***************************************************************************)
(* Clients that come and go.  Connection, with two attempts to connect to  *)
(* a server that has a place for one and datagrams that overtake each      *)
(* other; Lockstep with players who are removed while frames of the old    *)
(* roster and of the new are under way; and JoynetSession with one client  *)
(* that does everything there is, in its time and out of it.               *)
(***************************************************************************)
EXTENDS Connection

CONSTANTS c1, c2, k1, k2, Free

VARIABLES
  part,
  sstate, playing, held, online, pressed, cstate, ticking, roster, buffer, frames,
  toServer, toClient, issued, done,
  state, seat, player_count, peer, cplaying, cmaster, spectating,
  mode, phase, port, known, locals, master, inMenu, up, down

\* The slots of one client are on both sides of another's.
Interleaved == [p \in 0 .. 2 |-> IF p = 1 THEN c2 ELSE c1]

\* A free seat is not somebody's.
ASSUME RemovalAssumption == Free \notin {c1} \X {k1, k2}

L == INSTANCE Lockstep
       WITH Clients <- {c1, c2}, NumPlayers <- 3, Owner <- Interleaved,
            MaxBuffer <- 4, MaxFrames <- 2, Behaviours <- {"drop", "pause"},
            MaxTicks <- 2, MaxPress <- 1, MaxInputs <- 1, MaxBacklog <- 0

J == INSTANCE JoynetSession
       WITH Clients <- {c1}, NumPlayers <- 2, Controllers <- {k1, k2},
            Behaviours <- {"drop", "server_drop", "leave", "back", "repeat_back",
                           "early_join", "overflow", "stop_watching",
                           "wrong_version", "init_fails"},
            MaxRequests <- 1, MaxBacklog <- 0, MaxPlaying <- 1,
            slot <- seat, cstate <- phase, roster <- known,
            toServer <- up, toClient <- down

gameVars    == <<sstate, playing, held, online, pressed, cstate, ticking, roster, buffer,
                 frames, toServer, toClient, issued, done>>
sessionVars == <<state, seat, player_count, peer, cplaying, cmaster, spectating,
                 mode, phase, port, known, locals, master, inMenu, up, down>>

MCInit == part \in {"connection", "game", "session"} /\ Init /\ L!Init /\ J!Init

MCNext ==
  /\ part' = part
  /\ \/ part = "connection" /\ Next /\ UNCHANGED <<gameVars, sessionVars>>
     \/ part = "game" /\ L!Next /\ UNCHANGED <<vars, sessionVars>>
     \/ part = "session" /\ J!Next /\ UNCHANGED <<vars, gameVars>>

MCSpec == MCInit /\ [][MCNext]_<<part, vars, gameVars, sessionVars>>

\* Lockstep: buttons only move their own player, and ticks may be lost or blank,
\* but are never out of order or run twice.  JoynetSession: the counter of players,
\* by which games end and masters are chosen, misses no removal.
RemovalSound ==
  /\ part = "game" => L!TypeOK /\ L!OwnInput /\ L!TicksInOrder
  /\ part = "session" => J!CountIsRoster
=============================================================================
