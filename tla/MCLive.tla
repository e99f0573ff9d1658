------------------------------- MODULE MCLive -------------------------------
(***************************************************************************)
(* What must happen in the end, under fairness.  JoynetSession, with       *)
(* clients that come and go; Lockstep twice: two clients with a player     *)
(* each, whose buffers never fill, and one that has both players, where    *)
(* one frame fills a buffer, to see what becomes of a client that is late. *)
(***************************************************************************)
EXTENDS MCLockstep

VARIABLES
  part,
  state, slot, player_count, peer, cplaying, cmaster, spectating,
  mode, phase, port, known, locals, master, inMenu, up, down

L == INSTANCE Lockstep
       WITH Owner <- OneForAll, MaxBuffer <- 1, MaxFrames <- 3,
            Behaviours <- {}, MaxPress <- 0, MaxBacklog <- 1

J == INSTANCE JoynetSession
       WITH NumPlayers <- 1, Controllers <- {"k1"}, Free <- <<>>,
            Behaviours <- {"leave", "wrong_version"}, MaxRequests <- 1,
            MaxBacklog <- 0, MaxPlaying <- 2,
            cstate <- phase, roster <- known, toServer <- up, toClient <- down

sessionVars == <<state, slot, player_count, peer, cplaying, cmaster, spectating,
                 mode, phase, port, known, locals, master, inMenu, up, down>>

allVars == <<part, vars, sessionVars>>

MCInit == part \in {"steady", "late", "session"} /\ Init /\ J!Init

Steady(A)  == part = "steady" /\ A /\ UNCHANGED <<part, sessionVars>>
Late(A)    == part = "late" /\ A /\ UNCHANGED <<part, sessionVars>>
Session(A) == part = "session" /\ A /\ UNCHANGED <<part, vars>>

MCNext == Steady(Next) \/ Late(L!Next) \/ Session(J!Next)

\* The fairness of each module; only one of them can take a step.
MCSpec ==
  /\ MCInit /\ [][MCNext]_allVars
  /\ \A c \in Clients :
       /\ SF_allVars(\/ Steady(ServerPoll(c)) \/ Late(L!ServerPoll(c))
                     \/ Session(J!ServerPoll(c)))
       /\ WF_allVars(\/ Steady(ClientPoll(c)) \/ Late(L!ClientPoll(c))
                     \/ Session(J!ClientPoll(c)))
       /\ WF_allVars(Steady(ClientTick(c)) \/ Late(L!ClientTick(c)))
       /\ SF_allVars(Session(mode[c] = "closed" /\ J!PeerDisconnect(c)))
       /\ WF_allVars(Session(~peer[c] /\ J!ClientLost(c)))

\* Lockstep: every frame is run by every client in the end.
SteadyCatchesUp == part = "steady" => CatchesUp

\* Lockstep: a client too far behind loses its players.
LateLeaves == part = "late" => L!LaggardLeaves

\* JoynetSession: a seat whose client is gone is freed, and a game that starts
\* does so at every client with a player.
SessionGoesOn == part = "session" => J!SeatsReclaimed /\ J!EveryoneStarts
=============================================================================
