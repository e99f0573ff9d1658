--------------------------- MODULE JoynetSession ---------------------------
(***************************************************************************)
(* The session protocol of joynet: one game server and its clients, the    *)
(* player slots they share, and the phases of a game.  The server handlers *)
(* are those of joynet/game_message.c, the events those of joynet/server.c *)
(* (joynet_poll_server) and the client handlers include what the callback  *)
(* pp2_game_channel_callback of pp2/gameplay/network.c does to the session *)
(* state in the same step.                                                 *)
(*                                                                         *)
(* ENet is external: a reliable, ordered channel in each direction until   *)
(* the connection is lost.  A client is named by its slot in the server's  *)
(* client array.  The run of ADD_PLAYER (REMOVE_PLAYER) messages that one  *)
(* handler sends to one client is one message that carries the set of      *)
(* players.  Content lists, options, chat and input have other modules.    *)
(***************************************************************************)
EXTENDS Integers, Sequences, FiniteSets

CONSTANTS
  Clients,      \* slots of the server's client array (max_clients)
  NumPlayers,   \* player slots (16 in pp2)
  Controllers,  \* controllers of each client (4 in pp2)
  Free,         \* an empty player slot
  Behaviours,   \* which of AllBehaviours users and the network exhibit
  MaxRequests,  \* bound: messages a client has under way to the server
  MaxBacklog,   \* bound: messages under way to a client when the server polls
  MaxPlaying    \* bound: how far client[c]->playing may drift from 0

(***************************************************************************)
(* "drop"          a connection breaks or a client program dies            *)
(* "server_drop"   the server is the first to notice a broken connection   *)
(* "leave"         a user disconnects through the menu                     *)
(* "back"          a user takes a controller out of the game               *)
(* "repeat_back"   ... and presses the button again before the answer      *)
(* "early_join"    ... or joins before the server has answered CHECK_ID    *)
(* "overflow"      a client falls max_buffer_frames behind                 *)
(* "stop_watching" a client calls joynet_leave_game                        *)
(* "wrong_version" a client's game name does not match the server's        *)
(* "init_fails"    pp2_game_init fails when START arrives                  *)
(***************************************************************************)
AllBehaviours ==
  {"drop", "server_drop", "leave", "back", "repeat_back", "early_join",
   "overflow", "stop_watching", "wrong_version", "init_fails"}

ASSUME ConstantsAssumption ==
  /\ NumPlayers \in Nat \ {0}
  /\ IsFiniteSet(Controllers)
  /\ \A c \in Clients, k \in Controllers : Free # <<c, k>>
  /\ Behaviours \subseteq AllBehaviours
  /\ MaxRequests \in Nat /\ MaxBacklog \in Nat /\ MaxPlaying \in Nat

Players  == 0 .. NumPlayers - 1
Unplugged == -1                     \* the port of a controller without player
Phases   == {"OFF", "PLAYING", "PAUSED"}

VARIABLES
  (* the server *)
  state,         \* joynet_current_server_game->state
  slot,          \* playing, client and backport of each player
  player_count,
  peer,          \* client[c]->peer is not NULL
  cplaying,      \* client[c]->playing
  cmaster,       \* client[c]->master
  spectating,    \* client[c]->spectating
  (* each client *)
  mode,          \* no connection, CHECK_ID unanswered, or gp->client set
  cstate,        \* gp->state
  port,          \* gp->controller[k]->port
  roster,        \* players p with gp->player[p]->playing
  locals,        \* players p with gp->player[p]->local
  master,        \* gp->client->master
  inMenu,        \* pp2 shows its menus rather than the game
  (* ENet *)
  toServer, toClient

serverVars == <<state, slot, player_count, peer, cplaying, cmaster, spectating>>
clientVars == <<mode, cstate, port, roster, locals, master, inMenu>>
vars == <<serverVars, clientVars, toServer, toClient>>

-----------------------------------------------------------------------------
Note(t)       == [type |-> t]
Request(t, k, p) == [type |-> t, ctrl |-> k, player |-> p]
About(t, S)   == [type |-> t, players |-> S]
AboutSome(t, S) == IF S = {} THEN <<>> ELSE <<About(t, S)>>

ToServerMessage ==
  {Note(t) : t \in {"CHECK_ID", "SPECTATE", "LEAVE", "START", "PAUSE",
                    "RESUME", "END", "INPUT_OVERFLOW"}}
    \cup {Request("CONNECT", k, p) : k \in Controllers, p \in Players \cup {-1}}
    \cup {Request("DISCONNECT", k, p) : k \in Controllers, p \in Players}

ToClientMessage ==
  {Note(t) : t \in {"CHECK_ID", "CHECK_ID_FAIL", "CONNECT_FAIL", "SPECTATE",
                    "ASSIGN_MASTER", "START", "PAUSE", "RESUME", "END"}}
    \cup {Request("CONNECT", k, p) : k \in Controllers, p \in Players}
    \cup {Request("DISCONNECT", k, -1) : k \in Controllers}
    \cup {About(t, S) : t \in {"ADD_PLAYER", "REMOVE_PLAYER"},
                        S \in SUBSET Players}

\* Messages of one handler: out[c] is what it sends to client c, in order.
\* What is sent to a client that is gone is lost.
Send(out) ==
  toClient' = [c \in Clients |-> IF mode[c] = "closed" THEN toClient[c]
                                 ELSE toClient[c] \o out[c]]

Only(c, msgs)  == [d \in Clients |-> IF d = c THEN msgs ELSE <<>>]
Each(S, msgs)  == [d \in Clients |-> IF d \in S THEN msgs ELSE <<>>]

\* The clients a roster message goes to, and those a game message goes to.
Audience == {c \in Clients : peer[c] /\ (cplaying[c] # 0 \/ spectating[c] # 0)}
InGameToAll == {c \in Clients : peer[c] /\ (cplaying[c] # 0 \/ spectating[c] # 0)}
InGame   == {c \in Clients : peer[c] /\ (cplaying[c] # 0 \/ spectating[c] = 1)}

Taken       == {p \in Players : slot[p] # Free}
Owned(c)    == {p \in Taken : slot[p][1] = c}
Lowest(S)   == CHOOSE p \in S : \A q \in S : p <= q
FirstFree   == IF Taken = Players THEN -1 ELSE Lowest(Players \ Taken)

Request1(c) == Head(toServer[c])
Drained     == \A c \in Clients : Len(toClient[c]) <= MaxBacklog
Poll(c, t)  == /\ peer[c]
               /\ toServer[c] # <<>>
               /\ Request1(c).type = t
               /\ Drained
               /\ toServer' = [toServer EXCEPT ![c] = Tail(@)]

Init ==
  /\ state = "OFF"
  /\ slot = [p \in Players |-> Free]
  /\ player_count = 0
  /\ peer = [c \in Clients |-> FALSE]
  /\ cplaying = [c \in Clients |-> 0]
  /\ cmaster = [c \in Clients |-> FALSE]
  /\ spectating = [c \in Clients |-> 0]
  /\ mode = [c \in Clients |-> "closed"]
  /\ cstate = [c \in Clients |-> "OFF"]
  /\ port = [c \in Clients |-> [k \in Controllers |-> Unplugged]]
  /\ roster = [c \in Clients |-> {}]
  /\ locals = [c \in Clients |-> {}]
  /\ master = [c \in Clients |-> FALSE]
  /\ inMenu = [c \in Clients |-> TRUE]
  /\ toServer = [c \in Clients |-> <<>>]
  /\ toClient = [c \in Clients |-> <<>>]

-----------------------------------------------------------------------------
(* The server: joynet_handle_server_game_message.                          *)

HandleCheckId(c) ==
  /\ Poll(c, "CHECK_ID")
  /\ \/ Send(Only(c, <<Note("CHECK_ID")>>))
     \/ /\ "wrong_version" \in Behaviours
        /\ Send(Only(c, <<Note("CHECK_ID_FAIL")>>))
  /\ UNCHANGED <<serverVars, clientVars>>

HandleSpectateUnannounced(c) ==
  /\ Poll(c, "SPECTATE")
  /\ spectating' = [spectating EXCEPT ![c] = IF state = "OFF" THEN 1 ELSE 2]
  /\ Send(Only(c, <<Note("SPECTATE")>>))
  /\ UNCHANGED <<state, slot, player_count, peer, cplaying, cmaster, clientVars>>

HandleSpectate(c) ==
  /\ Poll(c, "SPECTATE")
  /\ spectating' = [spectating EXCEPT ![c] = IF state = "OFF" THEN 1 ELSE 2]
  /\ Send(Only(c, <<Note("SPECTATE")>> \o AboutSome("ADD_PLAYER", Taken)))
  /\ UNCHANGED <<state, slot, player_count, peer, cplaying, cmaster, clientVars>>

HandleLeave(c) ==
  /\ Poll(c, "LEAVE")
  /\ spectating' = [spectating EXCEPT ![c] = 0]
  /\ UNCHANGED <<state, slot, player_count, peer, cplaying, cmaster,
                 clientVars, toClient>>

\* The slot a CONNECT request asks for: a given one, or the first free one.
Seat(m) == IF m.player = -1 THEN FirstFree ELSE m.player

AcceptableTwice(c, m) == state = "OFF" /\ Seat(m) # -1

Acceptable(c, m) ==
  /\ state = "OFF"
  /\ \A p \in Taken : slot[p] # <<c, m.ctrl>>
  /\ Seat(m) # -1
  /\ slot[Seat(m)] = Free

HandleConnect(c) ==
  /\ Poll(c, "CONNECT")
  /\ cplaying[c] < MaxPlaying
  /\ LET m    == Request1(c)
         p    == Seat(m)
         mine == <<Request("CONNECT", m.ctrl, p)>>
                   \o (IF player_count = 0 THEN <<Note("ASSIGN_MASTER")>> ELSE <<>>)
                   \o <<About("ADD_PLAYER", Taken \cup {p})>>
     IN  /\ Acceptable(c, m)
         /\ slot' = [slot EXCEPT ![p] = <<c, m.ctrl>>]
         /\ cplaying' = [cplaying EXCEPT ![c] = @ + 1]
         /\ cmaster' = [cmaster EXCEPT ![c] = @ \/ player_count = 0]
         /\ player_count' = player_count + 1
         /\ Send([d \in Clients |-> IF d = c THEN mine
                                    ELSE IF d \in Audience
                                         THEN <<About("ADD_PLAYER", {p})>>
                                         ELSE <<>>])
  /\ UNCHANGED <<state, peer, spectating, clientVars>>

RefuseConnect(c) ==
  /\ Poll(c, "CONNECT")
  /\ ~Acceptable(c, Request1(c))
  /\ Send(Only(c, <<Note("CONNECT_FAIL")>>))
  /\ UNCHANGED <<serverVars, clientVars>>

\* Whoever owns the first taken slot, once the slots in gone are free.
HeirsIncludingGone(gone) == IF Taken \subseteq gone THEN {}
                            ELSE {slot[Lowest(Taken)][1]}

Heirs(gone) == IF Taken \subseteq gone THEN {}
               ELSE {slot[Lowest(Taken \ gone)][1]}

\* Mutation: a player that leaves while a game starts is not counted out.
CountInLobby(p) == IF p \in Taken /\ state = "OFF" THEN player_count - 1 ELSE player_count

CountWithout(p) == IF p \in Taken THEN player_count - 1 ELSE player_count

HandleDisconnect(c) ==
  /\ Poll(c, "DISCONNECT")
  /\ cplaying[c] > -MaxPlaying
  /\ LET m        == Request1(c)
         p        == m.player
         unmaster == cmaster[c] /\ Owned(c) \subseteq {p}
         heirs    == IF unmaster THEN Heirs({p}) ELSE {}
     IN  /\ slot' = [slot EXCEPT ![p] = Free]
         /\ player_count' = CountWithout(p)
         /\ cmaster' = [d \in Clients |-> d \in heirs
                                          \/ (cmaster[d] /\ ~(d = c /\ unmaster))]
         /\ Send([d \in Clients |->
                   (IF d = c THEN <<Request("DISCONNECT", m.ctrl, -1)>> ELSE <<>>)
                   \o (IF d \in heirs THEN <<Note("ASSIGN_MASTER")>> ELSE <<>>)
                   \o (IF d \in Audience THEN <<About("REMOVE_PLAYER", {p})>>
                                         ELSE <<>>)])
  /\ cplaying' = [cplaying EXCEPT ![c] = @ - 1]
  /\ UNCHANGED <<state, peer, spectating, clientVars>>

HandleOverflow(c) ==
  /\ Poll(c, "INPUT_OVERFLOW")
  /\ slot' = [p \in Players |-> IF p \in Owned(c) THEN Free ELSE slot[p]]
  /\ player_count' = player_count - Cardinality(Owned(c))
  /\ Send(Each(Audience, AboutSome("REMOVE_PLAYER", Owned(c))))
  /\ UNCHANGED <<state, peer, cplaying, cmaster, spectating, clientVars>>

\* START, PAUSE, RESUME: from one phase to the next, or without effect.
Advance(c, t, from, to, hearers) ==
  /\ Poll(c, t)
  /\ IF state = from THEN state' = to /\ Send(Each(hearers, <<Note(t)>>))
                     ELSE UNCHANGED <<state, toClient>>
  /\ UNCHANGED <<slot, player_count, peer, cplaying, cmaster, spectating, clientVars>>

HandleStart(c)  == Advance(c, "START", "OFF", "PLAYING", Audience)
HandlePause(c)  == Advance(c, "PAUSE", "PLAYING", "PAUSED", InGame)
HandleResume(c) == Advance(c, "RESUME", "PAUSED", "PLAYING", InGame)

HandleEnd(c) ==
  /\ Poll(c, "END")
  /\ state' = "OFF"
  /\ IF state = "OFF" THEN UNCHANGED <<spectating, toClient>>
     ELSE /\ Send(Each(InGame, <<Note("END")>>))
          /\ spectating' = [d \in Clients |-> IF spectating[d] = 2 THEN 1
                                              ELSE spectating[d]]
  /\ UNCHANGED <<slot, player_count, peer, cplaying, cmaster, clientVars>>

GoneIfSeveral(c) == IF cplaying[c] > 1 THEN Owned(c) ELSE {}
Gone(c)          == IF cplaying[c] # 0 THEN Owned(c) ELSE {}

\* ENET_EVENT_TYPE_DISCONNECT: joynet_poll_server, then the internal callback.
PeerDisconnect(c) ==
  /\ peer[c]
  /\ mode[c] = "closed" \/ "server_drop" \in Behaviours
  /\ Drained
  /\ LET gone   == Gone(c)
         left   == player_count - Cardinality(gone)
         ends   == left <= 0 /\ state # "OFF"
         heirs  == IF left > 0 /\ cmaster[c] THEN Heirs(gone) ELSE {}
     IN  /\ slot' = [p \in Players |-> IF p \in gone THEN Free ELSE slot[p]]
         /\ player_count' = left
         /\ state' = IF left <= 0 THEN "OFF" ELSE state
         /\ Send([d \in Clients |->
                   IF d = c THEN <<>>
                   ELSE (IF d \in Audience THEN AboutSome("REMOVE_PLAYER", gone)
                                           ELSE <<>>)
                        \o (IF ends /\ d \in InGame THEN <<Note("END")>> ELSE <<>>)
                        \o (IF d \in heirs THEN <<Note("ASSIGN_MASTER")>> ELSE <<>>)])
  /\ peer' = [peer EXCEPT ![c] = FALSE]
  /\ cplaying' = [cplaying EXCEPT ![c] = 0]
  /\ cmaster' = [cmaster EXCEPT ![c] = FALSE]
  /\ spectating' = [spectating EXCEPT ![c] = 0]
  /\ toServer' = [toServer EXCEPT ![c] = <<>>]
  /\ UNCHANGED clientVars


-----------------------------------------------------------------------------
(* A client: joynet_handle_client_game_message and then                     *)
(* pp2_game_channel_callback, for the first message under way to it.        *)

Received(c) == Head(toClient[c])
Receive(c, t) == /\ mode[c] # "closed"
                 /\ toClient[c] # <<>>
                 /\ Received(c).type = t
                 /\ toClient' = [toClient EXCEPT ![c] = Tail(@)]

\* enet_peer_send of a client: lost when the server has dropped the peer.
Put(c, m) == toServer' = [toServer EXCEPT ![c] = IF peer[c] THEN Append(@, m) ELSE @]

ReceiveCheckId(c) ==
  /\ Receive(c, "CHECK_ID")
  /\ mode' = [mode EXCEPT ![c] = "online"]
  /\ Put(c, Note("SPECTATE"))
  /\ UNCHANGED <<serverVars, cstate, port, roster, locals, master, inMenu>>

\* The client is destroyed; what it had sent may still reach the server.
ReceiveCheckIdFail(c) ==
  /\ mode[c] # "closed" /\ toClient[c] # <<>> /\ Received(c).type = "CHECK_ID_FAIL"
  /\ mode' = [mode EXCEPT ![c] = "closed"]
  /\ toClient' = [toClient EXCEPT ![c] = <<>>]
  /\ UNCHANGED <<serverVars, cstate, port, roster, locals, master, inMenu, toServer>>

ReceiveConnect(c) ==
  /\ Receive(c, "CONNECT")
  /\ port' = IF cstate[c] = "OFF"
             THEN [port EXCEPT ![c][Received(c).ctrl] = Received(c).player]
             ELSE port
  /\ UNCHANGED <<serverVars, mode, cstate, roster, locals, master, inMenu, toServer>>

OtherPlugged(c, k) == \E j \in Controllers \ {k} : port[c][j] # Unplugged

ReceiveDisconnect(c) ==
  /\ Receive(c, "DISCONNECT")
  /\ port' = [port EXCEPT ![c][Received(c).ctrl] = Unplugged]
  /\ master' = [master EXCEPT ![c] = @ /\ OtherPlugged(c, Received(c).ctrl)]
  /\ UNCHANGED <<serverVars, mode, cstate, roster, locals, inMenu, toServer>>

\* Players this client plays with one of its controllers.
Plugged(c) == {port[c][k] : k \in Controllers} \ {Unplugged}

ReceiveAddPlayer(c) ==
  /\ Receive(c, "ADD_PLAYER")
  /\ LET fresh == Received(c).players \ roster[c]
     IN  locals' = [locals EXCEPT ![c] = (@ \ fresh) \cup (fresh \cap Plugged(c))]
  /\ roster' = [roster EXCEPT ![c] = @ \cup Received(c).players]
  /\ UNCHANGED <<serverVars, mode, cstate, port, master, inMenu, toServer>>

ReceiveRemovePlayer(c) ==
  /\ Receive(c, "REMOVE_PLAYER")
  /\ roster' = [roster EXCEPT ![c] = @ \ Received(c).players]
  /\ inMenu' = [inMenu EXCEPT ![c] = @ \/ Received(c).players \cap locals[c] # {}]
  /\ UNCHANGED <<serverVars, mode, cstate, port, locals, master, toServer>>

ReceiveAssignMaster(c) ==
  /\ Receive(c, "ASSIGN_MASTER")
  /\ master' = [master EXCEPT ![c] = TRUE]
  /\ UNCHANGED <<serverVars, mode, cstate, port, roster, locals, inMenu, toServer>>

\* CONNECT_FAIL has no handler; SPECTATE sets a flag nothing reads.
ReceiveOther(c) ==
  /\ Receive(c, "CONNECT_FAIL") \/ Receive(c, "SPECTATE")
  /\ UNCHANGED <<serverVars, clientVars, toServer>>

ReceiveStart(c) ==
  /\ Receive(c, "START")
  /\ cstate' = [cstate EXCEPT ![c] = "PLAYING"]
  /\ \/ inMenu' = [inMenu EXCEPT ![c] = FALSE]
     \/ "init_fails" \in Behaviours /\ UNCHANGED inMenu
  /\ UNCHANGED <<serverVars, mode, port, roster, locals, master, toServer>>

ReceivePause(c) ==
  /\ Receive(c, "PAUSE")
  /\ cstate' = [cstate EXCEPT ![c] = "PAUSED"]
  /\ UNCHANGED <<serverVars, mode, port, roster, locals, master, inMenu, toServer>>

ReceiveResume(c) ==
  /\ Receive(c, "RESUME")
  /\ cstate' = [cstate EXCEPT ![c] = "PLAYING"]
  /\ UNCHANGED <<serverVars, mode, port, roster, locals, master, inMenu, toServer>>

\* end_game_option: to a menu (QUIT, NEW); or stay, and the master starts the
\* next game at once (REMATCH, PLAY_AGAIN).
ReceiveEnd(c) ==
  /\ Receive(c, "END")
  /\ cstate' = [cstate EXCEPT ![c] = "OFF"]
  /\ \/ /\ inMenu' = [inMenu EXCEPT ![c] = TRUE]
        /\ UNCHANGED toServer
     \/ /\ Len(toServer[c]) <= MaxRequests
        /\ UNCHANGED inMenu
        /\ IF master[c] THEN Put(c, Note("START")) ELSE UNCHANGED toServer
  /\ UNCHANGED <<serverVars, mode, port, roster, locals, master>>

ClientPoll(c) ==
  \/ ReceiveCheckId(c) \/ ReceiveCheckIdFail(c) \/ ReceiveConnect(c)
  \/ ReceiveDisconnect(c) \/ ReceiveAddPlayer(c) \/ ReceiveRemovePlayer(c)
  \/ ReceiveAssignMaster(c) \/ ReceiveOther(c) \/ ReceiveStart(c)
  \/ ReceivePause(c) \/ ReceiveResume(c) \/ ReceiveEnd(c)

-----------------------------------------------------------------------------
(* The user of a client and its game loop.                                  *)

Ask(c, m) == /\ mode[c] = "online"
             /\ Len(toServer[c]) < MaxRequests
             /\ Put(c, m)
             /\ UNCHANGED <<serverVars, clientVars, toClient>>

\* ENET_EVENT_TYPE_CONNECT at the server, and joynet_connect_to_game_server.
Connect(c) ==
  /\ mode[c] = "closed" /\ ~peer[c] /\ inMenu[c]
  /\ peer' = [peer EXCEPT ![c] = TRUE]
  /\ cplaying' = [cplaying EXCEPT ![c] = 0]
  /\ cmaster' = [cmaster EXCEPT ![c] = FALSE]
  /\ spectating' = [spectating EXCEPT ![c] = 0]
  /\ mode' = [mode EXCEPT ![c] = "checking"]
  /\ port' = [port EXCEPT ![c] = [k \in Controllers |-> Unplugged]]
  /\ roster' = [roster EXCEPT ![c] = {}]
  /\ master' = [master EXCEPT ![c] = FALSE]
  /\ toServer' = [toServer EXCEPT ![c] = <<Note("CHECK_ID")>>]
  /\ toClient' = [toClient EXCEPT ![c] = <<>>]
  /\ UNCHANGED <<state, slot, player_count, cstate, locals, inMenu>>

\* The player setup screen: fire joins, jump leaves.
Join(c, k) == /\ inMenu[c] /\ cstate[c] # "PAUSED"
              /\ port[c][k] = Unplugged
              /\ Ask(c, Request("CONNECT", k, -1))

\* ... before gp->client is set: joynet_connect_to_game plays locally.
EarlyJoin(c, k) ==
  /\ "early_join" \in Behaviours
  /\ mode[c] = "checking" /\ inMenu[c]
  /\ port[c][k] = Unplugged
  /\ Players \ roster[c] # {}
  /\ LET p == Lowest(Players \ roster[c])
     IN  /\ roster' = [roster EXCEPT ![c] = @ \cup {p}]
         /\ locals' = [locals EXCEPT ![c] = @ \cup {p}]
         /\ port' = [port EXCEPT ![c][k] = p]
  /\ UNCHANGED <<serverVars, mode, cstate, master, inMenu, toServer, toClient>>

Answering(c, k) ==
  \/ \E i \in 1 .. Len(toServer[c]) :
        toServer[c][i].type = "DISCONNECT" /\ toServer[c][i].ctrl = k
  \/ \E i \in 1 .. Len(toClient[c]) :
        toClient[c][i].type = "DISCONNECT" /\ toClient[c][i].ctrl = k

Back(c, k) ==
  /\ "back" \in Behaviours
  /\ inMenu[c] /\ cstate[c] # "PAUSED"
  /\ port[c][k] # Unplugged
  /\ "repeat_back" \in Behaviours \/ ~Answering(c, k)
  /\ Ask(c, Request("DISCONNECT", k, port[c][k]))

Start(c)  == master[c] /\ cstate[c] = "OFF" /\ inMenu[c] /\ Ask(c, Note("START"))
Pause(c)  == master[c] /\ cstate[c] = "PLAYING" /\ ~inMenu[c] /\ Ask(c, Note("PAUSE"))
\* From the menu of a paused game (and of a finished one, which pauses first).
Resume(c) == master[c] /\ cstate[c] = "PAUSED" /\ Ask(c, Note("RESUME"))
End(c)    == master[c] /\ cstate[c] = "PAUSED" /\ Ask(c, Note("END"))

StopWatching(c) == "stop_watching" \in Behaviours /\ Ask(c, Note("LEAVE"))

\* joynet_write_input_buffer_frame fills the buffer beyond max_buffer_frames.
FallBehind(c) == /\ "overflow" \in Behaviours
                 /\ cstate[c] = "PLAYING"
                 /\ Ask(c, Note("INPUT_OVERFLOW"))

\* joynet_disconnect_from_game_server: what is not sent yet is dropped.
Leave(c) ==
  /\ "leave" \in Behaviours
  /\ mode[c] # "closed" /\ inMenu[c]
  /\ mode' = [mode EXCEPT ![c] = "closed"]
  /\ port' = [port EXCEPT ![c] = [k \in Controllers |-> Unplugged]]
  /\ roster' = [roster EXCEPT ![c] = {}]
  /\ master' = [master EXCEPT ![c] = FALSE]
  /\ \E n \in 0 .. Len(toServer[c]) : toServer' = [toServer EXCEPT ![c] = SubSeq(@, 1, n)]
  /\ toClient' = [toClient EXCEPT ![c] = <<>>]
  /\ UNCHANGED <<serverVars, cstate, locals, inMenu>>

\* ENET_EVENT_TYPE_DISCONNECT at the client: pp2_client_callback.  The server
\* has dropped the peer, or the connection broke.
ClientLost(c) ==
  /\ "drop" \in Behaviours \/ ~peer[c]
  /\ mode[c] # "closed"
  /\ mode' = [mode EXCEPT ![c] = "closed"]
  /\ cstate' = [cstate EXCEPT ![c] = "OFF"]
  /\ port' = [port EXCEPT ![c] = [k \in Controllers |-> Unplugged]]
  /\ roster' = [roster EXCEPT ![c] = {}]
  /\ master' = [master EXCEPT ![c] = FALSE]
  /\ inMenu' = [inMenu EXCEPT ![c] = TRUE]
  /\ \E n \in 0 .. Len(toServer[c]) : toServer' = [toServer EXCEPT ![c] = SubSeq(@, 1, n)]
  /\ toClient' = [toClient EXCEPT ![c] = <<>>]
  /\ UNCHANGED <<serverVars, locals>>

User(c) ==
  \/ Connect(c) \/ Start(c) \/ Pause(c) \/ Resume(c) \/ End(c)
  \/ StopWatching(c) \/ FallBehind(c) \/ Leave(c) \/ ClientLost(c)
  \/ \E k \in Controllers : Join(c, k) \/ EarlyJoin(c, k) \/ Back(c, k)

ServerPoll(c) ==
  \/ HandleCheckId(c) \/ HandleSpectate(c) \/ HandleLeave(c)
  \/ HandleConnect(c) \/ RefuseConnect(c) \/ HandleDisconnect(c)
  \/ HandleOverflow(c) \/ HandleStart(c) \/ HandlePause(c) \/ HandleResume(c)
  \/ HandleEnd(c)

Next == \E c \in Clients : ServerPoll(c) \/ PeerDisconnect(c) \/ ClientPoll(c) \/ User(c)

(* Both programs poll ENet every tick, and ENet reports a closed connection *)
(* (by its disconnect packet or its timeout).  The server never waits for   *)
(* a client: only the bound MaxBacklog makes it wait, and the fairness is   *)
(* strong so that this does not cost it its turn.  Users may stop for good. *)
Fairness == \A c \in Clients :
  /\ SF_vars(ServerPoll(c))
  /\ WF_vars(ClientPoll(c))
  /\ SF_vars(mode[c] = "closed" /\ PeerDisconnect(c))
  /\ WF_vars(~peer[c] /\ ClientLost(c))

(* What the server promises about the lobby alone.                          *)
Lobby == INSTANCE GameLobby WITH phase <- state, seats <- slot
LobbySpec == Lobby!Spec

Spec     == Init /\ [][Next]_vars
FairSpec == Spec /\ Fairness

-----------------------------------------------------------------------------
(* Every variable keeps its type; in particular no count of the server goes *)
(* wrong by type, and the ports of a client are player slots.               *)
TypeOK ==
  /\ state \in Phases
  /\ slot \in [Players -> (Clients \X Controllers) \cup {Free}]
  /\ player_count \in 0 .. NumPlayers
  /\ peer \in [Clients -> BOOLEAN]
  /\ cplaying \in [Clients -> Int]
  /\ cmaster \in [Clients -> BOOLEAN]
  /\ spectating \in [Clients -> {0, 1, 2}]
  /\ mode \in [Clients -> {"closed", "checking", "online"}]
  /\ cstate \in [Clients -> Phases]
  /\ port \in [Clients -> [Controllers -> Players \cup {Unplugged}]]
  /\ roster \in [Clients -> SUBSET Players]
  /\ locals \in [Clients -> SUBSET Players]
  /\ master \in [Clients -> BOOLEAN]
  /\ inMenu \in [Clients -> BOOLEAN]
  /\ toServer \in [Clients -> Seq(ToServerMessage)]
  /\ toClient \in [Clients -> Seq(ToClientMessage)]

(* player_count is kept by increments in four handlers; it decides who is   *)
(* made master, the size of the input frames and when a game without        *)
(* players ends.  It never drifts from the slots themselves.                *)
CountIsRoster == player_count = Cardinality(Taken)

(* client[c]->playing, kept by increments too, counts the slots c owns.     *)
(* Hence no slot outlives its owner: PeerDisconnect frees the slots of a    *)
(* client only when this counter is not 0.                                  *)
SeatsAccounted == \A c \in Clients : cplaying[c] = Cardinality(Owned(c))

(* However clients come and go, no two of them are master at the same time: *)
(* the handlers of CONNECT and DISCONNECT and the callback for a closed     *)
(* connection each hand the part on by themselves.                          *)
OneMaster == \A c, d \in Clients : cmaster[c] /\ cmaster[d] => c = d

(* The master of a game that goes on is one connected client with a player, *)
(* and no other client is master.                                           *)
MasterUnique ==
  /\ OneMaster
  /\ Taken # {} => \E c \in Clients : cmaster[c] /\ Owned(c) # {}

\* What is under way about player p ends with ADD_PLAYER, or with nothing and
\* p is in the roster already.
Changes(c, p) == {i \in 1 .. Len(toClient[c]) :
                   /\ toClient[c][i].type \in {"ADD_PLAYER", "REMOVE_PLAYER"}
                   /\ p \in toClient[c][i].players}
KnownTo(c, p) ==
  IF Changes(c, p) = {} THEN p \in roster[c]
  ELSE \E i \in Changes(c, p) : /\ \A j \in Changes(c, p) : j <= i
                               /\ toClient[c][i].type = "ADD_PLAYER"

(* Players and spectators are told of every change of the roster, in an     *)
(* order that leaves them with the server's roster: whatever is under way,  *)
(* the roster of a client that has read it is the server's.                 *)
RosterConverges ==
  \A c \in Audience : mode[c] = "online" =>
    \A p \in Players : KnownTo(c, p) <=> p \in Taken

\* A client that has read all that was sent to it.
Settled(c) == mode[c] = "online" /\ peer[c] /\ toClient[c] = <<>>

(* A settled client's controllers are plugged into exactly the slots the    *)
(* server gave it, the right controller in each, and the players it takes   *)
(* for local are those: nobody else steers them, nobody steers another's.   *)
ControlAgreement ==
  \A c \in Clients : Settled(c) =>
    /\ \A k \in Controllers, p \in Players :
         port[c][k] = p <=> slot[p] = <<c, k>>
    /\ c \in Audience => roster[c] \cap locals[c] = Owned(c)

(* A settled client knows whether it is the master.                         *)
MasterKnown == \A c \in Clients : Settled(c) => master[c] = cmaster[c]

(* A settled client that takes part is in the server's phase.               *)
PhaseAgreement == \A c \in InGame : Settled(c) => cstate[c] = state

(* The game has one master while somebody plays, and once messages have     *)
(* arrived a client and the server agree on who has which seat, on who is   *)
(* master and on the phase of the game: the handlers of both programs keep  *)
(* this between them, whatever crosses on the wire.                         *)
SettledAgreement == MasterUnique /\ ControlAgreement /\ MasterKnown /\ PhaseAgreement

(* Input, pauses and resumes use the input buffer START creates and END     *)
(* destroys: none reaches a client that is not in a game.                   *)
BufferWhenNeeded ==
  \A c \in Clients :
    /\ mode[c] # "closed" /\ toClient[c] # <<>>
    /\ Received(c).type \in {"PAUSE", "RESUME"}
    => cstate[c] # "OFF"

(* No player joins, and no slot changes hands, while a game is on.          *)
NoJoinInProgress ==
  [][state # "OFF" => \A p \in Players : slot'[p] \in {slot[p], Free}]_vars

(* A seat whose client is gone is freed, so the game can fill up again.     *)
SeatsReclaimed == \A c \in Clients :
  mode[c] = "closed" ~> (mode[c] # "closed" \/ Owned(c) = {})

(* When a game starts every client with a player gets to play it, unless    *)
(* the game stops or the client loses its player first.                     *)
EveryoneStarts == \A c \in Clients :
  (state = "PLAYING" /\ Owned(c) # {}) ~>
     (state # "PLAYING" \/ Owned(c) = {} \/ mode[c] = "closed" \/ cstate[c] = "PLAYING")
=============================================================================
