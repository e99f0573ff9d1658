------------------------------ MODULE Lockstep ------------------------------
(***************************************************************************)
(* A game that is on, tick by tick.  Each client sends the buttons of its  *)
(* players to the server once a tick; the server puts together one frame   *)
(* of everybody's buttons once a tick and sends it to every client that    *)
(* takes part; each client queues the frames and lets the game run a tick  *)
(* for each.  The clients' games only agree if all run the same ticks with *)
(* the same buttons.                                                       *)
(*                                                                         *)
(* A frame is what the code sends: the bits of the players that play, in   *)
(* the order of their slots, without their names; whoever decodes it uses  *)
(* its own roster.  Who may start, pause and end is in JoynetSession; the  *)
(* order in which one client encodes its controllers is in InputCodec; the *)
(* ring behind the queue is in InputBuffer.                                *)
(***************************************************************************)
EXTENDS Integers, Sequences, FiniteSets

CONSTANTS
  Clients,     \* the clients in the game; those who own no player spectate
  NumPlayers,  \* players the game started with
  Owner,       \* the client of each player
  MaxBuffer,   \* max_buffer_frames of the clients
  MaxFrames,   \* PP2_SETTING_NETWORK_MAX_FRAMES
  Behaviours,  \* which of AllBehaviours happen
  MaxTicks,    \* bound: frames the server issues
  MaxPress,    \* bound: changes of each player's buttons
  MaxInputs,   \* bound: messages a client has under way when it sends INPUT
  MaxBacklog   \* bound: messages under way to a client at a PAUSE, RESUME or END

(***************************************************************************)
(* "pause"  the master pauses and resumes the game                         *)
(* "end"    the master ends the game                                       *)
(* "drop"   a client's connection ends, and its players are removed        *)
(***************************************************************************)
AllBehaviours == {"pause", "end", "drop"}

Players == 0 .. NumPlayers - 1

ASSUME LockstepAssumption ==
  /\ NumPlayers \in Nat \ {0}
  /\ Owner \in [Players -> Clients]
  /\ Behaviours \subseteq AllBehaviours
  /\ MaxBuffer \in Nat \ {0}
  /\ {MaxFrames, MaxTicks, MaxPress, MaxInputs, MaxBacklog} \subseteq Nat

\* <<p, n>> is what player p's user holds down after its n-th change; Idle is
\* no button.
Idle    == <<-1, 0>>
Buttons == {Idle} \cup (Players \X (1 .. MaxPress))

VARIABLES
  sstate,   \* server: joynet_current_server_game->state, DEAD if it crashed
  playing,  \* server: players p with player[p]->playing
  held,     \* server: player_controller[p]->bits[0]
  online,   \* the client's connection and program live
  pressed,  \* the buttons that p's user holds down
  cstate,   \* client: state of the game
  ticking,  \* client: pp2 runs the game rather than a menu
  roster,   \* client: players p with player[p]->playing
  buffer,   \* client: cells of the input buffer from reader to writer
  frames,   \* client: the buffer's counter of frames
  toServer, toClient,
  issued,   \* history: the buttons in each frame the server sent
  done      \* history: the buttons each client's game ran each tick with

serverVars == <<sstate, playing, held>>
clientVars == <<cstate, ticking, roster, buffer, frames>>
vars == <<serverVars, online, pressed, clientVars, toServer, toClient, issued, done>>

-----------------------------------------------------------------------------
Mine(c) == {p \in Players : Owner[p] = c}

\* Bits of the players in S, in the order of the slots; and back.
Rank(S, p)      == Cardinality({q \in S : q <= p})
Encode(S, bits) == [i \in 1 .. Cardinality(S) |-> bits[CHOOSE p \in S : Rank(S, p) = i]]
Decode(S, data) == [p \in S |-> data[Rank(S, p)]]

Input(data) == [type |-> "INPUT", data |-> data]
Note(t)     == [type |-> t]
Remove(p)   == [type |-> "REMOVE_PLAYER", player |-> p]

\* The players in S are removed one by one, in the order of their slots.
Removals(S) == [i \in 1 .. Cardinality(S) |-> Remove(CHOOSE p \in S : Rank(S, p) = i)]

Broadcast(ms) == toClient' = [c \in Clients |-> IF online[c] THEN toClient[c] \o ms
                                                ELSE toClient[c]]

\* START has reached everybody.
Init ==
  /\ sstate = "PLAYING"
  /\ playing = Players
  /\ held = [p \in Players |-> Idle]
  /\ online = [c \in Clients |-> TRUE]
  /\ pressed = [p \in Players |-> Idle]
  /\ cstate = [c \in Clients |-> "PLAYING"]
  /\ ticking = [c \in Clients |-> TRUE]
  /\ roster = [c \in Clients |-> Players]
  /\ buffer = [c \in Clients |-> <<>>]
  /\ frames = [c \in Clients |-> 0]
  /\ toServer = [c \in Clients |-> <<>>]
  /\ toClient = [c \in Clients |-> <<>>]
  /\ issued = <<>>
  /\ done = [c \in Clients |-> <<>>]

-----------------------------------------------------------------------------
(* The server.                                                              *)

\* joynet_update_game_server, once a tick.
ServerTick ==
  /\ sstate = "PLAYING"
  /\ Len(issued) < MaxTicks
  /\ Broadcast(<<Input(Encode(playing, held))>>)
  /\ issued' = Append(issued, [p \in playing |-> held[p]])
  /\ UNCHANGED <<serverVars, online, pressed, clientVars, toServer, done>>

Poll(c, t) == /\ sstate # "DEAD"
              /\ toServer[c] # <<>>
              /\ Head(toServer[c]).type = t
              /\ toServer' = [toServer EXCEPT ![c] = Tail(@)]

\* The bits of a client's controllers, in the order of its slots.  The frames
\* are counted in the input buffer, which is gone once the game has ended.
HandleInputAnyones(c) ==
  /\ Poll(c, "INPUT")
  /\ LET data == Head(toServer[c]).data
     IN  held' = [p \in Players |-> IF p \in playing /\ Rank(playing, p) <= Len(data)
                                    THEN Decode(playing, data)[p] ELSE held[p]]
  /\ UNCHANGED <<sstate, playing, online, pressed, clientVars, toClient, issued, done>>

HandleInput(c) ==
  /\ Poll(c, "INPUT")
  /\ LET S == playing \cap Mine(c)
         new == Decode(S, Head(toServer[c]).data)
     IN  /\ held' = [p \in Players |-> IF p \in S THEN new[p] ELSE held[p]]
         /\ sstate' = IF sstate = "OFF" /\ S # {} THEN "DEAD" ELSE sstate
  /\ UNCHANGED <<playing, online, pressed, clientVars, toClient, issued, done>>

HandleOverflowFirst(c) ==
  /\ Poll(c, "INPUT_OVERFLOW")
  /\ LET mine == playing \cap Mine(c)
         S == {p \in mine : \A q \in mine : p <= q}
     IN  /\ playing' = playing \ S
         /\ Broadcast(Removals(S))
  /\ UNCHANGED <<sstate, held, online, pressed, clientVars, issued, done>>

\* INPUT_OVERFLOW: all players of the client are taken out.
HandleOverflow(c) ==
  /\ Poll(c, "INPUT_OVERFLOW")
  /\ LET S == playing \cap Mine(c)
     IN  /\ playing' = playing \ S
         /\ Broadcast(Removals(S))
  /\ UNCHANGED <<sstate, held, online, pressed, clientVars, issued, done>>

\* The connection of a client ends; when no player is left so does the game.
Drop(c) ==
  /\ "drop" \in Behaviours
  /\ online[c] /\ sstate # "DEAD"
  /\ online' = [online EXCEPT ![c] = FALSE]
  /\ LET S == playing \cap Mine(c)
         ends == playing \subseteq S /\ sstate \in {"PLAYING", "PAUSED"}
     IN  /\ playing' = playing \ S
         /\ sstate' = IF ends THEN "OFF" ELSE sstate
         /\ toClient' = [d \in Clients |->
              IF d = c \/ ~online[d] THEN toClient[d]
              ELSE toClient[d] \o Removals(S)
                               \o (IF ends THEN <<Note("END")>> ELSE <<>>)]
  /\ toServer' = [toServer EXCEPT ![c] = <<>>]
  /\ UNCHANGED <<held, pressed, clientVars, issued, done>>

\* The handlers of PAUSE, RESUME and END, at the master's request.
Turn(from, to, t) ==
  /\ sstate \in from
  /\ \A c \in Clients : Len(toClient[c]) <= MaxBacklog
  /\ sstate' = to
  /\ Broadcast(<<Note(t)>>)
  /\ UNCHANGED <<playing, held, online, pressed, clientVars, toServer, issued, done>>

Pause  == "pause" \in Behaviours /\ Turn({"PLAYING"}, "PAUSED", "PAUSE")
Resume == "pause" \in Behaviours /\ Turn({"PAUSED"}, "PLAYING", "RESUME")
End    == "end" \in Behaviours /\ Turn({"PLAYING", "PAUSED"}, "OFF", "END")

-----------------------------------------------------------------------------
(* A client.                                                                *)

Receive(c, t) == /\ online[c]
                 /\ toClient[c] # <<>>
                 /\ Head(toClient[c]).type = t
                 /\ toClient' = [toClient EXCEPT ![c] = Tail(@)]

\* A frame goes into the buffer; beyond max_buffer_frames the client says so.
ReceiveInput(c) ==
  /\ Receive(c, "INPUT")
  /\ buffer' = [buffer EXCEPT ![c] = Append(@, Head(toClient[c]).data)]
  /\ frames' = [frames EXCEPT ![c] = @ + 1]
  /\ toServer' = IF frames[c] + 1 > MaxBuffer
                 THEN [toServer EXCEPT ![c] = Append(@, Note("INPUT_OVERFLOW"))]
                 ELSE toServer
  /\ UNCHANGED <<serverVars, online, pressed, cstate, ticking, roster, issued, done>>

\* While the game runs the buffer is replaced by one of smaller frames.  Its
\* cells are written with zeroes, and they do not count: frames starts at 0.
BlankFrame(S) == [i \in 1 .. Cardinality(S) |-> Idle]
Resized(c, S) == [i \in 1 .. frames[c] |-> BlankFrame(S)]

ReceiveRemove(c) ==
  /\ Receive(c, "REMOVE_PLAYER")
  /\ LET gone == Head(toClient[c]).player
         left == roster[c] \ {gone}
     IN  /\ roster' = [roster EXCEPT ![c] = left]
         /\ ticking' = [ticking EXCEPT ![c] = @ /\ gone \notin Mine(c)]
         /\ IF cstate[c] = "PLAYING" /\ gone \in roster[c]
            THEN /\ buffer' = [buffer EXCEPT ![c] = Resized(c, left)]
                 /\ frames' = [frames EXCEPT ![c] = 0]
            ELSE UNCHANGED <<buffer, frames>>
  /\ UNCHANGED <<serverVars, online, pressed, cstate, toServer, issued, done>>

\* PAUSE and RESUME empty the buffer, END destroys it.
Enter(c, t, to) ==
  /\ Receive(c, t)
  /\ cstate' = [cstate EXCEPT ![c] = to]
  /\ buffer' = [buffer EXCEPT ![c] = <<>>]
  /\ frames' = [frames EXCEPT ![c] = 0]
  /\ UNCHANGED <<serverVars, online, pressed, ticking, roster, toServer, issued, done>>

ReceivePause(c)  == Enter(c, "PAUSE", "PAUSED")
ReceiveResume(c) == Enter(c, "RESUME", "PLAYING")
ReceiveEnd(c)    == Enter(c, "END", "OFF")

\* The user of player p changes the buttons it holds down.
Press(p) ==
  /\ pressed[p][2] < MaxPress
  /\ pressed' = [pressed EXCEPT ![p] = <<p, @[2] + 1>>]
  /\ UNCHANGED <<serverVars, online, clientVars, toServer, toClient, issued, done>>

\* Ticks of the game in one step of the program: one, or all that wait when
\* there are many.
TicksUnlessLast(n) == IF n < MaxFrames THEN (IF n > 1 THEN 1 ELSE 0) ELSE n
Ticks(n) == IF n > 0 /\ n < MaxFrames THEN 1 ELSE n

CellNewest(c, i) == buffer[c][Len(buffer[c]) + 1 - i]

\* The i-th cell to read; beyond MaxBuffer newer frames overwrote the oldest.
Cell(c, i) == LET L == Len(buffer[c])
              IN  buffer[c][i + ((L - i) \div MaxBuffer) * MaxBuffer]

\* pp2_game_logic: send the buttons, then run the ticks of the game.
ClientTick(c) ==
  /\ online[c] /\ ticking[c] /\ cstate[c] = "PLAYING"
  /\ LET n == Ticks(frames[c])
     IN  /\ done' = [done EXCEPT ![c] =
                       @ \o [i \in 1 .. n |-> Decode(roster[c], Cell(c, i))]]
         /\ buffer' = [buffer EXCEPT ![c] = SubSeq(@, n + 1, Len(@))]
         /\ frames' = [frames EXCEPT ![c] = @ - n]
         /\ n > 0 \/ Mine(c) # {}
  /\ IF Len(toServer[c]) < MaxInputs
     THEN toServer' = [toServer EXCEPT ![c] = Append(@, Input(Encode(Mine(c), pressed)))]
     ELSE UNCHANGED toServer
  /\ UNCHANGED <<serverVars, online, pressed, cstate, ticking, roster, toClient, issued>>

ServerPoll(c) == HandleInput(c) \/ HandleOverflow(c)
ClientPoll(c) == \/ ReceiveInput(c) \/ ReceiveRemove(c) \/ ReceivePause(c)
                 \/ ReceiveResume(c) \/ ReceiveEnd(c)

Next ==
  \/ ServerTick \/ Pause \/ Resume \/ End
  \/ \E p \in Players : Press(p)
  \/ \E c \in Clients : ServerPoll(c) \/ Drop(c) \/ ClientPoll(c) \/ ClientTick(c)

\* Server and clients run 60 ticks a second and poll ENet before each.
Fairness == \A c \in Clients : /\ WF_vars(ServerPoll(c))
                               /\ WF_vars(ClientPoll(c))
                               /\ WF_vars(ClientTick(c))

Spec     == Init /\ [][Next]_vars
FairSpec == Spec /\ Fairness

-----------------------------------------------------------------------------
TypeOK ==
  /\ sstate \in {"PLAYING", "PAUSED", "OFF", "DEAD"}
  /\ playing \subseteq Players
  /\ held \in [Players -> Buttons] /\ pressed \in [Players -> Buttons]
  /\ online \in [Clients -> BOOLEAN] /\ ticking \in [Clients -> BOOLEAN]
  /\ cstate \in [Clients -> {"PLAYING", "PAUSED", "OFF"}]
  /\ roster \in [Clients -> SUBSET Players]
  /\ \A c \in Clients : frames[c] \in 0 .. Len(buffer[c])

Same(ran, sent) == \A p \in DOMAIN ran : p \in DOMAIN sent /\ ran[p] = sent[p]

(* Whatever the delays, the ticks a client's game has run are the first     *)
(* ticks of the server's game, each with the very same buttons; so two      *)
(* clients that have run as many ticks are in the same state of the game.   *)
SameTicks ==
  \A c \in Clients : /\ Len(done[c]) <= Len(issued)
                     /\ \A i \in 1 .. Len(done[c]) : Same(done[c][i], issued[i])

(* Pauses and removals of players may cost a client frames that it alone    *)
(* had not run, or blank them; but what it runs it runs in the server's     *)
(* order, no frame twice, with the server's buttons or with none at all.    *)
TicksInOrder ==
  LET Blank(ran) == \A p \in DOMAIN ran : ran[p] = Idle IN
  \A c \in Clients :
    \E at \in [1 .. Len(done[c]) -> 1 .. Len(issued)] :
      /\ \A i, j \in DOMAIN at : i < j => at[i] < at[j]
      /\ \A i \in DOMAIN at : Same(done[c][i], issued[at[i]]) \/ Blank(done[c][i])

(* No frame is ever decoded with the wrong roster: what moves player p, at  *)
(* the server and at every client, is nothing or what p's user pressed.     *)
OwnInput ==
  LET Own(p) == {Idle} \cup ({p} \X (1 .. MaxPress)) IN
  /\ \A p \in Players : held[p] \in Own(p)
  /\ \A c \in Clients : \A i \in 1 .. Len(done[c]) :
       \A p \in DOMAIN done[c][i] : done[c][i][p] \in Own(p)

(* A client too far behind loses its players, so that the others are rid of *)
(* players that stand still.                                                *)
LaggardLeaves ==
  \A c \in Clients : (online[c] /\ frames[c] > MaxBuffer) ~> playing \cap Mine(c) = {}

(* Every frame the server has sent is run by every client in the end,       *)
(* unless the game ends first.                                              *)
CatchesUp ==
  \A c \in Clients : \A n \in 1 .. MaxTicks :
    (Len(issued) = n) ~> (Len(done[c]) >= n \/ sstate # "PLAYING")
=============================================================================
