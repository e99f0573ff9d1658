------------------------------- MODULE Setup -------------------------------
(***************************************************************************)
(* How a player gets ready: it picks a profile and a character.  A client  *)
(* sets the step of its player and tells the server, which passes it on to *)
(* everyone, the client itself included: the echo then overwrites whatever *)
(* the player has done since.  One slot is modelled; which levels and      *)
(* characters there are is Content's.                                      *)
(***************************************************************************)
EXTENDS Naturals, Sequences

CONSTANTS
  Clients,
  Master,      \* the client in charge; it plays in another slot
  LeftAt,      \* the steps the slot's last player can have left it at
  Rules,       \* what the options of a game can be
  MaxKeys,     \* bound: keys pressed
  MaxJoins     \* bound: connections and players

VARIABLES
  seat,      \* server: whose player is in the slot
  kept,      \* server_option of the slot, kept for its next player
  rulesKept, \* server_option of the game
  phase,     \* server: state
  watching,  \* server: clients that get the messages of the game
  port,      \* client: its controller has the slot
  playing,   \* client: the slot is taken
  local,     \* client: by a player of its own
  step,      \* client
  rules,     \* client: option
  began,     \* client: the rules it has started the game with
  up, down,  \* messages to and from the server
  keys, joins,
  hasty      \* history: a key was pressed between the messages that seat a player

server == <<seat, kept, rulesKept, phase, watching>>
client == <<port, playing, local, step, rules, began>>
vars   == <<server, client, up, down, keys, joins, hasty>>

Nobody == "none"
None   == "unknown"
Steps  == {"PROFILE", "PROFILED", "WAIT", "FOUND", "DONE"}

Msg(type, x) == [type |-> type, arg |-> x]

Init ==
  /\ seat = Nobody /\ kept \in LeftAt /\ rulesKept \in Rules \cup {None}
  /\ phase = "OFF" /\ watching = {Master}
  /\ port = [c \in Clients |-> FALSE] /\ playing = port /\ local = port
  /\ step = [c \in Clients |-> "PROFILE"] /\ rules \in {f \in [Clients -> Rules] : f[Master] = CHOOSE r \in Rules : TRUE}
  /\ began = [c \in Clients |-> None]
  /\ up = [c \in Clients |-> <<>>] /\ down = up /\ keys = 0 /\ joins = 0
  /\ hasty = FALSE

-----------------------------------------------------------------------------
(***************************************************************************)
(* What the player does.                                                   *)
(***************************************************************************)

\* joynet_update_player_options: of a player of its own, the server is told.
Told(c, s) == IF local[c] THEN <<Msg("STEP", s)>> ELSE <<>>

Press(c) == keys < MaxKeys /\ began[c] = None /\ keys' = keys + 1

\* joynet_watch_game and the server's answer.
Watch(c) ==
  /\ c \notin watching /\ down[c] = <<>> /\ up[c] = <<>> /\ joins < MaxJoins
  /\ watching' = watching \cup {c} /\ joins' = joins + 1
  /\ down' = [down EXCEPT ![c] = IF seat = Nobody THEN <<>>
                                 ELSE <<Msg("ADD", 0), Msg("STEP", kept)>>]
  /\ UNCHANGED <<seat, kept, rulesKept, phase, client, up, keys, hasty>>

AskToJoin(c) ==
  /\ c \in watching /\ ~port[c] /\ began[c] = None /\ joins < MaxJoins /\ joins' = joins + 1
  /\ up' = [up EXCEPT ![c] = Append(@, Msg("JOIN", 0))]
  /\ UNCHANGED <<server, client, down, keys, hasty>>

\* A key that leads from one step to the next.
Turn(c, from, to, also) ==
  /\ Press(c) /\ port[c] /\ step[c] \in from
  /\ step' = [step EXCEPT ![c] = to]
  /\ up' = [up EXCEPT ![c] = @ \o Told(c, to) \o also]
  /\ hasty' = (hasty \/ ~local[c])
  /\ UNCHANGED <<server, port, playing, local, rules, began, down, joins>>

\* pp2_player_setup_logic: fire, jump, and left, right or up.
Fire(c)   == \/ Turn(c, {"PROFILE"}, "PROFILED", <<>>)
             \/ Turn(c, {"FOUND"}, "DONE", <<>>)
Jump(c)   == \/ Turn(c, {"WAIT", "FOUND"}, "PROFILE", <<>>)
             \/ Turn(c, {"DONE"}, "FOUND", <<>>)
Choose(c) == Turn(c, {"WAIT", "FOUND"}, "WAIT", <<Msg("SELECT", 0)>>)

\* Jump, before a profile is chosen: joynet_disconnect_from_game.
AskToLeave(c) ==
  /\ Press(c) /\ port[c] /\ step[c] = "PROFILE"
  /\ up' = [up EXCEPT ![c] = Append(@, Msg("LEAVE", 0))]
  /\ UNCHANGED <<server, client, down, joins, hasty>>

Starting == phase # "OFF" \/ \E i \in DOMAIN up[Master] : up[Master][i].type = "START"

\* The options are changed in the menus; nobody is told.  From the screen where a
\* game is started it takes more time to get there than the start takes.
ChangeRules ==
  /\ Press(Master) /\ ~Starting /\ \E r \in Rules \ {rules[Master]} : rules' = [rules EXCEPT ![Master] = r]
  /\ UNCHANGED <<server, port, playing, local, step, began, up, down, joins, hasty>>

\* A mutant: the options are sent after the message that starts the game.
StartMessagesLate(c) == <<Msg("START", 0), Msg("RULES", rules[c])>>

\* joynet_start_game sends the options of the game, then those of its players.
StartMessages(c) ==
  <<Msg("RULES", rules[c])>> \o (IF playing[c] THEN Told(c, step[c]) ELSE <<>>) \o <<Msg("START", 0)>>

\* In the level setup the one in charge starts the game if it sees everyone ready.
AskToStart ==
  /\ Press(Master) /\ (playing[Master] => step[Master] \notin {"PROFILE", "PROFILED"})
  /\ up' = [up EXCEPT ![Master] = @ \o StartMessages(Master)]
  /\ UNCHANGED <<server, client, down, joins, hasty>>

-----------------------------------------------------------------------------
(***************************************************************************)
(* The server.                                                             *)
(***************************************************************************)
All(msg)       == [c \in Clients |-> IF c \in watching THEN Append(down[c], msg) ELSE down[c]]
To(q, c, msgs) == [q EXCEPT ![c] = @ \o msgs]

\* The newcomer learns the options, those the slot's last player has left included.
HandleJoin(c) ==
  IF seat = Nobody /\ phase = "OFF"
  THEN /\ seat' = c
       /\ down' = [d \in Clients |->
            IF d = c THEN down[c] \o <<Msg("CONNECT", 0), Msg("ADD", 0),
                                       Msg("RULES", rulesKept), Msg("STEP", kept)>>
            ELSE IF d \in watching THEN Append(down[d], Msg("ADD", 0)) ELSE down[d]]
       /\ UNCHANGED <<kept, rulesKept, phase>>
  ELSE UNCHANGED <<seat, kept, rulesKept, phase, down>>

\* Whoever asks, the player in the slot is out.
HandleLeave(c) ==
  /\ seat' = Nobody
  /\ down' = [d \in Clients |->
       (IF d = c THEN Append(down[d], Msg("DISCONNECT", 0)) ELSE down[d])
       \o (IF d \in watching THEN <<Msg("REMOVE", 0)>> ELSE <<>>)]
  /\ UNCHANGED <<kept, rulesKept, phase>>

\* A mutant: the sender, who knows, is left out.
EchoToOthers(c, msg) == [All(msg) EXCEPT ![c] = down[c]]

Echo(c, msg) == All(msg)

HandleStep(c, m) ==
  /\ kept' = m.arg /\ down' = Echo(c, m) /\ UNCHANGED <<seat, rulesKept, phase>>

\* A character that not everybody has is refused without an answer.
HandleSelect(m) ==
  /\ down' \in {All(m), down} /\ UNCHANGED <<seat, kept, rulesKept, phase>>

HandleRules(m) ==
  /\ rulesKept' = m.arg /\ down' = All(m) /\ UNCHANGED <<seat, kept, phase>>

HandleStart(m) ==
  /\ phase' = "PLAYING" /\ down' = IF phase = "OFF" THEN All(m) ELSE down
  /\ UNCHANGED <<seat, kept, rulesKept>>

Serve(c) ==
  /\ up[c] # <<>> /\ up' = [up EXCEPT ![c] = Tail(@)]
  /\ LET m == Head(up[c])
     IN  \/ m.type = "JOIN"   /\ HandleJoin(c)
         \/ m.type = "LEAVE"  /\ HandleLeave(c)
         \/ m.type = "STEP"   /\ HandleStep(c, m)
         \/ m.type = "SELECT" /\ HandleSelect(m)
         \/ m.type = "RULES"  /\ HandleRules(m)
         \/ m.type = "START"  /\ HandleStart(m)
  /\ UNCHANGED <<watching, client, keys, joins, hasty>>

\* A client's connection is lost, and the client starts anew.
Lose(c) ==
  /\ c \in watching \ {Master}
  /\ watching' = watching \ {c} /\ up' = [up EXCEPT ![c] = <<>>]
  /\ seat' = IF seat = c THEN Nobody ELSE seat
  /\ down' = [d \in Clients |->
       IF d = c THEN <<>>
       ELSE IF seat = c /\ d \in watching THEN Append(down[d], Msg("REMOVE", 0)) ELSE down[d]]
  /\ port' = [port EXCEPT ![c] = FALSE] /\ playing' = [playing EXCEPT ![c] = FALSE]
  /\ local' = [local EXCEPT ![c] = FALSE] /\ step' = [step EXCEPT ![c] = "PROFILE"]
  /\ began' = [began EXCEPT ![c] = None]
  /\ UNCHANGED <<kept, rulesKept, phase, rules, keys, joins, hasty>>

-----------------------------------------------------------------------------
(***************************************************************************)
(* What a client makes of the server's messages: joynet's handler and then *)
(* pp2_game_channel_callback.                                              *)
(***************************************************************************)
ReceiveConnect(c) ==
  /\ port' = [port EXCEPT ![c] = TRUE] /\ step' = [step EXCEPT ![c] = "PROFILE"]
  /\ up' = To(up, c, Told(c, "PROFILE"))
  /\ UNCHANGED <<playing, local, rules, began>>

\* Until it has a profile the player goes by the name of the client.
ReceiveAdd(c) ==
  LET own == IF playing[c] THEN local[c] ELSE port[c]
  IN  /\ playing' = [playing EXCEPT ![c] = TRUE] /\ local' = [local EXCEPT ![c] = own]
      /\ up' = IF own /\ step[c] = "PROFILE" THEN To(up, c, <<Msg("STEP", "PROFILE")>>) ELSE up
      /\ UNCHANGED <<port, step, rules, began>>

ReceiveRemove(c) ==
  /\ playing' = [playing EXCEPT ![c] = FALSE]
  /\ UNCHANGED <<port, local, step, rules, began, up>>

ReceiveDisconnect(c) ==
  /\ port' = [port EXCEPT ![c] = FALSE]
  /\ UNCHANGED <<playing, local, step, rules, began, up>>

\* The profile's character is asked for when the choice of profile comes back.
ReceiveStep(c, s) ==
  LET read == local[c] /\ s = "PROFILED"
  IN  /\ step' = [step EXCEPT ![c] = IF read THEN "WAIT" ELSE s]
      /\ up' = IF read THEN To(up, c, Told(c, "WAIT") \o <<Msg("SELECT", 0)>>) ELSE up
      /\ UNCHANGED <<port, playing, local, rules, began>>

ReceiveSelect(c) ==
  LET found == step[c] = "WAIT"
  IN  /\ step' = [step EXCEPT ![c] = IF found THEN "FOUND" ELSE @]
      /\ up' = IF found THEN To(up, c, Told(c, "FOUND")) ELSE up
      /\ UNCHANGED <<port, playing, local, rules, began>>

ReceiveRules(c, r) ==
  /\ rules' = [rules EXCEPT ![c] = IF r = None THEN @ ELSE r]
  /\ UNCHANGED <<port, playing, local, step, began, up>>

ReceiveStart(c) ==
  /\ began' = [began EXCEPT ![c] = rules[c]]
  /\ UNCHANGED <<port, playing, local, step, rules, up>>

Receive(c) ==
  /\ down[c] # <<>> /\ down' = [down EXCEPT ![c] = Tail(@)]
  /\ LET m == Head(down[c])
     IN  \/ m.type = "CONNECT"    /\ ReceiveConnect(c)
         \/ m.type = "ADD"        /\ ReceiveAdd(c)
         \/ m.type = "REMOVE"     /\ ReceiveRemove(c)
         \/ m.type = "DISCONNECT" /\ ReceiveDisconnect(c)
         \/ m.type = "STEP"       /\ ReceiveStep(c, m.arg)
         \/ m.type = "SELECT"     /\ ReceiveSelect(c)
         \/ m.type = "RULES"      /\ ReceiveRules(c, m.arg)
         \/ m.type = "START"      /\ ReceiveStart(c)
  /\ UNCHANGED <<server, keys, joins, hasty>>

Next ==
  \/ ChangeRules \/ AskToStart
  \/ \E c \in Clients :
       \/ Watch(c) \/ AskToJoin(c) \/ AskToLeave(c) \/ Fire(c) \/ Jump(c) \/ Choose(c)
       \/ Serve(c) \/ Receive(c) \/ Lose(c)

Spec == Init /\ [][Next]_vars

-----------------------------------------------------------------------------
\* However keys and echoes cross, when nothing is under way everyone sees the
\* slot's player at the step the server has noted, unless a key came before joynet
\* had made the player its client's own: then it is not passed on.
StepsSettle ==
  ~hasty /\ (\A c \in Clients : up[c] = <<>> /\ down[c] = <<>>)
     => \A c \in watching : playing[c] => step[c] = kept

\* All players start the game with the same rules, also one that joins while it
\* is started.  Who only watches is told nothing when it comes, and may miss them.
SameRules ==
  LET in == {c \in Clients : began[c] # None /\ (port[c] \/ c = Master)}
  IN  \A c, d \in in : began[c] = began[d]

=============================================================================
