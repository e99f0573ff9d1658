------------------------------ MODULE Content ------------------------------
(***************************************************************************)
(* Which level a game is played on.  Every client has levels of its own;   *)
(* the server keeps what each player has, offers the players what they all *)
(* have, and passes on what is selected.                                   *)
(*                                                                         *)
(* A request is handled as soon as it is sent: its delay shows in the      *)
(* queue of the answers.  Only what another client does between the two    *)
(* requests that start a game needs a state of its own (due).              *)
(***************************************************************************)
EXTENDS Naturals, Sequences, FiniteSetsExt

CONSTANTS
  Clients,
  Slots,       \* the players of the server, 1 .. n
  Has,         \* the levels of each client
  MaxJoins,    \* bound: how many clients and players connect
  MaxQueue     \* bound: messages on their way to each when a client does more

VARIABLES
  seat,      \* server: the client of the player in a slot, or "none"
  content,   \* server_content_list: kept when the player leaves
  known,     \* slots whose player's own list has arrived
  offered,   \* server_master_content_list, once it is made
  made,
  picked,    \* selected_content of the server's players
  state,     \* server: in the lobby, or playing
  due,       \* the client whose START is under way
  joins,
  port,      \* client: the slot of its player
  watching,  \* server: clients that get the messages of the game
  charge,    \* client: master
  list,      \* client: content_list
  level,     \* client: level_hash
  choice,    \* client: hash[level_choosing]
  chosen,    \* client: level_chosen
  loads,     \* client: the level of the game it has started
  queue,     \* what the server has sent to each client
  counted    \* history: the slots whose lists the server knew when it started the game

server == <<seat, content, known, offered, made, picked, state, due, watching, joins>>
client == <<port, charge, list, level, choice, chosen, loads>>
vars   == <<server, client, queue, counted>>

Levels == UNION {Has[c] : c \in Clients}
None   == 0
Nobody == "none"

Init ==
  /\ seat = [s \in Slots |-> Nobody] /\ content = [s \in Slots |-> {}] /\ known = {}
  /\ offered = {} /\ made = FALSE /\ picked = [s \in Slots |-> None]
  /\ state = "OFF" /\ due = Nobody /\ watching = {} /\ joins = 0
  /\ port = [c \in Clients |-> 0] /\ charge = [c \in Clients |-> FALSE]
  /\ list = Has /\ chosen = [c \in Clients |-> FALSE] /\ loads = [c \in Clients |-> None]
  /\ level = [c \in Clients |-> Max(Has[c])] /\ choice = level
  /\ queue = [c \in Clients |-> <<>>] /\ counted = {}

Room      == \A c \in Clients : Len(queue[c]) < MaxQueue
Playing   == {s \in Slots : seat[s] # Nobody}
Sent(q, to, msgs) == [c \in Clients |-> IF c \in to THEN q[c] \o msgs ELSE q[c]]
Msg(type, s, x)   == [type |-> type, slot |-> s, arg |-> x]

-----------------------------------------------------------------------------
(***************************************************************************)
(* The server.                                                             *)
(***************************************************************************)

\* joynet_build_master_content_list
CommonTo(slots, lists) == {h \in Levels : slots # {} /\ \A s \in slots : h \in lists[s]}

\* The list is sent when its size has changed.
ListIfNew(new) == IF Cardinality(new) # Cardinality(offered) THEN <<Msg("LIST", 0, new)>> ELSE <<>>

\* Selections that are not to be had any more are replaced by the first there
\* is, the others repeated; the server itself keeps what it has noted.
Adjusted(new, hash) ==
  LET Line(s) == IF seat[s] # Nobody /\ picked[s] # None
                 THEN <<Msg("SELECT", s, IF picked[s] \in new THEN picked[s] ELSE hash)>>
                 ELSE <<>>
  IN  FoldSet(LAMBDA s, msgs : msgs \o Line(s), <<>>, Slots)

\* hash[0]: of an empty list it is what an earlier one has left there.
First(new) == IF new = {} THEN Levels ELSE {CHOOSE h \in new : \A g \in new : h <= g}

\* A mutant: the list is made of what the slot's last player has left.
NewListEarly(lists) == CommonTo(Playing, content)

NewList(lists) == CommonTo(Playing, lists)

HandleUpload(s, q) ==
  LET lists == [content EXCEPT ![s] = Has[seat[s]]]
      new   == NewList(lists)
  IN  \E hash \in First(new) :
        /\ content' = lists /\ known' = known \cup {s} /\ offered' = new /\ made' = TRUE
        /\ queue' = Sent(q, watching, IF ListIfNew(new) = <<>> THEN <<>>
                                      ELSE ListIfNew(new) \o Adjusted(new, hash))

\* A selection that is not offered is dropped without an answer.
Picks(s, h)       == picked' = [picked EXCEPT ![s] = IF h \in offered THEN h ELSE @]
PickSent(s, h, q) == IF h \in offered THEN Sent(q, watching, <<Msg("SELECT", s, h)>>) ELSE q

\* The next master: whoever plays in the first slot.
Heir(slots) == IF slots = {} THEN {} ELSE {seat[Min(slots)]}

-----------------------------------------------------------------------------
(***************************************************************************)
(* Joining and leaving.                                                    *)
(***************************************************************************)
Watch(c) ==
  /\ c \notin watching /\ due # c /\ joins < MaxJoins
  /\ watching' = watching \cup {c}
  /\ queue' = [queue EXCEPT ![c] =
       IF made THEN FoldSet(LAMBDA s, msgs : msgs \o <<Msg("SELECT", s, picked[s])>>,
                            <<Msg("LIST", 0, offered)>>, Playing)
               ELSE <<>>]
  /\ joins' = joins + 1
  /\ UNCHANGED <<seat, content, known, offered, made, picked, state, due, client>>

\* joynet_connect_to_game, and the server's answer.
Join(c) ==
  /\ c \in watching /\ port[c] = 0 /\ due # c /\ joins < MaxJoins /\ Room
  /\ Playing # Slots /\ state = "OFF" /\ \A s \in Slots : seat[s] # c
  /\ LET s == Min(Slots \ Playing)
     IN  /\ seat' = [seat EXCEPT ![s] = c] /\ known' = known \ {s}
         /\ picked' = [picked EXCEPT ![s] = None]
         /\ queue' = [queue EXCEPT ![c] = @ \o <<Msg("CONNECT", s, 0)>> \o
                        (IF Playing = {} THEN <<Msg("MASTER", 0, 0)>> ELSE <<>>)]
  /\ joins' = joins + 1
  /\ UNCHANGED <<content, offered, made, state, due, watching, client>>

\* joynet_disconnect_from_game: the list grows by what only the player lacked.
Leave(c) ==
  /\ port[c] # 0 /\ Room /\ due # c /\ state = "OFF" /\ seat[port[c]] = c
  /\ seat' = [seat EXCEPT ![port[c]] = Nobody]
  /\ LET rest == Playing \ {port[c]}
         new  == CommonTo(rest, content)
         told == Sent([queue EXCEPT ![c] = Append(@, Msg("DISCONNECT", 0, 0))],
                      IF charge[c] THEN Heir(rest) ELSE {}, <<Msg("MASTER", 0, 0)>>)
     IN  /\ offered' = IF made THEN new ELSE offered
         /\ queue' = Sent(told, watching, IF made THEN ListIfNew(new) ELSE <<>>)
  /\ UNCHANGED <<content, known, made, picked, state, due, watching, joins, client>>

\* The connection of a client is lost: nothing is reckoned anew.
Lose(c) ==
  /\ c \in watching
  /\ watching' = watching \ {c}
  /\ seat' = [s \in Slots |-> IF seat[s] = c THEN Nobody ELSE seat[s]]
  /\ queue' = Sent([queue EXCEPT ![c] = <<>>],
                   IF charge[c] THEN Heir({s \in Playing : seat[s] # c}) ELSE {},
                   <<Msg("MASTER", 0, 0)>>)
  /\ due' = IF due = c THEN Nobody ELSE due
  /\ port' = [port EXCEPT ![c] = 0] /\ charge' = [charge EXCEPT ![c] = FALSE]
  /\ UNCHANGED <<content, known, offered, made, picked, state, joins,
                 list, level, choice, chosen, loads>>

-----------------------------------------------------------------------------
(***************************************************************************)
(* The client in charge selects a level and starts the game.               *)
(***************************************************************************)
InCharge(c) == charge[c] /\ Room /\ port[c] # 0 /\ due # c /\ state = "OFF"

\* With a profile is selected the level played last.
SelectProfile(c) ==
  /\ InCharge(c)
  /\ Picks(port[c], level[c]) /\ queue' = PickSent(port[c], level[c], queue)
  /\ UNCHANGED <<seat, content, known, offered, made, state, due, watching, joins, client>>

\* A game is chosen: the selection stands at the level played last, if all have it.
Preview(c) ==
  /\ InCharge(c)
  /\ choice' = [choice EXCEPT ![c] = IF level[c] \in list[c] THEN level[c] ELSE @]
  /\ UNCHANGED <<server, port, charge, list, level, chosen, loads, queue>>

\* pp2_level_setup_logic; always for the first player.
Choose(c) ==
  /\ InCharge(c)
  /\ \E h \in list[c] :
       /\ choice' = [choice EXCEPT ![c] = h] /\ chosen' = [chosen EXCEPT ![c] = FALSE]
       /\ Picks(1, h) /\ queue' = PickSent(1, h, queue)
  /\ UNCHANGED <<seat, content, known, offered, made, state, due, watching, joins,
                 port, charge, list, level, loads>>

\* pp2_menu_proc_overlay_next in the level setup: select once more, and start.
StartNext(c) ==
  /\ InCharge(c) /\ chosen[c] /\ due = Nobody
  /\ Picks(1, choice[c]) /\ queue' = PickSent(1, choice[c], queue)
  /\ due' = c
  /\ UNCHANGED <<seat, content, known, offered, made, state, watching, joins, client>>

HandleStart ==
  /\ due # Nobody
  /\ state' = "PLAYING" /\ due' = Nobody
  /\ counted' = IF 1 \in Playing THEN known \cap Playing ELSE {}
  /\ queue' = Sent(queue, watching, <<Msg("START", 0, 0)>>)
  /\ UNCHANGED <<seat, content, known, offered, made, picked, watching, joins, client>>

-----------------------------------------------------------------------------
(***************************************************************************)
(* What a client makes of what it receives.                                *)
(***************************************************************************)
Receive(c) ==
  /\ queue[c] # <<>> /\ due # c
  /\ LET m == Head(queue[c])
         q == [queue EXCEPT ![c] = Tail(@)]
     IN  \/ /\ m.type = "CONNECT"
            /\ port' = [port EXCEPT ![c] = m.slot] /\ HandleUpload(m.slot, q)
            /\ UNCHANGED <<seat, picked, state, due, watching, joins,
                           charge, list, level, choice, chosen, loads>>
         \/ /\ m.type = "DISCONNECT"
            /\ port' = [port EXCEPT ![c] = 0] /\ charge' = [charge EXCEPT ![c] = FALSE]
            /\ queue' = q /\ UNCHANGED <<server, list, level, choice, chosen, loads>>
         \/ /\ m.type = "MASTER"
            /\ charge' = [charge EXCEPT ![c] = TRUE]
            /\ queue' = q /\ UNCHANGED <<server, port, list, level, choice, chosen, loads>>
         \/ \* the number of the choice stands for another level from now on
            /\ m.type = "LIST"
            /\ list' = [list EXCEPT ![c] = m.arg]
            /\ \E h \in IF m.arg = list[c] THEN {choice[c]} ELSE Levels :
                 choice' = [choice EXCEPT ![c] = h]
            /\ queue' = q /\ UNCHANGED <<server, port, charge, level, chosen, loads>>
         \/ /\ m.type = "SELECT"
            /\ level' = [level EXCEPT ![c] = m.arg]
            /\ chosen' = [chosen EXCEPT ![c] = @ \/ m.arg \in Has[c]]
            /\ queue' = q /\ UNCHANGED <<server, port, charge, list, choice, loads>>
         \/ /\ m.type = "START"
            /\ loads' = [loads EXCEPT ![c] = level[c]]
            /\ queue' = q /\ UNCHANGED <<server, port, charge, list, level, choice, chosen>>

Next ==
  \/ /\ \E c \in Clients : Watch(c) \/ Join(c) \/ Leave(c) \/ Lose(c) \/ SelectProfile(c)
                           \/ Preview(c) \/ Choose(c) \/ StartNext(c) \/ Receive(c)
     /\ UNCHANGED counted
  \/ HandleStart

Spec == Init /\ [][Next]_vars

-----------------------------------------------------------------------------
\* What players are offered all of them have, as far as the server has been told:
\* through slots that change hands, and the lists their last players left there.
SharedOffer == \A s \in Playing \cap known : offered \subseteq Has[seat[s]]

\* A game is only started with a level that everyone has whose list the server
\* knew: what game_message.c:723 says of the selections, the first slot being taken.
LevelIsThere ==
  \A s \in counted \cap Playing : loads[seat[s]] \in Has[seat[s]] \cup {None}

=============================================================================
