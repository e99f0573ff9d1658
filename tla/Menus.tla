------------------------------- MODULE Menus -------------------------------
(***************************************************************************)
(* What is on the screen: the state of the program, the menus with the     *)
(* stack of those to go back to, and how the messages of a game and the    *)
(* loss of the connection change both under the player's hands.            *)
(*                                                                         *)
(* One program is modelled, playing locally, at a server, or at one it     *)
(* hosts itself.  A request to a server changes nothing here; what comes   *)
(* of it, and of the requests of others, are the messages that arrive.     *)
(* The screens a menu entry only changes a value on are in Options.        *)
(***************************************************************************)
EXTENDS Naturals, Sequences, SequencesExt

CONSTANT MaxStack    \* bound: menus on the stack (the array holds 16)

VARIABLES
  ui,      \* state, current_menu, menu_stack, old_state (while a game is paused),
           \* text entry, next_state, and whether the timer runs
  client,  \* no client, that of a host, or one that joined a server
  thread,  \* server_thread
  master,  \* client->master
  phase,   \* client_game->state: OFF, PLAYING or PAUSED
  told,    \* what the server has told this client of its game
  loaded,  \* the level and the players of a game are in memory
  flaw     \* history: known ways in which the screen has gone wrong

vars == <<ui, client, thread, master, phase, told, loaded, flaw>>

Playing == {"GAME", "GAME_OVER"}
EndOptions == {"QUIT", "REMATCH", "PLAY_AGAIN", "NEW"}

\* The entries that only open another menu.  "VALUES" stands for the screens
\* whose own entries open none: profiles, audio, stock and so on.
MainEntries    == {"PLAY_NETWORK", "VALUES", "OPTIONS"}
OptionEntries  == {"VALUES", "NETWORK"}
NetworkEntries == {"PLAY_ONLINE", "PLAY_LAN", "NETWORK_ID"}
OnlineEntries  == {"HOST_NAME", "PLAY_ONLINE_LIST"}
LanEntries     == {"HOST_IP"}
PlayEntries    == {"PLAY_QUICK_PLAY", "PLAY_CUSTOM"}
CustomEntries  == {"VALUES"}

Entries ==
  [MAIN |-> MainEntries, OPTIONS |-> OptionEntries, PLAY_NETWORK |-> NetworkEntries,
   PLAY_ONLINE |-> OnlineEntries, PLAY_LAN |-> LanEntries, PLAY |-> PlayEntries,
   PLAY_CUSTOM |-> CustomEntries]

Prompts == {"NETWORK_ID", "NETWORK", "HOST_NAME", "HOST_IP", "PLAY_ONLINE_LIST"}

\* What the client's screen returns to, when a game or a connection is over.
Home(c, t) == IF t THEN "MAIN_HOST" ELSE IF c # "no" THEN "MAIN_CLIENT" ELSE "MAIN"
MainMenus  == {"MAIN", "MAIN_CLIENT", "MAIN_HOST"}

Local    == client = "no"
InCharge == Local \/ master

Init ==
  /\ ui = [state |-> "TITLE", menu |-> "MAIN", stack |-> <<>>, old |-> "",
           text |-> FALSE, next |-> "", timer |-> TRUE]
  /\ client = "no" /\ thread = FALSE /\ master = FALSE /\ phase = "OFF" /\ told = "OFF"
  /\ loaded = FALSE /\ flaw = {}

-----------------------------------------------------------------------------
(***************************************************************************)
(* The menus.                                                              *)
(***************************************************************************)

\* pp2_select_menu, pp2_select_previous_menu
Select(u, m) == [u EXCEPT !.menu = m, !.stack = Append(@, u.menu)]
Previous(u)  == IF u.stack = <<>> THEN u
                ELSE [u EXCEPT !.menu = Last(u.stack), !.stack = Front(@)]

\* A main menu, from which nothing leads back.
AtMain(u, m)   == [u EXCEPT !.menu = m, !.stack = <<>>]
MenuMain(u, m) == [AtMain(u, m) EXCEPT !.state = "MENU"]

Room == Len(ui.stack) < MaxStack
Idle == ui.timer /\ ui.next = ""
In(state) == Idle /\ ui.state = state
Still == UNCHANGED <<client, thread, master, phase, told, loaded, flaw>>

\* A menu is open; the pause and game-over menus are left by their own entries.
At(m) == In("MENU") /\ ui.menu = m

OpenMenu ==
  /\ In("MENU") /\ Room /\ ui.menu \in DOMAIN Entries
  /\ \E m \in Entries[ui.menu] :
       ui' = [Select(ui, m) EXCEPT !.text = @ \/ m \in Prompts]
  /\ Still

\* The list of servers could not be had; text entry is left on.
NoServerList == At("PLAY_ONLINE") /\ ui' = [ui EXCEPT !.text = TRUE] /\ Still

\* The OK entries of the prompts that only keep what was entered.
NetworkIdOk == At("NETWORK_ID") /\ Room /\ ui' = [Select(ui, "PLAY_ONLINE") EXCEPT !.text = FALSE]
               /\ Still
NetworkOk   == At("NETWORK") /\ ui' = [Previous(ui) EXCEPT !.text = FALSE] /\ Still
NewProfileOk ==
  /\ At("NEW_PROFILE")
  /\ ui' = [Previous(ui) EXCEPT !.text = FALSE, !.state = "PLAYER_SETUP"] /\ Still

Play ==
  /\ In("MENU") /\ ui.menu \in {"MAIN", "MAIN_HOST", "MAIN_CLIENT"}
  /\ ui' = [ui EXCEPT !.state = "PLAYER_SETUP"] /\ Still

\* pp2_menu_proc_main_view_replay: the data of the replay's game is loaded.
ViewReplay ==
  /\ At("MAIN")
  /\ ui' = [ui EXCEPT !.state = "REPLAY"] /\ loaded' = TRUE
  /\ UNCHANGED <<client, thread, master, phase, told, flaw>>

\* A quick game or an exploration is chosen, or the custom game is ready.
ChooseGame ==
  /\ In("MENU") /\ ui.menu \in {"PLAY_QUICK_PLAY", "PLAY_SINGLE", "PLAY_CUSTOM"}
  /\ ui' = [ui EXCEPT !.state = "LEVEL_SETUP"] /\ Still

\* Connecting needs its time, while which the timer stands still.  When the
\* thread of the server cannot be made it is never started again.
Host ==
  /\ At("HOST_NAME") \/ At("PLAY_LAN")
  /\ LET u == [ui EXCEPT !.text = FALSE]
     IN  \/ ui' = [u EXCEPT !.timer = FALSE] /\ UNCHANGED <<client, thread>>
         \/ ui' = u /\ client' = "no" /\ thread' = FALSE
         \/ ui' = AtMain(u, "MAIN_HOST") /\ client' = "host" /\ thread' = TRUE
  /\ told' = "OFF"
  /\ UNCHANGED <<master, phase, loaded, flaw>>

Join ==
  /\ At("HOST_IP") \/ At("PLAY_ONLINE_LIST")
  /\ LET u == [ui EXCEPT !.text = IF ui.menu = "HOST_IP" THEN FALSE ELSE @]
     IN  \/ ui' = u /\ client' = client
         \/ ui' = [AtMain(u, "MAIN_CLIENT") EXCEPT !.text = FALSE] /\ client' = "join"
  /\ told' = "OFF"
  /\ UNCHANGED <<thread, master, phase, loaded, flaw>>

\* Disconnect or close the server; joynet's game is not reset.  With no client
\* both would use the one that is gone.
Leave ==
  /\ At("MAIN_HOST") \/ At("MAIN_CLIENT")
  /\ client # "no"
  /\ ui' = [AtMain(ui, "MAIN") EXCEPT !.old = ""] /\ client' = "no" /\ master' = FALSE
  /\ thread' = (thread /\ ui.menu = "MAIN_CLIENT")
  /\ flaw' = flaw \cup (IF phase # "OFF" THEN {"never off"} ELSE {})
  /\ UNCHANGED <<phase, told, loaded>>

-----------------------------------------------------------------------------
(***************************************************************************)
(* Going back and forth over the screens.                                  *)
(***************************************************************************)

\* pp2_menu_proc_overlay_back
OverlayBack(u) ==
  CASE u.state = "MENU"         ->
         (IF u.menu \in {"PLAY", "PLAY_SINGLE"} THEN [u EXCEPT !.state = "PLAYER_SETUP"]
          ELSE IF u.menu = "NEW_PROFILE" THEN [Previous(u) EXCEPT !.state = "PLAYER_SETUP"]
          ELSE Previous(u))
    [] u.state = "PLAYER_SETUP" -> IF u.stack = <<>> THEN [u EXCEPT !.state = "MENU"]
                                   ELSE [u EXCEPT !.state = "MENU", !.menu = u.stack[1],
                                                  !.stack = <<>>]
    [] u.state = "LEVEL_SETUP"  -> [u EXCEPT !.state = "MENU"]
    [] OTHER                    -> u

Back == Idle /\ ui' = OverlayBack(ui) /\ ui' # ui /\ Still

\* pp2_menu_proc_overlay_next, once the players are ready
ToGameMenu ==
  /\ ui.timer /\ ui.state = "PLAYER_SETUP" /\ InCharge /\ Room
  /\ \E m \in {"PLAY", "PLAY_SINGLE"} : ui' = [Select(ui, m) EXCEPT !.state = "MENU"]
  /\ Still

\* A controller asks for a new profile; the screen changes when all the
\* controllers have had their turn of the tick.
NewProfile ==
  /\ ui.timer /\ ui.state = "PLAYER_SETUP" /\ Room /\ (~ui.text \/ ui.next # "")
  /\ ui' = [Select(ui, "NEW_PROFILE") EXCEPT !.text = TRUE, !.next = "MENU"]
  /\ Still

NextState ==
  /\ ui.timer /\ ui.next # ""
  /\ ui' = [ui EXCEPT !.state = IF @ = "PLAYER_SETUP" THEN ui.next ELSE @,
                      !.next = IF ui.state = "PLAYER_SETUP" THEN "" ELSE @]
  /\ ui' # ui /\ Still

\* Enter, or Escape while text is entered; T at a server.
EndText   == Idle /\ ui.text /\ ui' = [ui EXCEPT !.text = FALSE] /\ Still
StartChat == Idle /\ ~ui.text /\ ~Local /\ ui' = [ui EXCEPT !.text = TRUE] /\ Still

\* The title screen starts a demo when nobody comes, and leads to the menu.
Title ==
  /\ In("TITLE")
  /\ \/ ui' = [ui EXCEPT !.state = "T_TITLE_MENU"] /\ loaded' = loaded
     \/ ui' = [ui EXCEPT !.state = "REPLAY"] /\ loaded' = TRUE
  /\ UNCHANGED <<client, thread, master, phase, told, flaw>>

TitleMenu == In("T_TITLE_MENU") /\ ui' = [ui EXCEPT !.state = "MENU"] /\ Still

\* A replay ends: a demo at the title, a theatre at the menu it came from,
\* one that is broken off at the main menu.
ReplayEnds ==
  /\ In("REPLAY")
  /\ \E u \in {[ui EXCEPT !.state = "TITLE"], [ui EXCEPT !.state = "MENU"], MenuMain(ui, "MAIN")} :
       ui' = u
  /\ loaded' = FALSE
  /\ UNCHANGED <<client, thread, master, phase, told, flaw>>

-----------------------------------------------------------------------------
(***************************************************************************)
(* The game: pp2_game_callback, called at once by a local game and for     *)
(* each message of a server.                                               *)
(***************************************************************************)

\* The game that is started, paused, resumed or ended, and the message of it.
Current == IF Local THEN phase ELSE told
Becomes(p) == phase' = p /\ told' = IF Local THEN told ELSE p

\* START: the level may fail to load.
Start ==
  \/ /\ ui' = [ui EXCEPT !.state = "GAME", !.old = ""]
     /\ loaded' = TRUE /\ flaw' = flaw \ {"never off", "not there"}
  \/ /\ ui' = [ui EXCEPT !.old = ""]
     /\ loaded' = FALSE /\ flaw' = flaw \cup {"never off"}

StartGame ==
  /\ Idle /\ Current = "OFF"
  /\ Local => ui.state = "LEVEL_SETUP"
  /\ Becomes("PLAYING") /\ Start
  /\ UNCHANGED <<client, thread, master>>

\* Only who is in charge gets a menu; it replaces the one that was open.
PauseMenu(u) ==
  IF InCharge THEN [u EXCEPT !.menu = IF u.old = "GAME" THEN "PAUSE" ELSE "GAME_OVER"] ELSE u

PauseGame ==
  /\ Idle /\ Current = "PLAYING"
  /\ Local => ui.state \in Playing
  /\ Becomes("PAUSED")
  /\ ui' = PauseMenu([ui EXCEPT !.old = ui.state, !.state = "GAME_PAUSED"])
  /\ flaw' = flaw \cup (IF InCharge /\ ui.stack = <<>> THEN {"no way back"} ELSE {})
  /\ UNCHANGED <<client, thread, master, loaded>>

\* The PAUSE menu of who is in charge, or the message.
ResumeGame ==
  /\ Idle /\ Current = "PAUSED"
  /\ Local => ui.state = "GAME_PAUSED" /\ ui.menu = "PAUSE"
  /\ Becomes("PLAYING")
  /\ ui' = [ui EXCEPT !.state = ui.old, !.old = ""]
  /\ UNCHANGED <<client, thread, master, loaded, flaw>>

\* In a local game the next one starts from within the end of this one.
Again(o) == InCharge /\ o \in {"REMATCH", "PLAY_AGAIN"}

EndMenu == IF InCharge THEN Home(client, thread) ELSE "MAIN_CLIENT"

\* What END makes of the screen.
Ended(o) ==
  LET u == [ui EXCEPT !.old = ""]
  IN  CASE o = "QUIT" -> MenuMain(u, EndMenu)
        [] o = "NEW"  -> [u EXCEPT !.state = "PLAYER_SETUP"]
        [] OTHER      -> u

Mended(o) == {"never off"} \cup (IF o = "QUIT" THEN {"no way back"} ELSE {})
Left(o)   == (IF Ended(o).state \in Playing THEN {"not there"} ELSE {})
             \cup (IF o = "QUIT" /\ thread /\ ~InCharge THEN {"wrong home"} ELSE {})

\* The server ends a game of itself when its last player is gone, with the
\* option of an earlier end in place.
EndGame ==
  /\ Idle /\ Current # "OFF"
  /\ \E o \in EndOptions :
       /\ Local => ui.state = "GAME_PAUSED" /\ (ui.menu = "GAME_OVER" \/ o = "QUIT")
       /\ IF Local /\ Again(o)
          THEN Becomes("PLAYING") /\ Start
          ELSE /\ Becomes("OFF") /\ ui' = Ended(o) /\ loaded' = FALSE
               /\ flaw' = {f \in flaw \cup Left(o) : f \notin Mended(o)}
  /\ UNCHANGED <<client, thread, master>>

\* The game decides its winner.
GameOver == In("GAME") /\ ui' = [ui EXCEPT !.state = "GAME_OVER"] /\ Still

-----------------------------------------------------------------------------
(***************************************************************************)
(* The rest of what a server sends.                                        *)
(***************************************************************************)

\* A local player is removed; its game goes on.
ReceiveRemove ==
  /\ Idle /\ ~Local
  /\ ui' = MenuMain(ui, Home(client, thread))
  /\ flaw' = flaw \ {"no way back"}
  /\ UNCHANGED <<client, thread, master, phase, told, loaded>>

ReceiveMaster ==
  /\ Idle /\ ~Local /\ ~master
  /\ master' = TRUE /\ UNCHANGED <<ui, client, thread, phase, told, loaded, flaw>>

\* A mutant: joynet is not told.
LostPhaseKept == phase

\* pp2_client_callback; a host registers no callback.
LostPhase == "OFF"

ReceiveLoss ==
  /\ Idle /\ client = "join"
  /\ ui' = [MenuMain(ui, "MAIN") EXCEPT !.old = ""] /\ client' = "no" /\ master' = FALSE
  /\ phase' = LostPhase
  /\ flaw' = flaw \cap {"wrong home"}
  /\ UNCHANGED <<thread, told, loaded>>

\* CHECK_ID_FAIL: of another version than the server.
ReceiveCheckFail ==
  /\ At("MAIN_CLIENT") /\ client = "join" /\ phase = "OFF"
  /\ ui' = AtMain(ui, "MAIN") /\ client' = "no" /\ master' = FALSE
  /\ UNCHANGED <<thread, phase, told, loaded, flaw>>

Next ==
  \/ OpenMenu \/ NoServerList \/ NetworkIdOk \/ NetworkOk \/ NewProfileOk
  \/ Play \/ ViewReplay \/ ChooseGame
  \/ Host \/ Join \/ Leave \/ Back \/ ToGameMenu \/ NewProfile \/ NextState
  \/ EndText \/ StartChat \/ Title \/ TitleMenu \/ ReplayEnds
  \/ StartGame \/ PauseGame \/ ResumeGame \/ EndGame \/ GameOver
  \/ ReceiveRemove \/ ReceiveMaster \/ ReceiveLoss \/ ReceiveCheckFail

Spec == Init /\ [][Next]_vars

-----------------------------------------------------------------------------
Bottom == IF ui.stack = <<>> THEN ui.menu ELSE ui.stack[1]

\* Going back for long enough leads to the main menu of the connection there
\* is (menu_proc.c 2358, network.c 325, client.c 10), except when a pause has
\* put its menu in the place of a main menu, or a host who was not in charge
\* has been given the menu of a client.
HomeAtTheBottom ==
  flaw \cap {"no way back", "wrong home"} # {} \/ Bottom = Home(client, thread)

\* Out of a server's reach the screen shows a game exactly while joynet runs
\* one, paused exactly while it is (pp2.c 61, network.c 259); except after a
\* level failed to load or a server was left in mid-game, when joynet runs a
\* game nobody sees.
ScreenShowsGame ==
  Local /\ "never off" \notin flaw =>
    /\ phase = "PLAYING" <=> ui.state \in Playing
    /\ phase = "PAUSED"  <=> ui.state = "GAME_PAUSED"

\* A game that is played is in memory (pp2_game_logic reads it everywhere);
\* except when a server without players has ended the game of a watcher who
\* still has the option of a rematch.
PlayedIsLoaded == ui.state \in Playing /\ "not there" \notin flaw => loaded

=============================================================================
