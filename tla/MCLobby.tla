------------------------------ MODULE MCLobby ------------------------------
(***************************************************************************)
(* What happens around a game: the controllers, the screens, the options   *)
(* of the game, the levels that are offered and the players' way into it.  *)
(* Input, Menus, Gui, Options, Content and Setup share no state, so that   *)
(* every behaviour is one of one of them, while the others stay as they    *)
(* start.                                                                  *)
(***************************************************************************)
EXTENDS Content, TLC

CONSTANTS
  Platform, Devices, Pads, Keys, Elements,       \* see Input
  Weapons, Powers, MaxChanges,                   \* see Options
  Menu, Spots, MaxStack, MaxPads,                \* see Menus and Gui
  Master, LeftAt, Rules, SetupKeys, SetupJoins   \* see Setup

VARIABLES
  part,
  rule, enabled, stock, custom, kept, changes,
  joystick, raw, down, key, joystickState, updated, moved, handler, sent, scores,
  forgotten, lost,
  ui, link, thread, master, phase, told, loaded, flaw,
  menu, source, mouse,
  setupSeat, setupKept, rulesKept, setupPhase, setupWatching, setupPort, playing,
  local, step, rules, began, up, sentDown, keys, setupJoins, hasty

MCKeys == 8 :> ("X" :> "1")
MCHas  == "a" :> {1, 2} @@ "b" :> {2, 3}

I == INSTANCE Input

O == INSTANCE Options

M == INSTANCE Menus WITH client <- link

\* A menu of each kind: with text above, between and below its entries, the prompt
\* for an address, and the entries beside the screens of the setup.
MCMenu ==
  "MAIN"          :> <<"setup", "OPTIONS", "prompt", "">> @@
  "OPTIONS"       :> <<"", "bind", "", "bind", "back">> @@
  "PROMPT"        :> <<"", "", "ok", "join", "back">> @@
  "PLAY"          :> <<"OPTIONS", "next", "back">> @@
  "SETUP_OVERLAY" :> <<"back", "next">> @@
  "LEVEL_OVERLAY" :> <<"back", "start">>

G == INSTANCE Gui
       WITH Elements <- Menu, MaxDepth <- MaxStack, ui <- menu
S == INSTANCE Setup
       WITH MaxKeys <- SetupKeys, MaxJoins <- SetupJoins,
            seat <- setupSeat, kept <- setupKept, phase <- setupPhase,
            watching <- setupWatching, port <- setupPort, down <- sentDown,
            joins <- setupJoins

\* A pad is no keyboard, and a handler has the elements the tables have.
ASSUME InputAssumption ==
  /\ Platform \in {"mac", "windows", "unix", "android"}
  /\ Elements \subseteq DOMAIN I!GamepadElements
  /\ Pads \cap DOMAIN Keys = {}
  /\ \A h \in DOMAIN Keys : DOMAIN Keys[h] \subseteq Elements

\* The screens that are named here are there, each menu has something to choose
\* and is named for no deed, and the first of the menu of a game is an entry.
ASSUME MenuAssumption ==
  /\ {"MAIN", "PROMPT", "PLAY", "SETUP_OVERLAY", "LEVEL_OVERLAY"} \subseteq DOMAIN Menu
  /\ DOMAIN Menu \cap {"", "prompt", "ok", "join", "setup", "bind", "back", "next"} = {}
  /\ \A m \in DOMAIN Menu : Menu[m] \in Seq(STRING) /\ \E i \in DOMAIN Menu[m] : Menu[m][i] # ""
  /\ 1 \in DOMAIN Menu["PLAY"] /\ Menu["PLAY"][1] # ""
  /\ MaxPads \in Nat

\* Nobody is no client, and options that have never been sent are no options.
ASSUME SetupAssumption ==
  /\ Master \in Clients /\ S!Nobody \notin Clients
  /\ LeftAt \subseteq S!Steps /\ S!None \notin Rules

optionVars  == <<rule, enabled, stock, custom, kept, changes>>
menuVars    == <<ui, link, thread, master, phase, told, loaded, flaw>>
guiVars     == <<menu, source, mouse>>
inputVars   == <<joystick, raw, down, key, joystickState, updated, moved, handler, sent,
                 scores, forgotten, lost>>
setupVars   == <<setupSeat, setupKept, rulesKept, setupPhase, setupWatching, setupPort,
                 playing, local, step, rules, began, up, sentDown, keys, setupJoins, hasty>>
allVars     == <<part, vars, inputVars, optionVars, menuVars, guiVars, setupVars>>

\* The parts that have no turn start in one way; and what the last player of a
\* slot has left behind and what the rules of the last game were is not combined
\* in all ways.
MCInit ==
  /\ part \in {"input", "options", "menus", "gui", "content", "setup"}
  /\ Init /\ I!Init /\ O!Init /\ M!Init /\ S!Init
  /\ G!Init /\ (part = "gui" \/ mouse = 1)
  /\ part = "input" \/ DOMAIN joystick = {}
  /\ part = "options" \/ kept = O!Default
  /\ (part = "setup" /\ setupKept = "FOUND") \/ (rulesKept = "r2" /\ rules["a"] = "r2")
  /\ part = "setup" \/ setupKept = "FOUND"

Only(p) ==
  /\ part = p /\ part' = p
  /\ p # "input"   => UNCHANGED inputVars
  /\ p # "options" => UNCHANGED optionVars
  /\ p # "menus"   => UNCHANGED menuVars
  /\ p # "gui"     => UNCHANGED guiVars
  /\ p # "content" => UNCHANGED vars
  /\ p # "setup"   => UNCHANGED setupVars

MCNext ==
  \/ Only("input") /\ I!Next
  \/ Only("options") /\ O!Next
  \/ Only("menus") /\ M!Next
  \/ Only("gui") /\ G!Next
  \/ Only("content") /\ Next
  \/ Only("setup") /\ S!Next

MCSpec == MCInit /\ [][MCNext]_allVars

\* Input: what is sent for a player is what that player holds.
SentAsPressed == [][part = "input" => I!HeldStep]_allVars

\* Options: a quick game is what it says, whatever was played before.
QuickGameIsItself == [][part = "options" => O!QuickGameStep]_allVars

\* Menus: the screen is that of the game, nothing is played that is not in
\* memory, and the way back leads home.  Gui: on the way there every entry of the
\* menu can be chosen.
ScreensRight ==
  /\ part = "menus" => M!ScreenShowsGame /\ M!PlayedIsLoaded /\ M!HomeAtTheBottom
  /\ part = "gui" => G!EveryEntryReached

\* Setup: when nothing is under way all who watch see a player at the step the
\* server has noted, and all clients start a game with the same rules.
SetupRight == part = "setup" => S!StepsSettle /\ S!SameRules
=============================================================================
