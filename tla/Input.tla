------------------------------- MODULE Input -------------------------------
(***************************************************************************)
(* From a key or a gamepad to the buttons a player sends: the key states   *)
(* of t3f/keyboard.c, the joystick states of t3f/t3f.c, the input handlers *)
(* of t3f/input.c with their tables for each platform, and the places of   *)
(* pp2 that update a handler and read it.  Events arrive in any order      *)
(* between two logic steps; a handler only knows what it found at its own  *)
(* last update.                                                            *)
(*                                                                         *)
(* A press is a number up to 100, so that the dead zone of a stick is 15   *)
(* and the threshold of a direction 10.                                    *)
(***************************************************************************)
EXTENDS Integers, Sequences, FiniteSets, Functions

CONSTANTS
  Platform,       \* "mac", "windows", "unix" or "android"
  Devices,        \* gamepads
  Pads,           \* the numbers in Allegro's list that have a handler
  Keys,           \* the key of each element, for every keyboard handler
  Elements        \* the elements of a gamepad handler the instance has

VARIABLES
  joystick,       \* t3f_joystick: the gamepads Allegro lists, by their number
  raw,            \* where the axes and buttons of each gamepad stand
  down,           \* the keys somebody holds
  key,            \* the keys _t3f_key_state has as held
  joystickState, updated, moved,   \* t3f_joystick_state, ..._state_updated,
                                   \* _input_state_fudging_helper
  handler,        \* ui.input_handler
  sent,           \* the buttons of the controllers, for joynet
  scores,         \* gp->show_scores
  forgotten,      \* history: the keys that were cleared while they were held
  lost            \* history: the axes and buttons of other gamepads that were not
                  \* at rest when one came or went, until they are known again

deviceVars == <<joystick, raw, down>>
stateVars  == <<key, joystickState, updated, moved>>
vars       == <<deviceVars, stateVars, handler, sent, scores, forgotten, lost>>

-----------------------------------------------------------------------------
(* The tables. *)

GamepadElements ==
  [LEFT_ANALOG_X |-> 1, LEFT_ANALOG_Y |-> 2, RIGHT_ANALOG_X |-> 3, RIGHT_ANALOG_Y |-> 4,
   DPAD_LEFT |-> 5, DPAD_RIGHT |-> 6, DPAD_UP |-> 7, DPAD_DOWN |-> 8,
   LEFT_TRIGGER |-> 9, RIGHT_TRIGGER |-> 10,
   A |-> 11, B |-> 12, X |-> 13, Y |-> 14, L |-> 15, R |-> 16, L3 |-> 17, R3 |-> 18,
   SELECT |-> 19, START |-> 20]

MacTable == <<0, 1, 2, 3, 6, 6, 7, 7, 4, 5, 8, 9, 10, 11, 12, 13, 16, 17, 14, 15>>
WindowsTable == <<2, 3, 4, 5, 0, 0, 1, 1, 6, 7, 8, 9, 10, 11, 12, 13, 17, 18, 14, 15>>
UnixTable == <<0, 1, 3, 4, 6, 6, 7, 7, 2, 5, 8, 9, 10, 11, 12, 13, 16, 17, 14, 15>>
AndroidTable == <<0, 1, 2, 3, 12, 13, 14, 15, 4, 5, 6, 7, 8, 9, 10, 11, 19, 20, 17, 16>>

PlatformTable ==
  CASE Platform = "mac"     -> MacTable
    [] Platform = "windows" -> WindowsTable
    [] Platform = "unix"    -> UnixTable
    [] Platform = "android" -> AndroidTable

DeviceElement(e) == PlatformTable[GamepadElements[e]]

\* The axes Allegro lists for such a gamepad; its buttons are counted on.
StickElements == IF Platform = "android" THEN 6 ELSE 8

Triggers == {"LEFT_TRIGGER", "RIGHT_TRIGGER"}

Sticks == {"LEFT_ANALOG_X", "LEFT_ANALOG_Y", "RIGHT_ANALOG_X", "RIGHT_ANALOG_Y"}
DPad == {"DPAD_LEFT", "DPAD_RIGHT", "DPAD_UP", "DPAD_DOWN"}

DeadZone(e) == IF e \in Sticks THEN 15 ELSE 0
Threshold(e) == CASE e \in Sticks \cup Triggers -> 50 [] e \in DPad -> 10 [] OTHER -> 0

Direction(e) ==
  CASE e \in {"DPAD_LEFT", "DPAD_UP"}    -> -1
    [] e \in {"DPAD_RIGHT", "DPAD_DOWN"} -> 1
    [] OTHER -> 0

\* The axes whose resting place is at their end rather than in the middle,
\* for which the platform's update_input_device makes up.
Fudged ==
  CASE Platform = "mac"  -> {4, 5}
    [] Platform = "unix" -> {2, 5}
    [] OTHER -> {}

-----------------------------------------------------------------------------
(* Devices. *)

Parts == {DeviceElement(e) : e \in Elements}
IsAxis(n) == n < StickElements
Still == [n \in Parts |-> 0]

\* Where an axis or a button may stand once it was touched.
Positions(n) ==
  CASE ~IsAxis(n)   -> {0, 100}
    [] OTHER        -> IF n \in Fudged THEN {-100, 100}
                       ELSE IF n \in {DeviceElement(e) : e \in Triggers} THEN {0, 100}
                       ELSE {-100, 0, 100}

KeyboardHandlers == DOMAIN Keys
Handlers == Pads \cup KeyboardHandlers
AllKeys == UNION {Range(Keys[h]) : h \in KeyboardHandlers}
Up == [held |-> FALSE, pressed |-> FALSE]

\* The orders in which Allegro may list gamepads.
Listings(devices) == Bijection(0 .. Cardinality(devices) - 1, devices)

\* The numbers of a gamepad, of which it has one while it is listed.
NumbersOf(d) == {p \in Pads \cap DOMAIN joystick : joystick[p] = d}

\* What a player does who presses element e of gamepad d.
Pressing(d, e) ==
  LET v == raw[d][DeviceElement(e)] IN
  IF Direction(e) = 0 \/ ~IsAxis(DeviceElement(e))
  THEN IF e \in Triggers THEN v = 100 ELSE v # 0
  ELSE v * Direction(e) > 0

Pressed(h) ==
  IF h \in Pads
  THEN {e \in Elements : h \in DOMAIN joystick /\ Pressing(joystick[h], e)}
  ELSE {e \in DOMAIN Keys[h] : Keys[h][e] \in down}

-----------------------------------------------------------------------------
(* Events. *)

\* Nobody reads when a key was released, nor entry 0, which stands for any key.
HandleKeyPress(k) ==
  /\ key' = key \cup {k}
  /\ forgotten' = forgotten \ {k}

HandleKeyRelease(k) ==
  /\ key' = key \ {k}
  /\ forgotten' = forgotten \ {k}

KeyDown(k) ==
  /\ k \notin down
  /\ down' = down \cup {k}
  /\ HandleKeyPress(k)
  /\ UNCHANGED <<joystick, raw, joystickState, updated, moved, handler, sent, scores, lost>>

KeyUp(k) ==
  /\ k \in down
  /\ down' = down \ {k}
  /\ HandleKeyRelease(k)
  /\ UNCHANGED <<joystick, raw, joystickState, updated, moved, handler, sent, scores, lost>>

\* A held key types on, and is pressed again by it.
KeyRepeat(k) ==
  /\ k \in down
  /\ HandleKeyPress(k)
  /\ UNCHANGED <<deviceVars, joystickState, updated, moved, handler, sent, scores, lost>>

\* Before a name is typed the keys are forgotten.
ClearKeyStates ==
  /\ key' = {}
  /\ forgotten' = forgotten \cup key
  /\ UNCHANGED <<deviceVars, joystickState, updated, moved, handler, sent, scores, lost>>

\* An event of a gamepad brings the whole of its state; but the trigger that has
\* not moved since the gamepads were found is not known to be one at rest.
JoystickEvent(d, n, v) ==
  /\ d \in Range(joystick)
  /\ raw[d][n] # v
  /\ raw' = [raw EXCEPT ![d][n] = v]
  /\ joystickState' = [p \in Pads |-> IF p \in NumbersOf(d) THEN raw'[d] ELSE joystickState[p]]
  /\ updated' = updated \cup NumbersOf(d)
  /\ moved' = IF n \in Fudged THEN moved \cup (NumbersOf(d) \X {n}) ELSE moved
  /\ lost' = {part \in lost : part[1] = d => part[2] \in Fudged \ {n} /\ raw[d][part[2]] = -100}
  /\ UNCHANGED <<joystick, down, key, handler, sent, scores, forgotten>>

\* A gamepad comes, with nothing pressed, or goes: the states of all start again,
\* while the others stand as they stood.  Only the first of the updated flags is
\* reset.
Reset ==
  /\ joystickState' = [p \in Pads |-> Still]
  /\ updated' = updated \ {0}
  /\ moved' = {}

Configuration(d) ==
  LET others == Range(joystick) \ {d} IN
  /\ \/ d \notin Range(joystick) /\ joystick' \in Listings(others \cup {d})
     \/ d \in Range(joystick) /\ joystick' \in Listings(others)
  /\ raw' = [raw EXCEPT ![d] = Still]
  /\ lost' = {part \in others \X Parts : raw[part[1]][part[2]] # 0}
  /\ Reset
  /\ UNCHANGED <<down, key, handler, sent, scores, forgotten>>

-----------------------------------------------------------------------------
(* Handlers. *)

\* A trigger goes from -1 to 1 where others go from 0; once for each state.
FudgeAgain(p) ==
  [n \in Parts |->
     IF n \in Fudged /\ <<p, n>> \in moved
     THEN (joystickState[p][n] + 100) \div 2 ELSE joystickState[p][n]]

UpdateInputDevice(p) ==
  IF p \in updated THEN FudgeAgain(p) ELSE joystickState[p]

Absolute(n) == IF n < 0 THEN -n ELSE n

\* The value of an axis without its dead zone.
Value(e, v) ==
  LET zone == DeadZone(e) IN
  IF Absolute(v) < zone THEN 0
  ELSE IF v < 0 THEN ((v + zone) * 100) \div (100 - zone)
       ELSE ((v - zone) * 100) \div (100 - zone)

JoystickHeld(e, state) ==
  LET v   == state[DeviceElement(e)]
      val == Value(e, v)
      dir == Direction(e)
  IN IF IsAxis(DeviceElement(e))
     THEN (IF dir = 0 THEN Absolute(val) ELSE dir * val) >= Threshold(e)
     ELSE v # 0

KeyboardHeld(h, e) == e \in DOMAIN Keys[h] /\ Keys[h][e] \in key

\* A press is the edge from one update to the next.
Edge(was, held) ==
  [held |-> held, pressed |-> held /\ ~was.held]

Updated(h) ==
  LET state == UpdateInputDevice(h) IN
  [e \in Elements |->
     Edge(handler[h][e], IF h \in Pads THEN JoystickHeld(e, state) ELSE KeyboardHeld(h, e))]

\* t3f_update_input_handler_state for the handlers of hs.
UpdateHandlers(hs) ==
  /\ handler' = [h \in Handlers |-> IF h \in hs THEN Updated(h) ELSE handler[h]]
  /\ joystickState' = [p \in Pads |->
                         IF p \in hs THEN UpdateInputDevice(p) ELSE joystickState[p]]
  /\ updated' = updated \ hs

\* pp2_menu_logic updates every handler.
MenuLogic ==
  /\ UpdateHandlers(Handlers)
  /\ UNCHANGED <<deviceVars, key, moved, sent, scores, forgotten, lost>>

\* pp2_player_setup_logic: a press with which somebody joins is used up.
PlayerSetup(joining) ==
  /\ \A h \in joining : Updated(h)["X"].pressed
  /\ handler' = [h \in Handlers |->
                   IF h \in joining THEN [Updated(h) EXCEPT !["X"].pressed = FALSE]
                   ELSE Updated(h)]
  /\ joystickState' = [p \in Pads |-> UpdateInputDevice(p)]
  /\ updated' = {}
  /\ UNCHANGED <<deviceVars, key, moved, sent, scores, forgotten, lost>>

\* pp2_game_logic updates the handlers of the local players and sends their
\* buttons; it asks every handler for the scores, the others' as they are.
GameLogic(locals) ==
  /\ UNCHANGED <<deviceVars, key, moved, forgotten, lost>>
  /\ UpdateHandlers(locals)
  /\ sent' = [h \in Handlers |->
                IF h \in locals THEN {e \in Elements : handler'[h][e].held} ELSE sent[h]]
  /\ scores' = \E h \in Handlers, e \in Elements \cap {"SELECT"} : handler'[h][e].held

-----------------------------------------------------------------------------

Init ==
  /\ \E devices \in SUBSET Devices : joystick \in Listings(devices)
  /\ raw = [d \in Devices |-> Still]
  /\ down = {}
  /\ key = {}
  /\ joystickState = [p \in Pads |-> Still]
  /\ updated = {} /\ moved = {}
  /\ handler = [h \in Handlers |-> [e \in Elements |-> Up]]
  /\ sent = [h \in Handlers |-> {}]
  /\ scores = FALSE
  /\ forgotten = {} /\ lost = {}

Next ==
  \/ \E k \in AllKeys : KeyDown(k) \/ KeyUp(k) \/ KeyRepeat(k)
  \/ ClearKeyStates
  \/ \E d \in Devices, n \in Parts : \E v \in Positions(n) : JoystickEvent(d, n, v)
  \/ \E d \in Devices : Configuration(d)
  \/ MenuLogic
  \/ \E joining \in SUBSET Handlers : PlayerSetup(joining)
  \/ \E locals \in (SUBSET Handlers) \ {{}} : GameLogic(locals)

Spec == Init /\ [][Next]_vars

(***************************************************************************)
(* What a player sends is what the player holds: no trigger at rest, whose *)
(* axis stands at -1, no button of a gamepad that is gone (t3f/input.c     *)
(* 694-731, t3f/t3f.c 1238-1254), and nothing left out.  The exceptions    *)
(* are what the program has forgotten: a key that was held when the keys   *)
(* were cleared, until it is pressed again, and what was not at rest of    *)
(* another gamepad when one came or went.  Of that, what is held is left   *)
(* out until the next event of its gamepad, and a trigger at rest is taken *)
(* for a held one from that event until it moves.                          *)
(***************************************************************************)
Lost(h, e) ==
  IF h \in Pads THEN <<joystick[h], DeviceElement(e)>> \in lost
  ELSE Keys[h][e] \in forgotten

HeldStep ==
  \A locals \in SUBSET Handlers :
    GameLogic(locals) =>
      \A h \in locals :
        /\ \A e \in sent'[h] \ Pressed(h) : h \in Pads /\ e \in Triggers /\ Lost(h, e)
        /\ \A e \in Pressed(h) \ sent'[h] : Lost(h, e)

=============================================================================
