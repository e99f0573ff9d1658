--------------------------------- MODULE Gui ---------------------------------
(***************************************************************************)
(* How a menu is worked: the element that is highlighted, by the mouse or  *)
(* with a pad, and what a press starts.  Where the entries lead to is      *)
(* reduced to one menu of each kind; the screens themselves are in Menus.  *)
(***************************************************************************)
EXTENDS Naturals, Sequences, SequencesExt, FiniteSetsExt

CONSTANTS
  Elements,    \* for each menu its elements, in order: "" is text, that cannot be
               \* chosen; the others are named for what they do
  Spots,       \* the places of the mouse; the k-th element of a menu lies at spot k
  MaxDepth,    \* bound: menus on the stack
  MaxPads      \* controllers that take part in the player setup

VARIABLES
  ui,      \* state, current_menu and the stack, hover_element of each menu (0: none),
           \* menu_joystick_disabled, menu_joystick_skip, text entry
  source,  \* menu_input_source: "mouse" or "pad"
  mouse    \* the spot under the pointer

vars == <<ui, source, mouse>>

MenuNames == DOMAIN Elements
Count(m)  == Len(Elements[m])
Entry(m)  == {i \in 1 .. Count(m) : Elements[m][i] # ""}

Init ==
  /\ ui = [state |-> "MENU", menu |-> "MAIN", stack |-> <<>>, hover |-> [m \in MenuNames |-> 0],
           disabled |-> FALSE, skip |-> FALSE, text |-> FALSE]
  /\ source = "mouse" /\ mouse \in Spots

-----------------------------------------------------------------------------
(***************************************************************************)
(* t3f/gui.c                                                               *)
(***************************************************************************)

\* t3f_select_hover_gui_element: the first element under the pointer.
Under(m, spot) == IF spot \in Entry(m) THEN spot ELSE 0

\* t3f_select_previous_gui_element, t3f_select_next_gui_element: round the menu,
\* past the text; nothing is chosen in a menu of text only.
PreviousOf(m, i) ==
  LET before == {k \in Entry(m) : k < i}
  IN  IF before # {} THEN Max(before)
      ELSE IF Entry(m) # {} THEN Max(Entry(m)) ELSE 0

\* A mutant: at the last entry it stays.
NextOfStopping(m, i) ==
  LET after == {k \in Entry(m) : k > i}
  IN  IF after # {} THEN Min(after) ELSE i

NextOf(m, i) ==
  LET after == {k \in Entry(m) : k > i}
  IN  IF after # {} THEN Min(after)
      ELSE IF Entry(m) # {} THEN Min(Entry(m)) ELSE 0

Highlight(u, m, i) == [u EXCEPT !.hover[m] = i]

-----------------------------------------------------------------------------
(***************************************************************************)
(* What the elements do.                                                   *)
(***************************************************************************)

\* pp2_select_menu.  Opened with a pad the first entry is chosen.
Open(u, m, byPad) ==
  LET first == IF Entry(m) # {} THEN Min(Entry(m)) ELSE u.hover[m]
  IN  [u EXCEPT !.menu = m, !.stack = Append(@, u.menu),
                !.hover[m] = IF byPad THEN first ELSE 0]

Previous(u) ==
  IF u.stack = <<>> THEN u ELSE [u EXCEPT !.menu = Last(u.stack), !.stack = Front(@)]

\* pp2_menu_proc_overlay_back.  A text that is entered stays so.
OverlayBack(u) ==
  CASE u.state = "MENU"         -> IF u.menu = "PLAY" THEN [u EXCEPT !.state = "PLAYER_SETUP"]
                                   ELSE Previous(u)
    [] u.state = "PLAYER_SETUP" -> [u EXCEPT !.state = "MENU", !.stack = <<>>,
                                             !.menu = IF u.stack = <<>> THEN @ ELSE u.stack[1]]
    [] OTHER                    -> [u EXCEPT !.state = "MENU"]

\* pp2_menu_proc_overlay_next.  Called in a menu it goes to the choice of a level.
OverlayNext(u, byPad) ==
  CASE u.state = "PLAYER_SETUP" -> [Open(u, "PLAY", byPad) EXCEPT !.state = "MENU"]
    [] u.state = "MENU"         -> [u EXCEPT !.state = "LEVEL_SETUP"]
    [] OTHER                    -> u

\* The prompt for an address leaves the pad disabled, when it is over.
Activate(u, m, byPad) ==
  LET does == IF u.hover[m] = 0 THEN "" ELSE Elements[m][u.hover[m]]
  IN  CASE does \in MenuNames -> Open(u, does, byPad)
        [] does = "prompt"    -> [Open(u, "PROMPT", byPad) EXCEPT !.disabled = TRUE, !.text = TRUE]
        [] does = "ok"        -> [Previous(u) EXCEPT !.disabled = FALSE, !.text = FALSE]
        [] does = "join"      -> [u EXCEPT !.menu = "MAIN", !.stack = <<>>, !.text = FALSE]
        [] does = "setup"     -> [u EXCEPT !.state = "PLAYER_SETUP"]
        [] does = "bind"      -> [u EXCEPT !.skip = TRUE]
        [] does = "back"      -> OverlayBack(u)
        [] does = "next"      -> OverlayNext(u, byPad)
        [] OTHER              -> u

-----------------------------------------------------------------------------
(***************************************************************************)
(* pp2_menu_logic and pp2_process_menu: a tick.                            *)
(***************************************************************************)

\* The mouse chooses and starts in one.
ByMouse(u, m, click) ==
  LET v == Highlight(u, m, Under(m, mouse'))
  IN  IF click THEN Activate(v, m, FALSE) ELSE v

\* The pad works on the menu that is shown, the one it has just opened included.
ByPad(u, dirs, press) ==
  LET up   == IF "up" \in dirs THEN Highlight(u, u.menu, PreviousOf(u.menu, u.hover[u.menu])) ELSE u
      down == IF "down" \in dirs THEN Highlight(up, u.menu, NextOf(u.menu, up.hover[u.menu])) ELSE up
  IN  CASE press = "fire" -> Activate(down, u.menu, TRUE)
        [] press = "jump" -> OverlayBack(down)
        [] OTHER          -> down

NewSource(dirs) ==
  IF source = "mouse" THEN IF dirs # {} THEN "pad" ELSE "mouse"
  ELSE IF mouse' # mouse THEN "mouse" ELSE "pad"

\* Either the pad or the mouse is heard, so that one press is enough.
MenuTick ==
  /\ ui.state = "MENU" /\ Len(ui.stack) < MaxDepth
  /\ mouse' \in Spots
  /\ \E dirs \in SUBSET {"up", "down"}, press \in {"", "fire", "jump", "click"} :
       /\ source' = NewSource(dirs)
       /\ LET u == IF source' = "mouse" \/ ui.disabled THEN ByMouse(ui, ui.menu, press = "click")
                   ELSE IF ~ui.text /\ ~ui.skip THEN ByPad(ui, dirs, press) ELSE ui
          IN  ui' = [u EXCEPT !.skip = @ /\ ~ui.skip]

\* The other screens have a menu of their own beside them (t3f_process_gui); its
\* highlight is that of the mouse alone.
Beside == IF ui.state = "PLAYER_SETUP" THEN "SETUP_OVERLAY" ELSE "LEVEL_OVERLAY"

OverlayTick ==
  /\ ui.state # "MENU" /\ Len(ui.stack) < MaxDepth
  /\ mouse' \in Spots /\ UNCHANGED source
  /\ \E click \in BOOLEAN : ui' = ByMouse(ui, Beside, click)

\* pp2_player_setup_logic: each of the players who are done may press FIRE, and
\* in the tick in which several do the second one already acts on the menu.
Press(u) == LET v == OverlayNext(u, FALSE) IN Highlight(v, v.menu, 1)

SetupFire ==
  /\ ui.state = "PLAYER_SETUP" /\ ~ui.text /\ Len(ui.stack) < MaxDepth
  /\ LET after[k \in 0 .. MaxPads] == IF k = 0 THEN ui ELSE Press(after[k - 1])
     IN  \E n \in 1 .. MaxPads : ui' = after[n]
  /\ UNCHANGED <<source, mouse>>

\* Escape ends a text, and else goes back; the pad stays disabled.
Escape ==
  /\ ui' = IF ui.text THEN [ui EXCEPT !.text = FALSE] ELSE OverlayBack(ui)
  /\ UNCHANGED <<source, mouse>>

Next == MenuTick \/ OverlayTick \/ SetupFire \/ Escape

Spec == Init /\ [][Next]_vars

-----------------------------------------------------------------------------

\* What is highlighted, and would be started, is an entry of its menu; and from
\* wherever the highlight of the menu on the screen is left the pad comes by every
\* entry in either direction, with text between them, above them and below them.
Around(m, i, Step(_, _)) ==
  LET f[k \in 0 .. Count(m)] == IF k = 0 THEN i ELSE Step(m, f[k - 1])
  IN  {f[k] : k \in 1 .. Count(m)}

EveryEntryReached ==
  /\ \A m \in MenuNames : ui.hover[m] \in Entry(m) \cup {0}
  /\ ui.state = "MENU" =>
       /\ Around(ui.menu, ui.hover[ui.menu], NextOf) = Entry(ui.menu)
       /\ Around(ui.menu, ui.hover[ui.menu], PreviousOf) = Entry(ui.menu)

=============================================================================
