------------------------------ MODULE Arsenal ------------------------------
(***************************************************************************)
(* What one player carries: its weapons and their ammunition, the time it  *)
(* takes to reload, the weapon it is choosing, and its powers.             *)
(*                                                                         *)
(* A tick is the player's turn (pp2_control_player and the timers at the   *)
(* end of pp2_player_logic) followed by the objects it touches.  Other     *)
(* players appear only in that they may touch the same object first.       *)
(***************************************************************************)
EXTENDS Integers, FiniteSets

CONSTANTS
  NumWeapons,  \* PP2_PLAYER_MAX_WEAPONS; 8 in the code
  Powers,      \* cloak, jump, run, deflect, fly, turbo
  Turbo,       \* the power that halves the time to reload
  Reload,      \* 35
  PowerTime,   \* 600
  MaxAmmo,     \* 99
  AmmoWorth,   \* option PP2_OPTION_AMMO_WORTH
  StartAmmo    \* the possible options PP2_OPTION_START_AMMO_*, as functions

Weapons == 0 .. NumWeapons - 1

ASSUME ArsenalAssumption ==
  /\ NumWeapons \in Nat \ {0}
  /\ Turbo \in Powers
  /\ {Reload, PowerTime, MaxAmmo} \subseteq Nat \ {0}
  /\ AmmoWorth \in Nat
  /\ StartAmmo \subseteq [Weapons -> 0 .. MaxAmmo]

VARIABLES
  start,      \* the options of this game
  turn,       \* the player's turn is next, rather than the objects
  ammo,
  weapon,
  reload,     \* reload_time
  choosing,   \* choose_weapon
  want,       \* want_weapon
  powers,     \* PP2_PLAYER_FLAG_POWER_*
  timer,      \* timer[PP2_PLAYER_TIMER_*] of the powers
  sinceShot,  \* history: ticks since the last shot, up to Reload
  hasty       \* history: turbo was on since the last shot

arms    == <<ammo, weapon, reload, choosing, want>>
history == <<sinceShot, hasty>>
vars    == <<start, turn, arms, powers, timer, history>>

None == -1

TypeOK ==
  /\ start \in StartAmmo /\ turn \in BOOLEAN
  /\ ammo \in [Weapons -> 0 .. MaxAmmo]
  /\ weapon \in Weapons
  /\ reload \in -1 .. Reload
  /\ choosing \in BOOLEAN /\ want \in Weapons \cup {None}
  /\ powers \subseteq Powers
  /\ timer \in [Powers -> 0 .. PowerTime]
  /\ sinceShot \in 0 .. Reload /\ hasty \in BOOLEAN

\* The first weapon with ammunition, or the first of all.
FirstLoaded(a) ==
  IF \E w \in Weapons : a[w] > 0
  THEN CHOOSE w \in Weapons : a[w] > 0 /\ \A v \in 0 .. w - 1 : a[v] = 0
  ELSE 0

Init ==
  /\ start \in StartAmmo
  /\ turn = TRUE
  /\ ammo = start /\ weapon = FirstLoaded(start)
  /\ reload = 0
  /\ choosing = FALSE /\ want = 0
  /\ powers = {} /\ timer = [u \in Powers |-> 0]
  /\ sinceShot = Reload /\ hasty = FALSE

-----------------------------------------------------------------------------

\* The weapons after w, round to w itself, in the order they are tried.
After(w) == [i \in 1 .. NumWeapons |-> (w + i) % NumWeapons]

\* The next weapon with ammunition; w itself if there is none.
NextWeapon(a, w) ==
  LET loaded == {i \in 1 .. NumWeapons - 1 : a[After(w)[i]] > 0}
  IN  IF loaded = {} THEN w
      ELSE After(w)[CHOOSE i \in loaded : \A j \in loaded : i <= j]

Loaded == [ammo |-> ammo, weapon |-> weapon, reload |-> reload]

\* Mutation: a player that is reloading may fire.
MayFireEarly(a) == a.ammo[a.weapon] > 0 /\ a.reload <= 1

MayFire(a) == a.ammo[a.weapon] > 0 /\ a.reload <= 0

\* The paintball itself is the business of Paintballs.
Fire(a) ==
  LET left == [a.ammo EXCEPT ![a.weapon] = @ - 1]
      next == IF left[a.weapon] = 0 THEN NextWeapon(left, a.weapon) ELSE a.weapon
  IN  [ammo |-> left, weapon |-> next,
       reload |-> IF left[next] > 0 THEN Reload ELSE a.reload]

\* Mutation: what was wanted is not checked again when it is selected.
SelectWeaponWanted(a, w) ==
  IF w # None /\ a.weapon # w
  THEN [a EXCEPT !.weapon = w, !.reload = Reload]
  ELSE a

SelectWeapon(a, w) ==
  IF w # None /\ a.ammo[w] > 0 /\ a.weapon # w
  THEN [a EXCEPT !.weapon = w, !.reload = Reload]
  ELSE a

\* With turbo an odd time passes 0 and runs on below it; all negative times
\* are alike and stand as -1 here.
CountDown(r) ==
  LET left == IF Turbo \in powers THEN r - 2 ELSE r - 1
  IN  IF r = 0 THEN 0 ELSE IF left < 0 THEN -1 ELSE left

\* pointed: the weapon the pad points at while SELECT is held, or None.
Control(fires, selects, pointed) ==
  LET fired == IF fires /\ MayFire(Loaded) THEN Fire(Loaded) ELSE Loaded
      taken == IF choosing /\ ~selects THEN SelectWeapon(fired, want) ELSE fired
      old   == IF choosing THEN want ELSE None
  IN  /\ ammo' = taken.ammo /\ weapon' = taken.weapon
      /\ reload' = CountDown(taken.reload)
      /\ choosing' = selects
      /\ want' = IF ~selects THEN want
                 ELSE IF pointed # None /\ fired.ammo[pointed] > 0 THEN pointed
                 ELSE old
      /\ sinceShot' = IF fired # Loaded THEN 1
                      ELSE IF sinceShot = Reload THEN Reload ELSE sinceShot + 1
      /\ hasty' = (Turbo \in powers \/ (hasty /\ fired = Loaded))

WearOff ==
  /\ timer' = [u \in Powers |-> IF u \in powers THEN timer[u] - 1 ELSE timer[u]]
  /\ powers' = {u \in powers : timer[u] > 1}

Turn ==
  /\ turn
  /\ \E fires, selects \in BOOLEAN, pointed \in Weapons \cup {None} :
       /\ ~selects => pointed = None
       /\ Control(fires, selects, pointed)
  /\ WearOff
  /\ turn' = FALSE
  /\ UNCHANGED start

\* After its death the player starts anew; what it was choosing stays.
Respawn ==
  /\ turn
  /\ ammo' = start /\ weapon' = FirstLoaded(start)
  /\ reload' = 0
  /\ powers' = {} /\ timer' = [u \in Powers |-> 0]
  /\ sinceShot' = Reload /\ hasty' = FALSE
  /\ turn' = FALSE
  /\ UNCHANGED <<start, choosing, want>>

-----------------------------------------------------------------------------
(***************************************************************************)
(* Objects.                                                                *)
(***************************************************************************)

Lesser(a, b) == IF a < b THEN a ELSE b

\* switched: somebody with an empty weapon has touched the same ammunition
\* first, in the same tick; wswitch is then still set.
TakeAmmo(w, switched) ==
  LET empty == ammo[weapon] = 0
      more  == [ammo EXCEPT ![w] = Lesser(MaxAmmo, @ + AmmoWorth)]
  IN  /\ ammo' = more
      /\ weapon' = IF empty \/ switched THEN NextWeapon(more, weapon) ELSE weapon
      /\ reload' = IF empty THEN Reload ELSE reload
      /\ UNCHANGED <<choosing, want, powers, timer, history>>

TakePower(u) ==
  /\ powers' = powers \cup {u}
  /\ timer' = [timer EXCEPT ![u] = PowerTime]
  /\ UNCHANGED <<arms, history>>

Objects ==
  /\ ~turn
  /\ \/ \E w \in Weapons, switched \in BOOLEAN : TakeAmmo(w, switched)
     \/ \E u \in Powers : TakePower(u)
  /\ UNCHANGED <<start, turn>>

TickEnds ==
  /\ ~turn
  /\ turn' = TRUE
  /\ UNCHANGED <<start, arms, powers, timer, history>>

Next == Turn \/ Respawn \/ Objects \/ TickEnds

Spec == Init /\ [][Next]_vars

-----------------------------------------------------------------------------
(***************************************************************************)
(* Properties.                                                             *)
(***************************************************************************)

\* A player with any ammunition has a loaded weapon in hand, whatever it
\* fired, found, chose or wanted; nobody need look for the weapon that shoots.
WeaponLoaded == ammo[weapon] = 0 => \A w \in Weapons : ammo[w] = 0

\* The types, and that the weapon in hand is loaded, if any is.
WeaponsSound == TypeOK /\ WeaponLoaded

\* Between two shots of a life lie Reload ticks, or half as many where turbo
\* was on, however weapons are changed, emptied and filled in between.
FireRate ==
  [][\A w \in Weapons : ammo'[w] < ammo[w] /\ Turn
       => sinceShot >= (IF hasty THEN (Reload + 1) \div 2 ELSE Reload)]_vars
=============================================================================
