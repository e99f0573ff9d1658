------------------------------ MODULE Posture ------------------------------
(***************************************************************************)
(* How one player stands, walks, jumps, falls and ducks: the states of its *)
(* character, as buttons, the level and the other players change them.     *)
(*                                                                         *)
(* Where things are is left open: whether there is floor below, a wall or  *)
(* a ceiling in the way, and who is met, may turn out either way in every  *)
(* tick.  Of the vertical speed only the sign is kept.  The other players  *)
(* appear where their moves touch this one: those with smaller numbers     *)
(* before its turn of the tick, the others after it.                       *)
(***************************************************************************)
EXTENDS Integers

VARIABLES
  legacy,   \* legacy.character, legacy.level: made for Paintball Party 1
  phase,    \* what comes next, see Phases
  me,       \* the player, see PlayerType
  fading,   \* "out" after death, "in" after spawning, or "no"
  fresh,    \* history: has not touched the ground since it spawned
  stomp     \* history: the ticks since somebody last made it duck, and who moved

vars == <<legacy, phase, me, fading, fresh, stomp>>

\* A tick: lower numbers, four steps of the player's own turn, higher numbers.
Phases == {"lower", "posture", "floor", "meet", "land", "higher"}

Aims       == {"R", "DR", "D", "DL", "L", "UL", "U", "UR"}
Sides      == {"R", "L"}
OnGround   == {"STAND", "WALK", "DUCK"}
InAir      == {"JUMP", "FALL"}
Buttons    == {"LEFT", "RIGHT", "UP", "DOWN", "JUMP", "STRAFE"}

PlayerType ==
  [stance : OnGround \cup InAir,     \* state / 16
   face : Sides,                     \* state % 16 < 8
   aim : Aims,                       \* state % 8
   ground : BOOLEAN,                 \* PP2_PLAYER_FLAG_GROUND
   vy : {"up", "still", "down"},     \* sign of vy
   stomped : 0 .. 3,                 \* timer[PP2_PLAYER_TIMER_STOMPED]
   jumpedDown : BOOLEAN]             \* jumped_down

\* Ticks since a stomp are counted up to here.
LongAgo == 4

TypeOK ==
  /\ legacy \in [character : BOOLEAN, level : BOOLEAN]
  /\ phase \in Phases
  /\ me \in PlayerType
  /\ fading \in {"no", "out", "in"}
  /\ fresh \in BOOLEAN
  /\ stomp \in [since : 0 .. LongAgo, by : {"another", "itself"}]

Spawned ==
  [stance |-> "STAND", face |-> "R", aim |-> "R", ground |-> FALSE,
   vy |-> "still", stomped |-> 0, jumpedDown |-> FALSE]

Init ==
  /\ legacy \in [character : BOOLEAN, level : BOOLEAN]
  /\ phase = "lower"
  /\ me = Spawned
  /\ fading = "in"
  /\ fresh = TRUE
  /\ stomp = [since |-> LongAgo, by |-> "itself"]

-----------------------------------------------------------------------------
(***************************************************************************)
(* Buttons.  b is the set of buttons held down, s the player.              *)
(***************************************************************************)

Held(b, s) == IF "LEFT" \in b THEN "L" ELSE IF "RIGHT" \in b THEN "R" ELSE s.face
Sideways(b) == b \cap {"LEFT", "RIGHT"} # {}
Opposite(side) == IF side = "L" THEN "R" ELSE "L"

\* Where the pad points; with no direction held, straight ahead.
Pointed(b, side) ==
  LET vertical == IF "UP" \in b THEN "U" ELSE IF "DOWN" \in b THEN "D" ELSE ""
  IN  IF vertical = "" THEN side
      ELSE IF ~Sideways(b) THEN vertical
      ELSE IF vertical = "U" THEN (IF side = "L" THEN "UL" ELSE "UR")
      ELSE (IF side = "L" THEN "DL" ELSE "DR")

\* Holding strafe, a player keeps its aim; on the ground it does so even if stomped.
Strafe(b, s) ==
  IF s.stance \in InAir
  THEN [s EXCEPT !.face = Held(b, s)]
  ELSE CASE "DOWN" \in b -> [s EXCEPT !.stance = "DUCK"]
         [] "DOWN" \notin b /\ Sideways(b) ->
              [s EXCEPT !.stance = "WALK", !.face = Held(b, s)]
         [] OTHER -> [s EXCEPT !.stance = "STAND"]

OnFoot(b, s) ==
  LET side == Held(b, s)
      down == "DOWN" \in b /\ "UP" \notin b
  IN  [s EXCEPT
        !.face = side,
        !.aim = IF down /\ ~Sideways(b) THEN side ELSE Pointed(b, side),
        !.stance = IF Sideways(b) /\ ~(s.stance = "DUCK" /\ down) THEN "WALK"
                   ELSE IF down THEN "DUCK"
                   ELSE "STAND"]

Ducked(b, s) == IF s.stomped = 0 THEN OnFoot(b, s) ELSE s

Airborne(b, s) ==
  [s EXCEPT !.face = Held(b, s),
            !.aim = Pointed(b, Held(b, s)),
            !.stance = IF s.stance = "JUMP" /\ s.vy # "up" THEN "FALL"
                       ELSE IF s.stance = "FALL" /\ s.vy = "up" THEN "JUMP"
                       ELSE s.stance]

JumpUp(s)   == [s EXCEPT !.stance = "JUMP", !.vy = "up", !.ground = FALSE]
DropDown(s) == [s EXCEPT !.stance = "FALL", !.vy = "still", !.ground = FALSE,
                         !.jumpedDown = TRUE]

\* through: the floor below may be dropped through (pp2_player_partial_floor).
JumpKey(b, s, through) ==
  CASE "JUMP" \notin b -> s
    [] "JUMP" \in b /\ "DOWN" \in b /\ through /\ ~legacy.level -> DropDown(s)
    [] OTHER -> IF s.ground THEN JumpUp(s) ELSE s

Modern(b, s, choosing, through) ==
  LET t == CASE "STRAFE" \in b           -> Strafe(b, s)
             [] choosing /\ "STRAFE" \notin b -> s
             [] OTHER -> (CASE s.stance \in InAir -> Airborne(b, s)
                            [] s.stance = "DUCK"  -> Ducked(b, s)
                            [] OTHER              -> OnFoot(b, s))
      u == JumpKey(b, t, through)
  IN  IF u.stance = "JUMP" /\ u.vy = "down" THEN [u EXCEPT !.stance = "FALL"] ELSE u

Look(s, stance, side) == [s EXCEPT !.stance = stance, !.face = side, !.aim = side]

-----------------------------------------------------------------------------
(***************************************************************************)
(* Characters of Paintball Party 1 only have pictures straight ahead and,  *)
(* standing, up; what they do depends on the state they are in.            *)
(***************************************************************************)

LegacyStand(b, s) ==
  CASE "JUMP" \in b -> JumpUp(Look(s, "JUMP", s.face))
    [] "JUMP" \notin b /\ Sideways(b) ->
         Look(s, "WALK", IF "RIGHT" \in b
                         THEN IF s.face = "L" /\ "STRAFE" \in b THEN "L" ELSE "R"
                         ELSE IF s.face = "R" /\ "STRAFE" \in b THEN "R" ELSE "L")
    [] OTHER -> IF "UP" \in b THEN [s EXCEPT !.aim = "U"]
                ELSE IF "DOWN" \in b THEN Look(s, "DUCK", s.face) ELSE s

LegacyStandUp(b, s) ==
  CASE "JUMP" \in b -> JumpUp(Look(s, "JUMP", s.face))
    [] "JUMP" \notin b /\ "UP" \notin b -> Look(s, "STAND", s.face)
    [] OTHER -> s

LegacyWalk(b, s) ==
  LET forward  == IF s.face = "R" THEN "RIGHT" ELSE "LEFT"
      backward == IF s.face = "R" THEN "LEFT" ELSE "RIGHT"
      strafe   == "STRAFE" \in b
  IN  CASE "JUMP" \in b -> JumpUp(Look(s, "JUMP", s.face))
        [] "JUMP" \notin b /\ forward \notin b ->
             (IF strafe THEN s ELSE Look(s, "STAND", s.face))
        [] "JUMP" \notin b /\ {forward, backward} \subseteq b ->
             (IF strafe THEN s ELSE Look(s, "WALK", Opposite(s.face)))
        [] OTHER -> (IF "DOWN" \in b THEN Look(s, "DUCK", s.face)
                     ELSE IF "UP" \in b THEN [s EXCEPT !.stance = "STAND", !.aim = "U"]
                     ELSE s)

LegacyAir(b, s) ==
  LET backward == IF s.face = "R" THEN "LEFT" ELSE "RIGHT"
  IN  CASE s.stance = "JUMP" /\ s.vy = "down" -> [s EXCEPT !.stance = "FALL"]
        [] s.stance = "FALL" /\ s.vy = "up"   -> [s EXCEPT !.stance = "JUMP"]
        [] OTHER -> IF backward \in b /\ "STRAFE" \notin b
                    THEN Look(s, s.stance, Opposite(s.face)) ELSE s

LegacyDuck(b, s, through) ==
  CASE "JUMP" \in b /\ through /\ ~legacy.level -> DropDown(s)
    [] OTHER -> IF "DOWN" \notin b /\ s.stomped = 0 THEN Look(s, "STAND", s.face) ELSE s

Legacy(b, s, choosing, through) ==
  CASE choosing \/ s.aim \notin {s.face, "U"}      -> s
    [] ~choosing /\ s.stance = "STAND" /\ s.aim = s.face -> LegacyStand(b, s)
    [] ~choosing /\ s.stance = "STAND" /\ s.aim = "U"    -> LegacyStandUp(b, s)
    [] ~choosing /\ s.stance = "WALK" /\ s.aim = s.face  -> LegacyWalk(b, s)
    [] ~choosing /\ s.stance = "DUCK" /\ s.aim = s.face  -> LegacyDuck(b, s, through)
    [] ~choosing /\ s.stance \in InAir /\ s.aim = s.face -> LegacyAir(b, s)
    [] OTHER -> s

-----------------------------------------------------------------------------
(***************************************************************************)
(* The player's own turn.                                                  *)
(***************************************************************************)

\* The sign of vy after gravity, or thrust with the power to fly.
Pulled(b, s, flying) ==
  LET falling == CASE s.vy = "up" -> {"up", "still", "down"} [] OTHER -> {"down"}
  IN  CASE flying /\ "JUMP" \in b /\ ~s.jumpedDown ->
             (IF s.vy = "down" THEN {"up", "still", "down"} ELSE {"up"})
        [] OTHER -> IF s.ground THEN {s.vy} ELSE falling

\* pp2_player_stop, by friction or at a wall.
Stop(s) == IF s.stance = "WALK" THEN [s EXCEPT !.stance = "STAND"] ELSE s

\* What buttons, friction and gravity do.
Adjust ==
  /\ phase = "posture" /\ fading = "no"
  /\ \E b \in SUBSET Buttons, choosing, through, flying, stops \in BOOLEAN :
       /\ through => me.ground
       /\ LET t == IF legacy.character THEN Legacy(b, me, choosing, through)
                                       ELSE Modern(b, me, choosing, through)
              u == [t EXCEPT !.jumpedDown = @ /\ "JUMP" \in b]
          IN  \E v \in Pulled(b, u, flying) :
                me' = [IF stops THEN Stop(u) ELSE u EXCEPT !.vy = v]
  /\ fresh' = (fresh /\ me'.stance \notin InAir)
  /\ phase' = "floor"
  /\ UNCHANGED <<legacy, fading, stomp>>

\* The states from which a legacy character falls when the floor ends.
LegacyFalls(s) ==
  \/ s.stance = "STAND" /\ s.aim \in {s.face, "U"}
  \/ s.stance \in {"WALK", "DUCK"} /\ s.aim = s.face

Fallen(s) ==
  LET t == [s EXCEPT !.ground = FALSE]
  IN  IF ~legacy.character THEN [t EXCEPT !.stance = "FALL"]
      ELSE IF LegacyFalls(s) THEN Look(t, "FALL", s.face) ELSE t

\* Moving sideways: into a wall, or off the floor.
MoveX ==
  /\ phase = "floor"
  /\ \E wall \in BOOLEAN, floor \in BOOLEAN :
       LET s == IF wall THEN Stop(me) ELSE me
       IN  me' = IF s.ground /\ ~floor THEN Fallen(s) ELSE s
  /\ fresh' = (fresh /\ me'.stance \notin InAir)
  /\ phase' = "meet"
  /\ UNCHANGED <<legacy, fading, stomp>>

\* Above somebody else a player jumps; below, it ducks if it was on its feet.
OnTop(s) ==
  LET t == IF legacy.character THEN Look(s, "JUMP", s.face) ELSE [s EXCEPT !.stance = "JUMP"]
  IN  [t EXCEPT !.vy = "up", !.ground = FALSE]

Ducks(s) == s.stance \in {"STAND", "WALK"}

\* Mutation: a legacy character ducks the way the others do.
BelowAlike(s, higher) ==
  IF Ducks(s)
  THEN [s EXCEPT !.stance = "DUCK", !.vy = "still", !.stomped = IF higher THEN 3 ELSE 2]
  ELSE [s EXCEPT !.vy = "still"]

Below(s, higher) ==
  IF Ducks(s)
  THEN LET t == IF legacy.character THEN Look(s, "DUCK", s.face)
                ELSE [s EXCEPT !.stance = "DUCK"]
       IN  [t EXCEPT !.vy = "still", !.stomped = IF higher THEN 3 ELSE 2]
  ELSE [s EXCEPT !.vy = "still"]

\* higher: this player has the higher number of the two.
Touched(mover, higher) ==
  \/ /\ me' = OnTop(me)
     /\ fresh' = FALSE
     /\ stomp' = stomp
  \/ /\ me' = Below(me, higher)
     /\ fresh' = fresh
     /\ stomp' = IF Ducks(me)
                 THEN [since |-> IF fading = "no" THEN 0 ELSE LongAgo, by |-> mover]
                 ELSE stomp

\* Moving up or down into another player, as often as there are others.
Meet ==
  /\ phase = "meet"
  /\ \E higher \in BOOLEAN : Touched("itself", higher)
  /\ UNCHANGED <<legacy, phase, fading>>

MoveY ==
  /\ phase = "meet"
  /\ phase' = "land"
  /\ UNCHANGED <<legacy, me, fading, fresh, stomp>>

Landed(s) == [s EXCEPT !.stance = "STAND", !.ground = TRUE, !.vy = "still"]

\* Floor or ceiling, then the timers.
Arrive ==
  /\ phase = "land"
  /\ \E s \in {me} \cup (IF me.ground /\ me.vy # "down" THEN {} ELSE {Landed(me)})
               \cup (IF me.vy = "up" THEN {[me EXCEPT !.vy = "still"]} ELSE {}) :
       /\ me' = [s EXCEPT !.stomped = IF @ > 0 THEN @ - 1 ELSE 0]
       /\ fresh' = (fresh /\ ~s.ground)
  /\ phase' = "higher"
  /\ UNCHANGED <<legacy, fading, stomp>>

-----------------------------------------------------------------------------
(***************************************************************************)
(* Death, and the rest of the tick.                                        *)
(***************************************************************************)

\* Fading, a player keeps still and its turn is over.
Fade ==
  /\ phase = "posture"
  /\ phase' = "higher"
  /\ \/ fading \in {"no", "out"} /\ fading' = "out" /\ UNCHANGED <<me, fresh, stomp>>
     \/ /\ fading = "out" /\ fading' = "in"
        /\ me' = Spawned /\ fresh' = TRUE /\ stomp' = [stomp EXCEPT !.since = LongAgo]
     \/ fading = "in" /\ fading' \in {"in", "no"} /\ UNCHANGED <<me, fresh, stomp>>
  /\ UNCHANGED legacy

\* Another player moves into this one.
Others ==
  /\ phase \in {"lower", "higher"} /\ fading # "out"
  /\ Touched("another", phase = "lower")
  /\ UNCHANGED <<legacy, phase, fading>>

OthersMoved ==
  /\ phase = "lower"
  /\ phase' = "posture"
  /\ UNCHANGED <<legacy, me, fading, fresh, stomp>>

\* Objects come last: springs turn who flies into them.
TickEnds ==
  /\ phase = "higher"
  /\ \/ me' = me
     \/ me.vy = "down" /\ me' = [me EXCEPT !.vy = "up"]
     \/ me.vy = "up" /\ me' = [me EXCEPT !.vy = "down"]
  /\ stomp' = [stomp EXCEPT !.since = IF @ = LongAgo THEN LongAgo ELSE @ + 1]
  /\ phase' = "lower"
  /\ UNCHANGED <<legacy, fading, fresh>>

Next ==
  \/ Others \/ OthersMoved
  \/ Adjust \/ MoveX \/ Meet \/ MoveY \/ Arrive \/ Fade
  \/ TickEnds

Spec == Init /\ [][Next]_vars

-----------------------------------------------------------------------------
(***************************************************************************)
(* Properties.                                                             *)
(***************************************************************************)

\* The ground flag and the stance are kept apart in a dozen places; they agree
\* at every step, but for a player that has not landed since it spawned.
GroundAgrees == ~fresh => (me.ground <=> me.stance \in OnGround)

\* A legacy character is only ever in a state the legacy logic has a case for:
\* in any other it could neither move nor be seen.
NeverFrozen ==
  legacy.character =>
    \/ me.aim = me.face
    \/ me.aim = "U" /\ me.stance = "STAND"

\* A player somebody else lands on counts as stomped to the end of the second tick
\* after, and no longer, whichever of the two is served first in a tick.  (On the
\* ground one who strafes can change its stance all the same.)
StompIsEven ==
  phase = "posture" /\ fading = "no" /\ stomp.by = "another" /\ stomp.since < LongAgo
    => (me.stomped > 0 <=> stomp.since <= 2)

=============================================================================
