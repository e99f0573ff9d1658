----------------------------- MODULE Paintballs -----------------------------
(***************************************************************************)
(* The array of paintballs of one player: shots, what becomes of them at   *)
(* walls and at players, and the paintballs they split into.               *)
(*                                                                         *)
(* In a tick the player shoots at most once, then every cell of the array  *)
(* is served in order.  What is served is gone through to the end even if  *)
(* it was destroyed on the way: a paintball may break at two walls and at  *)
(* several players in the same tick, and a new one may lie in its cell     *)
(* before it is cleared.  Where things are is left open.                   *)
(***************************************************************************)
EXTENDS Integers, FiniteSets

CONSTANTS
  Players,       \* everybody; numbers
  Owner,         \* whose paintballs these are
  NumCells,      \* PP2_MAX_PAINTBALLS; 128
  Weapons,       \* the types of paintballs that are shot, see Types
  Fragments,     \* paintballs a personnel mine bursts into; 8
  Bounces,       \* of a reflector; 5
  ShotLeaves,    \* ticks in which a shot cannot hit its owner; 4
  PieceLeaves,   \* the same for what it splits into; 2
  Deflected      \* ticks in which it is not deflected again; 2

Cells == 1 .. NumCells
Types == {"normal", "splitter", "mine", "pmine", "bouncer", "seeker",
          "reflector", "ghost"}

VARIABLES
  ball,     \* player[Owner].paintball
  at,       \* the cell that is served next, 0 for the owner's turn
  struck    \* history: whom the last paintball served has struck, at what age

vars == <<ball, at, struck>>

Nobody == -1

\* served, how often it was served, up to ShotLeaves, is history.
BallType ==
  [active : BOOLEAN, type : Types, leaving : 0 .. ShotLeaves,
   deflect : 0 .. Deflected, counter : 0 .. Bounces,
   target : Players \cup {Nobody}, served : 0 .. ShotLeaves]

TypeOK ==
  /\ ball \in [Cells -> BallType]
  /\ at \in Cells \cup {0}
  /\ struck \subseteq Players \X (0 .. ShotLeaves)

\* A new paintball.  Of what lay in the cell before, deflect stays.
Fresh(type, leaving, deflect) ==
  [active |-> TRUE, type |-> type, leaving |-> leaving, deflect |-> deflect,
   counter |-> 0, target |-> Nobody, served |-> 0]

\* A cell without PP2_PAINTBALL_FLAG_ACTIVE.
Gone(b) == [Fresh("normal", 0, b.deflect) EXCEPT !.active = FALSE]

Init ==
  /\ ball = [c \in Cells |-> Gone(Fresh("normal", 0, 0))]
  /\ at = 0
  /\ struck = {}

-----------------------------------------------------------------------------

FreeCells(b) == {c \in Cells : ~b[c].active}
FirstFree(b) == CHOOSE c \in FreeCells(b) : \A d \in FreeCells(b) : c <= d

\* Mutation: leaving is only set for shots.
CreateLeft(b, type) ==
  IF FreeCells(b) = {} THEN b
  ELSE [b EXCEPT ![FirstFree(b)] = Fresh(type, 0, @.deflect)]

\* pp2_create_paintball
Create(b, type) ==
  IF FreeCells(b) = {} THEN b
  ELSE [b EXCEPT ![FirstFree(b)] = Fresh(type, PieceLeaves, @.deflect)]

Pieces(type) == CASE type = "splitter" -> 2 [] type = "pmine" -> Fragments [] OTHER -> 0

\* pp2_destroy_paintball.  The pieces may take the very cell, which is cleared
\* after them, if it was cleared once before.
Destroy(b, c) ==
  LET made[n \in 0 .. Pieces(b[c].type)] ==
        IF n = 0 THEN b ELSE Create(made[n - 1], "normal")
  IN  [made[Pieces(b[c].type)] EXCEPT ![c].active = FALSE]

\* The owner shoots; with no free cell the shot is lost.
Shoot ==
  /\ at = 0
  /\ \E w \in Weapons, t \in (Players \ {Owner}) \cup {Nobody} :
       /\ w # "seeker" => t = Nobody
       /\ ball' = IF FreeCells(ball) = {} THEN ball
                  ELSE [Create(ball, w) EXCEPT
                         ![FirstFree(ball)].leaving = ShotLeaves,
                         ![FirstFree(ball)].target = t,
                         ![FirstFree(ball)].counter = IF w = "reflector" THEN Bounces ELSE 0]
  /\ at' = 1
  /\ struck' = {}

HoldFire ==
  /\ at = 0
  /\ at' = 1
  /\ struck' = {}
  /\ ball' = ball

\* The owner died and starts anew, without its paintballs.
Respawn ==
  /\ at = 0
  /\ at' = 1
  /\ ball' = [c \in Cells |-> Gone(ball[c])]
  /\ struck' = {}

-----------------------------------------------------------------------------
(***************************************************************************)
(* One paintball, served in cell c.                                        *)
(***************************************************************************)

Reflect(b, c) ==
  IF b[c].counter > 0
  THEN [b EXCEPT ![c].counter = @ - 1]
  ELSE Destroy(b, c)

\* At an upright wall, and at a floor or a ceiling.
AtWall(b, c) ==
  CASE b[c].type \in {"normal", "splitter", "bouncer", "seeker"} -> Destroy(b, c)
    [] b[c].type = "reflector" -> Reflect(b, c)
    [] OTHER -> b

AtFloor(b, c) ==
  CASE b[c].type \in {"normal", "splitter", "seeker"} -> Destroy(b, c)
    [] b[c].type = "reflector" -> Reflect(b, c)
    [] OTHER -> b

\* What a paintball may come upon in one tick.  near: it has landed and
\* somebody is close, which sets a personnel mine off.
Ways == [wall : BOOLEAN, floor : BOOLEAN, near : BOOLEAN, lost : BOOLEAN]

\* The type is looked at once, before anything else may lie in the cell.
Moved(c, way) ==
  LET type == ball[c].type
      b0 == [ball EXCEPT ![c].deflect = IF @ > 0 THEN @ - 1 ELSE 0]
      b1 == IF way.wall THEN AtWall(b0, c) ELSE b0
      b2 == IF ~way.floor THEN b1
            ELSE IF type \in {"splitter", "seeker"} THEN Destroy(b1, c) ELSE AtFloor(b1, c)
  IN  IF type = "pmine" /\ way.near THEN Destroy(b2, c) ELSE b2

\* A seeker gives up a target that hides or is dead.
Untarget(b, c, hidden) ==
  IF b[c].type = "seeker" /\ b[c].leaving = 0 /\ b[c].target \in hidden
  THEN [b EXCEPT ![c].target = Nobody] ELSE b

\* Player p, who has the power to deflect, is touched.
Deflect(b, c, p, still) ==
  IF b[c].deflect > 0 THEN b
  ELSE IF still THEN Destroy(b, c)
  ELSE [b EXCEPT ![c].deflect = Deflected,
                 ![c].target = IF b[c].type # "seeker" THEN @
                               ELSE IF p = Owner THEN Nobody ELSE Owner]

Spared(b, c, p) == p = Owner /\ b[c].leaving > 0

\* The players in touching are served by their numbers; those in deflecting
\* send the paintball back.
Hit(b, c, touching, deflecting, still) ==
  LET last == CHOOSE p \in Players : \A q \in Players : q <= p
      hit[p \in -1 .. last] ==
        IF p = -1 THEN [balls |-> b, who |-> {}]
        ELSE LET h == hit[p - 1]
             IN  IF p \notin touching \/ Spared(h.balls, c, p) THEN h
                 ELSE IF p \in deflecting
                 THEN [h EXCEPT !.balls = Deflect(@, c, p, still)]
                 ELSE [balls |-> Destroy(h.balls, c),
                       who |-> h.who \cup {<<p, h.balls[c].served>>}]
  IN  hit[last]

Older(b) ==
  [b EXCEPT !.leaving = IF @ > 0 THEN @ - 1 ELSE 0,
            !.served = IF @ < ShotLeaves THEN @ + 1 ELSE @]

Tidy(b, c) == IF b[c].active THEN [b EXCEPT ![c] = Older(@)] ELSE [b EXCEPT ![c] = Gone(@)]

Serve ==
  /\ at \in Cells /\ ball[at].active
  /\ \E way \in Ways, hidden, deflecting, touching \in SUBSET Players, still \in BOOLEAN :
       /\ way.near => ball[at].type = "pmine"
       /\ still => ball[at].type \in {"mine", "pmine"}
       /\ deflecting \subseteq touching
       /\ way.lost => touching = {} /\ ~still
       /\ ball[at].type # "seeker" => hidden = {}
       /\ LET b == Untarget(Moved(at, way), at, hidden)
              h == Hit(b, at, touching, deflecting, still)
          IN  IF way.lost
              THEN ball' = [b EXCEPT ![at] = Gone(@)] /\ struck' = {}
              ELSE ball' = Tidy(h.balls, at) /\ struck' = h.who
  /\ at' = IF at = NumCells THEN 0 ELSE at + 1

Skip ==
  /\ at \in Cells /\ ~ball[at].active
  /\ at' = IF at = NumCells THEN 0 ELSE at + 1
  /\ struck' = {}
  /\ ball' = ball

Next == Shoot \/ HoldFire \/ Respawn \/ Serve \/ Skip

Spec == Init /\ [][Next]_vars

-----------------------------------------------------------------------------
(***************************************************************************)
(* Properties.                                                             *)
(***************************************************************************)

\* Nobody is struck by a paintball of its own before that has got clear of it,
\* be it a shot or a piece that came to lie in a cell in use a moment before.
OwnerSafe == \A s \in struck : s[1] = Owner => s[2] >= PieceLeaves
=============================================================================
