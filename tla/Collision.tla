----------------------------- MODULE Collision -----------------------------
(***************************************************************************)
(* Moving bodies and the tiles of a level: t3f/collision.c, and what the   *)
(* players, the paintballs and the coins do with it.                       *)
(*                                                                         *)
(* A body is a rectangle that is tested at points on its four edges.  In a *)
(* tick it is moved along x, set back if an edge has crossed into a tile   *)
(* that is solid on that side, then moved along y and set back again.  The *)
(* library only looks at tiles a point crossed into in this very move: a   *)
(* body that has once got into a wall is not put out of it again.          *)
(*                                                                         *)
(* Positions are whole pixels.  How a body gets its speed is left open;    *)
(* it is less than a tile in a tick, as the code's limits make it.         *)
(***************************************************************************)
EXTENDS Integers, FiniteSets

CONSTANTS
  TileSize,      \* width and height of a tile; 32
  Columns,       \* of the level, in tiles
  Rows,
  Maps,          \* levels: functions from <<column, row>>, from 0, to tiles
  Frames,        \* what is moved: its kind, and rx, ry, w and h of its object
  Narrower,      \* pixels object[2] is narrower on each side; 12
  Starts,        \* where bodies start, in pixels
  Others,        \* where another player may stand, None for nobody
  None,
  MaxSpeed       \* pixels in a tick; bound, less than TileSize

Sides == {"top", "bottom", "left", "right"}
Kinds == {"player", "paintball", "coin"}

\* A tile: the sides it is solid on, and its slope, <<>> or the height of
\* the ground under its top for every column of pixels.
Solid == [solid |-> Sides, slope |-> <<>>]
Open == [solid |-> {}, slope |-> <<>>]
Ledge == [solid |-> {"top"}, slope |-> <<>>]

VARIABLES
  map,        \* collision_tilemap
  frame,      \* the kind of body and its points
  x, y,       \* where it is
  other,      \* where the other player stands
  broken,     \* the paintball was destroyed
  pushed      \* history: it was set back from the other player

vars == <<map, frame, x, y, other, broken, pushed>>

TypeOK ==
  /\ map \in Maps
  /\ frame \in Frames
  /\ x \in Int /\ y \in Int
  /\ other \in Others
  /\ broken \in BOOLEAN /\ pushed \in BOOLEAN

-----------------------------------------------------------------------------
\* Division and fmodf of C: towards 0, with the sign of the dividend.
Div(a) == IF a >= 0 THEN a \div TileSize ELSE -((-a) \div TileSize)
Snap(a) == Div(a) * TileSize
Mod(a) == a - Snap(a)

\* The points along an edge: the middle, one every tile, and the last.  A
\* paintball's are made again for its size, by other formulas.
Centre(from, len, kind) ==
  IF kind = "player" THEN from + len \div 2 ELSE (from + len) \div 2
Along(from, len, kind) ==
  LET end == IF kind = "player" THEN from + len ELSE len
  IN {Centre(from, len, kind), from + len - 1}
       \cup {i \in from .. end - 1 : (i - from) % TileSize = 0}

Near(f, axis) == IF axis = "x" THEN f.rx ELSE f.ry
Far(f, axis) == IF axis = "x" THEN f.rx + f.w - 1 ELSE f.ry + f.h - 1

Points(f, side) ==
  CASE side = "top" -> Along(f.rx, f.w, f.kind) \X {f.ry}
    [] side = "bottom" -> Along(f.rx, f.w, f.kind) \X {Far(f, "y")}
    [] side = "left" -> {f.rx} \X Along(f.ry, f.h, f.kind)
    [] side = "right" -> {Far(f, "x")} \X Along(f.ry, f.h, f.kind)

\* point[0] of the bottom
Foot(f) == <<Centre(f.rx, f.w, f.kind), Far(f, "y")>>

\* object[2] of a player, to see whether a head only grazes a tile
Slim(f) == [f EXCEPT !.rx = @ + Narrower, !.w = @ - 2 * Narrower]

\* The tile a pixel is in; levels go round.
At(px, py) == <<(px % (Columns * TileSize)) \div TileSize,
                (py % (Rows * TileSize)) \div TileSize>>
Tile(px, py) == map[At(px, py)]
Sloped(px, py) == Tile(px, py).slope # <<>>

\* The object: where it is, where it was, and what it moved by.
Object(px, py) == [x |-> px, y |-> py, ox |-> px, oy |-> py, vx |-> 0, vy |-> 0]
MoveX(o, nx) == [o EXCEPT !.ox = o.x, !.x = nx, !.vx = nx - o.x]
MoveY(o, ny) == [o EXCEPT !.oy = o.y, !.y = ny, !.vy = ny - o.y]

-----------------------------------------------------------------------------
\* An edge has crossed into a tile that is solid on the side it came from.
HitsLeft(o, f) ==
  /\ o.vx < 0
  /\ \E p \in Points(f, "left") :
       /\ Mod(o.x + p[1]) > Mod(o.ox + p[1])
       /\ "right" \in Tile(o.x + p[1], o.y + p[2]).solid

HitsRight(o, f) ==
  /\ o.vx > 0
  /\ \E p \in Points(f, "right") :
       /\ Mod(o.x + p[1]) < Mod(o.ox + p[1])
       /\ "left" \in Tile(o.x + p[1], o.y + p[2]).solid

HitsTop(o, f) ==
  /\ o.vy < 0
  /\ \E p \in Points(f, "top") :
       /\ Mod(o.y + p[2]) > Mod(o.oy + p[2])
       /\ "bottom" \in Tile(o.x + p[1], o.y + p[2]).solid

\* The ground of a sloped tile at column px, if py is in that tile
Ground(t, px, py) == Snap(py) + t.slope[Mod(px) + 1]

\* The foot went through the slope of tile t, found at height ty: it was at
\* from or above where it came from, and is at to, below where it is.
Through(t, ty, fromX, toX, from, to) ==
  /\ t.slope # <<>>
  /\ from <= Ground(t, fromX, ty)
  /\ to > Ground(t, toX, ty)

HitsSlope(o, f, crossed) ==
  LET px == o.x + Foot(f)[1]   qx == o.ox + Foot(f)[1]
      py == o.y + Foot(f)[2]   qy == o.oy + Foot(f)[2]
      here == Tile(px, py)     there == Tile(qx, qy)
      beside == Tile(qx, py)   above == Tile(px, qy)
  IN /\ (crossed /\ Sloped(px, qy)) \/ Sloped(px, py) \/ Sloped(qx, py)
     /\ \/ At(px, py) = At(qx, qy) /\ Through(here, py, px, px, qy, py)
        \/ /\ crossed /\ At(px, py) # At(px, qy)
           /\ Through(above, qy, px, px, qy, py) \/ Through(here, py, px, px, qy, py)
        \/ At(px, py) = At(qx, py) /\ Through(beside, py, qx, px, qy, qy)
        \/ /\ At(px, py) # At(qx, qy)
           /\ \/ Through(here, py, px, px, qy, py)
              \/ Through(there, qy, qx, qx, qy, py)
              \/ Through(above, qy, px, px, qy, py)
              \/ here.slope # <<>> /\ Through(beside, py, qx, px, qy, qy)

HitsBottom(o, f) ==
  LET Crossed(p) == Mod(o.y + p[2]) < Mod(o.oy + p[2])
      over == {p \in Points(f, "bottom") : Crossed(p)}
  IN /\ o.vy > 0
     /\ \/ \E p \in over : "top" \in Tile(o.x + p[1], o.y + p[2]).solid
        \/ HitsSlope(o, f, over # {})

\* Where to put the body so that the edge is just out of the tile.
TilemapX(o, f) ==
  LET left == Snap(o.x + f.rx) + TileSize
      right == Snap(o.x + Far(f, "x")) - f.w - f.rx
      Outside(edge, to) == IF edge < 0 THEN to - TileSize ELSE to
  IN IF o.x < o.ox THEN Outside(left, left - f.rx)
     ELSE IF o.x > o.ox THEN Outside(right, right)
     ELSE o.x

\* On sloped ground the foot is put on the slope of the tile it is in, else
\* on that of the tile below or above; else on a flat tile.  The offset ry
\* of the object is not counted here.
WalkPosition(o, f) ==
  LET px == o.x + Foot(f)[1]
      py == o.y + Foot(f)[2]
      Has(dy) == "top" \in Tile(px, py + dy).solid
      Slope(dy) == Has(dy) /\ Sloped(px, py + dy)
      On(dy) == Snap(py + dy) - f.h
                  + (IF Slope(dy) THEN Tile(px, py + dy).slope[Mod(px) + 1] ELSE 0)
  IN CASE Slope(0) -> On(0)
       [] ~Slope(0) /\ Slope(TileSize) -> On(TileSize)
       [] ~Slope(0) /\ ~Slope(TileSize) /\ Slope(-TileSize) -> On(-TileSize)
       [] OTHER -> IF Has(0) THEN On(0)
                   ELSE IF Has(TileSize) THEN On(TileSize) ELSE o.y

TilemapY(o, f) ==
  LET top == Snap(o.y + f.ry) + TileSize
      px == o.x + Foot(f)[1]
      py == Foot(f)[2]
  IN IF o.y < o.oy THEN IF top < 0 THEN top - f.ry - TileSize ELSE top - f.ry
     ELSE IF o.y > o.oy
     THEN IF Sloped(px, o.y + py) \/ Sloped(px, o.oy + py)
          THEN WalkPosition(o, f)
          ELSE Snap(o.y + Far(f, "y")) - f.h - f.ry
     ELSE o.y

-----------------------------------------------------------------------------
\* Two bodies overlap.
Overlaps(o, f, p) ==
  /\ other # None
  /\ \A a \in {"x", "y"} :
       LET mine == (IF a = "x" THEN o.x ELSE o.y)
           its == (IF a = "x" THEN p[1] ELSE p[2])
       IN /\ mine + Near(f, a) <= its + Far(f, a)
          /\ its + Near(f, a) <= mine + Far(f, a)

\* Where to put o so that it just touches a body like itself at p.
Beside(now, v, at, f, axis) ==
  IF v < 0 THEN at + Far(f, axis) - Near(f, axis) + 1
  ELSE IF v > 0 THEN at - Far(f, axis) + Near(f, axis) - 1
  ELSE now

Side(o, f) == HitsLeft(o, f) \/ HitsRight(o, f)

\* A head that only grazes a tile with its corner slips past it.
FudgeX(o, f) ==
  LET to == IF Mod(o.x + Slim(f).rx) < Mod(o.x + f.rx)
            THEN Snap(o.x + f.rx) + TileSize - f.rx
            ELSE Snap(o.x + Far(f, "x")) - f.w - f.rx
  IN IF to < 0 THEN to - TileSize ELSE to

-----------------------------------------------------------------------------
(* The player.  From the other player it is set back first; then it moves  *)
(* the other way for the tests of the walls.  Along y only the object of   *)
(* whoever is on top follows.                                              *)

AcrossX(o, f) ==
  LET met == Overlaps(o, f, other)
      apart == IF met THEN MoveX(o, Beside(o.x, o.vx, other[1], f, "x")) ELSE o
      foot == Foot(f)
  IN IF ~Sloped(apart.x + foot[1], apart.y + foot[2]) /\ Side(apart, f)
     THEN MoveX(apart, TilemapX(apart, f))
     ELSE apart

\* The object when the move along y is over; its y is the player's.
Stopped(o, f) == MoveY(o, TilemapY(o, f))

\* Mutant: the narrow object is not asked.
BumpHeadAlways(o, f) ==
  LET past == MoveX(o, FudgeX(o, f))
  IN IF Overlaps(past, f, other) THEN Stopped(MoveX(past, o.x), f) ELSE past

BumpHead(o, f) ==
  LET past == MoveX(o, FudgeX(o, f))
  IN IF HitsTop(o, Slim(f)) THEN Stopped(o, f)
     ELSE IF Overlaps(past, f, other) THEN Stopped(MoveX(past, o.x), f)
     ELSE past

AcrossY(o, f) ==
  IF HitsBottom(o, f) THEN Stopped(o, f)
  ELSE IF HitsTop(o, f) THEN BumpHead(o, f)
  ELSE o

OnFloor ==
  \E p \in Points(frame, "bottom") :
    "top" \in Tile(x + p[1], y + p[2] + 1).solid

\* All it stands on is solid only on top.
PartialFloor ==
  \A p \in Points(frame, "bottom") :
    LET t == Tile(x + p[1], y + p[2] + 1).solid
    IN "top" \in t => t = {"top"}

\* A tick; d is how far it moves, the other player's y aside.
Move(d) ==
  /\ frame.kind = "player"
  /\ LET o == AcrossX(MoveX(Object(x, y), x + d[1]), frame)
         down == MoveY(o, y + d[2])
         met == Overlaps(down, frame, other)
         set == MoveY(down, Beside(down.y, down.vy, other[2], frame, "y"))
         end == AcrossY(IF met /\ down.y < other[2] THEN set ELSE down, frame)
     IN /\ x' = end.x
        /\ y' = IF met /\ end.y = down.y THEN set.y ELSE end.y
        /\ pushed' = (pushed \/ met
                        \/ Overlaps(MoveX(Object(x, y), x + d[1]), frame, other))
  /\ UNCHANGED <<map, frame, other, broken>>

\* Down and jump, on a ledge.
DropDown ==
  /\ frame.kind = "player" /\ OnFloor /\ PartialFloor
  /\ y' = y + 1
  /\ UNCHANGED <<map, frame, x, other, broken, pushed>>

-----------------------------------------------------------------------------
\* A coin is set back and moves on; a paintball breaks where it is set back.
Fly(d) ==
  /\ frame.kind # "player" /\ ~broken
  /\ LET moved == MoveX(Object(x, y), x + d[1])
         wall == Side(moved, frame)
                   /\ ~(frame.kind = "paintball"
                          /\ Sloped(moved.x + Foot(frame)[1], moved.y + Foot(frame)[2]))
         set == IF wall /\ frame.kind = "coin"
                THEN MoveX(moved, TilemapX(moved, frame)) ELSE moved
         down == MoveY(set, y + d[2])
         top == HitsTop(down, frame)
         up == IF top THEN Stopped(down, frame) ELSE down
         end == IF HitsBottom(up, frame) /\ (frame.kind = "coin" \/ ~top)
                THEN Stopped(up, frame) ELSE up
     IN /\ x' = IF wall THEN TilemapX(moved, frame) ELSE moved.x
        /\ y' = end.y
        /\ broken' = (frame.kind = "paintball"
                       /\ (wall \/ top \/ HitsBottom(down, frame)))
  /\ UNCHANGED <<map, frame, other, pushed>>

\* A paintball that comes out of its player's weapon into a full tile, on
\* the sides that lead, is set back along all axes it flies along.
Leads(dx, dy) ==
  (IF dx = 0 THEN {} ELSE {IF dx > 0 THEN "right" ELSE "left"})
    \cup (IF dy = 0 THEN {} ELSE {IF dy > 0 THEN "bottom" ELSE "top"})
PositionOk(px, py, f, dx, dy) ==
  \A side \in Leads(dx, dy) : \A p \in Points(f, side) :
    LET t == Tile(px + p[1], py + p[2]).solid
    IN IF side \in {"left", "right"} THEN ~({"left", "right"} \subseteq t)
       ELSE ~({"top", "bottom"} \subseteq t)
Adjusted(px, py, f, dx, dy) ==
  IF PositionOk(px, py, f, dx, dy) THEN <<px, py>>
  ELSE <<CASE dx > 0 -> Snap(px + Far(f, "x")) - f.w - f.rx
           [] dx < 0 -> Snap(px + f.rx) + TileSize - f.rx
           [] OTHER -> px,
         CASE dy > 0 -> Snap(py + Far(f, "y")) - f.h - f.ry
           [] dy < 0 -> Snap(py + f.ry) + TileSize - f.ry
           [] OTHER -> py>>

-----------------------------------------------------------------------------
\* A corner or any other point of the body lies in a tile solid all round.
InWall(px, py, f) ==
  \E side \in Sides : \E p \in Points(f, side) :
    Tile(px + p[1], py + p[2]) = Solid

\* The player who shoots stands in the open; the paintball appears up to
\* MaxSpeed ahead of that.
Init ==
  /\ map \in Maps /\ frame \in Frames
  /\ \E s \in Starts :
       /\ ~InWall(s[1], s[2], frame)
       /\ IF frame.kind = "paintball"
          THEN \E dx, dy \in -1 .. 1 :
                 /\ <<dx, dy>> # <<0, 0>>
                 /\ LET at == Adjusted(s[1] + dx * MaxSpeed, s[2] + dy * MaxSpeed,
                                      frame, dx, dy)
                    IN x = at[1] /\ y = at[2]
          ELSE x = s[1] /\ y = s[2]
  /\ other \in Others
  /\ other # None => /\ frame.kind = "player"
                     /\ ~InWall(other[1], other[2], frame)
                     /\ ~Overlaps(Object(x, y), frame, other)
  /\ broken = FALSE /\ pushed = FALSE

Speeds == (-MaxSpeed .. MaxSpeed) \X (-MaxSpeed .. MaxSpeed)

Next ==
  \/ \E d \in Speeds : Move(d)
  \/ DropDown
  \/ \E d \in Speeds : Fly(d)

Spec == Init /\ [][Next]_vars

-----------------------------------------------------------------------------
\* Nothing gets into a wall, however it flies, walks, jumps past corners and
\* drops through ledges: no point of a body is in a tile that is solid all
\* round, although only points that cross into a tile are tested.  Two ways
\* in are left out, which the code leaves open: a player set back from
\* another has turned round when its walls are tested, and a coin set back
\* from a ceiling is tested against the ledge it has not left yet.
OutOfWalls ==
  \/ pushed \/ broken
  \/ \E t \in DOMAIN map : map[t].slope # <<>>
  \/ frame.kind = "coin" /\ \E t \in DOMAIN map : map[t] = Ledge
  \/ ~InWall(x, y, frame)
=============================================================================
