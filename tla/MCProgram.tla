----------------------------- MODULE MCProgram -----------------------------
(***************************************************************************)
(* What the program of one player does by itself: the ring of frames, the  *)
(* way of a body past the walls, bitmaps and atlases, replays, the library *)
(* of levels, music, and what is seen on the screen.  The parts share no   *)
(* state, so that every behaviour is one of one of them, while the others  *)
(* stay as they start.                                                     *)
(***************************************************************************)
EXTENDS InputBuffer, FiniteSets, TLC

CONSTANTS
  Nobody,
  Bitmaps, Tiles, MaxEntries, Room, MaxAtlases, MaxQueue,   \* see Resources
  Tracks, Missing, MaxPlays,   \* see Music
  Paths, Contents, Sum, Unreadable, MaxVersion, MaxChanges,   \* see Library
  NumPlayers, Games, FadeTime, CloakTime, Steps, MaxEvents   \* see Views

VARIABLES
  part,
  map, frame, x, y, other, broken, pushed,
  mem, level, screen, queue, strayed, left,
  joined, gp, show, recorded,
  files, store, prog, history,
  stream, stopping, thread, program, sound, wish,
  game, phase, turn, playing, active, dead, fade, cloaked, timer, target, blips,
  winner, grown, hidden, revived, events

-----------------------------------------------------------------------------
(* Levels of four by four tiles with walls around them: steps, a ledge that *)
(* only holds from above, and a slope.                                      *)
Open  == [solid |-> {}, slope |-> <<>>]
Ledge == [solid |-> {"top"}, slope |-> <<>>]
Solid == [solid |-> {"left", "top", "right", "bottom"}, slope |-> <<>>]
Slope == [solid |-> {"top"}, slope |-> <<3, 2, 1, 0>>]

Level(walls, ledges, slopes) ==
  [p \in (0 .. 5) \X (0 .. 5) |->
     IF p[1] \in {0, 5} \/ p[2] \in {0, 5} \/ p \in walls THEN Solid
     ELSE IF p \in ledges THEN Ledge
     ELSE IF p \in slopes THEN Slope
     ELSE Open]

MCMaps == { Level({<<1, 3>>, <<3, 4>>, <<4, 4>>}, {<<2, 3>>}, {}),
            Level({<<2, 2>>, <<4, 1>>}, {<<1, 2>>, <<3, 3>>}, {}),
            Level({<<3, 4>>, <<4, 4>>}, {}, {<<2, 4>>}) }

Body(kind, rx, ry, w, h) == [kind |-> kind, rx |-> rx, ry |-> ry, w |-> w, h |-> h]

MCFrames == {Body("player", 1, 1, 3, 6), Body("coin", 0, 0, 2, 2),
             Body("paintball", 1, 1, 2, 2)}

C == INSTANCE Collision
       WITH TileSize <- 4, Columns <- 6, Rows <- 6, Maps <- MCMaps, Frames <- MCFrames,
            Narrower <- 1, Starts <- {<<3, 5>>, <<7, 9>>, <<9, 4>>},
            Others <- {Nobody, <<12, 9>>}, None <- Nobody, MaxSpeed <- 3

-----------------------------------------------------------------------------
R == INSTANCE Resources

\* The tiles of a level are some of the places for bitmaps.
ASSUME ResourcesAssumption ==
  /\ IsFiniteSet(Bitmaps) /\ Tiles \subseteq Bitmaps /\ R!Freed \notin Bitmaps
  /\ MaxEntries \in Nat /\ Room \in Nat

MCDemo == <<<<0, 1>>, <<1, 1>>>>

P == INSTANCE Replay
       WITH Slots <- {1, 2}, Buttons <- {0, 1}, Rules <- {"r1", "r2"}, StepBack <- 1,
            Fast <- 2, FadeTicks <- 1, DemoTicks <- MCDemo,
            MaxTicks <- 1, MaxFiles <- 2, screen <- show, files <- recorded

\* Contents a and c have the same sum.
MCSum == "a" :> 1 @@ "b" :> 2 @@ "c" :> 1 @@ "x" :> 3

L == INSTANCE Library

ASSUME LibraryAssumption == IsFiniteSet(Paths)

M == INSTANCE Music

\* Silence is no track.
ASSUME MusicAssumption == M!Silence \notin Tracks /\ MaxPlays \in Nat

Played(clients, here, legacy, respawn) ==
  [clients |-> clients, here |-> here, legacy |-> legacy, respawn |-> respawn]

MCGames == { Played({{0}, {1}, {2}}, {0}, FALSE, TRUE),
             Played({{0, 2}, {1}}, {0, 2}, FALSE, FALSE),
             Played({{0, 1, 2}}, {0, 1, 2}, FALSE, FALSE),
             Played({{0, 1}, {2}}, {}, FALSE, FALSE),
             Played({{1, 2}, {0}}, {1, 2}, TRUE, TRUE) }

V == INSTANCE Views

\* The players of a machine are some of all players, and a fade takes more than a
\* tick.
ASSUME ViewsAssumption ==
  /\ NumPlayers \in Nat /\ FadeTime \in Nat /\ FadeTime >= 2
  /\ \A g \in Games : g.here \subseteq UNION g.clients /\ UNION g.clients \subseteq V!Players

-----------------------------------------------------------------------------
wallVars   == <<map, frame, x, y, other, broken, pushed>>
bitmapVars == <<mem, level, screen, queue, strayed, left>>
replayVars == <<joined, gp, show, recorded>>
fileVars   == <<files, store, prog, history>>
musicVars  == <<stream, stopping, thread, program, sound, wish>>
viewVars   == <<game, phase, turn, playing, active, dead, fade, cloaked, timer, target,
                blips, winner, grown, hidden, revived, events>>
allVars    == <<part, vars, wallVars, bitmapVars, replayVars, fileVars,
                musicVars, viewVars>>

\* The demo has other rules than those the program starts with.  Without walls
\* there is no level to move in.
NoWalls == /\ map = <<>> /\ frame = <<>> /\ x = 0 /\ y = 0 /\ other = Nobody
           /\ broken = FALSE /\ pushed = FALSE

MCInit ==
  /\ part \in {"buffer", "walls", "bitmaps", "replays", "files", "music", "views"}
  /\ Init /\ (part # "buffer" => data = [i \in Cells |-> Blank] /\ out = Blank)
  /\ IF part = "walls" THEN C!Init ELSE NoWalls
  /\ R!Init /\ (part # "bitmaps" => screen.windows)
  /\ P!Init /\ recorded[1].truth.rules = "r2"
  /\ part # "replays" => recorded[1].fault = P!None
  /\ L!Init /\ (part # "files" => files = [p \in Paths |-> L!None])
  /\ M!Init
  /\ V!Init /\ (part # "views" => game = CHOOSE g \in Games : TRUE)

Only(p) ==
  /\ part = p /\ part' = p
  /\ p # "buffer"  => UNCHANGED vars
  /\ p # "walls"   => UNCHANGED wallVars
  /\ p # "bitmaps" => UNCHANGED bitmapVars
  /\ p # "replays" => UNCHANGED replayVars
  /\ p # "files"   => UNCHANGED fileVars
  /\ p # "music"   => UNCHANGED musicVars
  /\ p # "views"   => UNCHANGED viewVars

MCNext ==
  \/ Only("buffer") /\ Next
  \/ Only("walls") /\ C!Next
  \/ Only("bitmaps") /\ R!Next
  \/ Only("replays") /\ P!Next
  \/ Only("files") /\ L!Next
  \/ Only("music") /\ M!Next
  \/ Only("views") /\ V!Next

MCSpec == MCInit /\ [][MCNext]_allVars

\* Collision: no body ends up in a wall.
OutOfWalls == part = "walls" => C!TypeOK /\ C!OutOfWalls

\* Resources: what can be drawn is in memory, through every change of display
\* until one follows what an unloaded level has left behind.
AllLive == R!AllLive

\* Replay: what is played back is the game that was recorded.
ReplayIsGame == P!ReplayIsGame

\* Library: the picture of a level is a picture of that level.
PreviewIsOfLevel == L!PreviewIsOfLevel

\* Music: what is heard is what was asked for last.
HeardAsAsked == M!HeardAsAsked

\* Views: every player at this machine has a view to itself, and a cloaked
\* player shows on none but its own.
EveryoneSees == V!SplitScreen /\ V!CloakHides
=============================================================================
