----------------------------- MODULE Resources -----------------------------
(***************************************************************************)
(* The bitmaps and fonts in memory, the table by which they are given up   *)
(* and loaded again when the display loses them, the atlases some of them  *)
(* are drawn on, and the display itself: its events, the loop that handles *)
(* them between logic and drawing, and its change of mode.                 *)
(*                                                                         *)
(* A bitmap of the model is a T3F_BITMAP or T3F_FONT, that is, a place     *)
(* that holds a pointer; its pixels are an object.  Sizes, padding and     *)
(* what is drawn are left out.                                             *)
(***************************************************************************)
EXTENDS Naturals, Sequences, SequencesExt, FiniteSets

CONSTANTS
  Bitmaps,     \* places for a bitmap
  Tiles,       \* those that hold the tiles of a level while it is in memory
  MaxEntries,  \* places in the resource table (1024)
  Room,        \* bitmaps that fit on the page of an atlas
  MaxAtlases,  \* bound: atlases ever made at one time (the array holds 32)
  MaxQueue     \* bound: events waiting

VARIABLES
  mem,      \* bitmaps, objects, resource table and atlases
  level,    \* the atlas of the level's tileset; 0 while no level is loaded
  screen,   \* the display, the timer and how far a halt has come
  queue,    \* t3f_queue
  strayed,  \* history: bitmaps came or went while drawing was halted
  left      \* history: atlases that a level has left behind

vars == <<mem, level, screen, queue, strayed, left>>

Freed  == "freed"    \* what a reference to a destroyed bitmap leads to
Closed == [open |-> FALSE, obj |-> 0, on |-> 0]
Open(m) == {b \in Bitmaps : m.bmp[b].open}

Least(S) == CHOOSE i \in S : \A j \in S : i <= j
Unused(S) == CHOOSE i \in (1 .. Cardinality(S) + 1) \ S : TRUE

Registered(m, b) == b \in ToSet(m.entry)

\* Whatever the handler of a resource makes when it is not to destroy: a bitmap
\* from a file or out of one that is open, an empty one, or a font.
NewObject(m, b) ==
  LET o == Unused(m.live)
  IN [m EXCEPT !.bmp[b] = [open |-> TRUE, obj |-> o, on |-> 0], !.live = @ \union {o}]

\* Without a place in the table b is never loaded again, nor noticed.
AddResource(m, b) ==
  IF Len(m.entry) < MaxEntries THEN [m EXCEPT !.entry = Append(@, b)]
  ELSE [m EXCEPT !.crowded = @ \union {b}]

Load(m, b) == AddResource(NewObject(m, b), b)

\* A copy loads the file of the original again, if that is in the table.  The
\* copy of an animation does not notice if not, and shares the object.
CloneResource(m, b, from) == IF Registered(m, from) THEN Load(m, b) ELSE m
CloneAnimation(m, b, from) ==
  IF Registered(m, from) THEN CloneResource(m, b, from)
  ELSE [m EXCEPT !.bmp[b] = m.bmp[from], !.crowded = @ \union {b}]

\* Mutant: the last entry goes in place of the one that was found.
RemoveLastResource(s, i) == Front(s)

RemoveResource(s, i) == RemoveAt(s, i)

\* The first entry whose pointer is the object goes, and the object with it.
DestroyResource(m, o) ==
  LET i == Least({j \in DOMAIN m.entry : m.entry[j] # Freed /\ m.bmp[m.entry[j]].obj = o})
  IN [m EXCEPT !.bmp[m.entry[i]].obj = 0, !.live = @ \ {o}, !.entry = RemoveResource(@, i)]

Forget(s, b) == [i \in DOMAIN s |-> IF s[i] = b THEN Freed ELSE s[i]]

\* The object goes, out of the table if it is there.
Release(m, o) ==
  IF o = 0 THEN m
  ELSE IF \E j \in DOMAIN m.entry : m.entry[j] # Freed /\ m.bmp[m.entry[j]].obj = o
    THEN DestroyResource(m, o) ELSE [m EXCEPT !.live = @ \ {o}]

Shared(m, b) == m.bmp[b].obj # 0 /\ \E c \in Bitmaps \ {b} : m.bmp[c].obj = m.bmp[b].obj

\* What still refers to the place dangles when it is freed.
Forsake(m, b) ==
  LET atlas == m.atlas
      member(k) == Forget(atlas[k].member, b)
  IN [m EXCEPT !.entry = Forget(@, b),
               !.atlas = [k \in DOMAIN atlas |-> [atlas[k] EXCEPT !.member = member(k)]]]

\* The place itself is freed at the end.
Destroy(m, b) ==
  [Forsake(Release(m, m.bmp[b].obj), b) EXCEPT
     !.bmp[b] = Closed, !.crowded = @ \ {b}, !.blank = @ \ {b}, !.stale = @ \/ Shared(m, b)]

UnloadResources(m) ==
  LET gone == {b \in Open(m) : Registered(m, b)}
  IN [m EXCEPT !.bmp = [b \in Bitmaps |-> IF b \in gone THEN [@[b] EXCEPT !.obj = 0, !.on = 0] ELSE @[b]],
               !.live = @ \ {m.bmp[b].obj : b \in gone}]

\* Every entry is loaded, into its place, whatever that holds.
ReloadResources(m) ==
  FoldLeft(LAMBDA n, b : IF b = Freed THEN n ELSE NewObject(n, b), m, m.entry)

\* What b holds from then on is a part of the page.
PutOnAtlas(m, on, k) ==
  [m EXCEPT !.bmp = [b \in Bitmaps |-> IF b \in on THEN [@[b] EXCEPT !.on = m.atlas[k].id] ELSE @[b]]]

CreateAtlas(m) ==
  [m EXCEPT !.atlas = Append(@, [id |-> Unused({m.atlas[k].id : k \in DOMAIN m.atlas}),
                                 member |-> <<>>, page |-> TRUE])]

\* Bitmaps are moved to the page of the newest atlas as long as they fit.
AddToAtlas(m, order) ==
  LET k == Len(m.atlas)
      fit == SubSeq(order, 1, IF Room < Len(order) THEN Room ELSE Len(order))
  IN PutOnAtlas([m EXCEPT !.atlas[k].member = fit], ToSet(fit), k)

DestroyAtlas(m, id) ==
  LET at == {k \in DOMAIN m.atlas : m.atlas[k].id = id}
  IN IF at = {} THEN m ELSE [m EXCEPT !.atlas = RemoveAt(@, Least(at))]

UnloadAtlases(m) == [m EXCEPT !.atlas = [k \in DOMAIN @ |-> [@[k] EXCEPT !.page = FALSE]]]

\* What is on several is put on them one after the other.
Latest(S) == CHOOSE i \in S : \A j \in S : i >= j
RebuildAtlases(m) ==
  LET On(b) == {k \in DOMAIN m.atlas : b \in ToSet(m.atlas[k].member)}
  IN [m EXCEPT !.atlas = [k \in DOMAIN @ |-> [@[k] EXCEPT !.page = TRUE]],
               !.bmp = [b \in Bitmaps |-> IF On(b) = {} THEN @[b]
                                          ELSE [@[b] EXCEPT !.on = m.atlas[Latest(On(b))].id]]]

Dangling(m) == \/ Freed \in ToSet(m.entry)
               \/ \E k \in DOMAIN m.atlas : Freed \in ToSet(m.atlas[k].member)

GiveUp(m)  == UnloadResources(UnloadAtlases(m))
Restore(m) == RebuildAtlases(ReloadResources(m))
Renew(m)   == Restore(GiveUp(m))

\* t3f_atlas_tileset: a new atlas for the tiles, which becomes the tileset's.
AtlasTileset(m) == AddToAtlas(CreateAtlas(m), SetToSeq(Tiles))
NewestAtlas(m)  == m.atlas[Len(m.atlas)].id

(* The program: logic ticks and events *)

\* crowded: bitmaps that found the table full; blank: fonts without letters;
\* stale, a history: an object went that another bitmap still refers to.  Of the
\* screen: windows, built for Windows without OpenGL; heard, the queue listens to
\* the display; followed, a history: a reference to freed memory was followed.
Empty == [bmp |-> [b \in Bitmaps |-> Closed], entry |-> <<>>, live |-> {}, atlas |-> <<>>,
          crowded |-> {}, blank |-> {}, stale |-> FALSE]

Init ==
  /\ mem = Empty /\ level = 0 /\ queue = <<>>
  /\ \E windows \in BOOLEAN :
       screen = [windows |-> windows, up |-> TRUE, heard |-> TRUE, full |-> FALSE,
                 timer |-> TRUE, halted |-> 0, followed |-> FALSE]
  /\ strayed = FALSE /\ left = {}

\* The table and the atlases are only in order while there is a display.
CameOrWent == strayed' = (strayed \/ screen.halted # 0)

Comes(b) == b \notin Tiles /\ ~mem.bmp[b].open /\ CameOrWent /\ UNCHANGED <<level, screen, left>>

\* A bitmap whose file is not there is none; a font is one without letters.
LoadBitmap(b)   == Comes(b) /\ mem' = Load(mem, b)
CreateBitmap(b) == Comes(b) /\ mem' = Load(mem, b)
LoadFont(b) ==
  /\ Comes(b)
  /\ mem' \in {Load(mem, b), [mem EXCEPT !.bmp[b].open = TRUE, !.blank = @ \union {b}]}

CloneBitmap(b, from) ==
  /\ Comes(b) /\ mem.bmp[from].open
  /\ mem' \in {CloneResource(mem, b, from), CloneAnimation(mem, b, from)}

DestroyBitmap(b) ==
  /\ b \notin Tiles /\ mem.bmp[b].open
  /\ mem' = Destroy(mem, b) /\ CameOrWent /\ UNCHANGED <<level, screen, left>>

\* The level is put on an atlas when it is loaded, and again when the game is.
LoadLevel ==
  /\ level = 0 /\ Len(mem.atlas) + 2 <= MaxAtlases
  /\ LET tiles == FoldLeft(Load, mem, SetToSeq(Tiles))
         once  == AtlasTileset(tiles)
         twice == AtlasTileset(once)
     IN mem' = twice /\ level' = NewestAtlas(twice) /\ left' = left \union {NewestAtlas(once)}
  /\ CameOrWent /\ UNCHANGED screen

DestroyLevel ==
  /\ level # 0
  /\ mem' = DestroyAtlas(FoldLeft(Destroy, mem, SetToSeq(Tiles)), level)
  /\ level' = 0 /\ CameOrWent /\ UNCHANGED <<screen, left>>

\* The first atlas of a level is never destroyed and keeps its tiles when they
\* are freed.  Atlases are followed when they are rebuilt, and the table when it
\* is gone through: to memory that is free, where the model ends.
Broken == Dangling(mem)

\* A mode is set in place if the system can (done), else with a new display
\* (made), which the queue is not told to listen to.
SetGfxMode(done, made, m) ==
  IF done THEN (IF screen.windows THEN Renew(m) ELSE m)
  ELSE IF made THEN Renew(m) ELSE GiveUp(m)

\* The copies of Windows are then loaded again, but not put on their atlases.
SetWindowSize(done, made, m) ==
  LET n == SetGfxMode(done, made, m)
  IN IF screen.windows THEN ReloadResources(UnloadResources(n)) ELSE n

NewMode(full, done, made) ==
  /\ LET touched == screen.windows \/ ~done
     IN screen' = [screen EXCEPT !.full = full, !.heard = @ /\ done, !.up = done \/ made,
                                 !.followed = touched /\ Broken]
  /\ mem' = IF Broken THEN mem ELSE SetWindowSize(done, made, mem)
  /\ UNCHANGED <<level, strayed, left>>

\* The entries of the menu: the window to the full screen and back, and the
\* size of a window.
DisplayToggle(done, made) == screen.halted = 0 /\ NewMode(~screen.full, done, made)
Resolution(done, made)    == screen.halted = 0 /\ ~screen.full /\ NewMode(FALSE, done, made)

Idle == UNCHANGED <<mem, level, screen, strayed, left>>

Tick ==
  /\ queue # <<>> /\ Head(queue) = "TIMER" /\ queue' = Tail(queue)
  /\ \/ Idle \/ LoadLevel \/ DestroyLevel
     \/ \E b \in Bitmaps : LoadBitmap(b) \/ CreateBitmap(b) \/ LoadFont(b) \/ DestroyBitmap(b)
     \/ \E b, from \in Bitmaps : CloneBitmap(b, from)
     \/ \E done, made \in BOOLEAN : DisplayToggle(done, made) \/ Resolution(done, made)

Handle(type) == /\ queue # <<>> /\ Head(queue) = type /\ queue' = Tail(queue)
                /\ UNCHANGED <<level, strayed, left>>

\* Drawing stops until the display is back; that is acknowledged in this turn
\* of the loop, before the events that were already waiting.
Halt ==
  /\ Handle("HALT")
  /\ mem' = GiveUp(mem)
  /\ screen' = [screen EXCEPT !.timer = FALSE, !.halted = 2]

Resume ==
  /\ Handle("RESUME")
  /\ mem' = IF Broken THEN mem ELSE Restore(mem)
  /\ screen' = [screen EXCEPT !.timer = TRUE, !.halted = 0, !.followed = Broken]

Found ==
  /\ Handle("FOUND")
  /\ mem' = IF Broken THEN mem ELSE Renew(mem)
  /\ screen' = [screen EXCEPT !.timer = TRUE, !.followed = Broken]

Resize ==
  /\ Handle("RESIZE")
  /\ mem' = IF screen.windows /\ ~Broken THEN Renew(mem) ELSE mem
  /\ screen' = [screen EXCEPT !.timer = @ \/ screen.windows,
                              !.followed = screen.windows /\ Broken]

\* The timer and the display put events into the queue; a display is resumed
\* when its halt has been acknowledged.
Pending(type) == type \in ToSet(queue)

Post(type) ==
  /\ Len(queue) < MaxQueue /\ queue' = Append(queue, type)
  /\ CASE type = "TIMER"  -> screen.timer
       [] type = "HALT"   -> screen.heard /\ screen.halted = 0 /\ ~Pending("HALT")
       [] type = "RESUME" -> screen.heard /\ screen.halted = 2 /\ ~Pending("RESUME")
       [] OTHER           -> screen.heard /\ screen.halted = 0 /\ ~Pending("HALT")
  /\ UNCHANGED <<mem, level, screen, strayed, left>>

\* Where bitmaps came or went in a halt the model ends with the halt.
Next ==
  /\ screen.up /\ ~screen.followed /\ ~(strayed /\ screen.halted = 0)
  /\ \/ Tick \/ Halt \/ Resume \/ Found \/ Resize
     \/ \E type \in {"TIMER", "HALT", "RESUME", "FOUND", "RESIZE"} : Post(type)

Spec == Init /\ [][Next]_vars

-----------------------------------------------------------------------------

\* However bitmaps come and go between the times the display loses and finds
\* them again: what is drawn is there, with the page it is on, nobody else's
\* and nothing is left in memory that nobody holds, and nothing refers to freed
\* memory but atlases that a level has left behind.  Not so for bitmaps that
\* found the table full, nor once logic that ran in a halt has changed it, nor
\* once an object went that a copy made beside the table still refers to.  And
\* nothing is said once those atlases have been followed: that is what happens
\* when the display is lost or changed after a level has been unloaded, while
\* such an atlas still refers to one of its tiles.
AllLive ==
  screen.up /\ ~screen.followed /\ screen.halted = 0 /\ ~strayed /\ ~mem.stale =>
    LET own == Open(mem) \ (mem.crowded \union mem.blank)
    IN /\ \A b \in own :
            /\ mem.bmp[b].obj \in mem.live
            /\ \A c \in own \ {b} : mem.bmp[c].obj # mem.bmp[b].obj
            /\ mem.bmp[b].on # 0 => \E k \in DOMAIN mem.atlas :
                                       mem.atlas[k].id = mem.bmp[b].on /\ mem.atlas[k].page
       /\ mem.crowded = {} => mem.live = {mem.bmp[b].obj : b \in Open(mem) \ mem.blank}
       /\ Freed \notin ToSet(mem.entry)
       /\ \A k \in DOMAIN mem.atlas : Freed \in ToSet(mem.atlas[k].member) => mem.atlas[k].id \in left
=============================================================================
