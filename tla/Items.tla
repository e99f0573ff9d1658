------------------------------- MODULE Items -------------------------------
(***************************************************************************)
(* The array of objects of a level: items that lie in their places, the    *)
(* generators that bring them back after they were taken, and coins.       *)
(*                                                                         *)
(* A tick is the turns of the players, in which coins may be dropped, and  *)
(* one step for each cell of the array in order.  An object that is        *)
(* created in a cell further on is served in the same tick.                *)
(***************************************************************************)
EXTENDS Integers, FiniteSets, Sequences

CONSTANTS
  Kinds,      \* kinds of items, ammunition and powers, as strings
  Level,      \* the kinds of the items of the level, in the order of its cells
  Enabled,    \* kinds that the options PP2_OPTION_ENABLE_* allow
  Spare,      \* cells beyond those of the level; 256 in the code
  Delay,      \* ticks until a taken item is back; 1800
  MaxTouch    \* players that may touch one object in the same tick

Places == 1 .. Len(Level)
Cells  == 1 .. Len(Level) + Spare

VARIABLES
  cell,        \* gp->object
  stocked,     \* the kind found at each place when the game starts, or "none"
  at,          \* the cell that is served next, 0 during the turns of the players
  overflowed   \* history: an object found no free cell

vars == <<cell, stocked, at, overflowed>>

Object(type, extra, place, counter) ==
  [type |-> type, extra |-> extra, place |-> place, counter |-> counter]

\* A cell without PP2_OBJECT_FLAG_ACTIVE.
Free == Object("none", "none", 0, 0)

Types == Kinds \cup {"generator", "coin", "none"}

ObjectType ==
  [type : Types, extra : Kinds \cup {"generator", "none"},
   place : Places \cup {0}, counter : 0 .. Delay]

TypeOK ==
  /\ cell \in [Cells -> ObjectType]
  /\ stocked \in [Places -> Kinds \cup {"none"}]
  /\ at \in Cells \cup {0}
  /\ overflowed \in BOOLEAN

\* Items that the options exclude are taken away, or, if items are
\* randomised, each is replaced by one that they allow.
Stock ==
  \/ stocked = [p \in Places |-> IF Level[p] \in Enabled THEN Level[p] ELSE "none"]
  \/ Enabled # {} /\ stocked \in [Places -> Enabled]

Init ==
  /\ stocked \in [Places -> Kinds \cup {"none"}]
  /\ Stock
  /\ cell = [c \in Cells |->
       IF c \in Places /\ stocked[c] # "none" THEN Object(stocked[c], "none", c, 0)
       ELSE Free]
  /\ at = 0
  /\ overflowed = FALSE

-----------------------------------------------------------------------------

FreeCells(c) == {i \in Cells : c[i] = Free}

\* pp2_generate_object: the first free cell is taken, if there is one.
Generate(c, object) ==
  IF FreeCells(c) = {} THEN c
  ELSE [c EXCEPT ![CHOOSE i \in FreeCells(c) : \A j \in FreeCells(c) : i <= j] = object]

Following(i) == IF i + 1 \in Cells THEN i + 1 ELSE 0

\* A generator makes its item before it goes, and goes in any case.
Regenerate(i) ==
  LET left == cell[i].counter - 1
      item == Object(cell[i].extra, "none", cell[i].place, 0)
  IN  /\ cell[i].type = "generator"
      /\ IF left > 0
         THEN cell' = [cell EXCEPT ![i].counter = left] /\ overflowed' = overflowed
         ELSE /\ cell' = [Generate(cell, item) EXCEPT ![i] = Free]
              /\ overflowed' = (overflowed \/ FreeCells(cell) = {})

\* Mutation: the cell is cleared first, so that the generator may lie in it.
TakenFirst(i, n) ==
  LET type == cell[i].type
      left[k \in 0 .. n] ==
        IF k = 0 THEN cell
        ELSE [Generate([left[k - 1] EXCEPT ![i] = Free],
                       Object("generator", type, cell[i].place, Delay))
                EXCEPT ![i] = Free]
  IN  left[n]

\* Each of n players that touch the item in cell i leaves a generator behind
\* and clears the cell, in which the generator of the one before may lie.
Taken(i, n) ==
  LET type == cell[i].type
      left[k \in 0 .. n] ==
        IF k = 0 THEN cell
        ELSE [Generate(left[k - 1], Object("generator", type, cell[i].place, Delay))
                EXCEPT ![i] = Free]
  IN  left[n]

PickUp(i) ==
  /\ cell[i].type \in Kinds
  /\ \E n \in 0 .. MaxTouch :
       /\ cell' = Taken(i, n)
       /\ overflowed' = (overflowed \/ (n > 0 /\ FreeCells(cell) = {}))

PickUpCoin(i) ==
  /\ cell[i].type = "coin"
  /\ cell' \in {cell, [cell EXCEPT ![i] = Free]}
  /\ overflowed' = overflowed

Serve ==
  /\ at # 0
  /\ at' = Following(at)
  /\ stocked' = stocked
  /\ \/ Regenerate(at)
     \/ PickUp(at)
     \/ PickUpCoin(at)
     \/ cell[at] = Free /\ UNCHANGED <<cell, overflowed>>

\* Who dies drops coins; they go into the same array.
DropCoin ==
  /\ at = 0
  /\ cell' = Generate(cell, Object("coin", "none", 0, 0))
  /\ UNCHANGED <<stocked, at, overflowed>>

PlayersDone ==
  /\ at = 0
  /\ at' = 1
  /\ UNCHANGED <<cell, stocked, overflowed>>

Next == Serve \/ DropCoin \/ PlayersDone

Spec == Init /\ [][Next]_vars

\* The game goes on.
FairSpec == Spec /\ WF_vars(Serve) /\ WF_vars(PlayersDone)

-----------------------------------------------------------------------------
(***************************************************************************)
(* Properties.                                                             *)
(***************************************************************************)

\* What there is of the item of place p.
OfPlace(p) == {i \in Cells : cell[i].place = p}
Lies(p)    == \E i \in Cells : cell[i].place = p /\ cell[i].type \in Kinds

\* As long as there was room in the array, every item of the level is still
\* there or about to come back, of the kind it was, whoever took it.
ItemsKept ==
  ~overflowed =>
    \A p \in Places : stocked[p] # "none" =>
      \E i \in OfPlace(p) : stocked[p] \in {cell[i].type, cell[i].extra}

\* An item that was taken lies in its place again some time, if there is room.
ItemsReturn ==
  \A p \in Places : OfPlace(p) # {} ~> (Lies(p) \/ overflowed)
=============================================================================
