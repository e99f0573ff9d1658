------------------------------ MODULE MCArena ------------------------------
(***************************************************************************)
(* What happens on the field beside hits and scores: Posture, Arsenal,     *)
(* Items and Paintballs.  They share no state, so that every behaviour is  *)
(* one of one of them, while the others stay as they start.                *)
(***************************************************************************)
EXTENDS Arsenal

CONSTANTS
  Kinds,          \* of items that are allowed in a game
  Players, Owner, \* see Paintballs, as all that follows
  BallWeapons, NumCells, Fragments, Bounces, ShotLeaves, PieceLeaves, Deflected

VARIABLES
  part,
  legacy, phase, me, fading, fresh, stomp,
  cell, stocked, cellAt, overflowed,
  ball, ballAt, struck

P == INSTANCE Posture
I == INSTANCE Items
       WITH at <- cellAt, Level <- <<"ammo", "power">>, Enabled <- Kinds,
            Spare <- 2, Delay <- 2, MaxTouch <- 2
B == INSTANCE Paintballs WITH at <- ballAt, Weapons <- BallWeapons

\* Players have numbers, of which one is the highest; a piece of a paintball
\* gets clear of its owner no later than a shot.
ASSUME ArenaAssumption ==
  /\ Players \subseteq Nat /\ Owner \in Players
  /\ \E p \in Players : \A q \in Players : q <= p
  /\ BallWeapons \subseteq B!Types
  /\ NumCells \in Nat \ {0}
  /\ {Fragments, Bounces, ShotLeaves, PieceLeaves, Deflected} \subseteq Nat
  /\ PieceLeaves <= ShotLeaves

\* One game starts with a loaded second weapon, one with none at all.
MCStart == {[w \in Weapons |-> IF w = 1 THEN 1 ELSE 0], [w \in Weapons |-> 0]}

Parts == {"arsenal", "posture", "items", "paintballs"}

postureVars == <<legacy, phase, me, fading, fresh, stomp>>
itemVars    == <<cell, stocked, cellAt, overflowed>>
ballVars    == <<ball, ballAt, struck>>
allVars     == <<part, vars, postureVars, itemVars, ballVars>>

MCInit ==
  /\ part \in Parts
  /\ Init /\ (part # "arsenal" => start[1] = 1)
  /\ P!Init /\ (part # "posture" => ~legacy.character /\ ~legacy.level)
  /\ I!Init /\ (part # "items" => stocked = <<"ammo", "power">>)
  /\ B!Init

Only(p) ==
  /\ part = p /\ part' = p
  /\ p # "arsenal"    => UNCHANGED vars
  /\ p # "posture"    => UNCHANGED postureVars
  /\ p # "items"      => UNCHANGED itemVars
  /\ p # "paintballs" => UNCHANGED ballVars

MCNext ==
  \/ Only("arsenal") /\ Next
  \/ Only("posture") /\ P!Next
  \/ Only("items") /\ I!Next
  \/ Only("paintballs") /\ B!Next

\* Items only come back if the game goes on.
MCSpec ==
  /\ MCInit /\ [][MCNext]_allVars
  /\ WF_allVars(Only("items") /\ I!Serve)
  /\ WF_allVars(Only("items") /\ I!PlayersDone)

\* Posture: ground flag and stance agree for whoever has landed, a legacy
\* character is in a state the legacy logic knows, and who is landed on counts as
\* stomped for as long, whoever is served first.
PostureSound == part = "posture" =>
  P!TypeOK /\ P!GroundAgrees /\ P!NeverFrozen /\ P!StompIsEven

\* Items: with room in the array no item is ever lost, and a taken one comes back.
ItemsReturn == [](part = "items" => I!TypeOK /\ I!ItemsKept) /\ I!ItemsReturn

\* Paintballs: nobody is struck by its own before it got clear of it.
OwnerSafe == part = "paintballs" => B!TypeOK /\ B!OwnerSafe

=============================================================================
