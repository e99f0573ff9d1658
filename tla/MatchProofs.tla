---------------------------- MODULE MatchProofs ----------------------------
(***************************************************************************)
(* Proofs about Match, for every number of slots, every set of games and   *)
(* every length of the fades and of the flash.                             *)
(***************************************************************************)
EXTENDS Match, TLAPS, FiniteSetTheorems

-----------------------------------------------------------------------------
(* Sets of players.                                                         *)

\* There are finitely many players.
LEMMA PlayersFinite ==
  ASSUME NEW S \in SUBSET Players
  PROVE  IsFiniteSet(S) /\ Cardinality(S) \in Nat
<1>1. IsFiniteSet(Players)
  BY MatchAssumption, FS_Interval DEF Players
<1> QED BY <1>1, FS_Subset, FS_CardinalityType

\* Of the players of a game, one who plays is not in its own way.
LEMMA OthersAreFewer ==
  ASSUME NEW S \in SUBSET Players, NEW T \in SUBSET S, NEW p \in T
  PROVE  Cardinality(T \ {p}) < Cardinality(S)
<1>1. IsFiniteSet(S) /\ IsFiniteSet(T)
  BY PlayersFinite
<1>2. Cardinality(T \ {p}) = Cardinality(T) - 1
  BY <1>1, FS_RemoveElement
<1>3. Cardinality(T) <= Cardinality(S)
  BY <1>1, FS_Subset
<1>4. Cardinality(T) \in Nat /\ Cardinality(S) \in Nat /\ Cardinality(T \ {p}) \in Int
  BY <1>1, <1>2, FS_CardinalityType
<1> QED BY <1>2, <1>3, <1>4

\* Some player in a set has the highest slot.
LEMMA HighestIn ==
  ASSUME NEW S \in SUBSET Players, S # {}
  PROVE  \E q \in S : \A r \in S : r <= q
<1> DEFINE above == {NumPlayers - 1 - q : q \in S}
<1>1. above \in SUBSET Nat /\ above # {}
  <2>1. ASSUME NEW q \in S PROVE NumPlayers - 1 - q \in Nat
    BY MatchAssumption DEF Players
  <2> QED BY <2>1
<1> HIDE DEF above
<1>2. PICK n \in above : \A m \in above : n <= m
  <2> DEFINE R == {pair \in Nat \X Nat : pair[1] < pair[2]}
  <2>1. IsWellFoundedOn(R, Nat)
    BY NatLessThanWellFounded DEF OpToRel
  <2>2. \A m, n \in above : ~(<<m, n>> \in R) => n <= m
    BY <1>1
  <2> HIDE DEF R
  <2>3. \E n \in above : \A m \in above : ~(<<m, n>> \in R)
    BY <1>1, <2>1, WFMin
  <2> QED BY <2>2, <2>3
<1>3. PICK q \in S : n = NumPlayers - 1 - q
  BY DEF above
<1>4. \A r \in S : NumPlayers - 1 - r \in above
  BY DEF above
<1>5. \A r \in S : r <= q
  BY <1>2, <1>3, <1>4, MatchAssumption DEF Players
<1> QED BY <1>5

-----------------------------------------------------------------------------
(* The inductive invariant.                                                 *)

\* Who is on the field, and what bodies can be like.
BodiesOK ==
  /\ playing \subseteq option.players /\ active \subseteq playing
  /\ fadeTime \in [Players -> Nat]
  /\ fadeType \in [Players -> {"out", "in"}]
  /\ life \in [Players -> Int]
  /\ flashTime \in [Players -> Nat]

ScoresOK ==
  /\ frags \in [Players -> Nat] /\ coins \in [Players -> Nat]
  /\ scored \in [Players -> Nat]
  /\ winner \in Players \cup {NoOne}

\* The game is one that can be played and has a portal for everybody.
GameOK ==
  /\ option \in OptionType
  /\ Cardinality(option.players) <= option.portals

\* Who has lost its life was hit once and flashes until the fade out starts;
\* who fades in cannot be hit and ends alive.
LivesOK ==
  ~option.stomp =>
    \A p \in Players :
      /\ scored[p] <= 1
      /\ life[p] > 0 => scored[p] = 0
      /\ p \in active /\ fadeType[p] = "in" => life[p] > 0 /\ fadeTime[p] > 0
      /\ p \in active /\ fadeTime[p] = 0 /\ life[p] <= 0 => flashTime[p] > 0

IInv == GameOK /\ BodiesOK /\ ScoresOK /\ LivesOK /\ NobodyStranded

\* The parts of a game that the proofs look at.
LEMMA GameParts ==
  ASSUME GameOK
  PROVE  /\ option.players \in SUBSET Players
         /\ option.life \in Nat /\ option.life > 0
         /\ option.stomp \in BOOLEAN
         /\ option.goal \in Nat /\ option.portals \in Nat
  BY DEF GameOK, OptionType

-----------------------------------------------------------------------------
(* Hits.                                                                    *)

\* Coins that are dropped leave nobody with less than none.
LEMMA CoinsTyped ==
  ASSUME ScoresOK, NEW S \in SUBSET Players, DropCoins(S)
  PROVE  coins' \in [Players -> Nat]
<1>1. CASE option.mode = "coin rush"
  <2>1. coins' = [q \in Players |-> IF q \in S THEN 0 ELSE coins[q]]
    BY <1>1 DEF DropCoins
  <2> QED BY <2>1 DEF ScoresOK
<1>2. CASE option.mode # "coin rush"
  <2>1. coins' = coins
    BY <1>2 DEF DropCoins
  <2> QED BY <2>1 DEF ScoresOK
<1> QED BY <1>1, <1>2

\* Hits keep lives integers, and frags and coins natural numbers.
LEMMA HitsTyped ==
  ASSUME ScoresOK, life \in [Players -> Int],
         NEW dealers \in [Players -> SUBSET Players], ReceiveHits(dealers)
  PROVE  /\ life' \in [Players -> Int]
         /\ frags' \in [Players -> Nat] /\ coins' \in [Players -> Nat]
         /\ scored' \in [Players -> Nat]
<1>1. \A q \in Players : Cardinality(dealers[q]) \in Nat
  BY PlayersFinite
<1>2. \A q \in Players : Cardinality(Scorers(dealers, q)) \in Nat
  <2> SUFFICES ASSUME NEW q \in Players PROVE Cardinality(Scorers(dealers, q)) \in Nat
    OBVIOUS
  <2>1. Scorers(dealers, q) \in SUBSET Players
    BY DEF Scorers
  <2> QED BY <2>1, PlayersFinite
<1>3. \A d \in Players : Cardinality({q \in Players : d \in Scorers(dealers, q)}) \in Nat
  <2> SUFFICES ASSUME NEW d \in Players
               PROVE  Cardinality({q \in Players : d \in Scorers(dealers, q)}) \in Nat
    OBVIOUS
  <2>1. {q \in Players : d \in Scorers(dealers, q)} \in SUBSET Players
    OBVIOUS
  <2> QED BY <2>1, PlayersFinite
<1>4. life' \in [Players -> Int]
  BY <1>1 DEF ReceiveHits
<1>5. frags' \in [Players -> Nat]
  BY <1>3, SMTT(30) DEF ReceiveHits, ScoresOK
<1>6. scored' \in [Players -> Nat]
  BY <1>2 DEF ReceiveHits, ScoresOK
<1>7. coins' \in [Players -> Nat]
  BY CoinsTyped DEF ReceiveHits, Killed
<1> QED BY <1>4, <1>5, <1>6, <1>7

\* Where nobody is hit, lives and frags stay as they are.
LEMMA NoHits ==
  ASSUME ScoresOK, life \in [Players -> Int],
         NEW dealers \in [Players -> SUBSET Players],
         \A q \in Players : dealers[q] = {},
         ReceiveHits(dealers)
  PROVE  life' = life /\ frags' = frags /\ scored' = scored
<1>1. Cardinality({}) = 0
  BY FS_EmptySet
<1>2. ASSUME NEW q \in Players
      PROVE  scored[q] + Cardinality(Scorers(dealers, q)) = scored[q]
  <2>1. Scorers(dealers, q) = {}
    BY DEF Scorers
  <2> QED BY <1>1, <2>1 DEF ScoresOK
<1>3. ASSUME NEW d \in Players
      PROVE  frags[d] + Cardinality({q \in Players : d \in Scorers(dealers, q)}) = frags[d]
  <2>1. {q \in Players : d \in Scorers(dealers, q)} = {}
    BY DEF Scorers
  <2>2. Cardinality({q \in Players : d \in Scorers(dealers, q)}) = 0
    BY <1>1, <2>1, Zenon
  <2>3. frags[d] \in Nat
    BY DEF ScoresOK
  <2> QED BY <2>2, <2>3
<1>4. life' = life
  <2>1. life' = [q \in Players |-> life[q] - Cardinality(dealers[q])]
    BY DEF ReceiveHits
  <2>2. \A q \in Players : life[q] - Cardinality(dealers[q]) = life[q]
    BY <1>1
  <2> QED BY <2>1, <2>2
<1>5. frags' = frags
  <2>1. frags' = [d \in Players |->
          frags[d] + Cardinality({q \in Players : d \in Scorers(dealers, q)})]
    BY DEF ReceiveHits
  <2> QED BY <1>3, <2>1 DEF ScoresOK
<1>6. scored' = scored
  <2>1. scored' = [q \in Players |-> scored[q] + Cardinality(Scorers(dealers, q))]
    BY DEF ReceiveHits
  <2> QED BY <1>2, <2>1 DEF ScoresOK
<1> QED BY <1>4, <1>5, <1>6

\* What one paintball of p does to each player it may strike.
LEMMA OneHit ==
  ASSUME ScoresOK, life \in [Players -> Int],
         NEW p \in Players, NEW hit \in SUBSET Players,
         ReceiveHits([q \in Players |-> IF q \in hit THEN {p} ELSE {}])
  PROVE  \A q \in Players :
           /\ q \notin hit => life'[q] = life[q] /\ scored'[q] = scored[q]
           /\ q \in hit => life'[q] = life[q] - 1 /\ scored'[q] <= scored[q] + 1
           /\ q \in hit /\ life'[q] > 0 => scored'[q] = scored[q]
<1> DEFINE dealers == [q \in Players |-> IF q \in hit THEN {p} ELSE {}]
<1>1. Cardinality({}) = 0 /\ Cardinality({p}) = 1
  BY FS_EmptySet, FS_Singleton
<1>2. SUFFICES ASSUME NEW q \in Players
               PROVE  /\ q \notin hit => life'[q] = life[q] /\ scored'[q] = scored[q]
                      /\ q \in hit => life'[q] = life[q] - 1 /\ scored'[q] <= scored[q] + 1
                      /\ q \in hit /\ life'[q] > 0 => scored'[q] = scored[q]
  OBVIOUS
<1>3. /\ life'[q] = life[q] - Cardinality(dealers[q])
      /\ scored'[q] = scored[q] + Cardinality(Scorers(dealers, q))
      /\ life[q] \in Int /\ scored[q] \in Nat
  BY DEF ReceiveHits, ScoresOK
<1> HIDE DEF dealers
<1>4. CASE q \notin hit
  <2>1. dealers[q] = {} /\ Scorers(dealers, q) = {}
    BY <1>4 DEF dealers, Scorers
  <2> QED BY <1>1, <1>3, <1>4, <2>1
<1>5. CASE q \in hit
  <2>1. dealers[q] = {p}
    BY <1>5 DEF dealers
  <2>2. Scorers(dealers, q) = {} \/ Scorers(dealers, q) = {p}
    BY <2>1 DEF Scorers
  <2>3. ASSUME life'[q] > 0 PROVE Scorers(dealers, q) = {}
    <3>1. life[q] > 1
      BY <1>1, <1>3, <2>1, <2>3
    <3>2. p <= p /\ {e \in {p} : e <= p} = {p}
      BY MatchAssumption DEF Players
    <3> QED BY <1>1, <2>1, <3>1, <3>2 DEF Scorers
  <2>4. life'[q] = life[q] - 1
    BY <1>1, <1>3, <2>1
  <2>5. Cardinality(Scorers(dealers, q)) \in {0, 1}
    BY <1>1, <2>2
  <2>6. life'[q] > 0 => Cardinality(Scorers(dealers, q)) = 0
    BY <1>1, <2>3
  <2> QED BY <1>3, <1>5, <2>4, <2>5, <2>6
<1> QED BY <1>4, <1>5

-----------------------------------------------------------------------------
(* Each action preserves the invariant.                                     *)

\* Steps that leave bodies, frags, playing and winner alone.
LEMMA QuietStep ==
  ASSUME IInv, UNCHANGED <<option, playing, bodies, frags, scored, winner>>,
         coins' \in [Players -> Nat]
  PROVE  IInv'
<1>1. GameOK'
  BY DEF IInv, GameOK
<1>2. BodiesOK'
  BY DEF IInv, BodiesOK, bodies
<1>3. ScoresOK'
  BY DEF IInv, ScoresOK
<1>4. LivesOK'
  BY DEF IInv, LivesOK, bodies
<1>5. NobodyStranded'
  BY DEF IInv, NobodyStranded, Respawning, bodies
<1> QED BY <1>1, <1>2, <1>3, <1>4, <1>5 DEF IInv

\* Who respawns is alive and has not been scored on; nobody else is touched.
LEMMA SpawnStep ==
  ASSUME IInv, NEW p \in active, Spawn(p), Respawning, winner = NoOne,
         UNCHANGED <<option, playing, frags, coins, winner>>
  PROVE  IInv'
<1>1. p \in Players /\ option.life \in Nat /\ option.life > 0
  BY GameParts DEF IInv, BodiesOK
<1>2. GameOK'
  BY DEF IInv, GameOK
<1>3. BodiesOK'
  BY <1>1 DEF IInv, BodiesOK, Spawn
<1>4. ScoresOK'
  BY <1>1 DEF IInv, ScoresOK, Spawn
<1>5. LivesOK'
  <2>1. CASE active' = active \ {p} /\ UNCHANGED <<fadeType, life, flashTime, scored>>
             /\ fadeTime' = [fadeTime EXCEPT ![p] = 0]
    BY <1>1, <2>1 DEF IInv, BodiesOK, LivesOK
  <2>2. CASE /\ active' = active
             /\ fadeTime'  = [fadeTime EXCEPT ![p] = 1]
             /\ fadeType'  = [fadeType EXCEPT ![p] = "in"]
             /\ life'      = [life EXCEPT ![p] = option.life]
             /\ flashTime' = [flashTime EXCEPT ![p] = 0]
             /\ scored'    = [scored EXCEPT ![p] = 0]
    <3> SUFFICES ASSUME ~option.stomp, NEW q \in Players
                 PROVE  /\ scored'[q] <= 1
                        /\ life'[q] > 0 => scored'[q] = 0
                        /\ q \in active' /\ fadeType'[q] = "in"
                             => life'[q] > 0 /\ fadeTime'[q] > 0
                        /\ q \in active' /\ fadeTime'[q] = 0 /\ life'[q] <= 0
                             => flashTime'[q] > 0
      BY DEF LivesOK
    <3>1. CASE q = p
      BY <1>1, <2>2, <3>1 DEF IInv, BodiesOK, ScoresOK
    <3>2. CASE q # p
      BY <1>1, <2>2, <3>2 DEF IInv, BodiesOK, ScoresOK, LivesOK
    <3> QED BY <3>1, <3>2
  <2> QED BY <2>1, <2>2 DEF Spawn
<1>6. NobodyStranded'
  <2> SUFFICES ASSUME option.reach = 1
               PROVE  playing' = active'
    BY DEF NobodyStranded
  <2>1. playing = active
    BY DEF IInv, NobodyStranded
  <2>2. Cardinality(active \ {p}) < Cardinality(option.players)
    BY OthersAreFewer, GameParts DEF IInv, BodiesOK
  <2>3. Cardinality(active \ {p}) \in Nat /\ Cardinality(option.players) \in Nat
    <3>1. active \ {p} \in SUBSET Players
      BY GameParts DEF IInv, BodiesOK
    <3> QED BY <3>1, GameParts, PlayersFinite DEF IInv
  <2>4. ~AllPortalsMayBeBusy(p)
    <3>1. Cardinality(option.players) <= option.portals /\ option.portals \in Nat
      BY GameParts DEF IInv, GameOK
    <3> QED BY <2>2, <2>3, <3>1 DEF AllPortalsMayBeBusy
  <2> QED BY <2>1, <2>4 DEF Spawn
<1> QED BY <1>2, <1>3, <1>4, <1>5, <1>6 DEF IInv

\* A fade out goes on, or ends with a new life or none.
LEMMA FadeOutStep ==
  ASSUME IInv, NEW p \in Players, FadeOut(p)
  PROVE  IInv'
<1> DEFINE left == (IF Doomed(p) THEN FadeTime ELSE fadeTime[p]) - 1
<1>1. UNCHANGED <<option, playing, frags, coins, winner>> /\ p \in active
  BY DEF FadeOut, Turn, rules
<1>2. left \in Nat
  BY MatchAssumption DEF IInv, BodiesOK, FadeOut, FadingOut, Doomed
<1>3. CASE /\ left > 0
           /\ fadeTime' = [fadeTime EXCEPT ![p] = left]
           /\ UNCHANGED <<active, fadeType, life, flashTime, scored>>
  <2> HIDE DEF left
  <2>1. BodiesOK'
    BY <1>1, <1>2, <1>3 DEF IInv, BodiesOK
  <2>2. LivesOK'
    BY <1>1, <1>2, <1>3 DEF IInv, BodiesOK, LivesOK
  <2>3. GameOK' /\ ScoresOK' /\ NobodyStranded'
    BY <1>1, <1>3 DEF IInv, GameOK, ScoresOK, NobodyStranded, Respawning
  <2> QED BY <2>1, <2>2, <2>3 DEF IInv
<1>4. CASE Respawning /\ winner = NoOne /\ Spawn(p)
  BY <1>1, <1>4, SpawnStep
<1>5. CASE ~(Respawning /\ winner = NoOne) /\ Vanish(p)
  <2>1. BodiesOK'
    BY <1>1, <1>5 DEF IInv, BodiesOK, Vanish
  <2>2. LivesOK'
    BY <1>1, <1>5 DEF IInv, BodiesOK, LivesOK, Vanish
  <2>3. GameOK' /\ ScoresOK' /\ NobodyStranded'
    BY <1>1, <1>5 DEF IInv, GameOK, ScoresOK, NobodyStranded, Respawning, Vanish
  <2> QED BY <2>1, <2>2, <2>3 DEF IInv
<1> QED BY <1>3, <1>4, <1>5 DEF FadeOut

\* A fade in ends with a player who is alive.
LEMMA FadeInStep ==
  ASSUME IInv, NEW p \in Players, FadeIn(p)
  PROVE  IInv'
<1>1. UNCHANGED <<option, playing, active, life, flashTime, frags, coins, scored, winner>>
  BY DEF FadeIn, scores, rules
<1>2. /\ fadeType[p] = "in" /\ p \in active
      /\ \/ fadeTime' = [fadeTime EXCEPT ![p] = fadeTime[p] + 1] /\ fadeType' = fadeType
         \/ /\ fadeTime' = [fadeTime EXCEPT ![p] = 0]
            /\ fadeType' = [fadeType EXCEPT ![p] = "out"]
  BY DEF IInv, BodiesOK, FadeIn, FadingIn
<1>3. BodiesOK'
  BY <1>1, <1>2 DEF IInv, BodiesOK
<1>4. LivesOK'
  <2> SUFFICES ASSUME ~option.stomp, NEW q \in Players
               PROVE  /\ scored[q] <= 1
                      /\ life[q] > 0 => scored[q] = 0
                      /\ q \in active /\ fadeType'[q] = "in" => life[q] > 0 /\ fadeTime'[q] > 0
                      /\ q \in active /\ fadeTime'[q] = 0 /\ life[q] <= 0 => flashTime[q] > 0
    BY <1>1 DEF LivesOK
  <2>1. CASE q = p
    BY <1>2, <2>1 DEF IInv, BodiesOK, LivesOK
  <2>2. CASE q # p
    BY <1>2, <2>2 DEF IInv, BodiesOK, LivesOK
  <2> QED BY <2>1, <2>2
<1>5. GameOK' /\ ScoresOK' /\ NobodyStranded'
  BY <1>1 DEF IInv, GameOK, ScoresOK, NobodyStranded, Respawning
<1> QED BY <1>3, <1>4, <1>5 DEF IInv

\* Whoever moves is alive where nobody stomps, and then nobody is hit.
LEMMA MoveStep ==
  ASSUME IInv, NEW p \in Players, Move(p)
  PROVE  IInv' /\ (~option.stomp => frags' = frags)
<1>1. UNCHANGED <<option, playing, active, fadeTime, fadeType, winner>>
  BY DEF Move, Turn, rules
<1> DEFINE Hits(below, above) ==
        LET dealers == [q \in Players |-> IF q = p THEN above
                                          ELSE IF q \in below THEN {p} ELSE {}]
            flash   == [q \in Players |-> IF dealers[q] # {} THEN FlashTime
                                          ELSE flashTime[q]]
        IN  /\ ~option.stomp => below = {} /\ above = {}
            /\ ReceiveHits(dealers)
            /\ flashTime' = [flash EXCEPT ![p] = IF @ > 0 THEN @ - 1 ELSE 0]
<1>20. PICK below \in SUBSET Solid(p) : \E above \in SUBSET (Solid(p) \ below) : Hits(below, above)
  BY DEF Move
<1>2. PICK above \in SUBSET (Solid(p) \ below) : Hits(below, above)
  BY <1>20
<1> DEFINE dealers == [q \in Players |-> IF q = p THEN above
                                         ELSE IF q \in below THEN {p} ELSE {}]
           flash   == [q \in Players |-> IF dealers[q] # {} THEN FlashTime
                                         ELSE flashTime[q]]
<1>3. /\ ~option.stomp => below = {} /\ above = {}
      /\ ReceiveHits(dealers)
      /\ flashTime' = [flash EXCEPT ![p] = IF @ > 0 THEN @ - 1 ELSE 0]
  BY <1>2
<1>4. dealers \in [Players -> SUBSET Players]
  <2>1. Solid(p) \subseteq Players
    BY GameParts DEF Solid, IInv, BodiesOK
  <2> QED BY <2>1
<1>5. flash \in [Players -> Nat]
  BY MatchAssumption DEF IInv, BodiesOK
<1>6. flashTime' \in [Players -> Nat]
  <2> HIDE DEF flash
  <2> QED BY <1>3, <1>5
<1>7. ~option.stomp => \A q \in Players : dealers[q] = {}
  BY <1>3
<1>8. ~option.stomp => \A q \in Players : q # p => flashTime'[q] = flashTime[q]
  BY <1>3, <1>7 DEF IInv, BodiesOK
<1> HIDE DEF dealers, flash
<1>9. /\ life' \in [Players -> Int]
      /\ frags' \in [Players -> Nat] /\ coins' \in [Players -> Nat]
      /\ scored' \in [Players -> Nat]
  BY <1>3, <1>4, HitsTyped DEF IInv, BodiesOK
<1>10. ~option.stomp => life' = life /\ scored' = scored /\ frags' = frags
  BY <1>3, <1>4, <1>7, NoHits DEF IInv, BodiesOK
<1>11. p \in active /\ fadeType[p] = "out" /\ fadeTime[p] = 0 /\ life[p] > 0
  BY DEF Move, FadingOut, FadingIn, Doomed, IInv, BodiesOK
<1>12. BodiesOK'
  BY <1>1, <1>6, <1>9 DEF IInv, BodiesOK
<1>13. ScoresOK'
  BY <1>1, <1>9 DEF IInv, ScoresOK
<1>14. LivesOK'
  <2> SUFFICES ASSUME ~option.stomp, NEW q \in Players
               PROVE  /\ scored[q] <= 1
                      /\ life[q] > 0 => scored[q] = 0
                      /\ q \in active /\ fadeType[q] = "in" => life[q] > 0 /\ fadeTime[q] > 0
                      /\ q \in active /\ fadeTime[q] = 0 /\ life[q] <= 0 => flashTime'[q] > 0
    BY <1>1, <1>10 DEF LivesOK
  <2>1. CASE q = p
    BY <1>11, <2>1 DEF IInv, LivesOK, BodiesOK
  <2>2. CASE q # p
    BY <1>8, <2>2 DEF IInv, LivesOK
  <2> QED BY <2>1, <2>2
<1>15. GameOK' /\ NobodyStranded'
  BY <1>1 DEF IInv, GameOK, NobodyStranded, Respawning
<1> QED BY <1>10, <1>12, <1>13, <1>14, <1>15 DEF IInv

\* A paintball only hurts who is alive, and makes it flash.
LEMMA PaintballsStep ==
  ASSUME IInv, NEW p \in Players, Paintballs(p)
  PROVE  IInv'
<1>1. UNCHANGED <<option, playing, active, fadeTime, fadeType, winner>>
  BY DEF Paintballs, rules
<1>2. PICK hit \in SUBSET Targets(p) :
        /\ ReceiveHits([q \in Players |-> IF q \in hit THEN {p} ELSE {}])
        /\ flashTime' = [q \in Players |-> IF q \in hit THEN FlashTime ELSE flashTime[q]]
  BY DEF Paintballs
<1>3. hit \subseteq Vulnerable /\ hit \in SUBSET Players
  BY GameParts DEF Targets, Vulnerable, IInv, BodiesOK
<1> DEFINE dealers == [q \in Players |-> IF q \in hit THEN {p} ELSE {}]
<1>4. dealers \in [Players -> SUBSET Players]
  BY <1>3
<1>5. /\ life' \in [Players -> Int]
      /\ frags' \in [Players -> Nat] /\ coins' \in [Players -> Nat]
      /\ scored' \in [Players -> Nat]
  BY <1>2, <1>4, HitsTyped DEF IInv, BodiesOK
<1>6. \A q \in Players :
        /\ q \notin hit => life'[q] = life[q] /\ scored'[q] = scored[q]
        /\ q \in hit => life'[q] = life[q] - 1 /\ scored'[q] <= scored[q] + 1
        /\ q \in hit /\ life'[q] > 0 => scored'[q] = scored[q]
  BY <1>2, <1>3, OneHit DEF IInv, BodiesOK
<1>7. flashTime' \in [Players -> Nat]
  BY <1>2, MatchAssumption DEF IInv, BodiesOK
<1>8. BodiesOK'
  BY <1>1, <1>5, <1>7 DEF IInv, BodiesOK
<1>9. ScoresOK'
  BY <1>1, <1>5 DEF IInv, ScoresOK
<1>10. LivesOK'
  <2> SUFFICES ASSUME ~option.stomp, NEW q \in Players
               PROVE  /\ scored'[q] <= 1
                      /\ life'[q] > 0 => scored'[q] = 0
                      /\ q \in active /\ fadeType[q] = "in" => life'[q] > 0 /\ fadeTime[q] > 0
                      /\ q \in active /\ fadeTime[q] = 0 /\ life'[q] <= 0 => flashTime'[q] > 0
    BY <1>1 DEF LivesOK
  <2>1. CASE q \in hit
    <3>1. q \in active /\ fadeTime[q] = 0 /\ flashTime[q] = 0
      BY <1>3, <2>1 DEF Vulnerable
    <3>2. life[q] > 0 /\ scored[q] = 0 /\ fadeType[q] # "in"
      BY <3>1 DEF IInv, BodiesOK, LivesOK
    <3>3. flashTime'[q] > 0
      BY <1>2, <2>1, MatchAssumption
    <3>4. life[q] \in Int /\ scored'[q] \in Nat
      BY <1>5 DEF IInv, BodiesOK
    <3> QED BY <1>6, <2>1, <3>2, <3>3, <3>4
  <2>2. CASE q \notin hit
    <3>1. flashTime'[q] = flashTime[q]
      BY <1>2, <2>2
    <3> QED BY <1>6, <2>2, <3>1 DEF IInv, LivesOK
  <2> QED BY <2>1, <2>2
<1>11. GameOK' /\ NobodyStranded'
  BY <1>1 DEF IInv, GameOK, NobodyStranded, Respawning
<1> QED BY <1>8, <1>9, <1>10, <1>11 DEF IInv

\* The rules only let players fade out, and never take back a winner.
LEMMA RulesStep ==
  ASSUME IInv, ProcessRules
  PROVE  IInv' /\ (winner # NoOne => winner' = winner)
<1>1. UNCHANGED <<option, playing, active, life, flashTime, frags, coins, scored>>
  BY DEF ProcessRules, bodies, scores
<1>2. /\ winner' \in Players \cup {NoOne}
      /\ winner # NoOne => winner' = winner
  <2>1. active \subseteq Players
    BY GameParts DEF IInv, BodiesOK
  <2>2. CASE winner # NoOne
    BY <2>2 DEF ProcessRules, IInv, ScoresOK
  <2>3. CASE winner = NoOne /\ ~Respawning
    BY <2>1, <2>3 DEF ProcessRules, LastStanding, IInv, ScoresOK
  <2>4. CASE winner = NoOne /\ Respawning
    <3>1. winner' = Winner
      BY <2>4 DEF ProcessRules
    <3>2. ASSUME OnTime PROVE Winner \in Players
      <4>1. IsFiniteSet(Leaders)
        <5>1. Leaders \in SUBSET Players
          BY <2>1 DEF Leaders
        <5> QED BY <5>1, PlayersFinite
      <4>2. Leaders # {}
        BY <3>2, <4>1, FS_EmptySet DEF OnTime
      <4>3. (CHOOSE q \in Leaders : TRUE) \in Leaders
        BY <4>2
      <4> QED BY <2>1, <3>2, <4>3 DEF Winner, Leaders
    <3>3. ASSUME ~OnTime, Reached # {} PROVE Winner \in Players
      <4>1. \E q \in Reached : \A r \in Reached : r <= q
        BY <3>3, <2>1, HighestIn DEF Reached
      <4>2. (CHOOSE q \in Reached : \A r \in Reached : r <= q) \in Reached
        BY <4>1
      <4> QED BY <2>1, <3>3, <4>2 DEF Winner, Reached
    <3>4. ASSUME ~OnTime, Reached = {} PROVE Winner = NoOne
      BY <3>4 DEF Winner
    <3> QED BY <2>4, <3>1, <3>2, <3>3, <3>4
  <2> QED BY <2>2, <2>3, <2>4
<1>3. \A q \in Players :
        \/ fadeTime'[q] = fadeTime[q] /\ fadeType'[q] = fadeType[q]
        \/ fadeTime'[q] = FadeTime /\ fadeType'[q] = "out"
  BY DEF ProcessRules, bodies, FadeAll
<1>4. fadeTime' \in [Players -> Nat] /\ fadeType' \in [Players -> {"out", "in"}]
  BY MatchAssumption DEF ProcessRules, bodies, FadeAll, IInv, BodiesOK
<1>5. BodiesOK'
  BY <1>1, <1>4 DEF IInv, BodiesOK
<1>6. ScoresOK'
  BY <1>1, <1>2 DEF IInv, ScoresOK
<1>7. LivesOK'
  BY <1>1, <1>3, MatchAssumption DEF IInv, LivesOK
<1>8. GameOK' /\ NobodyStranded'
  BY <1>1, <1>2 DEF IInv, GameOK, NobodyStranded, Respawning
<1> QED BY <1>2, <1>5, <1>6, <1>7, <1>8 DEF IInv

\* A player who is removed takes nothing with it that the invariant is about.
LEMMA RemoveStep ==
  ASSUME IInv, NEW p \in Players, RemovePlayer(p)
  PROVE  IInv'
<1>1. /\ playing' = playing \ {p} /\ active' = active \ {p}
      /\ UNCHANGED <<option, fadeTime, fadeType, life, flashTime>>
      /\ UNCHANGED <<frags, coins, scored, winner>>
  BY DEF RemovePlayer, scores, rules
<1>2. BodiesOK'
  BY <1>1 DEF IInv, BodiesOK
<1>3. LivesOK'
  BY <1>1 DEF IInv, LivesOK
<1>4. GameOK' /\ ScoresOK' /\ NobodyStranded'
  BY <1>1 DEF IInv, GameOK, ScoresOK, NobodyStranded, Respawning
<1> QED BY <1>2, <1>3, <1>4 DEF IInv

LEMMA InitHolds == Init => IInv
<1> SUFFICES ASSUME Init PROVE IInv
  OBVIOUS
<1>1. GameOK
  BY MatchAssumption DEF Init, GameOK
<1>2. option.players \in SUBSET Players /\ option.life \in Nat /\ option.life > 0
  BY <1>1, GameParts
<1>7. /\ playing = option.players /\ active = option.players
      /\ fadeTime = [p \in Players |-> 1] /\ fadeType = [p \in Players |-> "in"]
      /\ life = [p \in Players |-> option.life]
      /\ flashTime = [p \in Players |-> 0] /\ scored = [p \in Players |-> 0]
  BY DEF Init
<1>3. BodiesOK
  BY <1>2, <1>7 DEF BodiesOK
<1>4. ScoresOK
  BY DEF Init, ScoresOK
<1>5. LivesOK
  BY <1>2, <1>7 DEF LivesOK
<1>6. NobodyStranded
  BY DEF Init, NobodyStranded
<1> QED BY <1>1, <1>3, <1>4, <1>5, <1>6 DEF IInv

LEMMA NextPreserves == IInv /\ [Next]_vars => IInv'
<1> SUFFICES ASSUME IInv, [Next]_vars PROVE IInv'
  OBVIOUS
<1> USE DEF bodies, scores, rules
<1>1. coins \in [Players -> Nat]
  BY DEF IInv, ScoresOK
<1>2. CASE StartTick
  BY <1>1, <1>2, QuietStep DEF StartTick
<1>3. ASSUME NEW p \in Players, SitOut(p) PROVE IInv'
  BY <1>1, <1>3, QuietStep DEF SitOut, Turn
<1>4. ASSUME NEW p \in Players, FadeOut(p) PROVE IInv'
  BY <1>4, FadeOutStep
<1>5. ASSUME NEW p \in Players, FadeIn(p) PROVE IInv'
  BY <1>5, FadeInStep
<1>6. ASSUME NEW p \in Players, Move(p) PROVE IInv'
  BY <1>6, MoveStep
<1>7. ASSUME NEW p \in Players, Paintballs(p) PROVE IInv'
  BY <1>7, PaintballsStep
<1>8. CASE PickUpCoin
  <2>1. coins' \in [Players -> Nat]
    BY <1>1, <1>8 DEF PickUpCoin
  <2> QED BY <1>8, <2>1, QuietStep DEF PickUpCoin
<1>9. CASE ObjectsDone
  BY <1>1, <1>9, QuietStep DEF ObjectsDone
<1>10. CASE ProcessRules
  BY <1>10, RulesStep
<1>11. ASSUME NEW p \in Leavers, RemovePlayer(p) PROVE IInv'
  BY <1>11, RemoveStep, MatchAssumption
<1>12. CASE UNCHANGED vars
  BY <1>1, <1>12, QuietStep DEF vars
<1> QED
  BY <1>2, <1>3, <1>4, <1>5, <1>6, <1>7, <1>8, <1>9, <1>10, <1>11, <1>12
  DEF Next, Tick, PlayerLogic

LEMMA Invariance == Spec => []IInv
BY InitHolds, NextPreserves, PTL DEF Spec

-----------------------------------------------------------------------------
(* What follows from it.                                                    *)

\* Players on the field play, and fades, lives and scores keep their types
\* (pp2_game_logic_tick), in every game and however it goes on.
THEOREM TypeCorrect == Spec => []TypeOK
<1>1. IInv => TypeOK
  BY DEF IInv, GameOK, BodiesOK, ScoresOK, TypeOK, OptionType
<1> QED BY <1>1, Invariance, PTL

\* Where nobody stomps, a life is worth one frag (pp2_paintball_logic), however
\* many play, however many paintballs strike at once.
THEOREM OneFrag == Spec => []OneFragPerLife
<1>1. IInv => OneFragPerLife
  BY DEF IInv, LivesOK, OneFragPerLife
<1> QED BY <1>1, Invariance, PTL

\* Whoever dies finds a portal (pp2_game_spawn_player), in every level with at
\* least as many portals as players, where nobody can block two of them.
THEOREM EveryoneOnTheField == Spec => []NobodyStranded
<1>1. IInv => NobodyStranded
  BY DEF IInv
<1> QED BY <1>1, Invariance, PTL

\* A paintball that strikes when somebody has won changes no frags.
LEMMA PaintballsAfterwards ==
  ASSUME IInv, NEW p \in Players, Paintballs(p), winner # NoOne
  PROVE  frags' = frags
<1>1. PICK hit \in SUBSET Targets(p) :
        ReceiveHits([q \in Players |-> IF q \in hit THEN {p} ELSE {}])
  BY DEF Paintballs
<1>2. hit = {}
  BY <1>1 DEF Targets
<1> DEFINE dealers == [q \in Players |-> IF q \in hit THEN {p} ELSE {}]
<1>3. dealers \in [Players -> SUBSET Players] /\ \A q \in Players : dealers[q] = {}
  BY <1>2
<1>4. ReceiveHits(dealers)
  BY <1>1
<1> HIDE DEF dealers
<1> QED BY <1>3, <1>4, NoHits DEF IInv, BodiesOK

\* The winner stays the winner, and the frags stay what they were (rules.c 18,
\* paintball.c 749), in games of every size.
THEOREM ResultsStand == Spec => ResultStands
<1> DEFINE Stands == winner # NoOne => /\ winner' = winner
                                       /\ ~option.stomp => frags' = frags
<1>1. ASSUME IInv, [Next]_vars PROVE Stands
  <2> SUFFICES ASSUME winner # NoOne
               PROVE  winner' = winner /\ (~option.stomp => frags' = frags)
    OBVIOUS
  <2> USE DEF scores, rules
  <2>1. CASE StartTick \/ PickUpCoin \/ ObjectsDone
    BY <2>1 DEF StartTick, PickUpCoin, ObjectsDone
  <2>2. ASSUME NEW p \in Players, SitOut(p) \/ FadeOut(p) \/ FadeIn(p)
        PROVE  winner' = winner /\ frags' = frags
    BY <2>2 DEF SitOut, FadeOut, FadeIn, Turn
  <2>3. ASSUME NEW p \in Players, Move(p)
        PROVE  winner' = winner /\ (~option.stomp => frags' = frags)
    BY <1>1, <2>3, MoveStep DEF Move, Turn
  <2>4. ASSUME NEW p \in Players, Paintballs(p)
        PROVE  winner' = winner /\ frags' = frags
    BY <1>1, <2>4, PaintballsAfterwards DEF Paintballs
  <2>5. CASE ProcessRules
    BY <1>1, <2>5, RulesStep DEF ProcessRules
  <2>6. ASSUME NEW p \in Leavers, RemovePlayer(p)
        PROVE  winner' = winner /\ frags' = frags
    BY <2>6 DEF RemovePlayer
  <2>7. CASE UNCHANGED vars
    BY <2>7 DEF vars
  <2> QED
    BY <1>1, <2>1, <2>2, <2>3, <2>4, <2>5, <2>6, <2>7 DEF Next, Tick, PlayerLogic
<1>2. IInv /\ [Next]_vars => [Stands]_vars
  BY <1>1
<1> HIDE DEF Stands
<1>3. Spec => [][Stands]_vars
  BY <1>2, Invariance, PTL DEF Spec
<1> QED BY <1>3, PTL DEF ResultStands, Stands

-----------------------------------------------------------------------------

\* Scores are natural numbers, so that "not less" is "equal or more".
LEMMA ScoreTyped ==
  ASSUME ScoresOK, NEW p \in Players
  PROVE  Score(p) \in Nat
BY DEF ScoresOK, Score

\* The only leader is ahead of everybody else on the field.
LEMMA LeaderAhead ==
  ASSUME IInv, OnTime
  PROVE  \E w \in active : Leaders = {w} /\ \A q \in active \ {w} : Score(q) < Score(w)
<1>1. active \in SUBSET Players
  BY GameParts DEF IInv, BodiesOK
<1>2. IsFiniteSet(Leaders)
  <2>1. Leaders \in SUBSET Players
    BY <1>1 DEF Leaders
  <2> QED BY <2>1, PlayersFinite
<1>3. PICK w : Leaders = {w}
  BY <1>2, FS_Singleton DEF OnTime
<1>4. w \in active /\ Score(w) > 0 /\ \A q \in active : Score(q) <= Score(w)
  BY <1>3 DEF Leaders
<1>5. ASSUME NEW q \in active \ {w} PROVE Score(q) < Score(w)
  <2>1. Score(q) \in Nat /\ Score(w) \in Nat
    BY <1>1, <1>4, ScoreTyped DEF IInv
  <2>2. ASSUME Score(q) = Score(w) PROVE FALSE
    <3>1. q \in Leaders
      BY <1>4, <2>2 DEF Leaders
    <3> QED BY <1>3, <3>1
  <2> QED BY <1>4, <2>1, <2>2
<1> QED BY <1>3, <1>4, <1>5

\* Who wins has reached the goal or is ahead of everybody who plays
\* (pp2_process_rules), as nobody who plays is off the field.
THEOREM TheWinnerLeads == Spec => WinnerLeads
<1> DEFINE Leads ==
      Respawning /\ option.reach = 1 /\ winner = NoOne /\ winner' # NoOne
        => /\ winner' \in playing
           /\ \/ HasGoal /\ Score(winner') >= Target
              \/ \A q \in playing \ {winner'} : Score(q) < Score(winner')
<1>1. ASSUME IInv, [Next]_vars PROVE Leads
  <2> SUFFICES ASSUME Respawning, option.reach = 1, winner = NoOne, winner' # NoOne
               PROVE  /\ winner' \in playing
                      /\ \/ HasGoal /\ Score(winner') >= Target
                         \/ \A q \in playing \ {winner'} : Score(q) < Score(winner')
    OBVIOUS
  <2>1. ProcessRules
    BY <1>1 DEF Next, Tick, PlayerLogic, StartTick, SitOut, FadeOut, FadeIn, Move, Turn,
                Paintballs, PickUpCoin, ObjectsDone, RemovePlayer, vars, rules
  <2>2. winner' = Winner
    BY <2>1 DEF ProcessRules
  <2>3. playing = active /\ active \in SUBSET Players
    BY <1>1, GameParts DEF IInv, NobodyStranded, BodiesOK
  <2>4. CASE OnTime
    <3>1. PICK w \in active :
            Leaders = {w} /\ \A q \in active \ {w} : Score(q) < Score(w)
      BY <1>1, <2>4, LeaderAhead
    <3>2. winner' = w
      BY <2>2, <2>4, <3>1 DEF Winner
    <3> QED BY <2>3, <3>1, <3>2
  <2>5. CASE ~OnTime /\ Reached # {}
    <3>1. \E q \in Reached : \A r \in Reached : r <= q
      BY <2>3, <2>5, HighestIn DEF Reached
    <3>2. (CHOOSE q \in Reached : \A r \in Reached : r <= q) \in Reached
      BY <3>1
    <3>3. winner' \in Reached
      BY <2>2, <2>5, <3>2 DEF Winner
    <3> QED BY <2>3, <3>3 DEF Reached
  <2>6. CASE ~OnTime /\ Reached = {}
    BY <2>2, <2>6 DEF Winner
  <2> QED BY <2>4, <2>5, <2>6
<1>2. IInv /\ [Next]_vars => [Leads]_vars
  BY <1>1
<1> HIDE DEF Leads
<1>3. Spec => [][Leads]_vars
  BY <1>2, Invariance, PTL DEF Spec
<1> QED BY <1>3, PTL DEF WinnerLeads, Leads


-----------------------------------------------------------------------------
(* Induction, on numbers and on the subsets of a set.                       *)

\* Natural numbers have a least one.
LEMMA LeastIn ==
  ASSUME NEW S \in SUBSET Nat, S # {}
  PROVE  \E p \in S : \A q \in S : p <= q
<1> DEFINE R == {pair \in Nat \X Nat : pair[1] < pair[2]}
<1>1. IsWellFoundedOn(R, Nat)
  BY NatLessThanWellFounded DEF OpToRel
<1>2. \A p, q \in S : ~(<<q, p>> \in R) => p <= q
  OBVIOUS
<1> HIDE DEF R
<1>3. \E p \in S : \A q \in S : ~(<<q, p>> \in R)
  BY <1>1, WFMin
<1> QED BY <1>2, <1>3

LEMMA SetInduction ==
  ASSUME NEW S, 0 \in S, \A n \in Nat : n \in S => n + 1 \in S
  PROVE  Nat \subseteq S
<1> SUFFICES ASSUME ~ (Nat \subseteq S) PROVE FALSE
  OBVIOUS
<1> DEFINE T == Nat \ S
<1>1. PICK x \in T : \A y \in T : x <= y
  <2> HIDE DEF T
  <2>1. T \in SUBSET Nat /\ T # {} BY DEF T
  <2> QED BY ONLY <2>1, LeastIn
<1>2. x # 0 BY <1>1
<1>3. x - 1 \in Nat /\ x - 1 \notin T BY <1>1, <1>2
<1> QED BY <1>1, <1>3

\* What a set has if all smaller sets have it, all sets have.
LEMMA SubsetInduction ==
  ASSUME NEW S, IsFiniteSet(S), NEW Z,
         \A T \in SUBSET S : (\A R \in SUBSET T : R # T => R \in Z) => T \in Z
  PROVE  SUBSET S \subseteq Z
<1> DEFINE N == {n \in Nat : \A T \in SUBSET S : Cardinality(T) <= n => T \in Z}
<1>1. \A T \in SUBSET S : IsFiniteSet(T) /\ Cardinality(T) \in Nat
  BY FS_Subset, FS_CardinalityType
<1>2. \A T \in SUBSET S : \A R \in SUBSET T : R # T => Cardinality(R) < Cardinality(T)
  <2> TAKE T \in SUBSET S
  <2> TAKE R \in SUBSET T
  <2>1. IsFiniteSet(T) /\ Cardinality(T) \in Nat /\ Cardinality(R) \in Nat BY <1>1
  <2>2. Cardinality(R) <= Cardinality(T) /\ (Cardinality(R) = Cardinality(T) => R = T)
    BY <2>1, FS_Subset
  <2> QED BY <2>1, <2>2
<1>3. 0 \in N
  <2> SUFFICES ASSUME NEW T \in SUBSET S, Cardinality(T) <= 0 PROVE T \in Z
    OBVIOUS
  <2>1. \A R \in SUBSET T : R = T
    <3> TAKE R \in SUBSET T
    <3>1. Cardinality(R) \in Nat /\ Cardinality(T) \in Nat BY <1>1
    <3> QED BY <3>1, <1>2
  <2> QED BY <2>1
<1>4. \A n \in Nat : n \in N => n + 1 \in N
  <2> SUFFICES ASSUME NEW n \in Nat, n \in N, NEW T \in SUBSET S, Cardinality(T) <= n + 1
               PROVE  T \in Z
    OBVIOUS
  <2>1. \A R \in SUBSET T : R # T => R \in Z
    <3> TAKE R \in SUBSET T
    <3>1. Cardinality(R) \in Nat /\ Cardinality(T) \in Nat /\ R \in SUBSET S BY <1>1
    <3> QED BY <3>1, <1>2
  <2> QED BY <2>1
<1> HIDE DEF N
<1>5. Nat \subseteq N BY ONLY <1>3, <1>4, SetInduction
<1> SUFFICES ASSUME NEW T \in SUBSET S PROVE T \in Z
  OBVIOUS
<1>6. Cardinality(T) \in N BY <1>1, <1>5
<1> QED BY <1>1, <1>6 DEF N

-----------------------------------------------------------------------------
(* Sums of coins.                                                           *)

Any(T) == CHOOSE q \in T : TRUE

\* g sums f, over every part of S.
Sums(g, f, S) ==
  /\ g \in [SUBSET S -> Nat] /\ g[{}] = 0
  /\ \A T \in SUBSET S : T # {} => g[T] = f[Any(T)] + g[T \ {Any(T)}]

LEMMA AnyIn == ASSUME NEW T, T # {} PROVE Any(T) \in T
BY DEF Any

LEMMA SumsExist ==
  ASSUME NEW S, IsFiniteSet(S), NEW f, \A p \in S : f[p] \in Nat
  PROVE  \E g : Sums(g, f, S)
<1> DEFINE D(n) == {T \in SUBSET S : Cardinality(T) <= n}
           Upto(n, g) == /\ g \in [D(n) -> Nat] /\ g[{}] = 0
                         /\ \A T \in D(n) : T # {} => g[T] = f[Any(T)] + g[T \ {Any(T)}]
           N == {n \in Nat : \E g : Upto(n, g)}
<1>1. \A T \in SUBSET S : IsFiniteSet(T) /\ Cardinality(T) \in Nat
  BY FS_Subset, FS_CardinalityType
<1>2. Cardinality({}) = 0 /\ \A T \in SUBSET S : Cardinality(T) = 0 => T = {}
  BY <1>1, FS_EmptySet
<1>3. 0 \in N
  <2> DEFINE g == [T \in D(0) |-> 0]
  <2>1. \A T \in D(0) : T = {} BY <1>1, <1>2
  <2>2. {} \in D(0) BY <1>2
  <2>3. Upto(0, g) BY <2>1, <2>2
  <2> QED BY <2>3
<1>4. \A n \in Nat : n \in N => n + 1 \in N
  <2> SUFFICES ASSUME NEW n \in Nat, n \in N PROVE n + 1 \in N
    OBVIOUS
  <2>0. PICK g : Upto(n, g) OBVIOUS
  <2> DEFINE h == [T \in D(n + 1) |-> IF T = {} THEN 0 ELSE f[Any(T)] + g[T \ {Any(T)}]]
  <2>1. \A T \in D(n + 1) : T # {} => T \ {Any(T)} \in D(n) /\ Any(T) \in S
    <3> SUFFICES ASSUME NEW T \in D(n + 1), T # {} PROVE T \ {Any(T)} \in D(n) /\ Any(T) \in S
      OBVIOUS
    <3>1. T \in SUBSET S /\ Cardinality(T) <= n + 1 /\ Cardinality(T) \in Nat /\ IsFiniteSet(T) BY <1>1
    <3>2. Any(T) \in T BY AnyIn
    <3>3. Cardinality(T \ {Any(T)}) = Cardinality(T) - 1 BY <3>1, <3>2, FS_RemoveElement
    <3>4. T \ {Any(T)} \in SUBSET S /\ Cardinality(T \ {Any(T)}) <= n BY <3>1, <3>3
    <3> QED BY <3>1, <3>2, <3>4
  <2>2. \A T \in D(n) : T \in D(n + 1) BY <1>1
  <2>3. {} \in D(n + 1) /\ {} \in D(n) BY <1>2
  <2>4. h \in [D(n + 1) -> Nat] BY <2>0, <2>1
  <2>5. h[{}] = 0 BY <2>3
  <2>6. \A T \in D(n) : h[T] = g[T]
    <3> HIDE DEF D
    <3> QED BY <2>0, <2>2, <2>3
  <2>7. \A T \in D(n + 1) : T # {} => h[T] = f[Any(T)] + h[T \ {Any(T)}]
    <3> SUFFICES ASSUME NEW T \in D(n + 1), T # {} PROVE h[T] = f[Any(T)] + h[T \ {Any(T)}]
      OBVIOUS
    <3>1. h[T] = f[Any(T)] + g[T \ {Any(T)}] OBVIOUS
    <3> HIDE DEF h
    <3> QED BY <3>1, <2>1, <2>6
  <2>8. Upto(n + 1, h)
    <3> HIDE DEF h, D
    <3> QED BY <2>4, <2>5, <2>7
  <2> HIDE DEF h, Upto
  <2> QED BY <2>8
<1> HIDE DEF N
<1>5. Nat \subseteq N BY ONLY <1>3, <1>4, SetInduction
<1>6. PICK g : Upto(Cardinality(S), g)
  <2>1. S \in SUBSET S OBVIOUS
  <2>2. Cardinality(S) \in N BY <1>1, <1>5, <2>1
  <2> QED BY <2>2 DEF N
<1>7. D(Cardinality(S)) = SUBSET S
  <2>1. \A T \in SUBSET S : Cardinality(T) <= Cardinality(S) BY FS_Subset
  <2> QED BY <2>1
<1> HIDE DEF D
<1> QED BY <1>6, <1>7 DEF Sums

LEMMA CoinSumIs ==
  ASSUME NEW S, IsFiniteSet(S), NEW f, \A p \in S : f[p] \in Nat
  PROVE  \E g : Sums(g, f, S) /\ CoinSum(f, S) = g[S]
<1> DEFINE sum[T \in SUBSET S] ==
             IF T = {} THEN 0
             ELSE LET p == CHOOSE q \in T : TRUE IN f[p] + sum[T \ {p}]
<1>1. CoinSum(f, S) = sum[S] BY DEF CoinSum
<1>2. PICK g : Sums(g, f, S) BY SumsExist
<1>3. g = [T \in SUBSET S |-> IF T = {} THEN 0
                              ELSE LET p == CHOOSE q \in T : TRUE IN f[p] + g[T \ {p}]]
  BY <1>2 DEF Sums, Any
<1>4. sum = [T \in SUBSET S |-> IF T = {} THEN 0
                                ELSE LET p == CHOOSE q \in T : TRUE IN f[p] + sum[T \ {p}]]
  BY <1>3, Zenon
<1> HIDE DEF sum
<1>5. Sums(sum, f, S)
  <2>1. DOMAIN sum = SUBSET S BY <1>4
  <2>2. \A T \in SUBSET S : sum[T] = IF T = {} THEN 0 ELSE f[Any(T)] + sum[T \ {Any(T)}]
    BY <1>4 DEF Any
  <2> DEFINE Z == {T \in SUBSET S : sum[T] \in Nat}
  <2>3. \A T \in SUBSET S : (\A R \in SUBSET T : R # T => R \in Z) => T \in Z
    <3> SUFFICES ASSUME NEW T \in SUBSET S, \A R \in SUBSET T : R # T => R \in Z PROVE T \in Z
      OBVIOUS
    <3> SUFFICES sum[T] \in Nat
      OBVIOUS
    <3>1. CASE T = {}
      <4>1. sum[T] = 0 BY <3>1, <2>2
      <4> QED BY <4>1
    <3>2. CASE T # {}
      <4>1. Any(T) \in T BY <3>2, AnyIn
      <4>2. T \ {Any(T)} \in Z BY <4>1
      <4>3. sum[T \ {Any(T)}] \in Nat BY <4>2
      <4>4. f[Any(T)] \in Nat BY <4>1
      <4>5. sum[T] = f[Any(T)] + sum[T \ {Any(T)}] BY <3>2, <2>2
      <4> QED BY <4>3, <4>4, <4>5
    <3> QED BY <3>1, <3>2
  <2> HIDE DEF Z
  <2>4. SUBSET S \subseteq Z BY ONLY <2>3, SubsetInduction, IsFiniteSet(S)
  <2>5. \A T \in SUBSET S : sum[T] \in Nat BY <2>4 DEF Z
  <2>6. sum \in [SUBSET S -> Nat]
    <3>1. sum = [T \in SUBSET S |-> sum[T]] BY <1>4
    <3> QED BY <3>1, <2>5
  <2> QED BY <2>2, <2>6 DEF Sums
<1> QED BY <1>1, <1>5

\* Any element may be counted first.
LEMMA AnyFirst ==
  ASSUME NEW S, IsFiniteSet(S), NEW f, \A p \in S : f[p] \in Nat, NEW g, Sums(g, f, S),
         NEW V \in SUBSET S, NEW v \in V
  PROVE  g[V] = f[v] + g[V \ {v}]
<1> DEFINE Z == {T \in SUBSET S : \A p \in T : g[T] = f[p] + g[T \ {p}]}
<1>1. \A T \in SUBSET S : g[T] \in Nat BY DEF Sums
<1>2. ASSUME NEW T \in SUBSET S, \A R \in SUBSET T : R # T => R \in Z, NEW p \in T
      PROVE  g[T] = f[p] + g[T \ {p}]
  <2> DEFINE c == Any(T)
             U == T \ {c, p}
  <2>1. c \in T /\ g[T] = f[c] + g[T \ {c}]
    <3>1. T # {} BY <1>2
    <3> QED BY <3>1, AnyIn DEF Sums
  <2>2. CASE p = c BY <2>1, <2>2
  <2>3. CASE p # c
    <3>1. T \ {c} \in Z /\ p \in T \ {c} /\ (T \ {c}) \ {p} = U BY <1>2, <2>1, <2>3
    <3>2. T \ {p} \in Z /\ c \in T \ {p} /\ (T \ {p}) \ {c} = U BY <1>2, <2>1, <2>3
    <3>3. g[T \ {c}] = f[p] + g[U] BY <3>1
    <3>4. g[T \ {p}] = f[c] + g[U] BY <3>2
    <3>5. f[p] \in Nat /\ f[c] \in Nat /\ g[U] \in Nat BY <1>1, <1>2, <2>1
    <3> QED BY <2>1, <3>3, <3>4, <3>5
  <2> QED BY <2>2, <2>3
<1>3. \A T \in SUBSET S : (\A R \in SUBSET T : R # T => R \in Z) => T \in Z BY <1>2
<1> HIDE DEF Z
<1>4. SUBSET S \subseteq Z BY ONLY <1>3, SubsetInduction, IsFiniteSet(S)
<1> QED BY <1>4 DEF Z

\* The sum of a part does not depend on the whole.
LEMMA SamePart ==
  ASSUME NEW P, NEW S \in SUBSET P, IsFiniteSet(S), NEW f,
         NEW g, Sums(g, f, P), NEW h, Sums(h, f, S)
  PROVE  h[S] = g[S]
<1> DEFINE Z == {T \in SUBSET S : h[T] = g[T]}
<1>1. \A T \in SUBSET S : (\A R \in SUBSET T : R # T => R \in Z) => T \in Z
  <2> SUFFICES ASSUME NEW T \in SUBSET S, \A R \in SUBSET T : R # T => R \in Z PROVE h[T] = g[T]
    OBVIOUS
  <2>1. CASE T = {} BY <2>1 DEF Sums
  <2>2. CASE T # {}
    <3>1. Any(T) \in T BY <2>2, AnyIn
    <3>2. T \ {Any(T)} \in Z BY <3>1
    <3>3. h[T] = f[Any(T)] + h[T \ {Any(T)}] BY <2>2 DEF Sums
    <3>4. T \in SUBSET P /\ g[T] = f[Any(T)] + g[T \ {Any(T)}] BY <2>2 DEF Sums
    <3> QED BY <3>2, <3>3, <3>4
  <2> QED BY <2>1, <2>2
<1> HIDE DEF Z
<1>2. SUBSET S \subseteq Z BY ONLY <1>1, SubsetInduction, IsFiniteSet(S)
<1> QED BY <1>2 DEF Z

\* What a set of players drops is what they had.
LEMMA DroppedSum ==
  ASSUME NEW P, IsFiniteSet(P), NEW S \in SUBSET P, NEW f, \A p \in P : f[p] \in Nat,
         NEW k, \A p \in P : k[p] = IF p \in S THEN 0 ELSE f[p]
  PROVE  CoinSum(k, P) + CoinSum(f, S) = CoinSum(f, P)
         /\ CoinSum(k, P) \in Nat /\ CoinSum(f, S) \in Nat /\ CoinSum(f, P) \in Nat
<1>0. IsFiniteSet(S) BY FS_Subset
<1>1. PICK g : Sums(g, f, P) /\ CoinSum(f, P) = g[P] BY CoinSumIs
<1>2. PICK h : Sums(h, k, P) /\ CoinSum(k, P) = h[P]
  <2>1. \A p \in P : k[p] \in Nat OBVIOUS
  <2> QED BY ONLY <2>1, CoinSumIs, IsFiniteSet(P)
<1>3. CoinSum(f, S) = g[S]
  <2>1. \A p \in S : f[p] \in Nat OBVIOUS
  <2>2. PICK j : Sums(j, f, S) /\ CoinSum(f, S) = j[S] BY ONLY <2>1, <1>0, CoinSumIs
  <2>3. j[S] = g[S]
    <3>1. Sums(j, f, S) /\ Sums(g, f, P) BY <1>1, <2>2
    <3> QED BY ONLY <3>1, <1>0, S \in SUBSET P, SamePart
  <2> QED BY <2>2, <2>3
<1>4. \A T \in SUBSET P : g[T] \in Nat /\ h[T] \in Nat BY <1>1, <1>2 DEF Sums
<1>5. ASSUME NEW T \in SUBSET P, NEW p \in T PROVE g[T] = f[p] + g[T \ {p}]
  <2>1. Sums(g, f, P) /\ (\A q \in P : f[q] \in Nat) /\ IsFiniteSet(P) BY <1>1
  <2> QED BY ONLY <2>1, T \in SUBSET P, p \in T, AnyFirst
<1> DEFINE Z == {T \in SUBSET P : h[T] + g[T \cap S] = g[T]}
<1>6. \A T \in SUBSET P : (\A R \in SUBSET T : R # T => R \in Z) => T \in Z
  <2> SUFFICES ASSUME NEW T \in SUBSET P, \A R \in SUBSET T : R # T => R \in Z
               PROVE  h[T] + g[T \cap S] = g[T]
    OBVIOUS
  <2>1. CASE T = {}
    <3>1. h[{}] = 0 /\ g[{}] = 0 /\ T \cap S = {} BY <1>1, <1>2, <2>1 DEF Sums
    <3> QED BY <3>1, <2>1
  <2>2. CASE T # {}
    <3> DEFINE c == Any(T)
               R == T \ {c}
    <3>1. c \in T BY <2>2, AnyIn
    <3>2. R \in Z BY <3>1
    <3>3. h[R] + g[R \cap S] = g[R] BY <3>2
    <3>4. h[T] = k[c] + h[R] BY <1>2, <2>2 DEF Sums
    <3>5. g[T] = f[c] + g[R] BY <1>5, <3>1
    <3>6. R \in SUBSET P /\ R \cap S \in SUBSET P /\ T \cap S \in SUBSET P /\ f[c] \in Nat BY <3>1
    <3>7. g[R] \in Nat /\ h[R] \in Nat /\ g[R \cap S] \in Nat /\ g[T \cap S] \in Nat BY <1>4, <3>6
    <3>8. CASE c \in S
      <4>1. c \in T \cap S /\ (T \cap S) \ {c} = R \cap S BY <3>1, <3>8
      <4>2. g[T \cap S] = f[c] + g[R \cap S] BY <1>5, <3>6, <4>1
      <4>3. k[c] = 0 BY <3>8
      <4> HIDE DEF c, R
      <4> QED BY <3>3, <3>4, <3>5, <3>6, <3>7, <4>2, <4>3
    <3>9. CASE c \notin S
      <4>1. T \cap S = R \cap S BY <3>9
      <4>2. k[c] = f[c] BY <3>1, <3>9
      <4>3. g[T \cap S] = g[R \cap S] BY <4>1
      <4> HIDE DEF c, R
      <4>4. h[T] = f[c] + h[R] /\ f[c] \in Nat BY <3>4, <3>6, <4>2
      <4> QED BY ONLY <3>3, <3>5, <3>7, <4>3, <4>4
    <3> QED BY <3>8, <3>9
  <2> QED BY <2>1, <2>2
<1> HIDE DEF Z
<1>7. SUBSET P \subseteq Z BY ONLY <1>6, SubsetInduction, IsFiniteSet(P)
<1>8. P \in Z BY <1>7
<1>9. h[P] + g[P \cap S] = g[P] /\ P \cap S = S BY <1>8 DEF Z
<1> QED BY <1>1, <1>2, <1>3, <1>4, <1>9

\* Where nobody loses and somebody gains, there is more.
LEMMA MoreCoins ==
  ASSUME NEW P, IsFiniteSet(P), NEW f, \A p \in P : f[p] \in Nat,
         NEW k, \A p \in P : k[p] \in Nat /\ f[p] <= k[p], NEW s \in P, f[s] < k[s]
  PROVE  CoinSum(f, P) < CoinSum(k, P) /\ CoinSum(f, P) \in Nat /\ CoinSum(k, P) \in Nat
<1>1. PICK g : Sums(g, f, P) /\ CoinSum(f, P) = g[P] BY CoinSumIs
<1>2. \A p \in P : k[p] \in Nat OBVIOUS
<1>3. PICK h : Sums(h, k, P) /\ CoinSum(k, P) = h[P]
  BY ONLY <1>2, CoinSumIs, IsFiniteSet(P)
<1>4. \A T \in SUBSET P : g[T] \in Nat /\ h[T] \in Nat BY <1>1, <1>3 DEF Sums
<1> DEFINE Z == {T \in SUBSET P : g[T] <= h[T]}
<1>5. \A T \in SUBSET P : (\A R \in SUBSET T : R # T => R \in Z) => T \in Z
  <2> SUFFICES ASSUME NEW T \in SUBSET P, \A R \in SUBSET T : R # T => R \in Z PROVE g[T] <= h[T]
    OBVIOUS
  <2>1. CASE T = {}
    <3>1. g[{}] = 0 /\ h[{}] = 0 BY <1>1, <1>3 DEF Sums
    <3> QED BY <2>1, <3>1
  <2>2. CASE T # {}
    <3> DEFINE c == Any(T)
               R == T \ {c}
    <3>1. c \in T BY <2>2, AnyIn
    <3>2. R \in Z BY <3>1
    <3>3. g[R] <= h[R] /\ g[R] \in Nat /\ h[R] \in Nat BY <3>2, <1>4
    <3>4. h[T] = k[c] + h[R] /\ g[T] = f[c] + g[R] BY <1>1, <1>3, <2>2 DEF Sums
    <3>5. f[c] \in Nat /\ k[c] \in Nat /\ f[c] <= k[c] BY <3>1
    <3> HIDE DEF c, R
    <3> QED BY <3>3, <3>4, <3>5
  <2> QED BY <2>1, <2>2
<1> HIDE DEF Z
<1>6. SUBSET P \subseteq Z BY ONLY <1>5, SubsetInduction, IsFiniteSet(P)
<1> DEFINE R == P \ {s}
<1>7. R \in SUBSET P OBVIOUS
<1>8. g[R] <= h[R] /\ g[R] \in Nat /\ h[R] \in Nat
  <2> HIDE DEF R
  <2>1. R \in Z BY <1>6, <1>7
  <2> QED BY <2>1, <1>4, <1>7 DEF Z
<1>9. g[P] = f[s] + g[R] /\ h[P] = k[s] + h[R]
  <2>1. P \in SUBSET P /\ s \in P OBVIOUS
  <2>2. Sums(g, f, P) /\ Sums(h, k, P) /\ (\A q \in P : f[q] \in Nat) /\ (\A q \in P : k[q] \in Nat)
    BY <1>1, <1>3
  <2>3. g[P] = f[s] + g[R] BY ONLY <2>1, <2>2, IsFiniteSet(P), AnyFirst
  <2>4. h[P] = k[s] + h[R] BY ONLY <2>1, <2>2, IsFiniteSet(P), AnyFirst
  <2> QED BY <2>3, <2>4
<1>10. f[s] \in Nat /\ k[s] \in Nat /\ f[s] < k[s] OBVIOUS
<1> HIDE DEF R
<1> QED BY <1>1, <1>3, <1>4, <1>8, <1>9, <1>10

-----------------------------------------------------------------------------
(* Coins are never lost as long as there is room for all that are needed.   *)

CoinsOK == lying \in Nat /\ CoinsEnough

LEMMA DropKeeps ==
  ASSUME IInv, CoinsOK, NEW S \in SUBSET Players, DropCoins(S), option' = option
  PROVE  CoinsOK'
<1>0. IsFiniteSet(Players) BY PlayersFinite
<1>1. ObjectRoom \in Nat /\ option.portals \in Nat
  BY MatchAssumption, GameParts DEF IInv
<1>2. coins \in [Players -> Nat] BY DEF IInv, ScoresOK
<1>3. CASE option.mode # "coin rush"
  BY <1>3 DEF DropCoins, CoinsOK, CoinsEnough
<1>4. CASE option.mode = "coin rush"
  <2>1. PICK k, l : k = coins' /\ l = lying' OBVIOUS
  <2> DEFINE had     == CoinSum(coins, Players)
             dropped == CoinSum(coins, S)
             left    == CoinSum(k, Players)
  <2>2. \A p \in Players : k[p] = IF p \in S THEN 0 ELSE coins[p] BY <1>4, <2>1 DEF DropCoins
  <2>3. l = IF ObjectRoom < lying + dropped THEN ObjectRoom ELSE lying + dropped
    BY <1>4, <2>1 DEF DropCoins, Lesser
  <2>4. left + dropped = had /\ left \in Nat /\ dropped \in Nat /\ had \in Nat
    <3>1. \A p \in Players : coins[p] \in Nat BY <1>2
    <3> QED BY ONLY <1>0, <2>2, <3>1, S \in SUBSET Players, DroppedSum
  <2>5. lying \in Nat /\ (option.portals <= ObjectRoom => had + lying >= option.portals)
    BY <1>4 DEF CoinsOK, CoinsEnough
  <2> HIDE DEF had, dropped, left
  <2>6. l \in Nat /\ (option.portals <= ObjectRoom => left + l >= option.portals)
    BY <1>1, <2>3, <2>4, <2>5
  <2> QED BY <2>1, <2>6 DEF CoinsOK, CoinsEnough, left
<1> QED BY <1>3, <1>4

LEMMA PickUpKeeps ==
  ASSUME IInv, CoinsOK, PickUpCoin
  PROVE  CoinsOK'
<1>0. IsFiniteSet(Players) BY PlayersFinite
<1>1. ObjectRoom \in Nat /\ option.portals \in Nat
  BY MatchAssumption, GameParts DEF IInv
<1>2. coins \in [Players -> Nat] /\ active \subseteq Players /\ lying \in Nat
  BY GameParts DEF IInv, ScoresOK, BodiesOK, GameOK, CoinsOK
<1>3. PICK S \in SUBSET active : S # {} /\
        coins' = [q \in Players |-> IF q \in S THEN coins[q] + 1 ELSE coins[q]]
  <2> DEFINE alive == {q \in active : life[q] > 0}
             Picked(S) == coins' = [q \in Players |-> IF q \in S THEN coins[q] + 1 ELSE coins[q]]
  <2>1. \E S \in (SUBSET alive) \ {{}} : Picked(S)
    <3>1. PickUpCoin OBVIOUS
    <3> QED BY ONLY <3>1 DEF PickUpCoin
  <2>2. alive \subseteq active OBVIOUS
  <2> HIDE DEF alive, Picked
  <2>3. \E S \in SUBSET active : S # {} /\ Picked(S) BY <2>1, <2>2
  <2> QED BY <2>3 DEF Picked
<1>4. PICK s \in S : s \in Players
  <2>1. S # {} /\ S \subseteq Players BY <1>2, <1>3
  <2> QED BY ONLY <2>1
<1>5. PICK k, l : k = coins' /\ l = lying' OBVIOUS
<1>6. lying > 0 /\ l = lying - 1 /\ option' = option BY <1>5 DEF PickUpCoin
<1>7. CoinSum(coins, Players) < CoinSum(k, Players)
      /\ CoinSum(coins, Players) \in Nat /\ CoinSum(k, Players) \in Nat
  <2>1. \A p \in Players : coins[p] \in Nat BY <1>2
  <2>2. \A p \in Players : k[p] \in Nat /\ coins[p] <= k[p] BY <1>2, <1>3, <1>5
  <2>3. coins[s] < k[s] BY <1>2, <1>3, <1>4, <1>5
  <2> QED BY ONLY <1>0, <1>4, <2>1, <2>2, <2>3, MoreCoins
<1> DEFINE had == CoinSum(coins, Players)
           has == CoinSum(k, Players)
           needed == option.portals
<1>8. option.mode = "coin rush" /\ needed <= ObjectRoom => had + lying >= needed
  BY DEF CoinsOK, CoinsEnough
<1>9. had < has /\ had \in Nat /\ has \in Nat /\ needed \in Nat BY <1>1, <1>7
<1> HIDE DEF had, has, needed
<1>10. l \in Nat /\ (had + lying >= needed => has + l >= needed)
  BY <1>2, <1>6, <1>9
<1>11. option.mode = "coin rush" /\ needed <= ObjectRoom => has + l >= needed
  BY <1>8, <1>10
<1> QED BY <1>5, <1>6, <1>10, <1>11 DEF CoinsOK, CoinsEnough, has, needed

LEMMA CoinsStart == Init => CoinsOK
<1> SUFFICES ASSUME Init PROVE CoinsOK
  OBVIOUS
<1>1. ObjectRoom \in Nat /\ option.portals \in Nat
  BY InitHolds, MatchAssumption, GameParts DEF IInv
<1>2. lying \in Nat /\ (option.mode = "coin rush" /\ option.portals <= ObjectRoom => lying = option.portals)
  <2>1. option.mode = "coin rush" => lying = Lesser(ObjectRoom, option.portals) BY DEF Init
  <2>2. option.mode # "coin rush" => lying = 0 BY DEF Init
  <2>3. PICK n : n = option.portals OBVIOUS
  <2>4. Lesser(ObjectRoom, n) \in Nat /\ (n <= ObjectRoom => Lesser(ObjectRoom, n) = n)
    BY <1>1, <2>3 DEF Lesser
  <2>5. CASE option.mode = "coin rush"
    <3> DEFINE l == Lesser(ObjectRoom, n)
    <3>1. lying = l BY <2>1, <2>3, <2>5
    <3>2. l \in Nat /\ (n <= ObjectRoom => l = n) BY <2>4
    <3> HIDE DEF l
    <3>3. lying \in Nat /\ (n <= ObjectRoom => lying = n) BY ONLY <3>1, <3>2
    <3> QED BY ONLY <3>3, <2>3, Zenon
  <2>6. CASE option.mode # "coin rush"
    <3>1. lying = 0 BY <2>2, <2>6, Zenon
    <3>2. lying \in Nat BY ONLY <3>1
    <3> QED BY <3>2, <2>6, Zenon
  <2> QED BY ONLY <2>5, <2>6
<1>3. CoinSum(coins, Players) \in Nat
  <2>1. \A p \in Players : coins[p] \in Nat BY DEF Init
  <2>2. IsFiniteSet(Players) BY PlayersFinite
  <2>3. PICK g : Sums(g, coins, Players) /\ CoinSum(coins, Players) = g[Players]
    BY ONLY <2>1, <2>2, CoinSumIs
  <2> QED BY <2>3 DEF Sums
<1> DEFINE has == CoinSum(coins, Players)
           needed == option.portals
<1>4. has \in Nat BY <1>3
<1> HIDE DEF has
<1>5. needed \in Nat /\ (option.mode = "coin rush" /\ needed <= ObjectRoom => lying = needed)
  BY <1>1, <1>2
<1> HIDE DEF needed
<1>6. lying = needed => has + lying >= needed BY <1>4, <1>5
<1>7. option.mode = "coin rush" /\ needed <= ObjectRoom => has + lying >= needed
  BY <1>5, <1>6
<1> QED BY <1>2, <1>7 DEF CoinsOK, CoinsEnough, has, needed

LEMMA CoinsKept == IInv /\ CoinsOK /\ [Next]_vars => CoinsOK'
<1> SUFFICES ASSUME IInv, CoinsOK, [Next]_vars PROVE CoinsOK'
  OBVIOUS
<1>0. UNCHANGED <<option, coins, lying>> => CoinsOK'
  BY DEF CoinsOK, CoinsEnough
<1>1. ASSUME NEW p \in Players, Move(p) PROVE CoinsOK'
  <2>1. PICK dealers : DropCoins(Killed(dealers)) BY <1>1 DEF Move, ReceiveHits
  <2>2. option' = option BY <1>1 DEF Move, Turn
  <2>3. Killed(dealers) \in SUBSET Players BY DEF Killed
  <2> QED BY <2>1, <2>2, <2>3, DropKeeps
<1>2. ASSUME NEW p \in Players, Paintballs(p) PROVE CoinsOK'
  <2>1. PICK dealers : DropCoins(Killed(dealers)) BY <1>2 DEF Paintballs, ReceiveHits
  <2>2. option' = option BY <1>2 DEF Paintballs
  <2>3. Killed(dealers) \in SUBSET Players BY DEF Killed
  <2> QED BY <2>1, <2>2, <2>3, DropKeeps
<1>3. CASE PickUpCoin BY <1>3, PickUpKeeps
<1>4. ASSUME NEW p \in Players, SitOut(p) \/ FadeOut(p) \/ FadeIn(p)
      PROVE  UNCHANGED <<option, coins, lying>>
  BY <1>4 DEF SitOut, FadeOut, FadeIn, Turn, scores
<1>5. StartTick \/ ObjectsDone \/ ProcessRules => UNCHANGED <<option, coins, lying>>
  BY DEF StartTick, ObjectsDone, ProcessRules, scores
<1>6. ASSUME NEW p \in Leavers, RemovePlayer(p) PROVE UNCHANGED <<option, coins, lying>>
  BY <1>6 DEF RemovePlayer, scores
<1>7. UNCHANGED vars => UNCHANGED <<option, coins, lying>>
  BY DEF vars, scores
<1> QED BY <1>0, <1>1, <1>2, <1>3, <1>4, <1>5, <1>6, <1>7 DEF Next, Tick, PlayerLogic

(* pp2_player_drop_coins and the objects of coins: a coin rush can be won   *)
(* from every state of it, since the coins on the field and those in hands, *)
(* of players who have left included, are never fewer than are needed.      *)
THEOREM CoinsLast == Spec => []CoinsEnough
<1>1. Init => CoinsOK BY CoinsStart
<1>2. IInv /\ CoinsOK /\ [Next]_vars => CoinsOK' BY CoinsKept
<1>3. CoinsOK => CoinsEnough BY DEF CoinsOK
<1> QED BY <1>1, <1>2, <1>3, Invariance, PTL DEF Spec
=============================================================================
