------------------------------- MODULE Match -------------------------------
(***************************************************************************)
(* One game, from the ticks of which Lockstep makes sure that everybody    *)
(* runs the same: hits, lives, the fade out of the dead and the fade in of *)
(* who spawns, frags, coins, and the rules that end the game.              *)
(*                                                                         *)
(* A tick goes through the players in the order of their slots, each       *)
(* followed by its paintballs, then through the objects, then checks the   *)
(* rules.  Where things are is left open: a paintball may hit anybody it   *)
(* could hurt, players may land on each other, a coin may be touched by    *)
(* several at once.  A hit that does no damage and a coin that flies       *)
(* change nothing here.                                                    *)
(***************************************************************************)
EXTENDS Integers, FiniteSets

CONSTANTS
  NumPlayers,  \* slots, PP2_MAX_PLAYERS
  Options,     \* the games that may be played, see OptionType
  FadeTime,    \* ticks of a fade; 30 in the code
  FlashTime,   \* ticks after a hit without damage from paintballs; 30
  ObjectRoom,  \* objects beyond those of the level; 256 in the code
  Leavers,     \* players the network may remove during the game
  MaxFrags,    \* bound: paintballs and stomps that would exceed it miss
  MaxCoins     \* bound: coins that would exceed it are not picked up

Players == 0 .. NumPlayers - 1

\* No player: gp->winner = -1.
NoOne == -1

Modes == {"eliminator", "death match", "coin rush"}

\* Who plays, by which settings, in which level.  life stands for
\* ELIMINATION_HITS or LIFE, goal for DEATH_MATCH_FRAGS; 0 is "no goal" and
\* "no time limit".  portals is available_portals; one player can be in the
\* way at as many as reach of them, which is 1 in a level whose portals lie
\* further apart than a player is wide.
OptionType ==
  [players : SUBSET Players, mode : Modes, life : Nat \ {0},
   goal : Nat, timeLimit : Nat, stomp : BOOLEAN,
   portals : Nat, reach : Nat \ {0}]

ASSUME MatchAssumption ==
  /\ NumPlayers \in Nat \ {0}
  /\ Options \subseteq OptionType
  /\ FadeTime \in Nat /\ FadeTime >= 2
  /\ FlashTime \in Nat /\ FlashTime >= 2
  /\ {ObjectRoom, MaxFrags, MaxCoins} \subseteq Nat
  /\ Leavers \subseteq Players

VARIABLES
  option,     \* the game that is played
  phase,      \* what the tick does next, see Phases
  slot,       \* the player whose turn it is
  playing,    \* players with player[p].playing
  active,     \* players with PP2_PLAYER_FLAG_ACTIVE
  fadeTime,   \* fade_time
  fadeType,   \* fade_type: "out" is 0, "in" is 1
  life,
  flashTime,  \* flash_time
  frags,
  coins,
  lying,      \* coins among the active objects
  timeLeft,   \* time_left
  winner,
  gameOver,   \* next_state or state is PP2_STATE_GAME_OVER
  scored      \* history: frags others have scored on the player's present life

rules  == <<timeLeft, winner, gameOver>>
bodies == <<active, fadeTime, fadeType, life, flashTime>>
scores == <<frags, coins, lying, scored>>
vars   == <<option, phase, slot, playing, bodies, scores, rules>>

Phases == {"between ticks", "player", "paintballs", "objects", "rules"}

\* What the properties rest on; a tick goes through phases and slots in order.
TypeOK ==
  /\ option \in OptionType
  /\ active \subseteq playing /\ playing \subseteq Players
  /\ fadeTime \in [Players -> Nat]
  /\ fadeType \in [Players -> {"out", "in"}]
  /\ life \in [Players -> Int]
  /\ flashTime \in [Players -> Nat]
  /\ frags \in [Players -> Nat] /\ coins \in [Players -> Nat]
  /\ winner \in Players \cup {NoOne}
  /\ scored \in [Players -> Nat]

Respawning == option.mode \in {"death match", "coin rush"}

CoinSum(f, S) ==
  LET sum[T \in SUBSET S] ==
        IF T = {} THEN 0
        ELSE LET p == CHOOSE q \in T : TRUE IN f[p] + sum[T \ {p}]
  IN  sum[S]

Lesser(a, b) == IF a < b THEN a ELSE b

-----------------------------------------------------------------------------
(***************************************************************************)
(* Hits.  dealers[q] are the players by whom q is hit in this step; they   *)
(* are served in the order of their slots.                                 *)
(***************************************************************************)

\* The dealers whose hit finds q with no life left, q itself excepted.
Scorers(dealers, q) ==
  {d \in dealers[q] \ {q} : Cardinality({e \in dealers[q] : e <= d}) >= life[q]}

Killed(dealers) ==
  {q \in Players : dealers[q] # {} /\ Cardinality(dealers[q]) >= life[q]}

\* Mutation: coins are reset before they are dropped.
DropCoinsReset(S) ==
  /\ coins' = [q \in Players |-> IF q \in S THEN 0 ELSE coins[q]]
  /\ lying' = lying

\* Everybody in S drops all its coins; those that find no object are lost.
DropCoins(S) ==
  IF option.mode = "coin rush"
  THEN /\ coins' = [q \in Players |-> IF q \in S THEN 0 ELSE coins[q]]
       /\ lying' = Lesser(ObjectRoom, lying + CoinSum(coins, S))
  ELSE UNCHANGED <<coins, lying>>

ReceiveHits(dealers) ==
  /\ life'   = [q \in Players |-> life[q] - Cardinality(dealers[q])]
  /\ frags'  = [d \in Players |->
                  frags[d] + Cardinality({q \in Players : d \in Scorers(dealers, q)})]
  /\ scored' = [q \in Players |-> scored[q] + Cardinality(Scorers(dealers, q))]
  /\ \A d \in Players : frags'[d] <= MaxFrags \/ frags'[d] = frags[d]
  /\ DropCoins(Killed(dealers))

-----------------------------------------------------------------------------
(***************************************************************************)
(* The turn of a player.                                                   *)
(***************************************************************************)

\* Mutation: flags are cleared only after the search for a portal.
PortalsBusyWithMe(p) == Cardinality(active) * option.reach >= option.portals

\* Only players on the field are in the way at a portal.
AllPortalsMayBeBusy(p) == Cardinality(active \ {p}) * option.reach >= option.portals

\* pp2_game_spawn_player for p, whose flags are clear.
Spawn(p) ==
  \/ /\ option.portals > 0
     /\ active'    = active
     /\ fadeTime'  = [fadeTime EXCEPT ![p] = 1]
     /\ fadeType'  = [fadeType EXCEPT ![p] = "in"]
     /\ life'      = [life EXCEPT ![p] = option.life]
     /\ flashTime' = [flashTime EXCEPT ![p] = 0]
     /\ scored'    = [scored EXCEPT ![p] = 0]
  \/ /\ AllPortalsMayBeBusy(p)
     /\ active'   = active \ {p}
     /\ fadeTime' = [fadeTime EXCEPT ![p] = 0]
     /\ UNCHANGED <<fadeType, life, flashTime, scored>>

Vanish(p) ==
  /\ active'   = active \ {p}
  /\ fadeTime' = [fadeTime EXCEPT ![p] = 0]
  /\ UNCHANGED <<fadeType, life, flashTime, scored>>

\* The next player from slot i on, or the objects.
TurnFrom(i) ==
  IF \E q \in playing : q >= i
  THEN /\ phase' = "player"
       /\ slot'  = CHOOSE q \in playing : q >= i /\ \A r \in playing : r >= i => q <= r
  ELSE /\ phase' = "objects"
       /\ slot'  = slot

Turn(p) ==
  /\ phase = "player" /\ slot = p
  /\ phase' = "paintballs"
  /\ UNCHANGED <<option, slot, playing, rules>>

\* Mutation: the dead start to fade out in every tick.
DoomedAgain(p) == life[p] <= 0

\* pp2_player_rules: who has no life left starts to fade out.
Doomed(p)    == life[p] <= 0 /\ fadeTime[p] = 0
FadingOut(p) == fadeType[p] = "out" /\ (fadeTime[p] > 0 \/ Doomed(p))
FadingIn(p)  == fadeType[p] = "in"

SitOut(p) ==
  /\ Turn(p)
  /\ p \notin active
  /\ UNCHANGED <<bodies, scores>>

FadeOut(p) ==
  LET left == (IF Doomed(p) THEN FadeTime ELSE fadeTime[p]) - 1
  IN  /\ Turn(p)
      /\ p \in active /\ FadingOut(p)
      /\ \/ /\ left > 0
            /\ fadeTime' = [fadeTime EXCEPT ![p] = left]
            /\ UNCHANGED <<active, fadeType, life, flashTime, scored>>
         \/ left = 0 /\ Respawning /\ winner = NoOne /\ Spawn(p)
         \/ left = 0 /\ ~(Respawning /\ winner = NoOne) /\ Vanish(p)
      /\ UNCHANGED <<frags, coins, lying>>

\* Who fades in has no paintballs yet.
FadeIn(p) ==
  LET done == fadeTime[p] + 1 >= FadeTime
  IN  /\ phase = "player" /\ slot = p
      /\ p \in active /\ FadingIn(p)
      /\ fadeTime' = [fadeTime EXCEPT ![p] = IF done THEN 0 ELSE @ + 1]
      /\ fadeType' = [fadeType EXCEPT ![p] = IF done THEN "out" ELSE @]
      /\ TurnFrom(p + 1)
      /\ UNCHANGED <<option, playing, active, life, flashTime, scores, rules>>

\* Players p can bump into: anybody but those who fade out.
Solid(p) == {q \in active \ {p} : fadeType[q] = "out" => fadeTime[q] = 0}

\* p moves, lands on those below and is landed on by those above.
Move(p) ==
  /\ Turn(p)
  /\ p \in active /\ ~FadingOut(p) /\ ~FadingIn(p)
  /\ \E below \in SUBSET Solid(p) : \E above \in SUBSET (Solid(p) \ below) :
       LET dealers == [q \in Players |-> IF q = p THEN above
                                         ELSE IF q \in below THEN {p} ELSE {}]
           flash   == [q \in Players |-> IF dealers[q] # {} THEN FlashTime
                                         ELSE flashTime[q]]
       IN  /\ ~option.stomp => below = {} /\ above = {}
           /\ ReceiveHits(dealers)
           /\ flashTime' = [flash EXCEPT ![p] = IF @ > 0 THEN @ - 1 ELSE 0]
  /\ UNCHANGED <<active, fadeTime, fadeType>>

-----------------------------------------------------------------------------
(***************************************************************************)
(* The paintballs of a player, dead or alive, and the objects.             *)
(***************************************************************************)

\* Mutation: who has just been hit is hurt again.
VulnerableFlashing == {q \in active : fadeTime[q] = 0}

\* Whom a paintball can hurt.
Vulnerable == {q \in active : fadeTime[q] = 0 /\ flashTime[q] = 0}

\* Mutation: paintballs still hurt when somebody has won.
TargetsAfterwards(p) == IF FadingIn(p) THEN {} ELSE Vulnerable

\* A player who spawns loses the paintballs of its last life.
Targets(p) == IF winner # NoOne \/ FadingIn(p) THEN {} ELSE Vulnerable

Paintballs(p) ==
  /\ phase = "paintballs" /\ slot = p
  /\ \E hit \in SUBSET Targets(p) :
       /\ ReceiveHits([q \in Players |-> IF q \in hit THEN {p} ELSE {}])
       /\ flashTime' = [q \in Players |-> IF q \in hit THEN FlashTime ELSE flashTime[q]]
  /\ TurnFrom(p + 1)
  /\ UNCHANGED <<option, playing, active, fadeTime, fadeType, rules>>

\* Every player that touches the coin gets one, though the coin is gone.
PickUpCoin ==
  /\ phase = "objects" /\ lying > 0
  /\ \E S \in (SUBSET {q \in active : life[q] > 0}) \ {{}} :
       /\ coins' = [q \in Players |-> IF q \in S THEN coins[q] + 1 ELSE coins[q]]
       /\ CoinSum(coins', Players) + lying - 1 <= MaxCoins
  /\ lying' = lying - 1
  /\ UNCHANGED <<option, phase, slot, playing, bodies, frags, scored, rules>>

ObjectsDone ==
  /\ phase = "objects"
  /\ phase' = "rules"
  /\ UNCHANGED <<option, slot, playing, bodies, scores, rules>>

-----------------------------------------------------------------------------
(***************************************************************************)
(* The rules, once a tick as long as nobody has won.                       *)
(***************************************************************************)

Score(p) == IF option.mode = "death match" THEN frags[p] ELSE coins[p]

\* coins_needed in a coin rush.
Target  == IF option.mode = "death match" THEN option.goal ELSE option.portals
HasGoal == option.mode = "death match" => option.goal > 0
Reached == {p \in active : HasGoal /\ Score(p) >= Target}

TimeUp  == option.timeLimit > 0 /\ timeLeft = 0
Leaders == {p \in active : Score(p) > 0 /\ \A q \in active : Score(q) <= Score(p)}

\* Mutation: a tie ends the game, too.
OnTimeTied == TimeUp /\ Leaders # {}

\* The time limit ends the game unless the leaders are tied.
OnTime  == TimeUp /\ Cardinality(Leaders) = 1

\* Whoever reaches the goal fades out all others who are active; the last to
\* do so in the order of the slots is the winner, unless time is up as well.
Winner ==
  CASE OnTime                   -> CHOOSE p \in Leaders : TRUE
    [] ~OnTime /\ Reached # {}  -> CHOOSE p \in Reached : \A q \in Reached : q <= p
    [] OTHER                    -> NoOne

FadedBy(S) == {q \in active : \E p \in S : p # q}

FadeAll(S) ==
  /\ fadeTime' = [q \in Players |-> IF q \in S THEN FadeTime ELSE fadeTime[q]]
  /\ fadeType' = [q \in Players |-> IF q \in S THEN "out" ELSE fadeType[q]]

\* PP2_GAME_MODE_ELIMINATOR: the game ends when fewer than two are left.
LastStanding ==
  IF Cardinality(active) < 2
  THEN /\ gameOver' = TRUE
       /\ winner'   = IF active = {} THEN NoOne ELSE CHOOSE p \in active : TRUE
  ELSE UNCHANGED <<gameOver, winner>>

ProcessRules ==
  /\ phase = "rules"
  /\ phase' = "between ticks"
  /\ \/ winner # NoOne /\ UNCHANGED <<bodies, winner, gameOver>>
     \/ winner = NoOne /\ ~Respawning /\ LastStanding /\ UNCHANGED bodies
     \/ /\ winner = NoOne /\ Respawning
        /\ winner'   = Winner
        /\ gameOver' = (gameOver \/ Winner # NoOne)
        /\ FadeAll(FadedBy(Reached) \cup FadedBy(IF OnTime THEN Leaders ELSE {}))
        /\ UNCHANGED <<active, life, flashTime>>
  /\ UNCHANGED <<option, slot, playing, scores, timeLeft>>

\* pp2_game_logic_tick.
StartTick ==
  /\ phase = "between ticks"
  /\ timeLeft' = IF winner = NoOne /\ timeLeft > 0 THEN timeLeft - 1 ELSE timeLeft
  /\ TurnFrom(0)
  /\ UNCHANGED <<option, playing, bodies, scores, winner, gameOver>>

\* JOYNET_GAME_MESSAGE_REMOVE_PLAYER.  What p has collected goes with it.
RemovePlayer(p) ==
  /\ phase = "between ticks"
  /\ p \in playing
  /\ playing' = playing \ {p}
  /\ active'  = active \ {p}
  /\ UNCHANGED <<option, phase, slot, fadeTime, fadeType, life, flashTime, scores, rules>>

\* pp2_game_setup: it fails unless everybody finds a portal.
Init ==
  /\ option \in Options
  /\ phase = "between ticks" /\ slot = 0
  /\ playing = option.players /\ active = option.players
  /\ Cardinality(option.players) <= option.portals
  /\ fadeTime  = [p \in Players |-> 1]
  /\ fadeType  = [p \in Players |-> "in"]
  /\ life      = [p \in Players |-> option.life]
  /\ flashTime = [p \in Players |-> 0]
  /\ frags     = [p \in Players |-> 0]
  /\ coins     = [p \in Players |-> 0]
  /\ lying     = IF option.mode = "coin rush" THEN Lesser(ObjectRoom, option.portals) ELSE 0
  /\ timeLeft  = option.timeLimit
  /\ winner = NoOne /\ gameOver = FALSE
  /\ scored    = [p \in Players |-> 0]

PlayerLogic(p) == SitOut(p) \/ FadeOut(p) \/ FadeIn(p) \/ Move(p)

Tick ==
  \/ StartTick
  \/ \E p \in Players : PlayerLogic(p) \/ Paintballs(p)
  \/ PickUpCoin
  \/ ObjectsDone
  \/ ProcessRules

Next == Tick \/ \E p \in Leavers : RemovePlayer(p)

\* The timer keeps calling the game's logic.
Fairness == WF_vars(Tick)

Spec     == Init /\ [][Next]_vars
FairSpec == Spec /\ Fairness

-----------------------------------------------------------------------------
(***************************************************************************)
(* What the game promises.                                                 *)
(***************************************************************************)

\* Where players cannot hurt each other by landing on each other, a life is
\* worth one frag, however many paintballs strike in the tick that ends it:
\* who is hit flashes until it has faded out (pp2_paintball_logic).
OneFragPerLife == ~option.stomp => \A p \in Players : scored[p] <= 1

\* As long as nobody has won a death match or a coin rush, whoever plays is on
\* the field: the game only starts with a portal for everybody, so that the
\* dead find a free one, if nobody is in the way at two.  pp2_player_logic
\* ignores a spawn that fails, and a player it fails for never comes back.
NobodyStranded ==
  Respawning /\ option.reach = 1 /\ winner = NoOne => playing = active

\* There are always enough coins on the field, and in the hands of those who
\* play or have left, for a player who collects all of them to win.
CoinsEnough ==
  option.mode = "coin rush" /\ option.portals <= ObjectRoom
    => CoinSum(coins, Players) + lying >= option.portals

\* Who wins has reached the goal, or leads everybody who still plays when time
\* is up: nobody is left out of the count for being dead at that moment, which
\* only those who found no portal would be.
WinnerLeads ==
  [][ Respawning /\ option.reach = 1 /\ winner = NoOne /\ winner' # NoOne
        => /\ winner' \in playing
           /\ \/ HasGoal /\ Score(winner') >= Target
              \/ \A q \in playing \ {winner'} : Score(q) < Score(winner') ]_vars

\* A result stands: the winner is not replaced and, where nobody stomps, no
\* paintball that is still in the air changes the frags the players are shown.
ResultStands ==
  [][ winner # NoOne => /\ winner' = winner
                        /\ ~option.stomp => frags' = frags ]_vars

\* The dead of a death match or a coin rush are back on their feet in the end,
\* unless they leave or the game is decided first.
DeadReturn ==
  \A p \in Players :
    Respawning /\ option.reach = 1 /\ ~option.stomp /\ p \in playing /\ life[p] <= 0
      ~> \/ p \in active /\ fadeTime[p] = 0 /\ life[p] > 0
         \/ p \notin playing
         \/ winner # NoOne

=============================================================================
