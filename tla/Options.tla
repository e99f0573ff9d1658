------------------------------ MODULE Options ------------------------------
(***************************************************************************)
(* The rules of a game as the menus set them: the quick games, which write *)
(* a whole set of rules at once, the custom game, whose screens move one   *)
(* rule at a time, the rules a host sends with the start of his game, and  *)
(* the configuration file, through which they reach the next run of the    *)
(* program.                                                                *)
(*                                                                         *)
(* All rules live in one array that is never cleared: a quick game has to  *)
(* overwrite whatever earlier games, hosts, replays and runs left there.   *)
(***************************************************************************)
EXTENDS Integers

CONSTANTS
  Weapons,      \* the kinds of ammunition
  Powers,       \* the power-ups, one of which is "turbo"
  MaxChanges    \* bound: how many rules are changed by hand

VARIABLES
  rule,      \* the numeric rules
  enabled,   \* which ammunition and power-ups lie on the levels
  stock,     \* the ammunition a life starts with
  custom,    \* whether the screens of the custom game are open
  kept,      \* the configuration file
  changes

vars == <<rule, enabled, stock, custom, kept, changes>>

Eliminator == 0
DeathMatch == 1
CoinRush   == 2
Explore    == 7

Kinds == Weapons \cup Powers
Offensive == Powers \cap {"turbo", "deflect"}
All(set, value) == [x \in set |-> value]

\* What the program starts with when it finds no file.
Default ==
  [rule    |-> [mode |-> Eliminator, hits |-> 1, frags |-> 20, life |-> 1,
                time |-> 2, random |-> 0, stomp |-> 0, worth |-> 1],
   enabled |-> All(Kinds, 1),
   stock   |-> All(Weapons, 1)]

\* No screen offers what a box of ammunition is worth, but the file does.
Edited == [Default EXCEPT !.rule.worth = 3]

Init ==
  /\ kept \in {Default, Edited}
  /\ rule = kept.rule /\ enabled = kept.enabled /\ stock = kept.stock
  /\ custom = FALSE
  /\ changes = 0

(***************************************************************************)
(* The quick games.  Each takes the rules as they are and returns them     *)
(* with its own written over them.                                         *)
(***************************************************************************)
OneHit(r) ==
  [rule    |-> [r EXCEPT !.mode = Eliminator, !.random = 0, !.hits = 1, !.stomp = 0],
   enabled |-> [k \in Kinds |-> IF k \in Weapons THEN 0 ELSE 1],
   stock   |-> All(Weapons, 1)]

Stomp21(r) ==
  [rule    |-> [r EXCEPT !.mode = DeathMatch, !.random = 0, !.time = 2, !.life = 1,
                         !.frags = 21, !.stomp = 1],
   enabled |-> [k \in Kinds |-> IF k \in Weapons \cup Offensive THEN 0 ELSE 1],
   stock   |-> All(Weapons, 0)]

\* A mutant: the frag limit of the last game stays.
TwoMinutesUnlimited(r) ==
  [rule    |-> [r EXCEPT !.mode = DeathMatch, !.random = 0, !.time = 2, !.life = 1,
                         !.stomp = 0, !.worth = 1],
   enabled |-> All(Kinds, 1),
   stock   |-> All(Weapons, 1)]

TwoMinutes(r) ==
  [rule    |-> [r EXCEPT !.mode = DeathMatch, !.random = 0, !.time = 2, !.life = 1,
                         !.frags = 20, !.stomp = 0, !.worth = 1],
   enabled |-> All(Kinds, 1),
   stock   |-> All(Weapons, 1)]

Coins(r) ==
  [rule    |-> [r EXCEPT !.mode = CoinRush, !.random = 0, !.time = 2, !.life = 1,
                         !.stomp = 1],
   enabled |-> All(Kinds, 1),
   stock   |-> All(Weapons, 1)]

Royale(r) ==
  [rule    |-> [r EXCEPT !.mode = Eliminator, !.random = 1, !.hits = 1, !.stomp = 0],
   enabled |-> All(Kinds, 1),
   stock   |-> All(Weapons, 0)]

Exploring(r) ==
  [rule    |-> [r EXCEPT !.mode = Explore, !.random = 0],
   enabled |-> All(Kinds, 1),
   stock   |-> All(Weapons, 99)]

Games == 1 .. 6
Quick(g, r) ==
  CASE g = 1 -> OneHit(r)     [] g = 2 -> Stomp21(r) [] g = 3 -> TwoMinutes(r)
    [] g = 4 -> Coins(r)      [] g = 5 -> Royale(r)  [] g = 6 -> Exploring(r)

Set(rules) ==
  /\ rule' = rules.rule /\ enabled' = rules.enabled /\ stock' = rules.stock
  /\ custom' = FALSE

PlayQuick(g) ==
  /\ Set(Quick(g, rule))
  /\ UNCHANGED <<kept, changes>>

\* The rules of a game that somebody else plays or has played.  Bound: it is one of
\* two games, which have as little in common as two of the six can have.
Others == {2, 6}
Elsewhere(g) == Quick(g, [Edited.rule EXCEPT !.hits = 3, !.time = 9])

\* A host's start brings his rules along.
ReceiveRules(g) == Set(Elsewhere(g)) /\ UNCHANGED <<kept, changes>>

\* A replay is run with the rules that were recorded, and leaves them.
PlayReplay(g) == Set(Elsewhere(g)) /\ UNCHANGED <<kept, changes>>

(***************************************************************************)
(* The custom game.  Its first screen knows three modes, and exploring     *)
(* becomes elimination there.                                              *)
(***************************************************************************)
PlayCustom ==
  /\ ~custom /\ custom' = TRUE
  /\ rule' = [rule EXCEPT !.mode = IF @ = Explore THEN Eliminator ELSE @]
  /\ UNCHANGED <<enabled, stock, kept, changes>>

Changing ==
  /\ custom /\ changes < MaxChanges
  /\ changes' = changes + 1
  /\ UNCHANGED <<custom, kept>>

GameType ==
  /\ Changing
  /\ \E step \in {1, 2} : rule' = [rule EXCEPT !.mode = (@ + step) % 3]
  /\ UNCHANGED <<enabled, stock>>

\* The counters a mode's screen of settings offers, with the least value each.
Offered ==
  CASE rule.mode = Eliminator -> {"hits"}
    [] rule.mode = DeathMatch -> {"life", "time", "frags"}
    [] rule.mode = CoinRush   -> {"time"}
Least(r) == IF r \in {"hits", "life"} THEN 1 ELSE 0

Settings ==
  /\ Changing
  /\ \E r \in Offered, up \in BOOLEAN :
       rule' = [rule EXCEPT ![r] = IF up THEN (IF @ < 99 THEN @ + 1 ELSE @)
                                         ELSE (IF @ > Least(r) THEN @ - 1 ELSE @)]
  /\ UNCHANGED <<enabled, stock>>

Toggles ==
  /\ Changing
  /\ \E r \in {"stomp", "random"} : rule' = [rule EXCEPT ![r] = 1 - @]
  /\ UNCHANGED <<enabled, stock>>

Stock ==
  /\ Changing
  /\ \E w \in Weapons, up \in BOOLEAN :
       stock' = [stock EXCEPT ![w] = IF up THEN (IF @ < 99 THEN @ + 1 ELSE @)
                                           ELSE (IF @ > 0 THEN @ - 1 ELSE @)]
  /\ UNCHANGED <<rule, enabled>>

Items ==
  /\ Changing
  /\ \E k \in Kinds : enabled' = [enabled EXCEPT ![k] = 1 - @]
  /\ UNCHANGED <<rule, stock>>

(***************************************************************************)
(* The end of one run and the start of the next.  Whether stomping hurts   *)
(* is not in the file, and is off in a program that has just started.      *)
(***************************************************************************)
Exit ==
  /\ kept' = [rule |-> rule, enabled |-> enabled, stock |-> stock]
  /\ custom' = FALSE
  /\ UNCHANGED changes

LoadFrom(file) ==
  /\ rule' = [file.rule EXCEPT !.stomp = Default.rule.stomp]
  /\ enabled' = file.enabled /\ stock' = file.stock

Restart == Exit /\ LoadFrom(kept')

\* The program does not get to the line that writes the file.
Crash ==
  /\ LoadFrom(kept)
  /\ custom' = FALSE
  /\ UNCHANGED <<kept, changes>>

Next ==
  \/ \E g \in Games : PlayQuick(g)
  \/ \E g \in Others : ReceiveRules(g) \/ PlayReplay(g)
  \/ PlayCustom \/ GameType \/ Settings \/ Toggles \/ Stock \/ Items
  \/ Restart \/ Crash

Spec == Init /\ [][Next]_vars

(***************************************************************************)
(* Properties.                                                             *)
(***************************************************************************)
\* The rules that have a meaning in a mode: a limit of frags has none where
\* lives are counted, a number of hits none where they are not.
Meant(mode) ==
  CASE mode = Eliminator -> {"mode", "random", "stomp", "hits"}
    [] mode = DeathMatch -> {"mode", "random", "stomp", "life", "time", "frags"}
    [] mode = CoinRush   -> {"mode", "random", "stomp", "life", "time"}
    [] mode = Explore    -> {"mode", "random"}

\* The quick games that have ammunition on their levels and leave what a box of
\* it is worth as they find it: of the six, only the two minutes' game writes it.
WorthAsFound == {4, 5, 6}

Written(g) ==
  LET fresh == Quick(g, Default.rule) IN
  Meant(fresh.rule.mode)
    \cup {r \in {"worth"} : g \notin WorthAsFound /\ \E w \in Weapons : fresh.enabled[w] = 1}

\* A quick game is the game its name says, whatever was played, watched, received
\* or changed by hand before it, in this run of the program or an earlier one:
\* every rule that has a meaning in it is the one a fresh program gives it.  The
\* exception is the worth of ammunition in coin rush, battle royale and exploring.
QuickGameStep ==
  \A g \in Games :
    PlayQuick(g) =>
      LET fresh == Quick(g, Default.rule) IN
        /\ enabled' = fresh.enabled /\ stock' = fresh.stock
        /\ \A r \in Written(g) : rule'[r] = fresh.rule[r]

QuickGameIsItself == [][QuickGameStep]_vars
=============================================================================
