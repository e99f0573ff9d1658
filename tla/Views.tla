------------------------------- MODULE Views -------------------------------
(***************************************************************************)
(* What is on the screen during a game: the players of one machine share   *)
(* it, each with a view of his own, and in a view the others can be seen   *)
(* unless they are cloaked.                                                *)
(*                                                                         *)
(* The screen is taken as its four quarters, numbered like the view ports. *)
(* A tick goes through the players in the order of their slots; where they *)
(* stand and who hits whom is left open.  The screen is drawn between two  *)
(* ticks.                                                                  *)
(***************************************************************************)
EXTENDS Integers, FiniteSets

CONSTANTS
  NumPlayers,  \* slots, PP2_MAX_PLAYERS
  Games,       \* [clients, here, legacy, respawn]: the slots of each client, one of
               \* them on this machine ({} for one that only watches), the kind of
               \* level, and whether the dead come back
  FadeTime,    \* ticks of a fade; 30 in the code
  CloakTime,   \* ticks a cloak lasts; 600
  Steps,       \* ticks in which the winner's view grows from half the screen; 60
  MaxEvents    \* bound: deaths, cloaks, departures and chats

VARIABLES
  game,      \* the game that is played
  phase,     \* PP2_STATE_GAME, GAME_OVER or MENU
  turn,      \* whose turn it is in the tick; NumPlayers is the objects', None no one's
  playing,
  active,    \* PP2_PLAYER_FLAG_ACTIVE
  dead,      \* those with no life left
  fade,      \* fade_time, negative where fade_type is "out"
  cloaked,   \* PP2_PLAYER_FLAG_POWER_CLOAK
  timer,     \* PP2_PLAYER_TIMER_CLOAK
  target,
  blips,     \* the players among radar_object
  winner,
  grown,     \* how far the winner's view has grown
  hidden,    \* history: who has been cloaked since the tick began
  revived,   \* history: whom a chat brought back into the game, until he moves
  events

people == <<playing, active, dead, fade, cloaked, timer, target>>
vars == <<game, phase, turn, people, blips, winner, grown, hidden, revived, events>>

Players == 0 .. NumPlayers - 1
Quarters == 0 .. 3
None == -1

Here == game.here

-----------------------------------------------------------------------------
(* The views *)

\* view_port: only those who share the screen have one, and no more than four.
Port(p) ==
  LET before == Cardinality({q \in Here : q < p})
  IN IF Cardinality(Here) >= 2 /\ p \in Here /\ before < 4 THEN before ELSE None

\* The quarters that the view of p takes: top left, bottom right, top right and
\* bottom left in the order of the ports; two share the screen by halves, in a
\* legacy level by the first two quarters.
Place(p) ==
  IF Port(p) = None THEN Quarters
  ELSE IF Cardinality(Here) = 2 /\ ~game.legacy
         THEN IF Port(p) = 0 THEN {0, 3} ELSE {1, 2}
         ELSE {Port(p)}

\* gp->replay_player: who is watched on a machine without players.
Watched(g) ==
  LET all == UNION g.clients
  IN IF g.here # {} THEN None ELSE CHOOSE p \in all : \A q \in all : p <= q

Drawn ==
  IF phase = "over" THEN {winner}
  ELSE {p \in active : (p \in Here /\ Watched(game) = None) \/ p \in {Watched(game), winner}}

\* render_viewport_backdrop: the ports of nobody get a picture, the others are black.
Empty ==
  LET used == {Port(p) : p \in active} \ {None}
  IN IF used = {} /\ active # {} THEN {} ELSE Quarters \ used

\* What is seen in quarter c in the end: who comes later is drawn over the rest.
Shown(c) ==
  LET over == {p \in Drawn : c \in Place(p)}
  IN IF over # {} THEN CHOOSE p \in over : \A q \in over : q <= p
     ELSE IF c \in Empty THEN "empty" ELSE "black"

\* The players whose picture is drawn in the view of v.
Pictured(v) == (active \ cloaked) \union (active \intersect {v})

\* Those whose name is written there; who only watches reads all names.
Named(v) == IF Watched(game) = None THEN active \ ({v} \union cloaked) ELSE active

\* Those who are marked as its target, by an arrow and a frame.
Marked(v) == {target[v]} \ {None}

\* Those who are a point on its radar.
Spotted(v) == (blips \ cloaked) \union (blips \intersect {v})

Seen(v) == Pictured(v) \union Named(v) \union Marked(v) \union Spotted(v)

-----------------------------------------------------------------------------
(* A tick *)

Init ==
  /\ game \in Games
  /\ phase = "game" /\ turn = None
  /\ playing = UNION game.clients /\ active = playing /\ dead = {}
  /\ fade = [p \in Players |-> 1]
  /\ cloaked = {} /\ timer = [p \in Players |-> 0]
  /\ target = [p \in Players |-> None]
  /\ blips = {} /\ winner = None /\ grown = 0 /\ hidden = {} /\ revived = {} /\ events = 0

BeginTick ==
  /\ phase \in {"game", "over"} /\ turn = None
  /\ turn' = 0 /\ blips' = {} /\ hidden' = cloaked
  /\ UNCHANGED <<game, phase, people, winner, grown, revived, events>>

\* Who is not there, or out of the game.
Skip ==
  /\ turn \in Players
  /\ turn \notin playing \intersect active
  /\ turn' = turn + 1
  /\ UNCHANGED <<game, phase, people, blips, winner, grown, hidden, revived, events>>

\* The fade of the dead ends: they come back, or are out.
FadeOut(p) ==
  /\ fade[p] < 0
  /\ fade' = [fade EXCEPT ![p] = IF @ < -1 THEN @ + 1 ELSE IF game.respawn /\ winner = None THEN 1 ELSE 0]
  /\ IF fade[p] < -1 THEN UNCHANGED <<active, dead, cloaked, hidden, timer, target>>
     ELSE /\ cloaked' = cloaked \ {p} /\ hidden' = hidden \ {p}
          /\ IF game.respawn /\ winner = None
               THEN /\ dead' = dead \ {p} /\ UNCHANGED active
                    /\ timer' = [timer EXCEPT ![p] = 0] /\ target' = [target EXCEPT ![p] = None]
               ELSE active' = active \ {p} /\ UNCHANGED <<dead, timer, target>>
  /\ UNCHANGED <<blips, revived>>

FadeIn(p) ==
  /\ fade[p] > 0
  /\ fade' = [fade EXCEPT ![p] = IF @ + 1 >= FadeTime THEN 0 ELSE @ + 1]
  /\ UNCHANGED <<active, dead, cloaked, hidden, timer, target, blips, revived>>

\* Mutation: the cloaked are not passed over.
TargetsCloaked(p) == {q \in active \ {p} : fade[q] = 0}

\* pp2_find_closest_player; any of them may be the closest.
Targets(p) == {q \in active \ ({p} \union cloaked) : fade[q] = 0}

\* Who holds loaded seekers looks for a target; then the cloak wears off.
Move(p) ==
  /\ fade[p] = 0 /\ p \notin dead
  /\ \E q \in {None} \union Targets(p) : target' = [target EXCEPT ![p] = q]
  /\ IF p \in cloaked
       THEN /\ timer' = [timer EXCEPT ![p] = @ - 1]
            /\ cloaked' = IF timer[p] - 1 <= 0 THEN cloaked \ {p} ELSE cloaked
       ELSE UNCHANGED <<timer, cloaked>>
  /\ hidden' = hidden \intersect cloaked'
  /\ blips' = blips \union {p} /\ revived' = revived \ {p}
  /\ UNCHANGED <<active, dead, fade>>

\* pp2_player_rules: who has no life left begins to fade, and does so in this tick.
Die(p) ==
  /\ fade[p] = 0 /\ p \in dead
  /\ fade' = [fade EXCEPT ![p] = -(FadeTime - 1)]
  /\ UNCHANGED <<active, dead, cloaked, hidden, timer, target, blips, revived>>

PlayerLogic ==
  /\ turn \in playing \intersect active
  /\ FadeOut(turn) \/ FadeIn(turn) \/ Move(turn) \/ Die(turn)
  /\ turn' = turn + 1
  /\ UNCHANGED <<game, phase, playing, winner, grown, events>>

\* A paintball of a player whose turn is over, or he himself, takes the last life of q.
Kill(q) ==
  /\ turn \in 1 .. NumPlayers /\ winner = None
  /\ events < MaxEvents /\ events' = events + 1
  /\ q \in active \ dead /\ fade[q] = 0
  /\ dead' = dead \union {q}
  /\ UNCHANGED <<game, phase, turn, playing, active, fade, cloaked, timer, target, blips, winner, grown, hidden,
                 revived>>

\* A cloak is touched, while the objects have their turn.
TakeCloak(q) ==
  /\ turn = NumPlayers /\ q \in active
  /\ events < MaxEvents /\ events' = events + 1
  /\ cloaked' = cloaked \union {q} /\ timer' = [timer EXCEPT ![q] = CloakTime]
  /\ UNCHANGED <<game, phase, turn, playing, active, dead, fade, target, blips, winner, grown, hidden,
                 revived>>

\* The rules: the last one in wins, where nobody comes back; elsewhere anyone may.
Winners ==
  IF winner # None THEN {winner}
  ELSE IF game.respawn THEN {None} \union active
  ELSE IF Cardinality(active) < 2 THEN active ELSE {None}

\* pp2_game_over_logic: the view of a winner on this machine grows.
Grow ==
  IF phase = "over" /\ winner \in Here /\ Place(winner) # Quarters /\ grown < Steps
    THEN grown + 1 ELSE grown

EndTick ==
  /\ turn = NumPlayers
  /\ \E w \in Winners :
       /\ winner' = w
       /\ phase' = IF w # None THEN "over" ELSE phase
       /\ fade' = IF winner = None /\ w # None /\ game.respawn
                    THEN [p \in Players |-> IF p \in active \ {w} THEN -FadeTime ELSE fade[p]]
                    ELSE fade
  /\ grown' = Grow
  /\ turn' = None
  /\ UNCHANGED <<game, playing, active, dead, cloaked, timer, target, blips, hidden, revived, events>>

-----------------------------------------------------------------------------
(* Messages *)

\* REMOVE_PLAYER; a machine that loses a player leaves the game.
Remove(p) ==
  /\ turn = None /\ phase # "menu" /\ p \in playing
  /\ events < MaxEvents /\ events' = events + 1
  /\ playing' = playing \ {p} /\ active' = active \ {p} /\ cloaked' = cloaked \ {p}
  /\ phase' = IF p \in Here THEN "menu" ELSE phase
  /\ UNCHANGED <<game, turn, dead, fade, timer, target, blips, winner, grown, hidden, revived>>

\* TYPING_DONE: each player of the client is given the flags of the slot that is
\* numbered like his place in the message.
Chat(client) ==
  LET place(s) == Cardinality({r \in client : r < s})
      from[s \in client] ==
        IF place(s) \in client \ {s} THEN from[place(s)] ELSE place(s)
      copied(set) == (set \ client) \union {s \in client : from[s] \in set}
  IN /\ turn = None /\ phase # "menu" /\ client \subseteq playing
     /\ events < MaxEvents /\ events' = events + 1
     /\ active' = copied(active) /\ cloaked' = copied(cloaked)
     /\ revived' = revived \union (active' \ active)
     /\ UNCHANGED <<game, phase, turn, playing, dead, fade, timer, target, blips, winner, grown, hidden>>

Next ==
  \/ BeginTick \/ Skip \/ PlayerLogic \/ EndTick
  \/ \E q \in Players : Kill(q) \/ TakeCloak(q) \/ Remove(q)
  \/ \E client \in game.clients : Chat(client)

Spec == Init /\ [][Next]_vars

-----------------------------------------------------------------------------

\* Whoever plays on this machine sees himself in all of his part of the screen,
\* whoever else lives or dies; and where one of several who share it is out, the
\* screen says so, as long as another of them is in.  With more than four of them
\* the fifth is drawn over the others.
SplitScreen ==
  phase = "game" /\ turn = None /\ Cardinality(Here) \in 1 .. 4 =>
    \A p \in Here : \A c \in Place(p) :
      IF p \in active THEN Shown(c) = p
      ELSE active \intersect Here # {} => Shown(c) = "empty"

\* Nobody can be made out in the view of another once he has been cloaked for a
\* whole tick, except that the dead who fade, and those who fade in, keep the mark
\* of the target they had, and so does whom a chat brings back into the game until
\* it is his turn.
CloakHides ==
  phase = "game" /\ turn = None =>
    \A v \in Drawn \intersect Here, q \in hidden \intersect cloaked :
      v # q /\ fade[v] = 0 /\ v \notin revived => q \notin Seen(v)

\* Where nobody comes back one goes out of the game by losing his lives, or by leaving.
OutByHits ==
  [][\A p \in active \ active' : winner # None \/ p \in dead \/ p \notin playing']_vars
=============================================================================
