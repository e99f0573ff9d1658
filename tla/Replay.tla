------------------------------- MODULE Replay -------------------------------
(***************************************************************************)
(* Replays: a game writes down what it starts from and the buttons of      *)
(* every tick, and a replay runs the game again from that, forwards at     *)
(* several speeds and backwards by starting over.                          *)
(*                                                                         *)
(* What a tick makes of the buttons is the same code in both (Match and    *)
(* the modules of the arena), so a game is told by its players, its rules  *)
(* (the seed is one of them) and the buttons of its ticks.  The camera and *)
(* the player it follows are left out.                                     *)
(***************************************************************************)
EXTENDS Naturals, Sequences, SequencesExt, FiniteSets

CONSTANTS
  Slots,     \* 1 .. number of players
  Buttons,   \* what a player may hold
  Rules,     \* values of the game options, the seed included
  StepBack,  \* ticks a step back goes back (60)
  Fast,      \* ticks at once while RIGHT is held (4)
  FadeTicks, \* ticks of a fade (30)
  DemoTicks, \* the buttons of the demo that comes with the game
  MaxTicks,  \* bound: ticks of a game that is recorded
  MaxFiles   \* bound: games recorded, and the demo

VARIABLES
  joined,  \* the players of client_game
  gp,      \* PP2_GAME: playing, rules, flags, done; run is the game since it was
           \* set up, file, pos and offset what is open and where
  screen,  \* state, step mode, fade and the files still to be shown
  files    \* the replays there are; truth is the game, whole what it is worth

vars == <<joined, gp, screen, files>>

All == 99      \* what is read behind the end: every button
Ascending(S) == SetToSortSeq(S, <)

Run(players, rules) == [players |-> players, rules |-> rules, ticks |-> <<>>]

\* The header, cell by cell: version, rules, each slot with its character, level.
Header(players, rules) ==
  <<"P2R", rules>>
    \o FlattenSeq([p \in Slots |-> IF p \in players THEN <<1, "character">> ELSE <<0>>])
    \o <<"level">>

Ticks(ticks, players) ==
  FlattenSeq([t \in DOMAIN ticks |-> [k \in 1 .. Cardinality(players) |-> ticks[t][Ascending(players)[k]]]])

\* The demo comes with the game; a file may be of another version, or need a
\* character or a level that is not there.
None   == <<"none">>
Faults == {None, <<"version">>, <<"level">>} \union {<<"character", p>> : p \in Slots}
Demo(ticks, rules, fault) ==
  [cells |-> Header(Slots, rules) \o Ticks(ticks, Slots), fault |-> fault, whole |-> TRUE,
   truth |-> [Run(Slots, rules) EXCEPT !.ticks = ticks]]

\* With no file open there is neither a game nor a replay.  (replay_flags and
\* replay_rewind outlive the replay; after it they only silence the sound.)
Closed(g) == [playing |-> g.playing, rules |-> g.rules, flags |-> "", done |-> FALSE,
              run |-> Run({}, g.rules), file |-> 0, pos |-> 0, eof |-> FALSE, offset |-> 0]

Init ==
  /\ joined = {}
  /\ gp = Closed([playing |-> {}, rules |-> CHOOSE r \in Rules : TRUE])
  /\ screen = [state |-> "TITLE", step |-> FALSE, fade |-> 0, more |-> <<>>]
  /\ \E fault \in Faults, r \in Rules : files = <<Demo(DemoTicks, r, fault)>>

-----------------------------------------------------------------------------
(* A game: pp2_game_setup, the ticks and the end *)

Setup(g) == [g EXCEPT !.run = Run(g.playing, g.rules), !.pos = g.offset, !.eof = FALSE]

Join(p) ==
  /\ screen.state = "MENU" /\ p \notin joined
  /\ joined' = joined \union {p} /\ gp' = [gp EXCEPT !.playing = @ \union {p}]
  /\ UNCHANGED <<screen, files>>

\* REMOVE_PLAYER: also in a game.  The buttons of the ticks that follow are
\* then fewer than the header of the file says.
Leave(p) ==
  /\ screen.state \in {"MENU", "GAME"} /\ p \in joined
  /\ joined' = joined \ {p} /\ gp' = [gp EXCEPT !.playing = @ \ {p}]
  /\ files' = IF screen.state = "GAME" THEN [files EXCEPT ![gp.file].whole = FALSE] ELSE files
  /\ UNCHANGED screen

\* Those who played in the replay watched last are set up and written down with
\* those who joined, though they are no players of this game.
StartGame(r) ==
  /\ screen.state = "MENU" /\ joined # {} /\ Len(files) < MaxFiles
  /\ gp' = [Setup([gp EXCEPT !.rules = r]) EXCEPT !.file = Len(files) + 1]
  /\ files' = Append(files, [cells |-> Header(gp.playing, r), fault |-> None,
                             whole |-> gp.playing = joined, truth |-> Run(gp.playing, r)])
  /\ screen' = [screen EXCEPT !.state = "GAME"]
  /\ UNCHANGED joined

GameTick(b) ==
  /\ screen.state = "GAME" /\ Len(gp.run.ticks) < MaxTicks
  /\ gp' = [gp EXCEPT !.run.ticks = Append(@, b)]
  /\ files' = [files EXCEPT ![gp.file].cells = @ \o Ticks(<<b>>, joined),
                            ![gp.file].truth.ticks = Append(@, b)]
  /\ UNCHANGED <<joined, screen>>

EndGame ==
  /\ screen.state = "GAME"
  /\ gp' = Closed(gp) /\ screen' = [screen EXCEPT !.state = "MENU", !.step = FALSE, !.fade = 0]
  /\ UNCHANGED <<joined, files>>

-----------------------------------------------------------------------------
(* Watching: w is what the replay works on, gp and screen *)

Faded(g)          == g.flags \in {"DEMO", "THEATER"}
Open(g, f, flags) == [g EXCEPT !.flags = flags, !.done = FALSE, !.file = f]
Fail(g)           == Closed(g)

\* The players are read slot by slot: up to the one whose character is missing
\* they are those of the file, after it those of before.
PlayersUpTo(g, f, last) == {p \in Slots : IF p <= last THEN p \in files[f].truth.players ELSE p \in g.playing}

ReadHeader(g, f, last) ==
  [g EXCEPT !.rules = files[f].cells[2], !.playing = PlayersUpTo(g, f, last),
            !.offset = Len(Header(files[f].truth.players, files[f].truth.rules))]

\* pp2_play_replay
Plays(f) == files[f].fault = None \/ (Len(files[f].fault) = 2 /\ files[f].fault[2] \notin files[f].truth.players)
Play(w, f, flags) ==
  LET g     == Open(w.gp, f, flags)
      fault == files[f].fault
      fresh == [w.screen EXCEPT !.step = FALSE, !.fade = IF Plays(f) /\ Faded(g) THEN FadeTicks ELSE 0]
  IN [gp |-> IF Plays(f) THEN Setup(ReadHeader(g, f, Cardinality(Slots)))
             ELSE IF fault = <<"version">> THEN Fail(g)
             ELSE IF fault = <<"level">> THEN Fail(ReadHeader(g, f, Cardinality(Slots)))
             ELSE Fail(ReadHeader(g, f, fault[2])),
      screen |-> fresh, going |-> Plays(f)]

\* The first of the files that can be played, and what is left of them.
PlayFirst(w, fs) ==
  FoldLeft(LAMBDA v, f : IF v.going THEN [v EXCEPT !.screen.more = Append(@, f)] ELSE Play(v, f, "THEATER"),
           [w EXCEPT !.screen.more = <<>>, !.going = FALSE], fs)

Finish(w) == [w EXCEPT !.gp = Closed(@), !.screen.step = FALSE, !.screen.fade = 0]

FadeIn(w) == IF Faded(w.gp) /\ w.screen.fade > 0 THEN [w EXCEPT !.screen.fade = @ - 1] ELSE w

\* The end is only noticed when a byte behind it has been read.
ReadTick(w) ==
  LET cells == files[w.gp.file].cells
      who   == Ascending(w.gp.playing)
      At(k) == IF w.gp.pos + k <= Len(cells) THEN cells[w.gp.pos + k] ELSE All
      b     == [p \in w.gp.playing |-> At(CHOOSE k \in DOMAIN who : who[k] = p)]
      end   == w.gp.pos + Len(who) > Len(cells)
  IN FadeIn([w EXCEPT !.gp.run.ticks = Append(@, b), !.gp.eof = end,
                      !.gp.pos = IF end THEN Len(cells) ELSE @ + Len(who)])

FadeOut(w)  == [w EXCEPT !.screen.fade = @ + 1]
ToTitle(w)  == [Finish(w) EXCEPT !.screen.state = "TITLE", !.going = FALSE]
NextFile(w) == LET v == PlayFirst(Finish(w), w.screen.more) IN IF v.going THEN v ELSE ToTitle(v)

\* pp2_replay_logic_tick; the menu the theatre returns to becomes the title.
ReplayTick(w) ==
  IF ~w.gp.done /\ ~w.gp.eof THEN ReadTick(w)
  ELSE IF w.gp.flags = "" THEN w
  ELSE LET v == FadeOut(w)
       IN IF v.screen.fade < FadeTicks THEN v
          ELSE IF w.gp.flags = "DEMO" THEN ToTitle(v) ELSE NextFile(v)

ReplayTicks(w, n) == FoldLeft(LAMBDA v, i : IF v.going THEN ReplayTick(v) ELSE v, w, [i \in 1 .. n |-> i])

\* Mutation: starting over does not go back in the file.
RestartHere(w) == [w EXCEPT !.gp = [Setup(@) EXCEPT !.pos = w.gp.pos]]

Restart(w) == [w EXCEPT !.gp = Setup(@)]
Minus(a, b) == IF a > b THEN a - b ELSE 0

\* pp2_replay_logic.  slow: S is held and this is the tick it skips.
Keys == {"ENTER", "UP", "LEFT", "RIGHT"}
ReplayLogic(keys, slow) ==
  LET w0   == [gp |-> gp, screen |-> screen, going |-> TRUE]
      held == IF gp.flags = "DEMO" THEN {} ELSE keys
      w1   == IF "ENTER" \in held THEN [w0 EXCEPT !.screen.step = ~@] ELSE w0
      w2   == IF "UP" \in held THEN Restart(w1) ELSE w1
      tick == Len(w2.gp.run.ticks)
      w3   == IF "LEFT" \in held
              THEN ReplayTicks(Restart(w2), Minus(tick, IF w2.screen.step THEN 1 ELSE StepBack))
              ELSE IF w2.screen.step THEN IF "RIGHT" \in held THEN ReplayTick(w2) ELSE w2
              ELSE IF slow THEN w2
              ELSE ReplayTicks(w2, IF "RIGHT" \in held THEN Fast ELSE 1)
  IN gp' = w3.gp /\ screen' = [w3.screen EXCEPT !.state = IF @ = "THEATER" THEN "REPLAY" ELSE @]

Watching == screen.state \in {"REPLAY", "THEATER"}

\* Behind the end nothing but what is read there can be added to the run.
Logic ==
  /\ Watching
  /\ \E keys \in SUBSET Keys, slow \in BOOLEAN : ReplayLogic(keys, slow)
  /\ UNCHANGED <<joined, files>>

Escape ==
  /\ screen.state = "REPLAY"
  /\ IF Faded(gp)
       THEN gp' = [gp EXCEPT !.done = TRUE] /\ UNCHANGED screen
       ELSE gp' = Closed(gp) /\ screen' = [screen EXCEPT !.state = "MENU", !.step = FALSE, !.fade = 0]
  /\ UNCHANGED <<joined, files>>

Shown(w, state) == gp' = w.gp /\ screen' = IF w.going THEN [w.screen EXCEPT !.state = state] ELSE w.screen
Now == [gp |-> gp, screen |-> screen, going |-> FALSE]

TitleDemo ==
  /\ screen.state = "TITLE"
  /\ Shown(Play(Now, 1, "DEMO"), "REPLAY") /\ UNCHANGED <<joined, files>>

ViewReplay(f) ==
  /\ screen.state = "MENU"
  /\ Shown(Play(Now, f, ""), "REPLAY") /\ UNCHANGED <<joined, files>>

Theater(fs) ==
  /\ screen.state = "MENU"
  /\ Shown(PlayFirst(Now, fs), "THEATER") /\ UNCHANGED <<joined, files>>

\* A capture runs to its end before the menu goes on.
CaptureReplay(f) ==
  /\ screen.state = "MENU"
  /\ LET w == Play(Now, f, "CAPTURE") IN gp' = Finish(w).gp /\ screen' = Finish(w).screen
  /\ UNCHANGED <<joined, files>>

TitleOrMenu ==
  /\ screen.state \in {"TITLE", "MENU"}
  /\ screen' = [screen EXCEPT !.state = IF @ = "TITLE" THEN "MENU" ELSE "TITLE"]
  /\ UNCHANGED <<joined, gp, files>>

Next ==
  \/ \E p \in Slots : Join(p) \/ Leave(p)
  \/ \E r \in Rules : StartGame(r)
  \/ \E b \in [joined -> Buttons] : GameTick(b)
  \/ EndGame \/ Logic \/ Escape \/ TitleDemo \/ TitleOrMenu
  \/ \E f \in DOMAIN files : ViewReplay(f) \/ CaptureReplay(f)
  \/ \E f, g \in DOMAIN files : f # g /\ Theater(<<f, g>>)

Spec == Init /\ [][Next]_vars

-----------------------------------------------------------------------------

\* Whatever one does with the keys, and with whatever was played or watched
\* before: a replay is the game that was played, tick for tick, up to its end;
\* unless a player left it or one was set up who had not joined.
ReplayIsGame ==
  Watching /\ files[gp.file].whole =>
    LET game == files[gp.file].truth
        n    == Len(game.ticks)
    IN /\ gp.run.players = game.players /\ gp.run.rules = game.rules
       /\ IF Len(gp.run.ticks) <= n THEN IsPrefix(gp.run.ticks, game.ticks)
          ELSE IsPrefix(game.ticks, gp.run.ticks) /\ Len(gp.run.ticks) = n + 1
=============================================================================
