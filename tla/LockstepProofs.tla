--------------------------- MODULE LockstepProofs ---------------------------
(***************************************************************************)
(* What clients run of a game, for every number of clients and players and *)
(* every length of the game: no player is moved by the buttons of another, *)
(* ticks are run in order, and in a game nobody leaves or pauses all run   *)
(* the ticks of the server.                                                *)
(***************************************************************************)
EXTENDS Lockstep, FiniteSetTheorems, FunctionTheorems, SequenceTheorems, TLAPS

-----------------------------------------------------------------------------
(* What is under way to a client.                                           *)

Frames  == Seq(Buttons)
Turning == {"PAUSE", "RESUME", "END"}

ToClientMessage == {Input(d) : d \in Frames} \cup {Remove(p) : p \in Players}
                     \cup {Note(t) : t \in Turning}
ToServerMessage == {Input(d) : d \in Frames} \cup {Note("INPUT_OVERFLOW")}

\* A client with roster r that is to read the messages s: who is left once it
\* has read the first i of them, and whether the game runs there then, if it is
\* in phase ph now.
Removed(s, i) == {p \in Players : \E j \in 1 .. i : s[j] = Remove(p)}
Left(s, r, i) == r \ Removed(s, i)
Runs(s, ph, i) ==
  \/ ph = "PLAYING" /\ \A j \in 1 .. i : s[j].type \notin Turning
  \/ \E j \in 1 .. i : /\ s[j].type = "RESUME"
                       /\ \A k \in j + 1 .. i : s[k].type \notin Turning

\* The bits that p's user may have pressed; frames of the players in S.
Own(p)        == {Idle} \cup ({p} \X (1 .. MaxPress))
IsFrame(S, d) == \A p \in S : d[Rank(S, p)] \in Own(p)

\* Each frame finds the game on, and is one of the players who are left then;
\* in the end the players left are those in S, and the game is on or not.
Good(s, r, ph) == \A i \in 1 .. Len(s) : s[i].type = "INPUT" =>
  Runs(s, ph, i) /\ IsFrame(Left(s, r, i), s[i].data)
Ends(s, r, ph, S, on) ==
  Left(s, r, Len(s)) = S /\ (Runs(s, ph, Len(s)) <=> on)

-----------------------------------------------------------------------------
(* The invariant.                                                           *)

ServerOK ==
  /\ sstate \in {"PLAYING", "PAUSED", "OFF", "DEAD"}
  /\ playing \subseteq Players
  /\ \A c \in Clients : playing \cap Mine(c) \in {{}, Mine(c)}
  /\ held \in [Players -> Buttons] /\ pressed \in [Players -> Buttons]
  /\ \A p \in Players : held[p] \in Own(p) /\ pressed[p] \in Own(p)

ClientOK ==
  /\ online \in [Clients -> BOOLEAN] /\ ticking \in [Clients -> BOOLEAN]
  /\ cstate \in [Clients -> {"PLAYING", "PAUSED", "OFF"}]
  /\ roster \in [Clients -> SUBSET Players]
  /\ buffer \in [Clients -> Seq(Frames)]
  /\ frames \in [Clients -> Nat]
  /\ \A c \in Clients :
       /\ frames[c] <= Len(buffer[c])
       /\ cstate[c] # "PLAYING" => buffer[c] = <<>>
       /\ \A i \in 1 .. Len(buffer[c]) : IsFrame(roster[c], buffer[c][i])

ToServerOK ==
  /\ toServer \in [Clients -> Seq(ToServerMessage)]
  /\ \A c \in Clients : \A i \in 1 .. Len(toServer[c]) :
       toServer[c][i].type = "INPUT" => IsFrame(Mine(c), toServer[c][i].data)

ToClientOK ==
  /\ toClient \in [Clients -> Seq(ToClientMessage)]
  /\ \A c \in Clients :
       /\ Good(toClient[c], roster[c], cstate[c])
       /\ online[c] => Ends(toClient[c], roster[c], cstate[c], playing, sstate = "PLAYING")

DoneOK ==
  /\ done \in [Clients -> Seq(UNION {[S -> Buttons] : S \in SUBSET Players})]
  /\ \A c \in Clients : \A i \in 1 .. Len(done[c]) :
       \A p \in DOMAIN done[c][i] : done[c][i][p] \in Own(p)

IInv == ServerOK /\ ClientOK /\ ToServerOK /\ ToClientOK /\ DoneOK

-----------------------------------------------------------------------------
(* Where the ticks of a client come from.                                   *)

\* No client has more waiting than its buffer holds.
InTime == \A c \in Clients : Len(buffer[c]) <= MaxBuffer

\* The frames behind the first i messages, and their number.
Waiting(s, i) == {j \in i + 1 .. Len(s) : s[j].type = "INPUT"}
Behind(s, i)  == Cardinality(Waiting(s, i))

IssuedOK == issued \in Seq(UNION {[S -> Buttons] : S \in SUBSET Players})

\* The frames in s are the last the server sent, each to be decoded with the
\* roster the client has then.
Newest(s, r) ==
  /\ Behind(s, 0) <= Len(issued)
  /\ \A i \in 1 .. Len(s) : s[i].type = "INPUT" =>
       Same(Decode(Left(s, r, i), s[i].data), issued[Len(issued) - Behind(s, i)])

NewestUnderWay == \A c \in Clients : online[c] => Newest(toClient[c], roster[c])

\* What a client has run, and will run of what waits in its buffer.
LineOf(x, r, b) == [i \in 1 .. Len(x) + Len(b) |->
                      IF i <= Len(x) THEN x[i] ELSE Decode(r, b[i - Len(x)])]
Line(c) == LineOf(done[c], roster[c], buffer[c])

\* Of the server's first frames, top in number, a client runs some in order,
\* and each as it is or blank.
Blank(ran) == \A p \in DOMAIN ran : ran[p] = Idle
Ordered(line, top) ==
  \E at \in [1 .. Len(line) -> 1 .. top] :
    /\ \A i, j \in DOMAIN at : i < j => at[i] < at[j]
    /\ \A i \in DOMAIN at : Same(line[i], issued[at[i]]) \/ Blank(line[i])

Told(c) == IF online[c] THEN Len(issued) - Behind(toClient[c], 0) ELSE Len(issued)

LinesInOrder == \A c \in Clients : Ordered(Line(c), Told(c))

OInv == IssuedOK /\ NewestUnderWay /\ LinesInOrder

\* Where nobody leaves or pauses the game, and nobody falls behind, a client has
\* read all of the server's frames up to some point, and after END no more.
Plain(s) == \A i \in 1 .. Len(s) : s[i].type \in {"INPUT", "END"}
Alike(line, top) ==
  Len(line) <= top /\ \A i \in 1 .. Len(line) : Same(line[i], issued[i])

SInv ==
  /\ playing = Players
  /\ \A c \in Clients :
       /\ online[c] /\ roster[c] = Players
       /\ \A i \in 1 .. Len(toServer[c]) : toServer[c][i].type = "INPUT"
       /\ Plain(toClient[c])
       /\ Alike(Line(c), Told(c))
       /\ cstate[c] = "PLAYING" => Len(Line(c)) = Told(c)

-----------------------------------------------------------------------------
(* Ranks.                                                                   *)

LEMMA PlayersFinite ==
  \A S \in SUBSET Players : IsFiniteSet(S) /\ Cardinality(S) \in Nat
<1>1. NumPlayers - 1 \in Int
  BY LockstepAssumption
<1>2. IsFiniteSet(Players)
  BY <1>1, FS_Interval DEF Players
<1> QED
  BY <1>2, FS_Subset, FS_CardinalityType

LEMMA RankRange ==
  ASSUME NEW S \in SUBSET Players, NEW p \in S
  PROVE  Rank(S, p) \in 1 .. Cardinality(S)
<1> DEFINE B == {q \in S : q <= p}
<1>1. p \in B
  BY LockstepAssumption DEF Players
<1>2. B \in SUBSET S /\ IsFiniteSet(S) /\ IsFiniteSet(B) /\ Cardinality(B) \in Nat /\ Cardinality(S) \in Nat
  BY PlayersFinite
<1>3. Cardinality(B) <= Cardinality(S)
  BY <1>2, FS_Subset
<1>4. Cardinality(B) # 0
  BY <1>1, <1>2, FS_EmptySet
<1>5. Rank(S, p) = Cardinality(B)
  BY DEF Rank
<1> HIDE DEF B
<1> QED
  BY <1>2, <1>3, <1>4, <1>5

LEMMA RankStrict ==
  ASSUME NEW S \in SUBSET Players, NEW p \in S, NEW q \in S, p < q
  PROVE  Rank(S, p) < Rank(S, q)
<1> DEFINE A == {x \in S : x <= p}
           B == {x \in S : x <= q}
<1>1. A \in SUBSET B
  BY LockstepAssumption DEF Players
<1>2. q \in B /\ q \notin A
  BY LockstepAssumption DEF Players
<1>3. IsFiniteSet(B) /\ Cardinality(A) \in Nat /\ Cardinality(B) \in Nat
  BY PlayersFinite
<1>4. Cardinality(A) <= Cardinality(B) /\ Cardinality(A) # Cardinality(B)
  BY <1>1, <1>2, <1>3, FS_Subset
<1>5. Rank(S, p) = Cardinality(A) /\ Rank(S, q) = Cardinality(B)
  BY DEF Rank
<1> HIDE DEF A, B
<1> QED
  BY <1>3, <1>4, <1>5

LEMMA RankInjective ==
  ASSUME NEW S \in SUBSET Players, NEW p \in S, NEW q \in S, Rank(S, p) = Rank(S, q)
  PROVE  p = q
<1>1. p \in Int /\ q \in Int
  BY LockstepAssumption DEF Players
<1>2. Rank(S, p) \in Int /\ Rank(S, q) \in Int
  BY RankRange, PlayersFinite
<1>3. ~(p < q)
  BY <1>2, RankStrict
<1>4. ~(q < p)
  BY <1>2, RankStrict
<1> QED
  BY <1>1, <1>3, <1>4

LEMMA RankOnto ==
  ASSUME NEW S \in SUBSET Players, NEW i \in 1 .. Cardinality(S)
  PROVE  \E p \in S : Rank(S, p) = i
<1> DEFINE f == [p \in S |-> Rank(S, p)]
           T == 1 .. Cardinality(S)
<1>1. f \in [S -> T]
  BY RankRange
<1>2. \A p, q \in S : f[p] = f[q] => p = q
  BY RankInjective
<1>3. f \in Injection(S, T)
  <2> HIDE DEF f, T
  <2> QED
    BY <1>1, <1>2, Fun_IsInj
<1>4. IsFiniteSet(T) /\ Cardinality(T) = Cardinality(S)
  <2> DEFINE n == Cardinality(S)
  <2>1. n \in Nat /\ 1 \in Int
    BY PlayersFinite
  <2> HIDE DEF n
  <2>2. IsFiniteSet(1 .. n) /\ Cardinality(1 .. n) = IF 1 > n THEN 0 ELSE n - 1 + 1
    BY ONLY <2>1, FS_Interval
  <2>3. Cardinality(1 .. n) = n
    BY ONLY <2>1, <2>2
  <2> QED BY <2>2, <2>3 DEF n
<1>5. f \in Surjection(S, T)
  <2> HIDE DEF f, T
  <2> QED
    BY <1>3, <1>4, FS_Injection
<1>6. \A t \in T : \E p \in S : f[p] = t
  <2> HIDE DEF f, T
  <2> QED
    BY <1>5, Fun_SurjectionProperties
<1> QED
  BY <1>6

LEMMA EncodeAt ==
  ASSUME NEW S \in SUBSET Players, NEW b, NEW p \in S
  PROVE  Encode(S, b)[Rank(S, p)] = b[p]
<1> DEFINE q == CHOOSE x \in S : Rank(S, x) = Rank(S, p)
<1>1. q \in S /\ Rank(S, q) = Rank(S, p)
  OBVIOUS
<1>2. q = p
  BY <1>1, RankInjective
<1>3. Encode(S, b)[Rank(S, p)] = b[q]
  BY RankRange DEF Encode
<1> QED
  BY <1>2, <1>3

LEMMA EncodeType ==
  ASSUME NEW S \in SUBSET Players, NEW b \in [Players -> Buttons]
  PROVE  Encode(S, b) \in Frames
<1>1. Cardinality(S) \in Nat
  BY PlayersFinite
<1>2. \A i \in 1 .. Cardinality(S) : b[CHOOSE p \in S : Rank(S, p) = i] \in Buttons
  BY RankOnto
<1> QED
  BY <1>1, <1>2 DEF Encode, Frames

LEMMA BlankType ==
  ASSUME NEW S \in SUBSET Players
  PROVE  /\ BlankFrame(S) \in Frames
         /\ \A p \in S : BlankFrame(S)[Rank(S, p)] = Idle
<1>1. Cardinality(S) \in Nat
  BY PlayersFinite
<1>2. Idle \in Buttons
  BY DEF Buttons
<1>3. BlankFrame(S) \in Frames
  BY <1>1, <1>2 DEF BlankFrame, Frames
<1>4. \A p \in S : BlankFrame(S)[Rank(S, p)] = Idle
  BY RankRange DEF BlankFrame
<1> QED
  BY <1>3, <1>4

LEMMA RemovalsAre ==
  ASSUME NEW S \in SUBSET Players
  PROVE  /\ Removals(S) \in Seq(ToClientMessage)
         /\ \A i \in 1 .. Len(Removals(S)) : \E p \in S : Removals(S)[i] = Remove(p)
         /\ \A p \in S : \E i \in 1 .. Len(Removals(S)) : Removals(S)[i] = Remove(p)
<1> DEFINE n == Cardinality(S)
           e(i) == CHOOSE p \in S : Rank(S, p) = i
<1>1. n \in Nat
  BY PlayersFinite
<1>2. \A i \in 1 .. n : e(i) \in S /\ Rank(S, e(i)) = i
  BY RankOnto
<1>3. \A p \in S : Rank(S, p) \in 1 .. n /\ e(Rank(S, p)) = p
  BY <1>2, RankRange, RankInjective
<1>4. Removals(S) = [i \in 1 .. n |-> Remove(e(i))]
  BY DEF Removals
<1> HIDE DEF n, e
<1>5. \A i \in 1 .. n : Remove(e(i)) \in ToClientMessage
  BY <1>2 DEF ToClientMessage
<1>6. Removals(S) \in Seq(ToClientMessage) /\ Len(Removals(S)) = n
  BY <1>1, <1>4, <1>5
<1>7. \A i \in 1 .. n : Removals(S)[i] = Remove(e(i))
  BY <1>4
<1>8. \A p \in S : Rank(S, p) \in 1 .. n /\ Removals(S)[Rank(S, p)] = Remove(p)
  BY <1>3, <1>7
<1> QED
  BY <1>2, <1>6, <1>7, <1>8

-----------------------------------------------------------------------------
(* Messages.                                                                *)

LEMMA MessageCases ==
  /\ \A m \in ToClientMessage :
       /\ m.type \in {"INPUT", "REMOVE_PLAYER"} \cup Turning
       /\ m.type = "INPUT" => m.data \in Frames /\ m = Input(m.data)
       /\ m.type = "REMOVE_PLAYER" => m.player \in Players /\ m = Remove(m.player)
       /\ m.type \in Turning => \A p \in Players : m # Remove(p)
       /\ m.type = "INPUT" => \A p \in Players : m # Remove(p)
  /\ \A m \in ToServerMessage :
       /\ m.type \in {"INPUT", "INPUT_OVERFLOW"}
       /\ m.type = "INPUT" => m.data \in Frames
  /\ \A d : Input(d).type = "INPUT" /\ Input(d).data = d
  /\ \A p : Remove(p).type = "REMOVE_PLAYER" /\ Remove(p).player = p
  /\ \A t : Note(t).type = t
BY DEF ToClientMessage, ToServerMessage, Input, Remove, Note, Turning

LEMMA OneMore ==
  ASSUME NEW T, NEW s \in Seq(T), NEW m \in T
  PROVE  /\ s \o <<m>> \in Seq(T) /\ Len(s \o <<m>>) = Len(s) + 1
         /\ \A i \in 1 .. Len(s) : (s \o <<m>>)[i] = s[i]
         /\ (s \o <<m>>)[Len(s) + 1] = m
         /\ \A i \in 1 .. Len(s \o <<m>>) :
              (s \o <<m>>)[i] \in {s[k] : k \in 1 .. Len(s)} \cup {m}
<1>1. /\ s \o <<m>> \in Seq(T) /\ Len(s \o <<m>>) = Len(s) + 1
      /\ \A i \in 1 .. Len(s) : (s \o <<m>>)[i] = s[i]
      /\ (s \o <<m>>)[Len(s) + 1] = m
  OBVIOUS
<1> DEFINE w == s \o <<m>>
<1> HIDE DEF w
<1>2. \A i \in 1 .. Len(w) : i \in 1 .. Len(s) \/ i = Len(s) + 1
  BY <1>1 DEF w
<1> QED BY <1>1, <1>2 DEF w

\* What has been sent does not depend on what is sent after it.
LEMMA Earlier ==
  ASSUME NEW s \in Seq(ToClientMessage), NEW u \in Seq(ToClientMessage), NEW r, NEW ph,
         NEW i \in 0 .. Len(s)
  PROVE  /\ Left(s \o u, r, i) = Left(s, r, i)
         /\ Runs(s \o u, ph, i) <=> Runs(s, ph, i)
<1> DEFINE w == s \o u
<1>1. \A j \in 1 .. i : w[j] = s[j]
  OBVIOUS
<1> HIDE DEF w
<1>2. Removed(w, i) = Removed(s, i)
  BY <1>1 DEF Removed
<1>3. Runs(w, ph, i) <=> Runs(s, ph, i)
  <2>1. \A j \in 1 .. i : w[j].type = s[j].type
    BY <1>1
  <2>2. \A j \in 1 .. i : \A k \in j + 1 .. i : k \in 1 .. i
    OBVIOUS
  <2> QED BY <2>1, <2>2 DEF Runs
<1> QED BY <1>2, <1>3 DEF Left, w

LEMMA GoodEarlier ==
  ASSUME NEW s \in Seq(ToClientMessage), NEW u \in Seq(ToClientMessage), NEW r, NEW ph,
         Good(s, r, ph),
         \A i \in 1 .. Len(u) : u[i].type = "INPUT" =>
           /\ Runs(s \o u, ph, Len(s) + i)
           /\ IsFrame(Left(s \o u, r, Len(s) + i), u[i].data)
  PROVE  Good(s \o u, r, ph)
<1> SUFFICES ASSUME NEW i \in 1 .. Len(s \o u), (s \o u)[i].type = "INPUT"
             PROVE  Runs(s \o u, ph, i) /\ IsFrame(Left(s \o u, r, i), (s \o u)[i].data)
  BY DEF Good
<1>1. CASE i <= Len(s)
  <2>1. (s \o u)[i] = s[i] /\ i \in 1 .. Len(s) /\ i \in 0 .. Len(s)
    BY <1>1
  <2> QED BY <2>1, Earlier DEF Good
<1>2. CASE i > Len(s)
  <2>1. PICK j \in 1 .. Len(u) : i = Len(s) + j
    <3>1. i - Len(s) \in 1 .. Len(u) /\ i = Len(s) + (i - Len(s))
      BY <1>2
    <3> QED BY <3>1
  <2>2. (s \o u)[i] = u[j]
    BY <2>1
  <2> QED BY <2>1, <2>2
<1> QED BY <1>1, <1>2

LEMMA SendInput ==
  ASSUME NEW s \in Seq(ToClientMessage), NEW r, NEW ph, NEW d \in Frames,
         Good(s, r, ph), Runs(s, ph, Len(s)), IsFrame(Left(s, r, Len(s)), d)
  PROVE  /\ s \o <<Input(d)>> \in Seq(ToClientMessage)
         /\ Good(s \o <<Input(d)>>, r, ph)
         /\ Ends(s \o <<Input(d)>>, r, ph, Left(s, r, Len(s)), TRUE)
         /\ Left(s \o <<Input(d)>>, r, Len(s) + 1) = Left(s, r, Len(s))
<1> DEFINE u == <<Input(d)>>
           w == s \o u
           n == Len(s)
<1>1. Input(d) \in ToClientMessage
  BY DEF ToClientMessage
<1>2. u \in Seq(ToClientMessage) /\ Len(u) = 1 /\ u[1] = Input(d)
  BY <1>1
<1>3. w \in Seq(ToClientMessage) /\ Len(w) = n + 1 /\ w[n + 1] = Input(d) /\ n \in Nat
  BY <1>2
<1>4. \A j \in 1 .. n : w[j] = s[j]
  BY <1>2
<1> HIDE DEF w, u, n
<1>5. \A p \in Players : w[n + 1] # Remove(p)
  BY <1>1, <1>3, MessageCases
<1>6. Removed(w, n + 1) = Removed(s, n)
  <2>1. \A j \in 1 .. n + 1 : j \in 1 .. n \/ j = n + 1
    BY <1>3
  <2>2. \A j \in 1 .. n : j \in 1 .. n + 1
    BY <1>3
  <2> QED BY <1>4, <1>5, <2>1, <2>2 DEF Removed
<1>7. Left(w, r, n + 1) = Left(s, r, n)
  BY <1>6 DEF Left
<1>8. Runs(w, ph, n + 1)
  <2>1. w[n + 1].type \notin Turning
    BY <1>3, MessageCases DEF Turning
  <2>2. \A j \in 1 .. n + 1 : j \in 1 .. n \/ j = n + 1
    BY <1>3
  <2>3. CASE ph = "PLAYING" /\ \A j \in 1 .. n : s[j].type \notin Turning
    BY <1>4, <2>1, <2>2, <2>3 DEF Runs
  <2>4. CASE \E j \in 1 .. n : /\ s[j].type = "RESUME"
                               /\ \A k \in j + 1 .. n : s[k].type \notin Turning
    <3>1. PICK j \in 1 .. n : /\ s[j].type = "RESUME"
                              /\ \A k \in j + 1 .. n : s[k].type \notin Turning
      BY <2>4
    <3>2. j \in 1 .. n + 1 /\ w[j].type = "RESUME"
      BY <1>3, <1>4, <3>1
    <3>3. \A k \in j + 1 .. n + 1 : (k \in j + 1 .. n /\ k \in 1 .. n) \/ k = n + 1
      BY <1>3
    <3>4. \A k \in j + 1 .. n + 1 : w[k].type \notin Turning
      BY <1>4, <2>1, <3>1, <3>3
    <3> QED BY <3>2, <3>4 DEF Runs
  <2> QED BY <2>3, <2>4 DEF Runs, n
<1>9. Good(w, r, ph)
  <2>1. \A i \in 1 .. Len(u) : i = 1
    BY <1>2
  <2>2. \A i \in 1 .. Len(u) : u[i].type = "INPUT" =>
           /\ Runs(s \o u, ph, Len(s) + i)
           /\ IsFrame(Left(s \o u, r, Len(s) + i), u[i].data)
    BY <1>2, <1>7, <1>8, <2>1, MessageCases DEF w, n
  <2> QED BY <1>2, <2>2, GoodEarlier DEF w
<1> QED BY <1>3, <1>7, <1>8, <1>9 DEF w, u, n, Ends

LEMMA SendRemovals ==
  ASSUME NEW s \in Seq(ToClientMessage), NEW r, NEW ph, NEW S \in SUBSET Players,
         Good(s, r, ph)
  PROVE  /\ s \o Removals(S) \in Seq(ToClientMessage)
         /\ Good(s \o Removals(S), r, ph)
         /\ Ends(s \o Removals(S), r, ph, Left(s, r, Len(s)) \ S, Runs(s, ph, Len(s)))
         /\ \A i \in 1 .. Len(Removals(S)) : Removals(S)[i].type # "INPUT"
<1> DEFINE u == Removals(S)
           w == s \o u
           n == Len(s)
<1>1. /\ u \in Seq(ToClientMessage)
      /\ \A i \in 1 .. Len(u) : \E p \in S : u[i] = Remove(p)
      /\ \A p \in S : \E i \in 1 .. Len(u) : u[i] = Remove(p)
  BY RemovalsAre
<1> HIDE DEF u
<1>2. /\ w \in Seq(ToClientMessage) /\ Len(w) = n + Len(u) /\ n \in Nat /\ Len(u) \in Nat
      /\ \A j \in 1 .. n : w[j] = s[j]
      /\ \A j \in 1 .. Len(u) : w[n + j] = u[j]
  BY <1>1
<1> HIDE DEF w, n
<1>3. \A j \in 1 .. n + Len(u) : j \in 1 .. n \/ \E i \in 1 .. Len(u) : j = n + i
  <2> TAKE j \in 1 .. n + Len(u)
  <2>1. CASE j <= n
    BY <1>2, <2>1
  <2>2. CASE j > n
    <3>1. j - n \in 1 .. Len(u) /\ j = n + (j - n)
      BY <1>2, <2>2
    <3> QED BY <3>1
  <2> QED BY <1>2, <2>1, <2>2
<1>4. \A i \in 1 .. Len(u) : u[i].type = "REMOVE_PLAYER"
  BY <1>1, MessageCases
<1>5. Removed(w, Len(w)) = Removed(s, n) \cup S
  <2>1. Removed(w, Len(w)) \subseteq Removed(s, n) \cup S
    <3> SUFFICES ASSUME NEW p \in Players, NEW j \in 1 .. n + Len(u), w[j] = Remove(p),
                        p \notin Removed(s, n)
                 PROVE  p \in S
      BY <1>2 DEF Removed
    <3>1. j \notin 1 .. n
      BY <1>2 DEF Removed
    <3>2. PICK i \in 1 .. Len(u) : j = n + i
      BY <1>3, <3>1
    <3>3. PICK q \in S : u[i] = Remove(q)
      BY <1>1
    <3> QED BY <1>2, <3>2, <3>3, MessageCases
  <2>2. S \subseteq Removed(w, Len(w))
    <3> SUFFICES ASSUME NEW p \in S PROVE p \in Removed(w, Len(w))
      OBVIOUS
    <3>1. PICK i \in 1 .. Len(u) : u[i] = Remove(p)
      BY <1>1
    <3>2. n + i \in 1 .. Len(w) /\ w[n + i] = Remove(p)
      BY <1>2, <3>1
    <3> QED BY <3>2 DEF Removed
  <2>3. Removed(s, n) \subseteq Removed(w, Len(w))
    <3>1. \A j \in 1 .. n : j \in 1 .. Len(w)
      BY <1>2
    <3> QED BY <1>2, <3>1 DEF Removed
  <2> QED BY <2>1, <2>2, <2>3
<1>6. Left(w, r, Len(w)) = Left(s, r, n) \ S
  BY <1>5 DEF Left
<1>7. Runs(w, ph, Len(w)) <=> Runs(s, ph, n)
  <2>1. \A i \in 1 .. Len(u) : w[n + i].type \notin Turning /\ w[n + i].type # "RESUME"
    BY <1>2, <1>4 DEF Turning
  <2>2. \A j \in 1 .. Len(w) : j \in 1 .. n \/ (w[j].type \notin Turning /\ w[j].type # "RESUME")
    BY <1>2, <1>3, <2>1
  <2>3. \A j \in 1 .. n : j \in 1 .. Len(w)
    BY <1>2
  <2>4. \A j \in 1 .. n : w[j].type = s[j].type
    BY <1>2
  <2>5. (\A j \in 1 .. Len(w) : w[j].type \notin Turning) <=> \A j \in 1 .. n : s[j].type \notin Turning
    BY <2>2, <2>3, <2>4
  <2>6. \A j \in 1 .. n : (\A k \in j + 1 .. Len(w) : w[k].type \notin Turning)
                            <=> \A k \in j + 1 .. n : s[k].type \notin Turning
    <3> TAKE j \in 1 .. n
    <3>1. \A k \in j + 1 .. Len(w) : k \in 1 .. Len(w) /\ (k \in 1 .. n => k \in j + 1 .. n)
      BY <1>2
    <3>2. \A k \in j + 1 .. n : k \in j + 1 .. Len(w) /\ k \in 1 .. n
      BY <1>2
    <3> QED BY <2>2, <2>4, <3>1, <3>2
  <2>7. (\E j \in 1 .. Len(w) : /\ w[j].type = "RESUME"
                                /\ \A k \in j + 1 .. Len(w) : w[k].type \notin Turning)
          <=> \E j \in 1 .. n : /\ s[j].type = "RESUME"
                                /\ \A k \in j + 1 .. n : s[k].type \notin Turning
    BY <2>2, <2>3, <2>4, <2>6
  <2> QED BY <2>5, <2>7 DEF Runs
<1>8. Good(w, r, ph)
  BY <1>1, <1>4, GoodEarlier DEF w
<1> QED BY <1>2, <1>4, <1>6, <1>7, <1>8 DEF w, u, n, Ends

LEMMA SendTurn ==
  ASSUME NEW s \in Seq(ToClientMessage), NEW r, NEW ph, NEW t \in Turning, Good(s, r, ph)
  PROVE  /\ s \o <<Note(t)>> \in Seq(ToClientMessage)
         /\ Good(s \o <<Note(t)>>, r, ph)
         /\ Ends(s \o <<Note(t)>>, r, ph, Left(s, r, Len(s)), t = "RESUME")
<1> DEFINE u == <<Note(t)>>
           w == s \o u
           n == Len(s)
<1>1. Note(t) \in ToClientMessage /\ Note(t).type = t
  BY MessageCases DEF ToClientMessage
<1>2. u \in Seq(ToClientMessage) /\ Len(u) = 1 /\ u[1] = Note(t)
  BY <1>1
<1>3. w \in Seq(ToClientMessage) /\ Len(w) = n + 1 /\ w[n + 1] = Note(t) /\ n \in Nat
  BY <1>2
<1>4. \A j \in 1 .. n : w[j] = s[j]
  BY <1>2
<1> HIDE DEF w, u, n
<1>5. \A p \in Players : w[n + 1] # Remove(p)
  BY <1>1, <1>3, MessageCases
<1>6. Removed(w, n + 1) = Removed(s, n)
  <2>1. \A j \in 1 .. n + 1 : j \in 1 .. n \/ j = n + 1
    BY <1>3
  <2>2. \A j \in 1 .. n : j \in 1 .. n + 1
    BY <1>3
  <2> QED BY <1>4, <1>5, <2>1, <2>2 DEF Removed
<1>7. Runs(w, ph, n + 1) <=> t = "RESUME"
  <2>1. n + 1 \in 1 .. n + 1 /\ w[n + 1].type = t
    BY <1>1, <1>3
  <2>2. \A j \in 1 .. n + 1 : j # n + 1 => n + 1 \in j + 1 .. n + 1
    BY <1>3
  <2>3. (n + 1) + 1 .. n + 1 = {}
    BY <1>3
  <2> QED BY <2>1, <2>2, <2>3 DEF Runs
<1>8. \A i \in 1 .. Len(u) : u[i].type # "INPUT"
  BY <1>1, <1>2 DEF Turning
<1>9. Good(w, r, ph)
  BY <1>2, <1>8, GoodEarlier DEF w
<1> QED BY <1>3, <1>6, <1>7, <1>9 DEF w, u, n, Ends, Left

\* What is left to read when the first message has been read.
LEMMA Later ==
  ASSUME NEW s \in Seq(ToClientMessage), s # <<>>, NEW r, NEW ph, NEW ph2,
         ph2 = "PLAYING" <=> Runs(s, ph, 1), NEW i \in 0 .. Len(Tail(s))
  PROVE  /\ Left(Tail(s), Left(s, r, 1), i) = Left(s, r, i + 1)
         /\ Runs(Tail(s), ph2, i) <=> Runs(s, ph, i + 1)
<1> DEFINE u == Tail(s)
<1>1. /\ u \in Seq(ToClientMessage) /\ Len(s) = Len(u) + 1 /\ Len(u) \in Nat
      /\ \A j \in 1 .. Len(u) : u[j] = s[j + 1]
  OBVIOUS
<1> HIDE DEF u
<1>2. i \in Nat /\ i <= Len(u)
  BY <1>1 DEF u
<1>3. \A j \in 1 .. i + 1 : j = 1 \/ \E k \in 1 .. i : j = k + 1
  <2> TAKE j \in 1 .. i + 1
  <2>1. j # 1 => j - 1 \in 1 .. i /\ j = (j - 1) + 1
    BY <1>2
  <2> QED BY <2>1
<1>4. \A j \in 1 .. i : j + 1 \in 1 .. i + 1 /\ u[j] = s[j + 1]
  BY <1>1, <1>2
<1>5. 1 \in 1 .. i + 1
  BY <1>2
<1>6. Removed(s, i + 1) = Removed(s, 1) \cup Removed(u, i)
  <2>1. (\A j \in 1 .. 1 : j = 1) /\ 1 \in 1 .. 1
    OBVIOUS
  <2>2. Removed(s, 1) = {p \in Players : s[1] = Remove(p)}
    BY <2>1 DEF Removed
  <2>3. Removed(s, i + 1) = {p \in Players : s[1] = Remove(p) \/ \E j \in 1 .. i : u[j] = Remove(p)}
    <3>1. ASSUME NEW p \in Players, NEW j \in 1 .. i + 1, s[j] = Remove(p)
          PROVE  s[1] = Remove(p) \/ \E k \in 1 .. i : u[k] = Remove(p)
      <4>1. CASE j = 1
        BY <3>1, <4>1
      <4>2. ASSUME NEW k \in 1 .. i, j = k + 1 PROVE \E l \in 1 .. i : u[l] = Remove(p)
        <5>1. u[k] = s[k + 1]
          BY <1>4
        <5>2. u[k] = Remove(p)
          BY <3>1, <4>2, <5>1
        <5> QED BY <5>2
      <4> QED BY <1>3, <4>1, <4>2
    <3>2. ASSUME NEW p \in Players, s[1] = Remove(p) \/ \E k \in 1 .. i : u[k] = Remove(p)
          PROVE  \E j \in 1 .. i + 1 : s[j] = Remove(p)
      BY <1>4, <1>5, <3>2
    <3> QED BY <3>1, <3>2 DEF Removed
  <2> QED BY <2>2, <2>3 DEF Removed
<1>7. Runs(s, ph, 1) <=> \/ ph = "PLAYING" /\ s[1].type \notin Turning
                         \/ s[1].type = "RESUME"
  <2>1. \A j \in 1 .. 1 : j = 1
    OBVIOUS
  <2>2. 1 \in 1 .. 1 /\ 1 + 1 .. 1 = {}
    OBVIOUS
  <2> QED BY <2>1, <2>2 DEF Runs
<1>8. Runs(u, ph2, i) <=> Runs(s, ph, i + 1)
  <2>1. (\A j \in 1 .. i + 1 : s[j].type \notin Turning)
          <=> s[1].type \notin Turning /\ \A j \in 1 .. i : u[j].type \notin Turning
    BY <1>3, <1>4, <1>5
  <2>2. \A j \in 1 .. i : (\A k \in j + 1 .. i : u[k].type \notin Turning)
                            <=> \A k \in (j + 1) + 1 .. i + 1 : s[k].type \notin Turning
    <3> TAKE j \in 1 .. i
    <3>1. \A k \in j + 1 .. i : k \in 1 .. i /\ k + 1 \in (j + 1) + 1 .. i + 1
      BY <1>2
    <3>2. \A k \in (j + 1) + 1 .. i + 1 : k - 1 \in j + 1 .. i /\ k = (k - 1) + 1 /\ k - 1 \in 1 .. i
      BY <1>2
    <3> QED BY <1>4, <3>1, <3>2
  <2>3. (\A k \in 1 + 1 .. i + 1 : s[k].type \notin Turning)
           <=> \A j \in 1 .. i : u[j].type \notin Turning
    <3>1. \A k \in 1 + 1 .. i + 1 : k - 1 \in 1 .. i /\ k = (k - 1) + 1
      BY <1>2
    <3>2. \A j \in 1 .. i : j + 1 \in 1 + 1 .. i + 1
      BY <1>2
    <3> QED BY <1>4, <3>1, <3>2
  <2>4. (\E j \in 1 .. i + 1 : /\ s[j].type = "RESUME"
                               /\ \A k \in j + 1 .. i + 1 : s[k].type \notin Turning)
          <=> \/ s[1].type = "RESUME" /\ \A j \in 1 .. i : u[j].type \notin Turning
              \/ \E j \in 1 .. i : /\ u[j].type = "RESUME"
                                   /\ \A k \in j + 1 .. i : u[k].type \notin Turning
    BY <1>3, <1>4, <1>5, <2>2, <2>3, ZenonT(40)
  <2> QED BY <1>7, <2>1, <2>4 DEF Runs
<1> QED BY <1>6, <1>8 DEF Left, u

LEMMA GoodLater ==
  ASSUME NEW s \in Seq(ToClientMessage), s # <<>>, NEW r, NEW ph, NEW ph2,
         ph2 = "PLAYING" <=> Runs(s, ph, 1), Good(s, r, ph)
  PROVE  /\ Tail(s) \in Seq(ToClientMessage)
         /\ Good(Tail(s), Left(s, r, 1), ph2)
         /\ Ends(Tail(s), Left(s, r, 1), ph2, Left(s, r, Len(s)), Runs(s, ph, Len(s)))
<1>1. Tail(s) \in Seq(ToClientMessage) /\ Len(s) = Len(Tail(s)) + 1 /\ Len(Tail(s)) \in Nat
  OBVIOUS
<1>2. \A i \in 1 .. Len(Tail(s)) : Tail(s)[i] = s[i + 1]
  OBVIOUS
<1>3. Good(Tail(s), Left(s, r, 1), ph2)
  <2> SUFFICES ASSUME NEW i \in 1 .. Len(Tail(s)), Tail(s)[i].type = "INPUT"
               PROVE  Runs(Tail(s), ph2, i) /\ IsFrame(Left(Tail(s), Left(s, r, 1), i), Tail(s)[i].data)
    BY DEF Good
  <2>1. i + 1 \in 1 .. Len(s) /\ s[i + 1].type = "INPUT" /\ i \in 0 .. Len(Tail(s))
    BY <1>1, <1>2
  <2>2. Runs(s, ph, i + 1) /\ IsFrame(Left(s, r, i + 1), s[i + 1].data)
    BY <2>1 DEF Good
  <2> QED BY <1>2, <2>1, <2>2, Later
<1>4. Len(Tail(s)) \in 0 .. Len(Tail(s))
  BY <1>1
<1>5. Ends(Tail(s), Left(s, r, 1), ph2, Left(s, r, Len(s)), Runs(s, ph, Len(s)))
  <2>1. /\ Left(Tail(s), Left(s, r, 1), Len(Tail(s))) = Left(s, r, Len(Tail(s)) + 1)
        /\ Runs(Tail(s), ph2, Len(Tail(s))) <=> Runs(s, ph, Len(Tail(s)) + 1)
    BY ONLY <1>4, Later, s \in Seq(ToClientMessage), s # <<>>, ph2 = "PLAYING" <=> Runs(s, ph, 1)
  <2> QED BY <1>1, <2>1 DEF Ends
<1> QED BY <1>1, <1>3, <1>5

\* What reading the first message does.
LEMMA ReadFirst ==
  ASSUME NEW s \in Seq(ToClientMessage), s # <<>>, NEW r, NEW ph
  PROVE  /\ Runs(s, ph, 1) <=> \/ ph = "PLAYING" /\ s[1].type \notin Turning
                               \/ s[1].type = "RESUME"
         /\ Left(s, r, 1) = r \ {p \in Players : s[1] = Remove(p)}
         /\ Head(s) = s[1] /\ s[1] \in ToClientMessage /\ 1 \in 1 .. Len(s)
<1>1. \A j \in 1 .. 1 : j = 1
  OBVIOUS
<1>2. 1 \in 1 .. 1 /\ 1 + 1 .. 1 = {}
  OBVIOUS
<1>3. Head(s) = s[1] /\ s[1] \in ToClientMessage /\ 1 \in 1 .. Len(s)
  OBVIOUS
<1>4. Runs(s, ph, 1) <=> \/ ph = "PLAYING" /\ s[1].type \notin Turning
                         \/ s[1].type = "RESUME"
  BY <1>1, <1>2 DEF Runs
<1>5. Left(s, r, 1) = r \ {p \in Players : s[1] = Remove(p)}
  BY <1>1, <1>2 DEF Left, Removed
<1> QED BY <1>3, <1>4, <1>5

-----------------------------------------------------------------------------
(* Every step keeps the invariant.                                          *)

LEMMA MinePlayers == \A c \in Clients : Mine(c) \in SUBSET Players
  BY DEF Mine

LEMMA IdleOwn == \A p : Idle \in Own(p) /\ Idle \in Buttons
  BY DEF Own, Buttons

LEMMA OwnButton == \A p \in Players : Own(p) \subseteq Buttons
  BY DEF Own, Buttons

LEMMA InitOK == Init => IInv
<1> SUFFICES ASSUME Init PROVE IInv
  OBVIOUS
<1>1. Players \in SUBSET Players /\ \A c \in Clients : Players \cap Mine(c) = Mine(c)
  BY MinePlayers
<1>2. ServerOK
  BY <1>1, IdleOwn DEF Init, ServerOK
<1>3. ClientOK
  BY <1>1 DEF Init, ClientOK
<1>4. ToServerOK
  BY DEF Init, ToServerOK
<1>5. ToClientOK
  <2>1. \A r : Left(<<>>, r, 0) = r
    BY DEF Left, Removed
  <2>2. Runs(<<>>, "PLAYING", 0)
    BY DEF Runs
  <2> QED BY <2>1, <2>2 DEF Init, ToClientOK, Good, Ends
<1>6. DoneOK
  BY DEF Init, DoneOK
<1> QED BY <1>2, <1>3, <1>4, <1>5, <1>6 DEF IInv

LEMMA ServerSame ==
  ASSUME IInv, UNCHANGED <<sstate, playing, held, pressed>>
  PROVE  ServerOK'
BY DEF IInv, ServerOK

LEMMA ClientSame ==
  ASSUME IInv, UNCHANGED <<online, cstate, ticking, roster, buffer, frames>>
  PROVE  ClientOK'
BY DEF IInv, ClientOK

LEMMA ToServerSame ==
  ASSUME IInv, UNCHANGED toServer
  PROVE  ToServerOK'
BY DEF IInv, ToServerOK

LEMMA ToClientSame ==
  ASSUME IInv, UNCHANGED <<online, cstate, roster, toClient, playing, sstate>>
  PROVE  ToClientOK'
BY DEF IInv, ToClientOK

LEMMA DoneSame ==
  ASSUME IInv, UNCHANGED done
  PROVE  DoneOK'
BY DEF IInv, DoneOK

LEMMA ServerTickOK ==
  ASSUME IInv, ServerTick
  PROVE  IInv'
<1> DEFINE d == Encode(playing, held)
<1>1. /\ sstate = "PLAYING" /\ Broadcast(<<Input(d)>>)
      /\ UNCHANGED <<sstate, playing, held, online, pressed, cstate, ticking, roster,
                     buffer, frames, toServer, done>>
  BY DEF ServerTick, serverVars, clientVars
<1>2. d \in Frames /\ IsFrame(playing, d)
  <2>1. \A p \in playing : d[Rank(playing, p)] = held[p]
    BY EncodeAt DEF IInv, ServerOK
  <2>2. d \in Frames
    BY EncodeType DEF IInv, ServerOK
  <2> QED BY <2>1, <2>2 DEF IInv, ServerOK, IsFrame
<1> HIDE DEF d
<1>3. ToClientOK'
  <2>1. ASSUME NEW c \in Clients
        PROVE  /\ toClient'[c] \in Seq(ToClientMessage)
               /\ Good(toClient'[c], roster[c], cstate[c])
               /\ online[c] => Ends(toClient'[c], roster[c], cstate[c], playing, sstate = "PLAYING")
    <3>1. /\ toClient[c] \in Seq(ToClientMessage)
          /\ Good(toClient[c], roster[c], cstate[c])
          /\ online[c] => Ends(toClient[c], roster[c], cstate[c], playing, TRUE)
      BY <1>1 DEF IInv, ToClientOK
    <3>2. CASE online[c]
      <4>1. toClient'[c] = toClient[c] \o <<Input(d)>>
        BY <1>1, <3>2 DEF Broadcast
      <4>2. /\ Left(toClient[c], roster[c], Len(toClient[c])) = playing
            /\ Runs(toClient[c], cstate[c], Len(toClient[c]))
        BY <3>1, <3>2 DEF Ends
      <4> QED BY <1>1, <1>2, <3>1, <4>1, <4>2, SendInput
    <3>3. CASE ~online[c]
      BY <1>1, <3>1, <3>3 DEF Broadcast
    <3> QED BY <3>2, <3>3
  <2>2. toClient' = [c \in Clients |-> toClient'[c]]
    BY <1>1 DEF Broadcast
  <2> QED BY <1>1, <2>1, <2>2 DEF ToClientOK
<1> QED BY <1>1, <1>3, ServerSame, ClientSame, ToServerSame, DoneSame DEF IInv

LEMMA PollOK ==
  ASSUME IInv, NEW c \in Clients, NEW t, Poll(c, t)
  PROVE  ToServerOK' /\ (t = "INPUT" => IsFrame(Mine(c), Head(toServer[c]).data))
<1> DEFINE s == toServer[c]
<1>1. s \in Seq(ToServerMessage) /\ s # <<>> /\ s[1].type = t /\ Head(s) = s[1]
  BY DEF IInv, ToServerOK, Poll
<1>2. /\ Tail(s) \in Seq(ToServerMessage)
      /\ \A i \in 1 .. Len(Tail(s)) : Tail(s)[i] = s[i + 1] /\ i + 1 \in 1 .. Len(s)
      /\ 1 \in 1 .. Len(s)
  BY <1>1
<1>3. /\ toServer' = [toServer EXCEPT ![c] = Tail(s)]
      /\ toServer \in [Clients -> Seq(ToServerMessage)]
      /\ \A b \in Clients : \A i \in 1 .. Len(toServer[b]) :
           toServer[b][i].type = "INPUT" => IsFrame(Mine(b), toServer[b][i].data)
  BY DEF IInv, ToServerOK, Poll
<1>4. \A i \in 1 .. Len(Tail(s)) : Tail(s)[i].type = "INPUT" => IsFrame(Mine(c), Tail(s)[i].data)
  BY <1>2, <1>3
<1>5. t = "INPUT" => IsFrame(Mine(c), Head(s).data)
  BY <1>1, <1>2, <1>3
<1> HIDE DEF s
<1>6. \A b \in Clients : toServer'[b] = IF b = c THEN Tail(s) ELSE toServer[b]
  BY <1>3
<1>7. toServer' \in [Clients -> Seq(ToServerMessage)]
  BY <1>2, <1>3
<1>8. ToServerOK'
  <2> SUFFICES ASSUME NEW b \in Clients, NEW i \in 1 .. Len(toServer'[b]),
                      toServer'[b][i].type = "INPUT"
               PROVE  IsFrame(Mine(b), toServer'[b][i].data)
    BY <1>7 DEF ToServerOK
  <2>1. CASE b = c
    BY <1>4, <1>6, <2>1
  <2>2. CASE b # c
    BY <1>3, <1>6, <2>2
  <2> QED BY <2>1, <2>2
<1> QED BY <1>5, <1>8 DEF s

LEMMA HandleInputOK ==
  ASSUME IInv, NEW c \in Clients, HandleInput(c)
  PROVE  IInv'
<1> DEFINE S == playing \cap Mine(c)
           new == Decode(S, Head(toServer[c]).data)
<1>1. /\ Poll(c, "INPUT")
      /\ held' = [p \in Players |-> IF p \in S THEN new[p] ELSE held[p]]
      /\ sstate' = IF sstate = "OFF" /\ S # {} THEN "DEAD" ELSE sstate
      /\ UNCHANGED <<playing, online, pressed, cstate, ticking, roster, buffer, frames,
                     toClient, done>>
  BY DEF HandleInput, clientVars
<1>2. ToServerOK' /\ IsFrame(Mine(c), Head(toServer[c]).data)
  BY <1>1, PollOK
<1>3. \A p \in S : new[p] \in Own(p)
  <2>1. S = {} \/ S = Mine(c)
    BY DEF IInv, ServerOK
  <2>2. \A p \in S : S = Mine(c) /\ new[p] = Head(toServer[c]).data[Rank(S, p)]
    BY <2>1 DEF Decode
  <2> QED BY <1>2, <2>2 DEF IsFrame
<1>4. S \subseteq Players
  BY MinePlayers
<1> HIDE DEF S, new
<1>5. \A p \in Players : held'[p] \in Own(p)
  BY <1>1, <1>3 DEF IInv, ServerOK
<1>6. held' \in [Players -> Buttons]
  BY <1>1, <1>5, OwnButton
<1>7. sstate' \in {"PLAYING", "PAUSED", "OFF", "DEAD"} /\ (sstate' = "PLAYING" <=> sstate = "PLAYING")
  BY <1>1 DEF IInv, ServerOK
<1>8. ServerOK'
  BY <1>1, <1>5, <1>6, <1>7 DEF IInv, ServerOK
<1>9. ToClientOK'
  BY <1>1, <1>7 DEF IInv, ToClientOK
<1> QED BY <1>1, <1>2, <1>8, <1>9, ClientSame, DoneSame DEF IInv

\* All players of one client are taken out, or none.
LEMMA TakenOut ==
  ASSUME IInv, NEW c \in Clients, NEW S, S = playing \cap Mine(c)
  PROVE  /\ S \in SUBSET Players /\ playing \ S \in SUBSET Players
         /\ \A d \in Clients : (playing \ S) \cap Mine(d) \in {{}, Mine(d)}
<1>1. S \in SUBSET Players /\ playing \ S \in SUBSET Players
  BY DEF IInv, ServerOK
<1>2. (playing \ S) \cap Mine(c) = {}
  OBVIOUS
<1>3. \A d \in Clients : d # c => (playing \ S) \cap Mine(d) = playing \cap Mine(d)
  BY DEF Mine
<1>4. \A d \in Clients : playing \cap Mine(d) \in {{}, Mine(d)}
  BY DEF IInv, ServerOK
<1> QED BY <1>1, <1>2, <1>3, <1>4

\* What a client is sent when the players in S are taken out.
LEMMA ToldOfRemovals ==
  ASSUME IInv, NEW c \in Clients, NEW S \in SUBSET Players, online[c]
  PROVE  /\ toClient[c] \o Removals(S) \in Seq(ToClientMessage)
         /\ Good(toClient[c] \o Removals(S), roster[c], cstate[c])
         /\ Ends(toClient[c] \o Removals(S), roster[c], cstate[c], playing \ S, sstate = "PLAYING")
<1>1. /\ toClient[c] \in Seq(ToClientMessage)
      /\ Good(toClient[c], roster[c], cstate[c])
      /\ Left(toClient[c], roster[c], Len(toClient[c])) = playing
      /\ Runs(toClient[c], cstate[c], Len(toClient[c])) <=> sstate = "PLAYING"
  BY DEF IInv, ToClientOK, Ends
<1> DEFINE w == toClient[c] \o Removals(S)
<1>2. /\ w \in Seq(ToClientMessage) /\ Good(w, roster[c], cstate[c])
      /\ Ends(w, roster[c], cstate[c], Left(toClient[c], roster[c], Len(toClient[c])) \ S,
              Runs(toClient[c], cstate[c], Len(toClient[c])))
  BY <1>1, SendRemovals
<1> HIDE DEF w
<1>3. Left(w, roster[c], Len(w)) = playing \ S
  BY <1>1, <1>2 DEF Ends
<1>4. Runs(w, cstate[c], Len(w)) <=> sstate = "PLAYING"
  BY <1>1, <1>2 DEF Ends
<1> QED BY <1>2, <1>3, <1>4 DEF Ends, w

LEMMA HandleOverflowOK ==
  ASSUME IInv, NEW c \in Clients, HandleOverflow(c)
  PROVE  IInv'
<1> DEFINE S == playing \cap Mine(c)
<1>1. /\ Poll(c, "INPUT_OVERFLOW")
      /\ playing' = playing \ S
      /\ Broadcast(Removals(S))
      /\ UNCHANGED <<sstate, held, online, pressed, cstate, ticking, roster, buffer, frames, done>>
  BY DEF HandleOverflow, clientVars
<1>2. ToServerOK'
  BY <1>1, PollOK
<1>3. /\ S \in SUBSET Players /\ playing' \in SUBSET Players
      /\ \A d \in Clients : playing' \cap Mine(d) \in {{}, Mine(d)}
  BY <1>1, TakenOut
<1> HIDE DEF S
<1>4. ServerOK'
  BY <1>1, <1>3 DEF IInv, ServerOK
<1>5. ToClientOK'
  <2>1. ASSUME NEW d \in Clients
        PROVE  /\ toClient'[d] \in Seq(ToClientMessage)
               /\ Good(toClient'[d], roster[d], cstate[d])
               /\ online[d] => Ends(toClient'[d], roster[d], cstate[d], playing \ S, sstate = "PLAYING")
    <3>1. CASE online[d]
      BY <1>1, <1>3, <3>1, ToldOfRemovals DEF Broadcast
    <3>2. CASE ~online[d]
      BY <1>1, <3>2 DEF Broadcast, IInv, ToClientOK
    <3> QED BY <3>1, <3>2
  <2>2. toClient' = [d \in Clients |-> toClient'[d]]
    BY <1>1 DEF Broadcast
  <2> QED BY <1>1, <2>1, <2>2 DEF ToClientOK
<1> QED BY <1>1, <1>2, <1>4, <1>5, ClientSame, DoneSame DEF IInv

LEMMA DropOK ==
  ASSUME IInv, NEW c \in Clients, Drop(c)
  PROVE  IInv'
<1> DEFINE S == playing \cap Mine(c)
           ends == playing \subseteq S /\ sstate \in {"PLAYING", "PAUSED"}
<1>1. /\ online[c] /\ online' = [online EXCEPT ![c] = FALSE]
      /\ playing' = playing \ S
      /\ sstate' = IF ends THEN "OFF" ELSE sstate
      /\ toClient' = [d \in Clients |->
              IF d = c \/ ~online[d] THEN toClient[d]
              ELSE toClient[d] \o Removals(S)
                               \o (IF ends THEN <<Note("END")>> ELSE <<>>)]
      /\ toServer' = [toServer EXCEPT ![c] = <<>>]
      /\ UNCHANGED <<held, pressed, cstate, ticking, roster, buffer, frames, done>>
  BY DEF Drop, clientVars
<1>2. /\ S \in SUBSET Players /\ playing' \in SUBSET Players
      /\ \A d \in Clients : playing' \cap Mine(d) \in {{}, Mine(d)}
  BY <1>1, TakenOut
<1> HIDE DEF S
<1>3. sstate' \in {"PLAYING", "PAUSED", "OFF", "DEAD"}
  BY <1>1 DEF IInv, ServerOK
<1>4. ServerOK'
  BY <1>1, <1>2, <1>3 DEF IInv, ServerOK
<1>5. ToServerOK'
  <2>1. toServer' \in [Clients -> Seq(ToServerMessage)]
    BY <1>1 DEF IInv, ToServerOK
  <2>2. \A b \in Clients : b # c => toServer'[b] = toServer[b]
    BY <1>1 DEF IInv, ToServerOK
  <2>3. Len(toServer'[c]) = 0
    BY <1>1 DEF IInv, ToServerOK
  <2>4. ASSUME NEW b \in Clients, NEW i \in 1 .. Len(toServer'[b]), toServer'[b][i].type = "INPUT"
        PROVE  IsFrame(Mine(b), toServer'[b][i].data)
    BY <2>2, <2>3, <2>4 DEF IInv, ToServerOK
  <2> QED BY <2>1, <2>4 DEF ToServerOK
<1>6. \A d \in Clients : online'[d] <=> d # c /\ online[d]
  BY <1>1 DEF IInv, ClientOK
<1>7. ToClientOK'
  <2>1. ASSUME NEW d \in Clients
        PROVE  /\ toClient'[d] \in Seq(ToClientMessage)
               /\ Good(toClient'[d], roster[d], cstate[d])
               /\ d # c /\ online[d] =>
                    Ends(toClient'[d], roster[d], cstate[d], playing \ S, sstate' = "PLAYING")
    <3>1. CASE d = c \/ ~online[d]
      BY <1>1, <3>1 DEF IInv, ToClientOK
    <3>2. CASE d # c /\ online[d] /\ ~ends
      <4> DEFINE w == toClient[d] \o Removals(S)
      <4>1. /\ w \in Seq(ToClientMessage) /\ Good(w, roster[d], cstate[d])
            /\ Ends(w, roster[d], cstate[d], playing \ S, sstate = "PLAYING")
        BY <1>2, <3>2, ToldOfRemovals
      <4>2. toClient'[d] = w \o <<>>
        BY <1>1, <3>2
      <4> HIDE DEF w
      <4>3. toClient'[d] = w
        BY <4>1, <4>2
      <4> QED BY <1>1, <3>2, <4>1, <4>3
    <3>3. CASE d # c /\ online[d] /\ ends
      <4> DEFINE w == toClient[d] \o Removals(S)
      <4>1. /\ w \in Seq(ToClientMessage) /\ Good(w, roster[d], cstate[d])
            /\ Ends(w, roster[d], cstate[d], playing \ S, sstate = "PLAYING")
        BY <1>2, <3>3, ToldOfRemovals
      <4>2. toClient'[d] = w \o <<Note("END")>>
        BY <1>1, <3>3
      <4> HIDE DEF w
      <4>3. "END" \in Turning /\ "END" # "RESUME"
        BY DEF Turning
      <4>4. /\ w \o <<Note("END")>> \in Seq(ToClientMessage)
            /\ Good(w \o <<Note("END")>>, roster[d], cstate[d])
            /\ Ends(w \o <<Note("END")>>, roster[d], cstate[d], Left(w, roster[d], Len(w)),
                    "END" = "RESUME")
        BY <4>1, <4>3, SendTurn
      <4>5. Left(w, roster[d], Len(w)) = playing \ S
        BY <4>1 DEF Ends
      <4>6. sstate' # "PLAYING"
        BY <1>1, <3>3
      <4> QED BY <4>2, <4>3, <4>4, <4>5, <4>6 DEF Ends
    <3> QED BY <3>1, <3>2, <3>3
  <2>2. toClient' = [d \in Clients |-> toClient'[d]]
    BY <1>1
  <2> QED BY <1>1, <1>6, <2>1, <2>2 DEF ToClientOK
<1>8. ClientOK'
  <2>1. online' \in [Clients -> BOOLEAN]
    BY <1>1 DEF IInv, ClientOK
  <2> QED BY <1>1, <2>1 DEF IInv, ClientOK
<1> QED BY <1>1, <1>4, <1>5, <1>7, <1>8, DoneSame DEF IInv

LEMMA TurnOK ==
  ASSUME IInv, NEW from, NEW to \in {"PLAYING", "PAUSED", "OFF"}, NEW t \in Turning,
         to = "PLAYING" <=> t = "RESUME", Turn(from, to, t)
  PROVE  IInv'
<1>1. /\ sstate' = to /\ Broadcast(<<Note(t)>>)
      /\ UNCHANGED <<playing, held, online, pressed, cstate, ticking, roster, buffer, frames,
                     toServer, done>>
  BY DEF Turn, clientVars
<1>2. ServerOK'
  BY <1>1 DEF IInv, ServerOK
<1>3. ToClientOK'
  <2>1. ASSUME NEW d \in Clients
        PROVE  /\ toClient'[d] \in Seq(ToClientMessage)
               /\ Good(toClient'[d], roster[d], cstate[d])
               /\ online[d] => Ends(toClient'[d], roster[d], cstate[d], playing, to = "PLAYING")
    <3>1. /\ toClient[d] \in Seq(ToClientMessage)
          /\ Good(toClient[d], roster[d], cstate[d])
          /\ online[d] => Left(toClient[d], roster[d], Len(toClient[d])) = playing
      BY DEF IInv, ToClientOK, Ends
    <3>2. CASE online[d]
      <4>1. toClient'[d] = toClient[d] \o <<Note(t)>>
        BY <1>1, <3>2 DEF Broadcast
      <4> QED BY <3>1, <3>2, <4>1, SendTurn DEF Ends
    <3>3. CASE ~online[d]
      BY <1>1, <3>1, <3>3 DEF Broadcast
    <3> QED BY <3>2, <3>3
  <2>2. toClient' = [d \in Clients |-> toClient'[d]]
    BY <1>1 DEF Broadcast
  <2> QED BY <1>1, <2>1, <2>2 DEF ToClientOK
<1> QED BY <1>1, <1>2, <1>3, ClientSame, ToServerSame, DoneSame DEF IInv

LEMMA PauseResumeEndOK ==
  ASSUME IInv, Pause \/ Resume \/ End
  PROVE  IInv'
<1>1. CASE Pause
  BY <1>1, TurnOK DEF Pause, Turning
<1>2. CASE Resume
  BY <1>2, TurnOK DEF Resume, Turning
<1>3. CASE End
  BY <1>3, TurnOK DEF End, Turning
<1> QED BY <1>1, <1>2, <1>3

\* A client reads its first message.
LEMMA ReadingOK ==
  ASSUME IInv, NEW c \in Clients, NEW t, Receive(c, t), NEW r, NEW ph,
         r = Left(toClient[c], roster[c], 1),
         ph = "PLAYING" <=> Runs(toClient[c], cstate[c], 1),
         \A d \in Clients : roster'[d] = IF d = c THEN r ELSE roster[d],
         \A d \in Clients : cstate'[d] = IF d = c THEN ph ELSE cstate[d],
         UNCHANGED <<online, playing, sstate>>
  PROVE  ToClientOK'
<1> DEFINE s == toClient[c]
<1>1. /\ s \in Seq(ToClientMessage) /\ s # <<>> /\ online[c]
      /\ Good(s, roster[c], cstate[c])
      /\ Ends(s, roster[c], cstate[c], playing, sstate = "PLAYING")
  BY DEF IInv, ToClientOK, Receive
<1>2. /\ toClient' = [toClient EXCEPT ![c] = Tail(s)]
      /\ toClient \in [Clients -> Seq(ToClientMessage)]
  BY DEF IInv, ToClientOK, Receive
<1> HIDE DEF s
<1>3. /\ Tail(s) \in Seq(ToClientMessage)
      /\ Good(Tail(s), r, ph)
      /\ Ends(Tail(s), r, ph, Left(s, roster[c], Len(s)), Runs(s, cstate[c], Len(s)))
  BY <1>1, GoodLater DEF s
<1>4. Left(Tail(s), r, Len(Tail(s))) = playing
  BY <1>1, <1>3 DEF Ends
<1>5. Runs(Tail(s), ph, Len(Tail(s))) <=> sstate = "PLAYING"
  BY <1>1, <1>3 DEF Ends
<1>6. Ends(Tail(s), r, ph, playing, sstate = "PLAYING")
  BY <1>4, <1>5 DEF Ends
<1>7. \A d \in Clients : toClient'[d] = IF d = c THEN Tail(s) ELSE toClient[d]
  BY <1>2
<1>8. toClient' \in [Clients -> Seq(ToClientMessage)]
  BY <1>2, <1>3
<1>9. ASSUME NEW d \in Clients
      PROVE  /\ Good(toClient'[d], roster'[d], cstate'[d])
             /\ online[d] => Ends(toClient'[d], roster'[d], cstate'[d], playing, sstate = "PLAYING")
  <2>1. CASE d = c
    <3>1. toClient'[d] = Tail(s) /\ roster'[d] = r /\ cstate'[d] = ph
      BY <1>7, <2>1
    <3> QED BY <1>3, <1>6, <3>1
  <2>2. CASE d # c
    <3>1. toClient'[d] = toClient[d] /\ roster'[d] = roster[d] /\ cstate'[d] = cstate[d]
      BY <1>7, <2>2
    <3> QED BY <3>1 DEF IInv, ToClientOK
  <2> QED BY <2>1, <2>2
<1> QED BY <1>8, <1>9 DEF ToClientOK

LEMMA ReceiveInputOK ==
  ASSUME IInv, NEW c \in Clients, ReceiveInput(c)
  PROVE  IInv'
<1> DEFINE s == toClient[c]
           d == Head(s).data
<1>1. /\ Receive(c, "INPUT")
      /\ buffer' = [buffer EXCEPT ![c] = Append(@, d)]
      /\ frames' = [frames EXCEPT ![c] = @ + 1]
      /\ toServer' = IF frames[c] + 1 > MaxBuffer
                     THEN [toServer EXCEPT ![c] = Append(@, Note("INPUT_OVERFLOW"))]
                     ELSE toServer
      /\ UNCHANGED <<sstate, playing, held, online, pressed, cstate, ticking, roster, done>>
  BY DEF ReceiveInput, serverVars
<1>2. /\ s \in Seq(ToClientMessage) /\ s # <<>> /\ s[1].type = "INPUT" /\ Head(s) = s[1]
      /\ s[1] \in ToClientMessage /\ 1 \in 1 .. Len(s)
      /\ Good(s, roster[c], cstate[c])
  BY <1>1, ReadFirst DEF IInv, ToClientOK, Receive
<1>3. /\ d \in Frames
      /\ \A p \in Players : s[1] # Remove(p)
      /\ "INPUT" \notin Turning
  BY <1>2, MessageCases DEF Turning
<1>4. /\ Runs(s, cstate[c], 1) <=> cstate[c] = "PLAYING"
      /\ Left(s, roster[c], 1) = roster[c]
  <2>1. Left(s, roster[c], 1) = roster[c] \ {p \in Players : s[1] = Remove(p)}
    BY <1>2, ReadFirst
  <2>2. Runs(s, cstate[c], 1) <=> \/ cstate[c] = "PLAYING" /\ s[1].type \notin Turning
                                  \/ s[1].type = "RESUME"
    BY <1>2, ReadFirst
  <2> QED BY <1>2, <1>3, <2>1, <2>2
<1>5. cstate[c] = "PLAYING" /\ IsFrame(roster[c], d)
  BY <1>2, <1>4 DEF Good
<1> HIDE DEF s, d
<1>6. ToClientOK'
  BY <1>1, <1>4, ReadingOK DEF s
<1>7. ClientOK'
  <2>1. buffer \in [Clients -> Seq(Frames)] /\ frames \in [Clients -> Nat]
    BY DEF IInv, ClientOK
  <2>2. /\ buffer' \in [Clients -> Seq(Frames)]
        /\ frames' \in [Clients -> Nat]
    BY <1>1, <1>3, <2>1
  <2>3. ASSUME NEW b \in Clients
        PROVE  /\ frames'[b] <= Len(buffer'[b])
               /\ cstate[b] # "PLAYING" => buffer'[b] = <<>>
               /\ \A i \in 1 .. Len(buffer'[b]) : IsFrame(roster[b], buffer'[b][i])
    <3>1. /\ frames[b] <= Len(buffer[b])
          /\ cstate[b] # "PLAYING" => buffer[b] = <<>>
          /\ \A i \in 1 .. Len(buffer[b]) : IsFrame(roster[b], buffer[b][i])
      BY DEF IInv, ClientOK
    <3>2. CASE b = c
      <4>1. buffer'[c] = Append(buffer[c], d) /\ frames'[c] = frames[c] + 1
        BY <1>1, <2>1
      <4>2. buffer[c] \in Seq(Frames)
        BY <2>1
      <4>3. Len(buffer'[c]) = Len(buffer[c]) + 1
        BY <4>1, <4>2
      <4>4. \A i \in 1 .. Len(buffer'[c]) : buffer'[c][i] = IF i = Len(buffer[c]) + 1 THEN d ELSE buffer[c][i]
        BY <1>3, <4>1, <4>2
      <4>5. \A i \in 1 .. Len(buffer'[c]) : i # Len(buffer[c]) + 1 => i \in 1 .. Len(buffer[c])
        BY <4>2, <4>3
      <4>6. \A i \in 1 .. Len(buffer'[c]) : IsFrame(roster[c], buffer'[c][i])
        BY <1>5, <3>1, <3>2, <4>4, <4>5
      <4>7. frames'[c] <= Len(buffer'[c])
        BY <2>1, <3>1, <3>2, <4>1, <4>2, <4>3
      <4> QED BY <1>5, <3>2, <4>6, <4>7
    <3>3. CASE b # c
      <4>1. buffer'[b] = buffer[b] /\ frames'[b] = frames[b]
        BY <1>1, <2>1, <3>3
      <4> QED BY <3>1, <4>1
    <3> QED BY <3>2, <3>3
  <2> QED BY <1>1, <2>2, <2>3 DEF IInv, ClientOK
<1>8. ToServerOK'
  <2>1. CASE toServer' = toServer
    BY <2>1, ToServerSame
  <2>2. CASE toServer' = [toServer EXCEPT ![c] = Append(@, Note("INPUT_OVERFLOW"))]
    <3>1. Note("INPUT_OVERFLOW") \in ToServerMessage /\ Note("INPUT_OVERFLOW").type # "INPUT"
      BY MessageCases DEF ToServerMessage
    <3>2. /\ toServer \in [Clients -> Seq(ToServerMessage)]
          /\ \A b \in Clients : \A i \in 1 .. Len(toServer[b]) :
               toServer[b][i].type = "INPUT" => IsFrame(Mine(b), toServer[b][i].data)
      BY DEF IInv, ToServerOK
    <3>3. toServer' \in [Clients -> Seq(ToServerMessage)]
      BY <2>2, <3>1, <3>2
    <3>4. \A b \in Clients : b # c => toServer'[b] = toServer[b]
      BY <2>2, <3>2
    <3>5. /\ Len(toServer'[c]) = Len(toServer[c]) + 1
          /\ \A i \in 1 .. Len(toServer'[c]) :
               toServer'[c][i].type = "INPUT" => i \in 1 .. Len(toServer[c]) /\ toServer'[c][i] = toServer[c][i]
      <4>1. toServer'[c] = Append(toServer[c], Note("INPUT_OVERFLOW")) /\ toServer[c] \in Seq(ToServerMessage)
        BY <2>2, <3>2
      <4> QED BY <3>1, <4>1
    <3>6. \A b \in Clients : \A i \in 1 .. Len(toServer'[b]) :
             toServer'[b][i].type = "INPUT" => IsFrame(Mine(b), toServer'[b][i].data)
      <4> TAKE b \in Clients
      <4>1. CASE b = c
        BY <3>2, <3>5, <4>1
      <4>2. CASE b # c
        BY <3>2, <3>4, <4>2
      <4> QED BY <4>1, <4>2
    <3> QED BY <3>3, <3>6 DEF ToServerOK
  <2> QED BY <1>1, <2>1, <2>2
<1> QED BY <1>1, <1>6, <1>7, <1>8, ServerSame, DoneSame DEF IInv

LEMMA ReceiveRemoveOK ==
  ASSUME IInv, NEW c \in Clients, ReceiveRemove(c)
  PROVE  IInv'
<1> DEFINE s == toClient[c]
           gone == Head(s).player
           left == roster[c] \ {gone}
<1>1. /\ Receive(c, "REMOVE_PLAYER")
      /\ roster' = [roster EXCEPT ![c] = left]
      /\ ticking' = [ticking EXCEPT ![c] = @ /\ gone \notin Mine(c)]
      /\ IF cstate[c] = "PLAYING" /\ gone \in roster[c]
         THEN /\ buffer' = [buffer EXCEPT ![c] = Resized(c, left)]
              /\ frames' = [frames EXCEPT ![c] = 0]
         ELSE UNCHANGED <<buffer, frames>>
      /\ UNCHANGED <<sstate, playing, held, online, pressed, cstate, toServer, done>>
  BY DEF ReceiveRemove, serverVars
<1>2. /\ s \in Seq(ToClientMessage) /\ s # <<>> /\ s[1].type = "REMOVE_PLAYER" /\ Head(s) = s[1]
      /\ s[1] \in ToClientMessage
      /\ roster[c] \in SUBSET Players
  BY <1>1, ReadFirst DEF IInv, ToClientOK, Receive, ClientOK
<1>3. gone \in Players /\ s[1] = Remove(gone) /\ \A p \in Players : s[1] = Remove(p) <=> p = gone
  BY <1>2, MessageCases
<1>4. /\ Runs(s, cstate[c], 1) <=> cstate[c] = "PLAYING"
      /\ Left(s, roster[c], 1) = left
  <2>1. Left(s, roster[c], 1) = roster[c] \ {p \in Players : s[1] = Remove(p)}
    BY <1>2, ReadFirst
  <2>2. Runs(s, cstate[c], 1) <=> \/ cstate[c] = "PLAYING" /\ s[1].type \notin Turning
                                  \/ s[1].type = "RESUME"
    BY <1>2, ReadFirst
  <2>3. "REMOVE_PLAYER" \notin Turning
    BY DEF Turning
  <2> QED BY <1>2, <1>3, <2>1, <2>2, <2>3
<1>5. left \in SUBSET Players
  BY <1>2
<1> HIDE DEF s, gone, left
<1>6. /\ roster \in [Clients -> SUBSET Players]
      /\ buffer \in [Clients -> Seq(Frames)] /\ frames \in [Clients -> Nat]
      /\ \A b \in Clients :
           /\ frames[b] <= Len(buffer[b])
           /\ cstate[b] # "PLAYING" => buffer[b] = <<>>
           /\ \A i \in 1 .. Len(buffer[b]) : IsFrame(roster[b], buffer[b][i])
  BY DEF IInv, ClientOK
<1>7. \A b \in Clients : roster'[b] = IF b = c THEN left ELSE roster[b]
  BY <1>1, <1>6
<1>8. ToClientOK'
  BY <1>1, <1>4, <1>7, ReadingOK DEF s
<1>9. roster' \in [Clients -> SUBSET Players]
  BY <1>1, <1>5, <1>6
<1>10. ticking' \in [Clients -> BOOLEAN]
  BY <1>1 DEF IInv, ClientOK
<1>11. /\ buffer' \in [Clients -> Seq(Frames)] /\ frames' \in [Clients -> Nat]
       /\ \A b \in Clients :
            /\ frames'[b] <= Len(buffer'[b])
            /\ cstate[b] # "PLAYING" => buffer'[b] = <<>>
            /\ \A i \in 1 .. Len(buffer'[b]) : IsFrame(roster'[b], buffer'[b][i])
  <2>1. CASE cstate[c] = "PLAYING" /\ gone \in roster[c]
    <3> DEFINE u == Resized(c, left)
    <3>1. /\ u \in Seq(Frames) /\ Len(u) = frames[c]
          /\ \A i \in 1 .. Len(u) : IsFrame(left, u[i])
      <4>1. BlankFrame(left) \in Frames /\ IsFrame(left, BlankFrame(left))
        BY <1>5, BlankType, IdleOwn DEF IsFrame
      <4>2. frames[c] \in Nat
        BY <1>6
      <4>3. u = [i \in 1 .. frames[c] |-> BlankFrame(left)]
        BY DEF Resized
      <4> HIDE DEF u
      <4>4. u \in Seq(Frames) /\ Len(u) = frames[c]
        BY <4>1, <4>2, <4>3
      <4> QED BY <4>1, <4>3, <4>4
    <3>2. buffer' = [buffer EXCEPT ![c] = u] /\ frames' = [frames EXCEPT ![c] = 0]
      BY <1>1, <2>1
    <3> HIDE DEF u
    <3>3. buffer' \in [Clients -> Seq(Frames)] /\ frames' \in [Clients -> Nat]
      BY <1>6, <3>1, <3>2
    <3>4. buffer'[c] = u /\ frames'[c] = 0 /\ roster'[c] = left /\ 0 <= Len(u)
      BY <1>6, <1>7, <3>1, <3>2
    <3>5. \A b \in Clients : b # c => /\ buffer'[b] = buffer[b] /\ frames'[b] = frames[b]
                                      /\ roster'[b] = roster[b]
      BY <1>6, <1>7, <3>2
    <3>6. ASSUME NEW b \in Clients
          PROVE  /\ frames'[b] <= Len(buffer'[b])
                 /\ cstate[b] # "PLAYING" => buffer'[b] = <<>>
                 /\ \A i \in 1 .. Len(buffer'[b]) : IsFrame(roster'[b], buffer'[b][i])
      <4>1. CASE b = c
        BY <2>1, <3>1, <3>4, <4>1
      <4>2. CASE b # c
        BY <1>6, <3>5, <4>2
      <4> QED BY <4>1, <4>2
    <3> QED BY <3>3, <3>6
  <2>2. CASE ~(cstate[c] = "PLAYING" /\ gone \in roster[c])
    <3>1. buffer' = buffer /\ frames' = frames
      BY <1>1, <2>2
    <3>2. ASSUME NEW b \in Clients, NEW i \in 1 .. Len(buffer[b])
          PROVE  IsFrame(roster'[b], buffer[b][i])
      <4>1. IsFrame(roster[b], buffer[b][i])
        BY <1>6
      <4>2. CASE b = c
        <5>1. cstate[c] = "PLAYING"
          BY <1>6, <4>2
        <5>2. left = roster[c]
          BY <2>2, <5>1 DEF left
        <5> QED BY <1>7, <4>1, <4>2, <5>2
      <4>3. CASE b # c
        BY <1>7, <4>1, <4>3
      <4> QED BY <4>2, <4>3
    <3> QED BY <1>6, <3>1, <3>2
  <2> QED BY <2>1, <2>2
<1>12. ClientOK'
  BY <1>1, <1>9, <1>10, <1>11 DEF IInv, ClientOK
<1> QED BY <1>1, <1>8, <1>12, ServerSame, ToServerSame, DoneSame DEF IInv

LEMMA EnterOK ==
  ASSUME IInv, NEW c \in Clients, NEW t \in Turning, NEW to \in {"PLAYING", "PAUSED", "OFF"},
         to = "PLAYING" <=> t = "RESUME", Enter(c, t, to)
  PROVE  IInv'
<1> DEFINE s == toClient[c]
<1>1. /\ Receive(c, t)
      /\ cstate' = [cstate EXCEPT ![c] = to]
      /\ buffer' = [buffer EXCEPT ![c] = <<>>]
      /\ frames' = [frames EXCEPT ![c] = 0]
      /\ UNCHANGED <<sstate, playing, held, online, pressed, ticking, roster, toServer, done>>
  BY DEF Enter, serverVars
<1>2. /\ s \in Seq(ToClientMessage) /\ s # <<>> /\ s[1].type = t /\ s[1] \in ToClientMessage
  BY <1>1, ReadFirst DEF IInv, ToClientOK, Receive
<1>3. \A p \in Players : s[1] # Remove(p)
  BY <1>2, MessageCases
<1>4. Runs(s, cstate[c], 1) <=> to = "PLAYING"
  BY <1>2, ReadFirst
<1>5. Left(s, roster[c], 1) = roster[c]
  <2>1. Left(s, roster[c], 1) = roster[c] \ {p \in Players : s[1] = Remove(p)}
    BY <1>2, ReadFirst
  <2> QED BY <1>3, <2>1
<1>6. /\ cstate \in [Clients -> {"PLAYING", "PAUSED", "OFF"}]
      /\ buffer \in [Clients -> Seq(Frames)] /\ frames \in [Clients -> Nat]
      /\ \A b \in Clients :
           /\ frames[b] <= Len(buffer[b])
           /\ cstate[b] # "PLAYING" => buffer[b] = <<>>
           /\ \A i \in 1 .. Len(buffer[b]) : IsFrame(roster[b], buffer[b][i])
  BY DEF IInv, ClientOK
<1>7. \A b \in Clients : cstate'[b] = IF b = c THEN to ELSE cstate[b]
  BY <1>1, <1>6
<1>8. ToClientOK'
  BY <1>1, <1>4, <1>5, <1>7, ReadingOK DEF s
<1>9. /\ cstate' \in [Clients -> {"PLAYING", "PAUSED", "OFF"}]
      /\ buffer' \in [Clients -> Seq(Frames)] /\ frames' \in [Clients -> Nat]
  BY <1>1, <1>6
<1>10. ASSUME NEW b \in Clients
       PROVE  /\ frames'[b] <= Len(buffer'[b])
              /\ cstate'[b] # "PLAYING" => buffer'[b] = <<>>
              /\ \A i \in 1 .. Len(buffer'[b]) : IsFrame(roster[b], buffer'[b][i])
  <2>1. CASE b = c
    BY <1>1, <1>6, <2>1
  <2>2. CASE b # c
    BY <1>1, <1>6, <1>7, <2>2
  <2> QED BY <2>1, <2>2
<1>11. ClientOK'
  BY <1>1, <1>9, <1>10 DEF IInv, ClientOK
<1> QED BY <1>1, <1>8, <1>11, ServerSame, ToServerSame, DoneSame DEF IInv

LEMMA ClientPollOK ==
  ASSUME IInv, NEW c \in Clients, ClientPoll(c)
  PROVE  IInv'
<1>1. CASE ReceiveInput(c)
  BY <1>1, ReceiveInputOK
<1>2. CASE ReceiveRemove(c)
  BY <1>2, ReceiveRemoveOK
<1>3. CASE ReceivePause(c)
  BY <1>3, EnterOK DEF ReceivePause, Turning
<1>4. CASE ReceiveResume(c)
  BY <1>4, EnterOK DEF ReceiveResume, Turning
<1>5. CASE ReceiveEnd(c)
  BY <1>5, EnterOK DEF ReceiveEnd, Turning
<1> QED BY <1>1, <1>2, <1>3, <1>4, <1>5 DEF ClientPoll

LEMMA PressOK ==
  ASSUME IInv, NEW p \in Players, Press(p)
  PROVE  IInv'
<1>1. /\ pressed[p][2] < MaxPress
      /\ pressed' = [pressed EXCEPT ![p] = <<p, @[2] + 1>>]
      /\ UNCHANGED <<sstate, playing, held, online, cstate, ticking, roster, buffer, frames,
                     toServer, toClient, done>>
  BY DEF Press, serverVars, clientVars
<1>2. pressed[p] \in Own(p) /\ pressed \in [Players -> Buttons]
  BY DEF IInv, ServerOK
<1>3. pressed[p][2] \in Nat
  BY <1>2 DEF Own, Idle
<1>4. MaxPress \in Nat
  BY LockstepAssumption
<1>5. <<p, pressed[p][2] + 1>> \in Own(p)
  BY <1>1, <1>3, <1>4 DEF Own
<1>6. <<p, pressed[p][2] + 1>> \in Buttons
  BY <1>5, OwnButton
<1>7. pressed' \in [Players -> Buttons]
  BY <1>1, <1>2, <1>6
<1>8. \A q \in Players : pressed'[q] \in Own(q)
  BY <1>1, <1>2, <1>5 DEF IInv, ServerOK
<1>9. ServerOK'
  BY <1>1, <1>7, <1>8 DEF IInv, ServerOK
<1> QED BY <1>1, <1>9, ClientSame, ToServerSame, ToClientSame, DoneSame DEF IInv

LEMMA Division ==
  ASSUME NEW a \in Nat, NEW m \in Nat \ {0}
  PROVE  /\ a \div m \in Nat /\ (a \div m) * m \in Nat /\ (a \div m) * m <= a
         /\ a < m => a \div m = 0
<1>1. a \in Int /\ m \in Int /\ m > 0 /\ a >= 0
  OBVIOUS
<1>2. a \div m \in Int /\ a \div m >= 0
  BY <1>1
<1>3. m * (a \div m) <= a
  BY <1>1
<1>4. a < m => a \div m = 0
  BY <1>1
<1> DEFINE q == a \div m
<1> HIDE DEF q
<1>5. q \in Nat /\ m * q <= a
  BY <1>2, <1>3 DEF q
<1>6. q * m = m * q /\ q * m \in Nat
  BY <1>5
<1> QED BY <1>4, <1>5, <1>6 DEF q

\* The cells that are read lie between reader and writer.
LEMMA CellThere ==
  ASSUME NEW c, NEW i \in 1 .. Len(buffer[c]), Len(buffer[c]) \in Nat
  PROVE  /\ \E k \in 1 .. Len(buffer[c]) : Cell(c, i) = buffer[c][k]
         /\ Len(buffer[c]) <= MaxBuffer => Cell(c, i) = buffer[c][i]
<1> DEFINE L == Len(buffer[c])
           q == (L - i) \div MaxBuffer
<1>1. MaxBuffer \in Nat \ {0} /\ L - i \in Nat
  BY LockstepAssumption
<1>2. Cell(c, i) = buffer[c][i + q * MaxBuffer]
  BY DEF Cell
<1>3. /\ q \in Nat /\ q * MaxBuffer \in Nat /\ q * MaxBuffer <= L - i
      /\ L - i < MaxBuffer => q = 0
  BY ONLY <1>1, Division
<1>4. L <= MaxBuffer => q = 0
  <2>1. L <= MaxBuffer => L - i < MaxBuffer
    BY ONLY <1>1, LockstepAssumption, i \in 1 .. L, L \in Nat
  <2> QED BY <1>3, <2>1
<1> HIDE DEF q
<1>5. i + q * MaxBuffer \in 1 .. L
  BY <1>3
<1>6. L <= MaxBuffer => i + q * MaxBuffer = i
  BY <1>4, LockstepAssumption
<1> QED BY <1>2, <1>5, <1>6

LEMMA TicksWithin == \A n \in Nat : Ticks(n) \in 0 .. n
  BY LockstepAssumption DEF Ticks

\* What a client runs in one step: the first frames of its buffer, decoded.
Ran(c, n) == [i \in 1 .. n |-> Decode(roster[c], Cell(c, i))]

LEMMA ClientTickParts ==
  ASSUME IInv, NEW c \in Clients, ClientTick(c)
  PROVE  \E n \in 0 .. Len(buffer[c]) :
           /\ n <= frames[c]
           /\ done' = [done EXCEPT ![c] = @ \o Ran(c, n)]
           /\ buffer' = [buffer EXCEPT ![c] = SubSeq(@, n + 1, Len(@))]
           /\ frames' = [frames EXCEPT ![c] = @ - n]
<1> DEFINE n == Ticks(frames[c])
<1>1. frames[c] \in Nat /\ frames[c] <= Len(buffer[c]) /\ Len(buffer[c]) \in Nat
  BY DEF IInv, ClientOK
<1>2. n \in 0 .. frames[c]
  BY <1>1, TicksWithin
<1>3. n \in 0 .. Len(buffer[c]) /\ n <= frames[c]
  BY <1>1, <1>2
<1>4. /\ done' = [done EXCEPT ![c] = @ \o Ran(c, n)]
      /\ buffer' = [buffer EXCEPT ![c] = SubSeq(@, n + 1, Len(@))]
      /\ frames' = [frames EXCEPT ![c] = @ - n]
  BY DEF ClientTick, Ran
<1> HIDE DEF n
<1> QED BY <1>3, <1>4

\* Whatever the ring has kept, each player is moved by its own buttons.
LEMMA RanOwn ==
  ASSUME IInv, NEW c \in Clients, NEW n \in 0 .. Len(buffer[c])
  PROVE  /\ Ran(c, n) \in Seq(UNION {[S -> Buttons] : S \in SUBSET Players})
         /\ Len(Ran(c, n)) = n
         /\ \A i \in 1 .. n : DOMAIN Ran(c, n)[i] = roster[c]
         /\ \A i \in 1 .. n : \A p \in roster[c] : Ran(c, n)[i][p] \in Own(p)
<1>1. /\ roster[c] \in SUBSET Players /\ Len(buffer[c]) \in Nat
      /\ \A i \in 1 .. Len(buffer[c]) : IsFrame(roster[c], buffer[c][i])
  BY DEF IInv, ClientOK
<1>2. ASSUME NEW i \in 1 .. n
      PROVE  IsFrame(roster[c], Cell(c, i))
  <2>1. i \in 1 .. Len(buffer[c])
    BY <1>1
  <2>2. PICK k \in 1 .. Len(buffer[c]) : Cell(c, i) = buffer[c][k]
    BY <1>1, <2>1, CellThere
  <2> QED BY <1>1, <2>2
<1>3. ASSUME NEW i \in 1 .. n
      PROVE  /\ Decode(roster[c], Cell(c, i)) \in [roster[c] -> Buttons]
             /\ \A p \in roster[c] : Decode(roster[c], Cell(c, i))[p] \in Own(p)
  <2>1. \A p \in roster[c] : Decode(roster[c], Cell(c, i))[p] \in Own(p)
    BY <1>2 DEF Decode, IsFrame
  <2>2. \A p \in roster[c] : Decode(roster[c], Cell(c, i))[p] \in Buttons
    BY <1>1, <2>1, OwnButton
  <2> QED BY <2>1, <2>2 DEF Decode
<1>4. \A i \in 1 .. n : Ran(c, n)[i] = Decode(roster[c], Cell(c, i))
  BY DEF Ran
<1>5. \A i \in 1 .. n : Ran(c, n)[i] \in UNION {[S -> Buttons] : S \in SUBSET Players}
  BY <1>1, <1>3, <1>4
<1>6. Ran(c, n) \in Seq(UNION {[S -> Buttons] : S \in SUBSET Players}) /\ Len(Ran(c, n)) = n
  <2> DEFINE T == UNION {[S -> Buttons] : S \in SUBSET Players}
             e(i) == Decode(roster[c], Cell(c, i))
  <2>1. \A i \in 1 .. n : e(i) \in T
    BY <1>4, <1>5
  <2>2. Ran(c, n) = [i \in 1 .. n |-> e(i)]
    BY DEF Ran
  <2>3. n \in Nat
    BY <1>1
  <2> HIDE DEF T, e
  <2>4. [i \in 1 .. n |-> e(i)] \in Seq(T)
    BY <2>1, <2>3
  <2>5. Len([i \in 1 .. n |-> e(i)]) = n
    BY <2>3
  <2> QED BY <2>2, <2>4, <2>5 DEF T
<1>7. \A i \in 1 .. n : DOMAIN Ran(c, n)[i] = roster[c]
  BY <1>4 DEF Decode
<1> QED BY <1>3, <1>4, <1>6, <1>7

LEMMA ClientTickOK ==
  ASSUME IInv, NEW c \in Clients, ClientTick(c)
  PROVE  IInv'
<1>1. PICK n \in 0 .. Len(buffer[c]) :
           /\ n <= frames[c]
           /\ done' = [done EXCEPT ![c] = @ \o Ran(c, n)]
           /\ buffer' = [buffer EXCEPT ![c] = SubSeq(@, n + 1, Len(@))]
           /\ frames' = [frames EXCEPT ![c] = @ - n]
  BY ClientTickParts
<1>2. UNCHANGED <<sstate, playing, held, online, pressed, cstate, ticking, roster, toClient>>
  BY DEF ClientTick, serverVars
<1>3. ToServerOK'
  <2> DEFINE d == Encode(Mine(c), pressed)
  <2>1. toServer' = toServer \/ toServer' = [toServer EXCEPT ![c] = Append(@, Input(d))]
    BY DEF ClientTick
  <2>2. d \in Frames /\ IsFrame(Mine(c), d)
    <3>1. \A p \in Mine(c) : d[Rank(Mine(c), p)] = pressed[p] /\ p \in Players
      BY EncodeAt, MinePlayers
    <3>2. d \in Frames
      BY EncodeType, MinePlayers DEF IInv, ServerOK
    <3> QED BY <3>1, <3>2 DEF IInv, ServerOK, IsFrame
  <2> HIDE DEF d
  <2>3. CASE toServer' = toServer
    BY <2>3, ToServerSame
  <2>4. CASE toServer' = [toServer EXCEPT ![c] = Append(@, Input(d))]
    <3>1. Input(d) \in ToServerMessage /\ Input(d).data = d
      BY <2>2, MessageCases DEF ToServerMessage
    <3>2. /\ toServer \in [Clients -> Seq(ToServerMessage)]
          /\ \A b \in Clients : \A i \in 1 .. Len(toServer[b]) :
               toServer[b][i].type = "INPUT" => IsFrame(Mine(b), toServer[b][i].data)
      BY DEF IInv, ToServerOK
    <3>3. toServer' \in [Clients -> Seq(ToServerMessage)]
      BY <2>4, <3>1, <3>2
    <3>4. \A b \in Clients : b # c => toServer'[b] = toServer[b]
      BY <2>4, <3>2
    <3>5. \A i \in 1 .. Len(toServer'[c]) :
               \/ i \in 1 .. Len(toServer[c]) /\ toServer'[c][i] = toServer[c][i]
               \/ toServer'[c][i] = Input(d)
      <4>1. toServer'[c] = Append(toServer[c], Input(d)) /\ toServer[c] \in Seq(ToServerMessage)
        BY <2>4, <3>2
      <4> QED BY <3>1, <4>1
    <3>6. \A b \in Clients : \A i \in 1 .. Len(toServer'[b]) :
             toServer'[b][i].type = "INPUT" => IsFrame(Mine(b), toServer'[b][i].data)
      <4> TAKE b \in Clients
      <4>1. CASE b = c
        BY <2>2, <3>1, <3>2, <3>5, <4>1
      <4>2. CASE b # c
        BY <3>2, <3>4, <4>2
      <4> QED BY <4>1, <4>2
    <3> QED BY <3>3, <3>6 DEF ToServerOK
  <2> QED BY <2>1, <2>3, <2>4
<1>4. ClientOK'
  <2>1. /\ buffer \in [Clients -> Seq(Frames)] /\ frames \in [Clients -> Nat]
        /\ \A b \in Clients :
             /\ frames[b] <= Len(buffer[b])
             /\ cstate[b] # "PLAYING" => buffer[b] = <<>>
             /\ \A i \in 1 .. Len(buffer[b]) : IsFrame(roster[b], buffer[b][i])
    BY DEF IInv, ClientOK
  <2> DEFINE u == SubSeq(buffer[c], n + 1, Len(buffer[c]))
  <2>2. /\ u \in Seq(Frames) /\ Len(u) = Len(buffer[c]) - n
        /\ \A i \in 1 .. Len(u) : u[i] = buffer[c][n + i] /\ n + i \in 1 .. Len(buffer[c])
    <3>1. buffer[c] \in Seq(Frames)
      BY <2>1
    <3> QED BY <3>1
  <2>3. buffer' = [buffer EXCEPT ![c] = u]
    BY <1>1
  <2> HIDE DEF u
  <2>4. buffer' \in [Clients -> Seq(Frames)] /\ frames' \in [Clients -> Nat]
    BY <1>1, <2>1, <2>2, <2>3
  <2>5. cstate[c] = "PLAYING"
    BY DEF ClientTick
  <2>6. buffer'[c] = u /\ frames'[c] = frames[c] - n
    BY <1>1, <2>1, <2>3
  <2>7. \A b \in Clients : b # c => buffer'[b] = buffer[b] /\ frames'[b] = frames[b]
    BY <1>1, <2>1, <2>3
  <2>8. ASSUME NEW b \in Clients
        PROVE  /\ frames'[b] <= Len(buffer'[b])
               /\ cstate[b] # "PLAYING" => buffer'[b] = <<>>
               /\ \A i \in 1 .. Len(buffer'[b]) : IsFrame(roster[b], buffer'[b][i])
    <3>1. CASE b = c
      <4>1. frames[c] \in Nat /\ Len(buffer[c]) \in Nat /\ frames[c] <= Len(buffer[c])
        BY <2>1
      <4>2. frames'[c] <= Len(buffer'[c])
        BY <2>2, <2>6, <4>1
      <4> QED BY <2>1, <2>2, <2>5, <2>6, <3>1, <4>2
    <3>2. CASE b # c
      BY <2>1, <2>7, <3>2
    <3> QED BY <3>1, <3>2
  <2> QED BY <1>2, <2>4, <2>8 DEF IInv, ClientOK
<1>5. DoneOK'
  <2> DEFINE T == UNION {[S -> Buttons] : S \in SUBSET Players}
             x == Ran(c, n)
  <2>1. /\ x \in Seq(T) /\ Len(x) = n
        /\ \A i \in 1 .. n : \A p \in DOMAIN x[i] : x[i][p] \in Own(p)
    <3>1. \A i \in 1 .. n : DOMAIN x[i] = roster[c]
      BY RanOwn
    <3>2. \A i \in 1 .. n : \A p \in roster[c] : x[i][p] \in Own(p)
      BY RanOwn
    <3> HIDE DEF x
    <3>3. \A i \in 1 .. n : \A p \in DOMAIN x[i] : x[i][p] \in Own(p)
      BY <3>1, <3>2
    <3> QED BY <3>3, RanOwn DEF x
  <2> HIDE DEF T, x
  <2>2. /\ done \in [Clients -> Seq(T)]
        /\ \A b \in Clients : \A i \in 1 .. Len(done[b]) : \A p \in DOMAIN done[b][i] :
             done[b][i][p] \in Own(p)
    BY DEF IInv, DoneOK, T
  <2>3. done' = [done EXCEPT ![c] = done[c] \o x]
    BY <1>1 DEF x
  <2>4. done' \in [Clients -> Seq(T)]
    BY <2>1, <2>2, <2>3
  <2>5. ASSUME NEW b \in Clients, NEW i \in 1 .. Len(done'[b]), NEW p \in DOMAIN done'[b][i]
        PROVE  done'[b][i][p] \in Own(p)
    <3>1. CASE b # c
      <4>1. done'[b] = done[b]
        BY <2>2, <2>3, <3>1
      <4> QED BY <2>2, <4>1
    <3>2. CASE b = c
      <4>1. done'[b] = done[c] \o x /\ done[c] \in Seq(T)
        BY <2>2, <2>3, <3>2
      <4>2. CASE i <= Len(done[c])
        <5>1. done'[b][i] = done[c][i] /\ i \in 1 .. Len(done[c])
          BY <2>1, <4>1, <4>2
        <5> QED BY <2>2, <5>1
      <4>3. CASE i > Len(done[c])
        <5>1. done'[b][i] = x[i - Len(done[c])] /\ i - Len(done[c]) \in 1 .. n
          BY <2>1, <4>1, <4>3
        <5> QED BY <2>1, <5>1
      <4> QED BY <4>1, <4>2, <4>3
    <3> QED BY <3>1, <3>2
  <2> QED BY <2>4, <2>5 DEF DoneOK, T
<1> QED BY <1>2, <1>3, <1>4, <1>5, ServerSame, ToClientSame DEF IInv

LEMMA StepOK ==
  ASSUME IInv, [Next]_vars
  PROVE  IInv'
<1>1. CASE ServerTick
  BY <1>1, ServerTickOK
<1>2. CASE Pause \/ Resume \/ End
  BY <1>2, PauseResumeEndOK
<1>3. ASSUME NEW p \in Players, Press(p) PROVE IInv'
  BY <1>3, PressOK
<1>4. ASSUME NEW c \in Clients, ServerPoll(c) \/ Drop(c) \/ ClientPoll(c) \/ ClientTick(c)
      PROVE  IInv'
  BY <1>4, HandleInputOK, HandleOverflowOK, DropOK, ClientPollOK, ClientTickOK DEF ServerPoll
<1>5. CASE UNCHANGED vars
  BY <1>5, ServerSame, ClientSame, ToServerSame, ToClientSame, DoneSame
     DEF IInv, vars, serverVars, clientVars
<1> QED BY <1>1, <1>2, <1>3, <1>4, <1>5 DEF Next

LEMMA Invariance == Spec => []IInv
<1> QED BY InitOK, StepOK, PTL DEF Spec

\* Whoever plays, leaves, pauses or falls behind: the variables keep their types,
\* and a client never counts more frames than its buffer has.
THEOREM TypeCorrect == Spec => []TypeOK
<1>1. IInv => TypeOK
  BY DEF IInv, ServerOK, ClientOK, TypeOK
<1> QED BY <1>1, Invariance, PTL

\* joynet_handle_server_game_message and the tick of the game decode frames with
\* the roster they were encoded with, though a frame does not say which: no
\* player is ever moved by the buttons of another.
THEOREM OwnButtons == Spec => []OwnInput
<1>1. IInv => OwnInput
  BY DEF IInv, ServerOK, DoneOK, OwnInput, Own
<1> QED BY <1>1, Invariance, PTL

-----------------------------------------------------------------------------
(* Frames under way.                                                        *)

LEMMA BehindNat ==
  ASSUME NEW s \in Seq(ToClientMessage), NEW i \in Nat
  PROVE  /\ IsFiniteSet(Waiting(s, i)) /\ Behind(s, i) \in Nat
         /\ Behind(s, i) = Cardinality(Waiting(s, i))
<1>1. i + 1 \in Int /\ Len(s) \in Int
  OBVIOUS
<1>2. IsFiniteSet(i + 1 .. Len(s))
  BY <1>1, FS_Interval
<1>3. Waiting(s, i) \subseteq i + 1 .. Len(s)
  BY DEF Waiting
<1>4. IsFiniteSet(Waiting(s, i)) /\ Cardinality(Waiting(s, i)) \in Nat
  BY <1>2, <1>3, FS_Subset, FS_CardinalityType
<1> QED BY <1>4 DEF Behind

LEMMA BehindSame ==
  ASSUME NEW s \in Seq(ToClientMessage), NEW u \in Seq(ToClientMessage), NEW i \in Nat,
         \A j \in 1 .. Len(u) : u[j].type # "INPUT"
  PROVE  Behind(s \o u, i) = Behind(s, i)
<1> DEFINE w == s \o u
<1>1. /\ Len(w) = Len(s) + Len(u) /\ Len(s) \in Nat /\ Len(u) \in Nat
      /\ \A j \in 1 .. Len(w) : \/ j \in 1 .. Len(s) /\ w[j] = s[j]
                                \/ j \notin 1 .. Len(s) /\ j - Len(s) \in 1 .. Len(u) /\ w[j] = u[j - Len(s)]
  OBVIOUS
<1> HIDE DEF w
<1>2. \A j \in 1 .. Len(w) : w[j].type = "INPUT" <=> j \in 1 .. Len(s) /\ s[j].type = "INPUT"
  BY <1>1
<1>3. \A j : j \in i + 1 .. Len(w) <=> j \in 1 .. Len(w) /\ j \in i + 1 .. Len(w)
  BY <1>1
<1>4. \A j : j \in i + 1 .. Len(s) <=> j \in 1 .. Len(w) /\ j \in 1 .. Len(s) /\ j \in i + 1 .. Len(w)
  BY <1>1
<1>5. Waiting(w, i) = Waiting(s, i)
  BY <1>2, <1>3, <1>4 DEF Waiting
<1> QED BY <1>5 DEF Behind, w

LEMMA BehindInput ==
  ASSUME NEW s \in Seq(ToClientMessage), NEW d \in Frames
  PROVE  /\ \A i \in 0 .. Len(s) : Behind(s \o <<Input(d)>>, i) = Behind(s, i) + 1
         /\ Behind(s \o <<Input(d)>>, Len(s) + 1) = 0
<1> DEFINE w == s \o <<Input(d)>>
           n == Len(s)
<1>1. /\ Len(w) = n + 1 /\ n \in Nat /\ w[n + 1].type = "INPUT"
      /\ \A j \in 1 .. n : w[j] = s[j]
  BY MessageCases
<1> HIDE DEF w, n
<1>2. ASSUME NEW i \in 0 .. n PROVE Behind(w, i) = Behind(s, i) + 1
  <2>1. \A j : j \in i + 1 .. n + 1 <=> j \in i + 1 .. n \/ j = n + 1
    BY <1>1
  <2>2. \A j \in i + 1 .. n : w[j] = s[j]
    BY <1>1
  <2>3. Waiting(w, i) = Waiting(s, i) \cup {n + 1}
    BY <1>1, <2>1, <2>2 DEF Waiting, n
  <2>4. n + 1 \notin Waiting(s, i)
    BY <1>1 DEF Waiting, n
  <2>5. IsFiniteSet(Waiting(s, i)) /\ Behind(s, i) = Cardinality(Waiting(s, i))
    BY <1>1, BehindNat
  <2>6. Cardinality(Waiting(w, i)) = Cardinality(Waiting(s, i)) + 1
    BY <2>3, <2>4, <2>5, FS_AddElement
  <2> QED BY <2>5, <2>6 DEF Behind
<1>3. Behind(w, n + 1) = 0
  <2>1. Waiting(w, n + 1) = {}
    BY <1>1 DEF Waiting
  <2> QED BY <2>1, FS_EmptySet DEF Behind
<1> QED BY <1>2, <1>3 DEF w, n

LEMMA BehindLater ==
  ASSUME NEW s \in Seq(ToClientMessage), s # <<>>
  PROVE  /\ \A i \in Nat : Behind(Tail(s), i) = Behind(s, i + 1)
         /\ Behind(s, 0) = IF s[1].type = "INPUT" THEN Behind(s, 1) + 1 ELSE Behind(s, 1)
<1> DEFINE u == Tail(s)
<1>1. /\ Len(s) = Len(u) + 1 /\ Len(u) \in Nat /\ u \in Seq(ToClientMessage)
      /\ \A j \in 1 .. Len(u) : u[j] = s[j + 1]
  OBVIOUS
<1> HIDE DEF u
<1>2. ASSUME NEW i \in Nat PROVE Behind(u, i) = Behind(s, i + 1)
  <2> DEFINE A == Waiting(u, i)
             B == Waiting(s, i + 1)
             f == [j \in A |-> j + 1]
  <2>1. \A j \in A : j \in Int /\ j + 1 \in B
    BY <1>1 DEF Waiting
  <2>2. \A k \in B : k - 1 \in A /\ k = (k - 1) + 1
    BY <1>1 DEF Waiting
  <2>3. f \in [A -> B] /\ (\A j, k \in A : f[j] = f[k] => j = k) /\ \A k \in B : \E j \in A : f[j] = k
    BY <2>1, <2>2
  <2>4. f \in Bijection(A, B)
    <3> HIDE DEF f, A, B
    <3> QED BY <2>3, Fun_IsBij
  <2>5. IsFiniteSet(A)
    BY <1>1, BehindNat
  <2>6. Cardinality(A) = Cardinality(B)
    <3> HIDE DEF f, A, B
    <3> QED BY <2>4, <2>5, FS_Bijection DEF ExistsBijection
  <2> QED BY <2>6 DEF Behind
<1>3. Behind(s, 0) = IF s[1].type = "INPUT" THEN Behind(s, 1) + 1 ELSE Behind(s, 1)
  <2>1. \A j : j \in 0 + 1 .. Len(s) <=> j \in 1 + 1 .. Len(s) \/ j = 1
    BY <1>1
  <2>2. /\ IsFiniteSet(Waiting(s, 1)) /\ Behind(s, 1) = Cardinality(Waiting(s, 1))
        /\ Behind(s, 0) = Cardinality(Waiting(s, 0))
    BY BehindNat
  <2>3. 1 \notin Waiting(s, 1)
    BY DEF Waiting
  <2>4. CASE s[1].type = "INPUT"
    <3>1. Waiting(s, 0) = Waiting(s, 1) \cup {1}
      BY <2>1, <2>4 DEF Waiting
    <3> QED BY <2>2, <2>3, <2>4, <3>1, FS_AddElement
  <2>5. CASE s[1].type # "INPUT"
    <3>1. Waiting(s, 0) = Waiting(s, 1)
      BY <2>1, <2>5 DEF Waiting
    <3> QED BY <2>2, <2>5, <3>1
  <2> QED BY <2>4, <2>5
<1> QED BY <1>2, <1>3 DEF u

-----------------------------------------------------------------------------
(* Lines of ticks.                                                          *)

LEMMA OrderedShorter ==
  ASSUME NEW l, NEW m, NEW top, Len(l) \in Nat, Len(m) \in 0 .. Len(l), Ordered(l, top),
         \A i \in 1 .. Len(m) : m[i] = l[i] \/ Blank(m[i])
  PROVE  Ordered(m, top)
<1>1. PICK at \in [1 .. Len(l) -> 1 .. top] :
        /\ \A i, j \in DOMAIN at : i < j => at[i] < at[j]
        /\ \A i \in DOMAIN at : Same(l[i], issued[at[i]]) \/ Blank(l[i])
  BY DEF Ordered
<1> DEFINE new == [i \in 1 .. Len(m) |-> at[i]]
<1>2. \A i \in 1 .. Len(m) : i \in 1 .. Len(l)
  OBVIOUS
<1>3. new \in [1 .. Len(m) -> 1 .. top]
  BY <1>1, <1>2
<1>4. \A i, j \in 1 .. Len(m) : i < j => new[i] < new[j]
  BY <1>1, <1>2
<1>5. \A i \in 1 .. Len(m) : Same(m[i], issued[new[i]]) \/ Blank(m[i])
  BY <1>1, <1>2
<1>6. DOMAIN new = 1 .. Len(m)
  OBVIOUS
<1> HIDE DEF new
<1> QED BY <1>3, <1>4, <1>5, <1>6 DEF Ordered

LEMMA OrderedWider ==
  ASSUME NEW l, NEW top \in Nat, NEW wide \in Nat, top <= wide, Ordered(l, top),
         \A k \in 1 .. top : issued'[k] = issued[k]
  PROVE  \E at \in [1 .. Len(l) -> 1 .. wide] :
           /\ \A i, j \in DOMAIN at : i < j => at[i] < at[j]
           /\ \A i \in DOMAIN at : Same(l[i], issued'[at[i]]) \/ Blank(l[i])
<1>1. PICK at \in [1 .. Len(l) -> 1 .. top] :
        /\ \A i, j \in DOMAIN at : i < j => at[i] < at[j]
        /\ \A i \in DOMAIN at : Same(l[i], issued[at[i]]) \/ Blank(l[i])
  BY DEF Ordered
<1>2. at \in [1 .. Len(l) -> 1 .. wide]
  <2>1. \A k \in 1 .. top : k \in 1 .. wide
    OBVIOUS
  <2> QED BY <2>1
<1>3. \A i \in DOMAIN at : issued'[at[i]] = issued[at[i]]
  OBVIOUS
<1> QED BY <1>1, <1>2, <1>3

LEMMA OrderedLonger ==
  ASSUME NEW l, NEW m, NEW top \in Nat, Len(l) \in Nat, Len(m) = Len(l) + 1, Ordered(l, top),
         \A i \in 1 .. Len(l) : m[i] = l[i], Same(m[Len(m)], issued[top + 1])
  PROVE  Ordered(m, top + 1)
<1>1. PICK at \in [1 .. Len(l) -> 1 .. top] :
        /\ \A i, j \in DOMAIN at : i < j => at[i] < at[j]
        /\ \A i \in DOMAIN at : Same(l[i], issued[at[i]]) \/ Blank(l[i])
  BY DEF Ordered
<1> DEFINE n == Len(l)
           new == [i \in 1 .. n + 1 |-> IF i <= n THEN at[i] ELSE top + 1]
<1>2. \A i \in 1 .. n : i \in 1 .. n + 1 /\ new[i] = at[i] /\ at[i] \in 1 .. top
  BY <1>1
<1>3. new[n + 1] = top + 1 /\ n + 1 \in 1 .. n + 1 /\ DOMAIN new = 1 .. n + 1
  OBVIOUS
<1>4. \A i \in 1 .. n + 1 : i \in 1 .. n \/ i = n + 1
  OBVIOUS
<1>5. new \in [1 .. n + 1 -> 1 .. top + 1]
  <2>1. \A i \in 1 .. n + 1 : (IF i <= n THEN at[i] ELSE top + 1) \in 1 .. top + 1
    BY <1>1
  <2> QED BY <2>1
<1> HIDE DEF new
<1>6. \A i, j \in 1 .. n + 1 : i < j => new[i] < new[j]
  <2> SUFFICES ASSUME NEW i \in 1 .. n + 1, NEW j \in 1 .. n + 1, i < j
               PROVE  new[i] < new[j]
    OBVIOUS
  <2>1. i \in 1 .. n
    OBVIOUS
  <2>2. CASE j \in 1 .. n
    BY <1>1, <1>2, <2>1, <2>2
  <2>3. CASE j = n + 1
    BY <1>2, <1>3, <2>1, <2>3
  <2> QED BY <1>4, <2>2, <2>3
<1>7. \A i \in 1 .. n + 1 : Same(m[i], issued[new[i]]) \/ Blank(m[i])
  <2> TAKE i \in 1 .. n + 1
  <2>1. CASE i \in 1 .. n
    BY <1>1, <1>2, <2>1
  <2>2. CASE i = n + 1
    BY <1>3, <2>2
  <2> QED BY <1>4, <2>1, <2>2
<1> QED BY <1>3, <1>5, <1>6, <1>7 DEF Ordered

LEMMA LineShape ==
  ASSUME NEW x, NEW r, NEW b, Len(x) \in Nat, Len(b) \in Nat
  PROVE  /\ Len(LineOf(x, r, b)) = Len(x) + Len(b)
         /\ \A i \in 1 .. Len(x) : LineOf(x, r, b)[i] = x[i]
         /\ \A i \in 1 .. Len(b) : LineOf(x, r, b)[Len(x) + i] = Decode(r, b[i])
<1> DEFINE n == Len(x)
           k == Len(b)
           e(i) == IF i <= n THEN x[i] ELSE Decode(r, b[i - n])
           m == LineOf(x, r, b)
<1>1. m = [i \in 1 .. n + k |-> e(i)]
  BY DEF LineOf
<1>2. n \in Nat /\ k \in Nat
  OBVIOUS
<1>3. /\ \A i \in 1 .. n : e(i) = x[i]
      /\ \A i \in 1 .. k : e(n + i) = Decode(r, b[i])
  <2> HIDE DEF n, k, m
  <2>1. \A i \in 1 .. k : ~(n + i <= n) /\ (n + i) - n = i
    BY <1>2
  <2> QED BY <2>1
<1> HIDE DEF n, k, e, m
<1>4. Len(m) = n + k
  BY <1>1, <1>2
<1>5. \A i \in 1 .. n : i \in 1 .. n + k
  BY <1>2
<1>6. \A i \in 1 .. k : n + i \in 1 .. n + k
  BY <1>2
<1>7. \A i \in 1 .. n + k : m[i] = e(i)
  BY <1>1
<1>8. \A i \in 1 .. n : m[i] = x[i]
  BY <1>3, <1>5, <1>7
<1>9. \A i \in 1 .. k : m[n + i] = Decode(r, b[i])
  BY <1>3, <1>6, <1>7
<1> QED BY <1>4, <1>8, <1>9 DEF n, k, m

LEMMA LineLength ==
  ASSUME IInv, NEW c \in Clients
  PROVE  /\ Len(done[c]) \in Nat /\ Len(buffer[c]) \in Nat
         /\ Len(Line(c)) = Len(done[c]) + Len(buffer[c])
         /\ \A i \in 1 .. Len(done[c]) : Line(c)[i] = done[c][i]
         /\ \A i \in 1 .. Len(buffer[c]) :
              Line(c)[Len(done[c]) + i] = Decode(roster[c], buffer[c][i])
<1> DEFINE x == done[c]
           r == roster[c]
           b == buffer[c]
<1>1. Len(x) \in Nat /\ Len(b) \in Nat
  BY DEF IInv, ClientOK, DoneOK
<1> HIDE DEF x, r, b
<1>2. /\ Len(LineOf(x, r, b)) = Len(x) + Len(b)
      /\ \A i \in 1 .. Len(x) : LineOf(x, r, b)[i] = x[i]
      /\ \A i \in 1 .. Len(b) : LineOf(x, r, b)[Len(x) + i] = Decode(r, b[i])
  BY ONLY <1>1, LineShape
<1> QED BY <1>1, <1>2 DEF Line, x, r, b

LEMMA ToldWithin ==
  ASSUME IInv, OInv, NEW c \in Clients
  PROVE  /\ Len(issued) \in Nat /\ Told(c) \in 0 .. Len(issued)
         /\ toClient[c] \in Seq(ToClientMessage) /\ Behind(toClient[c], 0) \in Nat
<1>1. Len(issued) \in Nat
  BY DEF OInv, IssuedOK
<1>2. toClient[c] \in Seq(ToClientMessage)
  BY DEF IInv, ToClientOK
<1>3. Behind(toClient[c], 0) \in Nat
  BY <1>2, BehindNat
<1>4. online[c] => Behind(toClient[c], 0) <= Len(issued)
  BY DEF OInv, NewestUnderWay, Newest
<1> QED BY <1>1, <1>2, <1>3, <1>4 DEF Told

\* Where nothing is sent but notes, the frames under way are the same.
LEMMA NotesKeepOrder ==
  ASSUME IInv, OInv, UNCHANGED <<issued, done, roster, buffer>>,
         \A c \in Clients : online'[c] => online[c] /\
           \E u \in Seq(ToClientMessage) : /\ \A i \in 1 .. Len(u) : u[i].type # "INPUT"
                                           /\ toClient'[c] = toClient[c] \o u
  PROVE  OInv'
<1>1. ASSUME NEW c \in Clients, online'[c]
      PROVE  /\ Behind(toClient'[c], 0) = Behind(toClient[c], 0)
             /\ Newest(toClient'[c], roster[c])
  <2> DEFINE s == toClient[c]
             w == toClient'[c]
  <2>1. PICK u \in Seq(ToClientMessage) : /\ \A i \in 1 .. Len(u) : u[i].type # "INPUT"
                                          /\ w = s \o u
    BY <1>1
  <2>2. s \in Seq(ToClientMessage) /\ Newest(s, roster[c])
    BY <1>1, ToldWithin DEF OInv, NewestUnderWay
  <2> HIDE DEF s, w
  <2>3. \A i \in Nat : Behind(w, i) = Behind(s, i)
    BY <2>1, <2>2, BehindSame
  <2>4. ASSUME NEW i \in 1 .. Len(w), w[i].type = "INPUT"
        PROVE  /\ i \in 1 .. Len(s) /\ w[i] = s[i]
               /\ Left(w, roster[c], i) = Left(s, roster[c], i)
    <3>1. i \in 1 .. Len(s) /\ w[i] = s[i]
      <4>1. \/ i \in 1 .. Len(s) /\ w[i] = s[i]
            \/ i - Len(s) \in 1 .. Len(u) /\ w[i] = u[i - Len(s)]
        BY <2>1, <2>2
      <4> QED BY <2>1, <2>4, <4>1
    <3>2. i \in 0 .. Len(s)
      BY <3>1
    <3> QED BY <2>1, <2>2, <3>1, <3>2, Earlier, ZenonT(40)
  <2>5. \A i \in 1 .. Len(w) : w[i].type = "INPUT" =>
          Same(Decode(Left(w, roster[c], i), w[i].data), issued[Len(issued) - Behind(w, i)])
    <3> TAKE i \in 1 .. Len(w)
    <3> HAVE w[i].type = "INPUT"
    <3>1. i \in 1 .. Len(s) /\ w[i] = s[i] /\ Left(w, roster[c], i) = Left(s, roster[c], i)
      BY <2>4
    <3>2. Behind(w, i) = Behind(s, i)
      BY <2>3, <3>1
    <3> QED BY <2>2, <3>1, <3>2 DEF Newest
  <2>6. Behind(w, 0) = Behind(s, 0)
    BY <2>3
  <2> QED BY <2>2, <2>5, <2>6 DEF Newest, s, w
<1>2. ASSUME NEW c \in Clients
      PROVE  /\ online'[c] => Newest(toClient[c], roster[c])'
             /\ Ordered(Line(c), Told(c))'
  <2>1. online'[c] => Newest(toClient[c], roster[c])'
    <3>1. roster' = roster /\ issued' = issued
      OBVIOUS
    <3> QED BY <1>1, <3>1 DEF Newest
  <2>2. Line(c)' = Line(c) /\ issued' = issued
    BY DEF Line
  <2>3. /\ Told(c) \in Nat /\ Len(issued) \in Nat /\ Told(c) <= Len(issued)
        /\ Told(c)' \in Nat /\ Told(c) <= Told(c)'
    <3>1. Told(c) \in 0 .. Len(issued) /\ Len(issued) \in Nat
      BY ToldWithin
    <3>2. Told(c)' = IF online'[c] THEN Len(issued) - Behind(toClient[c], 0) ELSE Len(issued)
      BY <1>1, <2>2 DEF Told
    <3>3. online'[c] => Told(c)' = Told(c)
      BY <3>2 DEF Told
    <3> QED BY <3>1, <3>2, <3>3
  <2>4. Ordered(Line(c), Told(c))
    BY DEF OInv, LinesInOrder
  <2>5. \E at \in [1 .. Len(Line(c)) -> 1 .. Told(c)'] :
           /\ \A i, j \in DOMAIN at : i < j => at[i] < at[j]
           /\ \A i \in DOMAIN at : Same(Line(c)[i], issued'[at[i]]) \/ Blank(Line(c)[i])
    BY <2>2, <2>3, <2>4, OrderedWider
  <2>6. Ordered(Line(c), Told(c))'
    BY <2>2, <2>5 DEF Ordered, Same, Blank
  <2> QED BY <2>1, <2>6
<1>3. IssuedOK'
  BY DEF OInv, IssuedOK
<1> QED BY <1>2, <1>3 DEF OInv, NewestUnderWay, LinesInOrder

LEMMA NotesSteps ==
  ASSUME IInv, OInv,
         \/ Pause \/ Resume \/ End
         \/ \E p \in Players : Press(p)
         \/ \E c \in Clients : ServerPoll(c) \/ Drop(c)
         \/ UNCHANGED vars
  PROVE  OInv'
<1> DEFINE Sent(m, s) == \E u \in Seq(ToClientMessage) :
             (\A i \in 1 .. Len(u) : u[i].type # "INPUT") /\ m = s \o u
           Noted(c) == online'[c] => online[c] /\ Sent(toClient'[c], toClient[c])
<1>1. \A c \in Clients : toClient[c] \in Seq(ToClientMessage)
  BY DEF IInv, ToClientOK
<1>2. \A s \in Seq(ToClientMessage) : Sent(s, s)
  <2> TAKE s \in Seq(ToClientMessage)
  <2>1. s = s \o <<>> /\ <<>> \in Seq(ToClientMessage) /\ \A i \in 1 .. Len(<<>>) : <<>>[i].type # "INPUT"
    OBVIOUS
  <2> QED BY <2>1
<1>3. \A t \in Turning : \A s : Sent(s \o <<Note(t)>>, s)
  <2> TAKE t \in Turning
  <2>1. Note(t) \in ToClientMessage /\ Note(t).type # "INPUT"
    BY MessageCases DEF ToClientMessage, Turning
  <2>2. <<Note(t)>> \in Seq(ToClientMessage) /\ \A i \in 1 .. Len(<<Note(t)>>) : <<Note(t)>>[i].type # "INPUT"
    BY <2>1
  <2> QED BY <2>2
<1>4. \A S \in SUBSET Players : /\ Removals(S) \in Seq(ToClientMessage)
                                /\ \A i \in 1 .. Len(Removals(S)) : Removals(S)[i].type # "INPUT"
  BY RemovalsAre, MessageCases
<1>5. \A S \in SUBSET Players : \A s \in Seq(ToClientMessage) :
        Sent(s \o Removals(S), s) /\ Sent(s \o Removals(S) \o <<Note("END")>>, s)
  <2> TAKE S \in SUBSET Players
  <2> TAKE s \in Seq(ToClientMessage)
  <2> DEFINE u == Removals(S)
             e == <<Note("END")>>
  <2>1. u \in Seq(ToClientMessage) /\ \A i \in 1 .. Len(u) : u[i].type # "INPUT"
    BY <1>4
  <2>2. Note("END") \in ToClientMessage /\ Note("END").type # "INPUT"
    BY MessageCases DEF ToClientMessage, Turning
  <2>3. e \in Seq(ToClientMessage) /\ Len(e) = 1 /\ e[1] = Note("END")
    BY <2>2
  <2> HIDE DEF u, e
  <2>4. u \o e \in Seq(ToClientMessage) /\ \A i \in 1 .. Len(u \o e) : (u \o e)[i].type # "INPUT"
    <3>1. u \o e \in Seq(ToClientMessage)
      BY <2>1, <2>3
    <3>2. \A i \in 1 .. Len(u \o e) : (u \o e)[i] \in {u[k] : k \in 1 .. Len(u)} \cup {Note("END")}
      BY <2>1, <2>2, OneMore DEF e
    <3> QED BY <2>1, <2>2, <3>1, <3>2
  <2>5. (s \o u) \o e = s \o (u \o e)
    BY <2>1, <2>3
  <2> QED BY <2>1, <2>4, <2>5 DEF u, e
<1>6. /\ UNCHANGED <<issued, done, roster, buffer>>
      /\ \A c \in Clients : Noted(c)
  <2>1. CASE Pause \/ Resume \/ End
    <3>1. PICK t \in Turning : Broadcast(<<Note(t)>>)
      <4>1. \E t \in {"PAUSE", "RESUME", "END"} : Broadcast(<<Note(t)>>)
        BY <2>1 DEF Pause, Resume, End, Turn
      <4> QED BY <4>1 DEF Turning
    <3>2. UNCHANGED <<online, issued, done, roster, buffer>>
      BY <2>1 DEF Pause, Resume, End, Turn, clientVars
    <3>3. \A c \in Clients : online[c] => toClient'[c] = toClient[c] \o <<Note(t)>>
      BY <3>1 DEF Broadcast
    <3> HIDE DEF Sent
    <3> QED BY <1>3, <3>2, <3>3
  <2>2. CASE \/ \E p \in Players : Press(p)
             \/ \E c \in Clients : HandleInput(c)
             \/ UNCHANGED vars
    <3>1. UNCHANGED <<online, toClient, issued, done, roster, buffer>>
      BY <2>2 DEF Press, HandleInput, vars, clientVars
    <3> HIDE DEF Sent
    <3> QED BY <1>1, <1>2, <3>1
  <2>3. ASSUME NEW c \in Clients, HandleOverflow(c)
        PROVE  /\ UNCHANGED <<issued, done, roster, buffer>>
               /\ \A d \in Clients : Noted(d)
    <3> DEFINE S == playing \cap Mine(c)
    <3>1. Broadcast(Removals(S)) /\ UNCHANGED <<online, issued, done, roster, buffer>>
      BY <2>3 DEF HandleOverflow, clientVars
    <3>2. S \in SUBSET Players
      BY MinePlayers
    <3> HIDE DEF S, Sent
    <3>3. \A d \in Clients : online[d] => toClient'[d] = toClient[d] \o Removals(S)
      BY <3>1 DEF Broadcast
    <3> QED BY <1>1, <1>5, <3>1, <3>2, <3>3
  <2>4. ASSUME NEW c \in Clients, Drop(c)
        PROVE  /\ UNCHANGED <<issued, done, roster, buffer>>
               /\ \A d \in Clients : Noted(d)
    <3> DEFINE S == playing \cap Mine(c)
               ends == playing \subseteq S /\ sstate \in {"PLAYING", "PAUSED"}
    <3>1. /\ online' = [online EXCEPT ![c] = FALSE]
          /\ toClient' = [d \in Clients |->
               IF d = c \/ ~online[d] THEN toClient[d]
               ELSE toClient[d] \o Removals(S) \o (IF ends THEN <<Note("END")>> ELSE <<>>)]
          /\ UNCHANGED <<issued, done, roster, buffer>>
      BY <2>4 DEF Drop, clientVars
    <3>2. S \in SUBSET Players
      BY MinePlayers
    <3> HIDE DEF S, ends
    <3>3. ASSUME NEW d \in Clients, d # c, online[d]
          PROVE  Sent(toClient'[d], toClient[d])
      <4>1. CASE ends
        <5>1. toClient'[d] = toClient[d] \o Removals(S) \o <<Note("END")>>
          BY <3>1, <3>3, <4>1
        <5> HIDE DEF Sent
        <5> QED BY <1>1, <1>5, <3>2, <5>1
      <4>2. CASE ~ends
        <5>1. toClient'[d] = toClient[d] \o Removals(S) \o <<>>
          BY <3>1, <3>3, <4>2
        <5>2. toClient[d] \o Removals(S) \in Seq(ToClientMessage)
          BY <1>1, <1>4, <3>2
        <5>3. toClient'[d] = toClient[d] \o Removals(S)
          BY <5>1, <5>2
        <5> HIDE DEF Sent
        <5> QED BY <1>1, <1>5, <3>2, <5>3
      <4> QED BY <4>1, <4>2
    <3>4. \A d \in Clients : online'[d] => d # c /\ online[d]
      BY <3>1 DEF IInv, ClientOK
    <3> HIDE DEF Sent
    <3> QED BY <3>1, <3>3, <3>4
  <2> HIDE DEF Noted
  <2> QED BY <2>1, <2>2, <2>3, <2>4 DEF ServerPoll
<1> QED BY <1>6, NotesKeepOrder

LEMMA ServerTickOrder ==
  ASSUME IInv, OInv, ServerTick
  PROVE  OInv'
<1> DEFINE d == Encode(playing, held)
           x == [p \in playing |-> held[p]]
           n == Len(issued)
<1>1. /\ Broadcast(<<Input(d)>>) /\ issued' = Append(issued, x)
      /\ UNCHANGED <<sstate, playing, held, online, cstate, roster, buffer, done>>
  BY DEF ServerTick, serverVars, clientVars
<1>2. /\ playing \in SUBSET Players /\ held \in [Players -> Buttons]
      /\ \A c \in Clients : online[c] =>
           /\ toClient[c] \in Seq(ToClientMessage)
           /\ Left(toClient[c], roster[c], Len(toClient[c])) = playing
           /\ Good(toClient[c], roster[c], cstate[c])
           /\ Runs(toClient[c], cstate[c], Len(toClient[c]))
           /\ Newest(toClient[c], roster[c])
  <2>1. sstate = "PLAYING"
    BY DEF ServerTick
  <2> QED BY <2>1 DEF IInv, ServerOK, ToClientOK, Ends, OInv, NewestUnderWay
<1>3. d \in Frames /\ IsFrame(playing, d) /\ Same(Decode(playing, d), x)
  <2>1. \A p \in playing : d[Rank(playing, p)] = held[p]
    BY <1>2, EncodeAt
  <2>2. d \in Frames
    BY <1>2, EncodeType
  <2>3. IsFrame(playing, d)
    BY <1>2, <2>1 DEF IInv, ServerOK, IsFrame
  <2>4. Same(Decode(playing, d), x)
    BY <2>1 DEF Same, Decode
  <2> QED BY <2>2, <2>3, <2>4
<1>4. /\ issued' \in Seq(UNION {[S -> Buttons] : S \in SUBSET Players})
      /\ Len(issued') = n + 1 /\ n \in Nat /\ issued'[n + 1] = x
      /\ \A k \in 1 .. n : issued'[k] = issued[k]
  <2> DEFINE T == UNION {[S -> Buttons] : S \in SUBSET Players}
  <2>1. x \in T
    BY <1>2
  <2>2. issued \in Seq(T)
    BY DEF OInv, IssuedOK
  <2> HIDE DEF T, x
  <2>3. issued' \in Seq(T) /\ Len(issued') = Len(issued) + 1 /\ issued'[Len(issued) + 1] = x
        /\ Len(issued) \in Nat /\ \A k \in 1 .. Len(issued) : issued'[k] = issued[k]
    BY <1>1, <2>1, <2>2
  <2> QED BY <2>3 DEF T
<1> HIDE DEF d, x, n
<1>5. ASSUME NEW c \in Clients, online[c]
      PROVE  /\ Behind(toClient'[c], 0) = Behind(toClient[c], 0) + 1
             /\ Newest(toClient[c], roster[c])'
  <2> DEFINE s == toClient[c]
             w == s \o <<Input(d)>>
  <2>1. toClient'[c] = w
    BY <1>1, <1>5 DEF Broadcast
  <2>2. s \in Seq(ToClientMessage) /\ Newest(s, roster[c])
    BY <1>2, <1>5
  <2>3. /\ \A i \in 0 .. Len(s) : Behind(w, i) = Behind(s, i) + 1 /\ Behind(s, i) \in Nat
        /\ Behind(w, Len(s) + 1) = 0
    BY <1>3, <2>2, BehindInput, BehindNat, SMTT(20)
  <2>4. Left(w, roster[c], Len(s) + 1) = playing
    BY <1>2, <1>3, <1>5, SendInput
  <2>5. /\ \A i \in 1 .. Len(w) : \/ i \in 1 .. Len(s) /\ w[i] = s[i]
                                  \/ i = Len(s) + 1 /\ w[i] = Input(d)
        /\ Len(s) \in Nat /\ 0 \in 0 .. Len(s)
    <3>1. /\ Len(w) = Len(s) + 1 /\ Len(s) \in Nat /\ w[Len(s) + 1] = Input(d)
          /\ \A i \in 1 .. Len(s) : w[i] = s[i]
      BY <2>2
    <3> HIDE DEF w
    <3>2. \A i \in 1 .. Len(w) : i \in 1 .. Len(s) \/ i = Len(s) + 1
      BY <3>1
    <3>3. 0 \in 0 .. Len(s)
      BY <3>1
    <3> QED BY <3>1, <3>2, <3>3
  <2>6. ASSUME NEW i \in 1 .. Len(s)
        PROVE  Left(w, roster[c], i) = Left(s, roster[c], i)
    <3>1. i \in 0 .. Len(s) /\ <<Input(d)>> \in Seq(ToClientMessage)
      BY <1>3 DEF ToClientMessage
    <3> QED BY <2>2, <3>1, Earlier
  <2>12. w \in Seq(ToClientMessage)
    BY <1>3, <2>2 DEF ToClientMessage
  <2> HIDE DEF w, s
  <2>7. ASSUME NEW i \in 1 .. Len(w), w[i].type = "INPUT"
        PROVE  Same(Decode(Left(w, roster[c], i), w[i].data), issued'[n + 1 - Behind(w, i)])
    <3>1. CASE i \in 1 .. Len(s) /\ w[i] = s[i]
      <4>1. Same(Decode(Left(s, roster[c], i), s[i].data), issued[n - Behind(s, i)])
        BY <2>2, <2>7, <3>1 DEF Newest, n
      <4>2. i \in 0 .. Len(s)
        BY <3>1
      <4>3. n + 1 - Behind(w, i) = n - Behind(s, i)
        BY <1>4, <2>3, <4>2
      <4>4. n - Behind(s, i) \in 1 .. n
        <5>1. Behind(s, i) < Behind(s, 0)
          <6>1. i \in Waiting(s, 0) /\ i \notin Waiting(s, i) /\ Waiting(s, i) \subseteq Waiting(s, 0)
            BY <2>5, <2>7, <3>1 DEF Waiting
          <6>2. IsFiniteSet(Waiting(s, 0)) /\ IsFiniteSet(Waiting(s, i))
            BY <2>2, <2>5, <4>2, BehindNat
          <6>3. Cardinality(Waiting(s, i)) <= Cardinality(Waiting(s, 0))
                /\ Cardinality(Waiting(s, i)) # Cardinality(Waiting(s, 0))
            BY <6>1, <6>2, FS_Subset
          <6>4. Cardinality(Waiting(s, i)) \in Nat /\ Cardinality(Waiting(s, 0)) \in Nat
            BY <6>2, FS_CardinalityType
          <6> QED BY <6>3, <6>4 DEF Behind
        <5>2. Behind(s, 0) <= n
          BY <2>2 DEF Newest, n
        <5>3. Behind(s, i) \in Nat /\ Behind(s, 0) \in Nat
          BY <2>3, <2>5, <4>2
        <5> QED BY <1>4, <5>1, <5>2, <5>3
      <4> QED BY <1>4, <2>6, <3>1, <4>1, <4>3, <4>4
    <3>2. CASE i = Len(s) + 1 /\ w[i] = Input(d)
      <4>1. n + 1 - Behind(w, i) = n + 1
        BY <1>4, <2>3, <3>2
      <4> QED BY <1>3, <1>4, <2>4, <3>2, <4>1, MessageCases
    <3> QED BY <2>5, <3>1, <3>2
  <2>8. Behind(w, 0) <= Len(issued')
    <3>1. Behind(s, 0) <= n
      BY <2>2 DEF Newest, n
    <3> QED BY <1>4, <2>3, <2>5, <3>1
  <2>9. roster'[c] = roster[c]
    BY <1>1
  <2>10. \A i \in 1 .. Len(w) : w[i].type = "INPUT" =>
           Same(Decode(Left(w, roster[c], i), w[i].data), issued'[Len(issued') - Behind(w, i)])
    <3> TAKE i \in 1 .. Len(w)
    <3> HAVE w[i].type = "INPUT"
    <3>1. Len(issued') = n + 1
      BY <1>4
    <3>2. Same(Decode(Left(w, roster[c], i), w[i].data), issued'[n + 1 - Behind(w, i)])
      BY <2>7
    <3>3. Behind(w, i) \in Nat /\ n \in Nat
      BY <1>4, <2>12, BehindNat
    <3>4. Len(issued') - Behind(w, i) = n + 1 - Behind(w, i)
      BY <3>1, <3>3
    <3> QED BY <3>2, <3>4
  <2>11. Newest(toClient[c], roster[c])'
    BY <2>1, <2>8, <2>9, <2>10 DEF Newest
  <2> QED BY <2>1, <2>3, <2>5, <2>11 DEF s
<1>6. ASSUME NEW c \in Clients
      PROVE  Ordered(Line(c), Told(c))'
  <2>1. Line(c)' = Line(c)
    BY <1>1 DEF Line
  <2>2. Told(c) \in 0 .. n /\ n \in Nat
    BY <1>4, ToldWithin DEF n
  <2>3. Told(c) \in Nat /\ Told(c)' \in Nat /\ Told(c) <= Told(c)'
    <3>1. online'[c] = online[c]
      BY <1>1
    <3>2. CASE online[c]
      <4>1. Told(c)' = (n + 1) - (Behind(toClient[c], 0) + 1)
        BY <1>4, <1>5, <3>1, <3>2 DEF Told
      <4>2. Told(c) = n - Behind(toClient[c], 0)
        BY <3>2 DEF Told, n
      <4>3. Behind(toClient[c], 0) \in Nat
        BY ToldWithin
      <4> QED BY <2>2, <4>1, <4>2, <4>3
    <3>3. CASE ~online[c]
      <4>1. Told(c)' = n + 1
        BY <1>4, <3>1, <3>3 DEF Told
      <4> QED BY <2>2, <4>1
    <3> QED BY <3>2, <3>3
  <2>4. \A k \in 1 .. Told(c) : issued'[k] = issued[k]
    BY <1>4, <2>2
  <2>5. Ordered(Line(c), Told(c))
    BY DEF OInv, LinesInOrder
  <2>6. \E at \in [1 .. Len(Line(c)) -> 1 .. Told(c)'] :
           /\ \A i, j \in DOMAIN at : i < j => at[i] < at[j]
           /\ \A i \in DOMAIN at : Same(Line(c)[i], issued'[at[i]]) \/ Blank(Line(c)[i])
    BY <2>2, <2>3, <2>4, <2>5, OrderedWider
  <2> QED BY <2>1, <2>6 DEF Ordered
<1>7. NewestUnderWay'
  BY <1>1, <1>5 DEF NewestUnderWay
<1> QED BY <1>4, <1>6, <1>7 DEF OInv, IssuedOK, LinesInOrder

LEMMA ReadNewest ==
  ASSUME NEW s \in Seq(ToClientMessage), s # <<>>, NEW r, Newest(s, r), Len(issued) \in Nat
  PROVE  Newest(Tail(s), Left(s, r, 1))
<1> DEFINE u == Tail(s)
           ph == "PLAYING"
           ph2 == IF Runs(s, ph, 1) THEN "PLAYING" ELSE "OFF"
<1>1. /\ u \in Seq(ToClientMessage) /\ Len(s) = Len(u) + 1 /\ Len(u) \in Nat
      /\ \A j \in 1 .. Len(u) : u[j] = s[j + 1]
  OBVIOUS
<1>2. ph2 = "PLAYING" <=> Runs(s, ph, 1)
  OBVIOUS
<1> HIDE DEF ph, ph2
<1>3. \A i \in 0 .. Len(u) : Left(u, Left(s, r, 1), i) = Left(s, r, i + 1)
  BY <1>2, Later
<1>4. \A i \in Nat : Behind(u, i) = Behind(s, i + 1)
  BY BehindLater
<1>5. Behind(u, 0) <= Len(issued)
  <2>1. Behind(u, 0) = Behind(s, 0 + 1)
    BY <1>4
  <2>2. Behind(s, 0) = IF s[1].type = "INPUT" THEN Behind(s, 1) + 1 ELSE Behind(s, 1)
    BY BehindLater
  <2>3. Behind(s, 0) <= Len(issued)
    BY DEF Newest
  <2>4. Behind(s, 0) \in Nat /\ Behind(s, 1) \in Nat
    BY BehindNat
  <2>5. Behind(s, 1) <= Len(issued)
    BY <2>2, <2>3, <2>4
  <2> QED BY <2>1, <2>5
<1> HIDE DEF u
<1>6. ASSUME NEW i \in 1 .. Len(u), u[i].type = "INPUT"
      PROVE  Same(Decode(Left(u, Left(s, r, 1), i), u[i].data), issued[Len(issued) - Behind(u, i)])
  <2>1. i \in Nat /\ i \in 0 .. Len(u) /\ i + 1 \in 1 .. Len(s)
    BY <1>1
  <2>2. u[i] = s[i + 1] /\ Left(u, Left(s, r, 1), i) = Left(s, r, i + 1) /\ Behind(u, i) = Behind(s, i + 1)
    BY <1>1, <1>3, <1>4, <2>1
  <2>3. Same(Decode(Left(s, r, i + 1), s[i + 1].data), issued[Len(issued) - Behind(s, i + 1)])
    BY <1>6, <2>1, <2>2 DEF Newest
  <2> QED BY <2>2, <2>3
<1> QED BY <1>5, <1>6 DEF Newest, u

\* A client reads a message: what it has run, and will run, grows by the frame
\* that was read, or grows no longer than it was.
LEMMA ReadingOrder ==
  ASSUME IInv, OInv, NEW c \in Clients, NEW t, Receive(c, t),
         \A d \in Clients : roster'[d] = IF d = c THEN Left(toClient[c], roster[c], 1)
                                         ELSE roster[d],
         \A d \in Clients : d # c => buffer'[d] = buffer[d],
         UNCHANGED <<issued, online, done>>,
         NEW m, m = Line(c)',
         \/ /\ Len(m) \in 0 .. Len(Line(c))
            /\ \A i \in 1 .. Len(m) : m[i] = Line(c)[i] \/ Blank(m[i])
         \/ /\ t = "INPUT"
            /\ Len(m) = Len(Line(c)) + 1
            /\ \A i \in 1 .. Len(Line(c)) : m[i] = Line(c)[i]
            /\ m[Len(m)] = Decode(Left(toClient[c], roster[c], 1), toClient[c][1].data)
  PROVE  OInv'
<1> DEFINE s == toClient[c]
           l == Line(c)
           n == Len(issued)
<1>1. /\ s \in Seq(ToClientMessage) /\ s # <<>> /\ s[1].type = t /\ 1 \in 1 .. Len(s)
      /\ Newest(s, roster[c]) /\ online[c]
  <2>1. s \in Seq(ToClientMessage) /\ s # <<>> /\ Head(s).type = t /\ online[c]
    BY DEF IInv, ToClientOK, Receive
  <2>2. Head(s) = s[1] /\ 1 \in 1 .. Len(s)
    BY <2>1
  <2> QED BY <2>1, <2>2 DEF OInv, NewestUnderWay
<1>2. \A d \in Clients : toClient'[d] = IF d = c THEN Tail(s) ELSE toClient[d]
  BY DEF Receive, IInv, ToClientOK
<1>3. /\ n \in Nat /\ Told(c) = n - Behind(s, 0) /\ Ordered(l, Told(c))
      /\ \A d \in Clients : Told(d) \in 0 .. n
      /\ Len(l) \in Nat
  <2>1. Len(l) \in Nat
    BY LineLength
  <2> QED BY <1>1, <2>1, ToldWithin DEF Told, OInv, LinesInOrder
<1>4. /\ Behind(s, 0) \in Nat /\ Behind(s, 1) \in Nat
      /\ Behind(s, 0) = IF t = "INPUT" THEN Behind(s, 1) + 1 ELSE Behind(s, 1)
      /\ Behind(Tail(s), 0) = Behind(s, 1)
  <2>1. \A i \in Nat : Behind(Tail(s), i) = Behind(s, i + 1)
    BY <1>1, BehindLater
  <2>2. Behind(s, 0) = IF s[1].type = "INPUT" THEN Behind(s, 1) + 1 ELSE Behind(s, 1)
    BY <1>1, BehindLater
  <2>3. Behind(Tail(s), 0) = Behind(s, 0 + 1)
    BY <2>1
  <2> QED BY <1>1, <2>2, <2>3, BehindNat
<1>5. Told(c)' = n - Behind(s, 1)
  BY <1>1, <1>2, <1>4 DEF Told
<1> HIDE DEF s, l
<1>6. Ordered(m, Told(c)')
  <2>1. CASE /\ Len(m) \in 0 .. Len(l)
             /\ \A i \in 1 .. Len(m) : m[i] = l[i] \/ Blank(m[i])
    <3>1. Ordered(m, Told(c))
      BY <1>3, <2>1, OrderedShorter
    <3>2. Told(c)' \in Nat /\ Told(c) \in Nat /\ Told(c) <= Told(c)'
      <4>1. n - Behind(s, 1) >= n - Behind(s, 0)
        BY <1>3, <1>4
      <4>2. n - Behind(s, 1) \in Int
        BY <1>3, <1>4
      <4> QED BY <1>3, <1>5, <4>1, <4>2
    <3>3. \A k \in 1 .. Told(c) : issued'[k] = issued[k]
      OBVIOUS
    <3>4. \E at \in [1 .. Len(m) -> 1 .. Told(c)'] :
             /\ \A i, j \in DOMAIN at : i < j => at[i] < at[j]
             /\ \A i \in DOMAIN at : Same(m[i], issued'[at[i]]) \/ Blank(m[i])
      BY <3>1, <3>2, <3>3, OrderedWider
    <3>5. issued' = issued
      OBVIOUS
    <3> QED BY <3>4, <3>5 DEF Ordered
  <2>2. CASE /\ t = "INPUT"
             /\ Len(m) = Len(l) + 1
             /\ \A i \in 1 .. Len(l) : m[i] = l[i]
             /\ m[Len(m)] = Decode(Left(s, roster[c], 1), s[1].data)
    <3>1. Same(Decode(Left(s, roster[c], 1), s[1].data), issued[n - Behind(s, 1)])
      BY <1>1, <2>2 DEF Newest
    <3>2. n - Behind(s, 1) = Told(c) + 1 /\ Told(c) \in Nat
      BY <1>3, <1>4, <2>2
    <3> HIDE DEF n
    <3>3. Same(m[Len(m)], issued[Told(c) + 1])
      BY <2>2, <3>1, <3>2
    <3>4. Ordered(m, Told(c) + 1)
      BY <1>3, <2>2, <3>2, <3>3, OrderedLonger
    <3> QED BY <1>5, <3>2, <3>4
  <2> QED BY <2>1, <2>2 DEF s, l
<1>7. issued' = issued
  OBVIOUS
<1>8. Ordered(Line(c), Told(c))'
  BY <1>6, <1>7 DEF Ordered
<1>9. ASSUME NEW d \in Clients, d # c
      PROVE  /\ Ordered(Line(d), Told(d))'
             /\ online'[d] => Newest(toClient[d], roster[d])'
  <2>1. /\ toClient'[d] = toClient[d] /\ buffer'[d] = buffer[d] /\ roster'[d] = roster[d]
        /\ online'[d] = online[d] /\ done'[d] = done[d]
    BY <1>2, <1>9
  <2>2. Told(d)' = Told(d)
    BY <1>7, <2>1 DEF Told
  <2>3. Line(d)' = Line(d)
    BY <2>1 DEF Line
  <2>4. Ordered(Line(d), Told(d)) /\ (online[d] => Newest(toClient[d], roster[d]))
    BY DEF OInv, LinesInOrder, NewestUnderWay
  <2>5. Ordered(Line(d), Told(d))'
    BY <1>7, <2>2, <2>3, <2>4 DEF Ordered
  <2>6. online'[d] => Newest(toClient[d], roster[d])'
    BY <1>7, <2>1, <2>4 DEF Newest
  <2> QED BY <2>5, <2>6
<1>10. Newest(toClient[c], roster[c])'
  <2>1. Newest(Tail(s), Left(s, roster[c], 1))
    BY <1>1, <1>3, ReadNewest
  <2>2. toClient'[c] = Tail(s) /\ roster'[c] = Left(s, roster[c], 1)
    BY <1>2 DEF s
  <2> QED BY <1>7, <2>1, <2>2 DEF Newest
<1>11. NewestUnderWay' /\ LinesInOrder'
  BY <1>8, <1>9, <1>10 DEF NewestUnderWay, LinesInOrder
<1>12. IssuedOK'
  BY <1>7 DEF OInv, IssuedOK
<1> QED BY <1>11, <1>12 DEF OInv

\* The frame that is read is the last a client will run of what waits.
LEMMA InputLine ==
  ASSUME IInv, NEW c \in Clients, ReceiveInput(c)
  PROVE  LET m == Line(c)' IN
         /\ Len(m) = Len(Line(c)) + 1
         /\ \A i \in 1 .. Len(Line(c)) : m[i] = Line(c)[i]
         /\ m[Len(m)] = Decode(Left(toClient[c], roster[c], 1), toClient[c][1].data)
         /\ Left(toClient[c], roster[c], 1) = roster[c] /\ toClient[c][1].type = "INPUT"
<1> DEFINE s == toClient[c]
           d == s[1].data
           b == buffer[c]
           x == done[c]
<1>1. /\ Receive(c, "INPUT") /\ buffer' = [buffer EXCEPT ![c] = Append(@, Head(s).data)]
      /\ UNCHANGED <<issued, online, done, roster>>
  BY DEF ReceiveInput, serverVars
<1>2. /\ s \in Seq(ToClientMessage) /\ s # <<>> /\ s[1].type = "INPUT" /\ Head(s) = s[1]
      /\ s[1] \in ToClientMessage
      /\ Left(s, roster[c], 1) = roster[c] \ {p \in Players : s[1] = Remove(p)}
  BY <1>1, ReadFirst DEF IInv, ToClientOK, Receive
<1>3. d \in Frames /\ Left(s, roster[c], 1) = roster[c]
  BY <1>2, MessageCases
<1>4. Len(x) \in Nat
  BY DEF IInv, DoneOK
<1>5. b \in Seq(Frames) /\ buffer'[c] = Append(b, d)
  BY <1>1, <1>2 DEF IInv, ClientOK
<1>6. /\ Len(buffer'[c]) = Len(b) + 1 /\ buffer'[c][Len(b) + 1] = d /\ Len(b) \in Nat
      /\ \A i \in 1 .. Len(b) : buffer'[c][i] = b[i] /\ i \in 1 .. Len(b) + 1
  BY <1>3, <1>5
<1> PICK m : m = Line(c)'
  OBVIOUS
<1>7. /\ Len(x) \in Nat
      /\ Len(m) = Len(x) + Len(buffer'[c])
      /\ \A i \in 1 .. Len(x) : m[i] = x[i]
      /\ \A i \in 1 .. Len(buffer'[c]) : m[Len(x) + i] = Decode(roster[c], buffer'[c][i])
  <2>1. m = LineOf(x, roster[c], buffer'[c])
    BY <1>1 DEF Line
  <2>2. Len(buffer'[c]) \in Nat
    BY <1>6
  <2> DEFINE r == roster[c]
             w == buffer'[c]
  <2> HIDE DEF x, r, w
  <2>3. /\ Len(LineOf(x, r, w)) = Len(x) + Len(w)
        /\ \A i \in 1 .. Len(x) : LineOf(x, r, w)[i] = x[i]
        /\ \A i \in 1 .. Len(w) : LineOf(x, r, w)[Len(x) + i] = Decode(r, w[i])
    BY ONLY <1>4, <2>2, LineShape DEF w
  <2> QED BY <1>4, <2>1, <2>3 DEF r, w
<1>8. /\ Len(Line(c)) = Len(x) + Len(b)
      /\ \A i \in 1 .. Len(x) : Line(c)[i] = x[i]
      /\ \A i \in 1 .. Len(b) : Line(c)[Len(x) + i] = Decode(roster[c], b[i])
  BY LineLength
<1> HIDE DEF s, d, b, x
<1>9. Len(m) = Len(Line(c)) + 1 /\ Len(m) = Len(x) + (Len(b) + 1)
  BY <1>6, <1>7, <1>8
<1>10. m[Len(m)] = Decode(roster[c], d)
  <2>1. Len(b) + 1 \in 1 .. Len(buffer'[c])
    BY <1>6
  <2> QED BY <1>6, <1>7, <1>9, <2>1
<1>11. ASSUME NEW i \in 1 .. Len(Line(c)) PROVE m[i] = Line(c)[i]
  <2>1. CASE i <= Len(x)
    <3>1. i \in 1 .. Len(x)
      BY <1>7, <2>1
    <3> QED BY <1>7, <1>8, <3>1
  <2>2. CASE i > Len(x)
    <3>1. i - Len(x) \in 1 .. Len(b) /\ i = Len(x) + (i - Len(x))
      BY <1>6, <1>7, <1>8, <2>2
    <3>2. PICK k \in 1 .. Len(b) : i = Len(x) + k
      BY <3>1
    <3>3. k \in 1 .. Len(buffer'[c]) /\ buffer'[c][k] = b[k]
      BY <1>6
    <3> QED BY <1>7, <1>8, <3>2, <3>3
  <2> QED BY <1>6, <1>7, <1>8, <2>1, <2>2
<1>12. m[Len(m)] = Decode(Left(toClient[c], roster[c], 1), toClient[c][1].data)
  BY <1>3, <1>10 DEF s, d
<1> QED BY <1>2, <1>3, <1>9, <1>11, <1>12 DEF s

LEMMA ReceiveInputOrder ==
  ASSUME IInv, OInv, NEW c \in Clients, ReceiveInput(c)
  PROVE  OInv'
<1>1. /\ Receive(c, "INPUT") /\ UNCHANGED <<issued, online, done, roster>>
      /\ \A e \in Clients : e # c => buffer'[e] = buffer[e]
  BY DEF ReceiveInput, serverVars, IInv, ClientOK
<1> PICK m : m = Line(c)'
  OBVIOUS
<1>2. /\ Len(m) = Len(Line(c)) + 1
      /\ \A i \in 1 .. Len(Line(c)) : m[i] = Line(c)[i]
      /\ m[Len(m)] = Decode(Left(toClient[c], roster[c], 1), toClient[c][1].data)
      /\ Left(toClient[c], roster[c], 1) = roster[c]
  BY InputLine
<1>3. \A e \in Clients : roster'[e] = IF e = c THEN Left(toClient[c], roster[c], 1) ELSE roster[e]
  BY <1>1, <1>2
<1> QED BY <1>1, <1>2, <1>3, ReadingOrder

\* The frames that wait when a player is removed are blanked, if they count at all.
LEMMA ReceiveRemoveOrder ==
  ASSUME IInv, OInv, NEW c \in Clients, ReceiveRemove(c)
  PROVE  OInv'
<1> DEFINE s == toClient[c]
           gone == Head(s).player
           left == roster[c] \ {gone}
           b == buffer[c]
           x == done[c]
<1>1. /\ Receive(c, "REMOVE_PLAYER")
      /\ roster' = [roster EXCEPT ![c] = left]
      /\ IF cstate[c] = "PLAYING" /\ gone \in roster[c]
         THEN buffer' = [buffer EXCEPT ![c] = Resized(c, left)]
         ELSE UNCHANGED buffer
      /\ UNCHANGED <<issued, online, done>>
  BY DEF ReceiveRemove, serverVars
<1>2. /\ s \in Seq(ToClientMessage) /\ s # <<>> /\ s[1].type = "REMOVE_PLAYER" /\ Head(s) = s[1]
      /\ s[1] \in ToClientMessage
      /\ Left(s, roster[c], 1) = roster[c] \ {p \in Players : s[1] = Remove(p)}
  BY <1>1, ReadFirst DEF IInv, ToClientOK, Receive
<1>3. \A p \in Players : s[1] = Remove(p) <=> p = gone
  BY <1>2, MessageCases
<1>4. Left(s, roster[c], 1) = left
  <2>1. roster[c] \in SUBSET Players
    BY DEF IInv, ClientOK
  <2> QED BY <1>2, <1>3, <2>1
<1>5. /\ roster \in [Clients -> SUBSET Players] /\ buffer \in [Clients -> Seq(Frames)]
      /\ b \in Seq(Frames) /\ frames[c] \in Nat /\ frames[c] <= Len(b)
      /\ cstate[c] # "PLAYING" => b = <<>>
      /\ left \in SUBSET Players /\ Len(x) \in Nat /\ Len(b) \in Nat
  BY DEF IInv, ClientOK, DoneOK
<1> HIDE DEF s, gone, left
<1>6. /\ \A e \in Clients : roster'[e] = IF e = c THEN Left(s, roster[c], 1) ELSE roster[e]
      /\ \A e \in Clients : e # c => buffer'[e] = buffer[e]
  BY <1>1, <1>4, <1>5
<1> DEFINE w == buffer'[c]
<1>7. /\ Len(w) \in 0 .. Len(b)
      /\ \A i \in 1 .. Len(w) : \/ Blank(Decode(left, w[i]))
                                \/ w[i] = b[i] /\ left = roster[c]
  <2>1. CASE cstate[c] = "PLAYING" /\ gone \in roster[c]
    <3>1. w = [i \in 1 .. frames[c] |-> BlankFrame(left)]
      BY <1>1, <1>5, <2>1 DEF Resized
    <3> HIDE DEF w
    <3>2. Len(w) = frames[c] /\ \A i \in 1 .. Len(w) : w[i] = BlankFrame(left)
      BY <1>5, <3>1
    <3>3. Blank(Decode(left, BlankFrame(left)))
      <4>1. \A p \in left : BlankFrame(left)[Rank(left, p)] = Idle
        BY <1>5, BlankType
      <4> QED BY <4>1 DEF Blank, Decode
    <3> QED BY <1>5, <3>2, <3>3
  <2>2. CASE cstate[c] # "PLAYING"
    <3>1. w = <<>>
      BY <1>1, <1>5, <2>2
    <3> QED BY <1>5, <3>1
  <2>3. CASE cstate[c] = "PLAYING" /\ gone \notin roster[c]
    <3>1. w = b /\ left = roster[c]
      BY <1>1, <2>3 DEF left
    <3> QED BY <1>5, <3>1
  <2> QED BY <2>1, <2>2, <2>3
<1> PICK m : m = Line(c)'
  OBVIOUS
<1>8. m = LineOf(x, left, w)
  <2>1. done'[c] = x /\ roster'[c] = left
    BY <1>1, <1>5
  <2> QED BY <2>1 DEF Line
<1>9. /\ Len(Line(c)) = Len(x) + Len(b)
      /\ \A i \in 1 .. Len(x) : Line(c)[i] = x[i]
      /\ \A i \in 1 .. Len(b) : Line(c)[Len(x) + i] = Decode(roster[c], b[i])
  BY LineLength
<1> HIDE DEF b, x, w
<1>10. Len(w) \in Nat
  BY <1>5, <1>7
<1>11. /\ Len(LineOf(x, left, w)) = Len(x) + Len(w)
       /\ \A i \in 1 .. Len(x) : LineOf(x, left, w)[i] = x[i]
       /\ \A i \in 1 .. Len(w) : LineOf(x, left, w)[Len(x) + i] = Decode(left, w[i])
  BY ONLY <1>5, <1>10, LineShape
<1>12. Len(m) \in 0 .. Len(Line(c)) /\ Len(m) = Len(x) + Len(w)
  BY <1>5, <1>7, <1>8, <1>9, <1>10, <1>11
<1>13. ASSUME NEW i \in 1 .. Len(m) PROVE m[i] = Line(c)[i] \/ Blank(m[i])
  <2>1. CASE i <= Len(x)
    <3>1. i \in 1 .. Len(x)
      BY <1>5, <1>12, <2>1
    <3> QED BY <1>8, <1>9, <1>11, <3>1
  <2>2. CASE i > Len(x)
    <3>1. i - Len(x) \in 1 .. Len(w) /\ i = Len(x) + (i - Len(x))
      BY <1>5, <1>10, <1>12, <2>2
    <3>2. PICK k \in 1 .. Len(w) : i = Len(x) + k
      BY <3>1
    <3>3. k \in 1 .. Len(b)
      BY <1>5, <1>7
    <3>4. m[i] = Decode(left, w[k]) /\ Line(c)[i] = Decode(roster[c], b[k])
      BY <1>8, <1>9, <1>11, <3>2, <3>3
    <3> QED BY <1>7, <3>4
  <2> QED BY <1>5, <1>12, <2>1, <2>2
<1> QED BY <1>1, <1>6, <1>12, <1>13, ReadingOrder DEF s

\* PAUSE, RESUME and END lose the frames that wait.
LEMMA EnterLine ==
  ASSUME IInv, NEW c \in Clients, NEW t \in Turning, NEW to, Enter(c, t, to)
  PROVE  LET m == Line(c)' IN
         /\ Len(m) \in 0 .. Len(Line(c))
         /\ \A i \in 1 .. Len(m) : m[i] = Line(c)[i]
         /\ Left(toClient[c], roster[c], 1) = roster[c] /\ toClient[c][1].type = t
<1> DEFINE s == toClient[c]
           x == done[c]
<1>1. /\ Receive(c, t) /\ buffer' = [buffer EXCEPT ![c] = <<>>]
      /\ UNCHANGED <<issued, online, done, roster>>
  BY DEF Enter, serverVars
<1>2. /\ s \in Seq(ToClientMessage) /\ s # <<>> /\ s[1].type = t
      /\ s[1] \in ToClientMessage
      /\ Left(s, roster[c], 1) = roster[c] \ {p \in Players : s[1] = Remove(p)}
  BY <1>1, ReadFirst DEF IInv, ToClientOK, Receive
<1>3. Left(s, roster[c], 1) = roster[c]
  <2>1. \A p \in Players : s[1] # Remove(p)
    BY <1>2, MessageCases
  <2> QED BY <1>2, <2>1
<1>4. buffer \in [Clients -> Seq(Frames)] /\ Len(x) \in Nat
  BY DEF IInv, ClientOK, DoneOK
<1> PICK m : m = Line(c)'
  OBVIOUS
<1>5. m = LineOf(x, roster[c], <<>>)
  BY <1>1, <1>4 DEF Line
<1>6. /\ Len(Line(c)) = Len(x) + Len(buffer[c]) /\ Len(buffer[c]) \in Nat
      /\ \A i \in 1 .. Len(x) : Line(c)[i] = x[i]
  BY LineLength
<1> DEFINE b == <<>>
           r == roster[c]
<1>7. Len(b) = 0
  OBVIOUS
<1> HIDE DEF b, x, r, s
<1>8. /\ Len(LineOf(x, r, b)) = Len(x) + Len(b)
      /\ \A i \in 1 .. Len(x) : LineOf(x, r, b)[i] = x[i]
  BY ONLY <1>4, <1>7, LineShape
<1>9. Len(m) = Len(x) /\ \A i \in 1 .. Len(m) : m[i] = Line(c)[i]
  BY <1>4, <1>5, <1>6, <1>7, <1>8 DEF r, b
<1>10. Len(m) \in 0 .. Len(Line(c))
  BY <1>4, <1>6, <1>9
<1> QED BY <1>2, <1>3, <1>9, <1>10 DEF s

LEMMA EnterOrder ==
  ASSUME IInv, OInv, NEW c \in Clients, NEW t \in Turning, NEW to, Enter(c, t, to)
  PROVE  OInv'
<1>1. /\ Receive(c, t) /\ UNCHANGED <<issued, online, done, roster>>
      /\ \A e \in Clients : e # c => buffer'[e] = buffer[e]
  BY DEF Enter, serverVars, IInv, ClientOK
<1> PICK m : m = Line(c)'
  OBVIOUS
<1>2. /\ Len(m) \in 0 .. Len(Line(c))
      /\ \A i \in 1 .. Len(m) : m[i] = Line(c)[i]
      /\ Left(toClient[c], roster[c], 1) = roster[c]
  BY EnterLine
<1>3. \A e \in Clients : roster'[e] = IF e = c THEN Left(toClient[c], roster[c], 1) ELSE roster[e]
  BY <1>1, <1>2
<1> QED BY <1>1, <1>2, <1>3, ReadingOrder

\* What a client runs moves from its buffer into its past.
LEMMA TickKeepsLine ==
  ASSUME IInv, NEW c \in Clients, Len(buffer[c]) <= MaxBuffer, ClientTick(c)
  PROVE  Len(Line(c)') = Len(Line(c)) /\ \A i \in 1 .. Len(Line(c)) : Line(c)'[i] = Line(c)[i]
<1> DEFINE x == done[c]
           b == buffer[c]
           r == roster[c]
           T == UNION {[S -> Buttons] : S \in SUBSET Players}
<1>1. PICK n \in 0 .. Len(b) :
           /\ done' = [done EXCEPT ![c] = x \o Ran(c, n)]
           /\ buffer' = [buffer EXCEPT ![c] = SubSeq(b, n + 1, Len(b))]
  BY ClientTickParts, Zenon
<1> DEFINE y == Ran(c, n)
           z == x \o y
           w == SubSeq(b, n + 1, Len(b))
<1>2. /\ x \in Seq(T) /\ y \in Seq(T) /\ Len(y) = n
      /\ b \in Seq(Frames) /\ Len(b) \in Nat /\ Len(x) \in Nat /\ n \in Nat /\ n <= Len(b)
  <2>1. y \in Seq(T) /\ Len(y) = n
    BY RanOwn
  <2>2. x \in Seq(T) /\ b \in Seq(Frames)
    BY DEF IInv, DoneOK, ClientOK
  <2>3. Len(x) \in Nat /\ Len(b) \in Nat
    BY <2>2
  <2> HIDE DEF b
  <2>4. n \in Nat /\ n <= Len(b)
    BY <2>3
  <2> QED BY <2>1, <2>2, <2>3, <2>4
<1>3. /\ roster' = roster /\ done'[c] = z /\ buffer'[c] = w
  BY <1>1 DEF IInv, ClientOK, DoneOK, ClientTick
<1>4. \A i \in 1 .. n : y[i] = Decode(r, b[i])
  <2>1. ASSUME NEW i \in 1 .. n PROVE Cell(c, i) = b[i]
    <3>1. i \in 1 .. Len(b)
      BY <1>2
    <3> QED BY <1>2, <3>1, CellThere
  <2> QED BY <2>1 DEF Ran
<1>5. Line(c)' = LineOf(z, r, w)
  BY <1>3 DEF Line
<1> HIDE DEF T, x, b, r, y
<1>6. /\ Len(z) = Len(x) + n
      /\ \A i \in 1 .. Len(x) : z[i] = x[i]
      /\ \A i \in 1 .. n : z[Len(x) + i] = y[i]
  BY <1>2
<1>7. /\ Len(w) = Len(b) - n
      /\ \A i \in 1 .. Len(b) - n : w[i] = b[n + i]
  <2>1. \A i \in 1 .. Len(b) - n : n + i \in 1 .. Len(b) /\ (n + 1) + i - 1 = n + i
    BY <1>2
  <2>2. /\ Len(w) = Len(b) - n
        /\ \A i \in 1 .. Len(b) - n : w[i] = b[(n + 1) + i - 1]
    BY <1>2
  <2> QED BY <2>1, <2>2
<1> HIDE DEF z, w
<1>8. Len(z) \in Nat /\ Len(w) \in Nat
  BY <1>2, <1>6, <1>7
<1> DEFINE m == LineOf(z, r, w)
           l == LineOf(x, r, b)
<1>9. /\ Len(m) = Len(z) + Len(w)
      /\ \A i \in 1 .. Len(z) : m[i] = z[i]
      /\ \A i \in 1 .. Len(w) : m[Len(z) + i] = Decode(r, w[i])
  BY ONLY <1>8, LineShape
<1>10. /\ Len(l) = Len(x) + Len(b)
       /\ \A i \in 1 .. Len(x) : l[i] = x[i]
       /\ \A i \in 1 .. Len(b) : l[Len(x) + i] = Decode(r, b[i])
  <2>1. Len(x) \in Nat /\ Len(b) \in Nat
    BY <1>2
  <2> QED BY ONLY <2>1, LineShape
<1>11. l = Line(c)
  BY DEF Line, x, r, b
<1> HIDE DEF m, l
<1>12. Len(m) = Len(l)
  BY <1>2, <1>6, <1>7, <1>9, <1>10
<1>13. ASSUME NEW i \in 1 .. Len(l) PROVE m[i] = l[i]
  <2>1. CASE i <= Len(x)
    <3>1. i \in 1 .. Len(x) /\ i \in 1 .. Len(z)
      BY <1>2, <1>6, <1>10, <2>1
    <3> QED BY <1>6, <1>9, <1>10, <3>1
  <2>2. CASE i > Len(x) /\ i <= Len(x) + n
    <3>1. i - Len(x) \in 1 .. n /\ i = Len(x) + (i - Len(x))
      BY <1>2, <2>2
    <3>2. PICK k \in 1 .. n : i = Len(x) + k
      BY <3>1
    <3>3. k \in 1 .. Len(b) /\ i \in 1 .. Len(z)
      BY <1>2, <1>6, <2>2
    <3>4. m[i] = y[k] /\ l[i] = Decode(r, b[k])
      BY <1>6, <1>9, <1>10, <3>2, <3>3
    <3> QED BY <1>4, <3>4
  <2>3. CASE i > Len(x) + n
    <3>1. i - (Len(x) + n) \in 1 .. Len(b) - n /\ i = (Len(x) + n) + (i - (Len(x) + n))
      BY <1>2, <1>10, <2>3
    <3>2. PICK k \in 1 .. Len(b) - n : i = (Len(x) + n) + k
      BY <3>1
    <3>3. n + k \in 1 .. Len(b) /\ i = Len(x) + (n + k) /\ i = Len(z) + k /\ k \in 1 .. Len(w)
      BY <1>2, <1>6, <1>7, <3>2
    <3>4. m[i] = Decode(r, w[k]) /\ l[i] = Decode(r, b[n + k])
      BY <1>9, <1>10, <3>3
    <3> QED BY <1>7, <3>2, <3>4
  <2> QED BY <1>2, <1>10, <2>1, <2>2, <2>3
<1> QED BY <1>5, <1>11, <1>12, <1>13 DEF m

LEMMA ClientTickOrder ==
  ASSUME IInv, InTime, OInv, NEW c \in Clients, ClientTick(c)
  PROVE  OInv'
<1>1. /\ UNCHANGED <<online, roster, toClient, issued>>
      /\ \A d \in Clients : d # c => done'[d] = done[d] /\ buffer'[d] = buffer[d]
  BY DEF ClientTick, serverVars, IInv, ClientOK, DoneOK
<1>2. \A d \in Clients : Told(d)' = Told(d)
  BY <1>1 DEF Told
<1>3. ASSUME NEW d \in Clients PROVE Ordered(Line(d)', Told(d))
  <2>1. Ordered(Line(d), Told(d)) /\ Len(Line(d)) \in Nat
    <3>1. Len(Line(d)) \in Nat
      BY LineLength
    <3> QED BY <3>1 DEF OInv, LinesInOrder
  <2>2. CASE d = c
    <3>1. Len(Line(c)') = Len(Line(c)) /\ \A i \in 1 .. Len(Line(c)) : Line(c)'[i] = Line(c)[i]
      BY TickKeepsLine DEF InTime
    <3> PICK m : m = Line(c)'
      OBVIOUS
    <3>2. Len(m) \in 0 .. Len(Line(c))
      BY <2>1, <2>2, <3>1
    <3>3. \A i \in 1 .. Len(m) : m[i] = Line(c)[i] \/ Blank(m[i])
      BY <3>1
    <3>4. Len(Line(c)) \in Nat /\ Ordered(Line(c), Told(c))
      BY <2>1, <2>2
    <3>5. Ordered(m, Told(c))
      BY <3>2, <3>3, <3>4, OrderedShorter
    <3> QED BY <2>2, <3>5
  <2>3. CASE d # c
    <3>1. Line(d)' = Line(d)
      BY <1>1, <2>3 DEF Line
    <3> QED BY <2>1, <3>1
  <2> QED BY <2>2, <2>3
<1>4. \A d \in Clients : Ordered(Line(d), Told(d))'
  <2>1. issued' = issued
    BY <1>1
  <2> QED BY <1>2, <1>3, <2>1 DEF Ordered
<1>5. NewestUnderWay'
  BY <1>1 DEF OInv, NewestUnderWay, Newest
<1>6. IssuedOK'
  BY <1>1 DEF OInv, IssuedOK
<1> QED BY <1>4, <1>5, <1>6 DEF OInv, LinesInOrder

LEMMA OrderStarts == Init => OInv
<1> SUFFICES ASSUME Init PROVE OInv
  OBVIOUS
<1>1. Len(<<>>) = 0 /\ <<>> \in Seq(ToClientMessage) /\ 0 \in Nat
  OBVIOUS
<1>2. Behind(<<>>, 0) = 0
  <2>1. Waiting(<<>>, 0) = {}
    BY <1>1 DEF Waiting
  <2> QED BY <2>1, FS_EmptySet DEF Behind
<1>3. IssuedOK
  BY DEF Init, IssuedOK
<1>4. NewestUnderWay
  <2>1. \A r : Newest(<<>>, r)
    <3>1. issued = <<>>
      BY DEF Init
    <3> QED BY <1>1, <1>2, <3>1 DEF Newest
  <2> QED BY <2>1 DEF Init, NewestUnderWay
<1>5. LinesInOrder
  <2> SUFFICES ASSUME NEW c \in Clients PROVE Ordered(Line(c), Told(c))
    BY DEF LinesInOrder
  <2>1. Line(c) = LineOf(<<>>, roster[c], <<>>)
    BY DEF Init, Line
  <2> DEFINE e == <<>>
             r == roster[c]
  <2>2. Len(e) = 0 /\ Len(e) \in Nat
    BY <1>1
  <2> HIDE DEF e, r
  <2>3. Len(LineOf(e, r, e)) = Len(e) + Len(e)
    BY ONLY <2>2, LineShape
  <2>4. Len(Line(c)) = 0
    BY <2>1, <2>2, <2>3 DEF e, r
  <2> DEFINE top == Told(c)
             at == [i \in {} |-> 0]
  <2>5. 1 .. Len(Line(c)) = {}
    BY <2>4
  <2>6. at \in [{} -> 1 .. top] /\ DOMAIN at = {}
    OBVIOUS
  <2> HIDE DEF at, top
  <2> QED BY <2>5, <2>6 DEF Ordered, top
<1> QED BY <1>3, <1>4, <1>5 DEF OInv

LEMMA OrderKept ==
  ASSUME IInv, InTime, OInv, [Next]_vars
  PROVE  OInv'
<1>1. CASE ServerTick
  BY <1>1, ServerTickOrder
<1>2. CASE \/ Pause \/ Resume \/ End
           \/ \E p \in Players : Press(p)
           \/ \E c \in Clients : ServerPoll(c) \/ Drop(c)
           \/ UNCHANGED vars
  BY <1>2, NotesSteps
<1>3. ASSUME NEW c \in Clients, ClientPoll(c) PROVE OInv'
  <2>1. CASE ReceiveInput(c)
    BY <2>1, ReceiveInputOrder
  <2>2. CASE ReceiveRemove(c)
    BY <2>2, ReceiveRemoveOrder
  <2>3. ASSUME NEW t \in Turning, NEW to, Enter(c, t, to) PROVE OInv'
    BY <2>3, EnterOrder
  <2>4. ReceivePause(c) \/ ReceiveResume(c) \/ ReceiveEnd(c)
          => \E t \in Turning : \E to \in {"PAUSED", "PLAYING", "OFF"} : Enter(c, t, to)
    BY DEF ReceivePause, ReceiveResume, ReceiveEnd, Turning
  <2> QED BY <1>3, <2>1, <2>2, <2>3, <2>4 DEF ClientPoll
<1>4. ASSUME NEW c \in Clients, ClientTick(c) PROVE OInv'
  BY <1>4, ClientTickOrder
<1> QED BY <1>1, <1>2, <1>3, <1>4 DEF Next

\* joynet_update_input_buffer and the tick of the game: as long as no client has
\* more frames waiting than its ring of max_buffer_frames cells keeps, pauses,
\* removals and lost connections may cost it frames or blank them, but what it
\* runs it runs in the server's order, no frame twice, and each with the buttons
\* the server sent or with none.
THEOREM InOrder == Spec /\ []InTime => []TicksInOrder
<1> DEFINE Within(c) == \E at \in [1 .. Len(done[c]) -> 1 .. Len(issued)] :
             /\ \A i, j \in DOMAIN at : i < j => at[i] < at[j]
             /\ \A i \in DOMAIN at : Same(done[c][i], issued[at[i]]) \/ Blank(done[c][i])
<1>1. ASSUME IInv, OInv, NEW c \in Clients PROVE Within(c)
  <2> DEFINE l == Line(c)
             m == done[c]
             top == Told(c)
             wide == Len(issued)
  <2>1. Len(m) \in 0 .. Len(l) /\ Len(l) \in Nat
    <3>1. Len(m) \in Nat /\ Len(buffer[c]) \in Nat
      BY <1>1, LineLength
    <3>2. Len(l) = Len(m) + Len(buffer[c])
      BY <1>1, LineLength
    <3> HIDE DEF l, m
    <3> QED BY <3>1, <3>2
  <2>2. \A i \in 1 .. Len(m) : m[i] = l[i]
    BY <1>1, LineLength
  <2>3. top \in Nat /\ wide \in Nat /\ top <= wide
    BY <1>1, ToldWithin
  <2>4. Ordered(l, top)
    BY <1>1 DEF OInv, LinesInOrder
  <2> HIDE DEF l, m, top, wide
  <2>5. Ordered(m, top)
    BY <2>1, <2>2, <2>4, OrderedShorter
  <2>6. PICK at \in [1 .. Len(m) -> 1 .. top] :
          /\ \A i, j \in DOMAIN at : i < j => at[i] < at[j]
          /\ \A i \in DOMAIN at : Same(m[i], issued[at[i]]) \/ Blank(m[i])
    BY <2>5 DEF Ordered
  <2>7. at \in [1 .. Len(m) -> 1 .. wide]
    <3>1. \A k \in 1 .. top : k \in 1 .. wide
      BY <2>3
    <3> QED BY <3>1
  <2> QED BY <2>6, <2>7 DEF m, wide
<1>2. IInv /\ OInv => TicksInOrder
  <2>1. (\A c \in Clients : Within(c)) => TicksInOrder
    BY DEF TicksInOrder, Blank
  <2> HIDE DEF Within
  <2> QED BY <1>1, <2>1
<1>3. IInv /\ InTime /\ OInv /\ [Next]_vars => OInv'
  BY OrderKept
<1> QED BY <1>2, <1>3, OrderStarts, Invariance, PTL DEF Spec

-----------------------------------------------------------------------------
(* Games no longer than the ring.                                           *)

LEMMA Increasing ==
  ASSUME NEW n \in Nat, NEW top \in Nat, NEW at \in [1 .. n -> 1 .. top],
         \A i, j \in 1 .. n : i < j => at[i] < at[j]
  PROVE  n <= top
<1>1. \A i, j \in 1 .. n : at[i] = at[j] => i = j
  <2> SUFFICES ASSUME NEW i \in 1 .. n, NEW j \in 1 .. n, i # j PROVE at[i] # at[j]
    OBVIOUS
  <2>1. at[i] \in Int /\ at[j] \in Int
    OBVIOUS
  <2> QED BY <2>1
<1>2. at \in Injection(1 .. n, 1 .. top)
  BY <1>1 DEF Injection, IsInjective
<1>3. IsFiniteSet(1 .. top) /\ Cardinality(1 .. top) = top /\ Cardinality(1 .. n) = n
  BY FS_Interval
<1> QED BY <1>2, <1>3, FS_Injection

\* What waits at a client are different frames of those the server has sent.
LEMMA WaitingAreIssued ==
  ASSUME IInv, OInv, NEW c \in Clients
  PROVE  Len(buffer[c]) <= Len(issued)
<1> DEFINE l == Line(c)
           top == Told(c)
<1>1. /\ Len(done[c]) \in Nat /\ Len(buffer[c]) \in Nat
      /\ Len(l) = Len(done[c]) + Len(buffer[c])
  BY LineLength
<1>2. top \in Nat /\ Len(issued) \in Nat /\ top <= Len(issued)
  BY ToldWithin
<1>3. Ordered(l, top)
  BY DEF OInv, LinesInOrder
<1> HIDE DEF l, top
<1> PICK n : n = Len(l)
  OBVIOUS
<1> PICK x : x = Len(done[c])
  OBVIOUS
<1> PICK b : b = Len(buffer[c])
  OBVIOUS
<1> PICK sent : sent = Len(issued)
  OBVIOUS
<1>4. x \in Nat /\ b \in Nat /\ n = x + b
  BY <1>1
<1>5. n \in Nat /\ b <= n
  BY ONLY <1>4
<1>6. PICK at \in [1 .. n -> 1 .. top] : \A i, j \in DOMAIN at : i < j => at[i] < at[j]
  BY <1>3 DEF Ordered
<1>7. n <= top
  <2>1. \A i, j \in 1 .. n : i < j => at[i] < at[j]
    BY <1>6
  <2> QED BY ONLY <1>2, <1>5, <2>1, at \in [1 .. n -> 1 .. top], Increasing
<1>8. top \in Nat /\ sent \in Nat /\ top <= sent
  BY <1>2
<1>9. b <= sent
  BY ONLY <1>4, <1>5, <1>7, <1>8
<1> QED BY <1>9

LEMMA IssuedWithin == IInv /\ OInv /\ Len(issued) <= MaxTicks /\ [Next]_vars
                        => Len(issued') <= MaxTicks
<1> SUFFICES ASSUME IInv, OInv, Len(issued) <= MaxTicks, [Next]_vars
             PROVE  Len(issued') <= MaxTicks
  OBVIOUS
<1>1. CASE ServerTick
  <2>1. PICK f : issued' = Append(issued, f)
    BY <1>1 DEF ServerTick
  <2>2. Len(issued) \in Nat /\ Len(issued) < MaxTicks
    BY <1>1 DEF ServerTick, OInv, IssuedOK
  <2>3. Len(issued') = Len(issued) + 1
    BY <2>1 DEF OInv, IssuedOK
  <2> QED BY <2>2, <2>3, LockstepAssumption
<1>2. CASE UNCHANGED issued
  BY <1>2
<1> QED BY <1>1, <1>2
        DEF Next, Pause, Resume, End, Turn, Press, ServerPoll, HandleInput, HandleOverflow,
            Drop, ClientPoll, ReceiveInput, ReceiveRemove, ReceivePause, ReceiveResume,
            ReceiveEnd, Enter, ClientTick, vars

LEMMA ShortGamesInTime ==
  ASSUME MaxTicks <= MaxBuffer
  PROVE  Spec => []InTime
<1> DEFINE Within == Len(issued) <= MaxTicks
<1>1. Init => Within
  BY LockstepAssumption DEF Init
<1>2. IInv /\ OInv /\ Within => InTime
  <2> SUFFICES ASSUME IInv, OInv, Within, NEW c \in Clients
               PROVE  Len(buffer[c]) <= MaxBuffer
    BY DEF InTime
  <2>1. Len(buffer[c]) <= Len(issued) /\ Len(buffer[c]) \in Nat /\ Len(issued) \in Nat
    BY WaitingAreIssued, LineLength, ToldWithin
  <2> QED BY <2>1, LockstepAssumption
<1>3. IInv /\ OInv /\ Within /\ [Next]_vars => OInv' /\ Within'
  BY <1>2, OrderKept, IssuedWithin
<1> QED BY <1>1, <1>2, <1>3, OrderStarts, Invariance, PTL DEF Spec

\* joynet_update_input_buffer counts the frames that wait: a game that has no more
\* ticks than the ring has cells cannot outrun it, so what a client runs it runs in
\* the server's order, no frame twice, with the server's buttons or with none.
THEOREM ShortGamesInOrder ==
  ASSUME MaxTicks <= MaxBuffer
  PROVE  Spec => []TicksInOrder
BY ShortGamesInTime, InOrder, PTL

-----------------------------------------------------------------------------
(* A game nobody leaves or pauses.                                          *)

LEMMA AlikeStarts == Init => SInv
<1> SUFFICES ASSUME Init PROVE SInv
  OBVIOUS
<1>1. Len(<<>>) = 0 /\ <<>> \in Seq(ToClientMessage) /\ 0 \in Nat
  OBVIOUS
<1>2. Behind(<<>>, 0) = 0
  <2>1. Waiting(<<>>, 0) = {}
    BY <1>1 DEF Waiting
  <2> QED BY <2>1, FS_EmptySet DEF Behind
<1>3. ASSUME NEW c \in Clients PROVE Told(c) = 0 /\ Len(Line(c)) = 0
  <2>1. Line(c) = LineOf(<<>>, roster[c], <<>>)
    BY DEF Init, Line
  <2> DEFINE e == <<>>
             r == roster[c]
  <2>2. Len(e) = 0 /\ Len(e) \in Nat
    BY <1>1
  <2> HIDE DEF e, r
  <2>3. Len(LineOf(e, r, e)) = Len(e) + Len(e)
    BY ONLY <2>2, LineShape
  <2>4. Len(Line(c)) = 0
    BY <2>1, <2>2, <2>3 DEF e, r
  <2>5. online[c] /\ toClient[c] = <<>> /\ issued = <<>>
    BY DEF Init
  <2> QED BY <1>1, <1>2, <2>4, <2>5 DEF Told
<1> QED BY <1>1, <1>3 DEF Init, SInv, Alike, Plain

LEMMA StaysAlike ==
  ASSUME IInv, OInv, SInv, UNCHANGED <<playing, online, cstate, roster, buffer, done>>,
         \A c \in Clients : /\ \A i \in 1 .. Len(toServer'[c]) : toServer'[c][i].type = "INPUT"
                            /\ Plain(toClient'[c])
                            /\ Told(c)' = Told(c),
         \A k \in 1 .. Len(issued) : issued'[k] = issued[k]
  PROVE  SInv'
<1>1. ASSUME NEW c \in Clients PROVE Alike(Line(c), Told(c))' /\ Line(c)' = Line(c)
  <2>1. Line(c)' = Line(c)
    BY DEF Line
  <2>2. Told(c) \in 0 .. Len(issued) /\ Len(issued) \in Nat
    BY ToldWithin
  <2>3. Alike(Line(c), Told(c))
    BY DEF SInv
  <2>4. Len(Line(c)) \in Nat
    BY LineLength
  <2> DEFINE l == Line(c)
  <2> HIDE DEF l
  <2>5. \A i \in 1 .. Len(l) : i \in 1 .. Len(issued)
    BY <2>2, <2>3, <2>4 DEF l, Alike
  <2>6. \A i \in 1 .. Len(l) : Same(l[i], issued'[i])
    BY <2>3, <2>5 DEF Alike, l
  <2> QED BY <2>1, <2>3, <2>6 DEF Alike, l
<1> QED BY <1>1 DEF SInv, Plain

\* The server's steps, and those that change nothing of the lines.
LEMMA ServerStepsAlike ==
  ASSUME IInv, OInv, SInv, ServerTick \/ End
  PROVE  SInv'
<1> PICK m : /\ Broadcast(<<m>>) /\ m \in ToClientMessage
             /\ \/ m = Note("END") /\ issued' = issued
                \/ /\ m.type = "INPUT" /\ Len(issued') = Len(issued) + 1
                   /\ \A k \in 1 .. Len(issued) : issued'[k] = issued[k]
  <2>1. CASE End
    <3>1. Broadcast(<<Note("END")>>) /\ issued' = issued
      BY <2>1 DEF End, Turn
    <3>2. Note("END") \in ToClientMessage
      BY DEF ToClientMessage, Turning
    <3> QED BY <3>1, <3>2
  <2>2. CASE ServerTick
    <3> DEFINE d == Encode(playing, held)
               x == [p \in playing |-> held[p]]
    <3>1. Broadcast(<<Input(d)>>) /\ issued' = Append(issued, x)
      BY <2>2 DEF ServerTick
    <3>2. d \in Frames /\ x \in UNION {[S -> Buttons] : S \in SUBSET Players}
      BY EncodeType DEF IInv, ServerOK
    <3>3. issued \in Seq(UNION {[S -> Buttons] : S \in SUBSET Players})
      BY DEF OInv, IssuedOK
    <3> HIDE DEF d, x
    <3>4. Len(issued') = Len(issued) + 1 /\ \A k \in 1 .. Len(issued) : issued'[k] = issued[k]
      BY <3>1, <3>2, <3>3
    <3>5. Input(d) \in ToClientMessage /\ Input(d).type = "INPUT"
      BY <3>2, MessageCases DEF ToClientMessage
    <3> QED BY <3>1, <3>4, <3>5
  <2> QED BY <2>1, <2>2
<1>1. UNCHANGED <<playing, online, cstate, roster, buffer, done, toServer>>
  BY DEF ServerTick, End, Turn, serverVars, clientVars
<1>2. ASSUME NEW c \in Clients
      PROVE  Plain(toClient'[c]) /\ Told(c)' = Told(c)
  <2> DEFINE s == toClient[c]
             w == s \o <<m>>
             n == Len(issued)
  <2>1. toClient'[c] = w /\ online[c] /\ online'[c]
    BY <1>1 DEF Broadcast, SInv
  <2>2. s \in Seq(ToClientMessage) /\ Plain(s) /\ n \in Nat /\ Behind(s, 0) \in Nat
    BY ToldWithin DEF SInv
  <2>3. m.type \in {"INPUT", "END"}
    BY MessageCases
  <2>4. Plain(w)
    BY <2>2, <2>3, OneMore DEF Plain
  <2>5. Told(c)' = Len(issued') - Behind(w, 0) /\ Told(c) = n - Behind(s, 0)
    BY <2>1 DEF Told
  <2>6. 0 \in 0 .. Len(s) /\ 0 \in Nat
    BY <2>2
  <2> HIDE DEF s
  <2>7. CASE m = Note("END") /\ issued' = issued
    <3> DEFINE u == <<m>>
    <3>1. u \in Seq(ToClientMessage) /\ \A j \in 1 .. Len(u) : u[j].type # "INPUT"
      BY <2>7, MessageCases
    <3> HIDE DEF u
    <3>2. Behind(s \o u, 0) = Behind(s, 0)
      BY <2>2, <2>6, <3>1, BehindSame
    <3> QED BY <2>1, <2>4, <2>5, <2>7, <3>2 DEF u
  <2>8. CASE m.type = "INPUT" /\ Len(issued') = n + 1
    <3>1. m.data \in Frames /\ m = Input(m.data)
      BY <2>8, MessageCases
    <3>2. Behind(w, 0) = Behind(s, 0) + 1
      BY <2>2, <2>6, <3>1, BehindInput
    <3> QED BY <2>1, <2>2, <2>4, <2>5, <2>8, <3>2
  <2> QED BY <2>7, <2>8
<1>3. \A k \in 1 .. Len(issued) : issued'[k] = issued[k]
  OBVIOUS
<1>4. \A c \in Clients : \A i \in 1 .. Len(toServer'[c]) : toServer'[c][i].type = "INPUT"
  BY <1>1 DEF SInv
<1> QED BY <1>1, <1>2, <1>3, <1>4, StaysAlike

LEMMA QuietStepsAlike ==
  ASSUME IInv, OInv, SInv,
         \/ \E p \in Players : Press(p)
         \/ \E c \in Clients : HandleInput(c)
         \/ UNCHANGED vars
  PROVE  SInv'
<1>1. UNCHANGED <<playing, online, cstate, roster, buffer, done, toClient, issued>>
  BY DEF Press, HandleInput, vars, serverVars, clientVars
<1>2. \A c \in Clients : Told(c)' = Told(c)
  BY <1>1 DEF Told
<1>3. ASSUME NEW c \in Clients, NEW i \in 1 .. Len(toServer'[c])
      PROVE  toServer'[c][i].type = "INPUT"
  <2>1. toServer \in [Clients -> Seq(ToServerMessage)]
    BY DEF IInv, ToServerOK
  <2>2. CASE toServer' = toServer
    BY <2>2 DEF SInv
  <2>3. ASSUME NEW d \in Clients, HandleInput(d) PROVE toServer'[c][i].type = "INPUT"
    <3>1. toServer' = [toServer EXCEPT ![d] = Tail(@)] /\ toServer[d] # <<>>
      BY <2>3 DEF HandleInput, Poll
    <3>2. CASE c # d
      BY <2>1, <3>1, <3>2 DEF SInv
    <3>3. CASE c = d
      <4>1. toServer'[c] = Tail(toServer[c]) /\ toServer[c] \in Seq(ToServerMessage) /\ toServer[c] # <<>>
        BY <2>1, <3>1, <3>3
      <4>2. i + 1 \in 1 .. Len(toServer[c]) /\ toServer'[c][i] = toServer[c][i + 1]
        BY <4>1
      <4> QED BY <4>2 DEF SInv
    <3> QED BY <3>2, <3>3
  <2> QED BY <2>2, <2>3 DEF Press, vars
<1> QED BY <1>1, <1>2, <1>3, StaysAlike DEF SInv

\* A client reads a frame or END.
LEMMA ReadingAlike ==
  ASSUME IInv, OInv, SInv, NEW c \in Clients, NEW t \in {"INPUT", "END"}, Receive(c, t),
         UNCHANGED <<playing, online, roster, done, issued, toServer>>,
         \A d \in Clients : d # c => buffer'[d] = buffer[d] /\ cstate'[d] = cstate[d],
         NEW m, m = Line(c)',
         \/ /\ t = "INPUT" /\ cstate[c] = "PLAYING"
            /\ Len(m) = Len(Line(c)) + 1
            /\ \A i \in 1 .. Len(Line(c)) : m[i] = Line(c)[i]
            /\ m[Len(m)] = Decode(Left(toClient[c], roster[c], 1), toClient[c][1].data)
         \/ /\ t = "END" /\ cstate'[c] # "PLAYING"
            /\ Len(m) \in 0 .. Len(Line(c))
            /\ \A i \in 1 .. Len(m) : m[i] = Line(c)[i]
  PROVE  SInv'
<1> DEFINE s == toClient[c]
           l == Line(c)
           n == Len(issued)
           top == Told(c)
<1>1. /\ s \in Seq(ToClientMessage) /\ s # <<>> /\ s[1].type = t /\ 1 \in 1 .. Len(s)
      /\ Newest(s, roster[c]) /\ online[c] /\ Plain(s)
  <2>1. s \in Seq(ToClientMessage) /\ s # <<>> /\ Head(s).type = t /\ online[c]
    BY DEF IInv, ToClientOK, Receive
  <2>2. Head(s) = s[1] /\ 1 \in 1 .. Len(s)
    BY <2>1
  <2> QED BY <2>1, <2>2 DEF OInv, NewestUnderWay, SInv
<1>2. \A d \in Clients : toClient'[d] = IF d = c THEN Tail(s) ELSE toClient[d]
  BY DEF Receive, IInv, ToClientOK
<1>3. /\ n \in Nat /\ top = n - Behind(s, 0) /\ top \in 0 .. n /\ Len(l) \in Nat
      /\ Len(l) <= top /\ \A i \in 1 .. Len(l) : Same(l[i], issued[i])
      /\ cstate[c] = "PLAYING" => Len(l) = top
  <2>1. Len(l) \in Nat
    BY LineLength
  <2> QED BY <1>1, <2>1, ToldWithin DEF Told, SInv, Alike
<1>4. /\ Behind(s, 0) \in Nat /\ Behind(s, 1) \in Nat
      /\ Behind(s, 0) = IF t = "INPUT" THEN Behind(s, 1) + 1 ELSE Behind(s, 1)
      /\ Behind(Tail(s), 0) = Behind(s, 1)
  <2>1. \A i \in Nat : Behind(Tail(s), i) = Behind(s, i + 1)
    BY <1>1, BehindLater
  <2>2. Behind(s, 0) = IF s[1].type = "INPUT" THEN Behind(s, 1) + 1 ELSE Behind(s, 1)
    BY <1>1, BehindLater
  <2>3. Behind(Tail(s), 0) = Behind(s, 0 + 1)
    BY <2>1
  <2> QED BY <1>1, <2>2, <2>3, BehindNat
<1>5. Told(c)' = n - Behind(s, 1)
  BY <1>1, <1>2, <1>4 DEF Told
<1>6. Plain(Tail(s))
  <2>1. \A i \in 1 .. Len(Tail(s)) : i + 1 \in 1 .. Len(s) /\ Tail(s)[i] = s[i + 1]
    BY <1>1
  <2> QED BY <1>1, <2>1 DEF Plain
<1> HIDE DEF s, l, n, top
<1>7. /\ Len(m) <= Told(c)' /\ \A i \in 1 .. Len(m) : Same(m[i], issued[i])
      /\ cstate'[c] = "PLAYING" => Len(m) = Told(c)'
  <2>1. CASE /\ t = "INPUT" /\ cstate[c] = "PLAYING"
             /\ Len(m) = Len(l) + 1
             /\ \A i \in 1 .. Len(l) : m[i] = l[i]
             /\ m[Len(m)] = Decode(Left(s, roster[c], 1), s[1].data)
    <3>1. Same(Decode(Left(s, roster[c], 1), s[1].data), issued[n - Behind(s, 1)])
      BY <1>1, <2>1 DEF Newest, n
    <3>2. Len(m) = n - Behind(s, 1) /\ Len(m) \in Nat
      BY <1>3, <1>4, <2>1
    <3>3. Same(m[Len(m)], issued[Len(m)])
      BY <2>1, <3>1, <3>2
    <3>4. \A i \in 1 .. Len(m) : i \in 1 .. Len(l) \/ i = Len(m)
      BY <1>3, <2>1
    <3> QED BY <1>3, <1>5, <2>1, <3>2, <3>3, <3>4
  <2>2. CASE /\ t = "END" /\ cstate'[c] # "PLAYING"
             /\ Len(m) \in 0 .. Len(l)
             /\ \A i \in 1 .. Len(m) : m[i] = l[i]
    <3>1. Told(c)' = top
      BY <1>3, <1>4, <1>5, <2>2
    <3>2. \A i \in 1 .. Len(m) : i \in 1 .. Len(l)
      BY <1>3, <2>2
    <3>3. Len(m) <= top
      BY <1>3, <2>2
    <3> QED BY <1>3, <2>2, <3>1, <3>2, <3>3
  <2> QED BY <2>1, <2>2 DEF s, l
<1>8. issued' = issued
  OBVIOUS
<1>9. Alike(Line(c), Told(c))' /\ (cstate'[c] = "PLAYING" => (Len(Line(c)) = Told(c))')
  BY <1>7, <1>8 DEF Alike
<1>10. ASSUME NEW d \in Clients, d # c
       PROVE  /\ Alike(Line(d), Told(d))' /\ (cstate'[d] = "PLAYING" => (Len(Line(d)) = Told(d))')
              /\ Plain(toClient'[d])
  <2>1. /\ toClient'[d] = toClient[d] /\ buffer'[d] = buffer[d] /\ roster'[d] = roster[d]
        /\ online'[d] = online[d] /\ done'[d] = done[d] /\ cstate'[d] = cstate[d]
    BY <1>2, <1>10
  <2>2. Told(d)' = Told(d)
    BY <1>8, <2>1 DEF Told
  <2>3. Line(d)' = Line(d)
    BY <2>1 DEF Line
  <2> QED BY <1>8, <2>1, <2>2, <2>3 DEF SInv, Alike
<1>11. Plain(toClient'[c])
  BY <1>2, <1>6 DEF s
<1> QED BY <1>9, <1>10, <1>11 DEF SInv, Plain

LEMMA ReceiveInputAlike ==
  ASSUME IInv, InTime', OInv, SInv, NEW c \in Clients, ReceiveInput(c)
  PROVE  SInv'
<1>1. /\ Receive(c, "INPUT") /\ UNCHANGED <<playing, online, cstate, roster, done, issued>>
      /\ buffer' = [buffer EXCEPT ![c] = Append(@, Head(toClient[c]).data)]
      /\ frames[c] + 1 > MaxBuffer \/ toServer' = toServer
  BY DEF ReceiveInput, serverVars
<1>2. toServer' = toServer
  <2>1. buffer[c] \in Seq(Frames) /\ frames[c] \in Nat /\ frames[c] <= Len(buffer[c])
    BY DEF IInv, ClientOK
  <2>2. buffer'[c] = Append(buffer[c], Head(toClient[c]).data)
    BY <1>1 DEF IInv, ClientOK
  <2>3. Len(buffer'[c]) = Len(buffer[c]) + 1
    BY <2>1, <2>2
  <2>4. Len(buffer'[c]) <= MaxBuffer
    BY DEF InTime
  <2>5. ~(frames[c] + 1 > MaxBuffer)
    BY <2>1, <2>3, <2>4, LockstepAssumption
  <2> QED BY <1>1, <2>5
<1> PICK m : m = Line(c)'
  OBVIOUS
<1>3. /\ Len(m) = Len(Line(c)) + 1
      /\ \A i \in 1 .. Len(Line(c)) : m[i] = Line(c)[i]
      /\ m[Len(m)] = Decode(Left(toClient[c], roster[c], 1), toClient[c][1].data)
      /\ toClient[c][1].type = "INPUT"
  BY InputLine
<1>4. cstate[c] = "PLAYING"
  <2> DEFINE s == toClient[c]
  <2>1. s \in Seq(ToClientMessage) /\ s # <<>> /\ Good(s, roster[c], cstate[c])
    BY <1>1 DEF IInv, ToClientOK, Receive
  <2> HIDE DEF s
  <2>2. /\ Runs(s, cstate[c], 1) <=> \/ cstate[c] = "PLAYING" /\ s[1].type \notin Turning
                                     \/ s[1].type = "RESUME"
        /\ 1 \in 1 .. Len(s)
    BY <2>1, ReadFirst
  <2> QED BY <1>3, <2>1, <2>2 DEF Good, s
<1>5. \A d \in Clients : d # c => buffer'[d] = buffer[d] /\ cstate'[d] = cstate[d]
  BY <1>1 DEF IInv, ClientOK
<1> QED BY <1>1, <1>2, <1>3, <1>4, <1>5, ReadingAlike

LEMMA ReceiveEndAlike ==
  ASSUME IInv, OInv, SInv, NEW c \in Clients, ReceiveEnd(c)
  PROVE  SInv'
<1>1. Enter(c, "END", "OFF") /\ "END" \in Turning
  BY DEF ReceiveEnd, Turning
<1>2. /\ Receive(c, "END") /\ UNCHANGED <<playing, online, roster, done, issued, toServer>>
      /\ cstate'[c] # "PLAYING"
      /\ \A d \in Clients : d # c => buffer'[d] = buffer[d] /\ cstate'[d] = cstate[d]
  BY <1>1 DEF Enter, serverVars, IInv, ClientOK
<1> PICK m : m = Line(c)'
  OBVIOUS
<1>3. /\ Len(m) \in 0 .. Len(Line(c))
      /\ \A i \in 1 .. Len(m) : m[i] = Line(c)[i]
  BY <1>1, EnterLine
<1> QED BY <1>2, <1>3, ReadingAlike

LEMMA ClientTickAlike ==
  ASSUME IInv, InTime, SInv, NEW c \in Clients, ClientTick(c)
  PROVE  SInv'
<1>1. /\ UNCHANGED <<playing, online, cstate, roster, toClient, issued>>
      /\ \A d \in Clients : d # c => done'[d] = done[d] /\ buffer'[d] = buffer[d]
      /\ \/ toServer' = toServer
         \/ toServer' = [toServer EXCEPT ![c] = Append(@, Input(Encode(Mine(c), pressed)))]
  BY DEF ClientTick, serverVars, IInv, ClientOK, DoneOK
<1>2. \A d \in Clients : Told(d)' = Told(d)
  BY <1>1 DEF Told
<1>3. ASSUME NEW d \in Clients
      PROVE  Len(Line(d)') = Len(Line(d)) /\ \A i \in 1 .. Len(Line(d)) : Line(d)'[i] = Line(d)[i]
  <2>1. CASE d = c
    BY <2>1, TickKeepsLine DEF InTime
  <2>2. CASE d # c
    <3>1. Line(d)' = Line(d)
      BY <1>1, <2>2 DEF Line
    <3> QED BY <3>1
  <2> QED BY <2>1, <2>2
<1>4. ASSUME NEW d \in Clients
      PROVE  Alike(Line(d), Told(d))' /\ (cstate'[d] = "PLAYING" => (Len(Line(d)) = Told(d))')
  BY <1>1, <1>2, <1>3 DEF SInv, Alike
<1>5. ASSUME NEW d \in Clients, NEW i \in 1 .. Len(toServer'[d])
      PROVE  toServer'[d][i].type = "INPUT"
  <2> DEFINE msg == Input(Encode(Mine(c), pressed))
             u == toServer[d]
  <2>1. u \in Seq(ToServerMessage) /\ \A j \in 1 .. Len(u) : u[j].type = "INPUT"
    BY DEF IInv, ToServerOK, SInv
  <2>2. msg.type = "INPUT"
    BY MessageCases
  <2>3. toServer'[d] = u \/ toServer'[d] = Append(u, msg)
    BY <1>1 DEF IInv, ToServerOK
  <2> HIDE DEF msg, u
  <2>4. CASE toServer'[d] = u
    BY <2>1, <2>4, <1>5
  <2>5. CASE toServer'[d] = Append(u, msg)
    <3>1. /\ toServer'[d][i] = IF i = Len(u) + 1 THEN msg ELSE u[i]
          /\ i = Len(u) + 1 \/ i \in 1 .. Len(u)
      BY <1>5, <2>1, <2>5
    <3> QED BY <2>1, <2>2, <3>1
  <2> QED BY <2>3, <2>4, <2>5
<1> QED BY <1>1, <1>4, <1>5 DEF SInv

LEMMA AlikeKept ==
  ASSUME Behaviours \subseteq {"end"}, IInv, InTime, InTime', OInv, SInv, [Next]_vars
  PROVE  SInv'
<1>1. "pause" \notin Behaviours /\ "drop" \notin Behaviours
  OBVIOUS
<1>2. ~Pause /\ ~Resume /\ \A c \in Clients : ~Drop(c)
  BY <1>1 DEF Pause, Resume, Drop
<1>3. ASSUME NEW c \in Clients PROVE ~HandleOverflow(c)
  <2> SUFFICES ASSUME Poll(c, "INPUT_OVERFLOW") PROVE FALSE
    BY DEF HandleOverflow
  <2>1. toServer[c] \in Seq(ToServerMessage) /\ toServer[c] # <<>> /\ Head(toServer[c]).type = "INPUT_OVERFLOW"
    BY DEF IInv, ToServerOK, Poll
  <2>2. Head(toServer[c]) = toServer[c][1] /\ 1 \in 1 .. Len(toServer[c])
    BY <2>1
  <2> QED BY <2>1, <2>2 DEF SInv
<1>4. ASSUME NEW c \in Clients, NEW t, Receive(c, t) PROVE t \in {"INPUT", "END"}
  <2>1. toClient[c] \in Seq(ToClientMessage) /\ toClient[c] # <<>> /\ Head(toClient[c]).type = t
    BY <1>4 DEF IInv, ToClientOK, Receive
  <2>2. Head(toClient[c]) = toClient[c][1] /\ 1 \in 1 .. Len(toClient[c])
    BY <2>1
  <2> QED BY <2>1, <2>2 DEF SInv, Plain
<1>5. ASSUME NEW c \in Clients PROVE ~ReceiveRemove(c) /\ ~ReceivePause(c) /\ ~ReceiveResume(c)
  BY <1>4 DEF ReceiveRemove, ReceivePause, ReceiveResume, Enter
<1>6. ASSUME NEW c \in Clients, ServerPoll(c) \/ Drop(c) \/ ClientPoll(c) \/ ClientTick(c)
      PROVE  SInv'
  <2>1. CASE HandleInput(c)
    BY <2>1, QuietStepsAlike
  <2>2. CASE ReceiveInput(c)
    BY <2>2, ReceiveInputAlike
  <2>3. CASE ReceiveEnd(c)
    BY <2>3, ReceiveEndAlike
  <2>4. CASE ClientTick(c)
    BY <2>4, ClientTickAlike
  <2> QED BY <1>2, <1>3, <1>5, <1>6, <2>1, <2>2, <2>3, <2>4 DEF ServerPoll, ClientPoll
<1>7. CASE ServerTick \/ End
  BY <1>7, ServerStepsAlike
<1>8. CASE (\E p \in Players : Press(p)) \/ UNCHANGED vars
  BY <1>8, QuietStepsAlike
<1> QED BY <1>2, <1>6, <1>7, <1>8 DEF Next

\* What lockstep is for: in a game nobody leaves or pauses, and whose frames never
\* outrun the ring of a client, however late they come the ticks every client has
\* run are the first ticks of the server's game, each with the very same buttons.
THEOREM AllTheSame ==
  ASSUME Behaviours \subseteq {"end"}
  PROVE  Spec /\ []InTime => []SameTicks
<1>1. IInv /\ OInv /\ SInv => SameTicks
  <2> SUFFICES ASSUME IInv, OInv, SInv, NEW c \in Clients
               PROVE  /\ Len(done[c]) <= Len(issued)
                      /\ \A i \in 1 .. Len(done[c]) : Same(done[c][i], issued[i])
    BY DEF SameTicks
  <2> DEFINE l == Line(c)
             x == done[c]
             b == buffer[c]
  <2>1. Len(x) \in Nat /\ Len(b) \in Nat
    BY LineLength
  <2>2. Len(l) = Len(x) + Len(b)
    BY LineLength
  <2>3. \A i \in 1 .. Len(x) : l[i] = x[i]
    BY LineLength
  <2>4. /\ Len(l) <= Told(c) /\ Told(c) \in 0 .. Len(issued) /\ Len(issued) \in Nat
        /\ \A i \in 1 .. Len(l) : Same(l[i], issued[i])
    BY ToldWithin DEF SInv, Alike
  <2> HIDE DEF l, x, b
  <2>5. Len(x) <= Len(issued) /\ \A i \in 1 .. Len(x) : i \in 1 .. Len(l)
    BY <2>1, <2>2, <2>4
  <2> QED BY <2>3, <2>4, <2>5 DEF x
<1>2. IInv /\ InTime /\ OInv /\ [Next]_vars => OInv'
  BY OrderKept
<1>3. IInv /\ InTime /\ InTime' /\ OInv /\ SInv /\ [Next]_vars => SInv'
  BY AlikeKept
<1> QED BY <1>1, <1>2, <1>3, OrderStarts, AlikeStarts, Invariance, PTL DEF Spec

\* joynet_update_input_buffer counts the frames that wait: in a game nobody leaves
\* or pauses, with no more ticks than the ring has cells, every client runs the
\* server's ticks with the server's buttons, however late they come.
THEOREM ShortGamesTheSame ==
  ASSUME MaxTicks <= MaxBuffer, Behaviours \subseteq {"end"}
  PROVE  Spec => []SameTicks
<1>1. Spec => []InTime
  BY ShortGamesInTime
<1>2. Spec /\ []InTime => []SameTicks
  BY AllTheSame
<1> QED BY <1>1, <1>2, PTL
=============================================================================
