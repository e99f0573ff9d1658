---------------------------- MODULE LobbyProofs ----------------------------
(***************************************************************************)
(* What is proved about all that happens around a game: what is offered is *)
(* shared, for every set of clients, of slots and of levels each of them   *)
(* has; for every set of clients and of options, and without bounds on     *)
(* keys and connections, everyone ends up seeing a player at the step the  *)
(* server knows, and all start with the same options; a quick game is      *)
(* itself; what is held is sent on every platform; and, for all menus with *)
(* something to choose, the screens lead where they should.                *)
(***************************************************************************)
EXTENDS MCLobby, WellFoundedInduction, TLAPS

-----------------------------------------------------------------------------
(* Content: what is offered.                                                *)

\* The server keeps a player and a list for each slot.
Tables ==
  /\ seat = [s \in Slots |-> seat[s]]
  /\ content = [s \in Slots |-> content[s]]

\* What the server has on file for a player whose list has arrived is what its
\* client has, not what the slot's last player left.
OnFile == \A s \in Playing \cap known : content[s] = Has[seat[s]]

\* Of what is on file nothing is offered that one of them lacks.
Stocked == \A s \in Playing \cap known : offered \subseteq content[s]

IInv == Tables /\ OnFile /\ Stocked

-----------------------------------------------------------------------------

\* A list made from all who play has nothing that one of them lacks.
LEMMA CommonIsShared ==
  ASSUME NEW slots, NEW lists, NEW s \in slots
  PROVE  CommonTo(slots, lists) \subseteq lists[s]
BY DEF CommonTo

\* A list that arrives is filed for the one who plays in its slot now, and the
\* offer is made anew from what is on file.
LEMMA UploadFiled ==
  ASSUME IInv, NEW s, NEW q, HandleUpload(s, q), seat' = seat
  PROVE  IInv'
<1> DEFINE lists == [content EXCEPT ![s] = Has[seat[s]]]
<1>1. content' = lists /\ known' = known \cup {s} /\ offered' = CommonTo(Playing, lists)
  BY DEF HandleUpload, NewList
<1>2. \A t \in Slots : lists[t] = IF t = s THEN Has[seat[s]] ELSE content[t]
  BY DEF IInv, Tables
<1>3. Playing' = Playing /\ Playing \subseteq Slots
  BY DEF Playing
<1>4. Tables'
  BY <1>1 DEF IInv, Tables
<1>5. OnFile'
  BY <1>1, <1>2, <1>3 DEF IInv, OnFile
<1>6. Stocked'
  <2> SUFFICES ASSUME NEW t \in Playing
               PROVE  offered' \subseteq content'[t]
    BY <1>3 DEF Stocked
  <2> HIDE DEF lists
  <2> QED BY <1>1, CommonIsShared
<1> QED BY <1>4, <1>5, <1>6 DEF IInv

\* A new player's list is taken for unknown, whatever its slot has on file.
LEMMA JoinUnknown ==
  ASSUME IInv, NEW c \in Clients, Join(c)
  PROVE  IInv'
<1> DEFINE s == Min(Slots \ Playing)
<1>1. /\ seat' = [seat EXCEPT ![s] = c] /\ known' = known \ {s}
      /\ UNCHANGED <<content, offered>>
  BY DEF Join
<1> HIDE DEF s
<1>2. Tables'
  BY <1>1 DEF IInv, Tables
<1>3. \A t \in Slots \ {s} : seat'[t] = seat[t]
  BY <1>1 DEF IInv, Tables
<1>4. \A t \in Playing' \cap known' : t \in Playing \cap known /\ seat'[t] = seat[t]
  BY <1>1, <1>3 DEF Playing
<1> QED BY <1>1, <1>2, <1>4 DEF IInv, OnFile, Stocked

\* Of a player who leaves nothing counts any more; the offer, once there is one,
\* is made of what the others have on file.
LEMMA LeaveShared ==
  ASSUME IInv, NEW c \in Clients, Leave(c)
  PROVE  IInv'
<1> DEFINE rest == Playing \ {port[c]}
<1>1. /\ seat' = [seat EXCEPT ![port[c]] = Nobody]
      /\ offered' = IF made THEN CommonTo(rest, content) ELSE offered
      /\ UNCHANGED <<content, known>>
  BY DEF Leave
<1>2. Tables'
  BY <1>1 DEF IInv, Tables
<1>3. \A t \in Slots : seat'[t] = IF t = port[c] THEN Nobody ELSE seat[t]
  BY <1>1 DEF IInv, Tables
<1>4. Playing' = rest /\ \A t \in rest : seat'[t] = seat[t]
  BY <1>3 DEF Playing
<1>5. OnFile'
  BY <1>1, <1>4 DEF IInv, OnFile
<1>6. Stocked'
  <2>1. CASE made
    BY <1>1, <1>4, <2>1, CommonIsShared DEF Stocked
  <2>2. CASE ~made
    BY <1>1, <1>4, <2>2 DEF IInv, Stocked
  <2> QED BY <2>1, <2>2
<1> QED BY <1>2, <1>5, <1>6 DEF IInv

\* Who is lost plays nowhere, and nobody else's slot changes.
LEMMA LoseShared ==
  ASSUME IInv, NEW c \in Clients, Lose(c)
  PROVE  IInv'
<1>1. /\ seat' = [s \in Slots |-> IF seat[s] = c THEN Nobody ELSE seat[s]]
      /\ UNCHANGED <<content, known, offered>>
  BY DEF Lose
<1>2. Tables'
  BY <1>1 DEF IInv, Tables
<1>3. \A t \in Playing' : t \in Playing /\ seat'[t] = seat[t]
  BY <1>1 DEF Playing
<1> QED BY <1>1, <1>2, <1>3 DEF IInv, OnFile, Stocked

\* Everything else leaves slots, lists and the offer as they are.
LEMMA Unrelated ==
  ASSUME IInv, UNCHANGED <<seat, content, known, offered>>
  PROVE  IInv'
BY DEF IInv, Tables, OnFile, Stocked, Playing

LEMMA ReceiveShared ==
  ASSUME IInv, NEW c \in Clients, Receive(c)
  PROVE  IInv'
<1> DEFINE m == Head(queue[c])
           q == [queue EXCEPT ![c] = Tail(@)]
<1>1. \/ HandleUpload(m.slot, q) /\ seat' = seat
      \/ UNCHANGED server
  BY DEF Receive
<1> HIDE DEF m, q
<1> QED BY <1>1, UploadFiled, Unrelated DEF server

-----------------------------------------------------------------------------
(* The theorems.                                                            *)

LEMMA Initial == Init => IInv
BY DEF Init, IInv, Tables, OnFile, Stocked, Playing

LEMMA Step == IInv /\ [Next]_vars => IInv'
<1> SUFFICES ASSUME IInv, [Next]_vars PROVE IInv'
  OBVIOUS
<1> USE DEF server
<1>1. ASSUME NEW c \in Clients, Watch(c) PROVE IInv'
  BY <1>1, Unrelated DEF Watch
<1>2. ASSUME NEW c \in Clients, Join(c) PROVE IInv'
  BY <1>2, JoinUnknown
<1>3. ASSUME NEW c \in Clients, Leave(c) PROVE IInv'
  BY <1>3, LeaveShared
<1>4. ASSUME NEW c \in Clients, Lose(c) PROVE IInv'
  BY <1>4, LoseShared
<1>5. ASSUME NEW c \in Clients, SelectProfile(c) PROVE IInv'
  BY <1>5, Unrelated DEF SelectProfile
<1>6. ASSUME NEW c \in Clients, Preview(c) PROVE IInv'
  BY <1>6, Unrelated DEF Preview
<1>7. ASSUME NEW c \in Clients, Choose(c) PROVE IInv'
  BY <1>7, Unrelated DEF Choose
<1>8. ASSUME NEW c \in Clients, StartNext(c) PROVE IInv'
  BY <1>8, Unrelated DEF StartNext
<1>9. ASSUME NEW c \in Clients, Receive(c) PROVE IInv'
  BY <1>9, ReceiveShared
<1>10. CASE HandleStart
  BY <1>10, Unrelated DEF HandleStart
<1>11. CASE UNCHANGED vars
  BY <1>11, Unrelated DEF vars
<1> QED BY <1>1, <1>2, <1>3, <1>4, <1>5, <1>6, <1>7, <1>8, <1>9, <1>10, <1>11 DEF Next

\* Whoever comes, goes or breaks off in whichever order: the list the server
\* offers has only levels that each player has whose own list has arrived, and
\* it goes by that player's list, not by what the slot's last one has left.
THEOREM OfferShared == Spec => [](SharedOffer /\ OnFile)
<1>1. IInv => SharedOffer /\ OnFile
  BY DEF IInv, OnFile, Stocked, SharedOffer
<1> QED BY <1>1, Initial, Step, PTL DEF Spec

-----------------------------------------------------------------------------
(* Queues of messages, and what one of them will have said when its first n *)
(* messages have been read.                                                 *)

\* A message that says what is of type t; the options may be unknown.
Sets(m, t) == m.type = t /\ m.arg # S!None

\* Where v stands after the first n messages, of own before them.
Reads(q, n, t, own, v) ==
  \/ \E i \in 1 .. n : /\ Sets(q[i], t) /\ q[i].arg = v
                       /\ \A j \in i + 1 .. n : ~ Sets(q[j], t)
  \/ own = v /\ \A j \in 1 .. n : ~ Sets(q[j], t)

\* Nobody is in the slot after the first n messages.
Out(q, n, own) ==
  \/ \E i \in 1 .. n : q[i].type = "REMOVE" /\ \A j \in i + 1 .. n : q[j].type # "ADD"
  \/ own = FALSE /\ \A j \in 1 .. n : q[j].type # "ADD"

In(q, t) == \E i \in 1 .. Len(q) : q[i].type = t

\* Queue r is q with messages of the types T after it.
Grown(q, r, T) ==
  /\ Len(q) <= Len(r) /\ \A i \in 1 .. Len(q) : r[i] = q[i]
  /\ \A i \in Len(q) + 1 .. Len(r) : r[i].type \in T

LEMMA Appended ==
  ASSUME NEW X, NEW q \in Seq(X), NEW m \in X
  PROVE  /\ Append(q, m) \in Seq(X) /\ Len(Append(q, m)) = Len(q) + 1
         /\ \A i \in 1 .. Len(q) : Append(q, m)[i] = q[i]
         /\ Append(q, m)[Len(q) + 1] = m
  OBVIOUS

LEMMA Joined2 ==
  ASSUME NEW X, NEW q \in Seq(X), NEW k \in Seq(X)
  PROVE  /\ q \o k \in Seq(X) /\ Len(q \o k) = Len(q) + Len(k)
         /\ \A i \in 1 .. Len(q) : (q \o k)[i] = q[i]
         /\ \A i \in 1 .. Len(k) : (q \o k)[Len(q) + i] = k[i]
  OBVIOUS

LEMMA Popped ==
  ASSUME NEW X, NEW q \in Seq(X), q # <<>>
  PROVE  /\ Tail(q) \in Seq(X) /\ Len(q) \in Nat \ {0} /\ Len(Tail(q)) = Len(q) - 1
         /\ \A i \in 1 .. Len(q) - 1 : Tail(q)[i] = q[i + 1]
         /\ Head(q) = q[1] /\ q[1] \in X
  OBVIOUS

LEMMA Lengths ==
  ASSUME NEW X, NEW q \in Seq(X)
  PROVE  /\ Len(q) \in Nat /\ DOMAIN q = 1 .. Len(q)
         /\ (q = <<>> <=> Len(q) = 0) /\ \A i \in 1 .. Len(q) : q[i] \in X
  OBVIOUS

LEMMA ReadsMore ==
  ASSUME NEW q, NEW r, NEW n \in Nat, NEW k \in Nat, n <= k, NEW t, NEW own, NEW v,
         \A i \in 1 .. n : r[i] = q[i],
         \A i \in n + 1 .. k : ~ Sets(r[i], t),
         Reads(q, n, t, own, v)
  PROVE  Reads(r, k, t, own, v)
<1>1. CASE own = v /\ \A j \in 1 .. n : ~ Sets(q[j], t)
  <2>1. \A j \in 1 .. k : ~ Sets(r[j], t)
    <3> SUFFICES ASSUME NEW j \in 1 .. k PROVE ~ Sets(r[j], t) OBVIOUS
    <3>1. j \in 1 .. n \/ j \in n + 1 .. k OBVIOUS
    <3> QED BY <1>1, <3>1
  <2> QED BY <1>1, <2>1 DEF Reads
<1>2. ASSUME NEW i \in 1 .. n, Sets(q[i], t), q[i].arg = v, \A j \in i + 1 .. n : ~ Sets(q[j], t)
      PROVE  Reads(r, k, t, own, v)
  <2>1. \A j \in i + 1 .. k : ~ Sets(r[j], t)
    <3> SUFFICES ASSUME NEW j \in i + 1 .. k PROVE ~ Sets(r[j], t) OBVIOUS
    <3>1. j \in i + 1 .. n \/ j \in n + 1 .. k OBVIOUS
    <3>2. j \in i + 1 .. n => j \in 1 .. n OBVIOUS
    <3> QED BY <1>2, <3>1, <3>2
  <2>2. i \in 1 .. k /\ r[i] = q[i] BY <1>2
  <2> QED BY <1>2, <2>1, <2>2 DEF Reads
<1> QED BY <1>1, <1>2 DEF Reads

LEMMA ReadsLast ==
  ASSUME NEW r, NEW k \in Nat, NEW t, NEW own, NEW v, NEW i \in 1 .. k,
         Sets(r[i], t), r[i].arg = v, \A j \in i + 1 .. k : ~ Sets(r[j], t)
  PROVE  Reads(r, k, t, own, v)
  BY DEF Reads

LEMMA ReadsFewer ==
  ASSUME NEW q, NEW r, NEW n \in Nat \ {0}, NEW t, NEW own, NEW v, NEW then,
         \A i \in 1 .. n - 1 : r[i] = q[i + 1],
         Sets(q[1], t) => then = q[1].arg,
         ~ Sets(q[1], t) => then = own,
         Reads(q, n, t, own, v)
  PROVE  Reads(r, n - 1, t, then, v)
<1>1. CASE own = v /\ \A j \in 1 .. n : ~ Sets(q[j], t)
  <2>1. \A j \in 1 .. n - 1 : j + 1 \in 1 .. n /\ r[j] = q[j + 1] OBVIOUS
  <2>2. 1 \in 1 .. n OBVIOUS
  <2> QED BY <1>1, <2>1, <2>2 DEF Reads
<1>2. ASSUME NEW i \in 1 .. n, Sets(q[i], t), q[i].arg = v, \A j \in i + 1 .. n : ~ Sets(q[j], t)
      PROVE  Reads(r, n - 1, t, then, v)
  <2>1. CASE i = 1
    <3>1. \A j \in 1 .. n - 1 : j + 1 \in i + 1 .. n /\ r[j] = q[j + 1] BY <2>1
    <3> QED BY <1>2, <2>1, <3>1 DEF Reads
  <2>2. CASE i # 1
    <3>1. /\ i - 1 \in 1 .. n - 1 /\ r[i - 1] = q[i]
          /\ \A j \in (i - 1) + 1 .. n - 1 : j + 1 \in i + 1 .. n /\ r[j] = q[j + 1]
      <4>1. i - 1 \in 1 .. n - 1 /\ (i - 1) + 1 = i BY <2>2
      <4>2. \A j \in i .. n - 1 : j \in 1 .. n - 1 /\ j + 1 \in i + 1 .. n OBVIOUS
      <4> QED BY <4>1, <4>2
    <3>2. \A j \in (i - 1) + 1 .. n - 1 : ~ Sets(r[j], t) BY <1>2, <3>1
    <3> QED BY <1>2, <3>1, <3>2 DEF Reads
  <2> QED BY <2>1, <2>2
<1> QED BY <1>1, <1>2 DEF Reads

LEMMA OutMore ==
  ASSUME NEW q, NEW r, NEW n \in Nat, NEW k \in Nat, n <= k, NEW own,
         \A i \in 1 .. n : r[i] = q[i],
         \A i \in n + 1 .. k : r[i].type # "ADD",
         Out(q, n, own)
  PROVE  Out(r, k, own)
<1>1. CASE own = FALSE /\ \A j \in 1 .. n : q[j].type # "ADD"
  <2>1. \A j \in 1 .. k : r[j].type # "ADD"
    <3> SUFFICES ASSUME NEW j \in 1 .. k PROVE r[j].type # "ADD" OBVIOUS
    <3>1. j \in 1 .. n \/ j \in n + 1 .. k OBVIOUS
    <3> QED BY <1>1, <3>1
  <2> QED BY <1>1, <2>1 DEF Out
<1>2. ASSUME NEW i \in 1 .. n, q[i].type = "REMOVE", \A j \in i + 1 .. n : q[j].type # "ADD"
      PROVE  Out(r, k, own)
  <2>1. \A j \in i + 1 .. k : r[j].type # "ADD"
    <3> SUFFICES ASSUME NEW j \in i + 1 .. k PROVE r[j].type # "ADD" OBVIOUS
    <3>1. j \in i + 1 .. n \/ j \in n + 1 .. k OBVIOUS
    <3>2. j \in i + 1 .. n => j \in 1 .. n OBVIOUS
    <3> QED BY <1>2, <3>1, <3>2
  <2>2. i \in 1 .. k /\ r[i] = q[i] BY <1>2
  <2> QED BY <1>2, <2>1, <2>2 DEF Out
<1> QED BY <1>1, <1>2 DEF Out

LEMMA OutFewer ==
  ASSUME NEW q, NEW r, NEW n \in Nat \ {0}, NEW own, NEW then,
         \A i \in 1 .. n - 1 : r[i] = q[i + 1],
         q[1].type = "REMOVE" => then = FALSE,
         q[1].type \notin {"ADD", "REMOVE"} => then = own,
         Out(q, n, own)
  PROVE  Out(r, n - 1, then)
<1>1. CASE own = FALSE /\ \A j \in 1 .. n : q[j].type # "ADD"
  <2>1. \A j \in 1 .. n - 1 : j + 1 \in 1 .. n /\ r[j] = q[j + 1] OBVIOUS
  <2>2. 1 \in 1 .. n OBVIOUS
  <2> QED BY <1>1, <2>1, <2>2 DEF Out
<1>2. ASSUME NEW i \in 1 .. n, q[i].type = "REMOVE", \A j \in i + 1 .. n : q[j].type # "ADD"
      PROVE  Out(r, n - 1, then)
  <2>1. CASE i = 1
    <3>1. \A j \in 1 .. n - 1 : j + 1 \in i + 1 .. n /\ r[j] = q[j + 1] BY <2>1
    <3> QED BY <1>2, <2>1, <3>1 DEF Out
  <2>2. CASE i # 1
    <3>1. /\ i - 1 \in 1 .. n - 1 /\ r[i - 1] = q[i]
          /\ \A j \in (i - 1) + 1 .. n - 1 : j + 1 \in i + 1 .. n /\ r[j] = q[j + 1]
      <4>1. i - 1 \in 1 .. n - 1 /\ (i - 1) + 1 = i BY <2>2
      <4>2. \A j \in i .. n - 1 : j \in 1 .. n - 1 /\ j + 1 \in i + 1 .. n OBVIOUS
      <4> QED BY <4>1, <4>2
    <3>2. \A j \in (i - 1) + 1 .. n - 1 : r[j].type # "ADD" BY <1>2, <3>1
    <3> QED BY <1>2, <3>1, <3>2 DEF Out
  <2> QED BY <2>1, <2>2
<1> QED BY <1>1, <1>2 DEF Out

-----------------------------------------------------------------------------
(* The invariant.                                                           *)

Plain(kinds) == [type : kinds, arg : {0}]
StepMessages == [type : {"STEP"}, arg : S!Steps]

Upward   == Plain({"JOIN", "LEAVE", "SELECT", "START"}) \cup StepMessages
              \cup [type : {"RULES"}, arg : Rules]
Downward == Plain({"CONNECT", "ADD", "REMOVE", "DISCONNECT", "SELECT", "START"})
              \cup StepMessages \cup [type : {"RULES"}, arg : Rules \cup {S!None}]

SetupTypes ==
  /\ setupSeat \in Clients \cup {S!Nobody} /\ setupKept \in S!Steps
  /\ rulesKept \in Rules \cup {S!None} /\ setupPhase \in {"OFF", "PLAYING"}
  /\ setupWatching \in SUBSET Clients /\ Master \in setupWatching
  /\ setupPort \in [Clients -> BOOLEAN] /\ playing \in [Clients -> BOOLEAN]
  /\ local \in [Clients -> BOOLEAN] /\ step \in [Clients -> S!Steps]
  /\ rules \in [Clients -> Rules] /\ began \in [Clients -> Rules \cup {S!None}]
  /\ up \in [Clients -> Seq(Upward)] /\ sentDown \in [Clients -> Seq(Downward)]
  /\ hasty \in BOOLEAN

\* Who does not watch has nothing under way, and only the one in charge starts.
Away ==
  /\ setupSeat = S!Nobody \/ setupSeat \in setupWatching
  /\ \A c \in Clients \ setupWatching :
       /\ up[c] = <<>> /\ sentDown[c] = <<>> /\ began[c] = S!None
       /\ setupPort[c] = FALSE /\ playing[c] = FALSE
  /\ \A c \in Clients \ {Master} : ~ In(up[c], "RULES") /\ ~ In(up[c], "START")

\* Once all that is on its way has arrived the options are those of the server.
Agreed(c) == Reads(sentDown[c], Len(sentDown[c]), "RULES", rules[c], rulesKept)

Joined(c) == setupPort[c] = TRUE \/ In(sentDown[c], "CONNECT")

BeforeStart ==
  setupPhase = "OFF" =>
    /\ \A c \in Clients : began[c] = S!None /\ ~ In(sentDown[c], "START")
    /\ rulesKept # S!None => \A c \in Clients \ {Master} : Joined(c) => Agreed(c)
    /\ \A i \in 1 .. Len(up[Master]) :
         up[Master][i].type = "START" =>
           \/ \E j \in 1 .. i - 1 : up[Master][j].type = "RULES"
           \/ rulesKept # S!None /\ Agreed(Master)

\* A game that is started by a message in q is started with the options r.
Starts(q, own, r) ==
  \A i \in 1 .. Len(q) : q[i].type = "START" => Reads(q, i - 1, "RULES", own, r)

\* A client starts, or has started, with r.
Begins(c, r) == began[c] \in {S!None, r} /\ Starts(sentDown[c], rules[c], r)

AfterStart ==
  setupPhase = "PLAYING" =>
    \E r \in Rules : \A c \in Clients : c = Master \/ Joined(c) => Begins(c, r)

\* A newcomer is told of its controller, its player, the options and the step.
Greets(q) ==
  \A i \in 1 .. Len(q) :
    q[i].type = "CONNECT" =>
      i + 3 <= Len(q) /\ q[i + 1].type = "ADD" /\ Sets(q[i + 3], "STEP")

Greeting == \A c \in Clients : Greets(sentDown[c])

Quiet(q, n) == \A i \in n .. Len(q) : q[i].type \notin {"ADD", "REMOVE"}

\* With the i-th message the player comes, for good, and then its step.
Greeted(q, i) ==
  i + 2 <= Len(q) /\ q[i].type = "ADD" /\ Sets(q[i + 2], "STEP") /\ Quiet(q, i + 1)

\* Whose player is in the slot will learn it, or knows it.
Coming(q, po, pl, lo) ==
  \/ \E i \in 1 .. Len(q) :
       q[i].type = "CONNECT" /\ Greeted(q, i + 1) /\ Out(q, i - 1, pl)
  \/ Greeted(q, 1) /\ po = TRUE /\ pl = FALSE
  \/ Quiet(q, 1) /\ pl = TRUE /\ lo = TRUE

Seated(c) == Coming(sentDown[c], setupPort[c], playing[c], local[c])

Places ==
  /\ setupSeat = S!Nobody =>
       \A c \in setupWatching : Out(sentDown[c], Len(sentDown[c]), playing[c])
  /\ setupSeat # S!Nobody => Seated(setupSeat)

\* A selection is on its way, and no step after it.
Picked(q) ==
  \E i \in 1 .. Len(q) :
    q[i].type = "SELECT" /\ \A j \in i + 1 .. Len(q) : ~ Sets(q[j], "STEP")

Selected(c) == Picked(sentDown[c])

\* The server is going to be told of c's step.
Due(c) ==
  \/ In(up[c], "STEP") \/ In(sentDown[c], "CONNECT")
  \/ sentDown[c] # <<>> /\ sentDown[c][1].type = "ADD" /\ step[c] = "PROFILE"

Sees(c) == Reads(sentDown[c], Len(sentDown[c]), "STEP", step[c], setupKept)

\* Unless the server is going to be told, the player's own client sees the step
\* the server knows.  So do the others, or they are going to tell another one, or
\* the player's own client is going to find the character that has been selected.
Follow ==
  hasty = FALSE /\ setupSeat # S!Nobody /\ ~ Due(setupSeat) =>
    /\ Sees(setupSeat)
    /\ \A c \in setupWatching :
         /\ \/ Sees(c) \/ In(up[c], "STEP")
            \/ setupKept = "WAIT" /\ Selected(setupSeat)
         /\ setupKept = "WAIT" /\ Selected(c) => Selected(setupSeat)

SetupInv == /\ SetupTypes /\ Away /\ BeforeStart /\ AfterStart
            /\ Greeting /\ Places /\ Follow

-----------------------------------------------------------------------------
LEMMA Kinds ==
  /\ \A m \in Upward : /\ m.type = "RULES" => m.arg \in Rules
                       /\ m.type = "STEP" => m.arg \in S!Steps
                       /\ m.type \in {"JOIN", "LEAVE", "SELECT", "START", "STEP", "RULES"}
  /\ \A m \in Downward : /\ m.type = "RULES" => m.arg \in Rules \cup {S!None}
                         /\ m.type = "STEP" => m.arg \in S!Steps
  BY DEF Upward, Downward, Plain, StepMessages

LEMMA Sendable ==
  /\ \A t \in {"JOIN", "LEAVE", "SELECT", "START"} : S!Msg(t, 0) \in Upward
  /\ \A s \in S!Steps : S!Msg("STEP", s) \in Upward /\ S!Msg("STEP", s) \in Downward
  /\ \A r \in Rules : S!Msg("RULES", r) \in Upward
  /\ \A t \in {"CONNECT", "ADD", "REMOVE", "DISCONNECT"} : S!Msg(t, 0) \in Downward
  /\ \A r \in Rules \cup {S!None} : S!Msg("RULES", r) \in Downward
  BY DEF S!Msg, Upward, Downward, Plain, StepMessages

LEMMA PassedOn ==
  ASSUME NEW m \in Upward, m.type \in {"STEP", "SELECT", "RULES", "START"}
  PROVE  m \in Downward
  BY DEF Upward, Downward, Plain, StepMessages

LEMMA Constants ==
  /\ Master \in Clients /\ S!Nobody \notin Clients /\ LeftAt \subseteq S!Steps
  /\ S!None \notin Rules /\ S!None \notin S!Steps
  /\ \A s \in {"PROFILE", "PROFILED", "WAIT", "FOUND", "DONE"} : s \in S!Steps
  BY SetupAssumption DEF S!None, S!Steps

LEMMA SetupInit == S!Init => SetupInv
<1> SUFFICES ASSUME S!Init PROVE SetupInv OBVIOUS
<1> USE Constants
<1>1. /\ \A c \in Clients : up[c] = <<>> /\ sentDown[c] = <<>> /\ began[c] = S!None
                            /\ setupPort[c] = FALSE /\ playing[c] = FALSE
      /\ setupSeat = S!Nobody /\ setupPhase = "OFF" /\ setupWatching = {Master}
  BY DEF S!Init
<1>2. Len(<<>>) = 0 OBVIOUS
<1>3. <<>> \in Seq(Upward) /\ <<>> \in Seq(Downward) OBVIOUS
<1>4. SetupTypes
  BY <1>3 DEF S!Init, SetupTypes
<1>5. \A t : \A c \in Clients : ~ In(up[c], t) /\ ~ In(sentDown[c], t)
  BY <1>1, <1>2 DEF In
<1>6. Away BY <1>1, <1>5 DEF Away
<1>7. BeforeStart /\ AfterStart
  BY <1>1, <1>2, <1>5 DEF BeforeStart, AfterStart, Joined
<1>8. Greeting BY <1>1, <1>2 DEF Greeting, Greets
<1>9. Places /\ Follow
  BY <1>1, <1>2 DEF Places, Out, Follow
<1> QED BY <1>4, <1>6, <1>7, <1>8, <1>9 DEF SetupInv

-----------------------------------------------------------------------------
(* What the player's keys do.                                               *)

LEMMA GrownBy ==
  ASSUME NEW X, NEW q \in Seq(X), NEW k \in Seq(X), NEW T, \A i \in 1 .. Len(k) : k[i].type \in T
  PROVE  /\ q \o k \in Seq(X) /\ Grown(q, q \o k, T)
         /\ \A t : In(k, t) => In(q \o k, t)
<1> DEFINE r == q \o k
<1>1. /\ r \in Seq(X) /\ Len(r) = Len(q) + Len(k) /\ Len(q) \in Nat /\ Len(k) \in Nat
      /\ \A i \in 1 .. Len(q) : r[i] = q[i]
      /\ \A i \in 1 .. Len(k) : r[Len(q) + i] = k[i]
  BY Joined2, Lengths
<1> HIDE DEF r
<1>2. ASSUME NEW i \in Len(q) + 1 .. Len(r) PROVE r[i].type \in T
  <2>1. i - Len(q) \in 1 .. Len(k) /\ Len(q) + (i - Len(q)) = i BY <1>1
  <2> QED BY <1>1, <2>1
<1>3. ASSUME NEW t, In(k, t) PROVE In(r, t)
  <2>1. PICK i \in 1 .. Len(k) : k[i].type = t BY <1>3 DEF In
  <2>2. Len(q) + i \in 1 .. Len(r) BY <1>1
  <2> QED BY <1>1, <2>1, <2>2 DEF In
<1>4. Grown(q, r, T) BY <1>1, <1>2 DEF Grown
<1> QED BY <1>1, <1>3, <1>4 DEF r

LEMMA GrownTwice ==
  ASSUME NEW X, NEW q \in Seq(X), NEW r \in Seq(X), NEW s \in Seq(X), NEW T,
         Grown(q, r, T), Grown(r, s, T)
  PROVE  Grown(q, s, T)
<1>1. Len(q) \in Nat /\ Len(r) \in Nat /\ Len(s) \in Nat BY Lengths
<1>2. ASSUME NEW i \in Len(q) + 1 .. Len(s) PROVE s[i].type \in T
  <2>1. i \in Len(q) + 1 .. Len(r) \/ i \in Len(r) + 1 .. Len(s) BY <1>1
  <2>2. i \in Len(q) + 1 .. Len(r) => i \in 1 .. Len(r) BY <1>1
  <2> QED BY <2>1, <2>2 DEF Grown
<1>3. ASSUME NEW i \in 1 .. Len(q) PROVE s[i] = q[i]
  <2>1. i \in 1 .. Len(r) BY <1>1 DEF Grown
  <2> QED BY <2>1 DEF Grown
<1> QED BY <1>1, <1>2, <1>3 DEF Grown

LEMMA InGrown ==
  ASSUME NEW X, NEW q \in Seq(X), NEW r \in Seq(X), NEW T, Grown(q, r, T), NEW t
  PROVE  /\ In(q, t) => In(r, t)
         /\ In(r, t) => In(q, t) \/ t \in T
<1>1. Len(q) \in Nat /\ Len(r) \in Nat BY Lengths
<1>2. ASSUME NEW i \in 1 .. Len(r) PROVE i \in 1 .. Len(q) \/ i \in Len(q) + 1 .. Len(r)
  BY <1>1
<1>3. ASSUME NEW i \in 1 .. Len(q) PROVE i \in 1 .. Len(r) BY <1>1 DEF Grown
<1> QED BY <1>2, <1>3 DEF In, Grown

LEMMA ToldOf ==
  ASSUME SetupTypes, NEW c \in Clients, NEW s \in S!Steps
  PROVE  /\ S!Told(c, s) \in Seq(Upward)
         /\ \A i \in 1 .. Len(S!Told(c, s)) : S!Told(c, s)[i].type \in {"STEP"}
         /\ local[c] = TRUE => In(S!Told(c, s), "STEP")
         /\ local[c] = FALSE => S!Told(c, s) = <<>>
<1>1. S!Msg("STEP", s) \in Upward /\ S!Msg("STEP", s).type = "STEP" BY Sendable DEF S!Msg
<1> DEFINE m == S!Msg("STEP", s)
<1> HIDE DEF m
<1>2. CASE local[c] = TRUE
  <2>1. S!Told(c, s) = <<m>> BY <1>2 DEF S!Told, m
  <2>2. <<m>> \in Seq(Upward) /\ Len(<<m>>) = 1 /\ <<m>>[1] = m BY <1>1 DEF m
  <2>3. m.type = "STEP" BY <1>1 DEF m
  <2>4. In(<<m>>, "STEP") BY <2>2, <2>3 DEF In
  <2> QED BY <1>2, <2>1, <2>2, <2>3, <2>4
<1>3. CASE local[c] = FALSE
  <2>1. S!Told(c, s) = <<>> BY <1>3 DEF S!Told
  <2> QED BY <1>3, <2>1
<1>4. local[c] \in BOOLEAN BY DEF SetupTypes
<1> QED BY <1>2, <1>3, <1>4

PlayerKinds == {"JOIN", "LEAVE", "SELECT", "STEP"}
KeyKinds(c) == IF c = Master THEN PlayerKinds \cup {"RULES", "START"} ELSE PlayerKinds

\* The player at c does something: others are not concerned.
Keyed(c) ==
  /\ c \in setupWatching
  /\ UNCHANGED <<setupSeat, setupKept, rulesKept, setupPhase, setupWatching, sentDown,
                 setupPort, playing, local, began>>
  /\ \A d \in Clients \ {c} : up'[d] = up[d] /\ step'[d] = step[d]
  /\ \A d \in Clients : rules'[d] = rules[d] \/ (d = Master /\ ~ S!Starting)
  /\ Grown(up[c], up'[c], KeyKinds(c))
  /\ \A i \in Len(up[c]) + 1 .. Len(up'[c]) :
       up'[c][i].type = "START" => \E j \in 1 .. i - 1 : up'[c][j].type = "RULES"
  /\ step'[c] = step[c] \/ In(up'[c], "STEP") \/ hasty' = TRUE
  /\ hasty' = hasty \/ hasty' = TRUE
  /\ SetupTypes'

LEMMA TurnKeyed ==
  ASSUME SetupTypes, Away, NEW c \in Clients, NEW from, NEW to \in S!Steps,
         NEW also \in {<<>>, <<S!Msg("SELECT", 0)>>}, S!Turn(c, from, to, also)
  PROVE  Keyed(c)
<1> DEFINE a == S!Told(c, to)
           T == PlayerKinds
<1>1. /\ setupPort[c] /\ step' = [step EXCEPT ![c] = to]
      /\ up' = [up EXCEPT ![c] = up[c] \o a \o also]
      /\ hasty' = (hasty \/ ~ local[c])
      /\ UNCHANGED <<setupSeat, setupKept, rulesKept, setupPhase, setupWatching, sentDown,
                     setupPort, playing, local, rules, began>>
  BY DEF S!Turn, S!server, S!Press
<1>2. c \in setupWatching BY <1>1 DEF Away
<1>3. /\ a \in Seq(Upward) /\ \A i \in 1 .. Len(a) : a[i].type \in T
      /\ local[c] = TRUE => In(a, "STEP")
  <2>1. "STEP" \in T BY DEF PlayerKinds
  <2> QED BY <2>1, ToldOf
<1>4. also \in Seq(Upward) /\ \A i \in 1 .. Len(also) : also[i].type \in T
  <2>1. S!Msg("SELECT", 0) \in Upward /\ S!Msg("SELECT", 0).type = "SELECT" BY Sendable DEF S!Msg
  <2> HIDE DEF T
  <2>2. "SELECT" \in T BY DEF T, PlayerKinds
  <2>3. PICK m : m = S!Msg("SELECT", 0) OBVIOUS
  <2>4. <<m>> \in Seq(Upward) /\ Len(<<m>>) = 1 /\ <<m>>[1] = m BY <2>1, <2>3
  <2>5. CASE also = <<m>> BY <2>1, <2>2, <2>3, <2>4, <2>5
  <2>6. CASE also = <<>> BY <2>6
  <2> QED BY <2>3, <2>5, <2>6
<1>5. up[c] \in Seq(Upward) BY DEF SetupTypes
<1> HIDE DEF a, T
<1>6. /\ up[c] \o a \in Seq(Upward) /\ Grown(up[c], up[c] \o a, T)
      /\ local[c] = TRUE => In(up[c] \o a, "STEP")
  BY <1>3, <1>5, GrownBy
<1> DEFINE r == up[c] \o a
           s == r \o also
<1> HIDE DEF r
<1>7. s \in Seq(Upward) /\ Grown(r, s, T) BY <1>4, <1>6, GrownBy DEF r
<1>8. up' = [up EXCEPT ![c] = s] BY <1>1 DEF r
<1> HIDE DEF s
<1>9. Grown(up[c], s, T) BY <1>5, <1>6, <1>7, GrownTwice DEF r
<1>10. local[c] = TRUE => In(s, "STEP") BY <1>6, <1>7, InGrown DEF r
<1>11. /\ up'[c] = s /\ \A d \in Clients \ {c} : up'[d] = up[d] /\ step'[d] = step[d]
  BY <1>1, <1>8 DEF SetupTypes
<1>12. SetupTypes' BY <1>1, <1>7, <1>8 DEF SetupTypes
<1>13. Grown(up[c], s, KeyKinds(c))
  BY <1>9 DEF Grown, T, KeyKinds
<1>14. \A i \in Len(up[c]) + 1 .. Len(s) : s[i].type # "START" BY <1>9 DEF Grown, T, PlayerKinds
<1>15. (hasty' = hasty \/ hasty' = TRUE) /\ (In(s, "STEP") \/ hasty' = TRUE)
  <2>1. hasty \in BOOLEAN /\ local[c] \in BOOLEAN BY DEF SetupTypes
  <2> QED BY <1>1, <1>10, <2>1
<1> QED BY <1>1, <1>2, <1>11, <1>12, <1>13, <1>14, <1>15 DEF Keyed, T

LEMMA SetupKeyKeyed ==
  ASSUME SetupTypes, Away, NEW c \in Clients, S!Fire(c) \/ S!Jump(c) \/ S!Choose(c)
  PROVE  Keyed(c)
<1>1. \A s \in {"PROFILE", "PROFILED", "WAIT", "FOUND", "DONE"} : s \in S!Steps BY Constants
<1>2. CASE S!Fire(c) BY <1>1, <1>2, TurnKeyed DEF S!Fire
<1>3. CASE S!Jump(c) BY <1>1, <1>3, TurnKeyed DEF S!Jump
<1>4. CASE S!Choose(c) BY <1>1, <1>4, TurnKeyed DEF S!Choose
<1> QED BY <1>2, <1>3, <1>4

\* A single message.
LEMMA AskKeyed ==
  ASSUME SetupTypes, NEW c \in setupWatching, NEW t \in {"JOIN", "LEAVE"},
         up' = [up EXCEPT ![c] = Append(@, S!Msg(t, 0))],
         UNCHANGED <<setupSeat, setupKept, rulesKept, setupPhase, setupWatching, sentDown,
                     setupPort, playing, local, step, rules, began, hasty>>
  PROVE  Keyed(c)
<1> DEFINE m == S!Msg(t, 0)
           r == Append(up[c], m)
<1>1. m \in Upward /\ m.type = t BY Sendable DEF S!Msg
<1>2. c \in Clients /\ up[c] \in Seq(Upward) BY DEF SetupTypes
<1>4. up' = [up EXCEPT ![c] = r] OBVIOUS
<1> HIDE DEF m
<1>3. /\ r \in Seq(Upward) /\ Len(r) = Len(up[c]) + 1 /\ Len(up[c]) \in Nat
      /\ \A i \in 1 .. Len(up[c]) : r[i] = up[c][i]
      /\ r[Len(up[c]) + 1] = m
  BY <1>1, <1>2, Appended, Lengths
<1> HIDE DEF r
<1>5. up'[c] = r /\ \A d \in Clients \ {c} : up'[d] = up[d]
  BY <1>2, <1>4 DEF SetupTypes
<1>6. \A i \in Len(up[c]) + 1 .. Len(r) : r[i].type = t BY <1>1, <1>3
<1>7. Grown(up[c], r, KeyKinds(c)) BY <1>3, <1>6 DEF Grown, KeyKinds, PlayerKinds
<1>8. SetupTypes' BY <1>3, <1>4 DEF SetupTypes
<1> QED BY <1>5, <1>6, <1>7, <1>8 DEF Keyed

LEMMA ChangeRulesKeyed ==
  ASSUME SetupTypes, Away, S!ChangeRules
  PROVE  Keyed(Master)
<1>1. PICK r \in Rules : rules' = [rules EXCEPT ![Master] = r] BY DEF S!ChangeRules
<1>2. /\ ~ S!Starting
      /\ UNCHANGED <<setupSeat, setupKept, rulesKept, setupPhase, setupWatching, sentDown,
                     setupPort, playing, local, step, began, hasty, up>>
  BY DEF S!ChangeRules, S!server
<1>3. \A d \in Clients : rules'[d] = rules[d] \/ d = Master BY <1>1 DEF SetupTypes
<1>4. SetupTypes' BY <1>1, <1>2 DEF SetupTypes
<1>5. up[Master] \in Seq(Upward) /\ Master \in setupWatching BY Constants DEF SetupTypes
<1>6. Grown(up[Master], up[Master], KeyKinds(Master)) BY <1>5, Lengths DEF Grown
<1>7. Len(up[Master]) + 1 .. Len(up[Master]) = {} BY <1>5, Lengths
<1> QED BY <1>2, <1>3, <1>4, <1>5, <1>6, <1>7 DEF Keyed

LEMMA AskToStartKeyed ==
  ASSUME SetupTypes, Away, S!AskToStart
  PROVE  Keyed(Master)
<1> DEFINE m == S!Msg("RULES", rules[Master])
           k == S!Told(Master, step[Master])
           a == IF playing[Master] THEN k ELSE <<>>
           z == S!Msg("START", 0)
           T == {"STEP", "RULES", "START"}
           q == up[Master]
           r == q \o (<<m>> \o a \o <<z>>)
<1>1. /\ up' = [up EXCEPT ![Master] = r]
      /\ UNCHANGED <<setupSeat, setupKept, rulesKept, setupPhase, setupWatching, sentDown,
                     setupPort, playing, local, step, rules, began, hasty>>
  BY DEF S!AskToStart, S!StartMessages, S!server, S!client
<1>2. /\ Master \in setupWatching /\ Master \in Clients /\ q \in Seq(Upward)
      /\ rules[Master] \in Rules /\ step[Master] \in S!Steps /\ playing[Master] \in BOOLEAN
  BY Constants DEF SetupTypes
<1>3. m \in Upward /\ m.type = "RULES" /\ z \in Upward /\ z.type = "START"
  BY <1>2, Sendable DEF S!Msg
<1>4. k \in Seq(Upward) /\ \A i \in 1 .. Len(k) : k[i].type \in {"STEP"} BY <1>2, ToldOf
<1> HIDE DEF m, z, k
<1>5. a \in Seq(Upward) /\ \A i \in 1 .. Len(a) : a[i].type = "STEP" BY <1>2, <1>4
<1> HIDE DEF a
<1> DEFINE b == <<m>> \o a
           e == b \o <<z>>
<1>6. <<m>> \in Seq(Upward) /\ Len(<<m>>) = 1 /\ <<m>>[1] = m
      /\ <<z>> \in Seq(Upward) /\ Len(<<z>>) = 1 /\ <<z>>[1] = z
  BY <1>3
<1>7. b \in Seq(Upward) /\ Grown(<<m>>, b, T)
  BY <1>5, <1>6, GrownBy
<1> HIDE DEF b
<1>8. e \in Seq(Upward) /\ Grown(b, e, T)
  <2>1. \A i \in 1 .. Len(<<z>>) : <<z>>[i].type \in T BY <1>3, <1>6
  <2> HIDE DEF T
  <2> QED BY <1>6, <1>7, <2>1, GrownBy
<1> HIDE DEF e
<1>9. e \in Seq(Upward) /\ Grown(<<m>>, e, T) BY <1>6, <1>7, <1>8, GrownTwice
<1>10. e[1] = m /\ 1 \in 1 .. Len(e) /\ \A i \in 1 .. Len(e) : e[i].type \in T
  <2>1. Len(e) \in Nat /\ Len(e) >= 1 /\ e[1] = m BY <1>6, <1>9, Lengths DEF Grown
  <2>2. \A i \in 1 .. Len(e) : i = 1 \/ i \in Len(<<m>>) + 1 .. Len(e) BY <1>6, <2>1
  <2> QED BY <1>3, <1>9, <2>1, <2>2 DEF Grown
<1>11. r = q \o e BY DEF b, e
<1>12. /\ r \in Seq(Upward) /\ Len(r) = Len(q) + Len(e) /\ Len(q) \in Nat /\ Len(e) \in Nat
       /\ \A i \in 1 .. Len(q) : r[i] = q[i]
       /\ \A i \in 1 .. Len(e) : r[Len(q) + i] = e[i]
  <2>1. q \in Seq(Upward) /\ e \in Seq(Upward) BY <1>2, <1>9
  <2> HIDE DEF q, r
  <2> QED BY <1>11, <2>1, Joined2, Lengths
<1>13. Grown(q, r, T)
  <2> HIDE DEF q, r, T
  <2> QED BY <1>2, <1>9, <1>10, <1>11, GrownBy
<1> HIDE DEF r, q
<1>14. \A i \in Len(q) + 1 .. Len(r) :
         r[i].type = "START" => \E j \in 1 .. i - 1 : r[j].type = "RULES"
  <2> SUFFICES ASSUME NEW i \in Len(q) + 1 .. Len(r), r[i].type = "START"
               PROVE  \E j \in 1 .. i - 1 : r[j].type = "RULES"
    OBVIOUS
  <2>1. r[Len(q) + 1] = m BY <1>10, <1>12
  <2>2. i # Len(q) + 1 BY <1>3, <2>1
  <2>3. Len(q) + 1 \in 1 .. i - 1 BY <1>12, <2>2
  <2> QED BY <1>3, <2>1, <2>3
<1>15. /\ up'[Master] = r /\ q = up[Master] /\ \A d \in Clients \ {Master} : up'[d] = up[d]
       /\ SetupTypes'
  BY <1>1, <1>2, <1>12 DEF SetupTypes, q
<1>16. Grown(q, r, KeyKinds(Master)) BY <1>13 DEF Grown, KeyKinds, PlayerKinds
<1> QED BY <1>1, <1>2, <1>14, <1>15, <1>16 DEF Keyed

LEMMA KeyedInv ==
  ASSUME SetupInv, NEW c \in Clients, Keyed(c)
  PROVE  SetupInv'
<1>1. SetupTypes /\ Away /\ BeforeStart /\ AfterStart /\ Greeting /\ Places /\ Follow
  BY DEF SetupInv
<1>2. /\ UNCHANGED <<setupSeat, setupKept, rulesKept, setupPhase, setupWatching, sentDown,
                     setupPort, playing, local, began>>
      /\ SetupTypes' /\ c \in setupWatching
  BY DEF Keyed
<1>3. /\ \A d \in Clients : up[d] \in Seq(Upward) /\ up'[d] \in Seq(Upward)
      /\ Master \in Clients /\ setupWatching \subseteq Clients
  BY <1>1, <1>2, Constants DEF SetupTypes
<1>4. \A d \in Clients \ {c} : up'[d] = up[d] /\ step'[d] = step[d] BY DEF Keyed
<1>5. Grown(up[c], up'[c], KeyKinds(c)) BY DEF Keyed
<1>6. ASSUME NEW d \in Clients, NEW t
      PROVE  /\ In(up[d], t) => In(up'[d], t)
             /\ In(up'[d], t) => In(up[d], t) \/ (d = c /\ t \in KeyKinds(c))
  <2>1. CASE d = c BY <1>3, <1>5, <2>1, InGrown
  <2>2. CASE d # c BY <1>4, <2>2
  <2> QED BY <2>1, <2>2
<1>7. Away'
  <2>1. \A d \in Clients \ setupWatching : up'[d] = up[d] BY <1>2, <1>4
  <2>2. \A d \in Clients \ {Master} : ~ In(up'[d], "RULES") /\ ~ In(up'[d], "START")
    BY <1>1, <1>6 DEF Away, KeyKinds, PlayerKinds
  <2> QED BY <1>1, <1>2, <2>1, <2>2 DEF Away
<1>8. \A d \in Clients : rules'[d] = rules[d] \/ (d = Master /\ ~ S!Starting) BY DEF Keyed
<1>9. \A i \in 1 .. Len(up[Master]) : up[Master][i].type = "START" => S!Starting
  BY <1>3, Lengths DEF S!Starting
<1>10. BeforeStart'
  <2> SUFFICES ASSUME setupPhase = "OFF" PROVE BeforeStart'
    BY <1>2 DEF BeforeStart
  <2>1. \A d \in Clients : began'[d] = S!None /\ ~ In(sentDown'[d], "START")
    BY <1>1, <1>2 DEF BeforeStart
  <2>2. \A d \in Clients : (Joined(d)' <=> Joined(d)) /\ (rules'[d] = rules[d] => (Agreed(d)' <=> Agreed(d)))
    BY <1>2 DEF Joined, Agreed
  <2>3. rulesKept' # S!None => \A d \in Clients \ {Master} : Joined(d)' => Agreed(d)'
    BY <1>1, <1>2, <1>8, <2>2 DEF BeforeStart
  <2>4. ASSUME NEW i \in 1 .. Len(up'[Master]), up'[Master][i].type = "START"
        PROVE  \/ \E j \in 1 .. i - 1 : up'[Master][j].type = "RULES"
               \/ rulesKept' # S!None /\ Agreed(Master)'
    <3>1. CASE i \in 1 .. Len(up[Master]) /\ up[Master][i] = up'[Master][i]
      <4>1. rules'[Master] = rules[Master] BY <1>3, <1>8, <1>9, <2>4, <3>1
      <4>2. CASE rulesKept # S!None /\ Agreed(Master) BY <1>2, <1>3, <2>2, <4>1, <4>2
      <4>3. ASSUME NEW j \in 1 .. i - 1, up[Master][j].type = "RULES"
            PROVE  up'[Master][j].type = "RULES"
        <5>1. j \in 1 .. Len(up[Master]) BY <1>3, <3>1, Lengths
        <5>2. CASE c = Master BY <1>5, <4>3, <5>1, <5>2 DEF Grown
        <5>3. CASE c # Master BY <1>3, <1>4, <4>3, <5>3
        <5> QED BY <5>2, <5>3
      <4> QED BY <1>1, <2>4, <3>1, <4>2, <4>3 DEF BeforeStart
    <3>2. CASE ~ (i \in 1 .. Len(up[Master]) /\ up[Master][i] = up'[Master][i])
      <4>1. c = Master BY <1>3, <1>4, <3>2
      <4>2. i \in Len(up[c]) + 1 .. Len(up'[c])
        BY <1>3, <1>5, <2>4, <3>2, <4>1, Lengths DEF Grown
      <4> QED BY <2>4, <4>1, <4>2 DEF Keyed
    <3> QED BY <3>1, <3>2
  <2> QED BY <2>1, <2>3, <2>4 DEF BeforeStart
<1>11. AfterStart'
  <2> SUFFICES ASSUME setupPhase = "PLAYING" PROVE AfterStart'
    BY <1>2 DEF AfterStart
  <2>1. \A d \in Clients : rules'[d] = rules[d] BY <1>8 DEF S!Starting
  <2>2. \A d \in Clients, r \in Rules : (Joined(d)' <=> Joined(d)) /\ (Begins(d, r)' <=> Begins(d, r))
    BY <1>2, <2>1 DEF Joined, Begins
  <2> QED BY <1>1, <2>2 DEF AfterStart
<1>12. Greeting' /\ Places'
  BY <1>1, <1>2 DEF Greeting, Places, Seated
<1>13. Follow'
  <2> SUFFICES ASSUME hasty' = FALSE, setupSeat # S!Nobody, ~ Due(setupSeat)' PROVE Follow'
    BY <1>2 DEF Follow
  <2>1. hasty = FALSE /\ setupSeat \in Clients BY <1>1, <1>2 DEF Keyed, SetupTypes
  <2>2. \A d \in Clients : step'[d] = step[d] \/ In(up'[d], "STEP") BY <1>4 DEF Keyed
  <2>3. ~ In(up'[setupSeat], "STEP") BY <1>2 DEF Due
  <2>4. step'[setupSeat] = step[setupSeat] BY <2>1, <2>2, <2>3
  <2>5. ~ Due(setupSeat) BY <1>2, <1>6, <2>1, <2>4 DEF Due
  <2>6. \A d \in Clients : /\ step'[d] = step[d] => (Sees(d)' <=> Sees(d))
                           /\ Selected(d)' <=> Selected(d)
    BY <1>2 DEF Sees, Selected
  <2>7. Selected(setupSeat)' <=> Selected(setupSeat) BY <1>2 DEF Selected
  <2>8. Sees(setupSeat)' BY <1>1, <1>2, <2>1, <2>4, <2>5 DEF Follow, Sees
  <2>9. ASSUME NEW d \in setupWatching
        PROVE  /\ Sees(d)' \/ In(up'[d], "STEP") \/ (setupKept' = "WAIT" /\ Selected(setupSeat)')
               /\ setupKept' = "WAIT" /\ Selected(d)' => Selected(setupSeat)'
    BY <1>1, <1>2, <1>3, <1>6, <2>1, <2>2, <2>5, <2>6, <2>7, <2>9 DEF Follow
  <2> QED BY <1>2, <2>8, <2>9 DEF Follow
<1> QED BY <1>2, <1>7, <1>10, <1>11, <1>12, <1>13 DEF SetupInv

-----------------------------------------------------------------------------
(* Queues that grow and queues that are read.                               *)

LEMMA GrownSame ==
  ASSUME NEW q \in Seq(Downward), NEW r \in Seq(Downward), NEW T, Grown(q, r, T)
  PROVE  /\ Len(q) \in Nat /\ Len(r) \in Nat /\ Len(q) <= Len(r)
         /\ \A i \in 1 .. Len(q) : r[i] = q[i]
         /\ \A i \in 1 .. Len(r) : i \in 1 .. Len(q) \/ i \in Len(q) + 1 .. Len(r)
         /\ \A i \in Len(q) + 1 .. Len(r) : r[i].type \in T
<1>1. Len(q) \in Nat /\ Len(r) \in Nat BY Lengths
<1> QED BY <1>1 DEF Grown

LEMMA GrownReads ==
  ASSUME NEW q \in Seq(Downward), NEW r \in Seq(Downward), NEW T, Grown(q, r, T),
         NEW t, t \notin T, NEW own, NEW v, Reads(q, Len(q), t, own, v)
  PROVE  Reads(r, Len(r), t, own, v)
<1>1. \A i \in Len(q) + 1 .. Len(r) : ~ Sets(r[i], t) BY GrownSame DEF Sets
<1> QED BY <1>1, GrownSame, ReadsMore

LEMMA GrownOut ==
  ASSUME NEW q \in Seq(Downward), NEW r \in Seq(Downward), NEW T, Grown(q, r, T),
         "ADD" \notin T, NEW own, Out(q, Len(q), own)
  PROVE  Out(r, Len(r), own)
<1>1. \A i \in Len(q) + 1 .. Len(r) : r[i].type # "ADD" BY GrownSame
<1> QED BY <1>1, GrownSame, OutMore

LEMMA GrownStarts ==
  ASSUME NEW q \in Seq(Downward), NEW r \in Seq(Downward), NEW T, Grown(q, r, T),
         "START" \notin T, NEW own, NEW v, Starts(q, own, v)
  PROVE  Starts(r, own, v)
<1> SUFFICES ASSUME NEW i \in 1 .. Len(r), r[i].type = "START"
             PROVE  Reads(r, i - 1, "RULES", own, v)
  BY DEF Starts
<1>1. i \in 1 .. Len(q) /\ r[i] = q[i] BY GrownSame
<1>2. Reads(q, i - 1, "RULES", own, v) BY <1>1 DEF Starts
<1>3. i - 1 \in Nat /\ \A j \in 1 .. i - 1 : r[j] = q[j] BY <1>1, GrownSame
<1>4. (i - 1) + 1 .. i - 1 = {} BY <1>1
<1> QED BY <1>2, <1>3, <1>4, ReadsMore

LEMMA GrownGreets ==
  ASSUME NEW q \in Seq(Downward), NEW r \in Seq(Downward), NEW T, Grown(q, r, T),
         "CONNECT" \notin T, Greets(q)
  PROVE  Greets(r)
<1> SUFFICES ASSUME NEW i \in 1 .. Len(r), r[i].type = "CONNECT"
             PROVE  i + 3 <= Len(r) /\ r[i + 1].type = "ADD" /\ Sets(r[i + 3], "STEP")
  BY DEF Greets
<1>1. i \in 1 .. Len(q) /\ r[i] = q[i] BY GrownSame
<1>2. i + 3 <= Len(q) /\ q[i + 1].type = "ADD" /\ Sets(q[i + 3], "STEP")
  BY <1>1 DEF Greets
<1>3. i + 1 \in 1 .. Len(q) /\ i + 3 \in 1 .. Len(q) /\ i + 3 <= Len(r) BY <1>1, <1>2, GrownSame
<1> QED BY <1>2, <1>3, GrownSame

LEMMA GrownGreeted ==
  ASSUME NEW q \in Seq(Downward), NEW r \in Seq(Downward), NEW T, Grown(q, r, T),
         "ADD" \notin T, "REMOVE" \notin T, NEW i \in Nat \ {0}, Greeted(q, i)
  PROVE  Greeted(r, i)
<1>1. /\ i + 2 <= Len(q) /\ q[i].type = "ADD" /\ Sets(q[i + 2], "STEP")
      /\ \A j \in i + 1 .. Len(q) : q[j].type \notin {"ADD", "REMOVE"}
  BY DEF Greeted, Quiet
<1>2. i \in 1 .. Len(q) /\ i + 2 \in 1 .. Len(q) /\ i + 2 <= Len(r) BY <1>1, GrownSame
<1>3. ASSUME NEW j \in i + 1 .. Len(r) PROVE r[j].type \notin {"ADD", "REMOVE"}
  <2>1. (j \in i + 1 .. Len(q) /\ j \in 1 .. Len(q)) \/ j \in Len(q) + 1 .. Len(r) BY <1>2, GrownSame
  <2> QED BY <1>1, <2>1, GrownSame
<1> QED BY <1>1, <1>2, <1>3, GrownSame DEF Greeted, Quiet

LEMMA GrownComing ==
  ASSUME NEW q \in Seq(Downward), NEW r \in Seq(Downward), NEW T, Grown(q, r, T),
         "ADD" \notin T, "REMOVE" \notin T, NEW po, NEW pl, NEW lo, Coming(q, po, pl, lo)
  PROVE  Coming(r, po, pl, lo)
<1>1. ASSUME NEW i \in 1 .. Len(q), q[i].type = "CONNECT", Greeted(q, i + 1), Out(q, i - 1, pl)
      PROVE  Coming(r, po, pl, lo)
  <2>1. i \in 1 .. Len(r) /\ r[i] = q[i] /\ i - 1 \in Nat /\ i + 1 \in Nat \ {0}
        /\ \A j \in 1 .. i - 1 : r[j] = q[j]
    BY GrownSame
  <2>2. Greeted(r, i + 1) BY <1>1, <2>1, GrownGreeted
  <2>3. (i - 1) + 1 .. i - 1 = {} BY <2>1
  <2>4. Out(r, i - 1, pl) BY <1>1, <2>1, <2>3, OutMore
  <2> QED BY <1>1, <2>1, <2>2, <2>4 DEF Coming
<1>2. CASE Greeted(q, 1) /\ po = TRUE /\ pl = FALSE
  BY <1>2, GrownGreeted DEF Coming
<1>3. CASE Quiet(q, 1) /\ pl = TRUE /\ lo = TRUE
  <2>1. Quiet(r, 1) BY <1>3, GrownSame DEF Quiet
  <2> QED BY <1>3, <2>1 DEF Coming
<1> QED BY <1>1, <1>2, <1>3 DEF Coming

LEMMA GrownPicked ==
  ASSUME NEW q \in Seq(Downward), NEW r \in Seq(Downward), NEW T, Grown(q, r, T),
         "SELECT" \notin T, "STEP" \notin T
  PROVE  Picked(q) <=> Picked(r)
<1>1. ASSUME NEW i \in 1 .. Len(q), q[i].type = "SELECT", \A j \in i + 1 .. Len(q) : ~ Sets(q[j], "STEP")
      PROVE  Picked(r)
  <2>1. i \in 1 .. Len(r) /\ r[i] = q[i] BY GrownSame
  <2>2. ASSUME NEW j \in i + 1 .. Len(r) PROVE ~ Sets(r[j], "STEP")
    <3>1. (j \in i + 1 .. Len(q) /\ j \in 1 .. Len(q)) \/ j \in Len(q) + 1 .. Len(r) BY GrownSame
    <3> QED BY <1>1, <3>1, GrownSame DEF Sets
  <2> QED BY <1>1, <2>1, <2>2 DEF Picked
<1>2. ASSUME NEW i \in 1 .. Len(r), r[i].type = "SELECT", \A j \in i + 1 .. Len(r) : ~ Sets(r[j], "STEP")
      PROVE  Picked(q)
  <2>1. i \in 1 .. Len(q) /\ r[i] = q[i] BY <1>2, GrownSame
  <2>2. ASSUME NEW j \in i + 1 .. Len(q) PROVE ~ Sets(q[j], "STEP")
    <3>1. j \in i + 1 .. Len(r) /\ j \in 1 .. Len(q) BY GrownSame
    <3> QED BY <1>2, <3>1, GrownSame
  <2> QED BY <1>2, <2>1, <2>2 DEF Picked
<1> QED BY <1>1, <1>2 DEF Picked

LEMMA ReadSame ==
  ASSUME NEW q \in Seq(Downward), q # <<>>
  PROVE  /\ Tail(q) \in Seq(Downward) /\ Len(q) \in Nat \ {0} /\ Len(Tail(q)) = Len(q) - 1
         /\ \A i \in 1 .. Len(q) - 1 : Tail(q)[i] = q[i + 1]
         /\ q[1] \in Downward /\ 1 \in 1 .. Len(q)
         /\ \A i \in 1 .. Len(q) - 1 : i + 1 \in 2 .. Len(q)
         /\ \A i \in 2 .. Len(q) : i - 1 \in 1 .. Len(q) - 1 /\ Tail(q)[i - 1] = q[i]
<1>1. /\ Tail(q) \in Seq(Downward) /\ Len(q) \in Nat \ {0} /\ Len(Tail(q)) = Len(q) - 1
      /\ \A i \in 1 .. Len(q) - 1 : Tail(q)[i] = q[i + 1]
      /\ q[1] \in Downward
  BY Popped
<1>2. ASSUME NEW i \in 2 .. Len(q)
      PROVE  i - 1 \in 1 .. Len(q) - 1 /\ (i - 1) + 1 = i
  BY <1>1
<1> QED BY <1>1, <1>2

LEMMA ReadIn ==
  ASSUME NEW q \in Seq(Downward), q # <<>>, NEW t
  PROVE  In(q, t) <=> q[1].type = t \/ In(Tail(q), t)
<1>1. ASSUME NEW i \in 1 .. Len(q), q[i].type = t PROVE q[1].type = t \/ In(Tail(q), t)
  <2>1. i = 1 \/ i \in 2 .. Len(q) BY <1>1
  <2> QED BY <1>1, <2>1, ReadSame DEF In
<1>2. ASSUME NEW i \in 1 .. Len(q) - 1 PROVE i + 1 \in 1 .. Len(q) /\ Tail(q)[i] = q[i + 1]
  BY ReadSame
<1> QED BY <1>1, <1>2, ReadSame DEF In

LEMMA ReadStarts ==
  ASSUME NEW q \in Seq(Downward), q # <<>>, NEW own, NEW then, NEW v, Starts(q, own, v),
         Sets(q[1], "RULES") => then = q[1].arg,
         ~ Sets(q[1], "RULES") => then = own
  PROVE  Starts(Tail(q), then, v)
<1> SUFFICES ASSUME NEW i \in 1 .. Len(q) - 1, Tail(q)[i].type = "START"
             PROVE  Reads(Tail(q), i - 1, "RULES", then, v)
  BY ReadSame DEF Starts
<1>1. i + 1 \in 1 .. Len(q) /\ (i + 1) - 1 = i /\ i \in Nat \ {0} /\ q[i + 1].type = "START"
  BY ReadSame
<1>2. Reads(q, i, "RULES", own, v) BY <1>1 DEF Starts
<1>3. \A j \in 1 .. i - 1 : Tail(q)[j] = q[j + 1] BY ReadSame
<1> QED BY <1>1, <1>2, <1>3, ReadsFewer

LEMMA ReadGreets ==
  ASSUME NEW q \in Seq(Downward), q # <<>>, Greets(q)
  PROVE  Greets(Tail(q))
<1> SUFFICES ASSUME NEW i \in 1 .. Len(q) - 1, Tail(q)[i].type = "CONNECT"
             PROVE  i + 3 <= Len(q) - 1 /\ Tail(q)[i + 1].type = "ADD" /\ Sets(Tail(q)[i + 3], "STEP")
  BY ReadSame DEF Greets
<1>1. i + 1 \in 1 .. Len(q) /\ q[i + 1].type = "CONNECT" BY ReadSame
<1>2. (i + 1) + 3 <= Len(q) /\ q[(i + 1) + 1].type = "ADD" /\ Sets(q[(i + 1) + 3], "STEP")
  BY <1>1 DEF Greets
<1>3. /\ i + 3 <= Len(q) - 1 /\ i + 1 \in 1 .. Len(q) - 1 /\ i + 3 \in 1 .. Len(q) - 1
      /\ (i + 1) + 3 = (i + 3) + 1
  BY <1>2, ReadSame
<1> QED BY <1>2, <1>3, ReadSame

LEMMA ReadGreeted ==
  ASSUME NEW q \in Seq(Downward), q # <<>>, NEW i \in Nat, i > 1, Greeted(q, i)
  PROVE  Greeted(Tail(q), i - 1)
<1>1. /\ i + 2 <= Len(q) /\ q[i].type = "ADD" /\ Sets(q[i + 2], "STEP")
      /\ \A j \in i + 1 .. Len(q) : q[j].type \notin {"ADD", "REMOVE"}
  BY DEF Greeted, Quiet
<1>2. /\ (i - 1) + 2 <= Len(q) - 1 /\ i - 1 \in 1 .. Len(q) - 1 /\ (i - 1) + 2 \in 1 .. Len(q) - 1
      /\ (i - 1) + 1 = i /\ ((i - 1) + 2) + 1 = i + 2
  BY <1>1, ReadSame
<1>3. ASSUME NEW j \in (i - 1) + 1 .. Len(q) - 1
      PROVE  j \in 1 .. Len(q) - 1 /\ j + 1 \in i + 1 .. Len(q)
  BY <1>2, ReadSame
<1> QED BY <1>1, <1>2, <1>3, ReadSame DEF Greeted, Quiet

LEMMA ReadComing ==
  ASSUME NEW q \in Seq(Downward), q # <<>>, Greets(q),
         NEW po, NEW pl, NEW lo, NEW po1, NEW pl1, NEW lo1, Coming(q, po, pl, lo),
         q[1].type = "CONNECT" => po1 = TRUE,
         q[1].type = "ADD" => pl1 = TRUE /\ lo1 = IF pl THEN lo ELSE po,
         q[1].type = "REMOVE" => pl1 = FALSE,
         q[1].type \notin {"ADD", "REMOVE"} => pl1 = pl /\ lo1 = lo
  PROVE  Coming(Tail(q), po1, pl1, lo1)
<1>1. ASSUME NEW i \in 1 .. Len(q), q[i].type = "CONNECT", Greeted(q, i + 1), Out(q, i - 1, pl)
      PROVE  Coming(Tail(q), po1, pl1, lo1)
  <2>1. Greeted(Tail(q), i)
    <3>1. i + 1 \in Nat /\ i + 1 > 1 /\ (i + 1) - 1 = i OBVIOUS
    <3> QED BY <1>1, <3>1, ReadGreeted
  <2>2. CASE i = 1
    <3>1. po1 = TRUE /\ pl1 = pl BY <1>1, <2>2
    <3>2. pl = FALSE
      <4>1. 1 .. i - 1 = {} BY <2>2
      <4> QED BY <1>1, <4>1 DEF Out
    <3> QED BY <2>1, <2>2, <3>1, <3>2 DEF Coming
  <2>3. CASE i # 1
    <3>1. i - 1 \in 1 .. Len(q) - 1 /\ i - 1 \in Nat \ {0} /\ (i - 1) + 1 = i BY <2>3, ReadSame
    <3>2. Tail(q)[i - 1] = q[i] BY <3>1, ReadSame
    <3>3. \A j \in 1 .. (i - 1) - 1 : Tail(q)[j] = q[j + 1] BY ReadSame
    <3>4. Out(Tail(q), (i - 1) - 1, pl1) BY ONLY <1>1, <3>1, <3>3, OutFewer,
            q[1].type = "REMOVE" => pl1 = FALSE, q[1].type \notin {"ADD", "REMOVE"} => pl1 = pl /\ lo1 = lo
    <3> QED BY <1>1, <2>1, <3>1, <3>2, <3>4, ReadSame DEF Coming
  <2> QED BY <2>2, <2>3
<1>2. CASE Greeted(q, 1) /\ po = TRUE /\ pl = FALSE
  <2>1. q[1].type = "ADD" /\ \A j \in 2 .. Len(q) : q[j].type \notin {"ADD", "REMOVE"}
    BY <1>2 DEF Greeted, Quiet
  <2>2. Quiet(Tail(q), 1) BY <2>1, ReadSame DEF Quiet
  <2> QED BY <1>2, <2>1, <2>2 DEF Coming
<1>3. CASE Quiet(q, 1) /\ pl = TRUE /\ lo = TRUE
  <2>1. \A j \in 1 .. Len(q) : q[j].type \notin {"ADD", "REMOVE"} BY <1>3 DEF Quiet
  <2>2. Quiet(Tail(q), 1)
    <3>1. \A j \in 2 .. Len(q) : j \in 1 .. Len(q) BY ReadSame
    <3> QED BY <2>1, <3>1, ReadSame DEF Quiet
  <2>3. q[1].type \notin {"ADD", "REMOVE"} BY <2>1, ReadSame
  <2> QED BY <1>3, <2>2, <2>3 DEF Coming
<1> QED BY <1>1, <1>2, <1>3 DEF Coming

LEMMA ReadPicked ==
  ASSUME NEW q \in Seq(Downward), q # <<>>
  PROVE  /\ Picked(Tail(q)) => Picked(q)
         /\ Picked(q) => \/ Picked(Tail(q))
                         \/ q[1].type = "SELECT" /\ \A j \in 2 .. Len(q) : ~ Sets(q[j], "STEP")
<1>1. ASSUME NEW i \in 1 .. Len(q) - 1, Tail(q)[i].type = "SELECT",
             \A j \in i + 1 .. Len(q) - 1 : ~ Sets(Tail(q)[j], "STEP")
      PROVE  Picked(q)
  <2>1. i + 1 \in 1 .. Len(q) /\ q[i + 1].type = "SELECT" BY <1>1, ReadSame
  <2>2. ASSUME NEW j \in (i + 1) + 1 .. Len(q) PROVE ~ Sets(q[j], "STEP")
    <3>1. j \in 2 .. Len(q) /\ j - 1 \in i + 1 .. Len(q) - 1 BY ReadSame
    <3> QED BY <1>1, <3>1, ReadSame
  <2> QED BY <2>1, <2>2 DEF Picked
<1>2. ASSUME NEW i \in 1 .. Len(q), q[i].type = "SELECT", \A j \in i + 1 .. Len(q) : ~ Sets(q[j], "STEP")
      PROVE  \/ Picked(Tail(q))
             \/ q[1].type = "SELECT" /\ \A j \in 2 .. Len(q) : ~ Sets(q[j], "STEP")
  <2>1. CASE i = 1 BY <1>2, <2>1
  <2>2. CASE i # 1
    <3>1. i - 1 \in 1 .. Len(q) - 1 /\ Tail(q)[i - 1] = q[i]
      <4>1. i \in 2 .. Len(q) BY <2>2
      <4> QED BY <4>1, ReadSame
    <3>2. ASSUME NEW j \in (i - 1) + 1 .. Len(q) - 1 PROVE ~ Sets(Tail(q)[j], "STEP")
      <4>1. j \in 1 .. Len(q) - 1 /\ j + 1 \in i + 1 .. Len(q) BY <3>1, ReadSame
      <4> QED BY <1>2, <4>1, ReadSame
    <3> QED BY <1>2, <3>1, <3>2, ReadSame DEF Picked
  <2> QED BY <2>1, <2>2
<1> QED BY <1>1, <1>2, ReadSame DEF Picked

-----------------------------------------------------------------------------
(* What a client makes of a message.                                        *)

\* A client tells the server no more than its step, and asks for a character.
Said(c) ==
  /\ up' \in [Clients -> Seq(Upward)] /\ \A d \in Clients \ {c} : up'[d] = up[d]
  /\ Grown(up[c], up'[c], {"STEP", "SELECT"})

LEMMA SaidNothing ==
  ASSUME SetupTypes, NEW c \in Clients, up' = up
  PROVE  Said(c)
<1>1. up[c] \in Seq(Upward) BY DEF SetupTypes
<1> QED BY <1>1, Lengths DEF SetupTypes, Said, Grown

LEMMA SaidMore ==
  ASSUME SetupTypes, NEW c \in Clients, NEW k \in Seq(Upward), up' = S!To(up, c, k),
         \A i \in 1 .. Len(k) : k[i].type \in {"STEP", "SELECT"}
  PROVE  Said(c) /\ \A t : In(k, t) => In(up'[c], t)
<1> DEFINE r == up[c] \o k
           T == {"STEP", "SELECT"}
<1>1. up[c] \in Seq(Upward) BY DEF SetupTypes
<1>2. up' = [up EXCEPT ![c] = r] BY DEF S!To
<1>3. r \in Seq(Upward) /\ Grown(up[c], r, T) /\ \A t : In(k, t) => In(r, t)
  <2> HIDE DEF T
  <2>1. \A i \in 1 .. Len(k) : k[i].type \in T BY DEF T
  <2> QED BY <1>1, <2>1, GrownBy
<1> HIDE DEF r
<1>4. up'[c] = r /\ up' \in [Clients -> Seq(Upward)] /\ \A d \in Clients \ {c} : up'[d] = up[d]
  BY <1>2, <1>3 DEF SetupTypes
<1> QED BY <1>3, <1>4 DEF Said

LEMMA SaidStep ==
  ASSUME SetupTypes, NEW c \in Clients, NEW s \in S!Steps, up' = S!To(up, c, S!Told(c, s))
  PROVE  Said(c) /\ (local[c] = TRUE => In(up'[c], "STEP"))
<1> DEFINE k == S!Told(c, s)
<1>1. /\ k \in Seq(Upward) /\ \A i \in 1 .. Len(k) : k[i].type \in {"STEP"}
      /\ local[c] = TRUE => In(k, "STEP")
  BY ToldOf
<1> HIDE DEF k
<1>2. up' = S!To(up, c, k) BY DEF k
<1>3. \A i \in 1 .. Len(k) : k[i].type \in {"STEP", "SELECT"} BY <1>1
<1>4. Said(c) /\ \A t : In(k, t) => In(up'[c], t) BY ONLY SetupTypes, c \in Clients, <1>1, <1>2, <1>3, SaidMore
<1> QED BY <1>1, <1>4

\* Client c takes message m.
Heard(c, m) ==
  /\ sentDown[c] # <<>> /\ m = sentDown[c][1] /\ m \in Downward
  /\ sentDown' = [sentDown EXCEPT ![c] = Tail(sentDown[c])]
  /\ UNCHANGED <<setupSeat, setupKept, rulesKept, setupPhase, setupWatching, hasty>>
  /\ \A d \in Clients \ {c} :
       /\ setupPort'[d] = setupPort[d] /\ playing'[d] = playing[d] /\ local'[d] = local[d]
       /\ step'[d] = step[d] /\ rules'[d] = rules[d] /\ began'[d] = began[d]
  /\ m.type = "CONNECT" => setupPort'[c] = TRUE
  /\ m.type = "DISCONNECT" => setupPort'[c] = FALSE
  /\ m.type \notin {"CONNECT", "DISCONNECT"} => setupPort'[c] = setupPort[c]
  /\ m.type = "ADD" => /\ playing'[c] = TRUE
                       /\ local'[c] = IF playing[c] THEN local[c] ELSE setupPort[c]
                       /\ step[c] = "PROFILE" /\ local'[c] = TRUE => In(up'[c], "STEP")
  /\ m.type = "REMOVE" => playing'[c] = FALSE
  /\ m.type \notin {"ADD", "REMOVE"} => playing'[c] = playing[c] /\ local'[c] = local[c]
  /\ Sets(m, "RULES") => rules'[c] = m.arg
  /\ ~ Sets(m, "RULES") => rules'[c] = rules[c]
  /\ m.type = "START" => began'[c] = rules[c]
  /\ m.type # "START" => began'[c] = began[c]
  /\ m.type \notin {"CONNECT", "STEP", "SELECT"} => step'[c] = step[c]
  /\ m.type = "STEP" => step'[c] = m.arg \/ In(up'[c], "STEP")
  /\ m.type = "SELECT" => IF step[c] = "WAIT" THEN local[c] = TRUE => In(up'[c], "STEP")
                          ELSE step'[c] = step[c]
  /\ m.type = "CONNECT" => step'[c] = "PROFILE"
  /\ Said(c) /\ SetupTypes'

LEMMA ReceiveHeard ==
  ASSUME SetupTypes, NEW c \in Clients, S!Receive(c)
  PROVE  \E m : Heard(c, m)
<1>1. PICK m : m = Head(sentDown[c]) OBVIOUS
<1>2. sentDown[c] \in Seq(Downward) /\ sentDown[c] # <<>> BY DEF SetupTypes, S!Receive
<1>3. /\ m = sentDown[c][1] /\ m \in Downward /\ Tail(sentDown[c]) \in Seq(Downward)
  BY <1>1, <1>2, Popped
<1>4. /\ sentDown' = [sentDown EXCEPT ![c] = Tail(sentDown[c])]
      /\ UNCHANGED <<setupSeat, setupKept, rulesKept, setupPhase, setupWatching, hasty>>
  BY DEF S!Receive, S!server
<1>5. sentDown' \in [Clients -> Seq(Downward)] BY <1>3, <1>4 DEF SetupTypes
<1>6. /\ setupPort \in [Clients -> BOOLEAN] /\ playing \in [Clients -> BOOLEAN]
      /\ local \in [Clients -> BOOLEAN] /\ step \in [Clients -> S!Steps]
      /\ rules \in [Clients -> Rules] /\ began \in [Clients -> Rules \cup {S!None}]
  BY DEF SetupTypes
<1>7. /\ m.type = "RULES" => m.arg \in Rules \cup {S!None}
      /\ m.type = "STEP" => m.arg \in S!Steps
      /\ "PROFILE" \in S!Steps /\ "WAIT" \in S!Steps /\ "FOUND" \in S!Steps
      /\ S!None \notin Rules
  BY <1>3, Kinds, Constants
<1>8. /\ setupPort' \in [Clients -> BOOLEAN] /\ playing' \in [Clients -> BOOLEAN]
      /\ local' \in [Clients -> BOOLEAN] /\ step' \in [Clients -> S!Steps]
      /\ rules' \in [Clients -> Rules] /\ began' \in [Clients -> Rules \cup {S!None}]
      /\ up' \in [Clients -> Seq(Upward)]
      => SetupTypes'
  BY <1>4, <1>5 DEF SetupTypes
<1> USE <1>3, <1>6, <1>7
<1>11. CASE m.type = "CONNECT" /\ S!ReceiveConnect(c)
  <2>1. /\ setupPort' = [setupPort EXCEPT ![c] = TRUE] /\ step' = [step EXCEPT ![c] = "PROFILE"]
        /\ UNCHANGED <<playing, local, rules, began>>
        /\ up' = S!To(up, c, S!Told(c, "PROFILE"))
    BY <1>11 DEF S!ReceiveConnect
  <2>2. Said(c) BY <2>1, SaidStep
  <2>3. up' \in [Clients -> Seq(Upward)] BY <2>2 DEF Said
  <2>4. SetupTypes' BY <1>8, <2>1, <2>3
  <2> QED BY <1>2, <1>4, <1>11, <2>1, <2>2, <2>4 DEF Heard, Sets
<1>12. CASE m.type = "ADD" /\ S!ReceiveAdd(c)
  <2>1. PICK own : own = IF playing[c] THEN local[c] ELSE setupPort[c] OBVIOUS
  <2>2. /\ playing' = [playing EXCEPT ![c] = TRUE] /\ local' = [local EXCEPT ![c] = own]
        /\ UNCHANGED <<setupPort, step, rules, began>>
        /\ up' = IF own /\ step[c] = "PROFILE" THEN S!To(up, c, <<S!Msg("STEP", "PROFILE")>>) ELSE up
    BY <1>12, <2>1 DEF S!ReceiveAdd
  <2>3. own \in BOOLEAN BY <2>1
  <2>4. Said(c) /\ (own = TRUE /\ step[c] = "PROFILE" => In(up'[c], "STEP"))
    <3>1. CASE own /\ step[c] = "PROFILE"
      <4>1. PICK n : n = S!Msg("STEP", "PROFILE") OBVIOUS
      <4>2. n \in Upward /\ n.type = "STEP" BY <4>1, Sendable DEF S!Msg
      <4>3. <<n>> \in Seq(Upward) /\ Len(<<n>>) = 1 /\ <<n>>[1] = n BY <4>2
      <4>4. up' = S!To(up, c, <<n>>) BY <2>2, <3>1, <4>1
      <4>5. \A i \in 1 .. Len(<<n>>) : <<n>>[i].type \in {"STEP", "SELECT"} BY <4>2, <4>3
      <4>6. In(<<n>>, "STEP") BY <4>2, <4>3 DEF In
      <4> QED BY <4>3, <4>4, <4>5, <4>6, SaidMore
    <3>2. CASE ~ (own /\ step[c] = "PROFILE") BY <2>2, <2>3, <3>2, SaidNothing
    <3> QED BY <3>1, <3>2
  <2>5. up' \in [Clients -> Seq(Upward)] BY <2>4 DEF Said
  <2>6. SetupTypes' BY <1>8, <2>2, <2>3, <2>5
  <2> QED BY <1>2, <1>4, <1>12, <2>1, <2>2, <2>3, <2>4, <2>6 DEF Heard, Sets
<1>13. CASE m.type = "REMOVE" /\ S!ReceiveRemove(c)
  <2>1. playing' = [playing EXCEPT ![c] = FALSE] /\ UNCHANGED <<setupPort, local, step, rules, began, up>>
    BY <1>13 DEF S!ReceiveRemove
  <2>2. Said(c) /\ up' \in [Clients -> Seq(Upward)] BY <2>1, SaidNothing DEF SetupTypes
  <2>3. SetupTypes' BY <1>8, <2>1, <2>2
  <2> QED BY <1>2, <1>4, <1>13, <2>1, <2>2, <2>3 DEF Heard, Sets
<1>14. CASE m.type = "DISCONNECT" /\ S!ReceiveDisconnect(c)
  <2>1. setupPort' = [setupPort EXCEPT ![c] = FALSE] /\ UNCHANGED <<playing, local, step, rules, began, up>>
    BY <1>14 DEF S!ReceiveDisconnect
  <2>2. Said(c) /\ up' \in [Clients -> Seq(Upward)] BY <2>1, SaidNothing DEF SetupTypes
  <2>3. SetupTypes' BY <1>8, <2>1, <2>2
  <2> QED BY <1>2, <1>4, <1>14, <2>1, <2>2, <2>3 DEF Heard, Sets
<1>15. CASE m.type = "STEP" /\ S!ReceiveStep(c, m.arg)
  <2>1. PICK r : r = (local[c] /\ m.arg = "PROFILED") OBVIOUS
  <2>2. /\ step' = [step EXCEPT ![c] = IF r THEN "WAIT" ELSE m.arg]
        /\ up' = IF r THEN S!To(up, c, S!Told(c, "WAIT") \o <<S!Msg("SELECT", 0)>>) ELSE up
        /\ UNCHANGED <<setupPort, playing, local, rules, began>>
    BY <1>15, <2>1 DEF S!ReceiveStep
  <2>3. r \in BOOLEAN /\ (r => local[c] = TRUE) BY <2>1
  <2>4. Said(c) /\ (r => In(up'[c], "STEP"))
    <3>1. CASE r
      <4>1. PICK n, k : n = S!Msg("SELECT", 0) /\ k = S!Told(c, "WAIT") OBVIOUS
      <4>2. n \in Upward /\ n.type = "SELECT" BY <4>1, Sendable DEF S!Msg
      <4>3. /\ k \in Seq(Upward) /\ \A i \in 1 .. Len(k) : k[i].type \in {"STEP"}
            /\ In(k, "STEP")
        BY <2>3, <3>1, <4>1, ToldOf
      <4>4. k \o <<n>> \in Seq(Upward) /\ <<n>> \in Seq(Upward) /\ Len(<<n>>) = 1 /\ <<n>>[1] = n
        BY <4>2, <4>3
      <4>5. PICK T : T = {"STEP", "SELECT"} OBVIOUS
      <4>6. \A i \in 1 .. Len(<<n>>) : <<n>>[i].type \in T BY <4>2, <4>4, <4>5
      <4>7. Grown(k, k \o <<n>>, T) BY ONLY <4>3, <4>4, <4>6, GrownBy
      <4>8. In(k \o <<n>>, "STEP") BY ONLY <4>3, <4>4, <4>7, InGrown
      <4>9. PICK e : e = k \o <<n>> OBVIOUS
      <4>10. \A i \in 1 .. Len(e) : e[i].type \in T
        <5>1. Len(k) \in Nat /\ Len(e) \in Nat BY <4>3, <4>4, <4>9, Lengths
        <5>2. \A i \in 1 .. Len(e) : i \in 1 .. Len(k) \/ i \in Len(k) + 1 .. Len(e) BY <5>1
        <5>3. Grown(k, e, T) BY <4>7, <4>9
        <5> QED BY <4>3, <4>5, <5>2, <5>3 DEF Grown
      <4>11. up' = S!To(up, c, e) BY <2>2, <3>1, <4>1, <4>9
      <4> QED BY <4>4, <4>5, <4>8, <4>9, <4>10, <4>11, SaidMore
    <3>2. CASE ~ r BY <2>2, <2>3, <3>2, SaidNothing
    <3> QED BY <3>1, <3>2
  <2>5. up' \in [Clients -> Seq(Upward)] BY <2>4 DEF Said
  <2>6. SetupTypes' BY <1>8, <1>15, <2>2, <2>3, <2>5
  <2> QED BY <1>2, <1>4, <1>15, <2>2, <2>3, <2>4, <2>6 DEF Heard, Sets
<1>16. CASE m.type = "SELECT" /\ S!ReceiveSelect(c)
  <2>1. /\ step' = [step EXCEPT ![c] = IF step[c] = "WAIT" THEN "FOUND" ELSE @]
        /\ up' = IF step[c] = "WAIT" THEN S!To(up, c, S!Told(c, "FOUND")) ELSE up
        /\ UNCHANGED <<setupPort, playing, local, rules, began>>
    BY <1>16 DEF S!ReceiveSelect
  <2>2. Said(c) /\ (step[c] = "WAIT" /\ local[c] = TRUE => In(up'[c], "STEP"))
    <3>1. CASE step[c] = "WAIT" BY <2>1, <3>1, SaidStep
    <3>2. CASE step[c] # "WAIT" BY <2>1, <3>2, SaidNothing
    <3> QED BY <3>1, <3>2
  <2>3. up' \in [Clients -> Seq(Upward)] BY <2>2 DEF Said
  <2>4. SetupTypes' BY <1>8, <2>1, <2>3
  <2> QED BY <1>2, <1>4, <1>16, <2>1, <2>2, <2>4 DEF Heard, Sets
<1>17. CASE m.type = "RULES" /\ S!ReceiveRules(c, m.arg)
  <2>1. /\ rules' = [rules EXCEPT ![c] = IF m.arg = S!None THEN @ ELSE m.arg]
        /\ UNCHANGED <<setupPort, playing, local, step, began, up>>
    BY <1>17 DEF S!ReceiveRules
  <2>2. Said(c) /\ up' \in [Clients -> Seq(Upward)] BY <2>1, SaidNothing DEF SetupTypes
  <2>3. SetupTypes' BY <1>8, <1>17, <2>1, <2>2
  <2> QED BY <1>2, <1>4, <1>17, <2>1, <2>2, <2>3 DEF Heard, Sets
<1>18. CASE m.type = "START" /\ S!ReceiveStart(c)
  <2>1. /\ began' = [began EXCEPT ![c] = rules[c]]
        /\ UNCHANGED <<setupPort, playing, local, step, rules, up>>
    BY <1>18 DEF S!ReceiveStart
  <2>2. Said(c) /\ up' \in [Clients -> Seq(Upward)] BY <2>1, SaidNothing DEF SetupTypes
  <2>3. SetupTypes' BY <1>8, <2>1, <2>2
  <2> QED BY <1>2, <1>4, <1>18, <2>1, <2>2, <2>3 DEF Heard, Sets
<1> QED BY <1>1, <1>11, <1>12, <1>13, <1>14, <1>15, <1>16, <1>17, <1>18 DEF S!Receive

LEMMA HeardQueues ==
  ASSUME SetupInv, NEW c \in Clients, NEW m, Heard(c, m)
  PROVE  /\ sentDown[c] \in Seq(Downward) /\ sentDown[c] # <<>> /\ sentDown'[c] = Tail(sentDown[c])
         /\ \A d \in Clients \ {c} : sentDown'[d] = sentDown[d] /\ up'[d] = up[d]
         /\ \A d \in Clients : up[d] \in Seq(Upward) /\ up'[d] \in Seq(Upward)
         /\ c \in setupWatching /\ Master \in Clients /\ setupWatching \subseteq Clients
         /\ \A t : /\ In(sentDown'[c], t) => In(sentDown[c], t)
                   /\ In(sentDown[c], t) => m.type = t \/ In(sentDown'[c], t)
         /\ \A d \in Clients : \A t : /\ In(up[d], t) => In(up'[d], t)
                                      /\ In(up'[d], t) => In(up[d], t) \/ t \in {"STEP", "SELECT"}
         /\ In(sentDown[c], m.type) /\ Greets(sentDown[c])
<1>1. SetupTypes /\ Away /\ Greeting BY DEF SetupInv
<1>2. /\ sentDown[c] # <<>> /\ m = sentDown[c][1] /\ SetupTypes'
      /\ sentDown' = [sentDown EXCEPT ![c] = Tail(sentDown[c])]
      /\ \A d \in Clients \ {c} : up'[d] = up[d]
      /\ Grown(up[c], up'[c], {"STEP", "SELECT"})
  BY DEF Heard, Said
<1>3. /\ sentDown[c] \in Seq(Downward) /\ sentDown'[c] = Tail(sentDown[c])
      /\ \A d \in Clients \ {c} : sentDown'[d] = sentDown[d]
      /\ \A d \in Clients : up[d] \in Seq(Upward) /\ up'[d] \in Seq(Upward)
      /\ Master \in Clients /\ setupWatching \subseteq Clients
  BY <1>1, <1>2, Constants DEF SetupTypes
<1>4. c \in setupWatching BY <1>1, <1>2 DEF Away
<1>5. \A t : In(sentDown[c], t) <=> m.type = t \/ In(sentDown'[c], t)
  BY <1>2, <1>3, ReadIn
<1>6. ASSUME NEW d \in Clients, NEW t
      PROVE  /\ In(up[d], t) => In(up'[d], t)
             /\ In(up'[d], t) => In(up[d], t) \/ t \in {"STEP", "SELECT"}
  <2>1. CASE d = c
    <3>1. PICK T : T = {"STEP", "SELECT"} OBVIOUS
    <3>2. Grown(up[c], up'[c], T) BY <1>2, <3>1
    <3> QED BY <1>3, <2>1, <3>1, <3>2, InGrown
  <2>2. CASE d # c BY <1>2, <2>2
  <2> QED BY <2>1, <2>2
<1>7. Greets(sentDown[c]) BY <1>1 DEF Greeting
<1> QED BY <1>2, <1>3, <1>4, <1>5, <1>6, <1>7

LEMMA HeardOthers ==
  ASSUME SetupInv, NEW c \in Clients, NEW m, Heard(c, m), NEW d \in Clients \ {c}
  PROVE  /\ sentDown'[d] = sentDown[d] /\ up'[d] = up[d]
         /\ setupPort'[d] = setupPort[d] /\ playing'[d] = playing[d] /\ local'[d] = local[d]
         /\ step'[d] = step[d] /\ rules'[d] = rules[d] /\ began'[d] = began[d]
<1>1. sentDown'[d] = sentDown[d] /\ up'[d] = up[d] BY HeardQueues
<1>2. /\ setupPort'[d] = setupPort[d] /\ playing'[d] = playing[d] /\ local'[d] = local[d]
      /\ step'[d] = step[d] /\ rules'[d] = rules[d] /\ began'[d] = began[d]
  BY DEF Heard
<1> QED BY <1>1, <1>2

\* What a client sees when all has arrived does not change when it takes a message,
\* but for what it tells the server itself, and the character it finds.
LEMMA HeardSees ==
  ASSUME SetupInv, NEW c \in Clients, NEW m, Heard(c, m), Sees(c)
  PROVE  \/ Sees(c)' \/ In(up'[c], "STEP")
         \/ /\ m.type = "SELECT" /\ step[c] = "WAIT" /\ setupKept = "WAIT" /\ local[c] = FALSE
            /\ \A j \in 2 .. Len(sentDown[c]) : ~ Sets(sentDown[c][j], "STEP")
<1> DEFINE q == sentDown[c]
           n == Len(q)
<1>1. /\ q \in Seq(Downward) /\ q # <<>> /\ sentDown'[c] = Tail(q) /\ Greets(q)
      /\ m = q[1] /\ setupKept' = setupKept /\ local[c] \in BOOLEAN
  <2>1. q \in Seq(Downward) /\ q # <<>> /\ sentDown'[c] = Tail(q) /\ Greets(q)
    BY HeardQueues
  <2>2. m = q[1] /\ setupKept' = setupKept BY DEF Heard
  <2>3. local[c] \in BOOLEAN BY DEF SetupInv, SetupTypes
  <2> QED BY <2>1, <2>2, <2>3
<1>2. Reads(q, n, "STEP", step[c], setupKept) BY DEF Sees
<1> HIDE DEF q
<1>3. n \in Nat \ {0} /\ Len(Tail(q)) = n - 1 /\ \A i \in 1 .. n - 1 : Tail(q)[i] = q[i + 1]
  BY <1>1, ReadSame
<1>4. ASSUME Reads(Tail(q), n - 1, "STEP", step'[c], setupKept) PROVE Sees(c)'
  BY <1>1, <1>3, <1>4 DEF Sees
<1>5. ASSUME Sets(m, "STEP") => step'[c] = m.arg, ~ Sets(m, "STEP") => step'[c] = step[c]
      PROVE  Sees(c)'
  <2>1. PICK s : s = step'[c] OBVIOUS
  <2>2. Reads(Tail(q), n - 1, "STEP", s, setupKept)
    BY <1>1, <1>2, <1>3, <1>5, <2>1, ReadsFewer
  <2> QED BY <1>4, <2>1, <2>2
<1>6. m.arg # S!None \/ m.type # "STEP" BY <1>1, <1>3, Kinds, Constants DEF Heard
<1>7. CASE m.type \notin {"CONNECT", "STEP", "SELECT"} BY <1>5, <1>7 DEF Heard, Sets
<1>8. CASE m.type = "STEP" BY <1>5, <1>6, <1>8 DEF Heard, Sets
<1>9. CASE /\ m.type \in {"CONNECT", "SELECT"}
           /\ \E j \in 2 .. n : Sets(q[j], "STEP")
  <2>1. PICK s : s = step'[c] OBVIOUS
  <2>2. ~ Sets(m, "STEP") BY <1>9 DEF Sets
  <2>3. Reads(Tail(q), n - 1, "STEP", step[c], setupKept) BY <1>1, <1>2, <1>3, <2>2, ReadsFewer
  <2>4. PICK j \in 2 .. n : Sets(q[j], "STEP") BY <1>9
  <2>5. j - 1 \in 1 .. n - 1 /\ Tail(q)[j - 1] = q[j] BY <1>1, ReadSame
  <2>6. Reads(Tail(q), n - 1, "STEP", s, setupKept) BY <2>3, <2>4, <2>5 DEF Reads
  <2> QED BY <1>4, <2>1, <2>6
<1>10. CASE m.type = "CONNECT" /\ ~ \E j \in 2 .. n : Sets(q[j], "STEP")
  <2>1. 1 \in 1 .. n BY <1>3
  <2>2. 1 + 3 <= n /\ Sets(q[1 + 3], "STEP") BY <1>1, <1>10, <2>1 DEF Greets
  <2>3. 1 + 3 \in 2 .. n BY <1>3, <2>2
  <2> QED BY <1>10, <2>2, <2>3
<1>11. CASE m.type = "SELECT" /\ ~ \E j \in 2 .. n : Sets(q[j], "STEP")
  <2>1. CASE step[c] # "WAIT" BY <1>5, <1>11, <2>1 DEF Heard, Sets
  <2>2. CASE step[c] = "WAIT" /\ local[c] = TRUE BY <1>11, <2>2 DEF Heard
  <2>3. CASE step[c] = "WAIT" /\ local[c] = FALSE
    <3>1. \A i \in 1 .. n : ~ Sets(q[i], "STEP")
      <4>1. \A i \in 1 .. n : i = 1 \/ i \in 2 .. n BY <1>3
      <4> QED BY <1>1, <1>11, <4>1 DEF Sets
    <3>2. step[c] = setupKept BY <1>2, <3>1 DEF Reads
    <3> QED BY <1>11, <2>3, <3>2 DEF q
  <2> QED BY <1>1, <2>1, <2>2, <2>3
<1> QED BY <1>7, <1>8, <1>9, <1>10, <1>11

LEMMA HeardOptions ==
  ASSUME SetupInv, NEW c \in Clients, NEW m, Heard(c, m)
  PROVE  BeforeStart' /\ AfterStart'
<1>1. /\ SetupTypes /\ BeforeStart /\ AfterStart /\ UNCHANGED <<rulesKept, setupPhase>>
      /\ m = sentDown[c][1]
  BY DEF SetupInv, Heard
<1>2. \A d \in Clients : Joined(d)' => Joined(d)
  <2>1. ASSUME Joined(c)' PROVE Joined(c)
    <3>1. setupPort'[c] = TRUE => m.type = "CONNECT" \/ setupPort[c] = TRUE BY DEF Heard
    <3>2. /\ In(sentDown[c], m.type)
          /\ In(sentDown'[c], "CONNECT") => In(sentDown[c], "CONNECT")
      BY HeardQueues
    <3> QED BY <2>1, <3>1, <3>2 DEF Joined
  <2>2. ASSUME NEW d \in Clients \ {c} PROVE Joined(d)' <=> Joined(d)
    BY HeardOthers DEF Joined
  <2> QED BY <2>1, <2>2
<1>3. \A d \in Clients : Agreed(d) => Agreed(d)'
  <2>1. ASSUME Agreed(c) PROVE Agreed(c)'
    <3>1. PICK q, r : q = sentDown[c] /\ r = rules'[c] OBVIOUS
    <3>2. /\ q \in Seq(Downward) /\ q # <<>> /\ sentDown'[c] = Tail(q) /\ m = q[1]
          /\ Reads(q, Len(q), "RULES", rules[c], rulesKept)
      BY <1>1, <2>1, <3>1, HeardQueues DEF Agreed
    <3>3. (Sets(m, "RULES") => r = m.arg) /\ (~ Sets(m, "RULES") => r = rules[c])
      BY <3>1 DEF Heard
    <3>4. Reads(Tail(q), Len(q) - 1, "RULES", r, rulesKept)
      <4>1. Len(q) \in Nat \ {0} /\ \A i \in 1 .. Len(q) - 1 : Tail(q)[i] = q[i + 1]
        BY <3>2, ReadSame
      <4> QED BY ONLY <3>2, <3>3, <4>1, ReadsFewer
    <3> QED BY <1>1, <3>1, <3>2, <3>4, ReadSame DEF Agreed
  <2>2. ASSUME NEW d \in Clients \ {c} PROVE Agreed(d) <=> Agreed(d)'
    BY <1>1, HeardOthers DEF Agreed
  <2> QED BY <2>1, <2>2
<1>4. BeforeStart'
  <2> SUFFICES ASSUME setupPhase = "OFF" PROVE BeforeStart'
    BY <1>1 DEF BeforeStart
  <2>1. m.type # "START" BY <1>1, HeardQueues DEF BeforeStart
  <2>2. ASSUME NEW d \in Clients PROVE began'[d] = S!None /\ ~ In(sentDown'[d], "START")
    <3>1. CASE d = c BY <1>1, <2>1, <3>1, HeardQueues, ZenonT(40) DEF BeforeStart, Heard
    <3>2. CASE d # c BY <1>1, <3>2, HeardOthers DEF BeforeStart
    <3> QED BY <3>1, <3>2
  <2>3. rulesKept' # S!None => \A d \in Clients \ {Master} : Joined(d)' => Agreed(d)'
    BY <1>1, <1>2, <1>3 DEF BeforeStart
  <2>4. ASSUME NEW i \in 1 .. Len(up'[Master]), up'[Master][i].type = "START"
        PROVE  \/ \E j \in 1 .. i - 1 : up'[Master][j].type = "RULES"
               \/ rulesKept' # S!None /\ Agreed(Master)'
    <3>1. /\ i \in 1 .. Len(up[Master]) /\ \A j \in 1 .. i : up'[Master][j] = up[Master][j]
      <4>1. CASE c = Master
        <5>1. Grown(up[c], up'[c], {"STEP", "SELECT"}) BY DEF Heard, Said
        <5>2. Len(up[c]) \in Nat /\ Len(up'[c]) \in Nat BY HeardQueues, Lengths
        <5>3. i \in 1 .. Len(up[c]) BY <2>4, <4>1, <5>1, <5>2 DEF Grown
        <5>4. \A j \in 1 .. i : j \in 1 .. Len(up[c]) BY <5>2, <5>3
        <5> QED BY <4>1, <5>1, <5>3, <5>4 DEF Grown
      <4>2. CASE c # Master BY <2>4, <4>2, HeardQueues
      <4> QED BY <4>1, <4>2
    <3>2. i \in 1 .. i /\ \A j \in 1 .. i - 1 : j \in 1 .. i BY <3>1, HeardQueues, Lengths
    <3>3. \/ \E j \in 1 .. i - 1 : up[Master][j].type = "RULES"
          \/ rulesKept # S!None /\ Agreed(Master)
      BY <1>1, <2>4, <3>1, <3>2 DEF BeforeStart
    <3> QED BY <1>1, <1>3, <3>1, <3>2, <3>3, HeardQueues
  <2> QED BY <2>2, <2>3, <2>4 DEF BeforeStart
<1>5. AfterStart'
  <2> SUFFICES ASSUME setupPhase = "PLAYING" PROVE AfterStart'
    BY <1>1 DEF AfterStart
  <2>1. PICK r \in Rules : \A d \in Clients : d = Master \/ Joined(d) => Begins(d, r)
    BY <1>1 DEF AfterStart
  <2>2. ASSUME Begins(c, r) PROVE Begins(c, r)'
    <3>1. PICK q, own : q = sentDown[c] /\ own = rules'[c] OBVIOUS
    <3>2. /\ q \in Seq(Downward) /\ q # <<>> /\ sentDown'[c] = Tail(q) /\ m = q[1]
          /\ Starts(q, rules[c], r)
      BY <1>1, <2>2, <3>1, HeardQueues DEF Begins
    <3>3. (Sets(m, "RULES") => own = m.arg) /\ (~ Sets(m, "RULES") => own = rules[c])
      BY <3>1 DEF Heard
    <3>4. Starts(Tail(q), own, r) BY ONLY <3>2, <3>3, ReadStarts
    <3>5. began'[c] \in {S!None, r}
      <4>1. CASE m.type = "START"
        <5>1. 1 \in 1 .. Len(q) BY <3>2, ReadSame
        <5>2. Reads(q, 1 - 1, "RULES", rules[c], r) BY <3>2, <4>1, <5>1 DEF Starts
        <5>3. 1 .. 1 - 1 = {} OBVIOUS
        <5>4. rules[c] = r BY <5>2, <5>3 DEF Reads
        <5> QED BY <4>1, <5>4 DEF Heard
      <4>2. CASE m.type # "START" BY <2>2, <4>2 DEF Heard, Begins
      <4> QED BY <4>1, <4>2
    <3> QED BY <3>1, <3>2, <3>4, <3>5 DEF Begins
  <2>3. ASSUME NEW d \in Clients \ {c} PROVE Begins(d, r) <=> Begins(d, r)'
    BY HeardOthers DEF Begins
  <2>4. \A d \in Clients : (d = Master \/ Joined(d))' => Begins(d, r)'
    BY <1>2, <2>1, <2>2, <2>3
  <2> QED BY <2>1, <2>4 DEF AfterStart
<1> QED BY <1>4, <1>5

LEMMA HeardPlaces ==
  ASSUME SetupInv, NEW c \in Clients, NEW m, Heard(c, m)
  PROVE  Away' /\ Greeting' /\ Places'
<1>1. /\ SetupTypes /\ Away /\ Greeting /\ Places
      /\ UNCHANGED <<setupSeat, setupWatching>> /\ m = sentDown[c][1]
  BY DEF SetupInv, Heard
<1>2. Away'
  <2>1. \A d \in Clients \ setupWatching :
          /\ up'[d] = <<>> /\ sentDown'[d] = <<>> /\ began'[d] = S!None
          /\ setupPort'[d] = FALSE /\ playing'[d] = FALSE
    <3> SUFFICES ASSUME NEW d \in Clients \ setupWatching
                 PROVE  /\ up'[d] = <<>> /\ sentDown'[d] = <<>> /\ began'[d] = S!None
                        /\ setupPort'[d] = FALSE /\ playing'[d] = FALSE
      OBVIOUS
    <3>1. d \in Clients \ {c} BY HeardQueues
    <3>2. /\ up[d] = <<>> /\ sentDown[d] = <<>> /\ began[d] = S!None
          /\ setupPort[d] = FALSE /\ playing[d] = FALSE
      BY <1>1 DEF Away
    <3> QED BY <3>1, <3>2, HeardOthers
  <2>2. \A d \in Clients \ {Master} : ~ In(up'[d], "RULES") /\ ~ In(up'[d], "START")
    BY <1>1, HeardQueues DEF Away
  <2> QED BY <1>1, <2>1, <2>2 DEF Away
<1>3. Greeting'
  <2>1. Greets(sentDown'[c]) BY HeardQueues, ReadGreets
  <2>2. \A d \in Clients \ {c} : Greets(sentDown'[d]) BY <1>1, HeardQueues DEF Greeting
  <2> QED BY <2>1, <2>2 DEF Greeting
<1>4. Places'
  <2>1. PICK q, pl : q = sentDown[c] /\ pl = playing'[c] OBVIOUS
  <2>2. q \in Seq(Downward) /\ q # <<>> /\ sentDown'[c] = Tail(q) /\ m = q[1] /\ Greets(q)
    BY <1>1, <2>1, HeardQueues
  <2>3. (m.type = "REMOVE" => pl = FALSE) /\ (m.type \notin {"ADD", "REMOVE"} => pl = playing[c])
    BY <2>1 DEF Heard
  <2>4. CASE setupSeat = S!Nobody
    <3>1. ASSUME Out(sentDown[c], Len(sentDown[c]), playing[c])
          PROVE  Out(sentDown'[c], Len(sentDown'[c]), playing'[c])
      <4>1. Len(q) \in Nat \ {0} /\ \A i \in 1 .. Len(q) - 1 : Tail(q)[i] = q[i + 1]
        BY <2>2, ReadSame
      <4>2. Out(q, Len(q), playing[c]) BY <2>1, <3>1
      <4>3. Out(Tail(q), Len(q) - 1, pl) BY ONLY <2>2, <2>3, <4>1, <4>2, OutFewer
      <4> QED BY <2>1, <2>2, <4>3, ReadSame
    <3>2. \A d \in Clients \ {c} : Out(sentDown[d], Len(sentDown[d]), playing[d])
                                     => Out(sentDown'[d], Len(sentDown'[d]), playing'[d])
      BY HeardOthers
    <3> QED BY <1>1, <2>4, <3>1, <3>2, HeardQueues DEF Places
  <2>5. CASE setupSeat # S!Nobody /\ setupSeat = c
    <3>1. PICK po, lo : po = setupPort'[c] /\ lo = local'[c] OBVIOUS
    <3>2. Coming(q, setupPort[c], playing[c], local[c]) BY <1>1, <2>1, <2>5 DEF Places, Seated
    <3>3. /\ q[1].type = "CONNECT" => po = TRUE
          /\ q[1].type = "ADD" => pl = TRUE /\ lo = IF playing[c] THEN local[c] ELSE setupPort[c]
          /\ q[1].type = "REMOVE" => pl = FALSE
          /\ q[1].type \notin {"ADD", "REMOVE"} => pl = playing[c] /\ lo = local[c]
      BY <2>1, <2>2, <3>1 DEF Heard
    <3>4. PICK po0, pl0, lo0 : po0 = setupPort[c] /\ pl0 = playing[c] /\ lo0 = local[c] OBVIOUS
    <3>5. /\ Coming(q, po0, pl0, lo0)
          /\ q[1].type = "ADD" => pl = TRUE /\ lo = IF pl0 THEN lo0 ELSE po0
          /\ q[1].type \notin {"ADD", "REMOVE"} => pl = pl0 /\ lo = lo0
      BY <3>2, <3>3, <3>4
    <3>6. Coming(Tail(q), po, pl, lo) BY ONLY <2>2, <3>3, <3>5, ReadComing
    <3>7. Seated(c)' BY <2>1, <2>2, <3>1, <3>6 DEF Seated
    <3> QED BY <1>1, <2>5, <3>7 DEF Places
  <2>6. CASE setupSeat # S!Nobody /\ setupSeat # c
    <3>1. setupSeat \in Clients \ {c} BY <1>1, <2>6 DEF SetupTypes
    <3>2. Seated(setupSeat) <=> Seated(setupSeat)'
      BY <1>1, <3>1, HeardOthers DEF Seated
    <3> QED BY <1>1, <2>6, <3>2 DEF Places
  <2> QED BY <2>4, <2>5, <2>6
<1> QED BY <1>2, <1>3, <1>4

LEMMA HeardFollow ==
  ASSUME SetupInv, NEW c \in Clients, NEW m, Heard(c, m)
  PROVE  Follow'
<1>1. /\ SetupTypes /\ Follow /\ Places /\ Away
      /\ UNCHANGED <<setupSeat, setupKept, setupWatching, hasty>> /\ m = sentDown[c][1]
  BY DEF SetupInv, Heard
<1>0. PICK s : s = setupSeat OBVIOUS
<1> SUFFICES ASSUME hasty = FALSE, s # S!Nobody, ~ Due(s)'
             PROVE  /\ Sees(s)'
                    /\ \A d \in setupWatching :
                         /\ Sees(d)' \/ In(up'[d], "STEP") \/ (setupKept = "WAIT" /\ Selected(s)')
                         /\ setupKept = "WAIT" /\ Selected(d)' => Selected(s)'
  BY <1>0, <1>1 DEF Follow, Due, Sees, Selected
<1>2. s \in Clients /\ s \in setupWatching BY <1>0, <1>1 DEF SetupTypes, Away
<1>10. ~ Due(s) => /\ Sees(s)
                   /\ \A d \in setupWatching :
                        /\ Sees(d) \/ In(up[d], "STEP") \/ (setupKept = "WAIT" /\ Selected(s))
                        /\ setupKept = "WAIT" /\ Selected(d) => Selected(s)
  BY <1>0, <1>1 DEF Follow
<1>3. ASSUME NEW d \in Clients \ {c}
      PROVE  (Sees(d)' <=> Sees(d)) /\ (Selected(d)' <=> Selected(d)) /\ (Due(d)' <=> Due(d))
  BY <1>1, HeardOthers DEF Sees, Selected, Due
<1>4. Selected(c)' => Selected(c) BY HeardQueues, ReadPicked DEF Selected
<1>5. \A d \in Clients : In(up[d], "STEP") => In(up'[d], "STEP") BY HeardQueues
<1>6. CASE s # c
  <2>1. (Due(s)' <=> Due(s)) /\ (Sees(s)' <=> Sees(s)) /\ (Selected(s)' <=> Selected(s))
    BY <1>2, <1>3, <1>6
  <2>2. /\ Sees(s)
        /\ \A d \in setupWatching :
             /\ Sees(d) \/ In(up[d], "STEP") \/ (setupKept = "WAIT" /\ Selected(s))
             /\ setupKept = "WAIT" /\ Selected(d) => Selected(s)
    BY <1>10, <2>1
  <2>3. ASSUME NEW d \in setupWatching
        PROVE  /\ Sees(d)' \/ In(up'[d], "STEP") \/ (setupKept = "WAIT" /\ Selected(s))
               /\ setupKept = "WAIT" /\ Selected(d)' => Selected(s)
    <3>1. d \in Clients BY HeardQueues
    <3>2. CASE d # c BY <1>3, <1>5, <2>2, <3>1, <3>2
    <3>3. CASE d = c
      <4>1. CASE Sees(c)
        <5>1. CASE /\ m.type = "SELECT" /\ step[c] = "WAIT" /\ setupKept = "WAIT" /\ local[c] = FALSE
                   /\ \A j \in 2 .. Len(sentDown[c]) : ~ Sets(sentDown[c][j], "STEP")
          <6>1. 1 \in 1 .. Len(sentDown[c]) BY HeardQueues, ReadSame
          <6>2. Selected(c) BY <1>1, <5>1, <6>1 DEF Selected, Picked
          <6> QED BY <1>4, <2>2, <3>3, <5>1, <6>2
        <5> QED BY <1>4, <2>2, <3>3, <4>1, <5>1, HeardSees
      <4>2. CASE ~ Sees(c) BY <1>4, <1>5, <2>2, <3>1, <3>3, <4>2
      <4> QED BY <4>1, <4>2
    <3> QED BY <3>2, <3>3
  <2> QED BY <2>1, <2>2, <2>3
<1>7. CASE s = c
  <2> DEFINE q == sentDown[c]
  <2>1. /\ q \in Seq(Downward) /\ q # <<>> /\ sentDown'[c] = Tail(q) /\ m = q[1] /\ Greets(q)
    BY <1>1, HeardQueues
  <2>2. Coming(q, setupPort[c], playing[c], local[c]) BY <1>0, <1>1, <1>7 DEF Places, Seated
  <2>3. ~ In(up'[c], "STEP") /\ ~ In(up[c], "STEP") /\ ~ In(Tail(q), "CONNECT")
        /\ ~ (Tail(q) # <<>> /\ Tail(q)[1].type = "ADD" /\ step'[c] = "PROFILE")
    BY <1>2, <1>5, <1>7, <2>1 DEF Due
  <2> HIDE DEF q
  <2>4. m.type # "CONNECT"
    <3> SUFFICES ASSUME m.type = "CONNECT" PROVE FALSE OBVIOUS
    <3>1. 1 \in 1 .. Len(q) /\ Len(q) \in Nat /\ Len(Tail(q)) = Len(q) - 1 BY <2>1, ReadSame
    <3>2. 1 + 3 <= Len(q) /\ q[1 + 1].type = "ADD" BY <2>1, <3>1 DEF Greets
    <3>3. 1 \in 1 .. Len(q) - 1 BY <3>1, <3>2
    <3>4. Tail(q)[1] = q[1 + 1] BY <2>1, <3>3, ReadSame
    <3>5. Tail(q) # <<>> BY <3>1, <3>2, <2>1, ReadSame, Lengths, SMTT(30)
    <3>6. step'[c] = "PROFILE" BY DEF Heard
    <3> QED BY <2>3, <3>2, <3>4, <3>5, <3>6
  <2>5. ~ In(q, "CONNECT") BY <2>1, <2>3, <2>4, ReadIn
  <2>6. \/ Greeted(q, 1) /\ setupPort[c] = TRUE /\ playing[c] = FALSE
        \/ Quiet(q, 1) /\ playing[c] = TRUE /\ local[c] = TRUE
    BY <2>2, <2>5 DEF Coming, In
  <2>7. m.type = "ADD" => step[c] # "PROFILE"
    <3> SUFFICES ASSUME m.type = "ADD", step[c] = "PROFILE" PROVE FALSE OBVIOUS
    <3>1. 1 \in 1 .. Len(q) BY <2>1, ReadSame
    <3>2. setupPort[c] = TRUE /\ playing[c] = FALSE BY <2>1, <2>6, <3>1 DEF Quiet
    <3>3. local'[c] = TRUE BY <3>2 DEF Heard
    <3>4. In(up'[c], "STEP") BY <3>3 DEF Heard
    <3> QED BY <2>3, <3>4
  <2>8. ~ Due(c) BY <2>1, <2>3, <2>5, <2>7 DEF Due, q
  <2>9. /\ Sees(c)
        /\ \A d \in setupWatching :
             /\ Sees(d) \/ In(up[d], "STEP") \/ (setupKept = "WAIT" /\ Selected(c))
             /\ setupKept = "WAIT" /\ Selected(d) => Selected(c)
    BY <1>7, <1>10, <2>8
  <2>10. m.type = "SELECT" /\ (\A j \in 2 .. Len(q) : ~ Sets(q[j], "STEP")) => local[c] = TRUE
    <3> SUFFICES ASSUME m.type = "SELECT" PROVE local[c] = TRUE
      BY <2>6
    <3> QED BY <2>1, <2>6 DEF Greeted
  <2>11. Sees(c)'
    BY <2>3, <2>9, <2>10, HeardSees DEF q
  <2>12. Selected(c) /\ setupKept = "WAIT" => Selected(c)'
    <3> SUFFICES ASSUME Picked(q), setupKept = "WAIT", ~ Picked(Tail(q)) PROVE FALSE
      BY <2>1 DEF Selected, q
    <3>1. q[1].type = "SELECT" /\ \A j \in 2 .. Len(q) : ~ Sets(q[j], "STEP")
      BY <2>1, ReadPicked
    <3>2. \A i \in 1 .. Len(q) : ~ Sets(q[i], "STEP")
      <4>1. \A i \in 1 .. Len(q) : i = 1 \/ i \in 2 .. Len(q) BY <2>1, ReadSame
      <4> QED BY <3>1, <4>1 DEF Sets
    <3>3. step[c] = "WAIT"
      <4>1. Reads(q, Len(q), "STEP", step[c], setupKept) BY <2>9 DEF Sees, q
      <4> QED BY <3>2, <4>1 DEF Reads
    <3>4. local[c] = TRUE BY <2>1, <2>10, <3>1
    <3>5. In(up'[c], "STEP") BY <2>1, <3>1, <3>3, <3>4 DEF Heard
    <3> QED BY <2>3, <3>5
  <2>13. ASSUME NEW d \in setupWatching
         PROVE  /\ Sees(d)' \/ In(up'[d], "STEP") \/ (setupKept = "WAIT" /\ Selected(c)')
                /\ setupKept = "WAIT" /\ Selected(d)' => Selected(c)'
    <3>1. d \in Clients BY HeardQueues
    <3> QED BY <1>3, <1>5, <2>9, <2>11, <2>12, <3>1
  <2> QED BY <1>7, <2>11, <2>13
<1> QED BY <1>6, <1>7

LEMMA HeardInv ==
  ASSUME SetupInv, NEW c \in Clients, NEW m, Heard(c, m)
  PROVE  SetupInv'
<1>1. SetupTypes' BY DEF Heard
<1> QED BY <1>1, HeardOptions, HeardPlaces, HeardFollow DEF SetupInv

-----------------------------------------------------------------------------
(* What the server makes of a message.                                      *)

\* The server takes message m of client c; the clients' queues grow.
Served(c, m, T) ==
  /\ c \in setupWatching /\ up[c] # <<>> /\ m = up[c][1] /\ m \in Upward
  /\ up' = [up EXCEPT ![c] = Tail(up[c])]
  /\ UNCHANGED <<setupWatching, setupPort, playing, local, step, rules, began, hasty>>
  /\ \A d \in Clients : Grown(sentDown[d], sentDown'[d], T)
  /\ \A d \in Clients \ setupWatching : sentDown'[d] = sentDown[d]
  /\ SetupTypes'

LEMMA ServeUp ==
  ASSUME SetupTypes, Away, NEW c \in Clients, NEW m, up[c] # <<>>, m = up[c][1],
         up' = [up EXCEPT ![c] = Tail(up[c])]
  PROVE  /\ up' \in [Clients -> Seq(Upward)] /\ m \in Upward /\ c \in setupWatching
         /\ \A d \in Clients \ {c} : up'[d] = up[d]
         /\ \A t : \A d \in Clients :
              /\ In(up'[d], t) => In(up[d], t)
              /\ In(up[d], t) /\ m.type # t => In(up'[d], t)
         /\ m.type \in {"RULES", "START"} => c = Master
         /\ m.type = "RULES" => m.arg \in Rules
         /\ m.type = "STEP" => m.arg \in S!Steps
<1> DEFINE q == up[c]
<1>1. q \in Seq(Upward) BY DEF SetupTypes
<1>2. /\ Tail(q) \in Seq(Upward) /\ Len(q) \in Nat \ {0} /\ Len(Tail(q)) = Len(q) - 1
      /\ \A i \in 1 .. Len(q) - 1 : Tail(q)[i] = q[i + 1]
      /\ q[1] \in Upward
  BY <1>1, Popped
<1>3. /\ up' \in [Clients -> Seq(Upward)] /\ up'[c] = Tail(q)
      /\ \A d \in Clients \ {c} : up'[d] = up[d]
  BY <1>2 DEF SetupTypes
<1>4. c \in setupWatching BY DEF Away
<1>5. \A t : In(q, t) <=> m.type = t \/ In(Tail(q), t)
  <2> SUFFICES ASSUME NEW t PROVE In(q, t) <=> m.type = t \/ In(Tail(q), t) OBVIOUS
  <2> HIDE DEF q
  <2>1. m = q[1] BY DEF q
  <2>2. ASSUME NEW i \in 1 .. Len(q), q[i].type = t PROVE m.type = t \/ In(Tail(q), t)
    <3>1. CASE i = 1 BY <2>1, <2>2, <3>1
    <3>2. CASE i # 1
      <4>1. i - 1 \in 1 .. Len(q) - 1 /\ (i - 1) + 1 = i BY <1>2, <3>2
      <4> QED BY <1>2, <2>2, <4>1 DEF In
    <3> QED BY <3>1, <3>2
  <2>3. ASSUME NEW i \in 1 .. Len(q) - 1 PROVE i + 1 \in 1 .. Len(q) /\ Tail(q)[i] = q[i + 1]
    BY <1>2
  <2>4. 1 \in 1 .. Len(q) BY <1>2
  <2> QED BY <1>2, <2>1, <2>2, <2>3, <2>4 DEF In
<1>6. m.type \in {"RULES", "START"} => c = Master BY <1>5 DEF Away
<1>7. m \in Upward BY <1>2
<1> HIDE DEF q
<1>8. \A t : \A d \in Clients :
        /\ In(up'[d], t) => In(up[d], t)
        /\ In(up[d], t) /\ m.type # t => In(up'[d], t)
  BY <1>3, <1>5 DEF q
<1> QED BY <1>3, <1>4, <1>6, <1>7, <1>8, Kinds

LEMMA AllGrown ==
  ASSUME SetupTypes, NEW m \in Downward
  PROVE  /\ S!All(m) \in [Clients -> Seq(Downward)]
         /\ \A d \in Clients : Grown(sentDown[d], S!All(m)[d], {m.type})
         /\ \A d \in Clients \ setupWatching : S!All(m)[d] = sentDown[d]
         /\ \A d \in setupWatching : /\ Len(S!All(m)[d]) = Len(sentDown[d]) + 1
                                     /\ S!All(m)[d][Len(sentDown[d]) + 1] = m
<1>1. \A d \in Clients : S!All(m)[d] = IF d \in setupWatching THEN Append(sentDown[d], m) ELSE sentDown[d]
  BY DEF S!All
<1>2. ASSUME NEW d \in Clients
      PROVE  /\ sentDown[d] \in Seq(Downward) /\ Append(sentDown[d], m) \in Seq(Downward)
             /\ Len(Append(sentDown[d], m)) = Len(sentDown[d]) + 1
             /\ Append(sentDown[d], m)[Len(sentDown[d]) + 1] = m
             /\ Grown(sentDown[d], Append(sentDown[d], m), {m.type})
             /\ Grown(sentDown[d], sentDown[d], {m.type})
  <2>1. PICK q, r : q = sentDown[d] /\ r = Append(q, m) OBVIOUS
  <2>2. q \in Seq(Downward) BY <2>1 DEF SetupTypes
  <2>3. /\ r \in Seq(Downward) /\ Len(r) = Len(q) + 1 /\ Len(q) \in Nat
        /\ \A i \in 1 .. Len(q) : r[i] = q[i]
        /\ r[Len(q) + 1] = m
    BY <2>1, <2>2, Appended, Lengths
  <2>4. \A i \in Len(q) + 1 .. Len(r) : i = Len(q) + 1 BY <2>3
  <2>5. Len(q) + 1 .. Len(q) = {} BY <2>3
  <2> QED BY <2>1, <2>2, <2>3, <2>4, <2>5 DEF Grown
<1>3. S!All(m) \in [Clients -> Seq(Downward)] BY <1>2 DEF S!All
<1>4. setupWatching \subseteq Clients BY DEF SetupTypes
<1> QED BY <1>1, <1>2, <1>3, <1>4

LEMMA ServedAway ==
  ASSUME SetupInv, NEW c \in Clients, NEW m, NEW T, Served(c, m, T),
         setupSeat' \in setupWatching \cup {S!Nobody}
  PROVE  Away'
<1>1. SetupTypes /\ Away BY DEF SetupInv
<1>2. /\ UNCHANGED <<setupWatching, setupPort, playing, began>> /\ c \in setupWatching
      /\ \A d \in Clients \ setupWatching : sentDown'[d] = sentDown[d]
  BY DEF Served
<1>3. /\ \A d \in Clients \ {c} : up'[d] = up[d]
      /\ \A t : \A d \in Clients : In(up'[d], t) => In(up[d], t)
  BY <1>1, ServeUp DEF Served
<1>4. \A d \in Clients \ setupWatching : up'[d] = up[d] BY <1>2, <1>3
<1> QED BY <1>1, <1>2, <1>3, <1>4 DEF Away

LEMMA ServedQueues ==
  ASSUME SetupInv, NEW c \in Clients, NEW m, NEW T, Served(c, m, T), NEW d \in Clients
  PROVE  sentDown[d] \in Seq(Downward) /\ sentDown'[d] \in Seq(Downward)
         /\ Grown(sentDown[d], sentDown'[d], T)
         /\ \A t : /\ In(sentDown[d], t) => In(sentDown'[d], t)
                   /\ In(sentDown'[d], t) => In(sentDown[d], t) \/ t \in T
<1>1. sentDown[d] \in Seq(Downward) /\ sentDown'[d] \in Seq(Downward)
  BY DEF SetupInv, SetupTypes, Served
<1>2. Grown(sentDown[d], sentDown'[d], T) BY DEF Served
<1> QED BY <1>1, <1>2, InGrown

LEMMA ServedGreeting ==
  ASSUME SetupInv, NEW c \in Clients, NEW m, NEW T, Served(c, m, T), "CONNECT" \notin T
  PROVE  Greeting'
<1>1. \A d \in Clients : Greets(sentDown[d]) BY DEF SetupInv, Greeting
<1>2. \A d \in Clients : Greets(sentDown'[d]) BY <1>1, ServedQueues, GrownGreets
<1> QED BY <1>2 DEF Greeting

LEMMA ServedPlaces ==
  ASSUME SetupInv, NEW c \in Clients, NEW m, NEW T, Served(c, m, T),
         "ADD" \notin T, "REMOVE" \notin T, setupSeat' = setupSeat
  PROVE  Places'
<1>1. Places /\ SetupTypes BY DEF SetupInv
<1>2. UNCHANGED <<setupWatching, setupPort, playing, local>> BY DEF Served
<1>3. ASSUME NEW d \in Clients
      PROVE  /\ Out(sentDown[d], Len(sentDown[d]), playing[d])
                  => Out(sentDown'[d], Len(sentDown'[d]), playing[d])
             /\ Coming(sentDown[d], setupPort[d], playing[d], local[d])
                  => Coming(sentDown'[d], setupPort[d], playing[d], local[d])
  BY ServedQueues, GrownOut, GrownComing
<1>4. setupSeat \in Clients \cup {S!Nobody} /\ setupWatching \subseteq Clients
  BY <1>1 DEF SetupTypes
<1> QED BY <1>1, <1>2, <1>3, <1>4 DEF Places, Seated

LEMMA ServedDue ==
  ASSUME SetupInv, NEW c \in Clients, NEW m, NEW T, Served(c, m, T), m.type # "STEP",
         NEW d \in Clients, Due(d)
  PROVE  Due(d)'
<1>1. step' = step BY DEF Served
<1>2. In(up[d], "STEP") => In(up'[d], "STEP")
  BY ServeUp DEF SetupInv, Served
<1>3. /\ In(sentDown[d], "CONNECT") => In(sentDown'[d], "CONNECT")
      /\ sentDown[d] \in Seq(Downward) /\ sentDown'[d] \in Seq(Downward)
      /\ Grown(sentDown[d], sentDown'[d], T)
  BY ServedQueues
<1>4. ASSUME sentDown[d] # <<>> PROVE sentDown'[d] # <<>> /\ sentDown'[d][1] = sentDown[d][1]
  <2>1. PICK q, r : q = sentDown[d] /\ r = sentDown'[d] OBVIOUS
  <2>2. /\ Len(q) \in Nat /\ Len(r) \in Nat /\ Len(q) <= Len(r)
        /\ \A i \in 1 .. Len(q) : r[i] = q[i]
    BY <1>3, <2>1, GrownSame
  <2>3. Len(q) # 0 BY <1>3, <1>4, <2>1, Lengths
  <2>4. 1 \in 1 .. Len(q) /\ Len(r) # 0 BY <2>2, <2>3
  <2>5. r # <<>> BY <1>3, <2>1, <2>4, Lengths
  <2> QED BY <2>1, <2>2, <2>4, <2>5
<1> QED BY <1>1, <1>2, <1>3, <1>4 DEF Due

LEMMA ServedFollow ==
  ASSUME SetupInv, NEW c \in Clients, NEW m, NEW T, Served(c, m, T), m.type # "STEP",
         "STEP" \notin T, "SELECT" \notin T,
         setupSeat' = setupSeat, setupKept' = setupKept
  PROVE  Follow'
<1>1. /\ SetupTypes /\ Follow /\ UNCHANGED <<setupWatching, step, hasty>>
  BY DEF SetupInv, Served
<1>2. PICK s : s = setupSeat OBVIOUS
<1> SUFFICES ASSUME hasty = FALSE, s # S!Nobody, ~ Due(s)'
             PROVE  /\ Sees(s)'
                    /\ \A d \in setupWatching :
                         /\ Sees(d)' \/ In(up'[d], "STEP") \/ (setupKept = "WAIT" /\ Selected(s)')
                         /\ setupKept = "WAIT" /\ Selected(d)' => Selected(s)'
  BY <1>1, <1>2 DEF Follow, Due, Sees, Selected
<1>3. s \in Clients /\ setupWatching \subseteq Clients BY <1>1, <1>2 DEF SetupTypes
<1>4. ~ Due(s) BY <1>3, ServedDue
<1>5. /\ Sees(s)
      /\ \A d \in setupWatching :
           /\ Sees(d) \/ In(up[d], "STEP") \/ (setupKept = "WAIT" /\ Selected(s))
           /\ setupKept = "WAIT" /\ Selected(d) => Selected(s)
  BY <1>1, <1>2, <1>4 DEF Follow
<1>6. ASSUME NEW d \in Clients
      PROVE  /\ Sees(d) => Sees(d)'
             /\ Selected(d) <=> Selected(d)'
             /\ In(up[d], "STEP") => In(up'[d], "STEP")
  <2>1. /\ sentDown[d] \in Seq(Downward) /\ sentDown'[d] \in Seq(Downward)
        /\ Grown(sentDown[d], sentDown'[d], T)
    BY ServedQueues
  <2>2. Sees(d) => Sees(d)'
    <3>1. Reads(sentDown[d], Len(sentDown[d]), "STEP", step[d], setupKept)
             => Reads(sentDown'[d], Len(sentDown'[d]), "STEP", step[d], setupKept)
      BY <2>1, GrownReads
    <3> QED BY <1>1, <3>1 DEF Sees
  <2>3. Selected(d) <=> Selected(d)' BY <2>1, GrownPicked DEF Selected
  <2>4. In(up[d], "STEP") => In(up'[d], "STEP") BY ServeUp DEF SetupInv, Served
  <2> QED BY <2>2, <2>3, <2>4
<1> QED BY <1>3, <1>5, <1>6

\* A start that waits for the server still has its options before it.
LEMMA ServedAsks ==
  ASSUME SetupInv, NEW c \in Clients, NEW m, NEW T, Served(c, m, T), m.type # "RULES",
         setupPhase = "OFF", NEW i \in 1 .. Len(up'[Master]), up'[Master][i].type = "START"
  PROVE  \/ \E j \in 1 .. i - 1 : up'[Master][j].type = "RULES"
         \/ rulesKept # S!None /\ Agreed(Master)
<1>1. /\ SetupTypes /\ BeforeStart /\ Master \in Clients
      /\ up[c] # <<>> /\ m = up[c][1] /\ up' = [up EXCEPT ![c] = Tail(up[c])]
  BY Constants DEF SetupInv, Served
<1>2. CASE c # Master
  <2>1. up'[Master] = up[Master] BY <1>1, <1>2 DEF SetupTypes
  <2> QED BY <1>1, <2>1 DEF BeforeStart
<1>3. CASE c = Master
  <2>1. PICK q : q = up[Master] OBVIOUS
  <2>2. /\ q \in Seq(Upward) /\ q # <<>> /\ up'[Master] = Tail(q) /\ m = q[1]
    BY <1>1, <1>3, <2>1 DEF SetupTypes
  <2>3. /\ Len(q) \in Nat \ {0} /\ Len(Tail(q)) = Len(q) - 1
        /\ \A j \in 1 .. Len(q) - 1 : Tail(q)[j] = q[j + 1]
    BY <2>2, Popped
  <2>4. i + 1 \in 1 .. Len(q) /\ q[i + 1].type = "START" /\ (i + 1) - 1 = i
        /\ i \in 1 .. Len(q) - 1
    BY <2>2, <2>3
  <2>5. \/ \E j \in 1 .. i : q[j].type = "RULES"
        \/ rulesKept # S!None /\ Agreed(Master)
    BY <1>1, <2>1, <2>4 DEF BeforeStart
  <2>6. ASSUME NEW j \in 1 .. i, q[j].type = "RULES"
        PROVE  \E k \in 1 .. i - 1 : Tail(q)[k].type = "RULES"
    <3>1. j # 1 BY <2>2, <2>6
    <3>2. j - 1 \in 1 .. i - 1 /\ j - 1 \in 1 .. Len(q) - 1 /\ (j - 1) + 1 = j
      BY <2>4, <3>1
    <3> QED BY <2>3, <2>6, <3>2
  <2> QED BY <2>2, <2>5, <2>6
<1> QED BY <1>2, <1>3

\* No message tells of options or of a start.
LEMMA ServedOptions ==
  ASSUME SetupInv, NEW c \in Clients, NEW m, NEW T, Served(c, m, T),
         m.type \notin {"RULES", "START"},
         "START" \notin T, "RULES" \notin T, "CONNECT" \notin T,
         UNCHANGED <<rulesKept, setupPhase>>
  PROVE  BeforeStart' /\ AfterStart'
<1>1. /\ SetupTypes /\ BeforeStart /\ AfterStart /\ Master \in Clients
      /\ UNCHANGED <<rules, began, setupPort>>
  BY Constants DEF SetupInv, Served
<1>2. ASSUME NEW d \in Clients
      PROVE  /\ Joined(d)' => Joined(d)
             /\ Agreed(d) => Agreed(d)'
             /\ In(sentDown'[d], "START") => In(sentDown[d], "START")
             /\ \A r : Begins(d, r) => Begins(d, r)'
  <2>1. /\ sentDown[d] \in Seq(Downward) /\ sentDown'[d] \in Seq(Downward)
        /\ Grown(sentDown[d], sentDown'[d], T)
        /\ \A t : In(sentDown'[d], t) => In(sentDown[d], t) \/ t \in T
    BY ServedQueues
  <2>2. Reads(sentDown[d], Len(sentDown[d]), "RULES", rules[d], rulesKept)
           => Reads(sentDown'[d], Len(sentDown'[d]), "RULES", rules[d], rulesKept)
    BY <2>1, GrownReads
  <2>3. \A r : Starts(sentDown[d], rules[d], r) => Starts(sentDown'[d], rules[d], r)
    BY <2>1, GrownStarts
  <2> QED BY <1>1, <2>1, <2>2, <2>3 DEF Joined, Agreed, Begins
<1>3. BeforeStart'
  <2> SUFFICES ASSUME setupPhase = "OFF" PROVE BeforeStart'
    BY DEF BeforeStart
  <2>1. \A d \in Clients : began'[d] = S!None /\ ~ In(sentDown'[d], "START")
    BY <1>1, <1>2 DEF BeforeStart
  <2>2. rulesKept' # S!None => \A d \in Clients \ {Master} : Joined(d)' => Agreed(d)'
    BY <1>1, <1>2 DEF BeforeStart
  <2>3. ASSUME NEW i \in 1 .. Len(up'[Master]), up'[Master][i].type = "START"
        PROVE  \/ \E j \in 1 .. i - 1 : up'[Master][j].type = "RULES"
               \/ rulesKept' # S!None /\ Agreed(Master)'
    BY <1>1, <1>2, <2>3, ServedAsks
  <2> QED BY <2>1, <2>2, <2>3 DEF BeforeStart
<1>4. AfterStart'
  <2> SUFFICES ASSUME setupPhase = "PLAYING" PROVE AfterStart'
    BY DEF AfterStart
  <2>1. PICK r \in Rules : \A d \in Clients : d = Master \/ Joined(d) => Begins(d, r)
    BY <1>1 DEF AfterStart
  <2>2. \A d \in Clients : (d = Master \/ Joined(d))' => Begins(d, r)' BY <1>2, <2>1
  <2> QED BY <2>2 DEF AfterStart
<1> QED BY <1>3, <1>4

\* What makes a step of the server one in which queues grow.
LEMMA MakeServed ==
  ASSUME SetupTypes, Away, NEW c \in Clients, NEW m, NEW T, up[c] # <<>>, m = up[c][1],
         up' = [up EXCEPT ![c] = Tail(up[c])],
         UNCHANGED <<setupWatching, setupPort, playing, local, step, rules, began, hasty>>,
         setupSeat' \in Clients \cup {S!Nobody}, setupKept' \in S!Steps,
         rulesKept' \in Rules \cup {S!None}, setupPhase' \in {"OFF", "PLAYING"},
         sentDown' \in [Clients -> Seq(Downward)],
         \A d \in Clients : Grown(sentDown[d], sentDown'[d], T),
         \A d \in Clients \ setupWatching : sentDown'[d] = sentDown[d]
  PROVE  Served(c, m, T)
<1>1. up' \in [Clients -> Seq(Upward)] /\ m \in Upward /\ c \in setupWatching BY ServeUp
<1>2. SetupTypes' BY <1>1 DEF SetupTypes
<1> QED BY <1>1, <1>2 DEF Served

LEMMA SameServed ==
  ASSUME SetupTypes, NEW T, sentDown' = sentDown
  PROVE  /\ sentDown' \in [Clients -> Seq(Downward)]
         /\ \A d \in Clients : Grown(sentDown[d], sentDown'[d], T)
<1>1. ASSUME NEW d \in Clients PROVE Grown(sentDown[d], sentDown[d], T)
  <2>1. sentDown[d] \in Seq(Downward) BY DEF SetupTypes
  <2>2. Len(sentDown[d]) \in Nat BY <2>1, Lengths
  <2>3. Len(sentDown[d]) + 1 .. Len(sentDown[d]) = {} BY <2>2
  <2> QED BY <2>2, <2>3 DEF Grown
<1> QED BY <1>1 DEF SetupTypes

\* Nothing but the queue of the client changes.
LEMMA IgnoredInv ==
  ASSUME SetupInv, NEW c \in Clients, NEW m, Served(c, m, {}),
         m.type \notin {"RULES", "START", "STEP"},
         UNCHANGED <<setupSeat, setupKept, rulesKept, setupPhase>>
  PROVE  SetupInv'
<1>1. setupSeat' \in setupWatching \cup {S!Nobody} BY DEF SetupInv, Away
<1>2. PICK T : T = {} OBVIOUS
<1>3. /\ Served(c, m, T) /\ "CONNECT" \notin T /\ "ADD" \notin T /\ "REMOVE" \notin T
      /\ "STEP" \notin T /\ "SELECT" \notin T /\ "START" \notin T /\ "RULES" \notin T
  BY <1>2
<1>4. Away' BY <1>1, <1>3, ServedAway
<1>5. Greeting' BY <1>3, ServedGreeting
<1>6. Places' BY <1>3, ServedPlaces
<1>7. Follow' BY <1>3, ServedFollow
<1>8. BeforeStart' /\ AfterStart' BY <1>3, ServedOptions
<1> QED BY <1>4, <1>5, <1>6, <1>7, <1>8 DEF SetupInv, Served

LEMMA SelectInv ==
  ASSUME SetupInv, NEW c \in Clients, NEW m, Served(c, m, {"SELECT"}), m.type = "SELECT",
         sentDown' = S!All(m), m \in Downward,
         UNCHANGED <<setupSeat, setupKept, rulesKept, setupPhase>>
  PROVE  SetupInv'
<1>1. setupSeat' \in setupWatching \cup {S!Nobody} BY DEF SetupInv, Away
<1>2. PICK T : T = {"SELECT"} OBVIOUS
<1>3. /\ Served(c, m, T) /\ "CONNECT" \notin T /\ "ADD" \notin T /\ "REMOVE" \notin T
      /\ "STEP" \notin T /\ "START" \notin T /\ "RULES" \notin T /\ m.type # "STEP"
      /\ m.type \notin {"RULES", "START"}
  BY <1>2
<1>4. Away' BY <1>1, <1>3, ServedAway
<1>5. Greeting' BY <1>3, ServedGreeting
<1>6. Places' BY <1>3, ServedPlaces
<1>7. BeforeStart' /\ AfterStart' BY <1>3, ServedOptions
<1>8. Follow'
  <2>1. /\ SetupTypes /\ Away /\ Follow /\ UNCHANGED <<setupWatching, step, hasty>>
    BY DEF SetupInv, Served
  <2>2. PICK s : s = setupSeat OBVIOUS
  <2> SUFFICES ASSUME hasty = FALSE, s # S!Nobody, ~ Due(s)'
               PROVE  /\ Sees(s)' /\ Selected(s)'
                      /\ \A d \in setupWatching :
                           Sees(d)' \/ In(up'[d], "STEP") \/ setupKept = "WAIT"
    BY <2>1, <2>2 DEF Follow, Due, Sees, Selected
  <2>3. s \in setupWatching /\ setupWatching \subseteq Clients
    BY <2>1, <2>2 DEF SetupTypes, Away
  <2>4. ~ Due(s) BY <1>3, <2>3, ServedDue
  <2>5. /\ Sees(s)
        /\ \A d \in setupWatching : Sees(d) \/ In(up[d], "STEP") \/ setupKept = "WAIT"
    BY <2>1, <2>2, <2>4 DEF Follow
  <2>6. ASSUME NEW d \in Clients
        PROVE  /\ Sees(d) => Sees(d)'
               /\ In(up[d], "STEP") => In(up'[d], "STEP")
    <3>1. /\ sentDown[d] \in Seq(Downward) /\ sentDown'[d] \in Seq(Downward)
          /\ Grown(sentDown[d], sentDown'[d], T)
      BY <1>3, ServedQueues
    <3>2. Reads(sentDown[d], Len(sentDown[d]), "STEP", step[d], setupKept)
             => Reads(sentDown'[d], Len(sentDown'[d]), "STEP", step[d], setupKept)
      BY <1>3, <3>1, GrownReads
    <3>3. In(up[d], "STEP") => In(up'[d], "STEP") BY ServeUp DEF SetupInv, Served
    <3> QED BY <2>1, <3>2, <3>3 DEF Sees
  <2>7. Selected(s)'
    <3>1. PICK q, r : q = sentDown[s] /\ r = sentDown'[s] OBVIOUS
    <3>2. Len(r) = Len(q) + 1 /\ r[Len(q) + 1] = m /\ Len(q) \in Nat
      <4>1. q \in Seq(Downward) BY <2>1, <2>3, <3>1 DEF SetupTypes
      <4> QED BY <2>1, <2>3, <3>1, <4>1, AllGrown, Lengths
    <3>3. Len(q) + 1 \in 1 .. Len(r) /\ (Len(q) + 1) + 1 .. Len(r) = {} BY <3>2
    <3> QED BY <3>1, <3>2, <3>3 DEF Selected, Picked
  <2> QED BY <2>3, <2>5, <2>6, <2>7
<1> QED BY <1>4, <1>5, <1>6, <1>7, <1>8 DEF SetupInv, Served

LEMMA StepInv ==
  ASSUME SetupInv, NEW c \in Clients, NEW m, Served(c, m, {"STEP"}), m.type = "STEP",
         sentDown' = S!All(m), m \in Downward, setupKept' = m.arg,
         UNCHANGED <<setupSeat, rulesKept, setupPhase>>
  PROVE  SetupInv'
<1>1. setupSeat' \in setupWatching \cup {S!Nobody} BY DEF SetupInv, Away
<1>2. PICK T : T = {"STEP"} OBVIOUS
<1>3. /\ Served(c, m, T) /\ "CONNECT" \notin T /\ "ADD" \notin T /\ "REMOVE" \notin T
      /\ "SELECT" \notin T /\ "START" \notin T /\ "RULES" \notin T
      /\ m.type \notin {"RULES", "START"}
  BY <1>2
<1>4. Away' BY <1>1, <1>3, ServedAway
<1>5. Greeting' BY <1>3, ServedGreeting
<1>6. Places' BY <1>3, ServedPlaces
<1>7. BeforeStart' /\ AfterStart' BY <1>3, ServedOptions
<1>8. Follow'
  <2>1. /\ SetupTypes /\ Away /\ UNCHANGED <<setupWatching, step>>
    BY DEF SetupInv, Served
  <2>2. Sets(m, "STEP") BY Kinds, Constants DEF Sets
  <2>3. ASSUME NEW d \in setupWatching PROVE Sees(d)' /\ ~ Selected(d)'
    <3>1. PICK q, r, s : q = sentDown[d] /\ r = sentDown'[d] /\ s = step'[d] OBVIOUS
    <3>2. Len(r) = Len(q) + 1 /\ r[Len(q) + 1] = m /\ Len(q) \in Nat
      <4>1. q \in Seq(Downward) BY <2>1, <3>1 DEF SetupTypes
      <4> QED BY <2>1, <3>1, <4>1, AllGrown, Lengths
    <3>3. /\ Len(r) \in Nat /\ Len(r) \in 1 .. Len(r) /\ Len(r) + 1 .. Len(r) = {} /\ r[Len(r)] = m
      BY <3>2
    <3>4. Reads(r, Len(r), "STEP", s, setupKept') BY <2>2, <3>3, ReadsLast
    <3>5. ~ Picked(r)
      <4> SUFFICES ASSUME NEW i \in 1 .. Len(r), r[i].type = "SELECT",
                          \A j \in i + 1 .. Len(r) : ~ Sets(r[j], "STEP")
                   PROVE  FALSE
        BY DEF Picked
      <4>1. i # Len(r) BY <3>3
      <4>2. Len(r) \in i + 1 .. Len(r) BY <3>3, <4>1
      <4> QED BY <2>2, <3>3, <4>2
    <3> QED BY <3>1, <3>4, <3>5 DEF Sees, Selected
  <2>4. PICK s : s = setupSeat OBVIOUS
  <2> SUFFICES ASSUME s # S!Nobody
               PROVE  Sees(s)' /\ \A d \in setupWatching : Sees(d)' /\ ~ Selected(d)'
    BY <2>1, <2>4 DEF Follow, Sees, Selected
  <2>5. s \in setupWatching BY <2>1, <2>4 DEF Away
  <2> QED BY <2>3, <2>5
<1> QED BY <1>4, <1>5, <1>6, <1>7, <1>8 DEF SetupInv, Served

\* The last message that all who watch are sent.
LEMMA LastOfAll ==
  ASSUME SetupTypes, NEW m \in Downward, sentDown' = S!All(m), NEW d \in setupWatching
  PROVE  /\ Len(sentDown'[d]) \in Nat \ {0} /\ Len(sentDown'[d]) - 1 = Len(sentDown[d])
         /\ sentDown'[d][Len(sentDown'[d])] = m
<1>1. PICK q, r : q = sentDown[d] /\ r = sentDown'[d] OBVIOUS
<1>2. q \in Seq(Downward) BY <1>1 DEF SetupTypes
<1>3. Len(r) = Len(q) + 1 /\ r[Len(q) + 1] = m /\ Len(q) \in Nat BY <1>1, <1>2, AllGrown, Lengths
<1> QED BY <1>1, <1>3

\* Only those who watch have joined.
LEMMA JoinedWatch ==
  ASSUME SetupTypes, Away, NEW d \in Clients, Joined(d)
  PROVE  d \in setupWatching
<1> SUFFICES ASSUME d \notin setupWatching PROVE FALSE OBVIOUS
<1>1. sentDown[d] = <<>> /\ setupPort[d] = FALSE BY DEF Away
<1>2. Len(<<>>) = 0 OBVIOUS
<1> QED BY <1>1, <1>2 DEF Joined, In

LEMMA RulesInv ==
  ASSUME SetupInv, NEW c \in Clients, NEW m, Served(c, m, {"RULES"}), m.type = "RULES",
         sentDown' = S!All(m), m \in Downward, m.arg \in Rules, rulesKept' = m.arg,
         UNCHANGED <<setupSeat, setupKept, setupPhase>>
  PROVE  SetupInv'
<1>1. setupSeat' \in setupWatching \cup {S!Nobody} BY DEF SetupInv, Away
<1>2. PICK T : T = {"RULES"} OBVIOUS
<1>3. /\ Served(c, m, T) /\ "CONNECT" \notin T /\ "ADD" \notin T /\ "REMOVE" \notin T
      /\ "STEP" \notin T /\ "SELECT" \notin T /\ "START" \notin T /\ m.type # "STEP"
  BY <1>2
<1>4. Away' BY <1>1, <1>3, ServedAway
<1>5. Greeting' BY <1>3, ServedGreeting
<1>6. Places' BY <1>3, ServedPlaces
<1>7. Follow' BY <1>3, ServedFollow
<1>8. /\ SetupTypes /\ Away /\ BeforeStart /\ AfterStart /\ Master \in setupWatching
      /\ UNCHANGED <<setupWatching, rules, began, setupPort>>
  BY DEF SetupInv, SetupTypes, Served
<1>9. Sets(m, "RULES") BY Constants DEF Sets
<1>10. ASSUME NEW d \in setupWatching PROVE Agreed(d)'
  <2>1. PICK r, s : r = sentDown'[d] /\ s = rules'[d] OBVIOUS
  <2>2. Len(r) \in Nat /\ Len(r) \in 1 .. Len(r) /\ Len(r) + 1 .. Len(r) = {} /\ r[Len(r)] = m
    <3>1. Len(r) \in Nat \ {0} /\ r[Len(r)] = m BY <1>8, <2>1, LastOfAll
    <3> QED BY <3>1
  <2>3. Reads(r, Len(r), "RULES", s, rulesKept') BY <1>9, <2>2, ReadsLast
  <2> QED BY <2>1, <2>3 DEF Agreed
<1>11. ASSUME NEW d \in Clients
       PROVE  /\ Joined(d)' => Joined(d)
              /\ In(sentDown'[d], "START") => In(sentDown[d], "START")
              /\ \A r : Begins(d, r) => Begins(d, r)'
  <2>1. /\ sentDown[d] \in Seq(Downward) /\ sentDown'[d] \in Seq(Downward)
        /\ Grown(sentDown[d], sentDown'[d], T)
        /\ \A t : In(sentDown'[d], t) => In(sentDown[d], t) \/ t \in T
    BY <1>3, ServedQueues
  <2>2. \A r : Starts(sentDown[d], rules[d], r) => Starts(sentDown'[d], rules[d], r)
    BY <1>3, <2>1, GrownStarts
  <2> QED BY <1>3, <1>8, <2>1, <2>2 DEF Joined, Begins
<1>12. BeforeStart'
  <2>1. \A d \in Clients \ {Master} : Joined(d)' => Agreed(d)'
    BY <1>8, <1>10, <1>11, JoinedWatch
  <2>2. rulesKept' # S!None /\ Agreed(Master)' BY <1>8, <1>10, Constants
  <2>3. setupPhase = "OFF" => \A d \in Clients : began'[d] = S!None /\ ~ In(sentDown'[d], "START")
    BY <1>8, <1>11 DEF BeforeStart
  <2> QED BY <2>1, <2>2, <2>3 DEF BeforeStart
<1>13. AfterStart'
  <2> SUFFICES ASSUME setupPhase = "PLAYING" PROVE AfterStart'
    BY DEF AfterStart
  <2>1. PICK r \in Rules : \A d \in Clients : d = Master \/ Joined(d) => Begins(d, r)
    BY <1>8 DEF AfterStart
  <2>2. \A d \in Clients : (d = Master \/ Joined(d))' => Begins(d, r)' BY <1>11, <2>1
  <2> QED BY <2>2 DEF AfterStart
<1> QED BY <1>4, <1>5, <1>6, <1>7, <1>12, <1>13 DEF SetupInv, Served

\* All that have joined know the options that the server knows: with those they start.
LEMMA StartInv ==
  ASSUME SetupInv, NEW c \in Clients, NEW m, NEW T, Served(c, m, T), m.type = "START",
         T = {"START"}, m \in Downward, c = Master, setupPhase' = "PLAYING",
         sentDown' = IF setupPhase = "OFF" THEN S!All(m) ELSE sentDown,
         UNCHANGED <<setupSeat, setupKept, rulesKept>>
  PROVE  SetupInv'
<1>1. setupSeat' \in setupWatching \cup {S!Nobody} BY DEF SetupInv, Away
<1>3. /\ "CONNECT" \notin T /\ "ADD" \notin T /\ "REMOVE" \notin T
      /\ "STEP" \notin T /\ "SELECT" \notin T /\ "RULES" \notin T /\ m.type # "STEP"
  OBVIOUS
<1>4. Away' BY <1>1, ServedAway
<1>5. Greeting' BY <1>3, ServedGreeting
<1>6. Places' BY <1>3, ServedPlaces
<1>7. Follow' BY <1>3, ServedFollow
<1>8. /\ SetupTypes /\ Away /\ BeforeStart /\ AfterStart /\ Master \in setupWatching
      /\ Master \in Clients /\ UNCHANGED <<setupWatching, rules, began, setupPort>>
  BY Constants DEF SetupInv, SetupTypes, Served
<1>9. BeforeStart' BY DEF BeforeStart
<1>10. ASSUME NEW d \in Clients PROVE Joined(d)' => Joined(d)
  <2>1. In(sentDown'[d], "CONNECT") => In(sentDown[d], "CONNECT") BY <1>3, ServedQueues
  <2> QED BY <1>8, <2>1 DEF Joined
<1>11. CASE setupPhase = "PLAYING"
  <2>1. PICK r \in Rules : \A d \in Clients : d = Master \/ Joined(d) => Begins(d, r)
    BY <1>8, <1>11 DEF AfterStart
  <2>2. \A d \in Clients : Begins(d, r) => Begins(d, r)' BY <1>8, <1>11 DEF Begins
  <2>3. \A d \in Clients : (d = Master \/ Joined(d))' => Begins(d, r)' BY <1>10, <2>1, <2>2
  <2> QED BY <1>4, <1>5, <1>6, <1>7, <1>9, <2>3 DEF SetupInv, Served, AfterStart
<1>12. CASE setupPhase = "OFF"
  <2>1. rulesKept # S!None /\ Agreed(Master)
    <3>1. PICK q : q = up[Master] OBVIOUS
    <3>2. q \in Seq(Upward) /\ q # <<>> /\ q[1].type = "START"
      BY <1>8, <3>1 DEF SetupTypes, Served
    <3>3. 1 \in 1 .. Len(q) /\ 1 .. 1 - 1 = {}
      <4>1. Len(q) \in Nat \ {0} BY <3>2, Popped
      <4> QED BY <4>1
    <3> QED BY <1>8, <1>12, <3>1, <3>2, <3>3 DEF BeforeStart
  <2>2. rulesKept \in Rules BY <1>8, <2>1 DEF SetupTypes
  <2>3. ASSUME NEW d \in Clients, d = Master \/ Joined(d) PROVE Begins(d, rulesKept)'
    <3>1. Agreed(d) /\ d \in setupWatching BY <1>8, <1>12, <2>1, <2>3, JoinedWatch DEF BeforeStart
    <3>2. began'[d] = S!None /\ ~ In(sentDown[d], "START") BY <1>8, <1>12 DEF BeforeStart
    <3>3. PICK q, r, o, v : q = sentDown[d] /\ r = sentDown'[d] /\ o = rules[d] /\ v = rulesKept OBVIOUS
    <3>4. q \in Seq(Downward) /\ r \in Seq(Downward) /\ Grown(q, r, T) BY <3>3, ServedQueues
    <3>5. sentDown' = S!All(m) BY <1>12
    <3>6. Len(r) \in Nat \ {0} /\ Len(r) - 1 = Len(q) /\ r[Len(r)] = m
      BY <1>8, <3>1, <3>3, <3>5, LastOfAll
    <3>7. Starts(r, o, v)
      <4> SUFFICES ASSUME NEW i \in 1 .. Len(r), r[i].type = "START"
                   PROVE  Reads(r, i - 1, "RULES", o, v)
        BY DEF Starts
      <4>1. /\ Len(q) \in Nat /\ \A j \in 1 .. Len(q) : r[j] = q[j]
            /\ \A j \in 1 .. Len(r) : j \in 1 .. Len(q) \/ j \in Len(q) + 1 .. Len(r)
        BY <3>4, GrownSame
      <4>2. i \notin 1 .. Len(q) BY <3>2, <3>3, <4>1 DEF In
      <4>3. i - 1 = Len(q) BY <3>6, <4>1, <4>2
      <4>4. Reads(q, Len(q), "RULES", o, v) BY <3>1, <3>3 DEF Agreed
      <4>5. PICK n : n = Len(q) OBVIOUS
      <4>6. n \in Nat /\ n <= n /\ n + 1 .. n = {} /\ \A j \in 1 .. n : r[j] = q[j]
        BY <4>1, <4>5
      <4>7. Reads(q, n, "RULES", o, v) BY <4>4, <4>5
      <4>8. Reads(r, n, "RULES", o, v) BY ONLY <4>6, <4>7, ReadsMore
      <4> QED BY <4>3, <4>5, <4>8
    <3> QED BY <1>8, <3>2, <3>3, <3>7 DEF Begins
  <2>4. \A d \in Clients : (d = Master \/ Joined(d))' => Begins(d, rulesKept)' BY <1>10, <2>3
  <2>5. AfterStart' BY <2>2, <2>4 DEF AfterStart, Begins
  <2> QED BY <1>4, <1>5, <1>6, <1>7, <1>9, <2>5 DEF SetupInv, Served
<1> QED BY <1>8, <1>11, <1>12 DEF SetupTypes

\* Whose last message is that the player is out knows it.
LEMMA OutLast ==
  ASSUME NEW r \in Seq(Downward), Len(r) # 0, r[Len(r)].type = "REMOVE", NEW own
  PROVE  Out(r, Len(r), own)
<1>1. Len(r) \in Nat BY Lengths
<1>2. Len(r) \in 1 .. Len(r) /\ Len(r) + 1 .. Len(r) = {} BY <1>1
<1> QED BY <1>2 DEF Out

LEMMA LeaveInv ==
  ASSUME SetupInv, NEW c \in Clients, NEW m, NEW T, Served(c, m, T), m.type = "LEAVE",
         T = {"DISCONNECT", "REMOVE"}, setupSeat' = S!Nobody,
         \A d \in setupWatching : /\ Len(sentDown'[d]) # 0
                                  /\ sentDown'[d][Len(sentDown'[d])].type = "REMOVE",
         UNCHANGED <<setupKept, rulesKept, setupPhase>>
  PROVE  SetupInv'
<1>1. Away' BY ServedAway
<1>2. Greeting' BY ServedGreeting
<1>3. BeforeStart' /\ AfterStart' BY ServedOptions
<1>4. Places'
  <2>1. ASSUME NEW d \in setupWatching PROVE Out(sentDown'[d], Len(sentDown'[d]), playing'[d])
    <3>1. PICK r, own : r = sentDown'[d] /\ own = playing'[d] OBVIOUS
    <3>2. d \in Clients BY DEF SetupInv, SetupTypes
    <3>3. r \in Seq(Downward) BY <3>1, <3>2, ServedQueues
    <3> QED BY <3>1, <3>3, OutLast
  <2> QED BY <2>1 DEF Places, Served
<1>5. Follow' BY DEF Follow
<1> QED BY <1>1, <1>2, <1>3, <1>4, <1>5 DEF SetupInv, Served

LEMMA LeaveServed ==
  ASSUME SetupInv, NEW c \in Clients, NEW m, up[c] # <<>>, m = up[c][1],
         up' = [up EXCEPT ![c] = Tail(up[c])],
         UNCHANGED <<setupWatching, setupPort, playing, local, step, rules, began, hasty>>,
         S!HandleLeave(c)
  PROVE  /\ Served(c, m, {"DISCONNECT", "REMOVE"})
         /\ \A d \in setupWatching : /\ Len(sentDown'[d]) # 0
                                     /\ sentDown'[d][Len(sentDown'[d])].type = "REMOVE"
<1>1. SetupTypes /\ Away BY DEF SetupInv
<1>2. PICK T, x, y : T = {"DISCONNECT", "REMOVE"} /\ x = S!Msg("DISCONNECT", 0) /\ y = S!Msg("REMOVE", 0)
  OBVIOUS
<1>3. x \in Downward /\ y \in Downward /\ x.type = "DISCONNECT" /\ y.type = "REMOVE"
  BY <1>2, Sendable DEF S!Msg
<1>4. c \in setupWatching /\ setupWatching \subseteq Clients
  BY <1>1, ServeUp DEF SetupTypes
<1>5. /\ setupSeat' = S!Nobody /\ UNCHANGED <<setupKept, rulesKept, setupPhase>>
      /\ sentDown' = [d \in Clients |->
           (IF d = c THEN Append(sentDown[d], x) ELSE sentDown[d])
           \o (IF d \in setupWatching THEN <<y>> ELSE <<>>)]
  BY <1>2 DEF S!HandleLeave
<1>6. <<y>> \in Seq(Downward) /\ Len(<<y>>) = 1 /\ <<y>>[1] = y BY <1>3
<1>7. ASSUME NEW d \in Clients
      PROVE  /\ sentDown'[d] \in Seq(Downward) /\ Grown(sentDown[d], sentDown'[d], T)
             /\ d \notin setupWatching => sentDown'[d] = sentDown[d]
             /\ d \in setupWatching => /\ Len(sentDown'[d]) # 0
                                       /\ sentDown'[d][Len(sentDown'[d])].type = "REMOVE"
  <2>1. PICK q, p, r : q = sentDown[d] /\ p = (IF d = c THEN Append(q, x) ELSE q) /\ r = sentDown'[d]
    OBVIOUS
  <2>2. q \in Seq(Downward) BY <1>1, <2>1 DEF SetupTypes
  <2>3. p \in Seq(Downward) /\ Grown(q, p, T)
    <3>1. CASE d = c
      <4>1. p = Append(q, x) BY <2>1, <3>1
      <4>2. /\ p \in Seq(Downward) /\ Len(p) = Len(q) + 1 /\ Len(q) \in Nat
            /\ \A i \in 1 .. Len(q) : p[i] = q[i]
            /\ p[Len(q) + 1] = x
        BY <1>3, <2>2, <4>1, Appended, Lengths
      <4>3. \A i \in Len(q) + 1 .. Len(p) : i = Len(q) + 1 BY <4>2
      <4> QED BY <1>2, <1>3, <4>2, <4>3 DEF Grown
    <3>2. CASE d # c
      <4>1. p = q /\ Len(q) \in Nat BY <2>1, <2>2, <3>2, Lengths
      <4>2. Len(q) + 1 .. Len(q) = {} BY <4>1
      <4> QED BY <2>2, <4>1, <4>2 DEF Grown
    <3> QED BY <3>1, <3>2
  <2>4. CASE d \in setupWatching
    <3>1. r = p \o <<y>> BY <1>5, <2>1, <2>4
    <3>2. \A i \in 1 .. Len(<<y>>) : <<y>>[i].type \in T BY <1>2, <1>3, <1>6
    <3>3. r \in Seq(Downward) /\ Grown(p, r, T) BY ONLY <1>6, <2>3, <3>1, <3>2, GrownBy
    <3>4. Len(r) = Len(p) + 1 /\ r[Len(p) + 1] = y /\ Len(p) \in Nat
      <4>1. /\ Len(r) = Len(p) + Len(<<y>>) /\ Len(p) \in Nat
            /\ \A i \in 1 .. Len(<<y>>) : r[Len(p) + i] = <<y>>[i]
        BY ONLY <1>6, <2>3, <3>1, Joined2, Lengths
      <4> QED BY <1>6, <4>1
    <3>5. Grown(q, r, T) BY ONLY <2>2, <2>3, <3>3, GrownTwice
    <3> QED BY <1>3, <2>1, <2>4, <3>3, <3>4, <3>5
  <2>5. CASE d \notin setupWatching
    <3>1. d # c BY <1>4, <2>5
    <3>2. r = q \o <<>> BY <1>5, <2>1, <2>5, <3>1
    <3>3. r = q BY <2>2, <3>2
    <3>4. p = q BY <2>1, <3>1
    <3> QED BY <2>1, <2>2, <2>3, <2>5, <3>3, <3>4
  <2> QED BY <2>4, <2>5
<1>8. sentDown' \in [Clients -> Seq(Downward)] BY <1>5, <1>7
<1>9. Served(c, m, T)
  BY <1>1, <1>5, <1>7, <1>8, MakeServed DEF SetupTypes
<1> QED BY <1>2, <1>4, <1>7, <1>9

\* The four messages for a newcomer, after q.
Welcomed(q, r) ==
  /\ Len(r) = Len(q) + 4 /\ \A i \in 1 .. Len(q) : r[i] = q[i]
  /\ r[Len(q) + 1].type = "CONNECT" /\ r[Len(q) + 2].type = "ADD"
  /\ r[Len(q) + 3] = S!Msg("RULES", rulesKept) /\ Sets(r[Len(q) + 4], "STEP")

LEMMA WelcomedKinds ==
  ASSUME NEW q \in Seq(Downward), NEW r \in Seq(Downward), Welcomed(q, r)
  PROVE  /\ Len(q) \in Nat /\ Len(r) = Len(q) + 4
         /\ \A i \in 1 .. Len(r) : \/ i \in 1 .. Len(q) /\ r[i] = q[i]
                                   \/ i \in {Len(q) + 1, Len(q) + 2, Len(q) + 3, Len(q) + 4}
         /\ r[Len(q) + 3].type = "RULES" /\ r[Len(q) + 4].type = "STEP"
         /\ Grown(q, r, {"CONNECT", "ADD", "RULES", "STEP"})
<1>1. Len(q) \in Nat /\ Len(r) = Len(q) + 4 BY Lengths DEF Welcomed
<1>2. r[Len(q) + 3].type = "RULES" /\ r[Len(q) + 4].type = "STEP"
  BY DEF Welcomed, S!Msg, Sets
<1>3. ASSUME NEW i \in 1 .. Len(r)
      PROVE  i \in 1 .. Len(q) \/ i \in {Len(q) + 1, Len(q) + 2, Len(q) + 3, Len(q) + 4}
  BY <1>1
<1>4. \A i \in Len(q) + 1 .. Len(r) : i \in {Len(q) + 1, Len(q) + 2, Len(q) + 3, Len(q) + 4}
  BY <1>1
<1>5. Grown(q, r, {"CONNECT", "ADD", "RULES", "STEP"})
  BY <1>1, <1>2, <1>4 DEF Welcomed, Grown
<1> QED BY <1>1, <1>2, <1>3, <1>5 DEF Welcomed

LEMMA WelcomedGreets ==
  ASSUME NEW q \in Seq(Downward), NEW r \in Seq(Downward), Welcomed(q, r), Greets(q)
  PROVE  Greets(r)
<1> SUFFICES ASSUME NEW i \in 1 .. Len(r), r[i].type = "CONNECT"
             PROVE  i + 3 <= Len(r) /\ r[i + 1].type = "ADD" /\ Sets(r[i + 3], "STEP")
  BY DEF Greets
<1>1. CASE i \in 1 .. Len(q) /\ r[i] = q[i]
  <2>1. i + 3 <= Len(q) /\ q[i + 1].type = "ADD" /\ Sets(q[i + 3], "STEP") BY <1>1 DEF Greets
  <2>2. i + 1 \in 1 .. Len(q) /\ i + 3 \in 1 .. Len(q) /\ i + 3 <= Len(r)
    BY <1>1, <2>1, WelcomedKinds
  <2> QED BY <2>1, <2>2 DEF Welcomed
<1>2. CASE i \in {Len(q) + 1, Len(q) + 2, Len(q) + 3, Len(q) + 4}
  <2>1. i = Len(q) + 1 BY <1>2, WelcomedKinds DEF Welcomed
  <2>2. i + 1 = Len(q) + 2 /\ i + 3 = Len(q) + 4 /\ i + 3 <= Len(r) BY <2>1, WelcomedKinds
  <2> QED BY <2>2 DEF Welcomed
<1> QED BY <1>1, <1>2, WelcomedKinds

LEMMA WelcomedComes ==
  ASSUME NEW q \in Seq(Downward), NEW r \in Seq(Downward), Welcomed(q, r),
         NEW po, NEW pl, NEW lo, Out(q, Len(q), pl)
  PROVE  Coming(r, po, pl, lo)
<1>1. Len(q) \in Nat /\ Len(r) = Len(q) + 4 BY WelcomedKinds
<1>2. PICK i : i = Len(q) + 1 OBVIOUS
<1>3. i \in 1 .. Len(r) /\ i - 1 = Len(q) /\ (i + 1) + 2 <= Len(r)
      /\ i + 1 = Len(q) + 2 /\ (i + 1) + 2 = Len(q) + 4
  BY <1>1, <1>2
<1>4. ASSUME NEW j \in (i + 1) + 1 .. Len(r) PROVE r[j].type \notin {"ADD", "REMOVE"}
  <2>1. j = Len(q) + 3 \/ j = Len(q) + 4 BY <1>1, <1>2
  <2> QED BY <2>1, WelcomedKinds
<1>5. Greeted(r, i + 1) BY <1>3, <1>4 DEF Greeted, Quiet, Welcomed
<1>6. Len(q) + 1 .. Len(q) = {} BY <1>1
<1>7. Out(r, i - 1, pl)
  <2>1. PICK n : n = Len(q) OBVIOUS
  <2>2. n \in Nat /\ n <= n /\ n + 1 .. n = {} /\ \A j \in 1 .. n : r[j] = q[j]
    BY <1>1, <1>6, <2>1 DEF Welcomed
  <2>3. Out(q, n, pl) BY <2>1
  <2>4. Out(r, n, pl) BY ONLY <2>2, <2>3, OutMore
  <2> QED BY <1>3, <2>1, <2>4
<1>8. r[i].type = "CONNECT" BY <1>2 DEF Welcomed
<1> QED BY <1>3, <1>5, <1>7, <1>8 DEF Coming

LEMMA WelcomedAgrees ==
  ASSUME NEW q \in Seq(Downward), NEW r \in Seq(Downward), Welcomed(q, r),
         rulesKept # S!None, NEW own
  PROVE  Reads(r, Len(r), "RULES", own, rulesKept)
<1>1. Len(q) \in Nat /\ Len(r) = Len(q) + 4 /\ r[Len(q) + 4].type = "STEP" BY WelcomedKinds
<1>2. PICK i : i = Len(q) + 3 OBVIOUS
<1>3. i \in 1 .. Len(r) /\ Len(r) \in Nat BY <1>1, <1>2
<1>4. Sets(r[i], "RULES") /\ r[i].arg = rulesKept BY <1>2 DEF Welcomed, S!Msg, Sets
<1>5. \A j \in i + 1 .. Len(r) : j = Len(q) + 4 BY <1>1, <1>2
<1>6. \A j \in i + 1 .. Len(r) : ~ Sets(r[j], "RULES") BY <1>1, <1>5 DEF Sets
<1> QED BY <1>3, <1>4, <1>6, ReadsLast

LEMMA JoinServed ==
  ASSUME SetupInv, NEW c \in Clients, NEW m, up[c] # <<>>, m = up[c][1],
         up' = [up EXCEPT ![c] = Tail(up[c])],
         UNCHANGED <<setupWatching, setupPort, playing, local, step, rules, began, hasty>>,
         setupSeat = S!Nobody, setupPhase = "OFF", S!HandleJoin(c)
  PROVE  /\ Served(c, m, {"CONNECT", "ADD", "RULES", "STEP"})
         /\ setupSeat' = c /\ UNCHANGED <<setupKept, rulesKept, setupPhase>>
         /\ Welcomed(sentDown[c], sentDown'[c])
         /\ \A d \in Clients \ {c} : Grown(sentDown[d], sentDown'[d], {"ADD"})
<1>1. SetupTypes /\ Away BY DEF SetupInv
<1>2. PICK T, w, x, y, z : /\ T = {"CONNECT", "ADD", "RULES", "STEP"}
                           /\ w = S!Msg("CONNECT", 0) /\ x = S!Msg("ADD", 0)
                           /\ y = S!Msg("RULES", rulesKept) /\ z = S!Msg("STEP", setupKept)
  OBVIOUS
<1>3. /\ w \in Downward /\ x \in Downward /\ y \in Downward /\ z \in Downward
      /\ w.type = "CONNECT" /\ x.type = "ADD" /\ Sets(z, "STEP")
  BY <1>1, <1>2, Sendable, Constants DEF S!Msg, Sets, SetupTypes
<1>4. c \in setupWatching /\ setupWatching \subseteq Clients
  BY <1>1, ServeUp DEF SetupTypes
<1>5. /\ setupSeat' = c /\ UNCHANGED <<setupKept, rulesKept, setupPhase>>
      /\ sentDown' = [d \in Clients |->
           IF d = c THEN sentDown[c] \o <<w, x, y, z>>
           ELSE IF d \in setupWatching THEN Append(sentDown[d], x) ELSE sentDown[d]]
  BY <1>2 DEF S!HandleJoin
<1>6. PICK k : k = <<w, x, y, z>> OBVIOUS
<1>7. /\ k \in Seq(Downward) /\ Len(k) = 4 /\ k[1] = w /\ k[2] = x /\ k[3] = y /\ k[4] = z
  BY <1>3, <1>6
<1>8. sentDown'[c] \in Seq(Downward) /\ Welcomed(sentDown[c], sentDown'[c])
  <2>1. PICK q, r : q = sentDown[c] /\ r = sentDown'[c] OBVIOUS
  <2>2. q \in Seq(Downward) /\ r = q \o k BY <1>1, <1>5, <1>6, <2>1 DEF SetupTypes
  <2>3. /\ r \in Seq(Downward) /\ Len(r) = Len(q) + Len(k) /\ Len(q) \in Nat
        /\ \A i \in 1 .. Len(q) : r[i] = q[i]
        /\ \A i \in 1 .. Len(k) : r[Len(q) + i] = k[i]
    <3>1. k \in Seq(Downward) BY <1>7
    <3>2. Len(q) \in Nat BY <2>2, Lengths
    <3> QED BY ONLY <2>2, <3>1, <3>2, Joined2
  <2>4. 1 \in 1 .. Len(k) /\ 2 \in 1 .. Len(k) /\ 3 \in 1 .. Len(k) /\ 4 \in 1 .. Len(k)
    BY <1>7
  <2>5. /\ Len(r) = Len(q) + 4 /\ r[Len(q) + 1] = w /\ r[Len(q) + 2] = x
        /\ r[Len(q) + 3] = y /\ r[Len(q) + 4] = z
    BY <1>7, <2>3, <2>4
  <2> QED BY <1>2, <1>3, <2>1, <2>3, <2>5 DEF Welcomed
<1>9. ASSUME NEW d \in Clients \ {c}
      PROVE  /\ sentDown'[d] \in Seq(Downward) /\ Grown(sentDown[d], sentDown'[d], {"ADD"})
             /\ d \notin setupWatching => sentDown'[d] = sentDown[d]
  <2>1. PICK q, r : q = sentDown[d] /\ r = sentDown'[d] OBVIOUS
  <2>2. q \in Seq(Downward) BY <1>1, <2>1 DEF SetupTypes
  <2>3. CASE d \in setupWatching
    <3>1. r = Append(q, x) BY <1>5, <2>1, <2>3
    <3>2. /\ r \in Seq(Downward) /\ Len(r) = Len(q) + 1 /\ Len(q) \in Nat
          /\ \A i \in 1 .. Len(q) : r[i] = q[i]
          /\ r[Len(q) + 1] = x
      BY <1>3, <2>2, <3>1, Appended, Lengths
    <3>3. \A i \in Len(q) + 1 .. Len(r) : i = Len(q) + 1 BY <3>2
    <3> QED BY <1>3, <2>1, <2>3, <3>2, <3>3 DEF Grown
  <2>4. CASE d \notin setupWatching
    <3>1. r = q /\ Len(q) \in Nat BY <1>5, <2>1, <2>2, <2>4, Lengths
    <3>2. Len(q) + 1 .. Len(q) = {} BY <3>1
    <3> QED BY <2>1, <2>2, <3>1, <3>2 DEF Grown
  <2> QED BY <2>3, <2>4
<1>10. ASSUME NEW d \in Clients PROVE Grown(sentDown[d], sentDown'[d], T)
  <2>1. CASE d = c
    <3>1. sentDown[c] \in Seq(Downward) BY <1>1 DEF SetupTypes
    <3> QED BY <1>2, <1>8, <2>1, <3>1, WelcomedKinds
  <2>2. CASE d # c
    <3>1. Grown(sentDown[d], sentDown'[d], {"ADD"}) BY <1>9, <2>2
    <3> QED BY <1>2, <3>1 DEF Grown
  <2> QED BY <2>1, <2>2
<1>11. sentDown' \in [Clients -> Seq(Downward)] BY <1>5, <1>8, <1>9
<1>12. \A d \in Clients \ setupWatching : sentDown'[d] = sentDown[d] BY <1>4, <1>9
<1>13. Served(c, m, T)
  BY <1>1, <1>5, <1>10, <1>11, <1>12, MakeServed DEF SetupTypes
<1> QED BY <1>2, <1>5, <1>8, <1>9, <1>13

LEMMA JoinInv ==
  ASSUME SetupInv, NEW c \in Clients, NEW m, NEW T, Served(c, m, T), m.type = "JOIN",
         T = {"CONNECT", "ADD", "RULES", "STEP"},
         setupSeat = S!Nobody, setupPhase = "OFF",
         setupSeat' = c, UNCHANGED <<setupKept, rulesKept, setupPhase>>,
         Welcomed(sentDown[c], sentDown'[c]),
         \A d \in Clients \ {c} : Grown(sentDown[d], sentDown'[d], {"ADD"})
  PROVE  SetupInv'
<1>1. /\ SetupTypes /\ Away /\ BeforeStart /\ Greeting /\ Places /\ Master \in Clients
      /\ c \in setupWatching
      /\ UNCHANGED <<setupWatching, rules, began, setupPort, playing, local>>
  BY Constants DEF SetupInv, Served
<1>2. Away' BY <1>1, ServedAway
<1>3. \A d \in Clients : sentDown[d] \in Seq(Downward) /\ sentDown'[d] \in Seq(Downward)
  BY ServedQueues
<1>4. PICK A : A = {"ADD"} OBVIOUS
<1>5. \A d \in Clients \ {c} : Grown(sentDown[d], sentDown'[d], A) BY <1>4
<1>6. Greeting'
  <2>1. \A d \in Clients \ {c} : Greets(sentDown'[d])
    <3>1. "CONNECT" \notin A BY <1>4
    <3> QED BY <1>1, <1>3, <1>5, <3>1, GrownGreets DEF Greeting
  <2>2. Greets(sentDown'[c]) BY <1>1, <1>3, WelcomedGreets DEF Greeting
  <2> QED BY <2>1, <2>2 DEF Greeting
<1>7. Places'
  <2>1. Out(sentDown[c], Len(sentDown[c]), playing[c]) BY <1>1 DEF Places
  <2>2. Coming(sentDown'[c], setupPort[c], playing[c], local[c])
    BY <1>3, <2>1, WelcomedComes
  <2>3. setupSeat' # S!Nobody BY Constants
  <2> QED BY <1>1, <2>2, <2>3 DEF Places, Seated
<1>8. BeforeStart'
  <2>1. ASSUME NEW d \in Clients
        PROVE  /\ ~ In(sentDown'[d], "START") /\ began'[d] = S!None
               /\ rulesKept # S!None /\ (d = c \/ Agreed(d)) => Agreed(d)'
               /\ d # c /\ Joined(d)' => Joined(d)
    <3>1. ~ In(sentDown[d], "START") /\ began[d] = S!None BY <1>1 DEF BeforeStart
    <3>2. \A t : In(sentDown'[d], t) => In(sentDown[d], t) \/ t \in T
      BY ServedQueues
    <3>3. ~ In(sentDown'[d], "START") BY <3>1, <3>2
    <3>4. ASSUME rulesKept # S!None, d = c PROVE Agreed(d)'
      <4>1. Reads(sentDown'[c], Len(sentDown'[c]), "RULES", rules[c], rulesKept)
        BY <1>3, <3>4, WelcomedAgrees
      <4> QED BY <1>1, <3>4, <4>1 DEF Agreed
    <3>5. ASSUME Agreed(d), d # c PROVE Agreed(d)'
      <4>1. "RULES" \notin A BY <1>4
      <4>2. Reads(sentDown'[d], Len(sentDown'[d]), "RULES", rules[d], rulesKept)
        BY <1>3, <1>5, <3>5, <4>1, GrownReads DEF Agreed
      <4> QED BY <1>1, <4>2 DEF Agreed
    <3>6. ASSUME d # c, Joined(d)' PROVE Joined(d)
      <4>1. In(sentDown'[d], "CONNECT") => In(sentDown[d], "CONNECT") \/ "CONNECT" \in A
        BY <1>3, <1>5, <3>6, InGrown
      <4> QED BY <1>1, <1>4, <3>6, <4>1 DEF Joined
    <3> QED BY <1>1, <3>1, <3>3, <3>4, <3>5, <3>6
  <2>2. rulesKept # S!None => \A d \in Clients \ {Master} : Joined(d)' => Agreed(d)'
    BY <1>1, <2>1 DEF BeforeStart
  <2>3. ASSUME NEW i \in 1 .. Len(up'[Master]), up'[Master][i].type = "START"
        PROVE  \/ \E j \in 1 .. i - 1 : up'[Master][j].type = "RULES"
               \/ rulesKept # S!None /\ Agreed(Master)'
    <3>1. \/ \E j \in 1 .. i - 1 : up'[Master][j].type = "RULES"
          \/ rulesKept # S!None /\ Agreed(Master)
      BY <2>3, ServedAsks
    <3> QED BY <1>1, <2>1, <3>1
  <2> QED BY <2>1, <2>2, <2>3 DEF BeforeStart
<1>9. AfterStart' BY DEF AfterStart
<1>10. Follow'
  <2>1. PICK q, r : q = sentDown[c] /\ r = sentDown'[c] OBVIOUS
  <2>2. q \in Seq(Downward) /\ r \in Seq(Downward) /\ Welcomed(q, r) BY <1>3, <2>1
  <2>3. Len(q) + 1 \in 1 .. Len(r) BY <2>2, WelcomedKinds
  <2>4. In(r, "CONNECT") BY <2>2, <2>3 DEF Welcomed, In
  <2>5. Due(c)' BY <2>1, <2>4 DEF Due
  <2> QED BY <2>5 DEF Follow, Due
<1> QED BY <1>2, <1>6, <1>7, <1>8, <1>9, <1>10 DEF SetupInv, Served

LEMMA ServeInv ==
  ASSUME SetupInv, NEW c \in Clients, S!Serve(c)
  PROVE  SetupInv'
<1>1. SetupTypes /\ Away BY DEF SetupInv
<1>2. PICK q, m : q = up[c] /\ m = Head(up[c]) OBVIOUS
<1>3. /\ up[c] # <<>> /\ up' = [up EXCEPT ![c] = Tail(up[c])]
      /\ UNCHANGED <<setupWatching, setupPort, playing, local, step, rules, began, hasty>>
  BY DEF S!Serve, S!client
<1>4. \/ m.type = "JOIN"   /\ S!HandleJoin(c)
      \/ m.type = "LEAVE"  /\ S!HandleLeave(c)
      \/ m.type = "STEP"   /\ S!HandleStep(c, m)
      \/ m.type = "SELECT" /\ S!HandleSelect(m)
      \/ m.type = "RULES"  /\ S!HandleRules(m)
      \/ m.type = "START"  /\ S!HandleStart(m)
  BY <1>2 DEF S!Serve
<1>5. m = up[c][1]
  <2>1. q \in Seq(Upward) /\ q # <<>> BY <1>1, <1>2, <1>3 DEF SetupTypes
  <2>2. Head(q) = q[1] BY <2>1, Popped
  <2> QED BY <1>2, <2>2
<1>6. /\ m \in Upward /\ c \in setupWatching
      /\ m.type \in {"RULES", "START"} => c = Master
      /\ m.type = "RULES" => m.arg \in Rules
      /\ m.type = "STEP" => m.arg \in S!Steps
  BY <1>1, <1>3, <1>5, ServeUp
<1>7. /\ setupSeat \in Clients \cup {S!Nobody} /\ setupKept \in S!Steps
      /\ rulesKept \in Rules \cup {S!None} /\ setupPhase \in {"OFF", "PLAYING"}
  BY <1>1 DEF SetupTypes
<1>8. ASSUME UNCHANGED <<setupSeat, setupKept, rulesKept, setupPhase, sentDown>>, NEW T
      PROVE  Served(c, m, T)
  BY <1>1, <1>3, <1>5, <1>7, <1>8, MakeServed, SameServed
<1>9. ASSUME m.type \in {"STEP", "SELECT", "RULES", "START"}, sentDown' = S!All(m),
             setupSeat' = setupSeat, setupKept' \in S!Steps,
             rulesKept' \in Rules \cup {S!None}, setupPhase' \in {"OFF", "PLAYING"},
             NEW T, T = {m.type}
      PROVE  Served(c, m, T) /\ m \in Downward
  <2>1. m \in Downward BY <1>6, <1>9, PassedOn
  <2>2. /\ S!All(m) \in [Clients -> Seq(Downward)]
        /\ \A d \in Clients : Grown(sentDown[d], S!All(m)[d], T)
        /\ \A d \in Clients \ setupWatching : S!All(m)[d] = sentDown[d]
    BY <1>1, <1>9, <2>1, AllGrown
  <2>3. Served(c, m, T) BY <1>1, <1>3, <1>5, <1>7, <1>9, <2>2, MakeServed
  <2> QED BY <2>1, <2>3
<1>10. CASE m.type = "JOIN" /\ S!HandleJoin(c)
  <2>1. CASE setupSeat = S!Nobody /\ setupPhase = "OFF"
    <3>1. PICK T : T = {"CONNECT", "ADD", "RULES", "STEP"} OBVIOUS
    <3>2. /\ Served(c, m, T)
          /\ setupSeat' = c /\ UNCHANGED <<setupKept, rulesKept, setupPhase>>
          /\ Welcomed(sentDown[c], sentDown'[c])
          /\ \A d \in Clients \ {c} : Grown(sentDown[d], sentDown'[d], {"ADD"})
      BY <1>3, <1>5, <1>10, <2>1, <3>1, JoinServed
    <3> QED BY <1>10, <2>1, <3>1, <3>2, JoinInv
  <2>2. CASE ~ (setupSeat = S!Nobody /\ setupPhase = "OFF")
    <3>1. UNCHANGED <<setupSeat, setupKept, rulesKept, setupPhase, sentDown>>
      BY <1>10, <2>2 DEF S!HandleJoin
    <3>2. Served(c, m, {}) BY <1>8, <3>1
    <3> QED BY <1>10, <3>1, <3>2, IgnoredInv
  <2> QED BY <2>1, <2>2
<1>11. CASE m.type = "LEAVE" /\ S!HandleLeave(c)
  <2>1. PICK T : T = {"DISCONNECT", "REMOVE"} OBVIOUS
  <2>2. /\ Served(c, m, T)
        /\ \A d \in setupWatching : /\ Len(sentDown'[d]) # 0
                                    /\ sentDown'[d][Len(sentDown'[d])].type = "REMOVE"
    BY <1>3, <1>5, <1>11, <2>1, LeaveServed
  <2>3. setupSeat' = S!Nobody /\ UNCHANGED <<setupKept, rulesKept, setupPhase>>
    BY <1>11 DEF S!HandleLeave
  <2> QED BY <1>11, <2>1, <2>2, <2>3, LeaveInv
<1>12. CASE m.type = "STEP" /\ S!HandleStep(c, m)
  <2>1. setupKept' = m.arg /\ sentDown' = S!All(m) /\ UNCHANGED <<setupSeat, rulesKept, setupPhase>>
    BY <1>12 DEF S!HandleStep, S!Echo
  <2>2. Served(c, m, {"STEP"}) /\ m \in Downward BY <1>6, <1>7, <1>9, <1>12, <2>1
  <2> QED BY <1>12, <2>1, <2>2, StepInv
<1>13. CASE m.type = "SELECT" /\ S!HandleSelect(m)
  <2>1. sentDown' \in {S!All(m), sentDown} /\ UNCHANGED <<setupSeat, setupKept, rulesKept, setupPhase>>
    BY <1>13 DEF S!HandleSelect
  <2>2. CASE sentDown' = S!All(m)
    <3>1. Served(c, m, {"SELECT"}) /\ m \in Downward BY <1>7, <1>9, <1>13, <2>1, <2>2
    <3> QED BY <1>13, <2>1, <2>2, <3>1, SelectInv
  <2>3. CASE sentDown' = sentDown
    <3>1. Served(c, m, {}) BY <1>8, <2>1, <2>3
    <3> QED BY <1>13, <2>1, <3>1, IgnoredInv
  <2> QED BY <2>1, <2>2, <2>3
<1>14. CASE m.type = "RULES" /\ S!HandleRules(m)
  <2>1. rulesKept' = m.arg /\ sentDown' = S!All(m) /\ UNCHANGED <<setupSeat, setupKept, setupPhase>>
    BY <1>14 DEF S!HandleRules
  <2>2. Served(c, m, {"RULES"}) /\ m \in Downward BY <1>6, <1>7, <1>9, <1>14, <2>1
  <2> QED BY <1>6, <1>14, <2>1, <2>2, RulesInv
<1>15. CASE m.type = "START" /\ S!HandleStart(m)
  <2>1. /\ setupPhase' = "PLAYING" /\ UNCHANGED <<setupSeat, setupKept, rulesKept>>
        /\ sentDown' = IF setupPhase = "OFF" THEN S!All(m) ELSE sentDown
    BY <1>15 DEF S!HandleStart
  <2>2. PICK T : T = {"START"} OBVIOUS
  <2>3. m \in Downward BY <1>6, <1>15, PassedOn
  <2>4. Served(c, m, T)
    <3>1. CASE setupPhase = "OFF" BY <1>7, <1>9, <1>15, <2>1, <2>2, <3>1
    <3>2. CASE setupPhase # "OFF"
      <4>1. UNCHANGED <<setupSeat, setupKept, rulesKept, setupPhase, sentDown>> BY <1>7, <2>1, <3>2
      <4> QED BY <1>8, <4>1
    <3> QED BY <3>1, <3>2
  <2> QED BY <1>6, <1>15, <2>1, <2>2, <2>3, <2>4, StartInv
<1> QED BY <1>4, <1>10, <1>11, <1>12, <1>13, <1>14, <1>15

-----------------------------------------------------------------------------
(* Clients come and go.                                                     *)

LEMMA WatchInv ==
  ASSUME SetupInv, NEW c \in Clients, S!Watch(c)
  PROVE  SetupInv'
<1>1. /\ SetupTypes /\ Away /\ BeforeStart /\ AfterStart /\ Greeting /\ Places /\ Follow
      /\ Master \in Clients /\ Master \in setupWatching
  BY Constants DEF SetupInv, SetupTypes
<1>2. PICK x, y, k : /\ x = S!Msg("ADD", 0) /\ y = S!Msg("STEP", setupKept)
                     /\ k = IF setupSeat = S!Nobody THEN <<>> ELSE <<x, y>>
  OBVIOUS
<1>3. x \in Downward /\ y \in Downward /\ x.type = "ADD" /\ Sets(y, "STEP") /\ y.arg = setupKept
  BY <1>1, <1>2, Sendable, Constants DEF S!Msg, Sets, SetupTypes
<1>4. /\ c \notin setupWatching /\ setupWatching' = setupWatching \cup {c}
      /\ sentDown[c] = <<>> /\ up[c] = <<>>
      /\ sentDown' = [sentDown EXCEPT ![c] = k]
      /\ UNCHANGED <<setupSeat, setupKept, rulesKept, setupPhase, setupPort, playing, local,
                     step, rules, began, up, hasty>>
  BY <1>2 DEF S!Watch, S!client
<1>5. /\ k \in Seq(Downward)
      /\ setupSeat = S!Nobody => k = <<>>
      /\ setupSeat # S!Nobody => Len(k) = 2 /\ k[1] = x /\ k[2] = y
  <2>1. CASE setupSeat = S!Nobody BY <1>2, <2>1
  <2>2. CASE setupSeat # S!Nobody
    <3>1. k = <<x, y>> BY <1>2, <2>2
    <3> QED BY <1>3, <2>2, <3>1
  <2> QED BY <2>1, <2>2
<1>6. /\ \A i \in 1 .. Len(k) : k[i].type \in {"ADD", "STEP"}
      /\ \A t : In(k, t) => t \in {"ADD", "STEP"}
  <2>1. CASE setupSeat = S!Nobody
    <3>1. Len(k) = 0 BY <1>5, <2>1
    <3> QED BY <3>1 DEF In
  <2>2. CASE setupSeat # S!Nobody
    <3>0. Len(k) = 2 BY <1>5, <2>2
    <3>1. \A i \in 1 .. Len(k) : i = 1 \/ i = 2 BY ONLY <3>0
    <3> QED BY <1>3, <1>5, <2>2, <3>1 DEF In, Sets
  <2> QED BY <2>1, <2>2
<1>7. sentDown'[c] = k /\ \A d \in Clients \ {c} : sentDown'[d] = sentDown[d]
  BY <1>1, <1>4 DEF SetupTypes
<1>8. SetupTypes'
  <2>1. sentDown' \in [Clients -> Seq(Downward)] BY <1>1, <1>4, <1>5 DEF SetupTypes
  <2> QED BY <1>1, <1>4, <2>1 DEF SetupTypes
<1>9. Away' BY <1>1, <1>4, <1>7 DEF Away
<1>10. setupPort[c] = FALSE /\ playing[c] = FALSE BY <1>1, <1>4 DEF Away
<1>11. c # Master /\ ~ Joined(c)' BY <1>1, <1>4, <1>6, <1>7, <1>10 DEF Joined
<1>12. ASSUME NEW d \in Clients \ {c}
       PROVE  /\ Joined(d)' <=> Joined(d)
              /\ Agreed(d)' <=> Agreed(d)
              /\ \A r : Begins(d, r)' <=> Begins(d, r)
              /\ (Due(d)' <=> Due(d)) /\ (Sees(d)' <=> Sees(d)) /\ (Selected(d)' <=> Selected(d))
  BY <1>4, <1>7 DEF Joined, Agreed, Begins, Due, Sees, Selected
<1>13. BeforeStart'
  <2> SUFFICES ASSUME setupPhase = "OFF" PROVE BeforeStart'
    BY <1>4 DEF BeforeStart
  <2>1. ASSUME NEW d \in Clients PROVE began'[d] = S!None /\ ~ In(sentDown'[d], "START")
    <3>1. CASE d = c BY <1>1, <1>4, <1>6, <1>7, <3>1 DEF BeforeStart
    <3>2. CASE d # c BY <1>1, <1>4, <1>7, <3>2 DEF BeforeStart
    <3> QED BY <3>1, <3>2
  <2>2. rulesKept' # S!None => \A d \in Clients \ {Master} : Joined(d)' => Agreed(d)'
    BY <1>1, <1>4, <1>11, <1>12 DEF BeforeStart
  <2>3. Master \in Clients \ {c} BY <1>1, <1>11
  <2>4. ASSUME NEW i \in 1 .. Len(up'[Master]), up'[Master][i].type = "START"
        PROVE  \/ \E j \in 1 .. i - 1 : up'[Master][j].type = "RULES"
               \/ rulesKept' # S!None /\ Agreed(Master)'
    BY <1>1, <1>4, <1>12, <2>3, <2>4 DEF BeforeStart
  <2> QED BY <2>1, <2>2, <2>4 DEF BeforeStart
<1>14. AfterStart'
  <2> SUFFICES ASSUME setupPhase = "PLAYING" PROVE AfterStart'
    BY <1>4 DEF AfterStart
  <2>1. PICK r \in Rules : \A d \in Clients : d = Master \/ Joined(d) => Begins(d, r)
    BY <1>1 DEF AfterStart
  <2>2. \A d \in Clients : (d = Master \/ Joined(d))' => Begins(d, r)' BY <1>11, <1>12, <2>1
  <2> QED BY <2>2 DEF AfterStart
<1>15. Greeting'
  <2>1. Greets(sentDown'[c]) BY <1>6, <1>7 DEF Greets
  <2>2. \A d \in Clients \ {c} : Greets(sentDown'[d]) BY <1>1, <1>7 DEF Greeting
  <2> QED BY <2>1, <2>2 DEF Greeting
<1>16. setupSeat # c BY <1>1, <1>4, Constants DEF Away
<1>17. Places'
  <2>1. CASE setupSeat = S!Nobody
    <3>1. Len(k) = 0 BY <1>5, <2>1
    <3>2. Out(sentDown'[c], Len(sentDown'[c]), playing'[c]) BY <1>4, <1>7, <1>10, <3>1 DEF Out
    <3>3. \A d \in setupWatching : Out(sentDown'[d], Len(sentDown'[d]), playing'[d])
      <4>1. \A d \in setupWatching : sentDown'[d] = sentDown[d] BY <1>1, <1>4, <1>7 DEF SetupTypes
      <4> QED BY <1>1, <1>4, <2>1, <4>1 DEF Places
    <3> QED BY <1>4, <2>1, <3>2, <3>3 DEF Places
  <2>2. CASE setupSeat # S!Nobody
    <3>1. sentDown'[setupSeat] = sentDown[setupSeat] BY <1>1, <1>7, <1>16, <2>2 DEF SetupTypes
    <3>2. Seated(setupSeat)' BY <1>1, <1>4, <2>2, <3>1 DEF Places, Seated
    <3> QED BY <1>4, <2>2, <3>2 DEF Places
  <2> QED BY <2>1, <2>2
<1>18. Follow'
  <2>1. PICK s : s = setupSeat OBVIOUS
  <2> SUFFICES ASSUME hasty = FALSE, s # S!Nobody, ~ Due(s)'
               PROVE  /\ Sees(s)'
                      /\ \A d \in setupWatching \cup {c} :
                           /\ Sees(d)' \/ In(up[d], "STEP") \/ (setupKept = "WAIT" /\ Selected(s)')
                           /\ setupKept = "WAIT" /\ Selected(d)' => Selected(s)'
    BY <1>4, <2>1 DEF Follow, Due, Sees, Selected
  <2>2. s \in Clients \ {c} /\ setupWatching \subseteq Clients \ {c}
    BY <1>1, <1>4, <1>16, <2>1 DEF SetupTypes
  <2>3. ~ Due(s) BY <1>12, <2>2
  <2>4. /\ Sees(s)
        /\ \A d \in setupWatching :
             /\ Sees(d) \/ In(up[d], "STEP") \/ (setupKept = "WAIT" /\ Selected(s))
             /\ setupKept = "WAIT" /\ Selected(d) => Selected(s)
    BY <1>1, <2>1, <2>3 DEF Follow
  <2>5. Len(k) = 2 /\ k[2] = y BY <1>5, <2>1
  <2>6. Sees(c)'
    <3>1. PICK o, v : o = step'[c] /\ v = setupKept OBVIOUS
    <3>2. 2 \in 1 .. 2 /\ 2 + 1 .. 2 = {} /\ 2 \in Nat OBVIOUS
    <3>3. Sets(k[2], "STEP") /\ k[2].arg = v BY <1>3, <2>5, <3>1
    <3>4. Reads(k, 2, "STEP", o, v) BY <3>2, <3>3, ReadsLast
    <3> QED BY <1>4, <1>7, <2>5, <3>1, <3>4 DEF Sees
  <2>7. ~ Selected(c)' BY <1>6, <1>7 DEF Selected, Picked
  <2> QED BY <1>12, <2>2, <2>4, <2>6, <2>7
<1> QED BY <1>8, <1>9, <1>13, <1>14, <1>15, <1>17, <1>18 DEF SetupInv

LEMMA LoseInv ==
  ASSUME SetupInv, NEW c \in Clients, S!Lose(c)
  PROVE  SetupInv'
<1>1. /\ SetupTypes /\ Away /\ BeforeStart /\ AfterStart /\ Greeting /\ Places /\ Follow
      /\ Master \in Clients /\ Master \in setupWatching
  BY Constants DEF SetupInv, SetupTypes
<1>2. PICK y, T : y = S!Msg("REMOVE", 0) /\ T = {"REMOVE"} OBVIOUS
<1>3. y \in Downward /\ y.type = "REMOVE" BY <1>2, Sendable DEF S!Msg
<1>4. /\ c \in setupWatching /\ c # Master /\ setupWatching' = setupWatching \ {c}
      /\ up' = [up EXCEPT ![c] = <<>>]
      /\ setupSeat' = IF setupSeat = c THEN S!Nobody ELSE setupSeat
      /\ sentDown' = [d \in Clients |->
           IF d = c THEN <<>>
           ELSE IF setupSeat = c /\ d \in setupWatching THEN Append(sentDown[d], y) ELSE sentDown[d]]
      /\ setupPort' = [setupPort EXCEPT ![c] = FALSE] /\ playing' = [playing EXCEPT ![c] = FALSE]
      /\ local' = [local EXCEPT ![c] = FALSE] /\ step' = [step EXCEPT ![c] = "PROFILE"]
      /\ began' = [began EXCEPT ![c] = S!None]
      /\ UNCHANGED <<setupKept, rulesKept, setupPhase, rules, hasty>>
  BY <1>2 DEF S!Lose
<1>5. /\ up'[c] = <<>> /\ sentDown'[c] = <<>> /\ setupPort'[c] = FALSE /\ playing'[c] = FALSE
      /\ began'[c] = S!None
  BY <1>1, <1>4 DEF SetupTypes
<1>6. ASSUME NEW d \in Clients \ {c}
      PROVE  /\ up'[d] = up[d] /\ setupPort'[d] = setupPort[d] /\ playing'[d] = playing[d]
             /\ local'[d] = local[d] /\ step'[d] = step[d] /\ began'[d] = began[d]
             /\ rules'[d] = rules[d]
  BY <1>1, <1>4 DEF SetupTypes
<1>7. ASSUME NEW d \in Clients \ {c}
      PROVE  /\ sentDown[d] \in Seq(Downward) /\ sentDown'[d] \in Seq(Downward)
             /\ Grown(sentDown[d], sentDown'[d], T)
             /\ (setupSeat # c \/ d \notin setupWatching) => sentDown'[d] = sentDown[d]
             /\ setupSeat = c /\ d \in setupWatching
                  => Len(sentDown'[d]) # 0 /\ sentDown'[d][Len(sentDown'[d])].type = "REMOVE"
  <2>1. PICK q, r : q = sentDown[d] /\ r = sentDown'[d] OBVIOUS
  <2>2. q \in Seq(Downward) BY <1>1, <2>1 DEF SetupTypes
  <2>3. CASE setupSeat = c /\ d \in setupWatching
    <3>1. r = Append(q, y) BY <1>4, <2>1, <2>3
    <3>2. /\ r \in Seq(Downward) /\ Len(r) = Len(q) + 1 /\ Len(q) \in Nat
          /\ \A i \in 1 .. Len(q) : r[i] = q[i]
          /\ r[Len(q) + 1] = y
      BY <1>3, <2>2, <3>1, Appended, Lengths
    <3>3. \A i \in Len(q) + 1 .. Len(r) : i = Len(q) + 1 BY <3>2
    <3> QED BY <1>2, <1>3, <2>1, <2>2, <2>3, <3>2, <3>3 DEF Grown
  <2>4. CASE ~ (setupSeat = c /\ d \in setupWatching)
    <3>1. r = q /\ Len(q) \in Nat BY <1>4, <2>1, <2>2, <2>4, Lengths
    <3>2. Len(q) + 1 .. Len(q) = {} BY <3>1
    <3> QED BY <2>1, <2>2, <2>4, <3>1, <3>2 DEF Grown
  <2> QED BY <2>3, <2>4
<1>8. SetupTypes'
  <2>1. sentDown'[c] \in Seq(Downward) /\ <<>> \in Seq(Upward) BY <1>5
  <2>2. sentDown' \in [Clients -> Seq(Downward)] BY <1>4, <1>7, <2>1
  <2>3. "PROFILE" \in S!Steps BY Constants
  <2> QED BY <1>1, <1>4, <2>1, <2>2, <2>3 DEF SetupTypes
<1>9. Away'
  <2>1. ASSUME NEW d \in Clients \ setupWatching'
        PROVE  /\ up'[d] = <<>> /\ sentDown'[d] = <<>> /\ began'[d] = S!None
               /\ setupPort'[d] = FALSE /\ playing'[d] = FALSE
    <3>1. CASE d = c BY <1>5, <3>1
    <3>2. CASE d # c
      <4>1. d \in Clients \ setupWatching /\ d \in Clients \ {c} BY <1>4, <2>1, <3>2
      <4> QED BY <1>1, <1>6, <1>7, <4>1 DEF Away
    <3> QED BY <3>1, <3>2
  <2>2. ASSUME NEW d \in Clients \ {Master} PROVE ~ In(up'[d], "RULES") /\ ~ In(up'[d], "START")
    <3>1. Len(<<>>) = 0 OBVIOUS
    <3>2. CASE d = c BY <1>5, <3>1, <3>2 DEF In
    <3>3. CASE d # c BY <1>1, <1>6, <3>3 DEF Away
    <3> QED BY <3>2, <3>3
  <2>3. setupSeat' = S!Nobody \/ setupSeat' \in setupWatching' BY <1>1, <1>4 DEF Away
  <2> QED BY <2>1, <2>2, <2>3 DEF Away
<1>10. /\ Len(sentDown'[c]) = 0 /\ ~ Joined(c)' /\ \A t : ~ In(sentDown'[c], t)
  <2>1. Len(<<>>) = 0 OBVIOUS
  <2> QED BY <1>5, <2>1 DEF Joined, In
<1>11. ASSUME NEW d \in Clients \ {c}
       PROVE  /\ Joined(d)' => Joined(d)
              /\ Agreed(d) => Agreed(d)'
              /\ In(sentDown'[d], "START") => In(sentDown[d], "START")
              /\ \A r : Begins(d, r) => Begins(d, r)'
              /\ Greets(sentDown[d]) => Greets(sentDown'[d])
  <2>1. /\ sentDown[d] \in Seq(Downward) /\ sentDown'[d] \in Seq(Downward)
        /\ Grown(sentDown[d], sentDown'[d], T)
        /\ "CONNECT" \notin T /\ "RULES" \notin T /\ "START" \notin T
    BY <1>2, <1>7
  <2>2. \A t : In(sentDown'[d], t) => In(sentDown[d], t) \/ t \in T BY <2>1, InGrown
  <2>3. Reads(sentDown[d], Len(sentDown[d]), "RULES", rules[d], rulesKept)
           => Reads(sentDown'[d], Len(sentDown'[d]), "RULES", rules[d], rulesKept)
    BY <2>1, GrownReads
  <2>4. \A r : Starts(sentDown[d], rules[d], r) => Starts(sentDown'[d], rules[d], r)
    BY <2>1, GrownStarts
  <2>5. Greets(sentDown[d]) => Greets(sentDown'[d]) BY <2>1, GrownGreets
  <2> QED BY <1>4, <1>6, <2>1, <2>2, <2>3, <2>4, <2>5 DEF Joined, Agreed, Begins
<1>12. BeforeStart'
  <2> SUFFICES ASSUME setupPhase = "OFF" PROVE BeforeStart'
    BY <1>4 DEF BeforeStart
  <2>1. ASSUME NEW d \in Clients PROVE began'[d] = S!None /\ ~ In(sentDown'[d], "START")
    <3>1. CASE d = c BY <1>5, <1>10, <3>1
    <3>2. CASE d # c BY <1>1, <1>6, <1>11, <3>2 DEF BeforeStart
    <3> QED BY <3>1, <3>2
  <2>2. rulesKept' # S!None => \A d \in Clients \ {Master} : Joined(d)' => Agreed(d)'
    BY <1>1, <1>4, <1>10, <1>11 DEF BeforeStart
  <2>3. Master \in Clients \ {c} BY <1>1, <1>4
  <2>4. ASSUME NEW i \in 1 .. Len(up'[Master]), up'[Master][i].type = "START"
        PROVE  \/ \E j \in 1 .. i - 1 : up'[Master][j].type = "RULES"
               \/ rulesKept' # S!None /\ Agreed(Master)'
    <3>1. up'[Master] = up[Master] BY <1>6, <2>3
    <3> QED BY <1>1, <1>4, <1>11, <2>3, <2>4, <3>1 DEF BeforeStart
  <2> QED BY <2>1, <2>2, <2>4 DEF BeforeStart
<1>13. AfterStart'
  <2> SUFFICES ASSUME setupPhase = "PLAYING" PROVE AfterStart'
    BY <1>4 DEF AfterStart
  <2>1. PICK r \in Rules : \A d \in Clients : d = Master \/ Joined(d) => Begins(d, r)
    BY <1>1 DEF AfterStart
  <2>2. \A d \in Clients : (d = Master \/ Joined(d))' => Begins(d, r)' BY <1>4, <1>10, <1>11, <2>1
  <2> QED BY <2>2 DEF AfterStart
<1>14. Greeting'
  <2>1. Greets(sentDown'[c]) BY <1>10 DEF Greets
  <2>2. \A d \in Clients \ {c} : Greets(sentDown'[d]) BY <1>1, <1>11 DEF Greeting
  <2> QED BY <2>1, <2>2 DEF Greeting
<1>15. CASE setupSeat = c
  <2>1. setupSeat' = S!Nobody BY <1>4, <1>15
  <2>2. Follow' BY <2>1 DEF Follow
  <2>3. ASSUME NEW d \in setupWatching' PROVE Out(sentDown'[d], Len(sentDown'[d]), playing'[d])
    <3>1. PICK r, own : r = sentDown'[d] /\ own = playing'[d] OBVIOUS
    <3>2. d \in Clients \ {c} /\ d \in setupWatching BY <1>1, <1>4 DEF SetupTypes
    <3>3. r \in Seq(Downward) /\ Len(r) # 0 /\ r[Len(r)].type = "REMOVE"
      BY <1>7, <1>15, <3>1, <3>2
    <3> QED BY <3>1, <3>3, OutLast
  <2>4. Places' BY <2>1, <2>3 DEF Places
  <2> QED BY <1>8, <1>9, <1>12, <1>13, <1>14, <2>2, <2>4 DEF SetupInv
<1>16. CASE setupSeat # c
  <2>1. PICK s : s = setupSeat OBVIOUS
  <2>2. setupSeat' = s BY <1>4, <1>16, <2>1
  <2>3. ASSUME NEW d \in Clients \ {c}
        PROVE  /\ sentDown'[d] = sentDown[d] /\ (Seated(d)' <=> Seated(d))
               /\ (Due(d)' <=> Due(d)) /\ (Sees(d)' <=> Sees(d)) /\ (Selected(d)' <=> Selected(d))
    <3>1. sentDown'[d] = sentDown[d] BY <1>7, <1>16
    <3> QED BY <1>4, <1>6, <3>1 DEF Seated, Due, Sees, Selected
  <2>4. setupWatching' \subseteq Clients \ {c} /\ setupWatching' \subseteq setupWatching
    BY <1>1, <1>4 DEF SetupTypes
  <2>5. s # S!Nobody => s \in Clients \ {c} BY <1>1, <1>16, <2>1 DEF SetupTypes
  <2>6. Places'
    <3>1. CASE s = S!Nobody
      <4>1. \A d \in setupWatching' : Out(sentDown'[d], Len(sentDown'[d]), playing'[d])
        <5>1. \A d \in setupWatching' : /\ Out(sentDown[d], Len(sentDown[d]), playing[d])
                                        /\ sentDown'[d] = sentDown[d] /\ playing'[d] = playing[d]
          BY <1>1, <1>6, <2>1, <2>3, <2>4, <3>1 DEF Places
        <5> QED BY <5>1
      <4> QED BY <2>2, <3>1, <4>1 DEF Places
    <3>2. CASE s # S!Nobody
      <4>1. Seated(s)' BY <1>1, <2>1, <2>3, <2>5, <3>2 DEF Places
      <4> QED BY <2>2, <3>2, <4>1 DEF Places, Seated
    <3> QED BY <3>1, <3>2
  <2>7. Follow'
    <3> SUFFICES ASSUME hasty = FALSE, s # S!Nobody, ~ Due(s)'
                 PROVE  /\ Sees(s)'
                        /\ \A d \in setupWatching' :
                             /\ Sees(d)' \/ In(up'[d], "STEP") \/ (setupKept = "WAIT" /\ Selected(s)')
                             /\ setupKept = "WAIT" /\ Selected(d)' => Selected(s)'
      BY <1>4, <2>2 DEF Follow, Due, Sees, Selected
    <3>1. ~ Due(s) BY <2>3, <2>5
    <3>2. /\ Sees(s)
          /\ \A d \in setupWatching :
               /\ Sees(d) \/ In(up[d], "STEP") \/ (setupKept = "WAIT" /\ Selected(s))
               /\ setupKept = "WAIT" /\ Selected(d) => Selected(s)
      BY <1>1, <2>1, <3>1 DEF Follow
    <3>3. \A d \in setupWatching' : up'[d] = up[d] BY <1>6, <2>4
    <3> QED BY <2>3, <2>4, <2>5, <3>2, <3>3
  <2> QED BY <1>8, <1>9, <1>12, <1>13, <1>14, <2>6, <2>7 DEF SetupInv
<1> QED BY <1>15, <1>16

LEMMA SetupStep == SetupInv /\ [S!Next]_setupVars => SetupInv'
<1> SUFFICES ASSUME SetupInv, [S!Next]_setupVars PROVE SetupInv' OBVIOUS
<1>1. SetupTypes /\ Away /\ Master \in Clients BY Constants DEF SetupInv
<1>2. ASSUME UNCHANGED setupVars PROVE SetupInv'
  BY <1>2 DEF setupVars, SetupInv, SetupTypes, Away, BeforeStart, AfterStart, Greeting, Places,
     Follow, Agreed, Joined, Begins, Seated, Due, Sees, Selected
<1>3. CASE S!ChangeRules BY <1>1, <1>3, ChangeRulesKeyed, KeyedInv
<1>4. CASE S!AskToStart BY <1>1, <1>4, AskToStartKeyed, KeyedInv
<1>5. ASSUME NEW c \in Clients, S!Watch(c) PROVE SetupInv' BY <1>5, WatchInv
<1>6. ASSUME NEW c \in Clients, S!AskToJoin(c) PROVE SetupInv'
  <2>1. /\ c \in setupWatching /\ up' = [up EXCEPT ![c] = Append(@, S!Msg("JOIN", 0))]
        /\ UNCHANGED <<setupSeat, setupKept, rulesKept, setupPhase, setupWatching, sentDown,
                       setupPort, playing, local, step, rules, began, hasty>>
    BY <1>6 DEF S!AskToJoin, S!server, S!client
  <2>2. Keyed(c) BY <1>1, <2>1, AskKeyed
  <2> QED BY <2>2, KeyedInv
<1>7. ASSUME NEW c \in Clients, S!AskToLeave(c) PROVE SetupInv'
  <2>1. /\ setupPort[c] /\ up' = [up EXCEPT ![c] = Append(@, S!Msg("LEAVE", 0))]
        /\ UNCHANGED <<setupSeat, setupKept, rulesKept, setupPhase, setupWatching, sentDown,
                       setupPort, playing, local, step, rules, began, hasty>>
    BY <1>7 DEF S!AskToLeave, S!server, S!client
  <2>2. c \in setupWatching BY <1>1, <2>1 DEF Away
  <2>3. Keyed(c) BY <1>1, <2>1, <2>2, AskKeyed
  <2> QED BY <2>3, KeyedInv
<1>8. ASSUME NEW c \in Clients, S!Fire(c) \/ S!Jump(c) \/ S!Choose(c) PROVE SetupInv'
  BY <1>1, <1>8, SetupKeyKeyed, KeyedInv
<1>9. ASSUME NEW c \in Clients, S!Serve(c) PROVE SetupInv' BY <1>9, ServeInv
<1>10. ASSUME NEW c \in Clients, S!Receive(c) PROVE SetupInv'
  BY <1>1, <1>10, ReceiveHeard, HeardInv
<1>11. ASSUME NEW c \in Clients, S!Lose(c) PROVE SetupInv' BY <1>11, LoseInv
<1> QED BY <1>2, <1>3, <1>4, <1>5, <1>6, <1>7, <1>8, <1>9, <1>10, <1>11 DEF S!Next

LEMMA SetupSettles == SetupInv => S!StepsSettle /\ S!SameRules
<1> SUFFICES ASSUME SetupInv PROVE S!StepsSettle /\ S!SameRules OBVIOUS
<1>1. /\ SetupTypes /\ Away /\ BeforeStart /\ AfterStart /\ Places /\ Follow
  BY DEF SetupInv
<1>2. S!StepsSettle
  <2> SUFFICES ASSUME ~ hasty, \A c \in Clients : up[c] = <<>> /\ sentDown[c] = <<>>,
                      NEW c \in setupWatching, playing[c]
               PROVE  step[c] = setupKept
    BY DEF S!StepsSettle
  <2>1. c \in Clients /\ hasty = FALSE BY <1>1 DEF SetupTypes
  <2>2. Len(<<>>) = 0 OBVIOUS
  <2>3. \A d \in Clients : \A t : ~ In(up[d], t) /\ ~ In(sentDown[d], t) BY <2>2 DEF In
  <2>4. setupSeat # S!Nobody
    <3> SUFFICES ASSUME setupSeat = S!Nobody PROVE FALSE OBVIOUS
    <3>1. Out(sentDown[c], Len(sentDown[c]), playing[c]) BY <1>1 DEF Places
    <3> QED BY <2>1, <2>2, <3>1 DEF Out
  <2>5. setupSeat \in Clients BY <1>1, <2>4 DEF SetupTypes
  <2>6. ~ Due(setupSeat) /\ ~ Selected(setupSeat)
    BY <2>2, <2>3, <2>5 DEF Due, Selected, Picked
  <2>7. Sees(c) BY <1>1, <2>1, <2>3, <2>4, <2>6 DEF Follow
  <2> QED BY <2>1, <2>2, <2>7 DEF Sees, Reads
<1>3. S!SameRules
  <2> SUFFICES ASSUME NEW c \in Clients, NEW d \in Clients,
                      began[c] # S!None, setupPort[c] \/ c = Master,
                      began[d] # S!None, setupPort[d] \/ d = Master
               PROVE  began[c] = began[d]
    BY DEF S!SameRules
  <2>1. setupPhase = "PLAYING" BY <1>1 DEF BeforeStart, SetupTypes
  <2>2. PICK r \in Rules : \A e \in Clients : e = Master \/ Joined(e) => Begins(e, r)
    BY <1>1, <2>1 DEF AfterStart
  <2>3. ASSUME NEW e \in Clients, began[e] # S!None, setupPort[e] \/ e = Master
        PROVE  began[e] = r
    <3>1. setupPort[e] \in BOOLEAN BY <1>1 DEF SetupTypes
    <3>2. e = Master \/ Joined(e) BY <2>3, <3>1 DEF Joined
    <3> QED BY <2>2, <2>3, <3>2 DEF Begins
  <2> QED BY <2>3
<1> QED BY <1>2, <1>3

-----------------------------------------------------------------------------
(* The theorems about the setup.                                            *)

\* However the keys of a player, the echoes of its steps, joinings, leavings and
\* lost connections cross: when nothing is under way everyone sees the player of
\* the slot at the step the server has noted (unless it was too hasty), and
\* whoever has started the game has started it with the same options.
THEOREM LobbySettles == S!Spec => [](S!StepsSettle /\ S!SameRules)
<1>1. UNCHANGED S!vars => UNCHANGED setupVars
  BY DEF S!vars, S!server, S!client, setupVars
<1>2. SetupInv /\ [S!Next]_(S!vars) => SetupInv'
  BY <1>1, SetupStep
<1> QED BY <1>2, SetupInit, SetupSettles, PTL DEF S!Spec

\* The same of the lobby that is model-checked, where the other parts of the way
\* into a game have their turns.
THEOREM EveryoneReady == MCSpec => []SetupRight
<1>1. MCInit => SetupInv
  BY SetupInit DEF MCInit
<1>2. SetupInv /\ [MCNext]_allVars => SetupInv'
  <2>1. ASSUME NEW p, Only(p), p # "setup" PROVE UNCHANGED setupVars
    BY <2>1 DEF Only
  <2>2. [MCNext]_allVars => [S!Next]_setupVars
    BY <2>1 DEF MCNext, allVars
  <2> QED BY <2>2, SetupStep
<1>3. SetupInv => SetupRight
  BY SetupSettles DEF SetupRight
<1> QED BY <1>1, <1>2, <1>3, PTL DEF MCSpec

-----------------------------------------------------------------------------
(* Options: the rules of a game.                                           *)

\* What the rules are: no rule is ever lost or added on their way through menus,
\* hosts and files.
RuleNames == {"mode", "hits", "frags", "life", "time", "random", "stomp", "worth"}
OptionsInv == DOMAIN rule = RuleNames /\ DOMAIN kept.rule = RuleNames

LEMMA QuickNames ==
  ASSUME NEW g \in O!Games, NEW r, DOMAIN r = RuleNames
  PROVE  DOMAIN O!Quick(g, r).rule = RuleNames
BY DEF O!Games, O!Quick, O!OneHit, O!Stomp21, O!TwoMinutes, O!Coins, O!Royale, O!Exploring

LEMMA OptionsInit == O!Init => OptionsInv
BY DEF O!Init, O!Default, O!Edited, OptionsInv, RuleNames

LEMMA OptionsStep == OptionsInv /\ [O!Next]_optionVars => OptionsInv'
<1> SUFFICES ASSUME OptionsInv, [O!Next]_optionVars PROVE OptionsInv'
  OBVIOUS
<1> USE DEF OptionsInv
<1>1. ASSUME NEW g \in O!Games, O!PlayQuick(g) PROVE OptionsInv'
  BY <1>1, QuickNames DEF O!PlayQuick, O!Set
<1>2. ASSUME NEW g \in O!Others, O!ReceiveRules(g) \/ O!PlayReplay(g) PROVE OptionsInv'
  <2>1. DOMAIN [O!Edited.rule EXCEPT !.hits = 3, !.time = 9] = RuleNames
    BY DEF O!Default, O!Edited, RuleNames
  <2>2. g \in O!Games
    BY DEF O!Others, O!Games
  <2>3. DOMAIN O!Elsewhere(g).rule = RuleNames
    BY <2>1, <2>2, QuickNames DEF O!Elsewhere
  <2> QED BY <1>2, <2>3 DEF O!ReceiveRules, O!PlayReplay, O!Set
<1>3. CASE O!PlayCustom
  BY <1>3 DEF O!PlayCustom
<1>4. CASE O!GameType
  BY <1>4 DEF O!GameType, O!Changing
<1>5. CASE O!Settings
  BY <1>5 DEF O!Settings, O!Changing
<1>6. CASE O!Toggles
  BY <1>6 DEF O!Toggles, O!Changing
<1>7. CASE O!Stock \/ O!Items
  BY <1>7 DEF O!Stock, O!Items, O!Changing
<1>8. CASE O!Restart
  BY <1>8 DEF O!Restart, O!Exit, O!LoadFrom
<1>9. CASE O!Crash
  BY <1>9 DEF O!Crash, O!LoadFrom
<1>10. CASE UNCHANGED optionVars
  BY <1>10 DEF optionVars
<1> QED BY <1>1, <1>2, <1>3, <1>4, <1>5, <1>6, <1>7, <1>8, <1>9, <1>10 DEF O!Next

\* Whatever was left in the rules, a quick game writes all of those that mean
\* something in it; what ammunition is worth means something where there is any,
\* and the two minutes' game writes it.
LEMMA QuickIsFresh ==
  ASSUME NEW g \in O!Games, NEW r, DOMAIN r = RuleNames, NEW n \in O!Written(g)
  PROVE  /\ O!Quick(g, r).rule[n] = O!Quick(g, O!Default.rule).rule[n]
         /\ O!Quick(g, r).enabled = O!Quick(g, O!Default.rule).enabled
         /\ O!Quick(g, r).stock = O!Quick(g, O!Default.rule).stock
<1> USE DEF RuleNames, O!Eliminator, O!DeathMatch, O!CoinRush, O!Explore
<1>d. DOMAIN O!Default.rule = RuleNames
  BY DEF O!Default
<1>1. CASE g = 1
  <2>1. \A q : O!Quick(g, q) = O!OneHit(q)
    BY <1>1 DEF O!Quick
  <2>2. O!OneHit(O!Default.rule).rule.mode = O!Eliminator
    BY <1>d DEF O!OneHit
  <2>w. \A w \in Weapons : O!OneHit(O!Default.rule).enabled[w] = 0
    BY DEF O!OneHit, O!Kinds
  <2>3. n \in {"mode", "random", "stomp", "hits"}
    BY <1>1, <2>1, <2>2, <2>w DEF O!Written, O!Meant, O!WorthAsFound
  <2>4. O!OneHit(r).rule[n] = O!OneHit(O!Default.rule).rule[n]
    BY <1>d, <2>3 DEF O!OneHit
  <2>5. /\ O!OneHit(r).enabled = O!OneHit(O!Default.rule).enabled
        /\ O!OneHit(r).stock = O!OneHit(O!Default.rule).stock
    BY DEF O!OneHit
  <2> QED BY <2>1, <2>4, <2>5
<1>2. CASE g = 2
  <2>1. \A q : O!Quick(g, q) = O!Stomp21(q)
    BY <1>2 DEF O!Quick
  <2>2. O!Stomp21(O!Default.rule).rule.mode = O!DeathMatch
    BY <1>d DEF O!Stomp21
  <2>w. \A w \in Weapons : O!Stomp21(O!Default.rule).enabled[w] = 0
    BY DEF O!Stomp21, O!Kinds
  <2>3. n \in {"mode", "random", "stomp", "life", "time", "frags"}
    BY <1>2, <2>1, <2>2, <2>w DEF O!Written, O!Meant, O!WorthAsFound
  <2>4. O!Stomp21(r).rule[n] = O!Stomp21(O!Default.rule).rule[n]
    BY <1>d, <2>3 DEF O!Stomp21
  <2>5. /\ O!Stomp21(r).enabled = O!Stomp21(O!Default.rule).enabled
        /\ O!Stomp21(r).stock = O!Stomp21(O!Default.rule).stock
    BY DEF O!Stomp21
  <2> QED BY <2>1, <2>4, <2>5
<1>3. CASE g = 3
  <2>1. \A q : O!Quick(g, q) = O!TwoMinutes(q)
    BY <1>3 DEF O!Quick
  <2>2. O!TwoMinutes(O!Default.rule).rule.mode = O!DeathMatch
    BY <1>d DEF O!TwoMinutes
  <2>3. n \in {"mode", "random", "stomp", "life", "time", "frags", "worth"}
    BY <1>3, <2>1, <2>2 DEF O!Written, O!Meant, O!WorthAsFound
  <2>4. O!TwoMinutes(r).rule[n] = O!TwoMinutes(O!Default.rule).rule[n]
    BY <1>d, <2>3 DEF O!TwoMinutes
  <2>5. /\ O!TwoMinutes(r).enabled = O!TwoMinutes(O!Default.rule).enabled
        /\ O!TwoMinutes(r).stock = O!TwoMinutes(O!Default.rule).stock
    BY DEF O!TwoMinutes
  <2> QED BY <2>1, <2>4, <2>5
<1>4. CASE g = 4
  <2>1. \A q : O!Quick(g, q) = O!Coins(q)
    BY <1>4 DEF O!Quick
  <2>2. O!Coins(O!Default.rule).rule.mode = O!CoinRush
    BY <1>d DEF O!Coins
  <2>3. n \in {"mode", "random", "stomp", "life", "time"}
    BY <1>4, <2>1, <2>2 DEF O!Written, O!Meant, O!WorthAsFound
  <2>4. O!Coins(r).rule[n] = O!Coins(O!Default.rule).rule[n]
    BY <1>d, <2>3 DEF O!Coins
  <2>5. /\ O!Coins(r).enabled = O!Coins(O!Default.rule).enabled
        /\ O!Coins(r).stock = O!Coins(O!Default.rule).stock
    BY DEF O!Coins
  <2> QED BY <2>1, <2>4, <2>5
<1>5. CASE g = 5
  <2>1. \A q : O!Quick(g, q) = O!Royale(q)
    BY <1>5 DEF O!Quick
  <2>2. O!Royale(O!Default.rule).rule.mode = O!Eliminator
    BY <1>d DEF O!Royale
  <2>3. n \in {"mode", "random", "stomp", "hits"}
    BY <1>5, <2>1, <2>2 DEF O!Written, O!Meant, O!WorthAsFound
  <2>4. O!Royale(r).rule[n] = O!Royale(O!Default.rule).rule[n]
    BY <1>d, <2>3 DEF O!Royale
  <2>5. /\ O!Royale(r).enabled = O!Royale(O!Default.rule).enabled
        /\ O!Royale(r).stock = O!Royale(O!Default.rule).stock
    BY DEF O!Royale
  <2> QED BY <2>1, <2>4, <2>5
<1>6. CASE g = 6
  <2>1. \A q : O!Quick(g, q) = O!Exploring(q)
    BY <1>6 DEF O!Quick
  <2>2. O!Exploring(O!Default.rule).rule.mode = O!Explore
    BY <1>d DEF O!Exploring
  <2>3. n \in {"mode", "random"}
    BY <1>6, <2>1, <2>2 DEF O!Written, O!Meant, O!WorthAsFound
  <2>4. O!Exploring(r).rule[n] = O!Exploring(O!Default.rule).rule[n]
    BY <1>d, <2>3 DEF O!Exploring
  <2>5. /\ O!Exploring(r).enabled = O!Exploring(O!Default.rule).enabled
        /\ O!Exploring(r).stock = O!Exploring(O!Default.rule).stock
    BY DEF O!Exploring
  <2> QED BY <2>1, <2>4, <2>5
<1> QED BY <1>1, <1>2, <1>3, <1>4, <1>5, <1>6 DEF O!Games

LEMMA OptionsFresh == OptionsInv => O!QuickGameStep
<1> SUFFICES ASSUME OptionsInv, NEW g \in O!Games, O!PlayQuick(g)
             PROVE  LET fresh == O!Quick(g, O!Default.rule) IN
                      /\ enabled' = fresh.enabled /\ stock' = fresh.stock
                      /\ \A r \in O!Written(g) : rule'[r] = fresh.rule[r]
  BY DEF O!QuickGameStep
<1>1. /\ rule' = O!Quick(g, rule).rule /\ enabled' = O!Quick(g, rule).enabled
      /\ stock' = O!Quick(g, rule).stock
  BY DEF O!PlayQuick, O!Set
<1>2. "mode" \in O!Written(g)
  BY DEF O!Written, O!Meant, O!Default, O!Games, O!Quick, O!OneHit, O!Stomp21, O!TwoMinutes,
         O!Coins, O!Royale, O!Exploring, O!Eliminator, O!DeathMatch, O!CoinRush, O!Explore
<1>3. DOMAIN rule = RuleNames
  BY DEF OptionsInv
<1>4. \A n \in O!Written(g) :
         /\ O!Quick(g, rule).rule[n] = O!Quick(g, O!Default.rule).rule[n]
         /\ O!Quick(g, rule).enabled = O!Quick(g, O!Default.rule).enabled
         /\ O!Quick(g, rule).stock = O!Quick(g, O!Default.rule).stock
  BY <1>3, QuickIsFresh
<1> QED BY <1>1, <1>2, <1>4

\* A quick game is the game its name says, whatever was played or watched, received
\* from a host, changed by hand or read from a file before it: all the rules that
\* have a meaning in it are those of a program that has just started.  The one
\* exception is what ammunition is worth in coin rush, battle royale and exploring,
\* which these games leave as they find it.
THEOREM QuickGamesAreFresh == MCSpec => QuickGameIsItself
<1>1. MCInit => OptionsInv
  BY OptionsInit DEF MCInit
<1>2. OptionsInv /\ [MCNext]_allVars => OptionsInv'
  BY OptionsStep DEF MCNext, Only, allVars
<1>3. OptionsInv /\ [MCNext]_allVars => [part = "options" => O!QuickGameStep]_allVars
  BY OptionsFresh
<1> QED BY <1>1, <1>2, <1>3, PTL DEF MCSpec, QuickGameIsItself

-----------------------------------------------------------------------------
(* Input: what is held and what is sent.                                  *)

\* Key states are those of the keyboard but for what was cleared.
KeysKnown == key = down \ forgotten /\ forgotten \subseteq down

\* What an axis that stands at v is taken for by whoever reads it.
Taken(p, n, v) == IF n \in I!Fudged /\ <<p, n>> \in moved THEN (v + 100) \div 2 ELSE v

\* A pad's axes and buttons stand where such a part may stand; a trigger with its
\* resting place at -1 has moved since the pads were found, or is not there unless
\* it was lost.
Standing ==
  /\ raw \in [Devices -> [I!Parts -> {-100, 0, 100}]]
  /\ joystick \in [DOMAIN joystick -> Devices]
  /\ \A d \in Devices, n \in I!Parts : raw[d][n] \in I!Positions(n) \cup {0}
  /\ \A p \in Pads, n \in I!Parts :
       /\ <<p, n>> \in moved => p \in DOMAIN joystick /\ n \in I!Fudged /\ raw[joystick[p]][n] # 0
       /\ p \in DOMAIN joystick /\ n \in I!Fudged /\ <<p, n>> \notin moved =>
            raw[joystick[p]][n] \in {0, 100} \/ <<joystick[p], n>> \in lost

\* The state of a part that was not lost is as it stands until it is read, and then
\* as it is taken; one that was lost is at rest, but for a trigger.
StateOf(p, n) ==
  /\ p \notin DOMAIN joystick => joystickState[p][n] = 0
  /\ p \in DOMAIN joystick /\ <<joystick[p], n>> \in lost =>
       n \in I!Fudged \/ joystickState[p][n] = 0
  /\ p \in DOMAIN joystick /\ <<joystick[p], n>> \notin lost =>
       joystickState[p][n] = IF p \in updated THEN raw[joystick[p]][n]
                             ELSE Taken(p, n, raw[joystick[p]][n])
StatesKnown ==
  /\ joystickState \in [Pads -> [I!Parts -> Int]]
  /\ \A p \in Pads, n \in I!Parts : StateOf(p, n)

InputInv == KeysKnown /\ Standing /\ StatesKnown

LEMMA DeviceParts ==
  ASSUME NEW e \in Elements
  PROVE  /\ I!DeviceElement(e) \in I!Parts /\ I!DeviceElement(e) \in Int
         /\ e \in I!Sticks \cup I!DPad => I!DeviceElement(e) \notin I!Fudged
         /\ e \notin I!Sticks \cup I!DPad \cup I!Triggers => ~I!IsAxis(I!DeviceElement(e))
         /\ e \in I!Triggers => I!IsAxis(I!DeviceElement(e))
<1>e. e \in {"LEFT_ANALOG_X", "LEFT_ANALOG_Y", "RIGHT_ANALOG_X", "RIGHT_ANALOG_Y",
             "DPAD_LEFT", "DPAD_RIGHT", "DPAD_UP", "DPAD_DOWN", "LEFT_TRIGGER", "RIGHT_TRIGGER",
             "A", "B", "X", "Y", "L", "R", "L3", "R3", "SELECT", "START"}
  BY InputAssumption DEF I!GamepadElements
<1>p. I!DeviceElement(e) \in I!Parts
  BY DEF I!Parts
<1>g. /\ e \in I!Sticks => I!GamepadElements[e] \in 1 .. 4
      /\ e \in I!DPad => I!GamepadElements[e] \in 5 .. 8
      /\ e \in I!Triggers => I!GamepadElements[e] \in 9 .. 10
      /\ e \notin I!Sticks \cup I!DPad \cup I!Triggers => I!GamepadElements[e] \in 11 .. 20
  BY <1>e DEF I!GamepadElements, I!Sticks, I!DPad, I!Triggers
<1> DEFINE g == I!GamepadElements[e]
<1>1. CASE Platform = "mac"
  <2>1. I!DeviceElement(e) = I!MacTable[g]
    BY <1>1 DEF I!DeviceElement, I!PlatformTable
  <2>2. I!StickElements = 8 /\ I!Fudged = {4, 5}
    BY <1>1 DEF I!StickElements, I!Fudged
  <2>3. /\ g \in 1 .. 4 => I!MacTable[g] \in {0, 1, 2, 3}
        /\ g \in 5 .. 8 => I!MacTable[g] \in {6, 7}
        /\ g \in 9 .. 10 => I!MacTable[g] \in {4, 5}
        /\ g \in 11 .. 20 => I!MacTable[g] \in 8 .. 20
    BY DEF I!MacTable
  <2> HIDE DEF g
  <2> QED BY <1>p, <1>g, <2>1, <2>2, <2>3 DEF I!IsAxis, g
<1>2. CASE Platform = "windows"
  <2>1. I!DeviceElement(e) = I!WindowsTable[g]
    BY <1>2 DEF I!DeviceElement, I!PlatformTable
  <2>2. I!StickElements = 8 /\ I!Fudged = {}
    BY <1>2 DEF I!StickElements, I!Fudged
  <2>3. /\ g \in 1 .. 4 => I!WindowsTable[g] \in {2, 3, 4, 5}
        /\ g \in 5 .. 8 => I!WindowsTable[g] \in {0, 1}
        /\ g \in 9 .. 10 => I!WindowsTable[g] \in {6, 7}
        /\ g \in 11 .. 20 => I!WindowsTable[g] \in 8 .. 20
    BY DEF I!WindowsTable
  <2> HIDE DEF g
  <2> QED BY <1>p, <1>g, <2>1, <2>2, <2>3 DEF I!IsAxis, g
<1>3. CASE Platform = "unix"
  <2>1. I!DeviceElement(e) = I!UnixTable[g]
    BY <1>3 DEF I!DeviceElement, I!PlatformTable
  <2>2. I!StickElements = 8 /\ I!Fudged = {2, 5}
    BY <1>3 DEF I!StickElements, I!Fudged
  <2>3. /\ g \in 1 .. 4 => I!UnixTable[g] \in {0, 1, 3, 4}
        /\ g \in 5 .. 8 => I!UnixTable[g] \in {6, 7}
        /\ g \in 9 .. 10 => I!UnixTable[g] \in {2, 5}
        /\ g \in 11 .. 20 => I!UnixTable[g] \in 8 .. 20
    BY DEF I!UnixTable
  <2> HIDE DEF g
  <2> QED BY <1>p, <1>g, <2>1, <2>2, <2>3 DEF I!IsAxis, g
<1>4. CASE Platform = "android"
  <2>1. I!DeviceElement(e) = I!AndroidTable[g]
    BY <1>4 DEF I!DeviceElement, I!PlatformTable
  <2>2. I!StickElements = 6 /\ I!Fudged = {}
    BY <1>4 DEF I!StickElements, I!Fudged
  <2>3. /\ g \in 1 .. 4 => I!AndroidTable[g] \in {0, 1, 2, 3}
        /\ g \in 5 .. 8 => I!AndroidTable[g] \in {12, 13, 14, 15}
        /\ g \in 9 .. 10 => I!AndroidTable[g] \in {4, 5}
        /\ g \in 11 .. 20 => I!AndroidTable[g] \in 6 .. 20
    BY DEF I!AndroidTable
  <2> HIDE DEF g
  <2> QED BY <1>p, <1>g, <2>1, <2>2, <2>3 DEF I!IsAxis, g
<1> QED BY <1>1, <1>2, <1>3, <1>4, InputAssumption

LEMMA FudgedAreAxes == \A n \in I!Fudged : I!IsAxis(n)
BY InputAssumption DEF I!Fudged, I!IsAxis, I!StickElements

LEMMA PositionsRange ==
  ASSUME NEW n \in I!Parts
  PROVE  /\ I!Positions(n) \subseteq {-100, 0, 100}
         /\ n \in I!Fudged => I!Positions(n) = {-100, 100}
         /\ ~I!IsAxis(n) => I!Positions(n) = {0, 100}
         /\ n \notin I!Fudged /\ (\E e \in Elements : e \in I!Triggers /\ n = I!DeviceElement(e))
              => I!Positions(n) = {0, 100}
BY FudgedAreAxes DEF I!Positions

\* Who reads a pad takes the element for held exactly if the player presses it,
\* at each of the places a part that was not lost may stand at.
LEMMA HeldIsPressed ==
  ASSUME Standing, NEW p \in Pads, p \in DOMAIN joystick, NEW e \in Elements, NEW found,
         <<joystick[p], I!DeviceElement(e)>> \notin lost,
         found[I!DeviceElement(e)]
           = Taken(p, I!DeviceElement(e), raw[joystick[p]][I!DeviceElement(e)])
  PROVE  I!JoystickHeld(e, found) <=> I!Pressing(joystick[p], e)
<1> DEFINE n == I!DeviceElement(e)
           v == raw[joystick[p]][n]
<1>1. n \in I!Parts /\ n \in Int /\ (e \in I!Sticks \cup I!DPad => n \notin I!Fudged)
      /\ (e \notin I!Sticks \cup I!DPad \cup I!Triggers => ~I!IsAxis(n))
      /\ (e \in I!Triggers => I!IsAxis(n))
  BY DeviceParts
<1>d. joystick[p] \in Devices
  BY DEF Standing
<1>2. v \in {-100, 0, 100} /\ v \in I!Positions(n) \cup {0}
      /\ (<<p, n>> \in moved => v # 0)
      /\ (n \in I!Fudged /\ <<p, n>> \notin moved => v \in {0, 100})
  BY <1>1, <1>d DEF Standing
<1>3. found[n] = Taken(p, n, v)
  OBVIOUS
<1>4. /\ n \in I!Fudged => I!Positions(n) = {-100, 100}
      /\ ~I!IsAxis(n) => I!Positions(n) = {0, 100}
      /\ n \notin I!Fudged /\ e \in I!Triggers => I!Positions(n) = {0, 100}
  BY <1>1, PositionsRange
<1>5. n \in I!Fudged => I!IsAxis(n)
  BY FudgedAreAxes
<1>6. I!Pressing(joystick[p], e) <=>
        IF I!Direction(e) = 0 \/ ~I!IsAxis(n) THEN IF e \in I!Triggers THEN v = 100 ELSE v # 0
        ELSE v * I!Direction(e) > 0
  BY DEF I!Pressing
<1>7. I!JoystickHeld(e, found) <=>
        IF I!IsAxis(n)
        THEN (IF I!Direction(e) = 0 THEN I!Absolute(I!Value(e, found[n]))
              ELSE I!Direction(e) * I!Value(e, found[n])) >= I!Threshold(e)
        ELSE found[n] # 0
  BY DEF I!JoystickHeld
<1> HIDE DEF n, v
<1>8. CASE ~I!IsAxis(n)
  <2>1. found[n] = v
    BY <1>3, <1>5, <1>8 DEF Taken
  <2> QED BY <1>1, <1>2, <1>4, <1>6, <1>7, <1>8, <2>1
<1>9. CASE I!IsAxis(n) /\ e \in I!Sticks
  <2>1. found[n] = v
    BY <1>1, <1>3, <1>9 DEF Taken
  <2>2. I!Direction(e) = 0 /\ I!Threshold(e) = 50 /\ I!DeadZone(e) = 15 /\ e \notin I!Triggers
    BY <1>9 DEF I!Direction, I!Threshold, I!DeadZone, I!Sticks, I!Triggers, I!DPad
  <2>3. I!Value(e, v) = v
    <3>1. CASE v = 0 BY <2>2, <3>1 DEF I!Value, I!Absolute
    <3>2. CASE v = 100 BY <2>2, <3>2 DEF I!Value, I!Absolute
    <3>3. CASE v = -100 BY <2>2, <3>3 DEF I!Value, I!Absolute
    <3> QED BY <1>2, <3>1, <3>2, <3>3
  <2>4. I!Absolute(v) >= 50 <=> v # 0
    BY <1>2 DEF I!Absolute
  <2> QED BY <1>2, <1>6, <1>7, <1>9, <2>1, <2>2, <2>3, <2>4
<1>10. CASE I!IsAxis(n) /\ e \in I!DPad
  <2>1. found[n] = v
    BY <1>1, <1>3, <1>10 DEF Taken
  <2>2. I!Direction(e) \in {-1, 1} /\ I!Threshold(e) = 10 /\ I!DeadZone(e) = 0
    BY <1>10 DEF I!Direction, I!Threshold, I!DeadZone, I!Sticks, I!Triggers, I!DPad
  <2>3. I!Value(e, v) = v
    <3>1. CASE v = 0 BY <2>2, <3>1 DEF I!Value, I!Absolute
    <3>2. CASE v = 100 BY <2>2, <3>2 DEF I!Value, I!Absolute
    <3>3. CASE v = -100 BY <2>2, <3>3 DEF I!Value, I!Absolute
    <3> QED BY <1>2, <3>1, <3>2, <3>3
  <2>4. I!Direction(e) * v >= 10 <=> v * I!Direction(e) > 0
    BY <1>2, <2>2
  <2> QED BY <1>2, <1>6, <1>7, <1>10, <2>1, <2>2, <2>3, <2>4
<1>11. CASE I!IsAxis(n) /\ e \in I!Triggers
  <2>1. I!Direction(e) = 0 /\ I!Threshold(e) = 50 /\ I!DeadZone(e) = 0
    BY <1>11 DEF I!Direction, I!Threshold, I!DeadZone, I!Sticks, I!Triggers, I!DPad
  <2>2. found[n] \in {0, 100} /\ (found[n] = 100 <=> v = 100)
    <3>1. CASE n \in I!Fudged /\ <<p, n>> \in moved
      <4>1. v \in {-100, 100}
        BY <1>2, <1>4, <3>1
      <4>2. found[n] = (v + 100) \div 2
        BY <1>3, <3>1 DEF Taken
      <4> QED BY <4>1, <4>2
    <3>2. CASE n \in I!Fudged /\ <<p, n>> \notin moved
      BY <1>2, <1>3, <3>2 DEF Taken
    <3>3. CASE n \notin I!Fudged
      BY <1>2, <1>3, <1>4, <1>11, <3>3 DEF Taken
    <3> QED BY <3>1, <3>2, <3>3
  <2>3. I!Value(e, found[n]) = found[n]
    <3>1. CASE found[n] = 0 BY <2>1, <3>1 DEF I!Value, I!Absolute
    <3>2. CASE found[n] = 100 BY <2>1, <3>2 DEF I!Value, I!Absolute
    <3> QED BY <2>2, <3>1, <3>2
  <2>4. I!Absolute(found[n]) >= 50 <=> found[n] = 100
    BY <2>2 DEF I!Absolute
  <2> QED BY <1>2, <1>6, <1>7, <1>11, <2>1, <2>2, <2>3, <2>4
<1> QED BY <1>1, <1>8, <1>9, <1>10, <1>11

\* Nothing is held of what is at rest.
LEMMA StillIsNotHeld ==
  ASSUME NEW e \in Elements, NEW found, found[I!DeviceElement(e)] = 0
  PROVE  ~I!JoystickHeld(e, found)
<1>1. e \notin I!Sticks \cup I!DPad \cup I!Triggers => ~I!IsAxis(I!DeviceElement(e))
  BY DeviceParts
<1>2. I!Value(e, 0) = 0
  BY DEF I!Value, I!Absolute, I!DeadZone
<1>3. I!Direction(e) \in {-1, 0, 1} /\ I!Absolute(0) = 0
  BY DEF I!Direction, I!Absolute
<1>4. e \in I!Sticks \cup I!DPad \cup I!Triggers => I!Threshold(e) \in {10, 50}
  BY DEF I!Threshold, I!Sticks, I!DPad, I!Triggers
<1>5. I!Direction(e) * 0 = 0
  BY <1>3
<1>6. CASE I!IsAxis(I!DeviceElement(e))
  BY <1>1, <1>2, <1>3, <1>4, <1>5, <1>6 DEF I!JoystickHeld
<1>7. CASE ~I!IsAxis(I!DeviceElement(e))
  BY <1>7 DEF I!JoystickHeld
<1> QED BY <1>6, <1>7

\* An update takes a part for what it stands at, read for the first time or again,
\* and one that was lost for one at rest, but for a trigger.
LEMMA ReadAsTaken ==
  ASSUME Standing, StatesKnown, NEW p \in Pads, NEW n \in I!Parts
  PROVE  /\ I!UpdateInputDevice(p) \in [I!Parts -> Int]
         /\ p \notin DOMAIN joystick => I!UpdateInputDevice(p)[n] = 0
         /\ p \in DOMAIN joystick =>
              IF <<joystick[p], n>> \in lost
              THEN n \in I!Fudged \/ I!UpdateInputDevice(p)[n] = 0
              ELSE I!UpdateInputDevice(p)[n] = Taken(p, n, raw[joystick[p]][n])
<1>1. StateOf(p, n) /\ joystickState[p] \in [I!Parts -> Int]
  BY DEF StatesKnown
<1>2. <<p, n>> \in moved => p \in DOMAIN joystick /\ n \in I!Fudged
  BY DEF Standing
<1>3. CASE p \in updated
  <2>1. I!UpdateInputDevice(p) = I!FudgeAgain(p)
    BY <1>3 DEF I!UpdateInputDevice
  <2>2. \A m \in I!Parts : (joystickState[p][m] + 100) \div 2 \in Int
    BY <1>1
  <2>3. I!FudgeAgain(p) \in [I!Parts -> Int]
    BY <1>1, <2>2 DEF I!FudgeAgain
  <2>4. I!FudgeAgain(p)[n] = IF n \in I!Fudged /\ <<p, n>> \in moved
                             THEN (joystickState[p][n] + 100) \div 2 ELSE joystickState[p][n]
    BY DEF I!FudgeAgain
  <2> QED BY <1>1, <1>2, <1>3, <2>1, <2>3, <2>4 DEF StateOf, Taken
<1>4. CASE p \notin updated
  <2>1. I!UpdateInputDevice(p) = joystickState[p]
    BY <1>4 DEF I!UpdateInputDevice
  <2> QED BY <1>1, <1>4, <2>1 DEF StateOf
<1> QED BY <1>3, <1>4

-----------------------------------------------------------------------------
LEMMA InputInit == I!Init => InputInv
<1> SUFFICES ASSUME I!Init PROVE InputInv
  OBVIOUS
<1>1. KeysKnown
  BY DEF I!Init, KeysKnown
<1>2. /\ raw = [d \in Devices |-> [n \in I!Parts |-> 0]]
      /\ joystickState = [p \in Pads |-> [n \in I!Parts |-> 0]]
      /\ moved = {} /\ lost = {}
  BY DEF I!Init, I!Still
<1>3. joystick \in [DOMAIN joystick -> Devices]
  <2>1. PICK devices \in SUBSET Devices : joystick \in I!Listings(devices)
    BY DEF I!Init
  <2> QED BY <2>1 DEF I!Listings, I!Bijection, I!Injection
<1>4. \A p \in DOMAIN joystick, n \in I!Parts : raw[joystick[p]][n] = 0
  BY <1>2, <1>3
<1>5. Standing
  BY <1>2, <1>3, <1>4 DEF Standing
<1>6. StatesKnown
  BY <1>2, <1>4 DEF StatesKnown, StateOf, Taken
<1> QED BY <1>1, <1>5, <1>6 DEF InputInv

\* Reading the handlers of hs leaves each pad of hs as it is taken.
LEMMA ReadHandlers ==
  ASSUME InputInv, NEW hs,
         joystickState' = [p \in Pads |-> IF p \in hs THEN I!UpdateInputDevice(p)
                                          ELSE joystickState[p]],
         updated' \cap Pads = (updated \ hs) \cap Pads,
         UNCHANGED <<joystick, raw, moved, down, key, forgotten, lost>>
  PROVE  InputInv'
<1>k. Standing /\ StatesKnown
  BY DEF InputInv
<1>1. KeysKnown'
  BY DEF InputInv, KeysKnown
<1>2. Standing'
  BY DEF InputInv, Standing
<1>4. ASSUME NEW p \in Pads, NEW n \in I!Parts
      PROVE  joystickState'[p] \in [I!Parts -> Int] /\ StateOf(p, n)'
  <2>t. Taken(p, n, raw[joystick[p]][n])' = Taken(p, n, raw[joystick[p]][n])
    BY DEF Taken
  <2>1. CASE p \in hs
    <3>1. joystickState'[p] = I!UpdateInputDevice(p) /\ p \notin updated'
      BY <2>1
    <3> QED BY <1>k, <2>t, <3>1, ReadAsTaken DEF StateOf
  <2>2. CASE p \notin hs
    <3>1. joystickState'[p] = joystickState[p] /\ (p \in updated' <=> p \in updated)
      BY <2>2
    <3>2. StateOf(p, n) /\ joystickState[p] \in [I!Parts -> Int]
      BY <1>k DEF StatesKnown
    <3> QED BY <2>t, <3>1, <3>2 DEF StateOf
  <2> QED BY <2>1, <2>2
<1>5. joystickState' = [p \in Pads |-> joystickState'[p]]
  OBVIOUS
<1>6. ASSUME NEW p \in Pads PROVE joystickState'[p] \in [I!Parts -> Int]
  <2>1. CASE p \in hs
    <3>1. joystickState'[p] = I!UpdateInputDevice(p)
      BY <2>1
    <3>2. joystickState[p] \in [I!Parts -> Int]
      BY <1>k DEF StatesKnown
    <3>3. \A m \in I!Parts : (joystickState[p][m] + 100) \div 2 \in Int
      BY <3>2
    <3>4. I!FudgeAgain(p) \in [I!Parts -> Int]
      BY <3>2, <3>3 DEF I!FudgeAgain
    <3> QED BY <3>1, <3>2, <3>4 DEF I!UpdateInputDevice
  <2>2. CASE p \notin hs
    BY <1>k, <2>2 DEF StatesKnown
  <2> QED BY <2>1, <2>2
<1>7. StatesKnown'
  BY <1>4, <1>5, <1>6 DEF StatesKnown
<1> QED BY <1>1, <1>2, <1>7 DEF InputInv

LEMMA InputStep == InputInv /\ [I!Next]_inputVars => InputInv'
<1> SUFFICES ASSUME InputInv, [I!Next]_inputVars PROVE InputInv'
  OBVIOUS
<1>k. KeysKnown /\ Standing /\ StatesKnown
  BY DEF InputInv
<1>u. ASSUME UNCHANGED <<joystick, raw, joystickState, updated, moved, lost>>
      PROVE  Standing' /\ StatesKnown'
  BY <1>k, <1>u DEF Standing, StatesKnown, StateOf, Taken
<1>1. ASSUME NEW k \in I!AllKeys, I!KeyDown(k) \/ I!KeyUp(k) \/ I!KeyRepeat(k) PROVE InputInv'
  <2>1. UNCHANGED <<joystick, raw, joystickState, updated, moved, lost>>
    BY <1>1 DEF I!KeyDown, I!KeyUp, I!KeyRepeat, I!deviceVars
  <2>2. KeysKnown'
    BY <1>1, <1>k DEF I!KeyDown, I!KeyUp, I!KeyRepeat, I!deviceVars, I!HandleKeyPress,
       I!HandleKeyRelease, KeysKnown
  <2> QED BY <1>u, <2>1, <2>2 DEF InputInv
<1>2. CASE I!ClearKeyStates
  <2>1. UNCHANGED <<joystick, raw, joystickState, updated, moved, lost>>
    BY <1>2 DEF I!ClearKeyStates, I!deviceVars
  <2>2. KeysKnown'
    BY <1>2, <1>k DEF I!ClearKeyStates, I!deviceVars, KeysKnown
  <2> QED BY <1>u, <2>1, <2>2 DEF InputInv
<1>3. ASSUME NEW d \in Devices, NEW n \in I!Parts, NEW v \in I!Positions(n), I!JoystickEvent(d, n, v)
      PROVE  InputInv'
  <2>1. KeysKnown'
    BY <1>3, <1>k DEF I!JoystickEvent, KeysKnown
  <2>v. v \in {-100, 0, 100} /\ (n \in I!Fudged => v # 0)
    BY PositionsRange
  <2>2. raw' \in [Devices -> [I!Parts -> {-100, 0, 100}]]
    BY <1>3, <1>k, <2>v DEF I!JoystickEvent, Standing
  <2>3. \A c \in Devices, m \in I!Parts :
          raw'[c][m] = IF c = d /\ m = n THEN v ELSE raw[c][m]
    BY <1>3, <1>k DEF I!JoystickEvent, Standing
  <2>4. /\ joystick' = joystick
        /\ moved' = IF n \in I!Fudged THEN moved \cup (I!NumbersOf(d) \X {n}) ELSE moved
        /\ updated' = updated \cup I!NumbersOf(d)
        /\ joystickState' = [p \in Pads |-> IF p \in I!NumbersOf(d) THEN raw'[d]
                                            ELSE joystickState[p]]
        /\ lost' = {x \in lost : x[1] = d => x[2] \in I!Fudged \ {n}
                                                /\ raw[d][x[2]] = -100}
    BY <1>3 DEF I!JoystickEvent
  <2>n. \A p \in Pads : p \in I!NumbersOf(d) <=> p \in DOMAIN joystick /\ joystick[p] = d
    BY DEF I!NumbersOf
  <2>l. \A c, m : <<c, m>> \in lost' <=>
          <<c, m>> \in lost /\ (c = d => m \in I!Fudged \ {n} /\ raw[d][m] = -100)
    BY <2>4
  <2>m. \A p \in Pads, m \in I!Parts :
          <<p, m>> \in moved' <=> <<p, m>> \in moved \/ (m = n /\ n \in I!Fudged
                                     /\ p \in DOMAIN joystick /\ joystick[p] = d)
    BY <2>4, <2>n
  <2>j. \A p \in DOMAIN joystick : joystick[p] \in Devices
    BY <1>k DEF Standing
  <2>5. ASSUME NEW p \in Pads, NEW m \in I!Parts
        PROVE  /\ <<p, m>> \in moved' => p \in DOMAIN joystick /\ m \in I!Fudged
                                         /\ raw'[joystick[p]][m] # 0
               /\ p \in DOMAIN joystick /\ m \in I!Fudged /\ <<p, m>> \notin moved' =>
                    raw'[joystick[p]][m] \in {0, 100} \/ <<joystick[p], m>> \in lost'
    <3>1. /\ <<p, m>> \in moved => p \in DOMAIN joystick /\ m \in I!Fudged
                                   /\ raw[joystick[p]][m] # 0
          /\ p \in DOMAIN joystick /\ m \in I!Fudged /\ <<p, m>> \notin moved =>
               raw[joystick[p]][m] \in {0, 100} \/ <<joystick[p], m>> \in lost
      BY <1>k DEF Standing
    <3>2. p \in DOMAIN joystick =>
            /\ raw'[joystick[p]][m] = IF joystick[p] = d /\ m = n THEN v ELSE raw[joystick[p]][m]
            /\ raw[joystick[p]][m] \in {-100, 0, 100}
      BY <1>k, <2>3, <2>j DEF Standing
    <3>3. CASE p \in DOMAIN joystick /\ joystick[p] = d /\ m = n
      BY <2>v, <2>m, <3>1, <3>2, <3>3
    <3>4. CASE ~(p \in DOMAIN joystick /\ joystick[p] = d /\ m = n)
      BY <2>m, <2>l, <3>1, <3>2, <3>4
    <3> QED BY <3>3, <3>4
  <2>6. \A c \in Devices, m \in I!Parts : raw'[c][m] \in I!Positions(m) \cup {0}
    BY <1>k, <2>3 DEF Standing
  <2>7. Standing'
    BY <1>k, <2>2, <2>4, <2>5, <2>6 DEF Standing
  <2>8. joystickState' \in [Pads -> [I!Parts -> Int]]
    BY <1>k, <2>2, <2>4 DEF StatesKnown
  <2>9. ASSUME NEW p \in Pads, NEW m \in I!Parts PROVE StateOf(p, m)'
    <3>1. CASE p \in I!NumbersOf(d)
      <4>1. joystickState'[p] = raw'[d] /\ p \in updated' /\ p \in DOMAIN joystick' /\ joystick'[p] = d
        BY <2>4, <2>n, <3>1
      <4>2. <<d, m>> \in lost' => m \in I!Fudged
        BY <2>l
      <4> QED BY <4>1, <4>2 DEF StateOf
    <3>2. CASE p \notin I!NumbersOf(d)
      <4>1. joystickState'[p] = joystickState[p] /\ (p \in updated' <=> p \in updated)
        BY <2>4, <3>2
      <4>2. p \in DOMAIN joystick => joystick[p] # d
        BY <2>n, <3>2
      <4>3. p \in DOMAIN joystick =>
              /\ raw'[joystick[p]][m] = raw[joystick[p]][m]
              /\ (<<joystick[p], m>> \in lost' <=> <<joystick[p], m>> \in lost)
        BY <2>3, <2>j, <2>l, <4>2
      <4>4. p \in DOMAIN joystick => (<<p, m>> \in moved' <=> <<p, m>> \in moved)
        BY <2>m, <4>2
      <4>5. StateOf(p, m)
        BY <1>k DEF StatesKnown
      <4> QED BY <2>4, <4>1, <4>3, <4>4, <4>5 DEF StateOf, Taken
    <3> QED BY <3>1, <3>2
  <2>10. StatesKnown'
    BY <2>8, <2>9 DEF StatesKnown
  <2> QED BY <2>1, <2>7, <2>10 DEF InputInv
<1>4. ASSUME NEW d \in Devices, I!Configuration(d) PROVE InputInv'
  <2> DEFINE others == I!Range(joystick) \ {d}
  <2>1. KeysKnown'
    BY <1>4, <1>k DEF I!Configuration, I!Reset, KeysKnown
  <2>2. /\ raw' = [raw EXCEPT ![d] = [m \in I!Parts |-> 0]] /\ moved' = {}
        /\ joystickState' = [q \in Pads |-> [m \in I!Parts |-> 0]]
        /\ lost' = {x \in others \X I!Parts : raw[x[1]][x[2]] # 0}
    BY <1>4 DEF I!Configuration, I!Reset, I!Still
  <2>3. others \subseteq Devices
    BY <1>k DEF Standing, I!Range
  <2>4. joystick' \in [DOMAIN joystick' -> others \cup {d}]
    <3>1. joystick' \in I!Listings(others \cup {d}) \/ joystick' \in I!Listings(others)
      BY <1>4 DEF I!Configuration
    <3> HIDE DEF others
    <3> QED BY <3>1 DEF I!Listings, I!Bijection, I!Injection
  <2> HIDE DEF others
  <2>5. /\ raw' \in [Devices -> [I!Parts -> {-100, 0, 100}]]
        /\ \A c \in Devices, m \in I!Parts : raw'[c][m] = IF c = d THEN 0 ELSE raw[c][m]
    BY <1>k, <2>2 DEF Standing
  <2>6. \A c \in Devices, m \in I!Parts : raw'[c][m] \in I!Positions(m) \cup {0}
    BY <1>k, <2>5 DEF Standing
  <2>7. \A p \in DOMAIN joystick', m \in I!Parts :
          raw'[joystick'[p]][m] = 0 \/ <<joystick'[p], m>> \in lost'
    <3> SUFFICES ASSUME NEW p \in DOMAIN joystick', NEW m \in I!Parts,
                        raw'[joystick'[p]][m] # 0
                 PROVE  <<joystick'[p], m>> \in lost'
      OBVIOUS
    <3>1. joystick'[p] \in Devices /\ joystick'[p] \in others \cup {d}
      BY <2>3, <2>4
    <3>2. joystick'[p] # d /\ raw[joystick'[p]][m] # 0
      BY <2>5, <3>1
    <3>3. joystick'[p] \in others
      BY <3>1, <3>2
    <3> QED BY <2>2, <3>2, <3>3
  <2>8. joystick' \in [DOMAIN joystick' -> Devices]
    BY <2>3, <2>4
  <2>9. Standing'
    BY <2>2, <2>5, <2>6, <2>7, <2>8 DEF Standing
  <2>10. StatesKnown'
    BY <2>2, <2>7 DEF StatesKnown, StateOf, Taken
  <2> QED BY <2>1, <2>9, <2>10 DEF InputInv
<1>5. CASE I!MenuLogic
  BY <1>5, ReadHandlers DEF I!MenuLogic, I!UpdateHandlers, I!deviceVars
<1>6. ASSUME NEW joining \in SUBSET I!Handlers, I!PlayerSetup(joining) PROVE InputInv'
  <2>1. joystickState' = [p \in Pads |-> IF p \in Pads THEN I!UpdateInputDevice(p)
                                         ELSE joystickState[p]]
    BY <1>6 DEF I!PlayerSetup
  <2>2. updated' \cap Pads = (updated \ Pads) \cap Pads
    BY <1>6 DEF I!PlayerSetup
  <2> QED BY <1>6, <2>1, <2>2, ReadHandlers DEF I!PlayerSetup, I!deviceVars
<1>7. ASSUME NEW ls \in (SUBSET I!Handlers) \ {{}}, I!GameLogic(ls) PROVE InputInv'
  BY <1>7, ReadHandlers DEF I!GameLogic, I!UpdateHandlers, I!deviceVars
<1>8. CASE UNCHANGED inputVars
  <2>1. KeysKnown'
    BY <1>8, <1>k DEF inputVars, KeysKnown
  <2> QED BY <1>8, <1>u, <2>1 DEF inputVars, InputInv
<1> QED BY <1>1, <1>2, <1>3, <1>4, <1>5, <1>6, <1>7, <1>8 DEF I!Next

LEMMA InputHeld == InputInv => I!HeldStep
<1> SUFFICES ASSUME InputInv, NEW ls \in SUBSET I!Handlers, I!GameLogic(ls), NEW h \in ls
             PROVE  /\ \A e \in sent'[h] \ I!Pressed(h) :
                         h \in Pads /\ e \in I!Triggers /\ I!Lost(h, e)
                    /\ \A e \in I!Pressed(h) \ sent'[h] : I!Lost(h, e)
  BY DEF I!HeldStep
<1>1. h \in I!Handlers /\ handler'[h] = I!Updated(h)
  BY DEF I!GameLogic, I!UpdateHandlers
<1>2. sent'[h] = {e \in Elements : handler'[h][e].held}
  BY <1>1 DEF I!GameLogic
<1>3. \A e \in Elements : handler'[h][e].held <=>
          IF h \in Pads THEN I!JoystickHeld(e, I!UpdateInputDevice(h)) ELSE I!KeyboardHeld(h, e)
  BY <1>1 DEF I!Updated, I!Edge
<1>4. CASE h \in Pads
  <2> DEFINE found == I!UpdateInputDevice(h)
  <2>1. \A n \in I!Parts :
          /\ h \notin DOMAIN joystick => found[n] = 0
          /\ h \in DOMAIN joystick =>
               IF <<joystick[h], n>> \in lost THEN n \in I!Fudged \/ found[n] = 0
               ELSE found[n] = Taken(h, n, raw[joystick[h]][n])
    BY <1>4, ReadAsTaken DEF InputInv
  <2> HIDE DEF found
  <2>2. ASSUME NEW e \in Elements
        PROVE  /\ e \in sent'[h] /\ e \notin I!Pressed(h) => e \in I!Triggers /\ I!Lost(h, e)
               /\ e \in I!Pressed(h) /\ e \notin sent'[h] => I!Lost(h, e)
    <3>1. e \in sent'[h] <=> I!JoystickHeld(e, found)
      BY <1>2, <1>3, <1>4 DEF found
    <3>2. e \in I!Pressed(h) <=> h \in DOMAIN joystick /\ I!Pressing(joystick[h], e)
      BY <1>4 DEF I!Pressed
    <3>3. I!Lost(h, e) <=> <<joystick[h], I!DeviceElement(e)>> \in lost
      BY <1>4 DEF I!Lost
    <3>4. /\ I!DeviceElement(e) \in I!Parts
          /\ e \in I!Sticks \cup I!DPad => I!DeviceElement(e) \notin I!Fudged
          /\ e \notin I!Sticks \cup I!DPad \cup I!Triggers => ~I!IsAxis(I!DeviceElement(e))
      BY DeviceParts
    <3>5. CASE h \notin DOMAIN joystick
      BY <2>1, <3>1, <3>2, <3>4, <3>5, StillIsNotHeld
    <3>6. CASE h \in DOMAIN joystick /\ ~I!Lost(h, e)
      BY <1>4, <2>1, <3>1, <3>2, <3>3, <3>4, <3>6, HeldIsPressed DEF InputInv
    <3>7. CASE h \in DOMAIN joystick /\ I!Lost(h, e)
      <4>1. CASE e \in I!Triggers
        BY <3>7, <4>1
      <4>2. CASE e \notin I!Triggers
        <5>1. I!DeviceElement(e) \notin I!Fudged
          BY <3>4, <4>2, FudgedAreAxes
        <5>2. found[I!DeviceElement(e)] = 0
          BY <2>1, <3>3, <3>4, <3>7, <5>1
        <5> QED BY <3>1, <3>7, <5>2, StillIsNotHeld
      <4> QED BY <4>1, <4>2
    <3> QED BY <3>5, <3>6, <3>7
  <2>3. sent'[h] \subseteq Elements /\ I!Pressed(h) \subseteq Elements
    BY <1>2, <1>4 DEF I!Pressed
  <2> QED BY <1>4, <2>2, <2>3
<1>5. CASE h \notin Pads
  <2>1. h \in I!KeyboardHandlers /\ DOMAIN Keys[h] \subseteq Elements
    BY <1>1, <1>5, InputAssumption DEF I!Handlers, I!KeyboardHandlers
  <2>2. sent'[h] = {e \in Elements : e \in DOMAIN Keys[h] /\ Keys[h][e] \in key}
    BY <1>2, <1>3, <1>5 DEF I!KeyboardHeld
  <2>3. I!Pressed(h) = {e \in DOMAIN Keys[h] : Keys[h][e] \in down}
    BY <1>5 DEF I!Pressed
  <2>4. key = down \ forgotten
    BY DEF InputInv, KeysKnown
  <2>5. \A e : I!Lost(h, e) <=> Keys[h][e] \in forgotten
    BY <1>5 DEF I!Lost
  <2> QED BY <2>1, <2>2, <2>3, <2>4, <2>5
<1> QED BY <1>4, <1>5

\* Whatever pads come and go, whatever keys are cleared while they are held and in
\* whatever order events, menus and the game read the devices: the buttons sent for
\* a player are those it holds, on each of the four platforms.  The exceptions are a
\* key that was cleared while it was held, until it is pressed again, and what was
\* not at rest of one gamepad when another came or went: what is held of it is not
\* sent until its gamepad's next event, and a trigger at rest may be sent as held
\* until it moves.
THEOREM PressedIsSent == MCSpec => SentAsPressed
<1>1. MCInit => InputInv
  BY InputInit DEF MCInit
<1>2. InputInv /\ [MCNext]_allVars => InputInv'
  BY InputStep DEF MCNext, Only, allVars
<1>3. InputInv /\ [MCNext]_allVars => [part = "input" => I!HeldStep]_allVars
  BY InputHeld
<1> QED BY <1>1, <1>2, <1>3, PTL DEF MCSpec, SentAsPressed

-----------------------------------------------------------------------------
(* Menus: what is on the screen.                                           *)

\* Menus that are only there while there is no client.
Outside == {"MAIN", "OPTIONS", "NETWORK", "PLAY_NETWORK", "NETWORK_ID", "PLAY_ONLINE", "PLAY_LAN",
            "HOST_NAME", "HOST_IP", "PLAY_ONLINE_LIST"}
Titles == {"TITLE", "T_TITLE_MENU", "REPLAY"}

Screens == {"TITLE", "T_TITLE_MENU", "REPLAY", "MENU", "PLAYER_SETUP", "LEVEL_SETUP",
            "GAME", "GAME_OVER", "GAME_PAUSED", ""}
Names   == Outside \cup {"VALUES", "MAIN_HOST", "MAIN_CLIENT", "PLAY", "PLAY_SINGLE",
            "PLAY_QUICK_PLAY", "PLAY_CUSTOM", "NEW_PROFILE", "PAUSE", "GAME_OVER"}
ScreenType ==
  [state : Screens, menu : Names, stack : Seq(Names), old : Screens,
   text : BOOLEAN, next : {"", "MENU"}, timer : BOOLEAN]

\* None of the menus of m is open, nor on the way back.
Without(u, m) == u.menu \notin m /\ \A i \in 1 .. Len(u.stack) : u.stack[i] \notin m
BottomOf(u)   == IF u.stack = <<>> THEN u.menu ELSE u.stack[1]

\* A client has no menu open that makes another one, and unless a host was given
\* the menu of a client, there is a server exactly while it is hosted.
Connected ==
  /\ link \in {"no", "host", "join"} /\ thread \in BOOLEAN
  /\ link # "no" => Without(ui, Outside) /\ ui.state \notin Titles
  /\ "wrong home" \notin flaw =>
       (thread <=> link = "host") /\ (thread => Without(ui, {"MAIN_CLIENT"}))

\* What a pause goes back to is a game, or is forgotten.
Paused ==
  /\ ui.old \notin Titles
  /\ M!Local /\ ui.state = "GAME_PAUSED" /\ "never off" \notin flaw => ui.old \in M!Playing
  /\ M!Local /\ ui.state # "GAME_PAUSED" => ui.old \notin M!Playing
  /\ ~M!Local => told = "OFF" \/ phase = told
  /\ ~M!Local /\ told = "OFF" =>
       ui.old \notin M!Playing /\ (ui.state \in M!Playing => "not there" \in flaw)

InMemory ==
  (ui.state \in M!Playing \/ ui.old \in M!Playing) /\ "not there" \notin flaw => loaded

AtHome == flaw \cap {"no way back", "wrong home"} # {} \/ BottomOf(ui) = M!Home(link, thread)

Shown ==
  M!Local /\ "never off" \notin flaw =>
    /\ phase = "PLAYING" <=> ui.state \in M!Playing
    /\ phase = "PAUSED"  <=> ui.state = "GAME_PAUSED"

MenusInv ==
  ui \in ScreenType /\ Connected /\ Paused /\ InMemory /\ AtHome /\ Shown

-----------------------------------------------------------------------------
\* Stacks that are empty and that shrink.
LEMMA Empty == ASSUME NEW t PROVE <<>> \in Seq(t) /\ Len(<<>>) = 0
OBVIOUS

LEMMA StackShrinks ==
  ASSUME NEW t, NEW s \in Seq(t), s # <<>>
  PROVE  /\ SubSeq(s, 1, Len(s) - 1) \in Seq(t) /\ Len(SubSeq(s, 1, Len(s) - 1)) = Len(s) - 1
         /\ \A i \in 1 .. Len(s) - 1 : SubSeq(s, 1, Len(s) - 1)[i] = s[i]
<1>1. PICK n \in Nat : n = Len(s) /\ n # 0
  BY Lengths
<1>2. /\ SubSeq(s, 1, n - 1) \in Seq(t) /\ Len(SubSeq(s, 1, n - 1)) = n - 1
      /\ \A i \in 1 .. n - 1 : SubSeq(s, 1, n - 1)[i] = s[i]
  BY <1>1
<1> QED BY <1>1, <1>2

\* What going back and forth over the screens does to them.
LEMMA SelectMenu ==
  ASSUME NEW u \in ScreenType, NEW m \in Names, NEW v, v = M!Select(u, m)
  PROVE  /\ v \in ScreenType /\ BottomOf(v) = BottomOf(u)
         /\ v.state = u.state /\ v.old = u.old /\ v.next = u.next /\ v.timer = u.timer
         /\ v.menu = m /\ v.text = u.text
         /\ \A s : Without(u, s) /\ m \notin s => Without(v, s)
<1>1. v = [u EXCEPT !.menu = m, !.stack = Append(u.stack, u.menu)]
  BY DEF M!Select
<1>2. u.stack \in Seq(Names) /\ u.menu \in Names
  BY DEF ScreenType
<1>3. PICK s0 : s0 = Append(u.stack, u.menu)
  OBVIOUS
<1>4. /\ s0 \in Seq(Names) /\ Len(s0) = Len(u.stack) + 1 /\ Len(u.stack) \in Nat
      /\ \A i \in 1 .. Len(u.stack) : s0[i] = u.stack[i]
      /\ s0[Len(u.stack) + 1] = u.menu
  BY <1>2, <1>3, Appended, Lengths
<1>n. s0 # <<>> /\ (u.stack = <<>> <=> Len(u.stack) = 0)
  BY <1>2, <1>4, Lengths
<1>5. v = [u EXCEPT !.menu = m, !.stack = s0]
  BY <1>1, <1>3
<1>6. v \in ScreenType
  BY <1>2, <1>4, <1>5 DEF ScreenType
<1>7. v.menu = m /\ v.stack = s0
  BY <1>5 DEF ScreenType
<1>8. BottomOf(v) = BottomOf(u)
  <2>1. CASE u.stack = <<>>
    <3>1. s0 # <<>> /\ s0[1] = u.menu
      BY <1>4, <1>n, <2>1
    <3> QED BY <1>7, <2>1, <3>1 DEF BottomOf
  <2>2. CASE u.stack # <<>>
    <3>1. s0 # <<>> /\ s0[1] = u.stack[1]
      BY <1>4, <1>n, <2>2
    <3> QED BY <1>7, <2>2, <3>1 DEF BottomOf
  <2> QED BY <2>1, <2>2
<1>9. ASSUME NEW s, Without(u, s), m \notin s PROVE Without(v, s)
  <2> SUFFICES ASSUME NEW i \in 1 .. Len(s0) PROVE s0[i] \notin s
    BY <1>7, <1>9 DEF Without
  <2>1. i \in 1 .. Len(u.stack) \/ i = Len(u.stack) + 1
    BY <1>4
  <2> QED BY <1>4, <1>9, <2>1 DEF Without
<1> QED BY <1>5, <1>6, <1>7, <1>8, <1>9 DEF ScreenType

LEMMA PreviousMenu ==
  ASSUME NEW u \in ScreenType, NEW v, v = M!Previous(u)
  PROVE  /\ v \in ScreenType /\ BottomOf(v) = BottomOf(u)
         /\ v.state = u.state /\ v.old = u.old /\ v.next = u.next /\ v.timer = u.timer
         /\ v.text = u.text
         /\ \A s : Without(u, s) => Without(v, s)
<1>1. CASE u.stack = <<>>
  <2>1. v = u
    BY <1>1 DEF M!Previous
  <2> QED BY <2>1
<1>2. CASE u.stack # <<>>
  <2>0. u.stack \in Seq(Names)
    BY DEF ScreenType
  <2>1. u.stack \in Seq(Names) /\ Len(u.stack) \in Nat /\ Len(u.stack) # 0
    BY <1>2, <2>0, Lengths
  <2>2. PICK n \in Nat : n = Len(u.stack) /\ n # 0
    BY <2>1
  <2>n. n # 0
    BY <2>2
  <2>3. PICK s0 : s0 = SubSeq(u.stack, 1, n - 1)
    OBVIOUS
  <2>4. /\ s0 \in Seq(Names) /\ Len(s0) = n - 1
        /\ \A i \in 1 .. n - 1 : s0[i] = u.stack[i]
    BY <1>2, <2>1, <2>2, <2>3, StackShrinks
  <2>5. v = [u EXCEPT !.menu = u.stack[n], !.stack = s0]
    BY <1>2, <2>2, <2>3 DEF M!Previous, M!Last, M!Front
  <2>6. u.stack[n] \in Names
    BY <2>1, <2>2, Lengths
  <2>7. v \in ScreenType
    BY <2>4, <2>5, <2>6 DEF ScreenType
  <2>8. v.menu = u.stack[n] /\ v.stack = s0
    BY <2>5 DEF ScreenType
  <2>9. BottomOf(v) = BottomOf(u)
    <3>1. CASE n = 1
      <4>1. s0 = <<>>
        BY <2>4, <3>1, Lengths
      <4> QED BY <1>2, <2>8, <3>1, <4>1 DEF BottomOf
    <3>2. CASE n # 1
      <4>1. s0 # <<>> /\ s0[1] = u.stack[1]
        <5>1. Len(s0) # 0 /\ 1 \in 1 .. n - 1
          <6>1. 1 <= n - 1
            BY <2>n, <3>2
          <6> QED BY <2>4, <6>1
        <5> QED BY <2>4, <5>1, Lengths
      <4> QED BY <1>2, <2>8, <4>1 DEF BottomOf
    <3> QED BY <3>1, <3>2
  <2>10. ASSUME NEW s, Without(u, s) PROVE Without(v, s)
    BY <2>2, <2>4, <2>8, <2>10 DEF Without
  <2> QED BY <2>5, <2>7, <2>9, <2>10 DEF ScreenType
<1> QED BY <1>1, <1>2

\* A screen of which one field is changed.
LEMMA SameMenus ==
  ASSUME NEW u \in ScreenType, NEW v \in ScreenType, v.menu = u.menu, v.stack = u.stack
  PROVE  BottomOf(v) = BottomOf(u) /\ \A s : Without(u, s) => Without(v, s)
BY DEF BottomOf, Without

LEMMA MainMenu ==
  ASSUME NEW u \in ScreenType, NEW m \in Names, NEW v, v = M!AtMain(u, m)
  PROVE  /\ v \in ScreenType /\ BottomOf(v) = m /\ v.menu = m /\ v.stack = <<>>
         /\ v.state = u.state /\ v.old = u.old /\ v.next = u.next /\ v.timer = u.timer
         /\ v.text = u.text
         /\ \A s : m \notin s => Without(v, s)
<1>1. v = [u EXCEPT !.menu = m, !.stack = <<>>]
  BY DEF M!AtMain
<1>2. /\ v \in ScreenType /\ v.state = u.state /\ v.menu = m /\ v.stack = <<>>
      /\ v.old = u.old /\ v.text = u.text /\ v.next = u.next /\ v.timer = u.timer
  <2>1. PICK s \in Seq(Names) : s = <<>>
    BY Empty
  <2>2. v = [u EXCEPT !.menu = m, !.stack = s]
    BY <1>1, <2>1
  <2>3. /\ v \in ScreenType /\ v.state = u.state /\ v.menu = m /\ v.stack = s
        /\ v.old = u.old /\ v.text = u.text /\ v.next = u.next /\ v.timer = u.timer
    BY <2>2 DEF ScreenType
  <2> QED BY <2>1, <2>3
<1>3. BottomOf(v) = m
  BY <1>2 DEF BottomOf
<1>4. \A s : m \notin s => Without(v, s)
  BY <1>2, Empty DEF Without
<1> QED BY <1>2, <1>3, <1>4

\* A step over the screens alone.
Moves(u, v) ==
  /\ v \in ScreenType /\ BottomOf(v) = BottomOf(u) /\ v.old = u.old
  /\ Without(u, Outside) => Without(v, Outside)
  /\ Without(u, {"MAIN_CLIENT"}) => Without(v, {"MAIN_CLIENT"})
  /\ \/ v.state = u.state
     \/ u.state \in M!Playing /\ v.state \in M!Playing
     \/ {u.state, v.state} \cap (M!Playing \cup {"GAME_PAUSED"}) = {}
  /\ v.state \in Titles => u.state \in Titles \/ ~Without(u, Outside)

LEMMA BackMoves == ASSUME NEW u \in ScreenType PROVE Moves(u, M!OverlayBack(u))
<1> SUFFICES ASSUME NEW v, v = M!OverlayBack(u) PROVE Moves(u, v)
  OBVIOUS
<1>1. CASE u.state = "MENU"
  <2>1. CASE u.menu \in {"PLAY", "PLAY_SINGLE"}
    <3>1. v = [u EXCEPT !.state = "PLAYER_SETUP"]
      BY <1>1, <2>1 DEF M!OverlayBack
    <3>2. v \in ScreenType /\ v.menu = u.menu /\ v.stack = u.stack /\ v.old = u.old
          /\ v.state = "PLAYER_SETUP"
      BY <3>1 DEF ScreenType, Screens
    <3> QED BY <1>1, <3>2, SameMenus DEF Moves, M!Playing, Titles
  <2>2. CASE u.menu = "NEW_PROFILE"
    <3>1. v = [M!Previous(u) EXCEPT !.state = "PLAYER_SETUP"]
      BY <1>1, <2>2 DEF M!OverlayBack
    <3>2. PICK w : w = M!Previous(u)
      OBVIOUS
    <3>3. /\ w \in ScreenType /\ BottomOf(w) = BottomOf(u) /\ w.old = u.old
          /\ \A s : Without(u, s) => Without(w, s)
      BY <3>2, PreviousMenu
    <3>4. v \in ScreenType /\ v.menu = w.menu /\ v.stack = w.stack /\ v.old = w.old
          /\ v.state = "PLAYER_SETUP"
      BY <3>1, <3>2, <3>3 DEF ScreenType, Screens
    <3>5. BottomOf(v) = BottomOf(w) /\ \A s : Without(w, s) => Without(v, s)
      BY <3>3, <3>4, SameMenus
    <3> QED BY <1>1, <3>3, <3>4, <3>5 DEF Moves, M!Playing, Titles
  <2>3. CASE u.menu \notin {"PLAY", "PLAY_SINGLE", "NEW_PROFILE"}
    <3>1. v = M!Previous(u)
      BY <1>1, <2>3 DEF M!OverlayBack
    <3> QED BY <3>1, PreviousMenu DEF Moves
  <2> QED BY <2>1, <2>2, <2>3
<1>2. CASE u.state = "PLAYER_SETUP"
  <2>1. CASE u.stack = <<>>
    <3>1. v = [u EXCEPT !.state = "MENU"]
      BY <1>2, <2>1 DEF M!OverlayBack
    <3>2. v \in ScreenType /\ v.menu = u.menu /\ v.stack = u.stack /\ v.old = u.old
          /\ v.state = "MENU"
      BY <3>1 DEF ScreenType, Screens
    <3> QED BY <1>2, <3>2, SameMenus DEF Moves, M!Playing, Titles
  <2>2. CASE u.stack # <<>>
    <3>1. v = [u EXCEPT !.state = "MENU", !.menu = u.stack[1], !.stack = <<>>]
      BY <1>2, <2>2 DEF M!OverlayBack
    <3>1b. u.stack \in Seq(Names)
      BY DEF ScreenType
    <3>2. u.stack \in Seq(Names) /\ 1 \in 1 .. Len(u.stack)
      BY <2>2, <3>1b, Lengths
    <3>3. u.stack[1] \in Names
      BY <3>2, Lengths
    <3>e. PICK t \in Seq(Names) : t = <<>>
      BY Empty
    <3>v. v = [u EXCEPT !.state = "MENU", !.menu = u.stack[1], !.stack = t]
      BY <3>1, <3>e
    <3>4. v \in ScreenType /\ v.menu = u.stack[1] /\ v.stack = <<>> /\ v.old = u.old
          /\ v.state = "MENU"
      BY <3>3, <3>e, <3>v DEF ScreenType, Screens
    <3>5. \A s : Without(u, s) => Without(v, s)
      BY <3>2, <3>4 DEF Without
    <3>6. BottomOf(v) = BottomOf(u)
      BY <2>2, <3>4 DEF BottomOf
    <3> QED BY <1>2, <3>4, <3>5, <3>6 DEF Moves, M!Playing, Titles
  <2> QED BY <2>1, <2>2
<1>3. CASE u.state = "LEVEL_SETUP"
  <2>1. v = [u EXCEPT !.state = "MENU"]
    BY <1>3 DEF M!OverlayBack
  <2>2. v \in ScreenType /\ v.menu = u.menu /\ v.stack = u.stack /\ v.old = u.old
        /\ v.state = "MENU"
    BY <2>1 DEF ScreenType, Screens
  <2> QED BY <1>3, <2>2, SameMenus DEF Moves, M!Playing, Titles
<1>4. CASE u.state \notin {"MENU", "PLAYER_SETUP", "LEVEL_SETUP"}
  <2>1. v = u
    BY <1>4 DEF M!OverlayBack
  <2> QED BY <2>1 DEF Moves
<1> QED BY <1>1, <1>2, <1>3, <1>4

\* While hardly more than the screens changes the rest of the invariant stays.
LEMMA MovesKeep ==
  ASSUME MenusInv, Moves(ui, ui'), UNCHANGED <<link, phase, flaw>>,
         told' = told \/ link = "no", thread' = thread \/ (thread' = FALSE /\ "wrong home" \in flaw),
         loaded' = loaded \/ loaded' = TRUE
  PROVE  MenusInv'
<1>0. /\ ui \in ScreenType /\ ui' \in ScreenType /\ BottomOf(ui') = BottomOf(ui)
      /\ ui'.old = ui.old
  BY DEF Moves, MenusInv
<1>s. \/ ui'.state = ui.state
      \/ ui.state \in M!Playing /\ ui'.state \in M!Playing
      \/ {ui.state, ui'.state} \cap (M!Playing \cup {"GAME_PAUSED"}) = {}
  BY DEF Moves
<1>t. \/ ui'.state = ui.state
      \/ ui.state \in M!Playing /\ ui'.state \in M!Playing /\ ui.state # "GAME_PAUSED"
         /\ ui'.state # "GAME_PAUSED"
      \/ /\ ui.state \notin M!Playing /\ ui'.state \notin M!Playing /\ ui.state # "GAME_PAUSED"
         /\ ui'.state # "GAME_PAUSED"
  BY <1>s DEF M!Playing
<1>w. /\ Without(ui, Outside)' <=> Without(ui', Outside)
      /\ Without(ui, {"MAIN_CLIENT"})' <=> Without(ui', {"MAIN_CLIENT"})
  BY DEF Without, Outside
<1>1. Connected'
  <2>1. Connected
    BY DEF MenusInv
  <2>2. link # "no" => Without(ui', Outside) /\ ui'.state \notin Titles
    BY <2>1 DEF Connected, Moves
  <2>3. thread /\ "wrong home" \notin flaw => Without(ui', {"MAIN_CLIENT"})
    BY <2>1 DEF Connected, Moves
  <2>4. link' \in {"no", "host", "join"} /\ thread' \in BOOLEAN
    BY <2>1 DEF Connected
  <2>5. link' # "no" => Without(ui, Outside)' /\ ui'.state \notin Titles
    BY <1>w, <2>2
  <2>6. "wrong home" \notin flaw' =>
          (thread' <=> link' = "host") /\ (thread' => Without(ui, {"MAIN_CLIENT"})')
    BY <1>w, <2>1, <2>3 DEF Connected
  <2> QED BY <2>4, <2>5, <2>6 DEF Connected
<1>2. Paused'
  BY <1>0, <1>t DEF MenusInv, Paused, M!Local
<1>3. InMemory'
  BY <1>0, <1>t DEF MenusInv, InMemory
<1>4. AtHome'
  BY <1>0 DEF MenusInv, AtHome
<1>5. Shown'
  BY <1>0, <1>t DEF MenusInv, Shown, M!Local
<1> QED BY <1>0, <1>1, <1>2, <1>3, <1>4, <1>5 DEF MenusInv

-----------------------------------------------------------------------------
\* The entries of a menu are menus, and none of a game's leads out of it.
LEMMA EntryNames ==
  ASSUME NEW n \in DOMAIN M!Entries, NEW m \in M!Entries[n]
  PROVE  m \in Names /\ m # "MAIN_CLIENT" /\ (n \notin Outside => m \notin Outside)
<1>1. \/ (n = "MAIN" /\ m \in M!MainEntries)
      \/ (n = "OPTIONS" /\ m \in M!OptionEntries)
      \/ (n = "PLAY_NETWORK" /\ m \in M!NetworkEntries)
      \/ (n = "PLAY_ONLINE" /\ m \in M!OnlineEntries)
      \/ (n = "PLAY_LAN" /\ m \in M!LanEntries)
      \/ (n = "PLAY" /\ m \in M!PlayEntries)
      \/ (n = "PLAY_CUSTOM" /\ m \in M!CustomEntries)
  BY DEF M!Entries
<1> QED BY <1>1 DEF M!MainEntries, M!OptionEntries, M!NetworkEntries, M!OnlineEntries,
              M!LanEntries, M!PlayEntries, M!CustomEntries, Names, Outside

\* Opening a menu, with what else becomes of the screen.
LEMMA SelectMoves ==
  ASSUME NEW u \in ScreenType, NEW m \in Names, NEW w, w = M!Select(u, m),
         m # "MAIN_CLIENT", m \notin Outside \/ ~Without(u, Outside),
         NEW v \in ScreenType, v.menu = w.menu, v.stack = w.stack, v.old = w.old,
         v.state = u.state \/ {u.state, v.state} \subseteq {"MENU", "PLAYER_SETUP", "LEVEL_SETUP"}
  PROVE  Moves(u, v)
<1>1. /\ w \in ScreenType /\ BottomOf(w) = BottomOf(u) /\ w.state = u.state /\ w.old = u.old
      /\ \A s : Without(u, s) /\ m \notin s => Without(w, s)
  BY SelectMenu
<1>2. BottomOf(v) = BottomOf(w) /\ \A s : Without(w, s) => Without(v, s)
  BY <1>1, SameMenus
<1>3. Without(u, {"MAIN_CLIENT"}) => Without(v, {"MAIN_CLIENT"})
  BY <1>1, <1>2
<1>4. Without(u, Outside) => Without(v, Outside)
  BY <1>1, <1>2
<1>5. /\ \/ v.state = u.state
         \/ {u.state, v.state} \cap (M!Playing \cup {"GAME_PAUSED"}) = {}
      /\ v.state \in Titles => u.state \in Titles
  BY DEF M!Playing, Titles
<1> QED BY <1>1, <1>2, <1>3, <1>4, <1>5 DEF Moves

\* A step that leaves the menus as they are.
LEMMA StateMoves ==
  ASSUME NEW u \in ScreenType, NEW v \in ScreenType, v.menu = u.menu, v.stack = u.stack,
         v.old = u.old,
         \/ v.state = u.state
         \/ u.state = "GAME" /\ v.state = "GAME_OVER"
         \/ u.state \in Titles /\ v.state \in Titles \cup {"MENU"}
         \/ u.state = "MENU" /\ v.state = "REPLAY" /\ u.menu = "MAIN"
         \/ {u.state, v.state} \subseteq {"MENU", "PLAYER_SETUP", "LEVEL_SETUP"}
  PROVE  Moves(u, v)
<1>1. BottomOf(v) = BottomOf(u) /\ \A s : Without(u, s) => Without(v, s)
  BY SameMenus
<1>2. u.menu = "MAIN" => ~Without(u, Outside)
  BY DEF Without, Outside
<1>3. /\ \/ v.state = u.state
         \/ u.state \in M!Playing /\ v.state \in M!Playing
         \/ {u.state, v.state} \cap (M!Playing \cup {"GAME_PAUSED"}) = {}
      /\ v.state \in Titles => u.state \in Titles \/ u.menu = "MAIN"
  BY DEF M!Playing, Titles
<1> QED BY <1>1, <1>2, <1>3 DEF Moves
\* The entries and keys that only go from screen to screen.
LEMMA ScreensKeep ==
  ASSUME MenusInv,
         \/ M!OpenMenu \/ M!NoServerList \/ M!NetworkIdOk \/ M!NetworkOk \/ M!NewProfileOk
         \/ M!Play \/ M!ViewReplay \/ M!ChooseGame \/ M!Back \/ M!ToGameMenu \/ M!NewProfile
         \/ M!NextState \/ M!EndText \/ M!StartChat \/ M!Title \/ M!TitleMenu \/ M!GameOver
         \/ M!ReceiveMaster
  PROVE  MenusInv'
<1>0. ui \in ScreenType
  BY DEF MenusInv
<1>s. ASSUME Moves(ui, ui'), M!Still PROVE MenusInv'
  BY <1>s, MovesKeep DEF M!Still
<1>1. CASE M!OpenMenu
  <2>1. PICK m \in M!Entries[ui.menu] : ui' = [M!Select(ui, m) EXCEPT !.text = @ \/ m \in M!Prompts]
    BY <1>1 DEF M!OpenMenu
  <2>2. ui.menu \in DOMAIN M!Entries
    BY <1>1 DEF M!OpenMenu
  <2>3. m \in Names /\ m # "MAIN_CLIENT" /\ (ui.menu \notin Outside => m \notin Outside)
    BY <2>2, EntryNames
  <2>4. m \notin Outside \/ ~Without(ui, Outside)
    BY <2>3 DEF Without
  <2>5. PICK w : w = M!Select(ui, m)
    OBVIOUS
  <2>6. w \in ScreenType /\ w.state = ui.state
    BY <1>0, <2>3, <2>5, SelectMenu
  <2>7. PICK b \in BOOLEAN : ui' = [w EXCEPT !.text = b]
    <3>1. ui' = [w EXCEPT !.text = (w.text \/ m \in M!Prompts)]
      BY <2>1, <2>5
    <3> QED BY <3>1
  <2>8. ui' \in ScreenType /\ ui'.menu = w.menu /\ ui'.stack = w.stack /\ ui'.old = w.old
        /\ ui'.state = w.state
    BY <2>6, <2>7 DEF ScreenType
  <2>9. Moves(ui, ui')
    BY <1>0, <2>3, <2>4, <2>5, <2>6, <2>8, SelectMoves
  <2> QED BY <1>1, <1>s, <2>9 DEF M!OpenMenu
<1>2. CASE M!NoServerList \/ M!EndText \/ M!StartChat
  <2>1. PICK b \in BOOLEAN : ui' = [ui EXCEPT !.text = b]
    BY <1>2 DEF M!NoServerList, M!EndText, M!StartChat
  <2>2. ui' \in ScreenType /\ ui'.menu = ui.menu /\ ui'.stack = ui.stack /\ ui'.old = ui.old
        /\ ui'.state = ui.state
    BY <1>0, <2>1 DEF ScreenType
  <2>3. Moves(ui, ui')
    BY <1>0, <2>2, StateMoves
  <2> QED BY <1>2, <1>s, <2>3 DEF M!NoServerList, M!EndText, M!StartChat
<1>3. CASE M!NetworkIdOk
  <2>1. ui' = [M!Select(ui, "PLAY_ONLINE") EXCEPT !.text = FALSE] /\ ui.menu = "NETWORK_ID"
    BY <1>3 DEF M!NetworkIdOk, M!At
  <2>2. ~Without(ui, Outside)
    BY <2>1 DEF Without, Outside
  <2>3. PICK w : w = M!Select(ui, "PLAY_ONLINE")
    OBVIOUS
  <2>4. "PLAY_ONLINE" \in Names
    BY DEF Names, Outside
  <2>5. w \in ScreenType /\ w.state = ui.state
    BY <1>0, <2>3, <2>4, SelectMenu
  <2>6. ui' \in ScreenType /\ ui'.menu = w.menu /\ ui'.stack = w.stack /\ ui'.old = w.old
        /\ ui'.state = w.state
    BY <2>1, <2>3, <2>5 DEF ScreenType
  <2>7. Moves(ui, ui')
    BY <1>0, <2>2, <2>3, <2>4, <2>5, <2>6, SelectMoves
  <2> QED BY <1>3, <1>s, <2>7 DEF M!NetworkIdOk
<1>4. CASE M!NetworkOk
  <2>1. ui' = [M!Previous(ui) EXCEPT !.text = FALSE]
    BY <1>4 DEF M!NetworkOk
  <2>2. PICK w : w = M!Previous(ui)
    OBVIOUS
  <2>3. /\ w \in ScreenType /\ BottomOf(w) = BottomOf(ui) /\ w.state = ui.state /\ w.old = ui.old
        /\ \A s : Without(ui, s) => Without(w, s)
    BY <1>0, <2>2, PreviousMenu
  <2>4. ui' \in ScreenType /\ ui'.menu = w.menu /\ ui'.stack = w.stack /\ ui'.old = w.old
        /\ ui'.state = w.state
    BY <2>1, <2>2, <2>3 DEF ScreenType
  <2>5. BottomOf(ui') = BottomOf(w) /\ \A s : Without(w, s) => Without(ui', s)
    BY <2>3, <2>4, SameMenus
  <2>6. Moves(ui, ui')
    BY <2>3, <2>4, <2>5 DEF Moves
  <2> QED BY <1>4, <1>s, <2>6 DEF M!NetworkOk
<1>5. CASE M!NewProfileOk
  <2>1. ui' = [M!Previous(ui) EXCEPT !.text = FALSE, !.state = "PLAYER_SETUP"] /\ ui.state = "MENU"
    BY <1>5 DEF M!NewProfileOk, M!At, M!In
  <2>2. PICK w : w = M!Previous(ui)
    OBVIOUS
  <2>3. /\ w \in ScreenType /\ BottomOf(w) = BottomOf(ui) /\ w.state = ui.state /\ w.old = ui.old
        /\ \A s : Without(ui, s) => Without(w, s)
    BY <1>0, <2>2, PreviousMenu
  <2>4. ui' \in ScreenType /\ ui'.menu = w.menu /\ ui'.stack = w.stack /\ ui'.old = w.old
        /\ ui'.state = "PLAYER_SETUP"
    BY <2>1, <2>2, <2>3 DEF ScreenType, Screens
  <2>5. BottomOf(ui') = BottomOf(w) /\ \A s : Without(w, s) => Without(ui', s)
    BY <2>3, <2>4, SameMenus
  <2>6. Moves(ui, ui')
    BY <2>1, <2>3, <2>4, <2>5 DEF Moves, M!Playing, Titles
  <2> QED BY <1>5, <1>s, <2>6 DEF M!NewProfileOk
<1>6. CASE M!Play \/ M!ChooseGame \/ M!TitleMenu \/ M!GameOver
  <2>1. PICK x \in {"PLAYER_SETUP", "LEVEL_SETUP", "MENU", "GAME_OVER"} :
          /\ ui' = [ui EXCEPT !.state = x]
          /\ \/ x \in {"PLAYER_SETUP", "LEVEL_SETUP"} /\ ui.state = "MENU"
             \/ x = "MENU" /\ ui.state = "T_TITLE_MENU"
             \/ x = "GAME_OVER" /\ ui.state = "GAME"
    BY <1>6 DEF M!Play, M!ChooseGame, M!TitleMenu, M!GameOver, M!In
  <2>2. ui' \in ScreenType /\ ui'.menu = ui.menu /\ ui'.stack = ui.stack /\ ui'.old = ui.old
        /\ ui'.state = x
    BY <1>0, <2>1 DEF ScreenType, Screens
  <2>3. Moves(ui, ui')
    BY <1>0, <2>1, <2>2, StateMoves DEF Titles
  <2> QED BY <1>6, <1>s, <2>3 DEF M!Play, M!ChooseGame, M!TitleMenu, M!GameOver
<1>7. CASE M!ViewReplay \/ M!Title
  <2>1. PICK x \in {"REPLAY", "T_TITLE_MENU"} :
          /\ ui' = [ui EXCEPT !.state = x]
          /\ \/ x = "REPLAY" /\ ui.state = "MENU" /\ ui.menu = "MAIN"
             \/ ui.state = "TITLE"
    BY <1>7 DEF M!ViewReplay, M!Title, M!In, M!At
  <2>2. ui' \in ScreenType /\ ui'.menu = ui.menu /\ ui'.stack = ui.stack /\ ui'.old = ui.old
        /\ ui'.state = x
    BY <1>0, <2>1 DEF ScreenType, Screens
  <2>3. Moves(ui, ui')
    BY <1>0, <2>1, <2>2, StateMoves DEF Titles
  <2>4. /\ UNCHANGED <<link, thread, phase, told, flaw>> /\ (loaded' = loaded \/ loaded' = TRUE)
    BY <1>7 DEF M!ViewReplay, M!Title
  <2> QED BY <2>3, <2>4, MovesKeep
<1>8. CASE M!Back
  BY <1>0, <1>8, <1>s, BackMoves DEF M!Back
<1>9. CASE M!ToGameMenu
  <2>1. PICK m \in {"PLAY", "PLAY_SINGLE"} : ui' = [M!Select(ui, m) EXCEPT !.state = "MENU"]
    BY <1>9 DEF M!ToGameMenu
  <2>2. ui.state = "PLAYER_SETUP"
    BY <1>9 DEF M!ToGameMenu
  <2>3. PICK w : w = M!Select(ui, m)
    OBVIOUS
  <2>4. m \in Names /\ m # "MAIN_CLIENT" /\ m \notin Outside
    BY DEF Names, Outside
  <2>5. w \in ScreenType /\ w.state = ui.state
    BY <1>0, <2>3, <2>4, SelectMenu
  <2>6. ui' \in ScreenType /\ ui'.menu = w.menu /\ ui'.stack = w.stack /\ ui'.old = w.old
        /\ ui'.state = "MENU"
    BY <2>1, <2>3, <2>5 DEF ScreenType, Screens
  <2>7. Moves(ui, ui')
    BY <1>0, <2>2, <2>3, <2>4, <2>6, SelectMoves
  <2> QED BY <1>9, <1>s, <2>7 DEF M!ToGameMenu
<1>10. CASE M!NewProfile
  <2>1. ui' = [M!Select(ui, "NEW_PROFILE") EXCEPT !.text = TRUE, !.next = "MENU"]
    BY <1>10 DEF M!NewProfile
  <2>3. PICK w : w = M!Select(ui, "NEW_PROFILE")
    OBVIOUS
  <2>4. "NEW_PROFILE" \in Names /\ "NEW_PROFILE" \notin Outside
    BY DEF Names, Outside
  <2>5. w \in ScreenType /\ w.state = ui.state
    BY <1>0, <2>3, <2>4, SelectMenu
  <2>6. ui' \in ScreenType /\ ui'.menu = w.menu /\ ui'.stack = w.stack /\ ui'.old = w.old
        /\ ui'.state = ui.state
    BY <2>1, <2>3, <2>5 DEF ScreenType
  <2>7. Moves(ui, ui')
    BY <1>0, <2>3, <2>4, <2>6, SelectMoves
  <2> QED BY <1>10, <1>s, <2>7 DEF M!NewProfile
<1>11. CASE M!NextState
  <2>0. ui.next = "MENU"
    BY <1>0, <1>11 DEF M!NextState, ScreenType
  <2>1. CASE ui.state = "PLAYER_SETUP"
    <3>1. ui' = [ui EXCEPT !.state = "MENU", !.next = ""]
      BY <1>11, <2>0, <2>1 DEF M!NextState
    <3>2. ui' \in ScreenType /\ ui'.menu = ui.menu /\ ui'.stack = ui.stack /\ ui'.old = ui.old
          /\ ui'.state = "MENU"
      BY <1>0, <3>1 DEF ScreenType, Screens
    <3>3. Moves(ui, ui')
      BY <1>0, <2>1, <3>2, StateMoves
    <3> QED BY <1>11, <1>s, <3>3 DEF M!NextState
  <2>2. CASE ui.state # "PLAYER_SETUP"
    <3>1. ui' = [ui EXCEPT !.state = ui.state, !.next = ui.next]
      BY <1>11, <2>2 DEF M!NextState
    <3>2. ui' = ui
      BY <1>0, <3>1 DEF ScreenType
    <3> QED BY <1>11, <3>2 DEF M!NextState
  <2> QED BY <2>1, <2>2
<1>12. CASE M!ReceiveMaster
  <2>1. Moves(ui, ui)
    BY <1>0, StateMoves
  <2>2. UNCHANGED <<ui, link, thread, phase, told, loaded, flaw>>
    BY <1>12 DEF M!ReceiveMaster
  <2> QED BY <2>1, <2>2, MovesKeep
<1> QED BY <1>1, <1>2, <1>3, <1>4, <1>5, <1>6, <1>7, <1>8, <1>9, <1>10, <1>11, <1>12
\* A main menu, from which nothing leads back.
LEMMA OnlyMenu ==
  ASSUME NEW v \in ScreenType, NEW m, v.menu = m, v.stack = <<>>
  PROVE  BottomOf(v) = m /\ \A s : m \notin s => Without(v, s)
BY Empty DEF BottomOf, Without

LEMMA LaterMenus ==
  /\ Without(ui, Outside)' <=> Without(ui', Outside)
  /\ Without(ui, {"MAIN_CLIENT"})' <=> Without(ui', {"MAIN_CLIENT"})
  /\ BottomOf(ui)' = BottomOf(ui')
BY DEF Without, Outside, BottomOf

\* A client of a host's own or of another's server is made where there is none.
LEMMA HostKeeps == MenusInv /\ M!Host => MenusInv'
<1> SUFFICES ASSUME MenusInv, M!Host PROVE MenusInv'
  OBVIOUS
<1>0. ui \in ScreenType /\ Connected /\ Paused /\ InMemory /\ AtHome /\ Shown
  BY DEF MenusInv
<1>1. ui.state = "MENU" /\ ui.menu \in {"HOST_NAME", "PLAY_LAN"}
  BY DEF M!Host, M!At, M!In
<1>2. ~Without(ui, Outside)
  BY <1>1 DEF Without, Outside
<1>3. link = "no" /\ ("wrong home" \notin flaw => ~thread)
  BY <1>0, <1>2 DEF Connected
<1>4. PICK u \in ScreenType :
        /\ u = [ui EXCEPT !.text = FALSE]
        /\ u.menu = ui.menu /\ u.stack = ui.stack /\ u.old = ui.old /\ u.state = ui.state
  <2>1. PICK u : u = [ui EXCEPT !.text = FALSE]
    OBVIOUS
  <2>2. u \in ScreenType /\ u.menu = ui.menu /\ u.stack = ui.stack /\ u.old = ui.old
        /\ u.state = ui.state
    BY <1>0, <2>1 DEF ScreenType
  <2> QED BY <2>1, <2>2
<1>5. /\ \/ ui' = [u EXCEPT !.timer = FALSE] /\ UNCHANGED <<link, thread>>
         \/ ui' = u /\ link' = "no" /\ thread' = FALSE
         \/ ui' = M!AtMain(u, "MAIN_HOST") /\ link' = "host" /\ thread' = TRUE
      /\ told' = "OFF" /\ UNCHANGED <<master, phase, loaded, flaw>>
  BY <1>4 DEF M!Host
<1>6. CASE /\ ui' = [u EXCEPT !.timer = FALSE] \/ ui' = u
           /\ UNCHANGED link
           /\ thread' = thread \/ (thread' = FALSE /\ "wrong home" \in flaw)
  <2>1. ui' \in ScreenType /\ ui'.menu = ui.menu /\ ui'.stack = ui.stack /\ ui'.old = ui.old
        /\ ui'.state = ui.state
    BY <1>4, <1>6 DEF ScreenType
  <2>2. Moves(ui, ui')
    BY <1>0, <2>1, StateMoves
  <2> QED BY <1>3, <1>5, <1>6, <2>2, MovesKeep
<1>7. CASE ui' = M!AtMain(u, "MAIN_HOST") /\ link' = "host" /\ thread' = TRUE
  <2>1. "MAIN_HOST" \in Names /\ "MAIN_HOST" \notin Outside
    BY DEF Names, Outside
  <2>2. /\ ui' \in ScreenType /\ BottomOf(ui') = "MAIN_HOST" /\ ui'.old = ui.old
        /\ ui'.state = "MENU" /\ \A s : "MAIN_HOST" \notin s => Without(ui', s)
    <3>1. PICK w : w = M!AtMain(u, "MAIN_HOST")
      OBVIOUS
    <3>2. /\ w \in ScreenType /\ BottomOf(w) = "MAIN_HOST" /\ w.old = u.old
          /\ w.state = u.state /\ \A s : "MAIN_HOST" \notin s => Without(w, s)
      BY <2>1, <3>1, MainMenu
    <3>3. ui' = w
      BY <1>7, <3>1
    <3> QED BY <1>1, <1>4, <3>2, <3>3
  <2>3. Connected'
    <3>1. Without(ui, Outside)' /\ Without(ui, {"MAIN_CLIENT"})'
      BY <2>1, <2>2, LaterMenus
    <3> QED BY <1>7, <2>2, <3>1 DEF Connected, Titles
  <2>4. ui.old \notin M!Playing /\ ui.old \notin Titles
    BY <1>0, <1>1, <1>3 DEF Paused, M!Local
  <2>5. Paused'
    BY <1>5, <1>7, <2>2, <2>4 DEF Paused, M!Local, M!Playing
  <2>6. InMemory'
    BY <1>5, <2>2, <2>4 DEF InMemory, M!Playing
  <2>7. AtHome'
    BY <1>7, <2>2, LaterMenus DEF AtHome, M!Home
  <2>8. Shown'
    BY <1>7 DEF Shown, M!Local
  <2> QED BY <2>2, <2>3, <2>5, <2>6, <2>7, <2>8 DEF MenusInv
<1>8. thread \in BOOLEAN
  BY <1>0 DEF Connected
<1>9. CASE ui' = u /\ link' = "no" /\ thread' = FALSE
  BY <1>3, <1>6, <1>8, <1>9
<1>10. CASE ui' = [u EXCEPT !.timer = FALSE] /\ UNCHANGED <<link, thread>>
  BY <1>6, <1>10
<1> QED BY <1>5, <1>7, <1>9, <1>10

LEMMA JoinKeeps == MenusInv /\ M!Join => MenusInv'
<1> SUFFICES ASSUME MenusInv, M!Join PROVE MenusInv'
  OBVIOUS
<1>0. ui \in ScreenType /\ Connected /\ Paused /\ InMemory /\ AtHome /\ Shown
  BY DEF MenusInv
<1>1. ui.state = "MENU" /\ ui.menu \in {"HOST_IP", "PLAY_ONLINE_LIST"}
  BY DEF M!Join, M!At, M!In
<1>2. ~Without(ui, Outside)
  BY <1>1 DEF Without, Outside
<1>3. link = "no" /\ ("wrong home" \notin flaw => ~thread)
  BY <1>0, <1>2 DEF Connected
<1>4. PICK u \in ScreenType :
        /\ u = [ui EXCEPT !.text = IF ui.menu = "HOST_IP" THEN FALSE ELSE @]
        /\ u.menu = ui.menu /\ u.stack = ui.stack /\ u.old = ui.old /\ u.state = ui.state
  <2>1. PICK b \in BOOLEAN : b = IF ui.menu = "HOST_IP" THEN FALSE ELSE ui.text
    BY <1>0 DEF ScreenType
  <2>2. PICK u : u = [ui EXCEPT !.text = b]
    OBVIOUS
  <2>3. u \in ScreenType /\ u.menu = ui.menu /\ u.stack = ui.stack /\ u.old = ui.old
        /\ u.state = ui.state
    BY <1>0, <2>2 DEF ScreenType
  <2> QED BY <2>1, <2>2, <2>3
<1>5. /\ \/ ui' = u /\ link' = link
         \/ ui' = [M!AtMain(u, "MAIN_CLIENT") EXCEPT !.text = FALSE] /\ link' = "join"
      /\ told' = "OFF" /\ UNCHANGED <<thread, master, phase, loaded, flaw>>
  BY <1>4 DEF M!Join
<1>6. CASE ui' = u /\ link' = link
  <2>2. Moves(ui, ui')
    BY <1>0, <1>4, <1>6, StateMoves
  <2> QED BY <1>3, <1>5, <1>6, <2>2, MovesKeep
<1>7. CASE ui' = [M!AtMain(u, "MAIN_CLIENT") EXCEPT !.text = FALSE] /\ link' = "join"
  <2>1. "MAIN_CLIENT" \in Names /\ "MAIN_CLIENT" \notin Outside
    BY DEF Names, Outside
  <2>a. PICK w : w = M!AtMain(u, "MAIN_CLIENT")
    OBVIOUS
  <2>b. /\ w \in ScreenType /\ w.menu = "MAIN_CLIENT" /\ w.stack = <<>> /\ w.old = u.old
        /\ w.state = u.state
    BY <2>1, <2>a, MainMenu
  <2>c. ui' \in ScreenType /\ ui'.menu = "MAIN_CLIENT" /\ ui'.stack = <<>> /\ ui'.old = ui.old
        /\ ui'.state = "MENU"
    BY <1>1, <1>4, <1>7, <2>a, <2>b DEF ScreenType
  <2>2. BottomOf(ui') = "MAIN_CLIENT" /\ \A s : "MAIN_CLIENT" \notin s => Without(ui', s)
    BY <2>c, OnlyMenu
  <2>3. Connected'
    <3>1. Without(ui, Outside)'
      BY <2>1, <2>2, LaterMenus
    <3> QED BY <1>0, <1>3, <1>5, <1>7, <2>c, <3>1 DEF Connected, Titles
  <2>4. ui.old \notin M!Playing /\ ui.old \notin Titles
    BY <1>0, <1>1, <1>3 DEF Paused, M!Local
  <2>5. Paused'
    BY <1>5, <1>7, <2>c, <2>4 DEF Paused, M!Local, M!Playing
  <2>6. InMemory'
    BY <1>5, <2>c, <2>4 DEF InMemory, M!Playing
  <2>7. AtHome'
    BY <1>3, <1>5, <1>7, <2>2, LaterMenus DEF AtHome, M!Home
  <2>8. Shown'
    BY <1>7 DEF Shown, M!Local
  <2> QED BY <2>c, <2>3, <2>5, <2>6, <2>7, <2>8 DEF MenusInv
<1> QED BY <1>5, <1>6, <1>7

\* Who is without a client again is at the main menu, with nothing paused.
LEMMA HomeKeeps ==
  ASSUME MenusInv, ui' \in ScreenType, ui'.menu = "MAIN", ui'.stack = <<>>,
         ui'.state = "MENU", ui'.old \notin M!Playing \cup Titles, link' = "no",
         flaw' = flaw \/ "wrong home" \in flaw' \/ "wrong home" \notin flaw,
         phase' = "OFF" \/ "never off" \in flaw',
         "wrong home" \in flaw' \/ ~thread', thread' \in BOOLEAN
  PROVE  MenusInv'
<1>1. BottomOf(ui') = "MAIN" /\ Without(ui', {"MAIN_CLIENT"})
  BY OnlyMenu
<1>2. Connected'
  <2>1. Without(ui, {"MAIN_CLIENT"})'
    BY <1>1, LaterMenus
  <2> QED BY <2>1 DEF Connected
<1>3. Paused'
  BY DEF Paused, M!Local
<1>4. InMemory'
  BY DEF InMemory, M!Playing
<1>5. AtHome'
  BY <1>1, LaterMenus DEF AtHome, M!Home
<1>6. Shown'
  BY DEF Shown, M!Playing
<1> QED BY <1>2, <1>3, <1>4, <1>5, <1>6 DEF MenusInv

LEMMA LeaveKeeps == MenusInv /\ M!Leave => MenusInv'
<1> SUFFICES ASSUME MenusInv, M!Leave PROVE MenusInv'
  OBVIOUS
<1>0. ui \in ScreenType /\ Connected
  BY DEF MenusInv
<1>1. ui.state = "MENU" /\ ui.menu \in {"MAIN_HOST", "MAIN_CLIENT"}
  BY DEF M!Leave, M!At, M!In
<1>2. PICK w : w = M!AtMain(ui, "MAIN")
  OBVIOUS
<1>3. "MAIN" \in Names
  BY DEF Names, Outside
<1>4. w \in ScreenType /\ w.menu = "MAIN" /\ w.stack = <<>> /\ w.state = "MENU"
  BY <1>0, <1>1, <1>2, <1>3, MainMenu
<1>5. ui' = [w EXCEPT !.old = ""]
  BY <1>2 DEF M!Leave
<1>6. ui' \in ScreenType /\ ui'.menu = "MAIN" /\ ui'.stack = <<>> /\ ui'.state = "MENU"
      /\ ui'.old = ""
  BY <1>4, <1>5 DEF ScreenType, Screens
<1>7. ui'.old \notin M!Playing \cup Titles
  BY <1>6 DEF M!Playing, Titles
<1>8. /\ link' = "no" /\ thread' = (thread /\ ui.menu = "MAIN_CLIENT")
      /\ flaw' = flaw \cup (IF phase # "OFF" THEN {"never off"} ELSE {}) /\ phase' = phase
  BY DEF M!Leave
<1>9. phase' = "OFF" \/ "never off" \in flaw'
  BY <1>8
<1>10. "wrong home" \in flaw' \/ ~thread'
  <2>1. ui.menu = "MAIN_CLIENT" => ~Without(ui, {"MAIN_CLIENT"})
    BY DEF Without
  <2>2. "wrong home" \in flaw => "wrong home" \in flaw'
    BY <1>8
  <2> QED BY <1>0, <1>8, <2>1, <2>2 DEF Connected
<1>11. thread' \in BOOLEAN
  BY <1>0, <1>8 DEF Connected
<1> QED BY <1>6, <1>7, <1>8, <1>9, <1>10, <1>11, HomeKeeps

LEMMA LossKeeps == MenusInv /\ (M!ReceiveLoss \/ M!ReceiveCheckFail) => MenusInv'
<1> SUFFICES ASSUME MenusInv, M!ReceiveLoss \/ M!ReceiveCheckFail PROVE MenusInv'
  OBVIOUS
<1>0. ui \in ScreenType /\ Connected /\ Paused
  BY DEF MenusInv
<1>1. link = "join" /\ thread' = thread /\ link' = "no" /\ thread' \in BOOLEAN
  BY <1>0 DEF Connected, M!ReceiveLoss, M!ReceiveCheckFail
<1>2. PICK w : w = M!AtMain(ui, "MAIN")
  OBVIOUS
<1>3. "MAIN" \in Names
  BY DEF Names, Outside
<1>4. w \in ScreenType /\ w.menu = "MAIN" /\ w.stack = <<>> /\ w.state = ui.state /\ w.old = ui.old
  BY <1>0, <1>2, <1>3, MainMenu
<1>5. CASE M!ReceiveLoss
  <2>1. ui' = [[w EXCEPT !.state = "MENU"] EXCEPT !.old = ""]
    BY <1>2, <1>5 DEF M!ReceiveLoss, M!MenuMain
  <2>2. ui' \in ScreenType /\ ui'.menu = "MAIN" /\ ui'.stack = <<>> /\ ui'.state = "MENU"
        /\ ui'.old = ""
    BY <1>4, <2>1 DEF ScreenType, Screens
  <2>3. ui'.old \notin M!Playing \cup Titles
    BY <2>2 DEF M!Playing, Titles
  <2>4. phase' = "OFF" /\ flaw' = flaw \cap {"wrong home"}
    BY <1>5 DEF M!ReceiveLoss, M!LostPhase
  <2>5. "wrong home" \in flaw' \/ ~thread'
    BY <1>0, <1>1, <2>4 DEF Connected
  <2>6. "wrong home" \in flaw' \/ "wrong home" \notin flaw
    BY <2>4
  <2> QED BY <1>1, <2>2, <2>3, <2>4, <2>5, <2>6, HomeKeeps
<1>6. CASE M!ReceiveCheckFail
  <2>1. ui' = w /\ phase = "OFF" /\ phase' = "OFF" /\ flaw' = flaw /\ ui.state = "MENU"
    BY <1>2, <1>6 DEF M!ReceiveCheckFail, M!At, M!In
  <2>2. ui.old \notin M!Playing \cup Titles
    BY <1>0, <1>1, <2>1 DEF Paused, M!Local
  <2>3. "wrong home" \in flaw' \/ ~thread'
    BY <1>0, <1>1, <2>1 DEF Connected
  <2> QED BY <1>1, <1>4, <2>1, <2>2, <2>3, HomeKeeps
<1> QED BY <1>5, <1>6
\* The menus stay as they are while the state of the game changes.
LEMMA GameKeeps ==
  ASSUME MenusInv, ui' \in ScreenType, BottomOf(ui') = BottomOf(ui) \/ "no way back" \in flaw',
         link # "no" => Without(ui', Outside) /\ ui'.state \notin Titles,
         Without(ui, {"MAIN_CLIENT"}) => Without(ui', {"MAIN_CLIENT"}),
         UNCHANGED <<link, thread>>,
         \A f \in {"wrong home", "no way back"} : f \in flaw => f \in flaw',
         Paused', InMemory', Shown'
  PROVE  MenusInv'
<1>1. Connected'
  <2>1. Connected
    BY DEF MenusInv
  <2>2. link' \in {"no", "host", "join"} /\ thread' \in BOOLEAN
    BY <2>1 DEF Connected
  <2>3. link' # "no" => Without(ui, Outside)' /\ ui'.state \notin Titles
    BY LaterMenus
  <2>4. "wrong home" \notin flaw' =>
          (thread' <=> link' = "host") /\ (thread' => Without(ui, {"MAIN_CLIENT"})')
    BY <2>1, LaterMenus DEF Connected
  <2> QED BY <2>2, <2>3, <2>4 DEF Connected
<1>2. AtHome'
  <2>1. CASE flaw' \cap {"no way back", "wrong home"} # {}
    BY <2>1 DEF AtHome
  <2>2. CASE flaw' \cap {"no way back", "wrong home"} = {}
    <3>1. flaw \cap {"no way back", "wrong home"} = {}
      BY <2>2
    <3>2. BottomOf(ui) = M!Home(link, thread) /\ BottomOf(ui') = BottomOf(ui)
      BY <2>2, <3>1 DEF MenusInv, AtHome
    <3> QED BY <3>2, LaterMenus DEF AtHome, M!Home
  <2> QED BY <2>1, <2>2
<1> QED BY <1>1, <1>2 DEF MenusInv

\* A game starts, or its level cannot be loaded.
LEMMA StartKeeps ==
  ASSUME MenusInv, M!Becomes("PLAYING"), M!Start, UNCHANGED <<link, thread, master>>,
         ui.state \in M!Playing => "not there" \in flaw
  PROVE  MenusInv'
<1>0. ui \in ScreenType /\ Connected /\ Paused
  BY DEF MenusInv
<1>1. phase' = "PLAYING" /\ (link # "no" => told' = "PLAYING")
  BY DEF M!Becomes, M!Local
<1>2. CASE /\ ui' = [ui EXCEPT !.state = "GAME", !.old = ""]
           /\ loaded' = TRUE /\ flaw' = flaw \ {"never off", "not there"}
  <2>1. ui' \in ScreenType /\ ui'.menu = ui.menu /\ ui'.stack = ui.stack /\ ui'.old = ""
        /\ ui'.state = "GAME"
    BY <1>0, <1>2 DEF ScreenType, Screens
  <2>2. BottomOf(ui') = BottomOf(ui) /\ \A s : Without(ui, s) => Without(ui', s)
    BY <1>0, <2>1, SameMenus
  <2>3. Paused'
    BY <1>1, <2>1 DEF Paused, M!Local, M!Playing, Titles
  <2>4. InMemory'
    BY <1>2 DEF InMemory
  <2>5. Shown'
    BY <1>1, <2>1 DEF Shown, M!Playing
  <2>6. link # "no" => Without(ui', Outside) /\ ui'.state \notin Titles
    BY <1>0, <2>1, <2>2 DEF Connected, Titles
  <2>7. \A f \in {"wrong home", "no way back"} : f \in flaw => f \in flaw'
    BY <1>2
  <2> QED BY <2>1, <2>2, <2>3, <2>4, <2>5, <2>6, <2>7, GameKeeps
<1>3. CASE /\ ui' = [ui EXCEPT !.old = ""]
           /\ loaded' = FALSE /\ flaw' = flaw \cup {"never off"}
  <2>1. ui' \in ScreenType /\ ui'.menu = ui.menu /\ ui'.stack = ui.stack /\ ui'.old = ""
        /\ ui'.state = ui.state
    BY <1>0, <1>3 DEF ScreenType, Screens
  <2>2. BottomOf(ui') = BottomOf(ui) /\ \A s : Without(ui, s) => Without(ui', s)
    BY <1>0, <2>1, SameMenus
  <2>3. Paused'
    BY <1>1, <1>3, <2>1 DEF Paused, M!Local, M!Playing, Titles
  <2>4. InMemory'
    BY <1>3, <2>1 DEF InMemory, M!Playing
  <2>5. Shown'
    BY <1>3 DEF Shown
  <2>6. link # "no" => Without(ui', Outside) /\ ui'.state \notin Titles
    BY <1>0, <2>1, <2>2 DEF Connected
  <2>7. \A f \in {"wrong home", "no way back"} : f \in flaw => f \in flaw'
    BY <1>3
  <2> QED BY <2>1, <2>2, <2>3, <2>4, <2>5, <2>6, <2>7, GameKeeps
<1> QED BY <1>2, <1>3 DEF M!Start

LEMMA StartGameKeeps == MenusInv /\ M!StartGame => MenusInv'
<1> SUFFICES ASSUME MenusInv, M!StartGame PROVE MenusInv'
  OBVIOUS
<1>1. ui.state \in M!Playing => "not there" \in flaw
  <2>1. CASE link = "no"
    BY <2>1 DEF M!StartGame, M!Local, M!Playing
  <2>2. CASE link # "no"
    BY <2>2 DEF M!StartGame, M!Current, M!Local, MenusInv, Paused
  <2> QED BY <2>1, <2>2
<1> QED BY <1>1, StartKeeps DEF M!StartGame

LEMMA PauseKeeps == MenusInv /\ M!PauseGame => MenusInv'
<1> SUFFICES ASSUME MenusInv, M!PauseGame PROVE MenusInv'
  OBVIOUS
<1>0. ui \in ScreenType /\ Connected /\ Paused /\ InMemory /\ Shown
  BY DEF MenusInv
<1>1. /\ link = "no" => ui.state \in M!Playing
      /\ phase' = "PAUSED" /\ (link # "no" => told' = "PAUSED")
      /\ UNCHANGED <<link, thread, loaded>>
      /\ flaw' = flaw \cup (IF M!InCharge /\ ui.stack = <<>> THEN {"no way back"} ELSE {})
  BY DEF M!PauseGame, M!Becomes, M!Local
<1>2. PICK u : u = [ui EXCEPT !.old = ui.state, !.state = "GAME_PAUSED"]
  OBVIOUS
<1>3. u \in ScreenType /\ u.menu = ui.menu /\ u.stack = ui.stack /\ u.old = ui.state
      /\ u.state = "GAME_PAUSED"
  BY <1>0, <1>2 DEF ScreenType, Screens
<1>4. PICK m \in {"PAUSE", "GAME_OVER", ui.menu} :
         /\ ui' = [u EXCEPT !.menu = m]
         /\ M!InCharge \/ m = ui.menu
  <2>1. ui' = IF M!InCharge
              THEN [u EXCEPT !.menu = IF u.old = "GAME" THEN "PAUSE" ELSE "GAME_OVER"] ELSE u
    BY <1>2 DEF M!PauseGame, M!PauseMenu
  <2>2. u = [u EXCEPT !.menu = ui.menu]
    BY <1>3 DEF ScreenType
  <2> QED BY <2>1, <2>2
<1>5. m \in Names
  BY <1>0 DEF ScreenType, Names
<1>6. ui' \in ScreenType /\ ui'.menu = m /\ ui'.stack = ui.stack /\ ui'.old = ui.state
      /\ ui'.state = "GAME_PAUSED"
  BY <1>3, <1>4, <1>5 DEF ScreenType
<1>7. \A s : Without(ui, s) /\ {"PAUSE", "GAME_OVER"} \cap s = {} => Without(ui', s)
  BY <1>6 DEF Without
<1>8. BottomOf(ui') = BottomOf(ui) \/ "no way back" \in flaw'
  <2>1. CASE m = ui.menu
    BY <1>6, <2>1 DEF BottomOf
  <2>2. CASE m # ui.menu
    <3>1. CASE ui.stack = <<>>
      BY <1>1, <1>4, <2>2, <3>1
    <3>2. CASE ui.stack # <<>>
      BY <1>6, <3>2 DEF BottomOf
    <3> QED BY <3>1, <3>2
  <2> QED BY <2>1, <2>2
<1>9. link # "no" => Without(ui', Outside) /\ ui'.state \notin Titles
  <2>1. {"PAUSE", "GAME_OVER"} \cap Outside = {}
    BY DEF Outside
  <2> QED BY <1>0, <1>6, <1>7, <2>1 DEF Connected, Titles
<1>10. Without(ui, {"MAIN_CLIENT"}) => Without(ui', {"MAIN_CLIENT"})
  BY <1>7
<1>11. \A f \in {"wrong home", "no way back"} : f \in flaw => f \in flaw'
  BY <1>1
<1>12. Paused'
  <2>1. ui'.old \notin Titles
    BY <1>0, <1>1, <1>6 DEF Connected, Titles, M!Playing
  <2>2. link = "no" => ui'.old \in M!Playing
    BY <1>1, <1>6
  <2> QED BY <1>1, <1>6, <2>1, <2>2 DEF Paused, M!Local
<1>13. InMemory'
  <2>1. "not there" \in flaw => "not there" \in flaw'
    BY <1>1
  <2> QED BY <1>0, <1>1, <1>6, <2>1 DEF InMemory, M!Playing
<1>14. Shown'
  BY <1>1, <1>6 DEF Shown, M!Playing
<1> QED BY <1>1, <1>6, <1>8, <1>9, <1>10, <1>11, <1>12, <1>13, <1>14, GameKeeps

LEMMA ResumeKeeps == MenusInv /\ M!ResumeGame => MenusInv'
<1> SUFFICES ASSUME MenusInv, M!ResumeGame PROVE MenusInv'
  OBVIOUS
<1>0. ui \in ScreenType /\ Connected /\ Paused /\ InMemory /\ Shown
  BY DEF MenusInv
<1>1. /\ link = "no" => ui.state = "GAME_PAUSED"
      /\ phase' = "PLAYING" /\ (link # "no" => told' = "PLAYING")
      /\ UNCHANGED <<link, thread, loaded, flaw>>
      /\ ui' = [ui EXCEPT !.state = ui.old, !.old = ""]
  BY DEF M!ResumeGame, M!Becomes, M!Local
<1>2. ui' \in ScreenType /\ ui'.menu = ui.menu /\ ui'.stack = ui.stack /\ ui'.old = ""
      /\ ui'.state = ui.old
  BY <1>0, <1>1 DEF ScreenType, Screens
<1>3. BottomOf(ui') = BottomOf(ui) /\ \A s : Without(ui, s) => Without(ui', s)
  BY <1>0, <1>2, SameMenus
<1>4. link = "no" /\ "never off" \notin flaw => ui'.state \in M!Playing
  BY <1>0, <1>1, <1>2 DEF Paused, M!Local
<1>5. ui'.state \notin Titles
  BY <1>0, <1>2 DEF Paused
<1>6. Paused'
  BY <1>1, <1>2, <1>4 DEF Paused, M!Local, M!Playing, Titles
<1>7. InMemory'
  BY <1>0, <1>1, <1>2 DEF InMemory, M!Playing
<1>8. Shown'
  BY <1>1, <1>4 DEF Shown, M!Local, M!Playing
<1>9. link # "no" => Without(ui', Outside)
  BY <1>0, <1>3 DEF Connected
<1> QED BY <1>1, <1>2, <1>3, <1>5, <1>6, <1>7, <1>8, <1>9, GameKeeps

\* Back at the menu of the client there is.
LEMMA MainKeeps ==
  ASSUME MenusInv, NEW m \in {"MAIN", "MAIN_HOST", "MAIN_CLIENT"}, ui' \in ScreenType,
         ui'.menu = m, ui'.stack = <<>>, ui'.state = "MENU", UNCHANGED <<link, thread>>,
         m = M!Home(link, thread) \/ (m = "MAIN_CLIENT" /\ link # "no"
                                      /\ (thread => "wrong home" \in flaw')),
         "wrong home" \in flaw => "wrong home" \in flaw',
         Paused', InMemory', Shown'
  PROVE  MenusInv'
<1>0. Connected
  BY DEF MenusInv
<1>1. BottomOf(ui') = m /\ \A s : m \notin s => Without(ui', s)
  BY OnlyMenu
<1>2. link # "no" => m \notin Outside
  BY DEF M!Home, Outside
<1>3. thread /\ "wrong home" \notin flaw' => m = "MAIN_HOST"
  BY DEF M!Home
<1>4. Connected'
  <2>1. link' \in {"no", "host", "join"} /\ thread' \in BOOLEAN
    BY <1>0 DEF Connected
  <2>2. link' # "no" => Without(ui, Outside)' /\ ui'.state \notin Titles
    BY <1>1, <1>2, LaterMenus DEF Titles
  <2>3. thread' /\ "wrong home" \notin flaw' => Without(ui, {"MAIN_CLIENT"})'
    BY <1>1, <1>3, LaterMenus
  <2>4. "wrong home" \notin flaw' => (thread' <=> link' = "host")
    BY <1>0 DEF Connected
  <2> QED BY <2>1, <2>2, <2>3, <2>4 DEF Connected
<1>5. AtHome'
  <2>1. "wrong home" \notin flaw' => m = M!Home(link, thread)
    BY <1>0 DEF M!Home, Connected
  <2> QED BY <1>1, <2>1, LaterMenus DEF AtHome, M!Home
<1> QED BY <1>4, <1>5 DEF MenusInv

LEMMA RemoveKeeps == MenusInv /\ M!ReceiveRemove => MenusInv'
<1> SUFFICES ASSUME MenusInv, M!ReceiveRemove PROVE MenusInv'
  OBVIOUS
<1>0. ui \in ScreenType /\ Connected /\ Paused /\ InMemory /\ Shown
  BY DEF MenusInv
<1>1. /\ link # "no" /\ UNCHANGED <<link, thread, phase, told, loaded>>
      /\ flaw' = flaw \ {"no way back"}
  BY DEF M!ReceiveRemove, M!Local
<1>2. PICK m \in {"MAIN", "MAIN_HOST", "MAIN_CLIENT"} : m = M!Home(link, thread)
  BY DEF M!Home
<1>3. m \in Names
  BY DEF Names, Outside
<1>4. PICK w : w = M!AtMain(ui, m)
  OBVIOUS
<1>5. w \in ScreenType /\ w.menu = m /\ w.stack = <<>> /\ w.old = ui.old
  BY <1>0, <1>3, <1>4, MainMenu
<1>6. ui' = [w EXCEPT !.state = "MENU"]
  BY <1>2, <1>4 DEF M!ReceiveRemove, M!MenuMain
<1>7. ui' \in ScreenType /\ ui'.menu = m /\ ui'.stack = <<>> /\ ui'.old = ui.old
      /\ ui'.state = "MENU"
  BY <1>5, <1>6 DEF ScreenType, Screens
<1>8. Paused'
  BY <1>0, <1>1, <1>7 DEF Paused, M!Local, M!Playing
<1>9. InMemory'
  BY <1>0, <1>1, <1>7 DEF InMemory, M!Playing
<1>10. Shown'
  BY <1>1 DEF Shown, M!Local
<1> QED BY <1>1, <1>2, <1>7, <1>8, <1>9, <1>10, MainKeeps

\* A game that ends leads to the main menu, to the players, or leaves the screen as it is.
LEMMA EndKeeps ==
  ASSUME MenusInv, NEW o \in M!EndOptions, M!Becomes("OFF"), UNCHANGED <<link, thread>>,
         ui' = M!Ended(o), loaded' = FALSE,
         flaw' = {f \in flaw \cup M!Left(o) : f \notin M!Mended(o)},
         M!Local => o \in {"QUIT", "NEW"}
  PROVE  MenusInv'
<1>0. ui \in ScreenType /\ Connected /\ Paused /\ InMemory /\ Shown
  BY DEF MenusInv
<1>1. phase' = "OFF" /\ (link # "no" => told' = "OFF")
  BY DEF M!Becomes, M!Local
<1>2. PICK u : u = [ui EXCEPT !.old = ""]
  OBVIOUS
<1>3. u \in ScreenType /\ u.menu = ui.menu /\ u.stack = ui.stack /\ u.old = ""
      /\ u.state = ui.state
  BY <1>0, <1>2 DEF ScreenType, Screens
<1>4. CASE o = "QUIT"
  <2>1. M!Ended(o) = M!MenuMain(u, M!EndMenu)
    BY <1>2, <1>4 DEF M!Ended
  <2>2. PICK m \in {"MAIN", "MAIN_HOST", "MAIN_CLIENT"} : m = M!EndMenu
    BY DEF M!EndMenu, M!Home
  <2>3. m \in Names
    BY DEF Names, Outside
  <2>4. PICK w : w = M!AtMain(u, m)
    OBVIOUS
  <2>5. w \in ScreenType /\ w.menu = m /\ w.stack = <<>> /\ w.old = ""
    BY <1>3, <2>3, <2>4, MainMenu, ZenonT(40)
  <2>6. ui' = [w EXCEPT !.state = "MENU"]
    BY <2>1, <2>2, <2>4 DEF M!MenuMain
  <2>7. ui' \in ScreenType /\ ui'.menu = m /\ ui'.stack = <<>> /\ ui'.old = ""
        /\ ui'.state = "MENU"
    BY <2>5, <2>6 DEF ScreenType, Screens
  <2>8. m = M!Home(link, thread) \/ (m = "MAIN_CLIENT" /\ link # "no"
                                     /\ (thread => "wrong home" \in flaw'))
    <3>1. CASE M!InCharge
      BY <2>2, <3>1 DEF M!EndMenu
    <3>2. CASE ~M!InCharge
      <4>1. m = "MAIN_CLIENT" /\ link # "no"
        BY <2>2, <3>2 DEF M!EndMenu, M!InCharge, M!Local
      <4>2. thread => "wrong home" \in M!Left(o)
        BY <1>4, <3>2 DEF M!Left
      <4>3. "wrong home" \notin M!Mended(o)
        BY DEF M!Mended
      <4> QED BY <4>1, <4>2, <4>3
    <3> QED BY <3>1, <3>2
  <2>9. "wrong home" \in flaw => "wrong home" \in flaw'
    BY DEF M!Mended
  <2>10. Paused'
    BY <1>1, <2>7 DEF Paused, M!Local, M!Playing, Titles
  <2>11. InMemory'
    BY <2>7 DEF InMemory, M!Playing
  <2>12. Shown'
    BY <1>1, <2>7 DEF Shown, M!Local, M!Playing
  <2> QED BY <2>2, <2>7, <2>8, <2>9, <2>10, <2>11, <2>12, MainKeeps
<1>5. CASE o # "QUIT"
  <2>1. PICK s \in {"PLAYER_SETUP", ui.state} :
           ui' = [u EXCEPT !.state = s] /\ (s # "PLAYER_SETUP" => o # "NEW")
    <3>1. CASE o = "NEW"
      BY <1>2, <3>1 DEF M!Ended
    <3>2. CASE o # "NEW"
      <4>1. ui' = u
        BY <1>2, <1>5, <3>2 DEF M!Ended
      <4>2. u = [u EXCEPT !.state = ui.state]
        BY <1>3 DEF ScreenType
      <4> QED BY <3>2, <4>1, <4>2
    <3> QED BY <3>1, <3>2
  <2>2. s \in Screens
    BY <1>0 DEF ScreenType, Screens
  <2>3. ui' \in ScreenType /\ ui'.menu = ui.menu /\ ui'.stack = ui.stack /\ ui'.old = ""
        /\ ui'.state = s
    BY <1>3, <2>1, <2>2 DEF ScreenType, Screens
  <2>4. BottomOf(ui') = BottomOf(ui) /\ \A t : Without(ui, t) => Without(ui', t)
    BY <1>0, <2>3, SameMenus
  <2>5. ui'.state \in M!Playing => "not there" \in flaw'
    <3>1. M!Ended(o).state \in M!Playing => "not there" \in M!Left(o)
      BY DEF M!Left
    <3>2. "not there" \notin M!Mended(o)
      BY DEF M!Mended
    <3> QED BY <3>1, <3>2
  <2>6. link = "no" => s = "PLAYER_SETUP"
    BY <1>5, <2>1 DEF M!Local
  <2>7. \A f \in {"wrong home", "no way back"} : f \in flaw => f \in flaw'
    BY <1>5 DEF M!Mended
  <2>8. Paused'
    BY <1>1, <2>3, <2>5, <2>6 DEF Paused, M!Local, M!Playing, Titles
  <2>9. InMemory'
    BY <2>3, <2>5 DEF InMemory, M!Playing
  <2>10. Shown'
    BY <1>1, <2>3, <2>6 DEF Shown, M!Local, M!Playing
  <2>11. link # "no" => Without(ui', Outside) /\ ui'.state \notin Titles
    BY <1>0, <2>3, <2>4 DEF Connected, Titles
  <2> QED BY <2>3, <2>4, <2>7, <2>8, <2>9, <2>10, <2>11, GameKeeps
<1> QED BY <1>4, <1>5

LEMMA EndGameKeeps == MenusInv /\ M!EndGame => MenusInv'
<1> SUFFICES ASSUME MenusInv, M!EndGame PROVE MenusInv'
  OBVIOUS
<1>1. PICK o \in M!EndOptions :
         /\ M!Local => ui.state = "GAME_PAUSED"
         /\ IF M!Local /\ M!Again(o)
            THEN M!Becomes("PLAYING") /\ M!Start
            ELSE /\ M!Becomes("OFF") /\ ui' = M!Ended(o) /\ loaded' = FALSE
                 /\ flaw' = {f \in flaw \cup M!Left(o) : f \notin M!Mended(o)}
  BY DEF M!EndGame
<1>2. UNCHANGED <<link, thread, master>>
  BY DEF M!EndGame
<1>3. CASE M!Local /\ M!Again(o)
  <2>1. ui.state \notin M!Playing
    BY <1>1, <1>3 DEF M!Playing
  <2> QED BY <1>1, <1>2, <1>3, <2>1, StartKeeps
<1>4. CASE ~(M!Local /\ M!Again(o))
  <2>1. M!Local => o \in {"QUIT", "NEW"}
    BY <1>4 DEF M!Again, M!InCharge, M!EndOptions
  <2> QED BY <1>1, <1>2, <1>4, <2>1, EndKeeps
<1> QED BY <1>3, <1>4

\* A replay was loaded and is forgotten; no client was there.
LEMMA ReplayKeeps == MenusInv /\ M!ReplayEnds => MenusInv'
<1> SUFFICES ASSUME MenusInv, M!ReplayEnds PROVE MenusInv'
  OBVIOUS
<1>0. ui \in ScreenType /\ Connected /\ Paused /\ InMemory /\ Shown
  BY DEF MenusInv
<1>1. /\ ui.state = "REPLAY" /\ loaded' = FALSE
      /\ UNCHANGED <<link, thread, phase, told, flaw>>
  BY DEF M!ReplayEnds, M!In
<1>2. link = "no"
  BY <1>0, <1>1 DEF Connected, Titles
<1>3. ui.old \notin M!Playing /\ ui.old \notin Titles
  BY <1>0, <1>1, <1>2 DEF Paused, M!Local
<1>4. "never off" \notin flaw => phase \notin {"PLAYING", "PAUSED"}
  BY <1>0, <1>1, <1>2 DEF Shown, M!Local, M!Playing
<1>5. ASSUME ui' \in ScreenType, ui'.old = ui.old, ui'.state \in {"TITLE", "MENU"}
      PROVE  Paused' /\ InMemory' /\ Shown'
  <2>1. Paused'
    BY <1>2, <1>1, <1>3, <1>5 DEF Paused, M!Local, M!Playing
  <2>2. InMemory'
    BY <1>3, <1>5 DEF InMemory, M!Playing
  <2>3. Shown'
    BY <1>1, <1>4, <1>5 DEF Shown, M!Playing
  <2> QED BY <2>1, <2>2, <2>3
<1>6. CASE ui' \in {[ui EXCEPT !.state = "TITLE"], [ui EXCEPT !.state = "MENU"]}
  <2>1. ui' \in ScreenType /\ ui'.menu = ui.menu /\ ui'.stack = ui.stack /\ ui'.old = ui.old
        /\ ui'.state \in {"TITLE", "MENU"}
    BY <1>0, <1>6 DEF ScreenType, Screens
  <2>2. BottomOf(ui') = BottomOf(ui) /\ \A s : Without(ui, s) => Without(ui', s)
    BY <1>0, <2>1, SameMenus
  <2> QED BY <1>1, <1>2, <1>5, <2>1, <2>2, GameKeeps
<1>7. CASE ui' = M!MenuMain(ui, "MAIN")
  <2>1. PICK w : w = M!AtMain(ui, "MAIN")
    OBVIOUS
  <2>2. "MAIN" \in Names
    BY DEF Names, Outside
  <2>3. w \in ScreenType /\ w.menu = "MAIN" /\ w.stack = <<>> /\ w.old = ui.old
    BY <1>0, <2>1, <2>2, MainMenu
  <2>4. ui' = [w EXCEPT !.state = "MENU"]
    BY <1>7, <2>1 DEF M!MenuMain
  <2>5. ui' \in ScreenType /\ ui'.menu = "MAIN" /\ ui'.stack = <<>> /\ ui'.old = ui.old
        /\ ui'.state = "MENU"
    BY <2>3, <2>4 DEF ScreenType, Screens
  <2>6. "wrong home" \in flaw \/ "MAIN" = M!Home(link, thread)
    BY <1>0, <1>2 DEF Connected, M!Home
  <2>7. CASE "MAIN" = M!Home(link, thread)
    BY <1>1, <1>5, <2>5, <2>7, MainKeeps
  <2>8. CASE "wrong home" \in flaw
    <3>1. Connected'
      BY <1>0, <1>1, <1>2, <2>8 DEF Connected
    <3>2. AtHome'
      BY <1>1, <2>8 DEF AtHome
    <3> QED BY <1>5, <2>5, <3>1, <3>2 DEF MenusInv
  <2> QED BY <2>6, <2>7, <2>8
<1> QED BY <1>6, <1>7 DEF M!ReplayEnds

-----------------------------------------------------------------------------
LEMMA MenusInit == M!Init => MenusInv
<1> SUFFICES ASSUME M!Init PROVE MenusInv
  OBVIOUS
<1>1. PICK s \in Seq(Names) : s = <<>>
  BY Empty
<1>2. /\ ui = [state |-> "TITLE", menu |-> "MAIN", stack |-> s, old |-> "",
               text |-> FALSE, next |-> "", timer |-> TRUE]
      /\ link = "no" /\ thread = FALSE /\ phase = "OFF" /\ told = "OFF" /\ flaw = {}
  BY <1>1 DEF M!Init
<1>3. ui \in ScreenType
  BY <1>2 DEF ScreenType, Screens, Names, Outside
<1>4. ui.menu = "MAIN" /\ ui.stack = <<>> /\ ui.state = "TITLE" /\ ui.old = ""
  BY <1>1, <1>2
<1>5. Connected
  BY <1>2 DEF Connected
<1>6. Paused
  BY <1>2, <1>4 DEF Paused, Titles, M!Playing
<1>7. InMemory
  BY <1>4 DEF InMemory, M!Playing
<1>8. AtHome
  BY <1>2, <1>4 DEF AtHome, BottomOf, M!Home
<1>9. Shown
  BY <1>2, <1>4 DEF Shown, M!Playing
<1> QED BY <1>3, <1>5, <1>6, <1>7, <1>8, <1>9 DEF MenusInv

-----------------------------------------------------------------------------
(* Gui: the way round a menu.                                              *)

\* A set of numbers has a least one, a bounded one a greatest.
LEMMA LeastIn ==
  ASSUME NEW T \in SUBSET Nat, T # {}
  PROVE  \E p \in T : \A q \in T : p <= q
<1> DEFINE R == {pair \in Nat \X Nat : pair[1] < pair[2]}
<1>1. IsWellFoundedOn(R, Nat)
  BY NatLessThanWellFounded DEF OpToRel
<1>2. \A p, q \in T : ~(<<q, p>> \in R) => p <= q
  OBVIOUS
<1> HIDE DEF R
<1>3. \E p \in T : \A q \in T : ~(<<q, p>> \in R)
  BY <1>1, WFMin
<1> QED BY <1>2, <1>3

LEMMA LeastIs ==
  ASSUME NEW n \in Nat, NEW T \in SUBSET (1 .. n), T # {}
  PROVE  G!Min(T) \in T /\ \A q \in T : G!Min(T) <= q
<1>1. T \in SUBSET Nat
  OBVIOUS
<1>2. \E p \in T : \A q \in T : p <= q
  BY ONLY <1>1, T # {}, LeastIn
<1> QED BY <1>2 DEF G!Min

LEMMA GreatestIs ==
  ASSUME NEW n \in Nat, NEW T \in SUBSET (1 .. n), T # {}
  PROVE  G!Max(T) \in T /\ \A q \in T : G!Max(T) >= q
<1> DEFINE R == {k \in Nat : k <= n /\ n - k \in T}
<1>0. ASSUME NEW q \in T PROVE n - q \in R
  <2>1. q \in Nat /\ q <= n /\ n - q \in Nat /\ n - (n - q) = q
    OBVIOUS
  <2> QED BY <2>1
<1>1. R \in SUBSET Nat /\ R # {}
  BY <1>0
<1>2. PICK k \in R : \A q \in R : k <= q
  <2> HIDE DEF R
  <2> QED BY ONLY <1>1, LeastIn
<1>3. PICK g \in T : g = n - k
  OBVIOUS
<1>4. ASSUME NEW q \in T PROVE g >= q
  <2>1. k <= n - q /\ k \in Nat
    BY <1>0, <1>2
  <2> QED BY <1>3, <2>1
<1>5. \E h \in T : \A q \in T : h >= q
  BY <1>4
<1> QED BY <1>5 DEF G!Max

\* A set of numbers with 0, and with n + 1 for each n in it, has them all.
LEMMA SetInduction ==
  ASSUME NEW T, 0 \in T, \A n \in Nat : n \in T => n + 1 \in T
  PROVE  Nat \subseteq T
<1> SUFFICES ASSUME ~ (Nat \subseteq T) PROVE FALSE
  OBVIOUS
<1> DEFINE R == Nat \ T
<1>1. PICK p \in R : \A q \in R : p <= q
  <2> HIDE DEF R
  <2>1. R \in SUBSET Nat /\ R # {} BY DEF R
  <2> QED BY ONLY <2>1, LeastIn
<1>2. p # 0 BY <1>1
<1>3. p - 1 \in Nat /\ p - 1 \notin R BY <1>1, <1>2
<1> QED BY <1>1, <1>3

\* What is repeated exists: a sequence of results, each made from the one before.
Repeats(g, X, b, N, H) ==
  g \in [0 .. N -> X] /\ g[0] = b /\ \A n \in 1 .. N : g[n] = H[g[n - 1]]

LEMMA Iterated ==
  ASSUME NEW X, NEW b \in X, NEW N \in Nat, NEW H \in [X -> X]
  PROVE  \E g : Repeats(g, X, b, N, H)
<1> DEFINE Upto(k) == \E g \in [0 .. k -> X] : g[0] = b /\ \A n \in 1 .. k : g[n] = H[g[n - 1]]
           T == {k \in Nat : Upto(k)}
<1>1. 0 \in T
  <2> DEFINE g == [i \in 0 .. 0 |-> b]
  <2>1. g \in [0 .. 0 -> X] /\ g[0] = b OBVIOUS
  <2>2. \A n \in 1 .. 0 : g[n] = H[g[n - 1]] OBVIOUS
  <2> HIDE DEF g
  <2> QED BY <2>1, <2>2
<1>2. \A k \in Nat : k \in T => k + 1 \in T
  <2> SUFFICES ASSUME NEW k \in Nat, Upto(k) PROVE Upto(k + 1)
    OBVIOUS
  <2>1. PICK g \in [0 .. k -> X] : g[0] = b /\ \A n \in 1 .. k : g[n] = H[g[n - 1]]
    OBVIOUS
  <2> DEFINE h == [i \in 0 .. k + 1 |-> IF i = k + 1 THEN H[g[k]] ELSE g[i]]
  <2>2. g[k] \in X /\ H[g[k]] \in X OBVIOUS
  <2>4. h \in [0 .. k + 1 -> X] /\ h[0] = b BY <2>1, <2>2
  <2>5. ASSUME NEW n \in 1 .. k + 1 PROVE h[n] = H[h[n - 1]]
    <3>1. CASE n = k + 1
      <4>1. h[n] = H[g[k]] BY <3>1
      <4>2. h[n - 1] = g[k] BY <3>1
      <4> QED BY <4>1, <4>2
    <3>2. CASE n \in 1 .. k
      <4>1. h[n] = g[n] /\ h[n - 1] = g[n - 1] BY <3>2
      <4> QED BY <4>1, <3>2, <2>1
    <3> QED BY <3>1, <3>2
  <2> HIDE DEF h
  <2> QED BY <2>4, <2>5
<1> HIDE DEF T
<1>3. Nat \subseteq T BY ONLY <1>1, <1>2, SetInduction
<1> QED BY <1>3 DEF T, Repeats

-----------------------------------------------------------------------------
\* Who comes nearer with every step, or arrives, arrives.
Nearer(f, d, e, C) ==
  \A k \in 1 .. C :
    f[k] # e => /\ d[f[k]] \in Nat /\ d[f[k]] > 0 /\ d[f[k]] < C
                /\ (k > 1 => d[f[k]] < d[f[k - 1]])

ComesTo(f, e, C) == \E k \in 1 .. C : f[k] = e

LEMMA Arrives ==
  ASSUME NEW C \in Nat, C > 0, NEW e, NEW f, NEW d, Nearer(f, d, e, C)
  PROVE  ComesTo(f, e, C)
<1> SUFFICES ASSUME \A k \in 1 .. C : f[k] # e PROVE FALSE
  BY DEF ComesTo
<1>0. ASSUME NEW k \in 1 .. C
      PROVE  /\ d[f[k]] \in Nat /\ d[f[k]] > 0 /\ d[f[k]] < C
             /\ (k > 1 => d[f[k]] < d[f[k - 1]])
  <2>1. f[k] # e
    OBVIOUS
  <2> QED BY <2>1, Zenon DEF Nearer
<1> DEFINE T == {k \in Nat : k \in 1 .. C => d[f[k]] <= C - k}
<1>1. 0 \in T
  OBVIOUS
<1>2. ASSUME NEW k \in Nat, k \in T PROVE k + 1 \in T
  <2> SUFFICES ASSUME k + 1 \in 1 .. C PROVE d[f[k + 1]] <= C - (k + 1)
    OBVIOUS
  <2>1. d[f[k + 1]] \in Nat /\ d[f[k + 1]] < C /\ (k + 1 > 1 => d[f[k + 1]] < d[f[(k + 1) - 1]])
    BY <1>0
  <2>2. CASE k = 0
    <3>1. k + 1 = 1 /\ C - (k + 1) = C - 1
      BY <2>2
    <3> QED BY <2>1, <3>1
  <2>3. CASE k # 0
    <3>1. (k + 1) - 1 = k /\ k \in 1 .. C /\ k + 1 > 1
      BY <2>3
    <3>2. d[f[k]] <= C - k /\ d[f[k]] \in Nat
      BY <1>0, <1>2, <3>1
    <3> QED BY <2>1, <3>1, <3>2
  <2> QED BY <2>2, <2>3
<1> HIDE DEF T
<1>3. Nat \subseteq T
  BY ONLY <1>1, <1>2, SetInduction
<1>4. C \in 1 .. C /\ d[f[C]] <= C - C
  BY <1>3 DEF T
<1> QED BY <1>0, <1>4

-----------------------------------------------------------------------------
\* The places of the pointer, for all menus.
LEMMA Menus ==
  ASSUME NEW m \in DOMAIN Menu
  PROVE  /\ G!Count(m) \in Nat /\ G!Entry(m) \subseteq 1 .. G!Count(m)
         /\ G!Entry(m) # {} /\ G!Count(m) > 0
<1>1. PICK s \in Seq(STRING) : s = Menu[m] /\ \E i \in DOMAIN s : s[i] # ""
  BY MenuAssumption
<1>2. Len(s) \in Nat /\ DOMAIN s = 1 .. Len(s)
  OBVIOUS
<1>3. G!Count(m) = Len(s) /\ G!Entry(m) = {i \in 1 .. Len(s) : s[i] # ""}
  BY <1>1 DEF G!Count, G!Entry
<1>4. PICK i \in 1 .. Len(s) : s[i] # ""
  BY <1>1, <1>2
<1>5. i \in G!Entry(m)
  BY <1>3, <1>4
<1>6. Len(s) > 0
  <2>1. \A n \in Nat : i \in 1 .. n => n > 0
    OBVIOUS
  <2> QED BY <1>2, <2>1
<1> QED BY <1>2, <1>3, <1>5, <1>6

LEMMA NextIs ==
  ASSUME NEW m \in DOMAIN Menu, NEW i \in 0 .. G!Count(m), NEW j, j = G!NextOf(m, i)
  PROVE  /\ j \in G!Entry(m)
         /\ \/ j > i /\ \A e \in G!Entry(m) : e > i => j <= e
            \/ \A e \in G!Entry(m) : e <= i /\ j <= e
<1>0. /\ G!Count(m) \in Nat /\ G!Entry(m) \subseteq 1 .. G!Count(m) /\ G!Entry(m) # {}
  BY Menus
<1>1. PICK after : after = {k \in G!Entry(m) : k > i}
  OBVIOUS
<1>2. CASE after # {}
  <2>1. j = G!Min(after)
    BY <1>1, <1>2 DEF G!NextOf
  <2>2. after \in SUBSET (1 .. G!Count(m))
    BY <1>0, <1>1
  <2>3. j \in after /\ \A q \in after : j <= q
    BY ONLY <1>0, <1>2, <2>1, <2>2, LeastIs
  <2> QED BY <1>1, <2>3
<1>3. CASE after = {}
  <2>1. j = G!Min(G!Entry(m))
    BY <1>0, <1>1, <1>3 DEF G!NextOf
  <2>2. j \in G!Entry(m) /\ \A q \in G!Entry(m) : j <= q
    BY ONLY <1>0, <2>1, LeastIs
  <2>3. ASSUME NEW e \in G!Entry(m) PROVE e <= i
    BY <1>0, <1>1, <1>3
  <2> QED BY <2>2, <2>3
<1> QED BY <1>2, <1>3

LEMMA PreviousIs ==
  ASSUME NEW m \in DOMAIN Menu, NEW i \in 0 .. G!Count(m), NEW j, j = G!PreviousOf(m, i)
  PROVE  /\ j \in G!Entry(m)
         /\ \/ j < i /\ \A e \in G!Entry(m) : e < i => j >= e
            \/ \A e \in G!Entry(m) : e >= i /\ j >= e
<1>0. /\ G!Count(m) \in Nat /\ G!Entry(m) \subseteq 1 .. G!Count(m) /\ G!Entry(m) # {}
  BY Menus
<1>1. PICK before : before = {k \in G!Entry(m) : k < i}
  OBVIOUS
<1>2. CASE before # {}
  <2>1. j = G!Max(before)
    BY <1>1, <1>2 DEF G!PreviousOf
  <2>2. before \in SUBSET (1 .. G!Count(m))
    BY <1>0, <1>1
  <2>3. j \in before /\ \A q \in before : j >= q
    BY ONLY <1>0, <1>2, <2>1, <2>2, GreatestIs
  <2> QED BY <1>1, <2>3
<1>3. CASE before = {}
  <2>1. j = G!Max(G!Entry(m))
    BY <1>0, <1>1, <1>3 DEF G!PreviousOf
  <2>2. j \in G!Entry(m) /\ \A q \in G!Entry(m) : j >= q
    BY ONLY <1>0, <2>1, GreatestIs
  <2>3. ASSUME NEW e \in G!Entry(m) PROVE e >= i
    BY <1>0, <1>1, <1>3
  <2> QED BY <2>2, <2>3
<1> QED BY <1>2, <1>3

\* There is only one way to take steps that lead somewhere.
Follows(f, X, b, C, H) ==
  /\ f = [k \in 0 .. C |-> f[k]] /\ f[0] = b
  /\ \A k \in 1 .. C : f[k - 1] \in X => f[k] = H[f[k - 1]]

LEMMA OneWay ==
  ASSUME NEW C \in Nat, NEW X, NEW b, NEW H, NEW g, Repeats(g, X, b, C, H),
         NEW f, Follows(f, X, b, C, H)
  PROVE  f = g
<1>0. /\ g \in [0 .. C -> X] /\ g[0] = b
      /\ \A k \in 1 .. C : g[k] = H[g[k - 1]]
      /\ f = [k \in 0 .. C |-> f[k]] /\ f[0] = b
      /\ \A k \in 1 .. C : f[k - 1] \in X => f[k] = H[f[k - 1]]
  BY DEF Repeats, Follows
<1> DEFINE T == {k \in Nat : k \in 0 .. C => f[k] = g[k]}
<1>1. 0 \in T
  BY <1>0
<1>2. ASSUME NEW k \in Nat, k \in T PROVE k + 1 \in T
  <2> SUFFICES ASSUME k + 1 \in 0 .. C PROVE f[k + 1] = g[k + 1]
    OBVIOUS
  <2>1. (k + 1) - 1 = k /\ k \in 0 .. C /\ k + 1 \in 1 .. C
    OBVIOUS
  <2>2. f[k] = g[k] /\ g[k] \in X
    BY <1>0, <1>2, <2>1
  <2>3. g[k + 1] = H[g[(k + 1) - 1]]
    BY <1>0, <2>1
  <2>4. f[(k + 1) - 1] \in X => f[k + 1] = H[f[(k + 1) - 1]]
    BY <1>0, <2>1
  <2> QED BY <2>1, <2>2, <2>3, <2>4
<1> HIDE DEF T
<1>3. Nat \subseteq T
  BY ONLY <1>1, <1>2, SetInduction
<1>4. \A k \in 0 .. C : f[k] = g[k]
  BY <1>3 DEF T
<1>5. g = [k \in 0 .. C |-> g[k]]
  BY <1>0
<1>6. g = [k \in 0 .. C |-> f[k]]
  BY <1>4, <1>5
<1> QED BY <1>0, <1>6

\* The way round a menu in either direction comes by all of its entries.
LEMMA ComesBy ==
  ASSUME NEW m \in DOMAIN Menu, NEW H \in [0 .. G!Count(m) -> 0 .. G!Count(m)],
         NEW f \in [0 .. G!Count(m) -> 0 .. G!Count(m)],
         \A k \in 1 .. G!Count(m) : f[k] = H[f[k - 1]],
         \/ \A i \in 0 .. G!Count(m) : H[i] = G!NextOf(m, i)
         \/ \A i \in 0 .. G!Count(m) : H[i] = G!PreviousOf(m, i)
  PROVE  {f[k] : k \in 1 .. G!Count(m)} = G!Entry(m)
<1> DEFINE C == G!Count(m)
           E == G!Entry(m)
<1>0. C \in Nat /\ C > 0 /\ E \subseteq 1 .. C
  BY Menus
<1>1. ASSUME NEW i \in 0 .. C PROVE H[i] \in E
  BY <1>1, NextIs, PreviousIs
<1>2. ASSUME NEW k \in 1 .. C PROVE f[k] \in E /\ f[k] = H[f[k - 1]] /\ f[k - 1] \in 0 .. C
  <2>1. k - 1 \in 0 .. C
    BY <1>0
  <2>2. f[k - 1] \in 0 .. C
    BY <2>1
  <2> QED BY <1>1, <2>2
<1>3. ASSUME NEW e \in E PROVE \E k \in 1 .. C : f[k] = e
  <2>0. e \in 1 .. C /\ e \in Nat
    BY <1>0
  <2>1. CASE \A i \in 0 .. C : H[i] = G!NextOf(m, i)
    <3> DEFINE d == [i \in 0 .. C |-> IF i = 0 THEN C ELSE IF i < e THEN e - i ELSE (e + C) - i]
    <3>1. ASSUME NEW i \in 0 .. C PROVE d[i] \in Nat /\ d[i] <= C
      BY <1>0, <2>0, <3>1
    <3>2. ASSUME NEW i \in E PROVE d[i] > 0
      BY <1>0, <2>0, <3>2
    <3>3. ASSUME NEW i \in 0 .. C, H[i] # e PROVE d[H[i]] < d[i]
      <4>1. PICK j \in E : j = H[i]
        BY <1>1
      <4>2. \/ j > i /\ (e > i => j <= e)
            \/ e <= i /\ j <= e
        BY <2>1, <4>1, NextIs
      <4>3. j \in 1 .. C /\ j # e
        BY <1>0, <3>3, <4>1
      <4> HIDE DEF C, E
      <4>4. d[j] < d[i]
        BY <1>0, <2>0, <4>2, <4>3
      <4> QED BY <4>1, <4>4
    <3> HIDE DEF d
    <3>4. \A k \in 1 .. C : f[k] # e => d[f[k]] \in Nat /\ d[f[k]] > 0
      BY <1>0, <1>2, <3>1, <3>2
    <3>5. ASSUME NEW k \in 1 .. C, f[k] # e
          PROVE  d[f[k]] < d[f[k - 1]] /\ d[f[k]] < C
      <4>1. d[f[k]] < d[f[k - 1]] /\ d[f[k - 1]] <= C /\ d[f[k - 1]] \in Nat /\ d[f[k]] \in Nat
        BY <1>0, <1>2, <3>1, <3>3, <3>5
      <4> HIDE DEF C, E
      <4> QED BY <1>0, <4>1
    <3>6. Nearer(f, d, e, C)
      BY <3>4, <3>5 DEF Nearer
    <3> HIDE DEF C, E
    <3>7. ComesTo(f, e, C)
      BY ONLY <1>0, <3>6, Arrives
    <3> QED BY <3>7 DEF ComesTo
  <2>2. CASE \A i \in 0 .. C : H[i] = G!PreviousOf(m, i)
    <3> DEFINE d == [i \in 0 .. C |-> IF i = 0 THEN C ELSE IF i > e THEN i - e ELSE (i + C) - e]
    <3>1. ASSUME NEW i \in 0 .. C PROVE d[i] \in Nat /\ d[i] <= C
      BY <1>0, <2>0, <3>1, SMTT(30)
    <3>2. ASSUME NEW i \in E PROVE d[i] > 0
      BY <1>0, <2>0, <3>2
    <3>3. ASSUME NEW i \in 0 .. C, H[i] # e PROVE d[H[i]] < d[i]
      <4>1. PICK j \in E : j = H[i]
        BY <1>1
      <4>2. \/ j < i /\ (e < i => j >= e)
            \/ e >= i /\ j >= e
        BY <2>2, <4>1, PreviousIs
      <4>3. j \in 1 .. C /\ j # e
        BY <1>0, <3>3, <4>1
      <4> HIDE DEF C, E
      <4>4. d[j] < d[i]
        BY <1>0, <2>0, <4>2, <4>3
      <4> QED BY <4>1, <4>4
    <3> HIDE DEF d
    <3>4. \A k \in 1 .. C : f[k] # e => d[f[k]] \in Nat /\ d[f[k]] > 0
      BY <1>0, <1>2, <3>1, <3>2
    <3>5. ASSUME NEW k \in 1 .. C, f[k] # e
          PROVE  d[f[k]] < d[f[k - 1]] /\ d[f[k]] < C
      <4>1. d[f[k]] < d[f[k - 1]] /\ d[f[k - 1]] <= C /\ d[f[k - 1]] \in Nat /\ d[f[k]] \in Nat
        BY <1>0, <1>2, <3>1, <3>3, <3>5
      <4> HIDE DEF C, E
      <4> QED BY <1>0, <4>1
    <3>6. Nearer(f, d, e, C)
      BY <3>4, <3>5 DEF Nearer
    <3> HIDE DEF C, E
    <3>7. ComesTo(f, e, C)
      BY ONLY <1>0, <3>6, Arrives
    <3> QED BY <3>7 DEF ComesTo
  <2> QED BY <2>1, <2>2
<1>4. {f[k] : k \in 1 .. C} \subseteq E
  BY <1>2
<1>5. E \subseteq {f[k] : k \in 1 .. C}
  BY <1>3
<1> QED BY <1>4, <1>5

LEMMA RoundNext ==
  ASSUME NEW m \in DOMAIN Menu, NEW i \in 0 .. G!Count(m)
  PROVE  G!Around(m, i, G!NextOf) = G!Entry(m)
<1> DEFINE C == G!Count(m)
           H == [j \in 0 .. C |-> G!NextOf(m, j)]
<1>1. C \in Nat /\ H \in [0 .. C -> 0 .. C]
  <2>1. \A j \in 0 .. C : G!NextOf(m, j) \in G!Entry(m)
    BY NextIs
  <2>2. G!Entry(m) \subseteq 0 .. C /\ C \in Nat
    BY Menus
  <2> QED BY <2>1, <2>2
<1>0. \A j \in 0 .. C : H[j] = G!NextOf(m, j)
  OBVIOUS
<1>2. PICK f : f = CHOOSE g : g = [k \in 0 .. C |-> IF k = 0 THEN i ELSE G!NextOf(m, g[k - 1])]
  OBVIOUS
<1>3. G!Around(m, i, G!NextOf) = {f[k] : k \in 1 .. C}
  BY <1>2, Zenon DEF G!Around
<1>c. i \in 0 .. C
  OBVIOUS
<1>r. ASSUME NEW g \in [0 .. C -> 0 .. C], \A k \in 1 .. C : g[k] = H[g[k - 1]]
      PROVE  {g[k] : k \in 1 .. C} = G!Entry(m)
  BY <1>0, <1>1, <1>r, ComesBy
<1> HIDE DEF C, H
<1>p. PICK places : places = 0 .. C
  OBVIOUS
<1>q. i \in places /\ C \in Nat /\ H \in [places -> places]
  BY <1>1, <1>c, <1>p
<1>i. PICK g : Repeats(g, places, i, C, H)
  BY ONLY <1>q, Iterated
<1>4. /\ g \in [0 .. C -> 0 .. C] /\ g[0] = i
      /\ \A k \in 1 .. C : g[k] = H[g[k - 1]]
  BY <1>p, <1>i DEF Repeats
<1>5. g = [k \in 0 .. C |-> IF k = 0 THEN i ELSE G!NextOf(m, g[k - 1])]
  <2>1. ASSUME NEW k \in 0 .. C PROVE g[k] = IF k = 0 THEN i ELSE G!NextOf(m, g[k - 1])
    <3>1. CASE k = 0
      BY <1>4, <3>1
    <3>2. CASE k # 0
      <4>1. k \in 1 .. C /\ k - 1 \in 0 .. C
        BY <1>1, <3>2
      <4>2. g[k - 1] \in 0 .. C
        BY <1>4, <4>1
      <4>3. g[k] = G!NextOf(m, g[k - 1])
        BY <1>0, <1>4, <4>1, <4>2
      <4> QED BY <3>2, <4>3
    <3> QED BY <3>1, <3>2
  <2>2. g = [k \in 0 .. C |-> g[k]]
    BY <1>4
  <2> QED BY <2>1, <2>2
<1>6. f = [k \in 0 .. C |-> IF k = 0 THEN i ELSE G!NextOf(m, f[k - 1])]
  BY <1>2, <1>5, Zenon
<1>7. f = [k \in 0 .. C |-> f[k]] /\ f[0] = i
  BY <1>1, <1>6
<1>8. ASSUME NEW k \in 1 .. C, f[k - 1] \in 0 .. C PROVE f[k] = H[f[k - 1]]
  <2>1. k \in 0 .. C /\ k # 0
    BY <1>1
  <2>2. f[k] = G!NextOf(m, f[k - 1])
    BY <1>6, <2>1
  <2> QED BY <1>0, <1>8, <2>2
<1>9. f = g
  <2>2. Follows(f, places, i, C, H)
    BY <1>7, <1>8, <1>p DEF Follows
  <2>3. C \in Nat
    BY <1>1
  <2> QED BY ONLY <1>i, <2>2, <2>3, OneWay
<1>10. {f[k] : k \in 1 .. C} = G!Entry(m)
  BY <1>4, <1>9, <1>r, ZenonT(40)
<1> QED BY <1>3, <1>10

LEMMA RoundPrevious ==
  ASSUME NEW m \in DOMAIN Menu, NEW i \in 0 .. G!Count(m)
  PROVE  G!Around(m, i, G!PreviousOf) = G!Entry(m)
<1> DEFINE C == G!Count(m)
           H == [j \in 0 .. C |-> G!PreviousOf(m, j)]
<1>1. C \in Nat /\ H \in [0 .. C -> 0 .. C]
  <2>1. \A j \in 0 .. C : G!PreviousOf(m, j) \in G!Entry(m)
    BY PreviousIs
  <2>2. G!Entry(m) \subseteq 0 .. C /\ C \in Nat
    BY Menus
  <2> QED BY <2>1, <2>2
<1>0. \A j \in 0 .. C : H[j] = G!PreviousOf(m, j)
  OBVIOUS
<1>2. PICK f : f = CHOOSE g : g = [k \in 0 .. C |-> IF k = 0 THEN i ELSE G!PreviousOf(m, g[k - 1])]
  OBVIOUS
<1>3. G!Around(m, i, G!PreviousOf) = {f[k] : k \in 1 .. C}
  BY <1>2, Zenon DEF G!Around
<1>c. i \in 0 .. C
  OBVIOUS
<1>r. ASSUME NEW g \in [0 .. C -> 0 .. C], \A k \in 1 .. C : g[k] = H[g[k - 1]]
      PROVE  {g[k] : k \in 1 .. C} = G!Entry(m)
  BY <1>0, <1>1, <1>r, ComesBy
<1> HIDE DEF C, H
<1>p. PICK places : places = 0 .. C
  OBVIOUS
<1>q. i \in places /\ C \in Nat /\ H \in [places -> places]
  BY <1>1, <1>c, <1>p
<1>i. PICK g : Repeats(g, places, i, C, H)
  BY ONLY <1>q, Iterated
<1>4. /\ g \in [0 .. C -> 0 .. C] /\ g[0] = i
      /\ \A k \in 1 .. C : g[k] = H[g[k - 1]]
  BY <1>p, <1>i DEF Repeats
<1>5. g = [k \in 0 .. C |-> IF k = 0 THEN i ELSE G!PreviousOf(m, g[k - 1])]
  <2>1. ASSUME NEW k \in 0 .. C PROVE g[k] = IF k = 0 THEN i ELSE G!PreviousOf(m, g[k - 1])
    <3>1. CASE k = 0
      BY <1>4, <3>1
    <3>2. CASE k # 0
      <4>1. k \in 1 .. C /\ k - 1 \in 0 .. C
        BY <1>1, <3>2
      <4>2. g[k - 1] \in 0 .. C
        BY <1>4, <4>1
      <4>3. g[k] = G!PreviousOf(m, g[k - 1])
        BY <1>0, <1>4, <4>1, <4>2
      <4> QED BY <3>2, <4>3
    <3> QED BY <3>1, <3>2
  <2>2. g = [k \in 0 .. C |-> g[k]]
    BY <1>4
  <2> QED BY <2>1, <2>2
<1>6. f = [k \in 0 .. C |-> IF k = 0 THEN i ELSE G!PreviousOf(m, f[k - 1])]
  BY <1>2, <1>5, Zenon
<1>7. f = [k \in 0 .. C |-> f[k]] /\ f[0] = i
  BY <1>1, <1>6
<1>8. ASSUME NEW k \in 1 .. C, f[k - 1] \in 0 .. C PROVE f[k] = H[f[k - 1]]
  <2>1. k \in 0 .. C /\ k # 0
    BY <1>1
  <2>2. f[k] = G!PreviousOf(m, f[k - 1])
    BY <1>6, <2>1
  <2> QED BY <1>0, <1>8, <2>2
<1>9. f = g
  <2>2. Follows(f, places, i, C, H)
    BY <1>7, <1>8, <1>p DEF Follows
  <2>3. C \in Nat
    BY <1>1
  <2> QED BY ONLY <1>i, <2>2, <2>3, OneWay
<1>10. {f[k] : k \in 1 .. C} = G!Entry(m)
  BY <1>4, <1>9, <1>r, ZenonT(40)
<1> QED BY <1>3, <1>10


-----------------------------------------------------------------------------
GuiScreens ==
  [state : {"MENU", "PLAYER_SETUP", "LEVEL_SETUP"}, menu : DOMAIN Menu, stack : Seq(DOMAIN Menu),
   hover : [DOMAIN Menu -> Nat], disabled : BOOLEAN, skip : BOOLEAN, text : BOOLEAN]

\* What is highlighted in a menu is one of its entries.
GuiOk(u) ==
  u \in GuiScreens /\ \A m \in DOMAIN Menu : u.hover[m] \in G!Entry(m) \cup {0}

LEMMA NoStack == <<>> \in Seq(DOMAIN Menu)
BY Empty

LEMMA HighlightOk ==
  ASSUME NEW u, GuiOk(u), NEW m \in DOMAIN Menu, NEW i \in G!Entry(m) \cup {0},
         NEW v, v = G!Highlight(u, m, i)
  PROVE  GuiOk(v) /\ v.menu = u.menu /\ v.state = u.state /\ v.stack = u.stack
<1>1. i \in Nat
  BY Menus
<1>2. u \in GuiScreens /\ u.hover \in [DOMAIN Menu -> Nat]
  BY DEF GuiOk, GuiScreens
<1>3. PICK h : h = [u.hover EXCEPT ![m] = i]
  OBVIOUS
<1>4. h \in [DOMAIN Menu -> Nat] /\ \A n \in DOMAIN Menu : h[n] = IF n = m THEN i ELSE u.hover[n]
  BY <1>1, <1>2, <1>3
<1>5. v = [u EXCEPT !.hover = h]
  BY <1>3 DEF G!Highlight
<1>6. v \in GuiScreens /\ v.hover = h /\ v.menu = u.menu /\ v.state = u.state /\ v.stack = u.stack
  BY <1>2, <1>4, <1>5 DEF GuiScreens
<1> QED BY <1>4, <1>6 DEF GuiOk

\* A menu that is opened, and the one before it.
LEMMA OpenOk ==
  ASSUME NEW u, GuiOk(u), NEW m \in DOMAIN Menu, NEW b \in BOOLEAN, NEW v, v = G!Open(u, m, b)
  PROVE  GuiOk(v) /\ v.menu = m
<1>0. G!Count(m) \in Nat /\ G!Entry(m) \in SUBSET (1 .. G!Count(m)) /\ G!Entry(m) # {}
  BY Menus
<1>1. PICK i : i = IF b THEN G!Min(G!Entry(m)) ELSE 0
  OBVIOUS
<1>2. G!Min(G!Entry(m)) \in G!Entry(m)
  BY ONLY <1>0, LeastIs
<1>3. i \in G!Entry(m) \cup {0}
  BY <1>1, <1>2
<1>4. PICK w : w = G!Highlight(u, m, i)
  OBVIOUS
<1>5. GuiOk(w) /\ w.menu = u.menu /\ w.stack = u.stack
  BY <1>3, <1>4, HighlightOk
<1>s. u.stack \in Seq(DOMAIN Menu) /\ u.menu \in DOMAIN Menu
  BY DEF GuiOk, GuiScreens
<1>6. PICK s \in Seq(DOMAIN Menu) : s = Append(u.stack, u.menu)
  BY <1>s, Appended
<1>7. v = [w EXCEPT !.menu = m, !.stack = s]
  <2>1. v = [u EXCEPT !.menu = m, !.stack = s, !.hover[m] = i]
    BY <1>0, <1>1, <1>6 DEF G!Open
  <2>2. [u EXCEPT !.menu = m, !.stack = s, !.hover[m] = i]
        = [[u EXCEPT !.hover[m] = i] EXCEPT !.menu = m, !.stack = s]
    BY DEF GuiOk, GuiScreens
  <2> QED BY <1>4, <2>1, <2>2 DEF G!Highlight
<1>8. v \in GuiScreens /\ v.hover = w.hover /\ v.menu = m
  BY <1>5, <1>7 DEF GuiOk, GuiScreens
<1> QED BY <1>5, <1>8 DEF GuiOk

LEMMA PreviousOk ==
  ASSUME NEW u, GuiOk(u), NEW v, v = G!Previous(u)
  PROVE  GuiOk(v)
<1>1. CASE u.stack = <<>>
  BY <1>1 DEF G!Previous
<1>2. CASE u.stack # <<>>
  <2>1. u.stack \in Seq(DOMAIN Menu) /\ Len(u.stack) \in Nat /\ Len(u.stack) # 0
    BY <1>2 DEF GuiOk, GuiScreens
  <2>2. PICK m : m = G!Last(u.stack)
    OBVIOUS
  <2>3. PICK s : s = G!Front(u.stack)
    OBVIOUS
  <2>4. m \in DOMAIN Menu /\ s \in Seq(DOMAIN Menu)
    BY <2>1, <2>2, <2>3 DEF G!Last, G!Front
  <2>5. v = [u EXCEPT !.menu = m, !.stack = s]
    BY <1>2, <2>2, <2>3 DEF G!Previous
  <2> QED BY <2>4, <2>5 DEF GuiOk, GuiScreens
<1> QED BY <1>1, <1>2

LEMMA OverlayBackOk ==
  ASSUME NEW u, GuiOk(u), NEW v, v = G!OverlayBack(u)
  PROVE  GuiOk(v)
<1>0. u.state \in {"MENU", "PLAYER_SETUP", "LEVEL_SETUP"} /\ u.stack \in Seq(DOMAIN Menu)
  BY DEF GuiOk, GuiScreens
<1>1. CASE u.state = "MENU" /\ u.menu = "PLAY"
  <2>1. v = [u EXCEPT !.state = "PLAYER_SETUP"]
    BY <1>1 DEF G!OverlayBack
  <2> QED BY <2>1 DEF GuiOk, GuiScreens
<1>2. CASE u.state = "MENU" /\ u.menu # "PLAY"
  <2>1. v = G!Previous(u)
    BY <1>2 DEF G!OverlayBack
  <2> QED BY <2>1, PreviousOk
<1>3. CASE u.state = "PLAYER_SETUP"
  <2>1. PICK m : m = IF u.stack = <<>> THEN u.menu ELSE u.stack[1]
    OBVIOUS
  <2>2. m \in DOMAIN Menu
    BY <1>0, <2>1 DEF GuiOk, GuiScreens
  <2>3. PICK s \in Seq(DOMAIN Menu) : s = <<>>
    BY NoStack
  <2>4. v = [u EXCEPT !.state = "MENU", !.stack = s, !.menu = m]
    BY <1>3, <2>1, <2>3 DEF G!OverlayBack, GuiOk, GuiScreens
  <2> QED BY <2>2, <2>4 DEF GuiOk, GuiScreens
<1>4. CASE u.state = "LEVEL_SETUP"
  <2>1. v = [u EXCEPT !.state = "MENU"]
    BY <1>4 DEF G!OverlayBack
  <2> QED BY <2>1 DEF GuiOk, GuiScreens
<1> QED BY <1>0, <1>1, <1>2, <1>3, <1>4

\* The menu of a game is open, or on its way.
LEMMA OverlayNextOk ==
  ASSUME NEW u, GuiOk(u), NEW b \in BOOLEAN, NEW v, v = G!OverlayNext(u, b)
  PROVE  /\ GuiOk(v)
         /\ u.state = "PLAYER_SETUP" \/ u.menu = "PLAY" => v.menu = "PLAY"
<1>0. u.state \in {"MENU", "PLAYER_SETUP", "LEVEL_SETUP"} /\ "PLAY" \in DOMAIN Menu
  BY MenuAssumption DEF GuiOk, GuiScreens
<1>1. CASE u.state = "PLAYER_SETUP"
  <2>1. v = [G!Open(u, "PLAY", b) EXCEPT !.state = "MENU"]
    BY <1>1 DEF G!OverlayNext
  <2>2. PICK w : w = G!Open(u, "PLAY", b)
    OBVIOUS
  <2>3. GuiOk(w) /\ w.menu = "PLAY"
    BY <1>0, <2>2, OpenOk
  <2> QED BY <2>1, <2>2, <2>3 DEF GuiOk, GuiScreens
<1>2. CASE u.state = "MENU"
  <2>1. v = [u EXCEPT !.state = "LEVEL_SETUP"]
    BY <1>2 DEF G!OverlayNext
  <2> QED BY <1>2, <2>1 DEF GuiOk, GuiScreens
<1>3. CASE u.state = "LEVEL_SETUP"
  <2>1. v = u
    BY <1>3 DEF G!OverlayNext
  <2> QED BY <1>3, <2>1
<1> QED BY <1>0, <1>1, <1>2, <1>3

LEMMA ActivateOk ==
  ASSUME NEW u, GuiOk(u), NEW m \in DOMAIN Menu, NEW b \in BOOLEAN, NEW v, v = G!Activate(u, m, b)
  PROVE  GuiOk(v)
<1>0. PICK does : does = IF u.hover[m] = 0 THEN "" ELSE Menu[m][u.hover[m]]
  OBVIOUS
<1>m. /\ DOMAIN Menu \cap {"", "prompt", "ok", "join", "setup", "bind", "back", "next"} = {}
      /\ "MAIN" \in DOMAIN Menu /\ "PROMPT" \in DOMAIN Menu
  BY MenuAssumption
<1>v. v = CASE does \in DOMAIN Menu -> G!Open(u, does, b)
            [] does = "prompt"    -> [G!Open(u, "PROMPT", b) EXCEPT !.disabled = TRUE, !.text = TRUE]
            [] does = "ok"        -> [G!Previous(u) EXCEPT !.disabled = FALSE, !.text = FALSE]
            [] does = "join"      -> [u EXCEPT !.menu = "MAIN", !.stack = <<>>, !.text = FALSE]
            [] does = "setup"     -> [u EXCEPT !.state = "PLAYER_SETUP"]
            [] does = "bind"      -> [u EXCEPT !.skip = TRUE]
            [] does = "back"      -> G!OverlayBack(u)
            [] does = "next"      -> G!OverlayNext(u, b)
            [] OTHER              -> u
  BY <1>0, Zenon DEF G!Activate, G!MenuNames
<1>1. CASE does \in DOMAIN Menu
  <2>1. does \notin {"", "prompt", "ok", "join", "setup", "bind", "back", "next"}
    BY <1>m, <1>1
  <2>2. v = G!Open(u, does, b)
    BY <1>v, <1>1, <2>1
  <2> QED BY <1>1, <2>2, OpenOk
<1>2. CASE does = "prompt"
  <2>1. does \notin DOMAIN Menu
    BY <1>m, <1>2
  <2>2. v = [G!Open(u, "PROMPT", b) EXCEPT !.disabled = TRUE, !.text = TRUE]
    BY <1>v, <1>2, <2>1
  <2>3. PICK w : w = G!Open(u, "PROMPT", b)
    OBVIOUS
  <2>4. GuiOk(w)
    BY <1>m, <2>3, OpenOk
  <2> QED BY <2>2, <2>3, <2>4 DEF GuiOk, GuiScreens
<1>3. CASE does = "ok"
  <2>1. does \notin DOMAIN Menu
    BY <1>m, <1>3
  <2>2. v = [G!Previous(u) EXCEPT !.disabled = FALSE, !.text = FALSE]
    BY <1>v, <1>3, <2>1
  <2>3. PICK w : w = G!Previous(u)
    OBVIOUS
  <2>4. GuiOk(w)
    BY <2>3, PreviousOk
  <2> QED BY <2>2, <2>3, <2>4 DEF GuiOk, GuiScreens
<1>4. CASE does = "join"
  <2>1. does \notin DOMAIN Menu
    BY <1>m, <1>4
  <2>2. v = [u EXCEPT !.menu = "MAIN", !.stack = <<>>, !.text = FALSE]
    BY <1>v, <1>4, <2>1
  <2>3. PICK s \in Seq(DOMAIN Menu) : s = <<>>
    BY NoStack
  <2> QED BY <1>m, <2>2, <2>3 DEF GuiOk, GuiScreens
<1>5. CASE does \in {"setup", "bind"}
  <2>1. does \notin DOMAIN Menu
    BY <1>m, <1>5
  <2>2. v \in {[u EXCEPT !.state = "PLAYER_SETUP"], [u EXCEPT !.skip = TRUE]}
    BY <1>v, <1>5, <2>1
  <2> QED BY <2>2 DEF GuiOk, GuiScreens
<1>6. CASE does = "back"
  <2>1. does \notin DOMAIN Menu
    BY <1>m, <1>6
  <2>2. v = G!OverlayBack(u)
    BY <1>v, <1>6, <2>1
  <2> QED BY <2>2, OverlayBackOk
<1>7. CASE does = "next"
  <2>1. does \notin DOMAIN Menu
    BY <1>m, <1>7
  <2>2. v = G!OverlayNext(u, b)
    BY <1>v, <1>7, <2>1
  <2> QED BY <2>2, OverlayNextOk
<1>8. CASE does \notin DOMAIN Menu \cup {"prompt", "ok", "join", "setup", "bind", "back", "next"}
  <2>1. v = u
    BY <1>v, <1>8
  <2> QED BY <2>1
<1> QED BY <1>1, <1>2, <1>3, <1>4, <1>5, <1>6, <1>7, <1>8

-----------------------------------------------------------------------------
LEMMA UnderIs == ASSUME NEW m, NEW i PROVE G!Under(m, i) \in G!Entry(m) \cup {0}
BY DEF G!Under

\* A tick with the mouse, and one with the pad.
LEMMA ByMouseOk ==
  ASSUME GuiOk(menu), NEW m \in DOMAIN Menu, NEW click \in BOOLEAN, NEW v,
         v = G!ByMouse(menu, m, click)
  PROVE  GuiOk(v)
<1>1. PICK i : i = G!Under(m, mouse')
  OBVIOUS
<1>2. PICK w : w = G!Highlight(menu, m, i)
  OBVIOUS
<1>3. i \in G!Entry(m) \cup {0}
  BY <1>1, UnderIs
<1>4. GuiOk(w)
  BY <1>2, <1>3, HighlightOk
<1>5. v = IF click THEN G!Activate(w, m, FALSE) ELSE w
  BY <1>1, <1>2 DEF G!ByMouse
<1> QED BY <1>4, <1>5, ActivateOk

LEMMA ByPadOk ==
  ASSUME NEW u, GuiOk(u), NEW dirs, NEW press, NEW v, v = G!ByPad(u, dirs, press)
  PROVE  GuiOk(v)
<1>0. u.menu \in DOMAIN Menu
  BY DEF GuiOk, GuiScreens
<1>c. G!Count(u.menu) \in Nat /\ G!Entry(u.menu) \subseteq 1 .. G!Count(u.menu)
  BY <1>0, Menus
<1>1. PICK p : p = IF "up" \in dirs
                   THEN G!Highlight(u, u.menu, G!PreviousOf(u.menu, u.hover[u.menu])) ELSE u
  OBVIOUS
<1>2. GuiOk(p) /\ p.menu = u.menu
  <2>1. u.hover[u.menu] \in 0 .. G!Count(u.menu)
    BY <1>0, <1>c DEF GuiOk
  <2>2. G!PreviousOf(u.menu, u.hover[u.menu]) \in G!Entry(u.menu)
    BY <1>0, <2>1, PreviousIs
  <2> QED BY <1>0, <1>1, <2>2, HighlightOk
<1>3. PICK d : d = IF "down" \in dirs
                   THEN G!Highlight(p, u.menu, G!NextOf(u.menu, p.hover[u.menu])) ELSE p
  OBVIOUS
<1>4. GuiOk(d)
  <2>1. p.hover[u.menu] \in 0 .. G!Count(u.menu)
    BY <1>0, <1>c, <1>2 DEF GuiOk
  <2>2. G!NextOf(u.menu, p.hover[u.menu]) \in G!Entry(u.menu)
    BY <1>0, <2>1, NextIs
  <2> QED BY <1>0, <1>2, <1>3, <2>2, HighlightOk
<1>5. \/ v = G!Activate(d, u.menu, TRUE)
      \/ v = G!OverlayBack(d)
      \/ v = d
  BY <1>1, <1>3 DEF G!ByPad
<1> QED BY <1>0, <1>4, <1>5, ActivateOk, OverlayBackOk

LEMMA PressOk ==
  ASSUME NEW u, GuiOk(u), u.state = "PLAYER_SETUP" \/ u.menu = "PLAY", NEW v, v = G!Press(u)
  PROVE  GuiOk(v) /\ v.menu = "PLAY"
<1>1. PICK w : w = G!OverlayNext(u, FALSE)
  OBVIOUS
<1>2. GuiOk(w) /\ w.menu = "PLAY"
  BY <1>1, OverlayNextOk
<1>3. v = G!Highlight(w, "PLAY", 1)
  BY <1>1, <1>2 DEF G!Press
<1>4. 1 \in G!Entry("PLAY") /\ "PLAY" \in DOMAIN Menu
  <2>1. PICK s \in Seq(STRING) : s = Menu["PLAY"] /\ 1 \in DOMAIN s /\ s[1] # ""
    BY MenuAssumption
  <2>2. 1 \in 1 .. Len(s)
    <3>1. DOMAIN s = 1 .. Len(s)
      OBVIOUS
    <3> QED BY <2>1, <3>1
  <2>3. G!Entry("PLAY") = {i \in 1 .. Len(s) : s[i] # ""}
    BY <2>1 DEF G!Entry, G!Count
  <2> QED BY <2>1, <2>2, <2>3, MenuAssumption
<1> QED BY <1>2, <1>3, <1>4, HighlightOk

\* However many press FIRE in a tick.
LEMMA PressedOk ==
  ASSUME GuiOk(menu), G!SetupFire
  PROVE  GuiOk(menu')
<1> DEFINE X == {u \in GuiScreens : GuiOk(u) /\ (u.state = "PLAYER_SETUP" \/ u.menu = "PLAY")}
           H == [u \in X |-> G!Press(u)]
           C == MaxPads
<1>1. ASSUME NEW u \in X PROVE G!Press(u) \in X
  <2>1. PICK v : v = G!Press(u)
    OBVIOUS
  <2>2. GuiOk(v) /\ v.menu = "PLAY"
    BY <2>1, PressOk
  <2> QED BY <2>1, <2>2 DEF GuiOk
<1>2. C \in Nat /\ H \in [X -> X] /\ menu \in X
  BY <1>1, MenuAssumption DEF G!SetupFire, GuiOk
<1>0. \A u \in X : H[u] = G!Press(u) /\ GuiOk(u)
  OBVIOUS
<1>3. PICK f : f = CHOOSE g : g = [k \in 0 .. C |-> IF k = 0 THEN menu ELSE G!Press(g[k - 1])]
  OBVIOUS
<1>4. \E n \in 1 .. C : menu' = f[n]
  BY <1>3, Zenon DEF G!SetupFire
<1> HIDE DEF X, H, C
<1>5. PICK g : Repeats(g, X, menu, C, H)
  BY ONLY <1>2, Iterated
<1>6. g \in [0 .. C -> X] /\ g[0] = menu /\ \A k \in 1 .. C : g[k] = H[g[k - 1]]
  BY <1>5 DEF Repeats
<1>7. g = [k \in 0 .. C |-> IF k = 0 THEN menu ELSE G!Press(g[k - 1])]
  <2>1. ASSUME NEW k \in 0 .. C PROVE g[k] = IF k = 0 THEN menu ELSE G!Press(g[k - 1])
    <3>1. CASE k = 0
      BY <1>6, <3>1
    <3>2. CASE k # 0
      <4>1. k \in 1 .. C /\ k - 1 \in 0 .. C
        BY <1>2, <3>2
      <4>2. g[k - 1] \in X
        BY <1>6, <4>1
      <4> QED BY <1>0, <1>6, <3>2, <4>1, <4>2
    <3> QED BY <3>1, <3>2
  <2>2. g = [k \in 0 .. C |-> g[k]]
    BY <1>6
  <2> QED BY <2>1, <2>2
<1>8. f = [k \in 0 .. C |-> IF k = 0 THEN menu ELSE G!Press(f[k - 1])]
  BY <1>3, <1>7, Zenon
<1>9. Follows(f, X, menu, C, H)
  <2>1. f = [k \in 0 .. C |-> f[k]] /\ f[0] = menu
    BY <1>2, <1>8
  <2>2. ASSUME NEW k \in 1 .. C, f[k - 1] \in X PROVE f[k] = H[f[k - 1]]
    <3>1. k \in 0 .. C /\ k # 0
      BY <1>2
    <3> QED BY <1>0, <1>8, <2>2, <3>1
  <2> QED BY <2>1, <2>2 DEF Follows
<1>10. f = g
  <2>1. C \in Nat
    BY <1>2
  <2> QED BY ONLY <1>5, <1>9, <2>1, OneWay
<1>11. \A n \in 1 .. C : f[n] \in X
  BY <1>2, <1>6, <1>10
<1> QED BY <1>0, <1>4, <1>11

LEMMA GuiStep == GuiOk(menu) /\ G!Next => GuiOk(menu')
<1> SUFFICES ASSUME GuiOk(menu), G!Next PROVE GuiOk(menu')
  OBVIOUS
<1>0. menu.menu \in DOMAIN Menu
  BY DEF GuiOk, GuiScreens
<1>1. CASE G!MenuTick
  <2>1. PICK dirs \in SUBSET {"up", "down"}, press \in {"", "fire", "jump", "click"} :
          LET u == IF source' = "mouse" \/ menu.disabled
                   THEN G!ByMouse(menu, menu.menu, press = "click")
                   ELSE IF ~menu.text /\ ~menu.skip THEN G!ByPad(menu, dirs, press) ELSE menu
          IN  menu' = [u EXCEPT !.skip = @ /\ ~menu.skip]
    BY <1>1 DEF G!MenuTick
  <2>2. PICK u : u = IF source' = "mouse" \/ menu.disabled
                     THEN G!ByMouse(menu, menu.menu, press = "click")
                     ELSE IF ~menu.text /\ ~menu.skip THEN G!ByPad(menu, dirs, press) ELSE menu
    OBVIOUS
  <2>3. GuiOk(u)
    <3>1. (press = "click") \in BOOLEAN
      OBVIOUS
    <3>2. CASE u = G!ByMouse(menu, menu.menu, press = "click")
      BY <1>0, <3>1, <3>2, ByMouseOk
    <3>3. CASE u = G!ByPad(menu, dirs, press)
      BY <3>3, ByPadOk
    <3>4. CASE u = menu
      BY <3>4
    <3> QED BY <2>2, <3>2, <3>3, <3>4
  <2>4. menu' = [u EXCEPT !.skip = u.skip /\ ~menu.skip]
    BY <2>1, <2>2
  <2>5. PICK b \in BOOLEAN : b = (u.skip /\ ~menu.skip)
    OBVIOUS
  <2>6. menu' = [u EXCEPT !.skip = b]
    BY <2>4, <2>5
  <2> QED BY <2>3, <2>6 DEF GuiOk, GuiScreens
<1>2. CASE G!OverlayTick
  <2>1. PICK click \in BOOLEAN : menu' = G!ByMouse(menu, G!Beside, click)
    BY <1>2 DEF G!OverlayTick
  <2>2. G!Beside \in DOMAIN Menu
    BY MenuAssumption DEF G!Beside
  <2> QED BY <2>1, <2>2, ByMouseOk
<1>3. CASE G!SetupFire
  BY <1>3, PressedOk
<1>4. CASE G!Escape
  <2>1. CASE menu.text
    <3>1. menu' = [menu EXCEPT !.text = FALSE]
      BY <1>4, <2>1 DEF G!Escape
    <3> QED BY <3>1 DEF GuiOk, GuiScreens
  <2>2. CASE ~menu.text
    <3>1. menu' = G!OverlayBack(menu)
      BY <1>4, <2>2 DEF G!Escape
    <3> QED BY <3>1, OverlayBackOk
  <2> QED BY <2>1, <2>2
<1> QED BY <1>1, <1>2, <1>3, <1>4 DEF G!Next

LEMMA GuiInit == G!Init => GuiOk(menu)
<1> SUFFICES ASSUME G!Init PROVE GuiOk(menu)
  OBVIOUS
<1>1. PICK s \in Seq(DOMAIN Menu) : s = <<>>
  BY NoStack
<1>2. PICK h \in [DOMAIN Menu -> Nat] : h = [m \in DOMAIN Menu |-> 0]
  OBVIOUS
<1>3. menu = [state |-> "MENU", menu |-> "MAIN", stack |-> s, hover |-> h,
              disabled |-> FALSE, skip |-> FALSE, text |-> FALSE]
  BY <1>1, <1>2 DEF G!Init, G!MenuNames
<1>4. "MAIN" \in DOMAIN Menu
  BY MenuAssumption
<1>5. menu \in GuiScreens
  BY <1>3, <1>4 DEF GuiScreens
<1>6. menu.hover = h
  BY <1>3
<1> QED BY <1>2, <1>5, <1>6 DEF GuiOk

LEMMA ReachesAll == GuiOk(menu) => G!EveryEntryReached
<1> SUFFICES ASSUME GuiOk(menu) PROVE G!EveryEntryReached
  OBVIOUS
<1>1. menu.menu \in DOMAIN Menu
  BY DEF GuiOk, GuiScreens
<1>2. menu.hover[menu.menu] \in 0 .. G!Count(menu.menu)
  <2>1. G!Count(menu.menu) \in Nat /\ G!Entry(menu.menu) \subseteq 1 .. G!Count(menu.menu)
    BY <1>1, Menus
  <2> QED BY <1>1, <2>1 DEF GuiOk
<1>3. G!Around(menu.menu, menu.hover[menu.menu], G!NextOf) = G!Entry(menu.menu)
  BY <1>1, <1>2, RoundNext
<1>4. G!Around(menu.menu, menu.hover[menu.menu], G!PreviousOf) = G!Entry(menu.menu)
  BY <1>1, <1>2, RoundPrevious
<1>5. \A m \in DOMAIN Menu : menu.hover[m] \in G!Entry(m) \cup {0}
  BY DEF GuiOk
<1> QED BY <1>3, <1>4, <1>5 DEF G!EveryEntryReached, G!MenuNames

-----------------------------------------------------------------------------
\* No menu is without something to choose, whatever was done in it.
ScreensInv == MenusInv /\ GuiOk(menu)

LEMMA MenusRight == MenusInv => M!ScreenShowsGame /\ M!PlayedIsLoaded /\ M!HomeAtTheBottom
<1> SUFFICES ASSUME MenusInv PROVE M!ScreenShowsGame /\ M!PlayedIsLoaded /\ M!HomeAtTheBottom
  OBVIOUS
<1>1. M!ScreenShowsGame
  BY DEF MenusInv, Shown, M!ScreenShowsGame
<1>2. M!PlayedIsLoaded
  BY DEF MenusInv, InMemory, M!PlayedIsLoaded
<1>3. M!HomeAtTheBottom
  BY DEF MenusInv, AtHome, M!HomeAtTheBottom, M!Bottom, BottomOf
<1> QED BY <1>1, <1>2, <1>3

LEMMA MenusSame == MenusInv /\ UNCHANGED menuVars => MenusInv'
<1> SUFFICES ASSUME MenusInv, UNCHANGED menuVars PROVE MenusInv'
  OBVIOUS
<1>0. UNCHANGED <<ui, link, thread, master, phase, told, loaded, flaw>>
  BY DEF menuVars
<1>1. Connected'
  BY <1>0, LaterMenus DEF MenusInv, Connected
<1>2. Paused'
  BY <1>0 DEF MenusInv, Paused, M!Local
<1>3. InMemory'
  BY <1>0 DEF MenusInv, InMemory
<1>4. AtHome'
  BY <1>0, LaterMenus DEF MenusInv, AtHome, M!Home
<1>5. Shown'
  BY <1>0 DEF MenusInv, Shown, M!Local
<1> QED BY <1>0, <1>1, <1>2, <1>3, <1>4, <1>5 DEF MenusInv

LEMMA MenusStep == MenusInv /\ M!Next => MenusInv'
<1> SUFFICES ASSUME MenusInv, M!Next PROVE MenusInv'
  OBVIOUS
<1>1. CASE \/ M!OpenMenu \/ M!NoServerList \/ M!NetworkIdOk \/ M!NetworkOk \/ M!NewProfileOk
           \/ M!Play \/ M!ViewReplay \/ M!ChooseGame \/ M!Back \/ M!ToGameMenu \/ M!NewProfile
           \/ M!NextState \/ M!EndText \/ M!StartChat \/ M!Title \/ M!TitleMenu \/ M!GameOver
           \/ M!ReceiveMaster
  BY <1>1, ScreensKeep
<1>2. CASE M!Host \/ M!Join \/ M!Leave \/ M!ReceiveLoss \/ M!ReceiveCheckFail
  BY <1>2, HostKeeps, JoinKeeps, LeaveKeeps, LossKeeps
<1>3. CASE M!StartGame \/ M!PauseGame \/ M!ResumeGame \/ M!EndGame
  BY <1>3, StartGameKeeps, PauseKeeps, ResumeKeeps, EndGameKeeps
<1>4. CASE M!ReplayEnds \/ M!ReceiveRemove
  BY <1>4, ReplayKeeps, RemoveKeeps
<1> QED BY <1>1, <1>2, <1>3, <1>4 DEF M!Next

LEMMA ScreensInit == MCInit => ScreensInv
BY MenusInit, GuiInit DEF MCInit, ScreensInv

LEMMA ScreensStep == ScreensInv /\ [MCNext]_allVars => ScreensInv'
<1> SUFFICES ASSUME ScreensInv, [MCNext]_allVars PROVE ScreensInv'
  OBVIOUS
<1>1. MenusInv'
  <2>1. CASE Only("menus") /\ M!Next
    BY <2>1, MenusStep DEF ScreensInv
  <2>2. CASE UNCHANGED menuVars
    BY <2>2, MenusSame DEF ScreensInv
  <2>3. ASSUME NEW q \in {"input", "options", "gui", "content", "setup"}, Only(q)
        PROVE  UNCHANGED menuVars
    BY <2>3 DEF Only
  <2> QED BY <2>1, <2>2, <2>3 DEF MCNext, allVars
<1>2. GuiOk(menu')
  <2>1. CASE Only("gui") /\ G!Next
    BY <2>1, GuiStep DEF ScreensInv
  <2>2. CASE UNCHANGED guiVars
    BY <2>2 DEF ScreensInv, guiVars
  <2>3. ASSUME NEW q \in {"input", "options", "menus", "content", "setup"}, Only(q)
        PROVE  UNCHANGED guiVars
    BY <2>3 DEF Only
  <2> QED BY <2>1, <2>2, <2>3 DEF MCNext, allVars
<1>3. GuiOk(menu)' <=> GuiOk(menu')
  BY DEF GuiOk, GuiScreens
<1> QED BY <1>1, <1>2, <1>3 DEF ScreensInv

\* For every menu with something to choose: the screen is that of the game, no game
\* is played that is not in memory, the way back leads to the main menu of the
\* client there is (pp2_game_callback, pp2_client_callback and the menus' entries),
\* and with the pad one comes by every entry (t3f_select_next_gui_element).
THEOREM ScreensAreRight == MCSpec => []ScreensRight
<1>1. MCInit => ScreensInv
  BY ScreensInit
<1>2. ScreensInv /\ [MCNext]_allVars => ScreensInv'
  BY ScreensStep
<1>3. ScreensInv => ScreensRight
  BY MenusRight, ReachesAll DEF ScreensInv, ScreensRight
<1> QED BY <1>1, <1>2, <1>3, PTL DEF MCSpec
=============================================================================
