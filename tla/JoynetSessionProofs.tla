------------------------ MODULE JoynetSessionProofs ------------------------
(***************************************************************************)
(* Proofs about JoynetSession for every set of clients, any number of      *)
(* player slots and controllers, every behaviour and every bound: the      *)
(* types, the count of players, and that the server implements GameLobby;  *)
(* and where users are orderly, that the counter of every client agrees    *)
(* with its slots, no two clients are master, a client steers no slot but  *)
(* its own, no message finds a client without the buffer it needs, and     *)
(* what every client that has read its messages knows is what the server   *)
(* has.                                                                    *)
(***************************************************************************)
EXTENDS JoynetSession, FiniteSetTheorems, SequenceTheorems, WellFoundedInduction, TLAPS

-----------------------------------------------------------------------------
(* Messages.                                                                *)

\* What clients send.
LEMMA Requests ==
  /\ \A t \in {"CHECK_ID", "SPECTATE", "LEAVE", "START", "PAUSE", "RESUME",
               "END", "INPUT_OVERFLOW"} : Note(t) \in ToServerMessage
  /\ \A k \in Controllers : Request("CONNECT", k, -1) \in ToServerMessage
  /\ \A k \in Controllers, p \in Players : Request("DISCONNECT", k, p) \in ToServerMessage
  BY DEF ToServerMessage

\* What a CONNECT or DISCONNECT request is about.
LEMMA RequestParts ==
  ASSUME NEW m \in ToServerMessage
  PROVE  /\ m.type = "CONNECT" => m.ctrl \in Controllers /\ m.player \in Players \cup {-1}
         /\ m.type = "DISCONNECT" => m.ctrl \in Controllers /\ m.player \in Players
  BY DEF ToServerMessage, Note, Request

\* What the server sends.
LEMMA Replies ==
  /\ \A t \in {"CHECK_ID", "CHECK_ID_FAIL", "CONNECT_FAIL", "SPECTATE",
               "ASSIGN_MASTER", "START", "PAUSE", "RESUME", "END"} :
       Note(t) \in ToClientMessage
  /\ \A k \in Controllers, p \in Players : Request("CONNECT", k, p) \in ToClientMessage
  /\ \A k \in Controllers : Request("DISCONNECT", k, -1) \in ToClientMessage
  /\ \A S \in SUBSET Players : /\ About("ADD_PLAYER", S) \in ToClientMessage
                               /\ About("REMOVE_PLAYER", S) \in ToClientMessage
  BY DEF ToClientMessage

\* What a message from the server is about.
LEMMA ReplyParts ==
  ASSUME NEW m \in ToClientMessage
  PROVE  /\ m.type = "CONNECT" => m.ctrl \in Controllers /\ m.player \in Players
         /\ m.type = "DISCONNECT" => m.ctrl \in Controllers
         /\ m.type \in {"ADD_PLAYER", "REMOVE_PLAYER"} => m.players \subseteq Players
  BY DEF ToClientMessage, Note, Request, About

\* Queues of messages.
LEMMA Queues ==
  ASSUME NEW M, NEW s \in Seq(M)
  PROVE  /\ <<>> \in Seq(M)
         /\ \A m \in M : <<m>> \in Seq(M) /\ Append(s, m) \in Seq(M)
         /\ \A t \in Seq(M) : s \o t \in Seq(M)
         /\ s # <<>> => Head(s) \in M /\ Tail(s) \in Seq(M)
  OBVIOUS

LEMMA Cut ==
  ASSUME NEW M, NEW s \in Seq(M), NEW n \in 0 .. Len(s)
  PROVE  SubSeq(s, 1, n) \in Seq(M)
  OBVIOUS

-----------------------------------------------------------------------------
(* Slots.                                                                   *)

LEMMA SlotsFinite == IsFiniteSet(Players) /\ Cardinality(Players) = NumPlayers
  BY FS_Interval, ConstantsAssumption DEF Players

LEMMA TakenFinite == IsFiniteSet(Taken) /\ Cardinality(Taken) \in 0 .. NumPlayers
<1>1. Taken \in SUBSET Players
  BY DEF Taken
<1>2. IsFiniteSet(Taken) /\ Cardinality(Taken) <= NumPlayers
  BY <1>1, FS_Subset, SlotsFinite
<1> QED BY <1>2, FS_CardinalityType, ConstantsAssumption

\* The lowest of some slots is one of them.
LEMMA LowestIn ==
  ASSUME NEW S \in SUBSET Players, S # {}
  PROVE  Lowest(S) \in S
<1> DEFINE R == {pair \in Nat \X Nat : pair[1] < pair[2]}
<1>1. S \in SUBSET Nat
  BY ConstantsAssumption DEF Players
<1>2. IsWellFoundedOn(R, Nat)
  BY NatLessThanWellFounded DEF OpToRel
<1>3. \A p, q \in S : ~(<<q, p>> \in R) => p <= q
  BY <1>1
<1> HIDE DEF R
<1>4. \E p \in S : \A q \in S : ~(<<q, p>> \in R)
  BY <1>1, <1>2, WFMin
<1>5. \E p \in S : \A q \in S : p <= q
  BY <1>3, <1>4
<1> QED BY <1>5 DEF Lowest

LEMMA FirstFreeIn == FirstFree = -1 \/ FirstFree \in Players \ Taken
<1>1. Players \ Taken \in SUBSET Players
  OBVIOUS
<1>2. CASE Taken = Players
  BY <1>2 DEF FirstFree
<1>3. CASE Taken # Players
  <2>1. Players \ Taken # {}
    BY <1>3 DEF Taken
  <2> QED BY <1>1, <1>3, <2>1, LowestIn DEF FirstFree
<1> QED BY <1>2, <1>3

-----------------------------------------------------------------------------
(* The inductive invariant: the types and CountIsRoster, in three parts.    *)
(* The count is inductive only with the types of the slots and of the       *)
(* requests, which name the slot and the controller they are about.         *)

SlotsOK == slot \in [Players -> (Clients \X Controllers) \cup {Free}]

ServerOK ==
  /\ state \in Phases
  /\ SlotsOK
  /\ CountIsRoster
  /\ peer \in [Clients -> BOOLEAN]
  /\ cplaying \in [Clients -> Int]
  /\ cmaster \in [Clients -> BOOLEAN]
  /\ spectating \in [Clients -> {0, 1, 2}]

ClientOK ==
  /\ mode \in [Clients -> {"closed", "checking", "online"}]
  /\ cstate \in [Clients -> Phases]
  /\ port \in [Clients -> [Controllers -> Players \cup {Unplugged}]]
  /\ roster \in [Clients -> SUBSET Players]
  /\ locals \in [Clients -> SUBSET Players]
  /\ master \in [Clients -> BOOLEAN]
  /\ inMenu \in [Clients -> BOOLEAN]

RequestsOK == toServer \in [Clients -> Seq(ToServerMessage)]
RepliesOK  == toClient \in [Clients -> Seq(ToClientMessage)]

IInv == ServerOK /\ ClientOK /\ RequestsOK /\ RepliesOK

LEMMA InvariantGivesTypes == IInv => TypeOK /\ CountIsRoster
  BY TakenFinite DEF IInv, ServerOK, ClientOK, RequestsOK, RepliesOK, SlotsOK,
                     CountIsRoster, TypeOK

LEMMA ServerSame ==
  ASSUME ServerOK, UNCHANGED serverVars
  PROVE  ServerOK'
  BY DEF ServerOK, serverVars, SlotsOK, CountIsRoster, Taken

LEMMA ClientSame ==
  ASSUME ClientOK, UNCHANGED clientVars
  PROVE  ClientOK'
  BY DEF ClientOK, clientVars

\* The request a server polls.
LEMMA Polled ==
  ASSUME RequestsOK, NEW c \in Clients, NEW t, Poll(c, t)
  PROVE  /\ Request1(c) \in ToServerMessage
         /\ Request1(c).type = t
         /\ RequestsOK'
<1>1. toServer[c] \in Seq(ToServerMessage) /\ toServer[c] # <<>>
  BY DEF RequestsOK, Poll
<1>2. Head(toServer[c]) \in ToServerMessage /\ Tail(toServer[c]) \in Seq(ToServerMessage)
  BY <1>1, Queues
<1>3. toServer' = [toServer EXCEPT ![c] = Tail(toServer[c])]
  BY DEF Poll
<1>4. RequestsOK'
  BY <1>2, <1>3 DEF RequestsOK
<1> QED BY <1>2, <1>4 DEF Poll, Request1

\* What a server sends.
LEMMA Sent ==
  ASSUME RepliesOK, NEW out, Send(out),
         \A d \in Clients : out[d] \in Seq(ToClientMessage)
  PROVE  RepliesOK'
<1>1. \A d \in Clients : toClient[d] \o out[d] \in Seq(ToClientMessage)
  BY Queues DEF RepliesOK
<1> QED BY <1>1 DEF Send, RepliesOK

-----------------------------------------------------------------------------
(* Slots change hands.                                                      *)

\* A free slot is taken.
LEMMA SeatTaken ==
  ASSUME SlotsOK, CountIsRoster, NEW p \in Players, slot[p] = Free,
         NEW o \in Clients \X Controllers,
         slot' = [slot EXCEPT ![p] = o], player_count' = player_count + 1
  PROVE  SlotsOK' /\ CountIsRoster'
<1>1. o # Free
  BY ConstantsAssumption
<1>2. SlotsOK'
  BY DEF SlotsOK
<1>3. Taken' = Taken \cup {p} /\ p \notin Taken
  BY <1>1 DEF Taken, SlotsOK
<1>4. Cardinality(Taken \cup {p}) = Cardinality(Taken) + 1
  BY <1>3, TakenFinite, FS_AddElement
<1> QED BY <1>2, <1>3, <1>4 DEF CountIsRoster

\* Some slots are freed.
LEMMA SeatsFreed ==
  ASSUME SlotsOK, CountIsRoster, NEW S \in SUBSET Taken,
         slot' = [p \in Players |-> IF p \in S THEN Free ELSE slot[p]],
         player_count' = player_count - Cardinality(S)
  PROVE  SlotsOK' /\ CountIsRoster' /\ Taken' = Taken \ S
<1>1. SlotsOK'
  BY DEF SlotsOK
<1>2. Taken' = Taken \ S
  BY DEF Taken, SlotsOK
<1>3. Cardinality(Taken \ S) = Cardinality(Taken) - Cardinality(S)
  <2>1. Taken \cap S = S
    OBVIOUS
  <2> QED BY <2>1, TakenFinite, FS_Difference
<1> QED BY <1>1, <1>2, <1>3 DEF CountIsRoster

\* One slot is freed, if it was taken.
LEMMA SeatFreed ==
  ASSUME SlotsOK, CountIsRoster, NEW p \in Players,
         slot' = [slot EXCEPT ![p] = Free], player_count' = CountWithout(p)
  PROVE  SlotsOK' /\ CountIsRoster'
<1> DEFINE S == {p} \cap Taken
<1>1. slot' = [q \in Players |-> IF q \in S THEN Free ELSE slot[q]]
  BY DEF SlotsOK, Taken
<1>2. player_count' = player_count - Cardinality(S)
  <2>1. CASE p \in Taken
    <3>1. S = {p} /\ Cardinality({p}) = 1
      BY <2>1, FS_Singleton
    <3> QED BY <2>1, <3>1 DEF CountWithout
  <2>2. CASE p \notin Taken
    <3>1. S = {} /\ Cardinality({}) = 0
      BY <2>2, FS_EmptySet
    <3>2. player_count \in Int
      BY TakenFinite DEF CountIsRoster
    <3> QED BY <2>2, <3>1, <3>2 DEF CountWithout
  <2> QED BY <2>1, <2>2
<1> HIDE DEF S
<1>3. S \in SUBSET Taken
  BY DEF S
<1> QED BY <1>1, <1>2, <1>3, SeatsFreed

\* The owners of slots are clients.
LEMMA Owners ==
  ASSUME SlotsOK, NEW p \in Taken
  PROVE  slot[p] \in Clients \X Controllers /\ slot[p][1] \in Clients
  BY DEF SlotsOK, Taken

LEMMA HeirsAreClients ==
  ASSUME SlotsOK, NEW S
  PROVE  Heirs(S) \in SUBSET Clients
<1>1. CASE Taken \subseteq S
  BY <1>1 DEF Heirs
<1>2. CASE ~(Taken \subseteq S)
  <2>1. Taken \ S \in SUBSET Players /\ Taken \ S # {}
    BY <1>2 DEF Taken
  <2>2. Lowest(Taken \ S) \in Taken
    BY <2>1, LowestIn
  <2> QED BY <1>2, <2>2, Owners DEF Heirs
<1> QED BY <1>1, <1>2

-----------------------------------------------------------------------------
(* What handlers send is made of messages.                                  *)

Runs == Seq(ToClientMessage)

LEMMA RunsOfMessages ==
  /\ <<>> \in Runs
  /\ \A m \in ToClientMessage : <<m>> \in Runs
  /\ \A r, s \in Runs : r \o s \in Runs
<1>1. <<>> \in Seq(ToClientMessage)
  OBVIOUS
<1> QED BY <1>1, Queues DEF Runs

LEMMA RosterRuns ==
  ASSUME NEW S \in SUBSET Players
  PROVE  AboutSome("ADD_PLAYER", S) \in Runs /\ AboutSome("REMOVE_PLAYER", S) \in Runs
  BY RunsOfMessages, Replies DEF AboutSome

LEMMA SentRuns ==
  ASSUME RepliesOK, NEW out, Send(out), \A d \in Clients : out[d] \in Runs
  PROVE  RepliesOK'
  BY Sent DEF Runs

LEMMA SentToOne ==
  ASSUME RepliesOK, NEW c, NEW msgs \in Runs, Send(Only(c, msgs))
  PROVE  RepliesOK'
<1>1. \A d \in Clients : Only(c, msgs)[d] \in Runs
  BY RunsOfMessages DEF Only
<1> QED BY <1>1, SentRuns

LEMMA SentToEach ==
  ASSUME RepliesOK, NEW S, NEW msgs \in Runs, Send(Each(S, msgs))
  PROVE  RepliesOK'
<1>1. \A d \in Clients : Each(S, msgs)[d] \in Runs
  BY RunsOfMessages DEF Each
<1> QED BY <1>1, SentRuns

-----------------------------------------------------------------------------
(* The steps of the server.                                                 *)

LEMMA CheckIdStep ==
  ASSUME ServerOK, RequestsOK, RepliesOK, NEW c \in Clients, HandleCheckId(c)
  PROVE  ServerOK' /\ RequestsOK' /\ RepliesOK'
<1>1. <<Note("CHECK_ID")>> \in Runs /\ <<Note("CHECK_ID_FAIL")>> \in Runs
  BY Replies, RunsOfMessages
<1>2. RepliesOK'
  BY <1>1, SentToOne DEF HandleCheckId
<1> QED BY <1>2, ServerSame, Polled DEF HandleCheckId

LEMMA SpectateStep ==
  ASSUME ServerOK, RequestsOK, RepliesOK, NEW c \in Clients, HandleSpectate(c)
  PROVE  ServerOK' /\ RequestsOK' /\ RepliesOK'
<1>1. ServerOK'
  BY DEF HandleSpectate, ServerOK, SlotsOK, CountIsRoster, Taken
<1>2. <<Note("SPECTATE")>> \o AboutSome("ADD_PLAYER", Taken) \in Runs
  <2>1. Taken \in SUBSET Players
    BY DEF Taken
  <2> QED BY <2>1, RosterRuns, Replies, RunsOfMessages
<1>3. RepliesOK'
  BY <1>2, SentToOne DEF HandleSpectate
<1> QED BY <1>1, <1>3, Polled DEF HandleSpectate

LEMMA LeaveStep ==
  ASSUME ServerOK, RequestsOK, RepliesOK, NEW c \in Clients, HandleLeave(c)
  PROVE  ServerOK' /\ RequestsOK' /\ RepliesOK'
<1>1. ServerOK'
  BY DEF HandleLeave, ServerOK, SlotsOK, CountIsRoster, Taken
<1> QED BY <1>1, Polled DEF HandleLeave, RepliesOK

\* What HandleConnect knows of the request and does to the slots.
LEMMA ConnectParts ==
  ASSUME ServerOK, RequestsOK, NEW c \in Clients, HandleConnect(c)
  PROVE  LET m == Request1(c)
             p == Seat(m)
         IN  /\ state = "OFF"
             /\ m.ctrl \in Controllers /\ p \in Players
             /\ slot[p] = Free
             /\ \A q \in Players : slot[q] # <<c, m.ctrl>>
             /\ slot' = [slot EXCEPT ![p] = <<c, m.ctrl>>]
             /\ player_count' = player_count + 1
<1>1. Request1(c) \in ToServerMessage /\ Request1(c).type = "CONNECT"
  BY Polled DEF HandleConnect
<1>2. /\ Request1(c).ctrl \in Controllers
      /\ Request1(c).player \in Players \cup {-1}
  BY <1>1, RequestParts
<1>3. Acceptable(c, Request1(c))
  BY DEF HandleConnect
<1>4. Seat(Request1(c)) \in Players
  BY <1>2, <1>3, FirstFreeIn DEF Acceptable, Seat
<1>5. \A q \in Players : slot[q] # <<c, Request1(c).ctrl>>
  BY <1>2, <1>3, ConstantsAssumption DEF Acceptable, Taken
<1> QED BY <1>2, <1>3, <1>4, <1>5 DEF HandleConnect, Acceptable

LEMMA ConnectStep ==
  ASSUME ServerOK, RequestsOK, RepliesOK, NEW c \in Clients, HandleConnect(c)
  PROVE  ServerOK' /\ RequestsOK' /\ RepliesOK'
<1> DEFINE k == Request1(c).ctrl
           p == Seat(Request1(c))
           mine == <<Request("CONNECT", k, p)>>
                     \o (IF player_count = 0 THEN <<Note("ASSIGN_MASTER")>> ELSE <<>>)
                     \o <<About("ADD_PLAYER", Taken \cup {p})>>
           out == [d \in Clients |-> IF d = c THEN mine
                                     ELSE IF d \in Audience
                                          THEN <<About("ADD_PLAYER", {p})>>
                                          ELSE <<>>]
<1>1. k \in Controllers /\ p \in Players /\ slot[p] = Free
  BY ConnectParts
<1>2. SlotsOK' /\ CountIsRoster'
  <2>1. /\ slot' = [slot EXCEPT ![p] = <<c, k>>]
        /\ player_count' = player_count + 1
    BY ConnectParts
  <2>2. <<c, k>> \in Clients \X Controllers
    BY <1>1
  <2> HIDE DEF p, k
  <2> QED BY <1>1, <2>1, <2>2, SeatTaken DEF ServerOK
<1>3. ServerOK'
  BY <1>2 DEF HandleConnect, ServerOK
<1>4. Send(out)
  BY DEF HandleConnect
<1>5. \A d \in Clients : out[d] \in Runs
  <2>1. Taken \cup {p} \in SUBSET Players /\ {p} \in SUBSET Players
    BY <1>1 DEF Taken
  <2>2. <<Request("CONNECT", k, p)>> \in Runs /\ <<About("ADD_PLAYER", Taken \cup {p})>> \in Runs
    BY <1>1, <2>1, Replies, RunsOfMessages
  <2>3. mine \in Runs
    BY <2>2, Replies, RunsOfMessages
  <2>4. <<About("ADD_PLAYER", {p})>> \in Runs
    BY <2>1, Replies, RunsOfMessages
  <2> HIDE DEF mine
  <2> QED BY <2>3, <2>4, RunsOfMessages
<1> HIDE DEF out
<1>6. RepliesOK'
  BY <1>4, <1>5, SentRuns
<1> QED BY <1>3, <1>6, Polled DEF HandleConnect

LEMMA RefuseStep ==
  ASSUME ServerOK, RequestsOK, RepliesOK, NEW c \in Clients, RefuseConnect(c)
  PROVE  ServerOK' /\ RequestsOK' /\ RepliesOK'
<1>1. <<Note("CONNECT_FAIL")>> \in Runs
  BY Replies, RunsOfMessages
<1> QED BY <1>1, SentToOne, ServerSame, Polled DEF RefuseConnect

LEMMA DisconnectStep ==
  ASSUME ServerOK, RequestsOK, RepliesOK, NEW c \in Clients, HandleDisconnect(c)
  PROVE  ServerOK' /\ RequestsOK' /\ RepliesOK'
<1> DEFINE k == Request1(c).ctrl
           p == Request1(c).player
           unmaster == cmaster[c] /\ Owned(c) \subseteq {p}
           heirs == IF unmaster THEN Heirs({p}) ELSE {}
           out == [d \in Clients |->
                    (IF d = c THEN <<Request("DISCONNECT", k, -1)>> ELSE <<>>)
                    \o (IF d \in heirs THEN <<Note("ASSIGN_MASTER")>> ELSE <<>>)
                    \o (IF d \in Audience THEN <<About("REMOVE_PLAYER", {p})>> ELSE <<>>)]
<1>1. k \in Controllers /\ p \in Players
  BY Polled, RequestParts DEF HandleDisconnect
<1>2. SlotsOK' /\ CountIsRoster'
  <2>1. slot' = [slot EXCEPT ![p] = Free] /\ player_count' = CountWithout(p)
    BY DEF HandleDisconnect
  <2> HIDE DEF p
  <2> QED BY <1>1, <2>1, SeatFreed DEF ServerOK
<1>3. ServerOK'
  <2>1. cmaster' \in [Clients -> BOOLEAN]
    BY DEF HandleDisconnect, ServerOK
  <2>2. cplaying' \in [Clients -> Int]
    BY DEF HandleDisconnect, ServerOK
  <2> QED BY <1>2, <2>1, <2>2 DEF HandleDisconnect, ServerOK
<1>4. Send(out)
  BY DEF HandleDisconnect
<1>5. \A d \in Clients : out[d] \in Runs
  <2>1. {p} \in SUBSET Players
    BY <1>1
  <2>2. /\ <<Request("DISCONNECT", k, -1)>> \in Runs
        /\ <<Note("ASSIGN_MASTER")>> \in Runs
        /\ <<About("REMOVE_PLAYER", {p})>> \in Runs
    BY <1>1, <2>1, Replies, RunsOfMessages
  <2> HIDE DEF k, p, heirs
  <2> QED BY <2>2, RunsOfMessages
<1> HIDE DEF out
<1>6. RepliesOK'
  BY <1>4, <1>5, SentRuns
<1> QED BY <1>3, <1>6, Polled DEF HandleDisconnect

LEMMA OverflowStep ==
  ASSUME ServerOK, RequestsOK, RepliesOK, NEW c \in Clients, HandleOverflow(c)
  PROVE  ServerOK' /\ RequestsOK' /\ RepliesOK'
<1>1. Owned(c) \in SUBSET Taken /\ Owned(c) \in SUBSET Players
  BY DEF Owned, Taken
<1>2. SlotsOK' /\ CountIsRoster'
  <2>1. /\ slot' = [p \in Players |-> IF p \in Owned(c) THEN Free ELSE slot[p]]
        /\ player_count' = player_count - Cardinality(Owned(c))
    BY DEF HandleOverflow
  <2> QED BY <1>1, <2>1, SeatsFreed DEF ServerOK
<1>3. ServerOK'
  BY <1>2 DEF HandleOverflow, ServerOK
<1>4. RepliesOK'
  BY <1>1, RosterRuns, SentToEach DEF HandleOverflow
<1> QED BY <1>3, <1>4, Polled DEF HandleOverflow

\* START, PAUSE and RESUME.
LEMMA AdvanceStep ==
  ASSUME ServerOK, RequestsOK, RepliesOK, NEW c \in Clients,
         HandleStart(c) \/ HandlePause(c) \/ HandleResume(c)
  PROVE  ServerOK' /\ RequestsOK' /\ RepliesOK'
<1>1. PICK t \in {"START", "PAUSE", "RESUME"}, from \in Phases, to \in Phases,
           hearers \in SUBSET Clients : Advance(c, t, from, to, hearers)
  <2>1. "OFF" \in Phases /\ "PLAYING" \in Phases /\ "PAUSED" \in Phases
    BY DEF Phases
  <2>2. Audience \in SUBSET Clients /\ InGame \in SUBSET Clients
    BY DEF Audience, InGame
  <2> QED BY <2>1, <2>2 DEF HandleStart, HandlePause, HandleResume
<1>2. <<Note(t)>> \in Runs
  BY Replies, RunsOfMessages
<1>3. RepliesOK'
  <2>1. CASE state = from
    BY <1>1, <1>2, <2>1, SentToEach DEF Advance
  <2>2. CASE state # from
    BY <1>1, <2>2 DEF Advance, RepliesOK
  <2> QED BY <2>1, <2>2
<1>4. ServerOK'
  BY <1>1 DEF Advance, ServerOK, SlotsOK, CountIsRoster, Taken
<1> QED BY <1>1, <1>3, <1>4, Polled DEF Advance

LEMMA EndStep ==
  ASSUME ServerOK, RequestsOK, RepliesOK, NEW c \in Clients, HandleEnd(c)
  PROVE  ServerOK' /\ RequestsOK' /\ RepliesOK'
<1>1. <<Note("END")>> \in Runs
  BY Replies, RunsOfMessages
<1>2. RepliesOK'
  <2>1. CASE state = "OFF"
    BY <2>1 DEF HandleEnd, RepliesOK
  <2>2. CASE state # "OFF"
    BY <1>1, <2>2, SentToEach DEF HandleEnd
  <2> QED BY <2>1, <2>2
<1>3. spectating' \in [Clients -> {0, 1, 2}]
  BY DEF HandleEnd, ServerOK
<1>4. ServerOK'
  BY <1>3 DEF HandleEnd, ServerOK, SlotsOK, CountIsRoster, Taken, Phases
<1> QED BY <1>2, <1>4, Polled DEF HandleEnd

LEMMA PeerDisconnectStep ==
  ASSUME ServerOK, RequestsOK, RepliesOK, NEW c \in Clients, PeerDisconnect(c)
  PROVE  ServerOK' /\ RequestsOK' /\ RepliesOK'
<1> DEFINE gone  == Gone(c)
           left  == player_count - Cardinality(gone)
           ends  == left <= 0 /\ state # "OFF"
           heirs == IF left > 0 /\ cmaster[c] THEN Heirs(gone) ELSE {}
           out   == [d \in Clients |->
                      IF d = c THEN <<>>
                      ELSE (IF d \in Audience THEN AboutSome("REMOVE_PLAYER", gone)
                                              ELSE <<>>)
                           \o (IF ends /\ d \in InGame THEN <<Note("END")>> ELSE <<>>)
                           \o (IF d \in heirs THEN <<Note("ASSIGN_MASTER")>> ELSE <<>>)]
<1>1. gone \in SUBSET Taken /\ gone \in SUBSET Players
  BY DEF Gone, Owned, Taken
<1>2. /\ slot' = [p \in Players |-> IF p \in gone THEN Free ELSE slot[p]]
      /\ player_count' = left
      /\ state' = IF left <= 0 THEN "OFF" ELSE state
      /\ Send(out)
  BY DEF PeerDisconnect
<1>3. SlotsOK' /\ CountIsRoster'
  <2> HIDE DEF gone
  <2> QED BY <1>1, <1>2, SeatsFreed DEF ServerOK
<1>4. ServerOK'
  BY <1>2, <1>3 DEF PeerDisconnect, ServerOK, Phases
<1>5. \A d \in Clients : out[d] \in Runs
  <2>1. /\ AboutSome("REMOVE_PLAYER", gone) \in Runs
        /\ <<Note("END")>> \in Runs
        /\ <<Note("ASSIGN_MASTER")>> \in Runs
    BY <1>1, RosterRuns, Replies, RunsOfMessages
  <2> HIDE DEF gone, ends, heirs
  <2> QED BY <2>1, RunsOfMessages
<1>6. RepliesOK'
  <2> HIDE DEF out
  <2> QED BY <1>2, <1>5, SentRuns
<1>7. RequestsOK'
  <2>1. <<>> \in Seq(ToServerMessage)
    OBVIOUS
  <2> QED BY <2>1 DEF PeerDisconnect, RequestsOK
<1> QED BY <1>4, <1>6, <1>7

-----------------------------------------------------------------------------
(* The steps of a client.                                                   *)

\* The message a client polls.
LEMMA Heard ==
  ASSUME RepliesOK, NEW c \in Clients, NEW t, Receive(c, t)
  PROVE  /\ Received(c) \in ToClientMessage
         /\ Received(c).type = t
         /\ RepliesOK'
<1>1. toClient[c] \in Seq(ToClientMessage) /\ toClient[c] # <<>>
  BY DEF RepliesOK, Receive
<1>2. Head(toClient[c]) \in ToClientMessage /\ Tail(toClient[c]) \in Seq(ToClientMessage)
  BY <1>1, Queues
<1>3. toClient' = [toClient EXCEPT ![c] = Tail(toClient[c])]
  BY DEF Receive
<1>4. RepliesOK'
  BY <1>2, <1>3 DEF RepliesOK
<1> QED BY <1>2, <1>4 DEF Receive, Received

\* A request is sent, or lost.
LEMMA Asked ==
  ASSUME RequestsOK, NEW c \in Clients, NEW m \in ToServerMessage, Put(c, m)
  PROVE  RequestsOK'
<1>1. Append(toServer[c], m) \in Seq(ToServerMessage)
  BY Queues DEF RequestsOK
<1>2. toServer' = [toServer EXCEPT ![c] = IF peer[c] THEN Append(toServer[c], m)
                                          ELSE toServer[c]]
  BY DEF Put
<1> QED BY <1>1, <1>2 DEF RequestsOK

\* Requests that were not sent yet are dropped.
LEMMA Dropped ==
  ASSUME RequestsOK, NEW c \in Clients, NEW n \in 0 .. Len(toServer[c]),
         toServer' = [toServer EXCEPT ![c] = SubSeq(@, 1, n)]
  PROVE  RequestsOK'
<1>1. SubSeq(toServer[c], 1, n) \in Seq(ToServerMessage)
  BY Cut DEF RequestsOK
<1> QED BY <1>1 DEF RequestsOK

\* Nothing is under way to a client any more.
LEMMA Emptied ==
  ASSUME RepliesOK, NEW c \in Clients, toClient' = [toClient EXCEPT ![c] = <<>>]
  PROVE  RepliesOK'
<1>1. <<>> \in Seq(ToClientMessage)
  OBVIOUS
<1> QED BY <1>1 DEF RepliesOK

LEMMA ClientPollStep ==
  ASSUME IInv, NEW c \in Clients, ClientPoll(c)
  PROVE  IInv'
<1> USE DEF IInv
<1>1. CASE ReceiveCheckId(c)
  <2>1. ClientOK'
    BY <1>1 DEF ReceiveCheckId, ClientOK
  <2>2. RequestsOK'
    BY <1>1, Requests, Asked DEF ReceiveCheckId
  <2> QED BY <1>1, <2>1, <2>2, Heard, ServerSame DEF ReceiveCheckId
<1>2. CASE ReceiveCheckIdFail(c)
  <2>1. ClientOK'
    BY <1>2 DEF ReceiveCheckIdFail, ClientOK
  <2> QED BY <1>2, <2>1, Emptied, ServerSame DEF ReceiveCheckIdFail, RequestsOK
<1>3. CASE ReceiveConnect(c)
  <2>1. Received(c).ctrl \in Controllers /\ Received(c).player \in Players
    BY <1>3, Heard, ReplyParts DEF ReceiveConnect
  <2>2. ClientOK'
    BY <1>3, <2>1 DEF ReceiveConnect, ClientOK
  <2> QED BY <1>3, <2>2, Heard, ServerSame DEF ReceiveConnect, RequestsOK
<1>4. CASE ReceiveDisconnect(c)
  <2>1. Received(c).ctrl \in Controllers
    BY <1>4, Heard, ReplyParts DEF ReceiveDisconnect
  <2>2. ClientOK'
    BY <1>4, <2>1 DEF ReceiveDisconnect, ClientOK, OtherPlugged
  <2> QED BY <1>4, <2>2, Heard, ServerSame DEF ReceiveDisconnect, RequestsOK
<1>5. CASE ReceiveAddPlayer(c)
  <2>1. Received(c).players \subseteq Players
    BY <1>5, Heard, ReplyParts DEF ReceiveAddPlayer
  <2>2. ClientOK'
    BY <1>5, <2>1 DEF ReceiveAddPlayer, ClientOK
  <2> QED BY <1>5, <2>2, Heard, ServerSame DEF ReceiveAddPlayer, RequestsOK
<1>6. CASE ReceiveRemovePlayer(c)
  <2>1. ClientOK'
    BY <1>6 DEF ReceiveRemovePlayer, ClientOK
  <2> QED BY <1>6, <2>1, Heard, ServerSame DEF ReceiveRemovePlayer, RequestsOK
<1>7. CASE ReceiveAssignMaster(c)
  <2>1. ClientOK'
    BY <1>7 DEF ReceiveAssignMaster, ClientOK
  <2> QED BY <1>7, <2>1, Heard, ServerSame DEF ReceiveAssignMaster, RequestsOK
<1>8. CASE ReceiveOther(c)
  BY <1>8, Heard, ServerSame, ClientSame DEF ReceiveOther, RequestsOK
<1>9. CASE ReceiveStart(c)
  <2>1. ClientOK'
    BY <1>9 DEF ReceiveStart, ClientOK, Phases
  <2> QED BY <1>9, <2>1, Heard, ServerSame DEF ReceiveStart, RequestsOK
<1>10. CASE ReceivePause(c)
  <2>1. ClientOK'
    BY <1>10 DEF ReceivePause, ClientOK, Phases
  <2> QED BY <1>10, <2>1, Heard, ServerSame DEF ReceivePause, RequestsOK
<1>11. CASE ReceiveResume(c)
  <2>1. ClientOK'
    BY <1>11 DEF ReceiveResume, ClientOK, Phases
  <2> QED BY <1>11, <2>1, Heard, ServerSame DEF ReceiveResume, RequestsOK
<1>12. CASE ReceiveEnd(c)
  <2>1. ClientOK'
    BY <1>12 DEF ReceiveEnd, ClientOK, Phases
  <2>2. RequestsOK'
    <3>1. CASE UNCHANGED toServer
      BY <3>1 DEF RequestsOK
    <3>2. CASE Put(c, Note("START"))
      BY <3>2, Requests, Asked
    <3> QED BY <1>12, <3>1, <3>2 DEF ReceiveEnd
  <2> QED BY <1>12, <2>1, <2>2, Heard, ServerSame DEF ReceiveEnd
<1> QED BY <1>1, <1>2, <1>3, <1>4, <1>5, <1>6, <1>7, <1>8, <1>9, <1>10,
           <1>11, <1>12 DEF ClientPoll

LEMMA AskStep ==
  ASSUME IInv, NEW c \in Clients, NEW m \in ToServerMessage, Ask(c, m)
  PROVE  IInv'
<1>1. RequestsOK'
  BY Asked DEF IInv, Ask
<1> QED BY <1>1, ServerSame, ClientSame DEF IInv, Ask, RepliesOK

LEMMA UserStep ==
  ASSUME IInv, NEW c \in Clients, User(c)
  PROVE  IInv'
<1>1. CASE Connect(c)
  <2>1. ServerOK'
    BY <1>1 DEF Connect, IInv, ServerOK, SlotsOK, CountIsRoster, Taken
  <2>2. ClientOK'
    BY <1>1 DEF Connect, IInv, ClientOK
  <2>3. RequestsOK'
    <3>1. <<Note("CHECK_ID")>> \in Seq(ToServerMessage)
      <4>1. Note("CHECK_ID") \in ToServerMessage
        BY Requests
      <4>2. <<>> \in Seq(ToServerMessage)
        OBVIOUS
      <4> QED BY <4>1, <4>2, Queues
    <3> QED BY <1>1, <3>1 DEF Connect, IInv, RequestsOK
  <2> QED BY <1>1, <2>1, <2>2, <2>3, Emptied DEF Connect, IInv
<1>2. CASE Start(c) \/ Pause(c) \/ Resume(c) \/ End(c) \/ StopWatching(c) \/ FallBehind(c)
  BY <1>2, Requests, AskStep DEF Start, Pause, Resume, End, StopWatching, FallBehind
<1>3. ASSUME NEW k \in Controllers, Join(c, k)
      PROVE  IInv'
  BY <1>3, Requests, AskStep DEF Join
<1>4. ASSUME NEW k \in Controllers, Back(c, k)
      PROVE  IInv'
  <2>1. port[c][k] \in Players
    BY <1>4 DEF Back, IInv, ClientOK
  <2> QED BY <1>4, <2>1, Requests, AskStep DEF Back
<1>5. ASSUME NEW k \in Controllers, EarlyJoin(c, k)
      PROVE  IInv'
  <2>1. Lowest(Players \ roster[c]) \in Players
    <3>1. Players \ roster[c] \in SUBSET Players /\ Players \ roster[c] # {}
      BY <1>5 DEF EarlyJoin
    <3> QED BY <3>1, LowestIn
  <2>2. ClientOK'
    BY <1>5, <2>1 DEF EarlyJoin, IInv, ClientOK
  <2> QED BY <1>5, <2>2, ServerSame DEF EarlyJoin, IInv, RequestsOK, RepliesOK
<1>6. CASE Leave(c)
  <2>1. ClientOK'
    BY <1>6 DEF Leave, IInv, ClientOK
  <2>2. RequestsOK'
    BY <1>6, Dropped DEF Leave, IInv
  <2> QED BY <1>6, <2>1, <2>2, Emptied, ServerSame DEF Leave, IInv
<1>7. CASE ClientLost(c)
  <2>1. ClientOK'
    BY <1>7 DEF ClientLost, IInv, ClientOK, Phases
  <2>2. RequestsOK'
    BY <1>7, Dropped DEF ClientLost, IInv
  <2> QED BY <1>7, <2>1, <2>2, Emptied, ServerSame DEF ClientLost, IInv
<1> QED BY <1>1, <1>2, <1>3, <1>4, <1>5, <1>6, <1>7 DEF User

-----------------------------------------------------------------------------
(* The invariant.                                                           *)

LEMMA InitInvariant ==
  ASSUME Init
  PROVE  IInv
<1>1. ServerOK
  <2>1. Taken = {}
    BY DEF Init, Taken
  <2>2. CountIsRoster
    BY <2>1, FS_EmptySet DEF Init, CountIsRoster
  <2> QED BY <2>2 DEF Init, ServerOK, SlotsOK, Phases
<1>2. ClientOK
  BY DEF Init, ClientOK, Phases
<1>3. RequestsOK /\ RepliesOK
  <2>1. <<>> \in Seq(ToServerMessage) /\ <<>> \in Seq(ToClientMessage)
    OBVIOUS
  <2> QED BY <2>1 DEF Init, RequestsOK, RepliesOK
<1> QED BY <1>1, <1>2, <1>3 DEF IInv

LEMMA NextInvariant ==
  ASSUME IInv, [Next]_vars
  PROVE  IInv'
<1>1. ASSUME NEW c \in Clients, ServerPoll(c)
      PROVE  IInv'
  <2>1. ServerOK' /\ RequestsOK' /\ RepliesOK'
    BY <1>1, CheckIdStep, SpectateStep, LeaveStep, ConnectStep, RefuseStep,
       DisconnectStep, OverflowStep, AdvanceStep, EndStep DEF ServerPoll, IInv
  <2>2. UNCHANGED clientVars
    BY <1>1 DEF ServerPoll, HandleCheckId, HandleSpectate, HandleLeave,
                HandleConnect, RefuseConnect, HandleDisconnect, HandleOverflow,
                HandleStart, HandlePause, HandleResume, Advance, HandleEnd
  <2> QED BY <2>1, <2>2, ClientSame DEF IInv
<1>2. ASSUME NEW c \in Clients, PeerDisconnect(c)
      PROVE  IInv'
  <2>1. ServerOK' /\ RequestsOK' /\ RepliesOK'
    BY <1>2, PeerDisconnectStep DEF IInv
  <2>2. UNCHANGED clientVars
    BY <1>2 DEF PeerDisconnect
  <2> QED BY <2>1, <2>2, ClientSame DEF IInv
<1>3. CASE UNCHANGED vars
  BY <1>3, ServerSame, ClientSame DEF vars, IInv, RequestsOK, RepliesOK
<1> QED BY <1>1, <1>2, <1>3, ClientPollStep, UserStep DEF Next

LEMMA Invariant == Spec => []IInv
  BY InitInvariant, NextInvariant, PTL DEF Spec

(* Whatever clients and network do, every variable keeps its type: no       *)
(* handler leaves a slot, a port or a queue holding what it should not.     *)
THEOREM TypeCorrect == Spec => []TypeOK
<1>1. IInv => TypeOK
  BY InvariantGivesTypes
<1> QED BY <1>1, Invariant, PTL

(* player_count, which the handlers keep by increments, is always the       *)
(* number of players that are playing.                                      *)
THEOREM CountCorrect == Spec => []CountIsRoster
<1>1. IInv => CountIsRoster
  BY InvariantGivesTypes
<1> QED BY <1>1, Invariant, PTL

-----------------------------------------------------------------------------
(* The server implements GameLobby.  Most steps leave state and slots       *)
(* alone; those that do not are steps of the lobby.                         *)

LobbyStep == Lobby!Next \/ UNCHANGED <<state, slot>>

LEMMA ConnectSits ==
  ASSUME IInv, NEW c \in Clients, HandleConnect(c)
  PROVE  LobbyStep
<1> DEFINE o == <<c, Request1(c).ctrl>>
           p == Seat(Request1(c))
<1>1. /\ p \in Players /\ o \in Clients \X Controllers
      /\ state = "OFF" /\ slot[p] = Free
      /\ \A q \in Players : slot[q] # o
      /\ slot' = [slot EXCEPT ![p] = o]
  BY ConnectParts DEF IInv
<1>2. UNCHANGED state
  BY DEF HandleConnect
<1> HIDE DEF o, p
<1>3. Lobby!SitDown(o, p)
  BY <1>1, <1>2 DEF Lobby!SitDown, Lobby!Players, Players
<1>4. o \in Lobby!Occupants /\ p \in Lobby!Players
  BY <1>1 DEF Lobby!Occupants, Lobby!Players, Players
<1> QED BY <1>3, <1>4 DEF LobbyStep, Lobby!Next

\* Freeing slots is getting up.
LEMMA FreedGetUp ==
  ASSUME NEW S \in SUBSET Players,
         slot' = [p \in Players |-> IF p \in S THEN Free ELSE slot[p]],
         \/ UNCHANGED state
         \/ state' = "OFF" /\ \A p \in Players : slot'[p] = Free
  PROVE  LobbyStep
<1>1. Lobby!Players = Players
  BY DEF Lobby!Players, Players
<1>2. Lobby!GetUp(S)
  BY <1>1 DEF Lobby!GetUp
<1> QED BY <1>1, <1>2 DEF LobbyStep, Lobby!Next

LEMMA DisconnectGetsUp ==
  ASSUME IInv, NEW c \in Clients, HandleDisconnect(c)
  PROVE  LobbyStep
<1> DEFINE p == Request1(c).player
<1>1. p \in Players
  BY Polled, RequestParts DEF HandleDisconnect, IInv
<1>2. slot' = [slot EXCEPT ![p] = Free] /\ UNCHANGED state
  BY DEF HandleDisconnect
<1> HIDE DEF p
<1>3. slot' = [q \in Players |-> IF q \in {p} THEN Free ELSE slot[q]]
  BY <1>2 DEF IInv, ServerOK, SlotsOK
<1> QED BY <1>1, <1>2, <1>3, FreedGetUp

LEMMA OverflowGetsUp ==
  ASSUME NEW c \in Clients, HandleOverflow(c)
  PROVE  LobbyStep
<1>1. Owned(c) \in SUBSET Players
  BY DEF Owned, Taken
<1> QED BY <1>1, FreedGetUp DEF HandleOverflow

\* When nobody is left by player_count nobody is left on the slots.
LEMMA PeerDisconnectGetsUp ==
  ASSUME IInv, NEW c \in Clients, PeerDisconnect(c)
  PROVE  LobbyStep
<1> DEFINE gone == Gone(c)
           left == player_count - Cardinality(gone)
<1>1. gone \in SUBSET Taken /\ gone \in SUBSET Players
  BY DEF Gone, Owned, Taken
<1>2. /\ slot' = [p \in Players |-> IF p \in gone THEN Free ELSE slot[p]]
      /\ player_count' = left
      /\ state' = IF left <= 0 THEN "OFF" ELSE state
  BY DEF PeerDisconnect
<1> HIDE DEF gone
<1>3. CountIsRoster'
  BY <1>1, <1>2, SeatsFreed DEF IInv, ServerOK
<1>4. left <= 0 => \A p \in Players : slot'[p] = Free
  <2> SUFFICES ASSUME left <= 0
               PROVE  \A p \in Players : slot'[p] = Free
    OBVIOUS
  <2>1. Taken' = Taken \ gone
    BY <1>1, <1>2, SeatsFreed DEF IInv, ServerOK
  <2>2. IsFiniteSet(Taken \ gone) /\ Cardinality(Taken \ gone) \in Nat
    BY TakenFinite, FS_Difference, FS_CardinalityType
  <2>3. Cardinality(Taken \ gone) <= 0
    BY <1>2, <1>3, <2>1 DEF CountIsRoster
  <2>4. Taken \ gone = {}
    BY <2>2, <2>3, FS_EmptySet
  <2>5. Taken' = {}
    BY <2>1, <2>4
  <2> QED BY <2>5 DEF Taken
<1>5. \/ UNCHANGED state
      \/ state' = "OFF" /\ \A p \in Players : slot'[p] = Free
  BY <1>2, <1>4
<1> QED BY <1>1, <1>2, <1>5, FreedGetUp

LEMMA PhaseSteps ==
  ASSUME IInv, NEW c \in Clients,
         HandleStart(c) \/ HandlePause(c) \/ HandleResume(c) \/ HandleEnd(c)
  PROVE  LobbyStep
<1>1. CASE HandleStart(c)
  BY <1>1 DEF HandleStart, Advance, LobbyStep, Lobby!Next, Lobby!StartGame
<1>2. CASE HandlePause(c)
  BY <1>2 DEF HandlePause, Advance, LobbyStep, Lobby!Next, Lobby!PauseGame
<1>3. CASE HandleResume(c)
  BY <1>3 DEF HandleResume, Advance, LobbyStep, Lobby!Next, Lobby!ResumeGame
<1>4. CASE HandleEnd(c)
  BY <1>4 DEF HandleEnd, LobbyStep, Lobby!Next, Lobby!EndGame
<1> QED BY <1>1, <1>2, <1>3, <1>4

LEMMA NextIsLobbyStep ==
  ASSUME IInv, [Next]_vars
  PROVE  LobbyStep
<1>1. ASSUME NEW c \in Clients, ServerPoll(c)
      PROVE  LobbyStep
  <2>1. CASE HandleCheckId(c) \/ HandleSpectate(c) \/ HandleLeave(c) \/ RefuseConnect(c)
    BY <2>1 DEF HandleCheckId, HandleSpectate, HandleLeave, RefuseConnect, serverVars, LobbyStep
  <2> QED BY <1>1, <2>1, ConnectSits, DisconnectGetsUp, OverflowGetsUp, PhaseSteps
          DEF ServerPoll
<1>2. ASSUME NEW c \in Clients, ClientPoll(c)
      PROVE  LobbyStep
  BY <1>2 DEF ClientPoll, ReceiveCheckId, ReceiveCheckIdFail, ReceiveConnect,
              ReceiveDisconnect, ReceiveAddPlayer, ReceiveRemovePlayer,
              ReceiveAssignMaster, ReceiveOther, ReceiveStart, ReceivePause,
              ReceiveResume, ReceiveEnd, serverVars, LobbyStep
<1>3. ASSUME NEW c \in Clients, User(c)
      PROVE  LobbyStep
  BY <1>3 DEF User, Connect, Start, Pause, Resume, End, StopWatching, FallBehind,
              Leave, ClientLost, Join, EarlyJoin, Back, Ask, serverVars, LobbyStep
<1>4. CASE UNCHANGED vars
  BY <1>4 DEF vars, serverVars, LobbyStep
<1> QED BY <1>1, <1>2, <1>3, <1>4, PeerDisconnectGetsUp DEF Next

(* The server is a GameLobby: players sit down only on free slots and only  *)
(* between games, and a game that is called off leaves every slot free.     *)
THEOREM LobbyImplemented == Spec => LobbySpec
<1>1. Init => Lobby!Init
  BY DEF Init, Lobby!Init, Lobby!Players, Players
<1>2. IInv /\ [Next]_vars => [Lobby!Next]_Lobby!vars
  BY NextIsLobbyStep DEF LobbyStep, Lobby!vars
<1> QED BY <1>1, <1>2, Invariant, PTL DEF Spec, LobbySpec, Lobby!Spec

(* No player joins, and no slot changes hands, while a game is on.          *)
THEOREM NobodyJoinsInProgress == Spec => NoJoinInProgress
<1>1. IInv /\ [Next]_vars =>
        [state # "OFF" => \A p \in Players : slot'[p] \in {slot[p], Free}]_vars
  <2> SUFFICES ASSUME IInv, [Next]_vars, state # "OFF", NEW p \in Players
               PROVE  slot'[p] \in {slot[p], Free}
    OBVIOUS
  <2>1. LobbyStep
    BY NextIsLobbyStep
  <2>2. Lobby!Players = Players
    BY DEF Lobby!Players, Players
  <2> QED BY <2>1, <2>2 DEF LobbyStep, Lobby!Next, Lobby!SitDown, Lobby!GetUp,
             Lobby!StartGame, Lobby!PauseGame, Lobby!ResumeGame, Lobby!EndGame
<1> QED BY <1>1, Invariant, PTL DEF Spec, NoJoinInProgress

(* No controller of any client ever plays two slots, so one frame of its    *)
(* buttons never moves two players.                                         *)
THEOREM OneSlotEach == Spec => []Lobby!OneSeatEach
<1>1. Init => Lobby!OneSeatEach
  BY DEF Init, Lobby!OneSeatEach, Lobby!Players, Players
<1>2. IInv /\ Lobby!OneSeatEach /\ [Next]_vars => Lobby!OneSeatEach'
  <2> SUFFICES ASSUME IInv, Lobby!OneSeatEach, [Next]_vars
               PROVE  Lobby!OneSeatEach'
    OBVIOUS
  <2>1. LobbyStep
    BY NextIsLobbyStep
  <2>2. Lobby!Players = Players
    BY DEF Lobby!Players, Players
  <2>3. CASE UNCHANGED slot
    BY <2>3 DEF Lobby!OneSeatEach
  <2>4. ASSUME NEW o, NEW p \in Players, Lobby!SitDown(o, p)
        PROVE  Lobby!OneSeatEach'
    BY <2>2, <2>4 DEF IInv, ServerOK, SlotsOK, Lobby!SitDown, Lobby!OneSeatEach
  <2>5. ASSUME NEW S \in SUBSET Players, Lobby!GetUp(S)
        PROVE  Lobby!OneSeatEach'
    BY <2>2, <2>5 DEF Lobby!GetUp, Lobby!OneSeatEach
  <2> QED BY <2>1, <2>2, <2>3, <2>4, <2>5 DEF LobbyStep, Lobby!Next,
             Lobby!StartGame, Lobby!PauseGame, Lobby!ResumeGame, Lobby!EndGame
<1> QED BY <1>1, <1>2, Invariant, PTL DEF Spec

-----------------------------------------------------------------------------
(* Orderly users.                                                           *)

\* They press back once and wait for the answer, join only when the server has
\* accepted them, and do not fall max_buffer_frames behind.  Connections may
\* break on either side, clients may leave and stop watching, versions may
\* differ.  (With the other behaviours the run session_users shows that only
\* player_count remains right.)
Orderly == Behaviours \cap {"repeat_back", "early_join", "overflow"} = {}

-----------------------------------------------------------------------------
(* What is under way about the seats of a client.                           *)

In(s) == {s[i] : i \in 1 .. Len(s)}

AboutSeat(m) == m.type \in {"CONNECT", "DISCONNECT"}

\* After a request to leave a seat nothing more is asked about that controller.
LastWord(s) == \A i, j \in 1 .. Len(s) :
  i < j /\ s[i].type = "DISCONNECT" /\ AboutSeat(s[j]) => s[i].ctrl # s[j].ctrl

\* Each controller has one answer under way at most.
OneWord(s) == \A i, j \in 1 .. Len(s) :
  i < j /\ AboutSeat(s[i]) /\ AboutSeat(s[j]) => s[i].ctrl # s[j].ctrl

\* Client c asks in q to leave only slots it holds in sl, and to lose none.
RequestsFit(c, q, sl) ==
  /\ LastWord(q)
  /\ \A m \in In(q) : m.type # "INPUT_OVERFLOW"
  /\ \A m \in In(q) : m.type = "DISCONNECT" => sl[m.player] = <<c, m.ctrl>>

\* The ports po of client c, once the answers r have arrived, are slots it
\* holds in sl, and it asks in q to leave none twice.
ControlsFit(c, q, r, po, sl) ==
  /\ OneWord(r)
  /\ \A m \in In(q) : m.type = "DISCONNECT" => po[m.ctrl] # Unplugged
  /\ \A m \in In(r) : m.type = "CONNECT" =>
       sl[m.player] = <<c, m.ctrl>> /\ po[m.ctrl] = Unplugged
  /\ \A m \in In(r) : m.type = "DISCONNECT" =>
       /\ po[m.ctrl] # Unplugged
       /\ \A n \in In(q) : AboutSeat(n) => n.ctrl # m.ctrl
  /\ \A k \in Controllers :
       /\ po[k] # Unplugged
       /\ \A m \in In(r) : m.type = "DISCONNECT" => m.ctrl # k
       => sl[po[k]] = <<c, k>>

Linked(c) == peer[c] /\ mode[c] # "closed"

Fit(c) ==
  /\ RequestsFit(c, toServer[c], slot)
  /\ Linked(c) => ControlsFit(c, toServer[c], toClient[c], port[c], slot)

SeatsFit == \A c \in Clients : Fit(c)

Books ==
  /\ SeatsAccounted
  /\ \A c \in Clients : ~peer[c] => cplaying[c] = 0 /\ toServer[c] = <<>>
  /\ \A c \in Clients : cmaster[c] => Owned(c) # {}
  /\ OneMaster

-----------------------------------------------------------------------------
(* The phase a client is in once it has read the first n messages of s,     *)
(* when on says whether it is in a game now.                                *)
Running(s, n, on) ==
  \/ \E i \in 1 .. n : s[i].type = "START" /\ \A j \in i + 1 .. n : s[j].type # "END"
  \/ on /\ \A j \in 1 .. n : s[j].type # "END"

\* No pause or resume is read out of a game.
PausesFit(s, on) == \A i \in 1 .. Len(s) :
  s[i].type \in {"PAUSE", "RESUME"} => Running(s, i, on)

PhaseFit(c) ==
  mode[c] # "closed" =>
    /\ PausesFit(toClient[c], cstate[c] # "OFF")
    /\ c \in InGame /\ state # "OFF" =>
         Running(toClient[c], Len(toClient[c]), cstate[c] # "OFF")

PhasesFit == \A c \in Clients : PhaseFit(c)

SeatInv == SeatsFit /\ Books /\ PhasesFit

-----------------------------------------------------------------------------
(* Queues.                                                                  *)

LEMMA InEmpty == In(<<>>) = {}
  BY DEF In

LEMMA InOne ==
  ASSUME NEW m
  PROVE  In(<<m>>) = {m}
  BY DEF In

LEMMA InConcat ==
  ASSUME NEW M, NEW s \in Seq(M), NEW t \in Seq(M)
  PROVE  In(s \o t) = In(s) \cup In(t)
<1>1. /\ Len(s) \in Nat /\ Len(t) \in Nat
      /\ Len(s \o t) = Len(s) + Len(t)
      /\ \A i \in 1 .. Len(s) + Len(t) :
           (s \o t)[i] = IF i <= Len(s) THEN s[i] ELSE t[i - Len(s)]
  BY ConcatProperties, LenProperties
<1>2. ASSUME NEW i \in 1 .. Len(s) PROVE s[i] \in In(s \o t)
  <2>1. i \in 1 .. Len(s) + Len(t) /\ (s \o t)[i] = s[i]
    BY <1>1
  <2> QED BY <1>1, <2>1 DEF In
<1>3. ASSUME NEW i \in 1 .. Len(t) PROVE t[i] \in In(s \o t)
  <2>1. i + Len(s) \in 1 .. Len(s) + Len(t) /\ (s \o t)[i + Len(s)] = t[i]
    BY <1>1
  <2> QED BY <1>1, <2>1 DEF In
<1>4. ASSUME NEW i \in 1 .. Len(s) + Len(t) PROVE (s \o t)[i] \in In(s) \cup In(t)
  <2>1. CASE i <= Len(s)
    <3>1. i \in 1 .. Len(s) /\ (s \o t)[i] = s[i]
      BY <1>1, <2>1
    <3> QED BY <3>1 DEF In
  <2>2. CASE ~(i <= Len(s))
    <3>1. i - Len(s) \in 1 .. Len(t) /\ (s \o t)[i] = t[i - Len(s)]
      BY <1>1, <2>2
    <3> QED BY <3>1 DEF In
  <2> QED BY <2>1, <2>2
<1> QED BY <1>1, <1>2, <1>3, <1>4 DEF In

LEMMA LongerConcat ==
  ASSUME NEW M, NEW s \in Seq(M), NEW t \in Seq(M)
  PROVE  Len(s \o t) \in Len(s) .. Len(s \o t)
<1>1. Len(s) \in Nat /\ Len(t) \in Nat /\ Len(s \o t) = Len(s) + Len(t)
  BY ConcatProperties, LenProperties
<1> QED BY <1>1

LEMMA AppendedOne ==
  ASSUME NEW M, NEW s \in Seq(M), NEW m \in M
  PROVE  Append(s, m) = s \o <<m>> /\ <<m>> \in Seq(M)
  BY AppendProperties

LEMMA QueueOfOne ==
  ASSUME NEW M, NEW m \in M
  PROVE  <<m>> \in Seq(M)
<1>1. <<>> \in Seq(M)
  OBVIOUS
<1> QED BY <1>1, Queues

LEMMA InConcatOne ==
  ASSUME NEW M, NEW s \in Seq(M), NEW m \in M
  PROVE  In(s \o <<m>>) = In(s) \cup {m}
<1>1. <<m>> \in Seq(M)
  BY AppendedOne
<1>2. In(s \o <<m>>) = In(s) \cup In(<<m>>)
  BY <1>1, InConcat
<1> QED BY <1>2, InOne

LEMMA Tails ==
  ASSUME NEW M, NEW s \in Seq(M), s # <<>>
  PROVE  /\ Len(s) \in Nat \ {0} /\ Len(Tail(s)) = Len(s) - 1
         /\ Head(s) = s[1]
         /\ \A i \in 1 .. Len(Tail(s)) : i + 1 \in 1 .. Len(s) /\ Tail(s)[i] = s[i + 1]
         /\ Head(s) \in In(s)
         /\ In(Tail(s)) \subseteq In(s)
         /\ In(s) = {Head(s)} \cup In(Tail(s))
<1>1. /\ Len(s) \in Nat \ {0} /\ Len(Tail(s)) = Len(s) - 1
      /\ Head(s) = s[1]
      /\ \A i \in 1 .. Len(Tail(s)) : Tail(s)[i] = s[i + 1]
  BY HeadTailProperties, EmptySeq
<1>2. \A i \in 1 .. Len(Tail(s)) : i + 1 \in 1 .. Len(s)
  BY <1>1
<1>3. s[1] \in In(s)
  BY <1>1 DEF In
<1>4. In(Tail(s)) \subseteq In(s)
  BY <1>1, <1>2 DEF In
<1>5. ASSUME NEW i \in 1 .. Len(s), i # 1 PROVE s[i] \in In(Tail(s))
  <2>1. i - 1 \in 1 .. Len(Tail(s)) /\ Tail(s)[i - 1] = s[i]
    BY <1>1, <1>5
  <2> QED BY <2>1 DEF In
<1> QED BY <1>1, <1>2, <1>3, <1>4, <1>5 DEF In

LEMMA Cuts ==
  ASSUME NEW M, NEW s \in Seq(M), NEW n \in 0 .. Len(s)
  PROVE  /\ Len(SubSeq(s, 1, n)) = n
         /\ \A i \in 1 .. n : i \in 1 .. Len(s) /\ SubSeq(s, 1, n)[i] = s[i]
         /\ In(SubSeq(s, 1, n)) \subseteq In(s)
<1>1. /\ Len(s) \in Nat /\ n \in Nat
      /\ \A i \in 1 .. n : i \in 1 .. Len(s) /\ s[i] \in M
  BY LenProperties, ElementOfSeq
<1>2. Len(SubSeq(s, 1, n)) = n /\ \A i \in 1 .. n : SubSeq(s, 1, n)[i] = s[i]
  BY <1>1, SubSeqProperties
<1> QED BY <1>1, <1>2 DEF In

LEMMA InMessages ==
  ASSUME NEW M, NEW s \in Seq(M)
  PROVE  In(s) \subseteq M
  BY ElementOfSeq DEF In

-----------------------------------------------------------------------------
(* Last words.                                                              *)

LEMMA LastWordTail ==
  ASSUME NEW M, NEW s \in Seq(M), s # <<>>, LastWord(s)
  PROVE  /\ LastWord(Tail(s))
         /\ Head(s).type = "DISCONNECT" =>
              \A m \in In(Tail(s)) : AboutSeat(m) => m.ctrl # Head(s).ctrl
<1>1. /\ Len(s) \in Nat \ {0} /\ Len(Tail(s)) = Len(s) - 1 /\ Head(s) = s[1]
      /\ \A i \in 1 .. Len(Tail(s)) : i + 1 \in 1 .. Len(s) /\ Tail(s)[i] = s[i + 1]
  BY Tails
<1>2. LastWord(Tail(s))
  <2> SUFFICES ASSUME NEW i \in 1 .. Len(Tail(s)), NEW j \in 1 .. Len(Tail(s)), i < j,
                      Tail(s)[i].type = "DISCONNECT", AboutSeat(Tail(s)[j])
               PROVE  Tail(s)[i].ctrl # Tail(s)[j].ctrl
    BY DEF LastWord
  <2>1. i + 1 < j + 1 /\ i + 1 \in 1 .. Len(s) /\ j + 1 \in 1 .. Len(s)
    BY <1>1
  <2> QED BY <1>1, <2>1 DEF LastWord
<1>3. ASSUME Head(s).type = "DISCONNECT", NEW i \in 1 .. Len(Tail(s)), AboutSeat(Tail(s)[i])
      PROVE  Tail(s)[i].ctrl # Head(s).ctrl
  <2>1. 1 < i + 1 /\ 1 \in 1 .. Len(s)
    BY <1>1
  <2> QED BY <1>1, <1>3, <2>1 DEF LastWord
<1> QED BY <1>2, <1>3 DEF In

LEMMA LastWordCut ==
  ASSUME NEW M, NEW s \in Seq(M), LastWord(s), NEW n \in 0 .. Len(s)
  PROVE  LastWord(SubSeq(s, 1, n))
  BY Cuts DEF LastWord

LEMMA LastWordAppend ==
  ASSUME NEW M, NEW s \in Seq(M), LastWord(s), NEW m \in M,
         AboutSeat(m) => \A l \in In(s) : l.type = "DISCONNECT" => l.ctrl # m.ctrl
  PROVE  LastWord(Append(s, m))
<1>1. /\ Len(s) \in Nat /\ Len(Append(s, m)) = Len(s) + 1
      /\ \A i \in 1 .. Len(s) : Append(s, m)[i] = s[i]
      /\ Append(s, m)[Len(s) + 1] = m
  BY AppendProperties, LenProperties
<1> SUFFICES ASSUME NEW i \in 1 .. Len(s) + 1, NEW j \in 1 .. Len(s) + 1, i < j,
                    Append(s, m)[i].type = "DISCONNECT", AboutSeat(Append(s, m)[j])
             PROVE  Append(s, m)[i].ctrl # Append(s, m)[j].ctrl
  BY <1>1 DEF LastWord
<1>2. i \in 1 .. Len(s) /\ Append(s, m)[i] = s[i]
  BY <1>1
<1>3. CASE j = Len(s) + 1
  BY <1>1, <1>2, <1>3 DEF In
<1>4. CASE j # Len(s) + 1
  <2>1. j \in 1 .. Len(s) /\ Append(s, m)[j] = s[j]
    BY <1>1, <1>4
  <2> QED BY <1>2, <2>1 DEF LastWord
<1> QED BY <1>3, <1>4

LEMMA OneWordTail ==
  ASSUME NEW M, NEW s \in Seq(M), s # <<>>, OneWord(s)
  PROVE  /\ OneWord(Tail(s))
         /\ AboutSeat(Head(s)) =>
              \A m \in In(Tail(s)) : AboutSeat(m) => m.ctrl # Head(s).ctrl
<1>1. /\ Len(s) \in Nat \ {0} /\ Len(Tail(s)) = Len(s) - 1 /\ Head(s) = s[1]
      /\ \A i \in 1 .. Len(Tail(s)) : i + 1 \in 1 .. Len(s) /\ Tail(s)[i] = s[i + 1]
  BY Tails
<1>2. OneWord(Tail(s))
  <2> SUFFICES ASSUME NEW i \in 1 .. Len(Tail(s)), NEW j \in 1 .. Len(Tail(s)), i < j,
                      AboutSeat(Tail(s)[i]), AboutSeat(Tail(s)[j])
               PROVE  Tail(s)[i].ctrl # Tail(s)[j].ctrl
    BY DEF OneWord
  <2>1. i + 1 < j + 1 /\ i + 1 \in 1 .. Len(s) /\ j + 1 \in 1 .. Len(s)
    BY <1>1
  <2> QED BY <1>1, <2>1 DEF OneWord
<1>3. ASSUME AboutSeat(Head(s)), NEW i \in 1 .. Len(Tail(s)), AboutSeat(Tail(s)[i])
      PROVE  Tail(s)[i].ctrl # Head(s).ctrl
  <2>1. 1 < i + 1 /\ 1 \in 1 .. Len(s)
    BY <1>1
  <2> QED BY <1>1, <1>3, <2>1 DEF OneWord
<1> QED BY <1>2, <1>3 DEF In

LEMMA OneWordConcat ==
  ASSUME NEW M, NEW s \in Seq(M), NEW t \in Seq(M), OneWord(s), OneWord(t),
         \A m \in In(s), n \in In(t) : AboutSeat(m) /\ AboutSeat(n) => m.ctrl # n.ctrl
  PROVE  OneWord(s \o t)
<1>1. /\ Len(s) \in Nat /\ Len(t) \in Nat
      /\ Len(s \o t) = Len(s) + Len(t)
      /\ \A i \in 1 .. Len(s) + Len(t) :
           (s \o t)[i] = IF i <= Len(s) THEN s[i] ELSE t[i - Len(s)]
  BY ConcatProperties, LenProperties
<1> SUFFICES ASSUME NEW i \in 1 .. Len(s) + Len(t), NEW j \in 1 .. Len(s) + Len(t), i < j,
                    AboutSeat((s \o t)[i]), AboutSeat((s \o t)[j])
             PROVE  (s \o t)[i].ctrl # (s \o t)[j].ctrl
  BY <1>1 DEF OneWord
<1>2. CASE j <= Len(s)
  <2>1. i \in 1 .. Len(s) /\ j \in 1 .. Len(s) /\ (s \o t)[i] = s[i] /\ (s \o t)[j] = s[j]
    BY <1>1, <1>2
  <2> QED BY <2>1 DEF OneWord
<1>3. CASE i <= Len(s) /\ ~(j <= Len(s))
  <2>1. /\ i \in 1 .. Len(s) /\ j - Len(s) \in 1 .. Len(t)
        /\ (s \o t)[i] = s[i] /\ (s \o t)[j] = t[j - Len(s)]
    BY <1>1, <1>3
  <2>2. s[i] \in In(s) /\ t[j - Len(s)] \in In(t)
    BY <2>1 DEF In
  <2> QED BY <2>1, <2>2
<1>4. CASE ~(i <= Len(s))
  <2>1. /\ i - Len(s) \in 1 .. Len(t) /\ j - Len(s) \in 1 .. Len(t)
        /\ i - Len(s) < j - Len(s)
        /\ (s \o t)[i] = t[i - Len(s)] /\ (s \o t)[j] = t[j - Len(s)]
    BY <1>1, <1>4
  <2> QED BY <2>1 DEF OneWord
<1> QED BY <1>2, <1>3, <1>4

-----------------------------------------------------------------------------
(* What keeps the requests and the controls of a client in order.           *)

Queue(q)   == q \in Seq(ToServerMessage)
Answers(r) == r \in Seq(ToClientMessage)
Ports(po)  == po \in [Controllers -> Players \cup {Unplugged}]

\* sl2 still holds what client c holds in sl.
Spares(c, sl, sl2) == \A k \in Controllers, p \in Players :
  sl[p] = <<c, k>> => sl2[p] = <<c, k>>

\* The messages of r say nothing of seats.
NotSeats(r) == \A m \in In(r) : ~AboutSeat(m)

\* The messages of t answer one question about a seat, by m.
OnlySeat(t, m) ==
  m \in In(t) /\ OneWord(t) /\ \A n \in In(t) : AboutSeat(n) => n = m

LEMMA OnlySeatAlone ==
  ASSUME NEW m \in ToClientMessage
  PROVE  Answers(<<m>>) /\ OnlySeat(<<m>>, m)
<1>1. Answers(<<m>>)
  BY QueueOfOne DEF Answers
<1> QED BY <1>1, InOne DEF OnlySeat, OneWord

LEMMA OnlySeatMore ==
  ASSUME NEW m, NEW t, NEW s, Answers(t), Answers(s), OnlySeat(t, m), NotSeats(s)
  PROVE  Answers(t \o s) /\ OnlySeat(t \o s, m)
<1>1. Answers(t \o s) /\ In(t \o s) = In(t) \cup In(s)
  BY InConcat, ConcatProperties DEF Answers
<1>2. OneWord(s)
  BY DEF NotSeats, OneWord, In
<1>3. OneWord(t \o s)
  BY <1>2, OneWordConcat DEF OnlySeat, NotSeats, Answers
<1> QED BY <1>1, <1>3 DEF OnlySeat, NotSeats

LEMMA PartsOfQueue ==
  ASSUME NEW q, Queue(q), NEW m \in In(q), AboutSeat(m)
  PROVE  /\ m.ctrl \in Controllers
         /\ m.type = "DISCONNECT" => m.player \in Players
<1>1. m \in ToServerMessage
  BY InMessages DEF Queue
<1> QED BY <1>1, RequestParts DEF AboutSeat

LEMMA InAsked ==
  ASSUME NEW q, Queue(q), NEW m \in ToServerMessage
  PROVE  In(Append(q, m)) = In(q) \cup {m}
<1>1. q \in Seq(ToServerMessage)
  BY DEF Queue
<1>2. Append(q, m) = q \o <<m>>
  BY <1>1, AppendedOne
<1>3. In(q \o <<m>>) = In(q) \cup {m}
  BY <1>1, InConcatOne
<1> QED BY <1>2, <1>3

LEMMA PartsOfAnswers ==
  ASSUME NEW r, Answers(r), NEW m \in In(r), AboutSeat(m)
  PROVE  /\ m.ctrl \in Controllers
         /\ m.type = "CONNECT" => m.player \in Players
<1>1. m \in ToClientMessage
  BY InMessages DEF Answers
<1> QED BY <1>1, ReplyParts DEF AboutSeat

LEMMA RequestsSpared ==
  ASSUME NEW c, NEW q, NEW sl, NEW sl2, Queue(q), RequestsFit(c, q, sl), Spares(c, sl, sl2)
  PROVE  RequestsFit(c, q, sl2)
  BY PartsOfQueue DEF RequestsFit, Spares, AboutSeat

LEMMA ControlsSpared ==
  ASSUME NEW c, NEW q, NEW r, NEW po, NEW sl, NEW sl2, Answers(r), Ports(po),
         ControlsFit(c, q, r, po, sl), Spares(c, sl, sl2)
  PROVE  ControlsFit(c, q, r, po, sl2)
<1>1. \A m \in In(r) : m.type = "CONNECT" => sl2[m.player] = <<c, m.ctrl>>
  BY PartsOfAnswers DEF ControlsFit, Spares, AboutSeat
<1>2. \A k \in Controllers : po[k] # Unplugged => po[k] \in Players
  BY DEF Ports
<1> QED BY <1>1, <1>2 DEF ControlsFit, Spares

\* The server polls a request.
LEMMA RequestPolled ==
  ASSUME NEW c, NEW q, NEW sl, Queue(q), q # <<>>, RequestsFit(c, q, sl)
  PROVE  RequestsFit(c, Tail(q), sl)
  BY Tails, LastWordTail DEF RequestsFit, Queue

LEMMA ControlsPolled ==
  ASSUME NEW c, NEW q, NEW r, NEW po, NEW sl, Queue(q), q # <<>>,
         ControlsFit(c, q, r, po, sl)
  PROVE  ControlsFit(c, Tail(q), r, po, sl)
<1>1. In(Tail(q)) \subseteq In(q)
  BY Tails DEF Queue
<1> QED BY <1>1 DEF ControlsFit

\* The client sends a request that is not about a seat.
LEMMA OtherRequest ==
  ASSUME NEW c, NEW q, NEW r, NEW po, NEW sl, NEW m \in ToServerMessage, Queue(q),
         ~AboutSeat(m), m.type # "INPUT_OVERFLOW", RequestsFit(c, q, sl)
  PROVE  /\ RequestsFit(c, Append(q, m), sl)
         /\ ControlsFit(c, q, r, po, sl) => ControlsFit(c, Append(q, m), r, po, sl)
<1>1. In(Append(q, m)) = In(q) \cup {m}
  BY InAsked
<1>2. LastWord(Append(q, m))
  BY LastWordAppend DEF RequestsFit, Queue
<1>3. m.type # "DISCONNECT"
  BY DEF AboutSeat
<1> QED BY <1>1, <1>2, <1>3 DEF RequestsFit, ControlsFit

\* Part of what a client asked for is lost.
LEMMA RequestsCut ==
  ASSUME NEW c, NEW q, NEW sl, Queue(q), RequestsFit(c, q, sl), NEW n \in 0 .. Len(q)
  PROVE  RequestsFit(c, SubSeq(q, 1, n), sl)
  BY Cuts, LastWordCut DEF RequestsFit, Queue

\* The server sends something that is not about seats.
LEMMA OtherAnswers ==
  ASSUME NEW c, NEW q, NEW r, NEW po, NEW sl, NEW t, Answers(r), Answers(t),
         NotSeats(t), ControlsFit(c, q, r, po, sl)
  PROVE  ControlsFit(c, q, r \o t, po, sl)
<1>1. In(r \o t) = In(r) \cup In(t)
  BY InConcat DEF Answers
<1>2. OneWord(t)
  BY DEF NotSeats, OneWord, In
<1>3. OneWord(r \o t)
  BY <1>2, OneWordConcat DEF ControlsFit, NotSeats, Answers
<1>4. \A m \in In(t) : m.type # "CONNECT" /\ m.type # "DISCONNECT"
  BY DEF NotSeats, AboutSeat
<1> QED BY <1>1, <1>3, <1>4 DEF ControlsFit

\* The client reads it.
LEMMA OtherHeard ==
  ASSUME NEW c, NEW q, NEW r, NEW po, NEW sl, Answers(r), r # <<>>,
         ~AboutSeat(Head(r)), ControlsFit(c, q, r, po, sl)
  PROVE  ControlsFit(c, q, Tail(r), po, sl)
<1>1. In(r) = {Head(r)} \cup In(Tail(r))
  BY Tails DEF Answers
<1>2. OneWord(Tail(r))
  BY OneWordTail DEF ControlsFit, Answers
<1>3. Head(r).type # "DISCONNECT"
  BY DEF AboutSeat
<1> QED BY <1>1, <1>2, <1>3 DEF ControlsFit

\* A client asks for a seat for a controller without one.
LEMMA JoinAsked ==
  ASSUME NEW c, NEW q, NEW r, NEW po, NEW sl, NEW k \in Controllers,
         NEW m \in ToServerMessage, m.type = "CONNECT", m.ctrl = k, Queue(q),
         po[k] = Unplugged, RequestsFit(c, q, sl), ControlsFit(c, q, r, po, sl)
  PROVE  RequestsFit(c, Append(q, m), sl) /\ ControlsFit(c, Append(q, m), r, po, sl)
<1>1. In(Append(q, m)) = In(q) \cup {m}
  BY InAsked
<1>2. \A l \in In(q) : l.type = "DISCONNECT" => l.ctrl # m.ctrl
  BY DEF ControlsFit
<1>3. LastWord(Append(q, m))
  BY <1>2, LastWordAppend DEF RequestsFit, Queue
<1>4. RequestsFit(c, Append(q, m), sl)
  BY <1>1, <1>3 DEF RequestsFit
<1>5. ControlsFit(c, Append(q, m), r, po, sl)
  BY <1>1 DEF ControlsFit
<1> QED BY <1>4, <1>5

\* A client asks to give up a seat.
LEMMA BackAsked ==
  ASSUME NEW c, NEW q, NEW r, NEW po, NEW sl, NEW k \in Controllers,
         NEW m \in ToServerMessage, m.type = "DISCONNECT", m.ctrl = k, m.player = po[k],
         Queue(q), po[k] # Unplugged,
         \A l \in In(q) : l.type = "DISCONNECT" => l.ctrl # k,
         \A l \in In(r) : l.type = "DISCONNECT" => l.ctrl # k,
         RequestsFit(c, q, sl), ControlsFit(c, q, r, po, sl)
  PROVE  RequestsFit(c, Append(q, m), sl) /\ ControlsFit(c, Append(q, m), r, po, sl)
<1>1. In(Append(q, m)) = In(q) \cup {m}
  BY InAsked
<1>2. LastWord(Append(q, m))
  BY LastWordAppend DEF RequestsFit, Queue
<1>3. sl[m.player] = <<c, m.ctrl>>
  BY DEF ControlsFit
<1>4. RequestsFit(c, Append(q, m), sl)
  BY <1>1, <1>2, <1>3 DEF RequestsFit
<1>5. ControlsFit(c, Append(q, m), r, po, sl)
  BY <1>1 DEF ControlsFit
<1> QED BY <1>4, <1>5

\* The server gives a client a slot.
LEMMA SeatAnswered ==
  ASSUME NEW c, NEW q, NEW r, NEW po, NEW sl, NEW k \in Controllers, NEW p \in Players,
         NEW m \in ToClientMessage, m.type = "CONNECT", m.ctrl = k, m.player = p,
         NEW t, Answers(t), OnlySeat(t, m), Answers(r), Ports(po), \E l \in In(q) : l.type = "CONNECT" /\ l.ctrl = k,
         NEW before, \A s \in Players : before[s] # <<c, k>>,
         ControlsFit(c, q, r, po, before),
         sl[p] = <<c, k>>, Spares(c, before, sl)
  PROVE  ControlsFit(c, q, r \o t, po, sl)
<1>1. ControlsFit(c, q, r, po, sl)
  BY ControlsSpared
<1>2. In(r \o t) = In(r) \cup In(t)
  BY InConcat DEF Answers
<1>3. \A n \in In(r) : AboutSeat(n) => n.ctrl # k
  <2> SUFFICES ASSUME NEW n \in In(r), AboutSeat(n), n.ctrl = k
               PROVE  FALSE
    OBVIOUS
  <2>1. CASE n.type = "CONNECT"
    BY <2>1, PartsOfAnswers DEF ControlsFit
  <2>2. CASE n.type = "DISCONNECT"
    BY <2>2 DEF ControlsFit, AboutSeat
  <2> QED BY <2>1, <2>2 DEF AboutSeat
<1>4. po[k] = Unplugged
  <2> SUFFICES ASSUME po[k] # Unplugged
               PROVE  FALSE
    OBVIOUS
  <2>1. \A n \in In(r) : n.type = "DISCONNECT" => n.ctrl # k
    BY <1>3 DEF AboutSeat
  <2>2. before[po[k]] = <<c, k>> /\ po[k] \in Players
    BY <2>1 DEF ControlsFit, Ports
  <2> QED BY <2>2
<1>5. OneWord(r \o t)
  <2>1. \A n \in In(r), o \in In(t) : AboutSeat(n) /\ AboutSeat(o) => n.ctrl # o.ctrl
    BY <1>3 DEF OnlySeat
  <2> QED BY <1>1, <2>1, OneWordConcat DEF ControlsFit, OnlySeat, Answers
<1>6. \A n \in In(t) : /\ n.type = "CONNECT" => n.ctrl = k /\ n.player = p
                       /\ n.type # "DISCONNECT"
  BY DEF OnlySeat, AboutSeat
<1>7. m \in In(r \o t) /\ In(r) \subseteq In(r \o t)
  BY <1>2 DEF OnlySeat
<1> QED BY <1>1, <1>2, <1>4, <1>5, <1>6, <1>7 DEF ControlsFit

\* The server takes a slot back.
LEMMA SeatLeft ==
  ASSUME NEW c, NEW q, NEW r, NEW po, NEW sl, NEW sl2,
         Queue(q), q # <<>>, Head(q).type = "DISCONNECT",
         Answers(r), Ports(po), RequestsFit(c, q, sl),
         \A j \in Controllers, s \in Players : 
           sl[s] = <<c, j>> /\ s # Head(q).player => sl2[s] = <<c, j>>,
         NEW m \in ToClientMessage, m.type = "DISCONNECT", m.ctrl = Head(q).ctrl,
         NEW t, Answers(t), OnlySeat(t, m)
  PROVE  /\ RequestsFit(c, Tail(q), sl2)
         /\ ControlsFit(c, q, r, po, sl) => ControlsFit(c, Tail(q), r \o t, po, sl2)
<1> DEFINE k == Head(q).ctrl
           p == Head(q).player
<1>1. Head(q) \in In(q) /\ In(Tail(q)) \subseteq In(q)
  BY Tails DEF Queue
<1>2. sl[p] = <<c, k>>
  BY <1>1 DEF RequestsFit
<1>3. LastWord(Tail(q)) /\ \A n \in In(Tail(q)) : AboutSeat(n) => n.ctrl # k
  BY LastWordTail DEF RequestsFit, Queue
<1>4. \A j \in Controllers, s \in Players : sl[s] = <<c, j>> /\ j # k => sl2[s] = <<c, j>>
  BY <1>2
<1>5. RequestsFit(c, Tail(q), sl2)
  <2> SUFFICES ASSUME NEW n \in In(Tail(q)), n.type = "DISCONNECT"
               PROVE  sl2[n.player] = <<c, n.ctrl>>
    BY <1>1, <1>3 DEF RequestsFit
  <2>1. AboutSeat(n) /\ n \in In(q)
    BY <1>1 DEF AboutSeat
  <2>2. n.ctrl \in Controllers /\ n.player \in Players
    BY <2>1, PartsOfQueue
  <2>3. n.ctrl # k /\ sl[n.player] = <<c, n.ctrl>>
    BY <1>3, <2>1 DEF RequestsFit
  <2> QED BY <1>4, <2>2, <2>3
<1>6. ASSUME ControlsFit(c, q, r, po, sl)
      PROVE  ControlsFit(c, Tail(q), r \o t, po, sl2)
  <2>1. In(r \o t) = In(r) \cup In(t)
    BY InConcat DEF Answers
  <2>2. po[k] # Unplugged
    BY <1>1, <1>6 DEF ControlsFit
  <2>3. \A n \in In(r) : AboutSeat(n) => n.ctrl # k
    <3> SUFFICES ASSUME NEW n \in In(r), AboutSeat(n), n.ctrl = k
                 PROVE  FALSE
      OBVIOUS
    <3>1. CASE n.type = "CONNECT"
      BY <1>6, <2>2, <3>1 DEF ControlsFit
    <3>2. CASE n.type = "DISCONNECT"
      BY <1>1, <1>6, <3>2 DEF ControlsFit, AboutSeat
    <3> QED BY <3>1, <3>2 DEF AboutSeat
  <2>4. OneWord(r \o t)
    <3>1. \A n \in In(r), o \in In(t) : AboutSeat(n) /\ AboutSeat(o) => n.ctrl # o.ctrl
      BY <2>3 DEF OnlySeat
    <3> QED BY <1>6, <3>1, OneWordConcat DEF ControlsFit, OnlySeat, Answers
  <2>5. \A n \in In(Tail(q)) : n.type = "DISCONNECT" => po[n.ctrl] # Unplugged
    BY <1>1, <1>6 DEF ControlsFit
  <2>6. ASSUME NEW n \in In(r), n.type = "CONNECT"
        PROVE  sl2[n.player] = <<c, n.ctrl>> /\ po[n.ctrl] = Unplugged
    <3>1. AboutSeat(n)
      BY <2>6 DEF AboutSeat
    <3>2. n.ctrl \in Controllers /\ n.player \in Players /\ n.ctrl # k
      BY <2>3, <2>6, <3>1, PartsOfAnswers
    <3> QED BY <1>4, <1>6, <2>6, <3>2 DEF ControlsFit
  <2>7. ASSUME NEW n \in In(r) \cup In(t), n.type = "DISCONNECT"
        PROVE  /\ po[n.ctrl] # Unplugged
               /\ \A o \in In(Tail(q)) : AboutSeat(o) => o.ctrl # n.ctrl
    <3>1. CASE n \in In(t)
      <4>1. n = m
        BY <2>7, <3>1 DEF OnlySeat, AboutSeat
      <4> QED BY <1>3, <2>2, <4>1
    <3>2. CASE n \in In(r)
      BY <1>1, <1>6, <2>7, <3>2 DEF ControlsFit
    <3> QED BY <3>1, <3>2
  <2>8. ASSUME NEW j \in Controllers, po[j] # Unplugged,
               \A n \in In(r) \cup In(t) : n.type = "DISCONNECT" => n.ctrl # j
        PROVE  sl2[po[j]] = <<c, j>>
    <3>1. m \in In(r) \cup In(t)
      BY DEF OnlySeat
    <3>2. j # k /\ sl[po[j]] = <<c, j>> /\ po[j] \in Players
      BY <1>6, <2>8, <3>1 DEF ControlsFit, Ports
    <3> QED BY <1>4, <3>2
  <2>9. \A n \in In(t) : n.type # "CONNECT"
    BY DEF OnlySeat, AboutSeat
  <2> QED BY <2>1, <2>4, <2>5, <2>6, <2>7, <2>8, <2>9 DEF ControlsFit
<1> QED BY <1>5, <1>6

\* A client hears of the slot it was given.
LEMMA SeatHeard ==
  ASSUME NEW c, NEW q, NEW r, NEW po, NEW sl, NEW po2, Answers(r), Ports(po), r # <<>>,
         Head(r).type = "CONNECT",
         \/ po2 = po
         \/ po2 = [po EXCEPT ![Head(r).ctrl] = Head(r).player],
         ControlsFit(c, q, r, po, sl)
  PROVE  ControlsFit(c, q, Tail(r), po2, sl)
<1> DEFINE k == Head(r).ctrl
           p == Head(r).player
<1>1. In(r) = {Head(r)} \cup In(Tail(r))
  BY Tails DEF Answers
<1>2. OneWord(Tail(r)) /\ \A n \in In(Tail(r)) : AboutSeat(n) => n.ctrl # k
  BY OneWordTail DEF ControlsFit, Answers, AboutSeat
<1>3. k \in Controllers /\ p \in Players /\ sl[p] = <<c, k>>
  BY <1>1, PartsOfAnswers DEF ControlsFit, AboutSeat
<1>4. CASE po2 = po
  BY <1>1, <1>2, <1>4 DEF ControlsFit
<1>5. CASE po2 = [po EXCEPT ![k] = p]
  <2> HIDE DEF k, p
  <2>1. po2[k] = p /\ p # Unplugged /\ \A j \in Controllers : j # k => po2[j] = po[j]
    BY <1>3, <1>5, ConstantsAssumption DEF Ports, Players, Unplugged
  <2>2. \A n \in In(q) : n.type = "DISCONNECT" => po2[n.ctrl] # Unplugged
    BY <1>5, <2>1 DEF ControlsFit, Ports
  <2>3. \A n \in In(Tail(r)) : AboutSeat(n) => po2[n.ctrl] = po[n.ctrl]
    BY <1>5, <1>2 DEF Ports
  <2>4. ASSUME NEW j \in Controllers, po2[j] # Unplugged,
               \A n \in In(Tail(r)) : n.type = "DISCONNECT" => n.ctrl # j
        PROVE  sl[po2[j]] = <<c, j>>
    <3>1. CASE j = k
      BY <1>3, <2>1, <3>1
    <3>2. CASE j # k
      <4>1. \A n \in In(r) : n.type = "DISCONNECT" => n.ctrl # j
        BY <1>1, <2>4
      <4> QED BY <2>1, <2>4, <3>2, <4>1 DEF ControlsFit
    <3> QED BY <3>1, <3>2
  <2> QED BY <1>1, <1>2, <2>2, <2>3, <2>4 DEF ControlsFit, AboutSeat
<1> QED BY <1>4, <1>5

\* A client hears that it has lost a slot.
LEMMA LeaveHeard ==
  ASSUME NEW c, NEW q, NEW r, NEW po, NEW sl, NEW po2, Queue(q), Answers(r), Ports(po), r # <<>>,
         Head(r).type = "DISCONNECT",
         po2 = [po EXCEPT ![Head(r).ctrl] = Unplugged],
         ControlsFit(c, q, r, po, sl)
  PROVE  ControlsFit(c, q, Tail(r), po2, sl)
<1> DEFINE k == Head(r).ctrl
<1>1. In(r) = {Head(r)} \cup In(Tail(r))
  BY Tails DEF Answers
<1>2. OneWord(Tail(r)) /\ \A n \in In(Tail(r)) : AboutSeat(n) => n.ctrl # k
  BY OneWordTail DEF ControlsFit, Answers, AboutSeat
<1>3. k \in Controllers /\ \A n \in In(q) : AboutSeat(n) => n.ctrl # k
  BY <1>1, PartsOfAnswers DEF ControlsFit, AboutSeat
<1>4. po2 = [po EXCEPT ![k] = Unplugged]
  OBVIOUS
<1> HIDE DEF k
<1>5. po2[k] = Unplugged /\ \A j \in Controllers : j # k => po2[j] = po[j]
  BY <1>3, <1>4 DEF Ports
<1>6. \A n \in In(q) : n.type = "DISCONNECT" => po2[n.ctrl] # Unplugged
  BY <1>3, <1>4 DEF ControlsFit, AboutSeat, Ports
<1>7. \A n \in In(Tail(r)) : AboutSeat(n) => po2[n.ctrl] = po[n.ctrl]
  BY <1>2, <1>4 DEF Ports
<1>8. ASSUME NEW j \in Controllers, po2[j] # Unplugged,
             \A n \in In(Tail(r)) : n.type = "DISCONNECT" => n.ctrl # j
      PROVE  sl[po2[j]] = <<c, j>>
  <2>1. j # k /\ po2[j] = po[j]
    BY <1>5, <1>8
  <2>2. \A n \in In(r) : n.type = "DISCONNECT" => n.ctrl # j
    BY <1>1, <1>8, <2>1 DEF k
  <2> QED BY <1>8, <2>1, <2>2 DEF ControlsFit
<1> QED BY <1>1, <1>2, <1>6, <1>7, <1>8 DEF ControlsFit, AboutSeat

-----------------------------------------------------------------------------
(* From the queues of one client to the state.                              *)

LEMMA Shapes ==
  ASSUME IInv, NEW c \in Clients
  PROVE  Queue(toServer[c]) /\ Answers(toClient[c]) /\ Ports(port[c])
  BY DEF IInv, RequestsOK, RepliesOK, ClientOK, Queue, Answers, Ports

LEMMA SentTo ==
  ASSUME NEW out, Send(out), NEW d \in Clients, mode[d] # "closed"
  PROVE  toClient'[d] = toClient[d] \o out[d]
  BY DEF Send

\* A handler that sends nothing sends nothing to anybody.
LEMMA SentNothing ==
  ASSUME RepliesOK, UNCHANGED toClient
  PROVE  Send(Each({}, <<>>))
<1>1. \A d \in Clients : toClient[d] \o <<>> = toClient[d]
  BY ConcatEmptySeq DEF RepliesOK
<1>2. \A d \in Clients : Each({}, <<>>)[d] = <<>>
  BY DEF Each
<1> QED BY <1>1, <1>2 DEF Send, RepliesOK

\* A client no queue, port or slot of which is touched.
LEMMA Untouched ==
  ASSUME IInv, NEW d \in Clients, Fit(d), Spares(d, slot, slot'),
         toServer'[d] = toServer[d], peer'[d] = peer[d], mode'[d] = mode[d],
         toClient'[d] = toClient[d], port'[d] = port[d]
  PROVE  Fit(d)'
<1>1. RequestsFit(d, toServer[d], slot')
  BY RequestsSpared, Shapes DEF Fit
<1>2. Linked(d) => ControlsFit(d, toServer[d], toClient[d], port[d], slot')
  BY ControlsSpared, Shapes DEF Fit
<1> QED BY <1>1, <1>2 DEF Fit, Linked

\* A client that hears of something else, the slots it holds left alone.
LEMMA Bystander ==
  ASSUME IInv, NEW d \in Clients, Fit(d), Spares(d, slot, slot'),
         toServer'[d] = toServer[d], peer'[d] = peer[d], UNCHANGED clientVars,
         NEW out, Send(out), Answers(out[d]), NotSeats(out[d])
  PROVE  Fit(d)'
<1>1. RequestsFit(d, toServer[d], slot')
  BY RequestsSpared, Shapes DEF Fit
<1>2. ASSUME Linked(d)
      PROVE  ControlsFit(d, toServer[d], toClient'[d], port[d], slot')
  <2>1. ControlsFit(d, toServer[d], toClient[d], port[d], slot')
    BY <1>2, ControlsSpared, Shapes DEF Fit
  <2>2. ControlsFit(d, toServer[d], toClient[d] \o out[d], port[d], slot')
    BY <2>1, OtherAnswers, Shapes
  <2> QED BY <1>2, <2>2, SentTo DEF Linked
<1> QED BY <1>1, <1>2 DEF Fit, Linked, clientVars

\* The server polls c for a request that is not about seats.
LEMMA QuietPoll ==
  ASSUME IInv, SeatsFit, NEW c \in Clients, toServer[c] # <<>>,
         toServer' = [toServer EXCEPT ![c] = Tail(@)],
         NEW out, Send(out), \A d \in Clients : Answers(out[d]) /\ NotSeats(out[d]),
         \A d \in Clients : Spares(d, slot, slot'), UNCHANGED <<peer, clientVars>>
  PROVE  SeatsFit'
<1> SUFFICES ASSUME NEW d \in Clients
             PROVE  Fit(d)'
  BY DEF SeatsFit
<1>1. CASE d # c
  <2>1. toServer'[d] = toServer[d]
    BY <1>1 DEF IInv, RequestsOK
  <2> QED BY <2>1, Bystander DEF SeatsFit
<1>2. CASE d = c
  <2>1. toServer'[c] = Tail(toServer[c])
    BY DEF IInv, RequestsOK
  <2>2. RequestsFit(c, Tail(toServer[c]), slot')
    <3>1. RequestsFit(c, toServer[c], slot')
      BY RequestsSpared, Shapes DEF Fit, SeatsFit
    <3> QED BY <3>1, RequestPolled, Shapes
  <2>3. ASSUME Linked(c)
        PROVE  ControlsFit(c, Tail(toServer[c]), toClient'[c], port[c], slot')
    <3>1. ControlsFit(c, toServer[c], toClient[c], port[c], slot')
      BY <2>3, ControlsSpared, Shapes DEF Fit, SeatsFit
    <3>2. ControlsFit(c, Tail(toServer[c]), toClient[c], port[c], slot')
      BY <3>1, ControlsPolled, Shapes
    <3>3. ControlsFit(c, Tail(toServer[c]), toClient[c] \o out[c], port[c], slot')
      BY <3>2, OtherAnswers, Shapes
    <3> QED BY <2>3, <3>3, SentTo DEF Linked
  <2> QED BY <1>2, <2>1, <2>2, <2>3 DEF Fit, Linked, clientVars
<1> QED BY <1>1, <1>2

LEMMA SparesSame == \A d : Spares(d, slot, slot)
  BY DEF Spares

\* What is not about seats.
LEMMA QuietRuns ==
  /\ Answers(<<>>) /\ NotSeats(<<>>)
  /\ \A m \in ToClientMessage : ~AboutSeat(m) => Answers(<<m>>) /\ NotSeats(<<m>>)
  /\ \A s, t : Answers(s) /\ Answers(t) /\ NotSeats(s) /\ NotSeats(t) =>
       Answers(s \o t) /\ NotSeats(s \o t)
<1>1. Answers(<<>>) /\ NotSeats(<<>>)
  BY InEmpty DEF Answers, NotSeats
<1>2. ASSUME NEW m \in ToClientMessage, ~AboutSeat(m)
      PROVE  Answers(<<m>>) /\ NotSeats(<<m>>)
  BY <1>1, <1>2, InOne, AppendedOne DEF Answers, NotSeats
<1>3. ASSUME NEW s, NEW t, Answers(s), Answers(t), NotSeats(s), NotSeats(t)
      PROVE  Answers(s \o t) /\ NotSeats(s \o t)
  <2>1. In(s \o t) = In(s) \cup In(t) /\ s \o t \in Seq(ToClientMessage)
    BY <1>3, InConcat, ConcatProperties DEF Answers
  <2> QED BY <1>3, <2>1 DEF Answers, NotSeats
<1> QED BY <1>1, <1>2, <1>3

LEMMA QuietNotes ==
  /\ \A t \in {"CHECK_ID", "CHECK_ID_FAIL", "CONNECT_FAIL", "SPECTATE",
               "ASSIGN_MASTER", "START", "PAUSE", "RESUME", "END"} :
       Answers(<<Note(t)>>) /\ NotSeats(<<Note(t)>>)
  /\ \A t \in {"ADD_PLAYER", "REMOVE_PLAYER"}, S \in SUBSET Players :
       /\ Answers(<<About(t, S)>>) /\ NotSeats(<<About(t, S)>>)
       /\ Answers(AboutSome(t, S)) /\ NotSeats(AboutSome(t, S))
<1>1. \A t \in {"CHECK_ID", "CHECK_ID_FAIL", "CONNECT_FAIL", "SPECTATE",
               "ASSIGN_MASTER", "START", "PAUSE", "RESUME", "END"} :
        Note(t) \in ToClientMessage /\ ~AboutSeat(Note(t))
  BY Replies DEF Note, AboutSeat
<1>2. \A t \in {"ADD_PLAYER", "REMOVE_PLAYER"}, S \in SUBSET Players :
        About(t, S) \in ToClientMessage /\ ~AboutSeat(About(t, S))
  BY Replies DEF About, AboutSeat
<1> QED BY <1>1, <1>2, QuietRuns DEF AboutSome

-----------------------------------------------------------------------------
(* The steps of the server keep requests and controls in order.             *)

\* The request polled, and that no client that has one has lost the way back.
LEMMA PolledFit ==
  ASSUME IInv, SeatsFit, NEW c \in Clients, NEW t, Poll(c, t)
  PROVE  /\ peer[c] /\ toServer[c] # <<>>
         /\ toServer' = [toServer EXCEPT ![c] = Tail(@)]
         /\ Request1(c) = Head(toServer[c]) /\ Request1(c).type = t
         /\ Request1(c) \in In(toServer[c])
         /\ t # "INPUT_OVERFLOW"
<1>1. toServer[c] # <<>> /\ Request1(c) = Head(toServer[c]) /\ Request1(c).type = t
  BY DEF Poll, Request1
<1>2. Head(toServer[c]) \in In(toServer[c])
  BY <1>1, Shapes, Tails DEF Queue
<1>3. t # "INPUT_OVERFLOW"
  BY <1>1, <1>2 DEF SeatsFit, Fit, RequestsFit
<1> QED BY <1>1, <1>2, <1>3 DEF Poll

LEMMA OnlyQuiet ==
  ASSUME NEW c, NEW msgs, Answers(msgs), NotSeats(msgs)
  PROVE  \A d \in Clients : Answers(Only(c, msgs)[d]) /\ NotSeats(Only(c, msgs)[d])
  BY QuietRuns DEF Only

LEMMA EachQuiet ==
  ASSUME NEW S, NEW msgs, Answers(msgs), NotSeats(msgs)
  PROVE  \A d \in Clients : Answers(Each(S, msgs)[d]) /\ NotSeats(Each(S, msgs)[d])
  BY QuietRuns DEF Each

LEMMA FitCheckId ==
  ASSUME IInv, SeatsFit, NEW c \in Clients, HandleCheckId(c)
  PROVE  SeatsFit'
<1>1. PICK t \in {"CHECK_ID", "CHECK_ID_FAIL"} : Send(Only(c, <<Note(t)>>))
  BY DEF HandleCheckId
<1>2. \A d \in Clients : /\ Answers(Only(c, <<Note(t)>>)[d])
                         /\ NotSeats(Only(c, <<Note(t)>>)[d])
  BY QuietNotes, OnlyQuiet
<1>3. UNCHANGED <<slot, peer, clientVars>>
  BY DEF HandleCheckId, serverVars
<1>4. toServer[c] # <<>> /\ toServer' = [toServer EXCEPT ![c] = Tail(@)]
  BY PolledFit DEF HandleCheckId
<1> QED BY <1>1, <1>2, <1>3, <1>4, QuietPoll, SparesSame

LEMMA FitSpectate ==
  ASSUME IInv, SeatsFit, NEW c \in Clients, HandleSpectate(c)
  PROVE  SeatsFit'
<1> DEFINE msgs == <<Note("SPECTATE")>> \o AboutSome("ADD_PLAYER", Taken)
<1>1. Answers(msgs) /\ NotSeats(msgs)
  <2>1. Taken \in SUBSET Players
    BY DEF Taken
  <2> QED BY <2>1, QuietNotes, QuietRuns
<1>2. Send(Only(c, msgs)) /\ UNCHANGED <<slot, peer, clientVars>>
  BY DEF HandleSpectate
<1>3. toServer[c] # <<>> /\ toServer' = [toServer EXCEPT ![c] = Tail(@)]
  BY PolledFit DEF HandleSpectate
<1> HIDE DEF msgs
<1>4. \A d \in Clients : Answers(Only(c, msgs)[d]) /\ NotSeats(Only(c, msgs)[d])
  BY <1>1, OnlyQuiet
<1> QED BY <1>2, <1>3, <1>4, QuietPoll, SparesSame

LEMMA FitSilent ==
  ASSUME IInv, SeatsFit, NEW c \in Clients, NEW t, Poll(c, t),
         UNCHANGED <<slot, peer, clientVars, toClient>>
  PROVE  SeatsFit'
<1>1. Send(Each({}, <<>>))
  BY SentNothing DEF IInv
<1>2. \A d \in Clients : Answers(Each({}, <<>>)[d]) /\ NotSeats(Each({}, <<>>)[d])
  BY QuietRuns, EachQuiet
<1>3. toServer[c] # <<>> /\ toServer' = [toServer EXCEPT ![c] = Tail(@)]
  BY PolledFit
<1> QED BY <1>1, <1>2, <1>3, QuietPoll, SparesSame

LEMMA FitTold ==
  ASSUME IInv, SeatsFit, NEW c \in Clients, NEW t, Poll(c, t),
         UNCHANGED <<slot, peer, clientVars>>, NEW S,
         NEW n \in {"START", "PAUSE", "RESUME", "END", "CONNECT_FAIL"},
         Send(Each(S, <<Note(n)>>))
  PROVE  SeatsFit'
<1>1. \A d \in Clients : /\ Answers(Each(S, <<Note(n)>>)[d])
                         /\ NotSeats(Each(S, <<Note(n)>>)[d])
  BY QuietNotes, EachQuiet
<1>2. toServer[c] # <<>> /\ toServer' = [toServer EXCEPT ![c] = Tail(@)]
  BY PolledFit
<1> QED BY <1>1, <1>2, QuietPoll, SparesSame

LEMMA FitPhases ==
  ASSUME IInv, SeatsFit, NEW c \in Clients,
         \/ HandleLeave(c) \/ RefuseConnect(c) \/ HandleStart(c)
         \/ HandlePause(c) \/ HandleResume(c) \/ HandleEnd(c)
  PROVE  SeatsFit'
<1>1. CASE HandleLeave(c)
  BY <1>1, FitSilent DEF HandleLeave
<1>2. CASE RefuseConnect(c)
  <2>1. Send(Each({c}, <<Note("CONNECT_FAIL")>>))
    BY <1>2 DEF RefuseConnect, Only, Each
  <2>2. Poll(c, "CONNECT") /\ UNCHANGED <<slot, peer, clientVars>>
    BY <1>2 DEF RefuseConnect, serverVars
  <2> QED BY <2>1, <2>2, FitTold
<1>3. CASE HandleStart(c) \/ HandlePause(c) \/ HandleResume(c)
  <2>1. ASSUME NEW t \in {"START", "PAUSE", "RESUME"}, NEW from, NEW to, NEW hearers,
               Advance(c, t, from, to, hearers)
        PROVE  SeatsFit'
    <3>1. CASE state = from
      BY <2>1, <3>1, FitTold DEF Advance
    <3>2. CASE state # from
      BY <2>1, <3>2, FitSilent DEF Advance
    <3> QED BY <3>1, <3>2
  <2> QED BY <1>3, <2>1 DEF HandleStart, HandlePause, HandleResume
<1>4. CASE HandleEnd(c)
  <2>1. CASE state = "OFF"
    BY <1>4, <2>1, FitSilent DEF HandleEnd
  <2>2. CASE state # "OFF"
    BY <1>4, <2>2, FitTold DEF HandleEnd
  <2> QED BY <2>1, <2>2
<1> QED BY <1>1, <1>2, <1>3, <1>4

\* A slot is given to c.
LEMMA FitConnect ==
  ASSUME IInv, SeatsFit, NEW c \in Clients, HandleConnect(c)
  PROVE  SeatsFit'
<1> DEFINE k == Request1(c).ctrl
           p == Seat(Request1(c))
           m == Request("CONNECT", k, p)
           extra == IF player_count = 0 THEN <<Note("ASSIGN_MASTER")>> ELSE <<>>
           added == <<About("ADD_PLAYER", Taken \cup {p})>>
           mine == <<m>> \o extra \o added
           out == [d \in Clients |-> IF d = c THEN mine
                                     ELSE IF d \in Audience
                                          THEN <<About("ADD_PLAYER", {p})>>
                                          ELSE <<>>]
<1>1. /\ k \in Controllers /\ p \in Players /\ slot[p] = Free
      /\ \A q \in Players : slot[q] # <<c, k>>
      /\ slot' = [slot EXCEPT ![p] = <<c, k>>]
  BY ConnectParts DEF IInv
<1>2. Send(out) /\ UNCHANGED <<peer, clientVars>>
  BY DEF HandleConnect
<1>3. /\ toServer[c] # <<>> /\ toServer' = [toServer EXCEPT ![c] = Tail(@)]
      /\ Head(toServer[c]) \in In(toServer[c])
      /\ Head(toServer[c]).type = "CONNECT" /\ Head(toServer[c]).ctrl = k
  BY PolledFit DEF HandleConnect
<1>4. Taken \cup {p} \in SUBSET Players /\ {p} \in SUBSET Players
  BY <1>1 DEF Taken
<1>5. /\ Answers(extra) /\ NotSeats(extra)
      /\ Answers(added) /\ NotSeats(added)
      /\ Answers(<<About("ADD_PLAYER", {p})>>) /\ NotSeats(<<About("ADD_PLAYER", {p})>>)
  BY <1>4, QuietNotes, QuietRuns
<1>6. m \in ToClientMessage /\ m.type = "CONNECT" /\ m.ctrl = k /\ m.player = p
  BY <1>1, Replies DEF Request
<1> HIDE DEF k, p, m, extra, added
<1>7. \A d \in Clients : Spares(d, slot, slot')
  <2> SUFFICES ASSUME NEW d \in Clients, NEW j \in Controllers, NEW q \in Players,
                      slot[q] = <<d, j>>
               PROVE  slot'[q] = <<d, j>>
    BY DEF Spares
  <2>1. q # p
    BY <1>1, ConstantsAssumption
  <2> QED BY <1>1, <2>1 DEF IInv, ServerOK, SlotsOK
<1>8. slot'[p] = <<c, k>>
  BY <1>1 DEF IInv, ServerOK, SlotsOK
<1> SUFFICES ASSUME NEW d \in Clients
             PROVE  Fit(d)'
  BY DEF SeatsFit
<1>9. CASE d # c
  <2>1. toServer'[d] = toServer[d]
    BY <1>3, <1>9 DEF IInv, RequestsOK
  <2>2. Answers(out[d]) /\ NotSeats(out[d])
    BY <1>5, <1>9, QuietRuns
  <2> HIDE DEF out
  <2> QED BY <1>2, <1>7, <2>1, <2>2, Bystander DEF SeatsFit
<1>10. CASE d = c
  <2>1. toServer'[c] = Tail(toServer[c])
    BY <1>3 DEF IInv, RequestsOK
  <2>2. RequestsFit(c, Tail(toServer[c]), slot')
    <3>1. RequestsFit(c, toServer[c], slot')
      BY <1>7, RequestsSpared, Shapes DEF Fit, SeatsFit
    <3> QED BY <1>3, <3>1, RequestPolled, Shapes
  <2>3. ASSUME Linked(c)
        PROVE  ControlsFit(c, Tail(toServer[c]), toClient'[c], port[c], slot')
    <3>1. ControlsFit(c, toServer[c], toClient[c] \o mine, port[c], slot')
      <4>1. ControlsFit(c, toServer[c], toClient[c], port[c], slot)
        BY <2>3 DEF SeatsFit, Fit
      <4>2. Answers(toClient[c]) /\ Ports(port[c]) /\ Spares(c, slot, slot')
        BY <1>7, Shapes
      <4>3. \E l \in In(toServer[c]) : l.type = "CONNECT" /\ l.ctrl = k
        BY <1>3
      <4>4. /\ k \in Controllers /\ p \in Players
            /\ \A s \in Players : slot[s] # <<c, k>>
        BY <1>1
      <4>5. Answers(mine) /\ OnlySeat(mine, m)
        <5>1. Answers(<<m>>) /\ OnlySeat(<<m>>, m)
          BY <1>6, OnlySeatAlone
        <5>2. Answers(<<m>> \o extra) /\ OnlySeat(<<m>> \o extra, m)
          BY <1>5, <5>1, OnlySeatMore
        <5> QED BY <1>5, <5>2, OnlySeatMore
      <4> HIDE DEF mine
      <4> QED BY ONLY <1>6, <1>8, <4>1, <4>2, <4>3, <4>4, <4>5, SeatAnswered, ZenonT(40)
    <3>2. ControlsFit(c, Tail(toServer[c]), toClient[c] \o mine, port[c], slot')
      <4> HIDE DEF mine
      <4> QED BY <1>3, <3>1, ControlsPolled, Shapes
    <3>3. toClient'[c] = toClient[c] \o mine
      <4>1. out[c] = mine
        OBVIOUS
      <4> HIDE DEF out, mine
      <4> QED BY <1>2, <2>3, <4>1, SentTo DEF Linked
    <3> HIDE DEF mine, out
    <3> QED BY <3>2, <3>3
  <2> QED BY <1>2, <1>10, <2>1, <2>2, <2>3 DEF Fit, Linked, clientVars
<1> QED BY <1>9, <1>10

\* A slot is taken back from c.
LEMMA FitDisconnect ==
  ASSUME IInv, SeatsFit, NEW c \in Clients, HandleDisconnect(c)
  PROVE  SeatsFit'
<1> DEFINE k == Request1(c).ctrl
           p == Request1(c).player
           m == Request("DISCONNECT", k, -1)
           unmaster == cmaster[c] /\ Owned(c) \subseteq {p}
           heirs == IF unmaster THEN Heirs({p}) ELSE {}
           crown(d) == IF d \in heirs THEN <<Note("ASSIGN_MASTER")>> ELSE <<>>
           removed(d) == IF d \in Audience THEN <<About("REMOVE_PLAYER", {p})>> ELSE <<>>
           out == [d \in Clients |-> (IF d = c THEN <<m>> ELSE <<>>) \o crown(d) \o removed(d)]
<1>1. k \in Controllers /\ p \in Players
  BY Polled, RequestParts DEF HandleDisconnect, IInv
<1>2. slot' = [slot EXCEPT ![p] = Free] /\ Send(out) /\ UNCHANGED <<peer, clientVars>>
  BY DEF HandleDisconnect
<1>3. /\ toServer[c] # <<>> /\ toServer' = [toServer EXCEPT ![c] = Tail(@)]
      /\ Head(toServer[c]).type = "DISCONNECT"
      /\ Head(toServer[c]).ctrl = k /\ Head(toServer[c]).player = p
      /\ Head(toServer[c]) \in In(toServer[c])
  BY PolledFit DEF HandleDisconnect
<1>4. \A d \in Clients : /\ Answers(crown(d)) /\ NotSeats(crown(d))
                         /\ Answers(removed(d)) /\ NotSeats(removed(d))
  <2>1. {p} \in SUBSET Players
    BY <1>1
  <2> QED BY <2>1, QuietNotes, QuietRuns
<1>5. m \in ToClientMessage /\ m.type = "DISCONNECT" /\ m.ctrl = k
  BY <1>1, Replies DEF Request
<1> HIDE DEF k, p, m, crown, removed
<1>6. slot[p] = <<c, k>>
  BY <1>3 DEF SeatsFit, Fit, RequestsFit
<1>7. \A s \in Players : s # p => slot'[s] = slot[s]
  BY <1>1, <1>2 DEF IInv, ServerOK, SlotsOK
<1> SUFFICES ASSUME NEW d \in Clients
             PROVE  Fit(d)'
  BY DEF SeatsFit
<1>8. CASE d # c
  <2>1. toServer'[d] = toServer[d]
    BY <1>3, <1>8 DEF IInv, RequestsOK
  <2>2. Answers(out[d]) /\ NotSeats(out[d])
    <3>1. out[d] = (<<>> \o crown(d)) \o removed(d)
      BY <1>8
    <3>2. Answers(<<>> \o crown(d)) /\ NotSeats(<<>> \o crown(d))
      BY <1>4, QuietRuns
    <3> HIDE DEF out
    <3> QED BY <1>4, <3>1, <3>2, QuietRuns
  <2>3. Spares(d, slot, slot')
    BY <1>6, <1>7, <1>8 DEF Spares
  <2> HIDE DEF out
  <2> QED BY <1>2, <2>1, <2>2, <2>3, Bystander DEF SeatsFit
<1>9. CASE d = c
  <2> DEFINE mine == (<<m>> \o crown(c)) \o removed(c)
  <2>1. toServer'[c] = Tail(toServer[c])
    BY <1>3 DEF IInv, RequestsOK
  <2>2. Answers(mine) /\ OnlySeat(mine, m)
    <3>1. Answers(<<m>>) /\ OnlySeat(<<m>>, m)
      BY <1>5, OnlySeatAlone
    <3>2. Answers(<<m>> \o crown(c)) /\ OnlySeat(<<m>> \o crown(c), m)
      BY <1>4, <3>1, OnlySeatMore
    <3> QED BY <1>4, <3>2, OnlySeatMore
  <2>3. out[c] = mine
    OBVIOUS
  <2> HIDE DEF mine, out
  <2>4. \A j \in Controllers, s \in Players : slot[s] = <<c, j>> /\ s # p => slot'[s] = <<c, j>>
    BY <1>7
  <2>5. /\ Queue(toServer[c]) /\ Answers(toClient[c]) /\ Ports(port[c])
        /\ RequestsFit(c, toServer[c], slot)
    BY Shapes DEF SeatsFit, Fit
  <2>6. /\ RequestsFit(c, Tail(toServer[c]), slot')
        /\ ControlsFit(c, toServer[c], toClient[c], port[c], slot) =>
             ControlsFit(c, Tail(toServer[c]), toClient[c] \o mine, port[c], slot')
    <3>1. toServer[c] # <<>> /\ Head(toServer[c]).type = "DISCONNECT"
      BY <1>3
    <3>2. m \in ToClientMessage /\ m.type = "DISCONNECT" /\ m.ctrl = Head(toServer[c]).ctrl
      BY <1>3, <1>5
    <3>3. \A j \in Controllers, s \in Players :
            slot[s] = <<c, j>> /\ s # Head(toServer[c]).player => slot'[s] = <<c, j>>
      BY <1>3, <2>4
    <3> QED BY ONLY <2>2, <2>5, <3>1, <3>2, <3>3, SeatLeft
  <2>7. ASSUME Linked(c)
        PROVE  ControlsFit(c, Tail(toServer[c]), toClient'[c], port[c], slot')
    <3>1. toClient'[c] = toClient[c] \o mine
      BY <1>2, <2>3, <2>7, SentTo DEF Linked
    <3> QED BY <2>6, <2>7, <3>1 DEF SeatsFit, Fit
  <2> QED BY <1>2, <1>9, <2>1, <2>6, <2>7 DEF Fit, Linked, clientVars
<1> QED BY <1>8, <1>9

\* Nothing is under way from c any more, and it is not connected.
LEMMA FitPeerDisconnect ==
  ASSUME IInv, SeatsFit, NEW c \in Clients, PeerDisconnect(c)
  PROVE  SeatsFit'
<1> DEFINE gone  == Gone(c)
           left  == player_count - Cardinality(gone)
           ends  == left <= 0 /\ state # "OFF"
           heirs == IF left > 0 /\ cmaster[c] THEN Heirs(gone) ELSE {}
           removed(d) == IF d \in Audience THEN AboutSome("REMOVE_PLAYER", gone) ELSE <<>>
           ended(d)   == IF ends /\ d \in InGame THEN <<Note("END")>> ELSE <<>>
           crown(d)   == IF d \in heirs THEN <<Note("ASSIGN_MASTER")>> ELSE <<>>
           out == [d \in Clients |-> IF d = c THEN <<>>
                                     ELSE removed(d) \o ended(d) \o crown(d)]
<1>1. gone \in SUBSET Owned(c) /\ gone \in SUBSET Players
  BY DEF Gone, Owned, Taken
<1>2. /\ slot' = [p \in Players |-> IF p \in gone THEN Free ELSE slot[p]]
      /\ Send(out)
      /\ peer' = [peer EXCEPT ![c] = FALSE]
      /\ toServer' = [toServer EXCEPT ![c] = <<>>]
      /\ UNCHANGED clientVars
  BY DEF PeerDisconnect
<1>3. \A d \in Clients : /\ Answers(removed(d)) /\ NotSeats(removed(d))
                         /\ Answers(ended(d)) /\ NotSeats(ended(d))
                         /\ Answers(crown(d)) /\ NotSeats(crown(d))
  BY <1>1, QuietNotes, QuietRuns
<1> HIDE DEF removed, ended, crown, gone
<1> SUFFICES ASSUME NEW d \in Clients
             PROVE  Fit(d)'
  BY DEF SeatsFit
<1>4. CASE d # c
  <2>1. toServer'[d] = toServer[d] /\ peer'[d] = peer[d]
    BY <1>2, <1>4 DEF IInv, RequestsOK, ServerOK
  <2>2. Answers(out[d]) /\ NotSeats(out[d])
    <3>1. out[d] = (removed(d) \o ended(d)) \o crown(d)
      BY <1>4
    <3>2. Answers(removed(d) \o ended(d)) /\ NotSeats(removed(d) \o ended(d))
      BY <1>3, QuietRuns
    <3> HIDE DEF out
    <3> QED BY <1>3, <3>1, <3>2, QuietRuns
  <2>3. Spares(d, slot, slot')
    <3> SUFFICES ASSUME NEW j \in Controllers, NEW q \in Players, slot[q] = <<d, j>>
                 PROVE  slot'[q] = <<d, j>>
      BY DEF Spares
    <3>1. q \notin gone
      BY <1>1, <1>4 DEF Owned
    <3> QED BY <1>2, <3>1
  <2> HIDE DEF out
  <2> QED BY <1>2, <2>1, <2>2, <2>3, Bystander DEF SeatsFit
<1>5. CASE d = c
  <2>1. toServer'[c] = <<>> /\ peer'[c] = FALSE
    BY <1>2 DEF IInv, RequestsOK, ServerOK
  <2>2. RequestsFit(c, <<>>, slot')
    BY InEmpty DEF RequestsFit, LastWord
  <2> QED BY <1>5, <2>1, <2>2 DEF Fit, Linked
<1> QED BY <1>4, <1>5

-----------------------------------------------------------------------------
(* The steps of a client keep requests and controls in order.               *)

\* Only c takes part in the step, and Fit(c) holds afterwards.
LEMMA OwnStep ==
  ASSUME IInv, SeatsFit, NEW c \in Clients, UNCHANGED slot,
         \A d \in Clients : d # c => /\ toServer'[d] = toServer[d] /\ peer'[d] = peer[d]
                                     /\ mode'[d] = mode[d] /\ toClient'[d] = toClient[d]
                                     /\ port'[d] = port[d],
         Fit(c)'
  PROVE  SeatsFit'
<1>1. \A d \in Clients : Spares(d, slot, slot')
  BY SparesSame
<1> QED BY <1>1, Untouched DEF SeatsFit

\* What a client hears.
LEMMA HeardFit ==
  ASSUME IInv, SeatsFit, NEW c \in Clients, NEW t, Receive(c, t)
  PROVE  /\ toClient[c] # <<>> /\ mode[c] # "closed"
         /\ Received(c) = Head(toClient[c]) /\ Received(c).type = t
         /\ toClient'[c] = Tail(toClient[c])
         /\ \A d \in Clients : d # c => toClient'[d] = toClient[d]
         /\ peer[c] => ControlsFit(c, toServer[c], toClient[c], port[c], slot)
<1>1. toClient' = [toClient EXCEPT ![c] = Tail(@)]
  BY DEF Receive
<1>2. peer[c] /\ mode[c] # "closed" => ControlsFit(c, toServer[c], toClient[c], port[c], slot)
  BY DEF SeatsFit, Fit, Linked
<1> QED BY <1>1, <1>2 DEF Receive, Received, IInv, RepliesOK

\* ... when it is not about seats.
LEMMA FitHeard ==
  ASSUME IInv, SeatsFit, NEW c \in Clients,
         NEW t, t # "CONNECT", t # "DISCONNECT", Receive(c, t),
         UNCHANGED <<slot, peer, mode, port, toServer>>
  PROVE  SeatsFit'
<1>1. /\ toClient[c] # <<>> /\ Head(toClient[c]).type = t
      /\ toClient'[c] = Tail(toClient[c])
      /\ \A d \in Clients : d # c => toClient'[d] = toClient[d]
      /\ peer[c] => ControlsFit(c, toServer[c], toClient[c], port[c], slot)
  BY HeardFit
<1>2. peer[c] => ControlsFit(c, toServer[c], Tail(toClient[c]), port[c], slot)
  BY <1>1, OtherHeard, Shapes DEF AboutSeat
<1>3. Fit(c)'
  BY <1>1, <1>2 DEF SeatsFit, Fit, Linked
<1> QED BY <1>1, <1>3, OwnStep

LEMMA FitReceiveConnect ==
  ASSUME IInv, SeatsFit, NEW c \in Clients, ReceiveConnect(c)
  PROVE  SeatsFit'
<1>1. /\ toClient[c] # <<>> /\ Received(c) = Head(toClient[c])
      /\ Received(c).type = "CONNECT"
      /\ toClient'[c] = Tail(toClient[c])
      /\ \A d \in Clients : d # c => toClient'[d] = toClient[d]
      /\ peer[c] => ControlsFit(c, toServer[c], toClient[c], port[c], slot)
  BY HeardFit DEF ReceiveConnect
<1>2. UNCHANGED <<slot, peer, mode, toServer>>
  BY DEF ReceiveConnect, serverVars
<1>3. /\ \/ port'[c] = port[c]
         \/ port'[c] = [port[c] EXCEPT ![Received(c).ctrl] = Received(c).player]
      /\ \A d \in Clients : d # c => port'[d] = port[d]
  BY DEF ReceiveConnect, IInv, ClientOK
<1>4. peer[c] => ControlsFit(c, toServer[c], Tail(toClient[c]), port'[c], slot)
  BY <1>1, <1>3, SeatHeard, Shapes
<1>5. Fit(c)'
  BY <1>1, <1>2, <1>4 DEF SeatsFit, Fit, Linked
<1> QED BY <1>1, <1>2, <1>3, <1>5, OwnStep

LEMMA FitReceiveDisconnect ==
  ASSUME IInv, SeatsFit, NEW c \in Clients, ReceiveDisconnect(c)
  PROVE  SeatsFit'
<1>1. /\ toClient[c] # <<>> /\ Received(c) = Head(toClient[c])
      /\ Received(c).type = "DISCONNECT"
      /\ toClient'[c] = Tail(toClient[c])
      /\ \A d \in Clients : d # c => toClient'[d] = toClient[d]
      /\ peer[c] => ControlsFit(c, toServer[c], toClient[c], port[c], slot)
  BY HeardFit DEF ReceiveDisconnect
<1>2. UNCHANGED <<slot, peer, mode, toServer>>
  BY DEF ReceiveDisconnect, serverVars
<1>3. /\ port'[c] = [port[c] EXCEPT ![Received(c).ctrl] = Unplugged]
      /\ \A d \in Clients : d # c => port'[d] = port[d]
  BY DEF ReceiveDisconnect, IInv, ClientOK
<1>4. peer[c] => ControlsFit(c, toServer[c], Tail(toClient[c]), port'[c], slot)
  BY <1>1, <1>3, LeaveHeard, Shapes
<1>5. Fit(c)'
  BY <1>1, <1>2, <1>4 DEF SeatsFit, Fit, Linked
<1> QED BY <1>1, <1>2, <1>3, <1>5, OwnStep

\* A client sends a request, or loses it.
LEMMA PutOf ==
  ASSUME IInv, NEW c \in Clients, NEW m, Put(c, m)
  PROVE  /\ toServer'[c] = IF peer[c] THEN Append(toServer[c], m) ELSE toServer[c]
         /\ \A d \in Clients : d # c => toServer'[d] = toServer[d]
  BY DEF Put, IInv, RequestsOK

\* A client hears something that is not about seats and asks for something else.
LEMMA FitHeardPut ==
  ASSUME IInv, SeatsFit, NEW c \in Clients,
         NEW t, t # "CONNECT", t # "DISCONNECT", Receive(c, t),
         NEW m \in ToServerMessage, ~AboutSeat(m), m.type # "INPUT_OVERFLOW", Put(c, m),
         UNCHANGED <<slot, peer, port>>,
         \A d \in Clients : d # c => mode'[d] = mode[d]
  PROVE  SeatsFit'
<1>1. /\ toClient[c] # <<>> /\ mode[c] # "closed" /\ Head(toClient[c]).type = t
      /\ toClient'[c] = Tail(toClient[c])
      /\ \A d \in Clients : d # c => toClient'[d] = toClient[d]
      /\ peer[c] => ControlsFit(c, toServer[c], toClient[c], port[c], slot)
  BY HeardFit
<1>2. peer[c] => ControlsFit(c, toServer[c], Tail(toClient[c]), port[c], slot)
  BY <1>1, OtherHeard, Shapes DEF AboutSeat
<1>3. /\ RequestsFit(c, Append(toServer[c], m), slot)
      /\ peer[c] => ControlsFit(c, Append(toServer[c], m), Tail(toClient[c]), port[c], slot)
  <2>1. RequestsFit(c, toServer[c], slot) /\ Queue(toServer[c])
    BY Shapes DEF SeatsFit, Fit
  <2> QED BY <1>2, <2>1, OtherRequest
<1>4. /\ toServer'[c] = IF peer[c] THEN Append(toServer[c], m) ELSE toServer[c]
      /\ \A d \in Clients : d # c => toServer'[d] = toServer[d]
  BY PutOf
<1>5. Fit(c)'
  BY <1>1, <1>3, <1>4 DEF SeatsFit, Fit, Linked
<1> QED BY <1>1, <1>4, <1>5, OwnStep

LEMMA OtherNotes ==
  \A t \in {"CHECK_ID", "SPECTATE", "LEAVE", "START", "PAUSE", "RESUME", "END"} :
    Note(t) \in ToServerMessage /\ ~AboutSeat(Note(t)) /\ Note(t).type # "INPUT_OVERFLOW"
  BY Requests DEF AboutSeat, Note

LEMMA FitClientPoll ==
  ASSUME IInv, SeatsFit, NEW c \in Clients, ClientPoll(c)
  PROVE  SeatsFit'
<1>1. CASE ReceiveCheckId(c)
  <2>1. \A d \in Clients : d # c => mode'[d] = mode[d]
    BY <1>1 DEF ReceiveCheckId, IInv, ClientOK
  <2> QED BY <1>1, <2>1, OtherNotes, FitHeardPut DEF ReceiveCheckId, serverVars
<1>2. CASE ReceiveCheckIdFail(c)
  <2>1. /\ mode'[c] = "closed" /\ UNCHANGED <<slot, peer, port, toServer>>
        /\ \A d \in Clients : d # c => mode'[d] = mode[d] /\ toClient'[d] = toClient[d]
    BY <1>2 DEF ReceiveCheckIdFail, IInv, ClientOK, RepliesOK, serverVars
  <2>2. Fit(c)'
    BY <2>1 DEF SeatsFit, Fit, Linked
  <2> QED BY <2>1, <2>2, OwnStep
<1>3. CASE \/ ReceiveAddPlayer(c) \/ ReceiveRemovePlayer(c) \/ ReceiveAssignMaster(c)
           \/ ReceiveOther(c) \/ ReceiveStart(c) \/ ReceivePause(c) \/ ReceiveResume(c)
  <2>1. PICK t : t # "CONNECT" /\ t # "DISCONNECT" /\ Receive(c, t)
    BY <1>3 DEF ReceiveAddPlayer, ReceiveRemovePlayer, ReceiveAssignMaster, ReceiveOther,
                ReceiveStart, ReceivePause, ReceiveResume
  <2>2. UNCHANGED <<slot, peer, mode, port, toServer>>
    BY <1>3 DEF ReceiveAddPlayer, ReceiveRemovePlayer, ReceiveAssignMaster, ReceiveOther,
                ReceiveStart, ReceivePause, ReceiveResume, serverVars, clientVars
  <2> QED BY <2>1, <2>2, FitHeard
<1>4. CASE ReceiveEnd(c)
  <2>1. Receive(c, "END") /\ UNCHANGED <<slot, peer, mode, port>>
    BY <1>4 DEF ReceiveEnd, serverVars
  <2>2. CASE UNCHANGED toServer
    BY <2>1, <2>2, FitHeard
  <2>3. CASE Put(c, Note("START"))
    BY <2>1, <2>3, OtherNotes, FitHeardPut
  <2> QED BY <1>4, <2>2, <2>3 DEF ReceiveEnd
<1> QED BY <1>1, <1>2, <1>3, <1>4, FitReceiveConnect, FitReceiveDisconnect DEF ClientPoll

\* A client asks for something, so that Fit holds of the longer queue.
LEMMA FitAsk ==
  ASSUME IInv, SeatsFit, NEW c \in Clients, NEW m, Ask(c, m),
         Linked(c) => /\ RequestsFit(c, Append(toServer[c], m), slot)
                      /\ ControlsFit(c, Append(toServer[c], m), toClient[c], port[c], slot)
  PROVE  SeatsFit'
<1>1. /\ toServer'[c] = IF peer[c] THEN Append(toServer[c], m) ELSE toServer[c]
      /\ \A d \in Clients : d # c => toServer'[d] = toServer[d]
  BY PutOf DEF Ask
<1>2. UNCHANGED <<slot, peer, mode, port, toClient>> /\ mode[c] = "online"
  BY DEF Ask, serverVars, clientVars
<1>3. Fit(c)'
  BY <1>1, <1>2 DEF SeatsFit, Fit, Linked
<1> QED BY <1>1, <1>2, <1>3, OwnStep

LEMMA FitAskOther ==
  ASSUME IInv, SeatsFit, NEW c \in Clients, NEW m \in ToServerMessage, Ask(c, m),
         ~AboutSeat(m), m.type # "INPUT_OVERFLOW"
  PROVE  SeatsFit'
<1>1. Queue(toServer[c]) /\ RequestsFit(c, toServer[c], slot)
  BY Shapes DEF SeatsFit, Fit
<1>2. Linked(c) => ControlsFit(c, toServer[c], toClient[c], port[c], slot)
  BY DEF SeatsFit, Fit
<1> QED BY <1>1, <1>2, OtherRequest, FitAsk

LEMMA FitJoin ==
  ASSUME IInv, SeatsFit, NEW c \in Clients, NEW k \in Controllers, Join(c, k)
  PROVE  SeatsFit'
<1> DEFINE m == Request("CONNECT", k, -1)
<1>1. m \in ToServerMessage /\ m.type = "CONNECT" /\ m.ctrl = k
  BY Requests DEF Request
<1>2. port[c][k] = Unplugged /\ Ask(c, m)
  BY DEF Join
<1> HIDE DEF m
<1>3. /\ Queue(toServer[c]) /\ RequestsFit(c, toServer[c], slot)
      /\ Linked(c) => ControlsFit(c, toServer[c], toClient[c], port[c], slot)
  BY Shapes DEF SeatsFit, Fit
<1>4. Linked(c) => /\ RequestsFit(c, Append(toServer[c], m), slot)
                   /\ ControlsFit(c, Append(toServer[c], m), toClient[c], port[c], slot)
  BY <1>1, <1>2, <1>3, JoinAsked
<1> QED BY <1>2, <1>4, FitAsk

LEMMA FitBack ==
  ASSUME IInv, SeatsFit, "repeat_back" \notin Behaviours,
         NEW c \in Clients, NEW k \in Controllers, Back(c, k)
  PROVE  SeatsFit'
<1> DEFINE m == Request("DISCONNECT", k, port[c][k])
<1>1. port[c][k] # Unplugged /\ ~Answering(c, k) /\ Ask(c, m)
  BY DEF Back
<1>2. port[c][k] \in Players
  BY <1>1 DEF IInv, ClientOK
<1>3. /\ m \in ToServerMessage /\ m.type = "DISCONNECT" /\ m.ctrl = k
      /\ m.player = port[c][k]
  BY <1>2, Requests DEF Request
<1>4. /\ \A l \in In(toServer[c]) : l.type = "DISCONNECT" => l.ctrl # k
      /\ \A l \in In(toClient[c]) : l.type = "DISCONNECT" => l.ctrl # k
  BY <1>1 DEF Answering, In
<1> HIDE DEF m
<1>5. /\ Queue(toServer[c]) /\ RequestsFit(c, toServer[c], slot)
      /\ Linked(c) => ControlsFit(c, toServer[c], toClient[c], port[c], slot)
  BY Shapes DEF SeatsFit, Fit
<1>6. Linked(c) => /\ RequestsFit(c, Append(toServer[c], m), slot)
                   /\ ControlsFit(c, Append(toServer[c], m), toClient[c], port[c], slot)
  BY <1>1, <1>3, <1>4, <1>5, BackAsked
<1> QED BY <1>1, <1>6, FitAsk

\* A client that is gone: what it had sent last may be lost.
LEMMA FitGone ==
  ASSUME IInv, SeatsFit, NEW c \in Clients, Leave(c) \/ ClientLost(c)
  PROVE  SeatsFit'
<1>1. PICK n \in 0 .. Len(toServer[c]) : toServer' = [toServer EXCEPT ![c] = SubSeq(@, 1, n)]
  BY DEF Leave, ClientLost
<1>2. /\ mode' = [mode EXCEPT ![c] = "closed"]
      /\ port' = [port EXCEPT ![c] = [k \in Controllers |-> Unplugged]]
      /\ toClient' = [toClient EXCEPT ![c] = <<>>]
      /\ UNCHANGED <<slot, peer>>
  BY DEF Leave, ClientLost, serverVars
<1>3. /\ toServer'[c] = SubSeq(toServer[c], 1, n) /\ mode'[c] = "closed"
      /\ \A d \in Clients : d # c => /\ toServer'[d] = toServer[d] /\ mode'[d] = mode[d]
                                     /\ toClient'[d] = toClient[d] /\ port'[d] = port[d]
  BY <1>1, <1>2 DEF IInv, RequestsOK, RepliesOK, ClientOK
<1>4. RequestsFit(c, SubSeq(toServer[c], 1, n), slot)
  BY RequestsCut, Shapes DEF SeatsFit, Fit
<1>5. Fit(c)'
  BY <1>2, <1>3, <1>4 DEF Fit, Linked
<1> QED BY <1>2, <1>3, <1>5, OwnStep

\* A client that comes has asked for nothing and holds nothing.
LEMMA FitConnectTo ==
  ASSUME IInv, SeatsFit, NEW c \in Clients, Connect(c)
  PROVE  SeatsFit'
<1> DEFINE m == Note("CHECK_ID")
           none == [k \in Controllers |-> Unplugged]
<1>1. /\ toServer'[c] = <<m>> /\ toClient'[c] = <<>>
      /\ port'[c] = none
      /\ \A d \in Clients : d # c => /\ toServer'[d] = toServer[d] /\ mode'[d] = mode[d]
                                     /\ toClient'[d] = toClient[d] /\ port'[d] = port[d]
                                     /\ peer'[d] = peer[d]
      /\ UNCHANGED slot
  BY DEF Connect, IInv, RequestsOK, RepliesOK, ClientOK, ServerOK
<1>2. m.type # "INPUT_OVERFLOW" /\ m.type # "DISCONNECT" /\ \A k \in Controllers : none[k] = Unplugged
  BY OtherNotes DEF AboutSeat
<1> HIDE DEF m, none
<1>3. RequestsFit(c, <<m>>, slot)
  BY <1>2, InOne DEF RequestsFit, LastWord
<1>4. ControlsFit(c, <<m>>, <<>>, none, slot)
  BY <1>2, InOne, InEmpty DEF ControlsFit, OneWord
<1>5. Fit(c)'
  BY <1>1, <1>3, <1>4 DEF Fit
<1> QED BY <1>1, <1>5, OwnStep

LEMMA FitUser ==
  ASSUME IInv, SeatsFit, Orderly, NEW c \in Clients, User(c)
  PROVE  SeatsFit'
<1>1. /\ "repeat_back" \notin Behaviours /\ "early_join" \notin Behaviours
      /\ "overflow" \notin Behaviours
  BY DEF Orderly
<1>2. CASE Start(c) \/ Pause(c) \/ Resume(c) \/ End(c) \/ StopWatching(c)
  BY <1>2, OtherNotes, FitAskOther DEF Start, Pause, Resume, End, StopWatching
<1>3. ~FallBehind(c) /\ \A k \in Controllers : ~EarlyJoin(c, k)
  BY <1>1 DEF FallBehind, EarlyJoin
<1> QED BY <1>1, <1>2, <1>3, FitConnectTo, FitJoin, FitBack, FitGone DEF User

LEMMA FitServerPoll ==
  ASSUME IInv, SeatsFit, NEW c \in Clients, ServerPoll(c)
  PROVE  SeatsFit'
<1>1. ~HandleOverflow(c)
  BY PolledFit DEF HandleOverflow
<1> QED BY <1>1, FitCheckId, FitSpectate, FitPhases, FitConnect, FitDisconnect DEF ServerPoll

LEMMA FitNext ==
  ASSUME IInv, SeatsFit, Orderly, [Next]_vars
  PROVE  SeatsFit'
<1>1. CASE UNCHANGED vars
  BY <1>1 DEF vars, serverVars, clientVars, SeatsFit, Fit, Linked
<1> QED BY <1>1, FitServerPoll, FitPeerDisconnect, FitClientPoll, FitUser DEF Next

LEMMA FitInit ==
  ASSUME Init
  PROVE  SeatsFit
<1>1. \A c \in Clients : toServer[c] = <<>> /\ ~Linked(c)
  BY DEF Init, Linked
<1>2. \A c \in Clients : RequestsFit(c, <<>>, slot)
  BY InEmpty DEF RequestsFit, LastWord
<1> QED BY <1>1, <1>2 DEF SeatsFit, Fit

-----------------------------------------------------------------------------
(* The books of the server.                                                 *)

LEMMA OwnedFinite ==
  ASSUME NEW c
  PROVE  IsFiniteSet(Owned(c)) /\ Cardinality(Owned(c)) \in Nat
<1>1. Owned(c) \subseteq Taken
  BY DEF Owned
<1> QED BY <1>1, TakenFinite, FS_Subset, FS_CardinalityType

LEMMA NobodyOwned ==
  ASSUME NEW c, Cardinality(Owned(c)) = 0
  PROVE  Owned(c) = {}
  BY OwnedFinite, FS_EmptySet

\* Owners after a free slot p was given to c.
LEMMA OwnedAfterSeat ==
  ASSUME SlotsOK, NEW c \in Clients, NEW k \in Controllers, NEW p \in Players,
         slot[p] = Free, slot' = [slot EXCEPT ![p] = <<c, k>>]
  PROVE  /\ Owned(c)' = Owned(c) \cup {p} /\ p \notin Owned(c)
         /\ \A d \in Clients : d # c => Owned(d)' = Owned(d)
<1>1. <<c, k>> # Free /\ slot'[p] = <<c, k>>
  BY ConstantsAssumption DEF SlotsOK
<1>2. \A q \in Players : q # p => slot'[q] = slot[q]
  BY DEF SlotsOK
<1>3. Taken' = Taken \cup {p} /\ p \notin Taken
  BY <1>1, <1>2 DEF Taken
<1>5. ASSUME NEW d \in Clients, NEW q
      PROVE  q \in Owned(d)' <=> q \in Owned(d) \/ (q = p /\ d = c)
  <2>1. q \in Owned(d)' <=> q \in Taken \cup {p} /\ slot'[q][1] = d
    BY <1>3 DEF Owned
  <2>2. q \in Owned(d) <=> q \in Taken /\ slot[q][1] = d
    BY DEF Owned
  <2>3. CASE q = p
    BY <1>1, <1>3, <2>1, <2>2, <2>3
  <2>4. CASE q # p
    BY <1>2, <2>1, <2>2, <2>4 DEF Taken
  <2> QED BY <2>3, <2>4
<1>6. p \notin Owned(c)
  BY <1>3 DEF Owned
<1>7. Owned(c)' = Owned(c) \cup {p}
  BY <1>5
<1> QED BY <1>5, <1>6, <1>7

\* ... and after some slots were freed.
LEMMA OwnedAfterFree ==
  ASSUME SlotsOK, NEW S \in SUBSET Players, NEW d,
         slot' = [p \in Players |-> IF p \in S THEN Free ELSE slot[p]]
  PROVE  Owned(d)' = Owned(d) \ S
  BY DEF Owned, Taken

\* Heirs own a slot that is kept, and there is one at most.
LEMMA HeirsOwn ==
  ASSUME SlotsOK, NEW S, NEW d \in Heirs(S)
  PROVE  Owned(d) \ S # {} /\ \A e \in Heirs(S) : e = d
<1>1. ~(Taken \subseteq S) /\ Heirs(S) = {slot[Lowest(Taken \ S)][1]}
  BY DEF Heirs
<1>2. Taken \ S \in SUBSET Players /\ Taken \ S # {}
  BY <1>1 DEF Taken
<1>3. Lowest(Taken \ S) \in Taken \ S
  BY <1>2, LowestIn
<1> QED BY <1>1, <1>3 DEF Owned

\* A step that leaves slots and counters alone.
LEMMA BooksKept ==
  ASSUME Books, UNCHANGED <<slot, peer, cplaying, cmaster>>,
         \A d \in Clients : ~peer[d] => toServer'[d] = toServer[d]
  PROVE  Books'
<1>1. \A d : Owned(d)' = Owned(d)
  BY DEF Owned, Taken
<1> QED BY <1>1 DEF Books, SeatsAccounted, OneMaster

\* The server polls connected clients only.
LEMMA PolledBooks ==
  ASSUME IInv, NEW c \in Clients, NEW t, Poll(c, t)
  PROVE  peer[c] /\ \A d \in Clients : ~peer[d] => toServer'[d] = toServer[d]
  BY DEF Poll, IInv, RequestsOK

LEMMA BooksConnect ==
  ASSUME IInv, Books, NEW c \in Clients, HandleConnect(c)
  PROVE  Books'
<1> DEFINE k == Request1(c).ctrl
           p == Seat(Request1(c))
<1>1. /\ k \in Controllers /\ p \in Players /\ slot[p] = Free
      /\ slot' = [slot EXCEPT ![p] = <<c, k>>]
  BY ConnectParts DEF IInv
<1> HIDE DEF k, p
<1>2. /\ Owned(c)' = Owned(c) \cup {p} /\ p \notin Owned(c)
      /\ \A d \in Clients : d # c => Owned(d)' = Owned(d)
  BY <1>1, OwnedAfterSeat DEF IInv, ServerOK
<1>3. /\ cplaying'[c] = cplaying[c] + 1
      /\ \A d \in Clients : d # c => cplaying'[d] = cplaying[d] /\ cmaster'[d] = cmaster[d]
      /\ cmaster'[c] = (cmaster[c] \/ player_count = 0)
      /\ UNCHANGED peer
  BY DEF HandleConnect, IInv, ServerOK
<1>4. SeatsAccounted'
  <2>1. Cardinality(Owned(c) \cup {p}) = Cardinality(Owned(c)) + 1
    BY <1>2, OwnedFinite, FS_AddElement
  <2>2. cplaying[c] = Cardinality(Owned(c))
    BY DEF Books, SeatsAccounted
  <2>3. cplaying'[c] = Cardinality(Owned(c)')
    BY <1>2, <1>3, <2>1, <2>2
  <2>4. \A d \in Clients : d # c => cplaying'[d] = Cardinality(Owned(d)')
    BY <1>2, <1>3 DEF Books, SeatsAccounted
  <2> QED BY <2>3, <2>4 DEF SeatsAccounted
<1>5. \A d \in Clients : cmaster'[d] => Owned(d)' # {}
  BY <1>2, <1>3 DEF Books
<1>6. OneMaster'
  <2>1. CASE player_count = 0
    <3>1. Taken = {}
      BY <2>1, TakenFinite, FS_EmptySet DEF IInv, ServerOK, CountIsRoster
    <3>2. \A d \in Clients : ~cmaster[d]
      BY <3>1 DEF Books, Owned
    <3> QED BY <1>3, <3>2 DEF OneMaster
  <2>2. CASE player_count # 0
    <3>1. \A d \in Clients : cmaster'[d] => cmaster[d]
      BY <1>3, <2>2
    <3> QED BY <3>1 DEF Books, OneMaster
  <2> QED BY <2>1, <2>2
<1>7. peer[c] /\ \A d \in Clients : ~peer[d] => toServer'[d] = toServer[d]
  BY PolledBooks DEF HandleConnect
<1>8. \A d \in Clients : ~peer'[d] => cplaying'[d] = 0 /\ toServer'[d] = <<>>
  BY <1>3, <1>7 DEF Books
<1> QED BY <1>4, <1>5, <1>6, <1>8 DEF Books

LEMMA BooksDisconnect ==
  ASSUME IInv, SeatsFit, Books, NEW c \in Clients, HandleDisconnect(c)
  PROVE  Books'
<1> DEFINE k == Request1(c).ctrl
           p == Request1(c).player
           unmaster == cmaster[c] /\ Owned(c) \subseteq {p}
           heirs == IF unmaster THEN Heirs({p}) ELSE {}
<1>1. k \in Controllers /\ p \in Players
  BY Polled, RequestParts DEF HandleDisconnect, IInv
<1>2. /\ slot' = [slot EXCEPT ![p] = Free]
      /\ cmaster' = [d \in Clients |-> d \in heirs \/ (cmaster[d] /\ ~(d = c /\ unmaster))]
      /\ cplaying' = [cplaying EXCEPT ![c] = @ - 1]
      /\ UNCHANGED peer
  BY DEF HandleDisconnect
<1>3. slot[p] = <<c, k>>
  BY PolledFit DEF HandleDisconnect, SeatsFit, Fit, RequestsFit
<1>4. p \in Owned(c) /\ \A d \in Clients : d # c => p \notin Owned(d)
  BY <1>1, <1>3, ConstantsAssumption DEF Owned, Taken
<1> HIDE DEF k, p
<1>5. \A d \in Clients : Owned(d)' = Owned(d) \ {p}
  <2>1. slot' = [q \in Players |-> IF q \in {p} THEN Free ELSE slot[q]]
    BY <1>1, <1>2 DEF IInv, ServerOK, SlotsOK
  <2> QED BY <1>1, <2>1, OwnedAfterFree DEF IInv, ServerOK
<1>6. SeatsAccounted'
  <2>1. Cardinality(Owned(c) \ {p}) = Cardinality(Owned(c)) - 1
    BY <1>4, OwnedFinite, FS_RemoveElement
  <2>2. cplaying'[c] = Cardinality(Owned(c)')
    BY <1>2, <1>5, <2>1 DEF Books, SeatsAccounted, IInv, ServerOK
  <2>3. ASSUME NEW d \in Clients, d # c
        PROVE  cplaying'[d] = Cardinality(Owned(d)')
    <3>1. Owned(d)' = Owned(d)
      BY <1>4, <1>5, <2>3
    <3> QED BY <1>2, <2>3, <3>1 DEF Books, SeatsAccounted, IInv, ServerOK
  <2> QED BY <2>2, <2>3 DEF SeatsAccounted
<1>7. \A d \in heirs : Owned(d) \ {p} # {} /\ \A e \in heirs : e = d
  BY HeirsOwn DEF IInv, ServerOK
<1>8. heirs # {} => cmaster[c]
  OBVIOUS
<1>9. ASSUME NEW d \in Clients, cmaster'[d]
      PROVE  Owned(d)' # {} /\ (d \in heirs \/ (cmaster[d] /\ ~(d = c /\ unmaster)))
  <2>1. d \in heirs \/ (cmaster[d] /\ ~(d = c /\ unmaster))
    BY <1>2, <1>9
  <2>2. CASE d \in heirs
    BY <1>5, <1>7, <2>1, <2>2
  <2>3. CASE d = c /\ cmaster[c] /\ ~unmaster
    BY <1>5, <2>1, <2>3
  <2>4. CASE d # c /\ cmaster[d]
    BY <1>4, <1>5, <2>1, <2>4 DEF Books
  <2> QED BY <2>1, <2>2, <2>3, <2>4
<1>10. OneMaster'
  <2> SUFFICES ASSUME NEW d \in Clients, NEW e \in Clients, cmaster'[d], cmaster'[e]
               PROVE  d = e
    BY DEF OneMaster
  <2>1. /\ d \in heirs \/ (cmaster[d] /\ ~(d = c /\ unmaster))
        /\ e \in heirs \/ (cmaster[e] /\ ~(e = c /\ unmaster))
    BY <1>9
  <2>2. CASE unmaster
    <3>1. \A f \in Clients : cmaster[f] => f = c
      BY <2>2 DEF Books, OneMaster
    <3> QED BY <1>7, <2>1, <2>2, <3>1
  <2>3. CASE ~unmaster
    BY <2>1, <2>3 DEF Books, OneMaster
  <2> QED BY <2>2, <2>3
<1>11. peer[c] /\ \A d \in Clients : ~peer[d] => toServer'[d] = toServer[d]
  BY PolledBooks DEF HandleDisconnect
<1>12. \A d \in Clients : ~peer'[d] => cplaying'[d] = 0 /\ toServer'[d] = <<>>
  BY <1>2, <1>11 DEF Books, IInv, ServerOK
<1> QED BY <1>6, <1>9, <1>10, <1>12 DEF Books

\* A client with a slot has a counter that is not 0: all its slots are freed.
LEMMA BooksPeerDisconnect ==
  ASSUME IInv, Books, NEW c \in Clients, PeerDisconnect(c)
  PROVE  Books'
<1>1. Gone(c) = Owned(c)
  BY NobodyOwned DEF Gone, Books, SeatsAccounted
<1>2. /\ slot' = [p \in Players |-> IF p \in Owned(c) THEN Free ELSE slot[p]]
      /\ peer' = [peer EXCEPT ![c] = FALSE]
      /\ cplaying' = [cplaying EXCEPT ![c] = 0]
      /\ cmaster' = [cmaster EXCEPT ![c] = FALSE]
      /\ toServer' = [toServer EXCEPT ![c] = <<>>]
  BY <1>1 DEF PeerDisconnect
<1>3. \A d \in Clients : Owned(d)' = Owned(d) \ Owned(c)
  <2>1. Owned(c) \in SUBSET Players
    BY DEF Owned, Taken
  <2> QED BY <1>2, <2>1, OwnedAfterFree DEF IInv, ServerOK
<1>4. Owned(c)' = {}
  BY <1>3
<1>5. \A d \in Clients : d # c => Owned(d)' = Owned(d)
  BY <1>3 DEF Owned
<1>6. /\ cplaying'[c] = 0 /\ ~cmaster'[c] /\ toServer'[c] = <<>>
      /\ \A d \in Clients : d # c => /\ cplaying'[d] = cplaying[d] /\ cmaster'[d] = cmaster[d]
                                     /\ peer'[d] = peer[d] /\ toServer'[d] = toServer[d]
  BY <1>2 DEF IInv, ServerOK, RequestsOK
<1>7. SeatsAccounted'
  <2>1. cplaying'[c] = Cardinality(Owned(c)')
    BY <1>4, <1>6, FS_EmptySet
  <2> QED BY <1>5, <1>6, <2>1 DEF SeatsAccounted, Books
<1>8. OneMaster'
  BY <1>6 DEF OneMaster, Books
<1> QED BY <1>5, <1>6, <1>7, <1>8 DEF Books

LEMMA BooksServerPoll ==
  ASSUME IInv, SeatsFit, Books, NEW c \in Clients, ServerPoll(c)
  PROVE  Books'
<1>1. ~HandleOverflow(c)
  BY PolledFit DEF HandleOverflow
<1>2. CASE \/ HandleCheckId(c) \/ HandleSpectate(c) \/ HandleLeave(c) \/ RefuseConnect(c)
           \/ HandleStart(c) \/ HandlePause(c) \/ HandleResume(c) \/ HandleEnd(c)
  <2>1. UNCHANGED <<slot, peer, cplaying, cmaster>> /\ \E t : Poll(c, t)
    BY <1>2 DEF HandleCheckId, HandleSpectate, HandleLeave, RefuseConnect, serverVars,
                HandleStart, HandlePause, HandleResume, Advance, HandleEnd
  <2> QED BY <2>1, PolledBooks, BooksKept
<1> QED BY <1>1, <1>2, BooksConnect, BooksDisconnect DEF ServerPoll

LEMMA BooksClient ==
  ASSUME IInv, Books, NEW c \in Clients, ClientPoll(c) \/ User(c)
  PROVE  Books'
<1>1. CASE Connect(c)
  <2>1. /\ cplaying'[c] = 0 /\ cmaster'[c] = FALSE /\ peer'[c] = TRUE
        /\ \A d \in Clients : d # c => /\ cplaying'[d] = cplaying[d] /\ cmaster'[d] = cmaster[d]
                                       /\ peer'[d] = peer[d] /\ toServer'[d] = toServer[d]
        /\ UNCHANGED slot /\ ~peer[c]
    BY <1>1 DEF Connect, IInv, ServerOK, RequestsOK
  <2>2. \A d : Owned(d)' = Owned(d)
    BY <2>1 DEF Owned, Taken
  <2>3. cplaying'[c] = cplaying[c]
    BY <2>1 DEF Books
  <2> QED BY <2>1, <2>2, <2>3 DEF Books, SeatsAccounted, OneMaster
<1>2. CASE Leave(c) \/ ClientLost(c)
  <2>1. PICK n \in 0 .. Len(toServer[c]) : toServer' = [toServer EXCEPT ![c] = SubSeq(@, 1, n)]
    BY <1>2 DEF Leave, ClientLost
  <2>2. ASSUME toServer[c] = <<>>
        PROVE  SubSeq(toServer[c], 1, n) = <<>>
    <3>1. n = 0
      BY <2>2
    <3> QED BY <2>2, <3>1, SubSeqEmpty
  <2>3. \A d \in Clients : ~peer[d] => toServer'[d] = toServer[d]
    BY <2>1, <2>2 DEF Books, IInv, RequestsOK
  <2>4. UNCHANGED <<slot, peer, cplaying, cmaster>>
    BY <1>2 DEF Leave, ClientLost, serverVars
  <2> QED BY <2>3, <2>4, BooksKept
<1>3. CASE ClientPoll(c)
  <2>1. UNCHANGED <<slot, peer, cplaying, cmaster>>
    BY <1>3 DEF ClientPoll, ReceiveCheckId, ReceiveCheckIdFail, ReceiveConnect,
              ReceiveDisconnect, ReceiveAddPlayer, ReceiveRemovePlayer,
              ReceiveAssignMaster, ReceiveOther, ReceiveStart, ReceivePause,
              ReceiveResume, ReceiveEnd, serverVars
  <2>2. UNCHANGED toServer \/ \E m : Put(c, m)
    BY <1>3 DEF ClientPoll, ReceiveCheckId, ReceiveCheckIdFail, ReceiveConnect,
              ReceiveDisconnect, ReceiveAddPlayer, ReceiveRemovePlayer,
              ReceiveAssignMaster, ReceiveOther, ReceiveStart, ReceivePause,
              ReceiveResume, ReceiveEnd
  <2> QED BY <2>1, <2>2, PutOf, BooksKept
<1>4. CASE \/ Start(c) \/ Pause(c) \/ Resume(c) \/ End(c) \/ StopWatching(c) \/ FallBehind(c)
           \/ \E k \in Controllers : Join(c, k) \/ Back(c, k)
  <2>1. \E m : Ask(c, m)
    BY <1>4 DEF Start, Pause, Resume, End, StopWatching, FallBehind, Join, Back
  <2>2. UNCHANGED <<slot, peer, cplaying, cmaster>> /\ \E m : Put(c, m)
    BY <2>1 DEF Ask, serverVars
  <2> QED BY <2>2, PutOf, BooksKept
<1>5. ASSUME NEW k \in Controllers, EarlyJoin(c, k)
      PROVE  Books'
  BY <1>5, BooksKept DEF EarlyJoin, serverVars
<1> QED BY <1>1, <1>2, <1>3, <1>4, <1>5 DEF User

LEMMA BooksNext ==
  ASSUME IInv, SeatsFit, Books, [Next]_vars
  PROVE  Books'
<1>1. CASE UNCHANGED vars
  BY <1>1, BooksKept DEF vars, serverVars
<1> QED BY <1>1, BooksServerPoll, BooksPeerDisconnect, BooksClient DEF Next

LEMMA BooksInit ==
  ASSUME Init
  PROVE  Books
<1>1. \A c \in Clients : Owned(c) = {}
  BY DEF Init, Owned, Taken
<1> QED BY <1>1, FS_EmptySet DEF Init, Books, SeatsAccounted, OneMaster

-----------------------------------------------------------------------------
(* Starts, ends and pauses under way to a client.                           *)

\* What comes later does not matter.
LEMMA RunningPrefix ==
  ASSUME NEW M, NEW s \in Seq(M), NEW t \in Seq(M), NEW on, NEW n \in 0 .. Len(s)
  PROVE  Running(s \o t, n, on) <=> Running(s, n, on)
<1>1. \A i \in 1 .. n : (s \o t)[i] = s[i]
  BY ConcatProperties, LenProperties
<1>2. \A i \in 1 .. n : \A j \in i + 1 .. n : j \in 1 .. n
  BY LenProperties
<1>3. /\ \A i \in 1 .. n : (s \o t)[i].type = s[i].type
      /\ \A i \in 1 .. n : \A j \in i + 1 .. n : (s \o t)[j].type = s[j].type
  BY <1>1, <1>2
<1> QED BY <1>3, SMTT(30) DEF Running

\* A game that is on goes on until END.
LEMMA RunningOn ==
  ASSUME NEW M, NEW s \in Seq(M), NEW t \in Seq(M), NEW on, Running(s, Len(s), on),
         \A m \in In(t) : m.type # "END",
         NEW n \in Len(s) .. Len(s \o t)
  PROVE  Running(s \o t, n, on)
<1>1. /\ Len(s) \in Nat /\ Len(t) \in Nat /\ Len(s \o t) = Len(s) + Len(t)
      /\ \A i \in 1 .. Len(s) + Len(t) :
           (s \o t)[i] = IF i <= Len(s) THEN s[i] ELSE t[i - Len(s)]
  BY ConcatProperties, LenProperties
<1>2. \A i \in 1 .. Len(s) : (s \o t)[i] = s[i]
  BY <1>1
<1>3. ASSUME NEW j \in Len(s) + 1 .. n
      PROVE  (s \o t)[j].type # "END"
  <2>1. j - Len(s) \in 1 .. Len(t) /\ (s \o t)[j] = t[j - Len(s)]
    BY <1>1
  <2> QED BY <2>1 DEF In
<1>4. CASE \E i \in 1 .. Len(s) : s[i].type = "START"
                                  /\ \A j \in i + 1 .. Len(s) : s[j].type # "END"
  <2>1. PICK i \in 1 .. Len(s) : s[i].type = "START"
                                 /\ \A j \in i + 1 .. Len(s) : s[j].type # "END"
    BY <1>4
  <2>2. i \in 1 .. n /\ (s \o t)[i].type = "START"
    BY <1>1, <1>2, <2>1
  <2>3. ASSUME NEW j \in i + 1 .. n
        PROVE  (s \o t)[j].type # "END"
    <3>1. CASE j <= Len(s)
      <4>1. j \in i + 1 .. Len(s) /\ j \in 1 .. Len(s)
        BY <1>1, <3>1
      <4> QED BY <1>2, <2>1, <4>1
    <3>2. CASE ~(j <= Len(s))
      <4>1. j \in Len(s) + 1 .. n
        BY <1>1, <3>2
      <4> QED BY <1>3, <4>1
    <3> QED BY <3>1, <3>2
  <2> QED BY <2>2, <2>3 DEF Running
<1>5. CASE on /\ \A j \in 1 .. Len(s) : s[j].type # "END"
  <2>1. ASSUME NEW j \in 1 .. n
        PROVE  (s \o t)[j].type # "END"
    <3>1. CASE j <= Len(s)
      <4>1. j \in 1 .. Len(s)
        BY <1>1, <3>1
      <4> QED BY <1>2, <1>5, <4>1
    <3>2. CASE ~(j <= Len(s))
      <4>1. j \in Len(s) + 1 .. n
        BY <1>1, <3>2
      <4> QED BY <1>3, <4>1
    <3> QED BY <3>1, <3>2
  <2> QED BY <1>5, <2>1 DEF Running
<1> QED BY <1>4, <1>5 DEF Running

\* A client is told something in a game, or something that is no pause.
LEMMA PausesSent ==
  ASSUME NEW M, NEW s \in Seq(M), NEW t \in Seq(M), NEW on, PausesFit(s, on),
         \/ \A m \in In(t) : m.type \notin {"PAUSE", "RESUME"}
         \/ Running(s, Len(s), on) /\ \A m \in In(t) : m.type # "END"
  PROVE  PausesFit(s \o t, on)
<1>1. /\ Len(s) \in Nat /\ Len(t) \in Nat /\ Len(s \o t) = Len(s) + Len(t)
      /\ \A i \in 1 .. Len(s) + Len(t) :
           (s \o t)[i] = IF i <= Len(s) THEN s[i] ELSE t[i - Len(s)]
  BY ConcatProperties, LenProperties
<1> SUFFICES ASSUME NEW i \in 1 .. Len(s \o t), (s \o t)[i].type \in {"PAUSE", "RESUME"}
             PROVE  Running(s \o t, i, on)
  BY DEF PausesFit
<1>2. CASE i <= Len(s)
  <2>1. i \in 1 .. Len(s) /\ i \in 0 .. Len(s) /\ (s \o t)[i] = s[i]
    BY <1>1, <1>2
  <2>2. Running(s, i, on)
    BY <2>1 DEF PausesFit
  <2> QED BY <2>1, <2>2, RunningPrefix
<1>3. CASE ~(i <= Len(s))
  <2>1. i - Len(s) \in 1 .. Len(t) /\ (s \o t)[i] = t[i - Len(s)] /\ i \in Len(s) .. Len(s \o t)
    BY <1>1, <1>3
  <2>2. (s \o t)[i] \in In(t)
    BY <2>1 DEF In
  <2>3. Running(s, Len(s), on) /\ \A m \in In(t) : m.type # "END"
    BY <2>2
  <2> QED BY <2>1, <2>3, RunningOn
<1> QED BY <1>2, <1>3

\* A client that is told of START is in a game once it has read it.
LEMMA RunningStart ==
  ASSUME NEW M, NEW s \in Seq(M), NEW m \in M, m.type = "START", NEW on
  PROVE  Running(s \o <<m>>, Len(s \o <<m>>), on)
<1>1. /\ Len(s) \in Nat /\ Len(s \o <<m>>) = Len(s) + 1
      /\ (s \o <<m>>)[Len(s) + 1] = m
  <2>1. Append(s, m) = s \o <<m>>
    BY AppendedOne
  <2>2. Len(Append(s, m)) = Len(s) + 1 /\ Append(s, m)[Len(s) + 1] = m /\ Len(s) \in Nat
    BY AppendProperties, LenProperties
  <2> QED BY <2>1, <2>2
<1>2. \A j \in (Len(s) + 1) + 1 .. Len(s) + 1 : FALSE
  BY <1>1
<1>3. Len(s) + 1 \in 1 .. Len(s) + 1
  BY <1>1
<1> QED BY <1>1, <1>2, <1>3 DEF Running

\* A client reads the first message: on2 says whether it is in a game then.
LEMMA RunningRead ==
  ASSUME NEW M, NEW s \in Seq(M), s # <<>>, NEW on \in BOOLEAN, NEW on2 \in BOOLEAN,
         Head(s).type = "START" => on2, on /\ Head(s).type # "END" => on2,
         NEW n \in 0 .. Len(s) - 1, Running(s, n + 1, on)
  PROVE  Running(Tail(s), n, on2)
<1>1. /\ Len(s) \in Nat \ {0} /\ Len(Tail(s)) = Len(s) - 1 /\ Head(s) = s[1]
      /\ \A i \in 1 .. Len(Tail(s)) : i + 1 \in 1 .. Len(s) /\ Tail(s)[i] = s[i + 1]
  BY Tails
<1>2. \A i \in 1 .. n : Tail(s)[i] = s[i + 1] /\ i + 1 \in 1 .. n + 1
  BY <1>1
<1>3. CASE \E i \in 1 .. n + 1 : s[i].type = "START"
                                 /\ \A j \in i + 1 .. n + 1 : s[j].type # "END"
  <2>1. PICK i \in 1 .. n + 1 : s[i].type = "START"
                                /\ \A j \in i + 1 .. n + 1 : s[j].type # "END"
    BY <1>3
  <2>2. CASE i = 1
    <3>1. on2
      BY <1>1, <2>1, <2>2
    <3>2. \A j \in 1 .. n : j + 1 \in i + 1 .. n + 1
      BY <2>2
    <3>3. \A j \in 1 .. n : Tail(s)[j].type # "END"
      BY <1>2, <2>1, <3>2
    <3> QED BY <3>1, <3>3 DEF Running
  <2>3. CASE i # 1
    <3>1. i - 1 \in 1 .. n /\ Tail(s)[i - 1] = s[i]
      BY <1>1, <2>3
    <3>2. \A j \in (i - 1) + 1 .. n : j \in 1 .. n /\ j + 1 \in i + 1 .. n + 1
      BY <2>3
    <3>3. \A j \in (i - 1) + 1 .. n : Tail(s)[j].type # "END"
      BY <1>2, <2>1, <3>2
    <3> QED BY <2>1, <3>1, <3>3 DEF Running
  <2> QED BY <2>2, <2>3
<1>4. CASE on /\ \A j \in 1 .. n + 1 : s[j].type # "END"
  <2>1. 1 \in 1 .. n + 1
    BY <1>1
  <2>2. on2
    BY <1>1, <1>4, <2>1
  <2>3. \A j \in 1 .. n : Tail(s)[j].type # "END"
    BY <1>2, <1>4
  <2> QED BY <2>2, <2>3 DEF Running
<1> QED BY <1>3, <1>4 DEF Running

LEMMA PausesRead ==
  ASSUME NEW M, NEW s \in Seq(M), s # <<>>, NEW on \in BOOLEAN, NEW on2 \in BOOLEAN,
         Head(s).type = "START" => on2, on /\ Head(s).type # "END" => on2,
         PausesFit(s, on)
  PROVE  /\ PausesFit(Tail(s), on2)
         /\ Running(s, Len(s), on) => Running(Tail(s), Len(Tail(s)), on2)
         /\ Head(s).type \in {"PAUSE", "RESUME"} => on
<1>1. /\ Len(s) \in Nat \ {0} /\ Len(Tail(s)) = Len(s) - 1 /\ Head(s) = s[1]
      /\ \A i \in 1 .. Len(Tail(s)) : i + 1 \in 1 .. Len(s) /\ Tail(s)[i] = s[i + 1]
  BY Tails
<1>2. ASSUME NEW i \in 1 .. Len(Tail(s)), Tail(s)[i].type \in {"PAUSE", "RESUME"}
      PROVE  Running(Tail(s), i, on2)
  <2>1. Running(s, i + 1, on) /\ i \in 0 .. Len(s) - 1
    BY <1>1, <1>2 DEF PausesFit
  <2> QED BY <2>1, RunningRead
<1>3. ASSUME Running(s, Len(s), on)
      PROVE  Running(Tail(s), Len(Tail(s)), on2)
  <2>1. Len(s) - 1 \in 0 .. Len(s) - 1 /\ (Len(s) - 1) + 1 = Len(s)
    BY <1>1
  <2>2. Running(s, (Len(s) - 1) + 1, on)
    BY <1>3, <2>1
  <2>3. Running(Tail(s), Len(s) - 1, on2)
    BY <2>1, <2>2, RunningRead
  <2> QED BY <1>1, <2>3
<1>4. ASSUME Head(s).type \in {"PAUSE", "RESUME"}
      PROVE  on
  <2>1. Running(s, 1, on) /\ 1 \in 1 .. 1
    BY <1>1, <1>4 DEF PausesFit
  <2>2. \A i \in 1 .. 1 : i = 1
    OBVIOUS
  <2> QED BY <1>1, <1>4, <2>1, <2>2 DEF Running
<1> QED BY <1>2, <1>3, <1>4 DEF PausesFit

\* A handler of the server sends to client d, by what it sends:
\* something that neither ends nor pauses, and d does not enter a game;
LEMMA PhaseCalm ==
  ASSUME IInv, NEW d \in Clients, PhaseFit(d), NEW out, Send(out), Answers(out[d]),
         UNCHANGED clientVars,
         \A m \in In(out[d]) : m.type \notin {"PAUSE", "RESUME", "END"},
         d \in InGame' /\ state' # "OFF" => d \in InGame /\ state # "OFF"
  PROVE  PhaseFit(d)'
<1> SUFFICES ASSUME mode[d] # "closed"
             PROVE  /\ PausesFit(toClient'[d], cstate[d] # "OFF")
                    /\ d \in InGame' /\ state' # "OFF" =>
                         Running(toClient'[d], Len(toClient'[d]), cstate[d] # "OFF")
  BY DEF PhaseFit, clientVars
<1>1. toClient'[d] = toClient[d] \o out[d]
  BY SentTo
<1>2. toClient[d] \in Seq(ToClientMessage) /\ out[d] \in Seq(ToClientMessage)
  BY Shapes DEF Answers
<1>3. PausesFit(toClient[d] \o out[d], cstate[d] # "OFF")
  BY <1>2, PausesSent DEF PhaseFit
<1>4. ASSUME d \in InGame /\ state # "OFF"
      PROVE  Running(toClient[d] \o out[d], Len(toClient[d] \o out[d]), cstate[d] # "OFF")
  <2>1. Running(toClient[d], Len(toClient[d]), cstate[d] # "OFF")
    BY <1>4 DEF PhaseFit
  <2>2. Len(toClient[d] \o out[d]) \in Len(toClient[d]) .. Len(toClient[d] \o out[d])
    BY <1>2, LongerConcat
  <2>3. \A m \in In(out[d]) : m.type # "END"
    OBVIOUS
  <2> QED BY ONLY <1>2, <2>1, <2>2, <2>3, RunningOn
<1> QED BY <1>1, <1>3, <1>4

\* ... something that does not pause, and no game is on afterwards;
LEMMA PhaseOff ==
  ASSUME IInv, NEW d \in Clients, PhaseFit(d), NEW out, Send(out), Answers(out[d]),
         UNCHANGED clientVars,
         \A m \in In(out[d]) : m.type \notin {"PAUSE", "RESUME"}, state' = "OFF"
  PROVE  PhaseFit(d)'
<1> SUFFICES ASSUME mode[d] # "closed"
             PROVE  PausesFit(toClient'[d], cstate[d] # "OFF")
  BY DEF PhaseFit, clientVars
<1>1. toClient'[d] = toClient[d] \o out[d]
  BY SentTo
<1>2. toClient[d] \in Seq(ToClientMessage) /\ out[d] \in Seq(ToClientMessage)
  BY Shapes DEF Answers
<1> QED BY <1>1, <1>2, PausesSent DEF PhaseFit

\* ... START;
LEMMA PhaseStart ==
  ASSUME IInv, NEW d \in Clients, PhaseFit(d), NEW out, Send(out),
         UNCHANGED clientVars, out[d] = <<Note("START")>>
  PROVE  PhaseFit(d)'
<1> DEFINE m == Note("START")
<1>1. m \in ToClientMessage /\ m.type = "START"
  BY Replies DEF Note
<1> SUFFICES ASSUME mode[d] # "closed"
             PROVE  /\ PausesFit(toClient'[d], cstate[d] # "OFF")
                    /\ Running(toClient'[d], Len(toClient'[d]), cstate[d] # "OFF")
  BY DEF PhaseFit, clientVars
<1>2. toClient'[d] = toClient[d] \o <<m>>
  BY SentTo
<1> HIDE DEF m
<1>3. toClient[d] \in Seq(ToClientMessage) /\ <<m>> \in Seq(ToClientMessage)
  BY <1>1, Shapes, QueueOfOne DEF Answers
<1>4. PausesFit(toClient[d] \o <<m>>, cstate[d] # "OFF")
  BY <1>1, <1>3, InOne, PausesSent DEF PhaseFit
<1> QED BY <1>1, <1>2, <1>3, <1>4, RunningStart

\* ... PAUSE or RESUME, when it is in the game.
LEMMA PhasePause ==
  ASSUME IInv, NEW d \in Clients, PhaseFit(d), NEW out, Send(out),
         UNCHANGED clientVars, d \in InGame, state # "OFF",
         NEW t \in {"PAUSE", "RESUME"}, out[d] = <<Note(t)>>
  PROVE  PhaseFit(d)'
<1> DEFINE m == Note(t)
<1>1. m \in ToClientMessage /\ m.type = t
  BY Replies DEF Note
<1> SUFFICES ASSUME mode[d] # "closed"
             PROVE  /\ PausesFit(toClient'[d], cstate[d] # "OFF")
                    /\ Running(toClient'[d], Len(toClient'[d]), cstate[d] # "OFF")
  BY DEF PhaseFit, clientVars
<1>2. toClient'[d] = toClient[d] \o <<m>>
  BY SentTo
<1> HIDE DEF m
<1>3. toClient[d] \in Seq(ToClientMessage) /\ <<m>> \in Seq(ToClientMessage)
  BY <1>1, Shapes, QueueOfOne DEF Answers
<1>4. Running(toClient[d], Len(toClient[d]), cstate[d] # "OFF")
  BY DEF PhaseFit
<1>5. \A n \in In(<<m>>) : n.type # "END"
  BY <1>1, InOne
<1>6. PausesFit(toClient[d] \o <<m>>, cstate[d] # "OFF")
  BY <1>3, <1>4, <1>5, PausesSent DEF PhaseFit
<1>7. Len(toClient[d] \o <<m>>) \in Len(toClient[d]) .. Len(toClient[d] \o <<m>>)
  BY <1>3, LongerConcat
<1>8. Running(toClient[d] \o <<m>>, Len(toClient[d] \o <<m>>), cstate[d] # "OFF")
  BY <1>3, <1>4, <1>5, <1>7, RunningOn
<1> QED BY <1>2, <1>6, <1>8

\* What is neither a pause nor an end.
Calm(s) == \A m \in In(s) : m.type \notin {"PAUSE", "RESUME", "END"}

LEMMA CalmRuns ==
  /\ Calm(<<>>)
  /\ \A m : m.type \notin {"PAUSE", "RESUME", "END"} => Calm(<<m>>)
  /\ \A s, t : Answers(s) /\ Answers(t) /\ Calm(s) /\ Calm(t) => Calm(s \o t)
<1>1. ASSUME NEW s, NEW t, Answers(s), Answers(t), Calm(s), Calm(t)
      PROVE  Calm(s \o t)
  BY <1>1, InConcat DEF Answers, Calm
<1> QED BY <1>1, InEmpty, InOne DEF Calm

LEMMA CalmNotes ==
  /\ \A t \in {"CHECK_ID", "CHECK_ID_FAIL", "CONNECT_FAIL", "SPECTATE",
               "ASSIGN_MASTER", "START"} : Calm(<<Note(t)>>)
  /\ \A t \in {"ADD_PLAYER", "REMOVE_PLAYER"} : \A S :
       Calm(<<About(t, S)>>) /\ Calm(AboutSome(t, S))
  /\ \A t \in {"CONNECT", "DISCONNECT"} : \A k, p : Calm(<<Request(t, k, p)>>)
<1>1. \A t \in {"CHECK_ID", "CHECK_ID_FAIL", "CONNECT_FAIL", "SPECTATE",
               "ASSIGN_MASTER", "START"} : Note(t).type \notin {"PAUSE", "RESUME", "END"}
  BY DEF Note
<1>2. \A t \in {"ADD_PLAYER", "REMOVE_PLAYER"} : \A S :
        About(t, S).type \notin {"PAUSE", "RESUME", "END"}
  BY DEF About
<1>3. \A t \in {"CONNECT", "DISCONNECT"} : \A k, p :
        Request(t, k, p).type \notin {"PAUSE", "RESUME", "END"}
  BY DEF Request
<1>4. \A t \in {"ADD_PLAYER", "REMOVE_PLAYER"} : \A S : Calm(<<About(t, S)>>)
  BY <1>2, CalmRuns
<1> QED BY <1>1, <1>3, <1>4, CalmRuns DEF AboutSome

LEMMA PhasesSilent ==
  ASSUME IInv, PhasesFit, UNCHANGED <<clientVars, toClient>>,
         \A d \in Clients : d \in InGame' /\ state' # "OFF" => d \in InGame /\ state # "OFF"
  PROVE  PhasesFit'
<1>1. Send(Each({}, <<>>))
  BY SentNothing DEF IInv
<1>2. \A d \in Clients : Each({}, <<>>)[d] = <<>>
  BY DEF Each
<1>3. Answers(<<>>) /\ Calm(<<>>)
  BY QuietRuns, CalmRuns
<1>4. ASSUME NEW d \in Clients
      PROVE  PhaseFit(d)'
  <2> DEFINE out == Each({}, <<>>)
  <2>1. Answers(out[d]) /\ Calm(out[d]) /\ Send(out)
    BY <1>1, <1>2, <1>3
  <2> HIDE DEF out
  <2> QED BY <2>1, PhaseCalm DEF PhasesFit, Calm
<1> QED BY <1>4 DEF PhasesFit

LEMMA PhasesCalm ==
  ASSUME IInv, PhasesFit, UNCHANGED clientVars, NEW out, Send(out),
         \A d \in Clients : Answers(out[d]) /\ Calm(out[d]),
         \A d \in Clients : d \in InGame' /\ state' # "OFF" => d \in InGame /\ state # "OFF"
  PROVE  PhasesFit'
  BY PhaseCalm DEF PhasesFit, Calm

LEMMA PhasesTalk ==
  ASSUME IInv, PhasesFit, NEW c \in Clients,
         HandleCheckId(c) \/ HandleSpectate(c) \/ HandleLeave(c) \/ RefuseConnect(c)
  PROVE  PhasesFit'
<1>1. CASE HandleCheckId(c) \/ RefuseConnect(c)
  <2>1. PICK t \in {"CHECK_ID", "CHECK_ID_FAIL", "CONNECT_FAIL"} : Send(Only(c, <<Note(t)>>))
    BY <1>1 DEF HandleCheckId, RefuseConnect
  <2>2. \A d \in Clients : Answers(Only(c, <<Note(t)>>)[d]) /\ Calm(Only(c, <<Note(t)>>)[d])
    <3>1. Answers(<<Note(t)>>) /\ Calm(<<Note(t)>>) /\ Answers(<<>>) /\ Calm(<<>>)
      BY QuietNotes, CalmNotes, QuietRuns, CalmRuns
    <3> QED BY <3>1 DEF Only
  <2>3. UNCHANGED clientVars /\ UNCHANGED serverVars
    BY <1>1 DEF HandleCheckId, RefuseConnect
  <2>4. UNCHANGED state /\ \A d : d \in InGame' <=> d \in InGame
    BY <2>3 DEF serverVars, InGame
  <2> QED BY <2>1, <2>2, <2>3, <2>4, PhasesCalm
<1>2. CASE HandleSpectate(c)
  <2> DEFINE msgs == <<Note("SPECTATE")>> \o AboutSome("ADD_PLAYER", Taken)
  <2>1. Answers(msgs) /\ Calm(msgs)
    <3>1. Taken \in SUBSET Players
      BY DEF Taken
    <3> QED BY <3>1, QuietNotes, QuietRuns, CalmNotes, CalmRuns
  <2>2. Send(Only(c, msgs)) /\ UNCHANGED clientVars
    BY <1>2 DEF HandleSpectate
  <2> HIDE DEF msgs
  <2>3. \A d \in Clients : Answers(Only(c, msgs)[d]) /\ Calm(Only(c, msgs)[d])
    <3>1. Answers(<<>>) /\ Calm(<<>>)
      BY QuietRuns, CalmRuns
    <3> QED BY <2>1, <3>1 DEF Only
  <2>4. /\ UNCHANGED <<state, peer, cplaying>>
        /\ spectating' = [spectating EXCEPT ![c] = IF state = "OFF" THEN 1 ELSE 2]
    BY <1>2 DEF HandleSpectate
  <2>5. \A d \in Clients : d \in InGame' /\ state' # "OFF" => d \in InGame /\ state # "OFF"
    BY <2>4 DEF InGame, IInv, ServerOK
  <2> QED BY <2>2, <2>3, <2>5, PhasesCalm
<1>3. CASE HandleLeave(c)
  <2>1. /\ UNCHANGED <<state, peer, cplaying, clientVars, toClient>>
        /\ spectating' = [spectating EXCEPT ![c] = 0]
    BY <1>3 DEF HandleLeave
  <2>2. \A d \in Clients : d \in InGame' /\ state' # "OFF" => d \in InGame /\ state # "OFF"
    BY <2>1 DEF InGame, IInv, ServerOK
  <2> QED BY <2>1, <2>2, PhasesSilent
<1> QED BY <1>1, <1>2, <1>3

LEMMA PhasesConnect ==
  ASSUME IInv, PhasesFit, NEW c \in Clients, HandleConnect(c)
  PROVE  PhasesFit'
<1> DEFINE k == Request1(c).ctrl
           p == Seat(Request1(c))
           one == <<Request("CONNECT", k, p)>>
           crown == IF player_count = 0 THEN <<Note("ASSIGN_MASTER")>> ELSE <<>>
           added(S) == <<About("ADD_PLAYER", S)>>
           out == [d \in Clients |-> IF d = c THEN one \o crown \o added(Taken \cup {p})
                                     ELSE IF d \in Audience THEN added({p}) ELSE <<>>]
<1>1. k \in Controllers /\ p \in Players /\ state = "OFF"
  BY ConnectParts DEF IInv
<1>2. Send(out) /\ UNCHANGED <<state, clientVars>>
  BY DEF HandleConnect
<1>3. /\ Answers(one) /\ Calm(one) /\ Answers(crown) /\ Calm(crown)
      /\ Answers(added({p})) /\ Calm(added({p}))
      /\ Answers(added(Taken \cup {p})) /\ Calm(added(Taken \cup {p}))
  <2>1. Taken \cup {p} \in SUBSET Players /\ {p} \in SUBSET Players
    BY <1>1 DEF Taken
  <2>2. Answers(one)
    BY <1>1, Replies, OnlySeatAlone
  <2> QED BY <2>1, <2>2, QuietNotes, QuietRuns, CalmNotes, CalmRuns
<1> HIDE DEF one, crown, added
<1>4. Answers(one \o crown \o added(Taken \cup {p})) /\ Calm(one \o crown \o added(Taken \cup {p}))
  <2>1. Answers(one \o crown) /\ Calm(one \o crown)
    BY <1>3, CalmRuns, ConcatProperties DEF Answers
  <2> QED BY <1>3, <2>1, CalmRuns, ConcatProperties DEF Answers
<1>5. \A d \in Clients : Answers(out[d]) /\ Calm(out[d])
  BY <1>3, <1>4, QuietRuns, CalmRuns
<1> HIDE DEF out
<1> QED BY <1>1, <1>2, <1>5, PhasesCalm

\* A client that loses a seat and still has one had one before.
LEMMA PhasesDisconnect ==
  ASSUME IInv, SeatsFit, Books, PhasesFit, NEW c \in Clients, HandleDisconnect(c)
  PROVE  PhasesFit'
<1> DEFINE k == Request1(c).ctrl
           p == Request1(c).player
           unmaster == cmaster[c] /\ Owned(c) \subseteq {p}
           heirs == IF unmaster THEN Heirs({p}) ELSE {}
           left(d) == IF d = c THEN <<Request("DISCONNECT", k, -1)>> ELSE <<>>
           crown(d) == IF d \in heirs THEN <<Note("ASSIGN_MASTER")>> ELSE <<>>
           removed(d) == IF d \in Audience THEN <<About("REMOVE_PLAYER", {p})>> ELSE <<>>
           out == [d \in Clients |-> left(d) \o crown(d) \o removed(d)]
<1>1. k \in Controllers /\ p \in Players
  BY Polled, RequestParts DEF HandleDisconnect, IInv
<1>2. /\ Send(out) /\ UNCHANGED <<state, peer, spectating, clientVars>>
      /\ cplaying' = [cplaying EXCEPT ![c] = @ - 1]
  BY DEF HandleDisconnect
<1>3. \A d \in Clients : /\ Answers(left(d)) /\ Calm(left(d))
                         /\ Answers(crown(d)) /\ Calm(crown(d))
                         /\ Answers(removed(d)) /\ Calm(removed(d))
  <2>1. {p} \in SUBSET Players
    BY <1>1
  <2>2. Answers(<<Request("DISCONNECT", k, -1)>>)
    BY <1>1, Replies, OnlySeatAlone
  <2> QED BY <2>1, <2>2, QuietNotes, QuietRuns, CalmNotes, CalmRuns
<1>4. cplaying[c] # 0
  <2>1. slot[p] = <<c, k>>
    BY PolledFit DEF HandleDisconnect, SeatsFit, Fit, RequestsFit
  <2>2. p \in Owned(c)
    BY <1>1, <2>1, ConstantsAssumption DEF Owned, Taken
  <2> QED BY <2>2, NobodyOwned DEF Books, SeatsAccounted
<1> HIDE DEF left, crown, removed
<1>5. ASSUME NEW d \in Clients
      PROVE  Answers(out[d]) /\ Calm(out[d])
  <2>1. Answers(left(d) \o crown(d)) /\ Calm(left(d) \o crown(d))
    BY <1>3, CalmRuns, ConcatProperties DEF Answers
  <2>2. /\ Answers((left(d) \o crown(d)) \o removed(d))
        /\ Calm((left(d) \o crown(d)) \o removed(d))
    BY <1>3, <2>1, CalmRuns, ConcatProperties DEF Answers
  <2> QED BY <2>2
<1> HIDE DEF out
<1>6. \A d \in Clients : d \in InGame' => d \in InGame
  BY <1>2, <1>4 DEF InGame, IInv, ServerOK
<1> QED BY <1>2, <1>5, <1>6, PhasesCalm

LEMMA PhasesAdvance ==
  ASSUME IInv, PhasesFit, NEW c \in Clients,
         HandleStart(c) \/ HandlePause(c) \/ HandleResume(c)
  PROVE  PhasesFit'
<1>1. UNCHANGED <<peer, cplaying, spectating, clientVars>>
  BY DEF HandleStart, HandlePause, HandleResume, Advance
<1>2. \A d : d \in InGame' <=> d \in InGame
  BY <1>1 DEF InGame
<1>3. CASE UNCHANGED <<state, toClient>>
  BY <1>1, <1>2, <1>3, PhasesSilent
<1>4. CASE state = "OFF" /\ Send(Each(Audience, <<Note("START")>>))
  <2> DEFINE out == Each(Audience, <<Note("START")>>)
  <2>1. ASSUME NEW d \in Clients, d \in Audience
        PROVE  PhaseFit(d)'
    <3>1. out[d] = <<Note("START")>>
      BY <2>1 DEF Each
    <3> HIDE DEF out
    <3> QED BY <1>1, <1>4, <3>1, PhaseStart DEF PhasesFit, out
  <2>2. ASSUME NEW d \in Clients, d \notin Audience
        PROVE  PhaseFit(d)'
    <3>1. out[d] = <<>>
      BY <2>2 DEF Each
    <3>2. Answers(out[d]) /\ Calm(out[d])
      BY <3>1, QuietRuns, CalmRuns
    <3>3. d \notin InGame'
      BY <1>2, <2>2 DEF InGame, Audience
    <3> HIDE DEF out
    <3> QED BY <1>1, <1>4, <3>2, <3>3, PhaseCalm DEF PhasesFit, Calm, out
  <2> QED BY <2>1, <2>2 DEF PhasesFit
<1>5. ASSUME NEW t \in {"PAUSE", "RESUME"}, state # "OFF", Send(Each(InGame, <<Note(t)>>))
      PROVE  PhasesFit'
  <2> DEFINE out == Each(InGame, <<Note(t)>>)
  <2>1. ASSUME NEW d \in Clients, d \in InGame
        PROVE  PhaseFit(d)'
    <3>1. out[d] = <<Note(t)>> /\ Send(out)
      BY <1>5, <2>1 DEF Each
    <3> HIDE DEF out
    <3> QED BY <1>1, <1>5, <2>1, <3>1, PhasePause DEF PhasesFit
  <2>2. ASSUME NEW d \in Clients, d \notin InGame
        PROVE  PhaseFit(d)'
    <3>1. out[d] = <<>> /\ Send(out)
      BY <1>5, <2>2 DEF Each
    <3>2. Answers(out[d]) /\ Calm(out[d])
      BY <3>1, QuietRuns, CalmRuns
    <3>3. d \notin InGame'
      BY <1>2, <2>2
    <3> HIDE DEF out
    <3> QED BY <1>1, <3>1, <3>2, <3>3, PhaseCalm DEF PhasesFit, Calm
  <2> QED BY <2>1, <2>2 DEF PhasesFit
<1> QED BY <1>3, <1>4, <1>5 DEF HandleStart, HandlePause, HandleResume, Advance

LEMMA PhasesEnd ==
  ASSUME IInv, PhasesFit, NEW c \in Clients, HandleEnd(c)
  PROVE  PhasesFit'
<1>1. UNCHANGED clientVars /\ state' = "OFF"
  BY DEF HandleEnd
<1>2. CASE state = "OFF"
  <2>1. UNCHANGED toClient
    BY <1>2 DEF HandleEnd
  <2> QED BY <1>1, <2>1, PhasesSilent
<1>3. CASE state # "OFF"
  <2> DEFINE out == Each(InGame, <<Note("END")>>)
  <2>1. Send(out)
    BY <1>3 DEF HandleEnd
  <2>2. ASSUME NEW d \in Clients
        PROVE  Answers(out[d]) /\ \A m \in In(out[d]) : m.type \notin {"PAUSE", "RESUME"}
    <3>1. Note("END").type \notin {"PAUSE", "RESUME"}
      BY DEF Note
    <3>2. /\ \A m \in In(<<Note("END")>>) : m.type \notin {"PAUSE", "RESUME"}
          /\ \A m \in In(<<>>) : m.type \notin {"PAUSE", "RESUME"}
      BY <3>1, InOne, InEmpty
    <3>3. Answers(<<Note("END")>>) /\ Answers(<<>>)
      BY QuietNotes, QuietRuns
    <3>4. out[d] = <<Note("END")>> \/ out[d] = <<>>
      BY DEF Each
    <3> QED BY <3>2, <3>3, <3>4
  <2> HIDE DEF out
  <2> QED BY <1>1, <2>1, <2>2, PhaseOff DEF PhasesFit
<1> QED BY <1>2, <1>3

LEMMA PhasesPeerDisconnect ==
  ASSUME IInv, PhasesFit, NEW c \in Clients, PeerDisconnect(c)
  PROVE  PhasesFit'
<1> DEFINE gone  == Gone(c)
           left  == player_count - Cardinality(gone)
           ends  == left <= 0 /\ state # "OFF"
           heirs == IF left > 0 /\ cmaster[c] THEN Heirs(gone) ELSE {}
           removed(d) == IF d \in Audience THEN AboutSome("REMOVE_PLAYER", gone) ELSE <<>>
           ended(d)   == IF ends /\ d \in InGame THEN <<Note("END")>> ELSE <<>>
           crown(d)   == IF d \in heirs THEN <<Note("ASSIGN_MASTER")>> ELSE <<>>
           out == [d \in Clients |-> IF d = c THEN <<>>
                                     ELSE removed(d) \o ended(d) \o crown(d)]
           Unpaused(s) == \A m \in In(s) : m.type \notin {"PAUSE", "RESUME"}
<1>1. /\ Send(out) /\ UNCHANGED clientVars
      /\ state' = IF left <= 0 THEN "OFF" ELSE state
      /\ peer' = [peer EXCEPT ![c] = FALSE]
      /\ cplaying' = [cplaying EXCEPT ![c] = 0]
      /\ spectating' = [spectating EXCEPT ![c] = 0]
  BY DEF PeerDisconnect
<1>2. gone \in SUBSET Players
  BY DEF Gone, Owned, Taken
<1>3. \A d \in Clients : /\ Answers(removed(d)) /\ Calm(removed(d))
                         /\ Answers(ended(d)) /\ Unpaused(ended(d)) /\ (~ends => Calm(ended(d)))
                         /\ Answers(crown(d)) /\ Calm(crown(d))
  <2>1. Unpaused(<<Note("END")>>) /\ Unpaused(<<>>)
    BY InOne, InEmpty DEF Note
  <2> QED BY <1>2, <2>1, QuietNotes, QuietRuns, CalmNotes, CalmRuns
<1> HIDE DEF removed, ended, crown
<1>4. ASSUME NEW d \in Clients
      PROVE  Answers(out[d]) /\ Unpaused(out[d]) /\ (~ends => Calm(out[d]))
  <2>1. CASE d = c
    BY <2>1, QuietRuns, CalmRuns, InEmpty
  <2>2. CASE d # c
    <3> DEFINE first == removed(d) \o ended(d)
    <3>1. Answers(first) /\ In(first) = In(removed(d)) \cup In(ended(d))
      BY <1>3, ConcatProperties, InConcat DEF Answers
    <3>2. out[d] = first \o crown(d)
      BY <2>2
    <3> HIDE DEF first, out
    <3>3. Answers(first \o crown(d)) /\ In(first \o crown(d)) = In(first) \cup In(crown(d))
      BY <1>3, <3>1, ConcatProperties, InConcat DEF Answers
    <3> QED BY <1>3, <3>1, <3>2, <3>3 DEF Calm
  <2> QED BY <2>1, <2>2
<1>5. \A d \in Clients : d \in InGame' => d \in InGame
  BY <1>1 DEF InGame, IInv, ServerOK
<1> HIDE DEF out, left
<1>6. CASE left <= 0
  <2>1. state' = "OFF"
    BY <1>1, <1>6
  <2> QED BY <1>1, <1>4, <2>1, PhaseOff DEF PhasesFit
<1>7. CASE ~(left <= 0)
  <2>1. UNCHANGED state /\ ~ends
    BY <1>1, <1>7
  <2> HIDE DEF ends
  <2> QED BY <1>1, <1>4, <1>5, <2>1, PhasesCalm
<1> QED BY <1>6, <1>7

\* A step of client c leaves every other client's phase alone.
LEMMA PhasesOthers ==
  ASSUME IInv, PhasesFit, NEW c \in Clients, UNCHANGED state,
         \A d \in Clients : d # c => /\ mode'[d] = mode[d] /\ toClient'[d] = toClient[d]
                                     /\ cstate'[d] = cstate[d]
                                     /\ (d \in InGame' => d \in InGame),
         PhaseFit(c)'
  PROVE  PhasesFit'
<1>1. ASSUME NEW d \in Clients, d # c
      PROVE  PhaseFit(d)'
  BY <1>1 DEF PhasesFit, PhaseFit
<1> QED BY <1>1 DEF PhasesFit

\* A client reads a message; on2 says whether it is in a game afterwards.
LEMMA PhasesHeard ==
  ASSUME IInv, PhasesFit, NEW c \in Clients, NEW t, Receive(c, t),
         UNCHANGED serverVars,
         \A d \in Clients : d # c => mode'[d] = mode[d] /\ cstate'[d] = cstate[d],
         t = "START" => cstate'[c] # "OFF",
         cstate[c] # "OFF" /\ t # "END" => cstate'[c] # "OFF"
  PROVE  PhasesFit'
<1>1. /\ toClient[c] # <<>> /\ mode[c] # "closed" /\ Head(toClient[c]).type = t
      /\ toClient' = [toClient EXCEPT ![c] = Tail(@)]
  BY DEF Receive, Received
<1>2. /\ toClient'[c] = Tail(toClient[c])
      /\ \A d \in Clients : d # c => toClient'[d] = toClient[d]
  BY <1>1 DEF IInv, RepliesOK
<1>3. UNCHANGED state /\ \A d : d \in InGame' <=> d \in InGame
  BY DEF serverVars, InGame
<1> DEFINE on == cstate[c] # "OFF"
           on2 == cstate'[c] # "OFF"
           s == toClient[c]
<1>4. /\ s \in Seq(ToClientMessage) /\ s # <<>> /\ on \in BOOLEAN /\ on2 \in BOOLEAN
      /\ (Head(s).type = "START" => on2) /\ (on /\ Head(s).type # "END" => on2)
      /\ PausesFit(s, on)
  BY <1>1, Shapes DEF Answers, PhasesFit, PhaseFit
<1>5. c \in InGame /\ state # "OFF" => Running(s, Len(s), on)
  BY <1>1 DEF PhasesFit, PhaseFit
<1>6. PhaseFit(c)' <=> (mode'[c] # "closed" =>
                          /\ PausesFit(toClient'[c], on2)
                          /\ c \in InGame' /\ state' # "OFF" =>
                               Running(toClient'[c], Len(toClient'[c]), on2))
  BY DEF PhaseFit
<1> HIDE DEF on, on2, s
<1>7. PausesFit(Tail(s), on2) /\ (Running(s, Len(s), on) => Running(Tail(s), Len(Tail(s)), on2))
  BY ONLY <1>4, PausesRead
<1>8. toClient'[c] = Tail(s)
  BY <1>2 DEF s
<1>9. PhaseFit(c)'
  BY <1>3, <1>5, <1>6, <1>7, <1>8
<1> QED BY <1>2, <1>3, <1>9, PhasesOthers

\* What is neither told to c nor a change of its phase.
LEMMA PhasesSame ==
  ASSUME PhasesFit, UNCHANGED <<serverVars, mode, cstate, toClient>>
  PROVE  PhasesFit'
<1>1. \A d : d \in InGame' <=> d \in InGame
  BY DEF serverVars, InGame
<1> QED BY <1>1 DEF PhasesFit, PhaseFit, serverVars

LEMMA PhasesClientPoll ==
  ASSUME IInv, PhasesFit, NEW c \in Clients, ClientPoll(c)
  PROVE  PhasesFit'
<1>1. CASE ReceiveCheckId(c)
  <2>1. \A d \in Clients : d # c => mode'[d] = mode[d]
    BY <1>1 DEF ReceiveCheckId, IInv, ClientOK
  <2> QED BY <1>1, <2>1, PhasesHeard DEF ReceiveCheckId
<1>2. CASE ReceiveCheckIdFail(c)
  <2>1. /\ mode'[c] = "closed" /\ UNCHANGED <<serverVars, cstate>>
        /\ \A d \in Clients : d # c => mode'[d] = mode[d] /\ toClient'[d] = toClient[d]
    BY <1>2 DEF ReceiveCheckIdFail, IInv, ClientOK, RepliesOK
  <2>2. PhaseFit(c)'
    BY <2>1 DEF PhaseFit
  <2>3. UNCHANGED state /\ \A d : d \in InGame' <=> d \in InGame
    BY <2>1 DEF serverVars, InGame
  <2> QED BY <2>1, <2>2, <2>3, PhasesOthers
<1>3. CASE \/ ReceiveConnect(c) \/ ReceiveDisconnect(c) \/ ReceiveAddPlayer(c)
           \/ ReceiveRemovePlayer(c) \/ ReceiveAssignMaster(c) \/ ReceiveOther(c)
  <2>1. PICK t : t # "START" /\ t # "END" /\ Receive(c, t)
    BY <1>3 DEF ReceiveConnect, ReceiveDisconnect, ReceiveAddPlayer, ReceiveRemovePlayer,
                ReceiveAssignMaster, ReceiveOther
  <2>2. UNCHANGED <<serverVars, mode, cstate>>
    BY <1>3 DEF ReceiveConnect, ReceiveDisconnect, ReceiveAddPlayer, ReceiveRemovePlayer,
                ReceiveAssignMaster, ReceiveOther, clientVars
  <2> QED BY <2>1, <2>2, PhasesHeard
<1>4. CASE ReceiveStart(c) \/ ReceivePause(c) \/ ReceiveResume(c)
  <2>1. PICK t : t # "END" /\ Receive(c, t)
    BY <1>4 DEF ReceiveStart, ReceivePause, ReceiveResume
  <2>2. /\ cstate'[c] # "OFF" /\ UNCHANGED <<serverVars, mode>>
        /\ \A d \in Clients : d # c => cstate'[d] = cstate[d]
    BY <1>4 DEF ReceiveStart, ReceivePause, ReceiveResume, IInv, ClientOK
  <2> QED BY <2>1, <2>2, PhasesHeard
<1>5. CASE ReceiveEnd(c)
  <2>1. Receive(c, "END") /\ UNCHANGED <<serverVars, mode>>
    BY <1>5 DEF ReceiveEnd
  <2>2. \A d \in Clients : d # c => cstate'[d] = cstate[d]
    BY <1>5 DEF ReceiveEnd, IInv, ClientOK
  <2> QED BY <2>1, <2>2, PhasesHeard
<1> QED BY <1>1, <1>2, <1>3, <1>4, <1>5 DEF ClientPoll

LEMMA PhasesUser ==
  ASSUME IInv, PhasesFit, NEW c \in Clients, User(c)
  PROVE  PhasesFit'
<1>1. CASE Connect(c)
  <2>1. /\ toClient'[c] = <<>> /\ spectating'[c] = 0 /\ cplaying'[c] = 0
        /\ UNCHANGED <<state, cstate>>
        /\ \A d \in Clients : d # c => /\ mode'[d] = mode[d] /\ toClient'[d] = toClient[d]
                                       /\ peer'[d] = peer[d] /\ cplaying'[d] = cplaying[d]
                                       /\ spectating'[d] = spectating[d]
    BY <1>1 DEF Connect, IInv, ServerOK, ClientOK, RepliesOK
  <2>2. c \notin InGame' /\ \A d \in Clients : d # c => (d \in InGame' => d \in InGame)
    BY <2>1 DEF InGame
  <2>3. PhaseFit(c)'
    BY <2>1, <2>2 DEF PhaseFit, PausesFit
  <2> QED BY <2>1, <2>2, <2>3, PhasesOthers
<1>2. CASE Leave(c) \/ ClientLost(c)
  <2>1. /\ mode'[c] = "closed" /\ UNCHANGED serverVars
        /\ \A d \in Clients : d # c => /\ mode'[d] = mode[d] /\ toClient'[d] = toClient[d]
                                       /\ cstate'[d] = cstate[d]
    BY <1>2 DEF Leave, ClientLost, IInv, ClientOK, RepliesOK
  <2>2. PhaseFit(c)'
    BY <2>1 DEF PhaseFit
  <2>3. UNCHANGED state /\ \A d : d \in InGame' <=> d \in InGame
    BY <2>1 DEF serverVars, InGame
  <2> QED BY <2>1, <2>2, <2>3, PhasesOthers
<1>3. CASE \/ Start(c) \/ Pause(c) \/ Resume(c) \/ End(c) \/ StopWatching(c) \/ FallBehind(c)
           \/ \E k \in Controllers : Join(c, k) \/ Back(c, k)
  <2>1. \E m : Ask(c, m)
    BY <1>3 DEF Start, Pause, Resume, End, StopWatching, FallBehind, Join, Back
  <2> QED BY <2>1, PhasesSame DEF Ask, clientVars
<1>4. ASSUME NEW k \in Controllers, EarlyJoin(c, k)
      PROVE  PhasesFit'
  BY <1>4, PhasesSame DEF EarlyJoin
<1> QED BY <1>1, <1>2, <1>3, <1>4 DEF User

LEMMA PhasesServerPoll ==
  ASSUME IInv, SeatsFit, Books, PhasesFit, NEW c \in Clients, ServerPoll(c)
  PROVE  PhasesFit'
<1>1. ~HandleOverflow(c)
  BY PolledFit DEF HandleOverflow
<1> QED BY <1>1, PhasesTalk, PhasesConnect, PhasesDisconnect, PhasesAdvance, PhasesEnd
        DEF ServerPoll

LEMMA PhasesNext ==
  ASSUME IInv, SeatsFit, Books, PhasesFit, [Next]_vars
  PROVE  PhasesFit'
<1>1. CASE UNCHANGED vars
  BY <1>1, PhasesSame DEF vars, clientVars
<1> QED BY <1>1, PhasesServerPoll, PhasesPeerDisconnect, PhasesClientPoll, PhasesUser DEF Next

LEMMA PhasesInit ==
  ASSUME Init
  PROVE  PhasesFit
  BY DEF Init, PhasesFit, PhaseFit

-----------------------------------------------------------------------------
(* The theorems.                                                            *)

LEMMA SeatInvariant ==
  ASSUME Orderly
  PROVE  Spec => [](IInv /\ SeatInv)
<1>1. Init => SeatInv
  BY FitInit, BooksInit, PhasesInit DEF SeatInv
<1>2. IInv /\ SeatInv /\ [Next]_vars => SeatInv'
  BY FitNext, BooksNext, PhasesNext DEF SeatInv
<1> QED BY <1>1, <1>2, Invariant, PTL DEF Spec

(* Where users are orderly, client[c]->playing, which two handlers keep by  *)
(* increments and the callback for a closed connection relies upon, is      *)
(* always the number of slots client c owns: no slot outlives its owner.    *)
THEOREM SeatsCounted ==
  ASSUME Orderly
  PROVE  Spec => []SeatsAccounted
<1>1. SeatInv => SeatsAccounted
  BY DEF SeatInv, Books
<1> QED BY <1>1, SeatInvariant, PTL

(* There, the three handlers that make a client master never leave two, and *)
(* the master is a client with a player in the game.                        *)
THEOREM MasterAlone ==
  ASSUME Orderly
  PROVE  Spec => [](OneMaster /\ \A c \in Clients : cmaster[c] => peer[c] /\ Owned(c) # {})
<1>1. IInv /\ SeatInv => OneMaster /\ \A c \in Clients : cmaster[c] => peer[c] /\ Owned(c) # {}
  <2> SUFFICES ASSUME IInv, SeatInv, NEW c \in Clients, cmaster[c]
               PROVE  peer[c] /\ Owned(c) # {}
    BY DEF SeatInv, Books
  <2>1. Owned(c) # {}
    BY DEF SeatInv, Books
  <2>2. cplaying[c] # 0
    BY <2>1, NobodyOwned DEF SeatInv, Books, SeatsAccounted
  <2> QED BY <2>1, <2>2 DEF SeatInv, Books
<1> QED BY <1>1, SeatInvariant, PTL

(* There, a client that has read everything sent to it steers no slot but   *)
(* its own: the port of each of its controllers is a slot the server keeps  *)
(* for that controller of that client.                                      *)
THEOREM OwnSlotsOnly ==
  ASSUME Orderly
  PROVE  Spec => [](\A c \in Clients : Settled(c) =>
                      \A k \in Controllers : port[c][k] # Unplugged =>
                         slot[port[c][k]] = <<c, k>>)
<1>1. SeatInv => \A c \in Clients : Settled(c) =>
                   \A k \in Controllers : port[c][k] # Unplugged => slot[port[c][k]] = <<c, k>>
  <2> SUFFICES ASSUME SeatInv, NEW c \in Clients, Settled(c),
                      NEW k \in Controllers, port[c][k] # Unplugged
               PROVE  slot[port[c][k]] = <<c, k>>
    OBVIOUS
  <2>1. ControlsFit(c, toServer[c], <<>>, port[c], slot)
    BY DEF SeatInv, SeatsFit, Fit, Linked, Settled
  <2> QED BY <2>1, InEmpty DEF ControlsFit
<1> QED BY <1>1, SeatInvariant, PTL

(* There, PAUSE and RESUME never find a client without the input buffer     *)
(* that START creates and END destroys.                                     *)
THEOREM BufferThere ==
  ASSUME Orderly
  PROVE  Spec => []BufferWhenNeeded
<1>1. IInv /\ SeatInv => BufferWhenNeeded
  <2> SUFFICES ASSUME IInv, SeatInv, NEW c \in Clients, mode[c] # "closed", toClient[c] # <<>>,
                      Received(c).type \in {"PAUSE", "RESUME"}
               PROVE  cstate[c] # "OFF"
    BY DEF BufferWhenNeeded
  <2> DEFINE on == cstate[c] # "OFF"
             s == toClient[c]
             on2 == Head(s).type = "START" \/ (on /\ Head(s).type # "END")
  <2>1. /\ s \in Seq(ToClientMessage) /\ s # <<>> /\ on \in BOOLEAN /\ on2 \in BOOLEAN
        /\ (Head(s).type = "START" => on2) /\ (on /\ Head(s).type # "END" => on2)
        /\ PausesFit(s, on) /\ Head(s).type \in {"PAUSE", "RESUME"}
    BY Shapes DEF Answers, SeatInv, PhasesFit, PhaseFit, Received
  <2> HIDE DEF s, on2
  <2>2. on
    <3> HIDE DEF on
    <3> QED BY ONLY <2>1, PausesRead
  <2> QED BY <2>2
<1> QED BY <1>1, SeatInvariant, PTL

-----------------------------------------------------------------------------
(***************************************************************************)
(* What the clients know.  Where users join only when the server has       *)
(* accepted them and watch as long as they are connected, every client     *)
(* that plays or watches ends up with the roster of the server.  Where     *)
(* connections hold as well and users wait for the answer to a request to  *)
(* leave a seat, a client that has read what was sent to it agrees with    *)
(* the server on everything.                                               *)
(***************************************************************************)

Faithful == Behaviours \cap {"stop_watching", "early_join"} = {}

-----------------------------------------------------------------------------
(* The roster r of a client once it has read the messages s.                *)

AboutRoster(m) == m.type \in {"ADD_PLAYER", "REMOVE_PLAYER"}

Turns(s, p) == {i \in 1 .. Len(s) : AboutRoster(s[i]) /\ p \in s[i].players}

Told(s, r, p) ==
  IF Turns(s, p) = {} THEN p \in r
  ELSE \E i \in Turns(s, p) : (\A j \in Turns(s, p) : j <= i) /\ s[i].type = "ADD_PLAYER"

After(s, r) == {p \in Players : Told(s, r, p)}

\* What neither speaks of the roster nor ends a game.
Silent(s) == \A m \in In(s) : ~AboutRoster(m) /\ m.type # "END"

\* A client that waits for the answer to CHECK_ID has asked for nothing else,
\* and has been told of nobody;
Asks(c) ==
  /\ spectating[c] = 0 /\ cplaying[c] = 0 /\ roster[c] = {} /\ Silent(toClient[c])
  /\ \/ toServer[c] = <<>>
     \/ /\ toServer[c] = <<Note("CHECK_ID")>>
        /\ \A m \in In(toClient[c]) : m.type # "CHECK_ID"

\* then it asks to watch before anything else;
Comes(c) ==
  /\ cplaying[c] = 0 /\ roster[c] = {} /\ Silent(toClient[c])
  /\ toServer[c] # <<>> /\ Head(toServer[c]).type = "SPECTATE"

\* and from then on it is told of everything.
Meets(c) ==
  /\ \A m \in In(toServer[c]) : m.type # "LEAVE"
  /\ peer[c] =>
       /\ mode[c] = "checking" => Asks(c)
       /\ mode[c] = "online" /\ spectating[c] = 0 => Comes(c)
       /\ mode[c] = "online" /\ spectating[c] # 0 => After(toClient[c], roster[c]) = Taken

RosterInv == \A c \in Clients : Meets(c)

-----------------------------------------------------------------------------
(* Reading.                                                                 *)

LEMMA TurnsNothing == \A p : Turns(<<>>, p) = {}
  BY DEF Turns

LEMMA AfterNothing ==
  ASSUME NEW r \in SUBSET Players
  PROVE  After(<<>>, r) = r
  BY TurnsNothing DEF After, Told

LEMMA TurnsSilent ==
  ASSUME NEW s, \A m \in In(s) : ~AboutRoster(m), NEW p
  PROVE  Turns(s, p) = {}
  BY DEF Turns, In

LEMMA AfterSilent ==
  ASSUME NEW s, \A m \in In(s) : ~AboutRoster(m), NEW r \in SUBSET Players
  PROVE  After(s, r) = r
  BY TurnsSilent DEF After, Told

LEMMA ToldConcat ==
  ASSUME NEW M, NEW s \in Seq(M), NEW t \in Seq(M), NEW r, NEW p \in Players
  PROVE  Told(s \o t, r, p) <=> Told(t, After(s, r), p)
<1> DEFINE S == Turns(s, p)
           T == Turns(t, p)
           B == Turns(s \o t, p)
<1>1. /\ Len(s) \in Nat /\ Len(t) \in Nat /\ Len(s \o t) = Len(s) + Len(t)
      /\ \A i \in 1 .. Len(s) + Len(t) :
           (s \o t)[i] = IF i <= Len(s) THEN s[i] ELSE t[i - Len(s)]
  BY ConcatProperties, LenProperties
<1>2. ASSUME NEW i \in S
      PROVE  i \in B /\ i <= Len(s) /\ i \in Nat /\ (s \o t)[i] = s[i]
  <2>1. i \in 1 .. Len(s) /\ i \in 1 .. Len(s) + Len(t) /\ i <= Len(s)
    BY <1>1 DEF Turns
  <2>2. (s \o t)[i] = s[i]
    BY <1>1, <2>1
  <2> QED BY <1>1, <2>1, <2>2 DEF Turns
<1>3. ASSUME NEW i \in T
      PROVE  i + Len(s) \in B /\ i \in Nat \ {0} /\ (s \o t)[i + Len(s)] = t[i]
  <2>1. i \in 1 .. Len(t) /\ i + Len(s) \in 1 .. Len(s) + Len(t) /\ ~(i + Len(s) <= Len(s))
        /\ (i + Len(s)) - Len(s) = i
    BY <1>1 DEF Turns
  <2>2. (s \o t)[i + Len(s)] = t[i]
    BY <1>1, <2>1
  <2> QED BY <1>1, <2>1, <2>2 DEF Turns
<1>4. ASSUME NEW i \in B
      PROVE  /\ i \in Nat
             /\ i \in S \/ (i - Len(s) \in T /\ i > Len(s))
  <2>1. i \in 1 .. Len(s) + Len(t)
    BY <1>1 DEF Turns
  <2>2. CASE i <= Len(s)
    <3>1. i \in 1 .. Len(s) /\ (s \o t)[i] = s[i]
      BY <1>1, <2>1, <2>2
    <3> QED BY <2>1, <3>1 DEF Turns
  <2>3. CASE ~(i <= Len(s))
    <3>1. i - Len(s) \in 1 .. Len(t) /\ (s \o t)[i] = t[i - Len(s)] /\ i > Len(s)
      BY <1>1, <2>1, <2>3
    <3> QED BY <2>1, <3>1 DEF Turns
  <2> QED BY <2>2, <2>3
<1>5. p \in After(s, r) <=> Told(s, r, p)
  BY DEF After
<1>6. /\ Told(s \o t, r, p) <=>
           IF B = {} THEN p \in r
           ELSE \E i \in B : (\A j \in B : j <= i) /\ (s \o t)[i].type = "ADD_PLAYER"
      /\ Told(s, r, p) <=>
           IF S = {} THEN p \in r
           ELSE \E i \in S : (\A j \in S : j <= i) /\ s[i].type = "ADD_PLAYER"
      /\ Told(t, After(s, r), p) <=>
           IF T = {} THEN p \in After(s, r)
           ELSE \E i \in T : (\A j \in T : j <= i) /\ t[i].type = "ADD_PLAYER"
  BY DEF Told
<1> HIDE DEF S, T, B
<1>7. CASE T = {}
  <2>1. B = S
    BY <1>2, <1>4, <1>7
  <2>2. \A i \in S : (s \o t)[i].type = s[i].type
    BY <1>2
  <2> QED BY <1>5, <1>6, <1>7, <2>1, <2>2
<1>8. CASE T # {}
  <2>1. B # {}
    BY <1>3, <1>8
  <2>2. ASSUME NEW i \in B, \A j \in B : j <= i, (s \o t)[i].type = "ADD_PLAYER"
        PROVE  \E k \in T : (\A j \in T : j <= k) /\ t[k].type = "ADD_PLAYER"
    <3>1. PICK k \in T : TRUE
      BY <1>8
    <3>2. k + Len(s) <= i /\ i \in Nat /\ k \in Nat \ {0}
      BY <1>3, <1>4, <2>2
    <3>3. ~(i <= Len(s))
      BY <1>1, <3>2
    <3>4. i - Len(s) \in T
      BY <1>2, <1>4, <3>3
    <3>5. (i - Len(s)) + Len(s) = i
      BY <1>1, <3>2
    <3>6. t[i - Len(s)].type = "ADD_PLAYER"
      BY <1>3, <2>2, <3>4, <3>5
    <3>7. ASSUME NEW j \in T
          PROVE  j <= i - Len(s)
      <4>1. j + Len(s) <= i /\ j \in Nat
        BY <1>3, <2>2
      <4> QED BY <1>1, <3>2, <4>1
    <3> QED BY <3>4, <3>6, <3>7
  <2>3. ASSUME NEW k \in T, \A j \in T : j <= k, t[k].type = "ADD_PLAYER"
        PROVE  \E i \in B : (\A j \in B : j <= i) /\ (s \o t)[i].type = "ADD_PLAYER"
    <3>1. k + Len(s) \in B /\ k \in Nat \ {0} /\ (s \o t)[k + Len(s)].type = "ADD_PLAYER"
      BY <1>3, <2>3
    <3>2. ASSUME NEW j \in B
          PROVE  j <= k + Len(s)
      <4>1. CASE j \in S
        BY <1>1, <1>2, <3>1, <4>1
      <4>2. CASE j - Len(s) \in T
        <5>1. j - Len(s) <= k /\ j \in Nat
          BY <1>4, <2>3, <4>2
        <5> QED BY <1>1, <3>1, <5>1
      <4> QED BY <1>4, <4>1, <4>2
    <3> QED BY <3>1, <3>2
  <2> QED BY <1>6, <1>8, <2>1, <2>2, <2>3
<1> QED BY <1>7, <1>8

LEMMA AfterConcat ==
  ASSUME NEW M, NEW s \in Seq(M), NEW t \in Seq(M), NEW r
  PROVE  After(s \o t, r) = After(t, After(s, r))
<1>1. \A p \in Players : Told(s \o t, r, p) <=> Told(t, After(s, r), p)
  BY ToldConcat
<1> QED BY <1>1 DEF After

LEMMA AfterOne ==
  ASSUME NEW m, NEW r \in SUBSET Players
  PROVE  /\ ~AboutRoster(m) => After(<<m>>, r) = r
         /\ m.type = "ADD_PLAYER" /\ m.players \subseteq Players =>
              After(<<m>>, r) = r \cup m.players
         /\ m.type = "REMOVE_PLAYER" => After(<<m>>, r) = r \ m.players
<1>1. Len(<<m>>) = 1 /\ <<m>>[1] = m /\ 1 .. 1 = {1}
  OBVIOUS
<1>2. \A p : Turns(<<m>>, p) = IF AboutRoster(m) /\ p \in m.players THEN {1} ELSE {}
  BY <1>1 DEF Turns
<1>3. \A p : Told(<<m>>, r, p) <=> IF AboutRoster(m) /\ p \in m.players
                                   THEN m.type = "ADD_PLAYER" ELSE p \in r
  BY <1>1, <1>2 DEF Told
<1>4. CASE ~AboutRoster(m)
  BY <1>3, <1>4 DEF After, AboutRoster
<1>5. CASE m.type = "ADD_PLAYER"
  BY <1>3, <1>5 DEF After, AboutRoster
<1>6. CASE m.type = "REMOVE_PLAYER"
  BY <1>3, <1>6 DEF After, AboutRoster
<1> QED BY <1>4, <1>5, <1>6 DEF AboutRoster

LEMMA AfterRead ==
  ASSUME NEW M, NEW s \in Seq(M), s # <<>>, NEW r
  PROVE  After(s, r) = After(Tail(s), After(<<Head(s)>>, r))
<1>1. Head(s) \in M /\ Tail(s) \in Seq(M)
  BY HeadTailProperties
<1>2. <<Head(s)>> \in Seq(M)
  BY <1>1, QueueOfOne
<1>3. s = <<Head(s)>> \o Tail(s)
  <2>1. /\ Len(s) \in Nat \ {0} /\ Len(Tail(s)) = Len(s) - 1 /\ Head(s) = s[1]
        /\ \A i \in 1 .. Len(Tail(s)) : Tail(s)[i] = s[i + 1]
    BY Tails
  <2> DEFINE h == <<Head(s)>>
             u == Tail(s)
  <2>2. Len(h) = 1 /\ h[1] = Head(s)
    OBVIOUS
  <2>3. h \in Seq(M) /\ u \in Seq(M)
    BY <1>1, <1>2
  <2> HIDE DEF h, u
  <2>4. /\ h \o u \in Seq(M) /\ Len(h \o u) = Len(h) + Len(u)
        /\ \A i \in 1 .. Len(h) + Len(u) :
             (h \o u)[i] = IF i <= Len(h) THEN h[i] ELSE u[i - Len(h)]
    BY <2>3, ConcatProperties
  <2>5. Len(h \o u) = Len(s)
    BY <2>1, <2>2, <2>4 DEF u
  <2>6. ASSUME NEW i \in 1 .. Len(s)
        PROVE  (h \o u)[i] = s[i]
    <3>1. (h \o u)[i] = IF i <= 1 THEN h[i] ELSE u[i - 1]
      BY <2>2, <2>4, <2>5
    <3>2. CASE i = 1
      BY <2>1, <2>2, <3>1, <3>2
    <3>3. CASE i # 1
      <4>1. i - 1 \in 1 .. Len(u) /\ (i - 1) + 1 = i /\ ~(i <= 1)
        BY <2>1, <3>3 DEF u
      <4>2. u[i - 1] = s[(i - 1) + 1]
        BY <2>1, <4>1 DEF u
      <4> QED BY <3>1, <4>1, <4>2
    <3> QED BY <3>2, <3>3
  <2>7. h \o u = s
    BY <2>4, <2>5, <2>6, SeqEqual
  <2> QED BY <2>7 DEF h, u
<1> DEFINE h == <<Head(s)>>
           u == Tail(s)
<1>4. h \in Seq(M) /\ u \in Seq(M) /\ s = h \o u
  BY <1>1, <1>2, <1>3
<1>5. (After(s, r) = After(Tail(s), After(<<Head(s)>>, r))) <=> (After(s, r) = After(u, After(h, r)))
  OBVIOUS
<1> HIDE DEF h, u
<1>6. After(h \o u, r) = After(u, After(h, r))
  BY <1>4, AfterConcat
<1>7. After(s, r) = After(u, After(h, r))
  BY ONLY <1>4, <1>6
<1> QED BY <1>5, <1>7

-----------------------------------------------------------------------------
(* The server tells.                                                        *)

LEMMA TakenPlayers == Taken \in SUBSET Players
  BY DEF Taken

\* What d is told in a step that leaves the server with the roster T.
Informs(s, d, T) ==
  /\ Answers(s) /\ \A m \in In(s) : m.type # "CHECK_ID"
  /\ IF d \in Audience THEN After(s, Taken) = T ELSE Silent(s)

LEMMA SilentRuns ==
  ASSUME NEW s, NEW t, Answers(s), Answers(t), Silent(s), Silent(t)
  PROVE  Silent(s \o t)
  BY InConcat DEF Answers, Silent

LEMMA MeetsBystander ==
  ASSUME IInv, NEW d \in Clients, Meets(d), NEW out, Send(out), UNCHANGED clientVars,
         Informs(out[d], d, Taken'), peer'[d] = peer[d], spectating'[d] = 0 <=> spectating[d] = 0,
         cplaying'[d] = cplaying[d], toServer'[d] = toServer[d]
  PROVE  Meets(d)'
<1>1. UNCHANGED <<mode, roster>>
  BY DEF clientVars
<1>2. CASE ~peer[d] \/ mode[d] = "closed"
  BY <1>1, <1>2 DEF Meets
<1>3. CASE peer[d] /\ mode[d] # "closed" /\ d \notin Audience
  <2>1. /\ toClient'[d] = toClient[d] \o out[d] /\ Answers(toClient[d])
        /\ Answers(out[d]) /\ Silent(out[d]) /\ \A m \in In(out[d]) : m.type # "CHECK_ID"
    BY <1>3, SentTo, Shapes DEF Informs
  <2>2. /\ Silent(toClient[d]) => Silent(toClient'[d])
        /\ In(toClient'[d]) = In(toClient[d]) \cup In(out[d])
    BY <2>1, SilentRuns, InConcat DEF Answers
  <2>3. spectating[d] = 0
    BY <1>3 DEF Audience
  <2> QED BY <1>1, <1>3, <2>1, <2>2, <2>3 DEF Meets, Asks, Comes
<1>4. CASE peer[d] /\ mode[d] # "closed" /\ d \in Audience
  <2>1. cplaying[d] # 0 \/ spectating[d] # 0
    BY <1>4 DEF Audience
  <2>2. CASE mode[d] = "checking"
    BY <1>4, <2>1, <2>2 DEF Meets, Asks
  <2>3. CASE mode[d] = "online" /\ spectating[d] = 0
    BY <1>4, <2>1, <2>3 DEF Meets, Comes
  <2>4. CASE mode[d] = "online" /\ spectating[d] # 0
    <3>1. /\ toClient'[d] = toClient[d] \o out[d] /\ Answers(toClient[d])
          /\ Answers(out[d]) /\ After(out[d], Taken) = Taken'
          /\ After(toClient[d], roster[d]) = Taken
      BY <1>4, <2>4, SentTo, Shapes DEF Informs, Meets
    <3>2. After(toClient'[d], roster[d]) = Taken'
      BY <3>1, AfterConcat DEF Answers
    <3> QED BY <1>1, <2>4, <3>2 DEF Meets
  <2> QED BY <1>4, <2>2, <2>3, <2>4 DEF IInv, ClientOK
<1> QED BY <1>2, <1>3, <1>4

LEMMA PolledTail ==
  ASSUME IInv, NEW c \in Clients, NEW t, Poll(c, t), Meets(c)
  PROVE  /\ peer[c] /\ toServer[c] # <<>> /\ Head(toServer[c]).type = t
         /\ toServer'[c] = Tail(toServer[c])
         /\ \A d \in Clients : d # c => toServer'[d] = toServer[d]
         /\ \A m \in In(toServer'[c]) : m.type # "LEAVE"
         /\ t # "LEAVE"
<1>1. /\ peer[c] /\ toServer[c] # <<>> /\ Head(toServer[c]).type = t
      /\ toServer'[c] = Tail(toServer[c])
      /\ \A d \in Clients : d # c => toServer'[d] = toServer[d]
  BY DEF Poll, Request1, IInv, RequestsOK
<1>2. /\ In(Tail(toServer[c])) \subseteq In(toServer[c])
      /\ Head(toServer[c]) \in In(toServer[c])
  BY <1>1, Shapes, Tails DEF Queue
<1> QED BY <1>1, <1>2 DEF Meets

\* A client of which something else than CHECK_ID and SPECTATE is handled
\* has been introduced.
LEMMA MeetsPolled ==
  ASSUME IInv, NEW c \in Clients, NEW t, Poll(c, t), t # "CHECK_ID", t # "SPECTATE",
         Meets(c), NEW out, Send(out), UNCHANGED clientVars,
         spectating'[c] = 0 <=> spectating[c] = 0,
         Answers(out[c]), c \in Audience => After(out[c], Taken) = Taken'
  PROVE  Meets(c)'
<1>1. UNCHANGED <<mode, roster>>
  BY DEF clientVars
<1>2. /\ peer[c] /\ toServer[c] # <<>> /\ Head(toServer[c]).type = t
      /\ \A m \in In(toServer'[c]) : m.type # "LEAVE"
  BY PolledTail
<1>3. mode[c] # "checking"
  <2>1. Head(<<Note("CHECK_ID")>>).type = "CHECK_ID"
    BY DEF Note
  <2> QED BY <1>2, <2>1 DEF Meets, Asks
<1>4. ~(mode[c] = "online" /\ spectating[c] = 0)
  BY <1>2 DEF Meets, Comes
<1>5. ASSUME mode[c] = "online"
      PROVE  After(toClient'[c], roster[c]) = Taken'
  <2>1. c \in Audience
    BY <1>2, <1>4, <1>5 DEF Audience
  <2>2. /\ toClient'[c] = toClient[c] \o out[c] /\ Answers(toClient[c])
        /\ After(toClient[c], roster[c]) = Taken
    BY <1>2, <1>4, <1>5, SentTo, Shapes DEF Meets
  <2> QED BY <2>1, <2>2, AfterConcat DEF Answers
<1> QED BY <1>1, <1>2, <1>3, <1>4, <1>5 DEF Meets

LEMMA RosterTold ==
  ASSUME IInv, RosterInv, NEW c \in Clients, NEW t, Poll(c, t),
         t # "CHECK_ID", t # "SPECTATE",
         NEW out, Send(out), UNCHANGED <<clientVars, peer>>,
         \A d \in Clients : spectating'[d] = 0 <=> spectating[d] = 0,
         \A d \in Clients : d # c => cplaying'[d] = cplaying[d],
         \A d \in Clients : d # c => Informs(out[d], d, Taken'),
         Answers(out[c]), c \in Audience => After(out[c], Taken) = Taken'
  PROVE  RosterInv'
<1>1. Meets(c) /\ \A d \in Clients : Meets(d)
  BY DEF RosterInv
<1>2. Meets(c)'
  BY <1>1, MeetsPolled
<1>3. \A d \in Clients : d # c => toServer'[d] = toServer[d]
  BY <1>1, PolledTail
<1>4. ASSUME NEW d \in Clients, d # c
      PROVE  Meets(d)'
  BY <1>1, <1>3, <1>4, MeetsBystander
<1> QED BY <1>2, <1>4 DEF RosterInv

\* Runs of messages by what they make of the roster r of who reads them.
Says(s, r, r2) == Answers(s) /\ (\A m \in In(s) : m.type # "CHECK_ID") /\ After(s, r) = r2

LEMMA SaysBoth ==
  ASSUME NEW s, NEW t, NEW q, NEW r, NEW r2, Says(s, q, r), Says(t, r, r2)
  PROVE  Says(s \o t, q, r2)
<1>1. In(s \o t) = In(s) \cup In(t) /\ s \o t \in Seq(ToClientMessage)
  BY InConcat, ConcatProperties DEF Says, Answers
<1>2. After(s \o t, q) = r2
  BY AfterConcat DEF Says, Answers
<1> QED BY <1>1, <1>2 DEF Says, Answers

LEMMA AfterBoth ==
  ASSUME NEW s, NEW t, Answers(s), Answers(t), NEW r
  PROVE  After(s \o t, r) = After(t, After(s, r))
  BY AfterConcat DEF Answers

LEMMA SaysOne ==
  ASSUME NEW r \in SUBSET Players
  PROVE  /\ Says(<<>>, r, r) /\ Silent(<<>>)
         /\ \A t \in {"CHECK_ID_FAIL", "CONNECT_FAIL", "SPECTATE", "ASSIGN_MASTER"} :
              Says(<<Note(t)>>, r, r) /\ Silent(<<Note(t)>>)
         /\ \A t \in {"START", "PAUSE", "RESUME", "END"} : Says(<<Note(t)>>, r, r)
         /\ \A k \in Controllers, p \in Players : Says(<<Request("CONNECT", k, p)>>, r, r)
         /\ \A k \in Controllers : Says(<<Request("DISCONNECT", k, -1)>>, r, r)
         /\ \A S \in SUBSET Players :
              /\ Says(<<About("ADD_PLAYER", S)>>, r, r \cup S)
              /\ Says(AboutSome("ADD_PLAYER", S), r, r \cup S)
              /\ Says(AboutSome("REMOVE_PLAYER", S), r, r \ S)
<1>1. Says(<<>>, r, r) /\ Silent(<<>>)
  BY QuietRuns, InEmpty, AfterNothing DEF Says, Silent
<1>2. ASSUME NEW m \in ToClientMessage, m.type # "CHECK_ID", ~AboutRoster(m)
      PROVE  Says(<<m>>, r, r)
  BY <1>2, QueueOfOne, InOne, AfterOne DEF Says, Answers
<1>3. ASSUME NEW t \in {"CHECK_ID_FAIL", "CONNECT_FAIL", "SPECTATE", "ASSIGN_MASTER",
                        "START", "PAUSE", "RESUME", "END"}
      PROVE  /\ Says(<<Note(t)>>, r, r)
             /\ t # "END" => Silent(<<Note(t)>>)
  <2>1. /\ Note(t) \in ToClientMessage /\ Note(t).type = t
        /\ ~AboutRoster(Note(t)) /\ Note(t).type # "CHECK_ID"
    BY Replies DEF Note, AboutRoster
  <2> QED BY <1>2, <2>1, InOne DEF Silent
<1>4. ASSUME NEW k \in Controllers, NEW p \in Players
      PROVE  Says(<<Request("CONNECT", k, p)>>, r, r) /\ Says(<<Request("DISCONNECT", k, -1)>>, r, r)
  <2> DEFINE m == Request("CONNECT", k, p)
             n == Request("DISCONNECT", k, -1)
  <2>1. /\ m \in ToClientMessage /\ m.type # "CHECK_ID" /\ ~AboutRoster(m)
        /\ n \in ToClientMessage /\ n.type # "CHECK_ID" /\ ~AboutRoster(n)
    BY Replies DEF Request, AboutRoster
  <2> HIDE DEF m, n
  <2>2. Says(<<m>>, r, r) /\ Says(<<n>>, r, r)
    BY <1>2, <2>1
  <2> QED BY <2>2 DEF m, n
<1>5. ASSUME NEW S \in SUBSET Players
      PROVE  /\ Says(<<About("ADD_PLAYER", S)>>, r, r \cup S)
             /\ Says(<<About("REMOVE_PLAYER", S)>>, r, r \ S)
  <2> DEFINE m == About("ADD_PLAYER", S)
             n == About("REMOVE_PLAYER", S)
  <2>1. /\ m \in ToClientMessage /\ m.type = "ADD_PLAYER" /\ m.players = S
        /\ n \in ToClientMessage /\ n.type = "REMOVE_PLAYER" /\ n.players = S
    BY Replies DEF About
  <2> HIDE DEF m, n
  <2>2. Says(<<m>>, r, r \cup S) /\ Says(<<n>>, r, r \ S)
    BY <2>1, QueueOfOne, InOne, AfterOne DEF Says, Answers
  <2> QED BY <2>2 DEF m, n
<1>6. 0 \in Players
  BY ConstantsAssumption DEF Players
<1>7. \A k \in Controllers : Says(<<Request("DISCONNECT", k, -1)>>, r, r)
  BY <1>4, <1>6
<1>8. r \cup {} = r /\ r \ {} = r
  OBVIOUS
<1> QED BY <1>1, <1>3, <1>4, <1>5, <1>7, <1>8 DEF AboutSome

LEMMA InformsEach ==
  ASSUME NEW d \in Clients, NEW s, NEW T,
         d \in Audience => Says(s, Taken, T),
         d \notin Audience => Says(s, Taken, Taken) /\ Silent(s)
  PROVE  Informs(s, d, T)
  BY DEF Informs, Says

\* A step that tells nobody anything of the roster, and leaves it.
LEMMA RosterLeft ==
  ASSUME IInv, RosterInv, NEW c \in Clients, NEW t, Poll(c, t),
         t # "CHECK_ID", t # "SPECTATE",
         NEW out, Send(out), UNCHANGED <<slot, clientVars, peer, cplaying>>,
         \A d \in Clients : spectating'[d] = 0 <=> spectating[d] = 0,
         \A d \in Clients : Says(out[d], Taken, Taken) /\ (d \notin Audience /\ d # c => Silent(out[d]))
  PROVE  RosterInv'
<1>1. Taken' = Taken
  BY DEF Taken
<1>2. \A d \in Clients : d # c => Informs(out[d], d, Taken')
  BY <1>1, InformsEach
<1>3. Answers(out[c]) /\ After(out[c], Taken) = Taken'
  BY <1>1 DEF Says
<1> QED BY <1>2, <1>3, RosterTold

LEMMA RosterPhases ==
  ASSUME IInv, RosterInv, NEW c \in Clients,
         HandleLeave(c) \/ RefuseConnect(c) \/ HandleStart(c)
           \/ HandlePause(c) \/ HandleResume(c) \/ HandleEnd(c)
  PROVE  RosterInv'
<1>1. Says(<<>>, Taken, Taken) /\ Silent(<<>>)
  BY SaysOne, TakenPlayers
<1>2. InGame \subseteq Audience
  BY DEF InGame, Audience
<1>3. UNCHANGED <<slot, clientVars, peer, cplaying>>
  BY DEF HandleLeave, RefuseConnect, HandleStart, HandlePause, HandleResume, Advance, HandleEnd,
         serverVars
<1>4. ~HandleLeave(c)
  BY PolledTail DEF HandleLeave, RosterInv
<1>5. CASE RefuseConnect(c)
  <2> DEFINE out == Only(c, <<Note("CONNECT_FAIL")>>)
  <2>1. Poll(c, "CONNECT") /\ Send(out) /\ UNCHANGED spectating
    BY <1>5 DEF RefuseConnect, serverVars
  <2>2. Says(<<Note("CONNECT_FAIL")>>, Taken, Taken) /\ Silent(<<Note("CONNECT_FAIL")>>)
    BY SaysOne, TakenPlayers
  <2>3. \A d \in Clients : Says(out[d], Taken, Taken) /\ Silent(out[d])
    BY <1>1, <2>2 DEF Only
  <2> HIDE DEF out
  <2> QED BY <1>3, <2>1, <2>3, RosterLeft
<1>6. ASSUME NEW t \in {"START", "PAUSE", "RESUME", "END"}, Poll(c, t),
             \A d \in Clients : spectating'[d] = 0 <=> spectating[d] = 0,
             NEW S \in SUBSET Audience, Send(Each(S, <<Note(t)>>))
      PROVE  RosterInv'
  <2> DEFINE out == Each(S, <<Note(t)>>)
  <2>1. Says(<<Note(t)>>, Taken, Taken)
    BY SaysOne, TakenPlayers
  <2>2. \A d \in Clients : Says(out[d], Taken, Taken) /\ (d \notin Audience => Silent(out[d]))
    BY <1>1, <2>1 DEF Each
  <2>3. Send(out)
    BY <1>6
  <2> HIDE DEF out
  <2> QED BY <1>3, <1>6, <2>2, <2>3, RosterLeft
<1>7. ASSUME UNCHANGED toClient
      PROVE  Send(Each({}, <<Note("START")>>)) /\ Send(Each({}, <<Note("END")>>))
  <2>1. \A t : Each({}, <<Note(t)>>) = Each({}, <<>>)
    BY DEF Each
  <2> QED BY <1>7, <2>1, SentNothing DEF IInv
<1>8. CASE HandleStart(c) \/ HandlePause(c) \/ HandleResume(c)
  <2>1. UNCHANGED spectating
    BY <1>8 DEF HandleStart, HandlePause, HandleResume, Advance
  <2>2. ASSUME NEW t \in {"START", "PAUSE", "RESUME"}, NEW from, NEW to,
               NEW S \in SUBSET Audience, Advance(c, t, from, to, S)
        PROVE  RosterInv'
    <3>1. CASE state = from
      BY <1>6, <2>1, <2>2, <3>1 DEF Advance
    <3>2. CASE state # from
      <4>1. Poll(c, t) /\ UNCHANGED toClient
        BY <2>2, <3>2 DEF Advance
      <4>2. Send(Each({}, <<Note(t)>>))
        <5>1. Each({}, <<Note(t)>>) = Each({}, <<>>)
          BY DEF Each
        <5> QED BY <4>1, <5>1, SentNothing DEF IInv
      <4> QED BY <1>6, <2>1, <4>1, <4>2
    <3> QED BY <3>1, <3>2
  <2> QED BY <1>2, <1>8, <2>2 DEF HandleStart, HandlePause, HandleResume
<1>9. CASE HandleEnd(c)
  <2>1. Poll(c, "END")
    BY <1>9 DEF HandleEnd
  <2>2. CASE state = "OFF"
    <3>1. UNCHANGED <<spectating, toClient>>
      BY <1>9, <2>2 DEF HandleEnd
    <3> QED BY <1>6, <1>7, <2>1, <3>1
  <2>3. CASE state # "OFF"
    <3>1. /\ Send(Each(InGame, <<Note("END")>>))
          /\ spectating' = [d \in Clients |-> IF spectating[d] = 2 THEN 1 ELSE spectating[d]]
      BY <1>9, <2>3 DEF HandleEnd
    <3>2. \A d \in Clients : spectating'[d] = 0 <=> spectating[d] = 0
      BY <3>1
    <3> QED BY <1>2, <1>6, <2>1, <3>1, <3>2
  <2> QED BY <2>2, <2>3
<1> QED BY <1>4, <1>5, <1>8, <1>9

LEMMA RosterCheckId ==
  ASSUME IInv, RosterInv, NEW c \in Clients, HandleCheckId(c)
  PROVE  RosterInv'
<1>1. PICK t \in {"CHECK_ID", "CHECK_ID_FAIL"} : Send(Only(c, <<Note(t)>>))
  BY DEF HandleCheckId
<1>2. Poll(c, "CHECK_ID") /\ UNCHANGED <<serverVars, clientVars>>
  BY DEF HandleCheckId
<1>3. /\ UNCHANGED <<slot, peer, cplaying, spectating, mode, roster, clientVars>>
      /\ Taken' = Taken
  BY <1>2 DEF serverVars, clientVars, Taken
<1> DEFINE out == Only(c, <<Note(t)>>)
<1>4. /\ peer[c] /\ toServer[c] # <<>> /\ Head(toServer[c]).type = "CHECK_ID"
      /\ toServer'[c] = Tail(toServer[c])
      /\ \A d \in Clients : d # c => toServer'[d] = toServer[d]
      /\ \A m \in In(toServer'[c]) : m.type # "LEAVE"
  BY <1>2, PolledTail DEF RosterInv
<1>5. /\ Says(<<>>, Taken, Taken) /\ Silent(<<>>)
      /\ Answers(<<Note(t)>>) /\ Silent(<<Note(t)>>)
  <2>1. ~AboutRoster(Note(t)) /\ Note(t).type # "END"
    BY DEF Note, AboutRoster
  <2>2. Silent(<<Note(t)>>) BY <2>1, InOne DEF Silent
  <2>3. Says(<<>>, Taken, Taken) /\ Silent(<<>>) BY TakenPlayers, SaysOne
  <2>4. Answers(<<Note(t)>>) BY QuietNotes
  <2> QED BY <2>2, <2>3, <2>4
<1>6. /\ out[c] = <<Note(t)>> /\ Send(out)
      /\ \A d \in Clients : d # c => out[d] = <<>>
  BY <1>1 DEF Only
<1> HIDE DEF out
<1>7. ASSUME NEW d \in Clients, d # c
      PROVE  Meets(d)'
  <2>1. Informs(out[d], d, Taken')
    BY <1>3, <1>5, <1>6, <1>7, InformsEach
  <2> QED BY <1>3, <1>4, <1>6, <1>7, <2>1, MeetsBystander DEF RosterInv
<1>8. Meets(c)'
  <2>1. CASE mode[c] = "closed"
    BY <1>3, <1>4, <2>1 DEF Meets
  <2>2. CASE mode[c] # "closed"
    <3>1. toClient'[c] = toClient[c] \o <<Note(t)>> /\ Answers(toClient[c])
      BY <1>6, <2>2, SentTo, Shapes
    <3>2. CASE mode[c] = "checking"
      <4>1. Asks(c)
        BY <1>4, <3>2 DEF RosterInv, Meets
      <4>2. toServer[c] = <<Note("CHECK_ID")>>
        BY <1>4, <4>1 DEF Asks
      <4>3. toServer'[c] = <<>>
        <5>1. \A m : Tail(<<m>>) = <<>>
          OBVIOUS
        <5> QED BY <1>4, <4>2, <5>1
      <4>4. Silent(toClient'[c])
        BY <1>5, <3>1, <4>1, SilentRuns DEF Asks
      <4> QED BY <1>3, <1>4, <3>2, <4>1, <4>3, <4>4 DEF Asks, Meets
    <3>3. CASE mode[c] = "online" /\ spectating[c] = 0
      BY <1>4, <3>3 DEF RosterInv, Meets, Comes
    <3>4. CASE mode[c] = "online" /\ spectating[c] # 0
      <4>1. After(toClient[c], roster[c]) = Taken
        BY <1>4, <3>4 DEF RosterInv, Meets
      <4>2. After(<<Note(t)>>, Taken) = Taken
        BY <1>5, AfterSilent, TakenPlayers DEF Silent
      <4>3. After(toClient[c] \o <<Note(t)>>, roster[c]) = After(<<Note(t)>>, After(toClient[c], roster[c]))
        BY <1>5, <3>1, AfterBoth
      <4>4. After(toClient'[c], roster[c]) = Taken
        BY <3>1, <4>1, <4>2, <4>3
      <4> QED BY <1>3, <1>4, <3>4, <4>4 DEF Meets
    <3> QED BY <2>2, <3>2, <3>3, <3>4 DEF IInv, ClientOK
  <2> QED BY <2>1, <2>2
<1> QED BY <1>7, <1>8 DEF RosterInv

\* Who asks to watch is told of everybody.
LEMMA RosterSpectate ==
  ASSUME IInv, RosterInv, NEW c \in Clients, HandleSpectate(c)
  PROVE  RosterInv'
<1> DEFINE msgs == <<Note("SPECTATE")>> \o AboutSome("ADD_PLAYER", Taken)
           out == Only(c, msgs)
<1>1. /\ Poll(c, "SPECTATE") /\ Send(out)
      /\ UNCHANGED <<slot, peer, cplaying, mode, roster, clientVars>>
      /\ Taken' = Taken
  BY DEF HandleSpectate, clientVars, Taken
<1>2. /\ spectating'[c] # 0
      /\ \A d \in Clients : d # c => spectating'[d] = spectating[d]
  BY DEF HandleSpectate, IInv, ServerOK
<1>3. \A r \in SUBSET Players : Says(msgs, r, r \cup Taken)
  <2>1. ASSUME NEW r \in SUBSET Players
        PROVE  Says(msgs, r, r \cup Taken)
    <3>1. Says(<<Note("SPECTATE")>>, r, r)
      BY SaysOne
    <3>2. Says(AboutSome("ADD_PLAYER", Taken), r, r \cup Taken)
      BY SaysOne, TakenPlayers
    <3> QED BY <3>1, <3>2, SaysBoth
  <2> QED BY <2>1
<1>4. /\ peer[c] /\ toServer[c] # <<>> /\ Head(toServer[c]).type = "SPECTATE"
      /\ \A d \in Clients : d # c => toServer'[d] = toServer[d]
      /\ \A m \in In(toServer'[c]) : m.type # "LEAVE"
  BY <1>1, PolledTail DEF RosterInv
<1>5. out[c] = msgs /\ \A d \in Clients : d # c => out[d] = <<>>
  BY DEF Only
<1> HIDE DEF out, msgs
<1>6. ASSUME NEW d \in Clients, d # c
      PROVE  Meets(d)'
  <2>1. Says(<<>>, Taken, Taken) /\ Silent(<<>>)
    BY SaysOne, TakenPlayers
  <2>2. Informs(out[d], d, Taken')
    BY <1>1, <1>5, <1>6, <2>1, InformsEach
  <2> QED BY <1>1, <1>2, <1>4, <1>6, <2>2, MeetsBystander DEF RosterInv
<1>7. ASSUME mode[c] = "online"
      PROVE  After(toClient'[c], roster[c]) = Taken
  <2>1. toClient'[c] = toClient[c] \o msgs /\ Answers(toClient[c]) /\ Answers(msgs)
    BY <1>1, <1>3, <1>5, <1>7, SentTo, Shapes DEF Says
  <2>2. After(toClient[c], roster[c]) \in SUBSET Taken
    <3>1. CASE spectating[c] = 0
      <4>1. roster[c] = {} /\ Silent(toClient[c])
        BY <1>4, <1>7, <3>1 DEF RosterInv, Meets, Comes
      <4> QED BY <4>1, AfterSilent DEF Silent
    <3>2. CASE spectating[c] # 0
      BY <1>4, <1>7, <3>2 DEF RosterInv, Meets
    <3> QED BY <3>1, <3>2
  <2>3. After(msgs, After(toClient[c], roster[c])) = Taken
    BY <1>3, <2>2, TakenPlayers DEF Says
  <2> QED BY <2>1, <2>3, AfterBoth
<1>8. mode[c] # "checking"
  <2>1. Head(<<Note("CHECK_ID")>>).type = "CHECK_ID"
    BY DEF Note
  <2> QED BY <1>4, <2>1 DEF RosterInv, Meets, Asks
<1>9. Meets(c)'
  BY <1>1, <1>2, <1>4, <1>7, <1>8 DEF Meets
<1> QED BY <1>6, <1>9 DEF RosterInv

\* Who joins is told of everybody and itself, the others of it.
LEMMA RosterConnect ==
  ASSUME IInv, RosterInv, NEW c \in Clients, HandleConnect(c)
  PROVE  RosterInv'
<1> DEFINE k == Request1(c).ctrl
           p == Seat(Request1(c))
           one == <<Request("CONNECT", k, p)>>
           crown == IF player_count = 0 THEN <<Note("ASSIGN_MASTER")>> ELSE <<>>
           added(S) == <<About("ADD_PLAYER", S)>>
           out == [d \in Clients |-> IF d = c THEN one \o crown \o added(Taken \cup {p})
                                     ELSE IF d \in Audience THEN added({p}) ELSE <<>>]
<1>1. k \in Controllers /\ p \in Players /\ slot' = [slot EXCEPT ![p] = <<c, k>>]
  BY ConnectParts DEF IInv
<1>2. /\ Poll(c, "CONNECT") /\ Send(out) /\ UNCHANGED <<peer, spectating, clientVars>>
      /\ \A d \in Clients : d # c => cplaying'[d] = cplaying[d]
  BY DEF HandleConnect, IInv, ServerOK
<1>3. Taken' = Taken \cup {p}
  BY <1>1, ConstantsAssumption DEF Taken, IInv, ServerOK, SlotsOK
<1>4. /\ Says(one, Taken, Taken) /\ Says(crown, Taken, Taken)
      /\ Says(added({p}), Taken, Taken \cup {p})
      /\ Says(added(Taken \cup {p}), Taken, Taken \cup {p})
  <2>1. Taken \cup {p} \in SUBSET Players /\ {p} \in SUBSET Players
    BY <1>1, TakenPlayers
  <2>2. Taken \cup (Taken \cup {p}) = Taken \cup {p}
    OBVIOUS
  <2> QED BY <1>1, <2>1, <2>2, SaysOne, TakenPlayers
<1> HIDE DEF one, crown, added
<1>5. Says(one \o crown \o added(Taken \cup {p}), Taken, Taken')
  <2>1. Says(one \o crown, Taken, Taken)
    BY <1>4, SaysBoth
  <2> QED BY <1>3, <1>4, <2>1, SaysBoth
<1>6. Says(<<>>, Taken, Taken) /\ Silent(<<>>)
  BY SaysOne, TakenPlayers
<1>7. /\ Says(out[c], Taken, Taken')
      /\ \A d \in Clients : d # c =>
           /\ d \in Audience => Says(out[d], Taken, Taken')
           /\ d \notin Audience => Says(out[d], Taken, Taken) /\ Silent(out[d])
  BY <1>3, <1>4, <1>5, <1>6
<1> HIDE DEF out
<1>8. \A d \in Clients : d # c => Informs(out[d], d, Taken')
  BY <1>7, InformsEach
<1>9. Answers(out[c]) /\ After(out[c], Taken) = Taken'
  BY <1>7 DEF Says
<1> QED BY <1>2, <1>8, <1>9, RosterTold

LEMMA RosterDisconnect ==
  ASSUME IInv, RosterInv, NEW c \in Clients, HandleDisconnect(c)
  PROVE  RosterInv'
<1> DEFINE k == Request1(c).ctrl
           p == Request1(c).player
           unmaster == cmaster[c] /\ Owned(c) \subseteq {p}
           heirs == IF unmaster THEN Heirs({p}) ELSE {}
           left(d) == IF d = c THEN <<Request("DISCONNECT", k, -1)>> ELSE <<>>
           crown(d) == IF d \in heirs THEN <<Note("ASSIGN_MASTER")>> ELSE <<>>
           removed(d) == IF d \in Audience THEN <<About("REMOVE_PLAYER", {p})>> ELSE <<>>
           out == [d \in Clients |-> left(d) \o crown(d) \o removed(d)]
<1>1. k \in Controllers /\ p \in Players
  BY Polled, RequestParts DEF HandleDisconnect, IInv
<1>2. /\ Poll(c, "DISCONNECT") /\ Send(out) /\ UNCHANGED <<peer, spectating, clientVars>>
      /\ slot' = [slot EXCEPT ![p] = Free]
      /\ \A d \in Clients : d # c => cplaying'[d] = cplaying[d]
  BY DEF HandleDisconnect, IInv, ServerOK
<1>3. Taken' = Taken \ {p}
  BY <1>1, <1>2 DEF Taken, IInv, ServerOK, SlotsOK
<1>4. Says(<<>>, Taken, Taken) /\ Silent(<<>>)
  BY SaysOne, TakenPlayers
<1>5. \A d \in Clients : /\ Says(left(d), Taken, Taken) /\ (d # c => Silent(left(d)))
                         /\ Says(crown(d), Taken, Taken) /\ Silent(crown(d))
                         /\ d \in Audience => Says(removed(d), Taken, Taken')
                         /\ d \notin Audience => Says(removed(d), Taken, Taken) /\ Silent(removed(d))
  <2>1. Says(<<Request("DISCONNECT", k, -1)>>, Taken, Taken)
    BY <1>1, SaysOne, TakenPlayers
  <2>2. Says(<<Note("ASSIGN_MASTER")>>, Taken, Taken) /\ Silent(<<Note("ASSIGN_MASTER")>>)
    BY SaysOne, TakenPlayers
  <2>3. Says(<<About("REMOVE_PLAYER", {p})>>, Taken, Taken')
    <3>1. AboutSome("REMOVE_PLAYER", {p}) = <<About("REMOVE_PLAYER", {p})>>
      BY DEF AboutSome
    <3>2. {p} \in SUBSET Players
      BY <1>1
    <3>3. Says(AboutSome("REMOVE_PLAYER", {p}), Taken, Taken \ {p})
      BY <3>2, SaysOne, TakenPlayers
    <3> QED BY <1>3, <3>1, <3>3
  <2> QED BY <1>4, <2>1, <2>2, <2>3
<1> HIDE DEF left, crown, removed
<1>6. ASSUME NEW d \in Clients
      PROVE  /\ d \in Audience => Says(out[d], Taken, Taken')
             /\ d \notin Audience => Says(out[d], Taken, Taken)
             /\ d \notin Audience /\ d # c => Silent(out[d])
  <2> DEFINE first == left(d) \o crown(d)
  <2>1. Says(first, Taken, Taken)
    BY <1>5, SaysBoth
  <2>2. d # c => Silent(first)
    BY <1>5, SilentRuns DEF Says
  <2>3. out[d] = first \o removed(d)
    OBVIOUS
  <2> HIDE DEF first, out
  <2>4. d \in Audience => Says(out[d], Taken, Taken')
    BY <1>5, <2>1, <2>3, SaysBoth
  <2>5. d \notin Audience => Says(out[d], Taken, Taken)
    BY <1>5, <2>1, <2>3, SaysBoth
  <2>6. d \notin Audience /\ d # c => Silent(out[d])
    BY <1>5, <2>1, <2>2, <2>3, SilentRuns DEF Says
  <2> QED BY <2>4, <2>5, <2>6
<1> HIDE DEF out
<1>7. \A d \in Clients : d # c => Informs(out[d], d, Taken')
  BY <1>6, InformsEach
<1>8. Answers(out[c]) /\ (c \in Audience => After(out[c], Taken) = Taken')
  BY <1>6 DEF Says
<1> QED BY <1>2, <1>7, <1>8, RosterTold

LEMMA RosterOverflow ==
  ASSUME IInv, RosterInv, NEW c \in Clients, HandleOverflow(c)
  PROVE  RosterInv'
<1> DEFINE msgs == AboutSome("REMOVE_PLAYER", Owned(c))
           out == Each(Audience, msgs)
<1>1. /\ Poll(c, "INPUT_OVERFLOW") /\ Send(out)
      /\ UNCHANGED <<peer, cplaying, spectating, clientVars>>
      /\ slot' = [p \in Players |-> IF p \in Owned(c) THEN Free ELSE slot[p]]
  BY DEF HandleOverflow
<1>2. Taken' = Taken \ Owned(c) /\ Owned(c) \in SUBSET Players
  BY <1>1 DEF Taken, Owned
<1>3. Says(msgs, Taken, Taken')
  BY <1>2, SaysOne, TakenPlayers
<1>4. Says(<<>>, Taken, Taken) /\ Silent(<<>>)
  BY SaysOne, TakenPlayers
<1>5. \A d \in Clients : out[d] = IF d \in Audience THEN msgs ELSE <<>>
  BY DEF Each
<1> HIDE DEF out, msgs
<1>6. \A d \in Clients : Informs(out[d], d, Taken')
  BY <1>3, <1>4, <1>5, InformsEach
<1>7. Answers(out[c]) /\ (c \in Audience => After(out[c], Taken) = Taken')
  BY <1>6 DEF Informs
<1> QED BY <1>1, <1>6, <1>7, RosterTold

LEMMA RosterPeerDisconnect ==
  ASSUME IInv, RosterInv, NEW c \in Clients, PeerDisconnect(c)
  PROVE  RosterInv'
<1> DEFINE gone  == Gone(c)
           left  == player_count - Cardinality(gone)
           ends  == left <= 0 /\ state # "OFF"
           heirs == IF left > 0 /\ cmaster[c] THEN Heirs(gone) ELSE {}
           removed(d) == IF d \in Audience THEN AboutSome("REMOVE_PLAYER", gone) ELSE <<>>
           ended(d)   == IF ends /\ d \in InGame THEN <<Note("END")>> ELSE <<>>
           crown(d)   == IF d \in heirs THEN <<Note("ASSIGN_MASTER")>> ELSE <<>>
           out == [d \in Clients |-> IF d = c THEN <<>>
                                     ELSE removed(d) \o ended(d) \o crown(d)]
<1>1. /\ Send(out) /\ UNCHANGED clientVars
      /\ slot' = [p \in Players |-> IF p \in gone THEN Free ELSE slot[p]]
      /\ peer'[c] = FALSE /\ toServer'[c] = <<>>
      /\ \A d \in Clients : d # c => /\ peer'[d] = peer[d] /\ cplaying'[d] = cplaying[d]
                                     /\ spectating'[d] = spectating[d]
                                     /\ toServer'[d] = toServer[d]
  BY DEF PeerDisconnect, IInv, ServerOK, RequestsOK
<1>2. Taken' = Taken \ gone /\ gone \in SUBSET Players
  BY <1>1 DEF Taken, Owned, Gone
<1>3. InGame \subseteq Audience
  BY DEF InGame, Audience
<1>4. Says(<<>>, Taken, Taken) /\ Silent(<<>>) /\ Says(<<>>, Taken', Taken')
  BY <1>2, SaysOne, TakenPlayers
<1>5. \A d \in Clients :
        /\ d \in Audience => /\ Says(removed(d), Taken, Taken')
                             /\ Says(ended(d), Taken', Taken')
                             /\ Says(crown(d), Taken', Taken')
        /\ d \notin Audience => /\ removed(d) = <<>> /\ ended(d) = <<>>
                                /\ Says(crown(d), Taken, Taken) /\ Silent(crown(d))
  <2>1. Taken' \in SUBSET Players /\ Taken \in SUBSET Players
    BY <1>2, TakenPlayers
  <2>2. Says(AboutSome("REMOVE_PLAYER", gone), Taken, Taken')
    BY <1>2, <2>1, SaysOne
  <2>3. Says(<<Note("END")>>, Taken', Taken') /\ Says(<<Note("ASSIGN_MASTER")>>, Taken', Taken')
    BY <2>1, SaysOne
  <2>4. Says(<<Note("ASSIGN_MASTER")>>, Taken, Taken) /\ Silent(<<Note("ASSIGN_MASTER")>>)
    BY <2>1, SaysOne
  <2> QED BY <1>3, <1>4, <2>2, <2>3, <2>4
<1> HIDE DEF removed, ended, crown
<1>6. ASSUME NEW d \in Clients, d # c
      PROVE  Informs(out[d], d, Taken')
  <2> DEFINE first == removed(d) \o ended(d)
  <2>1. out[d] = first \o crown(d)
    BY <1>6
  <2>2. /\ d \in Audience => Says(first, Taken, Taken')
        /\ d \notin Audience => Says(first, Taken, Taken) /\ Silent(first)
    <3>1. CASE d \in Audience
      BY <1>5, <3>1, SaysBoth
    <3>2. CASE d \notin Audience
      <4>1. first = <<>> \o <<>>
        BY <1>5, <3>2
      <4>2. Says(<<>> \o <<>>, Taken, Taken)
        BY <1>4, SaysBoth
      <4>3. Silent(<<>> \o <<>>)
        BY <1>4, SilentRuns DEF Says
      <4> QED BY <3>2, <4>1, <4>2, <4>3
    <3> QED BY <3>1, <3>2
  <2> HIDE DEF first, out
  <2>3. d \in Audience => Says(out[d], Taken, Taken')
    BY <1>5, <2>1, <2>2, SaysBoth
  <2>4. d \notin Audience => Says(out[d], Taken, Taken)
    BY <1>5, <2>1, <2>2, SaysBoth
  <2>5. d \notin Audience => Silent(out[d])
    BY <1>5, <2>1, <2>2, SilentRuns DEF Says
  <2> QED BY <2>3, <2>4, <2>5, InformsEach
<1> HIDE DEF out
<1>7. ASSUME NEW d \in Clients, d # c
      PROVE  Meets(d)'
  BY <1>1, <1>6, <1>7, MeetsBystander DEF RosterInv
<1>8. Meets(c)'
  BY <1>1, InEmpty DEF Meets
<1> QED BY <1>7, <1>8 DEF RosterInv

-----------------------------------------------------------------------------
(* The clients listen and ask.                                              *)

\* A step of client c is nobody else's business.
LEMMA RosterOwn ==
  ASSUME IInv, RosterInv, NEW c \in Clients, Taken' = Taken,
         \A d \in Clients : d # c => /\ peer'[d] = peer[d] /\ cplaying'[d] = cplaying[d]
                                     /\ spectating'[d] = spectating[d]
                                     /\ mode'[d] = mode[d] /\ roster'[d] = roster[d]
                                     /\ toServer'[d] = toServer[d] /\ toClient'[d] = toClient[d],
         Meets(c)'
  PROVE  RosterInv'
<1>1. ASSUME NEW d \in Clients, d # c
      PROVE  Meets(d)'
  BY <1>1 DEF RosterInv, Meets, Asks, Comes
<1> QED BY <1>1 DEF RosterInv

\* Client c asks for something more, or for nothing.
LEMMA MoreAsked ==
  ASSUME IInv, NEW c \in Clients, Meets(c), NEW m \in ToServerMessage, m.type # "LEAVE",
         Put(c, m)
  PROVE  /\ \A d \in Clients : d # c => toServer'[d] = toServer[d]
         /\ \A n \in In(toServer'[c]) : n.type # "LEAVE"
         /\ toServer[c] # <<>> => toServer'[c] # <<>> /\ Head(toServer'[c]) = Head(toServer[c])
         /\ peer[c] /\ toServer[c] = <<>> => toServer'[c] = <<m>>
<1>1. /\ toServer'[c] = IF peer[c] THEN Append(toServer[c], m) ELSE toServer[c]
      /\ \A d \in Clients : d # c => toServer'[d] = toServer[d]
  BY DEF Put, IInv, RequestsOK
<1>2. toServer[c] \in Seq(ToServerMessage)
  BY DEF IInv, RequestsOK
<1>3. In(Append(toServer[c], m)) = In(toServer[c]) \cup {m}
  <2>1. Append(toServer[c], m) = toServer[c] \o <<m>>
    BY <1>2, AppendedOne
  <2>2. In(toServer[c] \o <<m>>) = In(toServer[c]) \cup {m}
    BY <1>2, InConcatOne
  <2> QED BY ONLY <2>1, <2>2
<1>4. toServer[c] # <<>> => /\ Append(toServer[c], m) # <<>>
                            /\ Head(Append(toServer[c], m)) = Head(toServer[c])
  BY <1>2, Queues
<1>5. toServer[c] = <<>> => Append(toServer[c], m) = <<m>>
  OBVIOUS
<1> QED BY <1>1, <1>3, <1>4, <1>5 DEF Meets

\* Client c reads a message, its mode stays, and it may ask for something.
LEMMA MeetsHeard ==
  ASSUME IInv, RosterInv, NEW c \in Clients, NEW t, Receive(c, t), UNCHANGED serverVars,
         UNCHANGED mode, t # "CHECK_ID",
         roster'[c] = After(<<Received(c)>>, roster[c]),
         \A d \in Clients : d # c => roster'[d] = roster[d],
         \/ UNCHANGED toServer
         \/ t = "END" /\ \E m \in ToServerMessage : m.type # "LEAVE" /\ Put(c, m)
  PROVE  RosterInv'
<1>1. /\ toClient[c] # <<>> /\ mode[c] # "closed"
      /\ Received(c) = Head(toClient[c]) /\ Received(c).type = t
      /\ toClient'[c] = Tail(toClient[c])
      /\ \A d \in Clients : d # c => toClient'[d] = toClient[d]
      /\ UNCHANGED <<peer, cplaying, spectating, slot>>
  BY DEF Receive, Received, IInv, RepliesOK, serverVars
<1>2. Taken' = Taken
  BY <1>1 DEF Taken
<1>3. /\ Received(c) \in In(toClient[c]) /\ In(toClient'[c]) \subseteq In(toClient[c])
      /\ toClient[c] \in Seq(ToClientMessage)
  BY <1>1, Shapes, Tails DEF Answers
<1>4. Silent(toClient[c]) => /\ t # "END" /\ roster'[c] = roster[c] /\ Silent(toClient'[c])
  <2>1. roster[c] \in SUBSET Players
    BY DEF IInv, ClientOK
  <2> QED BY <1>1, <1>3, <2>1, AfterOne DEF Silent
<1>5. /\ \A d \in Clients : d # c => toServer'[d] = toServer[d]
      /\ \A n \in In(toServer'[c]) : n.type # "LEAVE"
      /\ toServer[c] # <<>> => toServer'[c] # <<>> /\ Head(toServer'[c]) = Head(toServer[c])
      /\ t # "END" => UNCHANGED toServer
  <2>1. Meets(c)
    BY DEF RosterInv
  <2> QED BY <2>1, MoreAsked DEF Meets
<1>6. After(toClient'[c], roster'[c]) = After(toClient[c], roster[c])
  BY <1>1, <1>3, AfterRead
<1>7. CASE ~peer[c]
  <2>1. Meets(c)'
    BY <1>1, <1>5, <1>7 DEF Meets
  <2> QED BY <1>1, <1>2, <1>5, <2>1, RosterOwn
<1>8. CASE peer[c] /\ mode[c] = "checking"
  <2>1. Asks(c)
    BY <1>8 DEF RosterInv, Meets
  <2>2. Asks(c)'
    BY <1>1, <1>3, <1>4, <1>5, <2>1 DEF Asks
  <2>3. Meets(c)'
    BY <1>5, <1>8, <2>2 DEF Meets
  <2> QED BY <1>1, <1>2, <1>5, <2>3, RosterOwn
<1>9. CASE peer[c] /\ mode[c] = "online"
  <2>1. Comes(c) => Comes(c)'
    BY <1>1, <1>4, <1>5 DEF Comes
  <2>2. Meets(c)'
    BY <1>1, <1>2, <1>5, <1>6, <1>9, <2>1 DEF RosterInv, Meets
  <2> QED BY <1>1, <1>2, <1>5, <2>2, RosterOwn
<1> QED BY <1>1, <1>7, <1>8, <1>9 DEF IInv, ClientOK

LEMMA RosterReceiveCheckId ==
  ASSUME IInv, RosterInv, NEW c \in Clients, ReceiveCheckId(c)
  PROVE  RosterInv'
<1> DEFINE m == Note("SPECTATE")
<1>1. m \in ToServerMessage /\ m.type = "SPECTATE"
  BY Requests DEF Note
<1>2. /\ toClient[c] # <<>> /\ Head(toClient[c]).type = "CHECK_ID"
      /\ toClient'[c] = Tail(toClient[c]) /\ mode'[c] = "online" /\ mode[c] # "closed"
      /\ \A d \in Clients : d # c => toClient'[d] = toClient[d] /\ mode'[d] = mode[d]
      /\ UNCHANGED <<serverVars, roster>> /\ Put(c, m)
  BY DEF ReceiveCheckId, Receive, Received, IInv, RepliesOK, ClientOK
<1> HIDE DEF m
<1>3. UNCHANGED <<peer, cplaying, spectating, slot>> /\ Taken' = Taken
  BY <1>2 DEF serverVars, Taken
<1>4. /\ \A d \in Clients : d # c => toServer'[d] = toServer[d]
      /\ \A n \in In(toServer'[c]) : n.type # "LEAVE"
      /\ toServer[c] # <<>> => toServer'[c] # <<>> /\ Head(toServer'[c]) = Head(toServer[c])
      /\ peer[c] /\ toServer[c] = <<>> => toServer'[c] = <<m>>
  BY <1>1, <1>2, MoreAsked DEF RosterInv
<1>5. /\ Head(toClient[c]) \in In(toClient[c]) /\ In(toClient'[c]) \subseteq In(toClient[c])
      /\ toClient[c] \in Seq(ToClientMessage)
  BY <1>2, Shapes, Tails DEF Answers
<1>6. Silent(toClient[c]) => Silent(toClient'[c])
  BY <1>5 DEF Silent
<1>7. After(toClient'[c], roster[c]) = After(toClient[c], roster[c])
  <2>1. roster[c] \in SUBSET Players
    BY DEF IInv, ClientOK
  <2>2. After(<<Head(toClient[c])>>, roster[c]) = roster[c]
    BY <1>2, <2>1, AfterOne DEF AboutRoster
  <2> QED BY <1>2, <1>5, <2>2, AfterRead
<1>8. CASE peer[c] /\ mode[c] = "checking"
  <2>1. Asks(c)
    BY <1>8 DEF RosterInv, Meets
  <2>2. toServer'[c] = <<m>>
    BY <1>2, <1>4, <1>5, <1>8, <2>1 DEF Asks
  <2>3. toServer'[c] # <<>> /\ Head(toServer'[c]).type = "SPECTATE"
    BY <1>1, <2>2
  <2>4. Comes(c)' /\ spectating'[c] = 0
    BY <1>2, <1>3, <1>6, <2>1, <2>3 DEF Asks, Comes
  <2> QED BY <1>2, <1>3, <1>4, <2>4, RosterOwn DEF Meets
<1>9. CASE peer[c] /\ mode[c] = "online"
  <2>1. Comes(c) => Comes(c)'
    BY <1>2, <1>3, <1>4, <1>6 DEF Comes
  <2>2. Meets(c)'
    BY <1>2, <1>3, <1>4, <1>7, <1>9, <2>1 DEF RosterInv, Meets
  <2> QED BY <1>2, <1>3, <1>4, <2>2, RosterOwn
<1>10. CASE ~peer[c]
  <2>1. Meets(c)'
    BY <1>3, <1>4, <1>10 DEF Meets
  <2> QED BY <1>2, <1>3, <1>4, <2>1, RosterOwn
<1> QED BY <1>2, <1>8, <1>9, <1>10 DEF IInv, ClientOK

\* The connection of a client is closed at its end.
LEMMA RosterClosed ==
  ASSUME IInv, RosterInv, NEW c \in Clients, UNCHANGED serverVars, mode'[c] = "closed",
         \A d \in Clients : d # c => mode'[d] = mode[d] /\ roster'[d] = roster[d]
                                     /\ toClient'[d] = toClient[d],
         \E n \in 0 .. Len(toServer[c]) : toServer' = [toServer EXCEPT ![c] = SubSeq(@, 1, n)]
  PROVE  RosterInv'
<1>1. PICK n \in 0 .. Len(toServer[c]) : toServer' = [toServer EXCEPT ![c] = SubSeq(@, 1, n)]
  OBVIOUS
<1>2. /\ toServer'[c] = SubSeq(toServer[c], 1, n)
      /\ \A d \in Clients : d # c => toServer'[d] = toServer[d]
  BY <1>1 DEF IInv, RequestsOK
<1>3. In(toServer'[c]) \subseteq In(toServer[c])
  BY <1>2, Shapes, Cuts DEF Queue
<1>4. UNCHANGED <<peer, cplaying, spectating, slot>> /\ Taken' = Taken
  BY DEF serverVars, Taken
<1>5. Meets(c)'
  BY <1>3 DEF RosterInv, Meets
<1> QED BY <1>2, <1>4, <1>5, RosterOwn

LEMMA RosterClientPoll ==
  ASSUME IInv, RosterInv, NEW c \in Clients, ClientPoll(c)
  PROVE  RosterInv'
<1>1. roster[c] \in SUBSET Players
  BY DEF IInv, ClientOK
<1>2. ASSUME NEW t, Receive(c, t)
      PROVE  /\ Received(c).type = t
             /\ t = "ADD_PLAYER" => Received(c).players \subseteq Players
  <2>1. Received(c) \in ToClientMessage /\ Received(c).type = t
    BY <1>2, Shapes, HeadTailProperties DEF Receive, Received, Answers
  <2> QED BY <2>1, ReplyParts
<1>3. CASE ReceiveCheckIdFail(c)
  <2>1. /\ UNCHANGED <<serverVars, roster, toServer>> /\ mode'[c] = "closed"
        /\ \A d \in Clients : d # c => mode'[d] = mode[d] /\ toClient'[d] = toClient[d]
    BY <1>3 DEF ReceiveCheckIdFail, IInv, ClientOK, RepliesOK
  <2>2. UNCHANGED <<peer, cplaying, spectating, slot>> /\ Taken' = Taken
    BY <2>1 DEF serverVars, Taken
  <2>3. Meets(c)'
    BY <2>1 DEF RosterInv, Meets
  <2> QED BY <2>1, <2>2, <2>3, RosterOwn
<1>4. CASE \/ ReceiveConnect(c) \/ ReceiveDisconnect(c) \/ ReceiveAssignMaster(c)
           \/ ReceiveOther(c) \/ ReceiveStart(c) \/ ReceivePause(c) \/ ReceiveResume(c)
  <2>1. PICK t \in {"CONNECT", "DISCONNECT", "ASSIGN_MASTER", "CONNECT_FAIL", "SPECTATE",
                    "START", "PAUSE", "RESUME"} : Receive(c, t)
    BY <1>4 DEF ReceiveConnect, ReceiveDisconnect, ReceiveAssignMaster, ReceiveOther,
                ReceiveStart, ReceivePause, ReceiveResume
  <2>2. UNCHANGED <<serverVars, mode, roster, toServer>>
    BY <1>4 DEF ReceiveConnect, ReceiveDisconnect, ReceiveAssignMaster, ReceiveOther,
                ReceiveStart, ReceivePause, ReceiveResume, clientVars
  <2>3. roster'[c] = After(<<Received(c)>>, roster[c])
    BY <1>1, <1>2, <2>1, <2>2, AfterOne DEF AboutRoster
  <2> QED BY <2>1, <2>2, <2>3, MeetsHeard
<1>5. CASE ReceiveAddPlayer(c)
  <2>1. /\ Receive(c, "ADD_PLAYER") /\ UNCHANGED <<serverVars, mode, toServer>>
        /\ roster'[c] = roster[c] \cup Received(c).players
        /\ \A d \in Clients : d # c => roster'[d] = roster[d]
    BY <1>5 DEF ReceiveAddPlayer, IInv, ClientOK
  <2>2. roster'[c] = After(<<Received(c)>>, roster[c])
    BY <1>1, <1>2, <2>1, AfterOne
  <2> QED BY <2>1, <2>2, MeetsHeard
<1>6. CASE ReceiveRemovePlayer(c)
  <2>1. /\ Receive(c, "REMOVE_PLAYER") /\ UNCHANGED <<serverVars, mode, toServer>>
        /\ roster'[c] = roster[c] \ Received(c).players
        /\ \A d \in Clients : d # c => roster'[d] = roster[d]
    BY <1>6 DEF ReceiveRemovePlayer, IInv, ClientOK
  <2>2. roster'[c] = After(<<Received(c)>>, roster[c])
    BY <1>1, <1>2, <2>1, AfterOne
  <2> QED BY <2>1, <2>2, MeetsHeard
<1>7. CASE ReceiveEnd(c)
  <2>1. /\ Receive(c, "END") /\ UNCHANGED <<serverVars, mode, roster>>
        /\ UNCHANGED toServer \/ Put(c, Note("START"))
    BY <1>7 DEF ReceiveEnd
  <2>2. roster'[c] = After(<<Received(c)>>, roster[c])
    BY <1>1, <1>2, <2>1, AfterOne DEF AboutRoster
  <2>3. Note("START") \in ToServerMessage /\ Note("START").type # "LEAVE"
    BY Requests DEF Note
  <2> QED BY <2>1, <2>2, <2>3, MeetsHeard
<1> QED BY <1>3, <1>4, <1>5, <1>6, <1>7, RosterReceiveCheckId DEF ClientPoll

LEMMA RosterAsk ==
  ASSUME IInv, RosterInv, NEW c \in Clients, NEW m \in ToServerMessage, m.type # "LEAVE",
         Ask(c, m)
  PROVE  RosterInv'
<1>1. /\ Put(c, m) /\ UNCHANGED <<serverVars, clientVars, toClient>> /\ mode[c] = "online"
  BY DEF Ask
<1>2. /\ UNCHANGED <<peer, cplaying, spectating, slot, mode, roster, toClient>>
      /\ Taken' = Taken
  BY <1>1 DEF serverVars, clientVars, Taken
<1>3. /\ \A d \in Clients : d # c => toServer'[d] = toServer[d]
      /\ \A n \in In(toServer'[c]) : n.type # "LEAVE"
      /\ toServer[c] # <<>> => toServer'[c] # <<>> /\ Head(toServer'[c]) = Head(toServer[c])
  BY <1>1, MoreAsked DEF RosterInv
<1>4. Comes(c) => Comes(c)'
  BY <1>2, <1>3 DEF Comes
<1>5. Meets(c)'
  BY <1>1, <1>2, <1>3, <1>4 DEF RosterInv, Meets
<1> QED BY <1>2, <1>3, <1>5, RosterOwn

LEMMA RosterUser ==
  ASSUME IInv, RosterInv, Faithful, NEW c \in Clients, User(c)
  PROVE  RosterInv'
<1>1. ~StopWatching(c) /\ \A k \in Controllers : ~EarlyJoin(c, k)
  BY DEF Faithful, StopWatching, EarlyJoin
<1>2. CASE Start(c) \/ Pause(c) \/ Resume(c) \/ End(c) \/ FallBehind(c)
  <2>1. \A t \in {"START", "PAUSE", "RESUME", "END", "INPUT_OVERFLOW"} :
          Note(t) \in ToServerMessage /\ Note(t).type # "LEAVE"
    BY Requests DEF Note
  <2> QED BY <1>2, <2>1, RosterAsk DEF Start, Pause, Resume, End, FallBehind
<1>3. ASSUME NEW k \in Controllers, Join(c, k) \/ Back(c, k)
      PROVE  RosterInv'
  <2>1. /\ Request("CONNECT", k, -1) \in ToServerMessage
        /\ Request("CONNECT", k, -1).type # "LEAVE"
        /\ Request("DISCONNECT", k, port[c][k]).type # "LEAVE"
    BY Requests DEF Request
  <2>2. CASE Join(c, k)
    BY <2>1, <2>2, RosterAsk DEF Join
  <2>3. CASE Back(c, k)
    <3>1. port[c][k] \in Players
      BY <2>3 DEF Back, IInv, ClientOK
    <3>2. Request("DISCONNECT", k, port[c][k]) \in ToServerMessage
      BY <3>1, Requests
    <3> QED BY <2>1, <2>3, <3>2, RosterAsk DEF Back
  <2> QED BY <1>3, <2>2, <2>3
<1>4. CASE Leave(c) \/ ClientLost(c)
  <2>1. /\ UNCHANGED serverVars /\ mode'[c] = "closed"
        /\ \A d \in Clients : d # c => mode'[d] = mode[d] /\ roster'[d] = roster[d]
                                       /\ toClient'[d] = toClient[d]
    BY <1>4 DEF Leave, ClientLost, IInv, ClientOK, RepliesOK
  <2>2. \E n \in 0 .. Len(toServer[c]) : toServer' = [toServer EXCEPT ![c] = SubSeq(@, 1, n)]
    BY <1>4 DEF Leave, ClientLost
  <2> QED BY <2>1, <2>2, RosterClosed
<1>5. CASE Connect(c)
  <2>1. /\ spectating'[c] = 0 /\ cplaying'[c] = 0 /\ roster'[c] = {} /\ mode'[c] = "checking"
        /\ toServer'[c] = <<Note("CHECK_ID")>> /\ toClient'[c] = <<>>
        /\ \A d \in Clients : d # c => /\ peer'[d] = peer[d] /\ cplaying'[d] = cplaying[d]
                                     /\ spectating'[d] = spectating[d]
                                     /\ mode'[d] = mode[d] /\ roster'[d] = roster[d]
                                     /\ toServer'[d] = toServer[d] /\ toClient'[d] = toClient[d]
        /\ Taken' = Taken
    BY <1>5 DEF Connect, IInv, ServerOK, ClientOK, RequestsOK, RepliesOK, Taken
  <2>2. Asks(c)'
    BY <2>1, InEmpty DEF Asks, Silent
  <2>3. \A m \in In(toServer'[c]) : m.type # "LEAVE"
    BY <2>1, InOne DEF Note
  <2>4. Meets(c)'
    BY <2>1, <2>2, <2>3 DEF Meets
  <2> QED BY <2>1, <2>4, RosterOwn
<1> QED BY <1>1, <1>2, <1>3, <1>4, <1>5 DEF User

-----------------------------------------------------------------------------
(* The theorem.                                                             *)

LEMMA RosterNext ==
  ASSUME IInv, RosterInv, Faithful, [Next]_vars
  PROVE  RosterInv'
<1>1. CASE UNCHANGED vars
  BY <1>1 DEF vars, serverVars, clientVars, RosterInv, Meets, Asks, Comes, Taken
<1>2. ASSUME NEW c \in Clients, ServerPoll(c)
      PROVE  RosterInv'
  BY <1>2, RosterCheckId, RosterSpectate, RosterConnect, RosterDisconnect, RosterOverflow,
     RosterPhases DEF ServerPoll
<1> QED BY <1>1, <1>2, RosterPeerDisconnect, RosterClientPoll, RosterUser DEF Next

LEMMA KnownIsTold ==
  ASSUME NEW c \in Clients, NEW p \in Players
  PROVE  KnownTo(c, p) <=> p \in After(toClient[c], roster[c])
  BY DEF KnownTo, Changes, After, Told, Turns, AboutRoster

(* Where users join only when they are accepted and watch as long as they   *)
(* are connected, every client that plays or watches is told of every       *)
(* change of the roster, in an order that leaves it with the server's: the  *)
(* four handlers that change it, and the answer to SPECTATE, which sends it *)
(* as a whole, always agree with what is under way.                         *)
THEOREM RosterKnown ==
  ASSUME Faithful
  PROVE  Spec => []RosterConverges
<1>1. Init => RosterInv
  BY InEmpty DEF Init, RosterInv, Meets
<1>2. IInv /\ RosterInv /\ [Next]_vars => RosterInv'
  BY RosterNext
<1>3. IInv /\ RosterInv => RosterConverges
  <2> SUFFICES ASSUME RosterInv, NEW c \in Audience, mode[c] = "online", NEW p \in Players
               PROVE  KnownTo(c, p) <=> p \in Taken
    BY DEF RosterConverges
  <2>1. c \in Clients /\ peer[c] /\ (cplaying[c] # 0 \/ spectating[c] # 0)
    BY DEF Audience
  <2>2. After(toClient[c], roster[c]) = Taken
    BY <2>1 DEF RosterInv, Meets, Comes
  <2> QED BY <2>1, <2>2, KnownIsTold
<1> QED BY <1>1, <1>2, <1>3, Invariant, PTL DEF Spec

-----------------------------------------------------------------------------
(* What a client takes for true, and what each message makes of it.         *)

Views == [port : [Controllers -> Players \cup {Unplugged}], phase : Phases,
          master : BOOLEAN, roster : SUBSET Players, locals : SUBSET Players]

View(c) == [port |-> port[c], phase |-> cstate[c], master |-> master[c],
            roster |-> roster[c], locals |-> locals[c]]

Seats(v) == {v.port[k] : k \in Controllers} \ {Unplugged}

Seated(v, m) == IF v.phase = "OFF" THEN [v EXCEPT !.port = [@ EXCEPT ![m.ctrl] = m.player]] ELSE v

Unseated(v, m) ==
  [v EXCEPT !.port = [@ EXCEPT ![m.ctrl] = Unplugged],
            !.master = @ /\ \E j \in Controllers \ {m.ctrl} : v.port[j] # Unplugged]

Added(v, m) ==
  LET fresh == m.players \ v.roster
  IN  [v EXCEPT !.roster = @ \cup m.players, !.locals = (@ \ fresh) \cup (fresh \cap Seats(v))]

Read(m, v) ==
  CASE m.type = "CONNECT"              -> Seated(v, m)
    [] m.type = "DISCONNECT"           -> Unseated(v, m)
    [] m.type = "ADD_PLAYER"           -> Added(v, m)
    [] m.type = "REMOVE_PLAYER"        -> [v EXCEPT !.roster = @ \ m.players]
    [] m.type = "ASSIGN_MASTER"        -> [v EXCEPT !.master = TRUE]
    [] m.type \in {"START", "RESUME"}  -> [v EXCEPT !.phase = "PLAYING"]
    [] m.type = "PAUSE"                -> [v EXCEPT !.phase = "PAUSED"]
    [] m.type = "END"                  -> [v EXCEPT !.phase = "OFF"]
    [] OTHER                           -> v

\* Reading the messages s, one after the other, leads from view v to view w.
Reaches(s, v, w) ==
  \E f \in [0 .. Len(s) -> Views] :
    /\ f[0] = v /\ f[Len(s)] = w
    /\ \A i \in 1 .. Len(s) : f[i] = Read(s[i], f[i - 1])

LEMMA ViewType ==
  ASSUME IInv, NEW c \in Clients
  PROVE  View(c) \in Views
BY DEF IInv, ClientOK, View, Views

LEMMA ReadType ==
  ASSUME NEW m \in ToClientMessage, NEW v \in Views
  PROVE  Read(m, v) \in Views
<1>1. m.type = "CONNECT" => Seated(v, m) \in Views
  BY ReplyParts DEF Seated, Views
<1>2. m.type = "DISCONNECT" => Unseated(v, m) \in Views
  BY ReplyParts DEF Unseated, Views
<1>3. m.type = "ADD_PLAYER" => Added(v, m) \in Views
  BY ReplyParts DEF Added, Views, Seats
<1>4. m.type = "REMOVE_PLAYER" => [v EXCEPT !.roster = @ \ m.players] \in Views
  BY ReplyParts DEF Views
<1>5. /\ [v EXCEPT !.master = TRUE] \in Views
      /\ \A x \in Phases : [v EXCEPT !.phase = x] \in Views
  BY DEF Views
<1> QED BY <1>1, <1>2, <1>3, <1>4, <1>5 DEF Read, Phases

LEMMA ReachNothing ==
  ASSUME NEW v \in Views
  PROVE  Reaches(<<>>, v, v)
<1> DEFINE f == [i \in 0 .. 0 |-> v]
<1>1. Len(<<>>) = 0 /\ f \in [0 .. 0 -> Views] /\ f[0] = v /\ 1 .. 0 = {}
  OBVIOUS
<1> HIDE DEF f
<1> QED BY <1>1 DEF Reaches

LEMMA ReachedAlready ==
  ASSUME NEW v, NEW w, Reaches(<<>>, v, w)
  PROVE  v = w
BY DEF Reaches

LEMMA ReachOne ==
  ASSUME NEW m \in ToClientMessage, NEW v \in Views, NEW w, w = Read(m, v)
  PROVE  Reaches(<<m>>, v, w)
<1> DEFINE f == [i \in 0 .. 1 |-> IF i = 0 THEN v ELSE w]
<1>1. w \in Views
  BY ReadType
<1>2. Len(<<m>>) = 1 /\ <<m>>[1] = m /\ 1 .. 1 = {1} /\ 1 - 1 = 0
  OBVIOUS
<1>3. f \in [0 .. 1 -> Views] /\ f[0] = v /\ f[1] = w
  BY <1>1
<1> HIDE DEF f
<1>4. f[1] = Read(<<m>>[1], f[1 - 1])
  BY <1>2, <1>3
<1> QED BY <1>2, <1>3, <1>4 DEF Reaches

LEMMA ReachBoth ==
  ASSUME NEW s, NEW t, Answers(s), Answers(t), NEW a, NEW b, NEW c,
         Reaches(s, a, b), Reaches(t, b, c)
  PROVE  Reaches(s \o t, a, c)
<1>1. /\ Len(s) \in Nat /\ Len(t) \in Nat /\ Len(s \o t) = Len(s) + Len(t)
      /\ \A i \in 1 .. Len(s) + Len(t) :
           (s \o t)[i] = IF i <= Len(s) THEN s[i] ELSE t[i - Len(s)]
  BY ConcatProperties, LenProperties DEF Answers
<1>2. PICK f \in [0 .. Len(s) -> Views] :
        f[0] = a /\ f[Len(s)] = b /\ \A i \in 1 .. Len(s) : f[i] = Read(s[i], f[i - 1])
  BY DEF Reaches
<1>3. PICK g \in [0 .. Len(t) -> Views] :
        g[0] = b /\ g[Len(t)] = c /\ \A i \in 1 .. Len(t) : g[i] = Read(t[i], g[i - 1])
  BY DEF Reaches
<1> DEFINE h == [i \in 0 .. Len(s) + Len(t) |-> IF i <= Len(s) THEN f[i] ELSE g[i - Len(s)]]
<1>4. h \in [0 .. Len(s) + Len(t) -> Views]
  <2> SUFFICES ASSUME NEW i \in 0 .. Len(s) + Len(t)
               PROVE  (IF i <= Len(s) THEN f[i] ELSE g[i - Len(s)]) \in Views
    OBVIOUS
  <2>1. CASE i <= Len(s)
    <3>1. i \in 0 .. Len(s)
      BY <1>1, <2>1
    <3> QED BY <2>1, <3>1
  <2>2. CASE ~(i <= Len(s))
    <3>1. i - Len(s) \in 0 .. Len(t)
      BY <1>1, <2>2
    <3> QED BY <2>2, <3>1
  <2> QED BY <2>1, <2>2
<1>5. \A i \in 0 .. Len(s) : h[i] = f[i]
  BY <1>1
<1>6. \A i \in 0 .. Len(t) : h[i + Len(s)] = g[i]
  <2> SUFFICES ASSUME NEW i \in 0 .. Len(t) PROVE h[i + Len(s)] = g[i]
    OBVIOUS
  <2>1. i + Len(s) \in 0 .. Len(s) + Len(t) /\ (i + Len(s)) - Len(s) = i
        /\ (i + Len(s) <= Len(s) => i = 0) /\ i + Len(s) >= 0
    BY <1>1
  <2>2. CASE i = 0
    <3>1. i + Len(s) = Len(s) /\ Len(s) \in 0 .. Len(s)
      BY <1>1, <2>2
    <3> QED BY <1>2, <1>3, <1>5, <2>2, <3>1
  <2>3. CASE i # 0
    BY <2>1, <2>3
  <2> QED BY <2>2, <2>3
<1> HIDE DEF h
<1>7. h[0] = a /\ h[Len(s) + Len(t)] = c
  <2>1. 0 \in 0 .. Len(s) /\ Len(t) \in 0 .. Len(t) /\ Len(t) + Len(s) = Len(s) + Len(t)
    BY <1>1
  <2> QED BY <1>2, <1>3, <1>5, <1>6, <2>1
<1>8. ASSUME NEW i \in 1 .. Len(s) + Len(t)
      PROVE  h[i] = Read((s \o t)[i], h[i - 1])
  <2>1. CASE i <= Len(s)
    <3>1. i \in 1 .. Len(s) /\ i \in 0 .. Len(s) /\ i - 1 \in 0 .. Len(s)
      BY <1>1, <2>1
    <3> QED BY <1>1, <1>2, <1>5, <2>1, <3>1
  <2>2. CASE ~(i <= Len(s))
    <3>1. /\ i - Len(s) \in 1 .. Len(t) /\ i - Len(s) \in 0 .. Len(t)
          /\ (i - Len(s)) - 1 \in 0 .. Len(t)
          /\ (i - Len(s)) + Len(s) = i /\ ((i - Len(s)) - 1) + Len(s) = i - 1
      BY <1>1, <2>2
    <3>2. h[i] = g[i - Len(s)] /\ h[i - 1] = g[(i - Len(s)) - 1]
      BY <1>6, <3>1
    <3>3. (s \o t)[i] = t[i - Len(s)]
      BY <1>1, <2>2
    <3> QED BY <1>3, <3>1, <3>2, <3>3
  <2> QED BY <2>1, <2>2
<1> QED BY <1>1, <1>4, <1>7, <1>8 DEF Reaches

LEMMA ReachRest ==
  ASSUME NEW s, Answers(s), s # <<>>, NEW v, NEW w, Reaches(s, v, w)
  PROVE  Reaches(Tail(s), Read(Head(s), v), w)
<1>1. /\ Len(s) \in Nat \ {0} /\ Len(Tail(s)) = Len(s) - 1 /\ Head(s) = s[1]
      /\ \A i \in 1 .. Len(Tail(s)) : i + 1 \in 1 .. Len(s) /\ Tail(s)[i] = s[i + 1]
  BY Tails DEF Answers
<1>2. PICK f \in [0 .. Len(s) -> Views] :
        f[0] = v /\ f[Len(s)] = w /\ \A i \in 1 .. Len(s) : f[i] = Read(s[i], f[i - 1])
  BY DEF Reaches
<1> DEFINE n == Len(s) - 1
           g == [i \in 0 .. n |-> f[i + 1]]
<1>3. n \in Nat /\ n + 1 = Len(s)
  BY <1>1
<1> HIDE DEF n
<1>4. g \in [0 .. n -> Views] /\ \A i \in 0 .. n : g[i] = f[i + 1]
  <2>1. \A i \in 0 .. n : i + 1 \in 0 .. Len(s)
    BY <1>3
  <2> QED BY <2>1
<1> HIDE DEF g
<1>5. g[0] = Read(Head(s), v)
  <2>1. 1 \in 1 .. Len(s) /\ 0 \in 0 .. n /\ 0 + 1 = 1 /\ 1 - 1 = 0
    BY <1>3
  <2>2. f[1] = Read(s[1], f[1 - 1])
    BY <1>2, <2>1
  <2> QED BY <1>1, <1>2, <1>4, <2>1, <2>2
<1>6. g[n] = w
  <2>1. n \in 0 .. n
    BY <1>3
  <2> QED BY <1>2, <1>3, <1>4, <2>1
<1>7. ASSUME NEW i \in 1 .. n
      PROVE  g[i] = Read(Tail(s)[i], g[i - 1])
  <2>1. /\ i \in 0 .. n /\ i - 1 \in 0 .. n /\ i + 1 \in 1 .. Len(s) /\ (i + 1) - 1 = i
        /\ (i - 1) + 1 = i
    BY <1>3
  <2>2. g[i] = f[i + 1] /\ g[i - 1] = f[i]
    BY <1>4, <2>1
  <2>3. f[i + 1] = Read(s[i + 1], f[(i + 1) - 1])
    BY <1>2, <2>1
  <2>4. Len(Tail(s)) = n
    BY <1>1 DEF n
  <2> QED BY <1>1, <2>1, <2>2, <2>3, <2>4
<1>8. Len(Tail(s)) = n
  BY <1>1 DEF n
<1> QED BY <1>4, <1>5, <1>6, <1>7, <1>8 DEF Reaches

-----------------------------------------------------------------------------
(* What the server lets a client take for true.                             *)

\* Connections hold, and users do everything in its time.
Steady == Behaviours \subseteq {"back", "init_fails"}

Mirrors(c, w) ==
  /\ \A k \in Controllers, p \in Players : w.port[k] = p <=> slot[p] = <<c, k>>
  /\ w.master = cmaster[c]
  /\ w.phase = IF spectating[c] = 1 THEN state ELSE "OFF"
  /\ IF spectating[c] = 0 THEN w.roster = {}
     ELSE w.roster = Taken /\ w.roster \cap w.locals = Owned(c)

Mirrored(c) == mode[c] # "closed" =>
  \E w \in Views : Reaches(toClient[c], View(c), w) /\ Mirrors(c, w)

Never(s, t) == \A m \in In(s) : m.type # t

\* A client asks for the version of the server, then to watch, then for more.
Greeted(c) ==
  /\ mode[c] = "closed" <=> ~peer[c]
  /\ Never(toServer[c], "LEAVE") /\ Never(toClient[c], "CHECK_ID_FAIL")
  /\ ~peer[c] => cstate[c] = "OFF" /\ toClient[c] = <<>> /\ spectating[c] = 0
  /\ mode[c] = "checking" =>
       /\ spectating[c] = 0 /\ cplaying[c] = 0
       /\ \/ toServer[c] = <<Note("CHECK_ID")>> /\ toClient[c] = <<>>
          \/ toServer[c] = <<>> /\ toClient[c] = <<Note("CHECK_ID")>>
  /\ mode[c] = "online" => Never(toServer[c], "CHECK_ID") /\ Never(toClient[c], "CHECK_ID")
  /\ mode[c] = "online" /\ spectating[c] = 0 =>
       /\ cplaying[c] = 0 /\ toClient[c] = <<>> /\ toServer[c] # <<>>
       /\ Head(toServer[c]).type = "SPECTATE" /\ Never(Tail(toServer[c]), "SPECTATE")
  /\ spectating[c] # 0 => Never(toServer[c], "SPECTATE")
  /\ spectating[c] = 2 => cplaying[c] = 0 /\ state # "OFF"

HasMaster == Taken # {} => \E c \in Clients : cmaster[c]

AgreeInv == (\A c \in Clients : Greeted(c) /\ Mirrored(c)) /\ HasMaster

\* Runs of messages other than the answers to CHECK_ID, by what they make of
\* the view v of who reads them.
Tells(s, v, w) ==
  /\ Answers(s) /\ v \in Views /\ w \in Views /\ Reaches(s, v, w)
  /\ Never(s, "CHECK_ID") /\ Never(s, "CHECK_ID_FAIL")

LEMMA TellsNothing ==
  ASSUME NEW v \in Views
  PROVE  Tells(<<>>, v, v)
  BY ReachNothing, QuietRuns, InEmpty DEF Tells, Never

LEMMA TellsOne ==
  ASSUME NEW m \in ToClientMessage, m.type \notin {"CHECK_ID", "CHECK_ID_FAIL"},
         NEW v \in Views, NEW w, w = Read(m, v)
  PROVE  Tells(<<m>>, v, w)
<1>1. Answers(<<m>>) /\ In(<<m>>) = {m}
  BY QueueOfOne, InOne DEF Answers
<1>2. w \in Views /\ Reaches(<<m>>, v, w)
  BY ReadType, ReachOne
<1> QED BY <1>1, <1>2 DEF Tells, Never

LEMMA TellsBoth ==
  ASSUME NEW s, NEW t, NEW u, NEW v, NEW w, Tells(s, u, v), Tells(t, v, w)
  PROVE  Tells(s \o t, u, w)
<1>1. In(s \o t) = In(s) \cup In(t) /\ Answers(s \o t)
  BY InConcat, ConcatProperties DEF Tells, Answers
<1>2. Reaches(s \o t, u, w)
  BY ReachBoth DEF Tells
<1> QED BY <1>1, <1>2 DEF Tells, Never

\* Who plays or watches is in the game; who came late waits for its end.
LEMMA Roles ==
  ASSUME IInv, NEW d \in Clients, Greeted(d), peer[d]
  PROVE  /\ cplaying[d] # 0 => spectating[d] = 1
         /\ d \in InGame <=> spectating[d] = 1
         /\ d \in Audience <=> spectating[d] # 0
         /\ state = "OFF" => spectating[d] # 2
         /\ mode[d] # "closed"
<1>1. mode[d] \in {"checking", "online"} /\ spectating[d] \in {0, 1, 2}
  BY DEF Greeted, IInv, ClientOK, ServerOK
<1>2. cplaying[d] # 0 => spectating[d] = 1
  BY <1>1 DEF Greeted
<1> QED BY <1>1, <1>2 DEF Greeted, InGame, Audience

LEMMA SeatedWatch ==
  ASSUME IInv, Books, NEW d \in Clients, Greeted(d), Owned(d) # {}
  PROVE  peer[d] /\ spectating[d] = 1
<1>1. cplaying[d] # 0
  BY NobodyOwned DEF Books, SeatsAccounted
<1> QED BY <1>1, Roles DEF Books

\* What the server sends keeps a client informed.
LEMMA MirrorSent ==
  ASSUME IInv, NEW d \in Clients, Mirrored(d), NEW out, Send(out), UNCHANGED clientVars,
         mode[d] # "closed" => \A w \in Views : Mirrors(d, w) =>
           \E w2 \in Views : Tells(out[d], w, w2) /\ Mirrors(d, w2)'
  PROVE  Mirrored(d)'
<1>1. UNCHANGED mode /\ View(d)' = View(d)
  BY DEF clientVars, View
<1> SUFFICES ASSUME mode[d] # "closed"
             PROVE  \E w \in Views : Reaches(toClient'[d], View(d), w) /\ Mirrors(d, w)'
  BY <1>1 DEF Mirrored
<1>2. PICK w \in Views : Reaches(toClient[d], View(d), w) /\ Mirrors(d, w)
  BY DEF Mirrored
<1>3. PICK w2 \in Views : Tells(out[d], w, w2) /\ Mirrors(d, w2)'
  BY <1>2
<1>4. toClient'[d] = toClient[d] \o out[d] /\ Answers(toClient[d])
  BY SentTo, Shapes
<1>5. Reaches(toClient[d] \o out[d], View(d), w2)
  BY <1>2, <1>3, <1>4, ReachBoth DEF Tells
<1> QED BY <1>3, <1>4, <1>5

\* ... and the handshake as it was.
LEMMA GreetedSent ==
  ASSUME IInv, NEW d \in Clients, Greeted(d), NEW out, Send(out), UNCHANGED <<clientVars, peer>>,
         mode[d] # "closed" =>
           Answers(out[d]) /\ Never(out[d], "CHECK_ID") /\ Never(out[d], "CHECK_ID_FAIL"),
         spectating[d] = 0 => /\ mode[d] # "closed" => out[d] = <<>>
                              /\ cplaying'[d] = cplaying[d] /\ toServer'[d] = toServer[d],
         In(toServer'[d]) \subseteq In(toServer[d]),
         spectating'[d] = 0 <=> spectating[d] = 0,
         spectating'[d] = 2 => cplaying'[d] = 0 /\ state' # "OFF"
  PROVE  Greeted(d)'
<1>1. UNCHANGED <<mode, cstate, peer>>
  BY DEF clientVars
<1>2. mode[d] = "closed" => toClient'[d] = toClient[d]
  BY DEF Send
<1>3. ASSUME mode[d] # "closed"
      PROVE  /\ In(toClient'[d]) = In(toClient[d]) \cup In(out[d])
             /\ spectating[d] = 0 => toClient'[d] = toClient[d]
  <2>1. toClient'[d] = toClient[d] \o out[d] /\ Answers(toClient[d]) /\ Answers(out[d])
    BY <1>3, SentTo, Shapes
  <2>2. In(toClient[d] \o out[d]) = In(toClient[d]) \cup In(out[d])
    BY <2>1, InConcat DEF Answers
  <2>3. toClient[d] \o <<>> = toClient[d]
    BY <2>1, ConcatEmptySeq DEF Answers
  <2>4. In(toClient'[d]) = In(toClient[d]) \cup In(out[d])
    BY <2>1, <2>2
  <2>5. out[d] = <<>> => toClient'[d] = toClient[d]
    BY <2>1, <2>3
  <2> QED BY <1>3, <2>4, <2>5
<1>4. Never(toClient'[d], "CHECK_ID_FAIL") /\ (mode[d] = "online" => Never(toClient'[d], "CHECK_ID"))
  BY <1>2, <1>3 DEF Greeted, Never
<1>5. /\ Never(toServer'[d], "LEAVE")
      /\ mode[d] = "online" => Never(toServer'[d], "CHECK_ID")
      /\ spectating[d] # 0 => Never(toServer'[d], "SPECTATE")
  BY DEF Greeted, Never
<1>6. ~peer[d] => toClient'[d] = toClient[d] /\ spectating'[d] = 0
  BY <1>2 DEF Greeted
<1>7. CASE spectating[d] = 0
  <2>1. toClient'[d] = toClient[d] /\ toServer'[d] = toServer[d] /\ cplaying'[d] = cplaying[d] /\ spectating'[d] = 0
    BY <1>2, <1>3, <1>7
  <2> QED BY <1>1, <1>7, <2>1 DEF Greeted
<1>8. CASE spectating[d] # 0
  BY <1>1, <1>4, <1>5, <1>6, <1>8 DEF Greeted
<1> QED BY <1>7, <1>8

-----------------------------------------------------------------------------
(* The server tells.                                                        *)

\* The server handles something else than CHECK_ID and SPECTATE.
LEMMA AgreeTold ==
  ASSUME IInv, AgreeInv, NEW c \in Clients, NEW t, Poll(c, t), t # "CHECK_ID", t # "SPECTATE",
         NEW out, Send(out), UNCHANGED <<clientVars, peer>>,
         \A d \in Clients : /\ spectating'[d] = 0 <=> spectating[d] = 0
                            /\ spectating'[d] = 2 => cplaying'[d] = 0 /\ state' # "OFF",
         \A d \in Clients : d # c /\ spectating[d] = 0 =>
           (peer[d] => out[d] = <<>>) /\ cplaying'[d] = cplaying[d],
         \A d \in Clients : peer[d] => \A w \in Views : Mirrors(d, w) =>
           \E w2 \in Views : Tells(out[d], w, w2) /\ Mirrors(d, w2)'
  PROVE  \A d \in Clients : Greeted(d)' /\ Mirrored(d)'
<1>1. /\ peer[c] /\ toServer[c] # <<>> /\ Head(toServer[c]).type = t
      /\ toServer'[c] = Tail(toServer[c])
      /\ \A d \in Clients : d # c => toServer'[d] = toServer[d]
  BY DEF Poll, Request1, IInv, RequestsOK
<1>2. In(Tail(toServer[c])) \subseteq In(toServer[c])
  BY <1>1, Shapes, Tails DEF Queue
<1>3. spectating[c] # 0
  <2>1. Head(<<Note("CHECK_ID")>>).type = "CHECK_ID"
    BY DEF Note
  <2>2. mode[c] # "checking"
    BY <1>1, <2>1 DEF AgreeInv, Greeted
  <2>3. mode[c] = "online"
    BY <1>1, <2>2, Roles DEF AgreeInv, IInv, ClientOK
  <2> QED BY <1>1, <2>3 DEF AgreeInv, Greeted
<1> SUFFICES ASSUME NEW d \in Clients
             PROVE  Greeted(d)' /\ Mirrored(d)'
  OBVIOUS
<1>4. Greeted(d) /\ Mirrored(d) /\ (mode[d] # "closed" => peer[d])
  BY DEF AgreeInv, Greeted
<1>5. Mirrored(d)'
  BY <1>4, MirrorSent
<1>6. ASSUME mode[d] # "closed"
      PROVE  Answers(out[d]) /\ Never(out[d], "CHECK_ID") /\ Never(out[d], "CHECK_ID_FAIL")
  <2>1. PICK w \in Views : Mirrors(d, w)
    BY <1>4, <1>6 DEF Mirrored
  <2> QED BY <1>4, <1>6, <2>1 DEF Tells
<1>7. In(toServer'[d]) \subseteq In(toServer[d])
  BY <1>1, <1>2
<1>8. spectating[d] = 0 => /\ mode[d] # "closed" => out[d] = <<>>
                           /\ cplaying'[d] = cplaying[d] /\ toServer'[d] = toServer[d]
  BY <1>1, <1>3, <1>4
<1>9. Greeted(d)'
  BY <1>4, <1>6, <1>7, <1>8, GreetedSent
<1> QED BY <1>5, <1>9

LEMMA MirrorsSame ==
  ASSUME NEW d, NEW w, UNCHANGED <<slot, cmaster, spectating, state>>
  PROVE  Mirrors(d, w)' <=> Mirrors(d, w)
  BY DEF Mirrors, Taken, Owned

\* START, PAUSE, RESUME and END.
LEMMA AgreePhase ==
  ASSUME IInv, AgreeInv, NEW c \in Clients, NEW t \in {"START", "PAUSE", "RESUME", "END"},
         Poll(c, t), NEW S, Send(Each(S, <<Note(t)>>)),
         UNCHANGED <<slot, cmaster, cplaying, peer, clientVars>>,
         state' = CASE t = "PAUSE" -> "PAUSED" [] t = "END" -> "OFF" [] OTHER -> "PLAYING",
         \A d \in Clients : peer[d] => (d \in S <=> spectating[d] = 1),
         \A d \in Clients : spectating'[d] = IF t = "END" /\ spectating[d] = 2 THEN 1
                                             ELSE spectating[d]
  PROVE  AgreeInv'
<1> DEFINE out == Each(S, <<Note(t)>>)
<1>1. /\ Note(t) \in ToClientMessage /\ Note(t).type = t
      /\ t \notin {"CHECK_ID", "CHECK_ID_FAIL", "SPECTATE"}
  BY Replies DEF Note
<1>2. \A d \in Clients : out[d] = IF d \in S THEN <<Note(t)>> ELSE <<>>
  BY DEF Each
<1>3. Send(out)
  OBVIOUS
<1> HIDE DEF out
<1>4. \A d \in Clients : /\ Greeted(d) /\ spectating[d] \in {0, 1, 2}
                         /\ ~peer[d] => spectating[d] = 0
  BY DEF AgreeInv, Greeted, IInv, ServerOK
<1>5. ASSUME NEW d \in Clients
      PROVE  /\ spectating'[d] = 0 <=> spectating[d] = 0
             /\ spectating'[d] = 2 => cplaying'[d] = 0 /\ state' # "OFF"
  BY <1>4 DEF Greeted
<1>6. ASSUME NEW d \in Clients, peer[d], NEW w \in Views, Mirrors(d, w)
      PROVE  \E w2 \in Views : Tells(out[d], w, w2) /\ Mirrors(d, w2)'
  <2>1. UNCHANGED <<slot, cmaster>> /\ Taken' = Taken /\ Owned(d)' = Owned(d)
    BY DEF Taken, Owned
  <2>2. CASE spectating[d] = 1
    <3> DEFINE w2 == Read(Note(t), w)
    <3>1. out[d] = <<Note(t)>> /\ Tells(<<Note(t)>>, w, w2)
      BY <1>1, <1>2, <1>6, <2>2, TellsOne
    <3>2. w2 = [w EXCEPT !.phase = state']
      BY <1>1 DEF Read
    <3>3. /\ w2.port = w.port /\ w2.master = w.master /\ w2.roster = w.roster
          /\ w2.locals = w.locals /\ w2.phase = state'
      BY <3>2 DEF Views
    <3> HIDE DEF w2
    <3>4. Mirrors(d, w2)'
      BY <1>6, <2>1, <2>2, <3>3 DEF Mirrors
    <3>5. w2 \in Views
      BY <3>1 DEF Tells
    <3> QED BY <3>1, <3>4, <3>5
  <2>3. CASE spectating[d] # 1
    <3>1. out[d] = <<>> /\ Tells(<<>>, w, w)
      BY <1>2, <1>6, <2>3, TellsNothing
    <3>2. spectating'[d] = 1 => state' = "OFF"
      BY <2>3
    <3>3. Mirrors(d, w)'
      BY <1>4, <1>5, <1>6, <2>1, <2>3, <3>2 DEF Mirrors
    <3> QED BY <3>1, <3>3
  <2> QED BY <2>2, <2>3
<1>7. \A d \in Clients : d # c /\ spectating[d] = 0 =>
        (peer[d] => out[d] = <<>>) /\ cplaying'[d] = cplaying[d]
  BY <1>2, <1>4
<1>8. \A d \in Clients : Greeted(d)' /\ Mirrored(d)'
  BY <1>1, <1>3, <1>5, <1>6, <1>7, AgreeTold
<1>9. HasMaster'
  BY DEF AgreeInv, HasMaster, Taken
<1> QED BY <1>8, <1>9 DEF AgreeInv

LEMMA AgreePhases ==
  ASSUME IInv, AgreeInv, NEW c \in Clients,
         HandleStart(c) \/ HandlePause(c) \/ HandleResume(c) \/ HandleEnd(c)
  PROVE  AgreeInv'
<1>1. \A d \in Clients : peer[d] => /\ d \in InGame <=> spectating[d] = 1
                                    /\ d \in Audience <=> spectating[d] # 0
                                    /\ state = "OFF" => spectating[d] # 2
  BY Roles DEF AgreeInv
<1>2. \A d \in Clients : spectating[d] \in {0, 1, 2}
  BY DEF IInv, ServerOK
<1>3. ASSUME NEW t \in {"START", "PAUSE", "RESUME", "END"}, Poll(c, t), UNCHANGED toClient,
             UNCHANGED <<state, slot, player_count, peer, cplaying, cmaster, spectating, clientVars>>
      PROVE  AgreeInv'
  <2> DEFINE out == Each({}, <<>>)
  <2>1. Send(out) /\ \A d \in Clients : out[d] = <<>>
    BY <1>3, SentNothing DEF IInv, Each
  <2> HIDE DEF out
  <2>2. \A d \in Clients : spectating[d] = 2 => cplaying[d] = 0 /\ state # "OFF"
    BY DEF AgreeInv, Greeted
  <2>3. ASSUME NEW d \in Clients, NEW w \in Views, Mirrors(d, w)
        PROVE  \E w2 \in Views : Tells(out[d], w, w2) /\ Mirrors(d, w2)'
    BY <1>3, <2>1, <2>3, MirrorsSame, TellsNothing
  <2>4. \A d \in Clients : Greeted(d)' /\ Mirrored(d)'
    BY <1>3, <2>1, <2>2, <2>3, AgreeTold
  <2>5. HasMaster'
    BY <1>3 DEF AgreeInv, HasMaster, Taken
  <2> QED BY <2>4, <2>5 DEF AgreeInv
<1>4. CASE HandleStart(c)
  <2>1. CASE state = "OFF"
    BY <1>1, <1>2, <1>4, <2>1, AgreePhase DEF HandleStart, Advance
  <2>2. CASE state # "OFF"
    BY <1>3, <1>4, <2>2 DEF HandleStart, Advance
  <2> QED BY <2>1, <2>2
<1>5. CASE HandlePause(c)
  <2>1. CASE state = "PLAYING"
    BY <1>1, <1>2, <1>5, <2>1, AgreePhase DEF HandlePause, Advance
  <2>2. CASE state # "PLAYING"
    BY <1>3, <1>5, <2>2 DEF HandlePause, Advance
  <2> QED BY <2>1, <2>2
<1>6. CASE HandleResume(c)
  <2>1. CASE state = "PAUSED"
    BY <1>1, <1>2, <1>6, <2>1, AgreePhase DEF HandleResume, Advance
  <2>2. CASE state # "PAUSED"
    BY <1>3, <1>6, <2>2 DEF HandleResume, Advance
  <2> QED BY <2>1, <2>2
<1>7. CASE HandleEnd(c)
  <2>1. CASE state = "OFF"
    BY <1>3, <1>7, <2>1 DEF HandleEnd
  <2>2. CASE state # "OFF"
    BY <1>1, <1>2, <1>7, <2>2, AgreePhase DEF HandleEnd
  <2> QED BY <2>1, <2>2
<1> QED BY <1>4, <1>5, <1>6, <1>7

\* What a client takes no notice of.
LEMMA AgreeRefuse ==
  ASSUME IInv, AgreeInv, NEW c \in Clients, RefuseConnect(c)
  PROVE  AgreeInv'
<1> DEFINE m == Note("CONNECT_FAIL")
           out == Only(c, <<m>>)
<1>1. m \in ToClientMessage /\ m.type = "CONNECT_FAIL"
  BY Replies DEF Note
<1>2. /\ Poll(c, "CONNECT") /\ Send(out) /\ UNCHANGED <<clientVars, slot, cmaster, spectating, state, peer, cplaying>>
      /\ \A d \in Clients : out[d] = IF d = c THEN <<m>> ELSE <<>>
  BY DEF RefuseConnect, serverVars, Only
<1> HIDE DEF out, m
<1>3. ASSUME NEW d \in Clients, NEW w \in Views, Mirrors(d, w)
      PROVE  Tells(out[d], w, w) /\ Mirrors(d, w)'
  <2>1. Read(m, w) = w
    BY <1>1 DEF Read
  <2>2. Tells(<<m>>, w, w)
    BY <1>1, <2>1, TellsOne
  <2> QED BY <1>2, <1>3, <2>2, TellsNothing, MirrorsSame
<1>4. \A d \in Clients : spectating[d] = 2 => cplaying[d] = 0 /\ state # "OFF"
  BY DEF AgreeInv, Greeted
<1>5. \A d \in Clients : Greeted(d)' /\ Mirrored(d)'
  BY <1>2, <1>3, <1>4, AgreeTold
<1>6. HasMaster'
  BY <1>2 DEF AgreeInv, HasMaster, Taken
<1> QED BY <1>5, <1>6 DEF AgreeInv

\* The answers to CONNECT: the seat is c's in its own eyes too.
LEMMA SeatRead ==
  ASSUME SlotsOK, NEW c \in Clients, NEW k \in Controllers, NEW p \in Players,
         slot[p] = Free, \A q \in Players : slot[q] # <<c, k>>,
         slot' = [slot EXCEPT ![p] = <<c, k>>],
         state = "OFF", state' = state, spectating[c] = 1, spectating'[c] = spectating[c],
         NEW crowned \in BOOLEAN, cmaster'[c] = (cmaster[c] \/ crowned),
         NEW w \in Views, Mirrors(c, w)
  PROVE  \E w2 \in Views :
           /\ Tells(<<Request("CONNECT", k, p)>> \o (IF crowned THEN <<Note("ASSIGN_MASTER")>> ELSE <<>>)
                      \o <<About("ADD_PLAYER", Taken \cup {p})>>, w, w2)
           /\ Mirrors(c, w2)'
<1> DEFINE seat == Request("CONNECT", k, p)
           crown == Note("ASSIGN_MASTER")
           add == About("ADD_PLAYER", Taken \cup {p})
           crowns == IF crowned THEN <<crown>> ELSE <<>>
           w1 == Seated(w, seat)
           w2 == IF crowned THEN [w1 EXCEPT !.master = TRUE] ELSE w1
           w3 == Added(w2, add)
<1>1. /\ seat \in ToClientMessage /\ seat.type = "CONNECT" /\ seat.ctrl = k /\ seat.player = p
      /\ crown \in ToClientMessage /\ crown.type = "ASSIGN_MASTER"
      /\ add \in ToClientMessage /\ add.type = "ADD_PLAYER" /\ add.players = Taken \cup {p}
  <2>1. Taken \cup {p} \in SUBSET Players
    BY TakenPlayers
  <2> QED BY <2>1, Replies DEF Request, Note, About
<1> HIDE DEF seat, crown, add
<1>2. Tells(<<seat>>, w, w1)
  BY <1>1, TellsOne DEF Read
<1>3. w1 \in Views
  BY <1>2 DEF Tells
<1>4. Tells(crowns, w1, w2)
  <2>1. Read(crown, w1) = [w1 EXCEPT !.master = TRUE]
    BY <1>1 DEF Read
  <2>2. Tells(<<crown>>, w1, [w1 EXCEPT !.master = TRUE])
    BY <1>1, <1>3, <2>1, TellsOne
  <2> QED BY <1>3, <2>2, TellsNothing
<1>5. Tells(<<add>>, w2, w3)
  <2>1. w2 \in Views
    BY <1>4 DEF Tells
  <2>2. Read(add, w2) = w3
    BY <1>1 DEF Read
  <2> HIDE DEF w2, w3
  <2> QED BY <1>1, <2>1, <2>2, TellsOne
<1>6. w.phase = "OFF" /\ w.roster = Taken /\ w.roster \cap w.locals = Owned(c) /\ w.master = cmaster[c]
      /\ \A j \in Controllers, q \in Players : w.port[j] = q <=> slot[q] = <<c, j>>
  BY DEF Mirrors
<1>7. /\ w1.port = [w.port EXCEPT ![k] = p] /\ w1.roster = w.roster /\ w1.locals = w.locals
      /\ w1.phase = "OFF" /\ w1.master = w.master
  BY <1>1, <1>6 DEF Seated, Views
<1>8. /\ w2.port = w1.port /\ w2.roster = w.roster /\ w2.locals = w.locals /\ w2.phase = "OFF"
      /\ w2.master = cmaster'[c]
  BY <1>3, <1>6, <1>7 DEF Views
<1>9. w2 \in Views
  BY <1>4 DEF Tells
<1> HIDE DEF w1, w2
<1>10. /\ w3.port = w2.port /\ w3.phase = w2.phase /\ w3.master = w2.master
       /\ w3.roster = Taken \cup {p}
       /\ w3.locals = (w.locals \ ((Taken \cup {p}) \ Taken))
                        \cup (((Taken \cup {p}) \ Taken) \cap Seats(w2))
  BY <1>1, <1>6, <1>8, <1>9 DEF Added, Views
<1> HIDE DEF w3
<1>11. p \in Seats(w2) /\ p \notin Taken
  BY <1>7, <1>8 DEF Seats, Views, Players, Unplugged, Taken
<1>12. w3.roster \cap w3.locals = Owned(c) \cup {p}
  <2>1. (Taken \cup {p}) \ Taken = {p}
    BY <1>11
  <2>2. w3.locals = (w.locals \ {p}) \cup {p}
    BY <1>10, <1>11, <2>1
  <2> QED BY <1>6, <1>10, <1>11, <2>2
<1>13. Owned(c)' = Owned(c) \cup {p} /\ Taken' = Taken \cup {p}
  <2>1. Owned(c)' = Owned(c) \cup {p}
    BY OwnedAfterSeat
  <2>2. <<c, k>> # Free
    BY ConstantsAssumption
  <2> QED BY <2>1, <2>2 DEF Taken, SlotsOK
<1>14. \A j \in Controllers, q \in Players : w3.port[j] = q <=> slot'[q] = <<c, j>>
  BY <1>6, <1>7, <1>8, <1>10, ConstantsAssumption DEF SlotsOK, Views
<1>15. PICK v \in Views : v = w3
  BY <1>5 DEF Tells
<1>16. Mirrors(c, v)'
  BY <1>8, <1>10, <1>12, <1>13, <1>14, <1>15 DEF Mirrors
<1>17. Tells(<<seat>> \o crowns \o <<add>>, w, w3)
  <2>1. Tells(<<seat>> \o crowns, w, w2)
    BY <1>2, <1>4, TellsBoth
  <2> HIDE DEF crowns
  <2> QED BY <1>5, <2>1, TellsBoth
<1> QED BY <1>15, <1>16, <1>17 DEF seat, crown, add

\* ... and nobody else's.
LEMMA OtherSeated ==
  ASSUME SlotsOK, NEW c \in Clients, NEW k \in Controllers, NEW p \in Players,
         slot[p] = Free, slot' = [slot EXCEPT ![p] = <<c, k>>],
         NEW d \in Clients, d # c, UNCHANGED <<state, spectating>>, cmaster'[d] = cmaster[d],
         NEW w \in Views, Mirrors(d, w)
  PROVE  /\ spectating[d] = 0 => Mirrors(d, w)'
         /\ spectating[d] # 0 => \E w2 \in Views : Tells(<<About("ADD_PLAYER", {p})>>, w, w2)
                                                 /\ Mirrors(d, w2)'
<1>1. <<c, k>> # Free /\ \A j \in Controllers : <<d, j>> # <<c, k>> /\ <<d, j>> # Free
  BY ConstantsAssumption
<1>2. \A j \in Controllers, q \in Players : slot'[q] = <<d, j>> <=> slot[q] = <<d, j>>
  BY <1>1 DEF SlotsOK
<1>3. Owned(d)' = Owned(d) /\ Taken' = Taken \cup {p} /\ p \notin Taken
  <2>1. Owned(d)' = Owned(d)
    BY OwnedAfterSeat
  <2> QED BY <1>1, <2>1 DEF Taken, SlotsOK
<1>4. CASE spectating[d] = 0
  BY <1>2, <1>4 DEF Mirrors
<1>5. CASE spectating[d] # 0
  <2> DEFINE add == About("ADD_PLAYER", {p})
             w3 == Added(w, add)
  <2>1. add \in ToClientMessage /\ add.type = "ADD_PLAYER" /\ add.players = {p}
    <3>1. {p} \in SUBSET Players
      OBVIOUS
    <3> QED BY <3>1, Replies DEF About
  <2> HIDE DEF add
  <2>2. Read(add, w) = w3
    BY <2>1 DEF Read
  <2>3. w.roster = Taken /\ w.roster \cap w.locals = Owned(d)
        /\ \A j \in Controllers, q \in Players : w.port[j] = q <=> slot[q] = <<d, j>>
    BY <1>5 DEF Mirrors
  <2>4. p \notin Seats(w)
    BY <2>3, <1>1 DEF Seats
  <2>5. {p} \ Taken = {p} /\ {p} \cap Seats(w) = {}
    BY <1>3, <2>4
  <2>6. /\ w3.port = w.port /\ w3.phase = w.phase /\ w3.master = w.master
        /\ w3.roster = Taken \cup {p} /\ w3.locals = w.locals \ {p}
    BY <2>1, <2>3, <2>5 DEF Added, Views
  <2> HIDE DEF w3
  <2>7. Tells(<<add>>, w, w3)
    BY <2>1, <2>2, TellsOne
  <2>8. PICK v \in Views : v = w3
    BY <2>7 DEF Tells
  <2>9. v.roster \cap v.locals = Owned(d)
    BY <1>3, <2>3, <2>6, <2>8
  <2>10. Mirrors(d, v)'
    BY <1>2, <1>3, <1>5, <2>6, <2>8, <2>9 DEF Mirrors
  <2> QED BY <1>5, <2>7, <2>8, <2>10 DEF add
<1> QED BY <1>4, <1>5

LEMMA AgreeConnect ==
  ASSUME IInv, Books, AgreeInv, NEW c \in Clients, HandleConnect(c)
  PROVE  AgreeInv'
<1> DEFINE k == Request1(c).ctrl
           p == Seat(Request1(c))
           crowned == player_count = 0
           mine == <<Request("CONNECT", k, p)>>
                     \o (IF crowned THEN <<Note("ASSIGN_MASTER")>> ELSE <<>>)
                     \o <<About("ADD_PLAYER", Taken \cup {p})>>
           theirs == <<About("ADD_PLAYER", {p})>>
           out == [d \in Clients |-> IF d = c THEN mine
                                     ELSE IF d \in Audience THEN theirs ELSE <<>>]
<1>1. /\ k \in Controllers /\ p \in Players /\ slot[p] = Free
      /\ \A q \in Players : slot[q] # <<c, k>>
      /\ slot' = [slot EXCEPT ![p] = <<c, k>>] /\ state = "OFF"
  BY ConnectParts DEF IInv
<1>2. /\ Poll(c, "CONNECT") /\ Send(out) /\ UNCHANGED <<peer, clientVars, state, spectating>>
      /\ \A d \in Clients : d # c => cplaying'[d] = cplaying[d] /\ cmaster'[d] = cmaster[d]
      /\ cmaster'[c] = (cmaster[c] \/ crowned) /\ crowned \in BOOLEAN
  BY DEF HandleConnect, IInv, ServerOK
<1>3. \A d \in Clients : Greeted(d) /\ spectating[d] \in {0, 1, 2}
  BY DEF AgreeInv, IInv, ServerOK
<1>4. peer[c]
  BY <1>2 DEF Poll
<1>5. \A d \in Clients : spectating[d] # 2
  BY <1>1, <1>3 DEF Greeted
<1>6. spectating[c] = 1
  <2>1. Head(toServer[c]).type = "CONNECT" /\ toServer[c] # <<>>
    BY <1>2 DEF Poll, Request1
  <2>2. Head(<<Note("CHECK_ID")>>).type = "CHECK_ID"
    BY DEF Note
  <2>3. mode[c] # "checking" /\ mode[c] # "closed"
    BY <1>3, <1>4, <2>1, <2>2 DEF Greeted
  <2>4. mode[c] = "online"
    BY <2>3 DEF IInv, ClientOK
  <2>5. spectating[c] # 0
    BY <1>3, <2>1, <2>4 DEF Greeted
  <2> QED BY <1>3, <1>5, <2>5
<1>7. out[c] = mine
      /\ \A d \in Clients : d # c => out[d] = IF d \in Audience THEN theirs ELSE <<>>
  OBVIOUS
<1>8. SlotsOK
  BY DEF IInv, ServerOK
<1> HIDE DEF k, p, crowned, out
<1>9. ASSUME NEW w \in Views, Mirrors(c, w)
      PROVE  \E w2 \in Views : Tells(out[c], w, w2) /\ Mirrors(c, w2)'
  <2>1. state' = state /\ spectating'[c] = spectating[c]
    BY <1>2
  <2>2. \E w2 \in Views : Tells(mine, w, w2) /\ Mirrors(c, w2)'
    BY <1>1, <1>2, <1>6, <1>8, <1>9, <2>1, SeatRead
  <2> HIDE DEF mine
  <2> QED BY <1>7, <2>2
<1> HIDE DEF mine
<1>10. ASSUME NEW d \in Clients, d # c, peer[d], NEW w \in Views, Mirrors(d, w)
       PROVE  \E w2 \in Views : Tells(out[d], w, w2) /\ Mirrors(d, w2)'
  <2>1. /\ spectating[d] = 0 => Mirrors(d, w)'
        /\ spectating[d] # 0 => \E w2 \in Views : Tells(theirs, w, w2) /\ Mirrors(d, w2)'
    BY <1>1, <1>2, <1>8, <1>10, OtherSeated
  <2>2. d \in Audience <=> spectating[d] # 0
    BY <1>3, <1>10, Roles
  <2> HIDE DEF theirs
  <2> QED BY <1>7, <1>10, <2>1, <2>2, TellsNothing
<1>11. ASSUME NEW d \in Clients, d # c, spectating[d] = 0
       PROVE  (peer[d] => out[d] = <<>>) /\ cplaying'[d] = cplaying[d]
  BY <1>2, <1>3, <1>7, <1>11, Roles
<1>12. \A d \in Clients : Greeted(d)' /\ Mirrored(d)'
  <2>1. \A d \in Clients : /\ spectating'[d] = 0 <=> spectating[d] = 0
                           /\ spectating'[d] = 2 => cplaying'[d] = 0 /\ state' # "OFF"
    BY <1>2, <1>5
  <2>2. \A d \in Clients : peer[d] => \A w \in Views : Mirrors(d, w) =>
          \E w2 \in Views : Tells(out[d], w, w2) /\ Mirrors(d, w2)'
    BY <1>9, <1>10
  <2> QED BY <1>2, <1>11, <2>1, <2>2, AgreeTold
<1>13. HasMaster'
  <2>1. CASE crowned
    BY <1>2, <2>1 DEF HasMaster
  <2>2. CASE ~crowned
    <3>1. Taken # {}
      BY <2>2, FS_EmptySet DEF crowned, IInv, ServerOK, CountIsRoster
    <3>2. PICK d \in Clients : cmaster[d]
      BY <3>1 DEF AgreeInv, HasMaster
    <3>3. cmaster'[d]
      BY <1>2, <3>2
    <3> QED BY <3>3 DEF HasMaster
  <2> QED BY <2>1, <2>2
<1> QED BY <1>12, <1>13 DEF AgreeInv

LEMMA TellsRemoved ==
  ASSUME NEW p \in Players, NEW w \in Views
  PROVE  \E w2 \in Views :
           /\ Tells(<<About("REMOVE_PLAYER", {p})>>, w, w2)
           /\ w2.port = w.port /\ w2.phase = w.phase /\ w2.master = w.master
           /\ w2.roster = w.roster \ {p} /\ w2.locals = w.locals
<1> DEFINE m == About("REMOVE_PLAYER", {p})
           w2 == [w EXCEPT !.roster = w.roster \ {p}]
<1>1. m \in ToClientMessage /\ m.type = "REMOVE_PLAYER" /\ m.players = {p}
  <2>1. {p} \in SUBSET Players
    OBVIOUS
  <2> QED BY <2>1, Replies DEF About
<1> HIDE DEF m
<1>2. Read(m, w) = w2
  BY <1>1 DEF Read
<1>3. /\ w2.port = w.port /\ w2.phase = w.phase /\ w2.master = w.master
      /\ w2.roster = w.roster \ {p} /\ w2.locals = w.locals
  BY DEF Views
<1> HIDE DEF w2
<1>4. Tells(<<m>>, w, w2)
  BY <1>1, <1>2, TellsOne
<1>5. w2 \in Views
  BY <1>4 DEF Tells
<1> QED BY <1>3, <1>4, <1>5 DEF m

LEMMA TellsCrown ==
  ASSUME NEW w \in Views, NEW crowned \in BOOLEAN
  PROVE  \E w2 \in Views :
           /\ Tells(IF crowned THEN <<Note("ASSIGN_MASTER")>> ELSE <<>>, w, w2)
           /\ w2.port = w.port /\ w2.phase = w.phase /\ w2.master = (w.master \/ crowned)
           /\ w2.roster = w.roster /\ w2.locals = w.locals
<1> DEFINE m == Note("ASSIGN_MASTER")
           w2 == [w EXCEPT !.master = TRUE]
<1>1. m \in ToClientMessage /\ m.type = "ASSIGN_MASTER"
  BY Replies DEF Note
<1> HIDE DEF m
<1>2. Read(m, w) = w2
  BY <1>1 DEF Read
<1>3. /\ w2.port = w.port /\ w2.phase = w.phase /\ w2.master = TRUE
      /\ w2.roster = w.roster /\ w2.locals = w.locals
  BY DEF Views
<1> HIDE DEF w2
<1>4. Tells(<<m>>, w, w2)
  BY <1>1, <1>2, TellsOne
<1>5. w2 \in Views
  BY <1>4 DEF Tells
<1>6. CASE crowned
  BY <1>3, <1>4, <1>5, <1>6 DEF m
<1>7. CASE ~crowned
  <2>1. w.master \in BOOLEAN
    BY DEF Views
  <2> QED BY <1>7, <2>1, TellsNothing
<1> QED BY <1>6, <1>7

LEMMA TellsUnseated ==
  ASSUME NEW k \in Controllers, NEW w \in Views
  PROVE  \E w2 \in Views :
           /\ Tells(<<Request("DISCONNECT", k, -1)>>, w, w2)
           /\ w2.port = [w.port EXCEPT ![k] = Unplugged] /\ w2.phase = w.phase
           /\ w2.master = (w.master /\ \E j \in Controllers \ {k} : w.port[j] # Unplugged)
           /\ w2.roster = w.roster /\ w2.locals = w.locals
<1> DEFINE m == Request("DISCONNECT", k, -1)
           w2 == Unseated(w, m)
<1>1. m \in ToClientMessage /\ m.type = "DISCONNECT" /\ m.ctrl = k
  BY Replies DEF Request
<1> HIDE DEF m
<1>2. Read(m, w) = w2
  BY <1>1 DEF Read
<1>3. /\ w2.port = [w.port EXCEPT ![k] = Unplugged] /\ w2.phase = w.phase
      /\ w2.master = (w.master /\ \E j \in Controllers \ {k} : w.port[j] # Unplugged)
      /\ w2.roster = w.roster /\ w2.locals = w.locals
  BY <1>1 DEF Unseated, Views
<1> HIDE DEF w2
<1>4. Tells(<<m>>, w, w2)
  BY <1>1, <1>2, TellsOne
<1>5. w2 \in Views
  BY <1>4 DEF Tells
<1> QED BY <1>3, <1>4, <1>5 DEF m

\* What freeing slot p does to who holds what.
LEMMA AfterFree ==
  ASSUME SlotsOK, NEW p \in Players, slot' = [slot EXCEPT ![p] = Free], NEW d \in Clients
  PROVE  /\ Taken' = Taken \ {p} /\ Owned(d)' = Owned(d) \ {p}
         /\ \A j \in Controllers, q \in Players :
              slot'[q] = <<d, j>> <=> slot[q] = <<d, j>> /\ q # p
<1>1. Taken' = Taken \ {p} /\ Owned(d)' = Owned(d) \ {p}
  BY DEF Taken, Owned, SlotsOK
<1>2. \A j \in Controllers : <<d, j>> # Free
  BY ConstantsAssumption
<1>3. \A j \in Controllers, q \in Players :
        slot'[q] = <<d, j>> <=> slot[q] = <<d, j>> /\ q # p
  BY <1>2 DEF SlotsOK
<1> QED BY <1>1, <1>3

\* A slot and who owns it.
LEMMA OwnedBy ==
  ASSUME SlotsOK, NEW d \in Clients, NEW q
  PROVE  q \in Owned(d) <=> q \in Players /\ \E j \in Controllers : slot[q] = <<d, j>>
<1>1. \A j \in Controllers : <<d, j>> # Free
  BY ConstantsAssumption
<1> QED BY <1>1 DEF Owned, Taken, SlotsOK

\* The answer to DISCONNECT: c leaves the seat, and is master no more if it
\* was the last.
LEMMA SeatLeftRead ==
  ASSUME SlotsOK, NEW c \in Clients, NEW k \in Controllers, NEW p \in Players,
         slot[p] = <<c, k>>, slot' = [slot EXCEPT ![p] = Free],
         state' = state, spectating[c] = 1, spectating'[c] = spectating[c],
         cmaster'[c] = (cmaster[c] /\ ~(Owned(c) \subseteq {p})),
         NEW w \in Views, Mirrors(c, w)
  PROVE  \E w2 \in Views :
           /\ Tells(<<Request("DISCONNECT", k, -1)>> \o <<>> \o <<About("REMOVE_PLAYER", {p})>>, w, w2)
           /\ Mirrors(c, w2)'
<1> DEFINE last == <<About("REMOVE_PLAYER", {p})>>
           first == <<Request("DISCONNECT", k, -1)>>
<1>1. /\ \A j \in Controllers, q \in Players : w.port[j] = q <=> slot[q] = <<c, j>>
      /\ w.master = cmaster[c] /\ w.phase = state
      /\ w.roster = Taken /\ w.roster \cap w.locals = Owned(c)
      /\ w.port \in [Controllers -> Players \cup {Unplugged}]
  BY DEF Mirrors, Views
<1>2. PICK w1 \in Views :
        /\ Tells(first, w, w1)
        /\ w1.port = [w.port EXCEPT ![k] = Unplugged] /\ w1.phase = w.phase
        /\ w1.master = (w.master /\ \E j \in Controllers \ {k} : w.port[j] # Unplugged)
        /\ w1.roster = w.roster /\ w1.locals = w.locals
  BY TellsUnseated
<1>3. PICK w2 \in Views :
        /\ Tells(last, w1, w2)
        /\ w2.port = w1.port /\ w2.phase = w1.phase /\ w2.master = w1.master
        /\ w2.roster = w1.roster \ {p} /\ w2.locals = w1.locals
  BY TellsRemoved
<1> HIDE DEF first, last
<1>4. Tells(first \o <<>> \o last, w, w2)
  <2>1. Tells(first \o <<>>, w, w1)
    BY <1>2, TellsNothing, TellsBoth
  <2> QED BY <1>3, <2>1, TellsBoth
<1>5. /\ Taken' = Taken \ {p} /\ Owned(c)' = Owned(c) \ {p}
      /\ \A j \in Controllers, q \in Players :
           slot'[q] = <<c, j>> <=> slot[q] = <<c, j>> /\ q # p
  BY AfterFree
<1>6. (\E j \in Controllers \ {k} : w.port[j] # Unplugged) <=> ~(Owned(c) \subseteq {p})
  <2>1. ASSUME NEW j \in Controllers \ {k}, w.port[j] # Unplugged
        PROVE  w.port[j] \in Owned(c) \ {p}
    <3>1. w.port[j] \in Players /\ slot[w.port[j]] = <<c, j>>
      BY <1>1, <2>1
    <3>2. w.port[j] # p
      BY <2>1, <3>1
    <3> QED BY <3>1, <3>2, OwnedBy
  <2>2. ASSUME NEW q \in Owned(c), q # p
        PROVE  \E j \in Controllers \ {k} : w.port[j] # Unplugged
    <3>1. PICK j \in Controllers : slot[q] = <<c, j>> /\ q \in Players
      BY OwnedBy
    <3>2. w.port[j] = q /\ w.port[k] = p
      BY <1>1, <3>1
    <3> QED BY <2>2, <3>1, <3>2 DEF Players, Unplugged
  <2> QED BY <2>1, <2>2
<1>7. \A j \in Controllers, q \in Players : w2.port[j] = q <=> slot'[q] = <<c, j>>
  <2> SUFFICES ASSUME NEW j \in Controllers, NEW q \in Players
               PROVE  w2.port[j] = q <=> slot[q] = <<c, j>> /\ q # p
    BY <1>5
  <2>1. CASE j = k
    <3>1. w2.port[j] = Unplugged /\ q # Unplugged
      BY <1>1, <1>2, <1>3, <2>1 DEF Players, Unplugged
    <3>2. slot[q] = <<c, j>> => q = p
      BY <1>1, <2>1
    <3> QED BY <3>1, <3>2
  <2>2. CASE j # k
    <3>1. w2.port[j] = w.port[j]
      BY <1>1, <1>2, <1>3, <2>2
    <3>2. slot[q] = <<c, j>> => q # p
      BY <2>2
    <3> QED BY <1>1, <3>1, <3>2
  <2> QED BY <2>1, <2>2
<1>8. w2.roster \cap w2.locals = Owned(c) \ {p}
  BY <1>1, <1>2, <1>3
<1>9. w2.master = cmaster'[c]
  BY <1>1, <1>2, <1>3, <1>6
<1>10. Mirrors(c, w2)'
  BY <1>1, <1>2, <1>3, <1>5, <1>7, <1>8, <1>9 DEF Mirrors
<1> QED BY <1>4, <1>10 DEF first, last

\* What others are told of it.
LEMMA OtherUnseated ==
  ASSUME SlotsOK, NEW p \in Players, slot' = [slot EXCEPT ![p] = Free],
         NEW d \in Clients, \A j \in Controllers : slot[p] # <<d, j>>,
         UNCHANGED <<state, spectating>>,
         NEW crowned \in BOOLEAN, cmaster'[d] = (cmaster[d] \/ crowned),
         crowned => spectating[d] # 0,
         NEW w \in Views, Mirrors(d, w)
  PROVE  \E w2 \in Views :
           /\ Tells(<<>> \o (IF crowned THEN <<Note("ASSIGN_MASTER")>> ELSE <<>>)
                      \o (IF spectating[d] # 0 THEN <<About("REMOVE_PLAYER", {p})>> ELSE <<>>), w, w2)
           /\ Mirrors(d, w2)'
<1> DEFINE crown == IF crowned THEN <<Note("ASSIGN_MASTER")>> ELSE <<>>
           last == IF spectating[d] # 0 THEN <<About("REMOVE_PLAYER", {p})>> ELSE <<>>
<1>1. PICK w1 \in Views :
        /\ Tells(crown, w, w1)
        /\ w1.port = w.port /\ w1.phase = w.phase /\ w1.master = (w.master \/ crowned)
        /\ w1.roster = w.roster /\ w1.locals = w.locals
  BY TellsCrown
<1>2. PICK w2 \in Views :
        /\ Tells(last, w1, w2)
        /\ w2.port = w1.port /\ w2.phase = w1.phase /\ w2.master = w1.master
        /\ w2.roster = (IF spectating[d] # 0 THEN w1.roster \ {p} ELSE w1.roster)
        /\ w2.locals = w1.locals
  BY TellsRemoved, TellsNothing
<1> HIDE DEF crown, last
<1>3. Tells(<<>> \o crown \o last, w, w2)
  <2>1. Tells(<<>> \o crown, w, w1)
    BY <1>1, TellsNothing, TellsBoth
  <2> QED BY <1>2, <2>1, TellsBoth
<1>4. /\ Taken' = Taken \ {p} /\ Owned(d)' = Owned(d) \ {p}
      /\ \A j \in Controllers, q \in Players :
           slot'[q] = <<d, j>> <=> slot[q] = <<d, j>> /\ q # p
  BY AfterFree
<1>5. \A j \in Controllers, q \in Players : w2.port[j] = q <=> slot'[q] = <<d, j>>
  BY <1>1, <1>2, <1>4 DEF Mirrors
<1>6. w2.master = cmaster'[d]
  BY <1>1, <1>2 DEF Mirrors
<1>7. Mirrors(d, w2)'
  BY <1>1, <1>2, <1>4, <1>5, <1>6 DEF Mirrors
<1> QED BY <1>3, <1>7 DEF crown, last

LEMMA AgreeDisconnect ==
  ASSUME IInv, SeatInv, AgreeInv, NEW c \in Clients, HandleDisconnect(c)
  PROVE  AgreeInv'
<1> DEFINE k == Request1(c).ctrl
           p == Request1(c).player
           unmaster == cmaster[c] /\ Owned(c) \subseteq {p}
           heirs == IF unmaster THEN Heirs({p}) ELSE {}
           left(d) == IF d = c THEN <<Request("DISCONNECT", k, -1)>> ELSE <<>>
           crown(d) == IF d \in heirs THEN <<Note("ASSIGN_MASTER")>> ELSE <<>>
           removed(d) == IF d \in Audience THEN <<About("REMOVE_PLAYER", {p})>> ELSE <<>>
           out == [d \in Clients |-> left(d) \o crown(d) \o removed(d)]
<1>1. k \in Controllers /\ p \in Players
  BY Polled, RequestParts DEF HandleDisconnect, IInv
<1>2. /\ Poll(c, "DISCONNECT") /\ Send(out) /\ UNCHANGED <<peer, state, spectating, clientVars>>
      /\ slot' = [slot EXCEPT ![p] = Free]
      /\ cmaster' = [d \in Clients |-> d \in heirs \/ (cmaster[d] /\ ~(d = c /\ unmaster))]
      /\ \A d \in Clients : d # c => cplaying'[d] = cplaying[d]
  BY DEF HandleDisconnect, IInv, ServerOK
<1>3. slot[p] = <<c, k>>
  BY PolledFit DEF HandleDisconnect, SeatInv, SeatsFit, Fit, RequestsFit
<1>4. SlotsOK /\ Books /\ \A d \in Clients : Greeted(d) /\ spectating[d] \in {0, 1, 2} /\ cmaster[d] \in BOOLEAN
  BY DEF IInv, ServerOK, SeatInv, AgreeInv
<1>5. p \in Owned(c) /\ \A d \in Clients : d # c => \A j \in Controllers : slot[p] # <<d, j>>
  BY <1>1, <1>3, <1>4, OwnedBy
<1>6. peer[c] /\ spectating[c] = 1
  BY <1>4, <1>5, SeatedWatch
<1>7. heirs \in SUBSET Clients /\ \A d \in heirs : Owned(d) \ {p} # {} /\ spectating[d] = 1
  <2>1. heirs \in SUBSET Clients /\ \A d \in heirs : Owned(d) \ {p} # {}
    BY <1>4, HeirsAreClients, HeirsOwn
  <2> HIDE DEF heirs
  <2> QED BY <1>4, <2>1, SeatedWatch
<1>8. c \notin heirs
  BY <1>7
<1>9. \A d \in Clients : /\ out[d] = left(d) \o crown(d) \o removed(d)
                         /\ peer[d] => (d \in Audience <=> spectating[d] # 0)
  BY <1>4, Roles
<1>10. cmaster'[c] = (cmaster[c] /\ ~(Owned(c) \subseteq {p}))
       /\ \A d \in Clients : d # c => cmaster'[d] = (cmaster[d] \/ d \in heirs)
  BY <1>2, <1>4, <1>8
<1> HIDE DEF k, p, heirs, out
<1>11. ASSUME NEW w \in Views, Mirrors(c, w)
       PROVE  \E w2 \in Views : Tells(out[c], w, w2) /\ Mirrors(c, w2)'
  <2>1. out[c] = <<Request("DISCONNECT", k, -1)>> \o <<>> \o <<About("REMOVE_PLAYER", {p})>>
    BY <1>6, <1>8, <1>9
  <2>2. state' = state /\ spectating'[c] = spectating[c]
    BY <1>2
  <2>3. \E w2 \in Views :
           /\ Tells(<<Request("DISCONNECT", k, -1)>> \o <<>> \o <<About("REMOVE_PLAYER", {p})>>, w, w2)
           /\ Mirrors(c, w2)'
    BY <1>1, <1>2, <1>3, <1>4, <1>6, <1>10, <1>11, <2>2, SeatLeftRead
  <2> QED BY ONLY <2>1, <2>3
<1>12. ASSUME NEW d \in Clients, d # c, peer[d], NEW w \in Views, Mirrors(d, w)
       PROVE  \E w2 \in Views : Tells(out[d], w, w2) /\ Mirrors(d, w2)'
  <2> DEFINE crowned == d \in heirs
  <2>1. out[d] = <<>> \o (IF crowned THEN <<Note("ASSIGN_MASTER")>> ELSE <<>>)
                      \o (IF spectating[d] # 0 THEN <<About("REMOVE_PLAYER", {p})>> ELSE <<>>)
    BY <1>9, <1>12
  <2>2. /\ cmaster'[d] = (cmaster[d] \/ crowned) /\ crowned \in BOOLEAN
        /\ crowned => spectating[d] # 0
        /\ \A j \in Controllers : slot[p] # <<d, j>>
        /\ UNCHANGED <<state, spectating>>
    BY <1>2, <1>5, <1>7, <1>10, <1>12
  <2> HIDE DEF crowned
  <2>3. \E w2 \in Views :
           /\ Tells(<<>> \o (IF crowned THEN <<Note("ASSIGN_MASTER")>> ELSE <<>>)
                      \o (IF spectating[d] # 0 THEN <<About("REMOVE_PLAYER", {p})>> ELSE <<>>), w, w2)
           /\ Mirrors(d, w2)'
    BY <1>1, <1>2, <1>4, <1>12, <2>2, OtherUnseated
  <2> QED BY ONLY <2>1, <2>3
<1>13. ASSUME NEW d \in Clients, d # c, spectating[d] = 0
       PROVE  (peer[d] => out[d] = <<>>) /\ cplaying'[d] = cplaying[d]
  <2>1. d \notin heirs
    BY <1>7, <1>13
  <2>2. peer[d] => out[d] = <<>> \o <<>> \o <<>>
    BY <1>9, <1>13, <2>1
  <2>3. <<>> \o <<>> = <<>>
    OBVIOUS
  <2> QED BY <1>2, <1>13, <2>2, <2>3
<1>14. \A d \in Clients : Greeted(d)' /\ Mirrored(d)'
  <2>1. \A d \in Clients : /\ spectating'[d] = 0 <=> spectating[d] = 0
                           /\ spectating'[d] = 2 => cplaying'[d] = 0 /\ state' # "OFF"
    BY <1>2, <1>4, <1>6 DEF Greeted
  <2>2. \A d \in Clients : peer[d] => \A w \in Views : Mirrors(d, w) =>
          \E w2 \in Views : Tells(out[d], w, w2) /\ Mirrors(d, w2)'
    BY <1>11, <1>12
  <2> QED BY <1>2, <1>13, <2>1, <2>2, AgreeTold
<1>15. HasMaster'
  <2> SUFFICES ASSUME Taken' # {}
               PROVE  \E d \in Clients : cmaster'[d]
    BY DEF HasMaster
  <2>1. Taken' = Taken \ {p}
    BY <1>1, <1>2, <1>4, AfterFree
  <2>2. CASE unmaster
    <3>1. heirs # {}
      BY <2>1, <2>2 DEF heirs, Heirs
    <3> QED BY <1>2, <1>7, <3>1
  <2>3. CASE ~unmaster
    <3>1. PICK d \in Clients : cmaster[d]
      BY <2>1 DEF AgreeInv, HasMaster
    <3> QED BY <1>2, <2>3, <3>1
  <2> QED BY <2>2, <2>3
<1> QED BY <1>14, <1>15 DEF AgreeInv

-----------------------------------------------------------------------------
(* The handshake.                                                           *)

\* Whom a handler answers alone, the others take no notice.
LEMMA AgreeUnaddressed ==
  ASSUME IInv, AgreeInv, NEW c, NEW msgs, Send(Only(c, msgs)), UNCHANGED clientVars,
         UNCHANGED <<state, slot, peer, cplaying, cmaster>>,
         NEW d \in Clients, d # c, toServer'[d] = toServer[d], spectating'[d] = spectating[d]
  PROVE  Greeted(d)' /\ Mirrored(d)'
<1> DEFINE out == Only(c, msgs)
<1>1. out[d] = <<>> /\ Send(out)
  BY DEF Only
<1> HIDE DEF out
<1>2. Greeted(d) /\ Mirrored(d)
  BY DEF AgreeInv
<1>3. Answers(<<>>) /\ Never(<<>>, "CHECK_ID") /\ Never(<<>>, "CHECK_ID_FAIL")
  BY QuietRuns, InEmpty DEF Never
<1>4. spectating[d] = 2 => cplaying[d] = 0 /\ state # "OFF"
  BY <1>2 DEF Greeted
<1>5. Greeted(d)'
  BY <1>1, <1>2, <1>3, <1>4, GreetedSent
<1>6. ASSUME NEW w \in Views, Mirrors(d, w)
      PROVE  Tells(out[d], w, w) /\ Mirrors(d, w)'
  BY <1>1, <1>6, TellsNothing DEF Mirrors, Taken, Owned
<1>7. Mirrored(d)'
  BY <1>1, <1>2, <1>6, MirrorSent
<1> QED BY <1>5, <1>7

LEMMA AgreeCheckId ==
  ASSUME Steady, IInv, AgreeInv, NEW c \in Clients, HandleCheckId(c)
  PROVE  AgreeInv'
<1> DEFINE m == Note("CHECK_ID")
<1>1. m \in ToClientMessage /\ m.type = "CHECK_ID" /\ Head(<<m>>) = m /\ Tail(<<m>>) = <<>>
      /\ In(<<m>>) = {m}
  BY Replies, InOne DEF Note
<1>2. /\ Poll(c, "CHECK_ID") /\ Send(Only(c, <<m>>)) /\ UNCHANGED <<serverVars, clientVars>>
  BY DEF HandleCheckId, Steady
<1> HIDE DEF m
<1>3. UNCHANGED <<state, slot, peer, cplaying, cmaster, spectating>>
      /\ UNCHANGED <<mode, cstate, port, roster, locals, master>>
  BY <1>2 DEF serverVars, clientVars
<1>4. /\ peer[c] /\ toServer[c] # <<>> /\ Head(toServer[c]).type = "CHECK_ID"
      /\ toServer'[c] = Tail(toServer[c])
      /\ \A d \in Clients : d # c => toServer'[d] = toServer[d]
  BY <1>2 DEF Poll, Request1, IInv, RequestsOK
<1>5. ASSUME NEW d \in Clients, d # c
      PROVE  Greeted(d)' /\ Mirrored(d)'
  BY <1>2, <1>3, <1>4, <1>5, AgreeUnaddressed
<1>6. Greeted(c) /\ Mirrored(c)
  BY DEF AgreeInv
<1>7. Head(toServer[c]) \in In(toServer[c])
  BY <1>4, Shapes, Tails DEF Queue
<1>8. mode[c] = "checking"
  BY <1>4, <1>6, <1>7 DEF Greeted, Never, IInv, ClientOK
<1>9. /\ toServer[c] = <<Note("CHECK_ID")>> /\ toClient[c] = <<>>
      /\ spectating[c] = 0 /\ cplaying[c] = 0
  BY <1>4, <1>6, <1>8 DEF Greeted
<1>10. toServer'[c] = <<>>
  BY <1>1, <1>4, <1>9 DEF m
<1>11. toClient'[c] = <<m>>
  <2> DEFINE out == Only(c, <<m>>)
  <2>1. out[c] = <<m>> /\ Send(out)
    BY <1>2 DEF Only
  <2> HIDE DEF out
  <2>2. toClient'[c] = toClient[c] \o <<m>>
    BY <1>8, <2>1, SentTo
  <2>3. <<>> \o <<m>> = <<m>>
    OBVIOUS
  <2> QED BY <1>9, <2>2, <2>3
<1>12. Greeted(c)'
  <2>1. Never(<<>>, "LEAVE") /\ Never(<<m>>, "CHECK_ID_FAIL")
    BY <1>1, InEmpty DEF Never
  <2> QED BY <1>3, <1>4, <1>6, <1>8, <1>9, <1>10, <1>11, <2>1 DEF Greeted, m
<1>13. Mirrored(c)'
  <2>1. View(c) \in Views /\ View(c)' = View(c)
    BY <1>3, ViewType DEF View
  <2>2. Mirrors(c, View(c))
    BY <1>6, <1>8, <1>9, ReachedAlready DEF Mirrored
  <2>3. Read(m, View(c)) = View(c)
    BY <1>1 DEF Read
  <2>4. Reaches(<<m>>, View(c), View(c))
    BY <1>1, <2>1, <2>3, ReachOne
  <2>5. PICK v \in Views : v = View(c)
    BY <2>1
  <2>6. Mirrors(c, v)'
    BY <1>3, <2>2, <2>5, MirrorsSame
  <2> QED BY <1>11, <2>1, <2>4, <2>5, <2>6 DEF Mirrored
<1>14. HasMaster'
  BY <1>3 DEF AgreeInv, HasMaster, Taken
<1> QED BY <1>5, <1>12, <1>13, <1>14 DEF AgreeInv

\* Who asks to watch is told of everybody.
LEMMA AgreeSpectate ==
  ASSUME IInv, Books, AgreeInv, NEW c \in Clients, HandleSpectate(c)
  PROVE  AgreeInv'
<1> DEFINE note == Note("SPECTATE")
           rest == AboutSome("ADD_PLAYER", Taken)
           msgs == <<note>> \o rest
<1>1. note \in ToClientMessage /\ note.type = "SPECTATE"
  BY Replies DEF Note
<1>2. /\ Poll(c, "SPECTATE") /\ Send(Only(c, msgs)) /\ UNCHANGED clientVars
      /\ UNCHANGED <<state, slot, peer, cplaying, cmaster>>
      /\ spectating'[c] = (IF state = "OFF" THEN 1 ELSE 2)
      /\ \A d \in Clients : d # c => spectating'[d] = spectating[d]
  BY DEF HandleSpectate, IInv, ServerOK
<1>3. UNCHANGED <<mode, cstate, port, roster, locals, master>>
  BY <1>2 DEF clientVars
<1>4. /\ peer[c] /\ toServer[c] # <<>> /\ Head(toServer[c]).type = "SPECTATE"
      /\ toServer'[c] = Tail(toServer[c])
      /\ \A d \in Clients : d # c => toServer'[d] = toServer[d]
  BY <1>2 DEF Poll, Request1, IInv, RequestsOK
<1> HIDE DEF note, rest, msgs
<1>5. ASSUME NEW d \in Clients, d # c
      PROVE  Greeted(d)' /\ Mirrored(d)'
  BY <1>2, <1>4, <1>5, AgreeUnaddressed
<1>6. Greeted(c) /\ Mirrored(c)
  BY DEF AgreeInv
<1>7. /\ Head(toServer[c]) \in In(toServer[c])
      /\ In(Tail(toServer[c])) \subseteq In(toServer[c])
  BY <1>4, Shapes, Tails DEF Queue
<1>8. mode[c] = "online" /\ spectating[c] = 0
  <2>1. Head(<<Note("CHECK_ID")>>).type = "CHECK_ID"
    BY DEF Note
  <2>2. mode[c] # "checking"
    BY <1>4, <1>6, <2>1 DEF Greeted
  <2>3. spectating[c] = 0
    BY <1>4, <1>6, <1>7 DEF Greeted, Never
  <2> QED BY <1>4, <1>6, <2>2, <2>3 DEF Greeted, IInv, ClientOK
<1>9. /\ cplaying[c] = 0 /\ toClient[c] = <<>> /\ Never(Tail(toServer[c]), "SPECTATE")
      /\ Owned(c) = {} /\ \A j \in Controllers, q \in Players : slot[q] # <<c, j>>
  <2>1. cplaying[c] = 0 /\ toClient[c] = <<>> /\ Never(Tail(toServer[c]), "SPECTATE")
    BY <1>6, <1>8 DEF Greeted
  <2>2. Owned(c) = {}
    BY <2>1, NobodyOwned DEF Books, SeatsAccounted
  <2> QED BY <2>1, <2>2, OwnedBy DEF IInv, ServerOK
<1>10. View(c) \in Views /\ View(c)' = View(c) /\ Mirrors(c, View(c))
  BY <1>3, <1>6, <1>8, <1>9, ViewType, ReachedAlready DEF Mirrored, View
<1> DEFINE v == View(c)
<1>11. v.roster = {} /\ v.phase = "OFF" /\ v.master = cmaster[c]
       /\ v.port \in [Controllers -> Players \cup {Unplugged}] /\ v \in Views
       /\ \A j \in Controllers, q \in Players : v.port[j] # q
  BY <1>8, <1>9, <1>10 DEF Mirrors, Views
<1>12. Seats(v) = {}
  BY <1>11 DEF Seats
<1> HIDE DEF v
<1>13. PICK w \in Views : /\ Tells(msgs, v, w) /\ w.port = v.port /\ w.phase = v.phase
                          /\ w.master = v.master /\ w.roster = Taken
                          /\ w.roster \cap w.locals = {}
  <2>1. Tells(<<note>>, v, v)
    <3>1. Read(note, v) = v
      BY <1>1 DEF Read
    <3> QED BY <1>1, <1>11, <3>1, TellsOne
  <2>2. CASE Taken = {}
    <3>1. rest = <<>>
      BY <2>2 DEF rest, AboutSome
    <3>2. Tells(msgs, v, v)
      BY <1>11, <2>1, <3>1, TellsNothing, TellsBoth DEF msgs
    <3> QED BY <1>11, <2>2, <3>2
  <2>3. CASE Taken # {}
    <3> DEFINE add == About("ADD_PLAYER", Taken)
               w == Added(v, add)
    <3>1. add \in ToClientMessage /\ add.type = "ADD_PLAYER" /\ add.players = Taken
      BY TakenPlayers, Replies DEF About
    <3>2. rest = <<add>>
      BY <2>3 DEF rest, AboutSome
    <3> HIDE DEF add
    <3>3. Read(add, v) = w
      BY <3>1 DEF Read
    <3>4. /\ w.port = v.port /\ w.phase = v.phase /\ w.master = v.master
          /\ w.roster = Taken /\ w.locals = v.locals \ Taken
      BY <1>11, <1>12, <3>1 DEF Added, Views
    <3> HIDE DEF w
    <3>5. Tells(<<add>>, v, w)
      BY <1>11, <3>1, <3>3, TellsOne
    <3>6. Tells(msgs, v, w)
      BY <2>1, <3>2, <3>5, TellsBoth DEF msgs
    <3>7. w \in Views
      BY <3>6 DEF Tells
    <3> QED BY <3>4, <3>6, <3>7
  <2> QED BY <2>2, <2>3
<1>14. toClient'[c] = msgs
  <2> DEFINE out == Only(c, msgs)
  <2>1. out[c] = msgs /\ Send(out)
    BY <1>2 DEF Only
  <2> HIDE DEF out
  <2>2. toClient'[c] = toClient[c] \o msgs
    BY <1>8, <2>1, SentTo
  <2>3. <<>> \o msgs = msgs
    BY <1>13, ConcatEmptySeq DEF Tells, Answers
  <2> QED BY <1>9, <2>2, <2>3
<1>15. Mirrored(c)'
  <2>1. Mirrors(c, w)'
    <3>1. Taken' = Taken /\ Owned(c)' = Owned(c)
      BY <1>2 DEF Taken, Owned
    <3> QED BY <1>2, <1>9, <1>11, <1>13, <3>1 DEF Mirrors
  <2> QED BY <1>10, <1>13, <1>14, <2>1 DEF Mirrored, Tells, v
<1>16. Greeted(c)'
  <2>1. Never(toServer'[c], "LEAVE") /\ Never(toServer'[c], "CHECK_ID")
        /\ Never(toServer'[c], "SPECTATE")
    BY <1>4, <1>6, <1>7, <1>8, <1>9 DEF Greeted, Never
  <2> QED BY <1>2, <1>3, <1>4, <1>6, <1>8, <1>9, <1>13, <1>14, <2>1 DEF Greeted, Tells
<1>17. HasMaster'
  BY <1>2 DEF AgreeInv, HasMaster, Taken
<1> QED BY <1>5, <1>15, <1>16, <1>17 DEF AgreeInv

LEMMA AgreeServerPoll ==
  ASSUME Steady, IInv, SeatInv, AgreeInv, NEW c \in Clients, ServerPoll(c)
  PROVE  AgreeInv'
<1>1. ~HandleOverflow(c)
  BY PolledFit DEF HandleOverflow, SeatInv
<1>2. ~HandleLeave(c)
  <2> SUFFICES ASSUME Poll(c, "LEAVE")
               PROVE  FALSE
    BY DEF HandleLeave
  <2>1. toServer[c] # <<>> /\ Head(toServer[c]).type = "LEAVE"
    BY DEF Poll, Request1
  <2>2. Head(toServer[c]) \in In(toServer[c])
    BY <2>1, Shapes, Tails DEF Queue
  <2> QED BY <2>1, <2>2 DEF AgreeInv, Greeted, Never
<1>3. Books
  BY DEF SeatInv
<1> QED BY <1>1, <1>2, <1>3, AgreeCheckId, AgreeSpectate, AgreeConnect, AgreeRefuse,
        AgreeDisconnect, AgreePhases DEF ServerPoll

\* No connection breaks.
LEMMA NoneBreaks ==
  ASSUME Steady, AgreeInv, NEW c \in Clients
  PROVE  ~PeerDisconnect(c)
  BY DEF Steady, AgreeInv, Greeted, PeerDisconnect

-----------------------------------------------------------------------------
(* The clients read and ask.                                                *)

\* A step of client c.
LEMMA AgreeOwn ==
  ASSUME IInv, AgreeInv, NEW c \in Clients, UNCHANGED <<state, slot, cmaster>>,
         \A d \in Clients : d # c => /\ peer'[d] = peer[d] /\ cplaying'[d] = cplaying[d]
                                     /\ spectating'[d] = spectating[d] /\ mode'[d] = mode[d]
                                     /\ View(d)' = View(d)
                                     /\ toServer'[d] = toServer[d] /\ toClient'[d] = toClient[d],
         Greeted(c)', Mirrored(c)'
  PROVE  AgreeInv'
<1>1. ASSUME NEW d \in Clients, d # c
      PROVE  Greeted(d)' /\ Mirrored(d)'
  <2>1. Greeted(d) /\ Mirrored(d)
    BY DEF AgreeInv
  <2>2. View(d)' = View(d)
    BY <1>1
  <2>3. cstate'[d] = cstate[d]
    BY <2>2 DEF View
  <2>4. Greeted(d)'
    BY <1>1, <2>1, <2>3 DEF Greeted
  <2>5. \A w \in Views : Mirrors(d, w) => Mirrors(d, w)'
    BY <1>1 DEF Mirrors, Taken, Owned
  <2>6. Mirrored(d)'
    BY <1>1, <2>1, <2>2, <2>5 DEF Mirrored
  <2> QED BY <2>4, <2>6
<1>2. HasMaster'
  BY DEF AgreeInv, HasMaster, Taken
<1> QED BY <1>1, <1>2 DEF AgreeInv

\* Client c asks for something else than to watch, or to leave.
LEMMA NextAsked ==
  ASSUME IInv, NEW c \in Clients, NEW m \in ToServerMessage, Put(c, m)
  PROVE  /\ \A d \in Clients : d # c => toServer'[d] = toServer[d]
         /\ In(toServer'[c]) \subseteq In(toServer[c]) \cup {m}
         /\ toServer[c] # <<>> =>
              /\ toServer'[c] # <<>> /\ Head(toServer'[c]) = Head(toServer[c])
              /\ In(Tail(toServer'[c])) \subseteq In(Tail(toServer[c])) \cup {m}
<1>1. /\ toServer'[c] = IF peer[c] THEN Append(toServer[c], m) ELSE toServer[c]
      /\ \A d \in Clients : d # c => toServer'[d] = toServer[d]
  BY PutOf
<1> DEFINE q == toServer[c]
<1>2. q \in Seq(ToServerMessage)
  BY DEF IInv, RequestsOK
<1> HIDE DEF q
<1>3. In(Append(q, m)) = In(q) \cup {m}
  <2>1. Append(q, m) = q \o <<m>>
    BY <1>2, AppendedOne
  <2>2. In(q \o <<m>>) = In(q) \cup {m}
    BY <1>2, InConcatOne
  <2> QED BY ONLY <2>1, <2>2
<1>4. ASSUME q # <<>>
      PROVE  /\ Append(q, m) # <<>> /\ Head(Append(q, m)) = Head(q)
             /\ In(Tail(Append(q, m))) \subseteq In(Tail(q)) \cup {m}
  <2>1. /\ Append(q, m) # <<>> /\ Head(Append(q, m)) = Head(q)
        /\ Tail(Append(q, m)) = Append(Tail(q), m) /\ Tail(q) \in Seq(ToServerMessage)
    BY <1>2, <1>4, AppendProperties, HeadTailProperties
  <2>2. Append(Tail(q), m) = Tail(q) \o <<m>>
    BY <2>1, AppendedOne
  <2>3. In(Tail(q) \o <<m>>) = In(Tail(q)) \cup {m}
    <3> DEFINE r == Tail(q)
    <3>1. r \in Seq(ToServerMessage)
      BY <2>1
    <3> HIDE DEF r
    <3>2. In(r \o <<m>>) = In(r) \cup {m}
      BY <3>1, InConcatOne
    <3> QED BY <3>2 DEF r
  <2> QED BY ONLY <2>1, <2>2, <2>3
<1> QED BY <1>1, <1>3, <1>4 DEF q

LEMMA SameView ==
  ASSUME NEW v \in Views, NEW w \in Views, v.port = w.port, v.phase = w.phase,
         v.master = w.master, v.roster = w.roster, v.locals = w.locals
  PROVE  v = w
BY DEF Views

\* What a client makes of a message is Read.
LEMMA ReadsAs ==
  ASSUME IInv, IInv', NEW c \in Clients, ClientPoll(c), ~ReceiveCheckIdFail(c)
  PROVE  View(c)' = Read(Received(c), View(c)) /\ \A d \in Clients : d # c => View(d)' = View(d)
<1> DEFINE m == Received(c)
<1>1. ASSUME toClient[c] # <<>>
      PROVE  m \in ToClientMessage
  BY <1>1, Shapes, HeadTailProperties DEF Received, Answers
<1>2. ASSUME NEW t, Receive(c, t)
      PROVE  m.type = t /\ m \in ToClientMessage
  BY <1>1, <1>2 DEF Receive
<1>3. PICK v \in Views : v = View(c)
  BY ViewType
<1>4. View(c)' \in Views
  BY DEF IInv, ClientOK, View, Views
<1>5. PICK u \in Views : u = View(c)'
  BY <1>4
<1>6. /\ v.port = port[c] /\ v.phase = cstate[c] /\ v.roster = roster[c] /\ v.locals = locals[c]
      /\ v.master = master[c]
  BY <1>3 DEF View
<1>7. /\ u.port = port'[c] /\ u.phase = cstate'[c] /\ u.roster = roster'[c]
      /\ u.locals = locals'[c] /\ u.master = master'[c]
  BY <1>5 DEF View
<1> HIDE DEF m
<1>8. u = Read(m, v)
  <2>1. CASE ReceiveConnect(c)
    <3>1. m.type = "CONNECT" /\ m.ctrl \in Controllers /\ m \in ToClientMessage
      BY <1>2, <2>1, ReplyParts DEF ReceiveConnect
    <3>2. /\ UNCHANGED <<cstate, master, roster, locals>>
          /\ port'[c] = IF cstate[c] = "OFF" THEN [port[c] EXCEPT ![m.ctrl] = m.player] ELSE port[c]
      BY <2>1 DEF ReceiveConnect, m, IInv, ClientOK
    <3>3. Read(m, v) = Seated(v, m) /\ Read(m, v) \in Views
      BY <3>1, ReadType DEF Read
    <3> DEFINE w == Seated(v, m)
    <3>4. /\ w.phase = v.phase /\ w.master = v.master /\ w.roster = v.roster /\ w.locals = v.locals
          /\ w.port = IF v.phase = "OFF" THEN [v.port EXCEPT ![m.ctrl] = m.player] ELSE v.port
      BY DEF Seated, Views
    <3> HIDE DEF w
    <3> QED BY <1>6, <1>7, <3>2, <3>3, <3>4, SameView DEF w
  <2>2. CASE ReceiveDisconnect(c)
    <3>1. m.type = "DISCONNECT" /\ m.ctrl \in Controllers /\ m \in ToClientMessage
      BY <1>2, <2>2, ReplyParts DEF ReceiveDisconnect
    <3>2. /\ UNCHANGED <<cstate, roster, locals>>
          /\ port'[c] = [port[c] EXCEPT ![m.ctrl] = Unplugged]
          /\ master'[c] = (master[c] /\ OtherPlugged(c, m.ctrl))
      BY <2>2 DEF ReceiveDisconnect, m, IInv, ClientOK
    <3>3. Read(m, v) = Unseated(v, m) /\ Read(m, v) \in Views
      BY <3>1, ReadType DEF Read
    <3> DEFINE w == Unseated(v, m)
    <3>4. /\ w.phase = v.phase /\ w.roster = v.roster /\ w.locals = v.locals
          /\ w.port = [v.port EXCEPT ![m.ctrl] = Unplugged]
          /\ w.master = (v.master /\ \E j \in Controllers \ {m.ctrl} : v.port[j] # Unplugged)
      BY DEF Unseated, Views
    <3> HIDE DEF w
    <3>5. w.master = u.master
      BY <1>6, <1>7, <3>2, <3>4 DEF OtherPlugged
    <3>6. w.port = u.port /\ w.phase = u.phase /\ w.roster = u.roster /\ w.locals = u.locals
      BY <1>6, <1>7, <3>2, <3>4
    <3>7. w \in Views /\ Read(m, v) = w
      BY <3>3 DEF w
    <3> QED BY ONLY <3>5, <3>6, <3>7, u \in Views, SameView
  <2>3. CASE ReceiveAddPlayer(c)
    <3>1. m.type = "ADD_PLAYER" /\ m \in ToClientMessage
      BY <1>2, <2>3 DEF ReceiveAddPlayer
    <3>2. /\ UNCHANGED <<cstate, master, port>> /\ roster'[c] = roster[c] \cup m.players
          /\ locals'[c] = (locals[c] \ (m.players \ roster[c]))
                            \cup ((m.players \ roster[c]) \cap Plugged(c))
      BY <2>3 DEF ReceiveAddPlayer, m, IInv, ClientOK
    <3>3. Read(m, v) = Added(v, m) /\ Read(m, v) \in Views
      BY <3>1, ReadType DEF Read
    <3> DEFINE w == Added(v, m)
    <3>4. /\ w.phase = v.phase /\ w.master = v.master /\ w.port = v.port
          /\ w.roster = v.roster \cup m.players
          /\ w.locals = (v.locals \ (m.players \ v.roster))
                          \cup ((m.players \ v.roster) \cap Seats(v))
      <4> DEFINE known == v.roster \cup m.players
                 mine == (v.locals \ (m.players \ v.roster))
                           \cup ((m.players \ v.roster) \cap Seats(v))
      <4>1. w = [v EXCEPT !.roster = known, !.locals = mine]
        BY DEF Added
      <4> HIDE DEF w, known, mine
      <4>2. /\ w.phase = v.phase /\ w.master = v.master /\ w.port = v.port
            /\ w.roster = known /\ w.locals = mine
        BY <4>1 DEF Views
      <4> QED BY <4>2 DEF known, mine
    <3>5. Plugged(c) = Seats(v)
      BY <1>6 DEF Plugged, Seats
    <3> HIDE DEF w
    <3>6. w.port = u.port /\ w.phase = u.phase /\ w.master = u.master
      BY <1>6, <1>7, <3>2, <3>4
    <3>7. w.roster = u.roster
      BY <1>6, <1>7, <3>2, <3>4
    <3>8. w.locals = u.locals
      BY <1>6, <1>7, <3>2, <3>4, <3>5
    <3>9. w \in Views /\ Read(m, v) = w
      BY <3>3 DEF w
    <3> QED BY ONLY <3>6, <3>7, <3>8, <3>9, u \in Views, SameView
  <2>4. CASE ReceiveRemovePlayer(c)
    <3>1. m.type = "REMOVE_PLAYER" /\ m \in ToClientMessage
      BY <1>2, <2>4 DEF ReceiveRemovePlayer
    <3>2. /\ UNCHANGED <<cstate, master, port, locals>> /\ roster'[c] = roster[c] \ m.players
      BY <2>4 DEF ReceiveRemovePlayer, m, IInv, ClientOK
    <3> DEFINE w == [v EXCEPT !.roster = @ \ m.players]
    <3>3. Read(m, v) = w /\ Read(m, v) \in Views
      BY <3>1, ReadType DEF Read
    <3>4. /\ w.phase = v.phase /\ w.master = v.master /\ w.port = v.port
          /\ w.roster = v.roster \ m.players /\ w.locals = v.locals
      BY DEF Views
    <3> HIDE DEF w
    <3> QED BY <1>6, <1>7, <3>2, <3>3, <3>4, SameView
  <2>5. CASE ReceiveAssignMaster(c)
    <3>1. m.type = "ASSIGN_MASTER" /\ m \in ToClientMessage
      BY <1>2, <2>5 DEF ReceiveAssignMaster
    <3>2. /\ UNCHANGED <<cstate, roster, port, locals>> /\ master'[c] = TRUE
      BY <2>5 DEF ReceiveAssignMaster, m, IInv, ClientOK
    <3> DEFINE w == [v EXCEPT !.master = TRUE]
    <3>3. Read(m, v) = w /\ Read(m, v) \in Views
      BY <3>1, ReadType DEF Read
    <3>4. /\ w.phase = v.phase /\ w.master = TRUE /\ w.port = v.port
          /\ w.roster = v.roster /\ w.locals = v.locals
      BY DEF Views
    <3> HIDE DEF w
    <3> QED BY <1>6, <1>7, <3>2, <3>3, <3>4, SameView
  <2>6. CASE ReceiveOther(c) \/ ReceiveCheckId(c)
    <3>1. m.type \in {"CONNECT_FAIL", "SPECTATE", "CHECK_ID"}
      BY <1>2, <2>6 DEF ReceiveOther, ReceiveCheckId
    <3>2. UNCHANGED <<cstate, roster, port, locals, master>>
      BY <2>6 DEF ReceiveOther, ReceiveCheckId, clientVars
    <3>3. Read(m, v) = v
      BY <3>1 DEF Read
    <3> QED BY <1>6, <1>7, <3>2, <3>3, SameView
  <2>7. CASE ReceiveStart(c) \/ ReceivePause(c) \/ ReceiveResume(c) \/ ReceiveEnd(c)
    <3>1. PICK t \in {"START", "PAUSE", "RESUME", "END"} :
            /\ Receive(c, t) /\ UNCHANGED <<roster, port, locals, master>>
            /\ cstate'[c] = CASE t = "PAUSE" -> "PAUSED" [] t = "END" -> "OFF"
                              [] OTHER -> "PLAYING"
      BY <2>7 DEF ReceiveStart, ReceivePause, ReceiveResume, ReceiveEnd, IInv, ClientOK
    <3>2. m.type = t /\ m \in ToClientMessage
      BY <1>2, <3>1
    <3> DEFINE x == CASE t = "PAUSE" -> "PAUSED" [] t = "END" -> "OFF" [] OTHER -> "PLAYING"
               w == [v EXCEPT !.phase = x]
    <3>3. Read(m, v) = w /\ Read(m, v) \in Views
      BY <3>2, ReadType DEF Read
    <3>4. /\ w.phase = x /\ w.master = v.master /\ w.port = v.port
          /\ w.roster = v.roster /\ w.locals = v.locals
      BY DEF Views
    <3> HIDE DEF w
    <3> QED BY <1>6, <1>7, <3>1, <3>3, <3>4, SameView
  <2> QED BY <2>1, <2>2, <2>3, <2>4, <2>5, <2>6, <2>7 DEF ClientPoll
<1>9. ASSUME NEW d \in Clients, d # c
      PROVE  /\ port'[d] = port[d] /\ cstate'[d] = cstate[d] /\ roster'[d] = roster[d]
             /\ locals'[d] = locals[d] /\ master'[d] = master[d]
  <2>1. CASE \/ ReceiveConnect(c) \/ ReceiveDisconnect(c) \/ ReceiveAddPlayer(c)
             \/ ReceiveRemovePlayer(c) \/ ReceiveAssignMaster(c)
    BY <1>9, <2>1 DEF ReceiveConnect, ReceiveDisconnect, ReceiveAddPlayer,
       ReceiveRemovePlayer, ReceiveAssignMaster, IInv, ClientOK
  <2>2. CASE \/ ReceiveOther(c) \/ ReceiveCheckId(c) \/ ReceiveStart(c)
             \/ ReceivePause(c) \/ ReceiveResume(c) \/ ReceiveEnd(c)
    BY <1>9, <2>2 DEF ReceiveOther, ReceiveCheckId, ReceiveStart, ReceivePause,
       ReceiveResume, ReceiveEnd, IInv, ClientOK, clientVars
  <2> QED BY <2>1, <2>2 DEF ClientPoll
<1> QED BY <1>3, <1>5, <1>8, <1>9 DEF m, View

\* Reading does not change where reading leads.
LEMMA MirrorHeard ==
  ASSUME IInv, NEW c \in Clients, Mirrored(c), mode[c] # "closed", toClient[c] # <<>>,
         toClient'[c] = Tail(toClient[c]), View(c)' = Read(Received(c), View(c)),
         UNCHANGED <<slot, cmaster, spectating, state>>
  PROVE  Mirrored(c)'
<1>1. PICK w \in Views : Reaches(toClient[c], View(c), w) /\ Mirrors(c, w)
  BY DEF Mirrored
<1>2. Reaches(Tail(toClient[c]), Read(Head(toClient[c]), View(c)), w)
  BY <1>1, Shapes, ReachRest
<1>3. Mirrors(c, w)'
  BY <1>1, MirrorsSame
<1> QED BY <1>2, <1>3 DEF Mirrored, Received

LEMMA AgreeClientPoll ==
  ASSUME IInv, IInv', AgreeInv, NEW c \in Clients, ClientPoll(c)
  PROVE  AgreeInv'
<1>1. /\ toClient[c] # <<>> /\ mode[c] # "closed"
      /\ Head(toClient[c]) \in In(toClient[c])
      /\ In(Tail(toClient[c])) \subseteq In(toClient[c])
  <2>1. toClient[c] # <<>> /\ mode[c] # "closed"
    BY DEF ClientPoll, ReceiveCheckId, ReceiveCheckIdFail, ReceiveConnect, ReceiveDisconnect,
           ReceiveAddPlayer, ReceiveRemovePlayer, ReceiveAssignMaster, ReceiveOther,
           ReceiveStart, ReceivePause, ReceiveResume, ReceiveEnd, Receive
  <2> QED BY <2>1, Shapes, Tails DEF Answers
<1>2. Greeted(c) /\ Mirrored(c) /\ peer[c] /\ mode[c] \in {"checking", "online"}
  BY <1>1 DEF AgreeInv, Greeted, IInv, ClientOK
<1>3. ~ReceiveCheckIdFail(c)
  BY <1>1, <1>2 DEF ReceiveCheckIdFail, Received, Greeted, Never
<1>4. View(c)' = Read(Received(c), View(c)) /\ \A d \in Clients : d # c => View(d)' = View(d)
  BY <1>3, ReadsAs
<1>5. /\ UNCHANGED <<state, slot, cmaster, peer, cplaying, spectating>>
      /\ toClient'[c] = Tail(toClient[c])
      /\ \A d \in Clients : d # c => toClient'[d] = toClient[d] /\ mode'[d] = mode[d]
  <2>1. UNCHANGED serverVars /\ toClient' = [toClient EXCEPT ![c] = Tail(@)]
        /\ \A d \in Clients : d # c => mode'[d] = mode[d]
    BY <1>3 DEF ClientPoll, ReceiveCheckId, ReceiveConnect, ReceiveDisconnect,
           ReceiveAddPlayer, ReceiveRemovePlayer, ReceiveAssignMaster, ReceiveOther,
           ReceiveStart, ReceivePause, ReceiveResume, ReceiveEnd, Receive, clientVars,
           IInv, ClientOK
  <2> QED BY <2>1 DEF serverVars, IInv, RepliesOK
<1>6. Mirrored(c)'
  BY <1>1, <1>2, <1>4, <1>5, MirrorHeard
<1>7. CASE ReceiveCheckId(c)
  <2> DEFINE m == Note("SPECTATE")
  <2>1. m \in ToServerMessage /\ m.type = "SPECTATE" /\ Head(<<m>>) = m /\ Tail(<<m>>) = <<>>
        /\ In(<<m>>) = {m}
    BY Requests, InOne DEF Note
  <2>2. Put(c, m) /\ mode'[c] = "online" /\ Head(toClient[c]).type = "CHECK_ID"
    BY <1>7 DEF ReceiveCheckId, Receive, Received, IInv, ClientOK
  <2> HIDE DEF m
  <2>3. mode[c] = "checking"
    BY <1>1, <1>2, <2>2 DEF Greeted, Never
  <2>4. /\ toServer[c] = <<>> /\ toClient[c] = <<Note("CHECK_ID")>>
        /\ spectating[c] = 0 /\ cplaying[c] = 0
    BY <1>1, <1>2, <2>3 DEF Greeted
  <2>5. toServer'[c] = <<m>> /\ \A d \in Clients : d # c => toServer'[d] = toServer[d]
    <3>1. /\ toServer'[c] = Append(toServer[c], m)
          /\ \A d \in Clients : d # c => toServer'[d] = toServer[d]
      BY <1>2, <2>2, PutOf
    <3>2. Append(<<>>, m) = <<m>>
      OBVIOUS
    <3> QED BY <2>4, <3>1, <3>2
  <2>6. toClient'[c] = <<>>
    <3>1. \A x : Tail(<<x>>) = <<>>
      OBVIOUS
    <3> QED BY <1>5, <2>4, <3>1
  <2>7. Greeted(c)'
    <3>1. /\ Never(<<>>, "SPECTATE") /\ Never(<<>>, "CHECK_ID") /\ Never(<<>>, "CHECK_ID_FAIL")
          /\ Never(<<m>>, "LEAVE") /\ Never(<<m>>, "CHECK_ID")
      BY <2>1, InEmpty DEF Never
    <3> QED BY <1>2, <1>5, <2>1, <2>2, <2>4, <2>5, <2>6, <3>1 DEF Greeted
  <2> QED BY <1>4, <1>5, <1>6, <2>5, <2>7, AgreeOwn
<1>8. CASE ~ReceiveCheckId(c)
  <2>1. UNCHANGED mode /\ (UNCHANGED toServer \/ Put(c, Note("START")))
    BY <1>3, <1>8 DEF ClientPoll, ReceiveConnect, ReceiveDisconnect,
           ReceiveAddPlayer, ReceiveRemovePlayer, ReceiveAssignMaster, ReceiveOther,
           ReceiveStart, ReceivePause, ReceiveResume, ReceiveEnd, clientVars
  <2>2. Head(toClient[c]).type # "CHECK_ID"
    BY <1>3, <1>8 DEF ClientPoll, ReceiveConnect, ReceiveDisconnect,
           ReceiveAddPlayer, ReceiveRemovePlayer, ReceiveAssignMaster, ReceiveOther,
           ReceiveStart, ReceivePause, ReceiveResume, ReceiveEnd, Receive, Received
  <2>3. Note("START") \in ToServerMessage /\ Note("START").type = "START"
    BY Requests DEF Note
  <2>4. /\ In(toServer'[c]) \subseteq In(toServer[c]) \cup {Note("START")}
        /\ \A d \in Clients : d # c => toServer'[d] = toServer[d]
    BY <2>1, <2>3, NextAsked
  <2>5. mode[c] = "online" /\ spectating[c] # 0
    <3>1. Head(<<Note("CHECK_ID")>>).type = "CHECK_ID"
      BY DEF Note
    <3> QED BY <1>1, <1>2, <2>2, <3>1 DEF Greeted
  <2>6. /\ Never(toServer'[c], "LEAVE") /\ Never(toServer'[c], "CHECK_ID")
        /\ Never(toServer'[c], "SPECTATE")
        /\ Never(toClient'[c], "CHECK_ID") /\ Never(toClient'[c], "CHECK_ID_FAIL")
    BY <1>1, <1>2, <1>5, <2>3, <2>4, <2>5 DEF Greeted, Never
  <2>7. Greeted(c)'
    BY <1>2, <1>5, <2>1, <2>5, <2>6 DEF Greeted
  <2> QED BY <1>4, <1>5, <1>6, <2>1, <2>4, <2>7, AgreeOwn
<1> QED BY <1>7, <1>8

LEMMA AgreeAsk ==
  ASSUME IInv, AgreeInv, NEW c \in Clients, NEW m \in ToServerMessage, Ask(c, m),
         m.type \notin {"LEAVE", "CHECK_ID", "SPECTATE"}
  PROVE  AgreeInv'
<1>1. Put(c, m) /\ mode[c] = "online" /\ UNCHANGED <<serverVars, clientVars, toClient>>
  BY DEF Ask
<1>2. /\ UNCHANGED <<state, slot, cmaster, peer, cplaying, spectating, mode, cstate, toClient>>
      /\ \A d \in Clients : View(d)' = View(d)
  BY <1>1 DEF serverVars, clientVars, View
<1>3. Greeted(c) /\ Mirrored(c)
  BY DEF AgreeInv
<1>4. /\ \A d \in Clients : d # c => toServer'[d] = toServer[d]
      /\ In(toServer'[c]) \subseteq In(toServer[c]) \cup {m}
      /\ toServer[c] # <<>> =>
           /\ toServer'[c] # <<>> /\ Head(toServer'[c]) = Head(toServer[c])
           /\ In(Tail(toServer'[c])) \subseteq In(Tail(toServer[c])) \cup {m}
  BY <1>1, NextAsked
<1>5. Mirrored(c)'
  <2>1. \A w \in Views : Mirrors(c, w) => Mirrors(c, w)'
    BY <1>2, MirrorsSame
  <2> QED BY <1>2, <1>3, <2>1 DEF Mirrored
<1>6. Greeted(c)'
  BY <1>1, <1>2, <1>3, <1>4 DEF Greeted, Never
<1> QED BY <1>2, <1>4, <1>5, <1>6, AgreeOwn

LEMMA AgreeConnectTo ==
  ASSUME IInv, Books, AgreeInv, NEW c \in Clients, Connect(c)
  PROVE  AgreeInv'
<1> DEFINE m == Note("CHECK_ID")
<1>1. m.type = "CHECK_ID" /\ In(<<m>>) = {m}
  BY InOne DEF Note
<1>2. /\ ~peer[c] /\ mode[c] = "closed" /\ UNCHANGED <<state, slot>>
      /\ peer'[c] = TRUE /\ cplaying'[c] = 0 /\ cmaster'[c] = FALSE /\ spectating'[c] = 0
      /\ mode'[c] = "checking" /\ port'[c] = [k \in Controllers |-> Unplugged]
      /\ roster'[c] = {} /\ master'[c] = FALSE /\ toServer'[c] = <<m>> /\ toClient'[c] = <<>>
      /\ cstate' = cstate /\ locals' = locals
      /\ \A d \in Clients : d # c =>
           /\ peer'[d] = peer[d] /\ cplaying'[d] = cplaying[d] /\ spectating'[d] = spectating[d]
           /\ cmaster'[d] = cmaster[d] /\ mode'[d] = mode[d] /\ port'[d] = port[d]
           /\ roster'[d] = roster[d] /\ master'[d] = master[d]
           /\ toServer'[d] = toServer[d] /\ toClient'[d] = toClient[d]
  BY DEF Connect, IInv, ServerOK, ClientOK, RequestsOK, RepliesOK
<1> HIDE DEF m
<1>3. Greeted(c) /\ cstate[c] = "OFF"
  BY <1>2 DEF AgreeInv, Greeted
<1>4. cplaying[c] = 0 /\ Owned(c) = {} /\ ~cmaster[c]
  <2>1. cplaying[c] = 0
    BY <1>2 DEF Books
  <2>2. Owned(c) = {}
    BY <2>1, NobodyOwned DEF Books, SeatsAccounted
  <2> QED BY <2>1, <2>2 DEF Books
<1>5. UNCHANGED cmaster
  <2>1. \A d \in Clients : cmaster'[d] = cmaster[d]
    BY <1>2, <1>4, ZenonT(40) DEF IInv, ServerOK
  <2>2. cmaster \in [Clients -> BOOLEAN] /\ cmaster' = [cmaster EXCEPT ![c] = FALSE]
    BY DEF Connect, IInv, ServerOK
  <2> QED BY <2>1, <2>2
<1>6. \A d \in Clients : d # c => View(d)' = View(d)
  BY <1>2 DEF View
<1>7. Greeted(c)'
  <2>1. /\ Never(<<m>>, "LEAVE") /\ Never(<<>>, "CHECK_ID_FAIL") 
    BY <1>1, InEmpty DEF Never
  <2> QED BY <1>2, <1>3, <2>1 DEF Greeted, m
<1>8. Mirrored(c)'
  <2>1. View(c)' \in Views
    BY <1>2, ZenonT(40) DEF View, Views, IInv, ClientOK
  <2>2. PICK v \in Views : v = View(c)'
    BY <2>1
  <2>3. Reaches(<<>>, v, v)
    BY ReachNothing
  <2>4. /\ v.port = [k \in Controllers |-> Unplugged] /\ v.phase = "OFF" /\ v.master = FALSE
        /\ v.roster = {}
    BY <1>2, <1>3, <2>2 DEF View
  <2>5. \A k \in Controllers, p \in Players : slot[p] # <<c, k>>
    BY <1>4, OwnedBy DEF IInv, ServerOK
  <2>6. \A k \in Controllers, p \in Players : v.port[k] # p
    BY <2>4 DEF Players, Unplugged
  <2>7. Mirrors(c, v)'
    <3>1. \A k \in Controllers, p \in Players : v.port[k] = p <=> slot'[p] = <<c, k>>
      BY <1>2, <2>5, <2>6
    <3>2. v.master = cmaster'[c] /\ spectating'[c] = 0
      BY <1>2, <2>4
    <3> QED BY <2>4, <3>1, <3>2 DEF Mirrors
  <2> QED BY <1>2, <2>2, <2>3, <2>7 DEF Mirrored
<1> QED BY <1>2, <1>5, <1>6, <1>7, <1>8, AgreeOwn

LEMMA AgreeUser ==
  ASSUME Steady, IInv, Books, AgreeInv, NEW c \in Clients, User(c)
  PROVE  AgreeInv'
<1>1. /\ ~StopWatching(c) /\ ~FallBehind(c) /\ ~Leave(c)
      /\ \A k \in Controllers : ~EarlyJoin(c, k)
  BY DEF Steady, StopWatching, FallBehind, Leave, EarlyJoin
<1>2. ~ClientLost(c)
  BY DEF Steady, ClientLost, AgreeInv, Greeted
<1>3. CASE Start(c) \/ Pause(c) \/ Resume(c) \/ End(c)
  <2>1. \A t \in {"START", "PAUSE", "RESUME", "END"} :
          Note(t) \in ToServerMessage /\ Note(t).type \notin {"LEAVE", "CHECK_ID", "SPECTATE"}
    BY Requests DEF Note
  <2> QED BY <1>3, <2>1, AgreeAsk DEF Start, Pause, Resume, End
<1>4. ASSUME NEW k \in Controllers, Join(c, k) \/ Back(c, k)
      PROVE  AgreeInv'
  <2>1. \A p : /\ Request("CONNECT", k, p).type = "CONNECT"
               /\ Request("DISCONNECT", k, p).type = "DISCONNECT"
    BY DEF Request
  <2>2. CASE Join(c, k)
    <3>1. Request("CONNECT", k, -1) \in ToServerMessage
      BY Requests
    <3> QED BY <2>1, <2>2, <3>1, AgreeAsk DEF Join
  <2>3. CASE Back(c, k)
    <3>1. port[c][k] \in Players
      BY <2>3 DEF Back, IInv, ClientOK
    <3>2. Request("DISCONNECT", k, port[c][k]) \in ToServerMessage
      BY <3>1, Requests
    <3> QED BY <2>1, <2>3, <3>2, AgreeAsk DEF Back
  <2> QED BY <1>4, <2>2, <2>3
<1> QED BY <1>1, <1>2, <1>3, <1>4, AgreeConnectTo DEF User

LEMMA AgreeNext ==
  ASSUME Steady, IInv, IInv', SeatInv, AgreeInv, [Next]_vars
  PROVE  AgreeInv'
<1>1. CASE UNCHANGED vars
  <2>1. UNCHANGED <<state, slot, peer, cplaying, cmaster, spectating, mode, cstate,
                    toServer, toClient>>
        /\ \A c \in Clients : View(c)' = View(c)
    BY <1>1 DEF vars, serverVars, clientVars, View
  <2>2. \A c \in Clients : Greeted(c)'
    BY <2>1 DEF AgreeInv, Greeted
  <2>3. \A c \in Clients, w \in Views : Mirrors(c, w) => Mirrors(c, w)'
    BY <2>1, MirrorsSame
  <2>4. \A c \in Clients : Mirrored(c)'
    BY <2>1, <2>3 DEF AgreeInv, Mirrored
  <2>5. HasMaster'
    BY <2>1 DEF AgreeInv, HasMaster, Taken
  <2> QED BY <2>2, <2>4, <2>5 DEF AgreeInv
<1>2. Books
  BY DEF SeatInv
<1> QED BY <1>1, <1>2, NoneBreaks, AgreeServerPoll, AgreeClientPoll, AgreeUser DEF Next

LEMMA AgreeInit ==
  ASSUME Init
  PROVE  AgreeInv
  BY InEmpty DEF Init, AgreeInv, Greeted, Mirrored, HasMaster, Never, Taken

-----------------------------------------------------------------------------
(* The theorem.                                                             *)

LEMMA AgreeInvariant ==
  ASSUME Steady
  PROVE  Spec => [](IInv /\ SeatInv /\ AgreeInv)
<1>1. Orderly
  BY DEF Steady, Orderly
<1>2. Spec => [](IInv /\ SeatInv)
  BY <1>1, SeatInvariant
<1>3. Init => AgreeInv
  BY AgreeInit
<1>4. IInv /\ IInv' /\ SeatInv /\ AgreeInv /\ [Next]_vars => AgreeInv'
  BY AgreeNext
<1> QED BY <1>2, <1>3, <1>4, PTL DEF Spec

\* A client that has read everything is in agreement with the server.
LEMMA SettledAgrees ==
  ASSUME IInv, SeatInv, AgreeInv
  PROVE  SettledAgreement
<1>1. ASSUME NEW c \in Clients, Settled(c)
      PROVE  Mirrors(c, View(c)) /\ Greeted(c)
  <2>1. Greeted(c) /\ Mirrored(c)
    BY DEF AgreeInv
  <2>2. mode[c] # "closed" /\ toClient[c] = <<>>
    BY <1>1 DEF Settled
  <2> QED BY <2>1, <2>2, ReachedAlready DEF Mirrored
<1>2. MasterUnique
  BY DEF SeatInv, Books, AgreeInv, HasMaster, MasterUnique
<1>3. ControlAgreement
  <2> SUFFICES ASSUME NEW c \in Clients, Settled(c)
               PROVE  /\ \A k \in Controllers, p \in Players : port[c][k] = p <=> slot[p] = <<c, k>>
                      /\ c \in Audience => roster[c] \cap locals[c] = Owned(c)
    BY DEF ControlAgreement
  <2>1. c \in Audience => spectating[c] # 0
    BY <1>1, Roles DEF Settled
  <2> QED BY <1>1, <2>1 DEF Mirrors, View
<1>4. MasterKnown
  BY <1>1 DEF MasterKnown, Mirrors, View
<1>5. PhaseAgreement
  <2> SUFFICES ASSUME NEW c \in InGame, Settled(c)
               PROVE  cstate[c] = state
    BY DEF PhaseAgreement
  <2>1. c \in Clients /\ peer[c]
    BY DEF InGame
  <2>2. spectating[c] = 1
    BY <1>1, <2>1, Roles
  <2> QED BY <1>1, <2>1, <2>2 DEF Mirrors, View
<1> QED BY <1>2, <1>3, <1>4, <1>5 DEF SettledAgreement

(* Where no connection breaks and users join, leave their seats and start,  *)
(* pause and end games in any order, a client that has read all that was    *)
(* sent to it is in agreement with the server: its controllers are plugged  *)
(* into the slots it was given, the players it takes for its own are those, *)
(* it knows whether it is the master, and it is in the server's phase.  A   *)
(* game with players always has one master.                                 *)
THEOREM AgreementReached ==
  ASSUME Steady
  PROVE  Spec => []SettledAgreement
<1>1. IInv /\ SeatInv /\ AgreeInv => SettledAgreement
  BY SettledAgrees
<1> QED BY <1>1, AgreeInvariant, PTL
=============================================================================
