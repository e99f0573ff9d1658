-------------------------- MODULE ConnectionProofs --------------------------
(***************************************************************************)
(* Proofs about Connection, for every number of peers and of attempts to   *)
(* connect, and for every number of datagrams under way; and about what    *)
(* stands beside it where clients come and go, from the theorems on        *)
(* Lockstep and JoynetSession.                                             *)
(***************************************************************************)
EXTENDS MCRemoval, TLAPS, FiniteSetTheorems, NaturalsInduction, WellFoundedInduction

Bounds == NumPeers \in Nat /\ NumAttempts \in Nat

\* States in which the application takes a peer to be connected.
Known == {"CONNECTED", "DISCONNECTING", "ACKNOWLEDGING_DISCONNECT", "ZOMBIE"}

\* A peer of the server never asks to connect.  While it is live it has the
\* address of an attempt.  It owes an acknowledgement of DISCONNECT only when
\* it has received one, and has been announced.
ServerPeer(x) ==
  /\ x \in PeerType
  /\ x.state \notin {"NONE", "CONNECTING"}
  /\ Live(x) => x.remote \in Attempts
  /\ "DISCONNECT" \in x.due => x.state = "ACKNOWLEDGING_DISCONNECT"

ClientPeer(x) == x \in PeerType /\ x.remote \in Peers \cup {0}

\* The table of clients and the entries in the peers, each the inverse of the other.
Table ==
  /\ slot \in [Peers -> Peers \cup {0}]
  /\ entry \in [Peers -> Peers \cup {0}]
  /\ open => /\ \A p \in Announced : entry[p] \in Peers /\ slot[entry[p]] = p
             /\ \A i \in Peers : slot[i] # 0 => slot[i] \in Announced /\ entry[slot[i]] = i

\* An attempt has one peer of the server at most.
OneEach == \A p, q \in Peers : sv[p].remote = sv[q].remote /\ sv[p].remote # 0 => p = q

ServerOK == sv = [p \in Peers |-> sv[p]] /\ \A p \in Peers : ServerPeer(sv[p])
ClientOK == cl = [c \in Attempts |-> cl[c]] /\ \A c \in Attempts : ClientPeer(cl[c])

IInv ==
  /\ ServerOK /\ ClientOK /\ Table /\ OneEach
  /\ net \subseteq Datagram /\ open \in BOOLEAN

-----------------------------------------------------------------------------
(* Numbers and sets.                                                        *)

\* A set of peers has a first one.
LEMMA LeastIn ==
  ASSUME NEW S \in SUBSET Nat, S # {}
  PROVE  Least(S) \in S
<1> DEFINE R == {pair \in Nat \X Nat : pair[1] < pair[2]}
<1>1. IsWellFoundedOn(R, Nat)
  BY NatLessThanWellFounded DEF OpToRel
<1>2. \A p, q \in S : ~(<<q, p>> \in R) => p <= q
  OBVIOUS
<1> HIDE DEF R
<1>3. \E p \in S : \A q \in S : ~(<<q, p>> \in R)
  BY <1>1, WFMin
<1> QED BY <1>2, <1>3 DEF Least

LEMMA LeastPeer ==
  ASSUME Bounds, NEW S \in SUBSET Peers, S # {}
  PROVE  Least(S) \in S
BY LeastIn DEF Bounds, Peers

\* As long as a peer is not announced, the table has a free entry: each that
\* is taken is of another announced peer.
LEMMA FreeEntry ==
  ASSUME Bounds, Table, open, NEW p \in Peers, p \notin Announced
  PROVE  FreeSlots # {}
<1> SUFFICES ASSUME FreeSlots = {} PROVE FALSE
  OBVIOUS
<1>1. \A i \in Peers : slot[i] # 0
  BY DEF FreeSlots
<1>2. \A i \in Peers : slot[i] \in Peers \ {p}
  BY <1>1 DEF Table, Announced
<1>3. \A i, j \in Peers : slot[i] = slot[j] => i = j
  BY <1>1 DEF Table
<1>4. slot \in Injection(Peers, Peers \ {p})
  BY <1>2, <1>3 DEF Table, Injection, IsInjective
<1>5. IsFiniteSet(Peers)
  BY FS_Interval DEF Peers, Bounds
<1>6. IsFiniteSet(Peers \ {p}) /\ Cardinality(Peers \ {p}) = Cardinality(Peers) - 1
  BY <1>5, FS_RemoveElement
<1>7. Cardinality(Peers) <= Cardinality(Peers \ {p})
  BY <1>4, <1>6, FS_Injection
<1>8. Cardinality(Peers) \in Nat
  BY <1>5, FS_CardinalityType
<1> QED BY <1>6, <1>7, <1>8

-----------------------------------------------------------------------------
(* What happens to one peer of the server.                                  *)

\* What a service of the host may make of a live peer: it says so whenever the
\* application's view of the peer changes, and only then.
Reported(x, r) ==
  /\ ServerPeer(r.peer) /\ r.peer.remote \in {x.remote, 0}
  /\ r.event \in {"none", "CONNECT", "DISCONNECT"}
  /\ r.event = "CONNECT" => x.state \notin Known /\ r.peer.state \in Known
  /\ r.event = "DISCONNECT" => x.state \in Known /\ r.peer.state \notin Known
  /\ r.event = "none" => (x.state \in Known <=> r.peer.state \in Known)

LEMMA ResetOK ==
  ASSUME NEW x, ServerPeer(x)
  PROVE  /\ ServerPeer(Reset(x)) /\ Reset(x).remote = 0 /\ Reset(x).state = "DISCONNECTED"
         /\ ServerPeer(ResetQueues(x)) /\ ResetQueues(x).remote = x.remote
         /\ ResetQueues(x).state = x.state
BY DEF ServerPeer, PeerType, Reset, ResetQueues, Live

LEMMA DisconnectedReported ==
  ASSUME NEW x, ServerPeer(x), Live(x)
  PROVE  Reported(x, Disconnected(x))
<1>1. x.state \in {"ACKNOWLEDGING_CONNECT", "CONNECTED", "DISCONNECTING", "ACKNOWLEDGING_DISCONNECT"}
  BY DEF ServerPeer, PeerType, Live
<1> QED BY <1>1, ResetOK DEF Reported, Disconnected, Quiet, Told, Known

LEMMA DispatchReported ==
  ASSUME NEW x, ServerPeer(x), x.state = "ZOMBIE"
  PROVE  Reported(x, Told(Reset(x), "DISCONNECT"))
BY ResetOK DEF Reported, Told, Known

LEMMA AckReported ==
  ASSUME NEW x, ServerPeer(x), Live(x), NEW cmd
  PROVE  Reported(x, OnAck(x, cmd))
<1> DEFINE y == [x EXCEPT !.sent = @ \ {cmd}]
           z == [y EXCEPT !.state = "CONNECTED"]
<1>1. ServerPeer(y) /\ y.state = x.state /\ y.remote = x.remote /\ Live(y)
  BY DEF ServerPeer, PeerType, Live
<1>2. CASE cmd \notin x.sent
  BY <1>2 DEF OnAck, Reported, Quiet
<1>3. CASE cmd \in x.sent /\ x.state = "ACKNOWLEDGING_CONNECT" /\ cmd = "VERIFY_CONNECT"
  <2>1. ServerPeer(z) /\ z.state = "CONNECTED" /\ z.remote = x.remote
    BY <1>1, <1>3 DEF ServerPeer, PeerType, Live
  <2>2. OnAck(x, cmd) = Told(z, "CONNECT")
    BY <1>3 DEF OnAck
  <2> HIDE DEF z
  <2> QED BY <1>3, <2>1, <2>2 DEF Reported, Told, Known
<1>4. CASE cmd \in x.sent /\ x.state = "DISCONNECTING" /\ cmd = "DISCONNECT"
  <2>1. OnAck(x, cmd) = Disconnected(y)
    BY <1>4 DEF OnAck
  <2> HIDE DEF y
  <2>2. Reported(y, Disconnected(y))
    BY <1>1, DisconnectedReported
  <2> QED BY <1>1, <2>1, <2>2 DEF Reported
<1>5. CASE /\ cmd \in x.sent
           /\ ~(x.state = "ACKNOWLEDGING_CONNECT" /\ cmd = "VERIFY_CONNECT")
           /\ ~(x.state = "DISCONNECTING" /\ cmd = "DISCONNECT")
  <2>1. OnAck(x, cmd) = Quiet(y)
    BY <1>5 DEF OnAck
  <2> HIDE DEF y
  <2> QED BY <1>1, <2>1 DEF Reported, Quiet
<1> QED BY <1>2, <1>3, <1>4, <1>5

LEMMA DisconnectReported ==
  ASSUME NEW x, ServerPeer(x), Live(x)
  PROVE  Reported(x, Quiet(OnDisconnect(x)))
<1>1. CASE x.state = "ACKNOWLEDGING_DISCONNECT"
  BY <1>1 DEF OnDisconnect, Reported, Quiet, Known, ServerPeer, PeerType, Live, Commands
<1>2. CASE x.state = "DISCONNECTING"
  BY <1>2 DEF OnDisconnect, Reported, Quiet, Known, ServerPeer, PeerType, Live, Commands,
              Doomed, ResetQueues
<1>3. CASE x.state = "CONNECTED"
  BY <1>3 DEF OnDisconnect, Reported, Quiet, Known, ServerPeer, PeerType, Live, Commands,
              ResetQueues
<1>4. CASE x.state = "ACKNOWLEDGING_CONNECT"
  BY <1>4, ResetOK DEF OnDisconnect, Reported, Quiet, Known
<1> QED BY <1>1, <1>2, <1>3, <1>4 DEF ServerPeer, PeerType, Live

LEMMA PingReported ==
  ASSUME NEW x, ServerPeer(x), Live(x)
  PROVE  Reported(x, Quiet(OnPing(x)))
BY DEF OnPing, Reported, Quiet, Known, ServerPeer, PeerType, Live, Commands

LEMMA VerifyReported ==
  ASSUME NEW x, ServerPeer(x), Live(x), NEW d
  PROVE  Reported(x, OnVerify(x, d))
BY DEF OnVerify, Reported, Quiet, Known, ServerPeer, PeerType, Live, Commands

\* Whatever arrives for a live peer.
LEMMA HandledReported ==
  ASSUME NEW x, ServerPeer(x), Live(x), NEW d \in Datagram
  PROVE  Reported(x, Handled(x, d))
<1>1. CASE d.ack
  BY <1>1, AckReported DEF Handled
<1>2. CASE ~d.ack
  <2>1. Reported(x, Quiet(x))
    BY DEF Reported, Quiet
  <2>2. CASE d.cmd = "VERIFY_CONNECT"
    BY <1>2, <2>2, VerifyReported DEF Handled
  <2>3. CASE d.cmd = "DISCONNECT"
    BY <1>2, <2>3, DisconnectReported DEF Handled
  <2>4. CASE d.cmd = "PING"
    BY <1>2, <2>4, PingReported DEF Handled
  <2>5. CASE d.cmd = "CONNECT"
    BY <1>2, <2>1, <2>5 DEF Handled
  <2> QED BY <2>2, <2>3, <2>4, <2>5 DEF Datagram, Commands
<1> QED BY <1>1, <1>2

-----------------------------------------------------------------------------
(* The table of clients follows the events.                                 *)

LEMMA EventTable ==
  ASSUME Bounds, Table, open, open', NEW p \in Peers, NEW evt, Event(p, evt),
         evt \in {"none", "CONNECT", "DISCONNECT"},
         evt = "CONNECT" => p \notin Announced /\ Announced' = Announced \cup {p},
         evt = "DISCONNECT" => p \in Announced /\ Announced' = Announced \ {p},
         evt = "none" => Announced' = Announced
  PROVE  Table'
<1>1. CASE evt = "CONNECT"
  <2> DEFINE i == Least(FreeSlots)
  <2>1. FreeSlots # {}
    BY <1>1, FreeEntry
  <2>2. i \in Peers /\ slot[i] = 0
    BY <2>1, LeastPeer DEF FreeSlots
  <2>3. slot' = [slot EXCEPT ![i] = p] /\ entry' = [entry EXCEPT ![p] = i]
    BY <1>1, <2>1 DEF Event
  <2> HIDE DEF i
  <2>4. slot' \in [Peers -> Peers \cup {0}] /\ entry' \in [Peers -> Peers \cup {0}]
    BY <2>2, <2>3 DEF Table
  <2>5. \A q \in Announced' : entry'[q] \in Peers /\ slot'[entry'[q]] = q
    <3> SUFFICES ASSUME NEW q \in Announced' PROVE entry'[q] \in Peers /\ slot'[entry'[q]] = q
      OBVIOUS
    <3>1. CASE q = p
      BY <2>2, <2>3, <3>1 DEF Table
    <3>2. CASE q # p
      <4>1. q \in Announced
        BY <1>1, <3>2
      <4>2. entry[q] \in Peers /\ slot[entry[q]] = q /\ q \in Peers /\ q # 0
        BY <4>1 DEF Table, Announced, Peers, Bounds
      <4>3. entry[q] # i
        BY <2>2, <4>2
      <4> QED BY <2>2, <2>3, <3>2, <4>2, <4>3 DEF Table
    <3> QED BY <3>1, <3>2
  <2>6. \A j \in Peers : slot'[j] # 0 => slot'[j] \in Announced' /\ entry'[slot'[j]] = j
    <3> SUFFICES ASSUME NEW j \in Peers, slot'[j] # 0
                 PROVE  slot'[j] \in Announced' /\ entry'[slot'[j]] = j
      OBVIOUS
    <3>1. CASE j = i
      BY <1>1, <2>2, <2>3, <3>1 DEF Table
    <3>2. CASE j # i
      <4>1. slot'[j] = slot[j] /\ slot[j] \in Announced /\ entry[slot[j]] = j
        BY <2>3, <3>2 DEF Table
      <4>2. slot[j] # p /\ slot[j] \in Peers
        BY <1>1, <4>1 DEF Announced
      <4> QED BY <1>1, <2>3, <4>1, <4>2 DEF Table
    <3> QED BY <3>1, <3>2
  <2> QED BY <2>4, <2>5, <2>6 DEF Table
<1>2. CASE evt = "DISCONNECT"
  <2>1. entry[p] \in Peers /\ slot[entry[p]] = p
    BY <1>2 DEF Table
  <2>2. entry[p] # 0
    BY <2>1 DEF Peers, Bounds
  <2>3. slot' = [slot EXCEPT ![entry[p]] = 0] /\ entry' = entry
    BY <1>2, <2>2 DEF Event
  <2>4. slot' \in [Peers -> Peers \cup {0}] /\ entry' \in [Peers -> Peers \cup {0}]
    BY <2>1, <2>3 DEF Table
  <2>5. \A q \in Announced' : entry'[q] \in Peers /\ slot'[entry'[q]] = q
    <3> SUFFICES ASSUME NEW q \in Announced' PROVE entry'[q] \in Peers /\ slot'[entry'[q]] = q
      OBVIOUS
    <3>1. q \in Announced /\ q # p
      BY <1>2
    <3>2. entry[q] \in Peers /\ slot[entry[q]] = q
      BY <3>1 DEF Table
    <3>3. entry[q] # entry[p]
      BY <2>1, <3>1, <3>2
    <3> QED BY <2>3, <3>2, <3>3 DEF Table
  <2>6. \A j \in Peers : slot'[j] # 0 => slot'[j] \in Announced' /\ entry'[slot'[j]] = j
    <3> SUFFICES ASSUME NEW j \in Peers, slot'[j] # 0
                 PROVE  slot'[j] \in Announced' /\ entry'[slot'[j]] = j
      OBVIOUS
    <3>1. j # entry[p] /\ slot'[j] = slot[j]
      BY <2>1, <2>3 DEF Table
    <3>2. slot[j] \in Announced /\ entry[slot[j]] = j
      BY <3>1 DEF Table
    <3> QED BY <1>2, <2>3, <3>1, <3>2
  <2> QED BY <2>4, <2>5, <2>6 DEF Table
<1>3. CASE evt = "none"
  BY <1>3 DEF Event, Table
<1> QED BY <1>1, <1>2, <1>3

\* One peer of the server becomes another, and it is announced or not as before.
LEMMA ServerPeerStep ==
  ASSUME ServerOK, NEW p \in Peers, NEW y, ServerPeer(y), sv' = [sv EXCEPT ![p] = y]
  PROVE  /\ ServerOK'
         /\ \A q \in Peers : sv'[q] = IF q = p THEN y ELSE sv[q]
         /\ Announced' = IF y.state \in Known THEN Announced \cup {p} ELSE Announced \ {p}
<1>1. \A q \in Peers : sv'[q] = IF q = p THEN y ELSE sv[q]
  BY DEF ServerOK
<1>2. ServerOK'
  BY <1>1 DEF ServerOK
<1>3. Announced' = IF y.state \in Known THEN Announced \cup {p} ELSE Announced \ {p}
  BY <1>1 DEF Announced, Known
<1> QED BY <1>1, <1>2, <1>3

LEMMA OneEachStep ==
  ASSUME OneEach, NEW p \in Peers, NEW y,
         \A q \in Peers : sv'[q] = IF q = p THEN y ELSE sv[q],
         \/ y.remote \in {sv[p].remote, 0}
         \/ \A q \in Peers : sv[q].remote # y.remote
  PROVE  OneEach'
BY DEF OneEach

\* What is reported of a peer keeps the table right.
LEMMA BecomesOK ==
  ASSUME Bounds, ServerOK, Table, OneEach, open, open',
         NEW p \in Peers, NEW r, Reported(sv[p], r), Becomes(p, r)
  PROVE  ServerOK' /\ Table' /\ OneEach'
<1>1. sv' = [sv EXCEPT ![p] = r.peer] /\ Event(p, r.event) /\ ServerPeer(r.peer)
  BY DEF Becomes, Reported
<1>2. /\ ServerOK'
      /\ \A q \in Peers : sv'[q] = IF q = p THEN r.peer ELSE sv[q]
      /\ Announced' = IF r.peer.state \in Known THEN Announced \cup {p} ELSE Announced \ {p}
  BY <1>1, ServerPeerStep
<1>3. p \in Announced <=> sv[p].state \in Known
  BY DEF Announced, Known
<1>4. Table'
  BY <1>1, <1>2, <1>3, EventTable DEF Reported
<1>5. OneEach'
  BY <1>2, OneEachStep DEF Reported
<1> QED BY <1>2, <1>4, <1>5

-----------------------------------------------------------------------------
(* Datagrams, and peers of clients.                                         *)

LEMMA OutgoingType ==
  ASSUME NEW x \in PeerType, NEW late \in BOOLEAN, NEW ours \in BOOLEAN,
         NEW c \in Attempts, NEW p \in Peers \cup {0}
  PROVE  Outgoing(x, late, ours, c, p) \subseteq Datagram
<1>1. x.due \subseteq Commands /\ Flushed(x, late).sent \subseteq Commands
  BY DEF PeerType, Flushed, Doomed, Commands
<1>2. x.inS \in Sessions /\ x.outS \in Sessions /\ -1 \in Sessions
  BY DEF PeerType, Sessions
<1>3. /\ (IF x.remote # 0 THEN x.outS ELSE -1) \in Sessions
      /\ \A cmd, ack : /\ (IF cmd = "VERIFY_CONNECT" /\ ~ack THEN x.outS ELSE -1) \in Sessions
                       /\ (IF cmd = "VERIFY_CONNECT" /\ ~ack THEN x.inS ELSE -1) \in Sessions
  BY <1>2
<1>4. \A d \in Outgoing(x, late, ours, c, p) : d \in Datagram
  <2> SUFFICES ASSUME NEW d \in Outgoing(x, late, ours, c, p) PROVE d \in Datagram
    OBVIOUS
  <2>1. PICK cmd \in Commands, ack \in BOOLEAN :
          d = [up |-> ours, c |-> c, p |-> p, cmd |-> cmd, ack |-> ack,
               session |-> IF x.remote # 0 THEN x.outS ELSE -1,
               inS |-> IF cmd = "VERIFY_CONNECT" /\ ~ack THEN x.outS ELSE -1,
               outS |-> IF cmd = "VERIFY_CONNECT" /\ ~ack THEN x.inS ELSE -1]
    BY <1>1 DEF Outgoing
  <2> QED BY <1>3, <2>1 DEF Datagram
<1> QED BY <1>4

LEMMA SentType ==
  ASSUME net \subseteq Datagram, NEW ds \in SUBSET Datagram, Sent(ds)
  PROVE  net' \subseteq Datagram
BY DEF Sent

LEMMA FlushedReported ==
  ASSUME NEW x, ServerPeer(x), Live(x), NEW late \in BOOLEAN
  PROVE  Reported(x, Quiet(Flushed(x, late)))
BY DEF Reported, Quiet, Flushed, Doomed, Pinging, ServerPeer, PeerType, Live, Known, Commands

LEMMA DisconnectingServer ==
  ASSUME NEW x, ServerPeer(x)
  PROVE  ServerPeer(Disconnecting(x))
BY DEF Disconnecting, ResetQueues, ServerPeer, PeerType, Live, Commands

LEMMA ClientOps ==
  ASSUME NEW x, ClientPeer(x)
  PROVE  /\ ClientPeer(Reset(x)) /\ ClientPeer(ResetQueues(x)) /\ ClientPeer(Doomed(x))
         /\ \A late \in BOOLEAN : ClientPeer(Flushed(x, late))
         /\ ClientPeer(Disconnecting(x)) /\ ClientPeer(Doomed(ResetQueues(x)))
<1>1. ClientPeer(Reset(x)) /\ ClientPeer(ResetQueues(x)) /\ ClientPeer(Doomed(x))
  BY DEF ClientPeer, PeerType, Reset, ResetQueues, Doomed
<1>2. \A late \in BOOLEAN : ClientPeer(Flushed(x, late))
  BY DEF ClientPeer, PeerType, Flushed, Doomed, Pinging, Commands
<1>3. ClientPeer(Disconnecting(x))
  BY DEF ClientPeer, PeerType, Disconnecting, ResetQueues, Commands
<1>4. ClientPeer(Doomed(ResetQueues(x)))
  BY DEF ClientPeer, PeerType, Doomed, ResetQueues
<1> QED BY <1>1, <1>2, <1>3, <1>4

LEMMA ClientDisconnected ==
  ASSUME NEW x, ClientPeer(x)
  PROVE  ClientPeer(Disconnected(x).peer)
BY ClientOps DEF Disconnected, Quiet, Told

LEMMA ClientHandled ==
  ASSUME NEW x, ClientPeer(x), NEW d \in Datagram
  PROVE  ClientPeer(Handled(x, d).peer)
<1>1. ClientPeer(OnAck(x, d.cmd).peer)
  <2> DEFINE y == [x EXCEPT !.sent = @ \ {d.cmd}]
             z == [y EXCEPT !.state = "CONNECTED"]
  <2>1. ClientPeer(y) /\ ClientPeer(z)
    BY DEF ClientPeer, PeerType
  <2>2. OnAck(x, d.cmd).peer \in {x, y, z, Disconnected(y).peer}
    BY DEF OnAck, Quiet, Told
  <2> HIDE DEF y, z
  <2> QED BY <2>1, <2>2, ClientDisconnected
<1>2. ClientPeer(OnVerify(x, d).peer)
  BY DEF ClientPeer, PeerType, OnVerify, Quiet, Told, Datagram, Commands
<1>3. ClientPeer(OnDisconnect(x))
  BY ClientOps, ZenonT(40) DEF ClientPeer, PeerType, OnDisconnect, ResetQueues, Commands
<1>4. ClientPeer(OnPing(x))
  BY DEF ClientPeer, PeerType, OnPing, Commands
<1> QED BY <1>1, <1>2, <1>3, <1>4 DEF Handled, Quiet

LEMMA FreshOK ==
  ASSUME Bounds
  PROVE  /\ ServerPeer(Fresh("GONE")) /\ ServerPeer(Fresh("DISCONNECTED"))
         /\ ClientPeer(Fresh("GONE")) /\ ClientPeer(Fresh("NONE"))
         /\ ClientPeer([Fresh("CONNECTING") EXCEPT !.out = {"CONNECT"}])
         /\ \A s : Fresh(s).remote = 0 /\ Fresh(s).state = s
BY DEF Fresh, ServerPeer, ClientPeer, PeerType, Live, Sessions, Commands, Peers, Bounds

\* A client's own peer changes and datagrams come and go: nothing of the server does.
LEMMA ClientOnly ==
  ASSUME IInv, UNCHANGED <<sv, slot, entry, open>>, ClientOK', net' \subseteq Datagram
  PROVE  IInv'
BY DEF IInv, ServerOK, Table, OneEach, Announced

LEMMA ClientPeerStep ==
  ASSUME ClientOK, NEW c \in Attempts, NEW y, ClientPeer(y), cl' = [cl EXCEPT ![c] = y]
  PROVE  ClientOK'
BY DEF ClientOK

-----------------------------------------------------------------------------
(* The server's actions.                                                    *)

LEMMA ServerReceiveOK ==
  ASSUME Bounds, IInv, NEW d \in net, ServerReceive(d)
  PROVE  IInv'
<1>1. /\ open /\ open' /\ net' \subseteq Datagram /\ d \in Datagram /\ cl' = cl /\ open' = open
  BY DEF ServerReceive, IInv
<1>2. ClientOK' /\ open' \in BOOLEAN
  BY <1>1 DEF IInv, ClientOK
<1>3. ServerOK' /\ Table' /\ OneEach'
  <2>1. CASE UNCHANGED <<sv, slot, entry>>
    BY <1>1, <2>1 DEF IInv, ServerOK, Table, OneEach, Announced
  <2>2. CASE d.p = 0 /\ AcceptConnect(d) /\ ~UNCHANGED <<sv, slot, entry>>
    <3> DEFINE unused == {p \in Peers : sv[p].state = "DISCONNECTED"}
               p == Least(unused)
               y == [sv[p] EXCEPT
                      !.state = "ACKNOWLEDGING_CONNECT", !.remote = d.c, !.out = {"VERIFY_CONNECT"},
                      !.inS = NextSession(@), !.outS = NextSession(@)]
    <3>1. unused # {} /\ (\A q \in Peers : sv[q].remote # d.c) /\ Becomes(p, Quiet(y))
      BY <2>2 DEF AcceptConnect
    <3>2. p \in Peers /\ sv[p].state = "DISCONNECTED"
      BY <3>1, LeastPeer
    <3> HIDE DEF p, unused
    <3>3. ServerPeer(sv[p]) /\ d.c \in Attempts
      BY <1>1, <3>2 DEF IInv, ServerOK, Datagram
    <3>4. \A s \in Sessions : NextSession(s) \in Sessions
      BY DEF NextSession, Next4, Sessions
    <3>5. ServerPeer(y) /\ y.state = "ACKNOWLEDGING_CONNECT" /\ y.remote = d.c
      BY <3>2, <3>3, <3>4 DEF ServerPeer, PeerType, Live, Commands
    <3> HIDE DEF y
    <3>6. sv' = [sv EXCEPT ![p] = y] /\ Event(p, "none")
      BY <3>1 DEF Becomes, Quiet
    <3>7. /\ ServerOK' /\ Announced' = Announced \ {p}
          /\ \A q \in Peers : sv'[q] = IF q = p THEN y ELSE sv[q]
      BY <3>2, <3>5, <3>6, ServerPeerStep DEF IInv, Known
    <3>8. Announced' = Announced
      BY <3>2, <3>7 DEF Announced
    <3>9. Table'
      BY <1>1, <3>2, <3>6, <3>8, EventTable DEF IInv
    <3>10. OneEach'
      BY <3>1, <3>2, <3>5, <3>7, OneEachStep DEF IInv
    <3> QED BY <3>7, <3>9, <3>10
  <2>3. CASE d.p # 0 /\ MeantFor(d.p, d) /\ Becomes(d.p, Handled(sv[d.p], d))
    <3>1. d.p \in Peers /\ Live(sv[d.p]) /\ ServerPeer(sv[d.p])
      BY <1>1, <2>3 DEF Datagram, MeantFor, IInv, ServerOK
    <3>2. Reported(sv[d.p], Handled(sv[d.p], d))
      BY <1>1, <3>1, HandledReported
    <3> QED BY <1>1, <2>3, <3>1, <3>2, BecomesOK DEF IInv
  <2> QED BY <2>1, <2>2, <2>3 DEF ServerReceive
<1> QED BY <1>1, <1>2, <1>3 DEF IInv

LEMMA ServerReports ==
  ASSUME Bounds, IInv, open, NEW p \in Peers, NEW r, Reported(sv[p], r), Becomes(p, r),
         UNCHANGED <<cl, open>>, net' \subseteq Datagram
  PROVE  IInv'
<1>1. ServerOK' /\ Table' /\ OneEach'
  BY BecomesOK DEF IInv
<1>2. ClientOK' /\ open' \in BOOLEAN
  BY DEF IInv, ClientOK
<1> QED BY <1>1, <1>2 DEF IInv

LEMMA ServerDispatchOK ==
  ASSUME Bounds, IInv, NEW p \in Peers, ServerDispatch(p)
  PROVE  IInv'
<1>1. Reported(sv[p], Told(Reset(sv[p]), "DISCONNECT"))
  BY DispatchReported DEF ServerDispatch, IInv, ServerOK
<1> QED BY <1>1, ServerReports DEF ServerDispatch, IInv

LEMMA ServerSendOK ==
  ASSUME Bounds, IInv, NEW p \in Peers, NEW late \in BOOLEAN, ServerSend(p, late)
  PROVE  IInv'
<1>1. ServerPeer(sv[p]) /\ Live(sv[p]) /\ open
  BY DEF ServerSend, IInv, ServerOK
<1>2. Reported(sv[p], Quiet(Flushed(sv[p], late)))
  BY <1>1, FlushedReported
<1>3. sv' = [sv EXCEPT ![p] = Flushed(sv[p], late)] /\ UNCHANGED <<slot, entry, cl, open>>
  BY DEF ServerSend
<1>4. Becomes(p, Quiet(Flushed(sv[p], late)))
  BY <1>3 DEF Becomes, Quiet, Event
<1>5. Outgoing(sv[p], late, FALSE, sv[p].remote, p) \in SUBSET Datagram
  BY <1>1, OutgoingType DEF ServerPeer
<1>6. net' \subseteq Datagram
  BY <1>5, SentType DEF ServerSend, IInv
<1> QED BY <1>1, <1>2, <1>3, <1>4, <1>6, ServerReports

LEMMA ServerTimeoutOK ==
  ASSUME Bounds, IInv, NEW p \in Peers, ServerTimeout(p)
  PROVE  IInv'
<1>1. Reported(sv[p], Disconnected(sv[p]))
  BY DisconnectedReported DEF ServerTimeout, IInv, ServerOK
<1> QED BY <1>1, ServerReports DEF ServerTimeout, IInv

LEMMA CloseOK ==
  ASSUME Bounds, IInv, Close
  PROVE  IInv'
<1> DEFINE told == {p \in Peers : \E i \in Peers : slot[i] = p}
           last == [p \in Peers |-> IF p \in told THEN Disconnecting(sv[p]) ELSE sv[p]]
           all  == UNION {Outgoing(last[p], FALSE, FALSE, last[p].remote, p) :
                            p \in {q \in Peers : Live(last[q])}}
<1>1. /\ open' = FALSE /\ Sent(all) /\ sv' = [p \in Peers |-> Fresh("GONE")]
      /\ slot' = [i \in Peers |-> 0] /\ UNCHANGED <<cl, entry>>
  BY DEF Close
<1> HIDE DEF told
<1>2. \A p \in Peers : ServerPeer(last[p])
  BY DisconnectingServer DEF IInv, ServerOK
<1> HIDE DEF last
<1>3. all \in SUBSET Datagram
  <2> SUFFICES ASSUME NEW p \in Peers, Live(last[p])
               PROVE  Outgoing(last[p], FALSE, FALSE, last[p].remote, p) \subseteq Datagram
    OBVIOUS
  <2> QED BY <1>2, OutgoingType DEF ServerPeer
<1>4. net' \subseteq Datagram
  BY <1>1, <1>3, SentType DEF IInv
<1>5. ServerOK' /\ OneEach'
  BY <1>1, FreshOK DEF ServerOK, OneEach
<1>6. Table'
  BY <1>1 DEF Table, IInv
<1>7. ClientOK' /\ open' \in BOOLEAN
  BY <1>1 DEF ClientOK, IInv
<1> QED BY <1>4, <1>5, <1>6, <1>7 DEF IInv

-----------------------------------------------------------------------------
(* The clients' actions.                                                    *)

LEMMA ClientReceiveOK ==
  ASSUME IInv, NEW d \in net, ClientReceive(d)
  PROVE  IInv'
<1>1. /\ d \in Datagram /\ d.c \in Attempts /\ net' \subseteq Datagram
      /\ UNCHANGED <<sv, slot, entry, open>>
  BY DEF IInv, ClientReceive, Datagram
<1>2. ClientPeer(cl[d.c]) /\ ClientPeer(Handled(cl[d.c], d).peer)
  BY <1>1, ClientHandled DEF IInv, ClientOK
<1>3. \/ cl' = cl
      \/ cl' = [cl EXCEPT ![d.c] = Handled(cl[d.c], d).peer]
  BY DEF ClientReceive
<1>4. ClientOK'
  <2>1. CASE cl' = cl
    BY <2>1 DEF IInv, ClientOK
  <2>2. CASE cl' = [cl EXCEPT ![d.c] = Handled(cl[d.c], d).peer]
    BY <1>1, <1>2, <2>2, ClientPeerStep DEF IInv
  <2> QED BY <1>3, <2>1, <2>2
<1> QED BY <1>1, <1>4, ClientOnly

LEMMA ClientOutgoing ==
  ASSUME IInv, NEW c \in Attempts, NEW x, ClientPeer(x), NEW late \in BOOLEAN
  PROVE  Outgoing(x, late, TRUE, c, x.remote) \in SUBSET Datagram
BY OutgoingType DEF ClientPeer

LEMMA ClientsOK ==
  ASSUME Bounds, IInv, NEW c \in Attempts,
         \/ Connect(c) \/ ClientGivesUp(c) \/ ClientDispatch(c)
         \/ \E late \in BOOLEAN : ClientSend(c, late)
         \/ ClientTimeout(c) \/ ClientDisconnects(c) \/ ClientLeaves(c) \/ ClientCrashes(c)
  PROVE  IInv'
<1>1. ClientPeer(cl[c])
  BY DEF IInv, ClientOK
<1>2. UNCHANGED <<sv, slot, entry, open>>
  BY DEF Connect, ClientGivesUp, ClientDispatch, ClientSend, ClientTimeout,
         ClientDisconnects, ClientLeaves, ClientCrashes
<1>3. PICK y : ClientPeer(y) /\ cl' = [cl EXCEPT ![c] = y]
  <2>1. CASE Connect(c)
    BY <2>1, FreshOK DEF Connect
  <2>2. CASE ClientGivesUp(c) \/ ClientDispatch(c)
    BY <1>1, <2>2, ClientOps DEF ClientGivesUp, ClientDispatch
  <2>3. CASE \E late \in BOOLEAN : ClientSend(c, late)
    BY <1>1, <2>3, ClientOps DEF ClientSend
  <2>4. CASE ClientTimeout(c)
    BY <1>1, <2>4, ClientDisconnected DEF ClientTimeout
  <2>5. CASE ClientDisconnects(c)
    BY <1>1, <2>5, ClientOps DEF ClientDisconnects
  <2>6. CASE ClientLeaves(c) \/ ClientCrashes(c)
    BY <2>6, FreshOK DEF ClientLeaves, ClientCrashes
  <2> QED BY <2>1, <2>2, <2>3, <2>4, <2>5, <2>6
<1>4. ClientOK'
  BY <1>3, ClientPeerStep DEF IInv
<1>5. net' \subseteq Datagram
  <2>1. CASE \E late \in BOOLEAN : ClientSend(c, late)
    BY <1>1, <2>1, ClientOutgoing, SentType DEF ClientSend, IInv
  <2>2. CASE ClientLeaves(c)
    <3> DEFINE x == Disconnecting(cl[c])
    <3>1. ClientPeer(x)
      BY <1>1, ClientOps
    <3>2. Sent(IF Live(x) THEN Outgoing(x, FALSE, TRUE, c, x.remote) ELSE {})
      BY <2>2 DEF ClientLeaves
    <3> HIDE DEF x
    <3>3. (IF Live(x) THEN Outgoing(x, FALSE, TRUE, c, x.remote) ELSE {}) \in SUBSET Datagram
      BY <3>1, ClientOutgoing
    <3> QED BY <3>2, <3>3, SentType DEF IInv
  <2>3. CASE net' = net
    BY <2>3 DEF IInv
  <2> QED BY <2>1, <2>2, <2>3 DEF Connect, ClientGivesUp, ClientDispatch, ClientTimeout,
                                  ClientDisconnects, ClientCrashes
<1> QED BY <1>2, <1>4, <1>5, ClientOnly

LEMMA LoseOK ==
  ASSUME IInv, NEW d \in net, Lose(d)
  PROVE  IInv'
<1>1. net' \subseteq Datagram /\ ClientOK' /\ UNCHANGED <<sv, slot, entry, open>>
  BY DEF Lose, IInv, ClientOK
<1> QED BY <1>1, ClientOnly

-----------------------------------------------------------------------------
(* The theorems.                                                            *)

LEMMA Initial == Bounds /\ Init => IInv
<1> SUFFICES ASSUME Bounds, Init PROVE IInv
  OBVIOUS
<1>1. ServerOK /\ ClientOK /\ OneEach
  BY FreshOK DEF Init, ServerOK, ClientOK, OneEach
<1>2. Table
  BY FreshOK DEF Init, Table, Announced
<1> QED BY <1>1, <1>2 DEF Init, IInv

LEMMA Step == Bounds /\ IInv /\ [Next]_vars => IInv'
<1> SUFFICES ASSUME Bounds, IInv, [Next]_vars PROVE IInv'
  OBVIOUS
<1>1. ASSUME NEW d \in net, ServerReceive(d) \/ ClientReceive(d) \/ Lose(d) PROVE IInv'
  BY <1>1, ServerReceiveOK, ClientReceiveOK, LoseOK
<1>2. ASSUME NEW p \in Peers,
             \/ ServerDispatch(p) \/ ServerTimeout(p)
             \/ \E late \in BOOLEAN : ServerSend(p, late)
      PROVE  IInv'
  BY <1>2, ServerDispatchOK, ServerSendOK, ServerTimeoutOK
<1>3. CASE Close
  BY <1>3, CloseOK
<1>4. ASSUME NEW c \in Attempts,
             \/ Connect(c) \/ ClientGivesUp(c) \/ ClientDispatch(c)
             \/ \E late \in BOOLEAN : ClientSend(c, late)
             \/ ClientTimeout(c) \/ ClientDisconnects(c) \/ ClientLeaves(c) \/ ClientCrashes(c)
      PROVE  IInv'
  BY <1>4, ClientsOK
<1>5. CASE UNCHANGED vars
  BY <1>5 DEF vars, IInv, ServerOK, ClientOK, Table, OneEach, Announced
<1> QED BY <1>1, <1>2, <1>3, <1>4, <1>5 DEF Next

\* The invariant holds in every behaviour.
LEMMA Invariance ==
  ASSUME Bounds
  PROVE  Spec => []IInv
<1>1. Init => IInv
  BY Initial
<1>2. IInv /\ [Next]_vars => IInv'
  BY Step
<1> QED BY <1>1, <1>2, PTL DEF Spec

\* States of peers, the table of clients and what is under way have their types,
\* however the handshakes of both sides and their ends are mixed up.
THEOREM TypeCorrect ==
  ASSUME Bounds
  PROVE  Spec => []TypeOK
<1>1. IInv => TypeOK
  BY DEF IInv, ServerOK, ClientOK, Table, ServerPeer, ClientPeer, TypeOK
<1> QED BY <1>1, Invariance, PTL

\* Lost, repeated or late datagrams, time-outs and crashes notwithstanding, the
\* table of clients has an entry for each client the application was told of,
\* one only, and no entry of one that is gone.
THEOREM TableRight ==
  ASSUME Bounds
  PROVE  Spec => []ClientTable
<1>1. IInv => ClientTable
  BY DEF IInv, Table, ClientTable
<1> QED BY <1>1, Invariance, PTL

\* A client that connects finds a free entry: the code, which would use entry -1
\* of the table if there were none, never gets there.
THEOREM RoomForEach ==
  ASSUME Bounds
  PROVE  Spec => [](\A p \in Peers : open /\ p \notin Announced => FreeSlots # {})
<1>1. IInv => \A p \in Peers : open /\ p \notin Announced => FreeSlots # {}
  BY FreeEntry DEF IInv
<1> QED BY <1>1, Invariance, PTL

\* A CONNECT that arrives again never takes a second peer.
THEOREM OnePeerEach ==
  ASSUME Bounds
  PROVE  Spec => []OneEach
<1>1. IInv => OneEach
  BY DEF IInv
<1> QED BY <1>1, Invariance, PTL

-----------------------------------------------------------------------------
(* Clients that come and go: the game and the session beside the connection. *)

Game == INSTANCE LockstepProofs
          WITH Clients <- {c1, c2}, NumPlayers <- 3, Owner <- Interleaved,
               MaxBuffer <- 4, MaxFrames <- 2, Behaviours <- {"drop", "pause"},
               MaxTicks <- 2, MaxPress <- 1, MaxInputs <- 1, MaxBacklog <- 0

Session == INSTANCE JoynetSessionProofs
             WITH Clients <- {c1}, NumPlayers <- 2, Controllers <- {k1, k2},
                  Behaviours <- {"drop", "server_drop", "leave", "back", "repeat_back",
                                 "early_join", "overflow", "stop_watching",
                                 "wrong_version", "init_fails"},
                  MaxRequests <- 1, MaxBacklog <- 0, MaxPlaying <- 1,
                  slot <- seat, cstate <- phase, roster <- known,
                  toServer <- up, toClient <- down

LEMMA GameConstants == Game!LockstepAssumption
<1>1. Interleaved \in [0 .. 2 -> {c1, c2}]
  BY DEF Interleaved
<1>2. Game!Players = 0 .. 2
  BY DEF Game!Players
<1> QED BY <1>1, <1>2 DEF Game!LockstepAssumption, Game!AllBehaviours

LEMMA SessionConstants == Session!ConstantsAssumption
<1>1. IsFiniteSet({k1, k2})
  <2>1. IsFiniteSet({k1})
    BY FS_Singleton
  <2>2. {k1, k2} = {k1} \cup {k2}
    OBVIOUS
  <2> QED BY <2>1, <2>2, FS_AddElement
<1>2. \A c \in {c1}, k \in {k1, k2} : Free # <<c, k>>
  BY RemovalAssumption
<1>3. {"drop", "server_drop", "leave", "back", "repeat_back", "early_join", "overflow",
       "stop_watching", "wrong_version", "init_fails"} \subseteq Session!AllBehaviours
  BY SMT DEF Session!AllBehaviours
<1>4. 2 \in Nat \ {0} /\ 1 \in Nat /\ 0 \in Nat
  OBVIOUS
<1> QED BY <1>1, <1>2, <1>3, <1>4 DEF Session!ConstantsAssumption, Session!IsFiniteSet, IsFiniteSet

\* Game and Session know Lockstep and JoynetSession by names of their own: each
\* action, and what is claimed, is the same under both.
LEMMA GameServerTick == L!ServerTick => Game!ServerTick
BY DEF L!ServerTick, L!Broadcast, L!Input, L!Encode, L!serverVars, L!clientVars,
       L!Rank, L!Cardinality, Game!ServerTick, Game!Broadcast, Game!Input,
       Game!Encode, Game!serverVars, Game!clientVars, Game!Rank, Game!Cardinality

LEMMA GamePause == L!Pause => Game!Pause
BY DEF L!Pause, L!Turn, L!Broadcast, L!Note, L!clientVars, Game!Pause, Game!Turn,
       Game!Broadcast, Game!Note, Game!clientVars

LEMMA GameResume == L!Resume => Game!Resume
BY DEF L!Resume, L!Turn, L!Broadcast, L!Note, L!clientVars, Game!Resume, Game!Turn,
       Game!Broadcast, Game!Note, Game!clientVars

LEMMA GameEnd == L!End => Game!End
BY DEF L!End, L!Turn, L!Broadcast, L!Note, L!clientVars, Game!End, Game!Turn,
       Game!Broadcast, Game!Note, Game!clientVars

LEMMA GamePress ==
  ASSUME NEW p
  PROVE  L!Press(p) => Game!Press(p)
BY DEF L!Press, L!serverVars, L!clientVars, Game!Press, Game!serverVars,
       Game!clientVars

LEMMA GameServerPoll ==
  ASSUME NEW c
  PROVE  L!ServerPoll(c) => Game!ServerPoll(c)
BY DEF L!ServerPoll, L!HandleInput, L!HandleOverflow, L!Poll, L!Mine, L!Decode,
       L!Players, L!clientVars, L!Broadcast, L!Removals, L!Rank, L!AllBehaviours,
       L!Remove, L!Cardinality, Game!ServerPoll, Game!HandleInput,
       Game!HandleOverflow, Game!Poll, Game!Mine, Game!Decode, Game!Players,
       Game!clientVars, Game!Broadcast, Game!Removals, Game!Rank, Game!AllBehaviours,
       Game!Remove, Game!Cardinality

LEMMA GameDrop ==
  ASSUME NEW c
  PROVE  L!Drop(c) => Game!Drop(c)
BY DEF L!Drop, L!Mine, L!Removals, L!Note, L!clientVars, L!Players, L!Remove, L!Rank,
       L!AllBehaviours, L!Cardinality, Game!Drop, Game!Mine, Game!Removals,
       Game!Note, Game!clientVars, Game!Players, Game!Remove, Game!Rank,
       Game!AllBehaviours, Game!Cardinality

LEMMA GameClientPoll ==
  ASSUME NEW c
  PROVE  L!ClientPoll(c) => Game!ClientPoll(c)
BY DEF L!ClientPoll, L!ReceiveInput, L!ReceiveRemove, L!ReceivePause,
       L!ReceiveResume, L!ReceiveEnd, L!Receive, L!Note, L!serverVars, L!Mine,
       L!Resized, L!Enter, L!Players, L!BlankFrame, L!AllBehaviours, L!Idle,
       L!Cardinality, Game!ClientPoll, Game!ReceiveInput, Game!ReceiveRemove,
       Game!ReceivePause, Game!ReceiveResume, Game!ReceiveEnd, Game!Receive,
       Game!Note, Game!serverVars, Game!Mine, Game!Resized, Game!Enter, Game!Players,
       Game!BlankFrame, Game!AllBehaviours, Game!Idle, Game!Cardinality

LEMMA GameClientTick ==
  ASSUME NEW c
  PROVE  L!ClientTick(c) => Game!ClientTick(c)
BY DEF L!ClientTick, L!Ticks, L!Decode, L!Cell, L!Mine, L!Input, L!Encode,
       L!serverVars, L!Rank, L!Players, L!AllBehaviours, L!Cardinality,
       Game!ClientTick, Game!Ticks, Game!Decode, Game!Cell, Game!Mine, Game!Input,
       Game!Encode, Game!serverVars, Game!Rank, Game!Players, Game!AllBehaviours,
       Game!Cardinality

LEMMA GameBegins == L!Init => Game!Init
BY DEF L!Init, L!Players, L!Idle, L!AllBehaviours, Game!Init, Game!Players,
       Game!Idle, Game!AllBehaviours

LEMMA GameClaims ==
  Game!TypeOK /\ Game!OwnInput /\ Game!TicksInOrder
    => L!TypeOK /\ L!OwnInput /\ L!TicksInOrder
BY DEF L!TypeOK, L!OwnInput, L!TicksInOrder, L!Same, L!Players, L!Buttons, L!Idle,
       Game!TypeOK, Game!OwnInput, Game!TicksInOrder, Game!Same, Game!Players,
       Game!Buttons, Game!Idle

LEMMA GameSteps == [MCNext]_<<part, vars, gameVars, sessionVars>> => [Game!Next]_Game!vars
<1> SUFFICES ASSUME [MCNext]_<<part, vars, gameVars, sessionVars>> PROVE [Game!Next]_Game!vars
  OBVIOUS
<1>1. CASE UNCHANGED gameVars
  BY <1>1 DEF gameVars, Game!vars, Game!serverVars, Game!clientVars
<1>2. CASE L!Next
  <2>1. CASE L!ServerTick \/ L!Pause \/ L!Resume \/ L!End
    BY <2>1, GameServerTick, GamePause, GameResume, GameEnd DEF Game!Next
  <2>2. ASSUME NEW p \in L!Players, L!Press(p) PROVE Game!Next
    BY <2>2, GamePress DEF Game!Next, L!Players, Game!Players
  <2>3. ASSUME NEW c \in {c1, c2}, L!ServerPoll(c) \/ L!Drop(c) \/ L!ClientPoll(c) \/ L!ClientTick(c)
        PROVE  Game!Next
    BY <2>3, GameServerPoll, GameDrop, GameClientPoll, GameClientTick DEF Game!Next
  <2> QED BY <1>2, <2>1, <2>2, <2>3 DEF L!Next
<1> QED BY <1>1, <1>2 DEF MCNext

LEMMA SessionHandleCheckId ==
  ASSUME NEW c
  PROVE  J!HandleCheckId(c) => Session!HandleCheckId(c)
BY DEF J!HandleCheckId, J!Poll, J!Send, J!Only, J!Note, J!serverVars, J!clientVars,
       J!Request1, J!Drained, Session!HandleCheckId, Session!Poll, Session!Send,
       Session!Only, Session!Note, Session!serverVars, Session!clientVars,
       Session!Request1, Session!Drained

LEMMA SessionHandleSpectate ==
  ASSUME NEW c
  PROVE  J!HandleSpectate(c) => Session!HandleSpectate(c)
BY DEF J!HandleSpectate, J!Poll, J!Send, J!Only, J!Note, J!AboutSome, J!Taken,
       J!clientVars, J!Request1, J!Drained, J!About, J!Players,
       Session!HandleSpectate, Session!Poll, Session!Send, Session!Only,
       Session!Note, Session!AboutSome, Session!Taken, Session!clientVars,
       Session!Request1, Session!Drained, Session!About, Session!Players

LEMMA SessionHandleLeave ==
  ASSUME NEW c
  PROVE  J!HandleLeave(c) => Session!HandleLeave(c)
BY DEF J!HandleLeave, J!Poll, J!clientVars, J!Request1, J!Drained,
       Session!HandleLeave, Session!Poll, Session!clientVars, Session!Request1,
       Session!Drained

LEMMA SessionHandleConnect ==
  ASSUME NEW c
  PROVE  J!HandleConnect(c) => Session!HandleConnect(c)
BY DEF J!HandleConnect, J!Poll, J!Request1, J!Seat, J!Request, J!Note, J!About,
       J!Taken, J!Acceptable, J!Send, J!Audience, J!clientVars, J!Drained,
       J!FirstFree, J!Players, J!Lowest, Session!HandleConnect, Session!Poll,
       Session!Request1, Session!Seat, Session!Request, Session!Note, Session!About,
       Session!Taken, Session!Acceptable, Session!Send, Session!Audience,
       Session!clientVars, Session!Drained, Session!FirstFree, Session!Players,
       Session!Lowest

LEMMA SessionRefuseConnect ==
  ASSUME NEW c
  PROVE  J!RefuseConnect(c) => Session!RefuseConnect(c)
BY DEF J!RefuseConnect, J!Poll, J!Acceptable, J!Request1, J!Send, J!Only, J!Note,
       J!serverVars, J!clientVars, J!Drained, J!Taken, J!Seat, J!Players,
       J!FirstFree, J!Lowest, Session!RefuseConnect, Session!Poll,
       Session!Acceptable, Session!Request1, Session!Send, Session!Only,
       Session!Note, Session!serverVars, Session!clientVars, Session!Drained,
       Session!Taken, Session!Seat, Session!Players, Session!FirstFree,
       Session!Lowest

LEMMA SessionHandleDisconnect ==
  ASSUME NEW c
  PROVE  J!HandleDisconnect(c) => Session!HandleDisconnect(c)
BY DEF J!HandleDisconnect, J!Poll, J!Request1, J!Owned, J!Heirs, J!CountWithout,
       J!Send, J!Request, J!Note, J!Audience, J!About, J!clientVars, J!Drained,
       J!Taken, J!Lowest, J!Players, Session!HandleDisconnect, Session!Poll,
       Session!Request1, Session!Owned, Session!Heirs, Session!CountWithout,
       Session!Send, Session!Request, Session!Note, Session!Audience, Session!About,
       Session!clientVars, Session!Drained, Session!Taken, Session!Lowest,
       Session!Players

LEMMA SessionHandleOverflow ==
  ASSUME NEW c
  PROVE  J!HandleOverflow(c) => Session!HandleOverflow(c)
BY DEF J!HandleOverflow, J!Poll, J!Players, J!Owned, J!Send, J!Each, J!Audience,
       J!AboutSome, J!clientVars, J!Request1, J!Drained, J!Taken, J!About,
       J!Cardinality, Session!HandleOverflow, Session!Poll, Session!Players,
       Session!Owned, Session!Send, Session!Each, Session!Audience,
       Session!AboutSome, Session!clientVars, Session!Request1, Session!Drained,
       Session!Taken, Session!About, Session!Cardinality

LEMMA SessionHandleStart ==
  ASSUME NEW c
  PROVE  J!HandleStart(c) => Session!HandleStart(c)
BY DEF J!HandleStart, J!Advance, J!Audience, J!Poll, J!Send, J!Each, J!Note,
       J!clientVars, J!Request1, J!Drained, Session!HandleStart, Session!Advance,
       Session!Audience, Session!Poll, Session!Send, Session!Each, Session!Note,
       Session!clientVars, Session!Request1, Session!Drained

LEMMA SessionHandlePause ==
  ASSUME NEW c
  PROVE  J!HandlePause(c) => Session!HandlePause(c)
BY DEF J!HandlePause, J!Advance, J!InGame, J!Poll, J!Send, J!Each, J!Note,
       J!clientVars, J!Request1, J!Drained, Session!HandlePause, Session!Advance,
       Session!InGame, Session!Poll, Session!Send, Session!Each, Session!Note,
       Session!clientVars, Session!Request1, Session!Drained

LEMMA SessionHandleResume ==
  ASSUME NEW c
  PROVE  J!HandleResume(c) => Session!HandleResume(c)
BY DEF J!HandleResume, J!Advance, J!InGame, J!Poll, J!Send, J!Each, J!Note,
       J!clientVars, J!Request1, J!Drained, Session!HandleResume, Session!Advance,
       Session!InGame, Session!Poll, Session!Send, Session!Each, Session!Note,
       Session!clientVars, Session!Request1, Session!Drained

LEMMA SessionHandleEnd ==
  ASSUME NEW c
  PROVE  J!HandleEnd(c) => Session!HandleEnd(c)
BY DEF J!HandleEnd, J!Poll, J!Send, J!Each, J!InGame, J!Note, J!clientVars,
       J!Request1, J!Drained, Session!HandleEnd, Session!Poll, Session!Send,
       Session!Each, Session!InGame, Session!Note, Session!clientVars,
       Session!Request1, Session!Drained

LEMMA SessionReceiveCheckId ==
  ASSUME NEW c
  PROVE  J!ReceiveCheckId(c) => Session!ReceiveCheckId(c)
BY DEF J!ReceiveCheckId, J!Receive, J!Put, J!Note, J!serverVars, J!Received,
       Session!ReceiveCheckId, Session!Receive, Session!Put, Session!Note,
       Session!serverVars, Session!Received

LEMMA SessionReceiveCheckIdFail ==
  ASSUME NEW c
  PROVE  J!ReceiveCheckIdFail(c) => Session!ReceiveCheckIdFail(c)
BY DEF J!ReceiveCheckIdFail, J!Received, J!serverVars, Session!ReceiveCheckIdFail,
       Session!Received, Session!serverVars

LEMMA SessionReceiveConnect ==
  ASSUME NEW c
  PROVE  J!ReceiveConnect(c) => Session!ReceiveConnect(c)
BY DEF J!ReceiveConnect, J!Receive, J!Received, J!serverVars, Session!ReceiveConnect,
       Session!Receive, Session!Received, Session!serverVars

LEMMA SessionReceiveDisconnect ==
  ASSUME NEW c
  PROVE  J!ReceiveDisconnect(c) => Session!ReceiveDisconnect(c)
BY DEF J!ReceiveDisconnect, J!Receive, J!Received, J!Unplugged, J!OtherPlugged,
       J!serverVars, Session!ReceiveDisconnect, Session!Receive, Session!Received,
       Session!Unplugged, Session!OtherPlugged, Session!serverVars

LEMMA SessionReceiveAddPlayer ==
  ASSUME NEW c
  PROVE  J!ReceiveAddPlayer(c) => Session!ReceiveAddPlayer(c)
BY DEF J!ReceiveAddPlayer, J!Receive, J!Received, J!Plugged, J!serverVars,
       J!Unplugged, Session!ReceiveAddPlayer, Session!Receive, Session!Received,
       Session!Plugged, Session!serverVars, Session!Unplugged

LEMMA SessionReceiveRemovePlayer ==
  ASSUME NEW c
  PROVE  J!ReceiveRemovePlayer(c) => Session!ReceiveRemovePlayer(c)
BY DEF J!ReceiveRemovePlayer, J!Receive, J!Received, J!serverVars,
       Session!ReceiveRemovePlayer, Session!Receive, Session!Received,
       Session!serverVars

LEMMA SessionReceiveAssignMaster ==
  ASSUME NEW c
  PROVE  J!ReceiveAssignMaster(c) => Session!ReceiveAssignMaster(c)
BY DEF J!ReceiveAssignMaster, J!Receive, J!serverVars, J!Received,
       Session!ReceiveAssignMaster, Session!Receive, Session!serverVars,
       Session!Received

LEMMA SessionReceiveOther ==
  ASSUME NEW c
  PROVE  J!ReceiveOther(c) => Session!ReceiveOther(c)
BY DEF J!ReceiveOther, J!Receive, J!serverVars, J!clientVars, J!Received,
       Session!ReceiveOther, Session!Receive, Session!serverVars, Session!clientVars,
       Session!Received

LEMMA SessionReceiveStart ==
  ASSUME NEW c
  PROVE  J!ReceiveStart(c) => Session!ReceiveStart(c)
BY DEF J!ReceiveStart, J!Receive, J!serverVars, J!Received, Session!ReceiveStart,
       Session!Receive, Session!serverVars, Session!Received

LEMMA SessionReceivePause ==
  ASSUME NEW c
  PROVE  J!ReceivePause(c) => Session!ReceivePause(c)
BY DEF J!ReceivePause, J!Receive, J!serverVars, J!Received, Session!ReceivePause,
       Session!Receive, Session!serverVars, Session!Received

LEMMA SessionReceiveResume ==
  ASSUME NEW c
  PROVE  J!ReceiveResume(c) => Session!ReceiveResume(c)
BY DEF J!ReceiveResume, J!Receive, J!serverVars, J!Received, Session!ReceiveResume,
       Session!Receive, Session!serverVars, Session!Received

LEMMA SessionReceiveEnd ==
  ASSUME NEW c
  PROVE  J!ReceiveEnd(c) => Session!ReceiveEnd(c)
BY DEF J!ReceiveEnd, J!Receive, J!Put, J!Note, J!serverVars, J!Received,
       Session!ReceiveEnd, Session!Receive, Session!Put, Session!Note,
       Session!serverVars, Session!Received

LEMMA SessionConnect ==
  ASSUME NEW c
  PROVE  J!Connect(c) => Session!Connect(c)
BY DEF J!Connect, J!Unplugged, J!Note, Session!Connect, Session!Unplugged,
       Session!Note

LEMMA SessionStart ==
  ASSUME NEW c
  PROVE  J!Start(c) => Session!Start(c)
BY DEF J!Start, J!Ask, J!Note, J!Put, J!serverVars, J!clientVars, Session!Start,
       Session!Ask, Session!Note, Session!Put, Session!serverVars,
       Session!clientVars

LEMMA SessionPause ==
  ASSUME NEW c
  PROVE  J!Pause(c) => Session!Pause(c)
BY DEF J!Pause, J!Ask, J!Note, J!Put, J!serverVars, J!clientVars, Session!Pause,
       Session!Ask, Session!Note, Session!Put, Session!serverVars,
       Session!clientVars

LEMMA SessionResume ==
  ASSUME NEW c
  PROVE  J!Resume(c) => Session!Resume(c)
BY DEF J!Resume, J!Ask, J!Note, J!Put, J!serverVars, J!clientVars, Session!Resume,
       Session!Ask, Session!Note, Session!Put, Session!serverVars,
       Session!clientVars

LEMMA SessionEnd ==
  ASSUME NEW c
  PROVE  J!End(c) => Session!End(c)
BY DEF J!End, J!Ask, J!Note, J!Put, J!serverVars, J!clientVars, Session!End,
       Session!Ask, Session!Note, Session!Put, Session!serverVars,
       Session!clientVars

LEMMA SessionStopWatching ==
  ASSUME NEW c
  PROVE  J!StopWatching(c) => Session!StopWatching(c)
BY DEF J!StopWatching, J!Ask, J!Note, J!Put, J!serverVars, J!clientVars,
       Session!StopWatching, Session!Ask, Session!Note, Session!Put,
       Session!serverVars, Session!clientVars

LEMMA SessionFallBehind ==
  ASSUME NEW c
  PROVE  J!FallBehind(c) => Session!FallBehind(c)
BY DEF J!FallBehind, J!Ask, J!Note, J!Put, J!serverVars, J!clientVars,
       Session!FallBehind, Session!Ask, Session!Note, Session!Put,
       Session!serverVars, Session!clientVars

LEMMA SessionLeave ==
  ASSUME NEW c
  PROVE  J!Leave(c) => Session!Leave(c)
BY DEF J!Leave, J!Unplugged, J!serverVars, Session!Leave, Session!Unplugged,
       Session!serverVars

LEMMA SessionClientLost ==
  ASSUME NEW c
  PROVE  J!ClientLost(c) => Session!ClientLost(c)
BY DEF J!ClientLost, J!Unplugged, J!serverVars, Session!ClientLost,
       Session!Unplugged, Session!serverVars

LEMMA SessionJoin ==
  ASSUME NEW c, NEW k
  PROVE  J!Join(c, k) => Session!Join(c, k)
BY DEF J!Join, J!Unplugged, J!Ask, J!Request, J!Put, J!serverVars, J!clientVars,
       Session!Join, Session!Unplugged, Session!Ask, Session!Request, Session!Put,
       Session!serverVars, Session!clientVars

LEMMA SessionEarlyJoin ==
  ASSUME NEW c, NEW k
  PROVE  J!EarlyJoin(c, k) => Session!EarlyJoin(c, k)
BY DEF J!EarlyJoin, J!Unplugged, J!Players, J!Lowest, J!serverVars,
       Session!EarlyJoin, Session!Unplugged, Session!Players, Session!Lowest,
       Session!serverVars

LEMMA SessionBack ==
  ASSUME NEW c, NEW k
  PROVE  J!Back(c, k) => Session!Back(c, k)
BY DEF J!Back, J!Unplugged, J!Answering, J!Ask, J!Request, J!Put, J!serverVars,
       J!clientVars, Session!Back, Session!Unplugged, Session!Answering, Session!Ask,
       Session!Request, Session!Put, Session!serverVars, Session!clientVars

LEMMA SessionPeerDisconnect ==
  ASSUME NEW c
  PROVE  J!PeerDisconnect(c) => Session!PeerDisconnect(c)
BY DEF J!PeerDisconnect, J!Drained, J!Gone, J!Heirs, J!Players, J!Send, J!Audience,
       J!AboutSome, J!InGame, J!Note, J!clientVars, J!Owned, J!Taken, J!Lowest,
       J!About, J!Cardinality, Session!PeerDisconnect, Session!Drained, Session!Gone,
       Session!Heirs, Session!Players, Session!Send, Session!Audience,
       Session!AboutSome, Session!InGame, Session!Note, Session!clientVars,
       Session!Owned, Session!Taken, Session!Lowest, Session!About,
       Session!Cardinality

LEMMA SessionBegins == J!Init => Session!Init
BY DEF J!Init, J!Players, J!Unplugged, Session!Init, Session!Players,
       Session!Unplugged

LEMMA SessionClaims == Session!CountIsRoster => J!CountIsRoster
BY DEF J!CountIsRoster, J!Taken, J!Players, J!Cardinality, Session!CountIsRoster,
       Session!Taken, Session!Players, Session!Cardinality

LEMMA SessionServerPoll ==
  ASSUME NEW c
  PROVE  J!ServerPoll(c) => Session!ServerPoll(c)
BY SessionHandleCheckId, SessionHandleSpectate, SessionHandleLeave,
       SessionHandleConnect, SessionRefuseConnect, SessionHandleDisconnect,
       SessionHandleOverflow, SessionHandleStart, SessionHandlePause,
       SessionHandleResume, SessionHandleEnd
   DEF J!ServerPoll, Session!ServerPoll

LEMMA SessionClientPoll ==
  ASSUME NEW c
  PROVE  J!ClientPoll(c) => Session!ClientPoll(c)
BY SessionReceiveCheckId, SessionReceiveCheckIdFail, SessionReceiveConnect,
       SessionReceiveDisconnect, SessionReceiveAddPlayer, SessionReceiveRemovePlayer,
       SessionReceiveAssignMaster, SessionReceiveOther, SessionReceiveStart,
       SessionReceivePause, SessionReceiveResume, SessionReceiveEnd
   DEF J!ClientPoll, Session!ClientPoll

LEMMA SessionUser ==
  ASSUME NEW c
  PROVE  J!User(c) => Session!User(c)
BY SessionConnect, SessionStart, SessionPause, SessionResume, SessionEnd,
       SessionStopWatching, SessionFallBehind, SessionLeave, SessionClientLost,
       SessionJoin, SessionEarlyJoin, SessionBack
   DEF J!User, Session!User

LEMMA SessionSteps == [MCNext]_<<part, vars, gameVars, sessionVars>> => [Session!Next]_Session!vars
<1> SUFFICES ASSUME [MCNext]_<<part, vars, gameVars, sessionVars>> PROVE [Session!Next]_Session!vars
  OBVIOUS
<1>1. CASE UNCHANGED sessionVars
  BY <1>1 DEF sessionVars, Session!vars, Session!serverVars, Session!clientVars
<1>2. CASE J!Next
  BY <1>2, SessionServerPoll, SessionPeerDisconnect, SessionClientPoll, SessionUser
     DEF J!Next, Session!Next
<1> QED BY <1>1, <1>2 DEF MCNext

\* Clients whose connections break, who leave or fall behind are taken out of the
\* session and of games by joynet_poll_server and joynet_handle_client_game_message:
\* the counter of players misses no removal, no frame moves another's player, and
\* ticks may be lost or blank but are never out of order or run twice.
THEOREM RemovalsAreSound == MCSpec => []RemovalSound
<1>1. MCSpec => Game!Spec
  <2>1. MCInit => Game!Init
    BY GameBegins DEF MCInit
  <2> QED BY <2>1, GameSteps, PTL DEF MCSpec, Game!Spec
<1>2. MCSpec => Session!Spec
  <2>1. MCInit => Session!Init
    BY SessionBegins DEF MCInit
  <2> QED BY <2>1, SessionSteps, PTL DEF MCSpec, Session!Spec
<1>3. Game!Spec => []Game!TypeOK
  BY GameConstants, Game!TypeCorrect, PTL
<1>4. Game!Spec => []Game!OwnInput
  BY GameConstants, Game!OwnButtons, PTL
<1>5. Game!Spec => []Game!TicksInOrder
  <2>1. 2 <= 4
    OBVIOUS
  <2> QED BY <2>1, GameConstants, Game!ShortGamesInOrder, PTL
<1>6. Session!Spec => []Session!CountIsRoster
  BY SessionConstants, Session!CountCorrect, PTL
<1>7. Game!TypeOK /\ Game!OwnInput /\ Game!TicksInOrder /\ Session!CountIsRoster => RemovalSound
  BY GameClaims, SessionClaims DEF RemovalSound
<1> QED BY <1>1, <1>2, <1>3, <1>4, <1>5, <1>6, <1>7, PTL
=============================================================================
