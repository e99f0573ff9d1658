----------------------------- MODULE Connection -----------------------------
(***************************************************************************)
(* The life of ENet connections between the joynet server and clients that *)
(* come and go: handshake, sessions, pings, time-outs, disconnection, and  *)
(* the table of clients the joynet server keeps from the events it gets.   *)
(*                                                                         *)
(* Each attempt to connect makes a host of its own, whose address no       *)
(* earlier attempt had.  Commands that travel in one datagram are taken to *)
(* be datagrams of their own.  A command may be sent again while it is not *)
(* acknowledged, and may time out then; datagrams may be duplicated (by    *)
(* sending again), delayed, reordered and lost.                            *)
(*                                                                         *)
(* What joynet sends once the connection stands is in Channel; here "PING" *)
(* stands for any such command.  joynet passes an event to each call of    *)
(* enet_host_service, so that CONNECT is never kept for later and the      *)
(* states CONNECTION_PENDING and CONNECTION_SUCCEEDED do not occur; nor    *)
(* does DISCONNECT_LATER, which it does not use.                           *)
(***************************************************************************)
EXTENDS Integers, FiniteSets

CONSTANTS
  NumPeers,     \* peers of the server's host, and entries of its client table
  NumAttempts,  \* bound: attempts to connect, from first to last
  MaxUnderWay   \* bound: datagrams under way; those beyond are lost

Peers    == 1 .. NumPeers
Attempts == 1 .. NumAttempts

VARIABLES
  cl,      \* the one peer of the host of each attempt
  sv,      \* the peers of the server's host
  slot,    \* joynet: client[i]->peer at the server, or 0
  entry,   \* joynet: peer->data at the server, the entry of the peer, or 0
  open,    \* the server has not been closed
  net      \* datagrams under way

vars == <<cl, sv, slot, entry, open, net>>

Commands == {"CONNECT", "VERIFY_CONNECT", "DISCONNECT", "PING"}

\* Session ids have 2 bits; -1 is 0xFF, no session yet.
Sessions == -1 .. 3

\* remote is the peer of the other side; at the server, also the address and
\* the connectID: 0 for none.
PeerType ==
  [state : {"NONE", "GONE", "DISCONNECTED", "CONNECTING", "ACKNOWLEDGING_CONNECT",
            "CONNECTED", "DISCONNECTING", "ACKNOWLEDGING_DISCONNECT", "ZOMBIE"},
   remote : Attempts \cup Peers \cup {0},
   inS : Sessions, outS : Sessions,    \* incomingSessionID, outgoingSessionID
   out : SUBSET Commands,              \* reliable commands never sent yet
   sent : SUBSET Commands,             \* sent and not acknowledged
   due : SUBSET Commands]              \* acknowledgements

Datagram ==
  [up : BOOLEAN, c : Attempts, p : Peers \cup {0}, session : Sessions,
   cmd : Commands, ack : BOOLEAN, inS : Sessions, outS : Sessions]

TypeOK ==
  /\ cl \in [Attempts -> PeerType]
  /\ sv \in [Peers -> PeerType]
  /\ slot \in [Peers -> Peers \cup {0}]
  /\ entry \in [Peers -> Peers \cup {0}]
  /\ open \in BOOLEAN
  /\ net \subseteq Datagram

Fresh(state) ==
  [state |-> state, remote |-> 0, inS |-> -1, outS |-> -1,
   out |-> {}, sent |-> {}, due |-> {}]

Init ==
  /\ cl = [c \in Attempts |-> Fresh("NONE")]
  /\ sv = [p \in Peers |-> Fresh("DISCONNECTED")]
  /\ slot = [i \in Peers |-> 0]
  /\ entry = [p \in Peers |-> 0]
  /\ open = TRUE
  /\ net = {}

-----------------------------------------------------------------------------
(***************************************************************************)
(* Operations on one peer x, the same at both sides.                       *)
(***************************************************************************)

\* enet_peer_reset_queues
ResetQueues(x) == [x EXCEPT !.out = {}, !.sent = {}, !.due = {}]

\* enet_peer_reset: all but the session ids, which the next connection counts on.
Reset(x) == [ResetQueues(x) EXCEPT !.state = "DISCONNECTED", !.remote = 0]

\* enet_protocol_dispatch_state: nothing but its end is left for the peer.
Doomed(x) == [x EXCEPT !.state = "ZOMBIE"]

\* What a call of enet_host_service makes of a peer, and the event it returns.
Quiet(x)     == [peer |-> x, event |-> "none"]
Told(x, evt) == [peer |-> x, event |-> evt]

\* enet_protocol_notify_disconnect: a peer the application was never told of
\* goes without an event.
Disconnected(x) ==
  IF x.state = "ACKNOWLEDGING_CONNECT" THEN Quiet(Reset(x))
  ELSE Told(Reset(x), "DISCONNECT")

\* enet_protocol_handle_acknowledge
OnAck(x, cmd) ==
  LET y == [x EXCEPT !.sent = @ \ {cmd}]
  IN  IF cmd \notin x.sent THEN Quiet(x)
      ELSE IF x.state = "ACKNOWLEDGING_CONNECT" /\ cmd = "VERIFY_CONNECT"
           THEN Told([y EXCEPT !.state = "CONNECTED"], "CONNECT")
      ELSE IF x.state = "DISCONNECTING" /\ cmd = "DISCONNECT" THEN Disconnected(y)
      ELSE Quiet(y)

\* It is reset at once, and acknowledged never.
OnDisconnectAtOnce(x) == IF x.state = "CONNECTING" THEN Doomed(ResetQueues(x)) ELSE Reset(x)

\* enet_protocol_handle_disconnect; what was received and not yet dispatched
\* is dropped with the queues.
OnDisconnect(x) ==
  IF x.state = "ACKNOWLEDGING_DISCONNECT" THEN [x EXCEPT !.due = {"DISCONNECT"}]
  ELSE IF x.state \in {"CONNECTING", "DISCONNECTING"} THEN Doomed(ResetQueues(x))
  ELSE IF x.state # "CONNECTED" THEN Reset(x)
  ELSE [ResetQueues(x) EXCEPT !.state = "ACKNOWLEDGING_DISCONNECT", !.due = {"DISCONNECT"}]

\* Counts only once the connection stands; it is acknowledged every time.
OnPing(x) == IF x.state = "CONNECTED" THEN [x EXCEPT !.due = @ \cup {"PING"}] ELSE x

\* enet_protocol_handle_verify_connect
OnVerify(x, d) ==
  IF x.state = "CONNECTING"
  THEN Told([x EXCEPT !.state = "CONNECTED", !.remote = d.p, !.sent = @ \ {"CONNECT"},
                      !.inS = d.inS, !.outS = d.outS, !.due = {"VERIFY_CONNECT"}], "CONNECT")
  ELSE IF x.state = "CONNECTED" THEN Quiet([x EXCEPT !.due = @ \cup {"VERIFY_CONNECT"}])
  ELSE Quiet(x)

\* enet_protocol_handle_incoming_commands, for a peer the datagram is meant for.
Handled(x, d) ==
  IF d.ack THEN OnAck(x, d.cmd)
  ELSE CASE d.cmd = "VERIFY_CONNECT" -> OnVerify(x, d)
         [] d.cmd = "DISCONNECT"     -> Quiet(OnDisconnect(x))
         [] d.cmd = "PING"           -> Quiet(OnPing(x))
         [] OTHER                    -> Quiet(x)

Live(x) == x.state \notin {"NONE", "GONE", "DISCONNECTED", "ZOMBIE"}

\* Only one that has never been idle is watched.
PingingWhenBusy(x) == x.state = "CONNECTED" /\ x.out # {}

\* A connection with nothing to wait for is kept under watch by pings.
Pinging(x) == x.state = "CONNECTED" /\ x.out \cup x.sent = {}

\* After enet_protocol_send_outgoing_commands; late says that the last
\* acknowledgement is pingInterval ago.  Once its DISCONNECT is
\* acknowledged the other side is gone for the application as well.
Flushed(x, late) ==
  LET y == [x EXCEPT !.due = {}, !.out = {},
                     !.sent = @ \cup x.out \cup (IF late /\ Pinging(x) THEN {"PING"} ELSE {})]
  IN  IF "DISCONNECT" \in x.due THEN Doomed(y) ELSE y

\* enet_peer_disconnect
Disconnecting(x) ==
  IF x.state = "CONNECTED"
  THEN [ResetQueues(x) EXCEPT !.state = "DISCONNECTING", !.out = {"DISCONNECT"}]
  ELSE x

\* What it sends: acknowledgements, then commands, new or for another time.
Outgoing(x, late, up, c, p) ==
  LET Make(cmd, ack) ==
        [up |-> up, c |-> c, p |-> p, cmd |-> cmd, ack |-> ack,
         session |-> IF x.remote # 0 THEN x.outS ELSE -1,
         \* a VERIFY_CONNECT tells the other side its sessions, seen from there
         inS |-> IF cmd = "VERIFY_CONNECT" /\ ~ack THEN x.outS ELSE -1,
         outS |-> IF cmd = "VERIFY_CONNECT" /\ ~ack THEN x.inS ELSE -1]
  IN  {Make(cmd, TRUE) : cmd \in x.due} \cup
      {Make(cmd, FALSE) : cmd \in Flushed(x, late).sent}

\* As many of them as there may be.
Sent(ds) ==
  \/ Cardinality(net \cup ds) <= MaxUnderWay /\ net' = net \cup ds
  \/ /\ Cardinality(net \cup ds) > MaxUnderWay
     /\ \E kept \in SUBSET ds :
          Cardinality(net \cup kept) = MaxUnderWay /\ net' = net \cup kept

-----------------------------------------------------------------------------
(***************************************************************************)
(* The server: joynet_poll_server.                                         *)
(***************************************************************************)

FreeSlots == {i \in Peers : slot[i] = 0}
Least(S)  == CHOOSE i \in S : \A j \in S : i <= j

\* The table of clients after an event of peer p.  Without a free entry the
\* code would use entry -1.
Event(p, evt) ==
  CASE evt = "CONNECT" /\ FreeSlots # {} ->
         /\ slot' = [slot EXCEPT ![Least(FreeSlots)] = p]
         /\ entry' = [entry EXCEPT ![p] = Least(FreeSlots)]
    [] evt = "DISCONNECT" /\ entry[p] # 0 ->
         /\ slot' = [slot EXCEPT ![entry[p]] = 0]
         /\ entry' = entry
    [] OTHER -> UNCHANGED <<slot, entry>>

\* A peer of the server becomes r.peer, with event r.event.
Becomes(p, r) == sv' = [sv EXCEPT ![p] = r.peer] /\ Event(p, r.event)

Next4(s) == (s + 1) % 4

\* The session ids of the next connection of a peer.
NextSession(s) == IF Next4(s) = s THEN Next4(Next4(s)) ELSE Next4(s)

\* enet_protocol_handle_connect: the first free peer is taken, unless the
\* attempt has one already.
AcceptConnect(d) ==
  LET unused == {p \in Peers : sv[p].state = "DISCONNECTED"}
      p      == Least(unused)
  IN  IF unused = {} \/ \E q \in Peers : sv[q].remote = d.c
      THEN UNCHANGED <<sv, slot, entry>>
      ELSE Becomes(p, Quiet([sv[p] EXCEPT
             !.state = "ACKNOWLEDGING_CONNECT", !.remote = d.c, !.out = {"VERIFY_CONNECT"},
             !.inS = NextSession(@), !.outS = NextSession(@)]))

\* The datagram comes from the peer's address, in its session.
MeantFor(p, d) == Live(sv[p]) /\ sv[p].remote = d.c /\ d.session = sv[p].inS

ServerReceive(d) ==
  /\ open
  /\ d \in net /\ d.up
  /\ net' = net \ {d}
  /\ IF d.p = 0 THEN AcceptConnect(d)
     ELSE IF MeantFor(d.p, d) THEN Becomes(d.p, Handled(sv[d.p], d))
     ELSE UNCHANGED <<sv, slot, entry>>
  /\ UNCHANGED <<cl, open>>

\* enet_protocol_dispatch_incoming_commands, when the peer's turn comes
ServerDispatch(p) ==
  /\ open
  /\ sv[p].state = "ZOMBIE"
  /\ Becomes(p, Told(Reset(sv[p]), "DISCONNECT"))
  /\ UNCHANGED <<cl, open, net>>

\* Datagrams to the host of an attempt that is gone are lost.
ServerSend(p, late) ==
  /\ open /\ Live(sv[p])
  /\ Sent(Outgoing(sv[p], late, FALSE, sv[p].remote, p))
  /\ sv' = [sv EXCEPT ![p] = Flushed(@, late)]
  /\ <<net', sv'>> # <<net, sv>>
  /\ UNCHANGED <<cl, slot, entry, open>>

ServerTimeout(p) ==
  /\ open /\ Live(sv[p]) /\ sv[p].sent # {}
  /\ Becomes(p, Disconnected(sv[p]))
  /\ UNCHANGED <<cl, open, net>>

\* joynet_close_server: everybody in the table is told once.
Close ==
  LET told == {p \in Peers : \E i \in Peers : slot[i] = p}
      last == [p \in Peers |-> IF p \in told THEN Disconnecting(sv[p]) ELSE sv[p]]
  IN  /\ open
      /\ open' = FALSE
      /\ Sent(UNION {Outgoing(last[p], FALSE, FALSE, last[p].remote, p) :
                         p \in {q \in Peers : Live(last[q])}})
      /\ sv' = [p \in Peers |-> Fresh("GONE")]
      /\ slot' = [i \in Peers |-> 0]
      /\ UNCHANGED <<cl, entry>>

-----------------------------------------------------------------------------
(***************************************************************************)
(* A client.                                                               *)
(***************************************************************************)

\* enet_host_connect, by a host just created, once the last attempt is over
Connect(c) ==
  /\ cl[c].state = "NONE"
  /\ \A b \in Attempts : b < c => cl[b].state \in {"GONE", "DISCONNECTED"}
  /\ cl' = [cl EXCEPT ![c] = [Fresh("CONNECTING") EXCEPT !.out = {"CONNECT"}]]
  /\ UNCHANGED <<sv, slot, entry, open, net>>

\* joynet_connect_client_to_server does not wait any longer.
ClientGivesUp(c) ==
  /\ cl[c].state = "CONNECTING"
  /\ cl' = [cl EXCEPT ![c] = Reset(@)]
  /\ UNCHANGED <<sv, slot, entry, open, net>>

ClientReceive(d) ==
  LET c == d.c
  IN  /\ d \in net /\ ~d.up
      /\ net' = net \ {d}
      /\ cl' = IF Live(cl[c]) /\ (cl[c].remote = 0 \/ d.session = cl[c].inS)
               THEN [cl EXCEPT ![c] = Handled(@, d).peer]
               ELSE cl
      /\ UNCHANGED <<sv, slot, entry, open>>

ClientDispatch(c) ==
  /\ cl[c].state = "ZOMBIE"
  /\ cl' = [cl EXCEPT ![c] = Reset(@)]
  /\ UNCHANGED <<sv, slot, entry, open, net>>

ClientSend(c, late) ==
  /\ Live(cl[c])
  /\ Sent(Outgoing(cl[c], late, TRUE, c, cl[c].remote))
  /\ cl' = [cl EXCEPT ![c] = Flushed(@, late)]
  /\ <<net', cl'>> # <<net, cl>>
  /\ UNCHANGED <<sv, slot, entry, open>>

ClientTimeout(c) ==
  /\ Live(cl[c]) /\ cl[c].sent # {}
  /\ cl' = [cl EXCEPT ![c] = Disconnected(@).peer]
  /\ UNCHANGED <<sv, slot, entry, open, net>>

\* A client whose version differs disconnects and goes on polling.
ClientDisconnects(c) ==
  /\ cl[c].state = "CONNECTED"
  /\ cl' = [cl EXCEPT ![c] = Disconnecting(@)]
  /\ UNCHANGED <<sv, slot, entry, open, net>>

\* joynet_disconnect_client_from_server: the DISCONNECT is sent once, as the
\* host is destroyed with it.
ClientLeaves(c) ==
  LET last == Disconnecting(cl[c])
  IN  /\ cl[c].state \in {"CONNECTED", "DISCONNECTING", "ACKNOWLEDGING_DISCONNECT", "ZOMBIE"}
      /\ Sent(IF Live(last) THEN Outgoing(last, FALSE, TRUE, c, last.remote) ELSE {})
      /\ cl' = [cl EXCEPT ![c] = Fresh("GONE")]
      /\ UNCHANGED <<sv, slot, entry, open>>

\* A program that crashes says nothing.
ClientCrashes(c) ==
  /\ Live(cl[c])
  /\ cl' = [cl EXCEPT ![c] = Fresh("GONE")]
  /\ UNCHANGED <<sv, slot, entry, open, net>>

Lose(d) ==
  /\ d \in net
  /\ net' = net \ {d}
  /\ UNCHANGED <<cl, sv, slot, entry, open>>

-----------------------------------------------------------------------------

Next ==
  \/ \E d \in net : ServerReceive(d) \/ ClientReceive(d) \/ Lose(d)
  \/ \E p \in Peers : ServerDispatch(p) \/ ServerTimeout(p)
  \/ \E p \in Peers, late \in BOOLEAN : ServerSend(p, late)
  \/ Close
  \/ \E c \in Attempts :
       \/ Connect(c) \/ ClientGivesUp(c) \/ ClientDispatch(c)
       \/ \E late \in BOOLEAN : ClientSend(c, late)
       \/ ClientTimeout(c) \/ ClientDisconnects(c) \/ ClientLeaves(c) \/ ClientCrashes(c)

\* Hosts are served again and again, and what is not acknowledged for long
\* enough times out; nothing has to be delivered.  While nothing is to be
\* acknowledged no acknowledgement comes, so that the ping becomes due.
Fairness ==
  /\ \A p \in Peers : WF_vars(ServerSend(p, TRUE)) /\ WF_vars(ServerDispatch(p)) /\ WF_vars(ServerTimeout(p))
  /\ \A c \in Attempts : WF_vars(ClientSend(c, TRUE)) /\ WF_vars(ClientDispatch(c)) /\ WF_vars(ClientTimeout(c))

Spec == Init /\ [][Next]_vars
FairSpec == Spec /\ Fairness

-----------------------------------------------------------------------------

\* The peers of which the application has been told, and not that they are gone.
Announced == {p \in Peers : sv[p].state \in {"CONNECTED", "DISCONNECTING",
                                              "ACKNOWLEDGING_DISCONNECT", "ZOMBIE"}}

\* The table of clients holds each of them once, where peer->data says, and
\* nobody else, so that a new client always finds a free entry.
ClientTable ==
  open => /\ \A p \in Announced : slot[entry[p]] = p
          /\ \A i \in Peers : slot[i] # 0 => slot[i] \in Announced /\ entry[slot[i]] = i

\* The peer of a client that is gone is free again in the end.
PeersReclaimed ==
  \A c \in Attempts :
    cl[c].state = "GONE" ~> (~open \/ \A p \in Peers : sv[p].remote # c)

\* The server has a peer for the attempt, in the session it connected with.
Served(c) ==
  \E p \in Peers : sv[p].remote = c /\ cl[c].remote = p /\ sv[p].inS = cl[c].outS

\* A client the server does not know, or knows in another session, does not
\* take itself to be connected for ever.
LossNoticed ==
  \A c \in Attempts : [](cl[c].state = "CONNECTED" => <>(cl[c].state # "CONNECTED" \/ Served(c)))

=============================================================================
