------------------------------ MODULE Channel ------------------------------
(***************************************************************************)
(* One direction of one channel of ENet, which carries every message of    *)
(* joynet: numbered commands, acknowledgements, retransmission, and the    *)
(* windows that keep 16 bits of sequence number unambiguous.               *)
(*                                                                         *)
(* A command is identified here by the number it would have if numbers did *)
(* not wrap; only Wire(n) is ever compared by the receiver, or by the      *)
(* sender when an acknowledgement comes.  Sizes, times and round trips are *)
(* left out: a command may time out whenever it is not acknowledged.       *)
(*                                                                         *)
(* The network loses, delays, duplicates and reorders datagrams, but does  *)
(* not keep one of an acknowledged command for longer than MaxAge further  *)
(* commands.                                                               *)
(***************************************************************************)
EXTENDS Integers, Sequences, FiniteSets

CONSTANTS
  WindowSize,   \* ENET_PEER_RELIABLE_WINDOW_SIZE, 4096
  Free,         \* ENET_PEER_FREE_RELIABLE_WINDOWS, 8
  Start,        \* commands sent, acknowledged and delivered before
  Counts,       \* numbers of fragments that a message may have
  MaxCommands,  \* bound: commands sent from now on
  MaxQueued,    \* bound: commands that wait to be sent for the first time
  MaxInTransit, \* bound: commands in transit; 64 KiB of them in the code
  MaxAge,       \* bound: commands after which the network has forgotten one
  Drops         \* whether datagrams are seen to leave the network

\* ENET_PEER_RELIABLE_WINDOWS is twice the number of free windows.
Windows == 2 * Free
Wrap    == Windows * WindowSize

ASSUME ChannelAssumption ==
  /\ WindowSize \in Nat \ {0} /\ Free \in Nat /\ Free > 2
  /\ Start \in Nat /\ MaxCommands \in Nat /\ MaxAge \in Nat /\ MaxQueued \in Nat /\ MaxInTransit \in Nat
  /\ Counts \subseteq Nat \ {0} /\ Drops \in BOOLEAN

VARIABLES
  msgs,     \* messages given to enet_peer_send: first command and how many
  newest,   \* the highest number that was sent at least once
  sent,     \* sentReliableCommands: sent, neither acknowledged nor timed out
  late,     \* timed out: at the head of outgoingReliableCommands again
  data,     \* commands in the network
  acks,     \* acknowledgements in the network
  at,       \* channel->incomingReliableSequenceNumber
  held,     \* channel->incomingReliableCommands
  got,      \* messages dispatched, by their first command
  up        \* the sender has not given up

vars == <<msgs, newest, sent, late, data, acks, at, held, got, up>>

Wire(n)   == n % Wrap
Window(n) == Wire(n) \div WindowSize

\* The number of the next command: one more than outgoingReliableSequenceNumber.
Upcoming == IF msgs = <<>> THEN Start + 1
            ELSE msgs[Len(msgs)].first + msgs[Len(msgs)].count

Numbers == Start + 1 .. Start + MaxCommands

\* The message that a command belongs to, whole or as a fragment.
MessageOf(n) == CHOOSE m \in {msgs[i] : i \in DOMAIN msgs} :
                  m.first <= n /\ n < m.first + m.count

TypeOK ==
  /\ msgs \in Seq([first : Numbers, count : Counts])
  /\ newest \in Numbers \cup {Start}
  /\ sent \subseteq Numbers /\ late \subseteq Numbers /\ sent \cap late = {}
  /\ data \subseteq Numbers /\ acks \subseteq Numbers
  /\ at \in 0 .. Wrap - 1
  /\ \A h \in held : h.seq \in 0 .. Wrap - 1 /\ h.first \in Numbers
  /\ got \in Seq(Numbers)
  /\ up \in BOOLEAN

Init ==
  /\ msgs = <<>> /\ newest = Start /\ sent = {} /\ late = {}
  /\ data = {} /\ acks = {}
  /\ at = Wire(Start) /\ held = {} /\ got = <<>>
  /\ up = TRUE

-----------------------------------------------------------------------------
(***************************************************************************)
(* The sender.                                                             *)
(***************************************************************************)

\* enet_peer_send: a message too long for a datagram becomes several commands.
Send(count) ==
  /\ up
  /\ Upcoming + count <= Start + MaxCommands + 1
  /\ Upcoming + count - newest <= MaxQueued + 1
  /\ msgs' = Append(msgs, [first |-> Upcoming, count |-> count])
  /\ UNCHANGED <<newest, sent, late, data, acks, at, held, got, up>>

\* channel->reliableWindows: commands of each window that are not acknowledged.
InUse(w) == Cardinality({n \in sent \cup late : Window(n) = w})

\* One of the next Free windows is in use.
BlockedByUse(n) ==
  /\ Wire(n) % WindowSize = 0
  /\ \E k \in 0 .. Free - 1 : InUse((Window(n) + k) % Windows) > 0

\* The first command of a window also waits while nothing of the window before
\* it is acknowledged.
Blocked(n) ==
  \/ BlockedByUse(n)
  \/ /\ Wire(n) % WindowSize = 0
     /\ InUse((Window(n) + Windows - 1) % Windows) >= WindowSize

\* What the network still holds: of what is acknowledged, nothing older than
\* MaxAge commands.
Recent(net) == {m \in net : m \in sent' \cup late' \/ m > newest' - MaxAge}

\* Commands that timed out are sent before any that was never sent.
Transmit(n) ==
  /\ up
  /\ Cardinality(sent) < MaxInTransit
  /\ \/ n \in late
     \/ late = {} /\ n = newest + 1 /\ n < Upcoming /\ ~Blocked(n)
  /\ newest' = IF n > newest THEN n ELSE newest
  /\ sent' = sent \cup {n}
  /\ late' = late \ {n}
  /\ data' = Recent(data \cup {n})
  /\ acks' = Recent(acks)
  /\ UNCHANGED <<msgs, at, held, got, up>>

\* enet_protocol_check_timeouts
Timeout(n) ==
  /\ up
  /\ n \in sent
  /\ sent' = sent \ {n}
  /\ late' = late \cup {n}
  /\ UNCHANGED <<msgs, newest, data, acks, at, held, got, up>>

\* Once a command has timed out for too long the connection is given up.
GiveUp ==
  /\ up
  /\ sent # {}
  /\ up' = FALSE
  /\ UNCHANGED <<msgs, newest, sent, late, data, acks, at, held, got>>

\* enet_protocol_remove_sent_reliable_command: what was sent is searched
\* first, then what has to be sent again.
Acked(w) ==
  LET In(S) == {n \in S : Wire(n) = w}
  IN  IF In(sent) # {} THEN In(sent) ELSE In(late)

ReceiveAck(n) ==
  /\ up
  /\ n \in acks
  /\ sent' = sent \ Acked(Wire(n))
  /\ late' = late \ Acked(Wire(n))
  /\ acks' = IF Drops THEN acks \ {n} ELSE acks
  /\ UNCHANGED <<msgs, newest, data, at, held, got, up>>

-----------------------------------------------------------------------------
(***************************************************************************)
(* The receiver.                                                           *)
(***************************************************************************)

\* How many windows a number is ahead of the last one dispatched; one that
\* is smaller is taken for one of the next round.
Ahead(seq, last) ==
  (seq \div WindowSize) + (IF seq < last THEN Windows ELSE 0) - (last \div WindowSize)

Acceptable(seq) == Ahead(seq, at) \in 0 .. Free - 2

\* held with command n in it: a message of its own or a further fragment.
\* What is held already, or was dispatched last, stays as it is.
With(n) ==
  LET m    == MessageOf(n)
      seq  == Wire(m.first)
      same == {h \in held : h.seq = seq}
  IN  IF same # {}
      THEN {IF h.seq = seq THEN [h EXCEPT !.missing = @ \ {n - m.first}] ELSE h : h \in held}
      ELSE IF seq = at THEN held
      ELSE held \cup {[seq |-> seq, first |-> m.first, count |-> m.count,
                       missing |-> (0 .. m.count - 1) \ {n - m.first}]}

\* Whether message m is what comes after number last.
ReadyInHaste(m, last) == m.missing = {}
Ready(m, last) == m.missing = {} /\ m.seq = (last + 1) % Wrap

\* The number of its last fragment.
LastOfShort(m) == m.seq
LastOf(m) == (m.seq + m.count - 1) % Wrap

\* enet_peer_dispatch_incoming_reliable_commands, after k messages: what is
\* still held, the last number dispatched, and the messages dispatched.
Dispatched(h) ==
  LET f[k \in 0 .. Cardinality(h)] ==
        IF k = 0 THEN [held |-> h, at |-> at, got |-> got]
        ELSE LET p == f[k - 1]
             IN  IF \A m \in p.held : ~Ready(m, p.at) THEN p
                 ELSE LET m == CHOOSE m \in p.held : Ready(m, p.at)
                      IN  [held |-> p.held \ {m}, at |-> LastOf(m),
                           got |-> Append(p.got, m.first)]
  IN  f[Cardinality(h)]

\* enet_peer_queue_acknowledgement: what was discarded because it is too far
\* ahead is not acknowledged.
AckDue(seq, last) == Ahead(seq, last) \notin Free - 1 .. Free

\* A command arrives: it is taken in, or discarded, and acknowledged.
Receive(n) ==
  LET now == IF Acceptable(Wire(MessageOf(n).first)) THEN Dispatched(With(n))
             ELSE [held |-> held, at |-> at, got |-> got]
  IN  /\ n \in data
      /\ held' = now.held /\ at' = now.at /\ got' = now.got
      /\ acks' = IF AckDue(Wire(n), at') THEN acks \cup {n} ELSE acks
      /\ data' = IF Drops THEN data \ {n} ELSE data
      /\ UNCHANGED <<msgs, newest, sent, late, up>>

\* A datagram is lost.
Lose ==
  /\ Drops
  /\ \/ \E n \in data : data' = data \ {n} /\ UNCHANGED acks
     \/ \E n \in acks : acks' = acks \ {n} /\ UNCHANGED data
  /\ UNCHANGED <<msgs, newest, sent, late, at, held, got, up>>

-----------------------------------------------------------------------------

Next ==
  \/ \E c \in Counts : Send(c)
  \/ \E n \in Numbers : \/ Transmit(n) \/ Timeout(n)
                        \/ Receive(n) \/ ReceiveAck(n)
  \/ GiveUp
  \/ Lose

\* Both hosts are served again and again, and of what is sent again and again
\* something arrives.
Fairness ==
  \A n \in Numbers : /\ WF_vars(Transmit(n)) /\ WF_vars(Timeout(n))
                     /\ SF_vars(Receive(n)) /\ SF_vars(ReceiveAck(n))

Spec == Init /\ [][Next]_vars
FairSpec == Spec /\ Fairness

-----------------------------------------------------------------------------

\* A command that was acknowledged has been taken in: it belongs to a message
\* that was dispatched, or is not missing from one that is held.
AckedReceived ==
  \A n \in Start + 1 .. newest :
    n \notin sent \cup late =>
      \/ \E i \in DOMAIN got : got[i] = MessageOf(n).first
      \/ \E h \in held : h.first = MessageOf(n).first /\ n - h.first \notin h.missing

\* What the channel promises, with its messages known by their first commands.
F == INSTANCE Fifo WITH Messages <- Numbers, put <- [i \in DOMAIN msgs |-> msgs[i].first]
InOrder == F!Spec

\* While the sender does not give up, every message is delivered.
Delivered == \A i \in 1 .. MaxCommands : Len(msgs) >= i ~> (Len(got) >= i \/ ~up)

=============================================================================
