---------------------------- MODULE MCTransport ----------------------------
(***************************************************************************)
(* What lies between a client and the server.  Channel twice: with as many *)
(* commands as fit into the windows and a network that forgets by age      *)
(* only, to see the numbers wrap; and with few commands, in messages of    *)
(* several fragments, and a network that loses whatever it likes, to see   *)
(* that everything arrives.  And Connection, with two attempts to connect  *)
(* to a server that has a place for one.                                   *)
(***************************************************************************)
EXTENDS Channel

VARIABLES part, cl, sv, slot, entry, open, net

W == INSTANCE Channel
       WITH Counts <- {1}, MaxCommands <- 8, MaxQueued <- 2,
            MaxInTransit <- 8, Drops <- FALSE

C == INSTANCE Connection WITH NumPeers <- 1, NumAttempts <- 2, MaxUnderWay <- 1

\* No message has more commands than a window.  A datagram of a command that was
\* acknowledged may be one window later than the free windows, counted from the
\* last command of its message.
ASSUME TransportAssumption ==
  \A c \in Counts \cup {1} : c <= WindowSize /\ MaxAge + c <= (Free + 1) * WindowSize + 2

connectionVars == <<cl, sv, slot, entry, open, net>>
allVars        == <<part, vars, connectionVars>>

MCInit == part \in {"wrapping", "losses", "connection"} /\ Init /\ C!Init

Wrapping(A)  == part = "wrapping" /\ A /\ UNCHANGED <<part, connectionVars>>
Losses(A)    == part = "losses" /\ A /\ UNCHANGED <<part, connectionVars>>
Connected(A) == part = "connection" /\ A /\ UNCHANGED <<part, vars>>

MCNext == Wrapping(W!Next) \/ Losses(Next) \/ Connected(C!Next)

MCSpec ==
  /\ MCInit /\ [][MCNext]_allVars
  /\ \A n \in Numbers :
       /\ WF_allVars(Losses(Transmit(n))) /\ WF_allVars(Losses(Timeout(n)))
       /\ SF_allVars(Losses(Receive(n)))  /\ SF_allVars(Losses(ReceiveAck(n)))
  /\ \A p \in C!Peers :
       /\ WF_allVars(Connected(C!ServerSend(p, TRUE)))
       /\ WF_allVars(Connected(C!ServerDispatch(p)))
       /\ WF_allVars(Connected(C!ServerTimeout(p)))
  /\ \A c \in C!Attempts :
       /\ WF_allVars(Connected(C!ClientSend(c, TRUE)))
       /\ WF_allVars(Connected(C!ClientDispatch(c)))
       /\ WF_allVars(Connected(C!ClientTimeout(c)))

\* Channel: the channel is a queue of messages, however the numbers wrap.
B == INSTANCE Fifo
       WITH Messages <- Numbers \cup W!Numbers, put <- [i \in DOMAIN msgs |-> msgs[i].first]

ChannelIsFifo == [](IF part = "wrapping" THEN W!TypeOK ELSE TypeOK) /\ B!Spec

\* Channel: a command that is acknowledged has been received.
AckedIsReceived == IF part = "wrapping" THEN W!AckedReceived ELSE AckedReceived

\* Channel: while the sender does not give up, every message is delivered.
AllDelivered == part = "losses" => Delivered

\* Connection: either side notices in the end that the other is gone.
EndsNoticed == part = "connection" => C!PeersReclaimed /\ C!LossNoticed
=============================================================================
