-------------------------------- MODULE Fifo --------------------------------
(***************************************************************************)
(* What a reliable channel promises while it lasts: messages come out in   *)
(* the order in which they went in, each exactly once.                     *)
(***************************************************************************)
EXTENDS Integers, Sequences

CONSTANT Messages

VARIABLES put, got, up

vars == <<put, got, up>>

Init == put = <<>> /\ got = <<>> /\ up = TRUE

Put(m) == up /\ put' = Append(put, m) /\ UNCHANGED <<got, up>>

\* A message that was missing may make several come out at once.
Get == \E k \in Len(got) + 1 .. Len(put) :
         got' = SubSeq(put, 1, k) /\ UNCHANGED <<put, up>>

Break == up /\ up' = FALSE /\ UNCHANGED <<put, got>>

Next == (\E m \in Messages : Put(m)) \/ Get \/ Break

Spec == Init /\ [][Next]_vars
=============================================================================
