----------------------------- MODULE FrameQueue -----------------------------
(***************************************************************************)
(* What an input buffer promises: frames come out in the order they went   *)
(* in, each exactly once, as long as no more than Max of them wait.  When  *)
(* more wait, what comes out is only known to be one of the Max newest.    *)
(***************************************************************************)
EXTENDS Integers, Sequences

CONSTANTS Frames, Blank, Max

VARIABLES
  pending,   \* frames put and not yet got, oldest first
  last,      \* the frame to put when none comes: the last one, Blank after Clear
  out        \* the frame got last

vars == <<pending, last, out>>

Init == pending = <<>> /\ last = Blank /\ out \in Frames

Put(f) == /\ pending' = Append(pending, f)
          /\ last' = f
          /\ UNCHANGED out

Newest == {pending[i] : i \in {j \in 1 .. Len(pending) : j > Len(pending) - Max}}

Get == /\ pending # <<>>
       /\ pending' = Tail(pending)
       /\ out' \in Newest
       /\ Len(pending) <= Max => out' = Head(pending)
       /\ UNCHANGED last

Clear == pending' = <<>> /\ last' = Blank /\ UNCHANGED out

Next == (\E f \in Frames : Put(f)) \/ Get \/ Clear

Spec == Init /\ [][Next]_vars
=============================================================================
