----------------------------- MODULE MCLockstep -----------------------------
(* Small instances of Lockstep for TLC.                                     *)
EXTENDS Lockstep, TLC

CONSTANTS c1, c2

OneEach == 0 :> c1 @@ 1 :> c2

\* c2 watches.
OneForAll == 0 :> c1 @@ 1 :> c1
=============================================================================
