---------------------------- MODULE MCUtmpLinks ----------------------------
(* Three users, two of them on the same hash chain, and one process id: the *)
(* table does not look at it.                                               *)
EXTENDS UtmpLinks, TLC
ThreeUsers == 1 .. 3
TwoChains  == (1 :> 1) @@ (2 :> 1) @@ (3 :> 2)
OnePid     == {1}
Anything   == 0 .. 3
=============================================================================
