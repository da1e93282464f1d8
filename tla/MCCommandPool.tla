---------------------------- MODULE MCCommandPool ----------------------------
(* Model-checking instance of CommandPool: two command buffers recorded   *)
(* by two threads into one pool whose arena holds three records, two     *)
(* contexts, and a query pool of one query of either type.  The buffers   *)
(* are interchangeable, and so are the two push-constant contents:       *)
(* nothing in the pool or the replay tells them apart, so states that     *)
(* differ by swapping them are checked once.                              *)
EXTENDS CommandPool, TLC

CONSTANTS b1, b2, v1, v2

Symmetry ==
    {p @@ q : p \in Permutations({b1, b2}), q \in Permutations({v1, v2})}
=============================================================================
