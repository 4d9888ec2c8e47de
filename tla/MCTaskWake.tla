----------------------------- MODULE MCTaskWake -----------------------------
(* A task whose program keeps the contract of the wake protocol, or makes two *)
(* posts for a run, to any executor.                                          *)
EXTENDS TaskWake

Either == {[wakes |-> 1, pinned |-> TRUE, objects |-> 2],
           [wakes |-> 2, pinned |-> FALSE, objects |-> 1]}
TwoPosts == {[wakes |-> 2, pinned |-> TRUE, objects |-> 1]}
=============================================================================
