----------------------------- MODULE MCShStack -----------------------------
(* Instances of ShStack for TLC.  A page holds two pointers, so that a stack *)
(* of three fills more than one page, and one of 4 "bytes" is one page long. *)
EXTENDS ShStack

CONSTANTS p1, p2, p3

Two == {p1, p2}
Three == {p1, p2, p3}
AllWaits == {-1, 0, 1}
NoWaits == {-1}
OddWaits == {-1, 0, 1, 2}

Full == [p \in Procs |-> Ops]
PushPop == [p \in Procs |-> {"push", "pop"}]
Pushers == [p \in Procs |-> {"push"}]
=============================================================================
