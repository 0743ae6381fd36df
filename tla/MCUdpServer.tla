---------------------------- MODULE MCUdpServer ----------------------------
(* Instances of UdpServer for TLC. *)
EXTENDS UdpServer

CONSTANTS c1, c2, c3

Two == {c1, c2}
Three == {c1, c2, c3}
Distinct == [c \in Clients |-> IF c = c1 THEN 7 ELSE IF c = c2 THEN -8 ELSE 9]
OneEach == [c \in Clients |-> IF c = c3 THEN 0 ELSE 1]
=============================================================================
