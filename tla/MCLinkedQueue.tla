---------------------------- MODULE MCLinkedQueue ----------------------------
(* Instance of LinkedQueue for TLC.                                          *)
EXTENDS LinkedQueue, TLC

CONSTANTS n1, n2, n3, n4, p1, p2, x1, x2

Nodes == {n1, n2, n3, n4}
TwoProducers == {p1, p2}
Items == {x1, x2}
=============================================================================
