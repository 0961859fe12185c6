--------------------------- MODULE MCCircularQueue ---------------------------
(* Instance of CircularQueue for TLC in which a third thread counts.         *)
EXTENDS CircularQueue

CONSTANTS x1, x2, OtherThread

Items == {x1, x2}
OtherThreads == {OtherThread}
=============================================================================
