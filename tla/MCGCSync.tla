------------------------------ MODULE MCGCSync ------------------------------
(* Instance of GCSync for TLC.  GC cycles are not bounded: the state space   *)
(* is finite without a bound on them.                                        *)
EXTENDS GCSync, TLC

CONSTANTS t1, t2

Threads == {t1, t2}
OneLoader == {t1}
=============================================================================
