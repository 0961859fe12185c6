------------------------- MODULE MCReliableChannel -------------------------
(* Instances of ReliableChannel for TLC.                                     *)
EXTENDS ReliableChannel, TLC

\* Safety: the first actor is sent more than the second.
MCServerMessages == <<2, 1>>
MCClientMessages == <<1, 1>>
MCLooseMessages == <<2, 0>>

\* Liveness: a message of the server and the close.
LiveServerMessages == <<1>>
LiveClientMessages == <<0>>
LiveLooseMessages == <<0>>
=============================================================================
