----------------------------- MODULE MCHandshake -----------------------------
(* Instances of Handshake for TLC.                                           *)
EXTENDS Handshake, TLC

ASSUME MCPromptAssumption == PromptPackets /\ PromptAnswers

CONSTANTS a1, a2, c1, c2, c3

TwoAddresses == {a1, a2}
ThreeCookies == {c1, c2, c3}
Symmetry == Permutations(ThreeCookies)
=============================================================================
