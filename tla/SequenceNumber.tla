--------------------------- MODULE SequenceNumber ---------------------------
(***************************************************************************)
(* TSequenceNumber<NumBits> (Engine/Public/Net/Util/SequenceNumber.h):     *)
(* unsigned numbers that wrap around at 2^NumBits and are compared by      *)
(* their distance, which is meaningful below half of the number space.     *)
(* Masking with SeqNumberMask is the remainder by SeqNumberCount.          *)
(***************************************************************************)
EXTENDS Integers

CONSTANT SeqNumberHalf     \* 2^(NumBits - 1); 8192 in FNetPacketNotify

ASSUME SeqNumberAssumption == SeqNumberHalf \in Nat \ {0}

SeqNumberCount == 2 * SeqNumberHalf

SeqNumber == 0 .. SeqNumberCount - 1

\* The constructor: a packet id of full width becomes a sequence number.
SeqOf(id) == id % SeqNumberCount

Inc(A) == SeqOf(A + 1)

\* Diff shifts the difference up and arithmetically down again: the low NumBits
\* bits of A - B, read as a signed number.
Diff(A, B) == ((A - B + SeqNumberHalf) % SeqNumberCount) - SeqNumberHalf

\* operator> and operator>=
Gt(A, B) == A # B /\ (A - B) % SeqNumberCount < SeqNumberHalf
Ge(A, B) == (A - B) % SeqNumberCount < SeqNumberHalf
=============================================================================
