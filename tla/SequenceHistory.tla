-------------------------- MODULE SequenceHistory ---------------------------
(***************************************************************************)
(* TSequenceHistory<HistorySize> (Engine/Public/Net/Util/SequenceHistory.h)*)
(* the delivery status of the last Size sequence numbers.  Index 0 is the  *)
(* last one stored.  Storage is kept in words, and a packet carries whole  *)
(* words of it.                                                            *)
(***************************************************************************)
EXTENDS Integers

CONSTANTS
  BitsPerWord,     \* 32 in the code
  WordCount        \* 8 in FNetPacketNotify: a history of 256 bits

ASSUME HistoryAssumption == BitsPerWord \in Nat \ {0} /\ WordCount \in Nat \ {0}

HistorySize == BitsPerWord * WordCount

HistoryIndex == 0 .. HistorySize - 1

History == [HistoryIndex -> BOOLEAN]

\* Reset
NoHistory == [i \in HistoryIndex |-> FALSE]

\* Mutant: the skipped ones get the status of the last.
AddDeliveryStatus_SameForSkipped(history, n, delivered) ==
  [i \in HistoryIndex |-> IF i < n THEN delivered ELSE history[i - n]]

\* AddDeliveryStatus, called n > 0 times: all but the last status are "lost".
AddDeliveryStatus(history, n, delivered) ==
  [i \in HistoryIndex |-> IF i = 0 THEN delivered ELSE i >= n /\ history[i - n]]

\* What Read recovers of what Write wrote: words beyond numWords are not sent
\* and keep the zeroes of a new history.
WriteRead(history, numWords) ==
  [i \in HistoryIndex |-> i < numWords * BitsPerWord /\ history[i]]
=============================================================================
