---------------------------- MODULE TripleBuffer ----------------------------
(***************************************************************************)
(* TTripleBuffer (Core/Public/Containers/TripleBuffer.h): a writer and a   *)
(* reader exchange values through three buffers without a lock.  Who owns  *)
(* which buffer is kept in one word of flags that both change by compare   *)
(* and exchange; the buffers themselves are ordinary memory, so that a     *)
(* value half written would be seen by a reader that looks at it.          *)
(***************************************************************************)
EXTENDS Integers

CONSTANTS
  Value,       \* what the buffers hold
  Torn         \* a value of which only a part has been written

TripleBufferAssumption == Torn \notin Value

VARIABLES
  buffers,     \* Buffers
  flags,       \* Flags: the dirty bit and the three indices
  wpc,         \* where the writer is in Write or SwapWriteBuffers
  wflags,      \* its CurrentFlags
  rpc,         \* where the reader is in SwapReadBuffers
  rflags,      \* its CurrentFlags
  epoch        \* auxiliary: changes with every Reset

vars == <<buffers, flags, wpc, wflags, rpc, rflags, epoch>>

Index == 0 .. 2

Flags == [dirty : BOOLEAN, temp : Index, write : Index, read : Index]

\* EBufferFlag::Initial
Initial == [dirty |-> FALSE, temp |-> 0, write |-> 1, read |-> 2]

TypeOK ==
  /\ buffers \in [Index -> Value \cup {Torn}]
  /\ flags \in Flags
  /\ wpc \in {"idle", "writing", "load", "exchange"}
  /\ wflags \in Flags
  /\ rpc \in {"idle", "load", "exchange"}
  /\ rflags \in Flags
  /\ epoch \in BOOLEAN

\* All three buffers hold one value, or the caller provides them and the one
\* behind the temp index is to be read first.
Init ==
  /\ buffers \in [Index -> Value]
  /\ flags \in {Initial, [Initial EXCEPT !.dirty = TRUE]}
  /\ ~flags.dirty => \A i, j \in Index : buffers[i] = buffers[j]
  /\ wpc = "idle"
  /\ wflags = Initial
  /\ rpc = "idle"
  /\ rflags = Initial
  /\ epoch = FALSE

-----------------------------------------------------------------------------
(* The writer.                                                             *)

BeginWrite ==
  /\ wpc = "idle"
  /\ buffers' = [buffers EXCEPT ![flags.write] = Torn]
  /\ wpc' = "writing"
  /\ UNCHANGED <<flags, wflags, rpc, rflags, epoch>>

EndWrite ==
  /\ wpc = "writing"
  /\ \E v \in Value : buffers' = [buffers EXCEPT ![flags.write] = v]
  /\ wpc' = "idle"
  /\ UNCHANGED <<flags, wflags, rpc, rflags, epoch>>

\* SwapWriteBuffers reads the flags at first and after each failed exchange.
LoadToSwapWrite ==
  /\ wpc \in {"idle", "load"}
  /\ wflags' = flags
  /\ wpc' = "exchange"
  /\ UNCHANGED <<buffers, flags, rpc, rflags, epoch>>

\* Mutant: the index of the temp buffer is not replaced.
SwapWriteWithTempFlags_KeepsTemp(f) ==
  [f EXCEPT !.dirty = TRUE, !.write = f.temp]

SwapWriteWithTempFlags(f) ==
  [dirty |-> TRUE, temp |-> f.write, write |-> f.temp, read |-> f.read]

SwapWriteBuffers ==
  /\ wpc = "exchange"
  /\ \/ /\ flags = wflags
        /\ flags' = SwapWriteWithTempFlags(wflags)
        /\ wpc' = "idle"
     \/ /\ flags # wflags
        /\ wpc' = "load"
        /\ UNCHANGED flags
  /\ UNCHANGED <<buffers, wflags, rpc, rflags, epoch>>

-----------------------------------------------------------------------------
(* The reader.                                                             *)

\* SwapReadBuffers returns at once when nothing new has been written.
TestDirty ==
  /\ rpc = "idle"
  /\ flags.dirty
  /\ rpc' = "load"
  /\ UNCHANGED <<buffers, flags, wpc, wflags, rflags, epoch>>

LoadToSwapRead ==
  /\ rpc = "load"
  /\ rflags' = flags
  /\ rpc' = "exchange"
  /\ UNCHANGED <<buffers, flags, wpc, wflags, epoch>>

SwapReadWithTempFlags(f) ==
  [dirty |-> FALSE, temp |-> f.read, write |-> f.write, read |-> f.temp]

\* Mutant: the flags are stored, whatever they have become meanwhile.
SwapReadBuffers_NoCompare ==
  /\ rpc = "exchange"
  /\ flags' = SwapReadWithTempFlags(rflags)
  /\ rpc' = "idle"
  /\ UNCHANGED <<buffers, wpc, wflags, rflags, epoch>>

\* Mutant: the dirty bit is taken away, and the indices stay where they are.
SwapReadBuffers_OnlyCleans ==
  /\ rpc = "exchange"
  /\ flags = rflags
  /\ flags' = [rflags EXCEPT !.dirty = FALSE]
  /\ rpc' = "idle"
  /\ UNCHANGED <<buffers, wpc, wflags, rflags, epoch>>

SwapReadBuffers ==
  /\ rpc = "exchange"
  /\ \/ /\ flags = rflags
        /\ flags' = SwapReadWithTempFlags(rflags)
        /\ rpc' = "idle"
     \/ /\ flags # rflags
        /\ rpc' = "load"
        /\ UNCHANGED flags
  /\ UNCHANGED <<buffers, wpc, wflags, rflags, epoch>>

-----------------------------------------------------------------------------

\* Reset is not made for use while the other thread is inside a call.
Reset ==
  /\ wpc = "idle"
  /\ rpc = "idle"
  /\ flags' = Initial
  /\ epoch' = ~epoch
  /\ UNCHANGED <<buffers, wpc, wflags, rpc, rflags>>

Next ==
  \/ BeginWrite
  \/ EndWrite
  \/ LoadToSwapWrite
  \/ SwapWriteBuffers
  \/ TestDirty
  \/ LoadToSwapRead
  \/ SwapReadBuffers
  \/ Reset

Spec == Init /\ [][Next]_vars

-----------------------------------------------------------------------------
(* Properties.                                                             *)

\* Read, write and temp buffer are always three different ones: neither thread
\* ever gets hold of the buffer that the other one uses.
ThreeBuffers ==
  flags.read # flags.write /\ flags.read # flags.temp /\ flags.write # flags.temp

\* The reader fetches what the writer published last, complete, and the buffer
\* it reads does not change under its hands until it swaps again; only Reset
\* goes back to an older value, or drops one that was not fetched.
Latest == INSTANCE LatestValue WITH
            draft     <- buffers[flags.write],
            published <- IF flags.dirty THEN buffers[flags.temp] ELSE buffers[flags.read],
            seen      <- buffers[flags.read],
            fresh     <- flags.dirty

ImplementsLatestValue == Latest!Spec
=============================================================================
