---------------------------- MODULE MCContainers -----------------------------
(***************************************************************************)
(* Instances for TLC of the three lock-free or resizable containers of     *)
(* fixed threads: CircularQueue, TripleBuffer and ResizableCircularQueue.  *)
(* They share nothing; each behaviour is one of one of them, and the       *)
(* others stay in an initial state.                                        *)
(***************************************************************************)
EXTENDS CircularQueue

CONSTANTS x1, x2, OtherThread, Torn, LogIndexCount, LogMaxCapacity

Items == {x1, x2}
AllThreads == {Producer, Consumer, OtherThread}

VARIABLES
  which,                                            \* the container of this behaviour
  buffers, flags, wpc, wflags, rpc, rflags, epoch,  \* the triple buffer
  storage, ringHead, ringTail, strays               \* the resizable ring

tripleVars == <<buffers, flags, wpc, wflags, rpc, rflags, epoch>>
ringVars == <<storage, ringHead, ringTail, strays>>
mcVars == <<which, vars, tripleVars, ringVars>>

Triple == INSTANCE TripleBuffer WITH Value <- Item
Ring == INSTANCE ResizableCircularQueue WITH
          Raw <- NoItem, head <- ringHead, tail <- ringTail

ASSUME ContainersAssumption ==
  Triple!TripleBufferAssumption /\ Ring!ResizableCircularQueueAssumption

MCInit ==
  /\ which \in {"circular", "triple", "resizable"}
  /\ Init
  /\ Triple!Init
  /\ which # "triple" => flags = Triple!Initial /\ \A i \in Triple!Index : buffers[i] = x1
  /\ Ring!Init

CircularNext == which = "circular" /\ Next /\ UNCHANGED <<which, tripleVars, ringVars>>
TripleNext == which = "triple" /\ Triple!Next /\ UNCHANGED <<which, vars, ringVars>>
RingNext == which = "resizable" /\ Ring!Next /\ UNCHANGED <<which, vars, tripleVars>>

MCSpec == MCInit /\ [][CircularNext \/ TripleNext \/ RingNext]_mcVars

\* TripleBuffer.
ThreeBuffers == Triple!ThreeBuffers
ImplementsLatestValue == Triple!ImplementsLatestValue

\* ResizableCircularQueue.
SlotsInv == Ring!SlotsInv
RingImplementsFifo == Ring!ImplementsFifo
=============================================================================
