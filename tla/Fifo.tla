--------------------------------- MODULE Fifo ----------------------------------
(***************************************************************************)
(* The two receive buffers of the firmware's SPI (CFIFOlt, src/serial.hpp; *)
(* CSPIcomm, src/firmware/base/SPIcomm.cpp) and the sinks a message is     *)
(* handed to (CSerial).                                                    *)
(*                                                                         *)
(* The interrupt routine puts the characters of a frame into one buffer;   *)
(* with interrupts off, the main loop takes the memory of a complete frame *)
(* by swapping it with that of a second buffer, and hands it over          *)
(* character by character while the next frame comes in.  Which states the *)
(* flow control goes through is in SyncCom.                                *)
(***************************************************************************)
EXTENDS Integers, Sequences, FiniteSets

CONSTANTS
  FifoSize,      \* nBufSize: 4096 in the code
  FifoSinks,     \* objects that may be advised
  FifoMaxFrame   \* bound: length of a frame

FifoAssumption == FifoSize \in Nat \ {0} /\ IsFiniteSet(FifoSinks) /\ FifoMaxFrame \in Nat \ {0}

VARIABLES
  fifoMemory,   \* the two blocks of memory
  fifoRec,      \* m_recFIFO: block, read and write index
  fifoHold,     \* m_recFIFOhold
  fifoFrame,    \* abstract: the frame that comes in, <<>> before the first
  fifoDue,      \* characters of it that are still to come
  fifoComplete, \* state() = recOK
  fifoTaken,    \* abstract: the frame the main loop hands over
  fifoSinks,    \* m_EvSinks, whose order does not matter
  fifoAlive,    \* sinks that somebody holds
  fifoHeard     \* abstract: what each sink was given of that frame

fifoIrq  == <<fifoFrame, fifoDue, fifoComplete>>
fifoMain == <<fifoTaken, fifoSinks, fifoAlive, fifoHeard>>
fifoBuffers == <<fifoMemory, fifoRec, fifoHold>>
fifoVars == <<fifoBuffers, fifoIrq, fifoMain>>

-----------------------------------------------------------------------------
FifoEmpty(block) == [block |-> block, read |-> 0, write |-> 0]
Available(buffer) == buffer.write - buffer.read

\* operator <<: the write index starts again at the end of the block, the read
\* index never does.
WriteAt(buffer) == IF buffer.write >= FifoSize THEN 0 ELSE buffer.write

BugDumped(buffer, dest) ==     \* the indexes without the memory
  <<[block |-> dest.block, read |-> 0, write |-> 0],
    [block |-> dest.block, read |-> buffer.read, write |-> buffer.write]>>

\* dumpres(): the buffers swap their memory; the indexes go with the data.
Dumped(buffer, dest) ==
  <<[block |-> dest.block, read |-> 0, write |-> 0],
    [block |-> buffer.block, read |-> buffer.read, write |-> buffer.write]>>

\* A frame is of one of two colours, so that it differs from the one before.
Frames == {[i \in 1..n |-> c + i] : n \in 1..FifoMaxFrame, c \in {0, FifoMaxFrame}}

FifoInit ==
  /\ fifoMemory = [b \in {1, 2} |-> [i \in 0..(FifoSize - 1) |-> 0]]
  /\ fifoRec = FifoEmpty(1) /\ fifoHold = FifoEmpty(2)
  /\ fifoFrame = <<>> /\ fifoDue = 0 /\ fifoComplete = FALSE
  /\ fifoTaken = <<>> /\ fifoSinks = {} /\ fifoAlive = FifoSinks
  /\ fifoHeard = [s \in FifoSinks |-> <<>>]

\* The interrupt routine: slave select begins a frame and drops what was there,
\* complete or not; each character of it goes into the buffer.
FrameBegins ==
  \E frame \in Frames:
    /\ fifoFrame # <<>> => frame[1] # fifoFrame[1]
    /\ fifoRec' = FifoEmpty(fifoRec.block)
    /\ fifoFrame' = frame /\ fifoDue' = Len(frame) /\ fifoComplete' = FALSE
    /\ UNCHANGED <<fifoMemory, fifoHold, fifoMain>>
FrameCharacter ==
  /\ fifoDue > 0
  /\ LET at == WriteAt(fifoRec)
         ch == fifoFrame[Len(fifoFrame) - fifoDue + 1]
     IN /\ fifoMemory' = [fifoMemory EXCEPT ![fifoRec.block][at] = ch]
        /\ fifoRec' = [fifoRec EXCEPT !.write = at + 1]
  /\ fifoDue' = fifoDue - 1 /\ fifoComplete' = (fifoDue = 1)
  /\ UNCHANGED <<fifoHold, fifoFrame, fifoMain>>

\* Update(): take over a complete frame, with interrupts off.
TakeFrame ==
  /\ fifoComplete /\ Available(fifoHold) = 0
  /\ LET d == Dumped(fifoRec, fifoHold) IN fifoRec' = d[1] /\ fifoHold' = d[2]
  /\ fifoComplete' = FALSE
  /\ fifoTaken' = fifoFrame /\ fifoHeard' = [s \in FifoSinks |-> <<>>]
  /\ UNCHANGED <<fifoMemory, fifoFrame, fifoDue, fifoSinks, fifoAlive>>

\* Fire_on_rec_char(): sinks nobody holds any more leave the list.
HandOver ==
  /\ Available(fifoHold) # 0
  /\ LET ch == fifoMemory[fifoHold.block][fifoHold.read]
     IN /\ fifoSinks' = fifoSinks \cap fifoAlive
        /\ fifoHeard' = [s \in FifoSinks |->
             IF s \in fifoSinks' THEN Append(fifoHeard[s], ch) ELSE fifoHeard[s]]
  /\ fifoHold' = [fifoHold EXCEPT !.read = @ + 1]
  /\ UNCHANGED <<fifoMemory, fifoRec, fifoIrq, fifoTaken, fifoAlive>>

\* Between messages: a sink is advised, or its owner lets it go.
AdviseSink ==
  \E s \in fifoAlive:
    /\ s \notin fifoSinks /\ Available(fifoHold) = 0
    /\ fifoSinks' = fifoSinks \cup {s}
    /\ UNCHANGED <<fifoMemory, fifoRec, fifoHold, fifoIrq, fifoTaken, fifoAlive, fifoHeard>>
LetGo ==
  \E s \in fifoAlive:
    /\ s \in fifoSinks
    /\ fifoAlive' = fifoAlive \ {s}
    /\ UNCHANGED <<fifoMemory, fifoRec, fifoHold, fifoIrq, fifoTaken, fifoSinks, fifoHeard>>

FifoNext == FrameBegins \/ FrameCharacter \/ TakeFrame \/ HandOver \/ AdviseSink \/ LetGo
FifoSpec == FifoInit /\ [][FifoNext]_fifoVars

-----------------------------------------------------------------------------
(* Every character the main loop hands over is the next of the frame it has  *)
(* taken, to every sink that is held, whatever the interrupt routine receives *)
(* meanwhile, as long as the frame fits the buffer; and then none is missing *)
(* when the buffer is empty. *)
FramesHandedOver ==
  Len(fifoTaken) <= FifoSize =>
    \A s \in fifoAlive:
      LET heard == fifoHeard[s]
      IN heard # <<>> =>
           /\ heard = SubSeq(fifoTaken, 1, Len(heard))
           /\ Available(fifoHold) = Len(fifoTaken) - Len(heard)
=============================================================================
