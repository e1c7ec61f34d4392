------------------------------- MODULE Eeprom -------------------------------
(***************************************************************************)
(* Writing the HAT image to the EEPROM chip: Sam_i2c_eeprom_master::send()  *)
(* (src/firmware/sam/i2c_eeprom_master.cpp), the interrupt routine that     *)
(* moves the bytes, and the chip.                                           *)
(*                                                                         *)
(* The main loop starts a transfer, waits until the interrupt routine has   *)
(* ended it or a time-out expires, and goes on: page after page, then one   *)
(* transfer that reads everything back and compares.  Both sides share the  *)
(* state of the transfer, the buffer and its read position.                 *)
(*                                                                         *)
(* Byte i of the image is i; anything else the chip may hold is Foreign.    *)
(***************************************************************************)
EXTENDS Integers, Sequences

CONSTANTS
  Size,       \* bytes of the image
  PageSize,   \* bytes the driver writes at a time (16; half of a page of the chip)
  Retries,    \* attempts of send() (3)
  MaxFaults,  \* bound: transfers disturbed in one send()
  MaxLates    \* bound: transfers slower than a time-out in one send()

ASSUME EepromAssumption ==
  /\ Size \in Nat \ {0} /\ PageSize \in Nat \ {0} /\ Retries \in Nat \ {0}
  /\ MaxFaults \in Nat /\ MaxLates \in Nat

Foreign == 0
Bytes == 1 .. Size

VARIABLES
  \* --- the main loop -------------------------------------------------------
  step,      \* what send() is doing
  tries,     \* attempts begun
  addr,      \* eeprom_current_address_
  result,    \* how the last send() ended
  \* --- shared with the interrupt routine -----------------------------------
  state,     \* state_; "start" stands for the address bytes, too
  dir,       \* io_direction_
  attached,  \* io_buffer_ is set
  cursor,    \* bytes taken from the buffer since it was rewound
  pageLeft,  \* page_bytes_left_
  reading,   \* the chip is sending: interrupts "slave on bus" come, whatever
             \* state_ says
  \* --- the chip ------------------------------------------------------------
  chip,      \* its content
  at,        \* the address of its next byte
  latch,     \* bytes received in this transfer and not yet stored
  busy,      \* it is storing a page and answers no address
  \* --- history -------------------------------------------------------------
  faults,    \* disturbances so far in this send()
  lates,     \* transfers that were going on when send() turned away from them
  cut        \* the last read was halted before its last byte was compared

main == <<step, tries, addr, result>>
shared == <<state, dir, attached, cursor, pageLeft, reading>>
chipVars == <<chip, at, latch, busy>>
hist == <<faults, lates, cut>>
vars == <<main, shared, chipVars, hist>>

Init ==
  /\ step = "idle" /\ tries = 0 /\ addr = 0 /\ result = "none"
  /\ state = "halted" /\ dir = "read" /\ attached = FALSE
  /\ cursor = 0 /\ pageLeft = 0 /\ reading = FALSE
  /\ chip \in {[i \in Bytes |-> Foreign], [i \in Bytes |-> i]}
  /\ at = 1 /\ latch = <<>> /\ busy = FALSE
  /\ faults = 0 /\ lates = 0 /\ cut = FALSE

-----------------------------------------------------------------------------
(* The main loop: send(), submit__(), write_next_page(),                    *)
(* read_back_and_compare__()                                                *)

Underway == state \in {"start", "write"} \/ reading

\* A new image, equal to the chip's content or different in every byte.  A
\* transfer of an earlier send() that is still going on counts as late.
Send ==
  /\ step = "idle"
  /\ step' = "try" /\ tries' = 0 /\ result' = "none"
  /\ chip' \in {chip, [i \in Bytes |-> Foreign]}
  /\ faults' = 0 /\ lates' = (IF Underway THEN 1 ELSE 0) /\ cut' = FALSE
  /\ UNCHANGED <<addr, shared, at, latch, busy>>

\* The buffer is rewound and given to the interrupt routine.
BugRewound == cursor                               \* goes on where it was
Rewound == 0

Try ==
  /\ step = "try"
  /\ tries' = tries + 1
  /\ cursor' = Rewound
  /\ addr' = 0 /\ attached' = TRUE
  /\ step' = "page"
  /\ UNCHANGED <<result, state, dir, pageLeft, reading, chipVars, hist>>

\* The attempt has failed: there is another one, or send() gives up.
TryFailed ==
  IF tries < Retries
  THEN step' = "try" /\ UNCHANGED result
  ELSE step' = "idle" /\ result' = "failed"

\* A start condition; what the chip had not been told to store is dropped, and
\* it ends what the chip was sending.
StartTransfer(d) ==
  state' = "start" /\ dir' = d /\ latch' = <<>> /\ reading' = FALSE

StartPage ==
  /\ step = "page"
  /\ pageLeft' = PageSize - (addr % PageSize)
  /\ StartTransfer("write")
  /\ step' = "pageWait"
  /\ UNCHANGED <<tries, addr, result, attached, cursor, chip, at, busy, hist>>

PageWritten ==
  /\ step = "pageWait" /\ state = "halted"
  /\ addr' = addr + (PageSize - (addr % PageSize))
  /\ IF cursor < Size
     THEN step' = "page" /\ UNCHANGED attached
     ELSE step' = "settle" /\ attached' = FALSE
  /\ UNCHANGED <<tries, result, state, dir, cursor, pageLeft, reading, chipVars, hist>>

Late == lates < MaxLates /\ lates' = lates + 1

\* A page that failed is tried again while bytes and time are left, from where
\* the buffer stands.
PageRefused ==
  /\ step = "pageWait" /\ state = "errTransfer"
  /\ \/ cursor < Size /\ step' = "page" /\ UNCHANGED <<attached, result, lates>>
     \/ cursor = Size /\ TryFailed /\ attached' = FALSE /\ UNCHANGED lates
     \/ cursor < Size /\ Late /\ TryFailed /\ attached' = FALSE
  /\ UNCHANGED <<tries, addr, state, dir, cursor, pageLeft, reading, chipVars, faults, cut>>

\* The clock is read after the state, which may have changed in between.
PageTimeout ==
  /\ step = "pageWait"
  /\ Late
  /\ TryFailed /\ attached' = FALSE
  /\ UNCHANGED <<tries, addr, state, dir, cursor, pageLeft, reading, chipVars, faults, cut>>

\* After a delay, in which the chip gets ready, the chip is read back.
StartCompare ==
  /\ step = "settle" /\ ~busy
  /\ cursor' = 0 /\ addr' = 0 /\ attached' = TRUE
  /\ StartTransfer("read")
  /\ step' = "compareWait" /\ cut' = FALSE
  /\ UNCHANGED <<tries, result, pageLeft, chip, at, busy, faults, lates>>

\* The wait ends with the transfer, or by its time-out, which is also the only
\* end of a comparison that failed; the buffer is taken away.  The chip may go
\* on sending, after a time-out or a bus error ...
CompareEnds ==
  /\ step = "compareWait"
  /\ IF Underway THEN Late ELSE UNCHANGED lates
  /\ attached' = FALSE
  /\ step' = "compareEnd"
  /\ UNCHANGED <<tries, addr, result, state, dir, cursor, pageLeft, reading, chipVars,
                 faults, cut>>

\* ... and only then the state of the transfer is read.
CompareResult ==
  /\ step = "compareEnd"
  /\ IF state = "halted"
     THEN step' = "idle" /\ result' = "sent"
     ELSE TryFailed
  /\ UNCHANGED <<tries, addr, shared, chipVars, hist>>

-----------------------------------------------------------------------------
(* The interrupt routine and the chip                                       *)

\* The chip has acknowledged the address.
Addressed ==
  /\ state = "start" /\ ~busy
  /\ state' = dir /\ reading' = (dir = "read") /\ at' = addr + 1
  /\ UNCHANGED <<main, dir, attached, cursor, pageLeft, chip, latch, busy, hist>>

AddressRefused ==
  /\ state = "start" /\ busy
  /\ state' = "errTransfer"
  /\ UNCHANGED <<main, dir, attached, cursor, pageLeft, reading, chipVars, hist>>

\* There is a byte for this page in the buffer.
ByteReady == attached /\ cursor < Size /\ pageLeft > 0

WriteByte ==
  /\ state = "write" /\ ByteReady
  /\ latch' = Append(latch, cursor + 1)
  /\ cursor' = cursor + 1 /\ pageLeft' = pageLeft - 1
  /\ UNCHANGED <<main, state, dir, attached, reading, chip, at, busy, hist>>

\* At a stop condition the chip stores what it has received; an address beyond
\* the end of the page is one at its beginning.
InPage(n) ==
  ((at - 1) \div PageSize) * PageSize + ((at + n - 2) % PageSize) + 1

Stored(i) ==
  LET placed == {n \in DOMAIN latch : InPage(n) = i}
  IN IF placed = {} THEN chip[i]
     ELSE latch[CHOOSE n \in placed : \A m \in placed : m <= n]

Stop ==
  /\ chip' = [i \in Bytes |-> Stored(i)]
  /\ busy' = (latch # <<>>)
  /\ latch' = <<>>

\* The state after the last byte of a page or of the image.
BugEnded == state                                  \* the main loop is not told
Ended == "halted"

EndOfPage ==
  /\ state = "write" /\ ~ByteReady
  /\ state' = Ended
  /\ Stop
  /\ UNCHANGED <<main, dir, attached, cursor, pageLeft, reading, at, hist>>

\* A byte read back: compared while the buffer is there and has one.  The
\* routine does not look at state_: after a bus error it goes on, too, and an
\* end that the comparison has not seen is taken for a normal one.  What the
\* chip holds behind the image is foreign.
BugSame == TRUE                                    \* compares nothing
Same == at \in Bytes /\ chip[at] = cursor + 1

ReadByte ==
  /\ reading /\ attached /\ cursor < Size
  /\ cursor' = cursor + 1
  /\ at' = at + 1
  /\ IF Same THEN UNCHANGED <<state, reading>>
     ELSE state' = "errCmp" /\ reading' = FALSE
  /\ UNCHANGED <<main, dir, attached, pageLeft, chip, latch, busy, hist>>

\* The read is halted: the buffer is at its end, or has been taken away.
Halt ==
  /\ reading /\ reading' = FALSE
  /\ state' = Ended
  /\ cut' = (cut \/ cursor < Size)
  /\ UNCHANGED <<main, dir, attached, cursor, pageLeft, chipVars, lates>>

EndOfRead ==
  /\ ~(attached /\ cursor < Size)
  /\ Halt /\ UNCHANGED faults

Fault == faults < MaxFaults /\ faults' = faults + 1

\* "Data is ended at the slave": a byte that is not acknowledged halts the read
\* wherever the comparison stands.
SlaveNack == Halt /\ Fault

\* A bus error, lost arbitration or, while writing, a byte that is not
\* acknowledged; the chip stores what it has got, or drops it.  Nothing is sent
\* to the chip after a bus error, and it may go on sending.
Disturbed ==
  /\ Underway
  /\ Fault
  /\ state' = "errTransfer"
  /\ UNCHANGED reading \/ reading' = FALSE
  /\ Stop \/ (latch' = <<>> /\ UNCHANGED <<chip, busy>>)
  /\ UNCHANGED <<main, dir, attached, cursor, pageLeft, at, lates, cut>>

\* The chip has stored the page.
Ready ==
  /\ busy /\ busy' = FALSE
  /\ UNCHANGED <<main, shared, chip, at, latch, hist>>

-----------------------------------------------------------------------------
MainStep ==
  \/ Try \/ StartPage \/ PageWritten \/ PageRefused \/ PageTimeout
  \/ StartCompare \/ CompareEnds \/ CompareResult

Irq ==
  \/ Addressed \/ AddressRefused \/ WriteByte \/ EndOfPage
  \/ ReadByte \/ EndOfRead \/ SlaveNack \/ Disturbed

Next == Send \/ MainStep \/ Irq \/ Ready

\* The main loop and the interrupts run, and the chip gets a page stored.
Fairness == WF_vars(MainStep) /\ WF_vars(Irq) /\ WF_vars(Ready)

Spec == Init /\ [][Next]_vars
FairSpec == Spec /\ Fairness

-----------------------------------------------------------------------------
(* Properties                                                               *)

\* Every variable holds a value of its type.
TypeOK ==
  /\ step \in {"idle", "try", "page", "pageWait", "settle", "compareWait",
               "compareEnd"}
  /\ tries \in 0 .. Retries /\ addr \in Nat
  /\ result \in {"none", "sent", "failed"}
  /\ state \in {"halted", "start", "write", "read", "errTransfer", "errCmp"}
  /\ dir \in {"read", "write"} /\ attached \in BOOLEAN
  /\ cursor \in 0 .. Size /\ pageLeft \in 0 .. PageSize /\ reading \in BOOLEAN
  /\ chip \in [Bytes -> Bytes \cup {Foreign}]
  /\ at \in Nat \ {0} /\ latch \in Seq(Bytes) /\ busy \in BOOLEAN
  /\ faults \in 0 .. MaxFaults /\ lates \in 0 .. MaxLates + 1 /\ cut \in BOOLEAN

\* send() that succeeds has stored the image, whatever pages were refused,
\* repeated from the wrong byte or abandoned before, and whatever interrupt came
\* late: unless its comparison was halted before the last byte, which takes a
\* disturbance (SlaveNack) or a transfer send() had turned away from (the buffer
\* is gone and the chip still sends).  Such a success may be a false one.
SentIsStored ==
  result = "sent" => \/ \A i \in Bytes : chip[i] = i
                     \/ cut /\ faults + lates > 0

\* A disturbance costs send() one attempt, a transfer that goes on when send()
\* has turned away from it at most two: its interrupt may take a byte of the
\* next attempt before that has begun.
GivesUpForAReason ==
  result = "failed" => faults + 2 * lates >= Retries

\* send() ends, whatever the chip does.
SendEnds == step # "idle" ~> step = "idle"
=============================================================================
