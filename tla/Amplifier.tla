-------------------------------- MODULE Amplifier --------------------------------
(***************************************************************************)
(* The amplifiers of a DMS board and the pins that select them:            *)
(* firmware/pga280.cpp on the SPI bus, firmware/shiftreg.cpp and pin.hpp.  *)
(*                                                                         *)
(* The PGA280s share one bus and one chip select line.  Two bits of a      *)
(* 16-bit shift register choose which of them hears it; the other bits     *)
(* switch the bridge voltage, the sensor currents and the DACs.  The       *)
(* register can only be shifted as a whole, from the image kept in memory. *)
(*                                                                         *)
(* A call of CPGA280 is a series of register writes, each read back.  The  *)
(* line may garble any of them.  The main loop does nothing else during a  *)
(* call.  Never used and left out: checksums in requests (m_bCSmode is     *)
(* false), TBUF, several commands in one transfer, the Cm* wrappers.       *)
(***************************************************************************)
EXTENDS Integers, Sequences, FiniteSetsExt

CONSTANTS
  AmpChips,     \* the amplifiers in use, of 0..3 (pga_sel)
  AmpGains,     \* indices into gain::ogain_table
  AmpPins       \* pins of the shift register that others write

ChipNumbers == 0..3            \* pga_sel
GainIndices == 0..21           \* of gain::ogain_table
PinNumbers  == 0..9 \cup {15}  \* CDMSsr::pins

AmpAssumption ==
  /\ AmpChips \subseteq ChipNumbers /\ AmpChips # {}
  /\ AmpGains \subseteq GainIndices /\ AmpGains # {}
  /\ AmpPins \subseteq PinNumbers

VARIABLES
  ampRegisters,   \* the registers of the chips, by number
  ampImage,       \* m_RegValue: the bits that are set
  ampLatch,       \* the outputs of the shift register that are high
  ampCache,       \* m_GainMuxReg
  ampMode,        \* m_nMode
  ampBuilt,       \* the amplifiers whose constructor has run
  ampCall,        \* the call in progress
  ampSure,        \* history: what a chip's last calls have confirmed
  ampWritten      \* history: the logical state last written to a pin

shiftVars == <<ampImage, ampLatch>>
chipVars == <<ampRegisters, ampCache, ampMode, ampBuilt>>
ampVars == <<shiftVars, chipVars, ampCall, ampSure, ampWritten>>

Idle == [chip |-> 0, jobs |-> <<>>, gain |-> 0, mode |-> "voltage"]
Bits == 16
Inverted == {8, 9}          \* QSPI_CS0, QSPI_CS1
Chosen == {12, 13}          \* SPI_Ch0, SPI_Ch1
GainMux == 0
SoftReset == 1
BufTimeout == 3
InputSwitch == 6
Registers == {GainMux, BufTimeout, InputSwitch}     \* those that keep a value

\* Pin::write()
Level(p, state) == state # (p \in Inverted)

-----------------------------------------------------------------------------
(* The shift register. *)

\* SetShiftReg(): bits 0 .. clocks - 1 enter the chain one after the other, so
\* that stage s then holds bit clocks - s; output p is stage Bits - p.
Clocked(image, clocks) == {p \in 0..Bits - 1 : clocks - (Bits - p) \in image}
Shifted(image) == Clocked(image, Bits)

\* SelectPGA()
BugSelected(image, c) ==
  (image \ Chosen) \cup (IF c % 2 = 1 THEN {13} ELSE {}) \cup (IF c \div 2 = 1 THEN {12} ELSE {})

Selected(image, c) ==
  (image \ Chosen) \cup (IF c \div 2 = 1 THEN {13} ELSE {}) \cup (IF c % 2 = 1 THEN {12} ELSE {})

\* The amplifier that hears the bus while the outputs are so (the board).
Addressed(latch) == (IF 13 \in latch THEN 2 ELSE 0) + (IF 12 \in latch THEN 1 ELSE 0)

-----------------------------------------------------------------------------
(* Commands and answers, byte by byte: CPGA280cmd, and the chip's side. *)

Checksum(first, data) == (155 + first + data) % 256
WriteFrame(r, value) == <<64 + r, value>>
ReadFrame(r) == <<128 + r, 0, 0>>

\* The chip: a soft reset clears its registers, the reset register reads 0.
Hears(registers, frame) ==
  IF frame[1] = 64 + SoftReset THEN [r \in DOMAIN registers |-> 0]
  ELSE [registers EXCEPT ![frame[1] - 64] = frame[2]]

Answer(registers, frame) ==
  LET r == frame[1] - 128
      data == IF r = SoftReset THEN 0 ELSE registers[r]
  IN <<0, data, Checksum(frame[1], data)>>

Garbled == <<255, 255, 255>>

\* ReadRegister() into a variable that is 0 before: PopFromStream().
ReadBack(r, reply) ==
  LET roffs == Len(ReadFrame(r)) - 1
  IN IF Checksum(128 + r, reply[roffs]) = reply[roffs + 1] THEN reply[roffs] ELSE 0

-----------------------------------------------------------------------------
(* The calls. *)

SwitchesOf(m) == IF m = "voltage" THEN 96 ELSE 24      \* A1, A2 or B1, B2

\* MUX has the low three bits, IGAIN four, OGAIN the last.
WithInputGain(value, ig) == (value % 8) + 8 * ig + 128 * (value \div 128)
WithOutputGain(value, og) == (value % 128) + 128 * og

AmpRegisterOf(job) ==
  CASE job = "reset" -> SoftReset [] job = "switch" -> InputSwitch
    [] job = "timeout" -> BufTimeout [] OTHER -> GainMux

\* ogain_table_index gives two entries, without and with 1.375, per input gain.
ValueOf(call) ==
  LET cache == ampCache[call.chip] IN
  CASE Head(call.jobs) = "reset" -> 1
    [] Head(call.jobs) = "switch" -> SwitchesOf(call.mode)
    [] Head(call.jobs) = "timeout" -> 0
    [] Head(call.jobs) = "igain" -> WithInputGain(cache, call.gain \div 2)
    [] Head(call.jobs) = "ogain" -> WithOutputGain(cache, call.gain % 2)
    [] Head(call.jobs) = "gains" -> WithOutputGain(WithInputGain(cache, call.gain \div 2), call.gain % 2)

\* SetMode() ends with the first write that fails; the others are one write.
JobsAfter(call, ok) ==
  IF Head(call.jobs) = "switch" /\ ~ok THEN SubSeq(call.jobs, 3, Len(call.jobs)) ELSE Tail(call.jobs)

AmpInit ==
  /\ \E warm \in BOOLEAN :      \* the chips keep their power when the firmware restarts
       ampRegisters = [c \in AmpChips |-> [r \in Registers |->
         CASE warm /\ r = GainMux     -> Max(AmpGains) * 8
           [] warm /\ r = InputSwitch -> 24
           [] OTHER                   -> 0]]
  /\ ampImage = AmpPins \cap Inverted /\ ampLatch = ampImage
  /\ ampCache = [c \in AmpChips |-> 0] /\ ampMode = [c \in AmpChips |-> "unset"]
  /\ ampBuilt = {} /\ ampCall = Idle
  /\ ampSure = [c \in AmpChips |-> {}] /\ ampWritten = [p \in AmpPins |-> FALSE]

AmpBegin(call) ==
  /\ ampCall = Idle /\ ampCall' = call
  /\ UNCHANGED <<ampRegisters, ampImage, ampLatch, ampCache, ampMode, ampSure, ampWritten>>

\* The constructor ignores what its calls return.
AmpConstruct(c) ==
  /\ c \notin ampBuilt /\ ampBuilt' = ampBuilt \cup {c}
  /\ AmpBegin([chip |-> c, jobs |-> <<"reset", "switch", "timeout", "igain", "ogain">>,
               gain |-> 0, mode |-> "voltage"])

AmpSetMode(c, m) ==
  /\ ampBuilt = AmpChips /\ UNCHANGED ampBuilt
  /\ AmpBegin([chip |-> c, jobs |-> <<"switch", "timeout">>, gain |-> 0, mode |-> m])

AmpSetGains(c, g) ==
  /\ ampBuilt = AmpChips /\ UNCHANGED ampBuilt
  /\ AmpBegin([chip |-> c, jobs |-> <<"gains">>, gain |-> g, mode |-> "voltage"])

\* WriteRegister(), and what the call does with its result. Both transfers
\* select the amplifier first; either may be garbled.
AmpWrite(heard, answered) ==
  LET job    == Head(ampCall.jobs)
      c      == ampCall.chip
      r      == AmpRegisterOf(job)
      value  == ValueOf(ampCall)
      image  == Selected(ampImage, c)
      target == Addressed(Shifted(image))
      after  == IF heard /\ target \in AmpChips
                THEN [ampRegisters EXCEPT ![target] = Hears(@, WriteFrame(r, value))] ELSE ampRegisters
      reply  == IF answered /\ target \in AmpChips THEN Answer(after[target], ReadFrame(r)) ELSE Garbled
      ok     == ReadBack(r, reply) = value
  IN /\ ampCall.jobs # <<>>
     /\ ampImage' = image /\ ampLatch' = Shifted(image) /\ ampRegisters' = after
     /\ LET rest == JobsAfter(ampCall, ok)
        IN ampCall' = IF rest = <<>> THEN Idle ELSE [ampCall EXCEPT !.jobs = rest]
     /\ ampCache' = IF ok /\ r = GainMux THEN [ampCache EXCEPT ![c] = value] ELSE ampCache
     /\ ampMode' = IF ok /\ job = "timeout" THEN [ampMode EXCEPT ![c] = ampCall.mode] ELSE ampMode
     /\ ampSure' = [ampSure EXCEPT ![c] =
          CASE job = "reset" -> {}
            [] r = GainMux -> IF ok THEN @ \cup {"gain"} ELSE @ \ {"gain"}
            [] job = "switch" -> @ \ {"mode"}
            [] OTHER -> IF ok THEN @ \cup {"mode"} ELSE @]
     /\ UNCHANGED <<ampBuilt, ampWritten>>

\* CShiftReg::SetBit(), for the owner of a pin.
AmpSetPin(p, state) ==
  /\ ampCall = Idle
  /\ ampImage' = IF Level(p, state) THEN ampImage \cup {p} ELSE ampImage \ {p}
  /\ ampLatch' = Shifted(ampImage')
  /\ ampWritten' = [ampWritten EXCEPT ![p] = state]
  /\ UNCHANGED <<ampRegisters, ampCache, ampMode, ampBuilt, ampCall, ampSure>>

AmpNext ==
  \/ \E c \in AmpChips : AmpConstruct(c)
  \/ \E c \in AmpChips, m \in {"voltage", "current"} : AmpSetMode(c, m)
  \/ \E c \in AmpChips, g \in AmpGains : AmpSetGains(c, g)
  \/ \E heard, answered \in BOOLEAN : AmpWrite(heard, answered)
  \/ \E p \in AmpPins, state \in BOOLEAN : AmpSetPin(p, state)

AmpSpec == AmpInit /\ [][AmpNext]_ampVars

-----------------------------------------------------------------------------
\* Safety: every pin of the shift register has the level its owner wrote last,
\* whichever amplifiers were selected and whichever other pins were written since:
\* the register is always shifted as a whole from an image that holds them all.
PinsKeepTheirState ==
  \A p \in AmpPins : (p \in ampLatch) = Level(p, ampWritten[p])

\* Safety: an amplifier whose last SetGains (SetMode) returned true has the gain
\* (the input switches) the driver remembers, whatever was lost on the line before
\* and whatever was written to the other amplifiers since: a lost write, a garbled
\* answer or the wrong amplifier would show. A gain of register value 0 is not
\* claimed: a failed read back leaves 0 in the variable compared with it.
ConfirmedIsSet ==
  \A c \in AmpChips :
    /\ "gain" \in ampSure[c] /\ ampCache[c] # 0 => ampRegisters[c][GainMux] = ampCache[c]
    /\ "mode" \in ampSure[c] => ampRegisters[c][InputSwitch] = SwitchesOf(ampMode[c])

\* Safety: pins and amplifiers share one shift register and neither disturbs
\* the other, with lost writes and garbled answers at every transfer.
WritesReachTheirChip == PinsKeepTheirState /\ ConfirmedIsSet
=============================================================================
