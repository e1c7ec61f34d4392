---------------------------------- MODULE Hat ----------------------------------
(***************************************************************************)
(* The HAT image in RAM and the I2C slave that serves it to the Raspberry  *)
(* Pi: hat::Manager (src/hat.hpp), its use by Board, and CSamI2Cmem.       *)
(*                                                                         *)
(* The image is a sequence of cells: a header, and for each atom a header, *)
(* data and a CRC, which is represented by the cells it covers.  The       *)
(* manager changes the sequence in place; hatAtoms is the list of atoms it *)
(* is meant to be.  The Pi addresses bytes and reads them in sequence,     *)
(* while the main loop may change the image.                               *)
(*                                                                         *)
(* How the image gets to the chip is in Eeprom, what the calibration data  *)
(* in it do in Board.                                                      *)
(***************************************************************************)
EXTENDS Integers, Sequences, SequencesExt

CONSTANTS
  HatCapacity,   \* max_eeprom_size: what is read from the chip, and reserved
  HatValues,     \* contents of a calibration map
  HatAddresses   \* bytes of an address the Pi sends

HatAssumption == HatCapacity \in Nat \ {0} /\ HatValues \subseteq Nat /\ HatAddresses \subseteq Nat

Vendor == 1   Other == 2   Custom == 4     \* atom::Type
HatRadix == 4                              \* 256 in the code

VARIABLES
  hatBuf,       \* fifo_buf_: the cells
  hatChip,      \* what the chip holds
  hatAtoms,     \* abstract: the atoms of the image, and ...
  hatChipAtoms, \*   ... of the chip's, <<>> if it holds none that verifies
  hatMemSize,   \* m_nMemSize of the slave
  hatServed,    \* the memory behind m_pMem: that of the image, another buffer, or freed
  hatState,     \* m_MState
  hatIndex,     \* m_nMemCurInd
  hatLoaded,    \* index of the byte in DATA; -1: none yet, -2: one that will not be taken
  hatNack,      \* RXNACK
  hatExpected   \* abstract: the address counter as the Pi knows it, -1 if it does not

imageVars == <<hatBuf, hatChip, hatAtoms, hatChipAtoms, hatMemSize, hatServed>>
slaveVars == <<hatState, hatIndex, hatLoaded, hatNack, hatExpected>>
hatVars == <<imageVars, slaveVars>>

-----------------------------------------------------------------------------
\* Cells
EepromHeader(atoms, len) == [k |-> "eeprom", of |-> <<atoms, len>>]
AtomHeader(type, count, dlen) == [k |-> "atom", of |-> <<type, count, dlen>>]
Cell(k) == [k |-> k, of |-> <<>>]

AtomCells(type, pos, data) ==
  LET covered == <<AtomHeader(type, pos, Len(data) + 1)>>
                   \o [i \in DOMAIN data |-> [k |-> "data", of |-> <<data[i]>>]]
  IN Append(covered, [k |-> "crc", of |-> covered])

AtomCount(buf) == buf[1].of[1]
ImageLength(buf) == buf[1].of[2]
DataLength(buf, p) == IF p \in DOMAIN buf /\ buf[p].k = "atom" THEN buf[p].of[3] ELSE 0

\* Manager::get_atom_header(): where the atom at `pos' starts, or the end.
AtomStart(buf, pos) ==
  LET start[i \in 0..pos] == IF i = 0 THEN 2 ELSE start[i - 1] + 1 + DataLength(buf, start[i - 1])
  IN start[pos]

AtomError(buf, p) ==
  LET crc == p + DataLength(buf, p)
  IN ~ /\ crc \in DOMAIN buf /\ buf[p].k = "atom" /\ buf[crc].k = "crc"
       /\ buf[crc].of = SubSeq(buf, p, crc - 1)

\* Manager::set_buf()
HatVerified(buf) ==
  /\ Len(buf) > 0 /\ buf[1].k = "eeprom" /\ ImageLength(buf) <= Len(buf)
  /\ \A i \in 0..(AtomCount(buf) - 1): ~AtomError(buf, AtomStart(buf, i))

\* Manager::get(): type and data of an atom.
GetAtom(buf, pos) ==
  LET p == AtomStart(buf, pos)
  IN <<buf[p].of[1], [i \in 1..(DataLength(buf, p) - 1) |-> buf[p + i].of[1]]>>

HatReset == <<EepromHeader(0, 1)>>

BugResized(buf, at, old, new) ==
  IF new > old
  THEN SubSeq(buf, 1, at - 1) \o [i \in 1..(new - old) |-> Cell("zero")] \o SubSeq(buf, at, Len(buf))
  ELSE buf

\* Manager::set_atom() and resize_fifo_buf(): the room is made or given up
\* behind the header of an atom that is there, at the end otherwise.
Resized(buf, at, old, new) ==
  IF new > old
  THEN SubSeq(buf, 1, at - 1) \o [i \in 1..(new - old) |-> Cell("zero")] \o SubSeq(buf, at, Len(buf))
  ELSE SubSeq(buf, 1, at - 1) \o SubSeq(buf, at + old - new, Len(buf))

SetAtom(buf, pos, type, data) ==
  LET count  == AtomCount(buf)
      adding == pos = count
      p      == AtomStart(buf, pos)
      old    == IF adding THEN 0 ELSE 1 + DataLength(buf, p)
      cells  == AtomCells(type, pos, data)
      room   == Resized(buf, IF adding THEN p ELSE p + 1, old, Len(cells))
      header == EepromHeader(count + (IF adding THEN 1 ELSE 0), ImageLength(buf) + Len(cells) - old)
  IN [i \in DOMAIN room |->
        CASE i = 1 -> header
          [] i \in p..(p + Len(cells) - 1) -> cells[i - p + 1]
          [] OTHER -> room[i]]

-----------------------------------------------------------------------------
\* What a chip may hold at first: nothing, a damaged image, or one of another
\* firmware, its vendor atom longer, shorter or the same, with or without
\* calibration data and an atom behind them.
VendorNow == <<Vendor, <<7, 7>>>>
StubNow == <<Custom, <<>>>>
OtherFirmware(data, rest) == <<<<Vendor, data>>, <<Other, <<5>>>>, StubNow>> \o rest
FirstAtoms ==
  {<<>>, <<VendorNow>>}
    \cup {OtherFirmware(data, rest) :
            data \in {<<8>>, <<8, 8, 8>>}, rest \in {<<>>, <<<<Custom, <<6>>>>, <<Other, <<9>>>>>>}}

ImageOf(atoms) ==
  LET image[n \in 0..Len(atoms)] ==
        IF n = 0 THEN HatReset ELSE SetAtom(image[n - 1], n - 1, atoms[n][1], atoms[n][2])
  IN image[Len(atoms)]

\* Reading goes on behind the image, to the maximal amount.
OnChip(image, chip) == [i \in 1..HatCapacity |-> IF i <= Len(image) THEN image[i] ELSE chip[i]]
Blank == [i \in 1..HatCapacity |-> Cell("garbage")]

-----------------------------------------------------------------------------
\* main() and Board::set_eeprom_handles(): the slave is given the buffer as it
\* has been received; then the manager verifies it, and adds to it.
WithVendor(buf) == SetAtom(buf, 0, VendorNow[1], VendorNow[2])

WithStubs(buf) ==
  LET stub(b, pos) == IF AtomCount(b) <= pos THEN SetAtom(b, pos, StubNow[1], StubNow[2]) ELSE b
  IN stub(stub(stub(buf, 0), 1), 2)

\* The same in the abstract: the vendor's atom in its place, two stubs at most.
AtomsAtBoot(atoms) ==
  LET named == IF atoms = <<>> THEN <<VendorNow>> ELSE [atoms EXCEPT ![1] = VendorNow]
  IN IF Len(named) >= 3 THEN named ELSE SubSeq(named \o <<StubNow, StubNow>>, 1, 3)

\* The chip answers, fails in between or does not answer.  For an image that
\* does not verify the manager takes a buffer of its own; one that outgrows what
\* was reserved moves.
Started(chip, atoms, received) ==
  LET read   == SubSeq(chip, 1, received)
      intact == HatVerified(read)
      image  == WithStubs(WithVendor(IF intact THEN read ELSE HatReset))
  IN [buf |-> image, atoms |-> AtomsAtBoot(IF intact THEN atoms ELSE <<>>), size |-> received,
      served |-> IF ~intact THEN "other" ELSE IF Len(image) > HatCapacity THEN "freed" ELSE "image"]

HatInit ==
  /\ \E atoms \in FirstAtoms, damaged \in BOOLEAN:
       /\ hatChip = OnChip(IF damaged THEN <<>> ELSE ImageOf(atoms), Blank)
       /\ hatChipAtoms = IF damaged THEN <<>> ELSE atoms
  /\ LET start == Started(hatChip, hatChipAtoms, HatCapacity)
     IN hatBuf = start.buf /\ hatAtoms = start.atoms /\ hatMemSize = start.size /\ hatServed = start.served
  /\ hatState = "halted" /\ hatIndex = 0 /\ hatLoaded = -1 /\ hatNack = FALSE /\ hatExpected = -1

\* A loss of power.
HatStart ==
  /\ \E received \in {0, 3, HatCapacity}:
       LET start == Started(hatChip, hatChipAtoms, received)
       IN hatBuf' = start.buf /\ hatAtoms' = start.atoms /\ hatMemSize' = start.size /\ hatServed' = start.served
  /\ hatState' = "halted" /\ hatIndex' = 0 /\ hatLoaded' = -1 /\ hatNack' = FALSE /\ hatExpected' = -1
  /\ UNCHANGED <<hatChip, hatChipAtoms>>

\* Board::set_calibration_data(): the atom at index 3; the chip may fail.
HatCalibrate ==
  \E value \in HatValues, stored \in BOOLEAN:
    LET data  == <<value, value>>
        image == SetAtom(hatBuf, 3, Custom, data)
        atom  == <<Custom, data>>
    IN /\ hatBuf' = image
       /\ hatAtoms' = IF Len(hatAtoms) = 3 THEN Append(hatAtoms, atom) ELSE [hatAtoms EXCEPT ![4] = atom]
       /\ hatServed' = IF hatServed = "image" /\ Len(image) > HatCapacity THEN "freed" ELSE hatServed
       /\ IF stored THEN hatChip' = OnChip(image, hatChip) /\ hatChipAtoms' = hatAtoms'
                    ELSE UNCHANGED <<hatChip, hatChipAtoms>>
       /\ UNCHANGED <<hatMemSize, slaveVars>>

-----------------------------------------------------------------------------
(* CSamI2Cmem::IRQhandler(), one action for each of its branches.  The Pi    *)
(* writes an address of two bytes and reads, or reads where it has stopped.  *)

Slave(state, index, loaded, nack, expected) ==
  /\ hatState' = state /\ hatIndex' = index /\ hatLoaded' = loaded /\ hatNack' = nack
  /\ hatExpected' = expected
  /\ UNCHANGED imageVars

\* The Pi has clocked out every byte it has asked for with an acknowledge.
BusFree == hatState = "read" => hatNack \/ hatLoaded = -2

\* AMATCH: a start or a repeated one.
HatAddressed ==
  BusFree /\ \E state \in {"read", "addrHb"}: Slave(state, hatIndex, -1, FALSE, hatExpected)

\* DRDY, a byte from the Pi.
HatAddressByte ==
  \E byte \in HatAddresses:
    \/ hatState = "addrHb" /\ Slave("addrLb", byte * HatRadix, -1, hatNack, -1)
    \/ hatState = "addrLb" /\ Slave("waiting_rs", hatIndex + byte, -1, hatNack, hatIndex + byte)
    \/ /\ hatState \in {"halted", "waiting_rs"}
       /\ Slave("halted", hatIndex, -1, hatNack, hatExpected)     \* writing is not allowed

\* DRDY, a byte for the Pi: after one that it did not acknowledge it will not
\* take the next.
SteppedBack(index, nack) == IF nack /\ index > 0 THEN index - 1 ELSE index

HatReadByte ==
  LET index == SteppedBack(hatIndex, hatNack)
      more  == index < hatMemSize
  IN /\ hatState = "read" /\ hatLoaded = -1
     /\ Slave("read", IF more THEN index + 1 ELSE index,
              IF hatNack THEN -2 ELSE IF more THEN index ELSE hatMemSize, FALSE, hatExpected)

\* The Pi takes the byte and acknowledges it, or not.
HatByteTaken ==
  \E ack \in BOOLEAN:
    /\ hatState = "read" /\ hatLoaded >= 0
    /\ Slave("read", hatIndex, -1, ~ack,
             IF hatExpected \in 0..(HatCapacity - 1) THEN hatExpected + 1 ELSE hatExpected)

\* PREC and ERROR: a stop; a disturbance, after which the Pi writes an address.
HatStop ==
  \/ BusFree /\ Slave("halted", hatIndex, -1, FALSE, hatExpected)
  \/ Slave("halted", hatIndex, -1, FALSE, -1)

HatNext == HatStart \/ HatCalibrate \/ HatAddressed \/ HatAddressByte \/ HatReadByte \/ HatByteTaken
             \/ HatStop

HatSpec == HatInit /\ [][HatNext]_hatVars

-----------------------------------------------------------------------------
\* Safety: the image is the list of atoms it is meant to be. After any start and
\* any number of calibration writes, with atoms that grow, shrink or are added,
\* the image in RAM verifies, its length is that of its atoms, and each atom
\* reads back as it was set last, the ones that nobody has set as they were in
\* the chip; and what the chip was sent can be read back from it.
ImageIsItsAtoms ==
  /\ HatVerified(hatBuf)
  /\ [i \in 1..AtomCount(hatBuf) |-> GetAtom(hatBuf, i - 1)] = hatAtoms
  /\ ImageLength(hatBuf) = AtomStart(hatBuf, AtomCount(hatBuf)) - 1
  /\ hatChipAtoms # <<>> =>
       HatVerified(hatChip) /\ [i \in 1..AtomCount(hatChip) |-> GetAtom(hatChip, i - 1)] = hatChipAtoms

\* Safety: the Pi reads in sequence. Every byte the slave sends is the one at
\* the Pi's address counter, which goes on from the address it has written or
\* from where it has stopped, acknowledging or not; behind the memory there are
\* zeros. (The slave has loaded one byte more than the Pi takes, and takes it back.)
ReadsInSequence ==
  hatLoaded >= 0 /\ hatExpected # -1 =>
    hatLoaded = IF hatExpected < hatMemSize THEN hatExpected ELSE hatMemSize

\* main() "attaches the EEPROM buffer" to the slave before the board decides
\* which buffer that is (firmware.cpp:130-138): this does not hold, README, section 5.
SlaveServesImage == hatServed = "image"

\* Safety: the image stays a list of atoms, in RAM and in the chip, and the Pi
\* reads the served one in sequence.
ImageReadable == ImageIsItsAtoms /\ ReadsInSequence
=============================================================================
