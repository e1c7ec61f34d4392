--------------------------------- MODULE Atoms ---------------------------------
(***************************************************************************)
(* What the data of the atoms of a HAT image mean, byte by byte: vendor    *)
(* information, GPIO map and calibration map (src/hat.hpp) are dumped into *)
(* a CFIFO and reset from one (src/serial.hpp).                            *)
(*                                                                         *)
(* There is an object of one of the kinds, which a caller fills, and the   *)
(* data of its atom in the image, which this firmware wrote or another one *)
(* did.  A number in memory is the sequence of its bytes, as it   *)
(* is to the code, which copies them; AtRadix stands for 256.              *)
(***************************************************************************)
EXTENDS Integers, Sequences, SequencesExt

CONSTANTS
  AtRadix,     \* values of a byte
  AtShape,     \* entries of each calibration atom: 22, 22, 22, 22, 1, 22, ...
  AtForeign,   \* shapes of the maps other firmware wrote
  AtStrings    \* strings of vendor information: sequences of bytes

AtAssumption == /\ AtRadix \in Nat \ {0, 1}
                /\ AtShape \in Seq(Nat) /\ AtForeign \subseteq Seq(Nat)
                /\ AtStrings \subseteq Seq(0..(AtRadix - 1))

VARIABLES
  atKind,      \* which of the kinds
  atHeld,      \* the object
  atImage,     \* the data of the atom in the image, a sequence of bytes
  atWritten,   \* abstract: <<the object they were dumped from>>, or <<>>
  atAnswer     \* of the last reset: "-", "done", "refused", "terminated"

atVars == <<atKind, atHeld, atImage, atWritten, atAnswer>>

AtKinds == {"vendor", "gpio", "map"}

-----------------------------------------------------------------------------
\* CFIFO: a character put in is one byte of the int it was.
Byte(n) == n % AtRadix
Cut(buf, from, n) == SubSeq(buf, from, from + n - 1)

\* Vendor_info: two fields of one byte each stand for uuid_, pid_ and pver_;
\* the lengths of the strings take a byte each.
VendorFixed == 4          \* 22 in the code

VendorDump(v) ==
  v.id \o <<Byte(Len(v.vstr)), Byte(Len(v.pstr))>> \o v.vstr \o v.pstr

\* Reading past the end throws, and Manager::get() is noexcept.
VendorReset(v, buf) ==
  IF Len(buf) < VendorFixed THEN <<"refused", v>>
  ELSE LET vlen == buf[3]   plen == buf[4]
       IN IF Len(buf) < VendorFixed + vlen + plen THEN <<"terminated", v>>
          ELSE <<"done", [id   |-> Cut(buf, 1, 2),
                          vstr |-> Cut(buf, VendorFixed + 1, vlen),
                          pstr |-> Cut(buf, VendorFixed + vlen + 1, plen)]>>

\* Gpio_map: a fixed block of memory.
GpioSize == 3             \* 30 in the code
GpioDump(g) == g
GpioReset(g, buf) == IF Len(buf) < GpioSize THEN <<"refused", g>> ELSE <<"done", Cut(buf, 1, GpioSize)>>

\* Calibration::Entry: slope and offset.  In memory an entry has padding, which
\* the lengths in the headers count and the dump leaves out.
EntrySize == 2            \* 6 in the code
EntryRoom == 3            \* sizeof(Entry): 8
AtomHeaderSize == 3       \* type, count, dlen: 8
MapHeaderSize == 2        \* cversion, timestamp, numcatoms, callen: 15

\* The constructors: what an entry holds before anybody calibrates.
DefaultEntry(type) == IF type = 2 THEN <<1, 1>> ELSE <<1, 0>>   \* v_supply and the others
DefaultCalibration(shape) ==
  [type \in DOMAIN shape |-> [i \in 1..shape[type] |-> DefaultEntry(type)]]

ShapeOf(map) == [type \in DOMAIN map |-> Len(map[type])]
CalibrationLength(shape) ==
  LET upTo[n \in 0..Len(shape)] ==
        IF n = 0 THEN MapHeaderSize ELSE upTo[n - 1] + AtomHeaderSize + shape[n] * EntryRoom
  IN upTo[Len(shape)]

AtomDump(type, entries) ==
  <<Byte(type), Byte(Len(entries)), Byte(Len(entries) * EntryRoom)>> \o FlattenSeq(entries)
MapDump(map) ==
  <<Byte(Len(map)), Byte(CalibrationLength(ShapeOf(map)))>>
    \o FlattenSeq([type \in DOMAIN map |-> AtomDump(type, map[type])])

\* Calibration::reset(): of the header nothing is used; an entry that is not
\* there any more keeps its value, and nobody is told.
EntriesReset(entries, buf) ==
  LET left(i) == Len(buf) - (i - 1) * EntrySize
  IN [i \in DOMAIN entries |->
        IF left(i) >= EntrySize THEN Cut(buf, (i - 1) * EntrySize + 1, EntrySize) ELSE entries[i]]

BugAtomReset(entries, buf) ==      \* steps over the room of an entry
  IF Len(buf) < AtomHeaderSize THEN <<entries, buf>>
  ELSE LET data == SubSeq(buf, AtomHeaderSize + 1, Len(buf))
       IN <<EntriesReset(entries, data), SubSeq(data, Len(entries) * EntryRoom + 1, Len(data))>>

AtomReset(entries, buf) ==
  IF Len(buf) < AtomHeaderSize THEN <<entries, buf>>
  ELSE LET data == SubSeq(buf, AtomHeaderSize + 1, Len(buf))
           used == IF Len(data) < Len(entries) * EntrySize
                   THEN (Len(data) \div EntrySize) * EntrySize
                   ELSE Len(entries) * EntrySize
       IN <<EntriesReset(entries, data), SubSeq(data, used + 1, Len(data))>>

\* Calibration_map::reset(): the total length is all that is compared.
MapReset(map, buf) ==
  IF Len(buf) < MapHeaderSize \/ buf[2] # Byte(CalibrationLength(ShapeOf(map))) THEN <<"refused", map>>
  ELSE LET from[n \in 0..Len(map)] ==       \* <<atoms so far, what is left>>
             IF n = 0 THEN <<<<>>, SubSeq(buf, MapHeaderSize + 1, Len(buf))>>
             ELSE LET a == AtomReset(map[n], from[n - 1][2])
                  IN <<Append(from[n - 1][1], a[1]), a[2]>>
       IN <<"done", from[Len(map)][1]>>

DumpOf(kind, value) ==
  CASE kind = "vendor" -> VendorDump(value)
    [] kind = "gpio"   -> GpioDump(value)
    [] kind = "map"    -> MapDump(value)
ResetOf(kind, value, buf) ==
  CASE kind = "vendor" -> VendorReset(value, buf)
    [] kind = "gpio"   -> GpioReset(value, buf)
    [] kind = "map"    -> MapReset(value, buf)

-----------------------------------------------------------------------------
Default(kind) ==
  CASE kind = "vendor" -> [id |-> <<0, 0>>, vstr |-> <<>>, pstr |-> <<>>]
    [] kind = "gpio"   -> [i \in 1..GpioSize |-> 0]
    [] kind = "map"    -> DefaultCalibration(AtShape)

AtInit ==
  /\ atKind \in AtKinds /\ atHeld = Default(atKind)
  /\ atImage = <<>> /\ atWritten = <<>> /\ atAnswer = "-"

\* The constructors and setters: a caller fills the object.
FillVendor ==
  /\ atKind = "vendor"
  /\ \E v, p \in AtStrings: atHeld' = [id |-> <<1, 0>>, vstr |-> v, pstr |-> p]
FillGpio ==
  /\ atKind = "gpio"
  /\ \E b \in {0, AtRadix - 1}: \E i \in 1..GpioSize: atHeld' = [atHeld EXCEPT ![i] = b]
SetEntry ==
  /\ atKind = "map"
  /\ \E type \in DOMAIN AtShape: \E i \in 1..AtShape[type]:
       atHeld' = [atHeld EXCEPT ![type][i] = <<Byte(type + 1), Byte(i)>>]
AtFill ==
  /\ FillVendor \/ FillGpio \/ SetEntry
  /\ UNCHANGED <<atKind, atImage, atWritten, atAnswer>>

\* Manager::set()
AtDump ==
  /\ atImage' = DumpOf(atKind, atHeld) /\ atWritten' = <<atHeld>>
  /\ UNCHANGED <<atKind, atHeld, atAnswer>>

\* The chip has an image of other firmware: a map of another shape, or data
\* that end early.
AtForeignImage ==
  /\ \/ atKind = "map" /\ \E shape \in AtForeign: atImage' = MapDump(DefaultCalibration(shape))
     \/ \E n \in 0..(Len(atImage) - 1): atImage' = SubSeq(atImage, 1, n)
  /\ atWritten' = <<>>
  /\ UNCHANGED <<atKind, atHeld, atAnswer>>

\* Manager::get() of an atom of the type that is asked for.
AtReset ==
  /\ LET r == ResetOf(atKind, atHeld, atImage) IN atAnswer' = r[1] /\ atHeld' = r[2]
  /\ UNCHANGED <<atKind, atImage, atWritten>>

AtNext == atAnswer # "terminated" /\ (AtFill \/ AtDump \/ AtForeignImage \/ AtReset)
AtSpec == AtInit /\ [][AtNext]_atVars

-----------------------------------------------------------------------------
\* The lengths of the strings can be told in a byte.
Tellable(object) ==
  atKind = "vendor" => Len(object.vstr) < AtRadix /\ Len(object.pstr) < AtRadix

(* What firmware has dumped into an atom it reads back, whatever the object  *)
(* held meanwhile and however often it is read; a reset that answers false   *)
(* has not touched the object. *)
AtomsReadBack ==
  [][AtReset =>
       /\ atAnswer' = "refused" => atHeld' = atHeld
       /\ (atWritten # <<>> /\ Tellable(atWritten[1])) =>
            atAnswer' = "done" /\ atHeld' = atWritten[1]]_atVars
=============================================================================
