------------------------------- MODULE DataBus -------------------------------
(***************************************************************************)
(* How the driver reads samples from the board over eight data pins and a  *)
(* clock (Gpio_data and read_data() in src/driver.cpp).  A data set, one   *)
(* sample of each channel, takes eight bytes; pin TCO, read with the       *)
(* second byte, tells that the bank holds another set.  The bytes of a set *)
(* mix the bits of all channels as in the comment "Chunk Layout".          *)
(*                                                                         *)
(* External: the board fills a bank while the driver sleeps 700 us, and    *)
(* puts the next byte on the pins at a falling clock edge.  What happens   *)
(* when it is late (the driver does not look) is left out.                 *)
(***************************************************************************)
EXTENDS Integers, Sequences

CONSTANTS
  BusSets,       \* data sets that the board may send, a sample per channel
  BusInvalid,    \* banks that are invalid after the start, 32 in the code
  BusBankSizes,  \* bound: data sets in a bank, up to 255 * 32
  BusMaxBanks    \* bound: banks of a run

BusChannels == 1 .. 4
Samples == {w \in Nat : w < 2^16}   \* std::uint16_t

BusAssumption ==
  /\ BusSets \subseteq [BusChannels -> Samples]
  /\ BusInvalid \in Nat /\ BusBankSizes \subseteq Nat \ {0}

Lines == 0 .. 7
Position == [l \in Lines |-> <<24, 25, 7, 5, 6, 12, 13, 16>>[l + 1]]  \* gpio_data_position

VARIABLES
  busBank,   \* board: the data sets not read yet, the one on the pins first
  busByte,   \* board: the byte of that set that comes next
  busBanks,  \* board: banks filled so far
  busSkip,   \* read_skip_count_
  busChunk,  \* chunk: the bytes read so far
  busMore,   \* tco and pi_ok of this chunk
  busTable,  \* result
  busSent,   \* history: the sets of the bank that the driver is to return
  busAt      \* "waits", "reads" or "done" (read_data() has returned)

busVars == <<busBank, busByte, busBanks, busSkip, busChunk, busMore, busTable, busSent, busAt>>

BusInit ==
  /\ busBank = <<>> /\ busByte = 0 /\ busBanks = 0 /\ busSkip = BusInvalid
  /\ busChunk = <<>> /\ busMore = FALSE /\ busTable = <<>> /\ busSent = <<>>
  /\ busAt = "waits"

Bit(word, n) == (word \div 2^n) % 2

-----------------------------------------------------------------------------
\* External: the level of the data pins for byte i of a set, the layout of the
\* comment, bit 7 on the line 0.
Levels(set, i) ==
  LET bit(l) == IF l < 4 THEN Bit(set[l + 1], 14 - 2 * i) ELSE Bit(set[l - 3], 15 - 2 * i)
  IN [p \in {Position[l] : l \in Lines} |-> bit(CHOOSE l \in Lines : Position[l] = p)]

\* External: a bank is filled while the driver sleeps.
BusFill ==
  /\ busAt = "waits" /\ busBanks < BusMaxBanks
  /\ \E n \in BusBankSizes : \E bank \in [1 .. n -> BusSets] :
       busBank' = bank /\ busSent' = bank
  /\ busByte' = 0 /\ busBanks' = busBanks + 1
  /\ busAt' = "reads" /\ busTable' = <<>> /\ busChunk' = <<>>
  /\ UNCHANGED <<busSkip, busMore>>

Shift == [l \in Lines |-> <<17, 19, 2, 1, 3, 10, 12, 16>>[l + 1]]

\* read(): the byte put together from the pins, each moved to its place.
Moved(levels, l) == levels[Position[l]] * 2^(Position[l] - Shift[l])
ByteOf(levels) ==
  Moved(levels, 0) + Moved(levels, 1) + Moved(levels, 2) + Moved(levels, 3)
    + Moved(levels, 4) + Moved(levels, 5) + Moved(levels, 6) + Moved(levels, 7)

\* append_chunk(): byte n has the next two bits of the sample of channel c, the
\* upper one among its bits 3 to 0, the lower one among its bits 7 to 4.
Digits(chunk, c) ==
  LET digits[n \in 0 .. 8] ==
        IF n = 0 THEN 0 ELSE 4 * digits[n - 1] + (2 * Bit(chunk[n], 4 - c) + Bit(chunk[n], 8 - c))
  IN digits[8]

Row(chunk) == [c \in BusChannels |-> Digits(chunk, c)]

\* One clock of read_chunk(), the second also reads whether more follows.
BusClock ==
  /\ busAt = "reads" /\ Len(busChunk) < 8
  /\ busChunk' = Append(busChunk, ByteOf(Levels(Head(busBank), busByte)))
  /\ busMore' = IF busByte = 1 THEN Len(busBank) > 1 ELSE busMore
  /\ busByte' = (busByte + 1) % 8
  /\ busBank' = IF busByte = 7 THEN Tail(busBank) ELSE busBank
  /\ UNCHANGED <<busBanks, busSkip, busTable, busSent, busAt>>

BugSkipChunk ==
  /\ busAt = "reads" /\ Len(busChunk) = 8 /\ busSkip > 0
  /\ busChunk' = <<>>
  /\ busSkip' = busSkip - 1
  /\ busAt' = IF busMore THEN "reads" ELSE "waits"
  /\ UNCHANGED <<busBank, busByte, busBanks, busMore, busTable, busSent>>

\* The skipping loop of read_data(): a whole bank is read and counts once.
SkipChunk ==
  /\ busAt = "reads" /\ Len(busChunk) = 8 /\ busSkip > 0
  /\ busChunk' = <<>>
  /\ IF busMore THEN UNCHANGED <<busSkip, busAt>>
     ELSE busSkip' = busSkip - 1 /\ busAt' = "waits"
  /\ UNCHANGED <<busBank, busByte, busBanks, busMore, busTable, busSent>>

\* The reading loop: the set is appended, and after the last of the bank
\* read_data() returns.
AppendChunk ==
  /\ busAt = "reads" /\ Len(busChunk) = 8 /\ busSkip = 0
  /\ busTable' = Append(busTable, Row(busChunk))
  /\ busChunk' = <<>>
  /\ busAt' = IF busMore THEN "reads" ELSE "done"
  /\ UNCHANGED <<busBank, busByte, busBanks, busSkip, busMore, busSent>>

\* The reading thread calls again.
BusAgain ==
  /\ busAt = "done"
  /\ busAt' = "waits"
  /\ UNCHANGED <<busBank, busByte, busBanks, busSkip, busChunk, busMore, busTable, busSent>>

BusNext == BusFill \/ BusClock \/ SkipChunk \/ AppendChunk \/ BusAgain
BusSpec == BusInit /\ [][BusNext]_busVars

-----------------------------------------------------------------------------
\* What read_data() returns is a whole bank, sample for sample of each channel
\* what the board measured, and never one of the banks that are invalid after
\* the start.  The bits pass the layout of the chunks, the pins and the shifts.
TablesAreBanks ==
  busAt = "done" => busTable = busSent /\ busBanks > BusInvalid

\* The driver takes whole sets off the bus: whenever it waits, the board has no
\* byte left, so the next bank starts with the first byte of a set.
StaysInStep ==
  busAt \in {"waits", "done"} => busBank = <<>> /\ busByte = 0

\* Safety: banks arrive whole, one by one, however many are skipped and however
\* many sets each has.
BanksArriveWhole == TablesAreBanks /\ StaysInStep
=============================================================================
