---------------------------- MODULE EepromProofs ----------------------------
(***************************************************************************)
(* Proofs that send() tells the truth, and that it gives up only for a      *)
(* reason, for every size of the image and of a page and every number of    *)
(* attempts, disturbances and time-outs.                                    *)
(***************************************************************************)
EXTENDS Eeprom, TLAPS

Comparing == step \in {"compareWait", "compareEnd"}
Matches(n) == \A i \in 1 .. n : chip[i] = i

-----------------------------------------------------------------------------
(* The inductive invariant                                                  *)

\* The variables the argument is about have their types, and the chip sends only
\* while a read goes on, or after a bus error ended one.
TypeInv ==
  /\ step \in {"idle", "try", "page", "pageWait", "settle", "compareWait",
               "compareEnd"}
  /\ state \in {"halted", "start", "write", "read", "errTransfer", "errCmp"}
  /\ dir \in {"read", "write"}
  /\ cursor \in 0 .. Size
  /\ addr \in Nat /\ at \in Int
  /\ reading => state \in {"read", "errTransfer"}
  /\ state = "read" => reading
  /\ step = "pageWait" => ~reading /\ dir = "write"

\* The chip has a content for every byte of the image.
Memory == chip = [i \in Bytes |-> chip[i]]

\* A comparison only reads, and the interrupt routine sees the buffer till the
\* main loop has seen the end.
ReadingOnly ==
  Comparing => /\ dir = "read" /\ state # "write" /\ latch = <<>> /\ addr = 0
               /\ result # "sent"
               /\ step = "compareWait" => attached

\* What the comparison has passed is the image: nothing at its start, the bytes
\* up to the cursor while the chip sends, everything when the last byte has been
\* compared and the read halted.
Progress ==
  Comparing => /\ state = "start" => cursor = 0
               /\ reading => at = cursor + 1 /\ Matches(cursor)
               /\ state = "halted" /\ ~cut => Matches(Size)

\* After a success the bus is quiet: nothing disturbs what has been stored.
Quiet ==
  result = "sent" => /\ step = "idle"
                     /\ ~cut => state = "halted" /\ Matches(Size)

\* The buffer is taken from a read that goes on only by a time-out, and a read is
\* halted early only without its buffer or by the chip.
Reasons ==
  /\ faults \in Nat /\ lates \in Nat
  /\ cut => faults + lates > 0
  /\ (state = "start" /\ dir = "read") \/ reading => attached \/ lates > 0

SendInv == TypeInv /\ Memory /\ ReadingOnly /\ Progress /\ Quiet /\ Reasons

-----------------------------------------------------------------------------
(* A stop condition after nothing was received stores nothing.              *)
LEMMA EmptyStop ==
  ASSUME Memory, latch = <<>>, Stop
  PROVE  chip' = chip
<1>1. \A i \in Bytes : Stored(i) = chip[i]
  BY DEF Stored
<1> QED
  BY <1>1 DEF Stop, Memory

(* The invariant holds at the start.                                        *)
LEMMA InitSend == Init => SendInv
<1> SUFFICES ASSUME Init PROVE SendInv
  OBVIOUS
<1>1. Memory
  BY DEF Init, Memory
<1>2. TypeInv
  BY EepromAssumption DEF Init, TypeInv
<1>3. step = "idle" /\ result = "none"
  BY DEF Init
<1>4. Reasons
  BY DEF Init, Reasons
<1> QED
  BY <1>1, <1>2, <1>3, <1>4 DEF SendInv, ReadingOnly, Progress, Quiet, Comparing

(* Every step of the main loop, the interrupt routine and the chip preserves *)
(* it.                                                                       *)
LEMMA StepSend == SendInv /\ [Next]_vars => SendInv'
<1> SUFFICES ASSUME SendInv, [Next]_vars PROVE SendInv'
  OBVIOUS
<1>0. Memory'
  <2>1. ASSUME Stop PROVE Memory'
    BY <2>1 DEF Stop, Memory
  <2>2. ASSUME NEW c \in {chip, [i \in Bytes |-> Foreign]}, chip' = c PROVE Memory'
    BY <2>2 DEF Memory, SendInv
  <2>3. Stop \/ chip' \in {chip, [i \in Bytes |-> Foreign]}
    BY DEF Next, MainStep, Irq, Send, Try, StartPage, PageWritten, PageRefused, PageTimeout, StartCompare,
       CompareEnds, CompareResult, Addressed, AddressRefused, WriteByte, EndOfPage, ReadByte, EndOfRead,
       SlaveNack, Halt, Disturbed, Ready, vars, main, shared, chipVars, hist
  <2> QED
    BY <2>1, <2>2, <2>3
<1> USE <1>0, EepromAssumption DEF SendInv, TypeInv, ReadingOnly, Progress, Quiet,
        Reasons, Comparing, Matches, Underway, main, shared, chipVars, hist
<1>1. CASE Send
  BY <1>1 DEF Send, Bytes
<1>2. CASE Try
  BY <1>2 DEF Try, Rewound
<1>3. CASE StartPage
  BY <1>3 DEF StartPage, StartTransfer
<1>4. CASE PageWritten
  <2>1. addr' \in Nat
    BY <1>4 DEF PageWritten
  <2> QED
    BY <1>4, <2>1 DEF PageWritten
<1>5. CASE PageRefused
  BY <1>5 DEF PageRefused, TryFailed, Late
<1>6. CASE PageTimeout
  BY <1>6 DEF PageTimeout, TryFailed, Late
<1>7. CASE StartCompare
  <2>1. TypeInv' /\ Quiet'
    BY <1>7 DEF StartCompare, StartTransfer
  <2>2. ReadingOnly'
    BY <1>7 DEF StartCompare, StartTransfer
  <2>3. Progress'
    BY <1>7 DEF StartCompare, StartTransfer
  <2>4. Reasons'
    BY <1>7 DEF StartCompare, StartTransfer
  <2> QED
    BY <2>1, <2>2, <2>3, <2>4
<1>8. CASE CompareEnds
  BY <1>8 DEF CompareEnds, Late
<1>9. CASE CompareResult
  BY <1>9 DEF CompareResult, TryFailed
<1>10. CASE Addressed
  <2>1. /\ state = "start" /\ state' = dir /\ at' = addr + 1
        /\ UNCHANGED <<main, dir, attached, cursor, pageLeft, chip, latch, busy, hist>>
    BY <1>10 DEF Addressed
  <2>2. reading' <=> dir = "read"
    BY <1>10, Zenon DEF Addressed
  <2>3. TypeInv' /\ Quiet' /\ ReadingOnly'
    BY <2>1, <2>2
  <2>4. Progress'
    BY <2>1, <2>2
  <2>5. Reasons'
    BY <2>1, <2>2
  <2> QED
    BY <2>3, <2>4, <2>5
<1>11. CASE AddressRefused
  BY <1>11 DEF AddressRefused
<1>12. CASE WriteByte
  BY <1>12 DEF WriteByte, ByteReady
<1>13. CASE EndOfPage
  BY <1>13 DEF EndOfPage, Ended, Stop
<1>14. CASE ReadByte
  <2>5. /\ reading /\ cursor < Size /\ cursor' = cursor + 1 /\ at' = at + 1
        /\ UNCHANGED <<main, dir, attached, latch, hist>>
        /\ \/ state' = state /\ reading' = reading
           \/ state' = "errCmp" /\ reading' = FALSE
    BY <1>14 DEF ReadByte
  <2>6. cursor' \in 0 .. Size /\ at' \in Int
    BY <2>5
  <2>7. TypeInv'
    BY <2>5, <2>6
  <2>8. Quiet' /\ ReadingOnly'
    BY <2>5
  <2>4. Reasons'
    BY <1>14 DEF ReadByte
  <2>2. ASSUME Comparing, reading'
        PROVE  at' = cursor' + 1 /\ \A i \in 1 .. cursor' : chip'[i] = i
    <3>1. Same /\ at = cursor + 1 /\ Matches(cursor)
      BY <1>14, <2>2 DEF ReadByte
    <3>2. chip[cursor + 1] = cursor + 1 /\ chip' = chip
          /\ cursor' = cursor + 1 /\ at' = cursor + 2
      BY <1>14, <3>1 DEF ReadByte, Same
    <3>3. cursor + 2 = cursor' + 1
      BY <3>2
    <3>4. ASSUME NEW i \in 1 .. cursor' PROVE chip'[i] = i
      <4>1. i \in 1 .. cursor \/ i = cursor + 1
        BY <3>2, <3>4
      <4> QED
        BY <3>1, <3>2, <4>1
    <3> QED
      BY <3>2, <3>3, <3>4
  <2>3. Progress'
    BY <1>14, <2>2 DEF ReadByte
  <2> QED
    BY <2>3, <2>4, <2>7, <2>8
<1>15. CASE EndOfRead \/ SlaveNack
  <2>1. Halt /\ faults' \in Nat /\ faults' >= faults
        /\ \/ faults' = faults /\ (~attached \/ cursor = Size)
           \/ faults' > 0
    BY <1>15 DEF EndOfRead, SlaveNack, Fault, Halt
  <2>2. /\ reading /\ ~reading' /\ state' = "halted"
        /\ UNCHANGED <<main, dir, attached, cursor, pageLeft, chipVars, lates>>
    BY <2>1 DEF Halt, Ended
  <2>6. cut' <=> (cut \/ cursor < Size)
    BY <2>1, Zenon DEF Halt
  <2>3. TypeInv'
    BY <2>2
  <2>7. Quiet' /\ ReadingOnly'
    BY <2>2, <2>6
  <2>4. Reasons'
    <3>1. faults' \in Nat /\ lates' = lates /\ lates \in Nat
      BY <2>1, <2>2
    <3>5. \A l \in Nat, f \in Nat : f > 0 => f + l > 0
      OBVIOUS
    <3>2. CASE faults' > 0
      <4>1. faults' + lates' > 0
        BY <3>1, <3>2, <3>5, Zenon
      <4>2. ~reading' /\ state' # "start"
        BY <2>2
      <4> QED
        BY <3>1, <4>1, <4>2, Zenon
    <3>3. CASE faults' = faults /\ ~attached
      BY <2>2, <3>1, <3>3
    <3>4. CASE faults' = faults /\ cursor = Size
      BY <2>2, <2>6, <3>1, <3>4
    <3> QED
      BY <2>1, <3>1, <3>2, <3>3, <3>4
  <2>5. Progress'
    BY <2>2, <2>6
  <2> QED
    BY <2>3, <2>4, <2>5, <2>7
<1>16. CASE Disturbed
  <2>1. CASE Comparing
    <3>1. chip' = chip /\ latch' = <<>>
      BY <1>16, <2>1, EmptyStop DEF Disturbed, Stop
    <3> QED
      BY <1>16, <2>1, <3>1 DEF Disturbed, Fault
  <2>2. CASE ~Comparing
    <3>1. Quiet'
      BY <1>16, <2>2 DEF Disturbed, Stop
    <3> QED
      BY <1>16, <2>2, <3>1 DEF Disturbed, Fault
  <2> QED
    BY <2>1, <2>2
<1>17. CASE Ready
  BY <1>17 DEF Ready
<1>18. CASE UNCHANGED vars
  BY <1>18 DEF vars
<1> QED
  BY <1>1, <1>2, <1>3, <1>4, <1>5, <1>6, <1>7, <1>8, <1>9, <1>10, <1>11, <1>12,
     <1>13, <1>14, <1>15, <1>16, <1>17, <1>18 DEF Next, MainStep, Irq

(* send() that succeeds has stored the image: the bytes compared are those   *)
(* of the image, all of them, and nothing has been written since.  The one   *)
(* other way to a success is a comparison halted before its end, by a byte   *)
(* that is not acknowledged or because the buffer was taken away.            *)
THEOREM SentImageStored == Spec => []SentIsStored
<1>1. SendInv => SentIsStored
  BY DEF SendInv, Quiet, Reasons, SentIsStored, Matches, Bytes
<1> QED
  BY InitSend, StepSend, <1>1, PTL DEF Spec

-----------------------------------------------------------------------------
(* Attempts that nothing happens to succeed.  What has happened so far, two  *)
(* for a transfer that was late, is counted against the attempts that have   *)
(* failed; when nothing is left over, this attempt is as it should be: its   *)
(* pages are written where they belong, and the comparison finds them there. *)
\* What the failures so far are accounted for by, and how many attempts have failed.
Spent == faults + 2 * lates
Failures == IF step = "try" THEN tries ELSE tries - 1

AttemptTypes == TypeInv /\ tries \in Nat /\ faults \in Nat /\ lates \in Nat

Counted ==
  /\ result = "failed" => step = "idle" /\ Spent >= Retries
  /\ step = "try" => tries < Retries
  /\ step \notin {"idle", "try"} => tries \in 1 .. Retries

Accounted ==
  /\ step # "idle" => Spent >= Failures
  /\ step = "compareEnd" /\ Underway => Spent >= Failures + 2

OnPage == addr < Size /\ addr % PageSize = 0 /\ Matches(addr)

\* An attempt that nothing has happened to yet.
Begins == step = "try" => ~Underway
Between == step = "page" => ~Underway /\ attached /\ cursor = addr /\ OnPage
Writing ==
  step = "pageWait" =>
    /\ OnPage /\ attached /\ dir = "write" 
    /\ state \in {"start", "write", "halted", "errTransfer"}
    /\ state \in {"start", "errTransfer"} => cursor = addr
    /\ state = "start" => latch = <<>> /\ pageLeft = PageSize
    /\ state = "write" => /\ cursor \in addr .. addr + PageSize
                          /\ pageLeft = addr + PageSize - cursor
                          /\ at = addr + 1
                          /\ latch = [n \in 1 .. cursor - addr |-> addr + n]
    /\ state = "halted" => (cursor = Size \/ cursor = addr + PageSize) /\ Matches(cursor)
WrittenAll == step = "settle" => ~Underway /\ Matches(Size)
Verifying ==
  step \in {"compareWait", "compareEnd"} =>
    /\ Matches(Size) /\ ~busy /\ dir = "read" /\ addr = 0
    /\ step = "compareWait" => attached /\ state \in {"start", "read", "halted"}
    /\ step = "compareEnd" => state = "halted"
    /\ state = "start" => cursor = 0
    /\ state = "read" => at = cursor + 1
Smooth == step # "idle" /\ Spent = Failures => Begins /\ Between /\ Writing /\ WrittenAll /\ Verifying
AttemptInv == AttemptTypes /\ Counted /\ Accounted /\ Smooth

LEMMA WholePages ==
  ASSUME NEW p \in Nat \ {0}, NEW k \in Int, NEW m \in 0 .. p - 1, NEW b \in Int, b = p * k + m
  PROVE  b % p = m /\ b \div p = k
<1> DEFINE q == b \div p
           r == b % p
<1>1. q \in Int /\ r \in 0 .. p - 1 /\ b = p * q + r
  OBVIOUS
<1> HIDE DEF q, r
<1>2. \A d \in Int : d >= 1 => p * d >= p
  OBVIOUS
<1>3. p * (q - k) = m - r /\ p * (k - q) = r - m
  BY <1>1
<1>4. ~(q - k >= 1) /\ ~(k - q >= 1)
  BY <1>1, <1>2, <1>3
<1>5. q = k
  BY <1>1, <1>4
<1>6. r = m
  BY <1>1, <1>5
<1> QED
  BY <1>5, <1>6 DEF q, r

LEMMA PageAddress ==
  ASSUME NEW a \in Nat, a % PageSize = 0
  PROVE  /\ (a + PageSize) % PageSize = 0
         /\ \A n \in 1 .. PageSize : (a \div PageSize) * PageSize + ((a + n - 1) % PageSize) + 1 = a + n
<1> DEFINE q == a \div PageSize
<1>1. q \in Int /\ a = PageSize * q /\ PageSize \in Nat \ {0}
  BY EepromAssumption
<1> HIDE DEF q
<1>2. a + PageSize = PageSize * (q + 1) + 0
  BY <1>1
<1>3. (a + PageSize) % PageSize = 0
  BY <1>1, <1>2, WholePages
<1>4. ASSUME NEW n \in 1 .. PageSize
      PROVE  q * PageSize + ((a + n - 1) % PageSize) + 1 = a + n
  <2>1. a + n - 1 = PageSize * q + (n - 1) /\ n - 1 \in 0 .. PageSize - 1
    BY <1>1
  <2>2. (a + n - 1) % PageSize = n - 1
    BY <1>1, <2>1, WholePages
  <2>3. q * PageSize = a
    BY <1>1
  <2> QED
    BY <2>2, <2>3
<1> QED
  BY <1>3, <1>4 DEF q

\* What is counted is a number, and only another fault changes it.
LEMMA Sums ==
  ASSUME NEW f \in Nat, NEW g \in Nat, NEW l \in Nat, g >= f
  PROVE  f + 2 * l \in Nat /\ g + 2 * l \in Nat /\ g + 2 * l >= f + 2 * l /\ (g + 2 * l = f + 2 * l => g = f)
OBVIOUS

LEMMA SpentIsNat ==
  ASSUME AttemptTypes
  PROVE  Spent \in Nat /\ Failures \in Int
BY DEF AttemptTypes, TypeInv, Spent, Failures

\* What may come after a failure that is accounted for.
LEMMA FailureKeeps ==
  ASSUME AttemptInv, step \notin {"idle", "try"}, TryFailed, tries' = tries, AttemptTypes',
         Spent' >= Failures + 1, Underway' => Spent' >= Failures + 2
  PROVE  AttemptInv'
<1>0. Spent' \in Nat
  <2>1. faults' \in Nat /\ lates' \in Nat
    BY Zenon DEF AttemptTypes
  <2>2. \A f \in Nat : f >= f
    OBVIOUS
  <2> QED
    BY <2>1, <2>2, Sums, Zenon DEF Spent
<1>1. tries \in 1 .. Retries /\ Failures = tries - 1 /\ Spent \in Nat
  BY SpentIsNat DEF AttemptInv, Counted, Failures
<1>2. CASE tries < Retries
  <2>1. step' = "try" /\ result' # "failed" /\ Failures' = tries
    BY <1>1, <1>2 DEF TryFailed, Failures, AttemptInv, Counted
  <2> QED
    BY <1>1, <1>2, <2>1 DEF AttemptInv, Counted, Accounted, Smooth, Begins, Between, Writing, WrittenAll, Verifying
<1>3. CASE ~(tries < Retries)
  <2>1. step' = "idle" /\ Spent' >= Retries
    BY <1>1, <1>3, EepromAssumption DEF TryFailed
  <2> QED
    BY <1>1, <2>1 DEF AttemptInv, Counted, Accounted, Smooth
<1> QED
  BY <1>2, <1>3

\* A clean page: its bytes are stored where they belong.
LEMMA PageStored ==
  ASSUME AttemptTypes, OnPage, at = addr + 1, cursor \in addr .. addr + PageSize,
         latch = [n \in 1 .. cursor - addr |-> addr + n], Stop
  PROVE  \A i \in 1 .. cursor : chip'[i] = i
<1>1. /\ addr \in Nat /\ cursor \in 0 .. Size /\ Size \in Nat /\ PageSize \in Nat \ {0}
      /\ addr % PageSize = 0 /\ \A i \in 1 .. addr : chip[i] = i
  BY EepromAssumption DEF AttemptTypes, TypeInv, OnPage, Matches
<1>2. DOMAIN latch = 1 .. cursor - addr /\ \A n \in 1 .. cursor - addr : latch[n] = addr + n
  OBVIOUS
<1>3. ASSUME NEW n \in 1 .. cursor - addr PROVE InPage(n) = addr + n
  <2>1. n \in 1 .. PageSize /\ at - 1 = addr /\ at + n - 2 = addr + n - 1
    BY <1>1
  <2>2. (addr \div PageSize) * PageSize + ((addr + n - 1) % PageSize) + 1 = addr + n
    BY <1>1, <2>1, PageAddress
  <2> QED
    BY <2>1, <2>2 DEF InPage
<1>4. ASSUME NEW i \in 1 .. cursor PROVE chip'[i] = i
  <2> DEFINE placed == {n \in DOMAIN latch : InPage(n) = i}
  <2>1. chip'[i] = IF placed = {} THEN chip[i]
                   ELSE latch[CHOOSE n \in placed : \A m \in placed : m <= n]
    BY <1>1 DEF Stop, Stored, Bytes
  <2>2. placed = {n \in 1 .. cursor - addr : addr + n = i}
    BY <1>2, <1>3
  <2> HIDE DEF placed
  <2>3. CASE i <= addr
    <3>1. placed = {}
      BY <1>1, <2>2, <2>3
    <3> QED
      BY <1>1, <2>1, <2>3, <3>1
  <2>4. CASE i > addr
    <3>1. i - addr \in 1 .. cursor - addr /\ addr + (i - addr) = i
      BY <1>1, <2>4
    <3>2. placed = {i - addr}
      <4>1. \A n \in 1 .. cursor - addr : addr + n = i <=> n = i - addr
        BY <1>1, <2>4
      <4> QED
        BY <2>2, <3>1, <4>1
    <3>3. (CHOOSE n \in placed : \A m \in placed : m <= n) = i - addr
      BY <1>1, <3>1, <3>2
    <3> QED
      BY <1>2, <2>1, <3>1, <3>2, <3>3
  <2> QED
    BY <1>1, <2>3, <2>4
<1> QED
  BY <1>4

LEMMA AttemptInitial == Init => AttemptInv
<1> SUFFICES ASSUME Init PROVE AttemptInv
  OBVIOUS
<1>1. step = "idle" /\ result = "none" /\ tries = 0 /\ faults = 0 /\ lates = 0
  BY DEF Init
<1> QED
  BY <1>1, InitSend DEF SendInv, AttemptInv, AttemptTypes, Counted, Accounted, Smooth

\* Steps of the interrupt routine and the chip leave the count of attempts alone.
LEMMA IrqKeeps ==
  ASSUME AttemptInv, TypeInv', Irq \/ Ready
  PROVE  AttemptInv'
<1> USE DEF main, shared, chipVars, hist
<1>1. UNCHANGED main /\ lates' = lates /\ faults' \in Nat /\ faults' >= faults
  BY DEF Irq, Addressed, AddressRefused, WriteByte, EndOfPage, ReadByte, EndOfRead, SlaveNack, Halt, Fault,
         Disturbed, Ready, AttemptInv, AttemptTypes
<1>2. Spent \in Nat /\ Spent' \in Nat /\ Spent' >= Spent /\ Failures \in Int /\ Failures' = Failures
      /\ (Spent' = Spent => faults' = faults)
  <2>1. tries \in Nat /\ faults \in Nat /\ lates \in Nat
    BY DEF AttemptInv, AttemptTypes
  <2>2. Failures' = Failures
    BY <1>1, Zenon DEF Failures
  <2>3. Failures \in Int
    BY <2>1 DEF Failures
  <2> QED
    BY <1>1, <2>1, <2>2, <2>3, Sums, Zenon DEF Spent
<1>3. Underway' => Underway
  BY DEF Irq, Addressed, AddressRefused, WriteByte, EndOfPage, ReadByte, EndOfRead, SlaveNack, Halt,
         Disturbed, Ready, Underway, Ended, AttemptInv, AttemptTypes, TypeInv
<1>4. AttemptTypes' /\ Counted' /\ Accounted'
  BY <1>1, <1>2, <1>3, EepromAssumption DEF AttemptInv, AttemptTypes, Counted, Accounted
<1>5. ASSUME step # "idle", Spent = Failures, faults' = faults
      PROVE  Begins' /\ Between' /\ Writing' /\ WrittenAll' /\ Verifying'
  <2>1. Begins /\ Between /\ Writing /\ WrittenAll /\ Verifying
    BY <1>5 DEF AttemptInv, Smooth
  <2> USE <2>1, <1>1, <1>5
  <2>2. ~Disturbed /\ ~SlaveNack
    BY DEF Disturbed, SlaveNack, Fault, AttemptInv, AttemptTypes
  <2>3. Begins'
    BY <1>3 DEF Begins
  <2>4. CASE Ready
    BY <2>3, <2>4 DEF Ready, Between, Writing, OnPage, WrittenAll, Verifying, Underway, Matches
  <2>5. step \in {"pageWait", "compareWait"} \/ ~Underway
    BY DEF Begins, Between, WrittenAll, Verifying, Underway, AttemptInv, AttemptTypes, TypeInv
  <2>6. CASE step = "pageWait"
    <3>1. Between' /\ WrittenAll' /\ Verifying'
      BY <2>6 DEF Between, WrittenAll, Verifying
    <3> USE <2>6 DEF Writing, OnPage
    <3>2. addr' = addr /\ addr \in Nat /\ PageSize \in Nat \ {0} /\ cursor \in 0 .. Size /\ Size \in Nat
      BY EepromAssumption DEF AttemptInv, AttemptTypes, TypeInv
    <3>3. CASE Addressed
      <4>1. /\ state = "start" /\ state' = "write" /\ at' = addr + 1 /\ cursor = addr /\ cursor' = cursor
            /\ UNCHANGED <<dir, attached, pageLeft, chip, latch>> /\ latch = <<>> /\ pageLeft = PageSize
        BY <3>3 DEF Addressed
      <4>2. latch = [n \in 1 .. cursor - addr |-> addr + n]
        <5>1. cursor - addr = 0
          BY <3>2, <4>1
        <5> QED
          BY <4>1, <5>1
      <4>3. Writing'
        BY <3>2, <4>1, <4>2 DEF Matches
      <4> QED
        BY <2>3, <3>1, <4>3
    <3>4. CASE AddressRefused
      <4>1. Writing'
        BY <3>4 DEF AddressRefused, Matches
      <4> QED
        BY <2>3, <3>1, <4>1
    <3>5. CASE WriteByte
      <4>1. /\ state = "write" /\ state' = "write" /\ cursor < Size /\ pageLeft > 0 /\ at = addr + 1
            /\ cursor \in addr .. addr + PageSize /\ pageLeft = addr + PageSize - cursor
            /\ cursor' = cursor + 1 /\ pageLeft' = pageLeft - 1
            /\ latch = [n \in 1 .. cursor - addr |-> addr + n]
            /\ latch' = Append(latch, cursor + 1)
            /\ UNCHANGED <<dir, attached, chip, at>>
        BY <3>5 DEF WriteByte, ByteReady
      <4>2. latch' = [n \in 1 .. cursor' - addr |-> addr + n]
        <5>1. cursor - addr \in Nat /\ cursor' - addr = (cursor - addr) + 1
              /\ addr + (cursor - addr) + 1 = cursor + 1
          BY <3>2, <4>1
        <5>2. \A l \in Nat : Append([n \in 1 .. l |-> addr + n], addr + l + 1)
                              = [n \in 1 .. l + 1 |-> addr + n]
          BY <3>2
        <5> QED
          BY <3>2, <4>1, <5>1, <5>2
      <4>3. cursor' \in addr .. addr + PageSize /\ pageLeft' = addr + PageSize - cursor'
        BY <3>2, <4>1
      <4>4. Writing'
        BY <3>2, <4>1, <4>2, <4>3 DEF Matches
      <4> QED
        BY <2>3, <3>1, <4>4
    <3>6. CASE EndOfPage
      <4>1. /\ state = "write" /\ state' = "halted" /\ ~(cursor < Size /\ pageLeft > 0) /\ at = addr + 1
            /\ cursor \in addr .. addr + PageSize /\ pageLeft = addr + PageSize - cursor
            /\ latch = [n \in 1 .. cursor - addr |-> addr + n] /\ Stop
            /\ UNCHANGED <<dir, attached, cursor, pageLeft, at>>
        BY <3>6 DEF EndOfPage, ByteReady, Ended
      <4>2. \A i \in 1 .. cursor : chip'[i] = i
        BY <4>1, PageStored DEF AttemptInv
      <4>3. cursor = Size \/ cursor = addr + PageSize
        BY <3>2, <4>1
      <4>4. \A i \in 1 .. addr : i \in 1 .. cursor
        BY <3>2, <4>1
      <4>5. Writing'
        BY <3>2, <4>1, <4>2, <4>3, <4>4 DEF Matches
      <4> QED
        BY <2>3, <3>1, <4>5
    <3>7. ~ReadByte /\ ~EndOfRead
      BY DEF ReadByte, EndOfRead, Halt, AttemptInv, AttemptTypes, TypeInv
    <3> QED
      BY <2>2, <2>4, <3>3, <3>4, <3>5, <3>6, <3>7 DEF Irq
  <2>7. CASE step = "compareWait"
    <3>1. Between' /\ WrittenAll' /\ Writing'
      BY <2>7 DEF Between, WrittenAll, Writing
    <3> USE <2>7 DEF Verifying
    <3>2. CASE Addressed
      BY <2>3, <3>1, <3>2 DEF Addressed, Matches
    <3>3. CASE ReadByte
      <4>1. state = "read" /\ at = cursor + 1 /\ cursor < Size /\ cursor' = cursor + 1 /\ at' = at + 1 /\ chip[cursor + 1] = cursor + 1
            /\ cursor \in 0 .. Size
        BY <3>3, EepromAssumption DEF ReadByte, Matches, AttemptInv, AttemptTypes, TypeInv
      <4>2. Same /\ at' = cursor' + 1
        BY <4>1, EepromAssumption DEF Same, Bytes
      <4>3. Verifying'
        BY <3>3, <4>1, <4>2 DEF ReadByte, Matches
      <4> QED
        BY <2>3, <3>1, <4>3
    <3>4. CASE EndOfRead
      BY <2>3, <3>1, <3>4 DEF EndOfRead, Halt, Ended, Matches
    <3>5. ~AddressRefused /\ ~WriteByte /\ ~EndOfPage
      BY DEF AddressRefused, WriteByte, EndOfPage
    <3> QED
      BY <2>2, <2>4, <3>2, <3>3, <3>4, <3>5 DEF Irq
  <2>8. CASE ~Underway
    BY <2>2, <2>4, <2>8 DEF Irq, Addressed, AddressRefused, WriteByte, EndOfPage, ReadByte, EndOfRead, Halt, Underway
  <2> QED
    BY <2>5, <2>6, <2>7, <2>8
<1>6. ASSUME step' # "idle", Spent' = Failures'
      PROVE  Begins' /\ Between' /\ Writing' /\ WrittenAll' /\ Verifying'
  <2>1. step # "idle" /\ Spent >= Failures
    BY <1>1, <1>6 DEF AttemptInv, Accounted
  <2>2. Spent = Failures /\ faults' = faults
    BY <1>2, <1>6, <2>1
  <2> QED
    BY <1>5, <2>1, <2>2
<1> QED
  BY <1>4, <1>6 DEF AttemptInv, Smooth

\* So do those of the main loop.
LEMMA MainKeeps ==
  ASSUME AttemptInv, TypeInv', Send \/ MainStep
  PROVE  AttemptInv'
<1> USE EepromAssumption DEF main, shared, chipVars, hist
<1>1. /\ Spent \in Nat /\ Failures \in Int /\ tries \in Nat /\ faults \in Nat /\ lates \in Nat
      /\ Size \in Nat \ {0} /\ PageSize \in Nat \ {0} /\ Retries \in Nat
      /\ cursor \in 0 .. Size /\ addr \in Nat
  BY SpentIsNat DEF AttemptInv, AttemptTypes, TypeInv
<1>2. CASE Send
  <2>1. step' = "try" /\ tries' = 0 /\ result' = "none" /\ state' = state /\ reading' = reading
        /\ faults' = 0 /\ lates' = (IF Underway THEN 1 ELSE 0)
    BY <1>2 DEF Send
  <2>2. Failures' = 0 /\ Spent' \in Nat /\ (Underway' => Spent' = 2)
    BY <2>1 DEF Failures, Spent, Underway
  <2> QED
    BY <2>1, <2>2 DEF AttemptInv, AttemptTypes, Counted, Accounted, Smooth, Begins, Between, Writing,
       WrittenAll, Verifying
<1>3. CASE Try
  <2>1. step = "try" /\ step' = "page" /\ tries' = tries + 1 /\ cursor' = 0 /\ addr' = 0 /\ attached' = TRUE
        /\ UNCHANGED <<result, state, dir, pageLeft, reading, chip, faults, lates>>
    BY <1>3 DEF Try, Rewound
  <2>2. Failures' = Failures /\ Spent' = Spent /\ Failures = tries
    BY <1>1, <2>1 DEF Failures, Spent
  <2>3. AttemptTypes' /\ Counted' /\ Accounted'
    BY <1>1, <2>1, <2>2 DEF AttemptInv, AttemptTypes, Counted, Accounted
  <2>4. 0 % PageSize = 0
    BY <1>1
  <2>5. Smooth'
    BY <1>1, <2>1, <2>2, <2>4 DEF AttemptInv, Smooth, Begins, Between, Writing, WrittenAll, Verifying,
       OnPage, Matches, Underway
  <2> QED
    BY <2>3, <2>5 DEF AttemptInv
<1>4. CASE StartPage
  <2>1. step = "page" /\ step' = "pageWait" /\ state' = "start" /\ dir' = "write" /\ latch' = <<>>
        /\ pageLeft' = PageSize - (addr % PageSize)
        /\ UNCHANGED <<tries, addr, result, attached, cursor, chip, faults, lates>>
    BY <1>4 DEF StartPage, StartTransfer
  <2>2. Failures' = Failures /\ Spent' = Spent
    BY <2>1 DEF Failures, Spent
  <2>3. AttemptTypes' /\ Counted' /\ Accounted'
    BY <1>1, <2>1, <2>2 DEF AttemptInv, AttemptTypes, Counted, Accounted
  <2>4. Smooth'
    BY <1>1, <2>1, <2>2 DEF AttemptInv, Smooth, Begins, Between, Writing, WrittenAll, Verifying,
       OnPage, Matches
  <2> QED
    BY <2>3, <2>4 DEF AttemptInv
<1>5. CASE PageWritten
  <2>1. step = "pageWait" /\ state = "halted" /\ addr' = addr + (PageSize - (addr % PageSize))
        /\ (IF cursor < Size THEN step' = "page" /\ attached' = attached ELSE step' = "settle")
        /\ UNCHANGED <<tries, result, state, dir, cursor, reading, chip, faults, lates>>
        /\ ~reading
    BY <1>5 DEF PageWritten, AttemptInv, AttemptTypes, TypeInv
  <2>2. Failures' = Failures /\ Spent' = Spent /\ step' \in {"page", "settle"}
    BY <2>1 DEF Failures, Spent
  <2>3. AttemptTypes' /\ Counted' /\ Accounted'
    BY <1>1, <2>1, <2>2 DEF AttemptInv, AttemptTypes, Counted, Accounted
  <2>4. ASSUME Spent = Failures PROVE Between' /\ WrittenAll'
    <3>1. Writing
      BY <2>1, <2>4 DEF AttemptInv, Smooth
    <3>2. /\ addr % PageSize = 0 /\ attached /\ (cursor = Size \/ cursor = addr + PageSize)
          /\ \A i \in 1 .. cursor : chip[i] = i
      BY <2>1, <3>1 DEF Writing, OnPage, Matches
    <3>3. addr' = addr + PageSize /\ (addr + PageSize) % PageSize = 0
      <4>1. (addr + PageSize) % PageSize = 0
        BY <1>1, <3>2, PageAddress
      <4>2. addr' = addr + PageSize
        BY <1>1, <2>1, <3>2
      <4> QED
        BY <4>1, <4>2
    <3>4. CASE cursor < Size
      <4>1. cursor = addr' /\ addr' < Size /\ step' = "page"
        BY <2>1, <3>2, <3>3, <3>4
      <4> QED
        BY <2>1, <3>2, <3>3, <3>4, <4>1 DEF Between, WrittenAll, OnPage, Matches, Underway
    <3>5. CASE ~(cursor < Size)
      <4>1. cursor = Size /\ step' = "settle"
        BY <1>1, <2>1, <3>5
      <4> QED
        BY <2>1, <3>2, <4>1 DEF Between, WrittenAll, Matches, Underway
    <3> QED
      BY <3>4, <3>5
  <2>5. Smooth'
    BY <2>2, <2>4 DEF Smooth, Begins, Writing, Verifying
  <2> QED
    BY <2>3, <2>5 DEF AttemptInv
<1>6. CASE PageRefused
  <2>1. step = "pageWait" /\ state = "errTransfer" /\ ~Underway' /\ ~Underway
        /\ UNCHANGED <<tries, addr, state, dir, cursor, reading, chip, faults>>
        /\ lates' \in Nat
    BY <1>1, <1>6 DEF PageRefused, Late, Underway, AttemptInv, AttemptTypes, TypeInv
  <2>2. AttemptTypes'
    BY <1>1, <2>1 DEF AttemptTypes
  <2>3. Spent >= Failures /\ (Spent = Failures => Writing)
    BY <2>1 DEF AttemptInv, Accounted, Smooth
  <2>4. CASE cursor < Size /\ step' = "page" /\ UNCHANGED <<attached, result, lates>>
    <3>1. Failures' = Failures /\ Spent' = Spent
      BY <2>1, <2>4 DEF Failures, Spent
    <3>2. Counted' /\ Accounted'
      BY <1>1, <2>1, <2>4, <3>1 DEF AttemptInv, Counted, Accounted
    <3>3. Smooth'
      BY <2>1, <2>3, <2>4, <3>1 DEF Smooth, Begins, Between, Writing, WrittenAll, Verifying, OnPage, Matches, Underway
    <3> QED
      BY <2>2, <3>2, <3>3 DEF AttemptInv
  <2>5. CASE cursor = Size /\ TryFailed /\ lates' = lates
    <3>1. Spent # Failures
      BY <1>1, <2>1, <2>3, <2>5 DEF Writing, OnPage
    <3>2. Spent' = Spent /\ Spent' >= Failures + 1
      BY <1>1, <2>1, <2>3, <2>5, <3>1 DEF Spent
    <3> QED
      BY <2>1, <2>2, <2>5, <3>2, FailureKeeps
  <2>6. CASE Late /\ TryFailed
    <3>1. Spent' >= Failures + 1
      BY <1>1, <2>1, <2>3, <2>6 DEF Late, Spent
    <3> QED
      BY <2>1, <2>2, <2>6, <3>1, FailureKeeps
  <2> QED
    BY <1>6, <2>4, <2>5, <2>6 DEF PageRefused
<1>7. CASE PageTimeout
  <2>1. step = "pageWait" /\ TryFailed /\ lates' = lates + 1 /\ tries' = tries /\ faults' = faults
    BY <1>7 DEF PageTimeout, Late
  <2>2. AttemptTypes' /\ Spent' \in Nat /\ Spent' >= Failures + 2
    BY <1>1, <2>1 DEF AttemptInv, AttemptTypes, Accounted, Spent
  <2>3. Spent' >= Failures + 1
    BY <1>1, <2>2
  <2> QED
    BY <2>1, <2>2, <2>3, FailureKeeps
<1>8. CASE StartCompare
  <2>1. step = "settle" /\ ~busy /\ step' = "compareWait" /\ state' = "start" /\ dir' = "read"
        /\ cursor' = 0 /\ addr' = 0 /\ attached' = TRUE /\ UNCHANGED <<tries, result, chip, busy, faults, lates>>
    BY <1>8 DEF StartCompare, StartTransfer
  <2>2. Failures' = Failures /\ Spent' = Spent
    BY <2>1 DEF Failures, Spent
  <2>3. AttemptTypes' /\ Counted' /\ Accounted'
    BY <1>1, <2>1, <2>2 DEF AttemptInv, AttemptTypes, Counted, Accounted
  <2>4. Smooth'
    BY <1>1, <2>1, <2>2 DEF AttemptInv, Smooth, Begins, Between, Writing, WrittenAll, Verifying, Matches
  <2> QED
    BY <2>3, <2>4 DEF AttemptInv
<1>9. CASE CompareEnds
  <2>1. step = "compareWait" /\ step' = "compareEnd"
        /\ UNCHANGED <<tries, addr, result, state, dir, cursor, reading, chip, busy, faults>>
        /\ (Underway => lates' = lates + 1) /\ (~Underway => lates' = lates)
    BY <1>9 DEF CompareEnds, Late
  <2>2. Failures' = Failures /\ Spent' \in Nat /\ Spent >= Failures
    BY <1>1, <2>1 DEF Failures, Spent, AttemptInv, Accounted
  <2>3. AttemptTypes' /\ Counted'
    BY <1>1, <2>1 DEF AttemptInv, AttemptTypes, Counted
  <2>4. CASE Underway
    <3>1. Spent' >= Failures' + 2
      BY <1>1, <2>1, <2>2, <2>4 DEF Spent
    <3> QED
      BY <1>1, <2>1, <2>2, <2>3, <3>1 DEF AttemptInv, Accounted, Smooth
  <2>5. CASE ~Underway
    <3>1. Spent' = Spent /\ ~Underway'
      BY <2>1, <2>5 DEF Spent, Underway
    <3>2. Accounted'
      BY <2>2, <3>1 DEF Accounted
    <3>3. Smooth'
      BY <2>1, <2>2, <2>5, <3>1 DEF AttemptInv, Smooth, Begins, Between, Writing, WrittenAll, Verifying, Matches,
         Underway, AttemptTypes, TypeInv
    <3> QED
      BY <2>3, <3>2, <3>3 DEF AttemptInv
  <2> QED
    BY <2>1, <2>4, <2>5
<1>10. CASE CompareResult
  <2>1. step = "compareEnd" /\ UNCHANGED <<tries, addr, state, reading, faults, lates>>
        /\ IF state = "halted" THEN step' = "idle" /\ result' = "sent" ELSE TryFailed
    BY <1>10 DEF CompareResult
  <2>2. AttemptTypes' /\ Spent' = Spent /\ Underway' = Underway
    BY <1>1, <2>1 DEF AttemptTypes, Spent, Underway
  <2>3. CASE state = "halted"
    BY <2>1, <2>2, <2>3 DEF AttemptInv, Counted, Accounted, Smooth
  <2>4. CASE state # "halted"
    <3>1. Spent # Failures /\ Spent >= Failures /\ (Underway => Spent >= Failures + 2)
      BY <2>1, <2>4 DEF AttemptInv, Accounted, Smooth, Verifying
    <3>2. Spent' >= Failures + 1
      BY <1>1, <2>2, <3>1
    <3> QED
      BY <2>1, <2>2, <2>4, <3>1, <3>2, FailureKeeps
  <2> QED
    BY <2>3, <2>4
<1> QED
  BY <1>2, <1>3, <1>4, <1>5, <1>6, <1>7, <1>8, <1>9, <1>10 DEF MainStep

\* Whatever is refused, disturbed or late, and however an interrupted transfer reaches
\* into the next attempt, send() gives up only for as many disturbances and late
\* transfers as it has attempts: an attempt that nothing happens to succeeds
\* (Sam_i2c_eeprom_master::send(), write_next_page(), read_back_and_compare__()).
THEOREM FailuresHaveReasons == Spec => []GivesUpForAReason
<1>1. Init => SendInv /\ AttemptInv
  BY InitSend, AttemptInitial
<1>2. SendInv /\ AttemptInv /\ [Next]_vars => SendInv' /\ AttemptInv'
  <2> SUFFICES ASSUME SendInv, AttemptInv, [Next]_vars PROVE AttemptInv' /\ SendInv'
    OBVIOUS
  <2>1. SendInv' /\ TypeInv'
    BY StepSend DEF SendInv
  <2>2. ASSUME UNCHANGED vars PROVE AttemptInv'
    BY <2>2 DEF vars, main, shared, chipVars, hist, AttemptInv, AttemptTypes, TypeInv, Counted, Accounted, Smooth,
       Begins, Between, Writing, WrittenAll, Verifying, Spent, Failures, Underway, OnPage, Matches
  <2> QED
    BY <2>1, <2>2, MainKeeps, IrqKeeps DEF Next
<1>3. AttemptInv => GivesUpForAReason
  BY DEF AttemptInv, Counted, GivesUpForAReason, Spent
<1> QED
  BY <1>1, <1>2, <1>3, PTL DEF Spec
=============================================================================
