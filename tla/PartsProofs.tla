----------------------------- MODULE PartsProofs -----------------------------
(***************************************************************************)
(* Proofs about parts that share no state with others: the process lock,   *)
(* the data bus of the driver, the settings documents, the settings        *)
(* protocol of the firmware, the resampler and the data of the HAT atoms,  *)
(* each for any values of its constants.                                   *)
(***************************************************************************)
EXTENDS PidFile, DataBus, Documents, Settings, Resampler, Atoms, SequenceTheorems, WellFoundedInduction, TLAPS

-----------------------------------------------------------------------------
(*****************************************************************************)
(* PidFile: the process lock.                                                *)
(*****************************************************************************)
PidTypes ==
  /\ pidName \in PidFiles \cup {NoPidFile}
  /\ pidFd \in [Procs -> PidFiles \cup {NoPidFile}]
  /\ pidLock \in [PidFiles -> SUBSET Procs]
  /\ pidAt \in [Procs -> {"out", "opened", "locked", "in", "in cleanup", "closed"}]
  /\ pidStolen \in BOOLEAN

\* A process has the file open exactly between open() and close(), and what it
\* owns is locked by it alone.
DescriptorsFit ==
  \A p \in Procs :
    /\ pidAt[p] \in {"out", "closed"} <=> pidFd[p] = NoPidFile
    /\ Owns(p) => pidLock[pidFd[p]] = {p}

\* Before a late unlink, whoever has a file open has the file of that name.
OpenIsNamed ==
  ~pidStolen => \A p \in Procs : pidFd[p] # NoPidFile => pidFd[p] = pidName

PidInv == PidTypes /\ DescriptorsFit /\ OpenIsNamed

LEMMA NoPidFileIsNone == NoPidFile \notin PidFiles
<1> DEFINE top == Cardinality(Procs) + 1
<1>1. \A f \in 1 .. top : f # 0
  OBVIOUS
<1> QED BY <1>1 DEF PidFiles, NoPidFile

LEMMA PidInitial == PidInit => PidInv
<1> USE NoPidFileIsNone
<1> QED BY DEF PidInit, PidInv, PidTypes, DescriptorsFit, OpenIsNamed, Owns

LEMMA PidStep == PidInv /\ [PidNext]_pidVars => PidInv'
<1> SUFFICES ASSUME PidInv, [PidNext]_pidVars PROVE PidInv'
  OBVIOUS
<1> USE NoPidFileIsNone DEF PidInv, PidTypes, DescriptorsFit, OpenIsNamed, Owns
<1>1. CASE UNCHANGED pidVars
  BY <1>1 DEF pidVars
<1>2. ASSUME NEW p \in Procs, PidOpen(p) PROVE PidInv'
  BY <1>2 DEF PidOpen, PidGoto, Used
<1>3. ASSUME NEW p \in Procs, PidFlock(p) PROVE PidInv'
  BY <1>3 DEF PidFlock, PidGoto
<1>4. ASSUME NEW p \in Procs, PidRefused(p) PROVE PidInv'
  BY <1>4 DEF PidRefused, PidGoto, Closed
<1>5. ASSUME NEW p \in Procs, PidWrite(p) PROVE PidInv'
  BY <1>5 DEF PidWrite, PidGoto
<1>6. ASSUME NEW p \in Procs, PidClose(p) PROVE PidInv'
  BY <1>6 DEF PidClose, PidGoto, Closed
<1>7. ASSUME NEW p \in Procs, PidUnlink(p) PROVE PidInv'
  BY <1>7 DEF PidUnlink, PidGoto
<1>8. ASSUME NEW p \in Procs, PidCrash(p) PROVE PidInv'
  BY <1>8 DEF PidCrash, PidGoto, Closed
<1> QED BY <1>1, <1>2, <1>3, <1>4, <1>5, <1>6, <1>7, <1>8 DEF PidNext

LEMMA PidInvSuffices == PidInv => PidExclusive
<1> SUFFICES ASSUME PidInv, ~pidStolen, NEW p \in Procs, Owns(p)
             PROVE  /\ pidName = pidFd[p]
                    /\ \A q \in Procs \ {p} : ~Owns(q)
  BY DEF PidExclusive
<1>1. \A q \in Procs : Owns(q) => pidFd[q] = pidName /\ pidLock[pidName] = {q}
  BY DEF PidInv, DescriptorsFit, OpenIsNamed, Owns
<1>2. pidName = pidFd[p] /\ pidLock[pidName] = {p}
  BY <1>1
<1>3. ASSUME NEW q \in Procs \ {p}, Owns(q) PROVE FALSE
  <2>1. pidLock[pidName] = {q}
    BY <1>1, <1>3
  <2> QED BY <2>1, <1>2
<1> QED BY <1>2, <1>3

\* One owner at a time, whoever crashes or is refused at whatever step, until a
\* late unlink removes the name of another process's file.
THEOREM OneOwner == PidSpec => []PidExclusive
<1>1. PidInit => PidInv
  BY PidInitial
<1>2. PidInv /\ [PidNext]_pidVars => PidInv'
  BY PidStep
<1>3. PidInv => PidExclusive
  BY PidInvSuffices
<1> QED BY <1>1, <1>2, <1>3, PTL DEF PidSpec

-----------------------------------------------------------------------------
(*****************************************************************************)
(* DataBus: Gpio_data::read_data() of the driver.                            *)
(*****************************************************************************)
Bits == {0, 1}

LEMMA PinsOf ==
  /\ Position[0] = 24 /\ Position[1] = 25 /\ Position[2] = 7 /\ Position[3] = 5
  /\ Position[4] = 6 /\ Position[5] = 12 /\ Position[6] = 13 /\ Position[7] = 16
  /\ Shift[0] = 17 /\ Shift[1] = 19 /\ Shift[2] = 2 /\ Shift[3] = 1
  /\ Shift[4] = 3 /\ Shift[5] = 10 /\ Shift[6] = 12 /\ Shift[7] = 16
BY DEF Position, Shift, Lines

\* No two lines share a pin.
LEMMA PinsApart ==
  ASSUME NEW l \in Lines, NEW k \in Lines, Position[l] = Position[k]
  PROVE  l = k
BY PinsOf DEF Lines

\* The bits from n on.
From(w, n) == w \div 2^n

LEMMA Halves ==
  ASSUME NEW w \in Nat, NEW n \in 0 .. 15
  PROVE  /\ From(w, n) \in Nat /\ From(w, n + 1) = From(w, n) \div 2
         /\ Bit(w, n) = From(w, n) % 2 /\ Bit(w, n) \in Bits
<1>0. SUFFICES From(w, n) \in Nat /\ From(w, n + 1) = From(w, n) \div 2
  BY DEF Bit, From, Bits
<1>1. n = 0 \/ n = 1 \/ n = 2 \/ n = 3 \/ n = 4 \/ n = 5 \/ n = 6 \/ n = 7 \/ n = 8
        \/ n = 9 \/ n = 10 \/ n = 11 \/ n = 12 \/ n = 13 \/ n = 14 \/ n = 15
  OBVIOUS
<1>2. CASE n = 0
  <2>1. 2^0 = 1 /\ 2^1 = 2 /\ 0 + 1 = 1
    OBVIOUS
  <2>2. w \div 1 \in Nat /\ w \div 2 = (w \div 1) \div 2
    OBVIOUS
  <2>3. From(w, 0) = w \div 1 /\ From(w, 0 + 1) = w \div 2
    BY <2>1 DEF From
  <2> QED BY <1>2, <2>2, <2>3
<1>3. CASE n = 1
  <2>1. 2^1 = 2 /\ 2^2 = 4 /\ 1 + 1 = 2
    OBVIOUS
  <2>2. w \div 2 \in Nat /\ w \div 4 = (w \div 2) \div 2
    OBVIOUS
  <2>3. From(w, 1) = w \div 2 /\ From(w, 1 + 1) = w \div 4
    BY <2>1 DEF From
  <2> QED BY <1>3, <2>2, <2>3
<1>4. CASE n = 2
  <2>1. 2^2 = 4 /\ 2^3 = 8 /\ 2 + 1 = 3
    OBVIOUS
  <2>2. w \div 4 \in Nat /\ w \div 8 = (w \div 4) \div 2
    OBVIOUS
  <2>3. From(w, 2) = w \div 4 /\ From(w, 2 + 1) = w \div 8
    BY <2>1 DEF From
  <2> QED BY <1>4, <2>2, <2>3
<1>5. CASE n = 3
  <2>1. 2^3 = 8 /\ 2^4 = 16 /\ 3 + 1 = 4
    OBVIOUS
  <2>2. w \div 8 \in Nat /\ w \div 16 = (w \div 8) \div 2
    OBVIOUS
  <2>3. From(w, 3) = w \div 8 /\ From(w, 3 + 1) = w \div 16
    BY <2>1 DEF From
  <2> QED BY <1>5, <2>2, <2>3
<1>6. CASE n = 4
  <2>1. 2^4 = 16 /\ 2^5 = 32 /\ 4 + 1 = 5
    OBVIOUS
  <2>2. w \div 16 \in Nat /\ w \div 32 = (w \div 16) \div 2
    OBVIOUS
  <2>3. From(w, 4) = w \div 16 /\ From(w, 4 + 1) = w \div 32
    BY <2>1 DEF From
  <2> QED BY <1>6, <2>2, <2>3
<1>7. CASE n = 5
  <2>1. 2^5 = 32 /\ 2^6 = 64 /\ 5 + 1 = 6
    OBVIOUS
  <2>2. w \div 32 \in Nat /\ w \div 64 = (w \div 32) \div 2
    OBVIOUS
  <2>3. From(w, 5) = w \div 32 /\ From(w, 5 + 1) = w \div 64
    BY <2>1 DEF From
  <2> QED BY <1>7, <2>2, <2>3
<1>8. CASE n = 6
  <2>1. 2^6 = 64 /\ 2^7 = 128 /\ 6 + 1 = 7
    OBVIOUS
  <2>2. w \div 64 \in Nat /\ w \div 128 = (w \div 64) \div 2
    OBVIOUS
  <2>3. From(w, 6) = w \div 64 /\ From(w, 6 + 1) = w \div 128
    BY <2>1 DEF From
  <2> QED BY <1>8, <2>2, <2>3
<1>9. CASE n = 7
  <2>1. 2^7 = 128 /\ 2^8 = 256 /\ 7 + 1 = 8
    OBVIOUS
  <2>2. w \div 128 \in Nat /\ w \div 256 = (w \div 128) \div 2
    OBVIOUS
  <2>3. From(w, 7) = w \div 128 /\ From(w, 7 + 1) = w \div 256
    BY <2>1 DEF From
  <2> QED BY <1>9, <2>2, <2>3
<1>10. CASE n = 8
  <2>1. 2^8 = 256 /\ 2^9 = 512 /\ 8 + 1 = 9
    OBVIOUS
  <2>2. w \div 256 \in Nat /\ w \div 512 = (w \div 256) \div 2
    OBVIOUS
  <2>3. From(w, 8) = w \div 256 /\ From(w, 8 + 1) = w \div 512
    BY <2>1 DEF From
  <2> QED BY <1>10, <2>2, <2>3
<1>11. CASE n = 9
  <2>1. 2^9 = 512 /\ 2^10 = 1024 /\ 9 + 1 = 10
    OBVIOUS
  <2>2. w \div 512 \in Nat /\ w \div 1024 = (w \div 512) \div 2
    OBVIOUS
  <2>3. From(w, 9) = w \div 512 /\ From(w, 9 + 1) = w \div 1024
    BY <2>1 DEF From
  <2> QED BY <1>11, <2>2, <2>3
<1>12. CASE n = 10
  <2>1. 2^10 = 1024 /\ 2^11 = 2048 /\ 10 + 1 = 11
    OBVIOUS
  <2>2. w \div 1024 \in Nat /\ w \div 2048 = (w \div 1024) \div 2
    OBVIOUS
  <2>3. From(w, 10) = w \div 1024 /\ From(w, 10 + 1) = w \div 2048
    BY <2>1 DEF From
  <2> QED BY <1>12, <2>2, <2>3
<1>13. CASE n = 11
  <2>1. 2^11 = 2048 /\ 2^12 = 4096 /\ 11 + 1 = 12
    OBVIOUS
  <2>2. w \div 2048 \in Nat /\ w \div 4096 = (w \div 2048) \div 2
    OBVIOUS
  <2>3. From(w, 11) = w \div 2048 /\ From(w, 11 + 1) = w \div 4096
    BY <2>1 DEF From
  <2> QED BY <1>13, <2>2, <2>3
<1>14. CASE n = 12
  <2>1. 2^12 = 4096 /\ 2^13 = 8192 /\ 12 + 1 = 13
    OBVIOUS
  <2>2. w \div 4096 \in Nat /\ w \div 8192 = (w \div 4096) \div 2
    OBVIOUS
  <2>3. From(w, 12) = w \div 4096 /\ From(w, 12 + 1) = w \div 8192
    BY <2>1 DEF From
  <2> QED BY <1>14, <2>2, <2>3
<1>15. CASE n = 13
  <2>1. 2^13 = 8192 /\ 2^14 = 16384 /\ 13 + 1 = 14
    OBVIOUS
  <2>2. w \div 8192 \in Nat /\ w \div 16384 = (w \div 8192) \div 2
    OBVIOUS
  <2>3. From(w, 13) = w \div 8192 /\ From(w, 13 + 1) = w \div 16384
    BY <2>1 DEF From
  <2> QED BY <1>15, <2>2, <2>3
<1>16. CASE n = 14
  <2>1. 2^14 = 16384 /\ 2^15 = 32768 /\ 14 + 1 = 15
    OBVIOUS
  <2>2. w \div 16384 \in Nat /\ w \div 32768 = (w \div 16384) \div 2
    OBVIOUS
  <2>3. From(w, 14) = w \div 16384 /\ From(w, 14 + 1) = w \div 32768
    BY <2>1 DEF From
  <2> QED BY <1>16, <2>2, <2>3
<1>17. CASE n = 15
  <2>1. 2^15 = 32768 /\ 2^16 = 65536 /\ 15 + 1 = 16
    OBVIOUS
  <2>2. w \div 32768 \in Nat /\ w \div 65536 = (w \div 32768) \div 2
    OBVIOUS
  <2>3. From(w, 15) = w \div 32768 /\ From(w, 15 + 1) = w \div 65536
    BY <2>1 DEF From
  <2> QED BY <1>17, <2>2, <2>3
<1> QED BY <1>1, <1>2, <1>3, <1>4, <1>5, <1>6, <1>7, <1>8, <1>9, <1>10, <1>11, <1>12, <1>13, <1>14, <1>15, <1>16, <1>17

LEMMA LevelOf ==
  ASSUME NEW set, NEW i, NEW l \in Lines
  PROVE  Levels(set, i)[Position[l]] =
           IF l < 4 THEN Bit(set[l + 1], 14 - 2 * i) ELSE Bit(set[l - 3], 15 - 2 * i)
<1> DEFINE bit(k) == IF k < 4 THEN Bit(set[k + 1], 14 - 2 * i) ELSE Bit(set[k - 3], 15 - 2 * i)
           k == CHOOSE k \in Lines : Position[k] = Position[l]
<1>1. k \in Lines /\ Position[k] = Position[l]
  OBVIOUS
<1>2. k = l
  BY <1>1, PinsApart
<1>3. Levels(set, i)[Position[l]] = bit(k)
  BY DEF Levels
<1> QED BY <1>2, <1>3

LEMMA ByteIs ==
  ASSUME NEW levels,
         \A l \in Lines : levels[Position[l]] \in Bits
  PROVE  ByteOf(levels) =
           128 * levels[Position[0]] + 64 * levels[Position[1]] + 32 * levels[Position[2]]
             + 16 * levels[Position[3]] + 8 * levels[Position[4]] + 4 * levels[Position[5]]
             + 2 * levels[Position[6]] + levels[Position[7]]
<1>1. /\ 2^(24 - 17) = 128 /\ 2^(25 - 19) = 64 /\ 2^(7 - 2) = 32 /\ 2^(5 - 1) = 16
      /\ 2^(6 - 3) = 8 /\ 2^(12 - 10) = 4 /\ 2^(13 - 12) = 2 /\ 2^(16 - 16) = 1
  <2>1. /\ 24 - 17 = 7 /\ 25 - 19 = 6 /\ 7 - 2 = 5 /\ 5 - 1 = 4
        /\ 6 - 3 = 3 /\ 12 - 10 = 2 /\ 13 - 12 = 1 /\ 16 - 16 = 0
    OBVIOUS
  <2>2. 2^7 = 128 /\ 2^6 = 64 /\ 2^5 = 32 /\ 2^4 = 16 /\ 2^3 = 8 /\ 2^2 = 4 /\ 2^1 = 2 /\ 2^0 = 1
    OBVIOUS
  <2> QED BY <2>1, <2>2
<1>2. \A l \in Lines : levels[Position[l]] \in Int
  BY DEF Bits
<1>3. 0 \in Lines /\ 1 \in Lines /\ 2 \in Lines /\ 3 \in Lines /\ 4 \in Lines /\ 5 \in Lines
        /\ 6 \in Lines /\ 7 \in Lines
  BY DEF Lines
<1>4. Moved(levels, 0) = 128 * levels[Position[0]] /\ Moved(levels, 0) \in Int
  BY <1>1, <1>2, <1>3, PinsOf DEF Moved
<1>5. Moved(levels, 1) = 64 * levels[Position[1]] /\ Moved(levels, 1) \in Int
  BY <1>1, <1>2, <1>3, PinsOf DEF Moved
<1>6. Moved(levels, 2) = 32 * levels[Position[2]] /\ Moved(levels, 2) \in Int
  BY <1>1, <1>2, <1>3, PinsOf DEF Moved
<1>7. Moved(levels, 3) = 16 * levels[Position[3]] /\ Moved(levels, 3) \in Int
  BY <1>1, <1>2, <1>3, PinsOf DEF Moved
<1>8. Moved(levels, 4) = 8 * levels[Position[4]] /\ Moved(levels, 4) \in Int
  BY <1>1, <1>2, <1>3, PinsOf DEF Moved
<1>9. Moved(levels, 5) = 4 * levels[Position[5]] /\ Moved(levels, 5) \in Int
  BY <1>1, <1>2, <1>3, PinsOf DEF Moved
<1>10. Moved(levels, 6) = 2 * levels[Position[6]] /\ Moved(levels, 6) \in Int
  BY <1>1, <1>2, <1>3, PinsOf DEF Moved
<1>11. Moved(levels, 7) = 1 * levels[Position[7]] /\ Moved(levels, 7) \in Int
  BY <1>1, <1>2, <1>3, PinsOf DEF Moved
<1> QED BY <1>2, <1>3, <1>4, <1>5, <1>6, <1>7, <1>8, <1>9, <1>10, <1>11 DEF ByteOf

ByteWith(b) ==
  128 * b[0] + 64 * b[1] + 32 * b[2] + 16 * b[3] + 8 * b[4] + 4 * b[5] + 2 * b[6] + b[7]

LEMMA BitsOfByte ==
  ASSUME NEW b \in [Lines -> Bits]
  PROVE  \A l \in Lines : Bit(ByteWith(b), 7 - l) = b[l]
<1> DEFINE byte == ByteWith(b)
           b0 == b[0]   b1 == b[1]   b2 == b[2]   b3 == b[3]
           b4 == b[4]   b5 == b[5]   b6 == b[6]   b7 == b[7]
<1>12. /\ b0 \in Bits /\ b1 \in Bits /\ b2 \in Bits /\ b3 \in Bits
       /\ b4 \in Bits /\ b5 \in Bits /\ b6 \in Bits /\ b7 \in Bits
  BY DEF Lines
<1>13. byte = 128 * b0 + 64 * b1 + 32 * b2 + 16 * b3 + 8 * b4 + 4 * b5 + 2 * b6 + b7
  BY DEF ByteWith
<1> HIDE DEF byte, b0, b1, b2, b3, b4, b5, b6, b7
<1>1. byte \in Nat
  BY <1>12, <1>13 DEF Bits
<1>2. From(byte, 0) = byte
  <2>1. 2^0 = 1
    OBVIOUS
  <2> QED BY <2>1, <1>1 DEF From
<1>3. \A n \in 0 .. 7 : From(byte, n + 1) = From(byte, n) \div 2 /\ Bit(byte, n) = From(byte, n) % 2
  <2> SUFFICES ASSUME NEW n \in 0 .. 7
               PROVE  From(byte, n + 1) = From(byte, n) \div 2 /\ Bit(byte, n) = From(byte, n) % 2
    OBVIOUS
  <2>1. n \in 0 .. 15
    OBVIOUS
  <2> QED BY <1>1, <2>1, Halves
<1>4. From(byte, 0) = 128 * b0 + 64 * b1 + 32 * b2 + 16 * b3 + 8 * b4 + 4 * b5 + 2 * b6 + b7 /\ Bit(byte, 0) = b7
  <2>1. From(byte, 0) = 128 * b0 + 64 * b1 + 32 * b2 + 16 * b3 + 8 * b4 + 4 * b5 + 2 * b6 + b7
    BY <1>2, <1>13
  <2>2. Bit(byte, 0) = From(byte, 0) % 2
    BY <1>3
  <2>3. (128 * b0 + 64 * b1 + 32 * b2 + 16 * b3 + 8 * b4 + 4 * b5 + 2 * b6 + b7) % 2 = b7
    BY <1>12 DEF Bits
  <2> QED BY <2>1, <2>2, <2>3
<1>5. From(byte, 1) = 64 * b0 + 32 * b1 + 16 * b2 + 8 * b3 + 4 * b4 + 2 * b5 + b6 /\ Bit(byte, 1) = b6
  <2>1. From(byte, 1) = 64 * b0 + 32 * b1 + 16 * b2 + 8 * b3 + 4 * b4 + 2 * b5 + b6
    <3>1. From(byte, 1) = From(byte, 0) \div 2
      BY <1>3, 0 + 1 = 1
    <3>2. (128 * b0 + 64 * b1 + 32 * b2 + 16 * b3 + 8 * b4 + 4 * b5 + 2 * b6 + b7) \div 2 = 64 * b0 + 32 * b1 + 16 * b2 + 8 * b3 + 4 * b4 + 2 * b5 + b6
      BY <1>12 DEF Bits
    <3> QED BY <3>1, <3>2, <1>4
  <2>2. Bit(byte, 1) = From(byte, 1) % 2
    BY <1>3
  <2>3. (64 * b0 + 32 * b1 + 16 * b2 + 8 * b3 + 4 * b4 + 2 * b5 + b6) % 2 = b6
    BY <1>12 DEF Bits
  <2> QED BY <2>1, <2>2, <2>3
<1>6. From(byte, 2) = 32 * b0 + 16 * b1 + 8 * b2 + 4 * b3 + 2 * b4 + b5 /\ Bit(byte, 2) = b5
  <2>1. From(byte, 2) = 32 * b0 + 16 * b1 + 8 * b2 + 4 * b3 + 2 * b4 + b5
    <3>1. From(byte, 2) = From(byte, 1) \div 2
      BY <1>3, 1 + 1 = 2
    <3>2. (64 * b0 + 32 * b1 + 16 * b2 + 8 * b3 + 4 * b4 + 2 * b5 + b6) \div 2 = 32 * b0 + 16 * b1 + 8 * b2 + 4 * b3 + 2 * b4 + b5
      BY <1>12 DEF Bits
    <3> QED BY <3>1, <3>2, <1>5
  <2>2. Bit(byte, 2) = From(byte, 2) % 2
    BY <1>3
  <2>3. (32 * b0 + 16 * b1 + 8 * b2 + 4 * b3 + 2 * b4 + b5) % 2 = b5
    BY <1>12 DEF Bits
  <2> QED BY <2>1, <2>2, <2>3
<1>7. From(byte, 3) = 16 * b0 + 8 * b1 + 4 * b2 + 2 * b3 + b4 /\ Bit(byte, 3) = b4
  <2>1. From(byte, 3) = 16 * b0 + 8 * b1 + 4 * b2 + 2 * b3 + b4
    <3>1. From(byte, 3) = From(byte, 2) \div 2
      BY <1>3, 2 + 1 = 3
    <3>2. (32 * b0 + 16 * b1 + 8 * b2 + 4 * b3 + 2 * b4 + b5) \div 2 = 16 * b0 + 8 * b1 + 4 * b2 + 2 * b3 + b4
      BY <1>12 DEF Bits
    <3> QED BY <3>1, <3>2, <1>6
  <2>2. Bit(byte, 3) = From(byte, 3) % 2
    BY <1>3
  <2>3. (16 * b0 + 8 * b1 + 4 * b2 + 2 * b3 + b4) % 2 = b4
    BY <1>12 DEF Bits
  <2> QED BY <2>1, <2>2, <2>3
<1>8. From(byte, 4) = 8 * b0 + 4 * b1 + 2 * b2 + b3 /\ Bit(byte, 4) = b3
  <2>1. From(byte, 4) = 8 * b0 + 4 * b1 + 2 * b2 + b3
    <3>1. From(byte, 4) = From(byte, 3) \div 2
      BY <1>3, 3 + 1 = 4
    <3>2. (16 * b0 + 8 * b1 + 4 * b2 + 2 * b3 + b4) \div 2 = 8 * b0 + 4 * b1 + 2 * b2 + b3
      BY <1>12 DEF Bits
    <3> QED BY <3>1, <3>2, <1>7
  <2>2. Bit(byte, 4) = From(byte, 4) % 2
    BY <1>3
  <2>3. (8 * b0 + 4 * b1 + 2 * b2 + b3) % 2 = b3
    BY <1>12 DEF Bits
  <2> QED BY <2>1, <2>2, <2>3
<1>9. From(byte, 5) = 4 * b0 + 2 * b1 + b2 /\ Bit(byte, 5) = b2
  <2>1. From(byte, 5) = 4 * b0 + 2 * b1 + b2
    <3>1. From(byte, 5) = From(byte, 4) \div 2
      BY <1>3, 4 + 1 = 5
    <3>2. (8 * b0 + 4 * b1 + 2 * b2 + b3) \div 2 = 4 * b0 + 2 * b1 + b2
      BY <1>12 DEF Bits
    <3> QED BY <3>1, <3>2, <1>8
  <2>2. Bit(byte, 5) = From(byte, 5) % 2
    BY <1>3
  <2>3. (4 * b0 + 2 * b1 + b2) % 2 = b2
    BY <1>12 DEF Bits
  <2> QED BY <2>1, <2>2, <2>3
<1>10. From(byte, 6) = 2 * b0 + b1 /\ Bit(byte, 6) = b1
  <2>1. From(byte, 6) = 2 * b0 + b1
    <3>1. From(byte, 6) = From(byte, 5) \div 2
      BY <1>3, 5 + 1 = 6
    <3>2. (4 * b0 + 2 * b1 + b2) \div 2 = 2 * b0 + b1
      BY <1>12 DEF Bits
    <3> QED BY <3>1, <3>2, <1>9
  <2>2. Bit(byte, 6) = From(byte, 6) % 2
    BY <1>3
  <2>3. (2 * b0 + b1) % 2 = b1
    BY <1>12 DEF Bits
  <2> QED BY <2>1, <2>2, <2>3
<1>11. From(byte, 7) = b0 /\ Bit(byte, 7) = b0
  <2>1. From(byte, 7) = b0
    <3>1. From(byte, 7) = From(byte, 6) \div 2
      BY <1>3, 6 + 1 = 7
    <3>2. (2 * b0 + b1) \div 2 = b0
      BY <1>12 DEF Bits
    <3> QED BY <3>1, <3>2, <1>10
  <2>2. Bit(byte, 7) = From(byte, 7) % 2
    BY <1>3
  <2>3. (b0) % 2 = b0
    BY <1>12 DEF Bits
  <2> QED BY <2>1, <2>2, <2>3
<1>14. ASSUME NEW l \in Lines PROVE Bit(byte, 7 - l) = b[l]
  <2>1. l = 0 \/ l = 1 \/ l = 2 \/ l = 3 \/ l = 4 \/ l = 5 \/ l = 6 \/ l = 7
    BY DEF Lines
  <2>2. CASE l = 0
    BY <2>2, <1>11, 7 - 0 = 7 DEF b0
  <2>3. CASE l = 1
    BY <2>3, <1>10, 7 - 1 = 6 DEF b1
  <2>4. CASE l = 2
    BY <2>4, <1>9, 7 - 2 = 5 DEF b2
  <2>5. CASE l = 3
    BY <2>5, <1>8, 7 - 3 = 4 DEF b3
  <2>6. CASE l = 4
    BY <2>6, <1>7, 7 - 4 = 3 DEF b4
  <2>7. CASE l = 5
    BY <2>7, <1>6, 7 - 5 = 2 DEF b5
  <2>8. CASE l = 6
    BY <2>8, <1>5, 7 - 6 = 1 DEF b6
  <2>9. CASE l = 7
    BY <2>9, <1>4, 7 - 7 = 0 DEF b7
  <2> QED BY <2>1, <2>2, <2>3, <2>4, <2>5, <2>6, <2>7, <2>8, <2>9
<1> QED BY <1>14 DEF byte

LEMMA BitsOfSet ==
  ASSUME NEW set \in [BusChannels -> Samples], NEW i \in 0 .. 7, NEW c \in BusChannels
  PROVE  /\ Bit(ByteOf(Levels(set, i)), 4 - c) = Bit(set[c], 15 - 2 * i)
         /\ Bit(ByteOf(Levels(set, i)), 8 - c) = Bit(set[c], 14 - 2 * i)
<1> DEFINE levels == Levels(set, i)
<1>1. \A d \in BusChannels : set[d] \in Nat
  BY DEF Samples
<1>2. \A d \in BusChannels : Bit(set[d], 15 - 2 * i) \in Bits /\ Bit(set[d], 14 - 2 * i) \in Bits
  <2>1. 15 - 2 * i \in 0 .. 15 /\ 14 - 2 * i \in 0 .. 15
    OBVIOUS
  <2> QED BY <1>1, <2>1, Halves
<1>3. \A l \in Lines : levels[Position[l]] =
        IF l < 4 THEN Bit(set[l + 1], 14 - 2 * i) ELSE Bit(set[l - 3], 15 - 2 * i)
  BY LevelOf
<1>4. \A l \in Lines : levels[Position[l]] \in Bits
  <2> TAKE l \in Lines
  <2>1. CASE l < 4
    <3>1. l + 1 \in BusChannels
      BY <2>1 DEF Lines, BusChannels
    <3> QED BY <3>1, <2>1, <1>2, <1>3
  <2>2. CASE ~(l < 4)
    <3>1. l - 3 \in BusChannels
      BY <2>2 DEF Lines, BusChannels
    <3> QED BY <3>1, <2>2, <1>2, <1>3
  <2> QED BY <2>1, <2>2
<1> DEFINE byte == ByteOf(levels)
<1> DEFINE b == [l \in Lines |-> levels[Position[l]]]
<1>5. byte = ByteWith(b) /\ b \in [Lines -> Bits]
  <2>1. 0 \in Lines /\ 1 \in Lines /\ 2 \in Lines /\ 3 \in Lines /\ 4 \in Lines
          /\ 5 \in Lines /\ 6 \in Lines /\ 7 \in Lines
    BY DEF Lines
  <2>2. b[0] = levels[Position[0]] /\ b[1] = levels[Position[1]] /\ b[2] = levels[Position[2]]
          /\ b[3] = levels[Position[3]] /\ b[4] = levels[Position[4]] /\ b[5] = levels[Position[5]]
          /\ b[6] = levels[Position[6]] /\ b[7] = levels[Position[7]]
    BY <2>1
  <2>3. byte = 128 * levels[Position[0]] + 64 * levels[Position[1]] + 32 * levels[Position[2]]
             + 16 * levels[Position[3]] + 8 * levels[Position[4]] + 4 * levels[Position[5]]
             + 2 * levels[Position[6]] + levels[Position[7]]
    BY <1>4, ByteIs
  <2>4. b \in [Lines -> Bits]
    BY <1>4
  <2> QED BY <2>2, <2>3, <2>4 DEF ByteWith
<1> HIDE DEF byte, levels
<1>6. \A l \in Lines : Bit(byte, 7 - l) = levels[Position[l]]
  BY <1>5, BitsOfByte
<1>7. Bit(byte, 4 - c) = levels[Position[c + 3]] /\ Bit(byte, 8 - c) = levels[Position[c - 1]]
  <2>1. c + 3 \in Lines /\ c - 1 \in Lines /\ 7 - (c + 3) = 4 - c /\ 7 - (c - 1) = 8 - c
    BY DEF Lines, BusChannels
  <2> QED BY <2>1, <1>6
<1>8. levels[Position[c + 3]] = Bit(set[c], 15 - 2 * i) /\ levels[Position[c - 1]] = Bit(set[c], 14 - 2 * i)
  <2>1. c + 3 \in Lines /\ c - 1 \in Lines /\ ~(c + 3 < 4) /\ c - 1 < 4 /\ (c + 3) - 3 = c /\ (c - 1) + 1 = c
    BY DEF Lines, BusChannels
  <2> QED BY <2>1, <1>3
<1> QED BY <1>7, <1>8 DEF byte, levels

Above(w, n) == From(w, 16 - 2 * n)

LEMMA TwoBits ==
  ASSUME NEW w \in Nat, NEW e \in 0 .. 14
  PROVE  4 * From(w, e + 2) + (2 * Bit(w, e + 1) + Bit(w, e)) = From(w, e)
<1>1. /\ From(w, e) \in Nat /\ From(w, e + 1) = From(w, e) \div 2 /\ Bit(w, e) = From(w, e) % 2
  <2>1. e \in 0 .. 15
    OBVIOUS
  <2> QED BY <2>1, Halves
<1>2. /\ From(w, e + 1) \in Nat /\ From(w, e + 2) = From(w, e + 1) \div 2
      /\ Bit(w, e + 1) = From(w, e + 1) % 2
  <2>1. e + 1 \in 0 .. 15 /\ (e + 1) + 1 = e + 2
    OBVIOUS
  <2> QED BY <2>1, Halves
<1> QED BY <1>1, <1>2

\* The sample of a channel comes out of the eight bytes as it was.
LEMMA DigitsAre ==
  ASSUME NEW set \in [BusChannels -> Samples], NEW c \in BusChannels, NEW chunk,
         \A n \in 1 .. 8 : chunk[n] = ByteOf(Levels(set, n - 1))
  PROVE  Digits(chunk, c) = set[c]
<1> DEFINE w == set[c]
           add(n) == 2 * Bit(chunk[n], 4 - c) + Bit(chunk[n], 8 - c)
           Loop(d) == d = [n \in 0 .. 8 |-> IF n = 0 THEN 0 ELSE 4 * d[n - 1] + add(n)]
           digits == CHOOSE d : Loop(d)
           after == [n \in 0 .. 8 |-> Above(w, n)]
<1>1. w \in Samples
  OBVIOUS
<1>2. ASSUME NEW n \in 1 .. 8 PROVE Above(w, n) = 4 * Above(w, n - 1) + add(n)
  <2>1. n - 1 \in 0 .. 7 /\ 15 - 2 * (n - 1) = 17 - 2 * n /\ 14 - 2 * (n - 1) = 16 - 2 * n
    OBVIOUS
  <2>2. Bit(chunk[n], 4 - c) = Bit(w, 17 - 2 * n) /\ Bit(chunk[n], 8 - c) = Bit(w, 16 - 2 * n)
    BY <2>1, BitsOfSet
  <2>3. 16 - 2 * n \in 0 .. 14 /\ (16 - 2 * n) + 1 = 17 - 2 * n /\ (16 - 2 * n) + 2 = 16 - 2 * (n - 1)
    OBVIOUS
  <2>4. w \in Nat
    BY <1>1 DEF Samples
  <2> QED BY <2>2, <2>3, <2>4, TwoBits DEF Above
<1>3. Above(w, 0) = 0 /\ Above(w, 8) = w
  <2>1. 2^16 = 65536 /\ 2^0 = 1 /\ 16 - 2 * 0 = 16 /\ 16 - 2 * 8 = 0
    OBVIOUS
  <2>2. w \in Nat /\ w < 65536
    BY <2>1, <1>1 DEF Samples
  <2>3. From(w, 16) = 0 /\ From(w, 0) = w
    BY <2>1, <2>2 DEF From
  <2> QED BY <2>1, <2>3 DEF Above
<1> HIDE DEF add
<1>4. Loop(after)
  <2>1. ASSUME NEW n \in 0 .. 8 PROVE after[n] = IF n = 0 THEN 0 ELSE 4 * after[n - 1] + add(n)
    <3>1. CASE n = 0
      BY <3>1, <1>3
    <3>2. CASE n # 0
      <4>1. n \in 1 .. 8 /\ n - 1 \in 0 .. 8
        BY <3>2
      <4> QED BY <4>1, <3>2, <1>2
    <3> QED BY <3>1, <3>2
  <2> QED BY <2>1
<1>5. Loop(digits)
  BY <1>4
<1>6. Digits(chunk, c) = digits[8]
  BY DEF Digits, add
<1> HIDE DEF digits, after
<1>7. digits[0] = 0 /\ \A n \in 1 .. 8 : digits[n] = 4 * digits[n - 1] + add(n)
  <2>1. \A n \in 0 .. 8 : digits[n] = IF n = 0 THEN 0 ELSE 4 * digits[n - 1] + add(n)
    BY <1>5
  <2> QED BY <2>1
<1> HIDE DEF Loop, w
<1>8. ASSUME NEW n \in 1 .. 8, digits[n - 1] = Above(w, n - 1) PROVE digits[n] = Above(w, n)
  BY <1>2, <1>7, <1>8
<1>9. digits[0] = Above(w, 0)
  BY <1>3, <1>7
<1>10. digits[1] = Above(w, 1)
  BY <1>8, <1>9, 1 - 1 = 0
<1>11. digits[2] = Above(w, 2)
  BY <1>8, <1>10, 2 - 1 = 1
<1>12. digits[3] = Above(w, 3)
  BY <1>8, <1>11, 3 - 1 = 2
<1>13. digits[4] = Above(w, 4)
  BY <1>8, <1>12, 4 - 1 = 3
<1>14. digits[5] = Above(w, 5)
  BY <1>8, <1>13, 5 - 1 = 4
<1>15. digits[6] = Above(w, 6)
  BY <1>8, <1>14, 6 - 1 = 5
<1>16. digits[7] = Above(w, 7)
  BY <1>8, <1>15, 7 - 1 = 6
<1>17. digits[8] = Above(w, 8)
  BY <1>8, <1>16, 8 - 1 = 7
<1> QED BY <1>3, <1>6, <1>17 DEF w

LEMMA RowIs ==
  ASSUME NEW set \in [BusChannels -> Samples], NEW chunk,
         \A n \in 1 .. 8 : chunk[n] = ByteOf(Levels(set, n - 1))
  PROVE  Row(chunk) = set
<1>1. \A c \in BusChannels : Digits(chunk, c) = set[c]
  BY DigitsAre
<1> QED BY <1>1 DEF Row
-----------------------------------------------------------------------------
BusBytes == {ByteOf(Levels(set, i)) : set \in BusSets, i \in 0 .. 7}

BusTypes ==
  /\ busBank \in Seq(BusSets) /\ busSent \in Seq(BusSets) /\ busTable \in Seq(BusSets)
  /\ busChunk \in Seq(BusBytes) /\ busByte \in 0 .. 7 /\ busMore \in BOOLEAN
  /\ busBanks \in Nat /\ busSkip \in Nat
  /\ busAt \in {"waits", "reads", "done"}

\* The number of the set that the bytes of this chunk belong to.
Current ==
  (Len(busSent) - Len(busBank)) + IF Len(busChunk) = 8 THEN 0 ELSE 1

\* What the board has not sent yet is the end of the bank, and the chunk is the
\* beginning of the current set, which is the last one if no more follows.
ChunkFits ==
  busAt = "reads" =>
    /\ Current \in 1 .. Len(busSent)
    /\ \A i \in 1 .. Len(busBank) : busBank[i] = busSent[(Len(busSent) - Len(busBank)) + i]
    /\ Len(busChunk) <= 8 /\ busByte = IF Len(busChunk) = 8 THEN 0 ELSE Len(busChunk)
    /\ \A n \in 1 .. Len(busChunk) : busChunk[n] = ByteOf(Levels(busSent[Current], n - 1))
    /\ Len(busChunk) >= 2 => (busMore <=> Current < Len(busSent))

\* The table has the sets before the current one, or all of them.
TableFits ==
  LET has(n) == Len(busTable) = n /\ \A i \in 1 .. n : busTable[i] = busSent[i]
  IN /\ (busAt = "reads" /\ busSkip = 0) => has(Current - 1)
     /\ busAt = "done" => has(Len(busSent))

BanksCounted ==
  /\ busSkip > 0 => busBanks + busSkip = BusInvalid + IF busAt = "reads" THEN 1 ELSE 0
  /\ (busSkip = 0 /\ busAt # "waits") => busBanks > BusInvalid
  /\ busSkip = 0 => busBanks >= BusInvalid
  /\ busAt = "done" => busSkip = 0

BetweenBanks ==
  busAt # "reads" => busBank = <<>> /\ busByte = 0 /\ busChunk = <<>>

BusInv == BusTypes /\ ChunkFits /\ TableFits /\ BanksCounted /\ BetweenBanks
LEMMA BusInitial ==
  ASSUME BusAssumption, BusInit
  PROVE  BusInv
<1>1. /\ busBank = <<>> /\ busByte = 0 /\ busBanks = 0 /\ busSkip = BusInvalid /\ busChunk = <<>>
      /\ busMore = FALSE /\ busTable = <<>> /\ busSent = <<>> /\ busAt = "waits"
  BY DEF BusInit
<1>2. BusTypes
  <2>1. <<>> \in Seq(BusSets) /\ <<>> \in Seq(BusBytes)
    OBVIOUS
  <2>2. BusInvalid \in Nat
    BY DEF BusAssumption
  <2>3. busMore \in BOOLEAN /\ busAt \in {"waits", "reads", "done"}
    BY Zenon, <1>1
  <2>4. busByte \in 0 .. 7 /\ busBanks \in Nat /\ busSkip \in Nat
    BY <1>1, <2>2
  <2>5. busBank = <<>> /\ busSent = <<>> /\ busTable = <<>> /\ busChunk = <<>>
    BY Zenon, <1>1
  <2> QED BY Zenon, <2>1, <2>3, <2>4, <2>5 DEF BusTypes
<1>3. ChunkFits /\ TableFits /\ BanksCounted /\ BetweenBanks
  BY <1>1, BusAssumption DEF ChunkFits, TableFits, BanksCounted, BetweenBanks, BusAssumption
<1> QED BY <1>2, <1>3 DEF BusInv

LEMMA FillKeeps ==
  ASSUME BusAssumption, BusInv, BusFill
  PROVE  BusInv'
<1>0. PICK n \in BusBankSizes :
        \E bank \in [1 .. n -> BusSets] : busBank' = bank /\ busSent' = bank
  BY DEF BusFill
<1>1. PICK bank \in [1 .. n -> BusSets] : busBank' = bank /\ busSent' = bank
  BY <1>0
<1>2. /\ busAt = "waits" /\ busByte' = 0 /\ busBanks' = busBanks + 1 /\ busAt' = "reads"
      /\ busTable' = <<>> /\ busChunk' = <<>> /\ busSkip' = busSkip /\ busMore' = busMore
  BY DEF BusFill
<1>3. n \in Nat /\ n > 0
  BY DEF BusAssumption
<1>4. bank \in Seq(BusSets) /\ Len(bank) = n
  BY <1>3
<1>5. Len(<<>>) = 0
  OBVIOUS
<1>6. BusTypes'
  <2>1. <<>> \in Seq(BusSets) /\ <<>> \in Seq(BusBytes)
    OBVIOUS
  <2> QED BY <1>1, <1>2, <1>4, <2>1 DEF BusInv, BusTypes
<1>7. Current' = 1
  BY <1>1, <1>2, <1>3, <1>4, <1>5 DEF Current
<1>8. ChunkFits'
  BY <1>1, <1>2, <1>3, <1>4, <1>5, <1>7 DEF ChunkFits
<1>9. TableFits'
  BY <1>2, <1>5, <1>7 DEF TableFits
<1>10. BanksCounted' /\ BetweenBanks'
  BY <1>2, BusAssumption DEF BusInv, BusTypes, BanksCounted, BetweenBanks, BusAssumption
<1> QED BY <1>6, <1>8, <1>9, <1>10 DEF BusInv

LEMMA ClockKeeps ==
  ASSUME BusAssumption, BusInv, BusClock
  PROVE  BusInv'
<1> DEFINE sent == Len(busSent)   left == Len(busBank)   got == Len(busChunk)
           byte == ByteOf(Levels(Head(busBank), busByte))
<1>1. /\ busAt = "reads" /\ got < 8 /\ busChunk' = Append(busChunk, byte)
      /\ busMore' = IF busByte = 1 THEN left > 1 ELSE busMore
      /\ busByte' = (busByte + 1) % 8 /\ busBank' = IF busByte = 7 THEN Tail(busBank) ELSE busBank
      /\ busBanks' = busBanks /\ busSkip' = busSkip /\ busTable' = busTable /\ busSent' = busSent
      /\ busAt' = busAt
  BY DEF BusClock
<1>2. BusTypes /\ sent \in Nat /\ left \in Nat /\ got \in Nat
  BY DEF BusInv, BusTypes
<1>3. /\ Current = (sent - left) + 1 /\ Current \in 1 .. sent /\ busByte = got
      /\ \A i \in 1 .. left : busBank[i] = busSent[(sent - left) + i]
      /\ \A n \in 1 .. got : busChunk[n] = ByteOf(Levels(busSent[Current], n - 1))
      /\ got >= 2 => (busMore <=> Current < sent)
  <2>1. got < 8 /\ got # 8
    <3>1. got < 8 /\ got \in Nat
      BY <1>1, <1>2
    <3> HIDE DEF got
    <3> QED BY <3>1
  <2> QED BY <1>1, <1>2, <2>1 DEF BusInv, ChunkFits, Current
<1>4. left >= 1 /\ Head(busBank) = busSent[Current] /\ Head(busBank) \in BusSets
  <2>1. left >= 1
    BY <1>2, <1>3
  <2>2. busBank \in Seq(BusSets) /\ busBank # <<>> /\ Head(busBank) = busBank[1] /\ busBank[1] \in BusSets
    BY <2>1, <1>2 DEF BusTypes
  <2> QED BY <2>1, <2>2, <1>2, <1>3
<1>5. byte \in BusBytes
  BY <1>2, <1>4 DEF BusTypes, BusBytes
<1>6. /\ busChunk' \in Seq(BusBytes) /\ Len(busChunk') = got + 1
      /\ \A n \in 1 .. got : busChunk'[n] = busChunk[n]
      /\ busChunk'[got + 1] = byte
  <2>1. busChunk \in Seq(BusBytes)
    BY <1>2 DEF BusTypes
  <2> QED BY <1>1, <1>5, <2>1
<1>7. /\ busBank' \in Seq(BusSets)
      /\ Len(busBank') = IF got = 7 THEN left - 1 ELSE left
      /\ \A i \in 1 .. Len(busBank') : busBank'[i] = IF got = 7 THEN busBank[i + 1] ELSE busBank[i]
  <2>1. busBank \in Seq(BusSets)
    BY <1>2 DEF BusTypes
  <2>2. CASE got = 7
    <3>1. busBank' = Tail(busBank) /\ busBank # <<>>
      BY <2>2, <1>1, <1>3, <1>4, <2>1
    <3> QED BY <3>1, <2>1, <2>2
  <2>3. CASE got # 7
    BY <2>3, <1>1, <1>3, <2>1
  <2> QED BY <2>2, <2>3
<1>8. busByte' = IF got = 7 THEN 0 ELSE got + 1
  <2>1. got \in Nat /\ got < 8 /\ busByte' = (got + 1) % 8
    BY <1>1, <1>2, <1>3
  <2> HIDE DEF got
  <2> QED BY <2>1
<1>9. Current' = Current
  <2>1. Current' = (sent - Len(busBank')) + IF Len(busChunk') = 8 THEN 0 ELSE 1
    BY <1>1 DEF Current
  <2>2. Len(busChunk') = got + 1 /\ Len(busBank') = (IF got = 7 THEN left - 1 ELSE left)
    BY <1>6, <1>7
  <2>3. sent \in Nat /\ left \in Nat /\ got \in Nat /\ Current = (sent - left) + 1
    BY <1>2, <1>3
  <2> HIDE DEF sent, left, got
  <2> QED BY <2>1, <2>2, <2>3
<1>10. BusTypes'
  <2>1. busByte' \in 0 .. 7
    <3>1. got \in Nat /\ got < 8
      BY <1>1, <1>2
    <3> HIDE DEF got
    <3> QED BY <1>8, <3>1
  <2>2. busMore' \in BOOLEAN
    <3>1. (left > 1) \in BOOLEAN /\ busMore \in BOOLEAN
      <4>1. (left > 1) \in BOOLEAN
        OBVIOUS
      <4> QED BY Zenon, <4>1, <1>2 DEF BusTypes
    <3>2. busMore' = (left > 1) \/ busMore' = busMore
      BY Zenon, <1>1
    <3> QED BY Zenon, <3>1, <3>2
  <2>3. /\ busBank' \in Seq(BusSets) /\ busChunk' \in Seq(BusBytes) /\ busSent' = busSent
        /\ busTable' = busTable /\ busBanks' = busBanks /\ busSkip' = busSkip /\ busAt' = busAt
    BY <1>1, <1>6, <1>7
  <2> QED BY <1>2, <2>1, <2>2, <2>3 DEF BusTypes
<1>11. ChunkFits'
  <2>1. Current' \in 1 .. Len(busSent')
    BY <1>1, <1>3, <1>9
  <2>2. ASSUME NEW i \in 1 .. Len(busBank')
        PROVE  busBank'[i] = busSent'[(Len(busSent') - Len(busBank')) + i]
    <3>1. Len(busSent') = sent /\ busSent' = busSent
      BY <1>1
    <3> HIDE DEF sent, left, got
    <3>2. CASE got = 7
      <4>1. i + 1 \in 1 .. left /\ (sent - left) + (i + 1) = (sent - (left - 1)) + i
        BY <3>2, <1>2, <1>7
      <4>2. busBank'[i] = busSent[(sent - left) + (i + 1)]
        BY <3>2, <4>1, <1>3, <1>7
      <4> QED BY <3>1, <3>2, <4>1, <4>2, <1>7
    <3>3. CASE got # 7
      BY <3>1, <3>3, <1>3, <1>7
    <3> QED BY <3>2, <3>3
  <2>3. Len(busChunk') <= 8 /\ busByte' = IF Len(busChunk') = 8 THEN 0 ELSE Len(busChunk')
    <3>1. got \in Nat /\ got < 8 /\ Len(busChunk') = got + 1
      BY <1>1, <1>2, <1>6
    <3> HIDE DEF got
    <3> QED BY <1>8, <3>1
  <2>4. ASSUME NEW n \in 1 .. Len(busChunk')
        PROVE  busChunk'[n] = ByteOf(Levels(busSent'[Current'], n - 1))
    <3>1. CASE n = got + 1
      <4>1. n - 1 = busByte
        BY <3>1, <1>2, <1>3
      <4> QED BY <3>1, <4>1, <1>1, <1>4, <1>6, <1>9
    <3>2. CASE n # got + 1
      <4>1. n \in 1 .. got
        BY <3>2, <1>2, <1>6
      <4> QED BY <4>1, <1>1, <1>3, <1>6, <1>9
    <3> QED BY <3>1, <3>2
  <2>5. ASSUME Len(busChunk') >= 2 PROVE busMore' <=> Current' < Len(busSent')
    <3>1. CASE got = 1
      <4>1. busMore' <=> left > 1
        BY <3>1, <1>1, <1>3
      <4>2. left > 1 <=> Current < sent
        BY <1>2, <1>3
      <4> QED BY <4>1, <4>2, <1>1, <1>9
    <3>2. CASE got # 1
      <4>1. got >= 2 /\ busMore' = busMore
        BY <3>2, <2>5, <1>1, <1>2, <1>3, <1>6
      <4> QED BY <4>1, <1>1, <1>3, <1>9
    <3> QED BY <3>1, <3>2
  <2> QED BY <2>1, <2>2, <2>3, <2>4, <2>5 DEF ChunkFits
<1>12. TableFits' /\ BanksCounted' /\ BetweenBanks'
  BY <1>1, <1>9 DEF BusInv, TableFits, BanksCounted, BetweenBanks
<1> QED BY <1>10, <1>11, <1>12 DEF BusInv

\* What a whole chunk is.
WholeChunk ==
  /\ Len(busChunk) = 8 /\ busByte = 0 /\ Current = Len(busSent) - Len(busBank)
  /\ Row(busChunk) = busSent[Current] /\ busSent[Current] \in BusSets
  /\ Current \in 1 .. Len(busSent)
  /\ busMore <=> Current < Len(busSent)
  /\ ~busMore => busBank = <<>>

LEMMA ChunkIsWhole ==
  ASSUME BusAssumption, BusInv, busAt = "reads", Len(busChunk) = 8
  PROVE  WholeChunk
<1>1. BusTypes /\ ChunkFits
  BY DEF BusInv
<1>2. /\ Current \in 1 .. Len(busSent) /\ busByte = 0 /\ (busMore <=> Current < Len(busSent))
      /\ \A n \in 1 .. 8 : busChunk[n] = ByteOf(Levels(busSent[Current], n - 1))
  BY <1>1 DEF ChunkFits
<1>3. Current = Len(busSent) - Len(busBank)
  BY <1>1 DEF Current, BusTypes
<1>4. busSent[Current] \in BusSets
  BY <1>1, <1>2 DEF BusTypes
<1>5. Row(busChunk) = busSent[Current]
  <2>1. busSent[Current] \in [BusChannels -> Samples]
    BY <1>4 DEF BusAssumption
  <2> QED BY <2>1, <1>2, RowIs
<1>6. ~busMore => busBank = <<>>
  <2>1. busBank \in Seq(BusSets) /\ Len(busBank) \in Nat /\ Len(busSent) \in Nat
    BY <1>1 DEF BusTypes
  <2>2. ~busMore => Len(busBank) = 0
    BY <2>1, <1>2, <1>3
  <2> QED BY <2>1, <2>2, EmptySeq
<1> QED BY <1>2, <1>3, <1>4, <1>5, <1>6 DEF WholeChunk

\* When a chunk has been used, the next set of the bank is the current one.
LEMMA ChunkDone ==
  ASSUME BusInv, WholeChunk, busAt = "reads", busMore,
         busChunk' = <<>>, UNCHANGED <<busBank, busByte, busMore, busSent, busAt>>
  PROVE  ChunkFits' /\ Current' = Current + 1
<1>1. BusTypes /\ ChunkFits
  BY DEF BusInv
<1>2. Len(busChunk') = 0
  OBVIOUS
<1>3. Current' = Current + 1 /\ Current' \in 1 .. Len(busSent)
  BY <1>1, <1>2 DEF WholeChunk, Current, BusTypes
<1> QED BY <1>1, <1>2, <1>3 DEF ChunkFits, WholeChunk

LEMMA SkipKeeps ==
  ASSUME BusAssumption, BusInv, SkipChunk
  PROVE  BusInv'
<1>1. /\ busAt = "reads" /\ Len(busChunk) = 8 /\ busSkip > 0 /\ busChunk' = <<>>
      /\ IF busMore THEN busSkip' = busSkip /\ busAt' = busAt
         ELSE busSkip' = busSkip - 1 /\ busAt' = "waits"
      /\ UNCHANGED <<busBank, busByte, busBanks, busMore, busTable, busSent>>
  BY DEF SkipChunk
<1>2. WholeChunk
  BY <1>1, ChunkIsWhole
<1>3. BusTypes'
  <2>1. <<>> \in Seq(BusBytes) /\ busSkip' \in Nat /\ busAt' \in {"waits", "reads", "done"}
    BY <1>1 DEF BusInv, BusTypes
  <2> QED BY <1>1, <2>1 DEF BusInv, BusTypes
<1>4. CASE busMore
  <2>1. busSkip' = busSkip /\ busAt' = busAt
    BY <1>1, <1>4
  <2>2. ChunkFits'
    BY <1>1, <1>2, <1>4, <2>1, ChunkDone
  <2>3. TableFits' /\ BanksCounted' /\ BetweenBanks'
    BY <1>1, <2>1 DEF BusInv, BusTypes, TableFits, BanksCounted, BetweenBanks
  <2> QED BY <1>3, <2>2, <2>3 DEF BusInv
<1>5. CASE ~busMore
  <2>1. busSkip' = busSkip - 1 /\ busAt' = "waits"
    BY <1>1, <1>5
  <2>2. ChunkFits' /\ TableFits' /\ BetweenBanks'
    BY <1>1, <1>2, <1>5, <2>1 DEF WholeChunk, ChunkFits, TableFits, BetweenBanks
  <2>3. BanksCounted'
    BY <1>1, <2>1, BusAssumption DEF BusInv, BusTypes, BanksCounted, BusAssumption
  <2> QED BY <1>3, <2>2, <2>3 DEF BusInv
<1> QED BY <1>4, <1>5

LEMMA AppendKeeps ==
  ASSUME BusAssumption, BusInv, AppendChunk
  PROVE  BusInv'
<1>1. /\ busAt = "reads" /\ Len(busChunk) = 8 /\ busSkip = 0 /\ busChunk' = <<>>
      /\ busTable' = Append(busTable, Row(busChunk))
      /\ busAt' = IF busMore THEN "reads" ELSE "done"
      /\ UNCHANGED <<busBank, busByte, busBanks, busSkip, busMore, busSent>>
  BY DEF AppendChunk
<1>2. WholeChunk
  BY <1>1, ChunkIsWhole
<1>3. /\ busTable' \in Seq(BusSets) /\ Len(busTable') = Current
      /\ \A i \in 1 .. Current : busTable'[i] = busSent[i]
  <2>1. busTable \in Seq(BusSets) /\ busTable' = Append(busTable, busSent[Current])
    BY <1>1, <1>2 DEF WholeChunk, BusInv, BusTypes
  <2>2. Len(busTable) = Current - 1 /\ \A i \in 1 .. Current - 1 : busTable[i] = busSent[i]
    BY <1>1 DEF BusInv, TableFits
  <2>3. Current \in Nat /\ Current >= 1 /\ busSent[Current] \in BusSets
    BY <1>2 DEF WholeChunk
  <2> HIDE DEF Current
  <2> QED BY <2>1, <2>2, <2>3
<1>4. BusTypes'
  <2>1. <<>> \in Seq(BusBytes) /\ busAt' \in {"waits", "reads", "done"}
    BY <1>1
  <2> QED BY <1>1, <1>3, <2>1 DEF BusInv, BusTypes
<1>5. BanksCounted'
  BY <1>1 DEF BusInv, BusTypes, BanksCounted
<1>6. CASE busMore
  <2>1. busAt' = busAt
    BY <1>1, <1>6
  <2>2. ChunkFits' /\ Current' = Current + 1
    BY <1>1, <1>2, <1>6, <2>1, ChunkDone
  <2>3. Current' - 1 = Current
    BY <1>2, <2>2 DEF WholeChunk
  <2>4. TableFits' /\ BetweenBanks'
    BY <1>1, <1>3, <2>1, <2>3 DEF TableFits, BetweenBanks
  <2> QED BY <1>4, <1>5, <2>2, <2>4 DEF BusInv
<1>7. CASE ~busMore
  <2>1. busAt' = "done" /\ Current = Len(busSent)
    BY <1>1, <1>2, <1>7 DEF WholeChunk, BusInv, BusTypes
  <2>2. ChunkFits' /\ TableFits' /\ BetweenBanks'
    BY <1>1, <1>2, <1>3, <1>7, <2>1 DEF WholeChunk, ChunkFits, TableFits, BetweenBanks
  <2> QED BY <1>4, <1>5, <2>2 DEF BusInv
<1> QED BY <1>6, <1>7

LEMMA AgainKeeps ==
  ASSUME BusInv, BusAgain
  PROVE  BusInv'
<1>1. /\ busAt = "done" /\ busAt' = "waits"
      /\ UNCHANGED <<busBank, busByte, busBanks, busSkip, busChunk, busMore, busTable, busSent>>
  BY DEF BusAgain
<1> QED BY <1>1 DEF BusInv, BusTypes, ChunkFits, TableFits, BanksCounted, BetweenBanks

LEMMA BusStep == BusAssumption /\ BusInv /\ [BusNext]_busVars => BusInv'
<1> SUFFICES ASSUME BusAssumption, BusInv, [BusNext]_busVars PROVE BusInv'
  OBVIOUS
<1>1. CASE UNCHANGED busVars
  BY <1>1 DEF busVars, BusInv, BusTypes, ChunkFits, Current, TableFits, BanksCounted, BetweenBanks
<1> QED BY <1>1, FillKeeps, ClockKeeps, SkipKeeps, AppendKeeps, AgainKeeps DEF BusNext

LEMMA BusInvSuffices == BusInv => BanksArriveWhole
<1> SUFFICES ASSUME BusInv PROVE TablesAreBanks /\ StaysInStep
  BY DEF BanksArriveWhole
<1>1. ASSUME busAt = "done" PROVE busTable = busSent /\ busBanks > BusInvalid
  <2>1. /\ busTable \in Seq(BusSets) /\ busSent \in Seq(BusSets) /\ Len(busTable) = Len(busSent)
        /\ \A i \in 1 .. Len(busTable) : busTable[i] = busSent[i]
    BY <1>1 DEF BusInv, BusTypes, TableFits
  <2>2. busTable = busSent
    BY <2>1, SeqEqual
  <2> QED BY <1>1, <2>2 DEF BusInv, BanksCounted
<1>2. StaysInStep
  BY DEF BusInv, BetweenBanks, StaysInStep
<1> QED BY <1>1, <1>2 DEF TablesAreBanks

\* Every call of read_data() returns one whole bank, each sample as the board
\* measured it, and leaves the bus at the beginning of a set, for any samples,
\* any number of invalid banks and banks of any length.
THEOREM BanksRead == BusAssumption => (BusSpec => []BanksArriveWhole)
<1> SUFFICES ASSUME BusAssumption PROVE BusSpec => []BanksArriveWhole
  OBVIOUS
<1>1. BusInit => BusInv
  BY BusInitial
<1>2. BusInv /\ [BusNext]_busVars => BusInv'
  BY BusStep
<1>3. BusInv => BanksArriveWhole
  BY BusInvSuffices
<1> QED BY <1>1, <1>2, <1>3, PTL DEF BusSpec

-----------------------------------------------------------------------------
(*****************************************************************************)
(* Documents: Board_settings and Driver_settings.                            *)
(*****************************************************************************)
Integral == {"int32", "uint32", "int64", "uint64"}

\* What the application may have given.
Known(g) ==
  \/ g[1] \in Integral /\ g[2] \in RangeOf(g[1])
  \/ g[1] = "mode" /\ g[2] \in Modes
  \/ g[1] \in {"bool", "string"}
  \/ g[1] \in {"float", "double"} /\ (g[2] = BeyondFloat => g[1] = "double")
  \/ g = <<"null", 0>>

\* The document is the one of what was given last.
BoardFits ==
  /\ DOMAIN docGiven \subseteq DocNames /\ DOMAIN docBoard = DOMAIN docGiven
  /\ \A n \in DOMAIN docGiven :
       /\ Known(docGiven[n]) /\ docGiven[n] = <<docGiven[n][1], docGiven[n][2]>>
       /\ docBoard[n] = Json(docGiven[n][1], docGiven[n][2])

Consistent(doc) ==
  /\ Member(doc, "burstBufferSize") = DocNull \/ Member(doc, "frequency") = DocNull
  /\ \A n \in DOMAIN doc : Acceptable(n, doc[n])

DocInv == BoardFits /\ Consistent(docDriver)

LEMMA WidthsAre == DOMAIN Width = Integral
BY DEF Width, Integral

LEMMA ModesFit == Modes \subseteq RangeOf("int32")
<1>1. 2^(2 - 1) = 2
  <2>1. 2 - 1 = 1 /\ 2^1 = 2
    OBVIOUS
  <2> QED BY <2>1
<1>2. RangeOf("int32") = -2 .. (2 - 1)
  BY <1>1 DEF RangeOf, Width
<1> QED BY <1>2 DEF Modes

LEMMA JsonIs ==
  ASSUME NEW type, NEW v
  PROVE  /\ Json(type, v).v = v
         /\ type \in Integral \cup {"mode"} => Json(type, v).k = "integer"
         /\ type \in {"float", "double"} => Json(type, v).k = "real"
         /\ type \in {"bool", "string", "null"} => Json(type, v).k = type
<1>1. type \in {"float", "double"} => type \notin Integral \cup {"mode"}
  BY DEF Integral
<1>2. type \in {"bool", "string", "null"} => type \notin Integral \cup {"mode", "float", "double"}
  BY DEF Integral
<1> QED BY <1>1, <1>2, WidthsAre DEF Json

LEMMA JsonNullIs ==
  ASSUME NEW type, NEW v, type \in Integral \cup {"mode", "bool", "string", "float", "double"}
  PROVE  Json(type, v) # JsonNull
<1>1. JsonNull.k = "null"
  BY JsonIs DEF JsonNull
<1>2. Json(type, v).k # "null"
  BY JsonIs DEF Integral
<1> QED BY <1>1, <1>2

\* The kinds of what was given, one by one.
LEMMA ExpectedIf ==
  ASSUME NEW n, NEW g, NEW read
  PROVE  /\ (g[1] = "null" /\ read = <<>>) => Expected(n, g, read)
         /\ (g[1] \in {"bool", "string"} /\ read = g) => Expected(n, g, read)
         /\ (g[1] \in {"float", "double"} /\ read[1] \in {"float", "double"}
               /\ (g[2] = BeyondFloat => read = g)) => Expected(n, g, read)
         /\ (/\ g[1] \notin {"null", "bool", "string", "float", "double"}
             /\ \/ read[2] = g[2]
                   /\ \/ read[1] \in Integral /\ g[2] \in RangeOf(read[1])
                      \/ read[1] = "mode" /\ n \in DocModeNames
                \/ read[1] = "invalid" /\ n \in DocModeNames /\ g[2] \notin Modes)
              => Expected(n, g, read)
<1>1. ASSUME g[1] = "null", read = <<>> PROVE Expected(n, g, read)
  BY <1>1 DEF Expected
<1>2. ASSUME g[1] \in {"bool", "string"}, read = g PROVE Expected(n, g, read)
  BY <1>2 DEF Expected
<1>3. ASSUME g[1] \in {"float", "double"}, read[1] \in {"float", "double"},
             g[2] = BeyondFloat => read = g
      PROVE  Expected(n, g, read)
  BY <1>3 DEF Expected
<1>4. ASSUME g[1] \notin {"null", "bool", "string", "float", "double"},
             \/ read[2] = g[2]
                /\ \/ read[1] \in Integral /\ g[2] \in RangeOf(read[1])
                   \/ read[1] = "mode" /\ n \in DocModeNames
             \/ read[1] = "invalid" /\ n \in DocModeNames /\ g[2] \notin Modes
      PROVE  Expected(n, g, read)
  BY <1>4, WidthsAre DEF Expected
<1> QED BY <1>1, <1>2, <1>3, <1>4

\* A value that was given is read as one the caller may expect.
LEMMA GivenIsRead ==
  ASSUME NEW doc, NEW n \in DOMAIN doc, NEW type, NEW v,
         Known(<<type, v>>), doc[n] = Json(type, v)
  PROVE  Expected(n, <<type, v>>, ValueIn(doc, n))
<1> DEFINE g == <<type, v>>   j == doc[n]   read == ValueIn(doc, n)
<1>1. g[1] = type /\ g[2] = v
  OBVIOUS
<1>2. CASE (type \in Integral /\ v \in RangeOf(type)) \/ (type = "mode" /\ v \in Modes)
  <2>1. j.k = "integer" /\ j.v = v /\ j # JsonNull
    BY <1>2, JsonIs, JsonNullIs
  <2>2. read = IF v \in RangeOf("int32")
                  THEN IF n \notin DocModeNames THEN <<"int32", v>>
                       ELSE IF v \in Modes THEN <<"mode", v>> ELSE <<"invalid", 0>>
                  ELSE IF v \in RangeOf("uint32") THEN <<"uint32", v>>
                  ELSE IF v \in RangeOf("int64") THEN <<"int64", v>>
                  ELSE <<"uint64", v>>
    BY <2>1 DEF ValueIn
  <2>3. \/ read[2] = v /\ read[1] \in Integral /\ v \in RangeOf(read[1])
        \/ read[2] = v /\ read[1] = "mode" /\ n \in DocModeNames
        \/ read[1] = "invalid" /\ n \in DocModeNames /\ v \notin Modes
    <3>1. CASE v \in RangeOf("int32")
      BY <3>1, <2>2 DEF Integral
    <3>2. CASE v \notin RangeOf("int32")
      <4>1. type \in Integral /\ v \in RangeOf(type) /\ type # "int32"
        BY <3>2, <1>2, ModesFit
      <4>2. read \in {<<"uint32", v>>, <<"int64", v>>, <<"uint64", v>>} /\ v \in RangeOf(read[1])
        BY <4>1, <3>2, <2>2 DEF Integral
      <4> QED BY <4>2 DEF Integral
    <3> QED BY <3>1, <3>2
  <2>4. type \notin {"null", "bool", "string", "float", "double"}
    BY <1>2 DEF Integral
  <2> HIDE DEF read, g
  <2>5. Expected(n, g, read)
    BY <1>1, <2>3, <2>4, ExpectedIf
  <2> QED BY <2>5 DEF g, read
<1>3. CASE type \in {"bool", "string"}
  <2>1. j.k = type /\ j.v = v /\ j # JsonNull
    BY <1>3, JsonIs, JsonNullIs
  <2>2. read = <<type, v>>
    BY <1>3, <2>1 DEF ValueIn
  <2> QED BY <1>1, <1>3, <2>2, ExpectedIf
<1>4. CASE type \in {"float", "double"} /\ (v = BeyondFloat => type = "double")
  <2>1. j.k = "real" /\ j.v = v /\ j # JsonNull
    BY <1>4, JsonIs, JsonNullIs
  <2>2. read = IF v = BeyondFloat THEN <<"double", v>> ELSE <<"float", FloatExact>>
    BY <2>1 DEF ValueIn
  <2>3. read[1] \in {"float", "double"} /\ (v = BeyondFloat => read = g)
    BY <1>4, <2>2
  <2> HIDE DEF read, g
  <2>4. Expected(n, g, read)
    BY <1>1, <1>4, <2>3, ExpectedIf
  <2> QED BY <2>4 DEF g, read
<1>5. CASE g = <<"null", 0>>
  <2>1. type = "null" /\ v = 0
    BY <1>5
  <2>2. j = JsonNull
    BY <2>1 DEF JsonNull
  <2>3. read = <<>>
    BY <2>2 DEF ValueIn
  <2> HIDE DEF read, g
  <2>4. Expected(n, g, read)
    BY <1>1, <2>1, <2>3, ExpectedIf
  <2> QED BY <2>4 DEF g, read
<1>6. \/ type \in Integral /\ v \in RangeOf(type)
      \/ type = "mode" /\ v \in Modes
      \/ type \in {"bool", "string"}
      \/ type \in {"float", "double"} /\ (v = BeyondFloat => type = "double")
      \/ g = <<"null", 0>>
  <2>1. Known(g)
    OBVIOUS
  <2> HIDE DEF g
  <2> QED BY Zenon, <1>1, <2>1 DEF Known
<1> QED BY <1>2, <1>3, <1>4, <1>5, <1>6

LEMMA GivableKnown ==
  ASSUME NEW g \in Givable
  PROVE  Known(g) /\ g = <<g[1], g[2]>>
<1>1. CASE g \in UNION {{type} \X RangeOf(type) : type \in DOMAIN Width}
  <2>1. PICK type \in Integral : g \in {type} \X RangeOf(type)
    BY <1>1, WidthsAre
  <2> QED BY <2>1 DEF Known
<1>2. CASE g \in {"mode"} \X Modes
  BY <1>2 DEF Known
<1>3. CASE g \in {"bool"} \X {0, 1} \/ g \in {<<"string", 0>>}
  BY <1>3 DEF Known
<1>4. CASE g \in {<<"float", FloatExact>>, <<"double", FloatExact>>, <<"double", Rounded>>, <<"double", BeyondFloat>>}
  BY <1>4 DEF Known, FloatExact, Rounded, BeyondFloat
<1> DEFINE I == UNION {{type} \X RangeOf(type) : type \in DOMAIN Width}
           M == {"mode"} \X Modes
           B == {"bool"} \X {0, 1}
           S == {<<"string", 0>>}
           R == {<<"float", FloatExact>>, <<"double", FloatExact>>, <<"double", Rounded>>, <<"double", BeyondFloat>>}
<1>5. Givable = I \cup M \cup B \cup S \cup R
  BY DEF Givable
<1> HIDE DEF I, M, B, S, R
<1>6. g \in I \/ g \in M \/ g \in B \/ g \in S \/ g \in R
  BY <1>5
<1> QED BY <1>1, <1>2, <1>3, <1>4, <1>6 DEF I, M, B, S, R

LEMMA TextsKnown ==
  ASSUME NEW given \in BoardTexts
  PROVE  /\ DOMAIN given \subseteq DocNames
         /\ \A n \in DOMAIN given : Known(given[n]) /\ given[n] = <<given[n][1], given[n][2]>>
<1> DEFINE G == {<<"int32", 1>>, <<"uint64", 7>>, <<"null", 0>>, <<"double", Rounded>>}
<1>1. \A g \in G : Known(g) /\ g = <<g[1], g[2]>>
  <2>1. 1 \in RangeOf("int32")
    BY ModesFit DEF Modes
  <2>2. 7 \in RangeOf("uint64")
    <3>1. 2^3 = 8
      OBVIOUS
    <3>2. RangeOf("uint64") = 0 .. (8 - 1)
      BY <3>1 DEF RangeOf, Width
    <3> QED BY <3>2
  <2>3. Known(<<"int32", 1>>) /\ Known(<<"uint64", 7>>)
    BY <2>1, <2>2 DEF Known, Integral
  <2>4. Known(<<"null", 0>>) /\ Known(<<"double", Rounded>>)
    BY DEF Known, Rounded, BeyondFloat
  <2> QED BY <2>3, <2>4
<1> HIDE DEF G
<1>2. PICK names \in SUBSET DocNames, g \in G : given = [n \in names |-> g]
  BY DEF BoardTexts, G
<1> QED BY <1>1, <1>2

LEMMA DocInitial == DocInit => DocInv
<1> SUFFICES ASSUME DocInit PROVE DocInv
  OBVIOUS
<1>1. docBoard = <<>> /\ docGiven = <<>> /\ docDriver = <<>> /\ DOMAIN <<>> = {}
  BY DEF DocInit
<1>2. BoardFits
  BY <1>1 DEF BoardFits
<1>3. Consistent(docDriver)
  BY <1>1 DEF Consistent, Member
<1> QED BY <1>2, <1>3 DEF DocInv

\* The board's document: the members given replace those of the same name.
LEMMA BoardSet ==
  ASSUME BoardFits, NEW given,
         DOMAIN given \subseteq DocNames,
         \A n \in DOMAIN given : Known(given[n]) /\ given[n] = <<given[n][1], given[n][2]>>,
         docBoard' = WithMembers(docBoard, DocumentOf(given)),
         docGiven' = [n \in DOMAIN docGiven \cup DOMAIN given |->
                        IF n \in DOMAIN given THEN given[n] ELSE docGiven[n]]
  PROVE  BoardFits'
<1> DEFINE other == DocumentOf(given)
<1>1. DOMAIN other = DOMAIN given /\ \A n \in DOMAIN given : other[n] = Json(given[n][1], given[n][2])
  BY DEF DocumentOf
<1>2. docBoard' = [n \in DOMAIN docBoard \cup DOMAIN other |-> IF n \in DOMAIN other THEN other[n] ELSE docBoard[n]]
  BY DEF WithMembers
<1> HIDE DEF other
<1>3. DOMAIN docGiven' \subseteq DocNames /\ DOMAIN docBoard' = DOMAIN docGiven'
  BY <1>1, <1>2 DEF BoardFits
<1>4. ASSUME NEW n \in DOMAIN docGiven'
      PROVE  /\ Known(docGiven'[n]) /\ docGiven'[n] = <<docGiven'[n][1], docGiven'[n][2]>>
             /\ docBoard'[n] = Json(docGiven'[n][1], docGiven'[n][2])
  <2>1. CASE n \in DOMAIN given
    <3>1. docGiven'[n] = given[n] /\ docBoard'[n] = other[n]
      BY <2>1, <1>1, <1>2
    <3> QED BY <2>1, <3>1, <1>1
  <2>2. CASE n \notin DOMAIN given
    <3>1. n \in DOMAIN docGiven /\ docGiven'[n] = docGiven[n] /\ docBoard'[n] = docBoard[n]
      BY <2>2, <1>1, <1>2 DEF BoardFits
    <3> QED BY <3>1 DEF BoardFits
  <2> QED BY <2>1, <2>2
<1> QED BY <1>3, <1>4 DEF BoardFits

LEMMA BoardKeeps ==
  ASSUME DocInv, BoardDocument
  PROVE  DocInv'
<1>1. docDriver' = docDriver
  BY DEF BoardDocument
<1>2. BoardFits
  BY DEF DocInv
<1>3. ASSUME NEW name \in DocNames, NEW g \in Givable, SetValue(name, g[1], g[2]) PROVE BoardFits'
  <2> DEFINE given == [n \in {name} |-> <<g[1], g[2]>>]
  <2>1. Known(g) /\ g = <<g[1], g[2]>>
    BY GivableKnown
  <2>2. DOMAIN given \subseteq DocNames /\ given[name] = g /\ DOMAIN given = {name}
    BY <2>1
  <2>3. docBoard' = WithMembers(docBoard, DocumentOf(given))
    BY <1>3 DEF SetValue
  <2>4. docGiven' = [n \in DOMAIN docGiven \cup {name} |-> IF n = name THEN g ELSE docGiven[n]]
    BY <1>3, <2>1 DEF SetValue
  <2> HIDE DEF given
  <2>5. docGiven' = [n \in DOMAIN docGiven \cup DOMAIN given |->
                        IF n \in DOMAIN given THEN given[n] ELSE docGiven[n]]
    BY <2>2, <2>4
  <2> QED BY <1>2, <2>1, <2>2, <2>3, <2>5, BoardSet
<1>4. ASSUME NEW given \in BoardTexts, docBoard' = DocumentOf(given), docGiven' = given PROVE BoardFits'
  BY <1>4, TextsKnown DEF BoardFits, DocumentOf
<1>5. ASSUME NEW given \in BoardTexts, docBoard' = WithMembers(docBoard, DocumentOf(given)),
             docGiven' = [n \in DOMAIN docGiven \cup DOMAIN given |->
                            IF n \in DOMAIN given THEN given[n] ELSE docGiven[n]]
      PROVE  BoardFits'
  BY <1>2, <1>5, TextsKnown, BoardSet
<1>6. BoardFits'
  <2>1. \/ \E name \in DocNames, g \in Givable : SetValue(name, g[1], g[2])
        \/ ParseBoard \/ SetBoard
    BY DEF BoardDocument
  <2> QED BY <2>1, <1>3, <1>4, <1>5 DEF ParseBoard, SetBoard
<1> QED BY <1>1, <1>6 DEF DocInv, Consistent, Member

\* A setter keeps the document consistent, whatever it replaces and erases.
LEMMA SetInKeeps ==
  ASSUME NEW doc, NEW name, NEW v, Consistent(doc), Acceptable(name, v)
  PROVE  Consistent(SetIn(doc, name, v))
<1> DEFINE new == SetIn(doc, name, v)
<1>1. DOMAIN new = (DOMAIN doc \cup {name}) \ Erased(name)
  BY DEF SetIn
<1>2. \A n \in DOMAIN new : new[n] = IF n = name THEN v ELSE doc[n]
  BY DEF SetIn
<1>3. /\ name = "burstBufferSize" => Erased(name) = {"frequency"}
      /\ name = "frequency" => Erased(name) = {"burstBufferSize"}
      /\ name \notin {"frequency", "burstBufferSize"} => Erased(name) = {}
  BY DEF Erased
<1> HIDE DEF new
<1>4. ASSUME NEW n \in DOMAIN new PROVE Acceptable(n, new[n])
  BY <1>1, <1>2 DEF Consistent
<1>5. Member(new, "burstBufferSize") = DocNull \/ Member(new, "frequency") = DocNull
  <2>1. CASE name = "burstBufferSize"
    BY <2>1, <1>1, <1>3 DEF Member
  <2>2. CASE name = "frequency"
    BY <2>2, <1>1, <1>3 DEF Member
  <2>3. CASE name \notin {"frequency", "burstBufferSize"}
    <3>1. Member(new, "burstBufferSize") = Member(doc, "burstBufferSize")
      BY <2>3, <1>1, <1>2, <1>3 DEF Member
    <3>2. Member(new, "frequency") = Member(doc, "frequency")
      BY <2>3, <1>1, <1>2, <1>3 DEF Member
    <3> QED BY <3>1, <3>2 DEF Consistent
  <2> QED BY <2>1, <2>2, <2>3
<1> QED BY <1>4, <1>5 DEF Consistent, new

LEMMA MergeKeeps ==
  ASSUME NEW doc, NEW other, Consistent(doc), Parsable(other)
  PROVE  Consistent(MergedDriver(doc, other))
<1> DEFINE Apply(d, name) == IF Member(other, name) = DocNull THEN d ELSE SetIn(d, name, other[name])
<1>1. ASSUME NEW d, NEW name, Consistent(d) PROVE Consistent(Apply(d, name))
  <2>1. CASE Member(other, name) = DocNull
    BY <1>1, <2>1
  <2>2. CASE Member(other, name) # DocNull
    <3>1. Acceptable(name, other[name])
      BY <2>2 DEF Member, Parsable
    <3> QED BY <2>2, <3>1, <1>1, SetInKeeps
  <2> QED BY <2>1, <2>2
<1> DEFINE d1 == Apply(doc, "sampleRate")
           d2 == Apply(d1, "burstBufferSize")
           d3 == Apply(d2, "frequency")
           d4 == Apply(d3, "translationOffsets")
           d5 == Apply(d4, "translationSlopes")
<1>2. MergedDriver(doc, other) = d5
  BY DEF MergedDriver
<1>3. Consistent(d1)
  BY <1>1
<1> HIDE DEF d1
<1>4. Consistent(d2)
  BY <1>1, <1>3
<1> HIDE DEF d2
<1>5. Consistent(d3)
  BY <1>1, <1>4
<1> HIDE DEF d3
<1>6. Consistent(d4)
  BY <1>1, <1>5
<1> HIDE DEF d4
<1>7. Consistent(d5)
  BY <1>1, <1>6
<1> QED BY <1>2, <1>7

LEMMA DriverKeeps ==
  ASSUME DocInv, DriverDocument
  PROVE  DocInv'
<1>1. docBoard' = docBoard /\ docGiven' = docGiven /\ Consistent(docDriver)
  BY DEF DriverDocument, DocInv
<1>2. CASE SetDriver
  <2>1. PICK name \in DriverNames, v \in DocTried \cup {DocNull, DocChannels} :
          /\ Acceptable(name, v)
          /\ docDriver' = IF docObject THEN SetIn(docDriver, name, v) ELSE docDriver
    BY <1>2 DEF SetDriver
  <2>2. Consistent(SetIn(docDriver, name, v))
    BY <1>1, <2>1, SetInKeeps
  <2>3. Consistent(docDriver')
    BY <1>1, <2>1, <2>2
  <2> QED BY <1>1, <2>3 DEF DocInv, BoardFits
<1>3. CASE ParseDriver
  <2>1. (\E d \in DriverTexts : Parsable(d) /\ docDriver' = d) \/ docDriver' = <<>>
    BY <1>3 DEF ParseDriver
  <2>2. \A d : Parsable(d) => Consistent(d)
    BY DEF Parsable, Consistent
  <2>3. Consistent(<<>>)
    BY DEF Consistent, Member
  <2>4. Consistent(docDriver')
    BY <2>1, <2>2, <2>3
  <2> QED BY <1>1, <2>4 DEF DocInv, BoardFits
<1>4. CASE MergeDriver
  <2>1. PICK d \in DriverTexts :
          Parsable(d) /\ docDriver' = IF docObject THEN MergedDriver(docDriver, d) ELSE docDriver
    BY <1>4 DEF MergeDriver
  <2>2. Consistent(MergedDriver(docDriver, d))
    BY <1>1, <2>1, MergeKeeps
  <2>3. Consistent(docDriver')
    BY <1>1, <2>1, <2>2
  <2> QED BY <1>1, <2>3 DEF DocInv, BoardFits
<1> QED BY <1>2, <1>3, <1>4 DEF DriverDocument

LEMMA DocStep == DocInv /\ [DocNext]_docVars => DocInv'
<1> SUFFICES ASSUME DocInv, [DocNext]_docVars PROVE DocInv'
  OBVIOUS
<1>1. CASE UNCHANGED docVars
  <2>1. docBoard' = docBoard /\ docGiven' = docGiven /\ docDriver' = docDriver
    BY <1>1 DEF docVars, boardDocument, driverDocument
  <2> QED BY <2>1 DEF DocInv, BoardFits
<1> QED BY <1>1, BoardKeeps, DriverKeeps DEF DocNext

LEMMA DocInvSuffices == DocInv => DocumentsHold
<1> SUFFICES ASSUME DocInv PROVE DocumentsHold
  OBVIOUS
<1>1. ASSUME NEW n \in DOMAIN docGiven PROVE Expected(n, docGiven[n], ValueIn(docBoard, n))
  <2> DEFINE type == docGiven[n][1]   v == docGiven[n][2]
  <2>1. docGiven[n] = <<type, v>> /\ Known(docGiven[n]) /\ docBoard[n] = Json(type, v) /\ n \in DOMAIN docBoard
    BY DEF DocInv, BoardFits
  <2> HIDE DEF type, v
  <2>2. Known(<<type, v>>)
    BY <2>1
  <2>3. Expected(n, <<type, v>>, ValueIn(docBoard, n))
    BY <2>1, <2>2, GivenIsRead
  <2> QED BY <2>1, <2>3
<1>2. ASSUME NEW n \in DocNames \ DOMAIN docGiven PROVE ValueIn(docBoard, n) = <<>>
  BY DEF DocInv, BoardFits, ValueIn
<1> QED BY <1>1, <1>2 DEF DocInv, DocumentsHold, ValuesReadBack, SettingsConsistent, Consistent

\* Both kinds of documents keep what callers put in, for any names, limits of
\* the driver's settings and numbers tried, in any order of setters, parsed
\* texts and merges.
THEOREM DocumentsKept == DocSpec => []DocumentsHold
<1> QED BY DocInitial, DocStep, DocInvSuffices, PTL DEF DocSpec

-----------------------------------------------------------------------------
(*****************************************************************************)
(* Settings: the firmware's lines of settings.                               *)
(*****************************************************************************)
Marks  == {"<", ">"}
Tokens == NameTokens \cup {"<", ">", "?"} \cup Documents

SetTypes ==
  /\ setState \in {"name", "input", "error"} /\ setType \in {"read", "write"}
  /\ setName \in Seq(NameTokens) /\ setInput \in Seq(Documents) /\ setLine \in Seq(Tokens)
  /\ setValues \in [SetStored -> Numbers]

\* A line is a name, a mark and an input.
Composed(line, name, type, input) ==
  /\ Len(line) = Len(name) + 1 + Len(input)
  /\ \A k \in 1 .. Len(name) : line[k] = name[k]
  /\ line[Len(name) + 1] = (IF type = "write" THEN "<" ELSE ">")
  /\ \A k \in 1 .. Len(input) : line[Len(name) + 1 + k] = input[k]

\* What the parser holds is what the line is made of.
LineFits ==
  /\ setState = "name" => setLine = setName /\ setInput = <<>> /\ setType = "read"
  /\ setState = "input" => Composed(setLine, setName, setType, setInput)
  /\ setState = "error" =>
       \E j \in DOMAIN setLine : setLine[j] = "?" /\ \A k \in 1 .. j - 1 : setLine[k] \in NameTokens

SetInv == SetTypes /\ LineFits /\ LinesAnswered

-----------------------------------------------------------------------------
LEMMA DocumentIs ==
  ASSUME NEW d \in Documents
  PROVE  /\ (d.json = "not json") <=> (d = Junk)
         /\ d.json = "object" => d.members \in Seq(Members)
         /\ d.json = "number" => d.number \in Numbers
<1>0. Junk.json = "not json"
  BY DEF Junk
<1>1. CASE \E n \in Numbers : d = Number(n)
  <2>1. d.json = "number" /\ d.number \in Numbers
    BY <1>1 DEF Number
  <2> QED
    BY <1>0, <2>1
<1>2. CASE \E o \in Objects : d = Object(o)
  <2>1. PICK o \in Objects : d = Object(o)
    BY <1>2
  <2>2. d.json = "object" /\ d.members = o
    BY <2>1 DEF Object
  <2>3. \E m \in Nat : o \in [1 .. m -> Members]
    <3> HIDE DEF Members
    <3>1. PICK x \in {[1 .. m -> Members] : m \in 0 .. SetObjectLength} : o \in x
      BY DEF Objects, SeqOf
    <3>2. PICK m \in 0 .. SetObjectLength : x = [1 .. m -> Members]
      OBVIOUS
    <3> QED
      BY <3>1, <3>2
  <2>4. o \in Seq(Members)
    BY <2>3, IsASeq
  <2> QED
    BY <1>0, <2>2, <2>4
<1>3. CASE d = Text
  BY <1>3 DEF Text, Junk
<1>4. CASE d = Junk
  BY <1>4 DEF Junk
<1> QED
  BY <1>1, <1>2, <1>3, <1>4 DEF Documents

LEMMA ParsedIs ==
  ASSUME NEW s \in Seq(Documents)
  PROVE  /\ Len(s) = 0 => Parsed(s) = Null
         /\ Len(s) = 1 => Parsed(s) = s[1] /\ s[1] \in Documents
         /\ Len(s) \notin {0, 1} => Parsed(s) = Junk
<1>1. (s = <<>>) <=> (Len(s) = 0)
  BY EmptySeq
<1>2. Len(s) = 1 => s[1] \in Documents
  BY ElementOfSeq
<1> QED
  BY <1>1, <1>2 DEF Parsed

-----------------------------------------------------------------------------
(* One setting.                                                             *)

SetValues == [SetStored -> Numbers]
GoodMember(m) == m[1] \in Writable \ Absent /\ Accepted(m[1], m[2])

LEMMA WriteOne ==
  ASSUME NEW m \in Members, NEW values \in SetValues, m[1] \notin Special
  PROVE  LET w == Handle(m[1], "write", Number(m[2]), values)
         IN IF GoodMember(m) THEN w.error = "none" /\ w.values = [values EXCEPT ![m[1]] = m[2]]
            ELSE w.error # "none" /\ w.values = values
<1> DEFINE input == Number(m[2])
           h == HandleWrite(m[1], input, values)
           w == Handle(m[1], "write", input, values)
<1>1. input.json = "number" /\ input.number = m[2]
  BY DEF Number
<1>2. m[1] \in SetNames /\ m[2] \in Numbers
  BY DEF Members, SetNames, Special
<1> HIDE DEF input
<1>3. h.error # "none" => w = h
  BY <1>2 DEF Handle
<1>4. h.error = "none" => w.error = "none" /\ w.values = h.values
  BY <1>2 DEF Handle, Done
<1>5. CASE m[1] \notin Writable
  <2>1. h = Failed("write_forbidden", values)
    BY <1>1, <1>5 DEF HandleWrite, Absent, Writable
  <2> QED
    BY <1>3, <1>5, <2>1 DEF Failed, GoodMember, input
<1>6. CASE m[1] \in Absent
  <2>1. h = Failed("calibration", values)
    BY <1>1, <1>6 DEF HandleWrite, Absent, Writable
  <2> QED
    BY <1>3, <1>6, <2>1 DEF Failed, GoodMember, input
<1>7. CASE m[1] \in Writable \ Absent /\ ~Accepted(m[1], m[2])
  <2>1. h = Failed("out_of_range", values)
    BY <1>1, <1>7 DEF HandleWrite
  <2> QED
    BY <1>3, <1>7, <2>1 DEF Failed, GoodMember, input
<1>8. CASE m[1] \in Writable \ Absent /\ Accepted(m[1], m[2])
  <2>1. h = HandleRead(m[1], [values EXCEPT ![m[1]] = m[2]])
    BY <1>1, <1>8 DEF HandleWrite
  <2>2. h.error = "none" /\ h.values = [values EXCEPT ![m[1]] = m[2]]
    BY <1>8, <2>1 DEF HandleRead, Done
  <2> QED
    BY <1>4, <1>8, <2>2 DEF GoodMember, input
<1> QED
  BY <1>5, <1>6, <1>7, <1>8

LEMMA WriteMemberIs ==
  ASSUME NEW m \in Members, NEW special, NEW r, r.values \in SetValues
  PROVE  LET w == WriteMember(special, r, m)
         IN IF r.error # "none" \/ Skipped(special, m[1]) THEN w = r
            ELSE IF GoodMember(m) THEN w.error = "none" /\ w.values = [r.values EXCEPT ![m[1]] = m[2]]
            ELSE w.error # "none" /\ w.values = r.values
<1>1. CASE r.error # "none" \/ Skipped(special, m[1])
  BY <1>1 DEF WriteMember
<1>2. CASE ~(r.error # "none" \/ Skipped(special, m[1])) /\ m[1] \in Special
  <2>1. WriteMember(special, r, m) = Failed("invalid", r.values)
    BY <1>2 DEF WriteMember
  <2>2. ~GoodMember(m)
    BY <1>2 DEF GoodMember, Special, Writable
  <2> QED
    BY <1>2, <2>1, <2>2 DEF Failed
<1>3. CASE ~(r.error # "none" \/ Skipped(special, m[1])) /\ m[1] \notin Special
  <2> DEFINE w == Handle(m[1], "write", Number(m[2]), r.values)
  <2>1. WriteMember(special, r, m) =
          IF w.error = "none" THEN Done(Append(r.result, <<m[1], w.result>>), w.values)
          ELSE Failed(w.error, w.values)
    BY <1>3 DEF WriteMember
  <2>2. IF GoodMember(m) THEN w.error = "none" /\ w.values = [r.values EXCEPT ![m[1]] = m[2]]
        ELSE w.error # "none" /\ w.values = r.values
    BY <1>3, WriteOne
  <2> HIDE DEF w
  <2> QED
    BY <1>3, <2>1, <2>2 DEF Failed, Done
<1> QED
  BY <1>1, <1>2, <1>3

-----------------------------------------------------------------------------
(* Several settings.                                                        *)

\* The members of the first n that set a name, and the value they leave.
Setters(special, members, n, name) ==
  {k \in 1 .. n : members[k][1] = name /\ ~Skipped(special, members[k][1])}
LastOf(its) == CHOOSE k \in its : \A j \in its : j <= k
ValueLeft(special, members, values, n, name) ==
  LET its == Setters(special, members, n, name)
  IN IF its = {} THEN values[name] ELSE members[LastOf(its)][2]

\* The first n members are applied, none of them at fault.
AppliedUpTo(special, members, before, after, n) ==
  /\ \A k \in 1 .. n : Skipped(special, members[k][1]) \/ GoodMember(members[k])
  /\ \A name \in SetStored : after[name] = ValueLeft(special, members, before, n, name)

LEMMA NextValueLeft ==
  ASSUME NEW special, NEW members, NEW values, NEW n \in Nat, NEW name
  PROVE  ValueLeft(special, members, values, n + 1, name) =
           IF members[n + 1][1] = name /\ ~Skipped(special, members[n + 1][1]) THEN members[n + 1][2]
           ELSE ValueLeft(special, members, values, n, name)
<1> DEFINE new == members[n + 1][1] = name /\ ~Skipped(special, members[n + 1][1])
           one == Setters(special, members, n, name)
           two == Setters(special, members, n + 1, name)
<1>1. 1 .. n + 1 = (1 .. n) \cup {n + 1}
  OBVIOUS
<1>2. CASE new
  <2>1. two = one \cup {n + 1}
    BY <1>1, <1>2 DEF Setters
  <2>2. \A j \in one : j \in Nat /\ j <= n
    BY DEF Setters
  <2> HIDE DEF one, two
  <2>3. LastOf(two) = n + 1
    BY <2>1, <2>2 DEF LastOf
  <2>4. two # {}
    BY <2>1
  <2> QED
    BY <1>2, <2>3, <2>4 DEF ValueLeft, two
<1>3. CASE ~new
  <2>1. two = one
    BY <1>1, <1>3 DEF Setters
  <2> HIDE DEF one, two
  <2> QED
    BY <1>3, <2>1 DEF ValueLeft, one, two
<1> QED
  BY <1>2, <1>3

LEMMA AppliedNone ==
  ASSUME NEW special, NEW members, NEW values
  PROVE  AppliedUpTo(special, members, values, values, 0)
<1>1. 1 .. 0 = {}
  OBVIOUS
<1>2. \A name : Setters(special, members, 0, name) = {}
  BY <1>1 DEF Setters
<1> QED
  BY <1>1, <1>2 DEF AppliedUpTo, ValueLeft

LEMMA AppliedOneMore ==
  ASSUME NEW special, NEW members, NEW before, NEW after \in SetValues, NEW later, NEW n \in Nat,
         members[n + 1] \in Members,
         AppliedUpTo(special, members, before, after, n),
         Skipped(special, members[n + 1][1]) => later = after,
         ~Skipped(special, members[n + 1][1]) =>
           GoodMember(members[n + 1]) /\ later = [after EXCEPT ![members[n + 1][1]] = members[n + 1][2]]
  PROVE  AppliedUpTo(special, members, before, later, n + 1)
<1>1. \A k \in 1 .. n + 1 : Skipped(special, members[k][1]) \/ GoodMember(members[k])
  <2>1. \A k \in 1 .. n + 1 : k \in 1 .. n \/ k = n + 1
    OBVIOUS
  <2> QED
    BY <2>1 DEF AppliedUpTo
<1>2. ASSUME NEW name \in SetStored
      PROVE  later[name] = ValueLeft(special, members, before, n + 1, name)
  <2>1. after[name] = ValueLeft(special, members, before, n, name)
    BY DEF AppliedUpTo
  <2>2. ~Skipped(special, members[n + 1][1]) =>
          later[name] = IF members[n + 1][1] = name THEN members[n + 1][2] ELSE after[name]
    BY DEF SetValues
  <2> QED
    BY <2>1, <2>2, NextValueLeft
<1> QED
  BY <1>1, <1>2 DEF AppliedUpTo

LEMMA LeastMember ==
  ASSUME NEW T \in SUBSET Nat, T # {}
  PROVE  \E n \in T : \A m \in T : ~(m < n)
<1>1. IsWellFoundedOn(OpToRel(<, Nat), Nat)
  BY NatLessThanWellFounded
<1>2. PICK n \in T : \A m \in T : ~(<<m, n>> \in OpToRel(<, Nat))
  BY <1>1, WFMin
<1> QED
  BY <1>2 DEF OpToRel

\* What the first members leave, one after another.
Grown(written, special, members, values, c) ==
  written = [n \in 0 .. c |->
               IF n = 0 THEN Done(<<>>, values)
               ELSE WriteMember(special, written[n - 1], members[n])]

LEMMA WritingExists ==
  ASSUME NEW special, NEW members, NEW values, NEW c \in Nat
  PROVE  \E written : Grown(written, special, members, values, c)
<1> DEFINE T == {n \in Nat : ~ \E written : Grown(written, special, members, values, n)}
<1>1. SUFFICES ASSUME T # {} PROVE FALSE
  OBVIOUS
<1>2. PICK n \in T : \A m \in T : ~(m < n)
  BY <1>1, LeastMember
<1>3. n \in Nat /\ ~ \E written : Grown(written, special, members, values, n)
  OBVIOUS
<1>4. CASE n = 0
  <2> DEFINE written == [m \in 0 .. n |-> Done(<<>>, values)]
  <2>1. \A m \in 0 .. n : m = 0
    BY <1>4
  <2>2. Grown(written, special, members, values, n)
    BY <2>1 DEF Grown
  <2> QED
    BY <1>3, <2>2
<1>5. CASE n # 0
  <2>1. n - 1 \in Nat /\ n - 1 < n
    BY <1>3, <1>5
  <2>2. n - 1 \notin T
    BY <1>2, <2>1
  <2>3. PICK before : Grown(before, special, members, values, n - 1)
    BY <2>1, <2>2
  <2> HIDE DEF T
  <2> DEFINE last == WriteMember(special, before[n - 1], members[n])
             written == [m \in 0 .. n |-> IF m < n THEN before[m] ELSE last]
             next(m) == IF m = 0 THEN Done(<<>>, values) ELSE WriteMember(special, written[m - 1], members[m])
  <2>4. ASSUME NEW m \in 0 .. n PROVE written[m] = next(m)
    <3>1. CASE m = n
      <4>1. n - 1 \in 0 .. n /\ n - 1 < n /\ ~(n < n) /\ n \in 0 .. n
        BY <1>3, <2>1
      <4>2. written[n - 1] = before[n - 1] /\ written[n] = last
        BY <4>1
      <4> HIDE DEF written
      <4> QED
        BY <1>5, <3>1, <4>2
    <3>2. CASE m # n
      <4>1. m \in 0 .. n - 1 /\ m < n /\ (m # 0 => m - 1 \in 0 .. n - 1 /\ m - 1 \in 0 .. n /\ m - 1 < n)
        BY <1>3, <3>2
      <4>2. written[m] = before[m] /\ (m # 0 => written[m - 1] = before[m - 1])
        BY <4>1
      <4>3. before[m] = IF m = 0 THEN Done(<<>>, values) ELSE WriteMember(special, before[m - 1], members[m])
        BY <2>3, <4>1 DEF Grown
      <4> HIDE DEF written
      <4> QED
        BY <4>2, <4>3
    <3> QED
      BY <3>1, <3>2
  <2>5. written = [m \in 0 .. n |-> written[m]]
    OBVIOUS
  <2> HIDE DEF written
  <2>6. written = [m \in 0 .. n |-> next(m)]
    BY <2>4, <2>5
  <2> QED
    BY <1>3, <2>6 DEF Grown
<1> QED
  BY <1>4, <1>5

\* The first n members are behind r: those up to m applied, the next at fault
\* if there is an error.
Behind(special, members, before, r, n) ==
  /\ r.values \in SetValues
  /\ \E m \in 0 .. n :
       /\ AppliedUpTo(special, members, before, r.values, m)
       /\ IF r.error = "none" THEN m = n
          ELSE m < n /\ ~Skipped(special, members[m + 1][1]) /\ ~GoodMember(members[m + 1])

LEMMA BehindOneMore ==
  ASSUME NEW special, NEW members, NEW before, NEW r, NEW n \in Nat,
         members[n + 1] \in Members, Behind(special, members, before, r, n)
  PROVE  Behind(special, members, before, WriteMember(special, r, members[n + 1]), n + 1)
<1> DEFINE member == members[n + 1]
           w == WriteMember(special, r, member)
<1>1. r.values \in SetValues
  BY DEF Behind
<1>2. IF r.error # "none" \/ Skipped(special, member[1]) THEN w = r
      ELSE IF GoodMember(member) THEN w.error = "none" /\ w.values = [r.values EXCEPT ![member[1]] = member[2]]
      ELSE w.error # "none" /\ w.values = r.values
  BY <1>1, WriteMemberIs
<1>3. PICK m \in 0 .. n :
       /\ AppliedUpTo(special, members, before, r.values, m)
       /\ IF r.error = "none" THEN m = n
          ELSE m < n /\ ~Skipped(special, members[m + 1][1]) /\ ~GoodMember(members[m + 1])
  BY DEF Behind
<1> HIDE DEF w
<1>4. CASE r.error # "none"
  <2>1. w = r /\ m \in 0 .. n + 1 /\ m < n + 1
    BY <1>2, <1>3, <1>4
  <2> QED
    BY <1>1, <1>3, <1>4, <2>1 DEF Behind, w
<1>5. CASE r.error = "none" /\ (Skipped(special, member[1]) \/ GoodMember(member))
  <2>1. w.error = "none" /\ n + 1 \in 0 .. n + 1
    BY <1>2, <1>5
  <2>2. AppliedUpTo(special, members, before, r.values, n)
    BY <1>3, <1>5
  <2>3. AppliedUpTo(special, members, before, w.values, n + 1)
    <3>1. CASE Skipped(special, member[1])
      BY <1>1, <1>2, <1>5, <2>2, <3>1, AppliedOneMore
    <3>2. CASE ~Skipped(special, member[1])
      BY <1>1, <1>2, <1>5, <2>2, <3>2, AppliedOneMore
    <3> QED
      BY <3>1, <3>2
  <2>4. w.values \in SetValues
    <3>1. member[2] \in Numbers
      BY DEF Members
    <3> QED
      BY <1>1, <1>2, <1>5, <3>1 DEF SetValues
  <2> QED
    BY <2>1, <2>3, <2>4 DEF Behind, w
<1>6. CASE r.error = "none" /\ ~(Skipped(special, member[1]) \/ GoodMember(member))
  <2>1. w.error # "none" /\ w.values = r.values /\ m = n /\ n \in 0 .. n + 1 /\ n < n + 1
    BY <1>2, <1>3, <1>6
  <2> QED
    BY <1>1, <1>3, <1>6, <2>1 DEF Behind, w
<1> QED
  BY <1>4, <1>5, <1>6

LEMMA WriteAllIs ==
  ASSUME NEW special, NEW input \in Documents, input.json = "object", NEW values \in SetValues
  PROVE  Behind(special, input.members, values, WriteAll(special, input, values), Len(input.members))
<1> DEFINE members == input.members
           c == Len(members)
           written == CHOOSE f : Grown(f, special, members, values, c)
<1>1. members \in Seq(Members)
  BY DocumentIs
<1>2. c \in Nat /\ \A n \in 1 .. c : members[n] \in Members
  <2> HIDE DEF members
  <2> QED
    BY <1>1, LenProperties, ElementOfSeq
<1>3. WriteAll(special, input, values) = written[c]
  BY DEF WriteAll, Grown
<1> HIDE DEF members, c
<1>4. Grown(written, special, members, values, c)
  <2>1. \E f : Grown(f, special, members, values, c)
    BY <1>2, WritingExists
  <2> QED
    BY <2>1, Zenon
<1> HIDE DEF written
<1>5. \A n \in 0 .. c : written[n] = IF n = 0 THEN Done(<<>>, values)
                                     ELSE WriteMember(special, written[n - 1], members[n])
  BY <1>4 DEF Grown
<1> DEFINE T == {n \in Nat : n <= c /\ ~Behind(special, members, values, written[n], n)}
<1>6. T = {}
  <2> SUFFICES ASSUME T # {} PROVE FALSE
    OBVIOUS
  <2>1. PICK n \in T : \A m \in T : ~(m < n)
    BY LeastMember
  <2>2. n \in Nat /\ n <= c /\ n \in 0 .. c /\ ~Behind(special, members, values, written[n], n)
    BY <1>2
  <2>3. CASE n = 0
    <3>1. written[n].values = values /\ written[n].error = "none"
      BY <1>5, <2>2, <2>3 DEF Done
    <3>2. Behind(special, members, values, written[n], 0)
      BY <3>1, AppliedNone DEF Behind
    <3> QED
      BY <2>2, <2>3, <3>2
  <2>4. CASE n # 0
    <3>1. n - 1 \in Nat /\ n - 1 < n /\ n - 1 <= c /\ n \in 1 .. c /\ n - 1 + 1 = n
      BY <1>2, <2>2, <2>4
    <3>2. Behind(special, members, values, written[n - 1], n - 1)
      BY <2>1, <3>1
    <3>3. written[n] = WriteMember(special, written[n - 1], members[n])
      BY <1>5, <2>2, <2>4
    <3>4. members[n] \in Members
      BY <1>2, <3>1
    <3> HIDE DEF T
    <3> DEFINE k == n - 1
    <3>5. k \in Nat /\ k + 1 = n /\ Behind(special, members, values, written[k], k) /\ members[k + 1] \in Members
      BY <3>1, <3>2, <3>4
    <3> HIDE DEF k
    <3>6. Behind(special, members, values, WriteMember(special, written[k], members[k + 1]), k + 1)
      BY <3>5, BehindOneMore
    <3> QED
      BY <2>2, <3>3, <3>5, <3>6 DEF k
  <2> QED
    BY <2>3, <2>4
<1>7. Behind(special, members, values, written[c], c)
  BY <1>2, <1>6
<1> QED
  BY <1>3, <1>7 DEF members, c

-----------------------------------------------------------------------------
(* A request.                                                               *)

LEMMA ReadIs ==
  ASSUME NEW name \in SetStored, NEW values
  PROVE  HandleRead(name, values) = Done(values[name], values)
BY DEF HandleRead, SetStored

LEMMA ReadKeeps ==
  ASSUME NEW name, NEW values
  PROVE  HandleRead(name, values).values = values
BY DEF HandleRead, Done, Failed

LEMMA WriteKeeps ==
  ASSUME NEW name \in SetNames, NEW input \in Documents \cup {Null}, NEW values \in SetValues
  PROVE  HandleWrite(name, input, values).values \in SetValues
<1> DEFINE h == HandleWrite(name, input, values)
           stored == [values EXCEPT ![name] = input.number]
<1>1. CASE name \notin Writable
  <2>1. h = Failed("write_forbidden", values)
    BY <1>1 DEF HandleWrite, Absent, Writable
  <2> QED
    BY <2>1 DEF Failed
<1>2. CASE name \in Writable /\ input.json # "number"
  <2>1. h = Failed("invalid", values)
    BY <1>2 DEF HandleWrite
  <2> QED
    BY <2>1 DEF Failed
<1>3. CASE name \in Absent /\ input.json = "number"
  <2>1. h = Failed("calibration", values)
    BY <1>3 DEF HandleWrite, Absent, Writable
  <2> QED
    BY <2>1 DEF Failed
<1>4. CASE name \in Writable \ Absent /\ input.json = "number" /\ ~Accepted(name, input.number)
  <2>1. h = Failed("out_of_range", values)
    BY <1>4 DEF HandleWrite
  <2> QED
    BY <2>1 DEF Failed
<1>5. CASE name \in Writable \ Absent /\ input.json = "number" /\ Accepted(name, input.number)
  <2>1. h = HandleRead(name, stored)
    BY <1>5 DEF HandleWrite
  <2>2. input.number \in Numbers
    <3>1. Null.json # "number"
      BY DEF Null
    <3> QED
      BY <1>5, <3>1, DocumentIs
  <2>3. stored \in SetValues
    BY <2>2 DEF SetValues
  <2> HIDE DEF stored
  <2> QED
    BY <2>1, <2>3, ReadKeeps
<1> QED
  BY <1>1, <1>2, <1>3, <1>4, <1>5

LEMMA HandleKeeps ==
  ASSUME NEW name, NEW type, NEW input \in Documents \cup {Null}, NEW values \in SetValues
  PROVE  /\ Handle(name, type, input, values).values \in SetValues
         /\ type = "read" => Handle(name, type, input, values).values = values
         /\ type = "read" /\ name \in SetStored =>
              /\ Handle(name, type, input, values).error = "none"
              /\ Handle(name, type, input, values).result = <<<<name, values[name]>>>>
<1> DEFINE h == Handle(name, type, input, values)
           r == IF type = "read" THEN HandleRead(name, values) ELSE HandleWrite(name, input, values)
<1>1. CASE name \notin SetNames
  <2>1. h = Failed("unknown", values) /\ name \notin SetStored
    BY <1>1 DEF Handle, SetStored
  <2> QED
    BY <2>1 DEF Failed
<1>2. CASE name \in SetNames
  <2>1. r.values \in SetValues /\ (type = "read" => r.values = values)
    BY <1>2, ReadKeeps, WriteKeeps
  <2>2. type = "read" /\ name \in SetStored => r.error = "none" /\ r.result = values[name]
    BY ReadIs DEF Done
  <2>3. h = IF r.error = "none" THEN Done(<<<<name, r.result>>>>, r.values) ELSE r
    BY <1>2 DEF Handle
  <2> HIDE DEF r, h
  <2>4. h.values = r.values
    BY <2>3 DEF Done
  <2>5. r.error = "none" => h.error = "none" /\ h.result = <<<<name, r.result>>>>
    BY <2>3 DEF Done
  <2>6. h.values \in SetValues /\ (type = "read" => h.values = values)
    BY <2>1, <2>4
  <2>7. type = "read" /\ name \in SetStored => h.error = "none" /\ h.result = <<<<name, values[name]>>>>
    BY <2>2, <2>5
  <2> QED
    BY <2>6, <2>7 DEF h
<1> QED
  BY <1>1, <1>2

\* The members of the object that reading all answers with.
ToldOf(told, special, values) ==
  /\ {p[1] : p \in told} = SetNames \ {n \in SkippedByBasic : special = "basic"}
  /\ \A p \in told : p[1] \in SetStored => p[2] = values[p[1]]

LEMMA ReadAllIs ==
  ASSUME NEW special, NEW values
  PROVE  /\ ReadAll(special, values).error = "none" /\ ReadAll(special, values).values = values
         /\ ToldOf(ReadAll(special, values).result, special, values)
<1> DEFINE part(name) == <<name, IF HandleRead(name, values).error = "none"
                                 THEN HandleRead(name, values).result
                                 ELSE HandleRead(name, values).error>>
           asked == {n \in SetNames : ~Skipped(special, n)}
           told == {part(name) : name \in asked}
<1>1. ReadAll(special, values) = Done(told, values)
  BY DEF ReadAll
<1>2. asked = SetNames \ {n \in SkippedByBasic : special = "basic"}
  BY DEF Skipped
<1>3. {p[1] : p \in told} = asked
  <2>1. \A n \in asked : part(n) \in told /\ part(n)[1] = n
    OBVIOUS
  <2>2. \A p \in told : p[1] \in asked
    BY <2>1
  <2> HIDE DEF told, asked, part
  <2> QED
    BY <2>1, <2>2
<1>4. ASSUME NEW name \in asked, name \in SetStored
      PROVE  part(name)[2] = values[name]
  BY <1>4, ReadIs DEF Done
<1>5. \A p \in told : p[1] \in SetStored => p[2] = values[p[1]]
  BY <1>4
<1> HIDE DEF told
<1>6. ToldOf(told, special, values)
  BY <1>2, <1>3, <1>5 DEF ToldOf
<1> QED
  BY <1>1, <1>6 DEF Done

\* What the dispatcher does of a request.
Dispatched(r, name, type, input, values) ==
  /\ r.values \in SetValues
  /\ Len(name) # 1 => r.error # "none" /\ r.values = values
  /\ Len(name) = 1 /\ type = "read" =>
       /\ r.values = values
       /\ name[1] \in SetStored => r.error = "none" /\ r.result = <<<<name[1], values[name[1]]>>>>
       /\ name[1] \in Special => r.error = "none" /\ ToldOf(r.result, name[1], values)
  /\ Len(name) = 1 /\ name[1] \in Special /\ type = "write" /\ input.json = "object" =>
       Behind(name[1], input.members, values, r, Len(input.members))

LEMMA DispatchIs ==
  ASSUME NEW name \in Seq(NameTokens), NEW type \in {"read", "write"},
         NEW input \in Documents \cup {Null}, NEW values \in SetValues
  PROVE  Dispatched(Dispatch(name, type, input, values), name, type, input, values)
<1> DEFINE r == Dispatch(name, type, input, values)
<1>1. (name = <<>>) <=> (Len(name) = 0)
  BY EmptySeq
<1>2. CASE Len(name) = 0
  <2>1. r = Failed("bug", values)
    BY <1>1, <1>2 DEF Dispatch
  <2> HIDE DEF r
  <2>2. r.error # "none" /\ r.values = values /\ Len(name) # 1
    BY <1>2, <2>1 DEF Failed
  <2> QED
    BY <2>2 DEF Dispatched, r
<1>3. CASE Len(name) \notin {0, 1}
  <2>1. r = Failed("unknown", values)
    BY <1>1, <1>3 DEF Dispatch
  <2> HIDE DEF r
  <2>2. r.error # "none" /\ r.values = values /\ Len(name) # 1
    BY <1>3, <2>1 DEF Failed
  <2> QED
    BY <2>2 DEF Dispatched, r
<1>4. CASE Len(name) = 1 /\ name[1] \in Special /\ type = "read"
  <2>1. r = ReadAll(name[1], values)
    BY <1>1, <1>4 DEF Dispatch
  <2>2. name[1] \notin SetStored
    BY <1>4 DEF Special, SetStored, SetNames
  <2>3. r.error = "none" /\ r.values = values /\ ToldOf(r.result, name[1], values)
    BY <2>1, ReadAllIs
  <2> HIDE DEF r
  <2> QED
    BY <1>4, <2>2, <2>3 DEF Dispatched, r
<1>5. CASE Len(name) = 1 /\ name[1] \in Special /\ type = "write"
  <2>1. r = WriteAll(name[1], input, values)
    BY <1>1, <1>5 DEF Dispatch
  <2>2. input.json = "object" => Behind(name[1], input.members, values, r, Len(input.members))
    <3>1. Null.json # "object"
      BY DEF Null
    <3> QED
      BY <2>1, <3>1, WriteAllIs
  <2>3. r.values \in SetValues
    <3>1. CASE input.json = "object"
      BY <2>2, <3>1 DEF Behind
    <3>2. CASE input.json # "object"
      <4>1. r = Failed("invalid", values)
        BY <2>1, <3>2 DEF WriteAll
      <4> HIDE DEF r
      <4> QED
        BY <4>1 DEF Failed
    <3> QED
      BY <3>1, <3>2
  <2> HIDE DEF r
  <2> QED
    BY <1>5, <2>2, <2>3 DEF Dispatched, r
<1>6. CASE Len(name) = 1 /\ name[1] \notin Special
  <2>1. r = Handle(name[1], type, input, values)
    BY <1>1, <1>6 DEF Dispatch
  <2>2. /\ r.values \in SetValues
        /\ type = "read" => r.values = values
        /\ type = "read" /\ name[1] \in SetStored =>
             /\ r.error = "none"
             /\ r.result = <<<<name[1], values[name[1]]>>>>
    <3> DEFINE n == name[1]
    <3> HIDE DEF n
    <3>1. r = Handle(n, type, input, values)
      BY <2>1 DEF n
    <3> HIDE DEF r
    <3>2. /\ Handle(n, type, input, values).values \in SetValues
          /\ type = "read" => Handle(n, type, input, values).values = values
          /\ type = "read" /\ n \in SetStored =>
               /\ Handle(n, type, input, values).error = "none"
               /\ Handle(n, type, input, values).result = <<<<n, values[n]>>>>
      BY HandleKeeps, Zenon
    <3> QED
      BY <3>1, <3>2 DEF n
  <2> HIDE DEF r
  <2> QED
    BY <1>6, <2>2 DEF Dispatched, r
<1>7. Len(name) = 0 \/ Len(name) \notin {0, 1} \/ Len(name) = 1
  OBVIOUS
<1> QED
  BY <1>2, <1>3, <1>4, <1>5, <1>6, <1>7

-----------------------------------------------------------------------------
(* A line.                                                                  *)

LEMMA LineOfRequest ==
  ASSUME NEW line \in Seq(Tokens), NEW name \in Seq(NameTokens), NEW type, NEW input \in Seq(Documents),
         Composed(line, name, type, input)
  PROVE  /\ Mark(line) = Len(name) + 1
         /\ SubSeq(line, 1, Mark(line) - 1) = name
         /\ IsRequest(line) <=> Len(input) = 0 \/ (Len(input) = 1 /\ line[Len(name) + 2] # Junk)
         /\ \A i \in DOMAIN line :
              line[i] \in Marks /\ (\A k \in 1 .. i - 1 : line[k] \in NameTokens) => i = Len(name) + 1
<1> DEFINE a == Len(name)
           b == Len(input)
           c == Len(line)
<1>1. a \in Nat /\ b \in Nat /\ c = a + 1 + b /\ DOMAIN line = 1 .. c
  BY LenProperties DEF Composed
<1>2. line[a + 1] \in Marks /\ \A k \in 1 .. a : line[k] \in NameTokens
  BY ElementOfSeq DEF Composed, Marks
<1>3. \A i \in 1 .. c : line[i] \in Marks /\ (\A k \in 1 .. i - 1 : line[k] \in NameTokens) => i = a + 1
  <2>1. \A k \in 1 .. a : line[k] \notin Marks
    BY <1>2 DEF NameTokens, Marks
  <2>2. line[a + 1] \notin NameTokens
    BY <1>2 DEF NameTokens, Marks
  <2> HIDE DEF a, b, c
  <2> QED
    BY <1>1, <2>1, <2>2
<1>4. a + 1 \in 1 .. c /\ \A k \in 1 .. (a + 1) - 1 : line[k] \in NameTokens
  <2> HIDE DEF a, b, c
  <2> QED
    BY <1>1, <1>2
<1>5. Mark(line) = a + 1
  <2> HIDE DEF a, b, c
  <2> QED
    BY <1>1, <1>2, <1>3, <1>4 DEF Mark, Marks
<1>6. SubSeq(line, 1, a) = name
  <2>1. SubSeq(line, 1, a) \in Seq(Tokens) /\ Len(SubSeq(line, 1, a)) = a
    BY <1>1, <1>4, SubSeqProperties
  <2>2. \A k \in 1 .. a : SubSeq(line, 1, a)[k] = name[k]
    BY <1>1, <1>4, SubSeqProperties DEF Composed
  <2> QED
    BY <2>1, <2>2, SeqEqual
<1>7. IsRequest(line) <=> b = 0 \/ (b = 1 /\ line[a + 2] # Junk)
  <2> HIDE DEF a, b, c
  <2>1. ASSUME IsRequest(line) PROVE b = 0 \/ (b = 1 /\ line[a + 2] # Junk)
    <3>1. PICK i \in 1 .. c :
            /\ \A k \in 1 .. i - 1 : line[k] \in NameTokens
            /\ line[i] \in Marks
            /\ c = i \/ (c = i + 1 /\ line[i + 1] # Junk)
      BY <1>1, <2>1 DEF IsRequest, Marks, c
    <3>2. i = a + 1
      BY <1>3, <3>1
    <3> QED
      BY <1>1, <3>1, <3>2
  <2>2. ASSUME b = 0 \/ (b = 1 /\ line[a + 2] # Junk) PROVE IsRequest(line)
    <3>1. c = a + 1 \/ (c = (a + 1) + 1 /\ line[(a + 1) + 1] # Junk)
      BY <1>1, <2>2
    <3> QED
      BY <1>1, <1>2, <1>4, <3>1 DEF IsRequest, Marks, c
  <2> QED
    BY <2>1, <2>2
<1>8. Mark(line) - 1 = a
  BY <1>1, <1>5
<1> HIDE DEF a, b, c
<1> QED
  BY <1>1, <1>3, <1>5, <1>6, <1>7, <1>8 DEF a, b, c

LEMMA LineOfNoRequest ==
  ASSUME SetTypes, LineFits, setState # "input"
  PROVE  ~IsRequest(setLine)
<1> DEFINE c == Len(setLine)
<1>1. c \in Nat /\ DOMAIN setLine = 1 .. c
  BY LenProperties DEF SetTypes
<1> SUFFICES ASSUME IsRequest(setLine) PROVE FALSE
  OBVIOUS
<1>2. PICK i \in 1 .. c : setLine[i] \in Marks /\ \A k \in 1 .. i - 1 : setLine[k] \in NameTokens
  BY <1>1 DEF IsRequest, Marks
<1>3. setLine[i] \notin NameTokens /\ setLine[i] # "?"
  BY <1>2 DEF NameTokens, Marks
<1>4. CASE setState = "name"
  <2>1. setLine \in Seq(NameTokens)
    BY <1>4 DEF SetTypes, LineFits
  <2> QED
    BY <1>2, <1>3, <2>1, ElementOfSeq
<1>5. CASE setState = "error"
  <2>1. PICK j \in 1 .. c : setLine[j] = "?" /\ \A k \in 1 .. j - 1 : setLine[k] \in NameTokens
    BY <1>1, <1>5 DEF LineFits
  <2>2. "?" \notin NameTokens
    BY DEF NameTokens
  <2> HIDE DEF c
  <2> QED
    BY <1>1, <1>2, <1>3, <2>1, <2>2
<1> QED
  BY <1>4, <1>5 DEF SetTypes

-----------------------------------------------------------------------------
(* The steps.                                                               *)

LEMMA SetInitial == SetInit => SetInv
<1> SUFFICES ASSUME SetInit PROVE SetInv
  OBVIOUS
<1>1. setName = <<>> /\ setInput = <<>> /\ setLine = <<>> /\ setState = "name" /\ setType = "read"
  BY DEF SetInit
<1>2. setValues \in [SetStored -> Numbers]
  BY DEF SetInit, Numbers
<1>3. SetTypes
  <2> HIDE DEF NameTokens, Documents, Tokens
  <2> QED
    BY <1>1, <1>2, EmptySeq DEF SetTypes
<1>4. LineFits
  BY <1>1 DEF LineFits
<1>5. ~Answered
  BY DEF SetInit, NoLine, Answered
<1> QED
  BY <1>3, <1>4, <1>5 DEF SetInv, LinesAnswered, LinesStandAlone, WritesArePrefixes

LEMMA Unanswered ==
  ASSUME Forget
  PROVE  LinesAnswered'
<1>1. ~Answered'
  BY DEF Forget, NoLine, Answered
<1> QED
  BY <1>1 DEF LinesAnswered, LinesStandAlone, WritesArePrefixes

LEMMA TokensAre ==
  /\ NameTokens \subseteq Tokens /\ Documents \subseteq Tokens /\ {"<", ">", "?"} \subseteq Tokens
  /\ "?" \notin NameTokens /\ "<" \notin NameTokens /\ ">" \notin NameTokens
BY DEF NameTokens, Tokens

LEMMA NameKeeps ==
  ASSUME SetInv, ReceiveName
  PROVE  SetInv'
<1>1. PICK t \in NameTokens \cup {"<", ">", "?"} :
        /\ setLine' = Append(setLine, t)
        /\ setName' = IF t \in NameTokens THEN Append(setName, t) ELSE setName
        /\ setType' = IF t = "<" THEN "write" ELSE setType
        /\ setState' = CASE t \in {"<", ">"} -> "input"
                         [] t \in NameTokens -> "name"
                         [] t = "?" -> "error"
  BY DEF ReceiveName
<1>2. /\ setState = "name" /\ setLine = setName /\ setInput = <<>> /\ setType = "read"
      /\ setName \in Seq(NameTokens) /\ setLine \in Seq(Tokens)
  BY DEF ReceiveName, SetInv, SetTypes, LineFits
<1>3. setInput' = setInput /\ setValues' = setValues /\ LinesAnswered'
  BY Unanswered DEF ReceiveName
<1>4. setState' = IF t \in {"<", ">"} THEN "input" ELSE IF t \in NameTokens THEN "name" ELSE "error"
  BY <1>1, TokensAre
<1> DEFINE a == Len(setName)
<1>5. a \in Nat /\ Len(setLine) = a
  BY <1>2, LenProperties
<1>6. /\ setLine' \in Seq(Tokens) /\ Len(setLine') = a + 1 /\ setLine'[a + 1] = t
      /\ \A k \in 1 .. a : setLine'[k] = setLine[k]
      /\ DOMAIN setLine' = 1 .. a + 1
  <2>1. t \in Tokens
    BY TokensAre
  <2>2. setLine' \in Seq(Tokens)
    BY <1>1, <1>2, <2>1, AppendProperties
  <2> QED
    BY <1>1, <1>2, <1>5, <2>1, <2>2, AppendProperties, LenProperties
<1>7. \A k \in 1 .. a : setName[k] \in NameTokens
  BY <1>2, ElementOfSeq
<1>8. SetTypes'
  <2>1. setName' \in Seq(NameTokens)
    BY <1>1, <1>2, AppendProperties
  <2>2. setType' \in {"read", "write"} /\ setState' \in {"name", "input", "error"}
    BY <1>1, <1>2, <1>4
  <2> QED
    BY <1>3, <1>6, <2>1, <2>2 DEF SetTypes, SetInv
<1>9. LineFits'
  <2>1. CASE t \in NameTokens
    <3>1. setState' = "name" /\ setLine' = setName' /\ setInput' = <<>> /\ setType' = "read"
      BY <1>1, <1>2, <1>3, <1>4, <2>1, TokensAre
    <3> QED
      BY <3>1 DEF LineFits
  <2>2. CASE t \in {"<", ">"}
    <3>1. setState' = "input" /\ setName' = setName /\ setInput' = <<>>
      BY <1>1, <1>2, <1>3, <1>4, <2>2, TokensAre
    <3>2. t = IF setType' = "write" THEN "<" ELSE ">"
      BY <1>1, <1>2, <2>2
    <3>3. Len(setInput') = 0 /\ Len(setName') = a
      BY <3>1
    <3> HIDE DEF a
    <3>4. Len(setLine') = a + 1 + 0 /\ 1 .. 0 = {}
      BY <1>5, <1>6
    <3>5. Composed(setLine', setName', setType', setInput')
      BY <1>2, <1>6, <3>1, <3>2, <3>3, <3>4 DEF Composed
    <3> QED
      BY <3>1, <3>5 DEF LineFits
  <2>3. CASE t = "?"
    <3>1. setState' = "error"
      BY <1>4, <2>3, TokensAre
    <3> HIDE DEF a
    <3>2. a + 1 \in DOMAIN setLine' /\ setLine'[a + 1] = "?"
      BY <1>5, <1>6, <2>3
    <3>3. \A k \in 1 .. (a + 1) - 1 : setLine'[k] \in NameTokens
      BY <1>2, <1>5, <1>6, <1>7
    <3> QED
      BY <3>1, <3>2, <3>3 DEF LineFits
  <2> QED
    BY <2>1, <2>2, <2>3
<1> QED
  BY <1>3, <1>8, <1>9 DEF SetInv

LEMMA InputKeeps ==
  ASSUME SetInv, ReceiveInput
  PROVE  SetInv'
<1>1. PICK d \in Documents : setInput' = Append(setInput, d) /\ setLine' = Append(setLine, d)
  BY DEF ReceiveInput
<1>2. /\ setState = "input" /\ setName \in Seq(NameTokens) /\ setLine \in Seq(Tokens)
      /\ setInput \in Seq(Documents) /\ Composed(setLine, setName, setType, setInput)
  BY DEF ReceiveInput, SetInv, SetTypes, LineFits
<1>3. /\ setState' = setState /\ setName' = setName /\ setType' = setType /\ setValues' = setValues
      /\ LinesAnswered'
  BY Unanswered DEF ReceiveInput
<1> DEFINE a == Len(setName)
           b == Len(setInput)
<1>4. a \in Nat /\ b \in Nat /\ Len(setLine) = a + 1 + b
  BY <1>2, LenProperties DEF Composed
<1>5. d \in Tokens
  BY TokensAre
<1>6. /\ setLine' \in Seq(Tokens) /\ Len(setLine') = (a + 1 + b) + 1 /\ setLine'[(a + 1 + b) + 1] = d
      /\ \A k \in 1 .. a + 1 + b : setLine'[k] = setLine[k]
  <2> DEFINE c == Len(setLine)
  <2>1. /\ setLine' \in Seq(Tokens) /\ Len(setLine') = c + 1 /\ setLine'[c + 1] = d
        /\ \A k \in 1 .. c : setLine'[k] = setLine[k]
    BY <1>1, <1>2, <1>5, AppendProperties
  <2> HIDE DEF c
  <2> QED
    BY <1>4, <2>1 DEF c
<1>7. /\ setInput' \in Seq(Documents) /\ Len(setInput') = b + 1 /\ setInput'[b + 1] = d
      /\ \A k \in 1 .. b : setInput'[k] = setInput[k]
  BY <1>1, <1>2, <1>4, AppendProperties
<1>8. SetTypes'
  BY <1>3, <1>6, <1>7 DEF SetTypes, SetInv
<1>9. Composed(setLine', setName', setType', setInput')
  <2>1. /\ \A k \in 1 .. a : setLine[k] = setName[k]
        /\ setLine[a + 1] = (IF setType = "write" THEN "<" ELSE ">")
        /\ \A k \in 1 .. b : setLine[a + 1 + k] = setInput[k]
    BY <1>2 DEF Composed
  <2>2. Len(setName') = a
    BY <1>3
  <2> HIDE DEF a, b
  <2>3. \A k \in 1 .. a : setLine'[k] = setName'[k]
    BY <1>3, <1>4, <1>6, <2>1
  <2>4. setLine'[a + 1] = (IF setType' = "write" THEN "<" ELSE ">")
    BY <1>3, <1>4, <1>6, <2>1
  <2>5. ASSUME NEW k \in 1 .. b + 1 PROVE setLine'[a + 1 + k] = setInput'[k]
    <3>1. CASE k = b + 1
      <4>1. a + 1 + k = (a + 1 + b) + 1
        BY <1>4, <3>1
      <4> QED
        BY <1>6, <1>7, <3>1, <4>1
    <3>2. CASE k \in 1 .. b
      <4>1. a + 1 + k \in 1 .. a + 1 + b
        BY <1>4, <3>2
      <4> QED
        BY <1>6, <1>7, <2>1, <3>2, <4>1
    <3> QED
      BY <1>4, <3>1, <3>2
  <2>6. Len(setLine') = a + 1 + (b + 1)
    BY <1>4, <1>6
  <2> QED
    BY <1>7, <2>2, <2>3, <2>4, <2>5, <2>6 DEF Composed
<1>10. LineFits'
  BY <1>2, <1>3, <1>9 DEF LineFits
<1> QED
  BY <1>3, <1>8, <1>10 DEF SetInv

LEMMA ErrorKeeps ==
  ASSUME SetInv, ReceiveAfterError
  PROVE  SetInv'
<1>1. PICK t \in {"channel1Gain", "<", "?"} : setLine' = Append(setLine, t)
  BY DEF ReceiveAfterError
<1>2. setState = "error" /\ setLine \in Seq(Tokens)
  BY DEF ReceiveAfterError, SetInv, SetTypes
<1>3. UNCHANGED <<setState, setName, setType, setInput, setValues>> /\ LinesAnswered'
  BY Unanswered DEF ReceiveAfterError
<1> DEFINE c == Len(setLine)
<1>4. c \in Nat /\ DOMAIN setLine = 1 .. c
  BY <1>2, LenProperties
<1>5. t \in Tokens
  BY TokensAre DEF NameTokens
<1>6. setLine' \in Seq(Tokens) /\ DOMAIN setLine' = 1 .. c + 1 /\ \A k \in 1 .. c : setLine'[k] = setLine[k]
  <2>1. setLine' \in Seq(Tokens) /\ Len(setLine') = c + 1
    BY <1>1, <1>2, <1>5, AppendProperties
  <2> QED
    BY <1>1, <1>2, <1>4, <1>5, <2>1, AppendProperties, LenProperties
<1>7. PICK j \in 1 .. c : setLine[j] = "?" /\ \A k \in 1 .. j - 1 : setLine[k] \in NameTokens
  BY <1>2, <1>4 DEF SetInv, LineFits
<1> HIDE DEF c
<1>8. j \in DOMAIN setLine' /\ setLine'[j] = "?" /\ \A k \in 1 .. j - 1 : setLine'[k] \in NameTokens
  BY <1>4, <1>6, <1>7
<1>9. LineFits'
  BY <1>2, <1>3, <1>8 DEF LineFits
<1>10. SetTypes'
  BY <1>3, <1>6 DEF SetTypes, SetInv
<1> QED
  BY <1>3, <1>9, <1>10 DEF SetInv

\* WritesArePrefixes, of a line, its answer and the values before and after it.
PrefixSet(line, answer, before, after) ==
  LET members == line[3].members
      skip(m) == line[1] = "basic" /\ m[1] \in SkippedByBasic
      good(m) == m[1] \in Writable \ Absent /\ Accepted(m[1], m[2])
      Applied(n) == \A name \in SetStored :
        LET its == {k \in 1 .. n : members[k][1] = name /\ ~skip(members[k])}
        IN IF its = {} THEN after[name] = before[name]
           ELSE after[name] = members[CHOOSE k \in its : \A j \in its : j <= k][2]
  IN (IsRequest(line) /\ Len(line) = 3 /\ line[1] \in Special /\ line[2] = "<" /\ line[3].json = "object") =>
       \E n \in 0 .. Len(members) :
         /\ \A k \in 1 .. n : skip(members[k]) \/ good(members[k])
         /\ Applied(n)
         /\ IF "error" \in DOMAIN answer THEN n < Len(members) /\ ~skip(members[n + 1]) /\ ~good(members[n + 1])
            ELSE n = Len(members)

LEMMA PrefixSetIs ==
  ASSUME NEW line, NEW answer, NEW before, NEW after, NEW n \in 0 .. Len(line[3].members),
         AppliedUpTo(line[1], line[3].members, before, after, n),
         IF "error" \in DOMAIN answer
         THEN /\ n < Len(line[3].members)
              /\ ~Skipped(line[1], line[3].members[n + 1][1]) /\ ~GoodMember(line[3].members[n + 1])
         ELSE n = Len(line[3].members)
  PROVE  PrefixSet(line, answer, before, after)
<1> DEFINE members == line[3].members
           skip(m) == line[1] = "basic" /\ m[1] \in SkippedByBasic
           good(m) == m[1] \in Writable \ Absent /\ Accepted(m[1], m[2])
           its(name) == {k \in 1 .. n : members[k][1] = name /\ ~skip(members[k])}
<1>1. \A k \in 1 .. n : skip(members[k]) \/ good(members[k])
  BY DEF AppliedUpTo, Skipped, GoodMember
<1>2. ASSUME NEW name \in SetStored
      PROVE  IF its(name) = {} THEN after[name] = before[name]
             ELSE after[name] = members[CHOOSE k \in its(name) : \A j \in its(name) : j <= k][2]
  <2> DEFINE set == its(name)
  <2>1. set = Setters(line[1], members, n, name)
    BY DEF Setters, Skipped
  <2>2. after[name] = ValueLeft(line[1], members, before, n, name)
    BY DEF AppliedUpTo
  <2> HIDE DEF set
  <2>3. IF set = {} THEN after[name] = before[name]
        ELSE after[name] = members[CHOOSE k \in set : \A j \in set : j <= k][2]
    BY <2>1, <2>2, Zenon DEF ValueLeft, LastOf
  <2> QED
    BY <2>3 DEF set
<1>3. IF "error" \in DOMAIN answer THEN n < Len(members) /\ ~skip(members[n + 1]) /\ ~good(members[n + 1])
      ELSE n = Len(members)
  BY DEF Skipped, GoodMember
<1> QED
  BY <1>1, <1>2, <1>3, Zenon DEF PrefixSet

LEMMA EndKeeps ==
  ASSUME SetInv, EndOfLine
  PROVE  SetInv'
<1> DEFINE input == Parsed(setInput)
           asked == setState = "input" /\ input.json # "not json"
           r == IF asked THEN Dispatch(setName, setType, input, setValues)
                ELSE Failed("invalid", setValues)
<1>1. /\ setValues' = r.values
      /\ setAnswer' = IF r.error = "none" THEN [result |-> r.result] ELSE [error |-> r.error]
      /\ setState' = "name" /\ setName' = <<>> /\ setType' = "read" /\ setInput' = <<>>
      /\ setLine' = <<>> /\ setLast' = [line |-> setLine, values |-> setValues]
      /\ Len(setLine) > 0
  BY DEF EndOfLine
<1>2. /\ setName \in Seq(NameTokens) /\ setInput \in Seq(Documents) /\ setLine \in Seq(Tokens)
      /\ setType \in {"read", "write"} /\ setValues \in SetValues
      /\ setState = "input" => Composed(setLine, setName, setType, setInput)
  BY DEF SetInv, SetTypes, LineFits, SetValues
<1> DEFINE line == setLine
           name == setName
<1>3. asked <=> IsRequest(line)
  <2>1. CASE setState # "input"
    BY <2>1, LineOfNoRequest DEF SetInv
  <2>2. CASE setState = "input"
    <3>1. IsRequest(line) <=> Len(setInput) = 0 \/ (Len(setInput) = 1 /\ line[Len(name) + 2] # Junk)
      BY <1>2, <2>2, LineOfRequest
    <3>2. Null.json # "not json" /\ Junk.json = "not json"
      BY DEF Null, Junk
    <3>3. CASE Len(setInput) = 0
      <4>1. input = Null
        BY <1>2, <3>3, ParsedIs
      <4> QED
        BY <2>2, <3>1, <3>2, <3>3, <4>1
    <3>4. CASE Len(setInput) = 1
      <4>1. input = setInput[1] /\ setInput[1] \in Documents
        BY <1>2, <3>4, ParsedIs
      <4>2. line[Len(name) + 2] = setInput[1]
        <5>1. line[Len(name) + 1 + 1] = setInput[1]
          BY <1>2, <2>2, <3>4 DEF Composed
        <5>2. Len(name) \in Nat
          BY <1>2, LenProperties
        <5> QED
          BY <5>1, <5>2
      <4>3. (input.json # "not json") <=> (line[Len(name) + 2] # Junk)
        BY <4>1, <4>2, DocumentIs
      <4>4. Len(setInput) # 0
        BY <3>4
      <4> HIDE DEF input
      <4> QED
        BY <2>2, <3>1, <3>4, <4>3, <4>4
    <3>5. CASE Len(setInput) \notin {0, 1}
      <4>1. input = Junk
        BY <1>2, <3>5, ParsedIs
      <4> QED
        BY <2>2, <3>1, <3>2, <3>5, <4>1
    <3> QED
      BY <3>3, <3>4, <3>5
  <2> QED
    BY <2>1, <2>2
<1>4. asked => Dispatched(r, name, setType, input, setValues)
  <2>1. SUFFICES ASSUME asked PROVE Dispatched(Dispatch(name, setType, input, setValues), name, setType, input, setValues)
    OBVIOUS
  <2>2. input \in Documents \cup {Null}
    <3>1. input.json # "not json" /\ Junk.json = "not json"
      BY <2>1 DEF Junk
    <3>2. Len(setInput) = 0 \/ Len(setInput) = 1 \/ Len(setInput) \notin {0, 1}
      OBVIOUS
    <3> QED
      BY <1>2, <3>1, <3>2, ParsedIs
  <2> QED
    BY <1>2, <2>2, DispatchIs
<1>5. ~asked => r.error # "none" /\ r.values = setValues
  BY DEF Failed
<1>6. /\ setLast'.line = line /\ setLast'.values = setValues
      /\ Failure' <=> r.error # "none"
      /\ r.error = "none" => setAnswer' = [result |-> r.result] /\ setAnswer'.result = r.result
  BY <1>1 DEF Failure
<1>7. /\ setState = "input" => Mark(line) = Len(name) + 1 /\ SubSeq(line, 1, Mark(line) - 1) = name
  BY <1>2, LineOfRequest
<1>8. setState = "input" => line[Mark(line)] = (IF setType = "write" THEN "<" ELSE ">")
  BY <1>2, <1>7 DEF Composed
<1>9. LinesStandAlone'
  <2>1. CASE ~asked
    BY <1>3, <1>5, <1>6, <1>1, <2>1 DEF LinesStandAlone
  <2>2. CASE asked
    <3>1. /\ Len(name) # 1 => r.error # "none" /\ r.values = setValues
          /\ Len(name) = 1 /\ setType = "read" =>
               /\ r.values = setValues
               /\ name[1] \in SetStored => r.error = "none" /\ r.result = <<<<name[1], setValues[name[1]]>>>>
               /\ name[1] \in Special => r.error = "none" /\ ToldOf(r.result, name[1], setValues)
      BY <1>4, <2>2 DEF Dispatched
    <3>2. IsRequest(line) /\ SubSeq(line, 1, Mark(line) - 1) = name /\ (line[Mark(line)] = ">" => setType = "read")
      BY <1>2, <1>3, <1>7, <1>8, <2>2
    <3> HIDE DEF r, asked, input
    <3>3. Len(name) # 1 => setValues' = setLast'.values /\ Failure'
      BY <1>1, <1>6, <3>1
    <3>4. ASSUME line[Mark(line)] = ">", Len(name) = 1
          PROVE  /\ setValues' = setLast'.values
                 /\ name[1] \in SetStored => setAnswer' = [result |-> <<<<name[1], setValues'[name[1]]>>>>]
                 /\ name[1] \in Special => ToldOf(setAnswer'.result, name[1], setValues')
      <4>1. setValues' = setValues
        BY <1>1, <3>1, <3>2, <3>4
      <4>2. name[1] \in SetStored => r.result = <<<<name[1], setValues[name[1]]>>>> /\ r.error = "none"
        BY <3>1, <3>2, <3>4
      <4>3. name[1] \in Special => r.error = "none" /\ ToldOf(r.result, name[1], setValues)
        BY <3>1, <3>2, <3>4
      <4> QED
        BY <1>6, <4>1, <4>2, <4>3
    <3> QED
      BY <1>6, <3>2, <3>3, <3>4 DEF LinesStandAlone, ToldOf
  <2> QED
    BY <2>1, <2>2
<1>10. WritesArePrefixes'
  <2> SUFFICES ASSUME IsRequest(line), Len(line) = 3, line[1] \in Special, line[2] = "<", line[3].json = "object"
               PROVE  LET members == line[3].members
                      IN \E n \in 0 .. Len(members) :
                           /\ AppliedUpTo(line[1], members, setValues, r.values, n)
                           /\ IF r.error # "none"
                              THEN n < Len(members) /\ ~Skipped(line[1], members[n + 1][1]) /\ ~GoodMember(members[n + 1])
                              ELSE n = Len(members)
    <3>1. /\ setValues' = r.values /\ setLast'.values = setValues /\ setLast'.line = line
          /\ Failure' <=> r.error # "none"
      BY <1>1, <1>6
    <3> HIDE DEF r, asked, input
    <3>2. (Answered' => PrefixSet(setLast'.line, setAnswer', setLast'.values, setValues')) => WritesArePrefixes'
      BY DEF WritesArePrefixes, PrefixSet, Failure
    <3>3. PrefixSet(line, setAnswer', setValues, r.values)
      <4>1. CASE ~(/\ IsRequest(line) /\ Len(line) = 3 /\ line[1] \in Special /\ line[2] = "<"
                   /\ line[3].json = "object")
        BY <4>1 DEF PrefixSet
      <4>2. CASE /\ IsRequest(line) /\ Len(line) = 3 /\ line[1] \in Special /\ line[2] = "<"
                 /\ line[3].json = "object"
        <5> DEFINE members == line[3].members
        <5>1. PICK n \in 0 .. Len(members) :
                /\ AppliedUpTo(line[1], members, setValues, r.values, n)
                /\ IF r.error # "none"
                   THEN n < Len(members) /\ ~Skipped(line[1], members[n + 1][1]) /\ ~GoodMember(members[n + 1])
                   ELSE n = Len(members)
          BY <4>2
        <5>2. IF "error" \in DOMAIN setAnswer'
              THEN n < Len(members) /\ ~Skipped(line[1], members[n + 1][1]) /\ ~GoodMember(members[n + 1])
              ELSE n = Len(members)
          BY <3>1, <5>1 DEF Failure
        <5> QED
          BY <5>1, <5>2, PrefixSetIs
      <4> QED
        BY <4>1, <4>2
    <3> QED
      BY <3>1, <3>2, <3>3
  <2>1. asked /\ setState = "input"
    BY <1>3
  <2> DEFINE a == Len(name)
             b == Len(setInput)
  <2>2. /\ a \in Nat /\ b \in Nat /\ 3 = a + 1 + b
        /\ \A k \in 1 .. a : line[k] = name[k]
        /\ line[a + 1] = (IF setType = "write" THEN "<" ELSE ">")
        /\ \A k \in 1 .. b : line[a + 1 + k] = setInput[k]
    BY <1>2, <2>1, LenProperties DEF Composed
  <2>3. 2 = a + 1
    <3>1. 2 \in DOMAIN line /\ line[2] \in Marks /\ \A k \in 1 .. 2 - 1 : line[k] \in NameTokens
      <4>1. DOMAIN line = 1 .. 3
        BY <1>2, LenProperties
      <4>2. line[1] \in NameTokens
        BY DEF Special, NameTokens
      <4> QED
        BY <4>1, <4>2 DEF Marks
    <3> QED
      BY <1>2, <2>1, <3>1, LineOfRequest
  <2> HIDE DEF a, b
  <2>5. a = 1 /\ b = 1
    BY <2>2, <2>3
  <2>6. name[1] = line[1] /\ setType = "write" /\ line[3] = setInput[1]
    <3>1. line[1] = name[1] /\ line[1 + 1] = (IF setType = "write" THEN "<" ELSE ">") /\ line[1 + 1 + 1] = setInput[1]
      BY <2>2, <2>5
    <3> QED
      BY <1>2, <3>1
  <2>7. input = line[3]
    BY <1>2, <2>5, <2>6, ParsedIs DEF b
  <2>4. Behind(line[1], line[3].members, setValues, r, Len(line[3].members))
    BY <1>4, <2>1, <2>5, <2>6, <2>7 DEF Dispatched, a
  <2> QED
    BY <2>4 DEF Behind
<1>11. SetTypes'
  <2>1. r.values \in SetValues
    BY <1>2, <1>4, <1>5 DEF Dispatched
  <2> QED
    BY <1>1, <2>1, EmptySeq DEF SetTypes, SetValues
<1>12. LineFits'
  BY <1>1 DEF LineFits
<1> QED
  BY <1>9, <1>10, <1>11, <1>12 DEF SetInv, LinesAnswered

LEMMA SetStep == SetInv /\ [SetNext]_setVars => SetInv'
<1> SUFFICES ASSUME SetInv, [SetNext]_setVars PROVE SetInv'
  OBVIOUS
<1>1. CASE UNCHANGED setVars
  <2>1. /\ setState' = setState /\ setName' = setName /\ setType' = setType /\ setInput' = setInput
        /\ setValues' = setValues /\ setAnswer' = setAnswer /\ setLine' = setLine /\ setLast' = setLast
    BY <1>1 DEF setVars, parserVars
  <2>2. SetTypes'
    BY <2>1 DEF SetInv, SetTypes
  <2>3. LineFits'
    BY <2>1 DEF SetInv, LineFits
  <2>4. LinesStandAlone'
    BY <2>1 DEF SetInv, LinesAnswered, LinesStandAlone, Answered, Failure
  <2>5. WritesArePrefixes'
    <3>1. (Answered' => PrefixSet(setLast'.line, setAnswer', setLast'.values, setValues')) => WritesArePrefixes'
      BY DEF WritesArePrefixes, PrefixSet, Failure
    <3>2. Answered => PrefixSet(setLast.line, setAnswer, setLast.values, setValues)
      BY DEF SetInv, LinesAnswered, WritesArePrefixes, PrefixSet, Failure
    <3> QED
      BY <2>1, <3>1, <3>2 DEF Answered
  <2> QED
    BY <2>2, <2>3, <2>4, <2>5 DEF SetInv, LinesAnswered
<1> QED
  BY <1>1, NameKeeps, InputKeeps, ErrorKeeps, EndKeeps DEF SetNext

\* The firmware answers each line by itself, whatever the lines before it have
\* left in the parser, and a write of several settings leaves a prefix of its
\* members written: for lines and objects of any length.
THEOREM LinesHeld == SetSpec => []LinesAnswered
<1>1. SetInv => LinesAnswered
  BY DEF SetInv
<1> QED
  BY <1>1, SetInitial, SetStep, PTL DEF SetSpec

-----------------------------------------------------------------------------
(*****************************************************************************)
(* Resampler: the resampler and its filter.                                  *)
(*****************************************************************************)

\* Quotient and remainder.
LEMMA DivMod ==
  ASSUME NEW a \in Nat, NEW u \in Nat \ {0}
  PROVE  /\ a \div u \in Nat /\ a % u \in Nat /\ a % u < u
         /\ a = u * (a \div u) + (a % u)
OBVIOUS

\* There is only one quotient with one remainder.
LEMMA DivIs ==
  ASSUME NEW a \in Nat, NEW u \in Nat \ {0}, NEW q \in Nat, NEW r \in Nat, r < u, a = u * q + r
  PROVE  a \div u = q /\ a % u = r
OBVIOUS

\* A step of the filter's loop moves its place by the down factor.
LEMMA AdvancedBy ==
  ASSUME NEW in \in Nat, NEW phase \in Nat, NEW u \in Nat \ {0}, NEW d \in Nat \ {0}
  PROVE  /\ u * (in + (phase + d) \div u) + ((phase + d) % u) = u * in + phase + d
         /\ in + (phase + d) \div u \in Nat /\ (phase + d) % u \in Nat /\ (phase + d) % u < u
<1> DEFINE q == (phase + d) \div u
           r == (phase + d) % u
<1>1. q \in Nat /\ r \in Nat /\ r < u /\ phase + d = u * q + r
  BY DivMod
<1> HIDE DEF q, r
<1>2. u * (in + q) = u * in + u * q
  BY <1>1
<1>3. u * in \in Nat /\ u * q \in Nat /\ in + q \in Nat
  BY <1>1
<1>4. u * (in + q) + r = u * in + phase + d
  BY <1>1, <1>2, <1>3
<1> QED
  BY <1>1, <1>3, <1>4, Zenon DEF q, r

\* A place is inside of the chunk exactly if its row is.
LEMMA InsideIs ==
  ASSUME NEW in \in Nat, NEW phase \in Nat, NEW u \in Nat \ {0}, phase < u, NEW size \in Nat
  PROVE  in >= size <=> u * in + phase >= u * size
<1>1. CASE in >= size
  <2>1. u * in >= u * size
    BY <1>1
  <2> QED
    BY <1>1, <2>1
<1>2. CASE in < size
  <2>1. u * in + u <= u * size
    <3>1. in + 1 <= size
      BY <1>2
    <3>2. u * (in + 1) <= u * size
      BY <3>1
    <3> QED
      BY <3>2
  <2> QED
    BY <1>2, <2>1
<1> QED
  BY <1>1, <1>2

\* A multiple that is less than one divisor too large is the ceiling's.
LEMMA CeilingIs ==
  ASSUME NEW n \in Nat, NEW d \in Nat \ {0}, NEW m \in Nat, NEW s \in Nat, s < d, d * m = n + s
  PROVE  Ceiling(n, d) = m
<1>1. n + d - 1 = d * m + (d - 1 - s) /\ d - 1 - s \in Nat /\ d - 1 - s < d /\ n + d - 1 \in Nat
  BY SMT
<1> QED
  BY <1>1, DivIs DEF Ceiling

\* The ceiling is less than one divisor too large.
LEMMA CeilingOf ==
  ASSUME NEW n \in Nat, NEW d \in Nat \ {0}
  PROVE  \E s \in Nat : Ceiling(n, d) \in Nat /\ s < d /\ d * Ceiling(n, d) = n + s
<1> DEFINE a == n + d - 1
           q == a \div d
           r == a % d
<1>1. a \in Nat /\ q \in Nat /\ r \in Nat /\ r < d /\ a = d * q + r
  BY DivMod
<1>2. Ceiling(n, d) = q
  BY DEF Ceiling
<1> HIDE DEF q, r
<1>3. d * q = n + (d - 1 - r) /\ d - 1 - r \in Nat /\ d - 1 - r < d
  <2>1. d * q \in Nat
    BY <1>1
  <2> QED
    BY <1>1, <2>1
<1> QED
  BY <1>1, <1>2, <1>3

\* How many steps of the down factor it takes from a place s, below it, to the
\* end of the chunk.
LEMMA StepsTo ==
  ASSUME NEW n \in Nat, NEW d \in Nat \ {0}, NEW s \in Nat, s < d, NEW e \in Nat,
         s + d * e >= n, e = 0 \/ s + d * (e - 1) < n
  PROVE  e = n \div d + IF s < n % d THEN 1 ELSE 0
<1> DEFINE q == n \div d
           r == n % d
<1>1. q \in Nat /\ r \in Nat /\ r < d /\ n = d * q + r
  BY DivMod
<1> HIDE DEF q, r
<1>2. \A x, y \in Int : x > y => d * x >= d * y + d
  <2> TAKE x, y \in Int
  <2> SUFFICES ASSUME x > y PROVE d * x >= d * y + d
    OBVIOUS
  <2>1. x >= y + 1
    OBVIOUS
  <2>2. d * x >= d * (y + 1)
    BY <2>1
  <2> QED
    BY <2>2
<1>3. CASE s < r
  <2>1. ~(e > q + 1)
    <3> SUFFICES ASSUME e > q + 1 PROVE FALSE
      OBVIOUS
    <3>1. d * (e - 1) >= d * q + d
      BY <1>1, <1>2
    <3>2. d * (e - 1) \in Int /\ d * q \in Int
      BY <1>1
    <3> QED
      BY <1>1, <3>1, <3>2
  <2>2. ~(e < q + 1)
    <3> SUFFICES ASSUME e < q + 1 PROVE FALSE
      OBVIOUS
    <3>1. d * (q + 1) >= d * e + d /\ d * (q + 1) = d * q + d
      BY <1>1, <1>2
    <3>2. d * e \in Int /\ d * q \in Int
      BY <1>1
    <3> QED
      BY <1>1, <1>3, <3>1, <3>2
  <2> QED
    BY <1>1, <1>3, <2>1, <2>2 DEF q, r
<1>4. CASE ~(s < r)
  <2>1. ~(e > q)
    <3> SUFFICES ASSUME e > q PROVE FALSE
      OBVIOUS
    <3>1. d * (e - 1) >= d * q
      <4>1. e - 1 = q \/ e - 1 > q
        BY <1>1
      <4> QED
        BY <1>1, <1>2, <4>1
    <3>2. d * (e - 1) \in Int /\ d * q \in Int
      BY <1>1
    <3> QED
      BY <1>1, <1>4, <3>1, <3>2
  <2>2. ~(e < q)
    <3> SUFFICES ASSUME e < q PROVE FALSE
      OBVIOUS
    <3>1. d * q >= d * e + d
      BY <1>1, <1>2
    <3>2. d * e \in Int /\ d * q \in Int
      BY <1>1
    <3> QED
      BY <1>1, <3>1, <3>2
  <2> QED
    BY <1>1, <1>4, <2>1, <2>2 DEF q, r
<1> QED
  BY <1>3, <1>4

Up == rsOptions.up
Down == rsOptions.down
Order == History(rsOptions)

\* Where the filter stands, before a chunk that is still to come.
Stands ==
  /\ Up \in Nat \ {0} /\ Down \in Nat \ {0} /\ Order \in Nat
  /\ rsPhase \in Nat /\ rsPhase < Up /\ rsOffset \in Nat /\ rsPhase + Up * rsOffset < Down

\* A cursor is at its place: so many steps of the down factor from the first.
AtPlace(c, k) ==
  /\ c.in \in Nat /\ c.phase \in Nat /\ c.phase < Up
  /\ Up * c.in + c.phase = rsPhase + Up * rsOffset + Down * k

\* The loop takes as many outputs as the size computed ahead, and ends behind
\* the chunk.
CursorsFit(cs, size) ==
  /\ OutputSize(size) \in Nat /\ Len(cs) = OutputSize(size) + 1
  /\ DOMAIN cs = 1 .. Len(cs) /\ cs \in Seq({cs[k] : k \in 1 .. Len(cs)})
  /\ \A k \in 1 .. Len(cs) : AtPlace(cs[k], k - 1) /\ (k < Len(cs) => cs[k].in < size)
  /\ cs[OutputSize(size) + 1].in >= size /\ AtPlace(cs[OutputSize(size) + 1], OutputSize(size))

\* A step of the loop brings a cursor to its next place.
LEMMA AdvancedIs ==
  ASSUME Stands, NEW c, NEW k \in Nat, AtPlace(c, k)
  PROVE  AtPlace(Advanced(c), k + 1)
<1> DEFINE in == c.in + (c.phase + Down) \div Up
           phase == (c.phase + Down) % Up
<1>1. Advanced(c).in = in /\ Advanced(c).phase = phase
  BY DEF Advanced, Up, Down
<1>2. /\ c.in \in Nat /\ c.phase \in Nat /\ Up \in Nat \ {0} /\ Down \in Nat \ {0}
      /\ Up * c.in + c.phase = rsPhase + Up * rsOffset + Down * k
  BY DEF Stands, AtPlace
<1>3. Up * in + phase = Up * c.in + c.phase + Down /\ in \in Nat /\ phase \in Nat /\ phase < Up
  <2> DEFINE i == c.in
             f == c.phase
  <2>1. i \in Nat /\ f \in Nat /\ Up \in Nat \ {0} /\ Down \in Nat \ {0}
    BY <1>2
  <2> HIDE DEF i, f
  <2>2. /\ Up * (i + (f + Down) \div Up) + ((f + Down) % Up) = Up * i + f + Down
        /\ i + (f + Down) \div Up \in Nat /\ (f + Down) % Up \in Nat /\ (f + Down) % Up < Up
    BY <2>1, AdvancedBy
  <2> QED
    BY <2>2 DEF i, f
<1> HIDE DEF in, phase
<1>4. rsPhase + Up * rsOffset + Down * (k + 1) = rsPhase + Up * rsOffset + Down * k + Down
  BY DEF Stands
<1>5. Up * in + phase = rsPhase + Up * rsOffset + Down * (k + 1)
  BY <1>2, <1>3, <1>4
<1> QED
  BY <1>1, <1>3, <1>5 DEF AtPlace

\* The places of the loop are a function of the number of steps: quotients and
\* remainders satisfy its recursion.
LEMMA PlacesExist ==
  ASSUME Stands, NEW n \in Nat
  PROVE  \E at : at = [k \in 0 .. n |->
                        IF k = 0 THEN [in |-> rsOffset, phase |-> rsPhase] ELSE Advanced(at[k - 1])]
<1> DEFINE place(k) == rsPhase + Up * rsOffset + Down * k
           at == [k \in 0 .. n |-> [in |-> place(k) \div Up, phase |-> place(k) % Up]]
<1>1. \A k \in Nat : place(k) \in Nat
  BY DEF Stands
<1>2. ASSUME NEW k \in 0 .. n, NEW in \in Nat, NEW phase \in Nat, phase < Up, Up * in + phase = place(k)
      PROVE  at[k] = [in |-> in, phase |-> phase]
  <2>1. place(k) \div Up = in /\ place(k) % Up = phase
    <3> DEFINE a == place(k)
    <3>1. a \in Nat /\ a = Up * in + phase /\ Up \in Nat \ {0}
      BY <1>1, <1>2 DEF Stands
    <3> HIDE DEF a
    <3>2. a \div Up = in /\ a % Up = phase
      BY <1>2, <3>1, DivIs
    <3> QED
      BY <3>2 DEF a
  <2> QED
    BY <2>1
<1>3. ASSUME NEW k \in 0 .. n PROVE AtPlace(at[k], k)
  <2> DEFINE a == place(k)
  <2>1. a \in Nat /\ Up \in Nat \ {0} /\ at[k].in = a \div Up /\ at[k].phase = a % Up
    BY <1>1 DEF Stands
  <2> HIDE DEF a, at
  <2>2. AtPlace(at[k], k) <=> /\ at[k].in \in Nat /\ at[k].phase \in Nat /\ at[k].phase < Up
                             /\ Up * at[k].in + at[k].phase = a
    BY DEF AtPlace, a
  <2>3. /\ a \div Up \in Nat /\ a % Up \in Nat /\ a % Up < Up
        /\ a = Up * (a \div Up) + (a % Up)
    BY <2>1, DivMod
  <2> QED
    BY <2>1, <2>2, <2>3
<1>4. at[0] = [in |-> rsOffset, phase |-> rsPhase]
  <2>1. Up * rsOffset + rsPhase = place(0)
    BY DEF Stands
  <2> QED
    BY <1>2, <2>1 DEF Stands
<1>5. ASSUME NEW k \in 1 .. n PROVE at[k] = Advanced(at[k - 1])
  <2>1. k - 1 \in 0 .. n /\ k - 1 \in Nat /\ k \in 0 .. n /\ k - 1 + 1 = k
    OBVIOUS
  <2> DEFINE c == Advanced(at[k - 1])
  <2>2. AtPlace(c, k)
    BY <1>3, <2>1, AdvancedIs
  <2>3. c = [in |-> c.in, phase |-> c.phase]
    BY DEF Advanced
  <2> HIDE DEF c, at
  <2>4. c.in \in Nat /\ c.phase \in Nat /\ c.phase < Up /\ Up * c.in + c.phase = place(k)
    BY <2>2 DEF AtPlace
  <2>5. at[k] = [in |-> c.in, phase |-> c.phase]
    BY <1>2, <2>1, <2>4
  <2> QED
    BY <2>3, <2>5 DEF c
<1>6. DOMAIN at = 0 .. n /\ at = [k \in 0 .. n |-> at[k]]
  OBVIOUS
<1> HIDE DEF at
<1>7. at = [k \in 0 .. n |->
              IF k = 0 THEN [in |-> rsOffset, phase |-> rsPhase] ELSE Advanced(at[k - 1])]
  <2>1. \A k \in 0 .. n : at[k] = IF k = 0 THEN [in |-> rsOffset, phase |-> rsPhase] ELSE Advanced(at[k - 1])
    BY <1>4, <1>5
  <2> QED
    BY <1>6, <2>1
<1> QED
  BY <1>7

\* The loop's cursors, from wherever the filter stands.
LEMMA CursorsAre ==
  ASSUME Stands, NEW size \in Nat
  PROVE  CursorsFit(Cursors(size), size)
<1> DEFINE n == size * Up
           at == CHOOSE f : f = [k \in 0 .. n |->
                   IF k = 0 THEN [in |-> rsOffset, phase |-> rsPhase] ELSE Advanced(f[k - 1])]
           ends == {k \in DOMAIN at : at[k].in >= size}
           e == Min(ends)
           cs == [k \in 1 .. e + 1 |-> at[k - 1]]
           s == rsPhase + Up * rsOffset
<1>1. Cursors(size) = cs
  BY DEF Cursors, Up
<1>2. n \in Nat /\ Up \in Nat \ {0} /\ Down \in Nat \ {0} /\ s \in Nat /\ s < Down /\ n = Up * size
  BY DEF Stands
<1> HIDE DEF n
<1>3. at = [k \in 0 .. n |-> IF k = 0 THEN [in |-> rsOffset, phase |-> rsPhase] ELSE Advanced(at[k - 1])]
  <2>1. \E f : f = [k \in 0 .. n |->
                   IF k = 0 THEN [in |-> rsOffset, phase |-> rsPhase] ELSE Advanced(f[k - 1])]
    BY <1>2, PlacesExist
  <2> QED
    BY <2>1
<1> HIDE DEF at
<1>4. /\ DOMAIN at = 0 .. n /\ at[0] = [in |-> rsOffset, phase |-> rsPhase]
      /\ \A k \in 1 .. n : at[k] = Advanced(at[k - 1])
  BY <1>2, <1>3
<1>5. \A k \in 0 .. n : AtPlace(at[k], k)
  <2> DEFINE T == {k \in Nat : k <= n /\ ~AtPlace(at[k], k)}
  <2> SUFFICES T = {}
    BY <1>2
  <2> SUFFICES ASSUME T # {} PROVE FALSE
    OBVIOUS
  <2>1. PICK k \in T : \A m \in T : ~(m < k)
    BY LeastMember
  <2>2. CASE k = 0
    <3>1. AtPlace(at[0], 0)
      BY <1>2, <1>4 DEF AtPlace, Stands
    <3> QED
      BY <2>2, <3>1
  <2>3. CASE k # 0
    <3>1. k - 1 \in Nat /\ k - 1 <= n /\ k - 1 < k /\ k \in 1 .. n /\ k - 1 + 1 = k
      BY <1>2, <2>3
    <3>2. AtPlace(at[k - 1], k - 1)
      BY <2>1, <3>1
    <3>3. AtPlace(Advanced(at[k - 1]), k - 1 + 1)
      BY <3>1, <3>2, AdvancedIs
    <3> QED
      BY <1>4, <3>1, <3>3
  <2> QED
    BY <2>2, <2>3
<1>6. \A k \in 0 .. n : at[k].in >= size <=> s + Down * k >= n
  <2> TAKE k \in 0 .. n
  <2> DEFINE in == at[k].in
             phase == at[k].phase
  <2>1. in \in Nat /\ phase \in Nat /\ phase < Up /\ Up * in + phase = s + Down * k
    BY <1>5 DEF AtPlace
  <2> HIDE DEF in, phase
  <2>2. in >= size <=> Up * in + phase >= Up * size
    BY <1>2, <2>1, InsideIs
  <2> QED
    BY <1>2, <2>1, <2>2 DEF in
<1>7. e \in 0 .. n /\ at[e].in >= size /\ \A k \in 0 .. n : k < e => ~(at[k].in >= size)
  <2>1. ends \in SUBSET Nat /\ n \in ends
    <3>1. s + Down * n >= n
      BY <1>2
    <3> QED
      BY <1>2, <1>4, <1>6, <3>1
  <2>2. PICK x \in ends : \A y \in ends : ~(y < x)
    BY <2>1, LeastMember
  <2>3. \A y \in ends : x <= y
    BY <2>1, <2>2
  <2>4. e \in ends /\ \A y \in ends : e <= y
    BY <2>3 DEF Min
  <2> HIDE DEF e
  <2>5. e \in 0 .. n /\ at[e].in >= size
    BY <1>4, <2>4
  <2>6. ASSUME NEW k \in 0 .. n, k < e PROVE ~(at[k].in >= size)
    <3> SUFFICES ASSUME at[k].in >= size PROVE FALSE
      OBVIOUS
    <3>1. k \in ends
      BY <1>4
    <3>2. e <= k
      BY <2>4, <3>1
    <3> HIDE DEF ends
    <3> QED
      BY <1>2, <2>5, <2>6, <3>2
  <2> QED
    BY <2>5, <2>6
<1> HIDE DEF e, ends
<1>8. e = OutputSize(size)
  <2>1. s + Down * e >= n
    BY <1>6, <1>7
  <2>2. e = 0 \/ s + Down * (e - 1) < n
    <3> SUFFICES ASSUME e # 0 PROVE s + Down * (e - 1) < n
      OBVIOUS
    <3>1. e - 1 \in 0 .. n /\ e - 1 < e
      BY <1>2, <1>7
    <3>2. ~(s + Down * (e - 1) >= n)
      BY <1>6, <1>7, <3>1
    <3> QED
      BY <1>2, <3>1, <3>2
  <2> HIDE DEF s
  <2>3. e = n \div Down + IF s < n % Down THEN 1 ELSE 0
    <3>1. e \in Nat
      BY <1>2, <1>7
    <3>2. s \in Nat /\ s < Down
      BY <1>2
    <3> HIDE DEF e, ends
    <3> QED
      BY <1>2, <2>1, <2>2, <3>1, <3>2, StepsTo
  <2> QED
    BY <2>3 DEF OutputSize, Up, Down, n, s
<1>9. Len(cs) = e + 1 /\ DOMAIN cs = 1 .. e + 1
  BY <1>7
<1>10. ASSUME NEW k \in 1 .. e + 1 PROVE AtPlace(cs[k], k - 1) /\ (k < e + 1 => cs[k].in < size)
  <2>1. k - 1 \in 0 .. n /\ cs[k] = at[k - 1]
    BY <1>2, <1>7
  <2>2. AtPlace(cs[k], k - 1)
    BY <1>5, <2>1
  <2>3. k < e + 1 => ~(cs[k].in >= size)
    BY <1>7, <2>1
  <2> HIDE DEF cs
  <2> QED
    BY <2>2, <2>3 DEF AtPlace
<1>11. cs[e + 1].in >= size /\ AtPlace(cs[e + 1], e)
  <2>1. e \in Nat /\ e + 1 \in 1 .. e + 1 /\ e + 1 - 1 = e
    BY <1>2, <1>7
  <2>2. cs[e + 1] = at[e]
    <3>1. \A i \in 1 .. e + 1 : \A j : j = i - 1 => cs[i] = at[j]
      OBVIOUS
    <3>2. e = e + 1 - 1
      BY <2>1
    <3> HIDE DEF cs
    <3> QED
      BY <2>1, <3>1, <3>2, SMT
  <2> HIDE DEF cs
  <2> QED
    BY <1>5, <1>7, <2>2
<1>12. cs \in Seq({cs[k] : k \in 1 .. Len(cs)}) /\ e \in Nat
  <2>1. e \in Nat /\ e + 1 \in Nat
    BY <1>2, <1>7
  <2> DEFINE T == {cs[k] : k \in 1 .. Len(cs)}
  <2>2. cs \in [1 .. e + 1 -> T]
    BY <1>9
  <2> HIDE DEF cs, T, e
  <2>3. cs \in Seq(T)
    BY <2>1, <2>2, SeqDef
  <2> QED
    BY <2>1, <2>3 DEF T
<1> HIDE DEF cs
<1> QED
  BY <1>1, <1>8, <1>9, <1>10, <1>11, <1>12 DEF CursorsFit

Crop == IF rsOptions.crop THEN LeadingSkip(rsOptions) ELSE 0

OptionsFit ==
  /\ Up \in Nat \ {0} /\ Down \in Nat \ {0} /\ Order \in Nat /\ rsOptions.crop \in BOOLEAN
  /\ rsOptions.mode \in {"zero", "constant", "symmetric", "reflect", "periodic"}
  /\ rsOptions.length = DefaultFilterLength(Up, Down) => Up * Order >= 2 * Down

\* Between two calls the filter stands where all the rows it has made have
\* brought it.
PlacesFit ==
  /\ Stands
  /\ rsState \in Seq(Nat) /\ Len(rsState) = Order /\ rsApplied \in BOOLEAN
  /\ rsSkip \in Nat /\ rsFirst \in Nat /\ rsFed \in Nat /\ rsMade \in Nat /\ rsKept \in Nat
  /\ Up * (rsFed + rsOffset) + rsPhase = Down * rsMade
  /\ rsMade + rsSkip = rsKept + Crop
  /\ IF rsApplied THEN 1 <= rsFirst /\ rsFirst <= rsFed
     ELSE rsFed = 0 /\ rsState = Zeros(Order)

\* The modes of which the stream is extended as a whole.
Whole(o, first) ==
  o.mode \in {"zero", "constant"} \/ (first >= History(o) /\ History(o) >= 3)

\* The value at a place of the stream before its end.
Before(o, p) ==
  IF p >= 1 THEN p
  ELSE IF o.mode = "zero" THEN 0
  ELSE IF o.mode = "constant" THEN 1
  ELSE IF o.mode = "symmetric" THEN 1 - p
  ELSE IF o.mode = "reflect" THEN 2 - p
  ELSE History(o) + p

Seen(o, p, v) == v = Before(o, p) \/ (o.mode = "reflect" /\ p = 1 - History(o))

\* The state holds the values before the next chunk.
StateFits ==
  (rsApplied /\ Whole(rsOptions, rsFirst)) =>
     \A i \in 1 .. Order : Seen(rsOptions, rsFed - Order + i, rsState[i])

ResamplerInv ==
  /\ OptionsFit
  /\ rsAt = "on" => PlacesFit /\ StateFits
  /\ StreamIsWhole

\* The size computed ahead is how many steps the loop makes.
LEMMA SizeIs ==
  ASSUME Stands, NEW size \in Nat
  PROVE  LET e == OutputSize(size)
             s == rsPhase + Up * rsOffset
         IN e \in Nat /\ s + Down * e >= Up * size /\ s + Down * e < Up * size + Down
<1> DEFINE e == OutputSize(size)
           s == rsPhase + Up * rsOffset
           cs == Cursors(size)
           c == cs[e + 1]
           b == cs[e]
<1>1. CursorsFit(cs, size)
  BY CursorsAre
<1>2. /\ e \in Nat /\ Up \in Nat \ {0} /\ Down \in Nat \ {0} /\ s \in Nat /\ s < Down
      /\ Up * size \in Nat
  <2>1. e \in Nat
    BY <1>1 DEF CursorsFit
  <2>2. Up \in Nat \ {0} /\ Down \in Nat \ {0} /\ s \in Nat /\ s < Down
    BY DEF Stands
  <2> HIDE DEF e, s
  <2> QED
    BY <2>1, <2>2
<1>3. AtPlace(c, e) /\ c.in >= size /\ (e >= 1 => AtPlace(b, e - 1) /\ b.in < size)
  <2> HIDE DEF cs, e
  <2>1. Len(cs) = e + 1
    BY <1>1 DEF CursorsFit, e
  <2>2. e + 1 \in 1 .. Len(cs) /\ e + 1 - 1 = e
    BY <1>2, <2>1
  <2>3. e >= 1 => e \in 1 .. Len(cs) /\ e < Len(cs)
    BY <1>2, <2>1
  <2>4. /\ \A k \in 1 .. Len(cs) : AtPlace(cs[k], k - 1) /\ (k < Len(cs) => cs[k].in < size)
        /\ cs[e + 1].in >= size /\ AtPlace(cs[e + 1], e)
    BY <1>1 DEF CursorsFit, e
  <2> QED
    BY <2>1, <2>3, <2>4
<1>4. s + Down * e >= Up * size
  <2> DEFINE in == c.in
             phase == c.phase
  <2>1. in \in Nat /\ phase \in Nat /\ phase < Up /\ Up * in + phase = s + Down * e /\ in >= size
    BY <1>3 DEF AtPlace
  <2> HIDE DEF in, phase, s, e
  <2> QED
    BY <1>2, <2>1, InsideIs
<1>5. e >= 1 => s + Down * (e - 1) < Up * size
  <2> SUFFICES ASSUME e >= 1 PROVE s + Down * (e - 1) < Up * size
    OBVIOUS
  <2> DEFINE in == b.in
             phase == b.phase
  <2>1. in \in Nat /\ phase \in Nat /\ phase < Up /\ Up * in + phase = s + Down * (e - 1) /\ in < size
    BY <1>3 DEF AtPlace
  <2> HIDE DEF in, phase, s, e
  <2>2. ~(Up * in + phase >= Up * size)
    BY <1>2, <2>1, InsideIs
  <2> QED
    BY <1>2, <2>1, <2>2
<1> HIDE DEF s, e
<1>6. s + Down * e < Up * size + Down
  <2>1. CASE e = 0
    BY <1>2, <2>1
  <2>2. CASE e >= 1
    <3>1. Down * (e - 1) = Down * e - Down
      BY <1>2
    <3> QED
      BY <1>2, <1>5, <2>2, <3>1
  <2> QED
    BY <1>2, <2>1, <2>2
<1> QED
  BY <1>2, <1>4, <1>6, Zenon DEF s, e

\* Where the filter stands behind a chunk.
LEMMA LastCursor ==
  ASSUME Stands, NEW size \in Nat
  PROVE  LET c == Last(Cursors(size))
         IN /\ c.phase \in Nat /\ c.phase < Up /\ c.in - size \in Nat
            /\ Up * (c.in - size) + c.phase + Up * size
                 = rsPhase + Up * rsOffset + Down * OutputSize(size)
            /\ c.phase + Up * (c.in - size) < Down
<1> DEFINE e == OutputSize(size)
           s == rsPhase + Up * rsOffset
           cs == Cursors(size)
           c == Last(cs)
           in == c.in
           phase == c.phase
<1>1. CursorsFit(cs, size)
  BY CursorsAre
<1>2. /\ e \in Nat /\ Up \in Nat \ {0} /\ Down \in Nat \ {0} /\ s \in Nat
      /\ s + Down * e < Up * size + Down
  BY SizeIs DEF Stands
<1>3. AtPlace(c, e) /\ in >= size
  <2> HIDE DEF cs, e
  <2>1. Len(cs) = e + 1
    BY <1>1 DEF CursorsFit, e
  <2>2. e + 1 \in 1 .. Len(cs) /\ e + 1 - 1 = e
    BY <1>2, <2>1
  <2>3. c = cs[e + 1]
    BY <2>1 DEF Last
  <2>4. cs[e + 1].in >= size /\ AtPlace(cs[e + 1], e)
    BY <1>1 DEF CursorsFit, e
  <2> QED
    BY <2>3, <2>4
<1>4. in \in Nat /\ phase \in Nat /\ phase < Up /\ Up * in + phase = s + Down * e
  BY <1>3 DEF AtPlace
<1> HIDE DEF in, phase, s, e
<1>5. in - size \in Nat /\ Up * (in - size) = Up * in - Up * size
  BY <1>2, <1>3, <1>4
<1>6. Up * in \in Nat /\ Up * size \in Nat /\ Down * e \in Nat
  BY <1>2, <1>4
<1>7. /\ Up * (in - size) + phase + Up * size = s + Down * e
      /\ phase + Up * (in - size) < Down
  BY <1>2, <1>4, <1>5, <1>6
<1> QED
  BY <1>4, <1>5, <1>7, Zenon DEF in, phase, s, e

\* Every row is made of the window at its place.
LEMMA FilteredIs ==
  ASSUME Stands, NEW before \in Seq(Nat), NEW chunk \in Seq(Nat), Len(before) = Order
  PROVE  LET rows == Filtered(before, chunk)
             all  == before \o chunk
             size == Len(chunk)
         IN /\ rows \in Seq({rows[k] : k \in 1 .. Len(rows)})
            /\ Len(rows) = OutputSize(size) /\ OutputSize(size) \in Nat
            /\ \A k \in 1 .. Len(rows) :
                 \E in \in Nat, phase \in Nat :
                   /\ in < size /\ phase < Up /\ rows[k].phase = phase
                   /\ Up * in + phase = rsPhase + Up * rsOffset + Down * (k - 1)
                   /\ \A j \in 1 .. Order + 1 : rows[k].window[j] = all[in + j]
<1> DEFINE size == Len(chunk)
           h == Len(before)
           e == OutputSize(size)
           cs == Cursors(size)
           fs == Front(cs)
           all == before \o chunk
           row(c) == [phase |-> c.phase, window |-> SubSeq(all, c.in + 1, c.in + 1 + h)]
           rows == [k \in 1 .. e |-> row(cs[k])]
<1>1. CursorsFit(cs, size) /\ size \in Nat /\ h \in Nat /\ h = Order
  BY CursorsAre
<1>2. e \in Nat /\ Len(cs) = e + 1 /\ cs \in Seq({cs[k] : k \in 1 .. Len(cs)})
  BY <1>1 DEF CursorsFit
<1> HIDE DEF cs, e, size, h, all
<1>3. DOMAIN fs = 1 .. e /\ \A k \in 1 .. e : fs[k] = cs[k]
  <2> DEFINE T == {cs[k] : k \in 1 .. Len(cs)}
  <2> HIDE DEF T
  <2>1. cs \in Seq(T)
    BY <1>2 DEF T
  <2>2. fs = SubSeq(cs, 1, e)
    BY <1>2 DEF Front
  <2> QED
    BY <1>2, <2>1, <2>2
<1>4. Filtered(before, chunk) = rows
  <2>1. Filtered(before, chunk) = [k \in DOMAIN fs |-> row(fs[k])]
    BY DEF Filtered, cs, size, h, all
  <2> QED
    BY <1>3, <2>1
<1>5. Len(rows) = e /\ DOMAIN rows = 1 .. e
  BY <1>2
<1>6. rows \in Seq({rows[k] : k \in 1 .. Len(rows)})
  <2> DEFINE T == {rows[k] : k \in 1 .. Len(rows)}
  <2>1. rows \in [1 .. e -> T]
    BY <1>5
  <2> HIDE DEF rows, T
  <2>2. rows \in Seq(T)
    BY <1>2, <2>1, SeqDef
  <2> QED
    BY <2>2 DEF T
<1>7. all \in Seq(Nat) /\ Len(all) = h + size
  BY DEF all, h, size
<1>8. ASSUME NEW k \in 1 .. e
      PROVE  \E in \in Nat, phase \in Nat :
               /\ in < size /\ phase < Up /\ rows[k].phase = phase
               /\ Up * in + phase = rsPhase + Up * rsOffset + Down * (k - 1)
               /\ \A j \in 1 .. Order + 1 : rows[k].window[j] = all[in + j]
  <2> DEFINE in == cs[k].in
             phase == cs[k].phase
             window == SubSeq(all, in + 1, in + 1 + h)
  <2>1. AtPlace(cs[k], k - 1) /\ in < size
    <3>1. k \in 1 .. Len(cs) /\ k < Len(cs)
      BY <1>2
    <3> QED
      BY <1>1, <3>1 DEF CursorsFit
  <2>2. /\ in \in Nat /\ phase \in Nat /\ phase < Up
        /\ Up * in + phase = rsPhase + Up * rsOffset + Down * (k - 1)
    BY <2>1 DEF AtPlace
  <2>3. rows[k].phase = phase /\ rows[k].window = window
    OBVIOUS
  <2> HIDE DEF in, phase, rows
  <2>4. \A j \in 1 .. h + 1 : window[j] = all[in + j]
    BY <1>1, <1>7, <2>1, <2>2
  <2> HIDE DEF window
  <2> QED
    BY <1>1, <2>1, <2>2, <2>3, <2>4
<1> HIDE DEF rows
<1> QED
  BY <1>2, <1>4, <1>5, <1>6, <1>8 DEF e, size, all

\* The history of a filter is its length over the up factor: the padding
\* makes up for the remainder.
LEMMA HistoryIs ==
  ASSUME NEW o, o.length \in Nat, o.up \in Nat \ {0}
  PROVE  History(o) \in Nat /\ History(o) = o.length \div o.up
<1> DEFINE n == o.length
           u == o.up
           q == n \div u
           r == n % u
<1>1. n \in Nat /\ u \in Nat \ {0} /\ q \in Nat /\ r \in Nat /\ r < u /\ n = u * q + r
  <2>1. n \in Nat /\ u \in Nat \ {0}
    OBVIOUS
  <2> HIDE DEF n, u
  <2> QED
    BY <2>1, DivMod
<1>2. History(o) = (n + (u - r)) \div u - 1
  BY DEF History
<1> HIDE DEF n, u, q, r
<1>3. n + (u - r) = u * (q + 1) + 0 /\ n + (u - r) \in Nat /\ q + 1 \in Nat
  <2>1. u * (q + 1) = u * q + u /\ u * q \in Nat
    BY <1>1
  <2> QED
    BY <1>1, <2>1
<1>4. (n + (u - r)) \div u = q + 1
  <2> DEFINE a == n + (u - r)
  <2>1. a \in Nat /\ a = u * (q + 1) + 0 /\ q + 1 \in Nat /\ 0 < u /\ 0 \in Nat
    BY <1>1, <1>3
  <2> HIDE DEF a
  <2>2. a \div u = q + 1
    BY <1>1, <2>1, DivIs
  <2> QED
    BY <2>2 DEF a
<1>5. History(o) \in Nat /\ History(o) = q
  BY <1>1, <1>2, <1>4
<1> QED
  BY <1>5 DEF q, n, u

\* A filter of the default length has a delay of two outputs or more.
LEMMA DefaultIsLong ==
  ASSUME RsAssumption, NEW o, o.up \in Nat \ {0}, o.down \in Nat \ {0},
         o.length = DefaultFilterLength(o.up, o.down)
  PROVE  o.up * History(o) >= 2 * o.down
<1> DEFINE u == o.up
           d == o.down
           m == IF u > d THEN u ELSE d
           n == o.length
           q == n \div u
           r == n % u
<1>1. /\ u \in Nat \ {0} /\ d \in Nat \ {0} /\ m \in Nat /\ m >= u /\ m >= d
      /\ RsHalfLength \in Nat /\ RsHalfLength >= 2
  BY DEF RsAssumption
<1>2. n = 2 * RsHalfLength * m + 1
  BY DEF DefaultFilterLength
<1> HIDE DEF u, d, m, n
<1>3. 2 * RsHalfLength * m \in Nat /\ 2 * RsHalfLength * m >= 4 * m
  <2>1. RsHalfLength * m >= 2 * m /\ RsHalfLength * m \in Nat
    BY <1>1
  <2>2. 2 * RsHalfLength * m = 2 * (RsHalfLength * m)
    BY <1>1
  <2> HIDE DEF q, r
  <2> QED
    BY <1>1, <2>1, <2>2
<1>4. n \in Nat /\ n >= 4 * m + 1
  BY <1>1, <1>2, <1>3
<1>5. q \in Nat /\ r \in Nat /\ r < u /\ n = u * q + r
  BY <1>1, <1>4, DivMod
<1> HIDE DEF q, r
<1>6. u * q \in Nat
  BY <1>1, <1>5
<1>7. u * q >= 2 * d
  BY <1>1, <1>4, <1>5, <1>6
<1>8. History(o) = q
  BY <1>1, <1>4, HistoryIs DEF q, n, u
<1> QED
  BY <1>7, <1>8 DEF u, d

\* The driver divides by the greatest common divisor, which exists.
LEMMA DriverFits ==
  ASSUME RsAssumption, NEW rate \in RsRates
  PROVE  LET o == DriverOptions(rate) IN
           /\ o.up \in Nat \ {0} /\ o.down \in Nat \ {0} /\ o.length \in Nat
           /\ o.mode = "zero" /\ o.crop = TRUE
<1> DEFINE Divides(d) == rate % d = 0 /\ RsMaxRate % d = 0
           Is(d) == Divides(d) /\ \A e \in (d + 1) .. rate : ~Divides(e)
           gcd == CHOOSE d \in 1 .. rate : Is(d)
           T == {n \in Nat : n < rate /\ Divides(rate - n)}
<1>1. rate \in Nat \ {0} /\ RsMaxRate \in Nat \ {0} /\ RsHalfLength \in Nat
  BY DEF RsAssumption
<1>2. Divides(1)
  <2>1. \A m \in Nat : m = 1 * m + 0
    OBVIOUS
  <2>2. \A m \in Nat : m % 1 = 0
    BY <2>1, DivIs
  <2> QED
    BY <1>1, <2>2
<1>3. rate - 1 \in T /\ T \in SUBSET Nat
  BY <1>1, <1>2
<1>4. PICK n \in T : \A m \in T : ~(m < n)
  BY <1>3, LeastMember
<1>5. rate - n \in 1 .. rate /\ Is(rate - n)
  <2>1. n \in Nat /\ n < rate /\ Divides(rate - n) /\ rate - n \in 1 .. rate
    BY <1>1, <1>4
  <2>2. ASSUME NEW e \in (rate - n + 1) .. rate, Divides(e) PROVE FALSE
    <3>1. e \in Nat /\ rate - e \in Nat /\ rate - e < n /\ rate - e < rate /\ rate - (rate - e) = e
      BY <1>1, <2>1
    <3>2. rate - e \in T
      BY <2>2, <3>1
    <3> QED
      BY <1>4, <3>1, <3>2
  <2> QED
    BY <2>1, <2>2
<1> HIDE DEF T
<1>6. gcd \in 1 .. rate /\ Divides(gcd)
  <2> HIDE DEF Divides
  <2> QED
    BY <1>5
<1>7. /\ DriverOptions(rate).up = rate \div gcd /\ DriverOptions(rate).down = RsMaxRate \div gcd
      /\ DriverOptions(rate).length = DefaultFilterLength(1, 1)
      /\ DriverOptions(rate).mode = "zero" /\ DriverOptions(rate).crop = TRUE
  BY DEF DriverOptions
<1> HIDE DEF gcd
<1>8. ASSUME NEW m \in Nat \ {0}, m % gcd = 0 PROVE m \div gcd \in Nat \ {0}
  <2>1. gcd \in Nat \ {0}
    BY <1>1, <1>6
  <2>2. m \div gcd \in Nat /\ m = gcd * (m \div gcd) + (m % gcd)
    BY <2>1, DivMod
  <2>3. m \div gcd # 0
    <3> SUFFICES ASSUME m \div gcd = 0 PROVE FALSE
      OBVIOUS
    <3> QED
      BY <1>8, <2>1, <2>2
  <2> QED
    BY <2>2, <2>3
<1>9. rate \div gcd \in Nat \ {0} /\ RsMaxRate \div gcd \in Nat \ {0}
  BY <1>1, <1>6, <1>8
<1>10. DefaultFilterLength(1, 1) \in Nat
  BY <1>1 DEF DefaultFilterLength
<1> QED
  BY <1>7, <1>9, <1>10

\* Half of the filter's delay, in rows of the output, is cropped in front.
LEMMA CropIs ==
  ASSUME OptionsFit
  PROVE  /\ Ceiling(Order * Up, Down) \in Nat /\ Crop \in Nat
         /\ Crop = IF rsOptions.crop THEN Ceiling(Order * Up, Down) \div 2 ELSE 0
<1> DEFINE c == Ceiling(Order * Up, Down)
<1>1. Up \in Nat \ {0} /\ Down \in Nat \ {0} /\ Order \in Nat /\ Order * Up \in Nat
  BY DEF OptionsFit
<1>2. c \in Nat
  BY <1>1, CeilingOf
<1>3. LeadingSkip(rsOptions) = c \div 2
  BY DEF LeadingSkip, Ceiling, Order, Up, Down
<1> HIDE DEF c
<1>4. c \div 2 \in Nat
  BY <1>2
<1> QED
  BY <1>2, <1>3, <1>4 DEF Crop, c

\* Options of the driver or of a test, and a filter that has seen nothing.
LEMMA ResamplerInitial == ASSUME RsAssumption, RsInit PROVE ResamplerInv
<1>1. OptionsFit
  <2>1. /\ Up \in Nat \ {0} /\ Down \in Nat \ {0} /\ rsOptions.length \in Nat
        /\ rsOptions.crop \in BOOLEAN
        /\ rsOptions.mode \in {"zero", "constant", "symmetric", "reflect", "periodic"}
    <3>1. CASE rsOptions \in {DriverOptions(r) : r \in RsRates}
      BY <3>1, DriverFits DEF Up, Down
    <3>2. CASE rsOptions \in ToolOptions
      <4>1. PICK u \in RsUps, d \in RsDowns, m \in RsModes, c \in BOOLEAN :
              rsOptions = [up |-> u, down |-> d, length |-> DefaultFilterLength(u, d),
                           mode |-> m, crop |-> c]
        BY <3>2 DEF ToolOptions
      <4>2. u \in Nat \ {0} /\ d \in Nat \ {0} /\ RsHalfLength \in Nat
        BY DEF RsAssumption
      <4>3. DefaultFilterLength(u, d) \in Nat
        BY <4>2 DEF DefaultFilterLength
      <4> QED
        BY <4>1, <4>2, <4>3 DEF RsAssumption, Up, Down
    <3> QED
      BY <3>1, <3>2 DEF RsInit
  <2>2. Order \in Nat
    BY <2>1, HistoryIs DEF Up, Order
  <2>3. rsOptions.length = DefaultFilterLength(Up, Down) => Up * Order >= 2 * Down
    BY <2>1, DefaultIsLong DEF Up, Down, Order
  <2> QED
    BY <2>1, <2>2, <2>3 DEF OptionsFit
<1>2. Up \in Nat \ {0} /\ Down \in Nat \ {0} /\ Order \in Nat /\ Crop \in Nat
  BY <1>1, CropIs DEF OptionsFit
<1>3. rsState = Zeros(Order) /\ rsState \in Seq(Nat) /\ Len(rsState) = Order
  <2>1. rsState = Zeros(Order)
    BY DEF RsInit, Order
  <2> QED
    BY <1>2, <2>1 DEF Zeros
<1>4. PlacesFit
  <2>1. /\ rsPhase = 0 /\ rsOffset = 0 /\ rsApplied = FALSE /\ rsSkip = Crop
        /\ rsFirst = 0 /\ rsFed = 0 /\ rsMade = 0 /\ rsKept = 0
    BY DEF RsInit, Crop
  <2>2. Stands
    BY <1>2, <2>1 DEF Stands
  <2>3. Up * (rsFed + rsOffset) + rsPhase = Down * rsMade
    BY <1>2, <2>1
  <2>4. rsMade + rsSkip = rsKept + Crop
    BY <1>2, <2>1
  <2> QED
    BY <1>2, <1>3, <2>1, <2>2, <2>3, <2>4, Zenon DEF PlacesFit
<1>5. StateFits
  BY DEF StateFits, RsInit
<1>6. StreamIsWhole
  BY DEF StreamIsWhole, ChunksDoNotShow, LengthKept, BuffersFit, DefaultLengthSuffices, RsInit
<1> QED
  BY <1>1, <1>4, <1>5, <1>6 DEF ResamplerInv

\* The value at a place behind the end of the stream.
After(o, fed, p) ==
  IF o.mode = "zero" THEN 0
  ELSE IF o.mode = "constant" THEN fed
  ELSE IF o.mode = "symmetric" THEN 2 * fed + 1 - p
  ELSE IF o.mode = "reflect" THEN 2 * fed - p
  ELSE p - History(o)

Right(o, fed, p, v) ==
  IF p <= fed THEN Seen(o, p, v)
  ELSE v = After(o, fed, p) \/ (o.mode = "reflect" /\ p = fed + History(o))

\* A row is what its number asks for.
RowRight(o, fed, row, n) ==
  /\ row.phase = (n * o.down) % o.up
  /\ \A j \in 1 .. History(o) + 1 :
       Right(o, fed, (n * o.down) \div o.up - History(o) + j, row.window[j])

\* What Farthest and Extended say of any number of rows in.
ExtendedTo(o, fed, p) ==
  LET h == History(o) IN
    CASE p \in 1 .. fed -> p
      [] p < 1 /\ o.mode = "zero" -> 0
      [] p < 1 /\ o.mode = "constant" -> 1
      [] p < 1 /\ o.mode = "symmetric" -> 1 - p
      [] p < 1 /\ o.mode = "reflect" -> 2 - p
      [] p < 1 /\ o.mode = "periodic" -> h + p
      [] p > fed /\ o.mode = "zero" -> 0
      [] p > fed /\ o.mode = "constant" -> fed
      [] p > fed /\ o.mode = "symmetric" -> 2 * fed + 1 - p
      [] p > fed /\ o.mode = "reflect" -> 2 * fed - p
      [] p > fed /\ o.mode = "periodic" -> p - h

\* The value at a place, before or behind the end.
LEMMA ExtendedIs ==
  ASSUME NEW o, NEW fed \in Nat, NEW p \in Int,
         o.mode \in {"zero", "constant", "symmetric", "reflect", "periodic"}
  PROVE  ExtendedTo(o, fed, p) = IF p <= fed THEN Before(o, p) ELSE After(o, fed, p)
<1>1. CASE p \in 1 .. fed
  BY <1>1 DEF ExtendedTo, Before
<1>2. CASE p < 1
  BY <1>2 DEF ExtendedTo, Before
<1>3. CASE p > fed /\ ~(p < 1)
  BY <1>3 DEF ExtendedTo, After
<1> QED
  BY <1>1, <1>2, <1>3

\* What ChunksDoNotShow asks of a row.
RowShows(o, fed, row, n) ==
  LET up == n * o.down IN
    /\ row.phase = up % o.up
    /\ \A j \in 1 .. History(o) + 1 :
         LET p == up \div o.up - History(o) + j IN
           \/ o.mode = "reflect" /\ p \in {1 - History(o), fed + History(o)}
           \/ row.window[j] = ExtendedTo(o, fed, p)

\* A row that is right shows what it is asked for.
LEMMA RowShown ==
  ASSUME NEW o, NEW fed \in Nat, NEW row, NEW n \in Nat, RowRight(o, fed, row, n),
         o.mode \in {"zero", "constant", "symmetric", "reflect", "periodic"},
         o.up \in Nat \ {0}, o.down \in Nat \ {0}, History(o) \in Nat
  PROVE  RowShows(o, fed, row, n)
<1> DEFINE up == n * o.down
           q == up \div o.up
<1>1. up \in Nat /\ q \in Int
  <2> DEFINE d == o.down
             u == o.up
  <2>1. d \in Nat /\ u \in Nat \ {0}
    OBVIOUS
  <2> HIDE DEF d, u
  <2>2. n * d \in Nat
    BY <2>1
  <2>3. (n * d) \div u \in Nat
    BY <2>1, <2>2, DivMod
  <2> QED
    BY <2>2, <2>3 DEF d, u
<1>2. /\ row.phase = up % o.up
      /\ \A j \in 1 .. History(o) + 1 : Right(o, fed, q - History(o) + j, row.window[j])
  BY DEF RowRight
<1> HIDE DEF up, q
<1>3. ASSUME NEW p \in Int, NEW v, Right(o, fed, p, v)
      PROVE  \/ o.mode = "reflect" /\ p \in {1 - History(o), fed + History(o)}
             \/ v = ExtendedTo(o, fed, p)
  <2>1. CASE p <= fed
    <3>1. Seen(o, p, v)
      BY <1>3, <2>1 DEF Right
    <3>2. ExtendedTo(o, fed, p) = Before(o, p)
      BY <2>1, ExtendedIs
    <3> QED
      BY <3>1, <3>2 DEF Seen
  <2>2. CASE ~(p <= fed)
    <3>1. v = After(o, fed, p) \/ (o.mode = "reflect" /\ p = fed + History(o))
      BY <1>3, <2>2 DEF Right
    <3>2. ExtendedTo(o, fed, p) = After(o, fed, p)
      BY <2>2, ExtendedIs
    <3> QED
      BY <3>1, <3>2
  <2> QED
    BY <2>1, <2>2
<1>4. \A j \in 1 .. History(o) + 1 : q - History(o) + j \in Int
  BY <1>1
<1>5. \A j \in 1 .. History(o) + 1 :
        \/ o.mode = "reflect" /\ q - History(o) + j \in {1 - History(o), fed + History(o)}
        \/ row.window[j] = ExtendedTo(o, fed, q - History(o) + j)
  BY <1>2, <1>3, <1>4
<1> QED
  BY <1>2, <1>5, Zenon DEF RowShows, q, up

\* Where the filter stands, in steps.
LEMMA StandsBelow ==
  ASSUME Stands
  PROVE  rsPhase + Up * rsOffset \in Nat
<1>1. rsPhase \in Nat /\ Up \in Nat /\ rsOffset \in Nat
  BY DEF Stands
<1>2. Up * rsOffset \in Nat
  BY <1>1
<1> QED
  BY <1>1, <1>2

\* The rows that come from a chunk are right when the state and the chunk are.
LEMMA RowsRight ==
  ASSUME OptionsFit, PlacesFit, NEW before \in Seq(Nat), NEW chunk \in Seq(Nat),
         Len(before) = Order, NEW fed \in Nat,
         \A i \in 1 .. Order + Len(chunk) : Right(rsOptions, fed, rsFed - Order + i, (before \o chunk)[i])
  PROVE  \A k \in 1 .. Len(Filtered(before, chunk)) :
           RowRight(rsOptions, fed, Filtered(before, chunk)[k], rsMade + k - 1)
<1> DEFINE rows == Filtered(before, chunk)
           all  == before \o chunk
           size == Len(chunk)
           s == rsPhase + Up * rsOffset
<1>1. Stands /\ size \in Nat /\ s \in Nat
  <2>1. Stands
    BY DEF PlacesFit
  <2>2. s \in Nat
    BY <2>1, StandsBelow
  <2> QED
    BY <2>1, <2>2
<1>2. \A k \in 1 .. Len(rows) :
        \E in \in Nat, phase \in Nat :
          /\ in < size /\ phase < Up /\ rows[k].phase = phase
          /\ Up * in + phase = s + Down * (k - 1)
          /\ \A j \in 1 .. Order + 1 : rows[k].window[j] = all[in + j]
  BY <1>1, FilteredIs
<1>3. Len(rows) \in Nat
  BY <1>1, FilteredIs
<1>4. /\ Up \in Nat \ {0} /\ Down \in Nat \ {0} /\ Order \in Nat /\ rsFed \in Nat /\ rsMade \in Nat
      /\ rsOffset \in Nat /\ rsPhase \in Nat
      /\ Up * (rsFed + rsOffset) + rsPhase = Down * rsMade
  BY DEF OptionsFit, PlacesFit, Stands
<1>5. Up * rsFed + s = Down * rsMade
  BY <1>4
<1>6. \A i \in 1 .. Order + size : \A p : p = rsFed - Order + i => Right(rsOptions, fed, p, all[i])
  OBVIOUS
<1> HIDE DEF rows, all, size, s
<1>7. ASSUME NEW k \in 1 .. Len(rows) PROVE RowRight(rsOptions, fed, rows[k], rsMade + k - 1)
  <2> DEFINE n == rsMade + k - 1
  <2>1. PICK in \in Nat, phase \in Nat :
          /\ in < size /\ phase < Up /\ rows[k].phase = phase
          /\ Up * in + phase = s + Down * (k - 1)
          /\ \A j \in 1 .. Order + 1 : rows[k].window[j] = all[in + j]
    BY <1>2
  <2>2. n \in Nat /\ k - 1 \in Nat
    BY <1>3, <1>4
  <2>3. n * Down = Up * (rsFed + in) + phase
    <3>1. n * Down = Down * rsMade + Down * (k - 1)
      BY <1>4, <2>2
    <3>2. Up * (rsFed + in) = Up * rsFed + Up * in
      BY <1>4
    <3> DEFINE w == Down * rsMade
               x == Down * (k - 1)
               y == Up * rsFed
               z == Up * in
    <3>3. w \in Nat /\ x \in Nat /\ y \in Nat /\ z \in Nat
      BY <1>4, <2>2
    <3>4. z + phase = s + x /\ y + s = w
      BY <1>5, <2>1
    <3> HIDE DEF n, w, x, y, z
    <3>5. w + x = y + z + phase
      BY <1>1, <3>3, <3>4
    <3> QED
      BY <3>1, <3>2, <3>5 DEF w, x, y, z
  <2> HIDE DEF n
  <2>4. (n * Down) \div Up = rsFed + in /\ (n * Down) % Up = phase
    <3>1. n * Down \in Nat /\ rsFed + in \in Nat
      BY <1>4, <2>2
    <3> DEFINE a == n * Down
               q == rsFed + in
    <3>2. a = Up * q + phase /\ a \in Nat /\ q \in Nat
      BY <2>3, <3>1
    <3> HIDE DEF a, q
    <3>3. a \div Up = q /\ a % Up = phase
      BY <1>4, <2>1, <3>2, DivIs
    <3> QED
      BY <3>3 DEF a, q
  <2>5. ASSUME NEW j \in 1 .. Order + 1
        PROVE  Right(rsOptions, fed, (n * Down) \div Up - Order + j, rows[k].window[j])
    <3> DEFINE p == (n * Down) \div Up - Order + j
    <3>1. in < size /\ rows[k].window[j] = all[in + j]
      BY <2>1
    <3>2. in + j \in 1 .. Order + size /\ rsFed + in - Order + j = rsFed - Order + (in + j)
      BY <1>1, <1>4, <3>1
    <3>3. p = rsFed - Order + (in + j)
      <4> DEFINE q == (n * Down) \div Up
      <4>1. q = rsFed + in
        BY <2>4
      <4> HIDE DEF q
      <4>2. q - Order + j = rsFed - Order + (in + j)
        BY <1>4, <2>1, <4>1
      <4> QED
        BY <4>2 DEF q
    <3> HIDE DEF p
    <3>4. Right(rsOptions, fed, p, all[in + j])
      BY <1>6, <3>2, <3>3
    <3> QED
      BY <3>1, <3>4 DEF p
  <2> QED
    BY <2>1, <2>4, <2>5 DEF RowRight, Order, Up, Down, n
<1> QED
  BY <1>7 DEF rows

\* What precedes the first chunk.
LEMMA ExtrapolatedIs ==
  ASSUME OptionsFit, rsState = Zeros(Order), NEW size \in Nat \ {0}, NEW chunk \in Seq(Nat),
         Len(chunk) = size, \A i \in 1 .. size : chunk[i] = i
  PROVE  /\ Extrapolated(chunk) \in Seq(Nat) /\ Len(Extrapolated(chunk)) = Order
         /\ Whole(rsOptions, size) =>
              \A i \in 1 .. Order : Seen(rsOptions, i - Order, Extrapolated(chunk)[i])
<1> DEFINE h == Order
           count == IF Len(chunk) < Len(rsState) THEN Len(chunk) ELSE Len(rsState)
           front == SubSeq(chunk, 1, count)
           copied == Zeros(Len(rsState) - count) \o front
           all == Extrapolated(chunk)
           mode == rsOptions.mode
<1>1. /\ h \in Nat /\ mode \in {"zero", "constant", "symmetric", "reflect", "periodic"}
  BY DEF OptionsFit
<1>2. rsState \in Seq(Nat) /\ Len(rsState) = h /\ \A i \in 1 .. h : rsState[i] = 0
  BY <1>1 DEF Zeros
<1>3. /\ count \in Nat /\ count <= h /\ count <= size /\ (size >= h => count = h)
  BY <1>1, <1>2
<1>4. front \in Seq(Nat) /\ Len(front) = count /\ \A i \in 1 .. count : front[i] = i
  BY <1>3
<1>5. Zeros(h - count) \in Seq(Nat) /\ Len(Zeros(h - count)) = h - count
  BY <1>1, <1>3 DEF Zeros
<1> HIDE DEF count, front
<1>6. copied \in Seq(Nat) /\ Len(copied) = h /\ (size >= h => \A i \in 1 .. h : copied[i] = i)
  <2> DEFINE z == Zeros(h - count)
  <2>1. copied = z \o front
    BY <1>2
  <2>2. z \in Seq(Nat) /\ Len(z) = h - count
    BY <1>5
  <2> HIDE DEF copied, z
  <2>3. copied \in Seq(Nat) /\ Len(copied) = h
    <3>1. copied \in Seq(Nat) /\ Len(copied) = Len(z) + Len(front)
      BY <1>4, <2>1, <2>2, ConcatProperties
    <3>2. h - count + count = h
      BY <1>1, <1>3
    <3> QED
      BY <1>4, <2>2, <3>1, <3>2
  <2>4. ASSUME size >= h, NEW i \in 1 .. h PROVE copied[i] = i
    <3>1. Len(z) = 0 /\ i \in 1 .. count /\ i \in Nat /\ i > Len(z) /\ i <= Len(z) + Len(front)
      BY <1>1, <1>3, <1>4, <2>2, <2>4
    <3>2. copied[i] = front[i]
      BY <1>4, <2>1, <2>2, <3>1
    <3> QED
      BY <1>4, <3>1, <3>2
  <2> QED
    BY <2>3, <2>4
<1>7. all = CASE mode = "zero"      -> rsState
              [] mode = "constant"  -> [i \in DOMAIN rsState |-> chunk[1]]
              [] mode = "symmetric" -> Reverse(copied)
              [] mode = "reflect"   -> ReflectLeft(copied)
              [] mode = "periodic"  -> copied
  BY DEF Extrapolated, count, front
<1>8. Whole(rsOptions, size) <=> mode \in {"zero", "constant"} \/ (size >= h /\ h >= 3)
  BY DEF Whole, Order
<1>9. ASSUME NEW p \in Int, p < 1, NEW v
      PROVE  Seen(rsOptions, p, v) <=>
               \/ v = IF mode = "zero" THEN 0 ELSE IF mode = "constant" THEN 1
                      ELSE IF mode = "symmetric" THEN 1 - p
                      ELSE IF mode = "reflect" THEN 2 - p ELSE h + p
               \/ mode = "reflect" /\ p = 1 - h
  BY <1>9 DEF Seen, Before, Order
<1> HIDE DEF copied, all, mode, h
<1>10. \A i \in 1 .. h : i - h \in Int /\ i - h < 1
  BY <1>1
<1>11. CASE mode = "zero"
  <2>1. all = rsState
    BY <1>7, <1>11
  <2> QED
    BY <1>2, <1>9, <1>10, <1>11, <2>1 DEF all, h
<1>12. CASE mode = "constant"
  <2>1. all = [i \in 1 .. h |-> chunk[1]] /\ chunk[1] = 1
    BY <1>2, <1>7, <1>12
  <2>2. all \in Seq(Nat) /\ Len(all) = h /\ \A i \in 1 .. h : all[i] = 1
    BY <1>1, <2>1
  <2> QED
    BY <1>9, <1>10, <1>12, <2>2 DEF all, h
<1>13. CASE mode = "symmetric"
  <2>1. all = Reverse(copied)
    BY <1>7, <1>13
  <2>2. all \in Seq(Nat) /\ Len(all) = h /\ \A i \in 1 .. h : all[i] = copied[h - i + 1]
    BY <1>1, <1>6, <2>1 DEF Reverse
  <2>3. size >= h => \A i \in 1 .. h : all[i] = 1 - (i - h)
    BY <1>1, <1>6, <2>2
  <2>4. size >= h => \A i \in 1 .. h : Seen(rsOptions, i - h, all[i])
    BY <1>9, <1>10, <1>13, <2>3
  <2> QED
    BY <1>8, <1>13, <2>2, <2>4 DEF all, h
<1>14. CASE mode = "reflect"
  <2>1. all = ReflectLeft(copied)
    BY <1>7, <1>14
  <2>2. CASE h < 3
    <3>1. all = copied
      BY <1>6, <2>1, <2>2 DEF ReflectLeft
    <3> QED
      BY <1>1, <1>6, <1>8, <1>14, <2>2, <3>1 DEF all, h
  <2>3. CASE h >= 3
    <3> DEFINE t == Append(Tail(copied), Last(copied))
               r == Reverse(t)
    <3>1. t \in Seq(Nat) /\ Len(t) = h /\ \A i \in 1 .. h - 1 : t[i] = copied[i + 1]
      BY <1>1, <1>6, <2>3 DEF Last
    <3> HIDE DEF t
    <3>2. r \in Seq(Nat) /\ Len(r) = h /\ \A i \in 1 .. h : r[i] = t[h - i + 1]
      <4>1. r = [i \in 1 .. h |-> t[h - i + 1]]
        BY <3>1 DEF Reverse
      <4>2. \A i \in 1 .. h : h - i + 1 \in 1 .. h
        BY <1>1
      <4>3. \A i \in 1 .. h : t[h - i + 1] \in Nat
        BY <3>1, <4>2, ElementOfSeq
      <4> HIDE DEF r
      <4> QED
        BY <1>1, <4>1, <4>3
    <3> HIDE DEF r
    <3>3. all = [r EXCEPT ![1] = copied[h - 1]]
      BY <1>1, <1>6, <2>1, <2>3 DEF ReflectLeft, r, t
    <3>4. copied[h - 1] \in Nat /\ 1 \in 1 .. Len(r)
      <4>1. h - 1 \in 1 .. Len(copied) /\ 1 \in 1 .. Len(r)
        BY <1>1, <1>6, <2>3, <3>2
      <4> QED
        BY <1>6, <4>1, ElementOfSeq
    <3>5. all \in Seq(Nat) /\ Len(all) = h /\ \A i \in 2 .. h : all[i] = r[i]
      <4> DEFINE x == copied[h - 1]
      <4>1. x \in Nat /\ all = [r EXCEPT ![1] = x]
        BY <3>3, <3>4
      <4> HIDE DEF x
      <4>2. /\ all \in Seq(Nat) /\ Len(all) = Len(r)
            /\ \A i \in 1 .. Len(r) : all[i] = IF i = 1 THEN x ELSE r[i]
        BY <3>2, <3>4, <4>1, ExceptSeq
      <4>3. Len(r) = h /\ \A i \in 2 .. h : i \in 1 .. h /\ i # 1
        BY <1>1, <3>2
      <4> QED
        BY <4>2, <4>3
    <3>6. size >= h => \A i \in 2 .. h : all[i] = 2 - (i - h)
      <4> SUFFICES ASSUME size >= h, NEW i \in 2 .. h PROVE all[i] = 2 - (i - h)
        OBVIOUS
      <4>1. h - i + 1 \in 1 .. h - 1 /\ h - i + 2 \in 1 .. h /\ h - i + 1 + 1 = h - i + 2
        BY <1>1
      <4>2. all[i] = t[h - i + 1]
        <5>1. i \in 1 .. h
          BY <1>1
        <5>2. all[i] = r[i] /\ r[i] = t[h - i + 1]
          BY <3>2, <3>5, <5>1
        <5> QED
          BY <5>2
      <4>3. t[h - i + 1] = copied[h - i + 2]
        BY <3>1, <4>1
      <4> QED
        BY <1>1, <1>6, <4>1, <4>2, <4>3
    <3>7. size >= h => \A i \in 1 .. h : Seen(rsOptions, i - h, all[i])
      <4> SUFFICES ASSUME size >= h, NEW i \in 1 .. h PROVE Seen(rsOptions, i - h, all[i])
        OBVIOUS
      <4>1. CASE i = 1
        BY <1>9, <1>10, <1>14, <4>1
      <4>2. CASE i \in 2 .. h
        BY <1>9, <1>10, <1>14, <3>6, <4>2
      <4> QED
        BY <1>1, <4>1, <4>2
    <3> QED
      BY <1>8, <1>14, <3>5, <3>7 DEF all, h
  <2> QED
    BY <1>1, <2>2, <2>3
<1>15. CASE mode = "periodic"
  <2>1. all = copied
    BY <1>7, <1>15
  <2>2. size >= h => \A i \in 1 .. h : all[i] = h + (i - h)
    BY <1>1, <1>6, <2>1
  <2>3. size >= h => \A i \in 1 .. h : Seen(rsOptions, i - h, all[i])
    BY <1>9, <1>10, <1>15, <2>2
  <2> QED
    BY <1>6, <1>8, <1>15, <2>1, <2>3 DEF all, h
<1> QED
  BY <1>1, <1>11, <1>12, <1>13, <1>14, <1>15

\* What follows the last chunk.
LEMMA ExtraIs ==
  ASSUME OptionsFit, PlacesFit, StateFits, rsApplied
  PROVE  /\ Extra \in Seq(Nat) /\ Len(Extra) = Order
         /\ Whole(rsOptions, rsFirst) =>
              \A i \in 1 .. Order : Right(rsOptions, rsFed, rsFed + i, Extra[i])
<1> DEFINE h == Order
           all == Extra
           mode == rsOptions.mode
           fed == rsFed
           whole == Whole(rsOptions, rsFirst)
<1>1. /\ h \in Nat /\ mode \in {"zero", "constant", "symmetric", "reflect", "periodic"}
      /\ fed \in Nat /\ fed >= 1 /\ rsFirst \in Nat /\ rsFirst <= fed
      /\ rsState \in Seq(Nat) /\ Len(rsState) = h
  BY DEF OptionsFit, PlacesFit
<1>2. whole <=> mode \in {"zero", "constant"} \/ (rsFirst >= h /\ h >= 3)
  BY DEF Whole, Order
<1>3. whole => \A i \in 1 .. h : Seen(rsOptions, fed - h + i, rsState[i])
  BY DEF StateFits
<1>4. whole => \A i \in 1 .. h : fed - h + i >= 1 => rsState[i] = fed - h + i
  <2> SUFFICES ASSUME whole, NEW i \in 1 .. h, fed - h + i >= 1 PROVE rsState[i] = fed - h + i
    OBVIOUS
  <2> HIDE DEF whole, mode, h, fed
  <2>1. Seen(rsOptions, fed - h + i, rsState[i])
    BY <1>3
  <2>2. ~(fed - h + i = 1 - h)
    BY <1>1
  <2>3. h = History(rsOptions)
    BY DEF h, Order
  <2> QED
    BY <2>1, <2>2, <2>3 DEF Seen, Before
<1>5. all = CASE mode = "zero"      -> Zeros(Len(rsState))
              [] mode = "constant"  -> [i \in DOMAIN rsState |-> Last(rsState)]
              [] mode = "symmetric" -> Reverse(rsState)
              [] mode = "reflect"   -> ReflectRight(rsState)
              [] mode = "periodic"  -> rsState
  BY DEF Extra
<1>6. ASSUME NEW p \in Int, p > fed, NEW v
      PROVE  Right(rsOptions, fed, p, v) <=>
               \/ v = IF mode = "zero" THEN 0 ELSE IF mode = "constant" THEN fed
                      ELSE IF mode = "symmetric" THEN 2 * fed + 1 - p
                      ELSE IF mode = "reflect" THEN 2 * fed - p ELSE p - h
               \/ mode = "reflect" /\ p = fed + h
  BY <1>1, <1>6 DEF Right, After, Order
<1> HIDE DEF all, mode, h, whole, fed
<1>7. \A i \in 1 .. h : fed + i \in Int /\ fed + i > fed
  BY <1>1
<1>8. mode \in {"symmetric", "reflect", "periodic"} =>
        (whole => h >= 3 /\ \A i \in 1 .. h : rsState[i] = fed - h + i)
  BY <1>1, <1>2, <1>4
<1>9. SUFFICES /\ all \in Seq(Nat) /\ Len(all) = h
               /\ whole => \A i \in 1 .. h : Right(rsOptions, fed, fed + i, all[i])
  BY DEF all, h, whole, fed
<1>10. CASE mode = "zero"
  <2>1. all = [i \in 1 .. h |-> 0]
    BY <1>1, <1>5, <1>10 DEF Zeros
  <2>2. all \in Seq(Nat) /\ Len(all) = h /\ \A i \in 1 .. h : all[i] = 0
    BY <1>1, <2>1
  <2> QED
    BY <1>6, <1>7, <1>10, <2>2
<1>11. CASE mode = "constant"
  <2> DEFINE last == Last(rsState)
  <2>1. all = [i \in 1 .. h |-> last]
    BY <1>1, <1>5, <1>11
  <2>2. h >= 1 => last \in Nat /\ (whole => last = fed)
    <3> SUFFICES ASSUME h >= 1 PROVE last \in Nat /\ (whole => last = fed)
      OBVIOUS
    <3>1. h \in 1 .. h /\ fed - h + h = fed /\ last = rsState[h]
      BY <1>1 DEF Last
    <3>2. last \in Nat
      BY <1>1, <3>1, ElementOfSeq
    <3>3. whole => last = fed
      BY <1>1, <1>4, <3>1
    <3> QED
      BY <3>2, <3>3
  <2> HIDE DEF last
  <2>3. all \in Seq(Nat) /\ Len(all) = h /\ \A i \in 1 .. h : all[i] = last
    BY <1>1, <2>1, <2>2
  <2>4. whole => \A i \in 1 .. h : all[i] = fed
    BY <1>1, <2>2, <2>3
  <2> QED
    BY <1>6, <1>7, <1>11, <2>3, <2>4
<1>12. CASE mode = "symmetric"
  <2>1. all = [i \in 1 .. h |-> rsState[h - i + 1]]
    BY <1>1, <1>5, <1>12 DEF Reverse
  <2>2. \A i \in 1 .. h : h - i + 1 \in 1 .. h
    BY <1>1
  <2>3. \A i \in 1 .. h : rsState[h - i + 1] \in Nat
    BY <1>1, <2>2, ElementOfSeq
  <2>4. all \in Seq(Nat) /\ Len(all) = h /\ \A i \in 1 .. h : all[i] = rsState[h - i + 1]
    BY <1>1, <2>1, <2>3
  <2>5. whole => \A i \in 1 .. h : all[i] = 2 * fed + 1 - (fed + i)
    BY <1>1, <1>8, <1>12, <2>2, <2>4
  <2> QED
    BY <1>6, <1>7, <1>12, <2>4, <2>5
<1>13. CASE mode = "reflect"
  <2>1. all = ReflectRight(rsState)
    BY <1>5, <1>13
  <2>2. CASE h < 3
    <3>1. all = rsState
      BY <1>1, <2>1, <2>2 DEF ReflectRight
    <3> QED
      BY <1>1, <1>8, <1>13, <2>2, <3>1
  <2>3. CASE h >= 3
    <3> DEFINE r == Reverse(rsState)
               t == Append(Tail(r), rsState[1])
    <3>1. r \in Seq(Nat) /\ Len(r) = h /\ \A i \in 1 .. h : r[i] = rsState[h - i + 1]
      <4>1. r = [i \in 1 .. h |-> rsState[h - i + 1]]
        BY <1>1 DEF Reverse
      <4>2. \A i \in 1 .. h : h - i + 1 \in 1 .. h
        BY <1>1
      <4>3. \A i \in 1 .. h : rsState[h - i + 1] \in Nat
        BY <1>1, <4>2, ElementOfSeq
      <4> HIDE DEF r
      <4> QED
        BY <1>1, <4>1, <4>3
    <3> HIDE DEF r
    <3>2. rsState[1] \in Nat /\ rsState[2] \in Nat
      BY <1>1, <2>3, ElementOfSeq
    <3>3. t \in Seq(Nat) /\ Len(t) = h /\ \A i \in 1 .. h - 1 : t[i] = r[i + 1]
      BY <1>1, <2>3, <3>1, <3>2
    <3> HIDE DEF t
    <3>4. all = [t EXCEPT ![h] = rsState[2]]
      BY <1>1, <2>1, <2>3 DEF ReflectRight, t, r
    <3>5. h \in 1 .. Len(t)
      BY <1>1, <2>3, <3>3
    <3>6. all \in Seq(Nat) /\ Len(all) = h /\ \A i \in 1 .. h - 1 : all[i] = t[i]
      BY <1>1, <3>2, <3>3, <3>4, <3>5, ExceptSeq
    <3>7. whole => \A i \in 1 .. h - 1 : all[i] = 2 * fed - (fed + i)
      <4> SUFFICES ASSUME whole, NEW i \in 1 .. h - 1 PROVE all[i] = 2 * fed - (fed + i)
        OBVIOUS
      <4>1. i + 1 \in 1 .. h /\ h - i \in 1 .. h /\ h - (i + 1) + 1 = h - i /\ fed - h + (h - i) = fed - i
        BY <1>1
      <4>2. all[i] = r[i + 1]
        BY <3>3, <3>6
      <4>3. r[i + 1] = rsState[h - i]
        BY <3>1, <4>1
      <4>4. rsState[h - i] = fed - i
        BY <1>8, <1>13, <4>1
      <4> QED
        BY <1>1, <4>2, <4>3, <4>4
    <3>8. whole => \A i \in 1 .. h : Right(rsOptions, fed, fed + i, all[i])
      <4> SUFFICES ASSUME whole, NEW i \in 1 .. h PROVE Right(rsOptions, fed, fed + i, all[i])
        OBVIOUS
      <4>1. CASE i = h
        BY <1>6, <1>7, <1>13, <4>1
      <4>2. CASE i \in 1 .. h - 1
        BY <1>6, <1>7, <1>13, <3>7, <4>2
      <4> QED
        BY <1>1, <4>1, <4>2
    <3> QED
      BY <3>6, <3>8
  <2> QED
    BY <1>1, <2>2, <2>3
<1>14. CASE mode = "periodic"
  <2>1. all = rsState
    BY <1>5, <1>14
  <2>2. whole => \A i \in 1 .. h : all[i] = fed + i - h
    BY <1>1, <1>8, <1>14, <2>1
  <2>3. whole => \A i \in 1 .. h : Right(rsOptions, fed, fed + i, all[i])
    <3> SUFFICES ASSUME whole, NEW i \in 1 .. h PROVE Right(rsOptions, fed, fed + i, all[i])
      OBVIOUS
    <3>1. fed + i \in Int /\ fed + i > fed /\ all[i] = (fed + i) - h
      BY <1>1, <1>7, <2>2
    <3> QED
      BY <1>6, <1>14, <3>1
  <2> QED
    BY <1>1, <2>1, <2>3
<1> QED
  BY <1>1, <1>10, <1>11, <1>12, <1>13, <1>14

\* The new state is the end of what the filter had before it.
LEMMA NextStateIs ==
  ASSUME NEW before \in Seq(Nat), NEW chunk \in Seq(Nat)
  PROVE  /\ NextState(before, chunk) \in Seq(Nat) /\ Len(NextState(before, chunk)) = Len(before)
         /\ \A i \in 1 .. Len(before) :
              NextState(before, chunk)[i] = (before \o chunk)[Len(chunk) + i]
<1> DEFINE all == before \o chunk
           h == Len(before)
           size == Len(chunk)
           next == SubSeq(all, size + 1, h + size)
<1>1. all \in Seq(Nat) /\ Len(all) = h + size /\ h \in Nat /\ size \in Nat
  OBVIOUS
<1> HIDE DEF all, h, size
<1>2. NextState(before, chunk) = next
  BY <1>1 DEF NextState, all, size
<1>3. \A i \in size + 1 .. h + size : all[i] \in Nat
  BY <1>1, ElementOfSeq
<1>4. next \in Seq(Nat) /\ Len(next) = h /\ \A i \in 1 .. h : next[i] = all[size + i]
  BY <1>1, <1>3
<1> HIDE DEF next
<1> QED
  BY <1>2, <1>4 DEF all, h, size

\* The same for the options of the resampler.
LEMMA ShownIs ==
  ASSUME OptionsFit, NEW fed \in Nat, NEW row, NEW n \in Nat, RowRight(rsOptions, fed, row, n)
  PROVE  RowShows(rsOptions, fed, row, n)
<1>1. /\ rsOptions.mode \in {"zero", "constant", "symmetric", "reflect", "periodic"}
      /\ rsOptions.up \in Nat \ {0} /\ rsOptions.down \in Nat \ {0} /\ History(rsOptions) \in Nat
  BY DEF OptionsFit, Up, Down, Order
<1> QED
  BY <1>1, RowShown

\* Cropping drops the first rows and keeps the order of the others.
LEMMA CroppedIs ==
  ASSUME NEW T, NEW rows \in Seq(T), NEW skip \in Nat
  PROVE  LET count == IF skip < Len(rows) THEN skip ELSE Len(rows)
             result == Cropped(skip, rows)
         IN /\ count \in Nat /\ result.left = skip - count /\ result.left \in Nat
            /\ Len(result.rows) = Len(rows) - count /\ Len(result.rows) \in Nat
            /\ DOMAIN result.rows = 1 .. Len(result.rows)
            /\ \A k \in 1 .. Len(result.rows) : result.rows[k] = rows[count + k] /\ count + k \in 1 .. Len(rows)
<1> DEFINE count == IF skip < Len(rows) THEN skip ELSE Len(rows)
           cut == SubSeq(rows, count + 1, Len(rows))
<1>1. count \in Nat /\ count <= Len(rows) /\ count <= skip /\ Len(rows) \in Nat
  OBVIOUS
<1>2. Cropped(skip, rows).rows = cut /\ Cropped(skip, rows).left = skip - count
  BY DEF Cropped
<1> HIDE DEF count
<1>3. Len(cut) = Len(rows) - count /\ DOMAIN cut = 1 .. Len(cut)
  BY <1>1
<1>4. \A k \in 1 .. Len(cut) : cut[k] = rows[count + k] /\ count + k \in 1 .. Len(rows)
  BY <1>1, <1>3
<1> HIDE DEF cut
<1>5. Len(rows) - count \in Nat /\ skip - count \in Nat
  BY <1>1
<1> QED
  BY <1>1, <1>2, <1>3, <1>4, <1>5 DEF count

\* The whole extended stream that a chunk and what precedes it are a part of.
LEMMA StreamFits ==
  ASSUME OptionsFit, NEW fed \in Nat, NEW size \in Nat, NEW before \in Seq(Nat), NEW chunk \in Seq(Nat),
         Len(before) = Order, Len(chunk) = size, \A i \in 1 .. size : chunk[i] = fed + i,
         \A i \in 1 .. Order : Seen(rsOptions, fed - Order + i, before[i])
  PROVE  \A i \in 1 .. Order + size : Seen(rsOptions, fed - Order + i, (before \o chunk)[i])
<1> DEFINE h == Order
           all == before \o chunk
<1>1. h \in Nat
  BY DEF OptionsFit
<1> HIDE DEF h, all
<1>2. Len(before) = h
  BY DEF h
<1> TAKE i \in 1 .. Order + size
<1>3. i \in 1 .. h + size
  BY DEF h
<1>4. CASE i <= h
  <2>1. all[i] = before[i]
    BY <1>1, <1>2, <1>3, <1>4 DEF all
  <2>2. i \in 1 .. Order
    BY <1>1, <1>3, <1>4 DEF h
  <2> QED
    BY <2>1, <2>2 DEF all
<1>5. CASE i > h
  <2>1. i - h \in 1 .. size /\ i - h \in Nat
    BY <1>1, <1>3, <1>5
  <2>2. all[i] = chunk[i - h]
    BY <1>1, <1>2, <1>3, <1>5 DEF all
  <2>3. all[i] = fed + (i - h)
    BY <2>1, <2>2
  <2> DEFINE p == fed - h + i
  <2>4. p \in Nat /\ p >= 1 /\ all[i] = p
    BY <1>1, <2>1, <2>3
  <2> HIDE DEF p
  <2>5. Seen(rsOptions, p, all[i])
    BY <2>4 DEF Seen, Before
  <2> QED
    BY <2>5 DEF p, h, all
<1> QED
  BY <1>1, <1>3, <1>4, <1>5

\* apply() keeps the invariant, for a first chunk and for a later one.
LEMMA RsApplied ==
  ASSUME RsAssumption, ResamplerInv, RsApply
  PROVE  ResamplerInv'
<1>1. PICK size \in RsChunks :
        LET chunk  == [i \in 1 .. size |-> rsFed + i]
            before == IF rsApplied THEN rsState ELSE Extrapolated(chunk)
            rows   == Filtered(before, chunk)
            result == Cropped(rsSkip, rows)
        IN /\ rsAt = "on" /\ rsFed + size <= RsMaxFed
           /\ Filter(before, chunk)
           /\ rsSized' = <<OutputSize(size), Len(rows)>>
           /\ rsRows' = result.rows /\ rsSkip' = result.left
           /\ rsFirst' = IF rsApplied THEN rsFirst ELSE size
           /\ rsFed' = rsFed + size /\ rsMade' = rsMade + Len(rows)
           /\ rsKept' = rsKept + Len(result.rows)
           /\ UNCHANGED <<rsOptions, rsAt>>
  BY DEF RsApply
<1> DEFINE chunk  == [i \in 1 .. size |-> rsFed + i]
           before == IF rsApplied THEN rsState ELSE Extrapolated(chunk)
           rows   == Filtered(before, chunk)
           all    == before \o chunk
           result == Cropped(rsSkip, rows)
           count  == IF rsSkip < Len(rows) THEN rsSkip ELSE Len(rows)
           last   == Last(Cursors(size))
           h      == Order
           e      == OutputSize(size)
<1>2. OptionsFit /\ PlacesFit /\ StateFits /\ Stands
  BY <1>1 DEF ResamplerInv, PlacesFit
<1>3. size \in Nat \ {0}
  BY DEF RsAssumption
<1>4. /\ chunk \in Seq(Nat) /\ Len(chunk) = size /\ rsFed \in Nat
      /\ \A i \in 1 .. size : chunk[i] = rsFed + i
  <2>1. rsFed \in Nat
    BY <1>2 DEF PlacesFit
  <2> QED
    BY <1>3, <2>1
<1> HIDE DEF chunk
<1>5. /\ Filter(before, chunk) /\ rsSized' = <<e, Len(rows)>> /\ rsRows' = result.rows
      /\ rsSkip' = result.left /\ rsFirst' = IF rsApplied THEN rsFirst ELSE size
      /\ rsFed' = rsFed + size /\ rsMade' = rsMade + Len(rows)
      /\ rsKept' = rsKept + Len(result.rows) /\ rsOptions' = rsOptions
      /\ rsAt = "on" /\ rsAt' = "on"
  BY <1>1 DEF chunk
<1>6. /\ rsSkip \in Nat /\ rsFirst \in Nat /\ rsMade \in Nat /\ rsKept \in Nat /\ rsApplied \in BOOLEAN
      /\ h \in Nat /\ Up \in Nat \ {0} /\ Down \in Nat \ {0} /\ Crop \in Nat
      /\ rsState \in Seq(Nat) /\ Len(rsState) = h
      /\ rsMade + rsSkip = rsKept + Crop
  BY <1>2, CropIs DEF OptionsFit, PlacesFit
<1>7. /\ before \in Seq(Nat) /\ Len(before) = h
      /\ Whole(rsOptions, rsFirst') =>
           \A i \in 1 .. h : Seen(rsOptions, rsFed - h + i, before[i])
  <2>1. CASE rsApplied
    <3>1. before = rsState /\ rsFirst' = rsFirst
      BY <1>5, <2>1
    <3> QED
      BY <1>2, <1>6, <2>1, <3>1 DEF StateFits
  <2>2. CASE ~rsApplied
    <3>1. before = Extrapolated(chunk) /\ rsFirst' = size
      BY <1>5, <2>2
    <3>2. rsFed = 0 /\ rsState = Zeros(Order)
      BY <1>2, <2>2 DEF PlacesFit
    <3>3. \A i \in 1 .. size : chunk[i] = i
      BY <1>3, <1>4, <3>2
    <3> HIDE DEF before, h
    <3>4. /\ before \in Seq(Nat) /\ Len(before) = Order
          /\ Whole(rsOptions, size) =>
               \A i \in 1 .. Order : Seen(rsOptions, i - Order, before[i])
      BY <1>2, <1>3, <1>4, <3>1, <3>2, <3>3, ExtrapolatedIs
    <3>5. \A i \in 1 .. h : rsFed - h + i = i - h
      BY <1>6, <3>2
    <3> QED
      BY <3>1, <3>4, <3>5 DEF h
  <2> QED
    BY <1>6, <2>1, <2>2
<1> HIDE DEF before
<1>8. /\ rows \in Seq({rows[k] : k \in 1 .. Len(rows)}) /\ Len(rows) = e /\ e \in Nat
  BY <1>2, <1>4, <1>7, FilteredIs
<1>9. Whole(rsOptions, rsFirst') =>
        \A i \in 1 .. h + size : Seen(rsOptions, rsFed - h + i, all[i])
  <2> HIDE DEF all
  <2> SUFFICES ASSUME Whole(rsOptions, rsFirst')
               PROVE  \A i \in 1 .. h + size : Seen(rsOptions, rsFed - h + i, all[i])
    OBVIOUS
  <2>1. size \in Nat
    BY <1>3
  <2> QED
    BY <1>2, <1>4, <1>7, <2>1, StreamFits DEF all
<1>10. rsFed' \in Nat /\ rsFed' >= 1 /\ rsFed' = rsFed + size
  BY <1>3, <1>4, <1>5
<1>11. ASSUME Whole(rsOptions, rsFirst')
       PROVE  \A k \in 1 .. Len(rows) : RowRight(rsOptions, rsFed', rows[k], rsMade + k - 1)
  <2> HIDE DEF all
  <2>1. \A i \in 1 .. h + size : Right(rsOptions, rsFed', rsFed - h + i, all[i])
    <3> TAKE i \in 1 .. h + size
    <3>1. rsFed - h + i <= rsFed'
      BY <1>3, <1>4, <1>6, <1>10
    <3> QED
      BY <1>9, <1>11, <3>1 DEF Right
  <2> HIDE DEF rows
  <2> QED
    BY <1>2, <1>4, <1>7, <1>10, <2>1, RowsRight DEF rows, all
<1> HIDE DEF rows, all
<1>12. /\ count \in Nat /\ result.left = rsSkip - count /\ result.left \in Nat
       /\ Len(result.rows) = Len(rows) - count /\ Len(result.rows) \in Nat
       /\ DOMAIN result.rows = 1 .. Len(result.rows)
       /\ \A k \in 1 .. Len(result.rows) :
            result.rows[k] = rows[count + k] /\ count + k \in 1 .. Len(rows)
  <2> DEFINE T == {rows[k] : k \in 1 .. Len(rows)}
  <2>1. rows \in Seq(T)
    BY <1>8
  <2> HIDE DEF T
  <2> QED
    BY <1>6, <2>1, CroppedIs
<1> HIDE DEF count, result
<1>13. OptionsFit'
  BY <1>2, <1>5 DEF OptionsFit, Up, Down, Order
<1>14. Up' = Up /\ Down' = Down /\ Order' = Order /\ Crop' = Crop
  BY <1>5 DEF Up, Down, Order, Crop
<1>15. /\ rsState' = NextState(before, chunk) /\ rsApplied' = TRUE
       /\ rsPhase' = last.phase /\ rsOffset' = last.in - size
  BY <1>4, <1>5 DEF Filter
<1>16. PlacesFit'
  <2> DEFINE s == rsPhase + Up * rsOffset
  <2>1. /\ rsPhase' \in Nat /\ rsPhase' < Up /\ rsOffset' \in Nat
        /\ Up * rsOffset' + rsPhase' + Up * size = s + Down * e
        /\ rsPhase' + Up * rsOffset' < Down
    BY <1>2, <1>3, <1>15, LastCursor
  <2>2. Stands'
    BY <1>6, <1>14, <2>1 DEF Stands
  <2>3. Up * (rsFed' + rsOffset') + rsPhase' = Down * rsMade'
    <3>1. Up * (rsFed + rsOffset) + rsPhase = Down * rsMade /\ rsPhase \in Nat /\ rsOffset \in Nat
      BY <1>2 DEF PlacesFit, Stands
    <3>2. Up * (rsFed + rsOffset) = Up * rsFed + Up * rsOffset
      BY <1>4, <1>6, <3>1
    <3>3. Up * (rsFed + size + rsOffset') = Up * rsFed + Up * size + Up * rsOffset'
      BY <1>3, <1>4, <1>6, <2>1
    <3>4. rsMade' = rsMade + e /\ Down * (rsMade + e) = Down * rsMade + Down * e
      BY <1>5, <1>6, <1>8
    <3> DEFINE a == Up * rsFed
               b == Up * rsOffset
               c == Up * size
               d == Up * rsOffset'
               x == Down * rsMade
               y == Down * e
    <3>5. /\ a \in Nat /\ b \in Nat /\ c \in Nat /\ d \in Nat /\ x \in Nat /\ y \in Nat
      <4>1. rsOffset' \in Nat /\ rsOffset \in Nat /\ size \in Nat
        BY <1>3, <2>1, <3>1
      <4>2. \A i, j \in Nat : i * j \in Nat
        OBVIOUS
      <4> QED
        BY <1>4, <1>6, <1>8, <4>1, <4>2
    <3>6. a + b + rsPhase = x /\ d + rsPhase' + c = rsPhase + b + y
      BY <2>1, <3>1, <3>2
    <3>7. Up * (rsFed' + rsOffset') = a + c + d /\ Down * rsMade' = x + y
      BY <1>10, <3>3, <3>4
    <3> HIDE DEF a, b, c, d, x, y
    <3>8. a + c + d + rsPhase' = x + y
      <4>1. rsPhase' \in Nat /\ rsPhase \in Nat
        BY <2>1, <3>1
      <4> DEFINE p == rsPhase
                 q == rsPhase'
      <4>2. p \in Nat /\ q \in Nat /\ a + b + p = x /\ d + q + c = p + b + y
        BY <3>6, <4>1
      <4> HIDE DEF p, q
      <4>3. a + c + d + q = x + y
        BY <3>5, <4>2
      <4> QED
        BY <4>3 DEF q
    <3> QED
      BY <3>7, <3>8
  <2>4. rsState' \in Seq(Nat) /\ Len(rsState') = Order
    BY <1>4, <1>7, <1>15, NextStateIs
  <2>5. /\ rsSkip' \in Nat /\ rsMade' \in Nat /\ rsKept' \in Nat
        /\ rsMade' + rsSkip' = rsKept' + Crop
    <3> DEFINE m == Len(rows)
               n == Len(result.rows)
               left == result.left
    <3>1. /\ m \in Nat /\ n \in Nat /\ left \in Nat /\ left = rsSkip - count /\ n = m - count
          /\ rsSkip' = left /\ rsMade' = rsMade + m /\ rsKept' = rsKept + n /\ count \in Nat
      BY <1>5, <1>8, <1>12
    <3> HIDE DEF m, n, left
    <3> QED
      BY <1>6, <3>1
  <2>6. rsFirst' \in Nat /\ 1 <= rsFirst' /\ rsFirst' <= rsFed'
    <3>1. CASE rsApplied
      <4>1. 1 <= rsFirst /\ rsFirst <= rsFed
        BY <1>2, <3>1 DEF PlacesFit
      <4> QED
        BY <1>3, <1>4, <1>5, <1>6, <3>1, <4>1
    <3>2. CASE ~rsApplied
      BY <1>3, <1>4, <1>5, <3>2
    <3> QED
      BY <1>6, <3>1, <3>2
  <2> QED
    BY <1>10, <1>14, <1>15, <2>2, <2>3, <2>4, <2>5, <2>6 DEF PlacesFit
<1>17. StateFits'
  <2> SUFFICES ASSUME Whole(rsOptions, rsFirst')
               PROVE  \A i \in 1 .. h : Seen(rsOptions, rsFed' - h + i, rsState'[i])
    BY <1>5, <1>14 DEF StateFits
  <2> TAKE i \in 1 .. h
  <2>1. rsState'[i] = all[size + i]
    BY <1>4, <1>7, <1>15, NextStateIs DEF all
  <2>2. size + i \in 1 .. h + size /\ rsFed' - h + i = rsFed - h + (size + i)
    BY <1>3, <1>4, <1>6, <1>10
  <2>3. Seen(rsOptions, rsFed - h + (size + i), all[size + i])
    BY <1>9, <2>2
  <2> QED
    BY <2>1, <2>2, <2>3
<1>18. ChunksDoNotShow'
  <2> DEFINE n == Len(result.rows)
             from == Crop + rsKept
  <2>1. n \in Nat /\ DOMAIN rsRows' = 1 .. n /\ Len(rsRows') = n /\ rsRows' = result.rows
    BY <1>5, <1>12
  <2>2. from \in Nat /\ Crop + rsKept' - Len(rsRows') = from
    BY <1>5, <1>6, <1>12, <2>1
  <2> SUFFICES ASSUME rsSkip' = 0, Whole(rsOptions, rsFirst')
               PROVE  \A k \in 1 .. n : RowShows(rsOptions, rsFed', rsRows'[k], from + k - 1)
    <3>1. \A p : Extended(p)' = ExtendedTo(rsOptions, rsFed', p)
      BY <1>5 DEF Extended, ExtendedTo
    <3>2. \A p : Farthest(p)' <=> rsOptions.mode = "reflect" /\ p \in {1 - Order, rsFed' + Order}
      BY <1>5 DEF Farthest, Order
    <3>3. Crop + rsKept' - Len(rsRows') = from /\ DOMAIN rsRows' = 1 .. n /\ rsOptions' = rsOptions
      BY <1>5, <2>1, <2>2
    <3> HIDE DEF n, from
    <3> QED
      BY <3>1, <3>2, <3>3, Zenon DEF ChunksDoNotShow, RowShows, Whole, Order, Crop
  <2>3. \A k \in 1 .. n : RowRight(rsOptions, rsFed', rsRows'[k], from + k - 1)
    <3> TAKE k \in 1 .. n
    <3>1. rsRows'[k] = rows[count + k] /\ count + k \in 1 .. Len(rows)
      BY <1>12, <2>1
    <3>2. count = rsSkip
      BY <1>5, <1>6, <1>12
    <3>3. rsMade + (count + k) - 1 = from + k - 1
      BY <1>6, <3>2
    <3>4. RowRight(rsOptions, rsFed', rows[count + k], rsMade + (count + k) - 1)
      BY <1>11, <3>1
    <3> QED
      BY <3>1, <3>3, <3>4
  <2>4. \A k \in 1 .. n : from + k - 1 \in Nat
    BY <2>1, <2>2
  <2> HIDE DEF n, from
  <2> QED
    BY <1>2, <1>10, <2>3, <2>4, ShownIs
<1>19. LengthKept' /\ DefaultLengthSuffices'
  BY <1>5 DEF LengthKept, DefaultLengthSuffices
<1>20. BuffersFit'
  BY <1>5, <1>8 DEF BuffersFit
<1> QED
  BY <1>13, <1>16, <1>17, <1>18, <1>19, <1>20 DEF ResamplerInv, StreamIsWhole

\* Flushing makes as many rows as the factors ask for: the filter's whole
\* delay, or half of it for a stream that is cropped.
LEMMA LengthIs ==
  ASSUME OptionsFit, PlacesFit, rsSkip = 0, NEW kept \in Nat,
         kept = rsKept + (IF rsOptions.crop
                          THEN OutputSize(Order) - TrailingSkip(OutputSize(Order))
                          ELSE OutputSize(Order))
  PROVE  LET wanted == Ceiling(rsFed * Up, Down) IN
           IF rsOptions.crop THEN kept \in {wanted - 1, wanted}
           ELSE kept = Ceiling((rsFed + Order) * Up, Down)
<1> DEFINE size == OutputSize(Order)
           s == rsPhase + Up * rsOffset
           t == rsFed * Up
           u == Order * Up
           c == Ceiling(u, Down)
<1>1. /\ Up \in Nat \ {0} /\ Down \in Nat \ {0} /\ Order \in Nat /\ rsFed \in Nat
      /\ rsMade \in Nat /\ rsKept \in Nat /\ rsMade = rsKept + Crop
      /\ Stands /\ Up * (rsFed + rsOffset) + rsPhase = Down * rsMade
  BY DEF OptionsFit, PlacesFit
<1>2. rsPhase \in Nat /\ rsOffset \in Nat /\ s \in Nat /\ s < Down
  BY <1>1 DEF Stands
<1>3. t \in Nat /\ u \in Nat /\ (rsFed + Order) * Up = t + u /\ Up * Order = u
  BY <1>1
<1>4. t + s = Down * rsMade
  <2>1. Up * (rsFed + rsOffset) = t + Up * rsOffset
    BY <1>1, <1>2
  <2>2. Up * rsOffset \in Nat
    BY <1>1, <1>2
  <2> HIDE DEF t
  <2> QED
    BY <1>1, <1>2, <1>3, <2>1, <2>2
<1>5. size \in Nat /\ s + Down * size >= u /\ s + Down * size < u + Down
  BY <1>1, <1>3, SizeIs
<1> HIDE DEF s, t, u, size, c
<1>6. Ceiling(t, Down) = rsMade
  BY <1>1, <1>2, <1>3, <1>4, CeilingIs
<1>7. CASE ~rsOptions.crop
  <2>1. kept = rsMade + size
    BY <1>1, <1>7 DEF Crop, size
  <2>2. Down * (rsMade + size) = Down * rsMade + Down * size
    BY <1>1, <1>5
  <2> DEFINE x == Down * size
             y == Down * rsMade
             n == t + u
  <2>3. x \in Nat /\ y \in Nat /\ n \in Nat
    BY <1>1, <1>3, <1>5
  <2>4. t + s = y /\ s + x >= u /\ s + x < u + Down /\ Down * (rsMade + size) = y + x
    BY <1>4, <1>5, <2>2
  <2> DEFINE r == s + x - u
  <2> HIDE DEF x, y
  <2>5. r \in Nat /\ r < Down /\ Down * (rsMade + size) = n + r
    BY <1>1, <1>2, <1>3, <2>3, <2>4
  <2> HIDE DEF n, r
  <2>6. Ceiling(n, Down) = rsMade + size
    BY <1>1, <1>5, <2>3, <2>5, CeilingIs
  <2> QED
    BY <1>3, <1>7, <2>1, <2>6 DEF n
<1>8. CASE rsOptions.crop
  <2> DEFINE lead == c \div 2
             skip == TrailingSkip(size)
  <2>1. c \in Nat /\ Crop = lead
    BY <1>8, CropIs DEF c, u
  <2>2. size = c \/ size + 1 = c
    <3>1. PICK r \in Nat : r < Down /\ Down * c = u + r
      BY <1>1, <1>3, CeilingOf DEF c
    <3>2. \A i, j \in Nat : i > j => Down * i >= Down * j + Down
      <4> TAKE i, j \in Nat
      <4> SUFFICES ASSUME i > j PROVE Down * i >= Down * j + Down
        OBVIOUS
      <4>1. i - j \in Nat /\ i - j >= 1 /\ i = j + (i - j)
        OBVIOUS
      <4>2. Down * i = Down * j + Down * (i - j)
        BY <1>1, <4>1
      <4>3. Down * (i - j) >= Down /\ Down * j \in Nat /\ Down * (i - j) \in Nat
        BY <1>1, <4>1
      <4> QED
        BY <1>1, <4>2, <4>3
    <3> DEFINE x == Down * size
               y == Down * c
    <3>3. x \in Nat /\ y \in Nat
      BY <1>1, <1>5, <2>1
    <3>4. ~(size > c)
      <4> SUFFICES ASSUME size > c PROVE FALSE
        OBVIOUS
      <4>1. x >= y + Down
        BY <1>5, <2>1, <3>2
      <4>2. y = u + r /\ s + x < u + Down
        BY <1>5, <3>1
      <4> HIDE DEF x, y
      <4> QED
        BY <1>1, <1>2, <1>3, <3>1, <3>3, <4>1, <4>2
    <3>5. ~(c > size + 1)
      <4> SUFFICES ASSUME c > size + 1 PROVE FALSE
        OBVIOUS
      <4>1. y >= Down * (size + 1) + Down /\ Down * (size + 1) = x + Down
        BY <1>1, <1>5, <2>1, <3>2
      <4>2. y = u + r /\ s + x >= u
        BY <1>5, <3>1
      <4> HIDE DEF x, y
      <4> QED
        BY <1>1, <1>2, <1>3, <3>1, <3>3, <4>1, <4>2
    <3> HIDE DEF x, y
    <3> QED
      BY <1>5, <2>1, <3>4, <3>5
  <2>3. skip = (size + (size % 2)) \div 2
    BY DEF TrailingSkip
  <2>4. kept = rsMade - lead + (size - skip)
    <3>1. kept = rsKept + (size - skip) /\ rsMade = rsKept + lead
      BY <1>1, <1>8, <2>1 DEF size
    <3>2. lead \in Nat /\ skip \in Int
      BY <1>5, <2>1, <2>3
    <3> HIDE DEF lead, skip
    <3> QED
      BY <1>1, <1>5, <3>1, <3>2
  <2>5. size - skip \in {lead, lead - 1}
    BY <1>5, <2>1, <2>2, <2>3
  <2>6. kept \in {rsMade - 1, rsMade}
    <3> HIDE DEF skip
    <3>1. lead \in Nat
      BY <2>1
    <3> HIDE DEF lead
    <3> QED
      BY <1>1, <2>4, <2>5, <3>1
  <2> QED
    BY <1>6, <1>8, <2>6 DEF t
<1> QED
  BY <1>7, <1>8

\* A filter of the default length has two rows or more left to flush.
LEMMA TwoAreLeft ==
  ASSUME OptionsFit, PlacesFit, rsOptions.length = DefaultFilterLength(Up, Down)
  PROVE  OutputSize(Order) >= 2 /\ TrailingSkip(OutputSize(Order)) < OutputSize(Order)
<1> DEFINE size == OutputSize(Order)
           s == rsPhase + Up * rsOffset
           u == Up * Order
<1>1. /\ Up \in Nat \ {0} /\ Down \in Nat \ {0} /\ Order \in Nat /\ Stands
      /\ u >= 2 * Down /\ u \in Nat
  BY DEF OptionsFit, PlacesFit
<1>2. s \in Nat /\ s < Down
  BY <1>1 DEF Stands
<1>3. size \in Nat /\ s + Down * size >= u
  BY <1>1, SizeIs
<1> HIDE DEF size, s, u
<1>4. size # 0 /\ size # 1
  <2>1. size = 0 => Down * size = 0
    BY <1>1
  <2>2. size = 1 => Down * size = Down
    BY <1>1
  <2> QED
    BY <1>1, <1>2, <1>3, <2>1, <2>2
<1>5. size >= 2
  BY <1>3, <1>4
<1>6. (size + (size % 2)) \div 2 < size
  BY <1>3, <1>5
<1> QED
  BY <1>5, <1>6 DEF size, TrailingSkip

\* Calls that leave the rows and their numbers alone leave what they show alone.
LEMMA StillShown ==
  ASSUME UNCHANGED <<rsOptions, rsRows, rsSkip, rsFirst, rsFed, rsKept>>
  PROVE  ChunksDoNotShow' <=> ChunksDoNotShow
<1>1. \A p : Extended(p)' = Extended(p)
  BY DEF Extended
<1>2. \A p : Farthest(p)' <=> Farthest(p)
  BY DEF Farthest
<1> QED
  BY <1>1, <1>2, Zenon DEF ChunksDoNotShow

\* flush() keeps the invariant: it makes the rows that the end of the
\* extended stream asks for, or has none and dies.
LEMMA RsFlushed ==
  ASSUME ResamplerInv, RsFlush
  PROVE  ResamplerInv'
<1> DEFINE size == OutputSize(Len(rsState))
           skip == IF rsOptions.crop THEN TrailingSkip(size) ELSE 0
           rows == Filtered(rsState, Extra)
           all  == rsState \o Extra
           h    == Order
<1>1. /\ rsAt = "on" /\ rsOptions' = rsOptions /\ rsSkip' = rsSkip /\ rsFirst' = rsFirst /\ rsFed' = rsFed
      /\ OptionsFit /\ PlacesFit /\ StateFits /\ StreamIsWhole
  BY DEF RsFlush, ResamplerInv
<1>2. OptionsFit' /\ Up' = Up /\ Down' = Down /\ Order' = Order /\ Crop' = Crop
  BY <1>1 DEF OptionsFit, Up, Down, Order, Crop
<1>3. SUFFICES StreamIsWhole' /\ rsAt' # "on"
  BY <1>2 DEF ResamplerInv
<1>4. /\ h \in Nat /\ Len(rsState) = h /\ rsState \in Seq(Nat) /\ rsFed \in Nat /\ rsMade \in Nat
      /\ rsKept \in Nat /\ rsSkip \in Nat /\ rsMade + rsSkip = rsKept + Crop /\ Crop \in Nat /\ Stands
      /\ Up \in Nat \ {0} /\ Down \in Nat \ {0}
  BY <1>1, CropIs DEF OptionsFit, PlacesFit
<1>5. /\ \A p : Extended(p)' = ExtendedTo(rsOptions, rsFed, p)
      /\ \A p : Farthest(p)' <=> rsOptions.mode = "reflect" /\ p \in {1 - Order, rsFed + Order}
  <2>1. \A p : Extended(p)' = ExtendedTo(rsOptions, rsFed, p)
    BY <1>1 DEF Extended, ExtendedTo
  <2>2. \A p : Farthest(p)' <=> rsOptions.mode = "reflect" /\ p \in {1 - Order, rsFed + Order}
    BY <1>1 DEF Farthest, Order
  <2> QED
    BY <2>1, <2>2
<1>6. CASE ~rsApplied
  <2>1. rsAt' = "flushed" /\ rsRows' = <<>> /\ rsApplied' = rsApplied /\ rsSized' = rsSized
    BY <1>6 DEF RsFlush
  <2> QED
    BY <1>1, <1>6, <2>1
       DEF StreamIsWhole, ChunksDoNotShow, LengthKept, BuffersFit, DefaultLengthSuffices
<1>7. CASE rsApplied /\ rsOptions.crop /\ skip >= size
  <2>1. /\ rsAt' = "dead" /\ rsRows' = rsRows /\ rsApplied' = rsApplied /\ rsSized' = rsSized
        /\ rsKept' = rsKept
    <3>1. ~(rsOptions.crop => skip < size)
      <4>1. size \in Nat
        BY <1>4, SizeIs
      <4> HIDE DEF size
      <4>2. skip \in Int
        BY <4>1 DEF TrailingSkip
      <4> HIDE DEF skip
      <4> QED
        BY <1>7, <4>1, <4>2
    <3> QED
      BY <1>7, <3>1, Zenon DEF RsFlush
  <2>2. DefaultLengthSuffices'
    <3>1. ~(rsOptions.length = DefaultFilterLength(Up, Down))
      <4> SUFFICES ASSUME rsOptions.length = DefaultFilterLength(Up, Down) PROVE FALSE
        OBVIOUS
      <4> DEFINE n == OutputSize(Order)
                 t == TrailingSkip(n)
      <4>1. n \in Nat /\ t < n
        BY <1>1, <1>4, SizeIs, TwoAreLeft
      <4>2. t >= n
        BY <1>4, <1>7
      <4>3. t \in Int
        <5>1. n \in Nat
          BY <4>1
        <5> HIDE DEF n
        <5> QED
          BY <5>1 DEF TrailingSkip
      <4> HIDE DEF n, t
      <4> QED
        BY <4>1, <4>2, <4>3
    <3> QED
      BY <1>1, <3>1 DEF DefaultLengthSuffices, Up, Down
  <2>3. ChunksDoNotShow'
    BY <1>1, <2>1, StillShown DEF StreamIsWhole
  <2> QED
    BY <1>1, <2>1, <2>2, <2>3 DEF StreamIsWhole, LengthKept, BuffersFit
<1>8. CASE rsApplied /\ (rsOptions.crop => skip < size)
  <2>1. /\ rsAt' = "flushed" /\ rsSized' = <<size, Len(rows)>> /\ rsRows' = SubSeq(rows, 1, size - skip)
        /\ rsKept' = rsKept + Len(rsRows')
    <3>1. ~(rsOptions.crop /\ skip >= size)
      <4> SUFFICES ASSUME rsOptions.crop, skip >= size PROVE FALSE
        OBVIOUS
      <4>1. size \in Nat
        BY <1>4, SizeIs
      <4> HIDE DEF size
      <4>2. skip \in Int
        BY <4>1 DEF TrailingSkip
      <4> HIDE DEF skip
      <4> QED
        BY <1>8, <4>1, <4>2
    <3> QED
      BY <1>8, <3>1 DEF RsFlush
  <2>2. /\ Extra \in Seq(Nat) /\ Len(Extra) = h
        /\ Whole(rsOptions, rsFirst) => \A i \in 1 .. h : Right(rsOptions, rsFed, rsFed + i, Extra[i])
    BY <1>1, <1>8, ExtraIs
  <2>3. Whole(rsOptions, rsFirst) => \A i \in 1 .. h : Seen(rsOptions, rsFed - h + i, rsState[i])
    BY <1>1, <1>8 DEF StateFits
  <2>4. size = OutputSize(h)
    BY <1>4
  <2>5. /\ rows \in Seq({rows[k] : k \in 1 .. Len(rows)}) /\ Len(rows) = size /\ size \in Nat
    BY <1>4, <2>2, <2>4, FilteredIs
  <2>6. Whole(rsOptions, rsFirst) =>
          \A i \in 1 .. h + h : Right(rsOptions, rsFed, rsFed - h + i, all[i])
    <3> SUFFICES ASSUME Whole(rsOptions, rsFirst), NEW i \in 1 .. h + h
                 PROVE  Right(rsOptions, rsFed, rsFed - h + i, all[i])
      OBVIOUS
    <3> DEFINE extra == Extra
    <3> HIDE DEF h, extra
    <3>1. h \in Nat /\ Len(rsState) = h /\ Len(extra) = h /\ extra \in Seq(Nat) /\ rsState \in Seq(Nat)
      BY <1>4, <2>2 DEF h, extra
    <3>2. CASE i <= h
      <4>1. i \in 1 .. h /\ rsFed - h + i <= rsFed
        <5>1. h \in Nat /\ rsFed \in Nat /\ i \in Nat /\ i >= 1
          BY <1>4, <3>1
        <5> QED
          BY <3>2, <5>1
      <4>3. all[i] = rsState[i]
        <5>1. (rsState \o extra)[i] = rsState[i]
          BY <3>1, <4>1
        <5> QED
          BY <5>1 DEF extra
      <4>2. Seen(rsOptions, rsFed - h + i, rsState[i])
        BY <2>3, <4>1
      <4> QED
        BY <4>1, <4>2, <4>3 DEF Right
    <3>3. CASE i > h
      <4>1. i - h \in 1 .. h /\ all[i] = Extra[i - h] /\ rsFed - h + i = rsFed + (i - h)
        BY <1>4, <3>1, <3>3 DEF extra
      <4>2. Right(rsOptions, rsFed, rsFed + (i - h), Extra[i - h])
        BY <2>2, <4>1
      <4> QED
        BY <4>1, <4>2
    <3>4. i <= h \/ i > h
      BY <1>4 DEF h
    <3> QED
      BY <3>2, <3>3, <3>4
  <2>7. ASSUME Whole(rsOptions, rsFirst)
        PROVE  \A k \in 1 .. Len(rows) : RowRight(rsOptions, rsFed, rows[k], rsMade + k - 1)
    <3> DEFINE extra == Extra
    <3>1. \A i \in 1 .. Order + Len(extra) : Right(rsOptions, rsFed, rsFed - Order + i, (rsState \o extra)[i])
      BY <2>2, <2>6, <2>7
    <3>2. extra \in Seq(Nat)
      BY <2>2
    <3> HIDE DEF extra
    <3>3. \A k \in 1 .. Len(Filtered(rsState, extra)) :
            RowRight(rsOptions, rsFed, Filtered(rsState, extra)[k], rsMade + k - 1)
      BY <1>1, <1>4, <3>1, <3>2, RowsRight
    <3> QED
      BY <3>3 DEF extra
  <2>8. skip \in 0 .. size
    <3>1. size \in Nat /\ (rsOptions.crop => skip < size)
      BY <1>8, <2>5
    <3> HIDE DEF size
    <3> QED
      BY <3>1 DEF TrailingSkip
  <2> DEFINE n == size - skip
  <2>9. n \in Nat /\ n <= Len(rows) /\ rsRows' = SubSeq(rows, 1, n)
    BY <2>1, <2>5, <2>8
  <2> HIDE DEF rows, n
  <2>10. /\ Len(rsRows') = n /\ DOMAIN rsRows' = 1 .. n
         /\ \A k \in 1 .. n : rsRows'[k] = rows[k] /\ k \in 1 .. Len(rows)
    <3> DEFINE T == {rows[k] : k \in 1 .. Len(rows)}
    <3>1. rows \in Seq(T) /\ Len(rows) \in Nat
      BY <2>5
    <3> HIDE DEF T
    <3> QED
      BY <2>9, <3>1
  <2>11. ChunksDoNotShow'
    <3> DEFINE from == Crop + rsKept
    <3>1. from \in Nat /\ Crop + rsKept' - Len(rsRows') = from /\ DOMAIN rsRows' = 1 .. n
      BY <1>4, <2>1, <2>9, <2>10
    <3> SUFFICES ASSUME rsSkip' = 0, Whole(rsOptions, rsFirst)
                 PROVE  \A k \in 1 .. n : RowShows(rsOptions, rsFed, rsRows'[k], from + k - 1)
      <4> HIDE DEF from
      <4> QED
        BY <1>1, <1>5, <3>1, Zenon DEF ChunksDoNotShow, RowShows, Whole, Order, Crop
    <3>2. \A k \in 1 .. n : from + k - 1 \in Nat
      BY <2>9, <3>1
    <3>3. from = rsMade
      BY <1>1, <1>4
    <3>4. \A k \in 1 .. n : RowRight(rsOptions, rsFed, rsRows'[k], from + k - 1)
      BY <2>7, <2>10, <3>3
    <3> HIDE DEF from
    <3> QED
      BY <1>1, <1>4, <3>2, <3>4, ShownIs
  <2>12. LengthKept'
    <3> SUFFICES ASSUME rsSkip = 0
                 PROVE  LET wanted == Ceiling(rsFed * Up, Down) IN
                          IF rsOptions.crop THEN rsKept' \in {wanted - 1, wanted}
                          ELSE rsKept' = Ceiling((rsFed + Order) * Up, Down)
      BY <1>1, Zenon DEF LengthKept, Up, Down, Order
    <3>1. rsKept' = rsKept + n /\ rsKept' \in Nat
      <4>1. rsKept \in Nat /\ n \in Nat /\ rsKept' = rsKept + Len(rsRows') /\ Len(rsRows') = n
        BY <1>4, <2>1, <2>9, <2>10
      <4> QED
        BY <4>1
    <3>2. rsKept' = rsKept + (IF rsOptions.crop THEN OutputSize(Order) - TrailingSkip(OutputSize(Order))
                              ELSE OutputSize(Order))
      BY <1>4, <2>4, <2>5, <3>1 DEF n
    <3> QED
      BY <1>1, <3>1, <3>2, LengthIs
  <2>13. BuffersFit' /\ DefaultLengthSuffices'
    BY <2>1, <2>5 DEF BuffersFit, DefaultLengthSuffices
  <2> QED
    BY <2>1, <2>11, <2>12, <2>13 DEF StreamIsWhole
<1>9. rsApplied \in BOOLEAN
  BY <1>1 DEF PlacesFit
<1> QED
  BY <1>6, <1>7, <1>8 DEF RsFlush

LEMMA RsUnchanged == ASSUME ResamplerInv, UNCHANGED rsVars PROVE ResamplerInv'
<1> USE DEF rsVars, filterVars, columnVars
<1>1. OptionsFit' <=> OptionsFit
  BY DEF OptionsFit, Up, Down, Order
<1>2. rsAt' = rsAt /\ (PlacesFit' <=> PlacesFit) /\ (StateFits' <=> StateFits)
  BY DEF PlacesFit, StateFits, Stands, Up, Down, Order, Crop
<1>3. ChunksDoNotShow' <=> ChunksDoNotShow
  BY StillShown
<1>4. StreamIsWhole' <=> StreamIsWhole
  BY <1>3 DEF StreamIsWhole, LengthKept, BuffersFit, DefaultLengthSuffices
<1> QED
  BY <1>1, <1>2, <1>4 DEF ResamplerInv

\* However a stream is cut into chunks, the resampler returns the rows that
\* filtering the whole extended stream at once gives, fills its buffers exactly,
\* keeps the length of the stream and, with a filter of the default length,
\* survives flush(): for any factors, any extrapolation, streams and chunks of
\* any size.
THEOREM StreamKeptWhole == RsAssumption => (RsSpec => []StreamIsWhole)
<1> SUFFICES ASSUME RsAssumption PROVE RsSpec => []StreamIsWhole
  OBVIOUS
<1>1. RsInit => ResamplerInv
  BY ResamplerInitial
<1>2. ResamplerInv /\ [RsNext]_rsVars => ResamplerInv'
  BY RsApplied, RsFlushed, RsUnchanged DEF RsNext
<1>3. ResamplerInv => StreamIsWhole
  BY DEF ResamplerInv
<1> QED
  BY <1>1, <1>2, <1>3, PTL DEF RsSpec

-----------------------------------------------------------------------------
(*****************************************************************************)
(* Atoms: the data of the atoms of a HAT image.                              *)
(*****************************************************************************)
\* What FlattenSeq has put together of the first n sequences.
Flattening(s, f, n) == f = [i \in 1 .. n |-> IF i = 1 THEN s[i] ELSE f[i - 1] \o s[i]]
Flat(s, n) == IF n = 0 THEN <<>> ELSE (CHOOSE f : Flattening(s, f, Len(s)))[n]

\* There is such a function: a counterexample that is least could be extended.
LEMMA FlatteningExists ==
  ASSUME NEW s
  PROVE  \A n \in Nat : \E f : Flattening(s, f, n)
<1> DEFINE T == {n \in Nat : ~\E f : Flattening(s, f, n)}
<1> SUFFICES ASSUME T # {} PROVE FALSE
  OBVIOUS
<1>1. PICK n \in T : \A m \in T : ~(m < n)
  BY LeastMember
<1>2. n \in Nat /\ \A f : ~Flattening(s, f, n)
  BY <1>1
<1>3. CASE n = 0
  <2> DEFINE f == [i \in 1 .. 0 |-> s]
  <2>1. f = [i \in 1 .. 0 |-> IF i = 1 THEN s[i] ELSE f[i - 1] \o s[i]]
    OBVIOUS
  <2>2. Flattening(s, f, 0)
    BY <2>1 DEF Flattening
  <2> QED
    BY <1>2, <1>3, <2>2
<1>4. CASE n # 0
  <2>1. n - 1 \in Nat /\ n - 1 < n
    BY <1>2, <1>4
  <2>2. PICK f : Flattening(s, f, n - 1)
    BY <1>1, <2>1
  <2> DEFINE last == IF n = 1 THEN s[1] ELSE f[n - 1] \o s[n]
             g == [i \in 1 .. n |-> IF i = n THEN last ELSE f[i]]
  <2>3. /\ DOMAIN f = 1 .. n - 1
        /\ \A i \in 1 .. n - 1 : f[i] = IF i = 1 THEN s[i] ELSE f[i - 1] \o s[i]
    BY <2>2 DEF Flattening
  <2>4. \A i \in 1 .. n : g[i] = IF i = 1 THEN s[i] ELSE g[i - 1] \o s[i]
    <3> TAKE i \in 1 .. n
    <3>1. CASE i = n
      <4>1. n # 1 => g[n - 1] = f[n - 1]
        BY <1>2, <1>4
      <4> QED
        BY <1>2, <1>4, <3>1, <4>1
    <3>2. CASE i # n
      <4>1. i \in 1 .. n - 1 /\ g[i] = f[i]
        BY <1>2, <3>2
      <4>2. i # 1 => g[i - 1] = f[i - 1]
        BY <1>2, <4>1
      <4> QED
        BY <2>3, <4>1, <4>2
    <3> QED
      BY <3>1, <3>2
  <2>5. g = [i \in 1 .. n |-> g[i]]
    OBVIOUS
  <2> HIDE DEF g
  <2>6. g = [i \in 1 .. n |-> IF i = 1 THEN s[i] ELSE g[i - 1] \o s[i]]
    BY <2>4, <2>5
  <2>7. Flattening(s, g, n)
    BY <2>6 DEF Flattening
  <2> QED
    BY <1>2, <2>7
<1> QED
  BY <1>3, <1>4

\* Each sequence is put behind those before it.
LEMMA FlatIs ==
  ASSUME NEW S, NEW s \in Seq(Seq(S))
  PROVE  /\ \A n \in 0 .. Len(s) : Flat(s, n) \in Seq(S)
         /\ \A n \in 1 .. Len(s) : Flat(s, n) = Flat(s, n - 1) \o s[n]
         /\ FlattenSeq(s) = Flat(s, Len(s))
<1> DEFINE N == Len(s)
           f == CHOOSE f : Flattening(s, f, N)
<1>1. N \in Nat
  OBVIOUS
<1>2. Flattening(s, f, N)
  BY <1>1, FlatteningExists
<1>3. /\ DOMAIN f = 1 .. N
      /\ \A i \in 1 .. N : f[i] = IF i = 1 THEN s[i] ELSE f[i - 1] \o s[i]
  <2> HIDE DEF f
  <2> QED
    BY <1>2 DEF Flattening
<1>4. \A n \in Nat : Flat(s, n) = IF n = 0 THEN <<>> ELSE f[n]
  BY DEF Flat
<1>5. FlattenSeq(s) = Flat(s, N)
  <2>1. CASE N = 0
    <3>1. s = <<>>
      BY <2>1
    <3> QED
      BY <2>1, <3>1 DEF FlattenSeq, Flat
  <2>2. CASE N # 0
    <3>1. FlattenSeq(s) = f[N]
      BY <2>2, Zenon DEF FlattenSeq, Flattening
    <3> QED
      BY <1>1, <1>4, <2>2, <3>1
  <2> QED
    BY <2>1, <2>2
<1> HIDE DEF f
<1>6. ASSUME NEW n \in 1 .. N PROVE Flat(s, n) = Flat(s, n - 1) \o s[n]
  <2>1. n \in Nat /\ n - 1 \in Nat /\ n # 0 /\ s[n] \in Seq(S)
    BY <1>1, ElementOfSeq
  <2>2. CASE n = 1
    <3>1. Flat(s, n) = s[n] /\ Flat(s, n - 1) = <<>>
      <4>1. Flat(s, n) = f[n] /\ f[n] = s[n]
        BY <1>3, <1>4, <2>1, <2>2
      <4>2. n - 1 = 0
        BY <2>1, <2>2
      <4>3. \A m : m = 0 => Flat(s, m) = <<>>
        BY DEF Flat
      <4> QED
        BY <4>1, <4>2, <4>3
    <3>2. <<>> \o s[n] = s[n]
      BY <2>1, ConcatEmptySeq
    <3> QED
      BY <3>1, <3>2
  <2>3. CASE n # 1
    <3>1. n - 1 # 0
      BY <2>1, <2>3
    <3>2. Flat(s, n) = f[n] /\ Flat(s, n - 1) = f[n - 1]
      BY <1>4, <2>1, <3>1
    <3> QED
      BY <1>3, <2>3, <3>2
  <2> QED
    BY <2>2, <2>3
<1>7. \A n \in 0 .. N : Flat(s, n) \in Seq(S)
  <2> DEFINE T == {n \in Nat : n <= N /\ Flat(s, n) \notin Seq(S)}
  <2> SUFFICES ASSUME T # {} PROVE FALSE
    BY <1>1
  <2>1. PICK n \in T : \A m \in T : ~(m < n)
    BY LeastMember
  <2>2. n # 0
    <3>1. Flat(s, 0) \in Seq(S)
      BY EmptySeq DEF Flat
    <3> QED
      BY <2>1, <3>1
  <2>3. n \in 1 .. N /\ n - 1 \in Nat /\ n - 1 < n /\ n - 1 <= N
    BY <1>1, <2>1, <2>2
  <2>4. Flat(s, n - 1) \in Seq(S) /\ s[n] \in Seq(S)
    BY <2>1, <2>3, ElementOfSeq
  <2>5. Flat(s, n - 1) \o s[n] \in Seq(S)
    BY <2>4, ConcatProperties
  <2> QED
    BY <1>6, <2>1, <2>3, <2>5
<1> QED
  BY <1>5, <1>6, <1>7

\* What is put together of the first sequences stays at the beginning.
LEMMA FlatStarts ==
  ASSUME NEW S, NEW s \in Seq(Seq(S)), NEW n \in 0 .. Len(s)
  PROVE  \A m \in n .. Len(s) :
           /\ Len(Flat(s, n)) <= Len(Flat(s, m))
           /\ \A k \in 1 .. Len(Flat(s, n)) : Flat(s, m)[k] = Flat(s, n)[k]
<1> DEFINE N == Len(s)
           Starts(m) == /\ Len(Flat(s, n)) <= Len(Flat(s, m))
                        /\ \A k \in 1 .. Len(Flat(s, n)) : Flat(s, m)[k] = Flat(s, n)[k]
           T == {m \in Nat : n <= m /\ m <= N /\ ~Starts(m)}
<1>1. N \in Nat /\ n \in Nat /\ n <= N
  OBVIOUS
<1>2. \A m \in 0 .. N : Flat(s, m) \in Seq(S) /\ Len(Flat(s, m)) \in Nat
  BY FlatIs, LenProperties
<1> SUFFICES ASSUME T # {} PROVE FALSE
  BY <1>1
<1>3. PICK m \in T : \A l \in T : ~(l < m)
  BY LeastMember
<1>4. m \in Nat /\ n <= m /\ m <= N /\ ~Starts(m)
  BY <1>3
<1>5. m # n
  BY <1>1, <1>2, <1>4
<1>6. m \in 1 .. N /\ m - 1 \in Nat /\ n <= m - 1 /\ m - 1 <= N /\ m - 1 < m
  BY <1>1, <1>4, <1>5
<1>7. Starts(m - 1)
  BY <1>3, <1>6
<1> DEFINE a == Flat(s, n)
           b == Flat(s, m - 1)
           c == s[m]
<1>8. Flat(s, m) = b \o c /\ b \in Seq(S) /\ c \in Seq(S) /\ Len(a) \in Nat
  <2>1. Flat(s, m) = b \o c
    BY <1>6, FlatIs
  <2>2. b \in Seq(S) /\ Len(a) \in Nat
    BY <1>1, <1>2, <1>6
  <2>3. c \in Seq(S)
    BY <1>6, ElementOfSeq
  <2> QED
    BY <2>1, <2>2, <2>3
<1>9. Len(a) <= Len(b) /\ \A k \in 1 .. Len(a) : b[k] = a[k]
  BY <1>7
<1> HIDE DEF a, b, c
<1>10. Len(b) \in Nat /\ Len(c) \in Nat /\ Len(b \o c) = Len(b) + Len(c)
  BY <1>8, ConcatProperties, LenProperties
<1>11. \A k \in 1 .. Len(a) : (b \o c)[k] = a[k]
  <2> TAKE k \in 1 .. Len(a)
  <2>1. k \in 1 .. Len(b) + Len(c) /\ k <= Len(b)
    BY <1>8, <1>9, <1>10
  <2>2. (b \o c)[k] = b[k]
    BY <1>8, <2>1, ConcatProperties
  <2> QED
    BY <1>9, <2>2
<1>12. Len(a) <= Len(b \o c)
  BY <1>8, <1>9, <1>10
<1> QED
  BY <1>4, <1>8, <1>11, <1>12 DEF a

\* Each sequence is where those before it end.
LEMMA FlatAt ==
  ASSUME NEW S, NEW s \in Seq(Seq(S)), NEW n \in 1 .. Len(s)
  PROVE  LET from == Len(Flat(s, n - 1))
             all  == FlattenSeq(s)
         IN /\ from \in Nat /\ s[n] \in Seq(S) /\ all \in Seq(S)
            /\ Len(Flat(s, n)) = from + Len(s[n])
            /\ from + Len(s[n]) <= Len(all)
            /\ \A k \in 1 .. Len(s[n]) : all[from + k] = s[n][k]
<1> DEFINE N == Len(s)
           a == Flat(s, n - 1)
           b == s[n]
           all == FlattenSeq(s)
<1>1. N \in Nat /\ n - 1 \in 0 .. N /\ n \in 0 .. N /\ N \in 0 .. N /\ N \in n .. N
  OBVIOUS
<1>2. a \in Seq(S) /\ b \in Seq(S) /\ all = Flat(s, N) /\ all \in Seq(S) /\ Flat(s, n) = a \o b
  BY <1>1, FlatIs, ElementOfSeq
<1>3. /\ Len(Flat(s, n)) <= Len(Flat(s, N))
      /\ \A k \in 1 .. Len(Flat(s, n)) : Flat(s, N)[k] = Flat(s, n)[k]
  BY <1>1, FlatStarts
<1>4. Len(a \o b) <= Len(all) /\ \A k \in 1 .. Len(a \o b) : all[k] = (a \o b)[k]
  BY <1>2, <1>3
<1> HIDE DEF a, b, all
<1>5. Len(a) \in Nat /\ Len(b) \in Nat /\ Len(a \o b) = Len(a) + Len(b)
  BY <1>2, ConcatProperties, LenProperties
<1>6. \A k \in 1 .. Len(b) : all[Len(a) + k] = b[k]
  <2> TAKE k \in 1 .. Len(b)
  <2>1. Len(a) + k \in 1 .. Len(a) + Len(b) /\ ~(Len(a) + k <= Len(a)) /\ Len(a) + k - Len(a) = k
    BY <1>5
  <2>2. (a \o b)[Len(a) + k] = b[k]
    BY <1>2, <2>1, ConcatProperties
  <2> QED
    BY <1>4, <1>5, <2>1, <2>2
<1> QED
  BY <1>2, <1>4, <1>5, <1>6 DEF a, b, all

Entries == {e \in Seq(Nat) : Len(e) = EntrySize}

\* An entry is its two bytes.
LEMMA PairIs == ASSUME NEW e \in Entries PROVE e = <<e[1], e[2]>> /\ e[1] \in Nat /\ e[2] \in Nat
BY DEF Entries, EntrySize

\* x is the l bytes of s behind the first a.
IsPart(x, s, a, l) ==
  x \in Seq(Nat) /\ Len(x) = l /\ \A k \in 1 .. l : x[k] = s[a + k]

LEMMA PartIs ==
  ASSUME NEW s \in Seq(Nat), NEW a \in Nat, NEW l \in Nat, NEW b \in Nat, b = a + l, b <= Len(s)
  PROVE  IsPart(SubSeq(s, a + 1, b), s, a, l)
<1>1. \A i \in a + 1 .. b : s[i] \in Nat
  <2> TAKE i \in a + 1 .. b
  <2>1. i \in 1 .. Len(s)
    OBVIOUS
  <2> QED
    BY <2>1, ElementOfSeq
<1>2. a + 1 \in Int /\ b \in Int /\ b - (a + 1) + 1 = l /\ (~(a + 1 <= b) => l = 0)
  OBVIOUS
<1>3. /\ SubSeq(s, a + 1, b) \in Seq(Nat)
      /\ Len(SubSeq(s, a + 1, b)) = IF a + 1 <= b THEN b - (a + 1) + 1 ELSE 0
      /\ \A k \in 1 .. b - (a + 1) + 1 : SubSeq(s, a + 1, b)[k] = s[a + 1 + k - 1]
  <2>1. \A k : (a + 1) + k - 1 = a + 1 + k - 1
    OBVIOUS
  <2> QED
    BY <1>1, <1>2, SubSeqProperties
<1>4. \A k \in 1 .. l : a + 1 + k - 1 = a + k
  OBVIOUS
<1> DEFINE x == SubSeq(s, a + 1, b)
<1> HIDE DEF x
<1>5. Len(x) = l
  BY <1>2, <1>3 DEF x
<1>6. \A k \in 1 .. l : x[k] = s[a + k]
  BY <1>2, <1>3, <1>4 DEF x
<1> QED
  BY <1>3, <1>5, <1>6 DEF x, IsPart

\* Two sequences of bytes, one behind the other.
IsJoined(x, s, t, n, m) ==
  /\ x \in Seq(Nat) /\ Len(x) = n + m
  /\ \A k \in 1 .. n : x[k] = s[k]
  /\ \A k \in 1 .. m : x[n + k] = t[k]

LEMMA JoinedIs ==
  ASSUME NEW s \in Seq(Nat), NEW t \in Seq(Nat), NEW n \in Nat, NEW m \in Nat,
         Len(s) = n, Len(t) = m
  PROVE  IsJoined(s \o t, s, t, n, m)
<1>1. /\ s \o t \in Seq(Nat) /\ Len(s \o t) = n + m
      /\ \A i \in 1 .. n + m : (s \o t)[i] = IF i <= n THEN s[i] ELSE t[i - n]
  BY ConcatProperties
<1> DEFINE x == s \o t
<1> HIDE DEF x
<1>2. \A i \in 1 .. n + m : x[i] = IF i <= n THEN s[i] ELSE t[i - n]
  BY <1>1 DEF x
<1>3. \A k \in 1 .. n : x[k] = s[k]
  BY <1>2
<1>4. ASSUME NEW k \in 1 .. m PROVE x[n + k] = t[k]
  <2>1. n + k \in 1 .. n + m /\ ~(n + k <= n) /\ (n + k) - n = k
    OBVIOUS
  <2> QED
    BY <1>2, <2>1
<1> QED
  BY <1>1, <1>3, <1>4 DEF x, IsJoined

\* An entry is where two bytes for each one before it end.
LEMMA EntriesAt ==
  ASSUME NEW w \in Seq(Entries)
  PROVE  /\ FlattenSeq(w) \in Seq(Nat) /\ Len(FlattenSeq(w)) = 2 * Len(w)
         /\ \A i \in 1 .. Len(w) :
              /\ FlattenSeq(w)[2 * (i - 1) + 1] = w[i][1]
              /\ FlattenSeq(w)[2 * (i - 1) + 2] = w[i][2]
<1> DEFINE N == Len(w)
           T == {n \in Nat : n <= N /\ Len(Flat(w, n)) # 2 * n}
<1>1. w \in Seq(Seq(Nat)) /\ N \in Nat
  <2>1. Entries \subseteq Seq(Nat)
    BY DEF Entries
  <2> QED
    BY <2>1, SeqMonotonic
<1>2. \A i \in 1 .. N : w[i] \in Entries /\ Len(w[i]) = 2
  BY ElementOfSeq DEF Entries, EntrySize
<1>3. T = {}
  <2> SUFFICES ASSUME T # {} PROVE FALSE
    OBVIOUS
  <2>1. PICK n \in T : \A m \in T : ~(m < n)
    BY LeastMember
  <2>2. n # 0
    <3>1. Len(Flat(w, 0)) = 0
      BY DEF Flat
    <3> QED
      BY <2>1, <3>1
  <2>3. n \in 1 .. N /\ n - 1 \in Nat /\ n - 1 < n /\ n - 1 <= N
    BY <1>1, <2>1, <2>2
  <2>4. Len(Flat(w, n - 1)) = 2 * (n - 1)
    BY <2>1, <2>3
  <2>5. Len(Flat(w, n)) = Len(Flat(w, n - 1)) + Len(w[n])
    BY <1>1, <2>3, FlatAt
  <2>6. Len(w[n]) = 2 /\ Len(Flat(w, n)) # 2 * n
    BY <1>2, <2>1, <2>3
  <2> DEFINE x == Len(Flat(w, n))
             y == Len(Flat(w, n - 1))
  <2>7. x = y + 2 /\ y = 2 * (n - 1) /\ x # 2 * n
    BY <2>4, <2>5, <2>6
  <2> HIDE DEF x, y
  <2> QED
    BY <2>3, <2>7
<1>4. \A n \in 0 .. N : Len(Flat(w, n)) = 2 * n
  BY <1>1, <1>3
<1>5. FlattenSeq(w) = Flat(w, N) /\ Flat(w, N) \in Seq(Nat) /\ Len(Flat(w, N)) = 2 * N
  <2>1. N \in 0 .. N
    BY <1>1
  <2>2. Flat(w, N) \in Seq(Nat) /\ FlattenSeq(w) = Flat(w, N)
    BY <1>1, <2>1, FlatIs
  <2> QED
    BY <1>4, <2>1, <2>2
<1>6. ASSUME NEW i \in 1 .. N
      PROVE  /\ FlattenSeq(w)[2 * (i - 1) + 1] = w[i][1]
             /\ FlattenSeq(w)[2 * (i - 1) + 2] = w[i][2]
  <2>1. \A k \in 1 .. Len(w[i]) : FlattenSeq(w)[Len(Flat(w, i - 1)) + k] = w[i][k]
    BY <1>1, FlatAt
  <2>2. i - 1 \in 0 .. N
    BY <1>1
  <2>3. Len(Flat(w, i - 1)) = 2 * (i - 1)
    BY <1>4, <2>2
  <2>4. 1 \in 1 .. Len(w[i]) /\ 2 \in 1 .. Len(w[i])
    <3>1. Len(w[i]) = 2
      BY <1>2
    <3>2. 1 \in 1 .. 2 /\ 2 \in 1 .. 2
      OBVIOUS
    <3> QED
      BY <3>1, <3>2
  <2> QED
    BY <2>1, <2>3, <2>4
<1> QED
  BY <1>5, <1>6

\* The data of a calibration atom: its header and the entries.
LEMMA AtomDumpIs ==
  ASSUME AtAssumption, NEW type \in Nat, NEW w \in Seq(Entries)
  PROVE  /\ AtomDump(type, w) \in Seq(Nat) /\ Len(AtomDump(type, w)) = 3 + 2 * Len(w)
         /\ \A i \in 1 .. Len(w) :
              /\ AtomDump(type, w)[3 + (2 * (i - 1) + 1)] = w[i][1]
              /\ AtomDump(type, w)[3 + (2 * (i - 1) + 2)] = w[i][2]
<1> DEFINE head == <<Byte(type), Byte(Len(w)), Byte(Len(w) * EntryRoom)>>
           data == FlattenSeq(w)
           n == Len(w)
<1>1. AtomDump(type, w) = head \o data
  BY DEF AtomDump
<1>2. n \in Nat /\ \A m \in Nat : Byte(m) \in Nat
  BY DEF Byte, AtAssumption
<1>3. head \in Seq(Nat) /\ Len(head) = 3
  <2>1. Byte(type) \in Nat /\ Byte(Len(w)) \in Nat
    BY <1>2
  <2>2. Byte(Len(w) * EntryRoom) \in Nat
    BY <1>2 DEF EntryRoom
  <2> QED
    BY <2>1, <2>2
<1>4. data \in Seq(Nat) /\ Len(data) = 2 * n
  BY EntriesAt
<1>5. \A i \in 1 .. n : data[2 * (i - 1) + 1] = w[i][1] /\ data[2 * (i - 1) + 2] = w[i][2]
  BY EntriesAt
<1> HIDE DEF head, data, n
<1>6. 2 * n \in Nat
  BY <1>2
<1>7. /\ head \o data \in Seq(Nat) /\ Len(head \o data) = 3 + 2 * n
      /\ \A k \in 1 .. 2 * n : (head \o data)[3 + k] = data[k]
  <2> DEFINE m == 2 * n
  <2>1. m \in Nat /\ 3 \in Nat /\ Len(head) = 3 /\ Len(data) = m
    BY <1>3, <1>4, <1>6
  <2> HIDE DEF m
  <2>2. IsJoined(head \o data, head, data, 3, m)
    BY <1>3, <1>4, <2>1, JoinedIs
  <2> QED
    BY <2>2 DEF m, IsJoined
<1>8. \A i \in 1 .. n : 2 * (i - 1) + 1 \in 1 .. 2 * n /\ 2 * (i - 1) + 2 \in 1 .. 2 * n
  BY <1>2
<1> QED
  BY <1>1, <1>5, <1>7, <1>8 DEF n

\* What resetting an atom leaves behind, whatever the data.
LEMMA AtomResetTypes ==
  ASSUME NEW held \in Seq(Entries), NEW buf \in Seq(Nat)
  PROVE  LET r == AtomReset(held, buf) IN
           r[1] \in Seq(Entries) /\ Len(r[1]) = Len(held) /\ r[2] \in Seq(Nat)
<1>1. CASE Len(buf) < AtomHeaderSize
  BY <1>1 DEF AtomReset
<1>2. CASE ~(Len(buf) < AtomHeaderSize)
  <2> DEFINE data == SubSeq(buf, AtomHeaderSize + 1, Len(buf))
             used == IF Len(data) < Len(held) * EntrySize
                     THEN (Len(data) \div EntrySize) * EntrySize
                     ELSE Len(held) * EntrySize
             rest == SubSeq(data, used + 1, Len(data))
             es   == EntriesReset(held, data)
  <2>1. AtomReset(held, buf) = <<es, rest>>
    BY <1>2 DEF AtomReset
  <2>2. data \in Seq(Nat) /\ Len(data) \in Nat
    BY <1>2 DEF AtomHeaderSize
  <2> HIDE DEF data
  <2>3. used \in Nat
    BY <2>2 DEF EntrySize
  <2> HIDE DEF used
  <2>4. rest \in Seq(Nat)
    BY <2>2, <2>3
  <2>5. es = [i \in 1 .. Len(held) |->
                IF Len(data) - (i - 1) * 2 >= 2 THEN SubSeq(data, (i - 1) * 2 + 1, (i - 1) * 2 + 2)
                ELSE held[i]]
    <3>1. \A i \in 1 .. Len(held) : (i - 1) * 2 + 1 + 2 - 1 = (i - 1) * 2 + 2
      OBVIOUS
    <3> QED
      BY <3>1 DEF EntriesReset, EntrySize, Cut
  <2>6. ASSUME NEW i \in 1 .. Len(held), Len(data) - (i - 1) * 2 >= 2
        PROVE  SubSeq(data, (i - 1) * 2 + 1, (i - 1) * 2 + 2) \in Entries
    <3> DEFINE m == (i - 1) * 2 + 1
    <3>1. m \in Nat /\ m >= 1 /\ m + 1 <= Len(data) /\ m + 1 = (i - 1) * 2 + 2
      BY <2>2, <2>6
    <3> HIDE DEF m
    <3>2. SubSeq(data, m, m + 1) \in Seq(Nat) /\ Len(SubSeq(data, m, m + 1)) = 2
      BY <2>2, <3>1
    <3> QED
      BY <3>1, <3>2 DEF Entries, EntrySize, m
  <2>7. \A i \in 1 .. Len(held) : es[i] \in Entries
    <3>1. \A i \in 1 .. Len(held) : held[i] \in Entries
      BY ElementOfSeq
    <3> QED
      BY <2>5, <2>6, <3>1
  <2>8. DOMAIN es = 1 .. Len(held) /\ Len(held) \in Nat
    BY <2>5
  <2> HIDE DEF es, rest
  <2>9. es \in [1 .. Len(held) -> Entries]
    <3>1. es = [i \in 1 .. Len(held) |-> es[i]]
      BY <2>5, <2>8
    <3> QED
      BY <2>7, <3>1
  <2>10. es \in Seq(Entries) /\ Len(es) = Len(held)
    BY <2>8, <2>9, SeqDef
  <2> QED
    BY <2>1, <2>4, <2>10
<1> QED
  BY <1>1, <1>2

\* An atom is read from where it was put.
LEMMA AtomIsRead ==
  ASSUME AtAssumption, NEW held \in Seq(Entries), NEW w \in Seq(Entries), Len(held) = Len(w),
         NEW type \in Nat, NEW buf \in Seq(Nat), Len(AtomDump(type, w)) <= Len(buf),
         \A k \in 1 .. Len(AtomDump(type, w)) : buf[k] = AtomDump(type, w)[k]
  PROVE  AtomReset(held, buf) = <<w, SubSeq(buf, Len(AtomDump(type, w)) + 1, Len(buf))>>
<1> DEFINE dump == AtomDump(type, w)
           n == Len(w)
           L == Len(buf)
           data == SubSeq(buf, AtomHeaderSize + 1, L)
           used == IF Len(data) < Len(held) * EntrySize
                   THEN (Len(data) \div EntrySize) * EntrySize
                   ELSE Len(held) * EntrySize
           rest == SubSeq(data, used + 1, Len(data))
           es   == EntriesReset(held, data)
<1>1. /\ n \in Nat /\ L \in Nat /\ Len(dump) = 3 + 2 * n /\ 3 + 2 * n <= L
      /\ \A i \in 1 .. n : /\ dump[3 + (2 * (i - 1) + 1)] = w[i][1]
                           /\ dump[3 + (2 * (i - 1) + 2)] = w[i][2]
  <2>1. /\ Len(dump) = 3 + 2 * n
        /\ \A i \in 1 .. n : /\ dump[3 + (2 * (i - 1) + 1)] = w[i][1]
                             /\ dump[3 + (2 * (i - 1) + 2)] = w[i][2]
    BY AtomDumpIs
  <2>2. n \in Nat /\ L \in Nat /\ Len(dump) <= L
    OBVIOUS
  <2> HIDE DEF dump, n, L
  <2> QED
    BY <2>1, <2>2
<1>2. \A k \in 1 .. Len(dump) : buf[k] = dump[k]
  OBVIOUS
<1> HIDE DEF dump, n, L
<1>3. /\ data \in Seq(Nat) /\ Len(data) = L - 3
      /\ \A k \in 1 .. L - 3 : data[k] = buf[3 + k]
  <2>1. L - 3 \in Nat /\ 3 \in Nat /\ L = 3 + (L - 3) /\ L = Len(buf)
    BY <1>1 DEF L
  <2>2. data = SubSeq(buf, 3 + 1, L)
    BY DEF AtomHeaderSize
  <2>3. IsPart(SubSeq(buf, 3 + 1, L), buf, 3, L - 3)
    <3> DEFINE l == L - 3
    <3>1. l \in Nat /\ L = 3 + l /\ L \in Nat /\ L <= Len(buf)
      BY <1>1, <2>1
    <3> HIDE DEF l, L
    <3>2. IsPart(SubSeq(buf, 3 + 1, L), buf, 3, l)
      BY <2>1, <3>1, PartIs
    <3> QED
      BY <3>2 DEF l
  <2> HIDE DEF data
  <2> QED
    BY <2>2, <2>3 DEF IsPart
<1>4. AtomReset(held, buf) = <<es, rest>>
  <2>1. ~(Len(buf) < AtomHeaderSize)
    BY <1>1 DEF AtomHeaderSize, L
  <2> QED
    BY <2>1 DEF AtomReset, L
<1> HIDE DEF data
<1>5. used = 2 * n /\ Len(held) = n
  BY <1>1, <1>3 DEF EntrySize, n
<1>6. rest = SubSeq(buf, Len(dump) + 1, L)
  <2> HIDE DEF used
  <2> DEFINE r == SubSeq(buf, Len(dump) + 1, L)
             l == L - 3 - 2 * n
  <2>0. /\ l \in Nat /\ 2 * n \in Nat /\ L - 3 = 2 * n + l /\ L = (3 + 2 * n) + l
        /\ L - 3 \in Nat /\ 3 + 2 * n \in Nat
    BY <1>1
  <2>1. /\ rest \in Seq(Nat) /\ Len(rest) = l
        /\ \A k \in 1 .. l : rest[k] = data[2 * n + k]
    <3>1. rest = SubSeq(data, 2 * n + 1, L - 3)
      BY <1>3, <1>5
    <3> HIDE DEF rest, l
    <3>2. IsPart(SubSeq(data, 2 * n + 1, L - 3), data, 2 * n, l)
      <4> DEFINE a == 2 * n
                 b == L - 3
      <4>1. a \in Nat /\ b \in Nat /\ b = a + l /\ b <= Len(data)
        BY <1>3, <2>0
      <4> HIDE DEF a, b
      <4>2. IsPart(SubSeq(data, a + 1, b), data, a, l)
        BY <1>3, <2>0, <4>1, PartIs
      <4> QED
        BY <4>2 DEF a, b
    <3> QED
      BY <3>1, <3>2 DEF IsPart
  <2>2. \A k \in 1 .. l : 2 * n + k \in 1 .. L - 3
    BY <1>1, <2>0
  <2>3. /\ r \in Seq(Nat) /\ Len(r) = l
        /\ \A k \in 1 .. l : r[k] = buf[(3 + 2 * n) + k]
    <3>1. r = SubSeq(buf, (3 + 2 * n) + 1, L) /\ L <= Len(buf)
      BY <1>1 DEF L
    <3> HIDE DEF r, l
    <3>2. IsPart(SubSeq(buf, (3 + 2 * n) + 1, L), buf, 3 + 2 * n, l)
      <4> DEFINE a == 3 + 2 * n
      <4>1. a \in Nat /\ L \in Nat /\ L = a + l
        BY <1>1, <2>0
      <4> HIDE DEF a
      <4>2. IsPart(SubSeq(buf, a + 1, L), buf, a, l)
        BY <2>0, <3>1, <4>1, PartIs
      <4> QED
        BY <4>2 DEF a
    <3> QED
      BY <3>1, <3>2 DEF IsPart
  <2>4. \A k \in 1 .. l : r[k] = buf[3 + 2 * n + k]
    BY <2>3
  <2> HIDE DEF rest, r
  <2>5. \A k \in 1 .. l : rest[k] = r[k]
    <3> TAKE k \in 1 .. l
    <3>1. rest[k] = data[2 * n + k] /\ 2 * n + k \in 1 .. L - 3
      BY <2>1, <2>2
    <3>2. data[2 * n + k] = buf[3 + (2 * n + k)]
      BY <1>3, <3>1
    <3>3. 3 + (2 * n + k) = 3 + 2 * n + k
      BY <1>1
    <3> QED
      BY <2>4, <3>1, <3>2, <3>3
  <2>6. rest = r
    BY <2>1, <2>3, <2>5, SeqEqual
  <2> QED
    BY <2>6 DEF r
<1>7. es = w
  <2>1. \A i \in 1 .. n : es[i] = w[i]
    <3> TAKE i \in 1 .. n
    <3> DEFINE m == (i - 1) * 2
    <3>1. m \in Nat /\ m + 2 <= L - 3 /\ Len(data) - m >= 2 /\ m + 1 + 2 - 1 = m + 2 /\ m = 2 * (i - 1)
      BY <1>1, <1>3
    <3>2. es[i] = SubSeq(data, m + 1, m + 2)
      <4>1. i \in DOMAIN held
        BY <1>5
      <4>2. es[i] = IF Len(data) - m >= 2 THEN SubSeq(data, m + 1, m + 1 + 2 - 1) ELSE held[i]
        BY <4>1 DEF EntriesReset, EntrySize, Cut
      <4> HIDE DEF es, m
      <4> QED
        BY <3>1, <4>2
    <3> HIDE DEF m
    <3>3. SubSeq(data, m + 1, m + 2) = <<data[m + 1], data[m + 2]>>
      <4> DEFINE x == SubSeq(data, m + 1, m + 2)
      <4>0. m + 2 \in Nat /\ m + 2 <= Len(data) /\ 2 \in Nat /\ 1 \in 1 .. 2 /\ 2 \in 1 .. 2
        BY <1>1, <1>3, <3>1
      <4>1. IsPart(x, data, m, 2)
        BY <1>3, <3>1, <4>0, PartIs
      <4> HIDE DEF x
      <4>2. x \in Seq(Nat) /\ Len(x) = 2 /\ x[1] = data[m + 1] /\ x[2] = data[m + 2]
        BY <4>0, <4>1 DEF IsPart
      <4>3. x = <<x[1], x[2]>>
        BY <4>2
      <4> QED
        BY <4>2, <4>3 DEF x
    <3>4. data[m + 1] = buf[3 + (m + 1)] /\ data[m + 2] = buf[3 + (m + 2)]
      BY <1>1, <1>3, <3>1
    <3>5. 3 + (m + 1) \in 1 .. Len(dump) /\ 3 + (m + 2) \in 1 .. Len(dump)
      BY <1>1, <3>1
    <3>6. dump[3 + (m + 1)] = w[i][1] /\ dump[3 + (m + 2)] = w[i][2]
      BY <1>1, <3>1
    <3>7. w[i] = <<w[i][1], w[i][2]>>
      <4>1. w[i] \in Entries
        BY ElementOfSeq DEF n
      <4> QED
        BY <4>1, PairIs
    <3> HIDE DEF es
    <3> QED
      BY <1>2, <3>2, <3>3, <3>4, <3>5, <3>6, <3>7
  <2>2. es \in Seq(Entries) /\ Len(es) = Len(held)
    <3>1. AtomReset(held, buf)[1] = es
      BY <1>4
    <3> QED
      BY <3>1, AtomResetTypes
  <2> HIDE DEF es
  <2> QED
    BY <1>5, <2>1, <2>2, SeqEqual DEF n
<1> QED
  BY <1>4, <1>6, <1>7 DEF dump, L

Maps == Seq(Seq(Entries))
SameShape(a, b) == Len(a) = Len(b) /\ \A n \in 1 .. Len(a) : Len(a[n]) = Len(b[n])

\* A part of a part is a part.
LEMMA PartOfPart ==
  ASSUME NEW x, NEW y, NEW s, NEW a \in Nat, NEW l \in Nat, NEW b \in Nat, NEW m \in Nat,
         IsPart(x, s, a, l), IsPart(y, x, b, m), b + m <= l
  PROVE  IsPart(y, s, a + b, m)
<1>1. \A k \in 1 .. m : y[k] = s[(a + b) + k]
  <2> TAKE k \in 1 .. m
  <2>1. y[k] = x[b + k]
    BY DEF IsPart
  <2>2. b + k \in 1 .. l
    OBVIOUS
  <2>3. x[b + k] = s[a + (b + k)]
    BY <2>2 DEF IsPart
  <2>4. a + (b + k) = (a + b) + k
    OBVIOUS
  <2> QED
    BY <2>1, <2>3, <2>4
<1> QED
  BY <1>1 DEF IsPart

\* The length of a calibration map, counted atom by atom.
Counting(shape, f, N) ==
  f = [n \in 0 .. N |->
         IF n = 0 THEN MapHeaderSize ELSE f[n - 1] + AtomHeaderSize + shape[n] * EntryRoom]

LEMMA CountingExists ==
  ASSUME NEW shape
  PROVE  \A N \in Nat : \E f : Counting(shape, f, N)
<1> DEFINE T == {N \in Nat : ~\E f : Counting(shape, f, N)}
<1> SUFFICES ASSUME T # {} PROVE FALSE
  OBVIOUS
<1>1. PICK N \in T : \A m \in T : ~(m < N)
  BY LeastMember
<1>2. N \in Nat /\ \A f : ~Counting(shape, f, N)
  BY <1>1
<1>3. CASE N = 0
  <2> DEFINE f == [n \in 0 .. 0 |-> MapHeaderSize]
  <2>1. f = [n \in 0 .. 0 |-> IF n = 0 THEN MapHeaderSize
                              ELSE f[n - 1] + AtomHeaderSize + shape[n] * EntryRoom]
    OBVIOUS
  <2>2. Counting(shape, f, 0)
    BY <2>1 DEF Counting
  <2> QED
    BY <1>2, <1>3, <2>2
<1>4. CASE N # 0
  <2>1. N - 1 \in Nat /\ N - 1 < N
    BY <1>2, <1>4
  <2>2. PICK f : Counting(shape, f, N - 1)
    BY <1>1, <2>1
  <2> DEFINE Step(g, n) == IF n = 0 THEN MapHeaderSize
                           ELSE g[n - 1] + AtomHeaderSize + shape[n] * EntryRoom
             g == [n \in 0 .. N |-> IF n = N THEN Step(f, N) ELSE f[n]]
  <2>3. \A n \in 0 .. N - 1 : f[n] = Step(f, n)
    BY <2>1, <2>2 DEF Counting
  <2>4. \A n \in 0 .. N : g[n] = Step(g, n)
    <3> TAKE n \in 0 .. N
    <3>1. n # 0 => g[n - 1] = f[n - 1]
      BY <1>2
    <3>2. Step(g, n) = Step(f, n)
      BY <3>1
    <3>3. n # N => n \in 0 .. N - 1
      BY <1>2
    <3> QED
      BY <2>3, <3>2, <3>3
  <2>5. g = [n \in 0 .. N |-> g[n]]
    OBVIOUS
  <2> HIDE DEF g
  <2>6. g = [n \in 0 .. N |-> Step(g, n)]
    BY <2>4, <2>5
  <2>7. Counting(shape, g, N)
    BY <2>6 DEF Counting
  <2> QED
    BY <1>2, <2>7
<1> QED
  BY <1>3, <1>4

\* The length of a calibration map is a number.
LEMMA CalibrationLengthIs ==
  ASSUME NEW shape \in Seq(Nat)
  PROVE  CalibrationLength(shape) \in Nat
<1> DEFINE N == Len(shape)
           f == CHOOSE f : Counting(shape, f, N)
<1>1. N \in Nat /\ \A n \in 1 .. N : shape[n] \in Nat
  BY LenProperties, ElementOfSeq
<1>2. Counting(shape, f, N)
  BY <1>1, CountingExists
<1>3. CalibrationLength(shape) = f[N]
  BY Zenon DEF CalibrationLength, Counting
<1> HIDE DEF f, N
<1>4. \A n \in 0 .. N : f[n] = IF n = 0 THEN 2 ELSE f[n - 1] + 3 + shape[n] * 3
  BY <1>1, <1>2 DEF Counting, MapHeaderSize, AtomHeaderSize, EntryRoom
<1> DEFINE T == {n \in Nat : n <= N /\ f[n] \notin Nat}
<1>5. T = {}
  <2> SUFFICES ASSUME T # {} PROVE FALSE
    OBVIOUS
  <2>1. PICK n \in T : \A m \in T : ~(m < n)
    BY LeastMember
  <2>2. n \in Nat /\ n <= N /\ f[n] \notin Nat
    BY <2>1
  <2>3. n # 0
    BY <1>1, <1>4, <2>2
  <2>4. n - 1 \in Nat /\ n - 1 <= N /\ n - 1 < n /\ n \in 1 .. N
    BY <1>1, <2>2, <2>3
  <2>5. f[n - 1] \in Nat
    BY <2>1, <2>4
  <2>6. shape[n] \in Nat
    BY <1>1, <2>4
  <2>7. f[n] = f[n - 1] + 3 + shape[n] * 3
    BY <1>1, <1>4, <2>2, <2>3
  <2> DEFINE a == f[n - 1]
             b == shape[n]
  <2>8. a + 3 + b * 3 \in Nat
    <3> HIDE DEF a, b
    <3>1. a \in Nat /\ b \in Nat
      BY <2>5, <2>6 DEF a, b
    <3> QED
      BY <3>1
  <2> QED
    BY <2>2, <2>7, <2>8
<1> QED
  BY <1>1, <1>3, <1>5

Dumps(w) == [type \in DOMAIN w |-> AtomDump(type, w[type])]

\* The data of the atoms of a map are bytes.
LEMMA DumpsAre ==
  ASSUME AtAssumption, NEW w \in Maps
  PROVE  /\ Dumps(w) \in Seq(Seq(Nat)) /\ Len(Dumps(w)) = Len(w)
         /\ \A n \in 1 .. Len(w) : w[n] \in Seq(Entries) /\ Dumps(w)[n] = AtomDump(n, w[n])
<1> DEFINE N == Len(w)
           d == Dumps(w)
<1>1. N \in Nat /\ DOMAIN w = 1 .. N
  BY LenProperties DEF Maps
<1>2. \A n \in 1 .. N : w[n] \in Seq(Entries)
  BY ElementOfSeq DEF Maps
<1>3. \A n \in 1 .. N : AtomDump(n, w[n]) \in Seq(Nat)
  <2> TAKE n \in 1 .. N
  <2>1. n \in Nat
    BY <1>1
  <2> QED
    BY <1>2, <2>1, AtomDumpIs
<1>4. d = [n \in 1 .. N |-> AtomDump(n, w[n])]
  BY <1>1 DEF Dumps
<1> HIDE DEF d
<1>5. d \in [1 .. N -> Seq(Nat)]
  BY <1>3, <1>4
<1>6. d \in Seq(Seq(Nat))
  BY <1>1, <1>5, SeqDef
<1>7. Len(d) = N
  <2>1. DOMAIN d = 1 .. N
    BY <1>5
  <2> QED
    BY <1>1, <1>6, <2>1, LenProperties
<1>8. \A n \in 1 .. N : d[n] = AtomDump(n, w[n])
  BY <1>4
<1> QED
  BY <1>2, <1>6, <1>7, <1>8 DEF d

\* The data of a map: its header, where the length is, and the atoms.
LEMMA MapDumpIs ==
  ASSUME AtAssumption, NEW w \in Maps
  PROVE  LET data == FlattenSeq(Dumps(w)) IN
         /\ data \in Seq(Nat) /\ MapDump(w) \in Seq(Nat) /\ Len(MapDump(w)) = 2 + Len(data)
         /\ MapDump(w)[2] = Byte(CalibrationLength(ShapeOf(w)))
         /\ \A k \in 1 .. Len(data) : MapDump(w)[2 + k] = data[k]
<1> DEFINE data == FlattenSeq(Dumps(w))
           head == <<Byte(Len(w)), Byte(CalibrationLength(ShapeOf(w)))>>
           m == Len(data)
<1>1. data \in Seq(Nat) /\ m \in Nat
  <2>1. Dumps(w) \in Seq(Seq(Nat))
    BY DumpsAre
  <2>2. Len(Dumps(w)) \in 0 .. Len(Dumps(w))
    BY <2>1, LenProperties
  <2>3. data \in Seq(Nat)
    BY <2>1, <2>2, FlatIs
  <2> HIDE DEF data
  <2> QED
    BY <2>3, LenProperties
<1>2. ShapeOf(w) \in Seq(Nat)
  <2>1. Len(w) \in Nat /\ DOMAIN w = 1 .. Len(w)
    BY LenProperties DEF Maps
  <2>2. \A n \in 1 .. Len(w) : Len(w[n]) \in Nat
    <3> TAKE n \in 1 .. Len(w)
    <3>1. w[n] \in Seq(Entries)
      BY ElementOfSeq DEF Maps
    <3> QED
      BY <3>1, LenProperties
  <2>3. ShapeOf(w) = [n \in 1 .. Len(w) |-> Len(w[n])]
    BY <2>1 DEF ShapeOf
  <2>4. ShapeOf(w) \in [1 .. Len(w) -> Nat]
    BY <2>2, <2>3
  <2> QED
    BY <2>1, <2>4, SeqDef
<1>3. head \in Seq(Nat) /\ Len(head) = 2 /\ head[2] = Byte(CalibrationLength(ShapeOf(w)))
  <2> DEFINE a == Byte(Len(w))
             b == Byte(CalibrationLength(ShapeOf(w)))
  <2>1. \A k \in Nat : Byte(k) \in Nat
    BY DEF Byte, AtAssumption
  <2>2. Len(w) \in Nat
    BY LenProperties DEF Maps
  <2>3. a \in Nat /\ b \in Nat
    BY <1>2, <2>1, <2>2, CalibrationLengthIs
  <2> HIDE DEF a, b
  <2>4. <<a, b>> \in Seq(Nat) /\ Len(<<a, b>>) = 2 /\ <<a, b>>[2] = b
    BY <2>3
  <2> QED
    BY <2>4 DEF a, b
<1>4. MapDump(w) = head \o data
  BY DEF MapDump, Dumps
<1> HIDE DEF head, data, m
<1>5. 2 \in Nat /\ 2 \in 1 .. 2 /\ Len(data) = m
  BY DEF m
<1>6. IsJoined(head \o data, head, data, 2, m)
  BY <1>1, <1>3, <1>5, JoinedIs
<1>7. /\ MapDump(w) \in Seq(Nat) /\ Len(MapDump(w)) = 2 + m
      /\ MapDump(w)[2] = head[2]
      /\ \A k \in 1 .. m : MapDump(w)[2 + k] = data[k]
  BY <1>4, <1>5, <1>6 DEF IsJoined
<1> QED
  BY <1>1, <1>3, <1>5, <1>7 DEF data

\* The atoms of a map, reset one after the other from what is left of buf.
Resetting(map, buf, f, N) ==
  f = [n \in 0 .. N |->
         IF n = 0 THEN <<<<>>, SubSeq(buf, MapHeaderSize + 1, Len(buf))>>
         ELSE LET a == AtomReset(map[n], f[n - 1][2])
              IN <<Append(f[n - 1][1], a[1]), a[2]>>]

LEMMA ResettingExists ==
  ASSUME NEW map, NEW buf
  PROVE  \A N \in Nat : \E f : Resetting(map, buf, f, N)
<1> DEFINE Step(g, n) == IF n = 0 THEN <<<<>>, SubSeq(buf, MapHeaderSize + 1, Len(buf))>>
                         ELSE LET a == AtomReset(map[n], g[n - 1][2])
                              IN <<Append(g[n - 1][1], a[1]), a[2]>>
           T == {N \in Nat : ~\E f : Resetting(map, buf, f, N)}
<1> SUFFICES ASSUME T # {} PROVE FALSE
  OBVIOUS
<1>1. PICK N \in T : \A m \in T : ~(m < N)
  BY LeastMember
<1>2. N \in Nat /\ \A f : ~Resetting(map, buf, f, N)
  BY <1>1
<1>3. CASE N = 0
  <2> DEFINE f == [n \in 0 .. 0 |-> <<<<>>, SubSeq(buf, MapHeaderSize + 1, Len(buf))>>]
  <2>1. f = [n \in 0 .. 0 |-> Step(f, n)]
    OBVIOUS
  <2>2. Resetting(map, buf, f, 0)
    BY <2>1 DEF Resetting
  <2> QED
    BY <1>2, <1>3, <2>2
<1>4. CASE N # 0
  <2>1. N - 1 \in Nat /\ N - 1 < N
    BY <1>2, <1>4
  <2>2. PICK f : Resetting(map, buf, f, N - 1)
    BY <1>1, <2>1
  <2> DEFINE g == [n \in 0 .. N |-> IF n = N THEN Step(f, N) ELSE f[n]]
  <2>3. \A n \in 0 .. N - 1 : f[n] = Step(f, n)
    BY <2>1, <2>2, Zenon DEF Resetting
  <2>4. \A n \in 0 .. N : g[n] = Step(g, n)
    <3> TAKE n \in 0 .. N
    <3>1. n # 0 => g[n - 1] = f[n - 1]
      BY <1>2
    <3> HIDE DEF g
    <3>2. Step(g, n) = Step(f, n)
      BY <3>1
    <3>3. n # N => n \in 0 .. N - 1
      BY <1>2
    <3> USE DEF g
    <3> HIDE DEF Step
    <3> QED
      BY <2>3, <3>2, <3>3
  <2>5. g = [n \in 0 .. N |-> g[n]]
    OBVIOUS
  <2> HIDE DEF g
  <2>6. g = [n \in 0 .. N |-> Step(g, n)]
    BY <2>4, <2>5
  <2>7. Resetting(map, buf, g, N)
    BY <2>6, Zenon DEF Resetting
  <2> QED
    BY <1>2, <2>7
<1> QED
  BY <1>3, <1>4

MapRefused(map, buf) ==
  Len(buf) < MapHeaderSize \/ buf[2] # Byte(CalibrationLength(ShapeOf(map)))

\* A map that is read is what came of its last atom.
LEMMA MapResetIs ==
  ASSUME NEW map \in Maps, NEW buf \in Seq(Nat), ~MapRefused(map, buf)
  PROVE  \E f : /\ MapReset(map, buf) = <<"done", f[Len(map)][1]>>
                /\ f[0][1] = <<>> /\ f[0][2] = SubSeq(buf, MapHeaderSize + 1, Len(buf))
                /\ \A n \in 1 .. Len(map) :
                     /\ f[n][1] = Append(f[n - 1][1], AtomReset(map[n], f[n - 1][2])[1])
                     /\ f[n][2] = AtomReset(map[n], f[n - 1][2])[2]
<1> DEFINE N == Len(map)
           f == CHOOSE f : Resetting(map, buf, f, N)
<1>1. N \in Nat
  BY LenProperties DEF Maps
<1>2. Resetting(map, buf, f, N)
  BY <1>1, ResettingExists
<1>3. MapReset(map, buf) = <<"done", f[N][1]>>
  BY Zenon DEF MapReset, MapRefused, Resetting
<1> HIDE DEF f, N
<1>4. \A n \in 0 .. N :
        f[n] = IF n = 0 THEN <<<<>>, SubSeq(buf, MapHeaderSize + 1, Len(buf))>>
               ELSE <<Append(f[n - 1][1], AtomReset(map[n], f[n - 1][2])[1]),
                      AtomReset(map[n], f[n - 1][2])[2]>>
  BY <1>1, <1>2, Zenon DEF Resetting
<1>5. f[0][1] = <<>> /\ f[0][2] = SubSeq(buf, MapHeaderSize + 1, Len(buf))
  <2> DEFINE all == SubSeq(buf, MapHeaderSize + 1, Len(buf))
  <2>1. 0 \in 0 .. N
    BY <1>1
  <2> HIDE DEF all
  <2>2. f[0] = <<<<>>, all>>
    BY <1>4, <2>1, Zenon DEF all
  <2>3. f[0][1] = <<>> /\ f[0][2] = all
    BY <2>2
  <2> QED
    BY <2>3, Zenon DEF all
<1>6. ASSUME NEW n \in 1 .. N
      PROVE  /\ f[n][1] = Append(f[n - 1][1], AtomReset(map[n], f[n - 1][2])[1])
             /\ f[n][2] = AtomReset(map[n], f[n - 1][2])[2]
  <2>1. n \in 0 .. N /\ n # 0
    BY <1>1
  <2>2. f[n] = <<Append(f[n - 1][1], AtomReset(map[n], f[n - 1][2])[1]),
                 AtomReset(map[n], f[n - 1][2])[2]>>
    BY <1>4, <2>1
  <2> QED
    BY <2>2
<1> QED
  BY <1>3, <1>5, <1>6, Zenon DEF N

\* What appending an element does to a sequence of n - 1.
LEMMA Longer ==
  ASSUME NEW S, NEW m \in Seq(S), NEW e \in S, NEW n \in Nat, Len(m) = n - 1, n # 0
  PROVE  /\ Append(m, e) \in Seq(S) /\ Len(Append(m, e)) = n /\ Append(m, e)[n] = e
         /\ \A i \in 1 .. n - 1 : Append(m, e)[i] = m[i]
<1>1. /\ Append(m, e) \in Seq(S) /\ Len(Append(m, e)) = Len(m) + 1
      /\ \A i \in 1 .. Len(m) : Append(m, e)[i] = m[i]
      /\ Append(m, e)[Len(m) + 1] = e
  BY AppendProperties
<1>2. Len(m) + 1 = n
  OBVIOUS
<1> QED
  BY <1>1, <1>2

\* A reset keeps the shape of a map, whatever the data, and one that is refused all of it.
LEMMA MapResetTypes ==
  ASSUME NEW map \in Maps, NEW buf \in Seq(Nat)
  PROVE  LET r == MapReset(map, buf) IN
         /\ r[2] \in Maps /\ SameShape(r[2], map)
         /\ r[1] = "refused" => r[2] = map
         /\ r[1] \in {"done", "refused"}
<1>1. CASE MapRefused(map, buf)
  <2>1. MapReset(map, buf) = <<"refused", map>>
    BY <1>1, Zenon DEF MapReset, MapRefused
  <2> QED
    BY <2>1 DEF SameShape
<1>2. CASE ~MapRefused(map, buf)
  <2>1. PICK f : /\ MapReset(map, buf) = <<"done", f[Len(map)][1]>>
                 /\ f[0][1] = <<>> /\ f[0][2] = SubSeq(buf, MapHeaderSize + 1, Len(buf))
                 /\ \A n \in 1 .. Len(map) :
                      /\ f[n][1] = Append(f[n - 1][1], AtomReset(map[n], f[n - 1][2])[1])
                      /\ f[n][2] = AtomReset(map[n], f[n - 1][2])[2]
    BY <1>2, MapResetIs
  <2> DEFINE N == Len(map)
             Shaped(n) == /\ f[n][1] \in Maps /\ Len(f[n][1]) = n /\ f[n][2] \in Seq(Nat)
                          /\ \A i \in 1 .. n : Len(f[n][1][i]) = Len(map[i])
             T == {n \in Nat : n <= N /\ ~Shaped(n)}
  <2>2. N \in Nat /\ \A n \in 1 .. N : map[n] \in Seq(Entries)
    BY LenProperties, ElementOfSeq DEF Maps
  <2>3. T = {}
    <3> SUFFICES ASSUME T # {} PROVE FALSE
      OBVIOUS
    <3>1. PICK n \in T : \A m \in T : ~(m < n)
      BY LeastMember
    <3>2. n \in Nat /\ n <= N /\ ~Shaped(n)
      BY <3>1
    <3>3. n # 0
      <4>1. f[0][2] \in Seq(Nat)
        <5>1. \A i \in MapHeaderSize + 1 .. Len(buf) : i \in 1 .. Len(buf) /\ buf[i] \in Nat
          BY ElementOfSeq, LenProperties DEF MapHeaderSize
        <5>2. MapHeaderSize + 1 \in Int /\ Len(buf) \in Int
          BY LenProperties DEF MapHeaderSize
        <5> QED
          BY <2>1, <5>1, <5>2, SubSeqProperties
      <4>2. <<>> \in Maps /\ Len(<<>>) = 0
        BY DEF Maps
      <4>3. Shaped(0)
        BY <2>1, <4>1, <4>2
      <4> QED
        BY <3>2, <4>3
    <3>4. n \in 1 .. N /\ n - 1 \in Nat /\ n - 1 <= N /\ n - 1 < n
      BY <2>2, <3>2, <3>3
    <3>5. Shaped(n - 1)
      BY <3>1, <3>4
    <3> DEFINE m == f[n - 1][1]
               a == AtomReset(map[n], f[n - 1][2])
    <3>6. a[1] \in Seq(Entries) /\ Len(a[1]) = Len(map[n]) /\ a[2] \in Seq(Nat)
      <4>1. map[n] \in Seq(Entries) /\ f[n - 1][2] \in Seq(Nat)
        BY <2>2, <3>4, <3>5
      <4> QED
        BY <4>1, AtomResetTypes
    <3>7. m \in Seq(Seq(Entries)) /\ Len(m) = n - 1 /\ \A i \in 1 .. n - 1 : Len(m[i]) = Len(map[i])
      BY <3>5 DEF Maps
    <3>8. f[n][1] = Append(m, a[1]) /\ f[n][2] = a[2]
      BY <2>1, <3>4
    <3> HIDE DEF m, a
    <3>9. /\ Append(m, a[1]) \in Seq(Seq(Entries)) /\ Len(Append(m, a[1])) = n
          /\ Append(m, a[1])[n] = a[1]
          /\ \A i \in 1 .. n - 1 : Append(m, a[1])[i] = m[i]
      BY <3>2, <3>3, <3>6, <3>7, Longer
    <3> DEFINE x == f[n][1]
    <3>10. /\ x \in Seq(Seq(Entries)) /\ Len(x) = n /\ x[n] = a[1]
           /\ \A i \in 1 .. n - 1 : x[i] = m[i]
      BY <3>8, <3>9
    <3> HIDE DEF x
    <3>11. \A i \in 1 .. n : Len(x[i]) = Len(map[i])
      <4> TAKE i \in 1 .. n
      <4>1. i = n \/ i \in 1 .. n - 1
        BY <3>4
      <4> QED
        BY <3>6, <3>7, <3>10, <4>1
    <3>12. f[n][2] \in Seq(Nat)
      BY <3>6, <3>8
    <3>13. Shaped(n)
      BY <3>10, <3>11, <3>12 DEF Maps, x
    <3> QED
      BY <3>2, <3>13
  <2>4. Shaped(N)
    BY <2>2, <2>3
  <2>5. MapReset(map, buf) = <<"done", f[N][1]>>
    BY <2>1
  <2> DEFINE r == f[N][1]
  <2>6. r \in Maps /\ Len(r) = N /\ \A i \in 1 .. N : Len(r[i]) = Len(map[i])
    BY <2>4
  <2> HIDE DEF r
  <2>7. SameShape(r, map)
    BY <2>6 DEF SameShape
  <2>8. MapReset(map, buf)[1] = "done" /\ MapReset(map, buf)[2] = r
    BY <2>5 DEF r
  <2> QED
    BY <2>6, <2>7, <2>8
<1> QED
  BY <1>1, <1>2

\* A map is read from its own data, whatever a map of its shape held before.
LEMMA MapIsRead ==
  ASSUME AtAssumption, NEW held \in Maps, NEW w \in Maps, SameShape(held, w)
  PROVE  MapReset(held, MapDump(w)) = <<"done", w>>
<1> DEFINE buf  == MapDump(w)
           s    == Dumps(w)
           data == FlattenSeq(s)
           L    == Len(data)
           N    == Len(w)
<1>1. /\ N \in Nat /\ Len(held) = N
      /\ \A n \in 1 .. N : held[n] \in Seq(Entries) /\ w[n] \in Seq(Entries) /\ Len(held[n]) = Len(w[n])
  <2>1. Len(held) = Len(w) /\ Len(w) \in Nat
    BY LenProperties DEF SameShape, Maps
  <2>2. \A n \in 1 .. Len(w) : held[n] \in Seq(Entries) /\ w[n] \in Seq(Entries)
    BY <2>1, ElementOfSeq DEF Maps
  <2>3. \A n \in 1 .. Len(w) : Len(held[n]) = Len(w[n])
    BY <2>1 DEF SameShape
  <2> QED
    BY <2>1, <2>2, <2>3
<1>2. /\ data \in Seq(Nat) /\ buf \in Seq(Nat) /\ Len(buf) = 2 + L
      /\ buf[2] = Byte(CalibrationLength(ShapeOf(w)))
      /\ \A k \in 1 .. L : buf[2 + k] = data[k]
  BY MapDumpIs
<1>3. L \in Nat
  BY <1>2, LenProperties
<1>4. s \in Seq(Seq(Nat)) /\ Len(s) = N /\ \A n \in 1 .. N : s[n] = AtomDump(n, w[n])
  BY DumpsAre
<1>5. ShapeOf(held) = ShapeOf(w)
  <2>1. DOMAIN held = 1 .. N /\ DOMAIN w = 1 .. N
    BY <1>1, LenProperties DEF Maps
  <2> HIDE DEF N
  <2>2. ShapeOf(held) = [n \in 1 .. N |-> Len(held[n])]
    BY <2>1, Zenon DEF ShapeOf
  <2>3. ShapeOf(w) = [n \in 1 .. N |-> Len(w[n])]
    BY <2>1, Zenon DEF ShapeOf
  <2> QED
    BY <1>1, <2>2, <2>3
<1> HIDE DEF buf, s, L, N
<1>6. ~MapRefused(held, buf)
  BY <1>2, <1>3, <1>5 DEF MapRefused, MapHeaderSize
<1>7. PICK f : /\ MapReset(held, buf) = <<"done", f[Len(held)][1]>>
               /\ f[0][1] = <<>> /\ f[0][2] = SubSeq(buf, MapHeaderSize + 1, Len(buf))
               /\ \A n \in 1 .. Len(held) :
                    /\ f[n][1] = Append(f[n - 1][1], AtomReset(held[n], f[n - 1][2])[1])
                    /\ f[n][2] = AtomReset(held[n], f[n - 1][2])[2]
  BY <1>2, <1>6, MapResetIs
<1> DEFINE End(n) == Len(Flat(s, n))
           Read(n) == /\ f[n][1] \in Maps /\ Len(f[n][1]) = n /\ \A i \in 1 .. n : f[n][1][i] = w[i]
                      /\ End(n) \in Nat /\ L - End(n) \in Nat
                      /\ IsPart(f[n][2], data, End(n), L - End(n))
           T == {n \in Nat : n <= N /\ ~Read(n)}
<1>8. Read(0)
  <2>1. End(0) = 0
    BY DEF Flat
  <2>2. IsPart(f[0][2], buf, 2, L)
    <3>1. f[0][2] = SubSeq(buf, 2 + 1, 2 + L)
      BY <1>2, <1>7 DEF MapHeaderSize
    <3> DEFINE b == 2 + L
    <3>2. b \in Nat /\ b = 2 + L /\ b <= Len(buf) /\ 2 \in Nat
      BY <1>2, <1>3
    <3> HIDE DEF b
    <3>3. IsPart(SubSeq(buf, 2 + 1, b), buf, 2, L)
      BY <1>2, <1>3, <3>2, PartIs
    <3> QED
      BY <3>1, <3>3 DEF b
  <2> DEFINE x == f[0][2]
  <2>3. IsPart(x, data, 0, L)
    <3> HIDE DEF x, data
    <3>1. x \in Seq(Nat) /\ Len(x) = L /\ \A k \in 1 .. L : x[k] = buf[2 + k]
      BY <2>2 DEF IsPart, x
    <3>2. \A k \in 1 .. L : x[k] = data[0 + k]
      <4> TAKE k \in 1 .. L
      <4>1. x[k] = buf[2 + k] /\ buf[2 + k] = data[k]
        BY <1>2, <3>1
      <4>2. 0 + k = k
        OBVIOUS
      <4> QED
        BY <4>1, <4>2
    <3> QED
      BY <3>1, <3>2 DEF IsPart
  <2>4. L - 0 = L
    BY <1>3
  <2>5. IsPart(f[0][2], data, End(0), L - End(0))
    <3> HIDE DEF data, L
    <3> QED
      BY <2>1, <2>3, <2>4
  <2>6. <<>> \in Maps /\ Len(<<>>) = 0
    BY DEF Maps
  <2> QED
    BY <1>3, <1>7, <2>1, <2>4, <2>5, <2>6
<1>9. ASSUME NEW n \in 1 .. N, Read(n - 1) PROVE Read(n)
  <2> DEFINE m == f[n - 1][1]
             x == f[n - 1][2]
             a == AtomReset(held[n], x)
             from == End(n - 1)
             d == s[n]
             l == Len(d)
             rest == L - from
             left == L - End(n)
  <2>1. n \in Nat /\ n - 1 \in Nat /\ n # 0
    BY <1>1
  <2>2. /\ from \in Nat /\ d \in Seq(Nat) /\ End(n) = from + l /\ from + l <= L
        /\ \A k \in 1 .. l : data[from + k] = d[k]
    BY <1>4, FlatAt DEF L
  <2>3. l \in Nat
    BY <2>2, LenProperties
  <2>4. /\ m \in Maps /\ Len(m) = n - 1 /\ \A i \in 1 .. n - 1 : m[i] = w[i]
        /\ IsPart(x, data, from, rest)
    BY <1>9
  <2>5. d = AtomDump(n, w[n])
    BY <1>4
  <2> HIDE DEF m, x, from, d, l, End, data
  <2>6. rest \in Nat /\ l <= rest /\ left = rest - l /\ left \in Nat /\ rest = l + left
    BY <1>3, <2>2, <2>3
  <2> HIDE DEF rest, left
  <2>7. x \in Seq(Nat) /\ Len(x) = rest /\ \A k \in 1 .. rest : x[k] = data[from + k]
    BY <2>4 DEF IsPart
  <2>8. \A k \in 1 .. l : x[k] = d[k]
    <3> TAKE k \in 1 .. l
    <3>1. k \in 1 .. rest
      BY <2>3, <2>6
    <3>2. x[k] = data[from + k]
      BY <2>7, <3>1
    <3> QED
      BY <2>2, <3>2
  <2>9. a = <<w[n], SubSeq(x, l + 1, rest)>>
    <3>1. /\ held[n] \in Seq(Entries) /\ w[n] \in Seq(Entries) /\ Len(held[n]) = Len(w[n])
          /\ Len(AtomDump(n, w[n])) <= Len(x)
          /\ \A k \in 1 .. Len(AtomDump(n, w[n])) : x[k] = AtomDump(n, w[n])[k]
      BY <1>1, <2>5, <2>6, <2>7, <2>8 DEF l
    <3>2. AtomReset(held[n], x) = <<w[n], SubSeq(x, Len(AtomDump(n, w[n])) + 1, Len(x))>>
      BY <2>1, <2>7, <3>1, AtomIsRead
    <3> QED
      BY <2>5, <2>7, <3>2, Zenon DEF l
  <2>10. IsPart(SubSeq(x, l + 1, rest), x, l, left)
    <3>1. rest <= Len(x)
      BY <2>6, <2>7
    <3> QED
      BY <2>3, <2>6, <2>7, <3>1, PartIs
  <2>11. IsPart(SubSeq(x, l + 1, rest), data, from + l, left)
    <3>1. l + left <= rest
      BY <2>3, <2>6
    <3> QED
      BY <2>2, <2>3, <2>4, <2>6, <2>10, <3>1, PartOfPart
  <2>12. f[n][1] = Append(m, w[n]) /\ f[n][2] = SubSeq(x, l + 1, rest)
    <3>1. f[n][1] = Append(m, a[1]) /\ f[n][2] = a[2]
      BY <1>1, <1>7 DEF m, x
    <3> DEFINE y == SubSeq(x, l + 1, rest)
               z == w[n]
    <3>2. a = <<z, y>>
      BY <2>9
    <3> HIDE DEF y, z, a
    <3>3. a[1] = z /\ a[2] = y
      BY <3>2
    <3> QED
      BY <3>1, <3>3, Zenon DEF y, z
  <2>13. w[n] \in Seq(Entries)
    BY <1>1
  <2> DEFINE g == f[n][1]
  <2>14. /\ g \in Seq(Seq(Entries)) /\ Len(g) = n /\ g[n] = w[n]
         /\ \A i \in 1 .. n - 1 : g[i] = m[i]
    <3>1. m \in Seq(Seq(Entries))
      BY <2>4 DEF Maps
    <3> DEFINE e == w[n]
               h == Append(m, e)
    <3> HIDE DEF e
    <3>2. /\ h \in Seq(Seq(Entries)) /\ Len(h) = n /\ h[n] = e
          /\ \A i \in 1 .. n - 1 : h[i] = m[i]
      BY <2>1, <2>4, <2>13, <3>1, Longer DEF e
    <3> HIDE DEF h
    <3>3. g = h
      BY <2>12, Zenon DEF h, e
    <3> HIDE DEF g
    <3> QED
      BY <3>2, <3>3 DEF e
  <2> HIDE DEF g
  <2>15. \A i \in 1 .. n : g[i] = w[i]
    <3> TAKE i \in 1 .. n
    <3>1. i = n \/ i \in 1 .. n - 1
      BY <2>1
    <3> QED
      BY <2>4, <2>14, <3>1
  <2>16. g \in Maps
    BY <2>14 DEF Maps
  <2>17. End(n) \in Nat /\ L - End(n) \in Nat /\ IsPart(f[n][2], data, End(n), L - End(n))
    <3>1. End(n) \in Nat
      BY <2>2, <2>3
    <3>2. L - End(n) = left
      BY DEF left
    <3> QED
      BY <2>2, <2>6, <2>11, <2>12, <3>1, <3>2
  <2> USE DEF End
  <2> QED
    BY <2>14, <2>15, <2>16, <2>17 DEF g, data
<1>10. T = {}
  <2> SUFFICES ASSUME T # {} PROVE FALSE
    OBVIOUS
  <2>1. PICK n \in T : \A m \in T : ~(m < n)
    BY LeastMember
  <2>2. n \in Nat /\ n <= N /\ ~Read(n)
    BY <2>1
  <2> HIDE DEF Read
  <2>3. n # 0
    BY <1>8, <2>2
  <2>4. n \in 1 .. N /\ n - 1 \in Nat /\ n - 1 <= N /\ n - 1 < n
    BY <1>1, <2>2, <2>3
  <2>5. Read(n - 1)
    BY <2>1, <2>4
  <2> QED
    BY <1>9, <2>2, <2>4, <2>5
<1>11. Read(N)
  <2> HIDE DEF Read
  <2> QED
    BY <1>1, <1>10
<1> DEFINE r == f[N][1]
<1>12. r \in Maps /\ Len(r) = N /\ \A i \in 1 .. N : r[i] = w[i]
  BY <1>11
<1> HIDE DEF r
<1>13. r = w
  <2>1. w \in Seq(Seq(Entries)) /\ Len(w) = N /\ r \in Seq(Seq(Entries))
    BY <1>12 DEF Maps, N
  <2> QED
    BY <1>12, <2>1, SeqEqual
<1> QED
  BY <1>1, <1>7, <1>13 DEF r, buf

Vendors == [id : {x \in Seq(Nat) : Len(x) = 2}, vstr : Seq(Nat), pstr : Seq(Nat)]
Gpios   == {g \in Seq(Nat) : Len(g) = GpioSize}
Shaped(x, shape) ==
  x \in Maps /\ Len(x) = Len(shape) /\ \A n \in 1 .. Len(shape) : Len(x[n]) = shape[n]

\* What an object of each kind holds.
Holds(kind, x) ==
  /\ kind = "vendor" => x \in Vendors
  /\ kind = "gpio"   => x \in Gpios
  /\ kind = "map"    => Shaped(x, AtShape)

\* The image is a sequence of bytes, and since firmware dumped an object, that object's.
AtInv ==
  /\ atKind \in AtKinds /\ Holds(atKind, atHeld) /\ atImage \in Seq(Nat)
  /\ atWritten # <<>> =>
       Holds(atKind, atWritten[1]) /\ atImage = DumpOf(atKind, atWritten[1])

\* What is cut out of the data is a part of them.
LEMMA CutIs ==
  ASSUME NEW s \in Seq(Nat), NEW a \in Nat, NEW l \in Nat, a + l <= Len(s)
  PROVE  IsPart(Cut(s, a + 1, l), s, a, l)
<1>1. Cut(s, a + 1, l) = SubSeq(s, a + 1, (a + 1) + l - 1)
  BY DEF Cut
<1>2. (a + 1) + l - 1 = a + l /\ a + l \in Nat
  OBVIOUS
<1>3. Cut(s, a + 1, l) = SubSeq(s, a + 1, a + l)
  BY <1>1, <1>2
<1> DEFINE b == a + l
<1>4. b \in Nat /\ b = a + l /\ b <= Len(s)
  BY <1>2
<1> HIDE DEF b
<1>5. IsPart(SubSeq(s, a + 1, b), s, a, l)
  BY <1>4, PartIs
<1> QED
  BY <1>3, <1>5 DEF b

\* What is a part of the data at the same place is the same.
LEMMA SamePart ==
  ASSUME NEW x, NEW y, NEW s, NEW a \in Nat, NEW l \in Nat, IsPart(x, s, a, l), IsPart(y, s, a, l)
  PROVE  x = y
<1>1. x \in Seq(Nat) /\ y \in Seq(Nat) /\ Len(x) = Len(y) /\ \A k \in 1 .. Len(x) : x[k] = y[k]
  BY DEF IsPart
<1> QED
  BY <1>1, SeqEqual

\* The data of vendor information: the fields, the lengths and the strings.
LEMMA VendorDumpIs ==
  ASSUME AtAssumption, NEW v \in Vendors
  PROVE  LET n == Len(v.vstr)   m == Len(v.pstr)   d == VendorDump(v) IN
         /\ n \in Nat /\ m \in Nat /\ d \in Seq(Nat) /\ Len(d) = 4 + n + m
         /\ \A k \in 1 .. 2 : d[k] = v.id[k]
         /\ d[3] = Byte(n) /\ d[4] = Byte(m)
         /\ \A k \in 1 .. n : d[4 + k] = v.vstr[k]
         /\ \A k \in 1 .. m : d[(4 + n) + k] = v.pstr[k]
<1> DEFINE i == v.id
           s == v.vstr
           t == v.pstr
           n == Len(s)
           m == Len(t)
           h == <<Byte(n), Byte(m)>>
           a == i \o h
           b == a \o s
           d == b \o t
<1>1. i \in Seq(Nat) /\ Len(i) = 2 /\ s \in Seq(Nat) /\ t \in Seq(Nat)
  BY DEF Vendors
<1>2. VendorDump(v) = d
  BY Zenon DEF VendorDump
<1> HIDE DEF i, s, t
<1>3. n \in Nat /\ m \in Nat
  BY <1>1, LenProperties
<1>4. h \in Seq(Nat) /\ Len(h) = 2 /\ h[1] = Byte(n) /\ h[2] = Byte(m)
  <2> DEFINE x == Byte(n)
             y == Byte(m)
  <2> HIDE DEF n, m
  <2>1. x \in Nat /\ y \in Nat
    BY <1>3 DEF Byte, AtAssumption
  <2> HIDE DEF x, y
  <2>2. <<x, y>> \in Seq(Nat) /\ Len(<<x, y>>) = 2 /\ <<x, y>>[1] = x /\ <<x, y>>[2] = y
    BY <2>1
  <2> QED
    BY <2>2 DEF x, y
<1> HIDE DEF h
<1>5. IsJoined(a, i, h, 2, 2)
  BY <1>1, <1>4, JoinedIs
<1> HIDE DEF a
<1>6. /\ a \in Seq(Nat) /\ Len(a) = 4
      /\ \A k \in 1 .. 2 : a[k] = i[k]
      /\ a[3] = Byte(n) /\ a[4] = Byte(m)
  <2>1. a \in Seq(Nat) /\ Len(a) = 2 + 2
    BY <1>5 DEF IsJoined
  <2>2. \A k \in 1 .. 2 : a[k] = i[k]
    BY <1>5 DEF IsJoined
  <2>3. a[2 + 1] = h[1] /\ a[2 + 2] = h[2]
    BY <1>5 DEF IsJoined
  <2> QED
    BY <1>4, <2>1, <2>2, <2>3
<1>7. IsJoined(b, a, s, 4, n)
  <2> HIDE DEF n
  <2>1. Len(s) = n
    BY DEF n
  <2> QED
    BY <1>1, <1>3, <1>6, <2>1, JoinedIs
<1> HIDE DEF b
<1>8. /\ b \in Seq(Nat) /\ Len(b) = 4 + n
      /\ \A k \in 1 .. 4 : b[k] = a[k]
      /\ \A k \in 1 .. n : b[4 + k] = s[k]
  BY <1>7 DEF IsJoined
<1>9. IsJoined(d, b, t, 4 + n, m)
  <2> DEFINE c == 4 + n
  <2> HIDE DEF n, m
  <2>1. Len(t) = m /\ c \in Nat /\ Len(b) = c
    BY <1>3, <1>8 DEF m
  <2> HIDE DEF c
  <2>2. IsJoined(d, b, t, c, m)
    BY <1>1, <1>3, <1>8, <2>1, JoinedIs
  <2> QED
    BY <2>2 DEF c
<1> HIDE DEF d, n, m
<1>10. /\ d \in Seq(Nat) /\ Len(d) = 4 + n + m
       /\ \A k \in 1 .. 4 + n : d[k] = b[k]
       /\ \A k \in 1 .. m : d[(4 + n) + k] = t[k]
  <2>1. Len(d) = (4 + n) + m
    BY <1>9 DEF IsJoined
  <2>2. (4 + n) + m = 4 + n + m
    BY <1>3
  <2> QED
    BY <1>9, <2>1, <2>2 DEF IsJoined
<1>11. \A k \in 1 .. 4 : k \in 1 .. 4 + n /\ d[k] = a[k]
  <2> TAKE k \in 1 .. 4
  <2>1. k \in 1 .. 4 + n
    BY <1>3
  <2> QED
    BY <1>8, <1>10, <2>1
<1>12. \A k \in 1 .. n : d[4 + k] = s[k]
  <2> TAKE k \in 1 .. n
  <2>1. 4 + k \in 1 .. 4 + n
    BY <1>3
  <2> QED
    BY <1>8, <1>10, <2>1
<1>13. 1 \in 1 .. 4 /\ 2 \in 1 .. 4 /\ 3 \in 1 .. 4 /\ 4 \in 1 .. 4 /\ \A k \in 1 .. 2 : k \in 1 .. 4
  OBVIOUS
<1>14. d[3] = Byte(n) /\ d[4] = Byte(m) /\ \A k \in 1 .. 2 : d[k] = i[k]
  BY <1>6, <1>11, <1>13
<1> QED
  BY <1>2, <1>3, <1>10, <1>12, <1>14 DEF i, s, t, n, m

\* A number that fits into a byte is that byte.
LEMMA ByteOfSmall ==
  ASSUME AtAssumption, NEW x \in Nat, x < AtRadix
  PROVE  Byte(x) = x
<1> DEFINE r == AtRadix
<1>1. r \in Nat \ {0} /\ x < r
  BY DEF AtAssumption
<1> HIDE DEF r
<1>2. x = r * 0 + x /\ 0 \in Nat
  BY <1>1
<1>3. x % r = x
  BY <1>1, <1>2, DivIs
<1> QED
  BY <1>3 DEF Byte, r

\* Vendor information is read from its own data when a byte can tell the lengths.
LEMMA VendorIsRead ==
  ASSUME AtAssumption, NEW v, NEW w \in Vendors, Len(w.vstr) < AtRadix, Len(w.pstr) < AtRadix
  PROVE  VendorReset(v, VendorDump(w)) = <<"done", w>>
<1> DEFINE n == Len(w.vstr)
           m == Len(w.pstr)
           d == VendorDump(w)
<1>1. /\ n \in Nat /\ m \in Nat /\ d \in Seq(Nat) /\ Len(d) = 4 + n + m
      /\ \A k \in 1 .. 2 : d[k] = w.id[k]
      /\ d[3] = Byte(n) /\ d[4] = Byte(m)
      /\ \A k \in 1 .. n : d[4 + k] = w.vstr[k]
      /\ \A k \in 1 .. m : d[(4 + n) + k] = w.pstr[k]
  BY VendorDumpIs
<1>2. n < AtRadix /\ m < AtRadix
  OBVIOUS
<1>3. /\ w = [id |-> w.id, vstr |-> w.vstr, pstr |-> w.pstr]
      /\ w.id \in Seq(Nat) /\ Len(w.id) = 2
      /\ w.vstr \in Seq(Nat) /\ w.pstr \in Seq(Nat) /\ Len(w.vstr) = n /\ Len(w.pstr) = m
  BY DEF Vendors
<1> HIDE DEF n, m, d
<1>4. d[3] = n /\ d[4] = m
  <2>1. Byte(n) = n /\ Byte(m) = m
    BY <1>1, <1>2, ByteOfSmall
  <2> QED
    BY <1>1, <2>1
<1>5. Cut(d, 1, 2) = w.id
  <2>1. IsPart(Cut(d, 0 + 1, 2), d, 0, 2)
    <3>1. 0 \in Nat /\ 2 \in Nat /\ 0 + 2 <= Len(d)
      BY <1>1
    <3> QED
      BY <1>1, <3>1, CutIs
  <2>2. 0 + 1 = 1 /\ \A k \in 1 .. 2 : d[0 + k] = w.id[k]
    <3>1. \A k \in 1 .. 2 : 0 + k = k
      OBVIOUS
    <3> QED
      BY <1>1, <3>1
  <2>3. IsPart(w.id, d, 0, 2)
    BY <1>3, <2>2 DEF IsPart
  <2> QED
    BY <2>1, <2>2, <2>3, SamePart
<1>6. Cut(d, 4 + 1, n) = w.vstr
  <2>1. 4 \in Nat /\ 4 + n <= Len(d)
    BY <1>1
  <2>2. IsPart(Cut(d, 4 + 1, n), d, 4, n)
    BY <1>1, <2>1, CutIs
  <2>3. IsPart(w.vstr, d, 4, n)
    BY <1>1, <1>3 DEF IsPart
  <2> QED
    BY <1>1, <2>1, <2>2, <2>3, SamePart
<1>7. Cut(d, 4 + n + 1, m) = w.pstr
  <2> DEFINE c == 4 + n
  <2>1. c \in Nat /\ c + m <= Len(d) /\ 4 + n + 1 = c + 1
    BY <1>1
  <2> HIDE DEF c
  <2>2. IsPart(Cut(d, c + 1, m), d, c, m)
    BY <1>1, <2>1, CutIs
  <2>3. \A k \in 1 .. m : d[c + k] = w.pstr[k]
    BY <1>1 DEF c
  <2>4. IsPart(w.pstr, d, c, m)
    BY <1>1, <1>3, <2>3 DEF IsPart
  <2> QED
    BY <1>1, <2>1, <2>2, <2>4, SamePart
<1>8. VendorReset(v, d) = <<"done", [id   |-> Cut(d, 1, 2),
                                     vstr |-> Cut(d, 4 + 1, n),
                                     pstr |-> Cut(d, 4 + n + 1, m)]>>
  <2>1. ~(Len(d) < 4) /\ ~(Len(d) < 4 + n + m)
    BY <1>1
  <2> QED
    BY <1>4, <2>1, Zenon DEF VendorReset, VendorFixed
<1>9. VendorReset(v, d) = <<"done", [id |-> w.id, vstr |-> w.vstr, pstr |-> w.pstr]>>
  BY <1>5, <1>6, <1>7, <1>8, Zenon
<1> QED
  BY <1>3, <1>9, Zenon DEF d

\* A reset leaves vendor information, and one that is refused what was there.
LEMMA VendorResetTypes ==
  ASSUME NEW v \in Vendors, NEW buf \in Seq(Nat)
  PROVE  /\ VendorReset(v, buf)[2] \in Vendors
         /\ VendorReset(v, buf)[1] = "refused" => VendorReset(v, buf)[2] = v
<1> DEFINE a == buf[3]
           b == buf[4]
           i == Cut(buf, 1, 2)
           s == Cut(buf, 4 + 1, a)
           t == Cut(buf, 4 + a + 1, b)
           L == Len(buf)
<1>1. CASE L < 4
  <2>1. VendorReset(v, buf) = <<"refused", v>>
    BY <1>1, Zenon DEF VendorReset, VendorFixed
  <2> QED
    BY <2>1
<1>2. CASE ~(L < 4) /\ L < 4 + a + b
  <2>1. VendorReset(v, buf) = <<"terminated", v>>
    BY <1>2, Zenon DEF VendorReset, VendorFixed
  <2> QED
    BY <2>1
<1>3. CASE ~(L < 4) /\ ~(L < 4 + a + b)
  <2>1. VendorReset(v, buf) = <<"done", [id |-> i, vstr |-> s, pstr |-> t]>>
    BY <1>3, Zenon DEF VendorReset, VendorFixed
  <2>2. L \in Nat
    BY LenProperties
  <2>3. 3 \in 1 .. L /\ 4 \in 1 .. L
    BY <1>3, <2>2
  <2>4. a \in Nat /\ b \in Nat
    BY <2>3, ElementOfSeq
  <2> HIDE DEF a, b, L
  <2>5. i \in Seq(Nat) /\ Len(i) = 2
    <3>1. 0 \in Nat /\ 2 \in Nat /\ 0 + 2 <= L /\ 0 + 1 = 1
      BY <1>3, <2>2
    <3>2. IsPart(Cut(buf, 0 + 1, 2), buf, 0, 2)
      BY <3>1, CutIs DEF L
    <3> QED
      BY <3>1, <3>2 DEF IsPart
  <2>6. s \in Seq(Nat)
    <3>1. 4 \in Nat /\ 4 + a <= L
      BY <1>3, <2>2, <2>4
    <3>2. IsPart(Cut(buf, 4 + 1, a), buf, 4, a)
      BY <2>4, <3>1, CutIs DEF L
    <3> QED
      BY <3>2 DEF IsPart
  <2>7. t \in Seq(Nat)
    <3> DEFINE c == 4 + a
    <3>1. c \in Nat /\ c + b <= L /\ 4 + a + 1 = c + 1
      BY <1>3, <2>2, <2>4
    <3> HIDE DEF c
    <3>2. IsPart(Cut(buf, c + 1, b), buf, c, b)
      BY <2>4, <3>1, CutIs DEF L
    <3> QED
      BY <3>1, <3>2 DEF IsPart
  <2> HIDE DEF i, s, t
  <2>8. [id |-> i, vstr |-> s, pstr |-> t] \in Vendors
    BY <2>5, <2>6, <2>7 DEF Vendors
  <2> QED
    BY <2>1, <2>8
<1> QED
  BY <1>1, <1>2, <1>3

\* The constructor makes a map of the shape it is given.
LEMMA DefaultCalibrationIs ==
  ASSUME NEW shape \in Seq(Nat)
  PROVE  Shaped(DefaultCalibration(shape), shape)
<1> DEFINE N == Len(shape)
           c == DefaultCalibration(shape)
           atom(type) == [i \in 1 .. shape[type] |-> DefaultEntry(type)]
<1>1. N \in Nat /\ DOMAIN shape = 1 .. N /\ \A n \in 1 .. N : shape[n] \in Nat
  BY LenProperties, ElementOfSeq
<1>2. \A type : DefaultEntry(type) \in Entries
  <2>1. <<1, 1>> \in Entries /\ <<1, 0>> \in Entries
    BY DEF Entries, EntrySize
  <2> QED
    BY <2>1 DEF DefaultEntry
<1>3. c = [type \in 1 .. N |-> atom(type)]
  BY <1>1, Zenon DEF DefaultCalibration
<1>4. ASSUME NEW n \in 1 .. N PROVE atom(n) \in Seq(Entries) /\ Len(atom(n)) = shape[n]
  <2> DEFINE l == shape[n]
             a == atom(n)
  <2>1. l \in Nat
    BY <1>1
  <2>2. a \in [1 .. l -> Entries]
    <3>1. DefaultEntry(n) \in Entries
      BY <1>2
    <3> HIDE DEF l
    <3> DEFINE e == DefaultEntry(n)
    <3>2. e \in Entries
      BY <3>1
    <3> HIDE DEF e
    <3>3. [i \in 1 .. l |-> e] \in [1 .. l -> Entries]
      BY <3>2
    <3> QED
      BY <3>3 DEF e, l
  <2> HIDE DEF l, a
  <2>3. a \in Seq(Entries)
    BY <2>1, <2>2, SeqDef
  <2>4. Len(a) = l
    <3>1. DOMAIN a = 1 .. l
      BY <2>2
    <3> QED
      BY <2>1, <2>3, <3>1, LenProperties
  <2> QED
    BY <2>3, <2>4 DEF a, l
<1> HIDE DEF N, c, atom
<1>5. c \in [1 .. N -> Seq(Entries)]
  BY <1>3, <1>4
<1>6. c \in Seq(Seq(Entries))
  BY <1>1, <1>5, SeqDef
<1>7. Len(c) = N
  <2>1. DOMAIN c = 1 .. N
    BY <1>5
  <2> QED
    BY <1>1, <1>6, <2>1, LenProperties
<1>8. \A n \in 1 .. N : Len(c[n]) = shape[n]
  BY <1>3, <1>4
<1> QED
  BY <1>6, <1>7, <1>8 DEF Shaped, Maps, N, c

\* Setting an entry keeps the shape of a map.
LEMMA SetEntryHolds ==
  ASSUME NEW x, Shaped(x, AtShape), NEW type \in DOMAIN AtShape, NEW i \in 1 .. AtShape[type],
         AtShape \in Seq(Nat), NEW e \in Entries
  PROVE  Shaped([x EXCEPT ![type][i] = e], AtShape)
<1> DEFINE N == Len(AtShape)
           a == x[type]
           b == [a EXCEPT ![i] = e]
           y == [x EXCEPT ![type] = b]
<1>1. N \in Nat /\ DOMAIN AtShape = 1 .. N /\ type \in 1 .. N
  BY LenProperties
<1>2. x \in Seq(Seq(Entries)) /\ Len(x) = N /\ \A n \in 1 .. N : Len(x[n]) = AtShape[n]
  BY DEF Shaped, Maps
<1>3. a \in Seq(Entries) /\ Len(a) = AtShape[type]
  BY <1>1, <1>2, ElementOfSeq
<1>4. [x EXCEPT ![type][i] = e] = y
  OBVIOUS
<1> HIDE DEF N, a
<1>5. b \in Seq(Entries) /\ Len(b) = Len(a)
  BY <1>3, ExceptSeq
<1> HIDE DEF b
<1>6. y \in Seq(Seq(Entries)) /\ Len(y) = N
  BY <1>1, <1>2, <1>5, ExceptSeq
<1>7. \A n \in 1 .. N : Len(y[n]) = AtShape[n]
  <2>1. DOMAIN x = 1 .. N
    BY <1>2, LenProperties
  <2> TAKE n \in 1 .. N
  <2>2. y[n] = IF n = type THEN b ELSE x[n]
    BY <2>1
  <2> HIDE DEF y
  <2> QED
    BY <1>2, <1>3, <1>5, <2>2
<1> HIDE DEF y
<1> QED
  BY <1>4, <1>6, <1>7, Zenon DEF Shaped, Maps, N

\* The data of any object are bytes.
LEMMA DumpTypes ==
  ASSUME AtAssumption, NEW kind \in AtKinds, NEW x, Holds(kind, x)
  PROVE  DumpOf(kind, x) \in Seq(Nat)
<1>1. CASE kind = "vendor"
  <2>1. x \in Vendors
    BY <1>1 DEF Holds
  <2>2. DumpOf(kind, x) = VendorDump(x)
    BY <1>1 DEF DumpOf
  <2> QED
    BY <2>1, <2>2, VendorDumpIs
<1>2. CASE kind = "gpio"
  BY <1>2 DEF Holds, DumpOf, GpioDump, Gpios
<1>3. CASE kind = "map"
  <2>1. x \in Maps
    BY <1>3 DEF Holds, Shaped
  <2>2. DumpOf(kind, x) = MapDump(x)
    BY <1>3 DEF DumpOf
  <2> QED
    BY <2>1, <2>2, MapDumpIs
<1> QED
  BY <1>1, <1>2, <1>3 DEF AtKinds

\* A reset leaves an object of its kind, and one that is refused what was there.
LEMMA ResetTypes ==
  ASSUME AtAssumption, NEW kind \in AtKinds, NEW x, Holds(kind, x), NEW buf \in Seq(Nat)
  PROVE  /\ Holds(kind, ResetOf(kind, x, buf)[2])
         /\ ResetOf(kind, x, buf)[1] = "refused" => ResetOf(kind, x, buf)[2] = x
<1>1. CASE kind = "vendor"
  <2>1. x \in Vendors
    BY <1>1 DEF Holds
  <2>2. ResetOf(kind, x, buf) = VendorReset(x, buf)
    BY <1>1 DEF ResetOf
  <2>3. /\ VendorReset(x, buf)[2] \in Vendors
        /\ VendorReset(x, buf)[1] = "refused" => VendorReset(x, buf)[2] = x
    BY <2>1, VendorResetTypes
  <2> QED
    BY <1>1, <2>2, <2>3 DEF Holds
<1>2. CASE kind = "gpio"
  <2>1. x \in Gpios
    BY <1>2 DEF Holds
  <2>2. ResetOf(kind, x, buf) = GpioReset(x, buf)
    BY <1>2 DEF ResetOf
  <2>3. CASE Len(buf) < GpioSize
    <3>1. GpioReset(x, buf) = <<"refused", x>>
      BY <2>3 DEF GpioReset
    <3> QED
      BY <1>2, <2>1, <2>2, <3>1 DEF Holds
  <2>4. CASE ~(Len(buf) < GpioSize)
    <3> DEFINE y == Cut(buf, 1, GpioSize)
    <3>1. GpioReset(x, buf) = <<"done", y>>
      BY <2>4 DEF GpioReset
    <3>2. 0 \in Nat /\ 3 \in Nat /\ 0 + 3 <= Len(buf) /\ 0 + 1 = 1
      BY <2>4, LenProperties DEF GpioSize
    <3>3. IsPart(Cut(buf, 0 + 1, 3), buf, 0, 3)
      BY <3>2, CutIs
    <3>4. y \in Gpios
      BY <3>2, <3>3 DEF IsPart, Gpios, GpioSize
    <3> HIDE DEF y
    <3> QED
      BY <1>2, <2>2, <3>1, <3>4 DEF Holds
  <2> QED
    BY <2>3, <2>4
<1>3. CASE kind = "map"
  <2>1. x \in Maps /\ Shaped(x, AtShape)
    BY <1>3 DEF Holds, Shaped
  <2>2. ResetOf(kind, x, buf) = MapReset(x, buf)
    BY <1>3 DEF ResetOf
  <2> DEFINE r == MapReset(x, buf)
  <2>3. r[2] \in Maps /\ SameShape(r[2], x) /\ (r[1] = "refused" => r[2] = x)
    BY <2>1, MapResetTypes
  <2> HIDE DEF r
  <2>4. Shaped(r[2], AtShape)
    BY <2>1, <2>3 DEF SameShape, Shaped
  <2> QED
    BY <1>3, <2>2, <2>3, <2>4 DEF Holds, r
<1> QED
  BY <1>1, <1>2, <1>3 DEF AtKinds

\* An object is read from its own data, whatever another of its kind held before.
LEMMA ObjectIsRead ==
  ASSUME AtAssumption, NEW kind \in AtKinds, NEW held, Holds(kind, held), NEW w, Holds(kind, w),
         kind = "vendor" => Len(w.vstr) < AtRadix /\ Len(w.pstr) < AtRadix
  PROVE  ResetOf(kind, held, DumpOf(kind, w)) = <<"done", w>>
<1>1. CASE kind = "vendor"
  <2>1. w \in Vendors /\ Len(w.vstr) < AtRadix /\ Len(w.pstr) < AtRadix
    BY <1>1 DEF Holds
  <2>2. ResetOf(kind, held, DumpOf(kind, w)) = VendorReset(held, VendorDump(w))
    BY <1>1 DEF ResetOf, DumpOf
  <2> QED
    BY <2>1, <2>2, VendorIsRead
<1>2. CASE kind = "gpio"
  <2>1. w \in Seq(Nat) /\ Len(w) = 3
    BY <1>2 DEF Holds, Gpios, GpioSize
  <2>2. ResetOf(kind, held, DumpOf(kind, w)) = GpioReset(held, w)
    BY <1>2 DEF ResetOf, DumpOf, GpioDump
  <2>3. GpioReset(held, w) = <<"done", Cut(w, 1, 3)>>
    BY <2>1 DEF GpioReset, GpioSize
  <2>4. Cut(w, 1, 3) = w
    <3>1. 0 \in Nat /\ 3 \in Nat /\ 0 + 3 <= Len(w) /\ 0 + 1 = 1
      BY <2>1
    <3>2. IsPart(Cut(w, 0 + 1, 3), w, 0, 3)
      BY <2>1, <3>1, CutIs
    <3>3. IsPart(w, w, 0, 3)
      BY <2>1 DEF IsPart
    <3> QED
      BY <3>1, <3>2, <3>3, SamePart
  <2> QED
    BY <2>2, <2>3, <2>4
<1>3. CASE kind = "map"
  <2>1. held \in Maps /\ w \in Maps /\ SameShape(held, w)
    BY <1>3 DEF Holds, Shaped, SameShape
  <2>2. ResetOf(kind, held, DumpOf(kind, w)) = MapReset(held, MapDump(w))
    BY <1>3 DEF ResetOf, DumpOf
  <2> QED
    BY <2>1, <2>2, MapIsRead
<1> QED
  BY <1>1, <1>2, <1>3 DEF AtKinds

\* The invariant holds: every step keeps the kind of the object, and the bytes.
LEMMA AtInvHolds == AtAssumption => (AtSpec => []AtInv)
<1> SUFFICES ASSUME AtAssumption PROVE AtSpec => []AtInv
  OBVIOUS
<1>1. AtInit => AtInv
  <2> SUFFICES ASSUME AtInit PROVE AtInv
    OBVIOUS
  <2>1. atKind \in AtKinds /\ atHeld = Default(atKind) /\ atImage = <<>> /\ atWritten = <<>>
    BY DEF AtInit
  <2>2. atKind = "vendor" => atHeld \in Vendors
    <3>1. <<0, 0>> \in Seq(Nat) /\ Len(<<0, 0>>) = 2 /\ <<>> \in Seq(Nat)
      OBVIOUS
    <3>2. [id |-> <<0, 0>>, vstr |-> <<>>, pstr |-> <<>>] \in Vendors
      BY <3>1 DEF Vendors
    <3> QED
      BY <2>1, <3>2 DEF Default
  <2>3. atKind = "gpio" => atHeld \in Gpios
    <3>1. [i \in 1 .. 3 |-> 0] \in Seq(Nat) /\ Len([i \in 1 .. 3 |-> 0]) = 3
      OBVIOUS
    <3> QED
      BY <2>1, <3>1 DEF Default, Gpios, GpioSize
  <2>4. atKind = "map" => Shaped(atHeld, AtShape)
    <3>1. AtShape \in Seq(Nat)
      BY DEF AtAssumption
    <3>2. Shaped(DefaultCalibration(AtShape), AtShape)
      BY <3>1, DefaultCalibrationIs
    <3> QED
      BY <2>1, <3>2 DEF Default
  <2> QED
    BY <2>1, <2>2, <2>3, <2>4 DEF AtInv, Holds
<1>2. AtInv /\ [AtNext]_atVars => AtInv'
  <2> SUFFICES ASSUME AtInv, [AtNext]_atVars PROVE AtInv'
    OBVIOUS
  <2>1. /\ atKind \in AtKinds /\ Holds(atKind, atHeld) /\ atImage \in Seq(Nat)
        /\ atWritten # <<>> => Holds(atKind, atWritten[1]) /\ atImage = DumpOf(atKind, atWritten[1])
    BY DEF AtInv
  <2>2. CASE AtFill
    <3>1. UNCHANGED <<atKind, atImage, atWritten>>
      BY <2>2 DEF AtFill
    <3>2. Holds(atKind, atHeld')
      <4>1. CASE FillVendor
        <5>1. PICK v, p \in AtStrings : atHeld' = [id |-> <<1, 0>>, vstr |-> v, pstr |-> p]
          BY <4>1 DEF FillVendor
        <5>2. v \in Seq(Nat) /\ p \in Seq(Nat)
          <6>1. 0 .. AtRadix - 1 \subseteq Nat /\ AtStrings \subseteq Seq(0 .. AtRadix - 1)
            BY DEF AtAssumption
          <6>2. Seq(0 .. AtRadix - 1) \subseteq Seq(Nat)
            BY <6>1, SeqMonotonic
          <6> QED
            BY <6>1, <6>2
        <5>3. <<1, 0>> \in Seq(Nat) /\ Len(<<1, 0>>) = 2
          OBVIOUS
        <5>4. atHeld' \in Vendors
          BY <5>1, <5>2, <5>3 DEF Vendors
        <5> QED
          BY <4>1, <5>4 DEF FillVendor, Holds
      <4>2. CASE FillGpio
        <5>1. PICK b \in {0, AtRadix - 1}, i \in 1 .. GpioSize : atHeld' = [atHeld EXCEPT ![i] = b]
          BY <4>2 DEF FillGpio
        <5>2. atKind = "gpio" /\ atHeld \in Seq(Nat) /\ Len(atHeld) = GpioSize /\ b \in Nat
          BY <2>1, <4>2 DEF FillGpio, Holds, Gpios, AtAssumption
        <5>3. i \in 1 .. Len(atHeld)
          BY <5>2
        <5>4. atHeld' \in Seq(Nat) /\ Len(atHeld') = Len(atHeld)
          BY <5>1, <5>2, <5>3, ExceptSeq
        <5> QED
          BY <5>2, <5>4 DEF Holds, Gpios
      <4>3. CASE SetEntry
        <5>0. PICK type \in DOMAIN AtShape : \E k \in 1 .. AtShape[type] :
                atHeld' = [atHeld EXCEPT ![type][k] = <<Byte(type + 1), Byte(k)>>]
          BY <4>3 DEF SetEntry
        <5>1. PICK i \in 1 .. AtShape[type] :
                atHeld' = [atHeld EXCEPT ![type][i] = <<Byte(type + 1), Byte(i)>>]
          BY <5>0
        <5>2. AtShape \in Seq(Nat) /\ \A k \in Nat : Byte(k) \in Nat
          BY DEF AtAssumption, Byte
        <5>3. type + 1 \in Nat /\ i \in Nat
          <6>1. DOMAIN AtShape = 1 .. Len(AtShape) /\ Len(AtShape) \in Nat
            BY <5>2, LenProperties
          <6>2. AtShape[type] \in Nat
            BY <5>2, <6>1, ElementOfSeq
          <6> QED
            BY <6>1, <6>2
        <5> DEFINE e == <<Byte(type + 1), Byte(i)>>
        <5>4. e \in Entries
          <6> DEFINE u == Byte(type + 1)
                     v == Byte(i)
          <6>1. u \in Nat /\ v \in Nat
            BY <5>2, <5>3
          <6> HIDE DEF u, v
          <6>2. <<u, v>> \in Entries
            BY <6>1 DEF Entries, EntrySize
          <6> QED
            BY <6>2 DEF u, v
        <5>5. atHeld' = [atHeld EXCEPT ![type][i] = e]
          BY <5>1
        <5> HIDE DEF e
        <5>6. atKind = "map" /\ Shaped(atHeld, AtShape)
          BY <2>1, <4>3 DEF SetEntry, Holds
        <5>7. Shaped([atHeld EXCEPT ![type][i] = e], AtShape)
          BY <5>2, <5>4, <5>6, SetEntryHolds
        <5>8. Shaped(atHeld', AtShape)
          BY <5>5, <5>7, Zenon
        <5> QED
          BY <5>6, <5>8 DEF Holds
      <4> QED
        BY <2>2, <4>1, <4>2, <4>3 DEF AtFill
    <3> QED
      BY <2>1, <3>1, <3>2 DEF AtInv
  <2>3. CASE AtDump
    <3>1. atImage' = DumpOf(atKind, atHeld) /\ atWritten' = <<atHeld>> /\ UNCHANGED <<atKind, atHeld>>
      BY <2>3 DEF AtDump
    <3>2. atImage' \in Seq(Nat)
      BY <2>1, <3>1, DumpTypes
    <3>3. atWritten'[1] = atHeld
      BY <3>1
    <3> QED
      BY <2>1, <3>1, <3>2, <3>3 DEF AtInv
  <2>4. CASE AtForeignImage
    <3>1. atWritten' = <<>> /\ UNCHANGED <<atKind, atHeld>>
      BY <2>4 DEF AtForeignImage
    <3>2. atImage' \in Seq(Nat)
      <4>1. ASSUME NEW shape \in AtForeign, atImage' = MapDump(DefaultCalibration(shape))
            PROVE  atImage' \in Seq(Nat)
        <5>1. shape \in Seq(Nat)
          BY DEF AtAssumption
        <5>2. DefaultCalibration(shape) \in Maps
          BY <5>1, DefaultCalibrationIs DEF Shaped
        <5> QED
          BY <4>1, <5>2, MapDumpIs
      <4>2. ASSUME NEW n \in 0 .. Len(atImage) - 1, atImage' = SubSeq(atImage, 1, n)
            PROVE  atImage' \in Seq(Nat)
        <5>1. Len(atImage) \in Nat
          BY <2>1, LenProperties
        <5>2. n \in Nat /\ n <= Len(atImage) /\ 0 \in Nat /\ n = 0 + n /\ 0 + 1 = 1
          BY <5>1
        <5>3. IsPart(SubSeq(atImage, 0 + 1, n), atImage, 0, n)
          BY <2>1, <5>2, PartIs
        <5> QED
          BY <4>2, <5>2, <5>3 DEF IsPart
      <4> QED
        BY <2>4, <4>1, <4>2 DEF AtForeignImage
    <3> QED
      BY <2>1, <3>1, <3>2 DEF AtInv
  <2>5. CASE AtReset
    <3>1. atHeld' = ResetOf(atKind, atHeld, atImage)[2] /\ UNCHANGED <<atKind, atImage, atWritten>>
      BY <2>5 DEF AtReset
    <3>2. Holds(atKind, atHeld')
      BY <2>1, <3>1, ResetTypes
    <3> QED
      BY <2>1, <3>1, <3>2 DEF AtInv
  <2>6. CASE UNCHANGED atVars
    BY <2>1, <2>6 DEF AtInv, atVars
  <2> QED
    BY <2>2, <2>3, <2>4, <2>5, <2>6 DEF AtNext
<1> QED
  BY <1>1, <1>2, PTL DEF AtSpec

\* What firmware has dumped into an atom it reads back, whatever the object held
\* meanwhile, and a reset that is refused has left the object alone: for any
\* shape of the calibration map, any strings a byte can tell the lengths of, any
\* values of a byte and any image of other firmware.
THEOREM AtomsRead == AtAssumption => (AtSpec => AtomsReadBack)
<1> SUFFICES ASSUME AtAssumption PROVE AtSpec => AtomsReadBack
  OBVIOUS
<1>1. AtInv /\ [AtNext]_atVars =>
        [AtReset =>
           /\ atAnswer' = "refused" => atHeld' = atHeld
           /\ (atWritten # <<>> /\ Tellable(atWritten[1])) =>
                atAnswer' = "done" /\ atHeld' = atWritten[1]]_atVars
  <2> SUFFICES ASSUME AtInv, AtReset
               PROVE  /\ atAnswer' = "refused" => atHeld' = atHeld
                      /\ (atWritten # <<>> /\ Tellable(atWritten[1])) =>
                           atAnswer' = "done" /\ atHeld' = atWritten[1]
    OBVIOUS
  <2> DEFINE r == ResetOf(atKind, atHeld, atImage)
  <2>1. /\ atKind \in AtKinds /\ Holds(atKind, atHeld) /\ atImage \in Seq(Nat)
        /\ atWritten # <<>> => Holds(atKind, atWritten[1]) /\ atImage = DumpOf(atKind, atWritten[1])
    BY DEF AtInv
  <2>2. atAnswer' = r[1] /\ atHeld' = r[2]
    BY DEF AtReset
  <2>3. r[1] = "refused" => r[2] = atHeld
    BY <2>1, ResetTypes
  <2>4. ASSUME atWritten # <<>>, Tellable(atWritten[1])
        PROVE  r[1] = "done" /\ r[2] = atWritten[1]
    <3> DEFINE w == atWritten[1]
    <3>1. Holds(atKind, w) /\ atImage = DumpOf(atKind, w)
      BY <2>1, <2>4
    <3>2. atKind = "vendor" => Len(w.vstr) < AtRadix /\ Len(w.pstr) < AtRadix
      BY <2>4 DEF Tellable
    <3> HIDE DEF w
    <3>3. ResetOf(atKind, atHeld, DumpOf(atKind, w)) = <<"done", w>>
      BY <2>1, <3>1, <3>2, ObjectIsRead
    <3>4. r = <<"done", w>>
      BY <3>1, <3>3
    <3> HIDE DEF r
    <3> QED
      BY <3>4 DEF w
  <2> QED
    BY <2>2, <2>3, <2>4
<1>2. AtSpec => []AtInv
  BY AtInvHolds
<1> QED
  BY <1>1, <1>2, PTL DEF AtSpec, AtomsReadBack
=============================================================================
