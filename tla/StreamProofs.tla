---------------------------- MODULE StreamProofs ----------------------------
(***************************************************************************)
(* Theorems about the data that flows through the measurement pipeline:    *)
(* what the handler gets, what is lost, and that the pipeline implements   *)
(* RecordStream, for every number of sessions and data sets, every         *)
(* capacity, burst size and resampler delay.                               *)
(***************************************************************************)
EXTENDS MeasurementStream, MeasurementProofs

-----------------------------------------------------------------------------
(* The invariant.  Everything on its way belongs to the session that runs,  *)
(* and each buffer is empty unless the thread that fills it is at the step  *)
(* between filling and emptying it.                                         *)

\* join_threads() leaves nothing of an earlier session in threads_, and the
\* reader thread is created before the processing thread.
ThreadsCurrent ==
  /\ \A t \in threads : t[2] = session
  /\ call.at = "spawnProcessor" => <<"processor", session>> \notin threads

\* A session that has not run has delivered and lost nothing.
NotRunYet ==
  \A s \in Sessions :
    s > session \/ (s = session /\ call.at \in {"enable", "flags", "spawnReader"})
      => delivered[s] = <<>> /\ lost[s] = 0

\* The data sets are counted from the moment the ADCs are enabled.
CountRestarted ==
  /\ call.at \in {"prepare", "enable"} => ~adc
  /\ call.at \in {"flags", "spawnReader"} => next = 0
  /\ session = 0 => ~adc

HandsEmptied ==
  \A s \in Sessions :
    IF reader[s] = "push" THEN Len(inHand[s]) = 1 ELSE inHand[s] = <<>>

BatchesEmptied ==
  \A s \in Sessions : proc[s] \notin {"fetch", "work"} => batch[s] = <<>>

FlushWhenStopped ==
  \A s \in Sessions : proc[s] = "flush" => ~running

\* Valid data sets of session s alone, up to number n, in order.
InOrder(s, rows, n) ==
  /\ Increasing(rows)
  /\ \A i \in DOMAIN rows :
       rows[i][1] = s /\ InvalidCount < rows[i][2] /\ rows[i][2] <= n

AllInOrder ==
  /\ \A s \in Sessions :
       /\ Increasing(delivered[s])
       /\ \A i \in DOMAIN delivered[s] :
            delivered[s][i][1] = s /\ delivered[s][i][2] > InvalidCount
  /\ \A s \in Sessions : s = session => InOrder(s, Pipeline(s), next)

AllCounted ==
  \A s \in Sessions :
    <<"reader", s>> \in threads =>
      Len(Pipeline(s)) + lost[s] = next - (InvalidCount - skip)

StreamInv ==
  /\ ControlInv
  /\ ThreadsCurrent /\ NotRunYet /\ CountRestarted
  /\ HandsEmptied /\ BatchesEmptied /\ FlushWhenStopped
  /\ AllInOrder /\ AllCounted

-----------------------------------------------------------------------------
(* Sequences of rows.                                                       *)

\* Concatenation of rows is associative, and empty parts drop out.
LEMMA Chains ==
  /\ \A a, b \in Seq(Rows) : a \o b \in Seq(Rows)
  /\ \A a, b, c \in Seq(Rows) : (a \o b) \o c = a \o (b \o c)
  /\ \A a \in Seq(Rows) : a \o <<>> = a /\ <<>> \o a = a
  /\ <<>> \in Seq(Rows)
  /\ \A a, b \in Seq(Rows) : Len(a \o b) = Len(a) + Len(b)
  /\ \A a \in Seq(Rows) : Len(a) \in Nat
<1>1. ASSUME NEW a \in Seq(Rows), NEW b \in Seq(Rows)
      PROVE  a \o b \in Seq(Rows) /\ Len(a \o b) = Len(a) + Len(b)
  BY ConcatProperties
<1>2. ASSUME NEW a \in Seq(Rows), NEW b \in Seq(Rows), NEW c \in Seq(Rows)
      PROVE  (a \o b) \o c = a \o (b \o c)
  BY ConcatAssociative
<1>3. ASSUME NEW a \in Seq(Rows)
      PROVE  a \o <<>> = a /\ <<>> \o a = a /\ Len(a) \in Nat
  BY ConcatEmptySeq, LenProperties
<1>4. <<>> \in Seq(Rows)
  BY EmptySeq
<1>5. QED
  BY <1>1, <1>2, <1>3, <1>4

\* A sequence cut in two and put together again is the same sequence.
LEMMA CutAndJoined ==
  ASSUME NEW q \in Seq(Rows), NEW n \in 0 .. Len(q)
  PROVE  Prefix(q, n) \o Suffix(q, n) = q
<1>1. Len(q) \in Nat
  BY LenProperties
<1>2. SubSeq(q, 1, n) \o SubSeq(q, n + 1, Len(q)) = SubSeq(q, 1, Len(q))
  <2>1. 1 \in 1 .. Len(q) + 1 /\ n \in 1 - 1 .. Len(q) /\ Len(q) \in n .. Len(q)
    BY <1>1
  <2>2. QED
    BY <2>1, ConcatAdjacentSubSeq
<1>3. QED
  BY <1>2, SubSeqFull DEF Prefix, Suffix

\* What the first part of a concatenation inherits from the whole.
LEMMA FirstPart ==
  ASSUME NEW a \in Seq(Rows), NEW b \in Seq(Rows), NEW s, NEW n \in Int,
         InOrder(s, a \o b, n)
  PROVE  InOrder(s, a, n)
<1>1. /\ DOMAIN a = 1 .. Len(a) /\ Len(a) \in Nat /\ Len(b) \in Nat
      /\ DOMAIN (a \o b) = 1 .. Len(a) + Len(b)
  BY LenProperties, ConcatProperties
<1>2. \A i \in 1 .. Len(a) : (a \o b)[i] = a[i] /\ i \in 1 .. Len(a) + Len(b)
  BY <1>1, ConcatProperties
<1>3. QED
  BY <1>1, <1>2 DEF InOrder, Increasing

\* A newer row may be put behind the others.
LEMMA NewestLast ==
  ASSUME NEW a \in Seq(Rows), NEW s \in Sessions, NEW n \in Nat,
         InOrder(s, a, n), InvalidCount <= n
  PROVE  InOrder(s, a \o <<<<s, n + 1>>>>, n + 1)
<1> DEFINE row == <<s, n + 1>>
           b == a \o <<row>>
<1>0. InvalidCount \in Nat
  BY ConstantsAssumption
<1>1. <<row>> \in Seq(Rows) /\ Len(<<row>>) = 1 /\ <<row>>[1] = row
  BY DEF Rows
<1>2. /\ DOMAIN a = 1 .. Len(a) /\ Len(a) \in Nat
      /\ DOMAIN b = 1 .. Len(a) + 1
  BY <1>1, LenProperties, ConcatProperties
<1>3. \A i \in 1 .. Len(a) + 1 : b[i] = IF i <= Len(a) THEN a[i] ELSE row
  BY <1>1, <1>2, ConcatProperties
<1>4. \A i \in 1 .. Len(a) : a[i] \in Rows /\ a[i][2] \in Nat
  BY <1>2, ElementOfSeq DEF Rows
<1>5. row[1] = s /\ row[2] = n + 1
  OBVIOUS
<1> HIDE DEF row, b
<1>6. Increasing(b)
  <2> SUFFICES ASSUME NEW i \in 1 .. Len(a) + 1, NEW j \in 1 .. Len(a) + 1, i < j
               PROVE  b[i][2] < b[j][2]
    BY <1>2 DEF Increasing
  <2>1. b[i] = a[i] /\ i \in 1 .. Len(a)
    BY <1>2, <1>3
  <2>2. CASE j <= Len(a)
    BY <2>1, <2>2, <1>2, <1>3 DEF InOrder, Increasing
  <2>3. CASE j > Len(a)
    <3>1. b[j] = row /\ a[i][2] <= n /\ a[i][2] \in Nat
      BY <2>1, <2>3, <1>2, <1>3, <1>4 DEF InOrder
    <3>2. QED
      BY <2>1, <3>1, <1>5
  <2>4. QED
    BY <2>2, <2>3, <1>2
<1>7. ASSUME NEW i \in 1 .. Len(a) + 1
      PROVE  b[i][1] = s /\ InvalidCount < b[i][2] /\ b[i][2] <= n + 1
  <2>1. CASE i <= Len(a)
    <3>1. b[i] = a[i] /\ i \in 1 .. Len(a)
      BY <2>1, <1>2, <1>3
    <3>2. a[i][1] = s /\ InvalidCount < a[i][2] /\ a[i][2] <= n /\ a[i][2] \in Nat
      BY <3>1, <1>2, <1>4 DEF InOrder
    <3>3. QED
      BY <3>1, <3>2
  <2>2. CASE i > Len(a)
    BY <2>2, <1>0, <1>2, <1>3, <1>5
  <2>3. QED
    BY <2>1, <2>2, <1>2
<1>8. QED
  BY <1>2, <1>6, <1>7 DEF InOrder, b, row

-----------------------------------------------------------------------------
(* How the threads move rows.  Cat stands for the concatenation where only  *)
(* its laws are needed.                                                     *)

Cat(a, b) == a \o b

LEMMA CatType ==
  ASSUME NEW a \in Seq(Rows), NEW b \in Seq(Rows)
  PROVE  Cat(a, b) \in Seq(Rows)
BY ConcatProperties DEF Cat

LEMMA CatAssoc ==
  ASSUME NEW a \in Seq(Rows), NEW b \in Seq(Rows), NEW c \in Seq(Rows)
  PROVE  Cat(Cat(a, b), c) = Cat(a, Cat(b, c))
BY ConcatAssociative DEF Cat

LEMMA CatEmpty ==
  /\ <<>> \in Seq(Rows)
  /\ \A a \in Seq(Rows) : Cat(a, <<>>) = a /\ Cat(<<>>, a) = a
BY ConcatEmptySeq, EmptySeq DEF Cat

\* What is in the buffers, the oldest row first.
Buffered(s) == burst \o held \o batch[s] \o queue \o inHand[s]

\* Six parts in a row: the first one, and all the others behind it.
PartsInOrder ==
  \A s \in Sessions :
    /\ Buffered(s) \in Seq(Rows) /\ Pipeline(s) \in Seq(Rows)
    /\ Pipeline(s) = delivered[s] \o Buffered(s)

\* The parts of the pipeline are sequences of rows; what was delivered comes
\* first, and behind it all that is in the buffers.
LEMMA PartsJoined == TypeOK => PartsInOrder
<1> SUFFICES ASSUME TypeOK, NEW s \in Sessions
             PROVE  /\ Buffered(s) \in Seq(Rows) /\ Pipeline(s) \in Seq(Rows)
                    /\ Pipeline(s) = delivered[s] \o Buffered(s)
  BY DEF PartsInOrder
<1>1. /\ burst \in Seq(Rows) /\ held \in Seq(Rows) /\ queue \in Seq(Rows)
      /\ batch[s] \in Seq(Rows) /\ inHand[s] \in Seq(Rows)
      /\ delivered[s] \in Seq(Rows)
  BY DEF TypeOK, PipeOK, ThreadsOK, HistOK
<1> DEFINE two == Cat(burst, held)
           three == Cat(two, batch[s])
           four == Cat(three, queue)
           five == Cat(four, inHand[s])
<1>2. /\ Buffered(s) = five
      /\ Pipeline(s) = Cat(Cat(Cat(Cat(Cat(delivered[s], burst), held), batch[s]),
                               queue), inHand[s])
  BY Zenon DEF Buffered, Pipeline, Cat
<1>3. two \in Seq(Rows) /\ three \in Seq(Rows) /\ four \in Seq(Rows) /\ five \in Seq(Rows)
  BY <1>1, CatType
<1>4. Cat(Cat(delivered[s], burst), held) = Cat(delivered[s], two)
  BY <1>1, CatAssoc
<1>5. Cat(Cat(delivered[s], two), batch[s]) = Cat(delivered[s], three)
  <2> HIDE DEF two
  <2>1. QED
    BY <1>1, <1>3, CatAssoc
<1>6. Cat(Cat(delivered[s], three), queue) = Cat(delivered[s], four)
  <2> HIDE DEF three
  <2>1. QED
    BY <1>1, <1>3, CatAssoc
<1>7. Cat(Cat(delivered[s], four), inHand[s]) = Cat(delivered[s], five)
  <2> HIDE DEF four
  <2>1. QED
    BY <1>1, <1>3, CatAssoc
<1>8. Pipeline(s) = Cat(delivered[s], five)
  BY <1>2, <1>4, <1>5, <1>6, <1>7
<1> HIDE DEF five
<1>9. Pipeline(s) \in Seq(Rows)
  BY <1>1, <1>3, <1>8, CatType
<1>10. QED
  BY <1>2, <1>3, <1>8, <1>9 DEF Cat

LEMMA PartsJoinedNext == (TypeOK => PartsInOrder)'
BY PartsJoined, PTL

LEMMA PipelineParts ==
  ASSUME TypeOK, NEW s \in Sessions
  PROVE  /\ burst \in Seq(Rows) /\ held \in Seq(Rows) /\ queue \in Seq(Rows)
         /\ batch[s] \in Seq(Rows) /\ inHand[s] \in Seq(Rows)
         /\ delivered[s] \in Seq(Rows)
         /\ Buffered(s) \in Seq(Rows) /\ Pipeline(s) \in Seq(Rows)
         /\ Pipeline(s) = delivered[s] \o Buffered(s)
<1>1. /\ burst \in Seq(Rows) /\ held \in Seq(Rows) /\ queue \in Seq(Rows)
      /\ batch[s] \in Seq(Rows) /\ inHand[s] \in Seq(Rows)
      /\ delivered[s] \in Seq(Rows)
  BY DEF TypeOK, PipeOK, ThreadsOK, HistOK
<1>2. QED
  BY <1>1, PartsJoined DEF PartsInOrder

\* A row read goes behind all the others; a row refused by the queue was the
\* last one; all other steps of the reader leave the pipeline as it is.
LEMMA ReaderMoves ==
  ASSUME StreamInv, NEW s \in Sessions, ReaderStep(s)
  PROVE  /\ s = session /\ <<"reader", s>> \in threads
         /\ UNCHANGED <<delivered, threads, call, session, adc, running, proc, batch>>
         /\ \/ /\ Buffered(s)' = Buffered(s) /\ lost' = lost
               /\ next' - (InvalidCount - skip') = next - (InvalidCount - skip)
               /\ next' >= next
            \/ /\ Buffered(s)' = Buffered(s) \o <<<<s, next + 1>>>> /\ lost' = lost
               /\ next' = next + 1 /\ skip = 0 /\ skip' = skip
            \/ /\ UNCHANGED <<next, skip>> /\ lost' = [lost EXCEPT ![s] = @ + 1]
               /\ \E row \in Rows : Buffered(s) = Buffered(s)' \o <<row>>
<1>0. TypeOK /\ LiveOwned
  BY DEF StreamInv, ControlInv, TypeInv
<1>1. s = session /\ <<"reader", s>> \in threads
  BY <1>0 DEF LiveOwned, ReaderLive, ReaderStep, ReaderCheck, SkipInvalid,
              ReadData, Push
<1>2. UNCHANGED <<delivered, threads, call, session, adc, running, proc, batch>>
  BY DEF ReaderStep, ReaderCheck, SkipInvalid, ReadData, Push, board, threadv,
         api, hist
<1>3. /\ burst \in Seq(Rows) /\ held \in Seq(Rows) /\ queue \in Seq(Rows)
      /\ batch[s] \in Seq(Rows) /\ inHand[s] \in Seq(Rows)
      /\ inHand \in [Sessions -> Seq(Rows)]
      /\ next \in Nat /\ skip \in 0 .. InvalidCount /\ InvalidCount \in Nat
  BY <1>0, PipelineParts, ConstantsAssumption
     DEF TypeOK, ThreadsOK, BoardOK, PipeOK
<1>4. CASE ReaderCheck(s)
  BY <1>1, <1>2, <1>3, <1>4
     DEF ReaderCheck, Buffered, board, pipe, hist
<1>5. CASE SkipInvalid(s)
  <2>1. Buffered(s)' = Buffered(s) /\ lost' = lost
    BY <1>5 DEF SkipInvalid, Buffered, threadv, hist
  <2>2. next' = next + 1 /\ skip' = skip - 1
    BY <1>5 DEF SkipInvalid
  <2>3. QED
    BY <1>1, <1>2, <1>3, <2>1, <2>2
<1> DEFINE front == Cat(Cat(burst, held), batch[s])
<1>6. /\ front \in Seq(Rows) /\ Buffered(s) = Cat(Cat(front, queue), inHand[s])
      /\ Buffered(s)' = Cat(Cat(front', queue'), inHand'[s])
  <2>1. front \in Seq(Rows)
    BY <1>3, CatType
  <2>2. /\ Buffered(s) = Cat(Cat(front, queue), inHand[s])
        /\ Buffered(s)' = Cat(Cat(front', queue'), inHand'[s])
    BY DEF Buffered, Cat
  <2>3. QED
    BY <2>1, <2>2
<1>7. CASE ReadData(s)
  <2>1. inHand[s] = <<>>
    BY <1>7 DEF StreamInv, HandsEmptied, ReadData
  <2>2. inHand'[s] = <<<<s, next + 1>>>> /\ UNCHANGED <<burst, held, batch, queue>>
    BY <1>3, <1>7 DEF ReadData, pipe
  <2>3. front' = front
    BY <2>2
  <2> HIDE DEF front
  <2>4. Cat(front, queue) \in Seq(Rows)
    BY <1>3, <1>6, CatType
  <2>5. Buffered(s) = Cat(front, queue)
    BY <1>6, <2>1, <2>4, CatEmpty
  <2>6. Buffered(s)' = Buffered(s) \o <<<<s, next + 1>>>>
    BY <1>6, <2>2, <2>3, <2>5 DEF Cat
  <2>7. lost' = lost /\ next' = next + 1 /\ skip = 0 /\ skip' = skip
    BY <1>7 DEF ReadData, pipe, hist
  <2>8. QED
    BY <1>1, <1>2, <2>6, <2>7
<1>8. CASE Push(s)
  <2>1. /\ inHand'[s] = <<>> /\ UNCHANGED <<burst, held, batch, next, skip>>
        /\ IF QueueAccepts
           THEN queue' = queue \o inHand[s] /\ lost' = lost
           ELSE queue' = queue /\ lost' = [lost EXCEPT ![s] = @ + 1]
    BY <1>3, <1>8 DEF Push, board, pipe
  <2>2. front' = front
    BY <2>1
  <2>3. Len(inHand[s]) = 1
    BY <1>8 DEF StreamInv, HandsEmptied, Push
  <2>4. PICK row \in Rows : inHand[s] = <<row>>
    <3>1. 1 \in 1 .. Len(inHand[s])
      BY <2>3
    <3>2. inHand[s][1] \in Rows
      BY <1>3, <3>1, ElementOfSeq
    <3>3. inHand[s] = <<inHand[s][1]>>
      BY <1>3, <2>3, <3>2, SeqEqual
    <3>4. QED
      BY <3>2, <3>3
  <2> HIDE DEF front
  <2>5. CASE QueueAccepts
    <3>1. queue' = Cat(queue, inHand[s]) /\ queue' \in Seq(Rows)
      <4>1. queue' = Cat(queue, inHand[s])
        BY <2>1, <2>5 DEF Cat
      <4>2. QED
        BY <1>3, <4>1, CatType
    <3>2. Buffered(s)' = Cat(Cat(front, queue'), <<>>)
      BY <1>6, <2>1, <2>2
    <3>3. Cat(front, queue') \in Seq(Rows)
      BY <1>6, <3>1, CatType
    <3>4. Buffered(s)' = Cat(front, queue')
      BY <3>2, <3>3, CatEmpty
    <3>5. Buffered(s) = Cat(front, Cat(queue, inHand[s]))
      BY <1>3, <1>6, CatAssoc
    <3>6. QED
      BY <1>1, <1>2, <1>3, <2>1, <2>5, <3>1, <3>4, <3>5
  <2>6. CASE ~QueueAccepts
    <3>1. Buffered(s)' = Cat(Cat(front, queue), <<>>)
      BY <1>6, <2>1, <2>2, <2>6
    <3>2. Cat(front, queue) \in Seq(Rows)
      BY <1>3, <1>6, CatType
    <3>3. Buffered(s)' = Cat(front, queue)
      BY <3>1, <3>2, CatEmpty
    <3>4. Buffered(s) = Buffered(s)' \o <<row>>
      BY <1>6, <2>4, <3>3 DEF Cat
    <3>5. QED
      BY <1>1, <1>2, <2>1, <2>6, <3>4
  <2>7. QED
    BY <2>5, <2>6
<1>9. QED
  BY <1>4, <1>5, <1>7, <1>8 DEF ReaderStep

\* The processing thread hands some rows from the front of the buffers to the
\* handler, or none; the rest stays in order.
LEMMA ProcessorMoves ==
  ASSUME StreamInv, NEW s \in Sessions, ProcessorStep(s)
  PROVE  /\ s = session
         /\ UNCHANGED <<lost, threads, call, session, adc, next, skip, running,
                        reader, inHand>>
         /\ \E rows \in Seq(Rows) :
              /\ delivered' = [delivered EXCEPT ![s] = @ \o rows]
              /\ Buffered(s) = rows \o Buffered(s)'
              /\ rows # <<>> => Len(rows) >= burstSize \/ ~running
<1>0. TypeOK /\ LiveOwned
  BY DEF StreamInv, ControlInv, TypeInv
<1>1. s = session
  BY <1>0 DEF LiveOwned, ProcLive, ProcessorStep, Pop, FetchErrors, Process,
              Flush, HandlerReturns
<1>2. UNCHANGED <<lost, threads, call, session, adc, next, skip, running,
                  reader, inHand>>
  BY DEF ProcessorStep, Pop, FetchErrors, Process, Flush, HandlerReturns,
         CallHandler, board, pipe, api, hist
<1>3. /\ burst \in Seq(Rows) /\ held \in Seq(Rows) /\ queue \in Seq(Rows)
      /\ batch[s] \in Seq(Rows) /\ inHand[s] \in Seq(Rows)
      /\ delivered[s] \in Seq(Rows)
      /\ batch \in [Sessions -> Seq(Rows)]
      /\ delivered \in [Sessions -> Seq(Rows)]
      /\ hold \in Nat /\ burstSize \in Nat
  BY <1>0, PipelineParts, ConstantsAssumption
     DEF TypeOK, ThreadsOK, PipeOK, HistOK, DriverOK
<1> DEFINE Handed(rows) ==
             /\ delivered' = [delivered EXCEPT ![s] = @ \o rows]
             /\ Buffered(s) = Cat(rows, Buffered(s)')
             /\ rows # <<>> => Len(rows) >= burstSize \/ ~running
<1>4. (\E rows \in Seq(Rows) : Handed(rows)) =>
        \E rows \in Seq(Rows) :
          /\ delivered' = [delivered EXCEPT ![s] = @ \o rows]
          /\ Buffered(s) = rows \o Buffered(s)'
          /\ rows # <<>> => Len(rows) >= burstSize \/ ~running
  BY DEF Cat
<1>5. ASSUME delivered' = delivered, Buffered(s)' = Buffered(s)
      PROVE  \E rows \in Seq(Rows) : Handed(rows)
  <2>1. Buffered(s) = Cat(<<>>, Buffered(s)) /\ <<>> \in Seq(Rows)
    BY <1>0, PipelineParts, CatEmpty
  <2>2. delivered[s] \o <<>> = delivered[s]
    BY <1>3, ConcatEmptySeq
  <2>3. delivered' = [delivered EXCEPT ![s] = @ \o <<>>]
    BY <1>3, <1>5, <2>2
  <2>4. Handed(<<>>)
    BY <1>5, <2>1, <2>3
  <2> HIDE DEF Handed
  <2>5. QED
    BY <2>1, <2>4
<1>p. /\ Buffered(s) = Cat(Cat(Cat(Cat(burst, held), batch[s]), queue), inHand[s])
      /\ Buffered(s)' = Cat(Cat(Cat(Cat(burst', held'), batch'[s]), queue'), inHand'[s])
  BY DEF Buffered, Cat
<1>6. CASE Pop(s)
  <2> HIDE DEF Handed
  <2>1. UNCHANGED <<burst, held, delivered, inHand>>
    BY <1>6 DEF Pop, hist
  <2>2. CASE running
    <3> DEFINE n == Least(PopLimit, Len(queue))
    <3>1. n \in 0 .. Len(queue)
      BY <1>3, ConstantsAssumption, LenProperties DEF Least
    <3>2. batch'[s] = Prefix(queue, n) /\ queue' = Suffix(queue, n)
      BY <1>3, <1>6, <2>2 DEF Pop
    <3> HIDE DEF n
    <3>3. batch'[s] \in Seq(Rows) /\ queue' \in Seq(Rows)
      BY <1>3, <3>1, <3>2, PrefixSuffix
    <3>4. Cat(batch'[s], queue') = queue
      BY <1>3, <3>1, <3>2, CutAndJoined DEF Cat
    <3>5. batch[s] = <<>>
      BY <1>6 DEF StreamInv, BatchesEmptied, Pop
    <3> DEFINE front == Cat(burst, held)
    <3>6. front \in Seq(Rows) /\ Cat(front, <<>>) = front
      BY <1>3, CatType, CatEmpty
    <3>a. /\ Buffered(s) = Cat(Cat(front, queue), inHand[s])
          /\ Buffered(s)' = Cat(Cat(Cat(front, batch'[s]), queue'), inHand[s])
      BY <1>p, <2>1, <3>5, <3>6
    <3> HIDE DEF front
    <3>b. Cat(Cat(front, batch'[s]), queue') = Cat(front, queue)
      BY <3>3, <3>4, <3>6, CatAssoc
    <3>c. Buffered(s)' = Buffered(s)
      BY <3>a, <3>b
    <3>7. QED
      BY <1>1, <1>2, <1>4, <1>5, <2>1, <3>c
  <2>3. CASE ~running
    <3>1. Buffered(s)' = Buffered(s)
      BY <1>6, <2>1, <2>3 DEF Pop, Buffered
    <3>2. QED
      BY <1>1, <1>2, <1>4, <1>5, <2>1, <3>1
  <2>4. QED
    BY <1>1, <1>2, <1>4, <2>2, <2>3
<1>7. CASE FetchErrors(s) \/ HandlerReturns(s)
  <2>1. Buffered(s)' = Buffered(s) /\ delivered' = delivered
    BY <1>7 DEF FetchErrors, HandlerReturns, Buffered, pipe, hist
  <2>2. QED
    BY <1>1, <1>2, <1>4, <1>5, <2>1
<1>8. CASE Process(s)
  <2> DEFINE out == Resampled(s).out
             keep == Resampled(s).keep
  <2>1. out \in Seq(Rows) /\ keep \in Seq(Rows)
    BY <1>0, ResampledType
  <2>2. Cat(out, keep) = Cat(held, batch[s])
    <3> DEFINE rows == held \o batch[s]
               n == IF Len(rows) > hold THEN Len(rows) - hold ELSE 0
    <3>1. rows \in Seq(Rows) /\ Len(rows) \in Nat
      BY <1>3, Chains
    <3>2. n \in 0 .. Len(rows)
      BY <1>3, <3>1
    <3>3. out = Prefix(rows, n) /\ keep = Suffix(rows, n)
      BY DEF Resampled
    <3> HIDE DEF rows, n
    <3>4. out \o keep = rows
      BY <3>1, <3>2, <3>3, CutAndJoined
    <3>5. QED
      BY <3>4 DEF rows, Cat
  <2>3. /\ held' = keep /\ batch'[s] = <<>> /\ UNCHANGED <<queue, inHand>>
        /\ \/ /\ burst' = Cat(burst, out) /\ delivered' = delivered
           \/ /\ Len(Cat(burst, out)) >= burstSize
              /\ burst' = <<>>
              /\ delivered' = [delivered EXCEPT ![s] = @ \o Cat(burst, out)]
           \/ /\ burst = <<>> /\ ~(Len(out) < burstSize)
              /\ burst' = burst
              /\ delivered' = [delivered EXCEPT ![s] = @ \o out]
    BY <1>3, <1>8 DEF Process, CallHandler, BurstFull, ThroughBurst, hist, Cat
  <2> HIDE DEF out, keep
  <2>4. Buffered(s) = Cat(Cat(burst, out), Cat(Cat(keep, queue), inHand[s]))
    <3>1. Cat(Cat(burst, held), batch[s]) = Cat(Cat(burst, out), keep)
      BY <1>3, <2>1, <2>2, CatAssoc
    <3>2. Cat(burst, out) \in Seq(Rows)
      BY <1>3, <2>1, CatType
    <3> DEFINE front == Cat(burst, out)
    <3>3. Buffered(s) = Cat(Cat(Cat(front, keep), queue), inHand[s])
      BY <1>p, <3>1
    <3> HIDE DEF front
    <3>4. front \in Seq(Rows) /\ Cat(keep, queue) \in Seq(Rows)
      BY <1>3, <2>1, <3>2, CatType DEF front
    <3>5. Cat(Cat(front, keep), queue) = Cat(front, Cat(keep, queue))
      BY <1>3, <2>1, <3>4, CatAssoc
    <3>6. Cat(Cat(front, Cat(keep, queue)), inHand[s])
            = Cat(front, Cat(Cat(keep, queue), inHand[s]))
      <4> DEFINE k == Cat(keep, queue)
      <4> HIDE DEF k
      <4>1. k \in Seq(Rows)
        BY <3>4 DEF k
      <4>2. Cat(Cat(front, k), inHand[s]) = Cat(front, Cat(k, inHand[s]))
        BY <1>3, <3>4, <4>1, CatAssoc
      <4>3. QED
        BY <4>2 DEF k
    <3>7. QED
      BY <3>3, <3>5, <3>6 DEF front
  <2>5. Cat(burst, out) \in Seq(Rows) /\ Cat(Cat(keep, queue), inHand[s]) \in Seq(Rows)
    BY <1>3, <2>1, CatType
  <2>6. burst' \in Seq(Rows)
    BY <1>3, <2>3, <2>5, CatEmpty
  <2>7. Buffered(s)' = Cat(burst', Cat(Cat(keep, queue), inHand[s]))
    <3>1. Buffered(s)' = Cat(Cat(Cat(Cat(burst', keep), <<>>), queue), inHand[s])
      BY <1>p, <2>3
    <3>2. Cat(burst', keep) \in Seq(Rows) /\ Cat(keep, queue) \in Seq(Rows)
      BY <1>3, <2>1, <2>6, CatType
    <3>3. Cat(Cat(burst', keep), <<>>) = Cat(burst', keep)
      BY <3>2, CatEmpty
    <3>4. Cat(Cat(burst', keep), queue) = Cat(burst', Cat(keep, queue))
      BY <1>3, <2>1, <2>6, CatAssoc
    <3> DEFINE k == Cat(keep, queue)
    <3> HIDE DEF k
    <3>5. Cat(Cat(burst', k), inHand[s]) = Cat(burst', Cat(k, inHand[s]))
      BY <1>3, <2>6, <3>2, CatAssoc DEF k
    <3>6. QED
      BY <3>1, <3>3, <3>4, <3>5 DEF k
  <2>8. CASE burst' = Cat(burst, out) /\ delivered' = delivered
    BY <1>1, <1>2, <1>4, <1>5, <2>4, <2>7, <2>8
  <2>9. CASE /\ Len(Cat(burst, out)) >= burstSize /\ burst' = <<>>
             /\ delivered' = [delivered EXCEPT ![s] = @ \o Cat(burst, out)]
    <3>1. Buffered(s)' = Cat(Cat(keep, queue), inHand[s])
      BY <2>5, <2>7, <2>9, CatEmpty
    <3>2. Handed(Cat(burst, out))
      BY <2>4, <2>9, <3>1
    <3> HIDE DEF Handed
    <3>3. QED
      BY <1>1, <1>2, <1>4, <2>5, <3>2
  <2>10. CASE /\ burst = <<>> /\ ~(Len(out) < burstSize) /\ burst' = burst
              /\ delivered' = [delivered EXCEPT ![s] = @ \o out]
    <3>1. Cat(burst, out) = out
      BY <2>1, <2>10, CatEmpty
    <3>2. Buffered(s)' = Cat(Cat(keep, queue), inHand[s])
      BY <2>5, <2>7, <2>10, CatEmpty
    <3>3. Len(out) >= burstSize
      BY <1>3, <2>1, <2>10, LenProperties
    <3>4. Handed(out)
      BY <2>4, <2>10, <3>1, <3>2, <3>3
    <3> HIDE DEF Handed
    <3>5. QED
      BY <1>1, <1>2, <1>4, <2>1, <3>4
  <2>11. QED
    BY <2>3, <2>8, <2>9, <2>10
<1>9. CASE Flush(s)
  <2>1. batch[s] = <<>> /\ ~running
    BY <1>9 DEF StreamInv, BatchesEmptied, FlushWhenStopped, Flush
  <2>2. /\ held' = <<>> /\ burst' = <<>> /\ UNCHANGED <<queue, inHand, batch>>
        /\ \/ delivered' = [delivered EXCEPT ![s] = @ \o Cat(burst, held)]
           \/ Cat(burst, held) = <<>> /\ delivered' = delivered
    BY <1>9 DEF Flush, Remainder, CallHandler, hist, Cat
  <2>3. Cat(burst, held) \in Seq(Rows) /\ Cat(queue, inHand[s]) \in Seq(Rows)
    BY <1>3, CatType
  <2>4. Buffered(s)' = Cat(queue, inHand[s])
    <3>1. Buffered(s)' = Cat(Cat(Cat(Cat(<<>>, <<>>), <<>>), queue), inHand[s])
      BY <1>p, <2>1, <2>2
    <3>2. QED
      BY <1>3, <3>1, CatEmpty
  <2>5. Buffered(s) = Cat(Cat(burst, held), Buffered(s)')
    <3> DEFINE front == Cat(burst, held)
    <3>1. Buffered(s) = Cat(Cat(Cat(front, <<>>), queue), inHand[s])
      BY <1>p, <2>1
    <3> HIDE DEF front
    <3>2. front \in Seq(Rows) /\ Cat(front, <<>>) = front
      BY <2>3, CatEmpty DEF front
    <3>3. Cat(Cat(front, queue), inHand[s]) = Cat(front, Cat(queue, inHand[s]))
      BY <1>3, <3>2, CatAssoc
    <3>4. QED
      BY <2>4, <3>1, <3>2, <3>3 DEF front
  <2>6. delivered' = [delivered EXCEPT ![s] = @ \o Cat(burst, held)]
    <3>1. CASE Cat(burst, held) = <<>> /\ delivered' = delivered
      <4>1. delivered[s] \o <<>> = delivered[s]
        BY <1>3, ConcatEmptySeq
      <4>2. QED
        BY <1>3, <3>1, <4>1
    <3>2. QED
      BY <2>2, <3>1
  <2>7. Handed(Cat(burst, held))
    BY <2>1, <2>5, <2>6
  <2> HIDE DEF Handed
  <2>8. QED
    BY <1>1, <1>2, <1>4, <2>3, <2>7
<1>10. QED
  BY <1>6, <1>7, <1>8, <1>9 DEF ProcessorStep

-----------------------------------------------------------------------------
(* The invariant holds in every state, while the firmware does not restart  *)
(* and no handler stops the measurement.                                    *)

\* Without threads nothing is in the hands of one, nor in the buffers that
\* the processing thread owns.
LEMMA NothingBuffered ==
  ASSUME StreamInv, \A s \in Sessions : ~ReaderLive(s) /\ ~ProcLive(s),
         NEW s \in Sessions
  PROVE  /\ burst = <<>> /\ held = <<>> /\ batch[s] = <<>> /\ inHand[s] = <<>>
         /\ Buffered(s) = queue
<1>1. /\ burst = <<>> /\ held = <<>> /\ batch[s] = <<>> /\ inHand[s] = <<>>
  BY DEF StreamInv, ControlInv, BuffersOwned, HandsEmptied, BatchesEmptied,
         ReaderLive, ProcLive
<1>2. queue \in Seq(Rows)
  BY DEF StreamInv, ControlInv, TypeInv, TypeOK, PipeOK
<1>3. Buffered(s) = Cat(Cat(Cat(Cat(<<>>, <<>>), <<>>), queue), <<>>)
  BY <1>1 DEF Buffered, Cat
<1>4. QED
  BY <1>1, <1>2, <1>3, CatEmpty

\* What a step leaves alone.
LEMMA FlowKept ==
  ASSUME StreamInv,
         UNCHANGED <<burst, held, batch, queue, inHand, delivered, lost, next,
                     skip, session>>,
         \A s \in Sessions : <<"reader", s>> \in threads' => <<"reader", s>> \in threads
  PROVE  AllInOrder' /\ AllCounted'
<1>1. \A s \in Sessions : Pipeline(s)' = Pipeline(s)
  BY DEF Pipeline
<1>2. AllInOrder'
  BY <1>1 DEF StreamInv, AllInOrder, InOrder
<1>3. AllCounted'
  BY <1>1 DEF StreamInv, AllCounted
<1>4. QED
  BY <1>2, <1>3

LEMMA StreamInit == Init => StreamInv
<1> SUFFICES ASSUME Init PROVE StreamInv
  OBVIOUS
<1>1. ControlInv
  BY ControlInit
<1>2. ThreadsCurrent /\ NotRunYet /\ CountRestarted
  BY DEF Init, ThreadsCurrent, NotRunYet, CountRestarted, Idle
<1>3. HandsEmptied /\ BatchesEmptied /\ FlushWhenStopped
  BY DEF Init, HandsEmptied, BatchesEmptied, FlushWhenStopped
<1>4. AllInOrder
  <2>1. \A s \in Sessions : delivered[s] = <<>> /\ s # session
    BY DEF Init, Sessions
  <2>2. DOMAIN <<>> = {}
    OBVIOUS
  <2>3. QED
    BY <2>1, <2>2 DEF AllInOrder, Increasing
<1>5. AllCounted
  BY DEF Init, AllCounted
<1>6. QED
  BY <1>1, <1>2, <1>3, <1>4, <1>5 DEF StreamInv

\* The calls of the API: only the join throws records away, and only when
\* every thread has ended; a session begins with nothing on its way.
LEMMA StreamCalls ==
  ASSUME MaxResets = 0, HandlerStops = FALSE,
         StreamInv, ClientStep \/ CallStep \/ BoardRestart
  PROVE  StreamInv'
<1>0. /\ ControlInv /\ ThreadsCurrent /\ NotRunYet /\ CountRestarted
      /\ HandsEmptied /\ BatchesEmptied /\ FlushWhenStopped
      /\ AllInOrder /\ AllCounted
      /\ ThreadsWhileOn /\ OnDuringCalls /\ QueueReset /\ LiveOwned /\ SessionNumbered
  BY DEF StreamInv, ControlInv, TypeInv
<1>c. ControlInv'
  BY <1>0, ControlCalls
<1>g. \A step : Goto(step) => call'.at = step
  BY <1>0 DEF Goto, ControlInv, TypeInv, TypeOK, ApiOK
<1>r. \A result : Return(result) => call'.at = "idle"
  BY DEF Return, Idle
<1>n. threads = {} => \A s \in Sessions : ~ReaderLive(s) /\ ~ProcLive(s)
  BY <1>0, NoThreadsNoneLive
<1> USE DEF At, threadv, hist, pipe, api, board
<1>1. CASE BoardRestart
  <2>1. resets \in Nat /\ resets < 0
    BY <1>0, <1>1 DEF BoardRestart, ControlInv, TypeInv, TypeOK, BoardOK
  <2>2. QED
    BY <2>1
<1>2. CASE \/ AskBoard \/ (\E size \in BurstSizes : SetDriverSettings(size))
           \/ StartRefused
  <2>1. UNCHANGED <<board, running, threads, pipe, threadv, call, session, hist>>
    BY <1>2 DEF AskBoard, SetDriverSettings, StartRefused
  <2>2. ThreadsCurrent' /\ NotRunYet' /\ CountRestarted'
    BY <1>0, <2>1 DEF ThreadsCurrent, NotRunYet, CountRestarted
  <2>3. HandsEmptied' /\ BatchesEmptied' /\ FlushWhenStopped'
    BY <1>0, <2>1 DEF HandsEmptied, BatchesEmptied, FlushWhenStopped
  <2>4. AllInOrder' /\ AllCounted'
    BY <2>1, FlowKept
  <2>5. QED
    BY <1>c, <2>2, <2>3, <2>4 DEF StreamInv
<1>3. CASE \/ StartCheck \/ (\E by \in {App} \cup Sessions : StopCheck(by))
           \/ SpawnFailed \/ StopSignal
  <2>1. /\ UNCHANGED <<adc, next, skip, queue, burst, held, threads, threadv,
                       session, hist>>
        /\ running' = running \/ running' = FALSE
    BY <1>3 DEF StartCheck, StopCheck, SpawnFailed, StopSignal
  <2>2. \/ call'.at = "prepare" /\ ~adc
        \/ call'.at \in {"signal", "idle", "unwind", "join"}
    BY <1>3, <1>g DEF StartCheck, StopCheck, SpawnFailed, StopSignal, Begin
  <2>3. ThreadsCurrent' /\ NotRunYet' /\ CountRestarted'
    BY <1>0, <2>1, <2>2 DEF ThreadsCurrent, NotRunYet, CountRestarted
  <2>a. HandsEmptied' /\ BatchesEmptied'
    BY <1>0, <2>1 DEF HandsEmptied, BatchesEmptied
  <2>4. FlushWhenStopped'
    <3>1. proc' = proc /\ (running' => running)
      BY <2>1
    <3>2. QED
      BY <1>0, <3>1 DEF FlushWhenStopped
  <2>5. AllInOrder' /\ AllCounted'
    BY <2>1, FlowKept
  <2>6. QED
    BY <1>c, <2>3, <2>a, <2>4, <2>5 DEF StreamInv
<1>4. CASE StartPrepare
  <2> USE <1>4 DEF StartPrepare
  <2>1. threads = {} /\ queue = <<>> /\ call'.at = "enable"
    BY <1>0, <1>g DEF ThreadsWhileOn, QueueReset, SpawnedAt, ResetAt
  <2>2. session \in Nat /\ session' = session + 1
    BY <1>0 DEF ControlInv, TypeInv, TypeOK, ApiOK
  <2>3. ThreadsCurrent' /\ CountRestarted'
    BY <1>0, <2>1, <2>2 DEF ThreadsCurrent, CountRestarted
  <2>4. NotRunYet'
    BY <1>0, <2>1, <2>2 DEF NotRunYet, Sessions
  <2>5. HandsEmptied' /\ BatchesEmptied' /\ FlushWhenStopped'
    BY <1>0 DEF HandsEmptied, BatchesEmptied, FlushWhenStopped
  <2>6. AllInOrder'
    <3>1. ASSUME NEW s \in Sessions, s = session'
          PROVE  InOrder(s, Pipeline(s), next)'
      <4>1. delivered'[s] = <<>>
        BY <1>0, <2>2, <3>1 DEF NotRunYet, Sessions
      <4>2. /\ burst' = <<>> /\ held' = <<>> /\ batch'[s] = <<>> /\ inHand'[s] = <<>>
            /\ queue' = <<>>
        BY <1>n, <2>1, NothingBuffered
      <4>3. Pipeline(s)' = Cat(Cat(Cat(Cat(Cat(<<>>, <<>>), <<>>), <<>>), <<>>), <<>>)
        BY <4>1, <4>2 DEF Pipeline, Cat
      <4>4. Pipeline(s)' = <<>>
        BY <4>3, CatEmpty
      <4>5. DOMAIN <<>> = {}
        OBVIOUS
      <4>6. QED
        BY <4>4, <4>5 DEF InOrder, Increasing
    <3>2. QED
      BY <1>0, <3>1 DEF AllInOrder
  <2>7. AllCounted'
    BY <2>1 DEF AllCounted
  <2>8. QED
    BY <1>c, <2>3, <2>4, <2>5, <2>6, <2>7 DEF StreamInv
<1>5. CASE StartEnable
  <2> USE <1>5 DEF StartEnable
  <2>1. threads = {} /\ queue = <<>> /\ call'.at \in {"flags", "idle"}
    BY <1>0, <1>g, <1>r DEF ThreadsWhileOn, QueueReset, SpawnedAt, ResetAt
  <2>2. session \in Sessions /\ session' = session /\ session # 0
    BY <1>0 DEF SessionNumbered, Sessions
  <2>3. call'.at = "flags" => next' = 0
    <3>1. call'.at = "flags" => SetAdcAnswered(TRUE)
      BY <1>r
    <3>2. ~adc
      BY <1>0 DEF CountRestarted
    <3>3. QED
      BY <3>1, <3>2 DEF SetAdcAnswered, AdcBecomes
  <2>4. ThreadsCurrent' /\ CountRestarted'
    BY <1>0, <2>1, <2>2, <2>3 DEF ThreadsCurrent, CountRestarted
  <2>5. NotRunYet'
    BY <1>0, <2>1 DEF NotRunYet
  <2>6. HandsEmptied' /\ BatchesEmptied' /\ FlushWhenStopped'
    BY <1>0 DEF HandsEmptied, BatchesEmptied, FlushWhenStopped
  <2>7. AllInOrder'
    <3>1. ASSUME NEW s \in Sessions, s = session
          PROVE  InOrder(s, Pipeline(s), next)'
      <4>1. delivered'[s] = <<>>
        BY <1>0, <3>1 DEF NotRunYet, Sessions
      <4>2. /\ burst' = <<>> /\ held' = <<>> /\ batch'[s] = <<>> /\ inHand'[s] = <<>>
            /\ queue' = <<>>
        BY <1>n, <2>1, NothingBuffered
      <4>3. Pipeline(s)' = Cat(Cat(Cat(Cat(Cat(<<>>, <<>>), <<>>), <<>>), <<>>), <<>>)
        BY <4>1, <4>2 DEF Pipeline, Cat
      <4>4. Pipeline(s)' = <<>>
        BY <4>3, CatEmpty
      <4>5. DOMAIN <<>> = {}
        OBVIOUS
      <4>6. QED
        BY <4>4, <4>5 DEF InOrder, Increasing
    <3>2. QED
      BY <1>0, <3>1 DEF AllInOrder
  <2>8. AllCounted'
    BY <2>1 DEF AllCounted
  <2>9. QED
    BY <1>c, <2>4, <2>5, <2>6, <2>7, <2>8 DEF StreamInv
<1>6. CASE StartFlags
  <2> USE <1>6 DEF StartFlags
  <2>1. threads = {} /\ call'.at = "spawnReader"
    BY <1>0, <1>g DEF ThreadsWhileOn, SpawnedAt
  <2>2. ThreadsCurrent' /\ CountRestarted' /\ NotRunYet'
    BY <1>0, <2>1 DEF ThreadsCurrent, CountRestarted, NotRunYet
  <2>3. HandsEmptied' /\ BatchesEmptied'
    BY <1>0 DEF HandsEmptied, BatchesEmptied
  <2>4. FlushWhenStopped'
    BY <1>n, <2>1 DEF FlushWhenStopped, ProcLive
  <2>5. AllInOrder' /\ AllCounted'
    BY FlowKept
  <2>6. QED
    BY <1>c, <2>2, <2>3, <2>4, <2>5 DEF StreamInv
<1>7. CASE SpawnReader
  <2> USE <1>7 DEF SpawnReader
  <2>1. /\ threads = {} /\ call'.at = "spawnProcessor"
        /\ queue = <<>> /\ skip = InvalidCount /\ next = 0
        /\ session \in Sessions
    BY <1>0, <1>g DEF ThreadsWhileOn, SpawnedAt, QueueReset, ResetAt,
                      CountRestarted, SessionNumbered
  <2>2. ThreadsCurrent' /\ CountRestarted' /\ NotRunYet'
    BY <1>0, <2>1 DEF ThreadsCurrent, CountRestarted, NotRunYet
  <2>3. HandsEmptied' /\ BatchesEmptied' /\ FlushWhenStopped'
    <3>1. inHand[session] = <<>>
      BY <1>n, <2>1, NothingBuffered
    <3>2. QED
      BY <1>0, <3>1 DEF HandsEmptied, BatchesEmptied, FlushWhenStopped,
                        ControlInv, TypeInv, TypeOK, ThreadsOK
  <2>4. Pipeline(session) = <<>> /\ \A s \in Sessions : Pipeline(s)' = Pipeline(s)
    <3>1. delivered[session] = <<>>
      BY <1>0, <2>1 DEF NotRunYet
    <3>2. /\ burst = <<>> /\ held = <<>> /\ batch[session] = <<>>
          /\ inHand[session] = <<>>
      BY <1>n, <2>1, NothingBuffered
    <3>3. Pipeline(session) = Cat(Cat(Cat(Cat(Cat(<<>>, <<>>), <<>>), <<>>), <<>>), <<>>)
      BY <2>1, <3>1, <3>2 DEF Pipeline, Cat
    <3>4. QED
      BY <3>3, CatEmpty DEF Pipeline
  <2>5. AllInOrder'
    BY <1>0, <2>4 DEF AllInOrder, InOrder
  <2>6. AllCounted'
    <3>1. lost[session] = 0 /\ InvalidCount \in Nat
      BY <1>0, <2>1, ConstantsAssumption DEF NotRunYet
    <3>2. Len(Pipeline(session)) + lost[session] = next - (InvalidCount - skip)
      BY <2>1, <2>4, <3>1
    <3>3. QED
      BY <2>1, <2>4, <3>2 DEF AllCounted
  <2>7. QED
    BY <1>c, <2>2, <2>3, <2>5, <2>6 DEF StreamInv
<1>8. CASE SpawnProcessor
  <2> USE <1>8 DEF SpawnProcessor
  <2>1. call'.at = "idle" /\ session \in Sessions
    BY <1>0, <1>r DEF SessionNumbered
  <2>2. ThreadsCurrent' /\ CountRestarted' /\ NotRunYet'
    BY <1>0, <2>1 DEF ThreadsCurrent, CountRestarted, NotRunYet
  <2>3. HandsEmptied'
    BY <1>0 DEF HandsEmptied
  <2>4. BatchesEmptied' /\ FlushWhenStopped'
    <3>1. proc' = [proc EXCEPT ![session] = "poll"] /\ UNCHANGED <<batch, running>>
      OBVIOUS
    <3>2. ~ProcLive(session)
      <4>1. <<"processor", session>> \notin threads
        BY <1>0 DEF ThreadsCurrent
      <4>2. QED
        BY <1>0, <2>1, <4>1 DEF LiveOwned
    <3>3. proc \in [Sessions -> ProcSteps]
      BY <1>0 DEF ControlInv, TypeInv, TypeOK, ThreadsOK
    <3>4. QED
      BY <1>0, <2>1, <3>1, <3>2, <3>3 DEF BatchesEmptied, FlushWhenStopped, ProcLive
  <2>5. AllInOrder' /\ AllCounted'
    BY FlowKept
  <2>6. QED
    BY <1>c, <2>2, <2>3, <2>4, <2>5 DEF StreamInv
<1>9. CASE Unwind
  <2> USE <1>9 DEF Unwind
  <2>1. threads' = {} /\ call'.at = "idle"
    BY <1>0, <1>r, JoinedMeansDead
  <2>2. ThreadsCurrent' /\ CountRestarted' /\ NotRunYet'
    BY <1>0, <2>1 DEF ThreadsCurrent, CountRestarted, NotRunYet
  <2>3. HandsEmptied' /\ BatchesEmptied' /\ FlushWhenStopped'
    BY <1>0 DEF HandsEmptied, BatchesEmptied, FlushWhenStopped
  <2>4. AllInOrder' /\ AllCounted'
    BY <2>1, FlowKept
  <2>5. QED
    BY <1>c, <2>2, <2>3, <2>4 DEF StreamInv
<1>10. CASE StopJoin
  <2> USE <1>10 DEF StopJoin, Drained, SkipReset
  <2>1. threads' = {} /\ \A s \in Sessions : ~ReaderLive(s) /\ ~ProcLive(s)
    BY <1>0, JoinedMeansDead
  <2>2. call'.at = "disable"
    BY <1>g
  <2>3. ThreadsCurrent' /\ CountRestarted' /\ NotRunYet'
    BY <1>0, <2>1, <2>2 DEF ThreadsCurrent, CountRestarted, NotRunYet
  <2>4. HandsEmptied' /\ BatchesEmptied' /\ FlushWhenStopped'
    BY <1>0 DEF HandsEmptied, BatchesEmptied, FlushWhenStopped
  <2>5. AllInOrder'
    <3>1. ASSUME NEW s \in Sessions, s = session
          PROVE  InOrder(s, Pipeline(s), next)'
      <4>1. /\ burst = <<>> /\ held = <<>> /\ batch[s] = <<>> /\ inHand[s] = <<>>
            /\ Buffered(s) = queue
        BY <2>1, NothingBuffered
      <4>a. TypeOK
        BY <1>0 DEF ControlInv, TypeInv
      <4>b. next \in Int
        BY <4>a DEF TypeOK, BoardOK
      <4>2. delivered[s] \in Seq(Rows) /\ queue \in Seq(Rows)
            /\ Pipeline(s) = delivered[s] \o queue
        BY <4>1, <4>a, PipelineParts
      <4>3. InOrder(s, delivered[s], next)
        <5>1. InOrder(s, delivered[s] \o queue, next)
          BY <1>0, <3>1, <4>2 DEF AllInOrder
        <5>2. QED
          BY <4>2, <4>b, <5>1, FirstPart
      <4>4. Pipeline(s)' = Cat(Cat(Cat(Cat(Cat(delivered[s], <<>>), <<>>), <<>>), <<>>), <<>>)
        BY <4>1 DEF Pipeline, Cat
      <4>5. Pipeline(s)' = delivered[s]
        BY <4>2, <4>4, CatEmpty
      <4>6. QED
        BY <4>3, <4>5 DEF InOrder
    <3>2. QED
      BY <1>0, <3>1 DEF AllInOrder
  <2>6. AllCounted'
    BY <2>1 DEF AllCounted
  <2>7. QED
    BY <1>c, <2>3, <2>4, <2>5, <2>6 DEF StreamInv
<1>11. CASE StopDisable
  <2> USE <1>11 DEF StopDisable
  <2>1. call'.at = "idle" /\ (adc' => adc) /\ next' = next
    BY <1>r DEF SetAdcAnswered, SetAdcFailed, AdcBecomes
  <2>2. ThreadsCurrent' /\ CountRestarted' /\ NotRunYet'
    BY <1>0, <2>1 DEF ThreadsCurrent, CountRestarted, NotRunYet
  <2>3. HandsEmptied' /\ BatchesEmptied' /\ FlushWhenStopped'
    BY <1>0 DEF HandsEmptied, BatchesEmptied, FlushWhenStopped
  <2>4. AllInOrder' /\ AllCounted'
    BY <2>1, FlowKept
  <2>5. QED
    BY <1>c, <2>2, <2>3, <2>4 DEF StreamInv
<1>12. QED
  BY <1>1, <1>2, <1>3, <1>4, <1>5, <1>6, <1>7, <1>8, <1>9, <1>10, <1>11
     DEF ClientStep, CallStep

\* The steps of the two threads.  While one of them lives no call is at a step
\* that needs the pipeline empty, and the board is counting.
LEMMA StreamThreads ==
  ASSUME StreamInv, NEW s \in Sessions, ReaderStep(s) \/ ProcessorStep(s)
  PROVE  StreamInv'
<1>0. /\ ControlInv /\ ThreadsCurrent /\ NotRunYet /\ CountRestarted
      /\ HandsEmptied /\ BatchesEmptied /\ FlushWhenStopped
      /\ AllInOrder /\ AllCounted
      /\ ThreadsWhileOn /\ LiveOwned /\ TypeOK
  BY DEF StreamInv, ControlInv, TypeInv
<1>c. ControlInv'
  BY <1>0, ControlThreads
<1>t. TypeOK'
  BY <1>c DEF ControlInv, TypeInv
<1>p. /\ reader \in [Sessions -> ReaderSteps] /\ proc \in [Sessions -> ProcSteps]
      /\ inHand \in [Sessions -> Seq(Rows)] /\ batch \in [Sessions -> Seq(Rows)]
      /\ lost \in [Sessions -> Nat] /\ delivered \in [Sessions -> Seq(Rows)]
      /\ next \in Nat /\ next' \in Nat
      /\ skip \in 0 .. InvalidCount /\ skip' \in 0 .. InvalidCount /\ InvalidCount \in Nat
  BY <1>0, <1>t, ConstantsAssumption DEF TypeOK, ThreadsOK, HistOK, BoardOK, PipeOK
<1>l. s = session /\ adc /\ call.at \in SpawnedAt
  BY <1>0 DEF ReaderStep, ProcessorStep, ReaderCheck, SkipInvalid, ReadData, Push,
              Pop, FetchErrors, Process, Flush, HandlerReturns, ReaderLive, ProcLive,
              LiveOwned, ThreadsWhileOn
<1>u. UNCHANGED <<threads, call, session, adc, running>>
  BY ReaderMoves, ProcessorMoves
<1>1. ThreadsCurrent' /\ CountRestarted'
  <2>1. ThreadsCurrent'
    BY <1>0, <1>u DEF ThreadsCurrent
  <2>2. call.at \notin {"prepare", "enable", "flags", "spawnReader"} /\ session # 0
    BY <1>l DEF SpawnedAt, Sessions
  <2>3. QED
    BY <1>u, <2>1, <2>2 DEF CountRestarted
<1>2. NotRunYet'
  <2>1. \A t \in Sessions : t # s => delivered'[t] = delivered[t] /\ lost'[t] = lost[t]
    <3>1. CASE ReaderStep(s)
      BY <1>p, <3>1, ReaderMoves
    <3>2. CASE ProcessorStep(s)
      BY <1>p, <3>2, ProcessorMoves
    <3>3. QED
      BY <3>1, <3>2
  <2>2. ASSUME NEW t \in Sessions,
               t > session \/ (t = session /\ call.at \in {"enable", "flags", "spawnReader"})
        PROVE  delivered'[t] = <<>> /\ lost'[t] = 0
    <3>1. t # s
      BY <1>l, <2>2 DEF SpawnedAt, Sessions
    <3>2. QED
      BY <1>0, <2>1, <2>2, <3>1 DEF NotRunYet
  <2>3. QED
    BY <1>u, <2>2 DEF NotRunYet
<1>3. HandsEmptied'
  <2>1. CASE ReaderCheck(s) \/ SkipInvalid(s)
    BY <1>0, <1>p, <2>1 DEF HandsEmptied, ReaderCheck, SkipInvalid, threadv
  <2>2. CASE ReadData(s)
    <3>1. /\ reader' = [reader EXCEPT ![s] = "push"]
          /\ inHand' = [inHand EXCEPT ![s] = <<<<s, next + 1>>>>]
      BY <2>2 DEF ReadData
    <3>2. Len(<<<<s, next + 1>>>>) = 1
      OBVIOUS
    <3>3. QED
      BY <1>0, <1>p, <3>1, <3>2 DEF HandsEmptied
  <2>3. CASE Push(s)
    BY <1>0, <1>p, <2>3 DEF HandsEmptied, Push
  <2>4. CASE ProcessorStep(s)
    <3>1. UNCHANGED <<reader, inHand>>
      BY <2>4, ProcessorMoves
    <3>2. QED
      BY <1>0, <3>1 DEF HandsEmptied
  <2>5. QED
    BY <2>1, <2>2, <2>3, <2>4 DEF ReaderStep
<1>4. BatchesEmptied' /\ FlushWhenStopped'
  <2>1. CASE ReaderStep(s)
    <3>1. UNCHANGED <<proc, batch>>
      BY <2>1, ReaderMoves
    <3>2. QED
      BY <1>0, <1>u, <3>1 DEF BatchesEmptied, FlushWhenStopped
  <2>2. CASE Pop(s)
    <3>1. CASE running
      <4>1. /\ proc' = [proc EXCEPT ![s] = "fetch"]
            /\ \A t \in Sessions : t # s => batch'[t] = batch[t]
        BY <1>p, <2>2, <3>1 DEF Pop
      <4>2. QED
        BY <1>0, <1>p, <1>u, <4>1 DEF BatchesEmptied, FlushWhenStopped
    <3>2. CASE ~running
      <4>1. proc' = [proc EXCEPT ![s] = "flush"] /\ batch' = batch /\ proc[s] = "poll"
        BY <2>2, <3>2 DEF Pop
      <4>2. BatchesEmptied'
        BY <1>0, <1>p, <4>1 DEF BatchesEmptied
      <4>3. ~running'
        BY <1>u, <3>2
      <4>4. QED
        BY <4>2, <4>3 DEF FlushWhenStopped
    <3>3. QED
      BY <3>1, <3>2
  <2>3. CASE FetchErrors(s)
    <3>1. /\ batch' = batch
          /\ \/ batch[s] = <<>> /\ proc' = [proc EXCEPT ![s] = "poll"]
             \/ proc' = [proc EXCEPT ![s] = "work"]
      BY <2>3 DEF FetchErrors
    <3>2. QED
      BY <1>0, <1>p, <1>u, <3>1 DEF BatchesEmptied, FlushWhenStopped
  <2>4. CASE Process(s)
    <3>1. /\ batch' = [batch EXCEPT ![s] = <<>>]
          /\ \/ proc' = [proc EXCEPT ![s] = "poll"]
             \/ proc' = [proc EXCEPT ![s] = "handler"]
      BY <2>4 DEF Process, CallHandler
    <3>2. QED
      BY <1>0, <1>p, <1>u, <3>1 DEF BatchesEmptied, FlushWhenStopped
  <2>5. CASE Flush(s) \/ HandlerReturns(s)
    <3>1. /\ batch' = batch /\ proc[s] \notin {"fetch", "work"}
          /\ \/ proc' = [proc EXCEPT ![s] = "poll"]
             \/ proc' = [proc EXCEPT ![s] = "lastHandler"]
             \/ proc' = [proc EXCEPT ![s] = "done"]
      BY <2>5 DEF Flush, HandlerReturns, CallHandler
    <3>2. QED
      BY <1>0, <1>p, <1>u, <3>1 DEF BatchesEmptied, FlushWhenStopped
  <2>6. QED
    BY <2>1, <2>2, <2>3, <2>4, <2>5 DEF ProcessorStep
<1>d. /\ delivered[s] \in Seq(Rows) /\ Buffered(s) \in Seq(Rows)
      /\ Pipeline(s) \in Seq(Rows) /\ Pipeline(s) = Cat(delivered[s], Buffered(s))
      /\ InOrder(s, Pipeline(s), next)
  BY <1>0, <1>l, PipelineParts DEF AllInOrder, Cat
<1>e. /\ delivered'[s] \in Seq(Rows) /\ Buffered(s)' \in Seq(Rows)
      /\ Pipeline(s)' = Cat(delivered'[s], Buffered(s)')
  <2>1. delivered'[s] \in Seq(Rows)
    BY <1>t DEF TypeOK, HistOK
  <2>2. /\ Buffered(s)' \in Seq(Rows)
        /\ Pipeline(s)' = delivered'[s] \o Buffered(s)'
    BY <1>t, PartsJoinedNext DEF PartsInOrder
  <2>3. QED
    BY <2>1, <2>2 DEF Cat
<1>5. CASE ReaderStep(s)
  <2>1. delivered' = delivered /\ <<"reader", s>> \in threads
    BY <1>5, ReaderMoves
  <2>2. Len(Pipeline(s)) + lost[s] = next - (InvalidCount - skip)
    BY <1>0, <2>1 DEF AllCounted
  <2>3. InOrder(s, Pipeline(s)', next') /\
        Len(Pipeline(s)') + lost'[s] = next' - (InvalidCount - skip')
    <3>1. CASE /\ Buffered(s)' = Buffered(s) /\ lost' = lost
               /\ next' - (InvalidCount - skip') = next - (InvalidCount - skip)
               /\ next' >= next
      <4>1. Pipeline(s)' = Pipeline(s)
        BY <1>d, <1>e, <2>1, <3>1
      <4>2. ASSUME NEW i \in DOMAIN Pipeline(s)
            PROVE  Pipeline(s)[i][2] <= next'
        <5>1. Pipeline(s)[i] \in Rows
          BY <1>d, LenProperties, ElementOfSeq
        <5>2. Pipeline(s)[i][2] \in Nat /\ Pipeline(s)[i][2] <= next
          BY <1>d, <5>1 DEF Rows, InOrder
        <5>3. QED
          BY <1>p, <3>1, <5>2
      <4>3. InOrder(s, Pipeline(s), next')
        BY <1>d, <4>2 DEF InOrder
      <4>4. QED
        BY <2>2, <3>1, <4>1, <4>3
    <3>2. CASE /\ Buffered(s)' = Buffered(s) \o <<<<s, next + 1>>>> /\ lost' = lost
               /\ next' = next + 1 /\ skip = 0 /\ skip' = skip
      <4> DEFINE row == <<<<s, next + 1>>>>
      <4>1. row \in Seq(Rows) /\ Len(row) = 1
        BY <1>p DEF Rows
      <4> HIDE DEF row
      <4>2. Cat(delivered[s], Cat(Buffered(s), row)) = Cat(Pipeline(s), row)
        BY <1>d, <4>1, CatAssoc
      <4>3. Pipeline(s)' = Pipeline(s) \o row
        BY <1>e, <2>1, <3>2, <4>2 DEF Cat, row
      <4>4. Len(Pipeline(s)') = Len(Pipeline(s)) + 1 /\ Len(Pipeline(s)) \in Nat
        <5>1. Len(Pipeline(s) \o row) = Len(Pipeline(s)) + Len(row)
          BY <1>d, <4>1, ConcatProperties
        <5>2. Len(Pipeline(s)) \in Nat
          BY <1>d, LenProperties
        <5>3. QED
          BY <4>1, <4>3, <5>1, <5>2
      <4>5. lost[s] \in Nat
        BY <1>p
      <4>6. InvalidCount <= next
        BY <1>p, <2>2, <3>2, <4>4, <4>5
      <4>7. InOrder(s, Pipeline(s)', next')
        BY <1>d, <1>p, <3>2, <4>3, <4>6, NewestLast DEF row
      <4>8. Len(Pipeline(s)') + lost'[s] = next' - (InvalidCount - skip')
        <5> DEFINE had == Len(Pipeline(s))
                   has == Len(Pipeline(s)')
                   gone == lost[s]
        <5>1. lost'[s] = gone
          BY <3>2
        <5>2. had + gone = next - InvalidCount
          BY <1>p, <2>2, <3>2
        <5>3. has = had + 1 /\ had \in Nat /\ gone \in Nat
          BY <4>4, <4>5
        <5> HIDE DEF had, has, gone
        <5>4. next \in Int /\ InvalidCount \in Int
          BY <1>p
        <5>5. has + gone = (next + 1) - InvalidCount
          BY <5>2, <5>3, <5>4
        <5>6. next' - (InvalidCount - skip') = (next + 1) - InvalidCount
          BY <3>2, <5>4
        <5>7. has + lost'[s] = next' - (InvalidCount - skip')
          BY <5>1, <5>5, <5>6
        <5>8. QED
          BY <5>7 DEF has
      <4>9. QED
        BY <4>7, <4>8
    <3>3. CASE /\ UNCHANGED <<next, skip>> /\ lost' = [lost EXCEPT ![s] = @ + 1]
               /\ \E row \in Rows : Buffered(s) = Buffered(s)' \o <<row>>
      <4>1. PICK row \in Rows : Buffered(s) = Buffered(s)' \o <<row>>
        BY <3>3
      <4>3. Pipeline(s)' \in Seq(Rows)
        BY <1>e, CatType
      <4> DEFINE one == <<row>>
      <4>2. one \in Seq(Rows) /\ Len(one) = 1
        OBVIOUS
      <4> HIDE DEF one
      <4>4. Cat(delivered[s], Cat(Buffered(s)', one)) = Cat(Pipeline(s)', one)
        BY <1>d, <1>e, <2>1, <4>2, CatAssoc
      <4>5. Pipeline(s) = Pipeline(s)' \o one
        BY <1>d, <4>1, <4>4 DEF Cat, one
      <4>6. InOrder(s, Pipeline(s)', next')
        <5>1. InOrder(s, Pipeline(s)' \o one, next) /\ next \in Int /\ one \in Seq(Rows)
          BY <1>d, <1>p, <4>2, <4>5
        <5>2. InOrder(s, Pipeline(s)', next)
          BY <4>3, <5>1, FirstPart
        <5>3. QED
          BY <3>3, <5>2
      <4>7. Len(Pipeline(s)) = Len(Pipeline(s)') + 1 /\ Len(Pipeline(s)') \in Nat
        <5>1. Len(Pipeline(s)' \o one) = Len(Pipeline(s)') + Len(one)
          BY <4>2, <4>3, ConcatProperties
        <5>2. Len(Pipeline(s)') \in Nat
          BY <4>3, LenProperties
        <5>3. QED
          BY <4>2, <4>5, <5>1, <5>2
      <4>8. lost[s] \in Nat /\ lost'[s] = lost[s] + 1
        BY <1>p, <3>3
      <4>9. QED
        BY <1>p, <2>2, <3>3, <4>6, <4>7, <4>8
    <3>4. QED
      BY <1>5, <3>1, <3>2, <3>3, ReaderMoves
  <2>4. AllInOrder'
    BY <1>0, <1>l, <1>u, <2>1, <2>3 DEF AllInOrder
  <2>5. AllCounted'
    <3>1. \A t \in Sessions : <<"reader", t>> \in threads => t = s
      BY <1>0, <1>l DEF ThreadsCurrent
    <3>2. QED
      BY <1>u, <2>3, <3>1 DEF AllCounted
  <2>6. QED
    BY <1>c, <1>1, <1>2, <1>3, <1>4, <2>4, <2>5 DEF StreamInv
<1>6. CASE ProcessorStep(s)
  <2>1. PICK rows \in Seq(Rows) :
          /\ delivered' = [delivered EXCEPT ![s] = @ \o rows]
          /\ Buffered(s) = rows \o Buffered(s)'
    BY <1>6, ProcessorMoves
  <2>2. UNCHANGED <<lost, next, skip>>
    BY <1>6, ProcessorMoves
  <2>3. delivered'[s] = Cat(delivered[s], rows)
    BY <1>p, <2>1 DEF Cat
  <2>4. Cat(Cat(delivered[s], rows), Buffered(s)') = Cat(delivered[s], Cat(rows, Buffered(s)'))
    BY <1>d, <1>e, <2>1, CatAssoc
  <2>5. Pipeline(s)' = Pipeline(s)
    BY <1>d, <1>e, <2>1, <2>3, <2>4 DEF Cat
  <2>6. InOrder(s, delivered'[s], next)
    <3>1. InOrder(s, delivered'[s] \o Buffered(s)', next) /\ next \in Int
      BY <1>d, <1>e, <1>p, <2>5 DEF Cat
    <3>2. QED
      BY <1>e, <3>1, FirstPart
  <2>7. AllInOrder'
    <3>1. /\ Increasing(delivered'[s])
          /\ \A i \in DOMAIN delivered'[s] :
               delivered'[s][i][1] = s /\ delivered'[s][i][2] > InvalidCount
      <4>1. ASSUME NEW i \in DOMAIN delivered'[s]
            PROVE  delivered'[s][i][1] = s /\ delivered'[s][i][2] > InvalidCount
        <5>1. delivered'[s][i] \in Rows
          BY <1>e, LenProperties, ElementOfSeq
        <5>2. delivered'[s][i][2] \in Nat /\ InvalidCount < delivered'[s][i][2]
              /\ delivered'[s][i][1] = s
          BY <2>6, <5>1 DEF Rows, InOrder
        <5>3. QED
          BY <1>p, <5>2
      <4>2. QED
        BY <2>6, <4>1 DEF InOrder
    <3>2. \A t \in Sessions : t # s => delivered'[t] = delivered[t]
      BY <1>p, <2>1
    <3>3. InOrder(s, Pipeline(s)', next')
      BY <1>d, <2>2, <2>5
    <3>4. QED
      BY <1>0, <1>l, <1>u, <3>1, <3>2, <3>3 DEF AllInOrder
  <2>8. AllCounted'
    <3>1. \A t \in Sessions : <<"reader", t>> \in threads => t = s
      BY <1>0, <1>l DEF ThreadsCurrent
    <3>2. QED
      BY <1>0, <1>u, <2>2, <2>5, <3>1 DEF AllCounted
  <2>9. QED
    BY <1>c, <1>1, <1>2, <1>3, <1>4, <2>7, <2>8 DEF StreamInv
<1>7. QED
  BY <1>5, <1>6

LEMMA StreamStep ==
  ASSUME MaxResets = 0, HandlerStops = FALSE
  PROVE  StreamInv /\ [Next]_vars => StreamInv'
<1> SUFFICES ASSUME StreamInv, [Next]_vars PROVE StreamInv'
  OBVIOUS
<1>1. CASE ClientStep \/ CallStep \/ BoardRestart
  BY <1>1, StreamCalls
<1>2. ASSUME NEW s \in Sessions, ReaderStep(s) \/ ProcessorStep(s)
      PROVE  StreamInv'
  BY <1>2, StreamThreads
<1>3. CASE UNCHANGED vars
  <2>1. UNCHANGED <<board, pipe, threadv, api, hist>>
        /\ UNCHANGED <<running, started, threads, burstSize, slopes>>
    BY <1>3 DEF vars
  <2>2. ControlInv'
    <3>1. ControlInv /\ TypeInv
      BY DEF StreamInv, ControlInv
    <3>2. TypeOK'
      BY <2>1, <3>1, Untouched DEF TypeInv, TypeOK
    <3>3. SessionNumbered'
      BY <2>1, <3>1 DEF TypeInv, SessionNumbered, api, At
    <3>4. LiveOwned' /\ BuffersOwned'
      BY <2>1, <3>1, ThreadPartsKept, BuffersKept DEF threadv, api, pipe
    <3>5. call'.by = App /\ ThreadsWhileOn' /\ OnDuringCalls' /\ OffWhenStopped'
          /\ QueueReset'
      BY <2>1, <3>1 DEF ControlInv, ThreadsWhileOn, OnDuringCalls, OffWhenStopped,
                  QueueReset, At, api, board, pipe
    <3>6. QED
      BY <3>2, <3>3, <3>4, <3>5 DEF ControlInv, TypeInv
  <2>3. AllInOrder' /\ AllCounted'
    BY <2>1, FlowKept DEF pipe, threadv, board, api, hist
  <2>4. ThreadsCurrent' /\ NotRunYet' /\ CountRestarted'
    BY <2>1 DEF StreamInv, ThreadsCurrent, NotRunYet, CountRestarted, api, board, hist
  <2>5. HandsEmptied' /\ BatchesEmptied' /\ FlushWhenStopped'
    BY <2>1 DEF StreamInv, HandsEmptied, BatchesEmptied, FlushWhenStopped, threadv
  <2>6. QED
    BY <2>2, <2>3, <2>4, <2>5 DEF StreamInv
<1>4. QED
  BY <1>1, <1>2, <1>3 DEF Next

\* While the firmware does not restart and no handler stops the measurement,
\* the handler of a session gets valid data sets of that session only, in the
\* order they were read and each at most once.
THEOREM DataKept ==
  ASSUME MaxResets = 0, HandlerStops = FALSE
  PROVE  Spec => []DeliveredInOrder
<1>1. StreamInv => DeliveredInOrder
  BY DEF StreamInv, AllInOrder, DeliveredInOrder
<1>2. QED
  BY <1>1, StreamInit, StreamStep, PTL DEF Spec

\* Under the same conditions every valid data set read is delivered, in one of
\* the buffers on its way there, or counted as lost, as long as the reader
\* thread exists.
THEOREM DataAccountedFor ==
  ASSUME MaxResets = 0, HandlerStops = FALSE
  PROVE  Spec => []NothingVanishes
<1>1. StreamInv => NothingVanishes
  BY DEF StreamInv, ThreadsCurrent, AllInOrder, InOrder, AllCounted, NothingVanishes
<1>2. QED
  BY <1>1, StreamInit, StreamStep, PTL DEF Spec

-----------------------------------------------------------------------------
(* The pipeline implements RecordStream.                                    *)

\* A sequence without the rows in front of it, and these rows.
LEMMA FrontAndRest ==
  ASSUME NEW a \in Seq(Rows), NEW b \in Seq(Rows), a # <<>>
  PROVE  /\ Len(a) \in 1 .. Len(a \o b)
         /\ SubSeq(a \o b, 1, Len(a)) = a
         /\ SubSeq(a \o b, Len(a) + 1, Len(a \o b)) = b
         /\ \A i \in 1 .. Len(a) : (a \o b)[i] = a[i]
<1>1. /\ Len(a) \in Nat \ {0} /\ Len(b) \in Nat /\ Len(a \o b) = Len(a) + Len(b)
      /\ \A i \in 1 .. Len(a) : (a \o b)[i] = a[i]
  <2>1. Len(a) \in Nat \ {0} /\ Len(b) \in Nat
    BY EmptySeq, LenProperties
  <2>2. QED
    BY <2>1, ConcatProperties
<1>2. SubSeq(a \o b, 1, Len(a)) = a
  <2>1. 1 \in 1 .. Len(a) /\ Len(a) \in 1 .. Len(a)
    BY <1>1
  <2>2. SubSeq(a \o b, 1, Len(a)) = SubSeq(a, 1, Len(a))
    BY <2>1, SubSeqOfConcat1
  <2>3. QED
    BY <2>2, SubSeqFull
<1>3. SubSeq(a \o b, Len(a) + 1, Len(a \o b)) = b
  <2>1. CASE b = <<>>
    <3>1. Len(a \o b) < Len(a) + 1
      BY <1>1, <2>1
    <3>2. QED
      BY <1>1, <2>1, <3>1, SubSeqEmpty
  <2>2. CASE b # <<>>
    <3>1. Len(b) # 0
      BY <2>2, EmptySeq
    <3>2. /\ Len(a) + 1 \in Len(a) + 1 .. Len(a) + Len(b)
          /\ Len(a) + Len(b) \in Len(a) + 1 .. Len(a) + Len(b)
      BY <1>1, <3>1
    <3>3. SubSeq(a \o b, Len(a) + 1, Len(a) + Len(b))
            = SubSeq(b, Len(a) + 1 - Len(a), Len(a) + Len(b) - Len(a))
      BY <3>2, SubSeqOfConcat2
    <3>4. Len(a) + 1 - Len(a) = 1 /\ Len(a) + Len(b) - Len(a) = Len(b)
      BY <1>1
    <3>5. QED
      BY <1>1, <3>3, <3>4, SubSeqFull
  <2>3. QED
    BY <2>1, <2>2
<1>4. QED
  BY <1>1, <1>2, <1>3

\* Where the rows of two sequences are when the second follows the first.
IsJoin(a, b, c) ==
  /\ \A i \in DOMAIN a : i \in DOMAIN c /\ c[i] = a[i]
  /\ \A i \in DOMAIN b : \E j \in DOMAIN c : c[j] = b[i]

LEMMA RowsJoined ==
  ASSUME NEW a \in Seq(Rows), NEW b \in Seq(Rows)
  PROVE  IsJoin(a, b, a \o b)
<1> DEFINE m == Len(a)
           n == Len(b)
<1>1. m \in Nat /\ n \in Nat /\ DOMAIN a = 1 .. m /\ DOMAIN b = 1 .. n
  BY LenProperties
<1>2. DOMAIN (a \o b) = 1 .. m + n
  BY ConcatProperties, LenProperties
<1>3. \A i \in 1 .. m + n : (a \o b)[i] = IF i <= m THEN a[i] ELSE b[i - m]
  BY ConcatProperties
<1> HIDE DEF m, n
<1>4. ASSUME NEW i \in 1 .. m PROVE i \in 1 .. m + n /\ i <= m
  BY <1>1
<1>5. ASSUME NEW i \in 1 .. n
      PROVE  m + i \in 1 .. m + n /\ ~(m + i <= m) /\ (m + i) - m = i
  BY <1>1
<1>6. \A i \in DOMAIN a : i \in DOMAIN (a \o b) /\ (a \o b)[i] = a[i]
  BY <1>1, <1>2, <1>3, <1>4
<1>7. \A i \in DOMAIN b : \E j \in DOMAIN (a \o b) : (a \o b)[j] = b[i]
  <2> SUFFICES ASSUME NEW i \in 1 .. n
               PROVE  \E j \in DOMAIN (a \o b) : (a \o b)[j] = b[i]
    BY <1>1
  <2> DEFINE j == m + i
  <2>1. j \in 1 .. m + n /\ ~(j <= m) /\ j - m = i
    BY <1>5
  <2> HIDE DEF j
  <2>2. (a \o b)[j] = b[i]
    BY <1>3, <2>1
  <2>3. QED
    BY <1>2, <2>1, <2>2
<1>8. QED
  BY <1>6, <1>7 DEF IsJoin

\* What two sequences have in common at their end can be taken off.
LEMMA SameFront ==
  ASSUME NEW a \in Seq(Rows), NEW b \in Seq(Rows), NEW c \in Seq(Rows),
         a \o c = b \o c
  PROVE  a = b
<1>1. /\ Len(a) \in Nat /\ Len(b) \in Nat /\ Len(c) \in Nat
      /\ Len(a \o c) = Len(a) + Len(c) /\ Len(b \o c) = Len(b) + Len(c)
  BY LenProperties, ConcatProperties
<1>2. Len(a) = Len(b)
  BY <1>1
<1>3. ASSUME NEW i \in 1 .. Len(a) PROVE a[i] = b[i]
  <2>1. i \in 1 .. Len(a) + Len(c) /\ i <= Len(a)
        /\ i \in 1 .. Len(b) + Len(c) /\ i <= Len(b)
    BY <1>1, <1>2
  <2>2. (a \o c)[i] = a[i] /\ (b \o c)[i] = b[i]
    BY <2>1, ConcatProperties
  <2>3. QED
    BY <2>2
<1>4. QED
  BY <1>2, <1>3, SeqEqual

\* What is on its way: all that is in the buffers, but for the row the reader
\* thread has in its hand.
Way(s) == burst \o held \o batch[s] \o queue

LEMMA WayToHand ==
  ASSUME TypeOK, NEW s \in Sessions
  PROVE  /\ Way(s) \in Seq(Rows) /\ Buffered(s) = Way(s) \o inHand[s]
         /\ Len(queue) <= Len(Way(s))
         /\ Way(s) = Cat(Cat(Cat(burst, held), batch[s]), queue)
<1>1. /\ burst \in Seq(Rows) /\ held \in Seq(Rows) /\ queue \in Seq(Rows)
      /\ batch[s] \in Seq(Rows) /\ inHand[s] \in Seq(Rows)
  BY PipelineParts
<1> DEFINE front == Cat(Cat(burst, held), batch[s])
<1>2. front \in Seq(Rows)
  BY <1>1, CatType
<1>3. /\ Way(s) = Cat(front, queue)
      /\ Buffered(s) = Cat(Cat(front, queue), inHand[s])
  BY Zenon DEF Way, Buffered, Cat
<1>s. Way(s) = Cat(Cat(Cat(burst, held), batch[s]), queue)
  BY <1>3
<1> HIDE DEF front
<1>4. Cat(front, queue) \in Seq(Rows)
  BY <1>1, <1>2, CatType
<1>5. Buffered(s) = Way(s) \o inHand[s]
  BY <1>3 DEF Cat
<1>6. Len(Way(s)) = Len(front) + Len(queue) /\ Len(front) \in Nat /\ Len(queue) \in Nat
  BY <1>1, <1>2, <1>3, ConcatProperties, LenProperties DEF Cat
<1>7. QED
  BY <1>3, <1>4, <1>5, <1>6, <1>s

WaysJoined ==
  \A s \in Sessions :
    Way(s) \in Seq(Rows) /\ Buffered(s) = Way(s) \o inHand[s]

LEMMA WayToHandNext == (TypeOK => WaysJoined)'
<1>1. TypeOK => WaysJoined
  BY WayToHand DEF WaysJoined
<1>2. QED
  BY <1>1, PTL

\* Before the first session nothing is on its way.
LEMMA InFlightIsBuffered ==
  ASSUME StreamInv
  PROVE  /\ session = 0 => InFlight = <<>> /\ InReader = <<>>
         /\ session # 0 => /\ session \in Sessions
                           /\ InFlight = Way(session)
                           /\ InReader = inHand[session]
<1>1. CASE session = 0
  <2>1. \A s \in Sessions : ~ReaderLive(s) /\ ~ProcLive(s)
    <3>1. \A s \in Sessions : s # session
      BY <1>1 DEF Sessions
    <3>2. QED
      BY <3>1 DEF StreamInv, ControlInv, LiveOwned
  <2>2. queue = <<>> /\ burst = <<>> /\ held = <<>>
    BY <1>1, <2>1 DEF StreamInv, CountRestarted, ControlInv, QueueReset, BuffersOwned
  <2>3. InFlight = Cat(Cat(Cat(<<>>, <<>>), <<>>), <<>>)
    BY <1>1, <2>2 DEF InFlight, Cat
  <2>4. QED
    BY <1>1, <2>3, CatEmpty DEF InReader
<1>2. CASE session # 0
  <2>1. session \in Sessions
    BY <1>2, ConstantsAssumption
       DEF StreamInv, ControlInv, TypeInv, TypeOK, ApiOK, Sessions
  <2>2. QED
    BY <1>2, <2>1 DEF InFlight, InReader, Way
<1>3. QED
  BY <1>1, <1>2

LEMMA StreamStarts == Init => Stream!Init
<1> SUFFICES ASSUME Init PROVE Stream!Init
  OBVIOUS
<1>1. /\ InFlight = <<>> /\ InReader = <<>> /\ running = FALSE
      /\ delivered = [s \in Sessions |-> <<>>] /\ lost = [s \in Sessions |-> 0]
  BY StreamInit, InFlightIsBuffered DEF Init
<1>2. QED
  BY <1>1 DEF Stream!Init

\* A data set in the reader's hand has a number above all before it.
LEMMA NumberedBehind ==
  ASSUME StreamInv, NEW s \in Sessions, s = session, NEW row, row = <<s, next + 1>>
  PROVE  Stream!Behind(Way(s), row) /\ Stream!Behind(delivered[s], row)
<1>t. TypeOK
  BY DEF StreamInv, ControlInv, TypeInv
<1>1. /\ Way(s) \in Seq(Rows) /\ Buffered(s) \in Seq(Rows)
      /\ Buffered(s) = Way(s) \o inHand[s] /\ inHand[s] \in Seq(Rows)
      /\ delivered[s] \in Seq(Rows) /\ Pipeline(s) = delivered[s] \o Buffered(s)
      /\ next \in Nat
  BY <1>t, PipelineParts, WayToHand DEF TypeOK, BoardOK
<1>2. row[2] = next + 1
  OBVIOUS
<1>j. /\ IsJoin(delivered[s], Buffered(s), Pipeline(s))
      /\ IsJoin(Way(s), inHand[s], Buffered(s))
  BY <1>1, RowsJoined
<1>3. InOrder(s, Pipeline(s), next)
  BY DEF StreamInv, AllInOrder
<1>5. ASSUME NEW i \in DOMAIN delivered[s]
      PROVE  delivered[s][i][2] < row[2]
  <2>1. i \in 1 .. Len(delivered[s]) /\ delivered[s][i] \in Rows
    BY <1>1, LenProperties, ElementOfSeq
  <2>2. i \in DOMAIN Pipeline(s) /\ Pipeline(s)[i] = delivered[s][i]
    BY <1>j DEF IsJoin
  <2>3. delivered[s][i][2] <= next /\ delivered[s][i][2] \in Nat
    BY <1>3, <2>1, <2>2 DEF InOrder, Rows
  <2>4. QED
    BY <1>1, <1>2, <2>3
<1>6. ASSUME NEW i \in DOMAIN Way(s)
      PROVE  Way(s)[i][2] < row[2]
  <2>1. Way(s)[i] \in Rows
    BY <1>1, LenProperties, ElementOfSeq
  <2>2. i \in DOMAIN Buffered(s) /\ Buffered(s)[i] = Way(s)[i]
    BY <1>j DEF IsJoin
  <2>3. \E j \in DOMAIN Pipeline(s) : Pipeline(s)[j] = Way(s)[i]
    BY <1>j, <2>2 DEF IsJoin
  <2>4. Way(s)[i][2] <= next /\ Way(s)[i][2] \in Nat
    BY <1>3, <2>1, <2>3 DEF InOrder, Rows
  <2>5. QED
    BY <1>1, <1>2, <2>4
<1>7. QED
  BY <1>5, <1>6 DEF Stream!Behind

\* A step of the reader thread: a data set arrives, and the queue takes it or
\* refuses it.
LEMMA ReaderImplements ==
  ASSUME StreamInv, StreamInv', NEW s \in Sessions, ReaderStep(s)
  PROVE  [Stream!Next]_(Stream!streamVars)
<1>1. /\ s = session /\ session' = session /\ delivered' = delivered
      /\ running' = running /\ session # 0
  <2>1. s = session /\ session' = session /\ delivered' = delivered /\ running' = running
    BY ReaderMoves
  <2>2. s # 0
    BY DEF Sessions
  <2>3. QED
    BY <2>1, <2>2
<1>2. /\ InFlight = Way(s) /\ InFlight' = Way(s)'
      /\ InReader = inHand[s] /\ InReader' = inHand'[s]
  <2>1. /\ (session # 0 => InFlight = Way(session))'
        /\ (session # 0 => InReader = inHand[session])'
    BY <1>1 DEF InFlight, InReader, Way
  <2>2. QED
    BY <1>1, <2>1, InFlightIsBuffered
<1>t. TypeOK
  BY DEF StreamInv, ControlInv, TypeInv
<1>3. /\ Way(s) \in Seq(Rows) /\ inHand \in [Sessions -> Seq(Rows)]
      /\ queue \in Seq(Rows) /\ next \in Nat /\ Len(queue) <= Len(Way(s))
      /\ lost \in [Sessions -> Nat]
  BY <1>t, WayToHand, PipelineParts DEF TypeOK, BoardOK, ThreadsOK, HistOK
<1>4. CASE ReaderCheck(s) \/ SkipInvalid(s)
  <2>1. UNCHANGED <<burst, held, batch, queue, inHand, lost>>
    BY <1>4 DEF ReaderCheck, SkipInvalid, pipe, threadv, hist
  <2>2. QED
    BY <1>1, <1>2, <2>1 DEF Stream!streamVars, Way
<1>5. CASE ReadData(s)
  <2> DEFINE row == <<s, next + 1>>
  <2>1. inHand[s] = <<>>
    BY <1>5 DEF ReadData, StreamInv, HandsEmptied
  <2>2. inHand'[s] = <<row>> /\ UNCHANGED <<burst, held, batch, queue, lost>>
    BY <1>3, <1>5 DEF ReadData, pipe, hist
  <2>3. Stream!Behind(Way(s), row) /\ Stream!Behind(delivered[s], row)
    BY <1>1, NumberedBehind
  <2>4. row[1] = s /\ row[2] \in Nat
    BY <1>3
  <2> HIDE DEF row
  <2>5. <<row>> # <<>> /\ <<row>>[1] = row
    OBVIOUS
  <2>6. Way(s)' = Way(s)
    BY <2>2 DEF Way
  <2>7. Stream!Arrive
    BY <1>1, <1>2, <2>1, <2>2, <2>3, <2>4, <2>5, <2>6 DEF Stream!Arrive
  <2>8. QED
    BY <2>7 DEF Stream!Next
<1>6. CASE Push(s)
  <2>1. Len(inHand[s]) = 1
    BY <1>6 DEF Push, StreamInv, HandsEmptied
  <2>2. inHand[s] \in Seq(Rows) /\ inHand[s] # <<>> /\ inHand'[s] = <<>>
    <3>1. inHand[s] \in Seq(Rows) /\ inHand'[s] = <<>>
      BY <1>3, <1>6 DEF Push
    <3>2. inHand[s] # <<>>
      BY <2>1
    <3>3. QED
      BY <3>1, <3>2
  <2>3. UNCHANGED <<burst, held, batch>>
    BY <1>6 DEF Push
  <2>4. CASE QueueAccepts
    <3>1. queue' = queue \o inHand[s] /\ lost' = lost
      BY <1>6, <2>4 DEF Push
    <3>2. Way(s)' = Way(s) \o inHand[s]
      <4> DEFINE front == Cat(Cat(burst, held), batch[s])
      <4>1. Way(s) = Cat(front, queue)
        BY Zenon DEF Way, Cat
      <4>2. Way(s)' = Cat(front, Cat(queue, inHand[s]))
        BY <2>3, <3>1 DEF Way, Cat
      <4>3. front \in Seq(Rows)
        BY <1>t, PipelineParts, CatType
      <4> HIDE DEF front
      <4>4. Way(s)' = Cat(Cat(front, queue), inHand[s])
        BY <1>3, <2>2, <4>2, <4>3, CatAssoc
      <4>5. QED
        BY <4>1, <4>4 DEF Cat
    <3>3. Stream!Enter
      BY <1>1, <1>2, <2>2, <3>1, <3>2 DEF Stream!Enter
    <3>4. QED
      BY <3>3 DEF Stream!Next
  <2>5. CASE ~QueueAccepts
    <3>1. queue' = queue /\ lost' = [lost EXCEPT ![s] = @ + 1]
      BY <1>6, <2>5 DEF Push
    <3>2. Len(Way(s)) >= QueueCapacity
      <4>1. Len(queue) \in Nat /\ Len(Way(s)) \in Nat
        BY <1>3, LenProperties
      <4>2. QED
        BY <1>3, <2>5, <4>1, ConstantsAssumption DEF QueueAccepts
    <3>3. inHand[s][1][1] = s
      <4>1. Buffered(s) = Way(s) \o inHand[s] /\ Buffered(s) \in Seq(Rows)
            /\ delivered[s] \in Seq(Rows) /\ Pipeline(s) = delivered[s] \o Buffered(s)
        BY <1>t, WayToHand, PipelineParts
      <4>j. /\ IsJoin(delivered[s], Buffered(s), Pipeline(s))
            /\ IsJoin(Way(s), inHand[s], Buffered(s))
        BY <1>3, <2>2, <4>1, RowsJoined
      <4>2. 1 \in DOMAIN inHand[s]
        BY <2>1, <2>2, LenProperties
      <4>3. \E i \in DOMAIN Buffered(s) : Buffered(s)[i] = inHand[s][1]
        BY <4>2, <4>j DEF IsJoin
      <4>4. \E i \in DOMAIN Pipeline(s) : Pipeline(s)[i] = inHand[s][1]
        BY <4>3, <4>j DEF IsJoin
      <4>5. QED
        BY <1>1, <4>4 DEF StreamInv, AllInOrder, InOrder
    <3>4. Way(s)' = Way(s)
      BY <2>3, <3>1 DEF Way
    <3>5. Stream!Refuse
      BY <1>1, <1>2, <2>2, <3>1, <3>2, <3>3, <3>4 DEF Stream!Refuse
    <3>6. QED
      BY <3>5 DEF Stream!Next
  <2>6. QED
    BY <2>4, <2>5
<1>7. QED
  BY <1>4, <1>5, <1>6 DEF ReaderStep

\* A step of the processing thread: rows are handed over, or nothing happens.
LEMMA ProcessorImplements ==
  ASSUME StreamInv, StreamInv', NEW s \in Sessions, ProcessorStep(s)
  PROVE  [Stream!Next]_(Stream!streamVars)
<1>1. s = session /\ session' = session /\ session # 0
  BY ProcessorMoves DEF Sessions
<1>2. /\ InFlight = Way(s) /\ InFlight' = Way(s)'
      /\ InReader = inHand[s] /\ InReader' = inHand[s]
      /\ UNCHANGED <<running, lost, inHand>>
  <2>1. UNCHANGED <<running, lost, inHand>>
    BY ProcessorMoves
  <2>2. /\ (session # 0 => InFlight = Way(session))'
        /\ (session # 0 => InReader = inHand[session])'
    BY <1>1 DEF InFlight, InReader, Way
  <2>3. QED
    BY <1>1, <2>1, <2>2, InFlightIsBuffered
<1>t. TypeOK /\ TypeOK'
  BY DEF StreamInv, ControlInv, TypeInv
<1>3. /\ Way(s) \in Seq(Rows) /\ Way(s)' \in Seq(Rows) /\ inHand[s] \in Seq(Rows)
      /\ Buffered(s) = Way(s) \o inHand[s] /\ Buffered(s)' = Way(s)' \o inHand[s]
      /\ Buffered(s) \in Seq(Rows)
      /\ delivered[s] \in Seq(Rows) /\ Pipeline(s) = delivered[s] \o Buffered(s)
      /\ delivered \in [Sessions -> Seq(Rows)]
  BY <1>2, <1>t, PipelineParts, WayToHand, WayToHandNext DEF WaysJoined, TypeOK, HistOK
<1>4. PICK rows \in Seq(Rows) :
        /\ delivered' = [delivered EXCEPT ![s] = @ \o rows]
        /\ Way(s) = rows \o Way(s)'
  <2>1. PICK rows \in Seq(Rows) :
          /\ delivered' = [delivered EXCEPT ![s] = @ \o rows]
          /\ Buffered(s) = rows \o Buffered(s)'
    BY ProcessorMoves
  <2> DEFINE rest == Way(s)'
             hand == inHand[s]
  <2>2. rest \in Seq(Rows) /\ hand \in Seq(Rows)
        /\ Way(s) \o hand = rows \o (rest \o hand)
    BY <1>3, <2>1
  <2> HIDE DEF rest, hand
  <2>3. rows \o (rest \o hand) = (rows \o rest) \o hand /\ rows \o rest \in Seq(Rows)
    BY <2>2, ConcatAssociative, ConcatProperties
  <2>4. Way(s) = rows \o rest
    BY <1>3, <2>2, <2>3, SameFront
  <2>5. QED
    BY <2>1, <2>4 DEF rest
<1>5. CASE rows = <<>>
  <2>1. delivered[s] \o rows = delivered[s] /\ Way(s) = Way(s)'
    BY <1>3, <1>4, <1>5, ConcatEmptySeq
  <2>2. delivered' = delivered
    BY <1>3, <1>4, <2>1
  <2>3. QED
    BY <1>2, <2>1, <2>2 DEF Stream!streamVars
<1>6. CASE rows # <<>>
  <2> DEFINE n == Len(rows)
  <2>1. /\ n \in 1 .. Len(InFlight)
        /\ SubSeq(InFlight, 1, n) = rows
        /\ SubSeq(InFlight, n + 1, Len(InFlight)) = InFlight'
        /\ \A i \in 1 .. n : InFlight[i] = rows[i]
    BY <1>2, <1>3, <1>4, <1>6, FrontAndRest
  <2>2. \A i \in DOMAIN Way(s) : Way(s)[i][1] = s
    <3>1. InOrder(s, Pipeline(s), next)
      BY <1>1 DEF StreamInv, AllInOrder
    <3>2. SUFFICES ASSUME NEW i \in DOMAIN Way(s) PROVE Way(s)[i][1] = s
      OBVIOUS
    <3>j. /\ IsJoin(delivered[s], Buffered(s), Pipeline(s))
          /\ IsJoin(Way(s), inHand[s], Buffered(s))
      BY <1>3, RowsJoined
    <3>3. i \in DOMAIN Buffered(s) /\ Buffered(s)[i] = Way(s)[i]
      BY <3>j DEF IsJoin
    <3>4. \E j \in DOMAIN Pipeline(s) : Pipeline(s)[j] = Way(s)[i]
      BY <3>3, <3>j DEF IsJoin
    <3>5. QED
      BY <3>1, <3>4 DEF InOrder
  <2>3. \A i \in 1 .. Len(InFlight) : InFlight[i][1] = s
    BY <1>2, <1>3, <2>2, LenProperties
  <2>4. Len(InFlight) \in Nat /\ n \in Nat
    BY <1>2, <1>3, LenProperties
  <2> HIDE DEF n
  <2>5. /\ InFlight[1][1] = s
        /\ \A i \in 1 .. n : InFlight[i][1] = s
    BY <2>1, <2>3, <2>4
  <2>6. /\ delivered' = [delivered EXCEPT ![s] = @ \o SubSeq(InFlight, 1, n)]
        /\ InFlight' = SubSeq(InFlight, n + 1, Len(InFlight))
    BY <1>4, <2>1
  <2>7. Stream!HandOver
    BY <1>2, <2>1, <2>5, <2>6 DEF Stream!HandOver
  <2>8. QED
    BY <2>7 DEF Stream!Next
<1>7. QED
  BY <1>5, <1>6

\* Threads are waited for only after they have been told to stop.
StoppedWhenJoined == At("join") => ~running

LEMMA JoinAfterSignal ==
  /\ Init => StoppedWhenJoined
  /\ StreamInv /\ StoppedWhenJoined /\ [Next]_vars => StoppedWhenJoined'
<1>1. Init => StoppedWhenJoined
  BY DEF Init, StoppedWhenJoined, At, Idle
<1>2. ASSUME StreamInv, StoppedWhenJoined, [Next]_vars
      PROVE  StoppedWhenJoined'
  <2>0. call \in [at : CallSteps, by : {App} \cup Sessions]
    BY <1>2 DEF StreamInv, ControlInv, TypeInv, TypeOK, ApiOK
  <2>1. CASE UNCHANGED <<call, running>>
    BY <1>2, <2>1 DEF StoppedWhenJoined, At
  <2>2. CASE CallStep
    <3>1. \A step : Goto(step) => call'.at = step
      BY <2>0 DEF Goto
    <3>2. \A result : Return(result) => call'.at = "idle"
      BY DEF Return, Idle
    <3>3. StopSignal \/ call'.at # "join"
      <4>1. CASE StartPrepare \/ StartEnable \/ StartFlags \/ SpawnReader
        BY <3>1, <3>2, <4>1 DEF StartPrepare, StartEnable, StartFlags, SpawnReader
      <4>2. CASE SpawnProcessor \/ SpawnFailed \/ Unwind \/ StopJoin \/ StopDisable
        BY <3>1, <3>2, <4>2 DEF SpawnProcessor, SpawnFailed, Unwind, StopJoin, StopDisable
      <4>3. QED
        BY <2>2, <4>1, <4>2 DEF CallStep
    <3>4. QED
      BY <3>3 DEF StopSignal, StoppedWhenJoined, At
  <2>3. CASE ClientStep
    BY <1>2, <2>3
       DEF ClientStep, AskBoard, SetDriverSettings, StartCheck, StartRefused, StopCheck,
           StoppedWhenJoined, At, Begin, api
  <2>4. ASSUME NEW s \in Sessions, ReaderStep(s) \/ ProcessorStep(s)
        PROVE  UNCHANGED <<call, running>>
    BY <1>2, <2>4, ReaderMoves, ProcessorMoves
  <2>5. QED
    BY <1>2, <2>1, <2>2, <2>3, <2>4 DEF Next, BoardRestart, vars, api
<1>3. QED
  BY <1>1, <1>2

\* Without threads and with an empty queue nothing is on its way.
LEMMA NothingOnTheWay ==
  ASSUME StreamInv, \A s \in Sessions : ~ReaderLive(s) /\ ~ProcLive(s), queue = <<>>
  PROVE  InFlight = <<>> /\ InReader = <<>>
<1>1. CASE session = 0
  BY <1>1, InFlightIsBuffered
<1>2. CASE session # 0
  <2>1. /\ burst = <<>> /\ held = <<>>
        /\ batch[session] = <<>> /\ inHand[session] = <<>>
    BY <1>2, InFlightIsBuffered, NothingBuffered
  <2>2. InFlight = Cat(Cat(Cat(<<>>, <<>>), <<>>), <<>>) /\ InReader = <<>>
    BY <1>2, <2>1 DEF InFlight, InReader, Cat
  <2>3. QED
    BY <2>2, CatEmpty
<1>3. QED
  BY <1>1, <1>2

\* The calls of the API leave the stream alone, but for the join, which drains
\* the queue when all threads have ended; they start and stop it.
LEMMA CallsImplement ==
  ASSUME StreamInv, StoppedWhenJoined, StreamInv', ClientStep \/ CallStep \/ BoardRestart
  PROVE  [Stream!Next]_(Stream!streamVars)
<1> USE DEF threadv, hist, pipe, api, board
<1>1. CASE StartPrepare
  <2>1. threads = {} /\ queue = <<>>
    BY <1>1 DEF StreamInv, ControlInv, ThreadsWhileOn, QueueReset, SpawnedAt, ResetAt,
                StartPrepare, At
  <2>2. \A s \in Sessions : ~ReaderLive(s) /\ ~ProcLive(s)
    BY <2>1, NoThreadsNoneLive DEF StreamInv
  <2>3. InFlight = <<>> /\ InReader = <<>>
    BY <2>1, <2>2, NothingOnTheWay
  <2>4. session' \in Sessions /\ session' # 0
        /\ UNCHANGED <<batch, inHand, queue, burst, running, lost>>
        /\ held' = <<>> /\ delivered' = delivered
    <3>1. session' \in Sessions
      BY <1>1, ConstantsAssumption
         DEF StartPrepare, At, StreamInv, ControlInv, TypeInv, TypeOK, ApiOK,
             SessionNumbered, Sessions
    <3>2. QED
      BY <1>1, <3>1 DEF StartPrepare, Sessions
  <2>5. burst = <<>> /\ batch[session'] = <<>> /\ inHand[session'] = <<>>
    BY <2>2, <2>4, NothingBuffered
  <2>6. InFlight' = Cat(Cat(Cat(<<>>, <<>>), <<>>), <<>>) /\ InReader' = <<>>
    BY <2>1, <2>4, <2>5 DEF InFlight, InReader, Cat
  <2>7. InFlight' = <<>>
    BY <2>6, CatEmpty
  <2>8. QED
    BY <2>3, <2>4, <2>6, <2>7 DEF Stream!streamVars
<1>2. CASE StopJoin
  <2>1. \A s \in Sessions : ~ReaderLive(s) /\ ~ProcLive(s)
    BY <1>2, JoinedMeansDead DEF StreamInv, StopJoin
  <2>2. /\ UNCHANGED <<batch, inHand, held, burst, session, delivered, running, lost>>
        /\ queue' = <<>>
    BY <1>2 DEF StopJoin, Drained
  <2>3. session # 0 => session \in Sessions
    BY InFlightIsBuffered
  <2>4. burst = <<>> /\ held = <<>>
    BY <2>1 DEF StreamInv, ControlInv, BuffersOwned
  <2>5. session # 0 => batch[session] = <<>> /\ inHand[session] = <<>>
    BY <2>1, <2>3, NothingBuffered
  <2>6. /\ InFlight' = Cat(Cat(Cat(<<>>, <<>>), <<>>), <<>>)
        /\ InReader = <<>> /\ InReader' = <<>>
    BY <2>2, <2>4, <2>5 DEF InFlight, InReader, Cat
  <2>7. InFlight' = <<>>
    BY <2>6, CatEmpty
  <2>8. ~running
    BY <1>2 DEF StopJoin, StoppedWhenJoined
  <2>9. Stream!Discard
    BY <2>2, <2>6, <2>7, <2>8 DEF Stream!Discard
  <2>10. QED
    BY <2>9 DEF Stream!Next
<1>3. CASE StartFlags \/ StopSignal \/ SpawnFailed
  <2>1. UNCHANGED <<batch, inHand, held, burst, queue, session, delivered, lost>>
        /\ running' \in BOOLEAN
    BY <1>3 DEF StartFlags, StopSignal, SpawnFailed
  <2>2. InFlight' = InFlight /\ InReader' = InReader
    BY <2>1 DEF InFlight, InReader
  <2>3. running \in BOOLEAN
    BY DEF StreamInv, ControlInv, TypeInv, TypeOK, DriverOK
  <2>4. CASE running' = running
    BY <2>1, <2>2, <2>4 DEF Stream!streamVars
  <2>5. CASE running /\ ~running'
    <3>1. Stream!Stop
      BY <2>1, <2>2, <2>5 DEF Stream!Stop
    <3>2. QED
      BY <3>1 DEF Stream!Next
  <2>6. CASE ~running /\ running'
    <3>1. At("flags")
      BY <1>3, <2>6 DEF StartFlags, StopSignal, SpawnFailed
    <3>2. threads = {} /\ queue = <<>>
      BY <3>1 DEF StreamInv, ControlInv, ThreadsWhileOn, QueueReset, SpawnedAt,
                  ResetAt, At
    <3>3. InFlight = <<>> /\ InReader = <<>>
      BY <3>2, NoThreadsNoneLive, NothingOnTheWay DEF StreamInv
    <3>4. Stream!Start
      BY <2>1, <2>2, <2>6, <3>3 DEF Stream!Start
    <3>5. QED
      BY <3>4 DEF Stream!Next
  <2>7. QED
    BY <2>1, <2>3, <2>4, <2>5, <2>6
<1>4. CASE ~StartPrepare /\ ~StopJoin /\ ~StartFlags /\ ~StopSignal /\ ~SpawnFailed
  <2>1. UNCHANGED <<batch, inHand, held, burst, queue, session, delivered, running, lost>>
    BY <1>4 DEF ClientStep, CallStep, BoardRestart, AskBoard, SetDriverSettings,
                StartCheck, StartRefused, StopCheck, StartEnable,
                SpawnReader, SpawnProcessor, Unwind, StopDisable
  <2>2. InFlight' = InFlight /\ InReader' = InReader
    BY <2>1 DEF InFlight, InReader
  <2>3. QED
    BY <2>1, <2>2 DEF Stream!streamVars
<1>5. QED
  BY <1>1, <1>2, <1>3, <1>4

\* While the firmware does not restart and no handler stops the measurement,
\* the threads, the queue, the resampler and the burst buffer together are one
\* first-in first-out stream: they implement RecordStream, so a data set is
\* refused, and counted, only when it arrives behind a full queue's worth of
\* others, and what was taken is thrown away only when the measurement stops.
THEOREM PipelineImplementsStream ==
  ASSUME MaxResets = 0, HandlerStops = FALSE
  PROVE  Spec => ImplementsStream
<1>1. StreamInv /\ StoppedWhenJoined /\ StreamInv' /\ [Next]_vars
        => [Stream!Next]_(Stream!streamVars)
  <2> SUFFICES ASSUME StreamInv, StoppedWhenJoined, StreamInv', [Next]_vars
               PROVE  [Stream!Next]_(Stream!streamVars)
    OBVIOUS
  <2>1. CASE ClientStep \/ CallStep \/ BoardRestart
    BY <2>1, CallsImplement
  <2>2. ASSUME NEW s \in Sessions, ReaderStep(s) \/ ProcessorStep(s)
        PROVE  [Stream!Next]_(Stream!streamVars)
    BY <2>2, ReaderImplements, ProcessorImplements
  <2>3. CASE UNCHANGED vars
    <3>1. UNCHANGED <<batch, inHand, held, burst, queue, session, delivered, running, lost>>
      BY <2>3 DEF vars, threadv, hist, pipe, api
    <3>2. InFlight' = InFlight /\ InReader' = InReader
      BY <3>1 DEF InFlight, InReader
    <3>3. QED
      BY <3>1, <3>2 DEF Stream!streamVars
  <2>4. QED
    BY <2>1, <2>2, <2>3 DEF Next
<1>2. QED
  BY <1>1, StreamInit, StreamStep, StreamStarts, JoinAfterSignal, PTL
     DEF Spec, ImplementsStream, Stream!Spec

-----------------------------------------------------------------------------
(* The blocks handed over.                                                  *)

\* Every block given to the handler while the measurement runs is at least as
\* long as the burst buffer size.
THEOREM BlocksLongEnough ==
  ASSUME MaxResets = 0, HandlerStops = FALSE
  PROVE  Spec => BlocksReachBurstSize
<1> DEFINE Step ==
             \A s \in Sessions :
               delivered'[s] # delivered[s] =>
                 \/ Len(delivered'[s]) - Len(delivered[s]) >= burstSize
                 \/ ~running
<1>1. StreamInv /\ [Next]_vars => [Step]_vars
  <2> SUFFICES ASSUME StreamInv, Next, NEW s \in Sessions,
                      delivered'[s] # delivered[s]
               PROVE  \/ Len(delivered'[s]) - Len(delivered[s]) >= burstSize
                      \/ ~running
    OBVIOUS
  <2>1. PICK t \in Sessions : ProcessorStep(t)
    <3>1. CASE ClientStep \/ CallStep \/ BoardRestart
      BY <3>1 DEF ClientStep, CallStep, BoardRestart, AskBoard, SetDriverSettings,
                  StartCheck, StartRefused, StopCheck, StartPrepare, StartEnable,
                  StartFlags, SpawnReader, SpawnProcessor, SpawnFailed, Unwind,
                  StopSignal, StopJoin, StopDisable, hist
    <3>2. ASSUME NEW t \in Sessions, ReaderStep(t) PROVE FALSE
      BY <3>2, ReaderMoves
    <3>3. QED
      BY <3>1, <3>2 DEF Next
  <2>2. PICK rows \in Seq(Rows) :
          /\ delivered' = [delivered EXCEPT ![t] = @ \o rows]
          /\ rows # <<>> => Len(rows) >= burstSize \/ ~running
    BY <2>1, ProcessorMoves
  <2>3. delivered \in [Sessions -> Seq(Rows)] /\ burstSize \in Nat
    BY ConstantsAssumption
       DEF StreamInv, ControlInv, TypeInv, TypeOK, HistOK, DriverOK
  <2>4. s = t /\ delivered'[s] = delivered[s] \o rows
    BY <2>2, <2>3
  <2>5. delivered[s] \in Seq(Rows)
    BY <2>3
  <2>6. rows # <<>>
    BY <2>4, <2>5, ConcatEmptySeq
  <2>7. /\ Len(delivered'[s]) = Len(delivered[s]) + Len(rows)
        /\ Len(delivered[s]) \in Nat /\ Len(rows) \in Nat
    BY <2>4, <2>5, ConcatProperties, LenProperties
  <2>8. QED
    BY <2>2, <2>3, <2>6, <2>7
<1>2. QED
  BY <1>1, StreamInit, StreamStep, PTL DEF Spec, BlocksReachBurstSize
=============================================================================
