------------------------- MODULE MeasurementProofs -------------------------
(***************************************************************************)
(* Theorems about the measurement pipeline, for every number of sessions   *)
(* and data sets, every capacity, burst size and resampler delay.          *)
(***************************************************************************)
EXTENDS Measurement, SequenceTheorems, WellFoundedInduction, TLAPS

-----------------------------------------------------------------------------
(* Taking records off a sequence.                                           *)

\* A prefix and the rest of a sequence are sequences over the same set, and
\* share its elements out between them.
LEMMA PrefixSuffix ==
  ASSUME NEW S, NEW q \in Seq(S), NEW n \in 0 .. Len(q)
  PROVE  /\ Prefix(q, n) \in Seq(S) /\ Len(Prefix(q, n)) = n
         /\ Suffix(q, n) \in Seq(S) /\ Len(Suffix(q, n)) = Len(q) - n
<1>1. Prefix(q, n) \in Seq(S) /\ Len(Prefix(q, n)) = n
  <2>1. CASE n = 0
    BY <2>1, SubSeqProperties DEF Prefix
  <2>2. CASE n > 0
    BY <2>2, SubSeqProperties DEF Prefix
  <2>3. QED
    BY <2>1, <2>2
<1>2. Suffix(q, n) \in Seq(S) /\ Len(Suffix(q, n)) = Len(q) - n
  BY SubSeqProperties DEF Suffix
<1>3. QED
  BY <1>1, <1>2

\* What the resampler lets through and what it keeps are sequences of rows.
LEMMA ResampledType ==
  ASSUME TypeOK, NEW s \in Sessions
  PROVE  Resampled(s).out \in Seq(Rows) /\ Resampled(s).keep \in Seq(Rows)
<1> DEFINE rows == held \o batch[s]
           n == IF Len(rows) > hold THEN Len(rows) - hold ELSE 0
<1>1. rows \in Seq(Rows) /\ Len(rows) \in Nat
  BY ConcatProperties, LenProperties DEF TypeOK, PipeOK, ThreadsOK
<1>2. hold \in Nat
  BY ConstantsAssumption DEF TypeOK, PipeOK
<1>3. n \in 0 .. Len(rows)
  BY <1>1, <1>2
<1>4. Prefix(rows, n) \in Seq(Rows) /\ Suffix(rows, n) \in Seq(Rows)
  <2> HIDE DEF rows, n
  <2>1. QED
    BY <1>1, <1>3, PrefixSuffix
<1>5. QED
  BY <1>4 DEF Resampled

-----------------------------------------------------------------------------
(* Type correctness.                                                        *)

\* Once a session is being set up it has a number of its own.
SessionNumbered ==
  /\ At("prepare") => session < MaxSessions
  /\ call.at \in {"enable", "flags", "spawnReader", "spawnProcessor"} =>
       session \in Sessions

TypeInv == TypeOK /\ SessionNumbered

LEMMA TypeInit == Init => TypeInv
<1> SUFFICES ASSUME Init PROVE TypeInv
  OBVIOUS
<1> USE ConstantsAssumption DEF Init
<1>1. BoardOK /\ DriverOK
  <2>1. next \in Nat /\ resets \in Nat /\ slopes \in 0 .. MaxSessions
    OBVIOUS
  <2>2. adc \in BOOLEAN /\ running \in BOOLEAN /\ started \in BOOLEAN
    OBVIOUS
  <2>3. QED
    BY <2>1, <2>2 DEF BoardOK, DriverOK
<1>5. PipeOK
  BY DEF PipeOK
<1>2. ThreadsOK
  BY DEF ThreadsOK, ReaderSteps, ProcSteps
<1>3. ApiOK /\ SessionNumbered
  BY DEF ApiOK, SessionNumbered, Idle, At, App, CallSteps, Outcomes
<1>4. HistOK
  BY DEF HistOK
<1>6. QED
  BY <1>1, <1>2, <1>3, <1>4, <1>5 DEF TypeInv, TypeOK

\* What a step leaves alone keeps its type.
LEMMA Untouched ==
  ASSUME TypeOK
  PROVE  /\ UNCHANGED board => BoardOK'
         /\ UNCHANGED <<running, started, threads, burstSize, slopes>> => DriverOK'
         /\ UNCHANGED pipe => PipeOK'
         /\ UNCHANGED threadv => ThreadsOK'
         /\ UNCHANGED api => ApiOK'
         /\ UNCHANGED hist => HistOK'
<1> USE DEF TypeOK
<1>1. UNCHANGED board => BoardOK'
  BY DEF board, BoardOK
<1>2. UNCHANGED <<running, started, threads, burstSize, slopes>> => DriverOK'
  BY DEF DriverOK
<1>3. UNCHANGED pipe => PipeOK'
  BY DEF pipe, PipeOK
<1>4. UNCHANGED threadv => ThreadsOK'
  BY DEF threadv, ThreadsOK
<1>5. UNCHANGED api => ApiOK'
  BY DEF api, ApiOK
<1>6. UNCHANGED hist => HistOK'
  BY DEF hist, HistOK
<1>7. QED
  BY <1>1, <1>2, <1>3, <1>4, <1>5, <1>6

\* A call moves on to one of its steps, or returns.
LEMMA CallMoves ==
  ASSUME ApiOK
  PROVE  /\ \A step \in CallSteps :
              Goto(step) => /\ call' \in [at : CallSteps, by : {App} \cup Sessions]
                            /\ call'.at = step /\ call'.by = call.by
         /\ \A result \in Outcomes :
              Return(result) => /\ call' \in [at : CallSteps, by : {App} \cup Sessions]
                                /\ call'.at = "idle" /\ outcome' \in Outcomes
         /\ \A by \in {App} \cup Sessions, step \in CallSteps :
              Begin(by, step) => /\ call' \in [at : CallSteps, by : {App} \cup Sessions]
                                 /\ call'.at = step /\ call'.by = by
  BY DEF ApiOK, Goto, Return, Begin, Idle, CallSteps

\* The board's switch and the faults keep their types.
LEMMA SwitchType ==
  ASSUME BoardOK, ApiOK, NEW value \in BOOLEAN
  PROVE  /\ SetAdcAnswered(value) => BoardOK' /\ faults' = faults
         /\ SetAdcFailed(value) => BoardOK' /\ faults' \in Nat
  BY DEF BoardOK, ApiOK, SetAdcAnswered, SetAdcFailed, AdcBecomes, Fault

\* The calls of the API and the board.
LEMMA TypeCalls ==
  ASSUME TypeInv, ClientStep \/ CallStep \/ BoardRestart
  PROVE  TypeInv'
<1> USE DEF TypeInv, SessionNumbered, At
<1>0. BoardOK /\ DriverOK /\ PipeOK /\ ThreadsOK /\ ApiOK /\ HistOK
  BY DEF TypeOK
<1>1. CASE BoardRestart
  <2> USE <1>1 DEF BoardRestart
  <2>1. BoardOK'
    <3>1. next' = next /\ resets' = resets + 1 /\ adc' = FALSE
      BY DEF BoardRestart
    <3>2. next' \in Nat /\ resets' \in Nat
      BY <1>0, <3>1 DEF BoardOK
    <3>3. adc' \in BOOLEAN
      BY <3>1
    <3>4. QED
      BY <3>2, <3>3 DEF BoardOK
  <2>2. DriverOK' /\ PipeOK' /\ ThreadsOK' /\ ApiOK' /\ HistOK'
    BY Untouched
  <2>3. QED
    BY <2>1, <2>2 DEF TypeOK, api
<1>2. CASE AskBoard
  <2> USE <1>2 DEF AskBoard
  <2>1. DriverOK'
    BY <1>0 DEF DriverOK, BoardOK
  <2>2. BoardOK' /\ PipeOK' /\ ThreadsOK' /\ ApiOK' /\ HistOK'
    BY Untouched
  <2>3. QED
    BY <2>1, <2>2 DEF TypeOK, api
<1>3. ASSUME NEW size \in BurstSizes, SetDriverSettings(size) PROVE TypeInv'
  <2> USE <1>3 DEF SetDriverSettings
  <2>1. DriverOK'
    BY <1>0 DEF DriverOK, BoardOK
  <2>2. BoardOK' /\ PipeOK' /\ ThreadsOK' /\ ApiOK' /\ HistOK'
    BY Untouched
  <2>3. QED
    BY <2>1, <2>2 DEF TypeOK, api
<1>4. CASE StartCheck
  <2> USE <1>4 DEF StartCheck
  <2>1. DriverOK'
    BY <1>0 DEF DriverOK, BoardOK
  <2>2. ApiOK' /\ call'.at = "prepare"
    BY <1>0, CallMoves DEF ApiOK, DriverOK, Begin, CallSteps, App
  <2>3. BoardOK' /\ PipeOK' /\ ThreadsOK' /\ HistOK'
    BY Untouched
  <2>4. QED
    BY <2>1, <2>2, <2>3 DEF TypeOK
<1>5. CASE StartRefused
  <2> USE <1>5 DEF StartRefused
  <2>1. DriverOK'
    BY <1>0 DEF DriverOK, BoardOK
  <2>2. ApiOK'
    BY <1>0 DEF ApiOK, Outcomes
  <2>3. BoardOK' /\ PipeOK' /\ ThreadsOK' /\ HistOK'
    BY Untouched
  <2>4. QED
    BY <2>1, <2>2, <2>3 DEF TypeOK
<1>6. ASSUME NEW by \in {App} \cup Sessions, StopCheck(by) PROVE TypeInv'
  <2> USE <1>6 DEF StopCheck
  <2>1. DriverOK'
    BY <1>0 DEF DriverOK, BoardOK
  <2>2. ApiOK' /\ call'.at \in {"signal", "idle"}
    BY <1>0, CallMoves DEF ApiOK, DriverOK, Begin, CallSteps, Outcomes
  <2>3. BoardOK' /\ PipeOK' /\ ThreadsOK' /\ HistOK'
    BY Untouched
  <2>4. QED
    BY <2>1, <2>2, <2>3 DEF TypeOK
<1>7. CASE StartPrepare
  <2> USE <1>7 DEF StartPrepare
  <2>1. session' \in Sessions
    <3>1. session < MaxSessions /\ session' = session + 1
      OBVIOUS
    <3>2. QED
      BY <1>0, <3>1, ConstantsAssumption DEF ApiOK, Sessions
  <2>2. DriverOK'
    <3>1. slopes' \in 0 .. MaxSessions
      BY <2>1, ConstantsAssumption DEF Sessions
    <3>2. UNCHANGED <<running, started, threads, burstSize>>
      OBVIOUS
    <3>3. QED
      BY <1>0, <3>1, <3>2 DEF DriverOK
  <2>3. PipeOK'
    BY <1>0 DEF PipeOK
  <2>4. ApiOK' /\ call'.at = "enable"
    BY <1>0, <2>1, CallMoves DEF ApiOK, CallSteps, Sessions
  <2>5. BoardOK' /\ ThreadsOK' /\ HistOK'
    BY Untouched
  <2>6. QED
    BY <2>1, <2>2, <2>3, <2>4, <2>5 DEF TypeOK
<1>8. CASE StartEnable
  <2> USE <1>8 DEF StartEnable
  <2>1. BoardOK'
    BY <1>0, SwitchType
  <2>2. ApiOK' /\ call'.at \in {"flags", "idle"}
    BY <1>0, CallMoves, SwitchType DEF ApiOK, CallSteps, Outcomes, Return
  <2>3. DriverOK' /\ PipeOK' /\ ThreadsOK' /\ HistOK'
    BY Untouched
  <2>4. QED
    BY <2>1, <2>2, <2>3 DEF TypeOK
<1>9. CASE StartFlags
  <2> USE <1>9 DEF StartFlags
  <2>1. DriverOK'
    BY <1>0 DEF DriverOK
  <2>2. ApiOK' /\ call'.at = "spawnReader"
    BY <1>0, CallMoves DEF ApiOK, CallSteps
  <2>3. BoardOK' /\ PipeOK' /\ ThreadsOK' /\ HistOK'
    BY Untouched
  <2>4. QED
    BY <2>1, <2>2, <2>3 DEF TypeOK
<1>10. CASE SpawnReader
  <2> USE <1>10 DEF SpawnReader
  <2>1. DriverOK'
    BY <1>0 DEF DriverOK, Ids
  <2>2. ThreadsOK'
    BY <1>0 DEF ThreadsOK, ReaderSteps
  <2>3. ApiOK' /\ call'.at = "spawnProcessor"
    BY <1>0, CallMoves DEF ApiOK, CallSteps
  <2>4. BoardOK' /\ PipeOK' /\ HistOK'
    BY Untouched
  <2>5. QED
    BY <2>1, <2>2, <2>3, <2>4 DEF TypeOK
<1>11. CASE SpawnProcessor
  <2> USE <1>11 DEF SpawnProcessor
  <2>1. DriverOK'
    BY <1>0 DEF DriverOK, Ids
  <2>2. ThreadsOK'
    BY <1>0 DEF ThreadsOK, ProcSteps
  <2>3. ApiOK' /\ call'.at = "idle"
    BY <1>0, CallMoves DEF ApiOK, Outcomes, Return
  <2>4. BoardOK' /\ PipeOK' /\ HistOK'
    BY Untouched
  <2>5. QED
    BY <2>1, <2>2, <2>3, <2>4 DEF TypeOK
<1>12. CASE SpawnFailed
  <2> USE <1>12 DEF SpawnFailed
  <2>1. DriverOK'
    BY <1>0 DEF DriverOK
  <2>2. ApiOK' /\ call'.at = "unwind"
    BY <1>0, CallMoves DEF ApiOK, CallSteps, Fault
  <2>3. BoardOK' /\ PipeOK' /\ ThreadsOK' /\ HistOK'
    BY Untouched
  <2>4. QED
    BY <2>1, <2>2, <2>3 DEF TypeOK
<1>13. CASE Unwind
  <2> USE <1>13 DEF Unwind
  <2>1. DriverOK'
    BY <1>0 DEF DriverOK, ApiOK, Self
  <2>2. ApiOK' /\ call'.at = "idle"
    BY <1>0, CallMoves DEF ApiOK, Outcomes, Return
  <2>3. BoardOK' /\ PipeOK' /\ ThreadsOK' /\ HistOK'
    BY Untouched
  <2>4. QED
    BY <2>1, <2>2, <2>3 DEF TypeOK
<1>14. CASE StopSignal
  <2> USE <1>14 DEF StopSignal
  <2>1. DriverOK'
    BY <1>0 DEF DriverOK
  <2>2. ApiOK' /\ call'.at = "join"
    BY <1>0, CallMoves DEF ApiOK, CallSteps
  <2>3. BoardOK' /\ PipeOK' /\ ThreadsOK' /\ HistOK'
    BY Untouched
  <2>4. QED
    BY <2>1, <2>2, <2>3 DEF TypeOK
<1>15. CASE StopJoin
  <2> USE <1>15 DEF StopJoin
  <2>1. DriverOK'
    BY <1>0 DEF DriverOK, Self
  <2>2. PipeOK'
    BY <1>0, ConstantsAssumption DEF PipeOK, Drained, SkipReset
  <2>3. ApiOK' /\ call'.at = "disable"
    BY <1>0, CallMoves DEF ApiOK, CallSteps
  <2>4. BoardOK' /\ ThreadsOK' /\ HistOK'
    BY Untouched
  <2>5. QED
    BY <2>1, <2>2, <2>3, <2>4 DEF TypeOK
<1>16. CASE StopDisable
  <2> USE <1>16 DEF StopDisable
  <2>1. BoardOK'
    BY <1>0, SwitchType
  <2>2. DriverOK'
    BY <1>0 DEF DriverOK
  <2>3. ApiOK' /\ call'.at = "idle"
    BY <1>0, CallMoves, SwitchType DEF ApiOK, Outcomes, Return
  <2>4. PipeOK' /\ ThreadsOK' /\ HistOK'
    BY Untouched
  <2>5. QED
    BY <2>1, <2>2, <2>3, <2>4 DEF TypeOK
<1>17. QED
  BY <1>1, <1>2, <1>3, <1>4, <1>5, <1>6, <1>7, <1>8, <1>9, <1>10, <1>11, <1>12, <1>13, <1>14, <1>15, <1>16
     DEF ClientStep, CallStep

\* A call of a handler only touches the history and the thread's step.
LEMMA HandlerCallType ==
  ASSUME ThreadsOK, HistOK, NEW s \in Sessions, NEW rows \in Seq(Rows),
         NEW marker \in Nat, NEW last \in BOOLEAN,
         CallHandler(s, rows, marker, last)
  PROVE  HistOK' /\ proc' \in [Sessions -> ProcSteps]
<1>1. delivered' \in [Sessions -> Seq(Rows)]
  <2>1. delivered[s] \o rows \in Seq(Rows)
    BY ConcatProperties DEF HistOK
  <2>2. QED
    BY <2>1 DEF HistOK, CallHandler
<1>2. reported' \in [Sessions -> Nat] /\ lost' \in [Sessions -> Nat]
  BY DEF HistOK, CallHandler
<1>3. proc' \in [Sessions -> ProcSteps]
  BY DEF ThreadsOK, CallHandler, ProcSteps
<1>4. QED
  BY <1>1, <1>2, <1>3 DEF HistOK

\* The steps of the two threads.
LEMMA TypeThreads ==
  ASSUME TypeInv, NEW s \in Sessions, ReaderStep(s) \/ ProcessorStep(s)
  PROVE  TypeInv'
<1> USE DEF TypeInv
<1>0. BoardOK /\ DriverOK /\ PipeOK /\ ThreadsOK /\ ApiOK /\ HistOK
  BY DEF TypeOK
<1>a. UNCHANGED <<call, session>> => SessionNumbered'
  BY DEF SessionNumbered, At
<1>1. CASE ReaderCheck(s)
  <2> USE <1>1 DEF ReaderCheck
  <2>1. ThreadsOK'
    BY <1>0 DEF ThreadsOK, ReaderSteps
  <2>2. BoardOK' /\ DriverOK' /\ PipeOK' /\ ApiOK' /\ HistOK'
    BY Untouched
  <2>3. QED
    BY <2>1, <2>2, <1>a DEF TypeOK, api
<1>2. CASE SkipInvalid(s)
  <2> USE <1>2 DEF SkipInvalid
  <2>1. BoardOK' /\ PipeOK'
    <3>1. next' \in Nat /\ skip' \in 0 .. InvalidCount
      BY <1>0, ConstantsAssumption DEF BoardOK, PipeOK
    <3>2. UNCHANGED <<adc, resets, queue, errors, burst, hold, held>>
      OBVIOUS
    <3>3. QED
      BY <1>0, <3>1, <3>2 DEF BoardOK, PipeOK
  <2>2. DriverOK' /\ ThreadsOK' /\ ApiOK' /\ HistOK'
    BY Untouched
  <2>3. QED
    BY <2>1, <2>2, <1>a DEF TypeOK, api
<1>3. CASE ReadData(s)
  <2> USE <1>3 DEF ReadData
  <2>1. next' \in Nat /\ UNCHANGED <<adc, resets>>
    BY <1>0 DEF BoardOK
  <2>2. BoardOK'
    BY <1>0, <2>1 DEF BoardOK
  <2>3. <<<<s, next + 1>>>> \in Seq(Rows) /\ Len(<<<<s, next + 1>>>>) = 1
    BY <1>0 DEF BoardOK, Rows
  <2>4. ThreadsOK'
    BY <1>0, <2>3 DEF ThreadsOK, ReaderSteps
  <2>5. DriverOK' /\ PipeOK' /\ ApiOK' /\ HistOK'
    BY Untouched
  <2>6. QED
    BY <2>2, <2>4, <2>5, <1>a DEF TypeOK, api
<1>4. CASE Push(s)
  <2> USE <1>4 DEF Push
  <2>1. ThreadsOK'
    BY <1>0 DEF ThreadsOK, ReaderSteps
  <2>2. queue' \in Seq(Rows) /\ Len(queue') <= QueueCapacity
    <3>1. CASE QueueAccepts
      <4>1. queue' = queue \o inHand[s]
        BY <3>1
      <4>2. /\ inHand[s] \in Seq(Rows) /\ Len(inHand[s]) <= 1
            /\ queue \in Seq(Rows) /\ Len(queue) < QueueCapacity
        BY <1>0, <3>1 DEF ThreadsOK, PipeOK, QueueAccepts
      <4>3. Len(queue \o inHand[s]) = Len(queue) + Len(inHand[s])
        BY <4>2, ConcatProperties
      <4>4. queue \o inHand[s] \in Seq(Rows)
        BY <4>2, ConcatProperties
      <4>5. Len(queue) \in Nat /\ Len(inHand[s]) \in Nat
        BY <4>2, LenProperties
      <4>6. QED
        BY <4>1, <4>2, <4>3, <4>4, <4>5, ConstantsAssumption
    <3>2. CASE ~QueueAccepts
      BY <1>0, <3>2 DEF PipeOK
    <3>3. QED
      BY <3>1, <3>2
  <2>3. errors' \in Nat
    BY <1>0 DEF PipeOK
  <2>4. PipeOK'
    BY <1>0, <2>2, <2>3 DEF PipeOK
  <2>5. HistOK'
    <3>1. lost' \in [Sessions -> Nat]
      <4>1. CASE QueueAccepts
        BY <1>0, <4>1 DEF HistOK
      <4>2. CASE ~QueueAccepts
        BY <1>0, <4>2 DEF HistOK
      <4>3. QED
        BY <4>1, <4>2
    <3>2. UNCHANGED <<delivered, reported>>
      OBVIOUS
    <3>3. QED
      BY <1>0, <3>1, <3>2 DEF HistOK
  <2>6. BoardOK' /\ DriverOK' /\ ApiOK'
    BY Untouched
  <2>7. QED
    BY <2>1, <2>4, <2>5, <2>6, <1>a DEF TypeOK, api
<1>5. CASE Pop(s)
  <2> USE <1>5 DEF Pop
  <2> DEFINE n == Least(PopLimit, Len(queue))
  <2>1. n \in 0 .. Len(queue)
    BY <1>0, ConstantsAssumption, LenProperties DEF PipeOK, Least
  <2>2. /\ Prefix(queue, n) \in Seq(Rows) /\ Suffix(queue, n) \in Seq(Rows)
        /\ Len(Suffix(queue, n)) = Len(queue) - n
    <3> HIDE DEF n
    <3>1. QED
      BY <1>0, <2>1, PrefixSuffix DEF PipeOK
  <2>3. /\ running => batch' = [batch EXCEPT ![s] = Prefix(queue, n)]
                      /\ queue' = Suffix(queue, n)
        /\ ~running => UNCHANGED <<batch, queue>>
    OBVIOUS
  <2>4. queue' \in Seq(Rows) /\ Len(queue') <= QueueCapacity
    <3> HIDE DEF n
    <3>1. CASE running
      BY <1>0, <2>1, <2>2, <2>3, <3>1, ConstantsAssumption, LenProperties DEF PipeOK
    <3>2. CASE ~running
      BY <1>0, <2>3, <3>2 DEF PipeOK
    <3>3. QED
      BY <3>1, <3>2
  <2>5. PipeOK'
    BY <1>0, <2>4 DEF PipeOK
  <2>6. batch' \in [Sessions -> Seq(Rows)]
    <3> HIDE DEF n
    <3>1. QED
      BY <1>0, <2>2, <2>3 DEF ThreadsOK
  <2>7. proc' \in [Sessions -> ProcSteps]
    BY <1>0 DEF ThreadsOK, ProcSteps
  <2>8. ThreadsOK'
    BY <1>0, <2>6, <2>7 DEF ThreadsOK
  <2>9. BoardOK' /\ DriverOK' /\ ApiOK' /\ HistOK'
    BY Untouched
  <2>10. QED
    BY <2>5, <2>8, <2>9, <1>a DEF TypeOK, api
<1>6. CASE FetchErrors(s)
  <2> USE <1>6 DEF FetchErrors
  <2>1. PipeOK'
    BY <1>0 DEF PipeOK, CounterCleared
  <2>2. ThreadsOK'
    BY <1>0 DEF ThreadsOK, ProcSteps, PipeOK
  <2>3. BoardOK' /\ DriverOK' /\ ApiOK' /\ HistOK'
    BY Untouched
  <2>4. QED
    BY <2>1, <2>2, <2>3, <1>a DEF TypeOK, api
<1>7. CASE Process(s)
  <2> USE <1>7 DEF Process
  <2> DEFINE out == Resampled(s).out
             buffered == burst \o out
  <2>1. out \in Seq(Rows) /\ held' \in Seq(Rows)
    BY ResampledType
  <2>2. buffered \in Seq(Rows) /\ burst \in Seq(Rows) /\ errs[s] \in Nat
    BY <1>0, <2>1, ConcatProperties DEF PipeOK, ThreadsOK
  <2> HIDE DEF out
  <2>3. /\ burst' \in Seq(Rows)
        /\ HistOK' /\ proc' \in [Sessions -> ProcSteps]
    <3>1. ASSUME NEW rows \in Seq(Rows), CallHandler(s, rows, errs[s], FALSE)
          PROVE  HistOK' /\ proc' \in [Sessions -> ProcSteps]
      BY <1>0, <2>2, <3>1, HandlerCallType
    <3>2. \/ /\ burst' = buffered
             /\ proc' = [proc EXCEPT ![s] = "poll"]
             /\ UNCHANGED hist
          \/ burst' = <<>> /\ CallHandler(s, buffered, errs[s], FALSE)
          \/ UNCHANGED burst /\ CallHandler(s, out, errs[s], FALSE)
      BY DEF out
    <3>3. UNCHANGED hist => HistOK'
      BY Untouched
    <3>4. proc' = [proc EXCEPT ![s] = "poll"] => proc' \in [Sessions -> ProcSteps]
      BY <1>0 DEF ThreadsOK, ProcSteps
    <3> HIDE <1>7 DEF Process, buffered
    <3>5. QED
      BY <2>1, <2>2, <3>1, <3>2, <3>3, <3>4, EmptySeq
  <2>4. PipeOK'
    BY <1>0, <2>1, <2>3 DEF PipeOK
  <2>5. batch' \in [Sessions -> Seq(Rows)] /\ errs' \in [Sessions -> Nat]
    BY <1>0 DEF ThreadsOK
  <2>6. ThreadsOK'
    BY <1>0, <2>3, <2>5 DEF ThreadsOK
  <2>7. BoardOK' /\ DriverOK' /\ ApiOK'
    BY Untouched
  <2>8. QED
    BY <2>3, <2>4, <2>6, <2>7, <1>a DEF TypeOK, api
<1>8. CASE Flush(s)
  <2> USE <1>8 DEF Flush
  <2>1. Remainder \in Seq(Rows)
    BY <1>0, ConcatProperties DEF PipeOK, Remainder
  <2>2. HistOK' /\ proc' \in [Sessions -> ProcSteps]
    <3>1. CASE CallHandler(s, Remainder, 0, TRUE)
      BY <1>0, <2>1, <3>1, HandlerCallType
    <3>2. CASE proc' = [proc EXCEPT ![s] = "done"] /\ UNCHANGED hist
      BY <1>0, <3>2, Untouched DEF ThreadsOK, ProcSteps
    <3>3. QED
      BY <3>1, <3>2
  <2>3. PipeOK'
    BY <1>0 DEF PipeOK
  <2>4. ThreadsOK'
    BY <1>0, <2>2 DEF ThreadsOK
  <2>5. BoardOK' /\ DriverOK' /\ ApiOK'
    BY Untouched
  <2>6. QED
    BY <2>2, <2>3, <2>4, <2>5, <1>a DEF TypeOK, api
<1>9. CASE HandlerReturns(s)
  <2> USE <1>9 DEF HandlerReturns
  <2>1. ThreadsOK'
    BY <1>0 DEF ThreadsOK, ProcSteps
  <2>2. BoardOK' /\ DriverOK' /\ PipeOK' /\ ApiOK' /\ HistOK'
    BY Untouched
  <2>3. QED
    BY <2>1, <2>2, <1>a DEF TypeOK, api
<1>10. QED
  BY <1>1, <1>2, <1>3, <1>4, <1>5, <1>6, <1>7, <1>8, <1>9
     DEF ReaderStep, ProcessorStep

\* No step of any thread, call or fault takes a variable out of its type; in
\* particular record_queue_ never holds more than its capacity.
THEOREM TypeCorrect == Spec => []TypeOK
<1>1. TypeInv /\ [Next]_vars => TypeInv'
  <2> SUFFICES ASSUME TypeInv, [Next]_vars PROVE TypeInv'
    OBVIOUS
  <2>1. CASE ClientStep \/ CallStep \/ BoardRestart
    BY <2>1, TypeCalls
  <2>2. ASSUME NEW s \in Sessions, ReaderStep(s) \/ ProcessorStep(s)
        PROVE  TypeInv'
    BY <2>2, TypeThreads
  <2>3. CASE UNCHANGED vars
    <3>1. UNCHANGED <<board, pipe, threadv, api, hist>>
          /\ UNCHANGED <<running, started, threads, burstSize, slopes>>
      BY <2>3 DEF vars
    <3>2. TypeOK'
      BY <3>1, Untouched DEF TypeInv, TypeOK
    <3>3. SessionNumbered'
      BY <3>1 DEF TypeInv, SessionNumbered, api, At
    <3>4. QED
      BY <3>2, <3>3 DEF TypeInv
  <2>4. QED
    BY <2>1, <2>2, <2>3 DEF Next
<1>2. QED
  BY TypeInit, <1>1, PTL DEF Spec, TypeInv

-----------------------------------------------------------------------------
(* The thread discipline, when the board does not restart and no handler    *)
(* calls stop_measurement().                                                *)

\* The calls during which threads may exist, and those that see the ADCs on.
SpawnedAt == {"idle", "spawnProcessor", "unwind", "signal", "join"}
EnabledAt == {"flags", "spawnReader", "spawnProcessor", "unwind", "signal", "join"}
ResetAt   == {"prepare", "enable", "flags", "spawnReader", "disable"}

\* A live thread belongs to the current session and is in threads_, so that
\* join_threads() finds it.
LiveOwned ==
  \A s \in Sessions :
    /\ ReaderLive(s) => s = session /\ <<"reader", s>> \in threads
    /\ ProcLive(s) => s = session /\ <<"processor", s>> \in threads

ThreadsWhileOn == threads # {} => adc /\ call.at \in SpawnedAt
OnDuringCalls  == call.at \in EnabledAt => adc
OffWhenStopped == At("idle") /\ outcome = "stopped" => ~adc
QueueReset ==
  ~adc \/ call.at \in ResetAt => queue = <<>> /\ skip = InvalidCount
BuffersOwned ==
  burst # <<>> \/ held # <<>> =>
    \E s \in Sessions : ProcLive(s) /\ proc[s] # "lastHandler"

ControlInv ==
  /\ TypeInv
  /\ call.by = App
  /\ LiveOwned /\ ThreadsWhileOn /\ OnDuringCalls /\ OffWhenStopped
  /\ QueueReset /\ BuffersOwned

\* The invariant gives the three properties the runs check.
LEMMA ControlImplies ==
  ASSUME ControlInv
  PROVE  SingleProducerSingleConsumer /\ CleanStart /\ QuietAfterStop
<1>1. SingleProducerSingleConsumer
  <2>1. ASSUME At("join"), AllJoined, NEW s \in Sessions, ProcLive(s)
        PROVE  s = call.by
    <3>a. s # App
      BY DEF App, Sessions
    <3>b. call.by = App /\ <<"processor", s>> \in threads
      BY <2>1 DEF ControlInv, LiveOwned
    <3>1. <<"processor", s>> \in threads /\ <<"processor", s>> \notin Self
      BY <3>a, <3>b DEF Self
    <3>2. Ended(<<"processor", s>>)
      BY <2>1, <3>1 DEF AllJoined
    <3>3. QED
      BY <2>1, <3>2 DEF Ended, ProcLive
  <2>2. QED
    BY <2>1 DEF ControlInv, LiveOwned, SingleProducerSingleConsumer
<1>2. ASSUME threads = {}, NEW s \in Sessions
      PROVE  ~ReaderLive(s) /\ ~ProcLive(s)
  BY <1>2 DEF ControlInv, LiveOwned
<1>3. CleanStart
  <2> SUFFICES ASSUME At("prepare")
               PROVE  /\ threads = {} /\ queue = <<>> /\ skip = InvalidCount
                      /\ burst = <<>> /\ held = <<>>
    BY <1>2 DEF CleanStart
  <2>1. threads = {} /\ queue = <<>> /\ skip = InvalidCount
    BY DEF ControlInv, ThreadsWhileOn, QueueReset, At, SpawnedAt, ResetAt
  <2>2. QED
    BY <1>2, <2>1 DEF ControlInv, BuffersOwned
<1>4. QuietAfterStop
  BY <1>2 DEF QuietAfterStop, ControlInv, OffWhenStopped, ThreadsWhileOn
<1>5. QED
  BY <1>1, <1>3, <1>4

LEMMA ControlInit == Init => ControlInv
<1> SUFFICES ASSUME Init PROVE ControlInv
  OBVIOUS
<1>1. TypeInv /\ call.by = App /\ call.at = "idle"
  BY TypeInit DEF Init, Idle
<1>2. LiveOwned
  BY DEF Init, LiveOwned, ReaderLive, ProcLive
<1>3. ThreadsWhileOn /\ OnDuringCalls /\ OffWhenStopped
  BY <1>1 DEF Init, ThreadsWhileOn, OnDuringCalls, OffWhenStopped, EnabledAt
<1>4. QueueReset /\ BuffersOwned
  BY DEF Init, QueueReset, BuffersOwned
<1>5. QED
  BY <1>1, <1>2, <1>3, <1>4 DEF ControlInv

\* When every thread in threads_ has ended no thread is alive at all.
LEMMA JoinedMeansDead ==
  ASSUME ControlInv, AllJoined
  PROVE  /\ Self = {}
         /\ \A s \in Sessions : ~ReaderLive(s) /\ ~ProcLive(s)
<1>1. Self = {}
  BY DEF ControlInv, TypeInv, TypeOK, DriverOK, Ids, Sessions, App, Self
<1>2. ASSUME NEW s \in Sessions, ReaderLive(s) PROVE FALSE
  <2>1. <<"reader", s>> \in threads
    BY <1>2 DEF ControlInv, LiveOwned
  <2>2. Ended(<<"reader", s>>)
    BY <1>1, <2>1 DEF AllJoined
  <2>3. QED
    BY <1>2, <2>2 DEF Ended, ReaderLive
<1>3. ASSUME NEW s \in Sessions, ProcLive(s) PROVE FALSE
  <2>1. <<"processor", s>> \in threads
    BY <1>3 DEF ControlInv, LiveOwned
  <2>2. Ended(<<"processor", s>>)
    BY <1>1, <2>1 DEF AllJoined
  <2>3. QED
    BY <1>3, <2>2 DEF Ended, ProcLive
<1>4. QED
  BY <1>1, <1>2, <1>3

\* What a step leaves alone: the parts of the invariant about threads.
LEMMA ThreadPartsKept ==
  ASSUME ControlInv, UNCHANGED <<threadv, threads, session>>
  PROVE  LiveOwned'
  BY DEF ControlInv, LiveOwned, ReaderLive, ProcLive, threadv

LEMMA BuffersKept ==
  ASSUME ControlInv, UNCHANGED <<burst, held, proc>>
  PROVE  BuffersOwned'
  BY DEF ControlInv, BuffersOwned, ProcLive

LEMMA NoThreadsNoneLive ==
  ASSUME ControlInv, threads = {}
  PROVE  \A s \in Sessions : ~ReaderLive(s) /\ ~ProcLive(s)
  BY DEF ControlInv, LiveOwned

\* The calls of the API.
LEMMA ControlCalls ==
  ASSUME MaxResets = 0, HandlerStops = FALSE,
         ControlInv, ClientStep \/ CallStep \/ BoardRestart
  PROVE  ControlInv'
<1>0. /\ call.by = App /\ LiveOwned /\ ThreadsWhileOn /\ OnDuringCalls
      /\ OffWhenStopped /\ QueueReset /\ BuffersOwned /\ TypeInv
  BY DEF ControlInv
<1>t. TypeInv'
  BY <1>0, TypeCalls
<1>c. call \in [at : CallSteps, by : {App} \cup Sessions]
  BY <1>0 DEF TypeInv, TypeOK, ApiOK
<1>g. \A step \in CallSteps : Goto(step) => call'.at = step /\ call'.by = App
  BY <1>c, <1>0 DEF Goto
<1>r. \A result : Return(result) =>
                    call'.at = "idle" /\ call'.by = App /\ outcome' = result
  BY DEF Return, Idle
<1> USE DEF ThreadsWhileOn, OnDuringCalls, OffWhenStopped, QueueReset, At,
            SpawnedAt, EnabledAt, ResetAt
<1>1. CASE BoardRestart
  <2>1. resets \in Nat /\ resets < 0
    BY <1>0, <1>1 DEF BoardRestart, TypeInv, TypeOK, BoardOK
  <2>2. QED
    BY <2>1
<1>2. CASE AskBoard
  <2> USE <1>2 DEF AskBoard, board, pipe, api, threadv
  <2>1. LiveOwned' /\ BuffersOwned'
    BY ThreadPartsKept, BuffersKept
  <2>2. QED
    BY <1>0, <1>t, <2>1 DEF ControlInv
<1>3. ASSUME NEW size \in BurstSizes, SetDriverSettings(size)
      PROVE  ControlInv'
  <2> USE <1>3 DEF SetDriverSettings, board, pipe, api, threadv
  <2>1. LiveOwned' /\ BuffersOwned'
    BY ThreadPartsKept, BuffersKept
  <2>2. QED
    BY <1>0, <1>t, <2>1 DEF ControlInv
<1>4. CASE StartCheck
  <2> USE <1>4 DEF StartCheck, Begin, board, pipe, threadv
  <2>1. LiveOwned' /\ BuffersOwned'
    BY ThreadPartsKept, BuffersKept
  <2>2. call'.at = "prepare" /\ call'.by = App
    OBVIOUS
  <2>3. QED
    BY <1>0, <1>t, <2>1, <2>2 DEF ControlInv
<1>5. CASE StartRefused
  <2> USE <1>5 DEF StartRefused, board, pipe, threadv
  <2>1. LiveOwned' /\ BuffersOwned'
    BY ThreadPartsKept, BuffersKept
  <2>2. QED
    BY <1>0, <1>t, <2>1 DEF ControlInv
<1>6. ASSUME NEW by \in {App} \cup Sessions, StopCheck(by) PROVE ControlInv'
  <2> USE <1>6 DEF StopCheck, Begin, board, pipe, threadv
  <2>1. LiveOwned' /\ BuffersOwned'
    BY ThreadPartsKept, BuffersKept
  <2>2. call'.by = App /\ call.at = "idle"
    OBVIOUS
  <2>3. \/ adc /\ call'.at = "signal"
        \/ ~adc /\ call'.at = "idle"
    OBVIOUS
  <2>4. UNCHANGED <<adc, threads, queue, skip>>
    OBVIOUS
  <2>5. QED
    BY <1>0, <1>t, <2>1, <2>2, <2>3, <2>4 DEF ControlInv
<1>7. CASE StartPrepare
  <2> USE <1>7 DEF StartPrepare, board, threadv
  <2>1. call'.at = "enable" /\ call'.by = App
    BY <1>g DEF CallSteps
  <2>2. threads = {} /\ UNCHANGED <<adc, threads, queue, skip, burst, proc, reader>>
    BY <1>0
  <2>3. LiveOwned'
    BY <2>2, NoThreadsNoneLive DEF LiveOwned, ReaderLive, ProcLive
  <2>4. BuffersOwned'
    BY <1>0, <2>2 DEF BuffersOwned, ProcLive
  <2>5. QED
    BY <1>0, <1>t, <2>1, <2>2, <2>3, <2>4 DEF ControlInv
<1>8. CASE StartEnable
  <2> USE <1>8 DEF StartEnable, pipe, threadv, SetAdcAnswered, SetAdcFailed,
                   AdcBecomes
  <2>1. LiveOwned' /\ BuffersOwned'
    BY ThreadPartsKept, BuffersKept
  <2>2. threads = {} /\ UNCHANGED <<threads, queue, skip>>
    BY <1>0
  <2>3. \/ adc' = TRUE /\ call'.at = "flags" /\ call'.by = App
        \/ call'.at = "idle" /\ call'.by = App /\ outcome' = "startFailed"
    BY <1>g, <1>r DEF CallSteps
  <2>4. QED
    BY <1>0, <1>t, <2>1, <2>2, <2>3 DEF ControlInv
<1>9. CASE StartFlags
  <2> USE <1>9 DEF StartFlags, board, pipe, threadv
  <2>1. LiveOwned' /\ BuffersOwned'
    BY ThreadPartsKept, BuffersKept
  <2>2. call'.at = "spawnReader" /\ call'.by = App
    BY <1>g DEF CallSteps
  <2>3. QED
    BY <1>0, <1>t, <2>1, <2>2 DEF ControlInv
<1>10. CASE SpawnReader
  <2> USE <1>10 DEF SpawnReader, board, pipe
  <2>1. threads = {} /\ adc /\ UNCHANGED <<adc, queue, skip, session, proc>>
    BY <1>0
  <2>2. call'.at = "spawnProcessor" /\ call'.by = App
    BY <1>g DEF CallSteps
  <2>3. LiveOwned'
    BY <2>1, <1>0, NoThreadsNoneLive
       DEF LiveOwned, ReaderLive, ProcLive, TypeInv, TypeOK, ThreadsOK
  <2>4. BuffersOwned'
    BY BuffersKept
  <2>5. QED
    BY <1>0, <1>t, <2>1, <2>2, <2>3, <2>4 DEF ControlInv
<1>11. CASE SpawnProcessor
  <2> USE <1>11 DEF SpawnProcessor, board, pipe
  <2>1. adc /\ UNCHANGED <<adc, queue, skip, session, reader>>
    BY <1>0
  <2>2. call'.at = "idle" /\ call'.by = App /\ outcome' = "started"
    BY <1>r
  <2>3. LiveOwned'
    BY <2>1, <1>0 DEF LiveOwned, ReaderLive, ProcLive, TypeInv, TypeOK, ThreadsOK
  <2>4. BuffersOwned'
    <3>1. SUFFICES ASSUME burst # <<>> \/ held # <<>>
                   PROVE  \E s \in Sessions :
                            proc'[s] \notin {"none", "done", "lastHandler"}
      BY DEF BuffersOwned, ProcLive
    <3>2. PICK s \in Sessions : ProcLive(s) /\ proc[s] # "lastHandler"
      BY <1>0, <3>1 DEF BuffersOwned
    <3>3. proc'[s] \notin {"none", "done", "lastHandler"}
      BY <1>0, <3>2 DEF ProcLive, TypeInv, TypeOK, ThreadsOK
    <3>4. QED
      BY <3>3
  <2>5. QED
    BY <1>0, <1>t, <2>1, <2>2, <2>3, <2>4 DEF ControlInv
<1>12. CASE SpawnFailed
  <2> USE <1>12 DEF SpawnFailed, board, pipe, threadv
  <2>1. LiveOwned' /\ BuffersOwned'
    BY ThreadPartsKept, BuffersKept
  <2>2. call'.at = "unwind" /\ call'.by = App
    BY <1>g DEF CallSteps
  <2>3. QED
    BY <1>0, <1>t, <2>1, <2>2 DEF ControlInv
<1>13. CASE Unwind
  <2> USE <1>13 DEF Unwind, board, pipe, threadv
  <2>1. threads' = {} /\ \A s \in Sessions : ~ReaderLive(s) /\ ~ProcLive(s)
    BY JoinedMeansDead
  <2>2. LiveOwned'
    BY <2>1 DEF LiveOwned, ReaderLive, ProcLive
  <2>3. BuffersOwned'
    BY BuffersKept
  <2>4. call'.at = "idle" /\ call'.by = App /\ outcome' = "startFailed"
    BY <1>r
  <2>5. QED
    BY <1>0, <1>t, <2>1, <2>2, <2>3, <2>4 DEF ControlInv
<1>14. CASE StopSignal
  <2> USE <1>14 DEF StopSignal, board, pipe, threadv
  <2>1. LiveOwned' /\ BuffersOwned'
    BY ThreadPartsKept, BuffersKept
  <2>2. call'.at = "join" /\ call'.by = App
    BY <1>g DEF CallSteps
  <2>3. QED
    BY <1>0, <1>t, <2>1, <2>2 DEF ControlInv
<1>15. CASE StopJoin
  <2> USE <1>15 DEF StopJoin, board, threadv, Drained, SkipReset
  <2>1. threads' = {} /\ \A s \in Sessions : ~ReaderLive(s) /\ ~ProcLive(s)
    BY JoinedMeansDead
  <2>2. LiveOwned'
    BY <2>1 DEF LiveOwned, ReaderLive, ProcLive
  <2>3. BuffersOwned'
    BY BuffersKept
  <2>4. call'.at = "disable" /\ call'.by = App
    BY <1>g DEF CallSteps
  <2>5. QED
    BY <1>0, <1>t, <2>1, <2>2, <2>3, <2>4 DEF ControlInv
<1>16. CASE StopDisable
  <2> USE <1>16 DEF StopDisable, pipe, threadv, SetAdcAnswered, SetAdcFailed,
                    AdcBecomes
  <2>1. LiveOwned' /\ BuffersOwned'
    BY ThreadPartsKept, BuffersKept
  <2>2. threads = {} /\ UNCHANGED <<threads, queue, skip>>
    BY <1>0
  <2>3. /\ call'.at = "idle" /\ call'.by = App
        /\ \/ adc' = FALSE /\ outcome' = "stopped"
           \/ outcome' = "stopFailed"
    BY <1>r
  <2>4. QED
    BY <1>0, <1>t, <2>1, <2>2, <2>3 DEF ControlInv
<1>17. QED
  BY <1>1, <1>2, <1>3, <1>4, <1>5, <1>6, <1>7, <1>8, <1>9, <1>10, <1>11,
     <1>12, <1>13, <1>14, <1>15, <1>16
     DEF ClientStep, CallStep

\* The steps of the two threads.  While one of them lives the board measures
\* and no step of a call that needs an empty queue is being taken.
LEMMA ControlThreads ==
  ASSUME ControlInv, NEW s \in Sessions, ReaderStep(s) \/ ProcessorStep(s)
  PROVE  ControlInv'
<1>0. /\ call.by = App /\ LiveOwned /\ ThreadsWhileOn /\ OnDuringCalls
      /\ OffWhenStopped /\ QueueReset /\ BuffersOwned /\ TypeInv
  BY DEF ControlInv
<1>t. TypeInv'
  BY <1>0, TypeThreads
<1>p. reader \in [Sessions -> ReaderSteps] /\ proc \in [Sessions -> ProcSteps]
  BY <1>0 DEF TypeInv, TypeOK, ThreadsOK
<1>l. ReaderLive(s) \/ ProcLive(s)
  BY DEF ReaderStep, ProcessorStep, ReaderCheck, SkipInvalid, ReadData, Push,
         Pop, FetchErrors, Process, Flush, HandlerReturns, ReaderLive, ProcLive
<1>n. adc /\ call.at \in SpawnedAt
  BY <1>0, <1>l DEF LiveOwned, ThreadsWhileOn
<1>u. UNCHANGED <<adc, threads, call, session, outcome>>
  BY DEF ReaderStep, ProcessorStep, ReaderCheck, SkipInvalid, ReadData, Push,
         Pop, FetchErrors, Process, Flush, HandlerReturns, api, board
<1>1. call'.by = App /\ ThreadsWhileOn' /\ OnDuringCalls' /\ OffWhenStopped'
  BY <1>0, <1>u
     DEF ThreadsWhileOn, OnDuringCalls, OffWhenStopped, SpawnedAt, EnabledAt, At
<1>2. QueueReset'
  BY <1>n, <1>u DEF QueueReset, SpawnedAt, ResetAt
<1>3. /\ \A t \in Sessions : ReaderLive(t)' => ReaderLive(t)
      /\ \A t \in Sessions : ProcLive(t)' => ProcLive(t)
  <2>1. CASE ReaderStep(s)
    <3>1. /\ proc' = proc
          /\ \/ reader' = reader
             \/ \E step \in ReaderSteps : reader' = [reader EXCEPT ![s] = step]
      BY <2>1 DEF ReaderStep, ReaderCheck, SkipInvalid, ReadData, Push, threadv,
                  ReaderSteps
    <3>2. ReaderLive(s)
      BY <2>1 DEF ReaderStep, ReaderCheck, SkipInvalid, ReadData, Push,
                  ReaderLive
    <3>3. QED
      BY <3>1, <3>2, <1>p DEF ReaderLive, ProcLive
  <2>2. CASE ProcessorStep(s)
    <3>1. /\ reader' = reader
          /\ \E step \in ProcSteps : proc' = [proc EXCEPT ![s] = step]
      BY <2>2 DEF ProcessorStep, Pop, FetchErrors, Process, Flush,
                  HandlerReturns, CallHandler, ProcSteps
    <3>2. ProcLive(s)
      BY <2>2 DEF ProcessorStep, Pop, FetchErrors, Process, Flush,
                  HandlerReturns, ProcLive
    <3>3. QED
      BY <3>1, <3>2, <1>p DEF ReaderLive, ProcLive
  <2>3. QED
    BY <2>1, <2>2
<1>4. LiveOwned'
  BY <1>0, <1>3, <1>u DEF LiveOwned, ReaderLive, ProcLive
<1>5. BuffersOwned'
  <2>1. CASE ReaderStep(s)
    <3>1. UNCHANGED <<burst, held, proc>>
      BY <2>1 DEF ReaderStep, ReaderCheck, SkipInvalid, ReadData, Push, pipe,
                  threadv
    <3>2. QED
      BY <3>1, BuffersKept
  <2>2. CASE Flush(s)
    <3>1. burst' = <<>> /\ held' = <<>>
      BY <2>2 DEF Flush
    <3>2. QED
      BY <3>1 DEF BuffersOwned
  <2>3. CASE Process(s)
    <3>1. proc'[s] \in {"poll", "handler"}
      BY <2>3, <1>p DEF Process, CallHandler
    <3>2. QED
      BY <3>1 DEF BuffersOwned, ProcLive
  <2>4. CASE Pop(s) \/ FetchErrors(s)
    <3>1. proc'[s] \in {"poll", "fetch", "flush", "work"}
      BY <2>4, <1>p DEF Pop, FetchErrors
    <3>2. QED
      BY <3>1 DEF BuffersOwned, ProcLive
  <2>5. CASE HandlerReturns(s) /\ proc[s] = "handler"
    <3>1. proc'[s] = "poll"
      BY <2>5, <1>p DEF HandlerReturns
    <3>2. QED
      BY <3>1 DEF BuffersOwned, ProcLive
  <2>6. CASE HandlerReturns(s) /\ proc[s] = "lastHandler"
    <3>1. \A t \in Sessions : ProcLive(t) => t = s
      BY <1>0, <2>6 DEF LiveOwned, ProcLive
    <3>2. burst = <<>> /\ held = <<>>
      BY <1>0, <2>6, <3>1 DEF BuffersOwned
    <3>3. UNCHANGED <<burst, held>>
      BY <2>6 DEF HandlerReturns, pipe
    <3>4. QED
      BY <3>2, <3>3 DEF BuffersOwned
  <2>7. QED
    BY <2>1, <2>2, <2>3, <2>4, <2>5, <2>6 DEF ProcessorStep, HandlerReturns
<1>6. QED
  BY <1>t, <1>1, <1>2, <1>4, <1>5 DEF ControlInv

\* While the firmware does not restart and no handler stops the measurement,
\* whatever exchanges and thread creations fail: record_queue_ never has two
\* producers or two consumers, a session starts from a clean slate, and after
\* stop_measurement() no thread is left.
THEOREM ThreadDiscipline ==
  ASSUME MaxResets = 0, HandlerStops = FALSE
  PROVE  Spec => [](SingleProducerSingleConsumer /\ CleanStart /\ QuietAfterStop)
<1>1. ControlInv /\ [Next]_vars => ControlInv'
  <2> SUFFICES ASSUME ControlInv, [Next]_vars PROVE ControlInv'
    OBVIOUS
  <2>1. CASE ClientStep \/ CallStep \/ BoardRestart
    BY <2>1, ControlCalls
  <2>2. ASSUME NEW s \in Sessions, ReaderStep(s) \/ ProcessorStep(s)
        PROVE  ControlInv'
    BY <2>2, ControlThreads
  <2>3. CASE UNCHANGED vars
    <3>1. UNCHANGED <<board, pipe, threadv, api, hist>>
          /\ UNCHANGED <<running, started, threads, burstSize, slopes>>
      BY <2>3 DEF vars
    <3>2. TypeInv'
      <4>1. TypeOK'
        BY <3>1, Untouched DEF ControlInv, TypeInv, TypeOK
      <4>2. SessionNumbered'
        BY <3>1 DEF ControlInv, TypeInv, SessionNumbered, api, At
      <4>3. QED
        BY <4>1, <4>2 DEF TypeInv
    <3>3. LiveOwned' /\ BuffersOwned'
      BY <3>1, ThreadPartsKept, BuffersKept DEF threadv, api, pipe
    <3>4. call'.by = App /\ ThreadsWhileOn' /\ OnDuringCalls' /\ OffWhenStopped'
          /\ QueueReset'
      BY <3>1 DEF ControlInv, ThreadsWhileOn, OnDuringCalls, OffWhenStopped,
                  QueueReset, At, api, board, pipe
    <3>5. QED
      BY <3>2, <3>3, <3>4 DEF ControlInv
  <2>4. QED
    BY <2>1, <2>2, <2>3 DEF Next
<1>2. QED
  BY ControlInit, ControlImplies, <1>1, PTL DEF Spec

\* Under the same conditions a session leaves no thread, no record and no used
\* skip counter to the next one, and stop_measurement() leaves no thread.  The
\* count of lost records is not part of the property and does outlive it.
THEOREM SessionsAlone ==
  ASSUME MaxResets = 0, HandlerStops = FALSE
  PROVE  Spec => []SessionsStandAlone
  BY ThreadDiscipline, PTL DEF SessionsStandAlone

-----------------------------------------------------------------------------
(* No loss is reported twice: MarkersNotInvented.  The sum over the         *)
(* sessions is a recursive function; that it exists, and what it becomes    *)
(* when one session's count changes, is shown by least counterexample.      *)

\* The running sums of f, up to n sessions.
SumsTo(n, f, sum) ==
  /\ sum \in [0 .. n -> Nat] /\ sum[0] = 0
  /\ \A k \in 1 .. n : sum[k] = sum[k - 1] + f[k]

\* A set of numbers that has a member has a least one.
LEMMA LeastMember ==
  ASSUME NEW T, T \subseteq Nat, T # {}
  PROVE  \E x \in T : \A y \in T : ~(y < x)
<1> DEFINE R == OpToRel(<, Nat)
<1>1. PICK x \in T : \A y \in T : ~ (<<y, x>> \in R)
  <2> HIDE DEF R
  <2>1. IsWellFoundedOn(R, Nat)
    BY NatLessThanWellFounded DEF R
  <2> QED
    BY <2>1, WFMin
<1>2. \A y \in T : ~(y < x)
  BY <1>1 DEF OpToRel
<1> QED
  BY <1>2

\* There are running sums up to every number of sessions.
LEMMA SumsExist ==
  ASSUME NEW n \in Nat, NEW f \in [1 .. n -> Nat]
  PROVE  \E sum : SumsTo(n, f, sum)
<1> DEFINE T == {k \in 0 .. n : ~ \E sum : SumsTo(k, f, sum)}
<1> SUFFICES ASSUME T # {} PROVE FALSE
  <2>1. n \in 0 .. n
    OBVIOUS
  <2> QED
    BY <2>1
<1>1. T \subseteq Nat
  OBVIOUS
<1>2. PICK k \in T : \A y \in T : ~(y < k)
  <2> HIDE DEF T
  <2> QED
    BY <1>1, LeastMember
<1>3. k \in 0 .. n /\ ~ \E sum : SumsTo(k, f, sum)
  OBVIOUS
<1>4. CASE k = 0
  <2> DEFINE zero == [i \in 0 .. 0 |-> 0]
  <2>1. SumsTo(0, f, zero)
    BY DEF SumsTo
  <2> QED
    BY <1>3, <1>4, <2>1
<1>5. CASE k # 0
  <2>1. k - 1 \in 0 .. n /\ k - 1 < k /\ k \in 1 .. n
    BY <1>3, <1>5
  <2>2. k - 1 \notin T
    <3> HIDE DEF T
    <3> QED
      BY <1>2, <2>1
  <2>3. PICK sum : SumsTo(k - 1, f, sum)
    BY <2>1, <2>2
  <2> DEFINE more == [i \in 0 .. k |-> IF i = k THEN sum[k - 1] + f[k] ELSE sum[i]]
  <2>4. sum \in [0 .. k - 1 -> Nat] /\ f[k] \in Nat
    BY <2>1, <2>3 DEF SumsTo
  <2>5. more \in [0 .. k -> Nat]
    <3>1. ASSUME NEW i \in 0 .. k PROVE (IF i = k THEN sum[k - 1] + f[k] ELSE sum[i]) \in Nat
      BY <1>3, <2>1, <2>4
    <3> QED
      BY <3>1
  <2>6. more[0] = 0
    BY <1>3, <1>5, <2>3 DEF SumsTo
  <2>7. ASSUME NEW i \in 1 .. k PROVE more[i] = more[i - 1] + f[i]
    <3>1. CASE i = k
      BY <1>3, <2>1, <3>1
    <3>2. CASE i # k
      <4>1. i \in 1 .. k - 1 /\ i \in 0 .. k /\ i - 1 \in 0 .. k /\ i - 1 # k
        BY <1>3, <3>2
      <4> QED
        BY <2>3, <3>2, <4>1 DEF SumsTo
    <3> QED
      BY <3>1, <3>2
  <2>8. SumsTo(k, f, more)
    <3> HIDE DEF more
    <3> QED
      BY <2>5, <2>6, <2>7 DEF SumsTo
  <2> QED
    BY <1>3, <2>8
<1> QED
  BY <1>4, <1>5

\* Total is the last of the running sums.
LEMMA TotalIsSum ==
  ASSUME NEW f \in [Sessions -> Nat]
  PROVE  \E sum : SumsTo(MaxSessions, f, sum) /\ Total(f) = sum[MaxSessions]
<1>1. MaxSessions \in Nat
  BY ConstantsAssumption
<1>2. f \in [1 .. MaxSessions -> Nat]
  BY DEF Sessions
<1> DEFINE Sum(g) ==
      g = [s \in 0 .. MaxSessions |-> IF s = 0 THEN 0 ELSE g[s - 1] + f[s]]
<1>3. PICK g : SumsTo(MaxSessions, f, g)
  BY <1>1, <1>2, SumsExist
<1>4. Sum(g)
  <2>1. ASSUME NEW s \in 0 .. MaxSessions
        PROVE  g[s] = IF s = 0 THEN 0 ELSE g[s - 1] + f[s]
    BY <1>1, <1>3 DEF SumsTo
  <2>2. g = [s \in 0 .. MaxSessions |-> g[s]]
    BY <1>3 DEF SumsTo
  <2> QED
    BY <2>1, <2>2
<1> DEFINE sum == CHOOSE h : Sum(h)
<1>5. Sum(sum)
  <2> HIDE DEF Sum
  <2> QED
    BY <1>4
<1>6. Total(f) = sum[MaxSessions]
  BY DEF Total
<1>7. sum = g
  <2> DEFINE T == {k \in 0 .. MaxSessions : sum[k] # g[k]}
  <2> SUFFICES ASSUME T # {} PROVE FALSE
    <3>1. \A k \in 0 .. MaxSessions : sum[k] = g[k]
      OBVIOUS
    <3> HIDE DEF sum
    <3>2. /\ sum = [s \in 0 .. MaxSessions |-> sum[s]]
          /\ g = [s \in 0 .. MaxSessions |-> g[s]]
      BY <1>4, <1>5
    <3> QED
      BY <3>1, <3>2
  <2> HIDE DEF sum
  <2>1. T \subseteq Nat
    OBVIOUS
  <2>2. PICK k \in T : \A y \in T : ~(y < k)
    <3> HIDE DEF T
    <3> QED
      BY <2>1, LeastMember
  <2>3. k \in 0 .. MaxSessions /\ sum[k] # g[k]
    OBVIOUS
  <2>4. k # 0
    BY <1>1, <1>4, <1>5, <2>3
  <2>5. k - 1 \in 0 .. MaxSessions /\ k - 1 < k
    BY <1>1, <2>3, <2>4
  <2>6. k - 1 \notin T
    <3> HIDE DEF T
    <3> QED
      BY <2>2, <2>5
  <2>7. sum[k - 1] = g[k - 1]
    BY <2>5, <2>6
  <2>8. /\ sum[k] = IF k = 0 THEN 0 ELSE sum[k - 1] + f[k]
        /\ g[k] = IF k = 0 THEN 0 ELSE g[k - 1] + f[k]
    BY <1>4, <1>5, <2>3
  <2> QED
    BY <2>3, <2>4, <2>7, <2>8
<1> QED
  BY <1>3, <1>6, <1>7

\* When the count of one session changes, the sum changes by as much.
LEMMA TotalMoves ==
  ASSUME NEW f \in [Sessions -> Nat], NEW t \in Sessions, NEW v \in Nat
  PROVE  /\ Total(f) \in Nat /\ f[t] \in Nat
         /\ Total([f EXCEPT ![t] = v]) = Total(f) - f[t] + v
<1> DEFINE h == [f EXCEPT ![t] = v]
<1>0. MaxSessions \in Nat /\ t \in 1 .. MaxSessions
  BY ConstantsAssumption DEF Sessions
<1>1. h \in [Sessions -> Nat]
  OBVIOUS
<1>2. PICK a : SumsTo(MaxSessions, f, a) /\ Total(f) = a[MaxSessions]
  BY TotalIsSum
<1>3. PICK b : SumsTo(MaxSessions, h, b) /\ Total(h) = b[MaxSessions]
  <2> HIDE DEF h
  <2> QED
    BY <1>1, TotalIsSum
<1> DEFINE Moved(k) == b[k] = IF k < t THEN a[k] ELSE a[k] - f[t] + v
           T == {k \in 0 .. MaxSessions : ~ Moved(k)}
<1>4. T = {}
  <2> SUFFICES ASSUME T # {} PROVE FALSE
    OBVIOUS
  <2>1. T \subseteq Nat
    OBVIOUS
  <2>2. PICK k \in T : \A y \in T : ~(y < k)
    <3> HIDE DEF T
    <3> QED
      BY <2>1, LeastMember
  <2>3. k \in 0 .. MaxSessions /\ ~ Moved(k)
    OBVIOUS
  <2>4. k # 0
    BY <1>0, <1>2, <1>3, <2>3 DEF SumsTo
  <2>5. k \in 1 .. MaxSessions /\ k - 1 \in 0 .. MaxSessions /\ k - 1 < k
    BY <1>0, <2>3, <2>4
  <2>6. k - 1 \notin T
    <3> HIDE DEF T
    <3> QED
      BY <2>2, <2>5
  <2>7. Moved(k - 1)
    BY <2>5, <2>6
  <2>8. a[k] = a[k - 1] + f[k] /\ b[k] = b[k - 1] + h[k]
    BY <1>2, <1>3, <2>5 DEF SumsTo
  <2>9. /\ a[k - 1] \in Nat /\ b[k - 1] \in Nat /\ f[t] \in Nat
        /\ f[k] \in Nat /\ k \in Sessions
    BY <1>2, <1>3, <2>5 DEF SumsTo, Sessions
  <2>10. h[k] = IF k = t THEN v ELSE f[k]
    BY <2>9
  <2> HIDE DEF h, T
  <2>11. CASE k < t
    BY <1>0, <2>3, <2>5, <2>7, <2>8, <2>9, <2>10, <2>11
  <2>12. CASE k = t
    BY <1>0, <2>3, <2>5, <2>7, <2>8, <2>9, <2>10, <2>12
  <2>13. CASE k > t
    BY <1>0, <2>3, <2>5, <2>7, <2>8, <2>9, <2>10, <2>13
  <2> QED
    BY <1>0, <2>5, <2>11, <2>12, <2>13
<1>5. MaxSessions \in 0 .. MaxSessions
  BY <1>0
<1>6. Moved(MaxSessions)
  BY <1>4, <1>5
<1>7. a[MaxSessions] \in Nat
  BY <1>2, <1>5 DEF SumsTo
<1>8. Total(h) = Total(f) - f[t] + v
  BY <1>0, <1>2, <1>3, <1>6, <1>7
<1> QED
  BY <1>2, <1>7, <1>8

\* Nothing has been counted at first.
LEMMA TotalOfNothing == Total([s \in Sessions |-> 0]) = 0
<1> DEFINE f == [s \in Sessions |-> 0]
<1>0. MaxSessions \in Nat
  BY ConstantsAssumption
<1>1. f \in [Sessions -> Nat]
  OBVIOUS
<1>2. PICK a : SumsTo(MaxSessions, f, a) /\ Total(f) = a[MaxSessions]
  <2> HIDE DEF f
  <2> QED
    BY <1>1, TotalIsSum
<1> DEFINE T == {k \in 0 .. MaxSessions : a[k] # 0}
<1>3. T = {}
  <2> SUFFICES ASSUME T # {} PROVE FALSE
    OBVIOUS
  <2>1. T \subseteq Nat
    OBVIOUS
  <2>2. PICK k \in T : \A y \in T : ~(y < k)
    <3> HIDE DEF T
    <3> QED
      BY <2>1, LeastMember
  <2>3. k \in 0 .. MaxSessions /\ a[k] # 0
    OBVIOUS
  <2>4. k # 0
    BY <1>2, <2>3 DEF SumsTo
  <2>5. k \in 1 .. MaxSessions /\ k - 1 \in 0 .. MaxSessions /\ k - 1 < k
    BY <1>0, <2>3, <2>4
  <2>6. k - 1 \notin T
    <3> HIDE DEF T
    <3> QED
      BY <2>2, <2>5
  <2>7. a[k - 1] = 0
    BY <2>5, <2>6
  <2>8. a[k] = a[k - 1] + f[k] /\ f[k] = 0
    BY <1>2, <2>5 DEF SumsTo, Sessions
  <2> QED
    BY <2>3, <2>7, <2>8
<1> QED
  BY <1>0, <1>2, <1>3

\* Each step keeps the markers and the counts at or below the losses: a marker
\* is given by taking it from the thread, a count by taking it from the counter,
\* and the counter goes up with a loss.
LEMMA MarkersKept ==
  ASSUME TypeOK, MarkersNotInvented, [Next]_vars
  PROVE  MarkersNotInvented'
<1>0. /\ reported \in [Sessions -> Nat] /\ errs \in [Sessions -> Nat]
      /\ lost \in [Sessions -> Nat] /\ errors \in Nat
  BY DEF TypeOK, HistOK, ThreadsOK, PipeOK
<1> DEFINE Same == UNCHANGED <<reported, errs, errors, lost>>
<1>1. CASE Same
  BY <1>1 DEF MarkersNotInvented
<1> HIDE DEF Same
<1>2. ASSUME NEW s \in Sessions, Push(s) PROVE MarkersNotInvented'
  <2>1. UNCHANGED <<reported, errs>>
    BY <1>2 DEF Push, threadv, hist
  <2>2. CASE QueueAccepts
    <3>1. Same
      BY <1>2, <2>1, <2>2 DEF Push, Same
    <3> QED
      BY <1>1, <3>1
  <2>3. CASE ~ QueueAccepts
    <3>1. errors' = errors + 1 /\ lost' = [lost EXCEPT ![s] = lost[s] + 1]
      BY <1>2, <2>3 DEF Push
    <3>2. lost[s] \in Nat /\ lost[s] + 1 \in Nat
      BY <1>0
    <3>3. Total(lost) \in Nat /\ Total(lost') = Total(lost) - lost[s] + (lost[s] + 1)
      BY <1>0, <3>1, <3>2, TotalMoves
    <3>4. Total(reported) \in Nat /\ Total(errs) \in Nat
      BY <1>0, <1>2, TotalMoves, Zenon
    <3> QED
      BY <1>0, <2>1, <3>1, <3>2, <3>3, <3>4 DEF MarkersNotInvented
  <2> QED
    BY <2>2, <2>3
<1>3. ASSUME NEW s \in Sessions, FetchErrors(s) PROVE MarkersNotInvented'
  <2> DEFINE v == IF batch[s] = <<>> THEN 0 ELSE errors
  <2>1. /\ errors' = 0 /\ errs' = [errs EXCEPT ![s] = v]
        /\ UNCHANGED <<lost, reported>>
    BY <1>3 DEF FetchErrors, CounterCleared, hist
  <2>2. v \in Nat /\ v <= errors
    BY <1>0
  <2> HIDE DEF v
  <2>3. Total(errs) \in Nat /\ errs[s] \in Nat /\ Total(errs') = Total(errs) - errs[s] + v
    BY <1>0, <2>1, <2>2, TotalMoves
  <2>4. Total(reported) \in Nat /\ Total(lost) \in Nat
    BY <1>0, <1>3, TotalMoves, Zenon
  <2> QED
    BY <1>0, <2>1, <2>2, <2>3, <2>4 DEF MarkersNotInvented
<1>4. ASSUME NEW s \in Sessions, Process(s) PROVE MarkersNotInvented'
  <2>1. /\ errs' = [errs EXCEPT ![s] = 0] /\ UNCHANGED errors
        /\ \/ UNCHANGED hist
           \/ \E rows : CallHandler(s, rows, errs[s], FALSE)
    BY <1>4 DEF Process
  <2>2. /\ UNCHANGED lost
        /\ UNCHANGED reported \/ reported' = [reported EXCEPT ![s] = reported[s] + errs[s]]
    BY <2>1 DEF CallHandler, hist
  <2>3. 0 \in Nat /\ errs[s] \in Nat /\ reported[s] \in Nat /\ reported[s] + errs[s] \in Nat
    BY <1>0
  <2>4. Total(errs) \in Nat /\ Total(errs') = Total(errs) - errs[s] + 0
    BY <1>0, <2>1, <2>3, TotalMoves
  <2>5. Total(reported) \in Nat /\ Total(lost) \in Nat
    BY <1>0, <1>4, TotalMoves, Zenon
  <2>6. CASE UNCHANGED reported
    BY <1>0, <2>1, <2>2, <2>3, <2>4, <2>5, <2>6 DEF MarkersNotInvented
  <2>7. CASE reported' = [reported EXCEPT ![s] = reported[s] + errs[s]]
    <3>1. Total(reported') = Total(reported) - reported[s] + (reported[s] + errs[s])
      BY <1>0, <2>3, <2>7, TotalMoves
    <3> QED
      BY <1>0, <2>1, <2>2, <2>3, <2>4, <2>5, <3>1 DEF MarkersNotInvented
  <2> QED
    BY <2>2, <2>6, <2>7
<1>5. ASSUME NEW s \in Sessions, Flush(s) PROVE MarkersNotInvented'
  <2>1. /\ UNCHANGED <<errs, errors>>
        /\ UNCHANGED hist \/ \E rows : CallHandler(s, rows, 0, TRUE)
    BY <1>5 DEF Flush
  <2>2. UNCHANGED lost /\ (UNCHANGED reported \/ reported' = [reported EXCEPT ![s] = reported[s] + 0])
    BY <2>1 DEF CallHandler, hist
  <2>3. UNCHANGED reported
    <3>1. reported[s] + 0 = reported[s]
      BY <1>0
    <3>2. [reported EXCEPT ![s] = reported[s]] = reported
      BY <1>0
    <3> QED
      BY <2>2, <3>1, <3>2, Zenon
  <2>4. Same
    BY <2>1, <2>2, <2>3 DEF Same
  <2> QED
    BY <1>1, <2>4
<1>6. CASE UNCHANGED vars
  <2>1. Same
    BY <1>6 DEF vars, pipe, threadv, hist, Same
  <2> QED
    BY <1>1, <2>1
<1>7. CASE BoardRestart \/ ClientStep
  <2>1. Same
    BY <1>7 DEF BoardRestart, ClientStep, AskBoard, SetDriverSettings, StartCheck,
         StartRefused, StopCheck, pipe, threadv, hist, Same
  <2> QED
    BY <1>1, <2>1
<1>8. CASE CallStep
  <2>1. Same
    BY <1>8 DEF CallStep, StartPrepare, StartEnable, StartFlags, SpawnReader,
         SpawnProcessor, SpawnFailed, Unwind, StopSignal, StopJoin, StopDisable,
         pipe, threadv, hist, Same
  <2> QED
    BY <1>1, <2>1
<1>9. ASSUME NEW s \in Sessions,
             ReaderCheck(s) \/ SkipInvalid(s) \/ ReadData(s) \/ Pop(s) \/ HandlerReturns(s)
      PROVE  MarkersNotInvented'
  <2>1. Same
    BY <1>9 DEF ReaderCheck, SkipInvalid, ReadData, Pop, HandlerReturns, pipe,
         threadv, hist, Same
  <2> QED
    BY <1>1, <2>1
<1> QED
  BY <1>2, <1>3, <1>4, <1>5, <1>6, <1>7, <1>8, <1>9
     DEF Next, ReaderStep, ProcessorStep

\* A loss is reported at most once: over all sessions, whatever faults, restarts
\* of the board and calls out of handlers happen, the markers given to handlers
\* and the counts still to be given never exceed the records lost.
THEOREM LossReportedOnce == Spec => []MarkersNotInvented
<1>1. Init => MarkersNotInvented
  BY TotalOfNothing DEF Init, MarkersNotInvented
<1>2. TypeOK /\ MarkersNotInvented /\ [Next]_vars => MarkersNotInvented'
  BY MarkersKept
<1> QED
  BY <1>1, <1>2, TypeCorrect, PTL DEF Spec

=============================================================================
