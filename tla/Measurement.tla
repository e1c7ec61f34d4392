---------------------------- MODULE Measurement ----------------------------
(***************************************************************************)
(* The measurement pipeline of the driver (class iDriver, src/driver.cpp). *)
(*                                                                         *)
(* A reader thread takes data sets from the board and pushes them into the *)
(* bounded queue record_queue_; a processing thread pops them, passes them *)
(* through the resampler and the burst buffer and calls the user's data    *)
(* handler.  The application (or the handler itself) starts and stops the  *)
(* measurement; both talk to the board over an SPI link that may fail.     *)
(*                                                                         *)
(* A row is <<s, k>>: read by the reader of session s, the k-th data set   *)
(* since the board's ADCs were enabled.  A session is one attempt to start *)
(* the measurement that passed its checks.                                 *)
(***************************************************************************)
EXTENDS Integers, Sequences

CONSTANTS
  MaxSessions,    \* bound: sessions started in a behaviour
  MaxReads,       \* bound: data sets read per session
  MaxFaults,      \* bound: failed exchanges and failed thread creations
  MaxResets,      \* bound: restarts of the firmware during a measurement
  QueueCapacity,  \* capacity of record_queue_ (3000 in the code)
  PopLimit,       \* records popped at once (10 in the code)
  InvalidCount,   \* initial_invalid_datasets_count (32 in the code)
  BurstSizes,     \* values set_driver_settings() may give burst_buffer_size_
  HoldBacks,      \* rows a resampler holds back (0: no resampler)
  HandlerStops    \* may the data handler call stop_measurement()?

ASSUME ConstantsAssumption ==
  /\ MaxSessions \in Nat /\ MaxReads \in Nat /\ MaxFaults \in Nat
  /\ MaxResets \in Nat
  /\ QueueCapacity \in Nat \ {0} /\ PopLimit \in Nat \ {0}
  /\ InvalidCount \in Nat
  /\ BurstSizes \subseteq Nat /\ 0 \in BurstSizes
  /\ HoldBacks \subseteq Nat /\ HoldBacks # {}
  /\ HandlerStops \in BOOLEAN

Sessions == 1 .. MaxSessions
App == 0                        \* the caller that is not a handler
Rows == Sessions \X Nat

VARIABLES
  \* --- the board -----------------------------------------------------------
  adc,          \* channelsAdcEnabled
  next,         \* data sets produced since the ADCs were enabled
  resets,       \* restarts of the firmware so far
  \* --- fields of iDriver -------------------------------------------------
  running,      \* is_threads_running_
  started,      \* is_measurement_started_ (a cache of adc)
  threads,      \* threads_: the pairs <<kind, session>> it holds
  skip,         \* read_skip_count_
  queue,        \* record_queue_
  errors,       \* record_error_count_
  burst,        \* burst_buffer_
  burstSize,    \* burst_buffer_size_
  hold,         \* resampler_: rows it holds back when it is full
  held,         \* resampler_: rows it holds back now
  slopes,       \* the session calibration_slopes_ were computed for
  \* --- threads -----------------------------------------------------------
  reader,       \* reader[s]: the step data_reading() of session s is at
  inHand,       \* inHand[s]: the row it has read and not pushed yet
  proc,         \* proc[s]: the step data_processing() of session s is at
  batch,        \* batch[s]: the records it has popped
  errs,         \* errs[s]: its local `errors`
  \* --- the API call in progress ------------------------------------------
  call,         \* [at, by]: its next step and who makes it
  session,      \* sessions so far
  faults,       \* failed exchanges and thread creations so far
  outcome,      \* how the last start/stop ended
  saved,        \* threads and slopes when the last call began
  \* --- history -----------------------------------------------------------
  lost,         \* lost[s]: rows whose push failed
  delivered,    \* delivered[s]: rows given to the handler of session s
  reported      \* reported[s]: sum of the error markers given to it

board   == <<adc, next, resets>>
threadv == <<reader, inHand, proc, batch, errs>>
hist    == <<lost, delivered, reported>>
pipe    == <<skip, queue, errors, burst, hold, held>>
api     == <<call, session, faults, outcome, saved>>
vars    == <<board, running, started, threads, pipe, burstSize, slopes,
             threadv, api, hist>>

Idle == [at |-> "idle", by |-> App]
Ids  == {"reader", "processor"} \X Sessions

-----------------------------------------------------------------------------
Init ==
  /\ adc = FALSE /\ next = 0 /\ resets = 0
  /\ running = FALSE /\ started = FALSE /\ threads = {}
  /\ skip = InvalidCount
  /\ queue = <<>> /\ errors = 0 /\ burst = <<>> /\ burstSize = 0
  /\ hold = 0 /\ held = <<>> /\ slopes = 0
  /\ reader = [s \in Sessions |-> "none"]
  /\ inHand = [s \in Sessions |-> <<>>]
  /\ proc   = [s \in Sessions |-> "none"]
  /\ batch  = [s \in Sessions |-> <<>>]
  /\ errs   = [s \in Sessions |-> 0]
  /\ call = Idle /\ session = 0 /\ faults = 0 /\ outcome = "none"
  /\ saved = [threads |-> {}, slopes |-> 0]
  /\ lost      = [s \in Sessions |-> 0]
  /\ delivered = [s \in Sessions |-> <<>>]
  /\ reported  = [s \in Sessions |-> 0]

-----------------------------------------------------------------------------
(* The SPI link as the driver sees it: an exchange fails by an exception,   *)
(* before or after the board has carried the request out.                   *)

Fault == faults < MaxFaults /\ faults' = faults + 1

\* spi_set_channels_adc_enabled(value): enabling restarts the data stream.
AdcBecomes(value) ==
  /\ adc' = value
  /\ next' = IF value /\ ~adc THEN 0 ELSE next

SetAdcAnswered(value) ==
  AdcBecomes(value) /\ UNCHANGED <<faults, resets>>

SetAdcFailed(value) ==
  /\ Fault
  /\ AdcBecomes(value) \/ UNCHANGED <<adc, next>>
  /\ UNCHANGED resets

\* The firmware restarts: every setting the board keeps in RAM is lost.
BoardRestart ==
  /\ adc /\ resets < MaxResets
  /\ adc' = FALSE /\ resets' = resets + 1
  /\ UNCHANGED <<next, running, started, threads, pipe, burstSize, slopes,
                 threadv, api, hist>>

-----------------------------------------------------------------------------
(* API calls.  Calls are serialised by the application: the class does not  *)
(* promise that they may overlap.                                           *)

At(step) == call.at = step
Goto(step) == call' = [call EXCEPT !.at = step]
Return(result) == call' = Idle /\ outcome' = result

\* Where a call may begin: in the application, or inside a handler.
Begin(by, step) ==
  /\ At("idle")
  /\ \/ by = App
     \/ HandlerStops /\ by \in Sessions /\ proc[by] \in {"handler", "lastHandler"}
  /\ call' = [at |-> step, by |-> by]
  /\ saved' = [threads |-> threads, slopes |-> slopes]

\* is_measurement_started(true): the answer of the board becomes the cache.
AskBoard ==
  /\ At("idle")
  /\ started' = adc
  /\ UNCHANGED <<board, running, threads, pipe, burstSize, slopes, threadv,
                 api, hist>>

\* set_driver_settings(): refused while the board measures.
SetDriverSettings(size) ==
  /\ At("idle")
  /\ started' = adc
  /\ burstSize' = IF adc THEN burstSize ELSE size
  /\ UNCHANGED <<board, running, threads, pipe, slopes, threadv, api, hist>>

\* start_measurement(), up to the checks: a measurement already started is
\* refused, and so is one whose settings are missing or whose exchange fails.
StartCheck ==
  /\ session < MaxSessions
  /\ Begin(App, "prepare")
  /\ started' = adc
  /\ ~adc
  /\ UNCHANGED <<board, running, threads, pipe, burstSize, slopes, threadv,
                 session, faults, outcome, hist>>

StartRefused ==
  /\ At("idle") /\ adc
  /\ started' = adc
  /\ outcome' = "refused"
  /\ UNCHANGED <<board, running, threads, pipe, burstSize, slopes, threadv,
                 call, session, faults, saved, hist>>

\* The calibration slopes are swapped in and the resampler is made anew.
StartPrepare ==
  /\ At("prepare")
  /\ session' = session + 1
  /\ slopes' = session + 1
  /\ hold' \in HoldBacks /\ held' = <<>>
  /\ Goto("enable")
  /\ UNCHANGED <<board, running, started, threads, skip, queue, errors, burst,
                 burstSize, threadv, faults, outcome, saved, hist>>

StartEnable ==
  /\ At("enable")
  /\ \/ SetAdcAnswered(TRUE) /\ Goto("flags") /\ UNCHANGED outcome
     \/ SetAdcFailed(TRUE) /\ Return("startFailed")
  /\ UNCHANGED <<running, started, threads, pipe, burstSize, slopes, threadv,
                 session, saved, hist>>

\* The try block: the flags, then one thread after the other.
StartFlags ==
  /\ At("flags")
  /\ running' = TRUE /\ started' = TRUE
  /\ Goto("spawnReader")
  /\ UNCHANGED <<board, threads, pipe, burstSize, slopes, threadv, session,
                 faults, outcome, saved, hist>>

SpawnReader ==
  /\ At("spawnReader")
  /\ threads' = threads \cup {<<"reader", session>>}
  /\ reader' = [reader EXCEPT ![session] = "check"]
  /\ Goto("spawnProcessor")
  /\ UNCHANGED <<board, running, started, pipe, burstSize, slopes, inHand, proc, batch, errs,
                 session, faults, outcome, saved, hist>>

SpawnProcessor ==
  /\ At("spawnProcessor")
  /\ threads' = threads \cup {<<"processor", session>>}
  /\ proc' = [proc EXCEPT ![session] = "poll"]
  /\ Return("started")
  /\ UNCHANGED <<board, running, started, pipe, burstSize, slopes, reader,
                 inHand, batch, errs, session, faults, saved, hist>>

\* The catch block: a thread could not be created.
SpawnFailed ==
  /\ At("spawnReader") \/ At("spawnProcessor")
  /\ Fault
  /\ started' = FALSE /\ running' = FALSE
  /\ Goto("unwind")
  /\ UNCHANGED <<board, threads, pipe, burstSize, slopes, threadv, session,
                 outcome, saved, hist>>

\* join_threads(): every thread but the calling one is waited for.
BugSelf == {}                                      \* joins itself, too
Self == {<<"processor", call.by>>} \cap threads

Ended(t) == IF t[1] = "reader" THEN reader[t[2]] = "done" ELSE proc[t[2]] = "done"

BugAllJoined ==                                    \* joins the reader only
  \A t \in threads \ Self : t[1] = "reader" => Ended(t)
AllJoined == \A t \in threads \ Self : Ended(t)

Unwind ==
  /\ At("unwind") /\ AllJoined
  /\ threads' = Self
  /\ slopes' = saved.slopes
  /\ Return("startFailed")
  /\ UNCHANGED <<board, running, started, pipe, burstSize, threadv, session,
                 faults, saved, hist>>

\* stop_measurement().  The board is asked whether there is anything to stop.
StopCheck(by) ==
  /\ started' = adc
  /\ \/ adc /\ Begin(by, "signal") /\ UNCHANGED outcome
     \/ ~adc /\ Begin(by, "idle") /\ outcome' = "stopped"
  /\ UNCHANGED <<board, running, threads, pipe, burstSize, slopes, threadv,
                 session, faults, hist>>

StopSignal ==
  /\ At("signal")
  /\ running' = FALSE
  /\ Goto("join")
  /\ UNCHANGED <<board, started, threads, pipe, burstSize, slopes, threadv,
                 session, faults, outcome, saved, hist>>

\* The threads are joined, the queue is drained, the skip counter reset.
BugDrained == queue' = queue                       \* the queue is not drained
BugSkipReset == skip' = skip                       \* the counter is not reset
Drained   == queue' = <<>>
SkipReset == skip' = InvalidCount

StopJoin ==
  /\ At("join") /\ AllJoined
  /\ threads' = Self
  /\ Drained
  /\ SkipReset
  /\ Goto("disable")
  /\ UNCHANGED <<board, running, started, errors, burst, hold, held, burstSize,
                 slopes, threadv, session, faults, outcome, saved, hist>>

StopDisable ==
  /\ At("disable")
  /\ \/ SetAdcAnswered(FALSE) /\ started' = FALSE /\ Return("stopped")
     \/ SetAdcFailed(FALSE) /\ Return("stopFailed") /\ UNCHANGED started
  /\ UNCHANGED <<running, threads, pipe, burstSize, slopes, threadv, session,
                 saved, hist>>

-----------------------------------------------------------------------------
(* The reader thread: data_reading() and read_data().                       *)

ReaderCheck(s) ==
  /\ reader[s] = "check"
  /\ \/ running /\ next + skip < MaxReads /\ reader' = [reader EXCEPT ![s] = "read"]
     \/ ~running /\ reader' = [reader EXCEPT ![s] = "done"]
  /\ UNCHANGED <<board, running, started, threads, pipe, burstSize, slopes,
                 inHand, proc, batch, errs, api, hist>>

\* The first data sets after the start are invalid and thrown away.
SkipInvalid(s) ==
  /\ reader[s] = "read" /\ skip > 0
  /\ skip' = skip - 1
  /\ next' = next + 1
  /\ UNCHANGED <<adc, resets, running, started, threads, queue, errors, burst,
                 hold, held, burstSize, slopes, threadv, api, hist>>

ReadData(s) ==
  /\ reader[s] = "read" /\ skip = 0
  /\ next' = next + 1
  /\ inHand' = [inHand EXCEPT ![s] = <<<<s, next + 1>>>>]
  /\ reader' = [reader EXCEPT ![s] = "push"]
  /\ UNCHANGED <<adc, resets, running, started, threads, pipe, burstSize,
                 slopes, proc, batch, errs, api, hist>>

\* A full queue refuses the record: it is lost and counted.
BugQueueAccepts == Len(queue) <= QueueCapacity     \* one slot too many
QueueAccepts == Len(queue) < QueueCapacity

Push(s) ==
  /\ reader[s] = "push"
  /\ IF QueueAccepts
     THEN queue' = queue \o inHand[s] /\ UNCHANGED <<errors, lost>>
     ELSE /\ errors' = errors + 1
          /\ lost' = [lost EXCEPT ![s] = @ + 1]
          /\ UNCHANGED queue
  /\ inHand' = [inHand EXCEPT ![s] = <<>>]
  /\ reader' = [reader EXCEPT ![s] = "check"]
  /\ UNCHANGED <<board, running, started, threads, skip, burst, hold, held,
                 burstSize, slopes, proc, batch, errs, api, delivered,
                 reported>>

-----------------------------------------------------------------------------
(* The processing thread: data_processing().                                *)

Prefix(rows, n) == SubSeq(rows, 1, n)
Suffix(rows, n) == SubSeq(rows, n + 1, Len(rows))
Least(m, n) == IF m < n THEN m ELSE n

\* Up to PopLimit records leave the queue; a stopped loop goes to the flush.
Pop(s) ==
  /\ proc[s] = "poll"
  /\ IF running
     THEN LET n == Least(PopLimit, Len(queue)) IN
          /\ batch' = [batch EXCEPT ![s] = Prefix(queue, n)]
          /\ queue' = Suffix(queue, n)
          /\ proc' = [proc EXCEPT ![s] = "fetch"]
     ELSE proc' = [proc EXCEPT ![s] = "flush"] /\ UNCHANGED <<batch, queue>>
  /\ UNCHANGED <<board, running, started, threads, skip, errors, burst, hold,
                 held, burstSize, slopes, reader, inHand, errs, api, hist>>

\* The error counter is taken over; with nothing popped the turn ends there.
BugCounterCleared == errors' = errors              \* load() for fetch_and(0)
CounterCleared == errors' = 0

FetchErrors(s) ==
  /\ proc[s] = "fetch"
  /\ CounterCleared
  /\ errs' = [errs EXCEPT ![s] = IF batch[s] = <<>> THEN 0 ELSE errors]
  /\ proc' = [proc EXCEPT ![s] = IF batch[s] = <<>> THEN "poll" ELSE "work"]
  /\ UNCHANGED <<board, running, started, threads, skip, queue, burst, hold,
                 held, burstSize, slopes, reader, inHand, batch, api, hist>>

CallHandler(s, rows, marker, last) ==
  /\ delivered' = [delivered EXCEPT ![s] = @ \o rows]
  /\ reported'  = [reported EXCEPT ![s] = @ + marker]
  /\ proc' = [proc EXCEPT ![s] = IF last THEN "lastHandler" ELSE "handler"]
  /\ UNCHANGED lost

\* What Resampler::apply() returns for the records popped, and what it keeps.
Resampled(s) ==
  LET rows == held \o batch[s]
      n == IF Len(rows) > hold THEN Len(rows) - hold ELSE 0
  IN [out |-> Prefix(rows, n), keep |-> Suffix(rows, n)]

BugThroughBurst(out) == Len(out) < burstSize       \* forgets what is buffered
ThroughBurst(out) == burst # <<>> \/ Len(out) < burstSize
BugBurstFull(rows) == Len(rows) + 1 >= burstSize   \* off by one
BurstFull(rows) == Len(rows) >= burstSize

\* The records go through the resampler, then directly to the handler or
\* through the burst buffer.
Process(s) ==
  /\ proc[s] = "work"
  /\ LET out == Resampled(s).out
         buffered == burst \o out
     IN /\ held' = Resampled(s).keep
        /\ \/ /\ ThroughBurst(out) /\ ~BurstFull(buffered)
              /\ burst' = buffered
              /\ proc' = [proc EXCEPT ![s] = "poll"]
              /\ UNCHANGED hist
           \/ /\ ThroughBurst(out) /\ BurstFull(buffered)
              /\ burst' = <<>>
              /\ CallHandler(s, buffered, errs[s], FALSE)
           \/ /\ ~ThroughBurst(out)
              /\ UNCHANGED burst
              /\ CallHandler(s, out, errs[s], FALSE)
  /\ batch' = [batch EXCEPT ![s] = <<>>]
  /\ errs'  = [errs EXCEPT ![s] = 0]
  /\ UNCHANGED <<board, running, started, threads, skip, queue, errors, hold,
                 burstSize, slopes, reader, inHand, api>>

\* The loop is over: what the resampler holds back goes behind what is in the
\* burst buffer, and a last call hands it all over.
BugRemainder == held \o burst                      \* the wrong order
Remainder == burst \o held

BugFlush(s) ==                                     \* only the resampler's rest
  /\ proc[s] = "flush"
  /\ held' = <<>> /\ UNCHANGED burst
  /\ IF held # <<>>
     THEN CallHandler(s, held, 0, TRUE)
     ELSE proc' = [proc EXCEPT ![s] = "done"] /\ UNCHANGED hist
  /\ UNCHANGED <<board, running, started, threads, skip, queue, errors, hold,
                 burstSize, slopes, reader, inHand, batch, errs, api>>

Flush(s) ==
  /\ proc[s] = "flush"
  /\ held' = <<>> /\ burst' = <<>>
  /\ IF Remainder # <<>>
     THEN CallHandler(s, Remainder, 0, TRUE)
     ELSE proc' = [proc EXCEPT ![s] = "done"] /\ UNCHANGED hist
  /\ UNCHANGED <<board, running, started, threads, skip, queue, errors, hold,
                 burstSize, slopes, reader, inHand, batch, errs, api>>

\* The handler returns, once an API call it made has returned.
HandlerReturns(s) ==
  /\ ~(call.by = s /\ ~At("idle"))
  /\ \/ proc[s] = "handler" /\ proc' = [proc EXCEPT ![s] = "poll"]
     \/ proc[s] = "lastHandler" /\ proc' = [proc EXCEPT ![s] = "done"]
  /\ UNCHANGED <<board, running, started, threads, pipe, burstSize, slopes,
                 reader, inHand, batch, errs, api, hist>>

-----------------------------------------------------------------------------
CallStep ==
  \/ StartPrepare \/ StartEnable \/ StartFlags \/ SpawnReader
  \/ SpawnProcessor \/ SpawnFailed \/ Unwind
  \/ StopSignal \/ StopJoin \/ StopDisable

ClientStep ==
  \/ AskBoard
  \/ \E size \in BurstSizes : SetDriverSettings(size)
  \/ StartCheck \/ StartRefused
  \/ \E by \in {App} \cup Sessions : StopCheck(by)

ReaderStep(s) == ReaderCheck(s) \/ SkipInvalid(s) \/ ReadData(s) \/ Push(s)

ProcessorStep(s) ==
  Pop(s) \/ FetchErrors(s) \/ Process(s) \/ Flush(s) \/ HandlerReturns(s)

Next ==
  \/ BoardRestart
  \/ ClientStep
  \/ CallStep
  \/ \E s \in Sessions : ReaderStep(s) \/ ProcessorStep(s)

\* The threads are scheduled, a call in progress goes on, a handler returns.
Fairness ==
  /\ WF_vars(CallStep)
  /\ \A s \in Sessions : WF_vars(ReaderStep(s)) /\ WF_vars(ProcessorStep(s))

Spec == Init /\ [][Next]_vars
FairSpec == Spec /\ Fairness

-----------------------------------------------------------------------------
(* Properties                                                               *)

ReaderSteps == {"none", "check", "read", "push", "done"}
ProcSteps == {"none", "poll", "fetch", "work", "handler", "flush",
              "lastHandler", "done"}
CallSteps == {"idle", "prepare", "enable", "flags", "spawnReader",
              "spawnProcessor", "unwind", "signal", "join", "disable"}
Outcomes == {"none", "started", "refused", "startFailed", "stopped",
             "stopFailed"}

BoardOK == adc \in BOOLEAN /\ next \in Nat /\ resets \in Nat

DriverOK ==
  /\ running \in BOOLEAN /\ started \in BOOLEAN /\ threads \subseteq Ids
  /\ burstSize \in BurstSizes /\ slopes \in 0 .. MaxSessions

PipeOK ==
  /\ skip \in 0 .. InvalidCount
  /\ queue \in Seq(Rows) /\ Len(queue) <= QueueCapacity
  /\ errors \in Nat
  /\ burst \in Seq(Rows)
  /\ hold \in HoldBacks \cup {0} /\ held \in Seq(Rows)

ThreadsOK ==
  /\ reader \in [Sessions -> ReaderSteps]
  /\ inHand \in [Sessions -> Seq(Rows)]
  /\ \A s \in Sessions : Len(inHand[s]) <= 1
  /\ proc \in [Sessions -> ProcSteps]
  /\ batch \in [Sessions -> Seq(Rows)]
  /\ errs \in [Sessions -> Nat]

ApiOK ==
  /\ call \in [at : CallSteps, by : {App} \cup Sessions]
  /\ session \in 0 .. MaxSessions /\ faults \in Nat /\ outcome \in Outcomes
  /\ saved \in [threads : SUBSET Ids, slopes : 0 .. MaxSessions]

HistOK ==
  /\ lost \in [Sessions -> Nat] /\ reported \in [Sessions -> Nat]
  /\ delivered \in [Sessions -> Seq(Rows)]

\* Every variable holds a value of its type; the queue never exceeds its
\* capacity and the counters never go negative.
TypeOK ==
  BoardOK /\ DriverOK /\ PipeOK /\ ThreadsOK /\ ApiOK /\ HistOK

ReaderLive(s) == reader[s] \notin {"none", "done"}
ProcLive(s)   == proc[s] \notin {"none", "done"}

\* record_queue_ is a single-producer single-consumer queue: at no time may
\* two reader threads or two processing threads be alive, nor may any other
\* processing thread be when stop_measurement() drains the queue itself.
SingleProducerSingleConsumer ==
  /\ \A s, t \in Sessions : ReaderLive(s) /\ ReaderLive(t) => s = t
  /\ \A s, t \in Sessions : ProcLive(s) /\ ProcLive(t) => s = t
  /\ At("join") /\ AllJoined =>
       \A s \in Sessions : ProcLive(s) => s = call.by

\* A session starts from a clean slate, whatever failed before it: no thread
\* of an earlier session lives, nothing of it is queued or buffered, and the
\* invalid data sets at the start of the stream will all be skipped.  (This and
\* QuietAfterStop are of a firmware that does not restart.)
CleanStart ==
  At("prepare") =>
    /\ \A s \in Sessions : ~ReaderLive(s) /\ ~ProcLive(s)
    /\ queue = <<>> /\ burst = <<>> /\ held = <<>>
    /\ skip = InvalidCount

Increasing(rows) ==
  \A i, j \in DOMAIN rows : i < j => rows[i][2] < rows[j][2]

\* The handler of a session gets valid data sets of that session only, in the
\* order the board produced them and each at most once, across the queue, the
\* resampler, the burst buffer and the flush.
DeliveredInOrder ==
  \A s \in Sessions :
    /\ Increasing(delivered[s])
    /\ \A i \in DOMAIN delivered[s] :
         delivered[s][i][1] = s /\ delivered[s][i][2] > InvalidCount

\* All that was read of session s and is not lost, oldest first.
Pipeline(s) ==
  delivered[s] \o burst \o held \o batch[s] \o queue \o inHand[s]

\* Nothing vanishes while the reader thread exists: every valid data set read
\* is delivered, in one of the buffers, or was refused by the full queue and
\* counted.
NothingVanishes ==
  \A s \in Sessions :
    <<"reader", s>> \in threads =>
      /\ Len(Pipeline(s)) + lost[s] = next - (InvalidCount - skip)
      /\ Increasing(Pipeline(s))

\* Once stop_measurement() has returned normally no thread of a measurement
\* is alive, so the handler is not called any more, and none is left to join.
QuietAfterStop ==
  At("idle") /\ outcome = "stopped" =>
    /\ threads = {}
    /\ \A s \in Sessions : ~ReaderLive(s) /\ ~ProcLive(s)

\* No session leaves threads, records or a used skip counter to the next one, in
\* whatever step of starting or stopping an exchange or a thread failed.  The
\* count of lost records (record_error_count_) is no part of this: it does
\* outlive the session, and the next one may be given it.
SessionsStandAlone == CleanStart /\ QuietAfterStop

\* Every block the handler gets is at least as long as the burst buffer size
\* asks for, except the remainder flushed when the measurement stops.
BlocksReachBurstSize ==
  [][\A s \in Sessions :
       delivered'[s] # delivered[s] =>
         \/ Len(delivered'[s]) - Len(delivered[s]) >= burstSize
         \/ ~running]_vars

Total(f) ==
  LET sum[s \in 0 .. MaxSessions] == IF s = 0 THEN 0 ELSE sum[s - 1] + f[s]
  IN sum[MaxSessions]

\* A loss is reported at most once: the markers given to the handlers, the
\* ones about to be given and the counter never exceed the losses.
MarkersNotInvented == Total(reported) + Total(errs) + errors <= Total(lost)

\* A call that throws changes nothing: a failed start_measurement() leaves the
\* calibration slopes as they were, a failed stop_measurement() the threads
\* ("Exception safety guarantee: Strong"). A claim that the code does not keep:
\* README, section 5.
CallsAreStrong ==
  At("idle") =>
    /\ outcome = "startFailed" => slopes = saved.slopes
    /\ outcome = "stopFailed" => threads = saved.threads

\* Data sets missing between the first and the last one delivered.
Missing(rows) ==
  IF rows = <<>> THEN 0
  ELSE rows[Len(rows)][2] - rows[1][2] + 1 - Len(rows)

\* A handler that has seen data from behind a gap has been told of the loss
\* ("positive value indicates the number of data losts").
GapsAreMarked ==
  \A s \in Sessions : Missing(delivered[s]) <= reported[s]

\* An API call returns: stop_measurement() is never stuck in a join, not even
\* when the handler makes the call in the thread it would join.
CallsReturn == ~At("idle") ~> At("idle")

\* Rows held by the resampler or the burst buffer are not stranded there when
\* the measurement stops.
BuffersFlushed == (~running /\ burst \o held # <<>>) ~> (burst \o held = <<>>)
=============================================================================
