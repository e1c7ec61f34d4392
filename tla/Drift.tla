-------------------------------- MODULE Drift --------------------------------
(***************************************************************************)
(* Driver settings and drift compensation (class iDriver, src/driver.cpp). *)
(*                                                                         *)
(* calculate_drift_references() and calculate_drift_deltas() measure for   *)
(* 5 ms with settings of their own: a guard stashes the settings of board  *)
(* and driver, changes them, and puts them back in its destructor.  The    *)
(* caller sleeps on a condition variable until the data handler, in the    *)
(* processing thread, has collected enough rows.                           *)
(*                                                                         *)
(* When the firmware restarts, the board forgets that it measures, and     *)
(* stop_measurement() and start_measurement() ask the board: the threads   *)
(* of the measurement stay and go on reading, and a second pair is begun   *)
(* beside them.  (Two pairs on one queue are a data race; nothing is       *)
(* claimed of what they deliver.)                                          *)
(*                                                                         *)
(* The guard moves driver_settings_ out of the driver, which leaves an     *)
(* object without a representation (rep_ is null), and then merges into    *)
(* it.  That is undefined behaviour: here the process dies, or goes on as  *)
(* if the object were empty.                                               *)
(***************************************************************************)
EXTENDS Integers, FiniteSets

CONSTANTS
  MinRate,      \* min_sample_rate(), 32 in the code
  FullRate,     \* max_sample_rate(), 48000 in the code
  DriftRows,    \* drift_samples_count, 240 in the code
  Rates,        \* sample rates the application sets
  BurstSizes,   \* burst buffer sizes the application sets
  Frequencies,  \* frequencies the application sets
  Channels,     \* max_channel_count(), 4 in the code
  MaxLevel,     \* bound: how far the zero of a channel drifts
  MaxFaults,    \* bound: failed exchanges and file operations
  MaxKills,     \* bound: processes that are killed
  MaxResets     \* bound: restarts of the firmware

ASSUME DriftAssumption ==
  /\ MinRate \in Nat /\ FullRate \in Nat \ {0} /\ DriftRows \in Nat \ {0}
  /\ Rates \subseteq Nat /\ BurstSizes \subseteq Nat /\ Frequencies \subseteq Nat
  /\ Channels \in Nat /\ MaxLevel \in Nat

Unset == 0   \* a setting that is absent or null
None  == {}  \* std::nullopt: an optional value is a set of at most one element

VARIABLES
  \* --- the board -----------------------------------------------------------
  adc,        \* channelsAdcEnabled
  mode,       \* channel%Mode, the same for all channels
  level,      \* what a channel measures without input
  \* --- the file .panda/timeswipe/drift_references --------------------------
  file,       \* how many numbers can be read of which references
  \* --- fields of iDriver -------------------------------------------------
  up,         \* is_initialized_; FALSE: there is no process
  started,    \* is_measurement_started_ (a cache of adc)
  settings,   \* driver_settings_
  moved,      \* driver_settings_.rep_ is null
  burstSize,  \* burst_buffer_size_
  references, \* drift_references_
  deltas,     \* drift_deltas_
  handlers,   \* the data handlers of the threads that run: "app" (of the
              \* application), or of a calculation: "ready", "notify" (done is
              \* set), "stray" (its call has returned)
  queue,      \* record_queue_ and burst_buffer_: the modes the rows in them were
              \* measured in, "unset" for rows of a board that does not measure
  \* --- a calculation in progress -------------------------------------------
  at,         \* its next step; "died": of undefined behaviour
  job,        \* which of the two it is
  refs,       \* the local `refs` of calculate_drift_deltas()
  stash,      \* the guard's driver_settings_
  failed,     \* an exception is under way
  built,      \* the guard's constructor has returned
  done,       \* the local `done`
  result,     \* the local `result`: the modes its rows were measured in, none
              \* when collecting them has failed (errc)
  mean,       \* average of the rows collected
  \* --- history and bounds ------------------------------------------------
  made,       \* references that some calculation has computed
  base,       \* the references the deltas were computed from
  orphans,    \* the board has restarted under threads or rows that no stop has
              \* joined and drained since
  faults, kills, resets

boardv  == <<adc, mode, level>>
fields  == <<started, settings, moved, burstSize, references, deltas>>
threadv == <<handlers, queue>>
localv  == <<job, refs, stash, failed, built, done, result, mean>>
hist    == <<made, base, orphans>>
bounds  == <<faults, kills, resets>>
vars    == <<boardv, file, up, fields, threadv, at, localv, hist, bounds>>

-----------------------------------------------------------------------------
(* Driver settings: a burst buffer size and a frequency exclude each other. *)

Empty == [rate |-> Unset, size |-> Unset, freq |-> Unset]

\* The range checks every setter and the parser make.
InRange(s) ==
  /\ s.rate = Unset \/ s.rate \in MinRate .. FullRate
  /\ s.size = Unset \/ s.size \in MinRate .. FullRate
  /\ s.freq = Unset \/ s.freq \in 1 .. MinRate

\* What the application can make a Driver_settings of.
Choices ==
  {s \in [rate : Rates \cup {Unset}, size : BurstSizes \cup {Unset},
          freq : Frequencies \cup {Unset}] :
     InRange(s) /\ (s.size = Unset \/ s.freq = Unset)}

\* Driver_settings::Rep::merge_not_null(): the setters in their order.
Merged(old, new) ==
  LET rated == [old EXCEPT !.rate = IF new.rate = Unset THEN @ ELSE new.rate]
      sized == IF new.size = Unset THEN rated
               ELSE [rated EXCEPT !.size = new.size, !.freq = Unset]
  IN  IF new.freq = Unset THEN sized
      ELSE [sized EXCEPT !.freq = new.freq, !.size = Unset]

\* What set_driver_settings() does to burst_buffer_size_.
BurstSizeAfter(new) ==
  IF new.size # Unset THEN new.size
  ELSE IF new.rate # Unset /\ new.freq # Unset THEN new.rate \div new.freq
  ELSE burstSize

DriftSettings == [rate |-> FullRate, size |-> DriftRows, freq |-> Unset]

\* Averages of the channels as calculate_drift_references() writes them, the
\* last `Channels - numbers` and perhaps a digit of the last one missing.
References == [value : Int, numbers : 0 .. Channels, exact : BOOLEAN]
Averages(value) == [value |-> value, numbers |-> Channels, exact |-> TRUE]
NoFile == [value |-> 0, numbers |-> 0, exact |-> TRUE]
Truncated == [value |-> 0, numbers |-> 0, exact |-> FALSE]

-----------------------------------------------------------------------------
Init ==
  /\ adc = FALSE /\ mode = "unset" /\ level = 0
  /\ file = NoFile
  /\ up = FALSE /\ started = FALSE /\ settings = Empty /\ moved = FALSE
  /\ burstSize = 0 /\ references = None /\ deltas = None
  /\ handlers = {} /\ queue = {}
  /\ at = "idle" /\ job = "none" /\ refs = None /\ stash = Empty
  /\ failed = FALSE /\ built = FALSE /\ done = FALSE /\ result = {}
  /\ mean = 0
  /\ made = {} /\ base = None /\ orphans = FALSE
  /\ faults = 0 /\ kills = 0 /\ resets = 0

\* The locals of a call are gone.
NoCall ==
  /\ job' = "none" /\ refs' = None /\ stash' = Empty
  /\ failed' = FALSE /\ built' = FALSE /\ done' = FALSE /\ result' = {}
  /\ mean' = 0

\* The fields of a new process; a call in progress and the threads are gone.
Fresh ==
  /\ started' = FALSE /\ settings' = Empty /\ moved' = FALSE
  /\ burstSize' = 0 /\ references' = None /\ deltas' = None /\ base' = None
  /\ handlers' = {} /\ queue' = {} /\ orphans' = FALSE
  /\ NoCall

\* initialize(): the first of a process restarts the firmware.
Initialize ==
  /\ ~up /\ up' = TRUE
  /\ adc' = FALSE /\ mode' = "unset"
  /\ at' = "idle" /\ Fresh
  /\ UNCHANGED <<level, file, made, bounds>>

\* The process is killed; the board goes on with what it was told.
Killed ==
  /\ up /\ kills < MaxKills /\ kills' = kills + 1
  /\ up' = FALSE /\ at' = "idle" /\ Fresh
  /\ UNCHANGED <<boardv, file, made, faults, resets>>

\* The firmware restarts by itself.
BoardRestart ==
  /\ resets < MaxResets /\ resets' = resets + 1
  /\ adc' = FALSE /\ mode' = "unset"
  /\ orphans' = (orphans \/ handlers # {} \/ queue # {})
  /\ UNCHANGED <<level, file, up, fields, threadv, at, localv, made, base, faults,
                 kills>>

Drifts ==
  /\ level < MaxLevel /\ level' = level + 1
  /\ UNCHANGED <<adc, mode, file, up, fields, threadv, at, localv, hist, bounds>>

\* Undefined behaviour, first outcome.
Dies ==
  /\ up' = FALSE /\ at' = "died" /\ Fresh
  /\ UNCHANGED <<boardv, file, made, bounds>>

Answered == UNCHANGED faults
Fault    == faults < MaxFaults /\ faults' = faults + 1

-----------------------------------------------------------------------------
(* Measurements: the threads and their queue.                               *)

\* start_measurement() with handler `h`, when the board does not measure.
Begun(h) ==
  /\ Answered
  /\ adc' = TRUE /\ started' = TRUE
  /\ handlers' = handlers \cup {h}
  /\ UNCHANGED <<queue, orphans>>

\* It fails: before the board is asked; when it is told, whether it has begun or
\* not; or when a thread cannot be created.  Then the threads that run are
\* joined, what was read stays in the queue, and the ADCs stay on.
NotBegun ==
  /\ Fault
  /\ \/ UNCHANGED <<adc, started, handlers, queue>>
     \/ adc' \in {adc, TRUE} /\ started' = FALSE /\ UNCHANGED <<handlers, queue>>
     \/ /\ adc' = TRUE /\ started' = FALSE /\ handlers' = {}
        /\ queue' \in {queue, queue \cup {mode}}
  /\ UNCHANGED orphans

\* stop_measurement() joins all threads, which flush, and drains the queue ...
Joined == handlers' = {} /\ queue' = {} /\ orphans' = FALSE

\* ... and disables the ADCs, which may fail,
Stopped == adc /\ Answered /\ Joined /\ adc' = FALSE /\ started' = FALSE
NotDisabled == adc /\ Fault /\ Joined /\ adc' \in BOOLEAN /\ started' = TRUE

\* but when the board does not measure, or cannot be asked, it does nothing.
NothingToStop ==
  ~adc /\ Answered /\ started' = FALSE /\ UNCHANGED <<adc, threadv, orphans>>
NotAsked == Fault /\ UNCHANGED <<adc, started, threadv, orphans>>

\* The reader of any pair reads whatever the board puts on the bus, measuring
\* or not.
Read ==
  /\ handlers # {}
  /\ queue' = queue \cup {IF adc THEN mode ELSE "unset"}
  /\ UNCHANGED <<boardv, file, up, fields, handlers, at, localv, hist, bounds>>

\* The processing thread of some pair gives rows to a handler which does not use
\* them.
Process ==
  /\ handlers # {}
  /\ \E rows \in queue : queue' = queue \ {rows}
  /\ UNCHANGED <<boardv, file, up, fields, handlers, at, localv, hist, bounds>>

-----------------------------------------------------------------------------
(* Calls that are one exchange at most.  One that fails leaves things as     *)
(* they were, or has been carried out.                                       *)

Idle == up /\ at = "idle"

\* is_measurement_started(true), answered: the cached flag follows the board.
SetDriverSettings(new, merge) ==
  /\ Idle
  /\ started' = adc
  /\ IF adc THEN UNCHANGED <<settings, moved, burstSize>>
     ELSE /\ burstSize' = BurstSizeAfter(new)
          /\ ~(merge /\ moved)
          /\ settings' = IF merge THEN Merged(settings, new) ELSE new
          /\ moved' = FALSE
  /\ UNCHANGED <<boardv, file, up, references, deltas, threadv, at, localv, hist,
                 bounds>>

\* The same call, driver_settings() or start_measurement(), on an object without
\* representation.
UseMovedSettings == Idle /\ moved /\ Dies

\* set_board_settings() with modes, while the board does not measure.
SetModes ==
  /\ Idle /\ ~adc
  /\ mode' = "voltage"
  /\ UNCHANGED <<adc, level, file, up, fields, threadv, at, localv, hist, bounds>>

\* start_measurement() and stop_measurement() of the application, with a
\* handler of its own; Measurement has them in detail.
Start ==
  /\ Idle /\ ~moved
  /\ IF adc \/ mode = "unset" \/ settings.rate = Unset
     THEN started' = adc /\ Answered /\ UNCHANGED <<adc, threadv, orphans>>
     ELSE Begun("app") \/ NotBegun
  /\ UNCHANGED <<mode, level, file, up, settings, moved, burstSize, references, deltas,
                 at, localv, made, base, kills, resets>>
Stop ==
  /\ Idle
  /\ Stopped \/ NotDisabled \/ NothingToStop \/ NotAsked
  /\ UNCHANGED <<mode, level, file, up, settings, moved, burstSize, references, deltas,
                 at, localv, made, base, kills, resets>>

\* drift_references(): None without a file, an exception for a file with too
\* few numbers.  A last number that was cut short is still a number.
BugEnough == TRUE
Enough   == file.numbers = Channels
ReadFile == IF file # NoFile /\ Enough THEN {file} ELSE None

ReadReferences(force) ==
  /\ Idle
  /\ references' = IF (force \/ references = None) /\ ReadFile # None THEN ReadFile
                   ELSE references
  /\ UNCHANGED <<boardv, file, up, started, settings, moved, burstSize, deltas,
                 threadv, at, localv, hist, bounds>>

\* Both look at the cached flag, not at the board.
ClearReferences ==
  /\ Idle /\ ~started
  /\ file' = NoFile /\ references' = None /\ deltas' = None /\ base' = None
  /\ UNCHANGED <<boardv, up, started, settings, moved, burstSize, threadv, at,
                 localv, made, orphans, bounds>>
BugClearDeltas ==                                  \* while measuring, too
  /\ Idle
  /\ deltas' = None /\ base' = None
  /\ UNCHANGED <<boardv, file, up, started, settings, moved, burstSize,
                 references, threadv, at, localv, made, orphans, bounds>>
ClearDeltas ==
  /\ Idle /\ ~started
  /\ deltas' = None /\ base' = None
  /\ UNCHANGED <<boardv, file, up, started, settings, moved, burstSize,
                 references, threadv, at, localv, made, orphans, bounds>>

-----------------------------------------------------------------------------
(* A calculation, step by step.                                             *)

Stay(unchanged) ==
  UNCHANGED unchanged /\ UNCHANGED <<level, file, up, made, base, kills, resets>>

\* The two calls; that of deltas needs references, from the cache or the file.
Calculate(what) ==
  /\ Idle
  /\ IF what = "references" THEN references' = references /\ refs' = None
     ELSE /\ references' = IF references = None THEN ReadFile ELSE references
          /\ references' # None            \* otherwise it throws
          /\ refs' = references'
  /\ at' = "ask" /\ job' = what /\ stash' = Empty /\ failed' = FALSE
  /\ built' = FALSE /\ done' = FALSE /\ result' = {} /\ mean' = 0
  /\ Stay(<<adc, mode, started, settings, moved, burstSize, deltas, threadv, orphans,
            faults>>)

\* The locals of the call are gone; a handler that still lives refers to them.
Own == {"ready", "notify"}
Return ==
  /\ at' = "idle" /\ NoCall
  /\ handlers' = IF handlers \cap Own = {} THEN handlers
                 ELSE (handlers \ Own) \cup {"stray"}
  /\ UNCHANGED queue

\* collect_channels_data(): is the board measuring?
Ask ==
  /\ at = "ask"
  /\ \/ /\ Answered /\ started' = adc
        /\ IF adc THEN Return
           ELSE at' = "stash" /\ UNCHANGED <<threadv, localv>>
     \/ /\ Fault /\ Return /\ UNCHANGED started
  /\ Stay(<<adc, mode, settings, moved, burstSize, references, deltas, orphans>>)

\* The guard moves the settings out and asks the board for its own.
Stash ==
  /\ at = "stash"
  /\ stash' = settings /\ settings' = Empty /\ moved' = TRUE
  /\ \/ Answered /\ at' = "modes" /\ UNCHANGED failed
     \/ Fault /\ at' = "restore" /\ failed' = TRUE
  /\ Stay(<<adc, mode, started, burstSize, references, deltas, threadv, orphans, job,
            refs, built, done, result, mean>>)

BugChangeModes ==                                  \* goes on after a failure
  /\ at = "modes" /\ at' = "rate"
  /\ \/ Answered /\ mode' = "current"
     \/ Fault /\ mode' \in {mode, "current"}
  /\ Stay(<<adc, fields, threadv, orphans, localv>>)

ChangeModes ==
  /\ at = "modes"
  /\ \/ Answered /\ mode' = "current" /\ at' = "rate" /\ UNCHANGED failed
     \/ /\ Fault /\ mode' \in {mode, "current"}
        /\ at' = "restore" /\ failed' = TRUE
  /\ Stay(<<adc, fields, threadv, orphans, job, refs, stash, built, done, result,
            mean>>)

ChangeRate ==
  /\ at = "rate"
  /\ \/ /\ Answered /\ started' = adc /\ burstSize' = BurstSizeAfter(DriftSettings)
        /\ settings' = Merged(settings, DriftSettings) /\ moved' = FALSE
        /\ built' = TRUE /\ at' = "start" /\ UNCHANGED failed
     \/ /\ Fault /\ at' = "restore" /\ failed' = TRUE
        /\ UNCHANGED <<started, burstSize, settings, moved, built>>
  /\ Stay(<<adc, mode, references, deltas, threadv, orphans, job, refs, stash, done,
            result, mean>>)

\* The merge of ChangeRate and of Restore, on an object without representation
\* or destroyed already: the other outcome.
DiesMerging ==
  /\ \/ at = "rate" /\ moved
     \/ at = "restore" /\ ~adc /\ (moved \/ ~built)
  /\ Dies

\* start_measurement() with the handler of the call.
StartCollecting ==
  /\ at = "start"
  /\ \/ mode # "unset" /\ Begun("ready") /\ at' = "test" /\ UNCHANGED failed
     \/ /\ NotBegun \/ (/\ mode = "unset" /\ Answered /\ started' = adc
                        /\ UNCHANGED <<adc, threadv, orphans>>)
        /\ at' = "restore" /\ failed' = TRUE
  /\ Stay(<<mode, settings, moved, burstSize, references, deltas, job, refs, stash,
            built, done, result, mean>>)

\* The handler has its rows, of what was read, with the deltas subtracted; or
\* keeping them has failed.
Collect ==
  /\ "ready" \in handlers /\ ~done
  /\ \/ /\ Answered
        /\ result' \in SUBSET queue \ {{}} /\ queue' \in {queue, queue \ result'}
        /\ mean' = level - (IF deltas = None THEN 0 ELSE CHOOSE d \in deltas : TRUE)
     \/ Fault /\ UNCHANGED <<result, queue, mean>>
  /\ done' = TRUE /\ handlers' = (handlers \ {"ready"}) \cup {"notify"}
  /\ Stay(<<adc, mode, fields, orphans, at, job, refs, stash, failed, built>>)

\* update.notify_one(), without the mutex: it wakes who sleeps already.
Notify ==
  /\ "notify" \in handlers /\ handlers' = (handlers \ {"notify"}) \cup {"ready"}
  /\ at' = IF at = "asleep" THEN "test" ELSE at
  /\ Stay(<<adc, mode, fields, queue, orphans, localv, faults>>)

\* update.wait(): the predicate, then sleep.  It may wake spuriously.
Wait ==
  /\ \/ at = "test" /\ at' = IF done THEN "stop" ELSE "fall asleep"
     \/ at = "fall asleep" /\ at' = "asleep"
     \/ at = "asleep" /\ at' = "test"
  /\ Stay(<<adc, mode, fields, threadv, orphans, localv, faults>>)

BugStopCollecting ==                               \* does not join the threads
  /\ at = "stop" /\ at' = "restore"
  /\ adc' = FALSE /\ started' = FALSE
  /\ Stay(<<mode, settings, moved, burstSize, references, deltas, threadv, orphans,
            localv, faults>>)

\* stop_measurement(); then what went wrong in the handler is thrown.
StopCollecting ==
  /\ at = "stop" /\ at' = "restore"
  /\ \/ (Stopped \/ NothingToStop) /\ failed' = (result = {})
     \/ (NotDisabled \/ NotAsked) /\ failed' = TRUE
  /\ Stay(<<mode, settings, moved, burstSize, references, deltas, job, refs, stash,
            built, done, result, mean>>)

\* The guard's restore(): every exception is swallowed, the first one ends it.
RestoreDriver ==
  /\ at = "restore"
  /\ \/ /\ Fault /\ at' = "return" /\ UNCHANGED <<started, burstSize, settings, moved>>
     \/ /\ adc /\ Answered /\ started' = TRUE /\ at' = "return"
        /\ UNCHANGED <<burstSize, settings, moved>>
     \/ /\ ~adc /\ Answered /\ started' = FALSE
        /\ burstSize' = BurstSizeAfter(stash)
        /\ settings' = Merged(settings, stash) /\ moved' = FALSE
        /\ at' = "restore board"
  /\ Stay(<<adc, mode, references, deltas, threadv, orphans, localv>>)

\* The stashed settings of the board are the answer to "basic", which has
\* channelsAdcEnabled in it, and set_board_settings() refuses to send a document
\* with that name: nothing reaches the board, the exception is swallowed.
RestoreBoard ==
  /\ at = "restore board" /\ at' = "return"
  /\ Stay(<<adc, mode, fields, threadv, orphans, localv, faults>>)

\* The result; the references go to the file first.  The directory may not be
\* created, which throws; a stream that does not open is not noticed.
Finish ==
  /\ at = "return"
  /\ \/ failed /\ Return /\ Answered /\ UNCHANGED <<file, deltas, made, base>>
     \/ /\ ~failed /\ job = "deltas"
        /\ deltas' = {mean - r.value : r \in refs} /\ base' = refs
        /\ Return /\ Answered /\ UNCHANGED <<file, made>>
     \/ /\ ~failed /\ job = "references" /\ made' = made \cup {mean}
        /\ \/ /\ Answered /\ file' = Truncated /\ at' = "write"
              /\ UNCHANGED <<threadv, localv>>
           \/ Fault /\ at' = "cache" /\ UNCHANGED <<file, threadv, localv>>
           \/ Fault /\ Return /\ UNCHANGED file
        /\ UNCHANGED <<deltas, base>>
  /\ UNCHANGED <<boardv, up, started, settings, moved, burstSize, references, orphans,
                 kills, resets>>

\* The stream is written when it is closed, and not checked.
WriteFile ==
  /\ at = "write" /\ at' = "cache"
  /\ \/ Answered /\ file' = Averages(mean)
     \/ Fault /\ \E n \in 1 .. Channels :
          file' = [value |-> mean, numbers |-> n, exact |-> FALSE]
  /\ UNCHANGED <<boardv, up, fields, threadv, localv, hist, kills, resets>>

CacheReferences ==
  /\ at = "cache" /\ Return
  /\ references' = {Averages(mean)}
  /\ Stay(<<adc, mode, started, settings, moved, burstSize, deltas, orphans, faults>>)

-----------------------------------------------------------------------------
ApiCall ==
  \/ \E new \in Choices, merge \in BOOLEAN : SetDriverSettings(new, merge)
  \/ UseMovedSettings
  \/ SetModes \/ Start \/ Stop
  \/ \E force \in BOOLEAN : ReadReferences(force)
  \/ ClearReferences \/ ClearDeltas
  \/ \E what \in {"references", "deltas"} : Calculate(what)

Calculation ==
  \/ Ask \/ Stash \/ ChangeModes \/ ChangeRate \/ DiesMerging
  \/ StartCollecting \/ Wait \/ StopCollecting
  \/ RestoreDriver \/ RestoreBoard \/ Finish \/ WriteFile \/ CacheReferences

Threads == Read \/ Process \/ Collect \/ Notify

Next ==
  \/ Initialize \/ Killed \/ BoardRestart \/ Drifts
  \/ ApiCall \/ Calculation \/ Threads

Spec == Init /\ [][Next]_vars

-----------------------------------------------------------------------------
Steps == {"idle", "ask", "stash", "modes", "rate", "start", "test",
          "fall asleep", "asleep", "stop", "restore", "restore board",
          "return", "write", "cache", "died"}
Modes == {"unset", "voltage", "current"}
Waiting == at \in {"test", "fall asleep", "asleep"}

TypeOK ==
  /\ adc \in BOOLEAN /\ mode \in Modes /\ level \in 0 .. MaxLevel
  /\ file \in References
  /\ up \in BOOLEAN /\ started \in BOOLEAN /\ settings.rate \in Nat
  /\ moved \in BOOLEAN /\ burstSize \in Nat
  /\ references \in SUBSET References /\ Cardinality(references) <= 1
  /\ deltas \in SUBSET Int /\ Cardinality(deltas) <= 1
  /\ handlers \subseteq {"app", "ready", "notify", "stray"}
  /\ queue \subseteq Modes /\ result \subseteq Modes
  /\ at \in Steps

\* References that are used are what some calculation has measured, for every
\* channel, whatever became of the file between: a write that was cut short, a
\* process that was killed while it wrote.  Only a digit missing from the last
\* number goes unnoticed.
Sound(r) == r.numbers = Channels /\ (r.exact => r.value \in made)
ReferencesOnRecord == \A r \in references : Sound(r)

\* Deltas were computed from references of that kind, and are not there without
\* any.  They need not be the references the driver has now: a calculation of
\* new ones and a forced reading of the file replace the references and keep the
\* deltas.
DeltasHaveReferences ==
  deltas # None => references # None /\ base # None /\ \A r \in base : Sound(r)

\* Where drift data come from, whatever call failed or was cut short, and
\* whenever.
DriftDataHold == TypeOK /\ ReferencesOnRecord /\ DeltasHaveReferences

\* Rows for a calculation were measured with the inputs switched to current, at
\* the full rate and in one block, although settings of board and driver are
\* changed by separate calls that may each fail, the board may restart between
\* them, and the queue is not drained when a measurement begins.  Excepted are
\* the calculations that meet threads or rows a restart of the board has left,
\* and those under whose threads it restarts: these take what comes.
CollectsUnderDriftSettings ==
  [][(~orphans /\ ~done /\ done')
       => result' \subseteq {"current"} /\ burstSize = DriftRows
          /\ settings.rate = FullRate]_vars

\* The handler of a calculation refers to variables of the call.  A call that
\* gives a result has ended its measurement and its threads; one that leaves
\* them running (stop_measurement() could not ask the board) says so by an
\* error, and the board still measures, so that the next stop_measurement()
\* ends them and nothing is begun beside them.  Excepted, as above, is a board
\* that has restarted under the threads: stop_measurement() finds the ADCs off
\* and does not join.
Gives == CacheReferences \/ (Finish /\ ~failed /\ job = "deltas")
HandlersEndOrAreReported ==
  [][~orphans =>
       /\ Gives => handlers' = {} /\ ~adc' /\ ~started'
       /\ "stray" \in handlers' \ handlers => ~Gives /\ adc' /\ started']_vars

\* The processing thread reads the deltas without a lock: no call changes them
\* while it lives, although clear_drift_deltas() decides by a cached flag;
\* excepted are threads that a restart of the board has left, which the flag
\* does not know of.
DeltasStableWhileProcessed ==
  [][(~orphans /\ up' /\ handlers # {} /\ handlers' # {})
       => deltas' = deltas]_vars

\* A calculation does not kill the process (driver.hpp gives it the strong
\* guarantee, and the tests call it).
CalculationSurvives == at # "died"
=============================================================================
