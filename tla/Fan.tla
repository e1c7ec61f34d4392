----------------------------------- MODULE Fan -----------------------------------
(***************************************************************************)
(* The fan: CFanControl::Update() in the main loop chooses one of ten      *)
(* speeds by the temperature and runs the pulse width modulator CPinPWM,   *)
(* whose timer counts by itself and has the pin switched by DMA: high when *)
(* the count comes round at CC0, low when it meets CC1.                    *)
(*                                                                         *)
(* The settings fanFrequency and fanEnabled are served in the same loop;   *)
(* the timer counts between any two accesses of the processor to it.       *)
(***************************************************************************)
EXTENDS Integers, FiniteSetsExt

CONSTANTS
  FanTemps,     \* temperatures measured, degrees
  FanTops,      \* periods of the frequencies that can be set, in counts
  FanReach      \* bound: counts beyond which the timer does not get during a call

FanAssumption ==
  /\ FanTemps \subseteq Int /\ FanTops \subseteq Nat \ 0..2 /\ FanTops # {}
  /\ FanReach \in Nat /\ FanReach > Max(FanTops)

VARIABLES
  fan,        \* CFanControl and CPWM: enabled, speed, started, top (of m_prmFrequency),
              \*   duty (in 18ths, of m_prmDutyCycle)
  fanDue,     \* five seconds have passed since the start
  fanTimer,   \* the timer: running, count, cc0, cc1
  fanPin,     \* the level of the pin
  fanCall     \* what the call in progress does next, and after that

fanTimerVars == <<fanTimer, fanPin, fanCall>>
fanVars == <<fan, fanDue, fanTimerVars>>

FanSpeeds == 10
Margin == 1                 \* the ten counts in "cc0val-10"
NoCall == [step |-> "none", then |-> "none"]

\* m_FanSpeeds * (T - 45) / (65 - 45), cut off to a speed.
SpeedAt(t) == IF t < 45 THEN 0 ELSE Min({(FanSpeeds * (t - 45)) \div 20, FanSpeeds - 1})

\* speed / 9 of the range 0.5 .. 1.0, in 18ths; SetDutyCycle() keeps it below 1.
DutyOf(speed) == 9 + speed
PulseOf(f) == Min({(f.top * f.duty) \div 18, f.top - 1})

\* CPinPWM() and CFanControl(): stopped, with the frequency set.
FanInit ==
  /\ \E top \in FanTops : fan = [enabled |-> TRUE, speed |-> 0, started |-> FALSE, top |-> top, duty |-> 9]
  /\ fanTimer = [running |-> FALSE, count |-> 0, cc0 |-> fan.top, cc1 |-> PulseOf(fan)]
  /\ fanDue = FALSE /\ fanPin = FALSE /\ fanCall = NoCall

-----------------------------------------------------------------------------
\* CPWM::Start(false), CPinPWM::impl_Start(false)
FanStop(f) ==
  /\ fan' = [f EXCEPT !.started = FALSE]
  /\ fanTimer' = [fanTimer EXCEPT !.running = FALSE] /\ fanPin' = FALSE /\ fanCall' = NoCall

\* CPWM::Start(true): nothing when started; the counts it writes once more are
\* those just written, to a timer that stands still. CMD=1 counts from 0.
FanStart ==
  IF fan.started THEN fanCall' = NoCall /\ UNCHANGED <<fan, fanTimer, fanPin>>
  ELSE /\ fan' = [fan EXCEPT !.started = TRUE]
       /\ fanTimer' = [fanTimer EXCEPT !.running = TRUE, !.count = 0]
       /\ fanPin' = TRUE /\ fanCall' = NoCall

\* A turn of the main loop. The time of the last update is never set again: after
\* five seconds every turn is one.
FanUpdate ==
  /\ fanCall = NoCall /\ fanDue
  /\ \E t \in FanTemps :
       LET f == [fan EXCEPT !.speed = SpeedAt(t)]
       IN IF f.speed = 0 THEN FanStop(f)
          ELSE /\ fan' = [f EXCEPT !.duty = DutyOf(f.speed)]
               /\ fanCall' = [step |-> "cc0", then |-> IF fan.enabled THEN "start" ELSE "stop"]
               /\ UNCHANGED <<fanTimer, fanPin>>
  /\ UNCHANGED fanDue

FanFiveSeconds == ~fanDue /\ fanDue' = TRUE /\ UNCHANGED <<fan, fanTimer, fanPin, fanCall>>

FanSetFrequency ==
  /\ fanCall = NoCall /\ \E top \in FanTops : fan' = [fan EXCEPT !.top = top]
  /\ fanCall' = [step |-> "cc0", then |-> "none"]
  /\ UNCHANGED <<fanDue, fanTimer, fanPin>>

FanSetEnabled ==
  /\ fanCall = NoCall /\ fan' = [fan EXCEPT !.enabled = ~@]
  /\ UNCHANGED <<fanDue, fanTimer, fanPin, fanCall>>

-----------------------------------------------------------------------------
\* on_obtain_half_periods(), one access to the timer after the other
FanWriteCc0 ==
  /\ fanCall.step = "cc0" /\ fanCall' = [fanCall EXCEPT !.step = "cc1"]
  /\ fanTimer' = [fanTimer EXCEPT !.cc0 = fan.top] /\ UNCHANGED <<fan, fanDue, fanPin>>

FanWriteCc1 ==
  /\ fanCall.step = "cc1" /\ fanCall' = [fanCall EXCEPT !.step = "check"]
  /\ fanTimer' = [fanTimer EXCEPT !.cc1 = PulseOf(fan)] /\ UNCHANGED <<fan, fanDue, fanPin>>

\* A count already beyond the new period starts over.
BugOverrun == fanTimer.count > fanTimer.cc0 - Margin

Overrun == fan.started /\ fanTimer.count > fanTimer.cc0 - Margin

FanCheck ==
  /\ fanCall.step = "check" /\ fanCall' = [fanCall EXCEPT !.step = "last"]
  /\ IF Overrun
     THEN fanTimer' = [fanTimer EXCEPT !.running = TRUE, !.count = 0] /\ fanPin' = TRUE
     ELSE UNCHANGED <<fanTimer, fanPin>>
  /\ UNCHANGED <<fan, fanDue>>

FanReturn ==
  /\ fanCall.step = "last" /\ UNCHANGED fanDue
  /\ CASE fanCall.then = "start" -> FanStart
       [] fanCall.then = "stop" -> FanStop(fan)
       [] OTHER -> fanCall' = NoCall /\ UNCHANGED <<fan, fanTimer, fanPin>>

\* One count, and the beats of the two DMA channels.
FanTick ==
  /\ fanTimer.running /\ (fanTimer.count >= FanReach => fanCall = NoCall)
  /\ LET next == IF fanTimer.count = fanTimer.cc0 THEN 0 ELSE Min({fanTimer.count, FanReach}) + 1
     IN /\ fanTimer' = [fanTimer EXCEPT !.count = next]
        /\ fanPin' = ((fanPin \/ next = 0) /\ next # fanTimer.cc1)
  /\ UNCHANGED <<fan, fanDue, fanCall>>

FanNext == FanUpdate \/ FanFiveSeconds \/ FanSetFrequency \/ FanSetEnabled \/ FanWriteCc0
             \/ FanWriteCc1 \/ FanCheck \/ FanReturn \/ FanTick

FanSpec == FanInit /\ [][FanNext]_fanVars

-----------------------------------------------------------------------------
\* Safety: between two calls the timer counts exactly while the fan is started,
\* with the frequency and the duty cycle that are read back, and never beyond its
\* period, from where it would come round only after 2^32 counts; a fan that is
\* stopped has its pin low. Frequency, duty cycle, start and stop come in any order
\* while the timer counts.
FanObeys ==
  fanCall = NoCall =>
    /\ fanTimer.running = fan.started
    /\ fanTimer.cc0 = fan.top /\ fanTimer.cc1 = PulseOf(fan)
    /\ fanTimer.running => fanTimer.count <= fanTimer.cc0
    /\ ~fan.started => ~fanPin
=============================================================================
