---------------------------- MODULE PeripheralProofs ----------------------------
(***************************************************************************)
(* Proofs about the devices the firmware drives: LEDs (Led), the fan       *)
(* (Fan), the voltage output (Voltage), the amplifiers and the pins that   *)
(* select them (Amplifier), push button, menu and display (Panel), and the *)
(* HAT image behind the I2C slave (Hat).  They share no state; a section   *)
(* each.                                                                   *)
(***************************************************************************)
EXTENDS Led, Fan, Voltage, Amplifier, Panel, Hat, SequenceTheorems, WellFoundedInduction, TLAPS

-----------------------------------------------------------------------------
(***************************************************************************)
(* LEDs, for any colours.                                                  *)
(***************************************************************************)
Leds == [on : BOOLEAN, blinking : BOOLEAN, period : Nat, colour : Nat, since : Nat,
         phase : BOOLEAN, count : Nat, limit : Nat, pixel : Nat]

LedTypes ==
  /\ led \in Leds
  /\ ledVis \in {"background", "UI"} /\ ledData \in Nat
  /\ ledFlashes \in Nat /\ ledPainted \in BOOLEAN

\* What the LED has been sent is what it holds.
PixelFits(l) == l.pixel = IF l.on /\ (l.blinking => l.phase) THEN l.colour ELSE 0

\* ... at least where it has to be dark, until its colour is sent again.
DarkFits(l) == ~(l.on /\ (l.blinking => l.phase)) => l.pixel = 0

\* With no menu open nothing blinks, and the data have the LED unless a channel
\* colour does.
BackgroundFits ==
  ledVis = "background" =>
    /\ ~led.blinking
    /\ ~ledPainted => led.on /\ led.colour = ledData

\* The counter is one flash behind: the first began with the order.
CountFits ==
  led.blinking /\ led.limit > 0 =>
    IF led.on THEN led.count < led.limit /\ ledFlashes = led.count + 1
    ELSE ledFlashes = led.limit

LedInv == LedTypes /\ PixelFits(led) /\ BackgroundFits /\ CountFits

-----------------------------------------------------------------------------
(* What the operations of CLED leave. *)

LEMMA OnLeaves ==
  ASSUME NEW l \in Leds, NEW how \in BOOLEAN
  PROVE  LET after == On(l, how)
         IN /\ after \in Leds /\ PixelFits(after)
            /\ after.on = how /\ after.count = 0
            /\ after.blinking = l.blinking /\ after.colour = l.colour /\ after.limit = l.limit
BY DEF On, Leds, PixelFits

LEMMA ColourLeaves ==
  ASSUME NEW l \in Leds, NEW colour \in Nat
  PROVE  LET after == LedColour(l, colour)
         IN /\ after \in Leds /\ (DarkFits(l) => PixelFits(after))
            /\ after.colour = colour /\ after.on = l.on /\ after.blinking = l.blinking
            /\ after.count = l.count /\ after.limit = l.limit
BY DEF LedColour, Leds, PixelFits, DarkFits

LEMMA BlinkLeaves ==
  ASSUME NEW l \in Leds, NEW how \in BOOLEAN
  PROVE  LET after == BlinkMode(l, how)
         IN /\ after \in Leds /\ (PixelFits(l) /\ ~how => DarkFits(after))
            /\ after.blinking = how /\ after.colour = l.colour /\ after.on = l.on
            /\ after.count = l.count /\ after.limit = l.limit
BY DEF BlinkMode, Leds, PixelFits, DarkFits

LEMMA PeriodLeaves ==
  ASSUME NEW l \in Leds, NEW period \in Nat, NEW limit \in Nat
  PROVE  LET after == PeriodAndCount(l, period, limit)
         IN /\ after \in Leds /\ after.limit = limit
            /\ after.blinking = l.blinking /\ after.colour = l.colour /\ after.on = l.on
BY DEF PeriodAndCount, Leds

LEMMA SelectLeaves ==
  ASSUME LedTypes, NEW vis \in {"background", "UI"}
  PROVE  LET after == SelectVisMode(led, vis)
         IN /\ after \in Leds /\ PixelFits(after)
            /\ after.on /\ ~after.blinking
            /\ vis = "background" => after.colour = ledData
<1> DEFINE colour == IF vis = "background" THEN ledData ELSE 0
           steady == BlinkMode(led, FALSE)
           coloured == LedColour(steady, colour)
<1>1. colour \in Nat /\ led \in Leds
  BY DEF LedTypes
<1>2. steady \in Leds /\ steady.blinking = FALSE
  BY <1>1, BlinkLeaves
<1>3. coloured \in Leds /\ coloured.blinking = FALSE /\ coloured.colour = colour
  BY <1>1, <1>2, ColourLeaves
<1>4. LET after == On(coloured, TRUE)
      IN /\ after \in Leds /\ PixelFits(after)
         /\ after.on = TRUE /\ after.blinking = FALSE /\ after.colour = colour
  BY <1>3, OnLeaves
<1> QED BY <1>4 DEF SelectVisMode

\* Update(): the pixel stays true, and the counter goes with the flashes.
Counted(l, after) ==
  l.blinking /\ l.limit > 0 /\ l.on =>
    IF after.on THEN after.count = l.count + (IF ~l.phase /\ after.phase THEN 1 ELSE 0)
    ELSE l.count + 1 >= l.limit

CountedBelow(l, after) ==
  l.blinking /\ l.limit > 0 /\ l.on /\ after.on /\ l.count < l.limit => after.count < l.limit

Updated(l, after) ==
  /\ after \in Leds /\ PixelFits(after)
  /\ after.colour = l.colour /\ after.blinking = l.blinking /\ after.limit = l.limit
  /\ ~l.blinking \/ ~l.on => after.on = l.on
  /\ Counted(l, after) /\ CountedBelow(l, after)

LEMMA UpdateLeaves ==
  ASSUME NEW l \in Leds, PixelFits(l)
  PROVE  Updated(l, Update(l))
<1> DEFINE after == Update(l)
<1>1. CASE l.since + 1 < l.period
  <2>1. after = [l EXCEPT !.since = @ + 1]
    BY <1>1 DEF Update
  <2> QED BY <2>1 DEF Updated, Counted, CountedBelow, PixelFits, Leds
<1>2. CASE ~(l.since + 1 < l.period) /\ (~l.on \/ ~l.blinking)
  <2>1. after = [l EXCEPT !.since = 0]
    BY <1>2 DEF Update
  <2> QED BY <1>2, <2>1 DEF Updated, Counted, CountedBelow, PixelFits, Leds
<1>3. CASE ~(l.since + 1 < l.period) /\ l.on /\ l.blinking
  <2>1. CASE l.phase
    <3>1. /\ after.on = TRUE /\ after.blinking = TRUE /\ after.phase = FALSE /\ after.pixel = 0
          /\ after.count = l.count /\ after.colour = l.colour /\ after.limit = l.limit
          /\ after \in Leds
      BY <1>3, <2>1 DEF Update, Leds
    <3>2. Counted(l, after) /\ CountedBelow(l, after)
      BY <1>3, <2>1, <3>1 DEF Counted, CountedBelow, Leds
    <3> QED BY <1>3, <2>1, <3>1, <3>2 DEF Updated, PixelFits
  <2>2. CASE ~l.phase /\ ~(l.limit > 0)
    <3>1. /\ after.on = TRUE /\ after.blinking = TRUE /\ after.phase = TRUE /\ after.pixel = l.colour
          /\ after.colour = l.colour /\ after.limit = l.limit
          /\ after \in Leds
      BY <1>3, <2>2 DEF Update, Leds
    <3> QED BY <1>3, <2>2, <3>1 DEF Updated, Counted, CountedBelow, PixelFits
  <2>3. CASE ~l.phase /\ l.limit > 0 /\ l.count + 1 >= l.limit
    <3>1. /\ after.on = FALSE /\ after.blinking = TRUE /\ after.pixel = 0
          /\ after.colour = l.colour /\ after.limit = l.limit
          /\ after \in Leds
      BY <1>3, <2>3 DEF Update, On, Leds
    <3> QED BY <1>3, <2>3, <3>1 DEF Updated, Counted, CountedBelow, PixelFits
  <2>4. CASE ~l.phase /\ l.limit > 0 /\ ~(l.count + 1 >= l.limit)
    <3> DEFINE turned == [l EXCEPT !.since = 0, !.phase = ~@]
               next == [turned EXCEPT !.count = @ + 1]
    <3>1. turned \in Leds /\ turned.phase = TRUE /\ turned.count = l.count /\ turned.limit = l.limit
          /\ turned.on = TRUE /\ turned.blinking = TRUE /\ turned.colour = l.colour
      BY <1>3, <2>4 DEF Leds
    <3>2. next \in Leds /\ next.phase = TRUE /\ next.count = l.count + 1 /\ next.limit = l.limit
          /\ next.on = TRUE /\ next.blinking = TRUE /\ next.colour = l.colour
      <4>1. l.count + 1 \in Nat
        BY DEF Leds
      <4> HIDE DEF turned
      <4> QED BY <3>1, <4>1 DEF Leds
    <3>3. after = [next EXCEPT !.pixel = l.colour]
      BY <1>3, <2>4, <3>1, <3>2 DEF Update
    <3>4. l.colour \in Nat
      BY DEF Leds
    <3>5. /\ after.on = TRUE /\ after.blinking = TRUE /\ after.phase = TRUE /\ after.pixel = l.colour
          /\ after.count = l.count + 1 /\ after.colour = l.colour /\ after.limit = l.limit
          /\ after \in Leds
      <4> HIDE DEF after, next
      <4> QED BY <3>2, <3>3, <3>4 DEF Leds
    <3>6. after.count < l.limit
      BY <2>4, <3>5 DEF Leds
    <3> QED BY <1>3, <2>4, <3>5, <3>6 DEF Updated, Counted, CountedBelow, PixelFits
  <2> QED BY <2>1, <2>2, <2>3, <2>4
<1> QED BY <1>1, <1>2, <1>3

-----------------------------------------------------------------------------
LEMMA LedInitial == LedInit => LedInv
BY DEF LedInit, LedInv, LedTypes, Leds, PixelFits, BackgroundFits, CountFits

\* An order to blink or shine begins anew: the LED is on, at the first flash.
LEMMA OrderKeeps ==
  ASSUME led' \in Leds, PixelFits(led'), led'.on = TRUE, led'.count = 0,
         led'.blinking = TRUE => ledFlashes' = 1,
         ledVis' \in {"background", "UI"}, ledData' \in Nat, ledFlashes' \in Nat,
         ledPainted' \in BOOLEAN, BackgroundFits'
  PROVE  LedInv'
<1>1. CountFits'
  BY DEF CountFits, Leds
<1> QED BY <1>1 DEF LedInv, LedTypes

LEMMA BlinkKeeps ==
  ASSUME LedAssumption, LedInv, LedBlink PROVE LedInv'
<1>1. PICK colour \in LedColours, times \in {1, 2} :
        led' = On(BlinkMode(LedColour(PeriodAndCount(SelectVisMode(led, "UI"), 3, times), colour), TRUE), TRUE)
  BY DEF LedBlink
<1> DEFINE selected == SelectVisMode(led, "UI")
           counting == PeriodAndCount(selected, 3, times)
           coloured == LedColour(counting, colour)
           blinking == BlinkMode(coloured, TRUE)
<1>2. colour \in Nat
  BY DEF LedAssumption
<1>3. selected \in Leds
  BY SelectLeaves DEF LedInv
<1>4. counting \in Leds
  BY <1>3, PeriodLeaves
<1>5. coloured \in Leds
  BY <1>2, <1>4, ColourLeaves
<1>6. blinking \in Leds
  BY <1>5, BlinkLeaves
<1>7. led' \in Leds /\ PixelFits(led') /\ led'.on = TRUE /\ led'.count = 0
  BY <1>1, <1>6, OnLeaves
<1>8. ledVis' = "UI" /\ ledFlashes' = 1 /\ ledPainted' = FALSE /\ ledData' = ledData /\ ledData \in Nat
  BY DEF LedBlink, LedInv, LedTypes
<1>9. BackgroundFits'
  BY <1>8 DEF BackgroundFits
<1> QED BY <1>7, <1>8, <1>9, OrderKeeps

LEMMA ShowKeeps ==
  ASSUME LedAssumption, LedInv, LedShow PROVE LedInv'
<1>1. PICK colour \in LedColours \cup {0}, how \in BOOLEAN, times \in {0, 2} :
        led' = On(PeriodAndCount(BlinkMode(LedColour(SelectVisMode(led, "UI"), colour), how),
                                 IF times = 2 THEN 1 ELSE 5, times), TRUE)
  BY DEF LedShow
<1> DEFINE selected == SelectVisMode(led, "UI")
           coloured == LedColour(selected, colour)
           blinking == BlinkMode(coloured, how)
           counting == PeriodAndCount(blinking, IF times = 2 THEN 1 ELSE 5, times)
<1>2. colour \in Nat
  BY DEF LedAssumption
<1>3. selected \in Leds
  BY SelectLeaves DEF LedInv
<1>4. coloured \in Leds
  BY <1>2, <1>3, ColourLeaves
<1>5. blinking \in Leds
  BY <1>4, BlinkLeaves
<1>6. counting \in Leds
  BY <1>5, PeriodLeaves
<1>7. led' \in Leds /\ PixelFits(led') /\ led'.on = TRUE /\ led'.count = 0
  BY <1>1, <1>6, OnLeaves
<1>8. ledVis' = "UI" /\ ledFlashes' = 1 /\ ledPainted' = FALSE /\ ledData' = ledData /\ ledData \in Nat
  BY DEF LedShow, LedInv, LedTypes
<1>9. BackgroundFits'
  BY <1>8 DEF BackgroundFits
<1> QED BY <1>7, <1>8, <1>9, OrderKeeps

LEMMA SearchingKeeps ==
  ASSUME LedAssumption, LedInv, LedSearching PROVE LedInv'
<1>1. PICK colour \in LedColours :
        led' = On(LedColour(PeriodAndCount(BlinkMode(led, TRUE), 1, 0), colour), TRUE)
  BY DEF LedSearching
<1> DEFINE blinking == BlinkMode(led, TRUE)
           counting == PeriodAndCount(blinking, 1, 0)
           coloured == LedColour(counting, colour)
<1>2. colour \in Nat /\ led \in Leds
  BY DEF LedAssumption, LedInv, LedTypes
<1>3. blinking \in Leds
  BY <1>2, BlinkLeaves
<1>4. counting \in Leds
  BY <1>3, PeriodLeaves
<1>5. coloured \in Leds
  BY <1>2, <1>4, ColourLeaves
<1>6. led' \in Leds /\ PixelFits(led') /\ led'.on = TRUE /\ led'.count = 0
  BY <1>1, <1>5, OnLeaves
<1>7. /\ ledVis' = "UI" /\ ledFlashes' = 1 /\ ledPainted' = ledPainted /\ ledData' = ledData
      /\ ledData \in Nat /\ ledPainted \in BOOLEAN
  BY DEF LedSearching, LedInv, LedTypes
<1>8. BackgroundFits'
  BY <1>7 DEF BackgroundFits
<1> QED BY <1>6, <1>7, <1>8, OrderKeeps

LEMMA SearchedKeeps ==
  ASSUME LedAssumption, LedInv, LedSearched PROVE LedInv'
<1>1. PICK colour \in LedColours : led' = LedColour(BlinkMode(led, FALSE), colour)
  BY DEF LedSearched
<1> DEFINE steady == BlinkMode(led, FALSE)
<1>2. colour \in Nat /\ led \in Leds /\ PixelFits(led)
  BY DEF LedAssumption, LedInv, LedTypes
<1>3. steady \in Leds /\ DarkFits(steady) /\ steady.blinking = FALSE
  BY <1>2, BlinkLeaves
<1>4. led' \in Leds /\ PixelFits(led') /\ led'.blinking = FALSE
  BY <1>1, <1>2, <1>3, ColourLeaves
<1>5. ledVis = "UI" /\ UNCHANGED <<ledVis, ledData, ledFlashes, ledPainted>> /\ LedInv
  BY DEF LedSearched
<1> QED BY <1>4, <1>5 DEF LedInv, LedTypes, BackgroundFits, CountFits

LEMMA CompletedKeeps ==
  ASSUME LedInv, LedSearchCompleted PROVE LedInv'
<1> DEFINE steady == BlinkMode(led, FALSE)
<1>1. led \in Leds
  BY DEF LedInv, LedTypes
<1>2. steady \in Leds /\ steady.blinking = FALSE /\ steady.colour = led.colour
  BY <1>1, BlinkLeaves
<1>3. led' = On(steady, TRUE) /\ UNCHANGED <<ledVis, ledData, ledFlashes, ledPainted>> /\ LedInv
  BY DEF LedSearchCompleted
<1>4. led' \in Leds /\ PixelFits(led') /\ led'.on = TRUE /\ led'.blinking = FALSE /\ led'.colour = led.colour
  BY <1>2, <1>3, OnLeaves
<1> QED BY <1>3, <1>4 DEF LedInv, LedTypes, BackgroundFits, CountFits

LEMMA ExitKeeps ==
  ASSUME LedInv, LedExitMenu PROVE LedInv'
<1>1. LET after == SelectVisMode(led, "background")
      IN after \in Leds /\ PixelFits(after) /\ after.on /\ ~after.blinking /\ after.colour = ledData
  BY SelectLeaves DEF LedInv
<1>2. /\ led' = SelectVisMode(led, "background")
      /\ ledVis' = "background" /\ ledPainted' = FALSE /\ UNCHANGED <<ledData, ledFlashes>> /\ LedInv
  BY DEF LedExitMenu
<1> QED BY <1>1, <1>2 DEF LedInv, LedTypes, BackgroundFits, CountFits

LEMMA SensorKeeps ==
  ASSUME LedAssumption, LedInv, LedSensor PROVE LedInv'
<1>1. PICK colour \in LedColours \cup {0} :
        /\ ledData' = colour
        /\ IF ledVis = "background"
           THEN led' = LedColour(led, colour) /\ ledPainted' = (ledPainted /\ ~led.on)
           ELSE UNCHANGED <<led, ledPainted>>
        /\ UNCHANGED <<ledVis, ledFlashes>>
  BY DEF LedSensor
<1>2. colour \in Nat /\ led \in Leds /\ PixelFits(led) /\ LedInv
  BY DEF LedAssumption, LedInv, LedTypes
<1>3. CASE ledVis = "background"
  <2>1. DarkFits(led)
    BY <1>2 DEF PixelFits, DarkFits
  <2>2. /\ led' \in Leds /\ PixelFits(led')
        /\ led'.colour = colour /\ led'.on = led.on /\ led'.blinking = led.blinking
    BY <1>1, <1>2, <1>3, <2>1, ColourLeaves
  <2>3. ~led.blinking
    BY <1>2, <1>3 DEF LedInv, BackgroundFits
  <2>4. ledPainted' \in BOOLEAN /\ (~ledPainted' => led.on \/ ~ledPainted)
    BY <1>1, <1>2, <1>3 DEF LedInv, LedTypes
  <2>5. ~ledPainted' => led.on
    BY <1>2, <1>3, <2>4 DEF LedInv, BackgroundFits
  <2>6. LedTypes'
    BY <1>1, <1>2, <2>2, <2>4 DEF LedInv, LedTypes
  <2>7. BackgroundFits' /\ CountFits'
    BY <1>1, <2>2, <2>3, <2>5 DEF BackgroundFits, CountFits
  <2> QED BY <2>2, <2>6, <2>7 DEF LedInv
<1>4. CASE ledVis # "background"
  BY <1>1, <1>2, <1>4 DEF LedInv, LedTypes, PixelFits, BackgroundFits, CountFits
<1> QED BY <1>3, <1>4

LEMMA PaintKeeps ==
  ASSUME LedAssumption, LedInv, LedPaint PROVE LedInv'
<1>1. PICK colour \in LedColours \cup {0} :
        led' = On(LedColour(BlinkMode(led, FALSE), colour), colour # 0)
  BY DEF LedPaint
<1> DEFINE steady == BlinkMode(led, FALSE)
           coloured == LedColour(steady, colour)
<1>2. colour \in Nat /\ led \in Leds
  BY DEF LedAssumption, LedInv, LedTypes
<1>3. steady \in Leds /\ steady.blinking = FALSE
  BY <1>2, BlinkLeaves
<1>4. coloured \in Leds /\ coloured.blinking = FALSE
  BY <1>2, <1>3, ColourLeaves
<1>5. (colour # 0) \in BOOLEAN
  OBVIOUS
<1>6. led' \in Leds /\ PixelFits(led') /\ led'.blinking = FALSE
  BY <1>1, <1>4, <1>5, OnLeaves
<1>7. ledPainted' = TRUE /\ UNCHANGED <<ledVis, ledData, ledFlashes>> /\ LedInv
  BY DEF LedPaint
<1> QED BY <1>6, <1>7 DEF LedInv, LedTypes, BackgroundFits, CountFits

LEMMA TurnKeeps ==
  ASSUME LedInv, LedTurn PROVE LedInv'
<1>1. led \in Leds /\ PixelFits(led)
  BY DEF LedInv, LedTypes
<1>2. Updated(led, led')
  BY <1>1, UpdateLeaves DEF LedTurn
<1>3. /\ led' \in Leds /\ PixelFits(led')
      /\ led'.colour = led.colour /\ led'.blinking = led.blinking /\ led'.limit = led.limit
      /\ ~led.blinking \/ ~led.on => led'.on = led.on
      /\ Counted(led, led') /\ CountedBelow(led, led')
  BY <1>2 DEF Updated
<1>4. UNCHANGED <<ledVis, ledData, ledPainted>> /\ LedInv
  BY DEF LedTurn
<1>5. LedTypes'
  BY <1>3, <1>4 DEF LedTurn, LedInv, LedTypes
<1>6. BackgroundFits'
  BY <1>3, <1>4 DEF LedInv, BackgroundFits
<1>7. ASSUME led'.blinking, led'.limit > 0
      PROVE  IF led'.on THEN led'.count < led'.limit /\ ledFlashes' = led'.count + 1
             ELSE ledFlashes' = led'.limit
  <2>1. led.blinking /\ led.limit > 0
    BY <1>3, <1>7
  <2>2. CASE ~led.on
    BY <1>3, <1>4, <2>1, <2>2 DEF LedTurn, LedInv, CountFits
  <2>3. CASE led.on /\ led'.on
    BY <1>1, <1>3, <1>4, <2>1, <2>3 DEF LedTurn, LedInv, CountFits, Counted, CountedBelow, Leds
  <2>4. CASE led.on /\ ~led'.on
    BY <1>1, <1>3, <1>4, <2>1, <2>4 DEF LedTurn, LedInv, CountFits, Counted, Leds
  <2> QED BY <2>2, <2>3, <2>4
<1>8. CountFits'
  BY <1>7 DEF CountFits
<1> QED BY <1>3, <1>5, <1>6, <1>8 DEF LedInv

LEMMA LedStep == LedAssumption /\ LedInv /\ [LedNext]_ledVars => LedInv'
<1> SUFFICES ASSUME LedAssumption, LedInv, [LedNext]_ledVars PROVE LedInv'
  OBVIOUS
<1>1. CASE UNCHANGED ledVars
  BY <1>1 DEF ledVars, ledChannelVars, LedInv, LedTypes, PixelFits, BackgroundFits, CountFits
<1>2. CASE LedNext
  BY <1>2, BlinkKeeps, ShowKeeps, SearchingKeeps, SearchedKeeps, CompletedKeeps, ExitKeeps,
     SensorKeeps, PaintKeeps, TurnKeeps DEF LedNext
<1> QED BY <1>1, <1>2

LEMMA LedInvSuffices == LedInv => LedTruthful
<1> SUFFICES ASSUME LedInv PROVE LedTruthful
  OBVIOUS
<1>1. LedShowsState
  BY DEF LedInv, LedTypes, PixelFits, BackgroundFits, LedShowsState
<1>2. FlashesAreCounted
  BY DEF LedInv, LedTypes, Leds, CountFits, FlashesAreCounted
<1> QED BY <1>1, <1>2 DEF LedTruthful

\* Whatever views, data, channel colours and ticks follow one another, the LED
\* shows what its state says and flashes as often as it was told.
THEOREM LedTells == ASSUME LedAssumption PROVE LedSpec => []LedTruthful
<1>1. LedInit => LedInv
  BY LedInitial
<1>2. LedInv /\ [LedNext]_ledVars => LedInv'
  BY LedStep
<1>3. LedInv => LedTruthful
  BY LedInvSuffices
<1> QED BY <1>1, <1>2, <1>3, PTL DEF LedSpec

-----------------------------------------------------------------------------
(***************************************************************************)
(* The fan, for any temperatures and periods.                              *)
(***************************************************************************)
Fans == [enabled : BOOLEAN, speed : Nat, started : BOOLEAN, top : FanTops, duty : Nat]
Timers == [running : BOOLEAN, count : Nat, cc0 : FanTops, cc1 : Int]
CallSteps == [step : {"none", "cc0", "cc1", "check", "last"}, then : {"none", "start", "stop"}]

FanTypes ==
  /\ fan \in Fans /\ fanTimer \in Timers /\ fanCall \in CallSteps
  /\ fanPin \in BOOLEAN /\ fanDue \in BOOLEAN

\* What is written to the timer in a call stands from its write on.
WrittenStands ==
  /\ fanCall.step \in {"none", "cc1", "check", "last"} => fanTimer.cc0 = fan.top
  /\ fanCall.step \in {"none", "check", "last"} => fanTimer.cc1 = PulseOf(fan)

\* From the check on, the count is within the period.
WithinPeriod ==
  fanCall.step \in {"none", "last"} /\ fanTimer.running => fanTimer.count =< fanTimer.cc0

RunsWhenStarted ==
  /\ fanTimer.running = fan.started
  /\ ~fan.started => ~fanPin

FanInv == FanTypes /\ WrittenStands /\ WithinPeriod /\ RunsWhenStarted

-----------------------------------------------------------------------------
LEMMA MinOfTwo ==
  ASSUME NEW a \in Int, NEW b \in Int
  PROVE  Min({a, b}) \in {a, b} /\ Min({a, b}) =< a /\ Min({a, b}) =< b
<1>1. \E m \in {a, b} : \A y \in {a, b} : m =< y
  <2>1. CASE a =< b
    BY <2>1
  <2>2. CASE ~(a =< b)
    BY <2>2
  <2> QED BY <2>1, <2>2
<1>2. Min({a, b}) \in {a, b} /\ \A y \in {a, b} : Min({a, b}) =< y
  BY <1>1 DEF Min
<1> QED BY <1>2

LEMMA TopsAreNat == FanAssumption => FanTops \subseteq Nat \ 0 .. 2
BY DEF FanAssumption

LEMMA PulseIsInt ==
  ASSUME FanAssumption, NEW f \in Fans
  PROVE  PulseOf(f) \in Int
<1> DEFINE pulse == (f.top * f.duty) \div 18
           below == f.top - 1
<1>1. f.top \in Nat /\ f.duty \in Nat
  BY TopsAreNat DEF Fans
<1>2. f.top * f.duty \in Int
  BY <1>1
<1>3. pulse \in Int /\ below \in Int
  BY <1>1, <1>2
<1>4. PulseOf(f) = Min({pulse, below})
  BY DEF PulseOf
<1> HIDE DEF pulse, below
<1>5. Min({pulse, below}) \in {pulse, below}
  BY <1>3, MinOfTwo
<1> QED BY <1>3, <1>4, <1>5

LEMMA SpeedIsNat ==
  ASSUME NEW t \in Int
  PROVE  SpeedAt(t) \in Nat
<1>1. CASE t < 45
  BY <1>1 DEF SpeedAt
<1>2. CASE ~(t < 45)
  <2> DEFINE speed == (FanSpeeds * (t - 45)) \div 20
             top == FanSpeeds - 1
  <2>1. speed \in Nat /\ top \in Nat
    BY <1>2 DEF FanSpeeds
  <2>2. SpeedAt(t) = Min({speed, top})
    BY <1>2 DEF SpeedAt
  <2> HIDE DEF speed, top
  <2>3. Min({speed, top}) \in {speed, top}
    BY <2>1, MinOfTwo
  <2> QED BY <2>1, <2>2, <2>3
<1> QED BY <1>1, <1>2
LEMMA FanInitial == FanAssumption /\ FanInit => FanInv
<1> SUFFICES ASSUME FanAssumption, FanInit PROVE FanInv
  OBVIOUS
<1>1. fan \in Fans /\ fan.started = FALSE
  BY DEF FanInit, Fans
<1>2. PulseOf(fan) \in Int
  BY <1>1, PulseIsInt
<1>3. FanTypes
  BY <1>1, <1>2 DEF FanInit, FanTypes, Fans, Timers, CallSteps, NoCall
<1>4. WrittenStands /\ WithinPeriod /\ RunsWhenStarted
  BY <1>1 DEF FanInit, WrittenStands, WithinPeriod, RunsWhenStarted
<1> QED BY <1>3, <1>4 DEF FanInv

\* A fan that is stopped, whatever its speed was set to.
LEMMA StopKeeps ==
  ASSUME FanInv, NEW f \in Fans, f.top = fan.top, f.duty = fan.duty, fanDue' \in BOOLEAN,
         fanCall.step \in {"none", "last"}, FanStop(f)
  PROVE  FanInv'
<1>1. /\ fan' \in Fans /\ fan'.started = FALSE /\ fan'.top = fan.top /\ fan'.duty = fan.duty
  BY DEF FanStop, Fans
<1>2. /\ fanTimer' \in Timers /\ fanTimer'.running = FALSE
      /\ fanTimer'.cc0 = fanTimer.cc0 /\ fanTimer'.cc1 = fanTimer.cc1
  BY DEF FanStop, FanInv, FanTypes, Timers
<1>3. fanPin' = FALSE /\ fanCall' = NoCall
  BY DEF FanStop
<1>4. PulseOf(fan') = PulseOf(fan)
  BY <1>1 DEF PulseOf
<1>5. FanTypes'
  BY <1>1, <1>2, <1>3 DEF FanTypes, CallSteps, NoCall
<1>6. WrittenStands'
  BY <1>1, <1>2, <1>3, <1>4 DEF FanInv, WrittenStands
<1> QED BY <1>1, <1>2, <1>3, <1>5, <1>6 DEF FanInv, WithinPeriod, RunsWhenStarted

LEMMA StartKeeps ==
  ASSUME FanAssumption, FanInv, fanCall.step = "last", fanDue' = fanDue, FanStart
  PROVE  FanInv'
<1>1. CASE fan.started
  <2>1. fanCall' = NoCall /\ UNCHANGED <<fan, fanTimer, fanPin, fanDue>>
    BY <1>1 DEF FanStart
  <2>2. PulseOf(fan') = PulseOf(fan)
    BY <2>1 DEF PulseOf
  <2>3. FanTypes'
    BY <2>1 DEF FanInv, FanTypes, CallSteps, NoCall
  <2>4. WrittenStands'
    BY <2>1, <2>2 DEF FanInv, WrittenStands
  <2> QED BY <2>1, <2>3, <2>4 DEF FanInv, WithinPeriod, RunsWhenStarted
<1>2. CASE ~fan.started
  <2>1. /\ fan' \in Fans /\ fan'.started = TRUE /\ fan'.top = fan.top /\ fan'.duty = fan.duty
    BY <1>2 DEF FanStart, FanInv, FanTypes, Fans
  <2>2. /\ fanTimer' \in Timers /\ fanTimer'.running = TRUE /\ fanTimer'.count = 0
        /\ fanTimer'.cc0 = fanTimer.cc0 /\ fanTimer'.cc1 = fanTimer.cc1
    <3>1. fanTimer \in Timers
      BY DEF FanInv, FanTypes
    <3>2. fanTimer' = [fanTimer EXCEPT !.running = TRUE, !.count = 0]
      BY <1>2 DEF FanStart
    <3> QED BY <3>1, <3>2 DEF Timers
  <2>3. fanPin' = TRUE /\ fanCall' = NoCall
    BY <1>2 DEF FanStart
  <2>4. PulseOf(fan') = PulseOf(fan)
    BY <2>1 DEF PulseOf
  <2>5. fanTimer'.count =< fanTimer'.cc0
    BY <2>2, TopsAreNat DEF Timers
  <2>6. FanTypes'
    BY <2>1, <2>2, <2>3 DEF FanInv, FanTypes, CallSteps, NoCall
  <2>7. WrittenStands'
    BY <2>1, <2>2, <2>3, <2>4 DEF FanInv, WrittenStands
  <2> QED BY <2>1, <2>2, <2>3, <2>5, <2>6, <2>7 DEF FanInv, WithinPeriod, RunsWhenStarted
<1> QED BY <1>1, <1>2
LEMMA UpdateKeeps ==
  ASSUME FanAssumption, FanInv, FanUpdate PROVE FanInv'
<1>1. PICK t \in FanTemps :
        LET f == [fan EXCEPT !.speed = SpeedAt(t)]
        IN IF f.speed = 0 THEN FanStop(f)
           ELSE /\ fan' = [f EXCEPT !.duty = DutyOf(f.speed)]
                /\ fanCall' = [step |-> "cc0", then |-> IF fan.enabled THEN "start" ELSE "stop"]
                /\ UNCHANGED <<fanTimer, fanPin>>
  BY DEF FanUpdate
<1> DEFINE f == [fan EXCEPT !.speed = SpeedAt(t)]
<1>2. SpeedAt(t) \in Nat
  BY SpeedIsNat DEF FanAssumption
<1>3. fan \in Fans /\ fanTimer \in Timers /\ fanDue \in BOOLEAN /\ fanPin \in BOOLEAN
  BY DEF FanInv, FanTypes
<1>4. f \in Fans /\ f.top = fan.top /\ f.duty = fan.duty /\ f.started = fan.started /\ f.speed \in Nat
  BY <1>2, <1>3 DEF Fans
<1>5. fanDue' = fanDue /\ fanCall.step = "none"
  BY DEF FanUpdate, NoCall
<1>6. CASE f.speed = 0
  <2>1. FanStop(f)
    BY <1>1, <1>6
  <2> HIDE DEF f
  <2> QED BY <1>3, <1>4, <1>5, <2>1, StopKeeps
<1>7. CASE f.speed # 0
  <2>1. /\ fan' = [f EXCEPT !.duty = DutyOf(f.speed)]
        /\ fanCall' = [step |-> "cc0", then |-> IF fan.enabled THEN "start" ELSE "stop"]
        /\ UNCHANGED <<fanTimer, fanPin>>
    BY <1>1, <1>7
  <2>2. DutyOf(f.speed) \in Nat
    BY <1>4 DEF DutyOf
  <2> HIDE DEF f
  <2>3. fan' \in Fans /\ fan'.started = f.started
    BY <1>4, <2>1, <2>2 DEF Fans
  <2>4. fanCall' \in CallSteps /\ fanCall'.step = "cc0"
    BY <2>1 DEF CallSteps
  <2>5. FanTypes'
    BY <1>3, <1>5, <2>1, <2>3, <2>4 DEF FanTypes
  <2>6. RunsWhenStarted'
    BY <1>4, <2>1, <2>3 DEF FanInv, RunsWhenStarted
  <2>7. WrittenStands' /\ WithinPeriod'
    BY <2>4 DEF WrittenStands, WithinPeriod
  <2> QED BY <2>5, <2>6, <2>7 DEF FanInv
<1> QED BY <1>6, <1>7

LEMMA FrequencyKeeps ==
  ASSUME FanInv, FanSetFrequency PROVE FanInv'
<1>1. PICK top \in FanTops : fan' = [fan EXCEPT !.top = top]
  BY DEF FanSetFrequency
<1>2. fan' \in Fans /\ fan'.started = fan.started
  BY <1>1 DEF FanInv, FanTypes, Fans
<1>3. fanCall' \in CallSteps /\ fanCall'.step = "cc0"
  BY DEF FanSetFrequency, CallSteps
<1>4. UNCHANGED <<fanDue, fanTimer, fanPin>>
  BY DEF FanSetFrequency
<1>5. FanTypes' /\ RunsWhenStarted'
  BY <1>2, <1>3, <1>4 DEF FanInv, FanTypes, RunsWhenStarted
<1>6. WrittenStands' /\ WithinPeriod'
  BY <1>3 DEF WrittenStands, WithinPeriod
<1> QED BY <1>5, <1>6 DEF FanInv

\* What leaves period, duty cycle, start and timer alone.
LEMMA EnabledKeeps ==
  ASSUME FanInv, FanSetEnabled PROVE FanInv'
<1>1. /\ fan' \in Fans /\ fan'.started = fan.started /\ fan'.top = fan.top /\ fan'.duty = fan.duty
  BY DEF FanSetEnabled, FanInv, FanTypes, Fans
<1>2. PulseOf(fan') = PulseOf(fan)
  BY <1>1 DEF PulseOf
<1>3. UNCHANGED <<fanDue, fanTimer, fanPin, fanCall>>
  BY DEF FanSetEnabled
<1> QED BY <1>1, <1>2, <1>3 DEF FanInv, FanTypes, WrittenStands, WithinPeriod, RunsWhenStarted

LEMMA WriteCc0Keeps ==
  ASSUME FanInv, FanWriteCc0 PROVE FanInv'
<1>1. fan \in Fans /\ fanTimer \in Timers /\ fanCall \in CallSteps
  BY DEF FanInv, FanTypes
<1>2. /\ fanCall' \in CallSteps /\ fanCall'.step = "cc1"
  BY <1>1 DEF FanWriteCc0, CallSteps
<1>3. fanTimer' = [fanTimer EXCEPT !.cc0 = fan.top] /\ UNCHANGED <<fan, fanDue, fanPin>>
  BY DEF FanWriteCc0
<1>4. fanTimer' \in Timers /\ fanTimer'.cc0 = fan.top /\ fanTimer'.running = fanTimer.running
  BY <1>1, <1>3 DEF Fans, Timers
<1>5. FanTypes' /\ RunsWhenStarted'
  BY <1>2, <1>3, <1>4 DEF FanInv, FanTypes, RunsWhenStarted
<1>6. WrittenStands' /\ WithinPeriod'
  BY <1>2, <1>3, <1>4 DEF WrittenStands, WithinPeriod
<1> QED BY <1>5, <1>6 DEF FanInv

LEMMA WriteCc1Keeps ==
  ASSUME FanAssumption, FanInv, FanWriteCc1 PROVE FanInv'
<1>1. fan \in Fans /\ fanTimer \in Timers /\ fanCall \in CallSteps
  BY DEF FanInv, FanTypes
<1>2. fanCall' \in CallSteps /\ fanCall'.step = "check" /\ fanCall.step = "cc1"
  BY <1>1 DEF FanWriteCc1, CallSteps
<1>3. fanTimer' = [fanTimer EXCEPT !.cc1 = PulseOf(fan)] /\ UNCHANGED <<fan, fanDue, fanPin>>
  BY DEF FanWriteCc1
<1>4. PulseOf(fan) \in Int /\ PulseOf(fan') = PulseOf(fan)
  BY <1>1, <1>3, PulseIsInt
<1>5. /\ fanTimer' \in Timers /\ fanTimer'.cc1 = PulseOf(fan)
      /\ fanTimer'.cc0 = fanTimer.cc0 /\ fanTimer'.running = fanTimer.running
  BY <1>1, <1>3, <1>4 DEF Timers
<1>6. FanTypes' /\ RunsWhenStarted'
  BY <1>2, <1>3, <1>5 DEF FanInv, FanTypes, RunsWhenStarted
<1>7. WrittenStands' /\ WithinPeriod'
  BY <1>2, <1>3, <1>4, <1>5 DEF FanInv, WrittenStands, WithinPeriod
<1> QED BY <1>6, <1>7 DEF FanInv
LEMMA CheckKeeps ==
  ASSUME FanAssumption, FanInv, FanCheck PROVE FanInv'
<1>1. fan \in Fans /\ fanTimer \in Timers /\ fanCall \in CallSteps /\ fanPin \in BOOLEAN
  BY DEF FanInv, FanTypes
<1>2. fanCall' \in CallSteps /\ fanCall'.step = "last" /\ fanCall.step = "check"
  BY <1>1 DEF FanCheck, CallSteps
<1>3. UNCHANGED <<fan, fanDue>> /\ PulseOf(fan') = PulseOf(fan)
  BY DEF FanCheck
<1>4. fanTimer.cc0 \in Nat \ 0 .. 2 /\ fanTimer.count \in Nat
  BY <1>1, TopsAreNat DEF Timers
<1>5. CASE Overrun
  <2>1. fanTimer' = [fanTimer EXCEPT !.running = TRUE, !.count = 0] /\ fanPin' = TRUE
    BY <1>5 DEF FanCheck
  <2>2. /\ fanTimer' \in Timers /\ fanTimer'.running = TRUE /\ fanTimer'.count = 0
        /\ fanTimer'.cc0 = fanTimer.cc0 /\ fanTimer'.cc1 = fanTimer.cc1
    BY <1>1, <2>1 DEF Timers
  <2>3. fan.started
    BY <1>5 DEF Overrun
  <2>4. FanTypes'
    BY <1>2, <1>3, <2>1, <2>2 DEF FanInv, FanTypes
  <2>5. WrittenStands' /\ WithinPeriod'
    BY <1>2, <1>3, <1>4, <2>2 DEF FanInv, WrittenStands, WithinPeriod
  <2>6. RunsWhenStarted'
    BY <1>1, <1>3, <2>2, <2>3 DEF RunsWhenStarted, Fans
  <2> QED BY <2>4, <2>5, <2>6 DEF FanInv
<1>6. CASE ~Overrun
  <2>1. UNCHANGED <<fanTimer, fanPin>>
    BY <1>6 DEF FanCheck
  <2>2. fanTimer.running => fanTimer.count =< fanTimer.cc0
    BY <1>4, <1>6 DEF Overrun, Margin, FanInv, RunsWhenStarted
  <2>3. FanTypes' /\ RunsWhenStarted'
    BY <1>2, <1>3, <2>1 DEF FanInv, FanTypes, RunsWhenStarted
  <2>4. WrittenStands' /\ WithinPeriod'
    BY <1>2, <1>3, <2>1, <2>2 DEF FanInv, WrittenStands, WithinPeriod
  <2> QED BY <2>3, <2>4 DEF FanInv
<1> QED BY <1>5, <1>6

LEMMA ReturnKeeps ==
  ASSUME FanAssumption, FanInv, FanReturn PROVE FanInv'
<1>1. fan \in Fans /\ fanDue' = fanDue /\ fanDue \in BOOLEAN /\ fanCall.step = "last"
  BY DEF FanReturn, FanInv, FanTypes
<1>2. CASE fanCall.then = "start"
  BY <1>1, <1>2, StartKeeps DEF FanReturn
<1>3. CASE fanCall.then = "stop"
  BY <1>1, <1>3, StopKeeps DEF FanReturn
<1>4. CASE fanCall.then \notin {"start", "stop"}
  <2>1. fanCall' = NoCall /\ UNCHANGED <<fan, fanTimer, fanPin>>
    BY <1>4 DEF FanReturn
  <2>2. PulseOf(fan') = PulseOf(fan)
    BY <2>1
  <2>3. FanTypes' /\ RunsWhenStarted'
    BY <1>1, <2>1 DEF FanInv, FanTypes, RunsWhenStarted, CallSteps, NoCall
  <2>4. WrittenStands' /\ WithinPeriod'
    BY <1>1, <2>1, <2>2 DEF FanInv, WrittenStands, WithinPeriod
  <2> QED BY <2>3, <2>4 DEF FanInv
<1> QED BY <1>2, <1>3, <1>4

LEMMA TickKeeps ==
  ASSUME FanAssumption, FanInv, FanTick PROVE FanInv'
<1> DEFINE slow == Min({fanTimer.count, FanReach})
           next == IF fanTimer.count = fanTimer.cc0 THEN 0 ELSE slow + 1
<1>1. fan \in Fans /\ fanTimer \in Timers /\ fanCall \in CallSteps /\ fanPin \in BOOLEAN /\ fanDue \in BOOLEAN
  BY DEF FanInv, FanTypes
<1>2. fanTimer.cc0 \in Nat /\ fanTimer.count \in Nat /\ FanReach \in Nat
  BY <1>1, TopsAreNat DEF Timers, FanAssumption
<1>3. slow \in Nat /\ slow =< fanTimer.count
  <2>1. fanTimer.count \in Int /\ FanReach \in Int
    BY <1>2
  <2>2. slow \in {fanTimer.count, FanReach} /\ slow =< fanTimer.count
    BY <2>1, MinOfTwo, Zenon
  <2> HIDE DEF slow
  <2> QED BY <1>2, <2>2
<1>4. /\ fanTimer' = [fanTimer EXCEPT !.count = next]
      /\ fanPin' = ((fanPin \/ next = 0) /\ next # fanTimer.cc1)
      /\ UNCHANGED <<fan, fanDue, fanCall>> /\ fanTimer.running
  BY DEF FanTick
<1> HIDE DEF slow
<1>5. next \in Nat /\ (fanTimer.count =< fanTimer.cc0 => next =< fanTimer.cc0)
  BY <1>2, <1>3
<1> HIDE DEF next
<1>6. /\ fanTimer' \in Timers /\ fanTimer'.running = fanTimer.running /\ fanTimer'.count = next
      /\ fanTimer'.cc0 = fanTimer.cc0 /\ fanTimer'.cc1 = fanTimer.cc1
  BY <1>1, <1>4, <1>5 DEF Timers
<1>7. fanPin' \in BOOLEAN
  BY <1>4
<1>8. FanTypes'
  BY <1>1, <1>4, <1>6, <1>7 DEF FanTypes
<1>9. PulseOf(fan') = PulseOf(fan)
  BY <1>4
<1>10. WrittenStands' /\ WithinPeriod'
  BY <1>4, <1>5, <1>6, <1>9 DEF FanInv, WrittenStands, WithinPeriod
<1>11. fan.started
  BY <1>1, <1>4 DEF FanInv, RunsWhenStarted, Fans
<1>12. RunsWhenStarted'
  BY <1>4, <1>6, <1>11 DEF FanInv, RunsWhenStarted
<1> QED BY <1>8, <1>10, <1>12 DEF FanInv

LEMMA FanStep == FanAssumption /\ FanInv /\ [FanNext]_fanVars => FanInv'
<1> SUFFICES ASSUME FanAssumption, FanInv, [FanNext]_fanVars PROVE FanInv'
  OBVIOUS
<1>1. CASE FanFiveSeconds
  <2>1. fanDue' = TRUE /\ UNCHANGED <<fan, fanTimer, fanPin, fanCall>>
    BY <1>1 DEF FanFiveSeconds
  <2>2. PulseOf(fan') = PulseOf(fan)
    BY <2>1
  <2> QED BY <2>1, <2>2 DEF FanInv, FanTypes, WrittenStands, WithinPeriod, RunsWhenStarted
<1>2. CASE UNCHANGED fanVars
  <2>1. UNCHANGED <<fan, fanDue, fanTimer, fanPin, fanCall>>
    BY <1>2 DEF fanVars, fanTimerVars
  <2>2. PulseOf(fan') = PulseOf(fan)
    BY <2>1
  <2> QED BY <2>1, <2>2 DEF FanInv, FanTypes, WrittenStands, WithinPeriod, RunsWhenStarted
<1> QED BY <1>1, <1>2, UpdateKeeps, FrequencyKeeps, EnabledKeeps, WriteCc0Keeps, WriteCc1Keeps,
           CheckKeeps, ReturnKeeps, TickKeeps DEF FanNext

LEMMA FanInvSuffices == FanInv => FanObeys
<1> SUFFICES ASSUME FanInv, fanCall = NoCall PROVE FanObeys
  BY DEF FanObeys
<1>1. fanCall.step = "none"
  BY DEF NoCall
<1> QED BY <1>1 DEF FanInv, WrittenStands, WithinPeriod, RunsWhenStarted, FanObeys

\* For any temperatures and any periods that can be set, however the writes of a
\* call and the counts of the timer follow one another, the timer obeys the fan.
THEOREM TimerObeys == ASSUME FanAssumption PROVE FanSpec => []FanObeys
<1>1. FanInit => FanInv
  BY FanInitial
<1>2. FanInv /\ [FanNext]_fanVars => FanInv'
  BY FanStep
<1>3. FanInv => FanObeys
  BY FanInvSuffices
<1> QED BY <1>1, <1>2, <1>3, PTL DEF FanSpec

-----------------------------------------------------------------------------
(***************************************************************************)
(* The voltage output, for any values, raw numbers and factors.            *)
(***************************************************************************)
Steps == {"construct", "connect", "enable", "loop"}
Factors == Int \X Int

VoTypes ==
  /\ voStep \in Steps
  /\ voStored \in VoFactors \cup {NoEntry} /\ voUsed \in BOOLEAN
  /\ voValue \in Int /\ voFactors \in Factors /\ voRaw \in Int
  /\ voBridge \in BOOLEAN /\ voDirect \in BOOLEAN /\ voStale \in BOOLEAN

\* From the constructor's value on, the object and the chip agree, and the raw
\* number is the one of the value by the factors the object has.
ObjectFits ==
  voStep # "construct" =>
    /\ voValue \in MinValue .. MaxValue /\ voRaw \in MinRaw .. MaxRaw
    /\ ~voStale => voChip = voRaw
    /\ ~voDirect => voRaw = RawOf(voValue, voFactors)

\* Once connected to the board, the factors are those in effect.
FactorsFit ==
  voStep \in {"enable", "loop"} => voFactors = SupplyEntry(voStored, voUsed)

BridgeLate == voBridge => voStep = "loop"

VoInv == VoTypes /\ ObjectFits /\ FactorsFit /\ BridgeLate

-----------------------------------------------------------------------------
\* The 12 bits, left aligned in two bytes and taken out again.
LEMMA FrameArrives ==
  ASSUME NEW raw \in MinRaw .. MaxRaw
  PROVE  Received(Frame(raw)) = raw
<1>1. raw \in 0 .. 4095
  BY DEF MinRaw, MaxRaw
<1> DEFINE high == raw \div 16
           low == raw % 16
<1>2. raw = 16 * high + low /\ high \in 0 .. 255 /\ low \in 0 .. 15
  <2>1. raw = 16 * high + low
    BY <1>1
  <2>2. low \in 0 .. 15
    BY <1>1
  <2>3. high \in 0 .. 255
    <3>1. high \in Int
      BY <1>1
    <3> HIDE DEF high, low
    <3> QED BY <1>1, <2>1, <2>2, <3>1, SMTT(30)
  <2> QED BY <2>1, <2>2, <2>3
<1> HIDE DEF high, low
<1>3. high % 256 = high /\ (raw * 16) % 256 = 16 * low
  BY <1>2
<1>4. (high * 256 + 16 * low) \div 16 = raw
  BY <1>2
<1> USE DEF high, low
<1> QED BY <1>3, <1>4 DEF Received, Frame

LEMMA RangesAreInt == MinValue .. MaxValue \subseteq Int /\ MinRaw .. MaxRaw \subseteq Int
BY DEF MinValue, MaxValue, MinRaw, MaxRaw

LEMMA RawInRange ==
  ASSUME NEW v \in Int, NEW f \in Factors
  PROVE  RawOf(v, f) \in MinRaw .. MaxRaw
<1> DEFINE raw == v * f[1] + f[2]
<1>1. raw \in Int
  BY DEF Factors
<1>2. RawOf(v, f) = Clamped(raw, MinRaw, MaxRaw)
  BY DEF RawOf
<1> HIDE DEF raw
<1> QED BY <1>1, <1>2 DEF Clamped, MinRaw, MaxRaw

LEMMA EntryIsFactors ==
  ASSUME VoAssumption, NEW stored \in VoFactors \cup {NoEntry}, NEW used
  PROVE  SupplyEntry(stored, used) \in Factors
BY DEF VoAssumption, SupplyEntry, DefaultSupply, Factors

\* What one call on the register leaves.
LEMMA RegisterSet ==
  ASSUME NEW raw \in MinRaw .. MaxRaw, SetRegister(raw)
  PROVE  /\ voRaw' = raw /\ voStale' \in BOOLEAN
         /\ ~voStale' => voChip' = voRaw'
BY FrameArrives DEF SetRegister

\* What setting a value by some factors leaves.
LEMMA ValueApplied ==
  ASSUME NEW v \in Int, NEW f \in Factors, ApplyValue(v, f)
  PROVE  /\ voValue' \in MinValue .. MaxValue /\ voRaw' \in MinRaw .. MaxRaw
         /\ voRaw' = RawOf(voValue', f)
         /\ voDirect' = FALSE /\ voStale' \in BOOLEAN
         /\ ~voStale' => voChip' = voRaw'
<1> DEFINE kept == Clamped(v, MinValue, MaxValue)
<1>1. kept \in MinValue .. MaxValue
  BY DEF Clamped, MinValue, MaxValue
<1>2. voValue' = kept /\ voDirect' = FALSE /\ SetRegister(RawOf(kept, f))
  BY DEF ApplyValue
<1>3. kept \in Int
  BY <1>1 DEF MinValue, MaxValue
<1>4. RawOf(kept, f) \in MinRaw .. MaxRaw
  BY <1>3, RawInRange
<1> QED BY <1>1, <1>2, <1>4, RegisterSet

-----------------------------------------------------------------------------
LEMMA VoInitial == VoInit => VoInv
<1> SUFFICES ASSUME VoInit PROVE VoInv
  OBVIOUS
<1>1. <<1, 0>> \in Factors
  BY DEF Factors
<1>2. VoTypes
  <2>1. 0 \in Int
    OBVIOUS
  <2> QED BY <1>1, <2>1, Zenon DEF VoInit, VoTypes, Steps
<1>3. ObjectFits /\ FactorsFit /\ BridgeLate
  BY DEF VoInit, ObjectFits, FactorsFit, BridgeLate
<1> QED BY <1>2, <1>3 DEF VoInv

\* Every way to new factors: they are those in effect, and the value is
\* converted again by them.
LEMMA SupplyApplied ==
  ASSUME VoAssumption, VoInv, ApplySupply, voStep' \in Steps,
         voStored' \in VoFactors \cup {NoEntry}, voUsed' \in BOOLEAN,
         voBridge' \in BOOLEAN, BridgeLate'
  PROVE  VoInv'
<1> DEFINE entry == SupplyEntry(voStored', voUsed')
<1>1. entry \in Factors
  BY EntryIsFactors
<1>2. voFactors' = entry /\ ApplyValue(voValue, entry)
  BY DEF ApplySupply, ApplyFactors
<1>3. voValue \in Int
  BY DEF VoInv, VoTypes
<1>4. /\ voValue' \in MinValue .. MaxValue /\ voRaw' \in MinRaw .. MaxRaw
      /\ voRaw' = RawOf(voValue', entry)
      /\ voDirect' = FALSE /\ voStale' \in BOOLEAN
      /\ ~voStale' => voChip' = voRaw'
  BY <1>1, <1>2, <1>3, ValueApplied
<1>5. VoTypes'
  <2>1. voValue' \in Int /\ voRaw' \in Int
    BY <1>4, RangesAreInt
  <2> QED BY <1>1, <1>2, <1>4, <2>1, Zenon DEF VoTypes
<1>6. ObjectFits' /\ FactorsFit'
  BY <1>2, <1>4 DEF ObjectFits, FactorsFit
<1> QED BY <1>5, <1>6 DEF VoInv

LEMMA VoStepKeeps == VoAssumption /\ VoInv /\ [VoNext]_voVars => VoInv'
<1> SUFFICES ASSUME VoAssumption, VoInv, [VoNext]_voVars PROVE VoInv'
  OBVIOUS
<1>1. CASE UNCHANGED voVars
  BY <1>1 DEF voVars, supplyVars, dacVars, VoInv, VoTypes, ObjectFits, FactorsFit, BridgeLate, SupplyEntry
<1>2. CASE VoConstruct
  <2>1. voFactors \in Factors /\ ApplyValue(MinValue, voFactors) /\ MinValue \in Int
    BY <1>2 DEF VoConstruct, VoInv, VoTypes, MinValue
  <2>2. /\ voValue' \in MinValue .. MaxValue /\ voRaw' \in MinRaw .. MaxRaw
        /\ voRaw' = RawOf(voValue', voFactors)
        /\ voDirect' = FALSE /\ voStale' \in BOOLEAN
        /\ ~voStale' => voChip' = voRaw'
    BY <2>1, ValueApplied
  <2>3. VoTypes'
    <3>1. voValue' \in Int /\ voRaw' \in Int
      BY <2>2, RangesAreInt
    <3> QED BY <1>2, <2>2, <3>1, Zenon DEF VoConstruct, VoInv, VoTypes, Steps
  <2>4. ObjectFits' /\ FactorsFit' /\ BridgeLate'
    BY <1>2, <2>2 DEF VoConstruct, VoInv, ObjectFits, FactorsFit, BridgeLate
  <2> QED BY <2>3, <2>4 DEF VoInv
<1>3. CASE VoConnect
  BY <1>3, SupplyApplied DEF VoConnect, VoInv, VoTypes, BridgeLate, Steps
<1>4. CASE VoEnable
  BY <1>4, SupplyApplied DEF VoEnable, VoInv, VoTypes, BridgeLate, Steps
<1>5. CASE VoSetting
  <2>1. voStep = "loop" /\ voStep' = "loop" /\ VoInv
    BY <1>5 DEF VoSetting
  <2>2. CASE SetVoltage
    <3>1. PICK v \in VoAsked :
            ApplyValue(v, voFactors) /\ UNCHANGED <<voStored, voUsed, voFactors, voBridge>>
      BY <2>2 DEF SetVoltage
    <3>2. v \in Int /\ voFactors \in Factors
      BY DEF VoAssumption, VoInv, VoTypes
    <3>3. /\ voValue' \in MinValue .. MaxValue /\ voRaw' \in MinRaw .. MaxRaw
          /\ voRaw' = RawOf(voValue', voFactors)
          /\ voDirect' = FALSE /\ voStale' \in BOOLEAN
          /\ ~voStale' => voChip' = voRaw'
      BY <3>1, <3>2, ValueApplied
    <3>4. VoTypes'
      <4>1. voValue' \in Int /\ voRaw' \in Int
        BY <3>3, RangesAreInt
      <4> QED BY <2>1, <3>1, <3>3, <4>1, Zenon DEF VoInv, VoTypes
    <3>5. ObjectFits' /\ FactorsFit' /\ BridgeLate'
      BY <2>1, <3>1, <3>3 DEF VoInv, ObjectFits, FactorsFit, BridgeLate
    <3> QED BY <3>4, <3>5 DEF VoInv
  <2>3. CASE SetVoltageRaw
    <3>1. PICK r \in VoRawAsked : SetRegister(Clamped(r, MinRaw, MaxRaw))
      BY <2>3 DEF SetVoltageRaw
    <3>2. Clamped(r, MinRaw, MaxRaw) \in MinRaw .. MaxRaw
      BY DEF VoAssumption, Clamped, MinRaw, MaxRaw
    <3>3. voRaw' \in MinRaw .. MaxRaw /\ voStale' \in BOOLEAN /\ (~voStale' => voChip' = voRaw')
      BY <3>1, <3>2, RegisterSet
    <3>4. voDirect' = TRUE /\ UNCHANGED <<voStored, voUsed, voValue, voFactors, voBridge>>
      BY <2>3 DEF SetVoltageRaw
    <3>5. VoTypes'
      BY <2>1, <3>3, <3>4 DEF VoInv, VoTypes, MinRaw, MaxRaw
    <3>6. ObjectFits' /\ FactorsFit' /\ BridgeLate'
      BY <2>1, <3>3, <3>4 DEF VoInv, ObjectFits, FactorsFit, BridgeLate
    <3> QED BY <3>5, <3>6 DEF VoInv
  <2>4. CASE EnableBridge
    BY <2>1, <2>4 DEF EnableBridge, VoInv, VoTypes, ObjectFits, FactorsFit, BridgeLate
  <2>5. CASE UseStored
    BY <2>1, <2>5, SupplyApplied DEF UseStored, VoInv, VoTypes, BridgeLate, Steps
  <2>6. CASE StoreSupply
    BY <2>1, <2>6, SupplyApplied DEF StoreSupply, VoInv, VoTypes, BridgeLate, Steps
  <2> QED BY <1>5, <2>2, <2>3, <2>4, <2>5, <2>6 DEF VoSetting
<1> QED BY <1>1, <1>2, <1>3, <1>4, <1>5 DEF VoNext

LEMMA VoInvSuffices == VoInv => OutputIsValue
BY DEF VoInv, VoTypes, ObjectFits, FactorsFit, BridgeLate, OutputIsValue, Meant

\* Whatever the application asks for and whatever calibration data hold, the
\* output is the value by the calibration in effect, from main() on.
THEOREM OutputHolds == ASSUME VoAssumption PROVE VoSpec => []OutputIsValue
<1>1. VoInit => VoInv
  BY VoInitial
<1>2. VoInv /\ [VoNext]_voVars => VoInv'
  BY VoStepKeeps
<1>3. VoInv => OutputIsValue
  BY VoInvSuffices
<1> QED BY <1>1, <1>2, <1>3, PTL DEF VoSpec

-----------------------------------------------------------------------------
(***************************************************************************)
(* The amplifiers, any of them, and any pins.                              *)
(***************************************************************************)
\* What is left of a call.
JobLists ==
  {<<>>, <<"gains">>, <<"ogain">>, <<"igain", "ogain">>, <<"timeout">>,
   <<"timeout", "igain", "ogain">>, <<"switch", "timeout">>,
   <<"switch", "timeout", "igain", "ogain">>,
   <<"reset", "switch", "timeout", "igain", "ogain">>}

AmpCalls == [chip : ChipNumbers, jobs : JobLists, gain : GainIndices,
             mode : {"voltage", "current"}]

AmpTypes ==
  /\ ampRegisters \in [AmpChips -> [Registers -> Int]]
  /\ ampImage \subseteq 0 .. Bits - 1
  /\ ampCache \in [AmpChips -> Int]
  /\ ampMode \in [AmpChips -> {"unset", "voltage", "current"}]
  /\ ampSure \in [AmpChips -> SUBSET {"gain", "mode"}]
  /\ ampCall \in AmpCalls
  /\ ampCall.jobs # <<>> => ampCall.chip \in AmpChips
  /\ ampWritten \in [AmpPins -> BOOLEAN]

\* The register was shifted from the image, and the image has what was written.
ImageFits ==
  /\ ampLatch = ampImage
  /\ \A p \in AmpPins : p \in ampImage <=> Level(p, ampWritten[p])

\* SetMode() comes to its second write only if the first was confirmed.
SwitchesFirst ==
  ampCall.jobs # <<>> /\ Head(ampCall.jobs) = "timeout" =>
    ampRegisters[ampCall.chip][InputSwitch] = SwitchesOf(ampCall.mode)

AmpInv == AmpTypes /\ ImageFits /\ SwitchesFirst /\ ConfirmedIsSet

-----------------------------------------------------------------------------
LEMMA PinsApart == AmpAssumption => AmpPins \subseteq 0 .. Bits - 1 /\ AmpPins \cap Chosen = {}
<1> SUFFICES ASSUME AmpAssumption, NEW p \in AmpPins
             PROVE  p \in 0 .. 15 /\ p # 12 /\ p # 13
  BY DEF Bits, Chosen
<1>1. p \in 0 .. 9 \/ p = 15
  BY DEF AmpAssumption, PinNumbers
<1> QED
  BY <1>1

\* Sixteen clocks bring each bit to the output of its number.
LEMMA ShiftedWhole ==
  ASSUME NEW image \in SUBSET (0 .. Bits - 1)
  PROVE  Shifted(image) = image
<1>1. \A p \in 0 .. 15 : 16 - (16 - p) = p
  OBVIOUS
<1>2. \A p \in 0 .. 15 : p \in Shifted(image) <=> p \in image
  BY <1>1 DEF Shifted, Clocked, Bits
<1>3. Shifted(image) \subseteq 0 .. 15 /\ image \subseteq 0 .. 15
  BY DEF Shifted, Clocked, Bits
<1> QED
  BY <1>2, <1>3

\* The selection bits name the amplifier, and touch nothing else.
LEMMA SelectedHears ==
  ASSUME NEW image \in SUBSET (0 .. Bits - 1), NEW c \in ChipNumbers
  PROVE  /\ Selected(image, c) \in SUBSET (0 .. Bits - 1)
         /\ Addressed(Shifted(Selected(image, c))) = c
         /\ \A p : p \notin Chosen => (p \in Selected(image, c) <=> p \in image)
<1>1. Selected(image, c) \in SUBSET (0 .. Bits - 1)
  BY DEF Selected, Bits, Chosen
<1>2. c \in {0, 1, 2, 3}
  BY DEF ChipNumbers
<1>3. /\ 13 \in Selected(image, c) <=> c \div 2 = 1
      /\ 12 \in Selected(image, c) <=> c % 2 = 1
      /\ \A p : p \notin Chosen => (p \in Selected(image, c) <=> p \in image)
  BY DEF Selected, Chosen
<1>4. Addressed(Selected(image, c)) = c
  BY <1>2, <1>3 DEF Addressed
<1> QED
  BY <1>1, <1>3, <1>4, ShiftedWhole

\* The checksum comes after the register.
LEMMA ReadBackLooks ==
  ASSUME NEW r, NEW reply
  PROVE  ReadBack(r, reply) = IF Checksum(128 + r, reply[2]) = reply[3] THEN reply[2] ELSE 0
<1> DEFINE roffs == Len(ReadFrame(r)) - 1
<1>1. roffs = 2 /\ roffs + 1 = 3
  BY DEF ReadFrame
<1>2. ReadBack(r, reply) =
        IF Checksum(128 + r, reply[roffs]) = reply[roffs + 1] THEN reply[roffs] ELSE 0
  BY DEF ReadBack
<1> HIDE DEF roffs
<1> QED
  BY <1>1, <1>2

\* What a read back says: the register, or 0 when the line garbled it.
LEMMA ReadBackIs ==
  ASSUME NEW registers \in [Registers -> Int],
         NEW r \in Registers
  PROVE  /\ ReadBack(r, Answer(registers, ReadFrame(r))) = registers[r]
         /\ ReadBack(r, Garbled) = 0
<1>1. Len(ReadFrame(r)) - 1 = 2 /\ ReadFrame(r)[1] = 128 + r
  BY DEF ReadFrame
<1>2. r # SoftReset /\ r \in {0, 3, 6}
  BY DEF SoftReset, Registers, GainMux, BufTimeout, InputSwitch
<1>3. Answer(registers, ReadFrame(r)) = <<0, registers[r], Checksum(128 + r, registers[r])>>
  <2>1. (128 + r) - 128 = r
    BY <1>2
  <2> QED
    BY <1>1, <1>2, <2>1 DEF Answer
<1>4. Checksum(128 + r, 255) # 255
  BY <1>2 DEF Checksum
<1>6. ReadBack(r, Garbled) = 0
  <2>1. Garbled[2] = 255 /\ Garbled[3] = 255
    BY DEF Garbled
  <2> QED
    BY <1>4, <2>1, ReadBackLooks
<1>7. ReadBack(r, Answer(registers, ReadFrame(r))) = registers[r]
  <2> DEFINE a == <<0, registers[r], Checksum(128 + r, registers[r])>>
  <2>1. a[2] = registers[r] /\ a[3] = Checksum(128 + r, registers[r])
    OBVIOUS
  <2>2. Answer(registers, ReadFrame(r)) = a
    BY <1>3
  <2> HIDE DEF a
  <2> QED
    BY <2>1, <2>2, ReadBackLooks
<1> QED
  BY <1>6, <1>7

\* The reset register reads 0, and so does a garbled answer.
LEMMA ResetReads ==
  ASSUME NEW registers
  PROVE  /\ ReadBack(SoftReset, Answer(registers, ReadFrame(SoftReset))) = 0
         /\ ReadBack(SoftReset, Garbled) = 0
<1> DEFINE a == <<0, 0, Checksum(129, 0)>>
<1>1. ReadFrame(SoftReset)[1] = 129 /\ 128 + SoftReset = 129
  BY DEF ReadFrame, SoftReset
<1>2. Answer(registers, ReadFrame(SoftReset)) = a
  BY <1>1 DEF Answer, SoftReset
<1>3. a[2] = 0 /\ Garbled[2] = 255 /\ Garbled[3] = 255 /\ Checksum(129, 255) # 255
  BY DEF Garbled, Checksum
<1> HIDE DEF a
<1> QED
  BY <1>1, <1>2, <1>3, ReadBackLooks

\* What a write does to the amplifier that hears it.
LEMMA HearsIs ==
  ASSUME NEW registers \in [Registers -> Int], NEW value \in Int
  PROVE  /\ Hears(registers, WriteFrame(SoftReset, value)) =
              [r \in Registers |-> 0]
         /\ \A r \in Registers :
              Hears(registers, WriteFrame(r, value)) = [registers EXCEPT ![r] = value]
<1>1. \A r \in Int : WriteFrame(r, value)[1] = 64 + r /\ WriteFrame(r, value)[2] = value
  BY DEF WriteFrame
<1>2. Hears(registers, WriteFrame(SoftReset, value)) =
        [r \in Registers |-> 0]
  BY <1>1 DEF Hears, SoftReset
<1>3. ASSUME NEW r \in Registers
      PROVE  Hears(registers, WriteFrame(r, value)) = [registers EXCEPT ![r] = value]
  <2>1. r \in {0, 3, 6}
    BY DEF Registers, GainMux, BufTimeout, InputSwitch
  <2>2. 64 + r # 64 + SoftReset /\ (64 + r) - 64 = r
    BY <2>1 DEF SoftReset
  <2> DEFINE frame == WriteFrame(r, value)
  <2>3. frame[1] # 64 + SoftReset /\ frame[1] - 64 = r /\ frame[2] = value
    BY <1>1, <2>1, <2>2
  <2>4. Hears(registers, frame) = IF frame[1] = 64 + SoftReset THEN [k \in DOMAIN registers |-> 0]
                                  ELSE [registers EXCEPT ![frame[1] - 64] = frame[2]]
    BY DEF Hears
  <2> HIDE DEF frame
  <2>5. Hears(registers, frame) = [registers EXCEPT ![r] = value]
    BY <2>3, <2>4
  <2> QED
    BY <2>5 DEF frame
<1> QED
  BY <1>2, <1>3

\* What is written is a number.
LEMMA ValuesAre ==
  ASSUME AmpTypes, ampCall.jobs # <<>>
  PROVE  ValueOf(ampCall) \in Int
<1>1. /\ ampCache[ampCall.chip] \in Int
      /\ Head(ampCall.jobs) \in {"reset", "switch", "timeout", "igain", "ogain", "gains"}
  BY DEF AmpTypes, AmpCalls, JobLists
<1>2. SwitchesOf(ampCall.mode) \in Int
  BY DEF SwitchesOf
<1>3. \A v, g \in Int : WithInputGain(v, g) \in Int /\ WithOutputGain(v, g) \in Int
  BY DEF WithInputGain, WithOutputGain
<1>4. ampCall.gain \div 2 \in Int /\ ampCall.gain % 2 \in Int
  <2>1. \A n \in Int : n \div 2 \in Int /\ n % 2 \in Int
    OBVIOUS
  <2>2. ampCall.gain \in Int
    BY DEF AmpTypes, AmpCalls, GainIndices
  <2> QED
    BY <2>1, <2>2
<1> QED
  BY <1>1, <1>2, <1>3, <1>4 DEF ValueOf

\* What is left of a call after a write, and when that is SetMode's second one.
LEMMA JobsLeft ==
  ASSUME AmpTypes, ampCall.jobs # <<>>, NEW ok \in BOOLEAN
  PROVE  /\ JobsAfter(ampCall, ok) \in JobLists
         /\ JobsAfter(ampCall, ok) # <<>> /\ Head(JobsAfter(ampCall, ok)) = "timeout" =>
              Head(ampCall.jobs) = "switch" /\ ok
<1>1. ampCall.jobs \in JobLists
  BY DEF AmpTypes, AmpCalls
<1>2. CASE ampCall.jobs = <<"switch", "timeout">> /\ ~ok
  <2>1. SubSeq(ampCall.jobs, 3, Len(ampCall.jobs)) = <<>>
    BY <1>2
  <2> QED
    BY <1>2, <2>1 DEF JobsAfter, JobLists
<1>3. CASE ampCall.jobs = <<"switch", "timeout", "igain", "ogain">> /\ ~ok
  <2> DEFINE jobs == <<"switch", "timeout", "igain", "ogain">>
             rest == SubSeq(jobs, 3, 4)
             names == {"switch", "timeout", "igain", "ogain"}
  <2>1. jobs \in Seq(names) /\ Len(jobs) = 4 /\ jobs[3] = "igain" /\ jobs[4] = "ogain"
    OBVIOUS
  <2>2. rest = <<"igain", "ogain">>
    <3> HIDE DEF jobs, names
    <3>1. rest \in Seq(names) /\ Len(rest) = 2 /\ rest[1] = jobs[3] /\ rest[2] = jobs[4]
      BY <2>1
    <3>2. <<"igain", "ogain">> \in Seq(names) /\ Len(<<"igain", "ogain">>) = 2
      BY DEF names
    <3> HIDE DEF rest
    <3> QED
      BY <2>1, <3>1, <3>2, SeqEqual
  <2>3. SubSeq(ampCall.jobs, 3, Len(ampCall.jobs)) = <<"igain", "ogain">>
    BY <1>3, <2>2
  <2>4. JobsAfter(ampCall, ok) = <<"igain", "ogain">>
    BY <1>3, <2>3 DEF JobsAfter
  <2>5. <<"igain", "ogain">> \in JobLists /\ Head(<<"igain", "ogain">>) # "timeout"
    BY DEF JobLists
  <2> QED
    BY <2>4, <2>5
<1>4. CASE Head(ampCall.jobs) # "switch" \/ ok
  <2>1. JobsAfter(ampCall, ok) = Tail(ampCall.jobs)
    BY <1>4 DEF JobsAfter
  <2>2. /\ Tail(<<"gains">>) = <<>> /\ Tail(<<"ogain">>) = <<>>
        /\ Tail(<<"igain", "ogain">>) = <<"ogain">> /\ Tail(<<"timeout">>) = <<>>
        /\ Tail(<<"timeout", "igain", "ogain">>) = <<"igain", "ogain">>
        /\ Tail(<<"switch", "timeout">>) = <<"timeout">>
        /\ Tail(<<"switch", "timeout", "igain", "ogain">>) = <<"timeout", "igain", "ogain">>
        /\ Tail(<<"reset", "switch", "timeout", "igain", "ogain">>)
             = <<"switch", "timeout", "igain", "ogain">>
    OBVIOUS
  <2>3. /\ Head(<<"ogain">>) # "timeout" /\ Head(<<"igain", "ogain">>) # "timeout"
        /\ Head(<<"switch", "timeout", "igain", "ogain">>) # "timeout"
        /\ Head(<<"switch", "timeout">>) = "switch"
        /\ Head(<<"switch", "timeout", "igain", "ogain">>) = "switch"
    OBVIOUS
  <2>4. Tail(ampCall.jobs) \in JobLists
    BY <1>1, <2>2, Zenon DEF JobLists
  <2>5. Tail(ampCall.jobs) # <<>> /\ Head(Tail(ampCall.jobs)) = "timeout" =>
          ampCall.jobs = <<"switch", "timeout">> \/ ampCall.jobs = <<"switch", "timeout", "igain", "ogain">>
    BY <1>1, <2>2, <2>3, Zenon DEF JobLists
  <2> QED
    BY <1>4, <2>1, <2>3, <2>4, <2>5, Zenon
<1> QED
  BY <1>1, <1>2, <1>3, <1>4 DEF JobLists

\* The gain a chip may still have from before.
LEMMA MaxGain == AmpAssumption => Max(AmpGains) \in Int
<1> SUFFICES ASSUME AmpAssumption PROVE Max(AmpGains) \in Int
  OBVIOUS
<1>1. AmpGains \subseteq 0 .. 21 /\ AmpGains # {}
  BY DEF AmpAssumption, GainIndices
<1> DEFINE T == {21 - g : g \in AmpGains}
           R == OpToRel(<, Nat)
<1>2. T \subseteq Nat /\ T # {}
  <2>1. \A g \in AmpGains : 21 - g \in Nat
    BY <1>1
  <2> QED
    BY <1>1, <2>1, Zenon
<1>3. PICK x \in T : \A y \in T : ~ (<<y, x>> \in R)
  <2> HIDE DEF T, R
  <2>1. IsWellFoundedOn(R, Nat)
    BY NatLessThanWellFounded DEF R
  <2> QED
    BY <1>2, <2>1, WFMin
<1>4. \A y \in T : ~(y < x)
  BY <1>2, <1>3 DEF OpToRel
<1>5. PICK g \in AmpGains : x = 21 - g
  OBVIOUS
<1>6. ASSUME NEW h \in AmpGains PROVE g >= h
  <2>1. 21 - h \in T
    OBVIOUS
  <2> HIDE DEF T, R
  <2>2. ~(21 - h < 21 - g)
    BY <1>4, <1>5, <2>1
  <2>3. g \in Int /\ h \in Int
    BY <1>1
  <2> QED
    BY <2>2, <2>3
<1> HIDE DEF T, R
<1>7. Max(AmpGains) \in AmpGains
  BY <1>6 DEF Max
<1>8. \A h \in AmpGains : h \in Int
  BY <1>1
<1> QED
  BY <1>7, <1>8

LEMMA AmpInitial == AmpAssumption /\ AmpInit => AmpInv
<1> SUFFICES ASSUME AmpAssumption, AmpInit PROVE AmpInv
  OBVIOUS
<1>1. PICK warm \in BOOLEAN :
        ampRegisters = [c \in AmpChips |-> [r \in Registers |->
          CASE warm /\ r = GainMux     -> Max(AmpGains) * 8
            [] warm /\ r = InputSwitch -> 24
            [] OTHER                   -> 0]]
  BY DEF AmpInit
<1>2. AmpTypes
  <2>1. ASSUME NEW r \in Registers
        PROVE  (CASE warm /\ r = GainMux     -> Max(AmpGains) * 8
                  [] warm /\ r = InputSwitch -> 24
                  [] OTHER                   -> 0) \in Int
    <3>1. Max(AmpGains) * 8 \in Int
      BY MaxGain
    <3> QED
      BY <3>1
  <2>2. ampRegisters \in [AmpChips -> [Registers -> Int]]
    BY <1>1, <2>1
  <2>3. ampImage \subseteq 0 .. Bits - 1
    BY DEF AmpInit, Inverted, Bits
  <2>4. ampCall = Idle /\ Idle \in AmpCalls /\ Idle.jobs = <<>>
    BY DEF AmpInit, Idle, AmpCalls, ChipNumbers, JobLists, GainIndices
  <2> QED
    BY <2>2, <2>3, <2>4 DEF AmpInit, AmpTypes
<1>3. ImageFits
  <2>1. ASSUME NEW p \in AmpPins PROVE p \in ampImage <=> Level(p, ampWritten[p])
    <3>1. ampWritten[p] = FALSE /\ (p \in ampImage <=> p \in Inverted)
      BY DEF AmpInit
    <3>2. CASE p \in Inverted
      <4>1. (p \in Inverted) = TRUE
        BY <3>2
      <4>2. Level(p, FALSE)
        BY <4>1 DEF Level
      <4> QED
        BY <3>1, <3>2, <4>2
    <3>3. CASE p \notin Inverted
      <4>1. (p \in Inverted) = FALSE
        BY <3>3
      <4>2. ~ Level(p, FALSE)
        BY <4>1 DEF Level
      <4> QED
        BY <3>1, <3>3, <4>2
    <3> QED
      BY <3>2, <3>3
  <2> QED
    BY <2>1 DEF AmpInit, ImageFits
<1>4. SwitchesFirst /\ ConfirmedIsSet
  BY DEF AmpInit, Idle, SwitchesFirst, ConfirmedIsSet
<1> QED
  BY <1>2, <1>3, <1>4 DEF AmpInv

LEMMA BeginKeeps ==
  ASSUME AmpInv, NEW call \in AmpCalls, call.chip \in AmpChips,
         Head(call.jobs) # "timeout", AmpBegin(call)
  PROVE  AmpInv'
<1>1. /\ ampCall' = call
      /\ UNCHANGED <<ampRegisters, ampImage, ampLatch, ampCache, ampMode, ampSure, ampWritten>>
  BY DEF AmpBegin
<1>2. AmpTypes'
  BY <1>1 DEF AmpInv, AmpTypes
<1>3. ImageFits' /\ ConfirmedIsSet'
  BY <1>1 DEF AmpInv, ImageFits, ConfirmedIsSet
<1>4. SwitchesFirst'
  BY <1>1 DEF SwitchesFirst
<1> QED
  BY <1>2, <1>3, <1>4 DEF AmpInv

LEMMA SetPinKeeps ==
  ASSUME AmpAssumption, AmpInv, NEW p \in AmpPins, NEW state \in BOOLEAN, AmpSetPin(p, state)
  PROVE  AmpInv'
<1>1. /\ ampImage' = IF Level(p, state) THEN ampImage \cup {p} ELSE ampImage \ {p}
      /\ ampLatch' = Shifted(ampImage')
      /\ ampWritten' = [ampWritten EXCEPT ![p] = state]
      /\ UNCHANGED <<ampRegisters, ampCache, ampMode, ampCall, ampSure>>
  BY DEF AmpSetPin
<1>2. ampImage' \subseteq 0 .. Bits - 1
  BY <1>1, PinsApart DEF AmpInv, AmpTypes
<1>3. ampWritten \in [AmpPins -> BOOLEAN]
  BY DEF AmpInv, AmpTypes
<1>4. AmpTypes'
  <2>1. ampWritten' \in [AmpPins -> BOOLEAN]
    BY <1>1, <1>3
  <2> QED
    BY <1>1, <1>2, <2>1 DEF AmpInv, AmpTypes
<1>5. ImageFits'
  <2>1. ampLatch' = ampImage'
    BY <1>1, <1>2, ShiftedWhole
  <2>2. ASSUME NEW q \in AmpPins PROVE q \in ampImage' <=> Level(q, ampWritten'[q])
    <3>1. CASE q = p
      <4>1. ampWritten'[q] = state
        BY <1>1, <1>3, <3>1
      <4> QED
        BY <1>1, <3>1, <4>1
    <3>2. CASE q # p
      <4>1. ampWritten'[q] = ampWritten[q] /\ (q \in ampImage' <=> q \in ampImage)
        BY <1>1, <1>3, <3>2
      <4> QED
        BY <4>1 DEF AmpInv, ImageFits
    <3> QED
      BY <3>1, <3>2
  <2> QED
    BY <2>1, <2>2 DEF ImageFits
<1>6. SwitchesFirst' /\ ConfirmedIsSet'
  BY <1>1 DEF AmpInv, SwitchesFirst, ConfirmedIsSet
<1> QED
  BY <1>4, <1>5, <1>6 DEF AmpInv

\* A write and its read back: what is known after them.
LEMMA WriteLeaves ==
  ASSUME AmpAssumption, AmpInv, NEW heard \in BOOLEAN, NEW answered \in BOOLEAN,
         AmpWrite(heard, answered)
  PROVE  \E ok \in BOOLEAN :
           LET job   == Head(ampCall.jobs)
               c     == ampCall.chip
               r     == AmpRegisterOf(job)
               value == ValueOf(ampCall)
               rest  == JobsAfter(ampCall, ok)
           IN /\ ampCall.jobs # <<>>
              /\ ampImage' = Selected(ampImage, c) /\ ampLatch' = Shifted(ampImage')
              /\ ampRegisters' \in [AmpChips -> [Registers -> Int]]
              /\ \A d \in AmpChips : d # c => ampRegisters'[d] = ampRegisters[d]
              /\ \A k \in Registers : k # r /\ job # "reset" => ampRegisters'[c][k] = ampRegisters[c][k]
              /\ ok => r # SoftReset /\ (ampRegisters'[c][r] = value \/ value = 0)
              /\ ampCall' = IF rest = <<>> THEN Idle ELSE [ampCall EXCEPT !.jobs = rest]
              /\ ampCache' = IF ok /\ r = GainMux THEN [ampCache EXCEPT ![c] = value] ELSE ampCache
              /\ ampMode' = IF ok /\ job = "timeout" THEN [ampMode EXCEPT ![c] = ampCall.mode] ELSE ampMode
              /\ ampSure' = [ampSure EXCEPT ![c] =
                   CASE job = "reset" -> {}
                     [] r = GainMux -> IF ok THEN @ \cup {"gain"} ELSE @ \ {"gain"}
                     [] job = "switch" -> @ \ {"mode"}
                     [] OTHER -> IF ok THEN @ \cup {"mode"} ELSE @]
              /\ UNCHANGED <<ampBuilt, ampWritten>>
<1> DEFINE job    == Head(ampCall.jobs)
           c      == ampCall.chip
           r      == AmpRegisterOf(job)
           value  == ValueOf(ampCall)
           image  == Selected(ampImage, c)
           target == Addressed(Shifted(image))
           after  == IF heard /\ target \in AmpChips
                     THEN [ampRegisters EXCEPT ![target] = Hears(@, WriteFrame(r, value))] ELSE ampRegisters
           reply  == IF answered /\ target \in AmpChips THEN Answer(after[target], ReadFrame(r)) ELSE Garbled
           ok     == ReadBack(r, reply) = value
<1>1. /\ ampCall.jobs # <<>>
      /\ ampImage' = image /\ ampLatch' = Shifted(image) /\ ampRegisters' = after
      /\ ampCall' = IF JobsAfter(ampCall, ok) = <<>> THEN Idle
                    ELSE [ampCall EXCEPT !.jobs = JobsAfter(ampCall, ok)]
      /\ ampCache' = IF ok /\ r = GainMux THEN [ampCache EXCEPT ![c] = value] ELSE ampCache
      /\ ampMode' = IF ok /\ job = "timeout" THEN [ampMode EXCEPT ![c] = ampCall.mode] ELSE ampMode
      /\ ampSure' = [ampSure EXCEPT ![c] =
           CASE job = "reset" -> {}
             [] r = GainMux -> IF ok THEN @ \cup {"gain"} ELSE @ \ {"gain"}
             [] job = "switch" -> @ \ {"mode"}
             [] OTHER -> IF ok THEN @ \cup {"mode"} ELSE @]
      /\ UNCHANGED <<ampBuilt, ampWritten>>
  BY DEF AmpWrite
<1>2. c \in AmpChips /\ target = c
  BY <1>1, SelectedHears DEF AmpInv, AmpTypes, AmpCalls
<1>3. value \in Int /\ ampRegisters \in [AmpChips -> [Registers -> Int]]
  BY <1>1, ValuesAre DEF AmpInv, AmpTypes
<1>4. job \in {"reset", "switch", "timeout", "igain", "ogain", "gains"}
  BY <1>1 DEF AmpInv, AmpTypes, AmpCalls, JobLists
<1>5. /\ r \in Registers \cup {SoftReset} /\ SoftReset \notin Registers
      /\ r = SoftReset <=> job = "reset"
  BY <1>4 DEF AmpRegisterOf, Registers, SoftReset, GainMux, BufTimeout, InputSwitch
<1>6. job = "reset" => value = 1
  BY DEF ValueOf
<1> HIDE DEF job, value, r, image, target
<1>7. /\ Hears(ampRegisters[c], WriteFrame(r, value)) \in [Registers -> Int]
      /\ \A k \in Registers : k # r /\ job # "reset" =>
           Hears(ampRegisters[c], WriteFrame(r, value))[k] = ampRegisters[c][k]
      /\ r \in Registers => Hears(ampRegisters[c], WriteFrame(r, value))[r] = value
  <2>1. ampRegisters[c] \in [Registers -> Int]
    BY <1>2, <1>3
  <2>2. CASE r = SoftReset
    <3>1. Hears(ampRegisters[c], WriteFrame(r, value)) = [k \in Registers |-> 0]
      BY <1>3, <2>1, <2>2, HearsIs
    <3>2. [k \in Registers |-> 0] \in [Registers -> Int]
      OBVIOUS
    <3> QED
      BY <1>5, <2>2, <3>1, <3>2
  <2>3. CASE r # SoftReset
    <3>1. r \in Registers /\ job # "reset"
          /\ Hears(ampRegisters[c], WriteFrame(r, value)) = [ampRegisters[c] EXCEPT ![r] = value]
      BY <1>3, <1>5, <2>1, <2>3, HearsIs
    <3> QED
      BY <1>3, <2>1, <3>1
  <2> QED
    BY <2>2, <2>3
<1>8. /\ after \in [AmpChips -> [Registers -> Int]]
      /\ \A d \in AmpChips : d # c => after[d] = ampRegisters[d]
      /\ \A k \in Registers : k # r /\ job # "reset" => after[c][k] = ampRegisters[c][k]
  BY <1>2, <1>3, <1>7
<1>9. ok => r # SoftReset /\ (after[c][r] = value \/ value = 0)
  <2>1. CASE r = SoftReset
    BY <1>2, <1>5, <1>6, <2>1, ResetReads
  <2>2. CASE r # SoftReset /\ answered
    <3>1. r \in Registers /\ after[c] \in [Registers -> Int]
      BY <1>2, <1>5, <1>8, <2>2
    <3>2. reply = Answer(after[c], ReadFrame(r))
      BY <1>2, <2>2
    <3> HIDE DEF after, reply
    <3>3. ReadBack(r, reply) = after[c][r]
      BY <3>1, <3>2, ReadBackIs
    <3> QED
      BY <2>2, <3>3
  <2>3. CASE r # SoftReset /\ ~answered
    <3>1. r \in Registers /\ reply = Garbled
      BY <1>5, <2>3
    <3>2. ReadBack(r, Garbled) = 0
      BY <1>2, <1>3, <3>1, ReadBackIs
    <3> HIDE DEF after, reply
    <3> QED
      BY <2>3, <3>1, <3>2
  <2> QED
    BY <2>1, <2>2, <2>3
<1> HIDE DEF after, ok
<1>10. ok \in BOOLEAN
  BY DEF ok
<1> QED
  BY <1>1, <1>8, <1>9, <1>10 DEF job, value, r, image

LEMMA WriteKeeps ==
  ASSUME AmpAssumption, AmpInv, NEW heard \in BOOLEAN, NEW answered \in BOOLEAN,
         AmpWrite(heard, answered)
  PROVE  AmpInv'
<1> DEFINE job   == Head(ampCall.jobs)
           c     == ampCall.chip
           r     == AmpRegisterOf(job)
           value == ValueOf(ampCall)
<1>1. PICK ok \in BOOLEAN :
        /\ ampCall.jobs # <<>>
        /\ ampImage' = Selected(ampImage, c) /\ ampLatch' = Shifted(ampImage')
        /\ ampRegisters' \in [AmpChips -> [Registers -> Int]]
        /\ \A d \in AmpChips : d # c => ampRegisters'[d] = ampRegisters[d]
        /\ \A k \in Registers : k # r /\ job # "reset" => ampRegisters'[c][k] = ampRegisters[c][k]
        /\ ok => r # SoftReset /\ (ampRegisters'[c][r] = value \/ value = 0)
        /\ ampCall' = IF JobsAfter(ampCall, ok) = <<>> THEN Idle
                      ELSE [ampCall EXCEPT !.jobs = JobsAfter(ampCall, ok)]
        /\ ampCache' = IF ok /\ r = GainMux THEN [ampCache EXCEPT ![c] = value] ELSE ampCache
        /\ ampMode' = IF ok /\ job = "timeout" THEN [ampMode EXCEPT ![c] = ampCall.mode] ELSE ampMode
        /\ ampSure' = [ampSure EXCEPT ![c] =
             CASE job = "reset" -> {}
               [] r = GainMux -> IF ok THEN @ \cup {"gain"} ELSE @ \ {"gain"}
               [] job = "switch" -> @ \ {"mode"}
               [] OTHER -> IF ok THEN @ \cup {"mode"} ELSE @]
        /\ UNCHANGED <<ampBuilt, ampWritten>>
  BY WriteLeaves
<1>2. /\ c \in AmpChips /\ c \in ChipNumbers /\ value \in Int
      /\ job \in {"reset", "switch", "timeout", "igain", "ogain", "gains"}
      /\ ampImage \in SUBSET (0 .. Bits - 1) /\ ampCall \in AmpCalls
      /\ ampCache \in [AmpChips -> Int] /\ ampCall.mode \in {"voltage", "current"}
      /\ ampMode \in [AmpChips -> {"unset", "voltage", "current"}]
      /\ ampSure \in [AmpChips -> SUBSET {"gain", "mode"}]
  BY <1>1, ValuesAre DEF AmpInv, AmpTypes, AmpCalls, JobLists
<1>3. /\ job = "reset" => r = SoftReset
      /\ job = "switch" => r = InputSwitch /\ value = SwitchesOf(ampCall.mode) /\ value # 0
      /\ job = "timeout" => r = BufTimeout
      /\ job \in {"igain", "ogain", "gains"} => r = GainMux
      /\ GainMux # InputSwitch /\ GainMux # BufTimeout /\ InputSwitch # BufTimeout
      /\ SoftReset # GainMux /\ {GainMux, InputSwitch, BufTimeout} = Registers
  BY DEF AmpRegisterOf, ValueOf, SwitchesOf, Registers, SoftReset, GainMux, BufTimeout, InputSwitch
<1>4. /\ JobsAfter(ampCall, ok) \in JobLists
      /\ JobsAfter(ampCall, ok) # <<>> /\ Head(JobsAfter(ampCall, ok)) = "timeout" =>
           job = "switch" /\ ok
  BY <1>1, JobsLeft DEF AmpInv
<1> HIDE DEF job, r, value
<1>5. /\ ampCall' \in AmpCalls
      /\ ampCall'.jobs # <<>> =>
           /\ ampCall'.chip = c /\ ampCall'.mode = ampCall.mode
           /\ ampCall'.jobs = JobsAfter(ampCall, ok)
  <2>1. Idle \in AmpCalls /\ Idle.jobs = <<>>
    BY DEF Idle, AmpCalls, ChipNumbers, JobLists, GainIndices
  <2>2. /\ [ampCall EXCEPT !.jobs = JobsAfter(ampCall, ok)] \in AmpCalls
        /\ [ampCall EXCEPT !.jobs = JobsAfter(ampCall, ok)].chip = c
        /\ [ampCall EXCEPT !.jobs = JobsAfter(ampCall, ok)].mode = ampCall.mode
        /\ [ampCall EXCEPT !.jobs = JobsAfter(ampCall, ok)].jobs = JobsAfter(ampCall, ok)
    BY <1>2, <1>4 DEF AmpCalls
  <2> QED
    BY <1>1, <2>1, <2>2
<1>6. ampImage' \in SUBSET (0 .. Bits - 1) /\ ampLatch' = ampImage'
      /\ \A p \in AmpPins : p \in ampImage' <=> p \in ampImage
  <2>1. \A p \in AmpPins : p \notin Chosen
    BY PinsApart
  <2> QED
    BY <1>1, <1>2, <2>1, SelectedHears, ShiftedWhole
<1>7. ImageFits'
  BY <1>1, <1>6 DEF AmpInv, ImageFits
<1>8. AmpTypes'
  <2>1. ampCache' \in [AmpChips -> Int]
    BY <1>1, <1>2
  <2>2. ampMode' \in [AmpChips -> {"unset", "voltage", "current"}]
    BY <1>1, <1>2
  <2>3. ampSure' \in [AmpChips -> SUBSET {"gain", "mode"}]
    BY <1>1, <1>2
  <2> QED
    BY <1>1, <1>2, <1>5, <1>6, <2>1, <2>2, <2>3 DEF AmpInv, AmpTypes
<1>9. SwitchesFirst'
  BY <1>1, <1>2, <1>3, <1>4, <1>5 DEF SwitchesFirst
<1>10. ASSUME NEW d \in AmpChips
       PROVE  /\ "gain" \in ampSure'[d] /\ ampCache'[d] # 0 => ampRegisters'[d][GainMux] = ampCache'[d]
              /\ "mode" \in ampSure'[d] => ampRegisters'[d][InputSwitch] = SwitchesOf(ampMode'[d])
  <2>1. /\ "gain" \in ampSure[d] /\ ampCache[d] # 0 => ampRegisters[d][GainMux] = ampCache[d]
        /\ "mode" \in ampSure[d] => ampRegisters[d][InputSwitch] = SwitchesOf(ampMode[d])
    BY DEF AmpInv, ConfirmedIsSet
  <2>2. CASE d # c
    <3>1. ampSure'[d] = ampSure[d] /\ ampCache'[d] = ampCache[d] /\ ampMode'[d] = ampMode[d]
          /\ ampRegisters'[d] = ampRegisters[d]
      BY <1>1, <1>2, <2>2
    <3> QED
      BY <2>1, <3>1
  <2>3. CASE d = c /\ job = "reset"
    <3>1. ampSure' = [ampSure EXCEPT ![c] = {}]
      BY <1>1, <1>3, <2>3
    <3>2. ampSure'[d] = {}
      BY <1>2, <2>3, <3>1
    <3> QED
      BY <3>2
  <2>4. CASE d = c /\ job = "switch"
    <3>1. "mode" \notin ampSure'[d] /\ ("gain" \in ampSure'[d] => "gain" \in ampSure[d])
      BY <1>1, <1>2, <1>3, <2>4
    <3>2. ampCache'[d] = ampCache[d] /\ ampRegisters'[d][GainMux] = ampRegisters[d][GainMux]
      BY <1>1, <1>2, <1>3, <2>4
    <3> QED
      BY <2>1, <3>1, <3>2
  <2>5. CASE d = c /\ job = "timeout"
    <3>1. ampSure'[d] = IF ok THEN ampSure[d] \cup {"mode"} ELSE ampSure[d]
      BY <1>1, <1>2, <1>3, <2>5
    <3>2. /\ ampCache'[d] = ampCache[d] /\ ampRegisters'[d][GainMux] = ampRegisters[d][GainMux]
          /\ ampRegisters'[d][InputSwitch] = ampRegisters[d][InputSwitch]
          /\ ampMode'[d] = IF ok THEN ampCall.mode ELSE ampMode[d]
      BY <1>1, <1>2, <1>3, <2>5
    <3>3. ampRegisters[d][InputSwitch] = SwitchesOf(ampCall.mode)
      BY <1>1, <2>5 DEF AmpInv, SwitchesFirst, job
    <3> QED
      BY <2>1, <3>1, <3>2, <3>3
  <2>6. CASE d = c /\ job \in {"igain", "ogain", "gains"}
    <3>1. ampSure'[d] = IF ok THEN ampSure[d] \cup {"gain"} ELSE ampSure[d] \ {"gain"}
      BY <1>1, <1>2, <1>3, <2>6
    <3>2. /\ ampCache'[d] = IF ok THEN value ELSE ampCache[d]
          /\ ampMode'[d] = ampMode[d] /\ ampRegisters'[d][InputSwitch] = ampRegisters[d][InputSwitch]
          /\ ok => ampRegisters'[d][GainMux] = value \/ value = 0
      BY <1>1, <1>2, <1>3, <2>6
    <3> QED
      BY <2>1, <3>1, <3>2
  <2> QED
    BY <1>2, <2>2, <2>3, <2>4, <2>5, <2>6
<1> QED
  BY <1>7, <1>8, <1>9, <1>10 DEF AmpInv, ConfirmedIsSet

LEMMA AmpStep == AmpAssumption /\ AmpInv /\ [AmpNext]_ampVars => AmpInv'
<1> SUFFICES ASSUME AmpAssumption, AmpInv, [AmpNext]_ampVars PROVE AmpInv'
  OBVIOUS
<1>1. ASSUME NEW c \in AmpChips, AmpConstruct(c) PROVE AmpInv'
  <2> DEFINE call == [chip |-> c, jobs |-> <<"reset", "switch", "timeout", "igain", "ogain">>,
                      gain |-> 0, mode |-> "voltage"]
  <2>1. call \in AmpCalls /\ call.chip \in AmpChips /\ Head(call.jobs) # "timeout"
    BY DEF AmpCalls, JobLists, GainIndices, AmpAssumption
  <2>2. AmpBegin(call)
    BY <1>1 DEF AmpConstruct
  <2> QED
    BY <2>1, <2>2, BeginKeeps
<1>2. ASSUME NEW c \in AmpChips, NEW m \in {"voltage", "current"}, AmpSetMode(c, m) PROVE AmpInv'
  <2> DEFINE call == [chip |-> c, jobs |-> <<"switch", "timeout">>, gain |-> 0, mode |-> m]
  <2>1. call \in AmpCalls /\ call.chip \in AmpChips /\ Head(call.jobs) # "timeout"
    BY DEF AmpCalls, JobLists, GainIndices, AmpAssumption
  <2>2. AmpBegin(call)
    BY <1>2 DEF AmpSetMode
  <2> QED
    BY <2>1, <2>2, BeginKeeps
<1>3. ASSUME NEW c \in AmpChips, NEW g \in AmpGains, AmpSetGains(c, g) PROVE AmpInv'
  <2> DEFINE call == [chip |-> c, jobs |-> <<"gains">>, gain |-> g, mode |-> "voltage"]
  <2>1. call \in AmpCalls /\ call.chip \in AmpChips /\ Head(call.jobs) # "timeout"
    BY DEF AmpCalls, JobLists, AmpAssumption
  <2>2. AmpBegin(call)
    BY <1>3 DEF AmpSetGains
  <2> QED
    BY <2>1, <2>2, BeginKeeps
<1>4. ASSUME UNCHANGED ampVars PROVE AmpInv'
  BY <1>4 DEF AmpInv, AmpTypes, ImageFits, SwitchesFirst, ConfirmedIsSet, ampVars, shiftVars, chipVars
<1> QED
  BY <1>1, <1>2, <1>3, <1>4, WriteKeeps, SetPinKeeps DEF AmpNext

LEMMA AmpInvSuffices == AmpAssumption /\ AmpInv => WritesReachTheirChip
<1> SUFFICES ASSUME AmpInv, NEW p \in AmpPins
             PROVE  (p \in ampLatch) = Level(p, ampWritten[p])
  BY DEF AmpInv, WritesReachTheirChip, PinsKeepTheirState
<1>1. Level(p, ampWritten[p]) \in BOOLEAN /\ (p \in ampLatch) \in BOOLEAN
  BY DEF Level
<1>2. p \in ampLatch <=> Level(p, ampWritten[p])
  BY DEF AmpInv, ImageFits
<1> QED
  BY <1>1, <1>2

\* Whatever the line garbles and however calls and pin writes follow one another,
\* each pin has the level its owner wrote last, and an amplifier whose last call
\* was confirmed has the gain and the input switches the driver remembers
\* (CPGA280::WriteRegister(), CShiftReg::SetBit()).
THEOREM ChipsAndPinsHold == ASSUME AmpAssumption PROVE AmpSpec => []WritesReachTheirChip
<1>1. AmpInit => AmpInv
  BY AmpInitial
<1>2. AmpInv /\ [AmpNext]_ampVars => AmpInv'
  BY AmpStep
<1>3. AmpInv => WritesReachTheirChip
  BY AmpInvSuffices
<1> QED
  BY <1>1, <1>2, <1>3, PTL DEF AmpSpec

-----------------------------------------------------------------------------
(***************************************************************************)
(* The push button, the menu and the display, for any menus.               *)
(***************************************************************************)
PnlTypes ==
  /\ pnlPrevious \in BOOLEAN /\ pnlFirst \in BOOLEAN /\ pnlLong \in BOOLEAN /\ pnlVeryLong \in BOOLEAN
  /\ pnlSincePress \in Nat /\ pnlSinceRelease \in Nat /\ pnlInterval \in Nat
  /\ pnlSearch \in Nat /\ pnlSpare \in Int
  /\ pnlMode \in {"def", "preview", "inside_menu"}

\* A press is reported as a long one in the turn in which it becomes one.
LongInTime ==
  /\ ~pnlPrevious => ~pnlLong
  /\ pnlPrevious => (pnlLong <=> pnlSincePress > MaxShortClick)

\* The press that is going on and the first of a double click are not reported.
Unreported ==
  pnlSpare >= (IF pnlPrevious /\ ~pnlLong THEN 1 ELSE 0) + (IF pnlFirst THEN 1 ELSE 0)

IsView(v) == v \in [vis : {"UI", "background"}, shown : {v.shown}, wait : Int,
                    step : {"none", "exit_menu", "apply_end"}, active : {v.active}]

\* What is pending fits the menu, and is over before a press can open one.
StepFits ==
  /\ pnlMode # "def" => pnlView.vis = "UI" /\ pnlView.step # "exit_menu"
  /\ pnlMode = "def" => /\ pnlView.step # "apply_end"
                        /\ pnlView.vis = "UI" => pnlView.step = "exit_menu"
  /\ pnlView.step # "none" => pnlView.wait >= 1
  /\ pnlView.step = "exit_menu" =>
       /\ pnlView.wait <= MaxShortClick
       /\ pnlPrevious /\ ~pnlLong => pnlSincePress + pnlView.wait <= MaxShortClick

\* A search is over before a press can reset the board.
SearchFits ==
  pnlSearch > 0 => /\ pnlMode = "preview"
                   /\ pnlSincePress + pnlSearch <= MaxShortClick + 1 + SearchTime
ButtonInv == PnlTypes /\ LongInTime /\ Unreported
PnlInv == ButtonInv /\ IsView(pnlView) /\ StepFits /\ SearchFits

LEMMA ButtonKeeps ==
  ASSUME ButtonInv, NEW pressed \in BOOLEAN, ButtonUpdate(pressed, Clicks(pressed)),
         pnlSearch' \in Nat, pnlMode' \in {"def", "preview", "inside_menu"}
  PROVE  ButtonInv'
<1> DEFINE c == Clicks(pressed)
<1>1. /\ pnlPrevious \in BOOLEAN /\ pnlFirst \in BOOLEAN /\ pnlLong \in BOOLEAN /\ pnlVeryLong \in BOOLEAN
      /\ pnlSincePress \in Nat /\ pnlSinceRelease \in Nat /\ pnlInterval \in Nat /\ pnlSpare \in Int
  BY DEF ButtonInv, PnlTypes
<1>2. \A t \in Nat : Elapsed(t) \in Nat /\ (Elapsed(t) > MaxShortClick <=> t >= MaxShortClick)
                     /\ (Elapsed(t) > MinVeryLong => t > MaxShortClick) /\ Elapsed(t) >= t
  BY DEF Elapsed, MinVeryLong, MaxShortClick
<1>3. /\ c.long <=> pnlPrevious /\ ~pnlLong /\ Elapsed(pnlSincePress) > MaxShortClick
      /\ c.very <=> pnlPrevious /\ ~pnlVeryLong /\ Elapsed(pnlSincePress) > MinVeryLong
      /\ c.short => \/ ~pnlPrevious /\ pnlFirst /\ ~c.first
                    \/ pnlPrevious /\ ~pressed /\ Elapsed(pnlSincePress) < MaxShortClick
                       /\ ~(Elapsed(pnlSincePress) < MaxSecondClick)
      /\ c.double => pnlPrevious /\ ~pressed /\ pnlFirst /\ Elapsed(pnlSincePress) < MaxSecondClick
      /\ c.first => IF pnlPrevious /\ ~pressed
                    THEN Elapsed(pnlSincePress) < MaxSecondClick /\ ~(pnlFirst /\ ~c.long /\ ~c.very)
                    ELSE pnlFirst /\ ~c.long /\ ~c.very
      /\ c.first \in BOOLEAN /\ c.short \in BOOLEAN /\ c.long \in BOOLEAN /\ c.double \in BOOLEAN
      /\ c.very \in BOOLEAN
  BY <1>1, <1>2 DEF Clicks
<1> HIDE DEF c
<1>4. /\ pnlPrevious' = pressed
      /\ pnlSincePress' = (IF ~pnlPrevious /\ pressed THEN 0 ELSE IF pressed THEN Elapsed(pnlSincePress) ELSE 0)
      /\ pnlSinceRelease' = (IF pnlPrevious /\ ~pressed THEN 0 ELSE IF c.first THEN Elapsed(pnlSinceRelease) ELSE MinVeryLong)
      /\ pnlInterval' = (IF ~pnlPrevious /\ pressed THEN Elapsed(pnlSinceRelease) ELSE IF c.first \/ pressed THEN pnlInterval ELSE 0)
      /\ pnlFirst' = c.first
      /\ pnlLong' = ((pnlLong \/ c.long) /\ ~(pnlPrevious /\ ~pressed))
      /\ pnlVeryLong' = ((pnlVeryLong \/ c.very) /\ ~(pnlPrevious /\ ~pressed))
  BY DEF ButtonUpdate, c
<1> DEFINE spare == pnlSpare + (IF ~pnlPrevious /\ pressed THEN 1 ELSE 0) - (IF c.short THEN 1 ELSE 0)
                      - (IF c.long THEN 1 ELSE 0) - (IF c.double THEN 2 ELSE 0)
<1>5. pnlSpare' = IF ~pressed /\ ~c.first /\ spare > 0 THEN 0 ELSE spare
  BY DEF ButtonUpdate, c
<1>6. spare \in Int
  BY <1>1, <1>3
<1>7. PnlTypes'
  BY <1>1, <1>2, <1>3, <1>4, <1>5, <1>6 DEF PnlTypes, MinVeryLong
<1>8. LongInTime'
  BY <1>1, <1>2, <1>3, <1>4 DEF ButtonInv, LongInTime, MaxShortClick
<1>9. MaxShortClick = 12 /\ MaxSecondClick = 4
  BY DEF MaxShortClick, MaxSecondClick
<1>10. Unreported'
  <2> USE <1>1, <1>2, <1>3, <1>4, <1>5, <1>6, <1>9 DEF ButtonInv, LongInTime, Unreported
  <2>1. CASE pnlPrevious /\ pressed
    BY <2>1
  <2>2. CASE ~pnlPrevious /\ pressed
    BY <2>2
  <2>3. CASE pnlPrevious /\ ~pressed
    BY <2>3
  <2>4. CASE ~pnlPrevious /\ ~pressed
    BY <2>4
  <2> QED
    BY <2>1, <2>2, <2>3, <2>4
<1> QED
  BY <1>7, <1>8, <1>10 DEF ButtonInv

\* The operations of the view.
LEMMA FieldsAre ==
  ASSUME NEW v, IsView(v)
  PROVE  v.wait \in Int /\ v.step \in {"none", "exit_menu", "apply_end"} /\ v.vis \in {"UI", "background"}
BY DEF IsView

LEMMA ShowIs ==
  ASSUME NEW v, NEW what, IsView(v)
  PROVE  IsView(Show(v, what)) /\ Show(v, what).vis = "UI" /\ Show(v, what).step = v.step
         /\ Show(v, what).wait = v.wait
BY DEF IsView, Show

LEMMA DelayIs ==
  ASSUME NEW v, NEW time \in Nat, NEW s \in {"exit_menu", "apply_end"}, IsView(v)
  PROVE  IsView(Delay(v, time, s)) /\ Delay(v, time, s).vis = v.vis /\ Delay(v, time, s).step = s
         /\ Delay(v, time, s).wait = time + 1
<1>1. time + 1 \in Int
  OBVIOUS
<1> QED
  BY <1>1 DEF Delay, IsView

LEMMA SelectIs ==
  ASSUME NEW v, NEW menu, NEW element, IsView(v)
  PROVE  /\ IsView(SelectMenuPreview(v, menu)) /\ SelectMenuPreview(v, menu).vis = "UI"
         /\ SelectMenuPreview(v, menu).step = v.step /\ SelectMenuPreview(v, menu).wait = v.wait
         /\ IsView(SelectMenu(v, menu, element)) /\ SelectMenu(v, menu, element).vis = "UI"
         /\ SelectMenu(v, menu, element).step = v.step /\ SelectMenu(v, menu, element).wait = v.wait
BY DEF IsView, Show, SelectMenuPreview, SelectMenu

LEMMA ExitIs ==
  ASSUME NEW v, IsView(v)
  PROVE  /\ IsView(ExitMenu(v)) /\ ExitMenu(v).vis = "background" /\ ExitMenu(v).step = "none"
         /\ IsView(EndProc(v)) /\ EndProc(v).vis = v.vis /\ EndProc(v).step = "none"
<1> DEFINE e == EndProc(v)
<1>1. IsView(e) /\ e.vis = v.vis /\ e.step = "none"
  <2>1. ASSUME NEW w \in Int
        PROVE  LET x == [v EXCEPT !.step = "none", !.wait = w]
               IN IsView(x) /\ x.vis = v.vis /\ x.step = "none"
    BY DEF IsView
  <2>2. e = [v EXCEPT !.step = "none", !.wait = 0]
    BY DEF EndProc
  <2>3. 0 \in Int
    OBVIOUS
  <2> HIDE DEF e
  <2> QED
    BY <2>1, <2>2, <2>3, Zenon
<1> HIDE DEF e
<1>2. LET x == [e EXCEPT !.vis = "background", !.shown = <<>>]
      IN IsView(x) /\ x.vis = "background" /\ x.step = e.step
  BY <1>1 DEF IsView
<1> QED
  BY <1>1, <1>2 DEF e, ExitMenu

LEMMA ViewUpdateIs ==
  ASSUME NEW v, IsView(v)
  PROVE  /\ IsView(ViewUpdate(v))
         /\ v.step = "none" => ViewUpdate(v) = v
         /\ v.step # "none" /\ v.wait # 1 =>
              /\ ViewUpdate(v).vis = v.vis /\ ViewUpdate(v).step = v.step
              /\ ViewUpdate(v).wait = v.wait - 1
         /\ v.step = "exit_menu" /\ v.wait = 1 =>
              ViewUpdate(v).vis = "background" /\ ViewUpdate(v).step = "none"
         /\ v.step = "apply_end" /\ v.wait = 1 =>
              ViewUpdate(v).vis = "UI" /\ ViewUpdate(v).step = "none"
<1> DEFINE less == [v EXCEPT !.wait = @ - 1]
<1>1. IsView(less) /\ less.vis = v.vis /\ less.step = v.step /\ less.wait = v.wait - 1
  <2>1. v.wait \in Int
    BY FieldsAre
  <2> QED
    BY <2>1 DEF IsView
<1>2. IsView(SelectMenuPreview(v, v.active)) /\ SelectMenuPreview(v, v.active).vis = "UI"
  BY SelectIs
<1>3. LET u == EndProc(SelectMenuPreview(v, v.active)) IN IsView(u) /\ u.vis = "UI" /\ u.step = "none"
  BY <1>2, ExitIs
<1>4. IsView(ExitMenu(v)) /\ ExitMenu(v).vis = "background" /\ ExitMenu(v).step = "none"
  BY ExitIs
<1> HIDE DEF less
<1>5. ViewUpdate(v) = IF v.step = "exit_menu" /\ v.wait = 1 THEN ExitMenu(v)
                      ELSE IF v.step = "apply_end" /\ v.wait = 1 THEN EndProc(SelectMenuPreview(v, v.active))
                      ELSE IF v.step = "none" THEN v ELSE less
  BY DEF ViewUpdate, less, IsView
<1>6. v.step \in {"none", "exit_menu", "apply_end"}
  BY DEF IsView
<1> QED
  BY <1>1, <1>3, <1>4, <1>5, <1>6

\* The end of a turn: the search counts down, the view makes its step.
LEMMA RestIs ==
  ASSUME NEW v, IsView(v), pnlSearch \in Nat, RestOfTurn(v)
  PROVE  /\ pnlSearch' = IF pnlSearch > 0 THEN pnlSearch - 1 ELSE 0
         /\ pnlSearch # 1 => pnlView' = ViewUpdate(v)
         /\ pnlSearch = 1 => IsView(pnlView') /\ pnlView'.vis = v.vis /\ pnlView'.step = "apply_end"
                             /\ pnlView'.wait = 20
<1>1. IsView(Delay(v, 20, "apply_end")) /\ Delay(v, 20, "apply_end").vis = v.vis
      /\ Delay(v, 20, "apply_end").step = "apply_end" /\ Delay(v, 20, "apply_end").wait = 21
  BY DelayIs
<1> DEFINE d == Delay(v, 20, "apply_end")
<1> HIDE DEF d
<1>2. IsView(ViewUpdate(d)) /\ ViewUpdate(d).vis = v.vis /\ ViewUpdate(d).step = "apply_end"
      /\ ViewUpdate(d).wait = 20
  BY <1>1, ViewUpdateIs DEF d
<1> QED
  BY <1>2 DEF d, RestOfTurn, ZeroSearchCompleted

LEMMA ViewInitial == PnlInit => PnlInv
<1> SUFFICES ASSUME PnlInit PROVE PnlInv
  OBVIOUS
<1>1. pnlView.vis = "UI" /\ pnlView.step = "exit_menu" /\ pnlView.wait = 12
  BY DEF PnlInit
<1>2. IsView(pnlView)
  BY DEF PnlInit, IsView
<1>3. PnlTypes
  <2>1. /\ pnlPrevious \in BOOLEAN /\ pnlFirst \in BOOLEAN /\ pnlLong \in BOOLEAN
        /\ pnlVeryLong \in BOOLEAN /\ pnlMode \in {"def", "preview", "inside_menu"}
    BY Zenon DEF PnlInit
  <2>2. pnlSincePress = 0 /\ pnlSinceRelease = 60 /\ pnlInterval = 0 /\ pnlSearch = 0 /\ pnlSpare = 0
    BY DEF PnlInit, MinVeryLong
  <2>3. 0 \in Nat /\ 60 \in Nat /\ 0 \in Int
    OBVIOUS
  <2> QED
    BY <2>1, <2>2, <2>3, Zenon DEF PnlTypes
<1>4. LongInTime /\ Unreported
  BY DEF PnlInit, LongInTime, Unreported
<1>5. StepFits /\ SearchFits
  BY <1>1 DEF PnlInit, StepFits, SearchFits, MaxShortClick
<1> QED
  BY <1>2, <1>3, <1>4, <1>5 DEF PnlInv, ButtonInv

\* What of the button the turn of the menu depends on.
LEMMA TimesAre ==
  ASSUME ButtonInv, SearchFits, NEW pressed \in BOOLEAN, ButtonUpdate(pressed, Clicks(pressed))
  PROVE  /\ pnlSincePress' \in Nat /\ pnlSincePress' <= pnlSincePress + 1
         /\ pnlPrevious' /\ ~pnlLong' => pnlSincePress' = 0 \/
              (pnlPrevious /\ ~pnlLong /\ pnlSincePress' = pnlSincePress + 1)
         /\ Clicks(pressed).short /\ pnlPrevious' => pnlSincePress' = 0
         /\ Clicks(pressed).long => pnlPrevious /\ ~pnlLong /\ pnlSincePress = MaxShortClick
         /\ Clicks(pressed).very => (pnlPrevious' => pnlLong') /\ pnlSearch = 0
<1> DEFINE c == Clicks(pressed)
<1>1. /\ pnlPrevious \in BOOLEAN /\ pnlFirst \in BOOLEAN /\ pnlLong \in BOOLEAN /\ pnlVeryLong \in BOOLEAN
      /\ pnlSincePress \in Nat /\ pnlSearch \in Nat
      /\ pnlPrevious => (pnlLong <=> pnlSincePress > 12)
  BY DEF ButtonInv, PnlTypes, LongInTime, MaxShortClick
<1>2. Elapsed(pnlSincePress) = IF pnlSincePress > 60 THEN pnlSincePress ELSE pnlSincePress + 1
  BY DEF Elapsed, MinVeryLong
<1>3. /\ c.long <=> pnlPrevious /\ ~pnlLong /\ Elapsed(pnlSincePress) > 12
      /\ c.very => pnlPrevious /\ Elapsed(pnlSincePress) > 60
      /\ c.short => ~pnlPrevious \/ (pnlPrevious /\ ~pressed)
  BY <1>1 DEF Clicks, MinVeryLong, MaxShortClick
<1> HIDE DEF c
<1>4. /\ pnlPrevious' = pressed
      /\ pnlSincePress' = (IF ~pnlPrevious /\ pressed THEN 0 ELSE IF pressed THEN Elapsed(pnlSincePress) ELSE 0)
      /\ pnlLong' = ((pnlLong \/ c.long) /\ ~(pnlPrevious /\ ~pressed))
  BY DEF ButtonUpdate, c
<1>5. pnlSearch > 0 => pnlSincePress + pnlSearch <= 26
  BY DEF SearchFits, MaxShortClick, SearchTime
<1>6. pnlSincePress' \in Nat /\ pnlSincePress' <= pnlSincePress + 1
  BY <1>1, <1>2, <1>4
<1>7. pnlPrevious' /\ ~pnlLong' => pnlSincePress' = 0 \/
              (pnlPrevious /\ ~pnlLong /\ pnlSincePress' = pnlSincePress + 1)
  BY <1>1, <1>2, <1>3, <1>4
<1>8. c.short /\ pnlPrevious' => pnlSincePress' = 0
  BY <1>3, <1>4
<1>9. c.long => pnlPrevious /\ ~pnlLong /\ pnlSincePress = 12
  BY <1>1, <1>2, <1>3
<1>10. c.very => (pnlPrevious' => pnlLong') /\ pnlSearch = 0
  BY <1>1, <1>2, <1>3, <1>4, <1>5
<1> QED
  BY <1>6, <1>7, <1>8, <1>9, <1>10 DEF c, MaxShortClick


\* A view that fits the menu before its step of this turn.
Fits(v) ==
  /\ pnlMode' # "def" => v.vis = "UI" /\ v.step # "exit_menu"
  /\ pnlMode' = "def" => v.step # "apply_end" /\ (v.vis = "UI" => v.step = "exit_menu")
  /\ v.step # "none" => v.wait >= 1
  /\ v.step = "exit_menu" =>
       /\ v.wait <= MaxShortClick + 1
       /\ pnlPrevious' /\ ~pnlLong' => pnlSincePress' + v.wait <= MaxShortClick + 1

LEMMA FitsAfter ==
  ASSUME NEW v, IsView(v), Fits(v), pnlView' = ViewUpdate(v), pnlSincePress' \in Nat
  PROVE  IsView(pnlView') /\ StepFits'
<1>1. /\ v.step \in {"none", "exit_menu", "apply_end"} /\ v.wait \in Int /\ v.vis \in {"UI", "background"}
  BY FieldsAre
<1> DEFINE u == ViewUpdate(v)
<1>2. /\ IsView(u)
      /\ v.step = "none" => u = v
      /\ v.step # "none" /\ v.wait # 1 => u.vis = v.vis /\ u.step = v.step /\ u.wait = v.wait - 1
      /\ v.step = "exit_menu" /\ v.wait = 1 => u.vis = "background" /\ u.step = "none"
      /\ v.step = "apply_end" /\ v.wait = 1 => u.vis = "UI" /\ u.step = "none"
  BY ViewUpdateIs
<1>3. pnlView' = u
  OBVIOUS
<1> HIDE DEF u
<1>4. CASE v.step = "none"
  BY <1>2, <1>3, <1>4 DEF StepFits, Fits
<1>5. CASE v.step # "none" /\ v.wait = 1
  BY <1>1, <1>2, <1>3, <1>5 DEF StepFits, Fits
<1>6. CASE v.step # "none" /\ v.wait # 1
  <2>1. u.wait >= 1 /\ (v.wait - 1 <= MaxShortClick \/ v.wait > MaxShortClick + 1)
    BY <1>1, <1>2, <1>6 DEF Fits, MaxShortClick
  <2> QED
    BY <1>1, <1>2, <1>3, <1>6 DEF StepFits, Fits, MaxShortClick
<1> QED
  BY <1>4, <1>5, <1>6

LEMMA MenuTurnKeeps ==
  ASSUME PnlInv, NEW pressed \in BOOLEAN, ButtonUpdate(pressed, Clicks(pressed)),
         pnlMode' \in {"def", "preview", "inside_menu"},
         NEW v, IsView(v), Fits(v), RestOfTurn(v), pnlSearch > 0 => pnlMode' = pnlMode
  PROVE  PnlInv'
<1>1. pnlSearch \in Nat /\ pnlSincePress \in Nat
  BY DEF PnlInv, ButtonInv, PnlTypes
<1>2. pnlSincePress' \in Nat /\ pnlSincePress' <= pnlSincePress + 1
  BY TimesAre DEF PnlInv
<1>3. pnlSearch' \in Nat /\ (pnlSearch' > 0 => pnlSearch > 0 /\ pnlSearch' = pnlSearch - 1)
  BY <1>1, RestIs
<1>4. ButtonInv'
  BY <1>3, ButtonKeeps DEF PnlInv
<1>5. SearchFits'
  <2>1. ASSUME pnlSearch' > 0
        PROVE  pnlMode' = "preview" /\ pnlSincePress' + pnlSearch' <= 26
    <3>1. pnlSearch > 0 /\ pnlSearch' = pnlSearch - 1
      BY <1>3, <2>1
    <3>2. pnlMode = "preview" /\ pnlMode' = pnlMode /\ pnlSincePress + pnlSearch <= 26
      BY <3>1 DEF PnlInv, SearchFits, MaxShortClick, SearchTime
    <3>3. \A i, j, k, l \in Nat : j <= i + 1 /\ l = k - 1 /\ i + k <= 26 => j + l <= 26
      OBVIOUS
    <3>4. pnlSincePress' + pnlSearch' <= 26
      BY <1>1, <1>2, <1>3, <3>1, <3>2, <3>3
    <3> QED
      BY <3>2, <3>4
  <2> QED
    BY <2>1 DEF SearchFits, MaxShortClick, SearchTime
<1>6. CASE pnlSearch # 1
  BY <1>1, <1>2, <1>4, <1>5, <1>6, RestIs, FitsAfter DEF PnlInv
<1>7. CASE pnlSearch = 1
  <2>1. pnlMode' # "def"
    BY <1>7 DEF PnlInv, SearchFits
  <2>2. IsView(pnlView') /\ pnlView'.vis = v.vis /\ pnlView'.step = "apply_end" /\ pnlView'.wait = 20
    BY <1>1, <1>7, RestIs
  <2>3. StepFits'
    BY <2>1, <2>2 DEF Fits, StepFits
  <2> QED
    BY <1>4, <1>5, <2>2, <2>3 DEF PnlInv
<1> QED
  BY <1>6, <1>7

LEMMA PnlStep == PnlInv /\ [PnlNext]_pnlVars => PnlInv'
<1> SUFFICES ASSUME PnlInv, [PnlNext]_pnlVars PROVE PnlInv'
  OBVIOUS
<1>1. CASE UNCHANGED pnlVars
  BY <1>1 DEF pnlVars, buttonVars, menuVars, displayVars, PnlInv, ButtonInv, PnlTypes, LongInTime,
     Unreported, IsView, StepFits, SearchFits
<1>2. ASSUME NEW pressed \in BOOLEAN, ButtonUpdate(pressed, Clicks(pressed)),
             LET clicks == Clicks(pressed)
             IN \/ Reset(clicks) \/ NoClick(clicks) \/ OutsideMenu(clicks) \/ BlockedClick(clicks)
                \/ InPreview(clicks) \/ StartSearch(clicks) \/ InsideMenu(clicks)
      PROVE  PnlInv'
  <2> DEFINE c == Clicks(pressed)
  <2>1. /\ pnlSincePress' \in Nat /\ pnlSincePress' <= pnlSincePress + 1
        /\ pnlPrevious' /\ ~pnlLong' => pnlSincePress' = 0 \/
              (pnlPrevious /\ ~pnlLong /\ pnlSincePress' = pnlSincePress + 1)
        /\ c.short /\ pnlPrevious' => pnlSincePress' = 0
        /\ c.long => pnlPrevious /\ ~pnlLong /\ pnlSincePress = MaxShortClick
        /\ c.very => (pnlPrevious' => pnlLong') /\ pnlSearch = 0
    BY <1>2, TimesAre DEF PnlInv
  <2> HIDE DEF c
  <2>2. /\ IsView(pnlView) /\ pnlView.wait \in Int /\ pnlView.step \in {"none", "exit_menu", "apply_end"}
        /\ pnlView.vis \in {"UI", "background"} /\ pnlSearch \in Nat /\ pnlSincePress \in Nat
        /\ pnlMode \in {"def", "preview", "inside_menu"}
    BY FieldsAre DEF PnlInv, ButtonInv, PnlTypes
  <2>3. c.long /\ pnlMode = "def" => pnlView.step = "none"
    BY <2>1, <2>2 DEF PnlInv, StepFits, MaxShortClick
  <2> DEFINE Turn(v) == IsView(v) /\ Fits(v) /\ RestOfTurn(v) /\ (pnlSearch > 0 => pnlMode' = pnlMode)
                        /\ pnlMode' \in {"def", "preview", "inside_menu"}
  <2>4. ASSUME NEW v, Turn(v) PROVE PnlInv'
    BY <1>2, <2>4, MenuTurnKeeps, Zenon
  <2>5. pnlMode' = pnlMode => Fits(pnlView)
    BY <2>1, <2>2 DEF PnlInv, StepFits, Fits, MaxShortClick
  <2>6. ASSUME pnlMode' = pnlMode, RestOfTurn(pnlView) PROVE PnlInv'
    BY <2>2, <2>4, <2>5, <2>6
  <2>7. CASE Reset(c)
    <3>1. c.very /\ pnlMode' = "def" /\ RestOfTurn(ResetSettings(pnlView))
      BY <2>7 DEF Reset, Menu
    <3>2. IsView(ResetSettings(pnlView)) /\ ResetSettings(pnlView).step = "exit_menu" /\ ResetSettings(pnlView).wait = 13
      BY <2>2, ShowIs, DelayIs DEF ResetSettings
    <3>3. Fits(ResetSettings(pnlView))
      <4>1. pnlPrevious' => pnlLong'
        BY <2>1, <3>1
      <4> DEFINE v == ResetSettings(pnlView)
      <4> HIDE DEF v
      <4>2. v.step = "exit_menu" /\ v.wait = 13 /\ pnlMode' = "def"
        BY <3>1, <3>2 DEF v
      <4>3. Fits(v)
        BY <4>1, <4>2 DEF Fits, MaxShortClick
      <4> QED
        BY <4>3 DEF v
    <3> QED
      BY <2>1, <2>2, <2>4, <3>1, <3>2, <3>3
  <2>8. CASE NoClick(c)
    BY <2>6, <2>8 DEF NoClick, Keep
  <2>9. CASE BlockedClick(c)
    BY <2>6, <2>9 DEF BlockedClick, Keep
  <2>10. CASE OutsideMenu(c)
    <3>1. CASE c.short /\ Keep /\ RestOfTurn(SetRecordMarker(pnlView))
      <4>1. IsView(SetRecordMarker(pnlView)) /\ SetRecordMarker(pnlView).step = "exit_menu" /\ SetRecordMarker(pnlView).wait = 5
        BY <2>2, ShowIs, DelayIs DEF SetRecordMarker
      <4>2. Fits(SetRecordMarker(pnlView))
        <5>1. pnlMode' = "def" /\ (pnlPrevious' => pnlSincePress' = 0)
          BY <2>1, <2>10, <3>1 DEF OutsideMenu, Keep
        <5> DEFINE v == SetRecordMarker(pnlView)
        <5> HIDE DEF v
        <5>2. v.step = "exit_menu" /\ v.wait = 5
          BY <4>1 DEF v
        <5>3. Fits(v)
          BY <5>1, <5>2 DEF Fits, MaxShortClick
        <5> QED
          BY <5>3 DEF v
      <4> QED
        BY <2>2, <2>4, <3>1, <4>1, <4>2 DEF Keep
    <3>2. CASE c.long /\ Menu("preview", pnlMenu, pnlElement) /\ RestOfTurn(SelectMenuPreview(pnlView, pnlMenu))
      <4>1. IsView(SelectMenuPreview(pnlView, pnlMenu)) /\ SelectMenuPreview(pnlView, pnlMenu).vis = "UI"
            /\ SelectMenuPreview(pnlView, pnlMenu).step = "none"
        BY <2>2, <2>3, <2>10, <3>2, SelectIs DEF OutsideMenu
      <4>2. Fits(SelectMenuPreview(pnlView, pnlMenu)) /\ pnlSearch = 0
        BY <2>2, <2>10, <3>2, <4>1 DEF Fits, Menu, OutsideMenu, PnlInv, SearchFits
      <4> QED
        BY <2>2, <2>4, <3>2, <4>1, <4>2 DEF Menu
    <3>3. CASE c.double /\ Keep /\ RestOfTurn(pnlView)
      BY <2>6, <3>3 DEF Keep
    <3> QED
      BY <2>10, <3>1, <3>2, <3>3 DEF OutsideMenu
  <2>11. ASSUME NEW v, pnlMode # "def", pnlMode' \in {"preview", "inside_menu"}, pnlSearch = 0,
                IsView(v), v.vis = "UI", RestOfTurn(v),
                \/ v.step = pnlView.step /\ v.wait = pnlView.wait
                \/ v.step = "apply_end" /\ v.wait >= 1
         PROVE  PnlInv'
    <3>1. Fits(v)
      BY <2>2, <2>11 DEF Fits, PnlInv, StepFits
    <3> QED
      BY <2>2, <2>4, <2>11, <3>1
  <2>12. CASE InPreview(c)
    <3>1. pnlMode = "preview" /\ pnlSearch = 0
      BY <2>2, <2>12 DEF InPreview, Blocked
    <3>2. CASE c.double /\ Menu("def", pnlMenu, pnlElement) /\ RestOfTurn(ExitMenu(pnlView))
      <4>1. IsView(ExitMenu(pnlView)) /\ ExitMenu(pnlView).vis = "background" /\ ExitMenu(pnlView).step = "none"
        BY <2>2, ExitIs
      <4>2. Fits(ExitMenu(pnlView))
        BY <3>2, <4>1 DEF Fits, Menu
      <4> QED
        BY <2>2, <2>4, <3>1, <3>2, <4>1, <4>2 DEF Menu
    <3>3. ASSUME NEW m, pnlMode' = "preview", RestOfTurn(SelectMenuPreview(pnlView, m)) PROVE PnlInv'
      BY <2>2, <2>11, <3>1, <3>3, SelectIs
    <3>4. ASSUME NEW e, pnlMode' = "inside_menu", RestOfTurn(SelectMenu(pnlView, pnlMenu, e)) PROVE PnlInv'
      BY <2>2, <2>11, <3>1, <3>4, SelectIs
    <3> QED
      BY <2>12, <3>2, <3>3, <3>4 DEF InPreview, Menu
  <2>13. CASE StartSearch(c)
    <3>1. /\ pnlMode = "inside_menu" /\ pnlMode' = "preview" /\ pnlSearch' = 13 /\ c.long /\ pnlSearch = 0
          /\ pnlView' = ViewUpdate(ZeroSearchingMark(pnlView))
      BY <2>2, <2>13 DEF StartSearch, Menu, Blocked, SearchTime
    <3>2. pnlView.vis = "UI" /\ ZeroSearchingMark(pnlView) = Show(pnlView, <<"searching">>)
      BY <3>1 DEF PnlInv, StepFits, ZeroSearchingMark
    <3>3. IsView(ZeroSearchingMark(pnlView)) /\ ZeroSearchingMark(pnlView).vis = "UI"
          /\ ZeroSearchingMark(pnlView).step = pnlView.step /\ ZeroSearchingMark(pnlView).wait = pnlView.wait
      BY <2>2, <3>2, ShowIs
    <3>4. Fits(ZeroSearchingMark(pnlView))
      BY <2>2, <3>1, <3>3 DEF Fits, PnlInv, StepFits
    <3>5. IsView(pnlView') /\ StepFits'
      BY <2>1, <3>1, <3>3, <3>4, FitsAfter
    <3>6. SearchFits'
      <4>1. pnlSincePress = 12
        BY <2>1, <3>1 DEF MaxShortClick
      <4>2. pnlSincePress' \in Nat /\ pnlSincePress' <= 13
        BY <2>1, <4>1
      <4>3. pnlSincePress' + 13 <= 26
        <5>1. \A n \in Nat : n <= 13 => n + 13 <= 26
          OBVIOUS
        <5> QED
          BY <4>2, <5>1
      <4>4. pnlMode' = "preview" /\ pnlSearch' = 13
        BY <3>1
      <4> QED
        BY <4>3, <4>4 DEF SearchFits, MaxShortClick, SearchTime
    <3>7. ButtonInv'
      BY <1>2, <3>1, ButtonKeeps DEF PnlInv
    <3> QED
      BY <3>5, <3>6, <3>7 DEF PnlInv
  <2>14. CASE InsideMenu(c)
    <3>1. pnlMode = "inside_menu" /\ pnlSearch = 0
      BY <2>2, <2>14 DEF InsideMenu, Blocked
    <3>2. ASSUME pnlMode' = "preview", RestOfTurn(SelectMenuPreview(pnlView, pnlMenu)) PROVE PnlInv'
      BY <2>2, <2>11, <3>1, <3>2, SelectIs
    <3>3. ASSUME NEW e, pnlMode' = "inside_menu", RestOfTurn(SelectMenu(pnlView, pnlMenu, e)) PROVE PnlInv'
      BY <2>2, <2>11, <3>1, <3>3, SelectIs
    <3>4. ASSUME pnlMode' = "preview", RestOfTurn(ApplyMenu(pnlView)) PROVE PnlInv'
      <4>1. IsView(ApplyMenu(pnlView)) /\ ApplyMenu(pnlView).vis = "UI" /\ ApplyMenu(pnlView).step = "apply_end"
            /\ ApplyMenu(pnlView).wait = 6
        BY <2>2, ShowIs, DelayIs DEF ApplyMenu
      <4> QED
        BY <2>11, <3>1, <3>4, <4>1
    <3> QED
      BY <2>14, <3>2, <3>3, <3>4 DEF InsideMenu, Menu
  <2> QED
    BY <1>2, <2>7, <2>8, <2>9, <2>10, <2>12, <2>13, <2>14 DEF c
<1> QED
  BY <1>1, <1>2 DEF PnlNext, PnlTurn

\* However presses, pauses, markers and searches follow one another, for any menus:
\* no press is reported twice, and the display is the user's exactly while the menu
\* is open or a step that closes it is pending (Pin_button::update(),
\* CNewMenu::handle_state(), CView::Update()).
THEOREM MenuInStep == ASSUME PanelAssumption PROVE PnlSpec => []PanelInStep
<1>1. PnlInit => PnlInv
  BY ViewInitial
<1>2. PnlInv /\ [PnlNext]_pnlVars => PnlInv'
  BY PnlStep
<1>3. PnlInv => PanelInStep
  BY DEF PnlInv, ButtonInv, PnlTypes, Unreported, StepFits, PanelInStep, NoPhantomClicks, ViewFollowsMenu
<1> QED
  BY <1>1, <1>2, <1>3, PTL DEF PnlSpec

-----------------------------------------------------------------------------
(***************************************************************************)
(* The HAT image and the slave that serves it, for any contents of the     *)
(* calibration map and any chip with room for the atoms of the code.       *)
(***************************************************************************)
\* Room for five atoms: vendor, map, custom data, calibration and one more.
RoomEnough == HatCapacity >= 18

HatAtom == Nat \X Seq(Nat)
PlainCells == [k : {"eeprom", "atom", "data", "zero", "garbage"}, of : Seq(Nat)]
AllCells == PlainCells \cup [k : {"crc"}, of : Seq(PlainCells)]

\* Cells of an atom.
Extent(atom) == Len(atom[2]) + 2

\* s is where the atoms begin, and after the last where the image ends.
Starts(atoms, s) ==
  /\ s \in [0 .. Len(atoms) -> Nat] /\ s[0] = 2
  /\ \A n \in 1 .. Len(atoms) : s[n] = s[n - 1] + Extent(atoms[n])
  /\ \A m, n \in 0 .. Len(atoms) : m <= n => s[m] <= s[n]

\* The buffer begins with the image of the atoms.
LaidOut(buf, atoms, s) ==
  /\ buf \in Seq(AllCells) /\ atoms \in Seq(HatAtom)
  /\ Starts(atoms, s)
  /\ s[Len(atoms)] - 1 <= Len(buf)
  /\ buf[1] = EepromHeader(Len(atoms), s[Len(atoms)] - 1)
  /\ \A n \in 1 .. Len(atoms) : \A j \in 1 .. Extent(atoms[n]) :
       buf[s[n - 1] + j - 1] = AtomCells(atoms[n][1], n - 1, atoms[n][2])[j]

IsImage(buf, atoms) == \E s : LaidOut(buf, atoms, s)

\* The code's lists of atoms: at most five, each of a limited length.
FewAtoms(atoms) ==
  /\ atoms \in Seq(HatAtom) /\ Len(atoms) \in {0, 1, 3, 4, 5}
  /\ Len(atoms) >= 1 => Len(atoms[1][2]) <= 3
  /\ Len(atoms) >= 3 => Len(atoms[2][2]) <= 1 /\ Len(atoms[3][2]) = 0
  /\ Len(atoms) >= 4 => Len(atoms[4][2]) <= 2
  /\ Len(atoms) >= 5 => Len(atoms[5][2]) <= 1

\* The image in RAM is that of its atoms; the chip has the image of its own, or none.
ImagesHeld ==
  /\ IsImage(hatBuf, hatAtoms) /\ FewAtoms(hatAtoms) /\ Len(hatAtoms) >= 3
  /\ hatChip \in Seq(AllCells) /\ Len(hatChip) = HatCapacity /\ FewAtoms(hatChipAtoms)
  /\ (hatChip = Blank /\ hatChipAtoms = <<>>) \/ IsImage(hatChip, hatChipAtoms)

\* What of an address the slave can serve.
Served(index) == IF index < hatMemSize THEN index ELSE hatMemSize

\* Wherever the slave's index and the Pi's address counter are, they mean the
\* same byte, but for the one that is loaded ahead.
InSequence ==
  /\ hatMemSize \in 0 .. HatCapacity /\ hatIndex \in Nat /\ hatLoaded \in Int /\ hatExpected \in Int
  /\ hatNack \in BOOLEAN /\ hatExpected >= -1
  /\ hatNack => hatState = "read" /\ hatLoaded < 0 /\ (hatIndex > 0 \/ hatMemSize = 0)
  /\ hatState = "addrLb" => hatExpected = -1
  /\ hatLoaded >= 0 => hatState = "read" /\ (hatIndex > 0 \/ hatMemSize = 0)
  /\ hatExpected # -1 =>
       IF hatLoaded >= 0
       THEN hatLoaded = Served(hatExpected) /\ Served(hatIndex) = Served(hatExpected + 1)
       ELSE Served(hatIndex) = Served(hatExpected)

HatInv == ImagesHeld /\ InSequence

-----------------------------------------------------------------------------
(* The slave.                                                               *)

\* When the bus is free, no byte is loaded that the Pi could still take.
LEMMA BusFreeMeans == ASSUME InSequence, BusFree PROVE ~(hatLoaded >= 0)
<1>1. CASE hatNack
  BY <1>1 DEF InSequence
<1>2. CASE hatState # "read"
  BY <1>2 DEF InSequence
<1>3. CASE hatState = "read" /\ ~hatNack
  BY <1>3 DEF BusFree
<1> QED
  BY <1>1, <1>2, <1>3

LEMMA SlaveKeeps ==
  ASSUME InSequence, HatAssumption,
         HatAddressed \/ HatAddressByte \/ HatReadByte \/ HatByteTaken \/ HatStop
  PROVE  InSequence'
<1>0. UNCHANGED hatMemSize
  BY DEF HatAddressed, HatAddressByte, HatReadByte, HatByteTaken, HatStop, Slave, imageVars
<1>1. CASE HatAddressed
  <2>1. PICK state \in {"read", "addrHb"} : Slave(state, hatIndex, -1, FALSE, hatExpected)
    BY <1>1 DEF HatAddressed
  <2>2. /\ hatState' \in {"read", "addrHb"} /\ hatIndex' = hatIndex /\ hatLoaded' = -1
        /\ hatNack' = FALSE /\ hatExpected' = hatExpected
    BY <2>1 DEF Slave
  <2>3. hatExpected # -1 => Served(hatIndex) = Served(hatExpected)
    BY <1>1, BusFreeMeans DEF InSequence, HatAddressed
  <2>4. ~hatNack' /\ hatNack' \in BOOLEAN
    BY <2>2, Zenon
  <2> QED
    BY <1>0, <2>2, <2>3, <2>4 DEF InSequence, Served
<1>2. CASE HatAddressByte
  <2>1. PICK byte \in HatAddresses :
          \/ hatState = "addrHb" /\ Slave("addrLb", byte * HatRadix, -1, hatNack, -1)
          \/ hatState = "addrLb" /\ Slave("waiting_rs", hatIndex + byte, -1, hatNack, hatIndex + byte)
          \/ /\ hatState \in {"halted", "waiting_rs"}
             /\ Slave("halted", hatIndex, -1, hatNack, hatExpected)
    BY <1>2 DEF HatAddressByte
  <2>2. byte \in Nat /\ byte * HatRadix \in Nat
    BY DEF HatAssumption, HatRadix
  <2> QED
    BY <1>0, <2>1, <2>2 DEF Slave, InSequence, Served
<1>3. CASE HatReadByte
  <2> DEFINE index == SteppedBack(hatIndex, hatNack)
             more  == index < hatMemSize
  <2>1. /\ hatState = "read" /\ hatLoaded = -1
        /\ hatState' = "read" /\ hatIndex' = (IF more THEN index + 1 ELSE index)
        /\ hatLoaded' = IF hatNack THEN -2 ELSE IF more THEN index ELSE hatMemSize
        /\ hatNack' = FALSE /\ hatExpected' = hatExpected
    BY <1>3 DEF HatReadByte, Slave
  <2>2. index \in Nat
    BY DEF InSequence, SteppedBack
  <2>5. ~hatNack' /\ hatNack' \in BOOLEAN
    BY <2>1, Zenon
  <2>3. CASE hatNack
    <3>1. hatNack = TRUE
      BY <2>3 DEF InSequence
    <3>2. hatLoaded' = -2
      BY <2>1, <3>1, Zenon
    <3>3. index = IF hatIndex > 0 THEN hatIndex - 1 ELSE hatIndex
      BY <3>1 DEF SteppedBack
    <3> HIDE DEF index
    <3> QED
      BY <1>0, <2>1, <2>2, <2>3, <2>5, <3>2, <3>3 DEF InSequence, Served
  <2>4. CASE ~hatNack
    <3>1. index = hatIndex /\ hatLoaded' = IF more THEN index ELSE hatMemSize
      BY <2>1, <2>4 DEF SteppedBack
    <3> HIDE DEF index
    <3> QED
      BY <1>0, <2>1, <2>2, <2>4, <2>5, <3>1 DEF InSequence, Served
  <2> QED
    BY <2>3, <2>4
<1>4. CASE HatByteTaken
  <2>1. PICK ack \in BOOLEAN :
          Slave("read", hatIndex, -1, ~ack,
                IF hatExpected \in 0..(HatCapacity - 1) THEN hatExpected + 1 ELSE hatExpected)
    BY <1>4 DEF HatByteTaken
  <2>2. /\ hatState = "read" /\ hatLoaded >= 0
        /\ hatState' = "read" /\ hatIndex' = hatIndex /\ hatLoaded' = -1
        /\ hatExpected' = IF hatExpected \in 0..(HatCapacity - 1) THEN hatExpected + 1 ELSE hatExpected
    BY <1>4, <2>1 DEF HatByteTaken, Slave
  <2>3. hatNack' \in BOOLEAN
    BY <2>1 DEF Slave
  <2>4. HatCapacity \in Nat
    BY DEF HatAssumption
  <2> QED
    BY <1>0, <2>2, <2>3, <2>4 DEF InSequence, Served
<1>5. CASE HatStop
  <2>1. /\ hatState' = "halted" /\ hatIndex' = hatIndex /\ hatLoaded' = -1
        /\ hatNack' = FALSE
        /\ (BusFree /\ hatExpected' = hatExpected) \/ hatExpected' = -1
    BY <1>5 DEF HatStop, Slave
  <2>2. BusFree /\ hatExpected # -1 => Served(hatIndex) = Served(hatExpected)
    BY BusFreeMeans DEF InSequence
  <2>3. ~hatNack' /\ hatNack' \in BOOLEAN
    BY <2>1, Zenon
  <2> QED
    BY <1>0, <2>1, <2>2, <2>3 DEF InSequence, Served
<1> QED
  BY <1>1, <1>2, <1>3, <1>4, <1>5

-----------------------------------------------------------------------------
(* The image.                                                               *)

\* The cells of an atom: a header, the data, and a CRC of both.
LEMMA CellsAre ==
  ASSUME NEW type \in Nat, NEW pos \in Nat, NEW data \in Seq(Nat)
  PROVE  /\ AtomCells(type, pos, data) \in Seq(AllCells)
         /\ Len(AtomCells(type, pos, data)) = Len(data) + 2
         /\ AtomCells(type, pos, data)[1] = AtomHeader(type, pos, Len(data) + 1)
         /\ \A i \in 1 .. Len(data) :
              AtomCells(type, pos, data)[i + 1] = [k |-> "data", of |-> <<data[i]>>]
         /\ AtomCells(type, pos, data)[Len(data) + 2] =
              [k |-> "crc", of |-> SubSeq(AtomCells(type, pos, data), 1, Len(data) + 1)]
<1> DEFINE head == <<AtomHeader(type, pos, Len(data) + 1)>>
           body == [i \in DOMAIN data |-> [k |-> "data", of |-> <<data[i]>>]]
           covered == head \o body
           crc == [k |-> "crc", of |-> covered]
           cells == AtomCells(type, pos, data)
<1>1. Len(data) \in Nat /\ DOMAIN data = 1 .. Len(data) /\ \A i \in 1 .. Len(data) : data[i] \in Nat
  BY LenProperties
<1>2. AtomHeader(type, pos, Len(data) + 1) \in PlainCells
  <2>1. <<type, pos, Len(data) + 1>> \in Seq(Nat)
    BY <1>1
  <2> QED
    BY <2>1 DEF AtomHeader, PlainCells
<1>3. head \in Seq(PlainCells) /\ Len(head) = 1
  <2> HIDE DEF PlainCells
  <2> QED
    BY <1>2
<1>4. body \in Seq(PlainCells) /\ Len(body) = Len(data)
  <2>1. \A i \in 1 .. Len(data) : [k |-> "data", of |-> <<data[i]>>] \in PlainCells
    <3> SUFFICES ASSUME NEW i \in 1 .. Len(data) PROVE [k |-> "data", of |-> <<data[i]>>] \in PlainCells
      OBVIOUS
    <3>1. <<data[i]>> \in Seq(Nat)
      BY <1>1
    <3> QED
      BY <3>1 DEF PlainCells
  <2>2. body \in [1 .. Len(data) -> PlainCells]
    <3> HIDE DEF PlainCells
    <3> QED
      BY <1>1, <2>1
  <2>3. body \in Seq(PlainCells)
    <3> HIDE DEF body
    <3> QED
      BY <1>1, <2>2, SeqDef
  <2> QED
    BY <1>1, <2>2, <2>3, LenProperties
<1>5. /\ covered \in Seq(PlainCells) /\ Len(covered) = Len(data) + 1
      /\ covered[1] = AtomHeader(type, pos, Len(data) + 1)
      /\ \A i \in 1 .. Len(data) : covered[i + 1] = [k |-> "data", of |-> <<data[i]>>]
  <2> HIDE DEF PlainCells
  <2>1. head[1] = AtomHeader(type, pos, Len(data) + 1)
    OBVIOUS
  <2>2. \A i \in 1 .. Len(data) : body[i] = [k |-> "data", of |-> <<data[i]>>]
    BY <1>1
  <2> HIDE DEF head, body
  <2>3. /\ covered \in Seq(PlainCells) /\ Len(covered) = Len(data) + 1
        /\ \A i \in 1 .. Len(data) + 1 : covered[i] = IF i <= 1 THEN head[i] ELSE body[i - 1]
    <3>1. /\ head \o body \in Seq(PlainCells) /\ Len(head \o body) = Len(head) + Len(body)
          /\ \A i \in 1 .. Len(head) + Len(body) :
               (head \o body)[i] = IF i <= Len(head) THEN head[i] ELSE body[i - Len(head)]
      <4>1. head \in Seq(PlainCells) /\ body \in Seq(PlainCells)
        BY <1>3, <1>4
      <4> QED
        BY <4>1, ConcatProperties
    <3> QED
      BY <1>1, <1>3, <1>4, <3>1 DEF covered
  <2> HIDE DEF covered
  <2>4. ASSUME NEW i \in 1 .. Len(data) PROVE covered[i + 1] = body[i]
    <3>1. i + 1 \in 1 .. Len(data) + 1 /\ ~(i + 1 <= 1) /\ i + 1 - 1 = i
      BY <1>1
    <3> QED
      BY <2>3, <3>1
  <2>5. covered[1] = head[1]
    <3>1. 1 \in 1 .. Len(data) + 1 /\ 1 <= 1
      BY <1>1
    <3> QED
      BY <2>3, <3>1
  <2> QED
    BY <2>1, <2>2, <2>3, <2>4, <2>5
<1> HIDE DEF head, body, covered
<1>6. cells = Append(covered, crc)
  BY DEF AtomCells, covered, head, body
<1>7. covered \in Seq(AllCells) /\ crc \in AllCells
  <2>1. PlainCells \subseteq AllCells
    BY DEF AllCells
  <2> QED
    BY <1>5, <2>1, SeqMonotonic DEF AllCells
<1>8. /\ cells \in Seq(AllCells) /\ Len(cells) = Len(data) + 2
      /\ \A i \in 1 .. Len(data) + 1 : cells[i] = covered[i]
      /\ cells[Len(data) + 2] = crc
  <2> HIDE DEF cells, crc
  <2> QED
    BY <1>1, <1>5, <1>6, <1>7, AppendProperties
<1>9. SubSeq(cells, 1, Len(data) + 1) = covered
  <2> HIDE DEF cells
  <2>1. \A i \in 1 .. Len(data) + 1 : cells[i] \in PlainCells
    BY <1>1, <1>5, <1>8, LenProperties
  <2>2. /\ SubSeq(cells, 1, Len(data) + 1) \in Seq(PlainCells)
        /\ Len(SubSeq(cells, 1, Len(data) + 1)) = Len(data) + 1
        /\ \A i \in 1 .. Len(data) + 1 : SubSeq(cells, 1, Len(data) + 1)[i] = cells[i]
    <3> DEFINE n == Len(data) + 1
    <3>1. n \in Nat /\ n >= 1
      BY <1>1
    <3> HIDE DEF n
    <3>2. /\ SubSeq(cells, 1, n) \in Seq(PlainCells)
          /\ Len(SubSeq(cells, 1, n)) = IF 1 <= n THEN n - 1 + 1 ELSE 0
          /\ \A i \in 1 .. n - 1 + 1 : SubSeq(cells, 1, n)[i] = cells[1 + i - 1]
      <4>1. \A i \in 1 .. n : cells[i] \in PlainCells
        BY <2>1 DEF n
      <4> QED
        BY <3>1, <4>1, SubSeqProperties
    <3>3. \A i \in 1 .. n : 1 + i - 1 = i /\ n - 1 + 1 = n
      BY <3>1
    <3> QED
      BY <3>1, <3>2, <3>3 DEF n
  <2>3. \A i \in 1 .. Len(data) + 1 : SubSeq(cells, 1, Len(data) + 1)[i] = covered[i]
    BY <1>8, <2>2
  <2> QED
    BY <1>5, <2>2, <2>3, SeqEqual
<1>10. \A i \in 1 .. Len(data) : i + 1 \in 1 .. Len(data) + 1
  BY <1>1
<1>11. 1 \in 1 .. Len(data) + 1
  BY <1>1
<1> QED
  BY <1>5, <1>8, <1>9, <1>10, <1>11 DEF crc

\* What making or giving up room does to the cells before and behind it.
RoomMade(buf, at, old, new) ==
  /\ Resized(buf, at, old, new) \in Seq(AllCells)
  /\ Len(Resized(buf, at, old, new)) = Len(buf) + new - old
  /\ \A i \in 1 .. at - 1 : Resized(buf, at, old, new)[i] = buf[i]
  /\ \A i \in 1 .. Len(buf) + new - old :
       i >= at /\ i >= at + new - old => Resized(buf, at, old, new)[i] = buf[i - new + old]

LEMMA RoomIs ==
  ASSUME NEW buf \in Seq(AllCells), NEW at \in Nat, NEW old \in Nat, NEW new \in Nat,
         1 <= at, at <= Len(buf) + 1, at + old - new <= Len(buf) + 1
  PROVE  RoomMade(buf, at, old, new)
<1> DEFINE room == Resized(buf, at, old, new)
           front == SubSeq(buf, 1, at - 1)
<1> USE DEF AllCells
<1> HIDE DEF AllCells
<1>1. Len(buf) \in Nat /\ \A i \in 1 .. Len(buf) : buf[i] \in AllCells
  BY LenProperties
<1>2. /\ front \in Seq(AllCells) /\ Len(front) = at - 1
      /\ \A i \in 1 .. at - 1 : front[i] = buf[i]
  <2>1. \A i \in 1 .. at - 1 : buf[i] \in AllCells
    BY <1>1
  <2> DEFINE n == at - 1
  <2>2. n \in Nat
    OBVIOUS
  <2> HIDE DEF n
  <2>3. /\ SubSeq(buf, 1, n) \in Seq(AllCells)
        /\ Len(SubSeq(buf, 1, n)) = IF 1 <= n THEN n - 1 + 1 ELSE 0
        /\ \A i \in 1 .. n - 1 + 1 : SubSeq(buf, 1, n)[i] = buf[1 + i - 1]
    BY <2>1, <2>2, SubSeqProperties DEF n
  <2>4. /\ (IF 1 <= n THEN n - 1 + 1 ELSE 0) = n /\ n - 1 + 1 = n
        /\ \A i \in 1 .. n : 1 + i - 1 = i
    BY <2>2
  <2> QED
    BY <2>2, <2>3, <2>4 DEF n
<1>3. CASE new > old
  <2> DEFINE zeros == [i \in 1 .. (new - old) |-> Cell("zero")]
             rest == SubSeq(buf, at, Len(buf))
  <2>1. zeros \in Seq(AllCells) /\ Len(zeros) = new - old
    <3>1. Cell("zero") \in AllCells
      <4>1. <<>> \in Seq(Nat)
        OBVIOUS
      <4> QED
        BY <4>1 DEF Cell, AllCells, PlainCells
    <3>2. zeros \in [1 .. (new - old) -> AllCells] /\ new - old \in Nat
      BY <1>3, <3>1
    <3>3. zeros \in Seq(AllCells)
      <4> HIDE DEF zeros
      <4> QED
        BY <3>2, SeqDef
    <3> QED
      BY <3>2, <3>3, LenProperties
  <2>2. /\ rest \in Seq(AllCells) /\ Len(rest) = Len(buf) - at + 1
        /\ \A i \in 1 .. Len(buf) - at + 1 : rest[i] = buf[at + i - 1]
    <3>1. \A i \in at .. Len(buf) : buf[i] \in AllCells
      BY <1>1
    <3>2. (IF at <= Len(buf) THEN Len(buf) - at + 1 ELSE 0) = Len(buf) - at + 1
      BY <1>1
    <3> QED
      BY <1>1, <3>1, <3>2, SubSeqProperties
  <2> HIDE DEF zeros, rest, front
  <2>3. room = (front \o zeros) \o rest
    BY <1>3 DEF Resized, front, zeros, rest
  <2>4. /\ front \o zeros \in Seq(AllCells) /\ Len(front \o zeros) = at - 1 + (new - old)
        /\ \A i \in 1 .. at - 1 + (new - old) :
             (front \o zeros)[i] = IF i <= at - 1 THEN front[i] ELSE zeros[i - (at - 1)]
    <3>1. /\ front \o zeros \in Seq(AllCells) /\ Len(front \o zeros) = Len(front) + Len(zeros)
          /\ \A i \in 1 .. Len(front) + Len(zeros) :
               (front \o zeros)[i] = IF i <= Len(front) THEN front[i] ELSE zeros[i - Len(front)]
      <4>1. front \in Seq(AllCells) /\ zeros \in Seq(AllCells)
        BY <1>2, <2>1
      <4> QED
        BY <4>1, ConcatProperties
    <3> QED
      BY <1>2, <2>1, <3>1
  <2> DEFINE grown == front \o zeros
             size == at - 1 + (new - old) + (Len(buf) - at + 1)
  <2> HIDE DEF grown, room
  <2>5. grown \in Seq(AllCells) /\ Len(grown) = at - 1 + (new - old)
    BY <2>4 DEF grown
  <2>6. /\ room \in Seq(AllCells) /\ Len(room) = size
        /\ \A i \in 1 .. size : room[i] = IF i <= Len(grown) THEN grown[i] ELSE rest[i - Len(grown)]
    <3>0. room = grown \o rest
      BY <2>3 DEF grown
    <3>1. /\ grown \o rest \in Seq(AllCells) /\ Len(grown \o rest) = Len(grown) + Len(rest)
          /\ \A i \in 1 .. Len(grown) + Len(rest) :
               (grown \o rest)[i] = IF i <= Len(grown) THEN grown[i] ELSE rest[i - Len(grown)]
      <4>1. grown \in Seq(AllCells) /\ rest \in Seq(AllCells)
        BY <2>2, <2>5
      <4> QED
        BY <4>1, ConcatProperties
    <3> QED
      BY <2>2, <2>5, <3>0, <3>1
  <2>7. size = Len(buf) + new - old
    BY <1>1
  <2>8. ASSUME NEW i \in 1 .. at - 1 PROVE room[i] = buf[i]
    <3>1. i \in 1 .. size /\ i <= Len(grown) /\ i \in 1 .. at - 1 + (new - old)
      BY <1>1, <1>3, <2>5
    <3>2. grown[i] = front[i]
      BY <2>4, <3>1 DEF grown
    <3> QED
      BY <1>2, <2>6, <3>1, <3>2
  <2>9. ASSUME NEW i \in 1 .. Len(buf) + new - old, i >= at + new - old
        PROVE  room[i] = buf[i - new + old]
    <3>1. i \in 1 .. size /\ ~(i <= Len(grown)) /\ i - Len(grown) = i - (at - 1) - (new - old)
      BY <1>1, <2>5, <2>7, <2>9
    <3>2. i - Len(grown) \in 1 .. Len(buf) - at + 1 /\ at + (i - Len(grown)) - 1 = i - new + old
      BY <1>1, <2>5, <2>9
    <3> QED
      BY <2>2, <2>6, <3>1, <3>2
  <2> QED
    BY <2>6, <2>7, <2>8, <2>9 DEF room, RoomMade
<1>4. CASE ~(new > old)
  <2> DEFINE from == at + old - new
             rest == SubSeq(buf, from, Len(buf))
  <2>1. from \in Nat /\ from >= at /\ from <= Len(buf) + 1
    BY <1>1, <1>4
  <2> HIDE DEF from
  <2>2. /\ rest \in Seq(AllCells) /\ Len(rest) = Len(buf) - from + 1
        /\ \A i \in 1 .. Len(buf) - from + 1 : rest[i] = buf[from + i - 1]
    <3>1. \A i \in from .. Len(buf) : buf[i] \in AllCells
      BY <1>1, <2>1
    <3>2. (IF from <= Len(buf) THEN Len(buf) - from + 1 ELSE 0) = Len(buf) - from + 1
      BY <1>1, <2>1
    <3> QED
      BY <1>1, <2>1, <3>1, <3>2, SubSeqProperties
  <2>3. room = front \o rest
    BY <1>4 DEF Resized, from
  <2> HIDE DEF rest, front, room
  <2> DEFINE size == at - 1 + (Len(buf) - from + 1)
  <2>4. /\ room \in Seq(AllCells) /\ Len(room) = size
        /\ \A i \in 1 .. size : room[i] = IF i <= at - 1 THEN front[i] ELSE rest[i - (at - 1)]
    <3>1. /\ front \o rest \in Seq(AllCells) /\ Len(front \o rest) = Len(front) + Len(rest)
          /\ \A i \in 1 .. Len(front) + Len(rest) :
               (front \o rest)[i] = IF i <= Len(front) THEN front[i] ELSE rest[i - Len(front)]
      <4>1. front \in Seq(AllCells) /\ rest \in Seq(AllCells)
        BY <1>2, <2>2
      <4> QED
        BY <4>1, ConcatProperties
    <3> QED
      BY <1>2, <2>2, <2>3, <3>1
  <2>5. size = Len(buf) + new - old
    BY <1>1, <2>1 DEF from
  <2>6. ASSUME NEW i \in 1 .. at - 1 PROVE room[i] = buf[i]
    <3>1. i \in 1 .. size /\ i <= at - 1
      BY <1>1, <2>1
    <3> QED
      BY <1>2, <2>4, <3>1
  <2>7. ASSUME NEW i \in 1 .. Len(buf) + new - old, i >= at
        PROVE  room[i] = buf[i - new + old]
    <3>1. i \in 1 .. size /\ ~(i <= at - 1)
      BY <2>5, <2>7
    <3>2. i - (at - 1) \in 1 .. Len(buf) - from + 1 /\ from + (i - (at - 1)) - 1 = i - new + old
      BY <1>1, <2>1, <2>7 DEF from
    <3> QED
      BY <2>2, <2>4, <3>1, <3>2
  <2> QED
    BY <2>4, <2>5, <2>6, <2>7 DEF room, RoomMade
<1> QED
  BY <1>3, <1>4

\* A set of numbers that has a member has a least one.
LEMMA LeastMember ==
  ASSUME NEW T, T \subseteq Nat, T # {}
  PROVE  \E x \in T : \A y \in T : ~(y < x)
<1> DEFINE R == OpToRel(<, Nat)
<1>1. PICK x \in T : \A y \in T : ~ (<<y, x>> \in R)
  <2> HIDE DEF R
  <2>1. IsWellFoundedOn(R, Nat)
    BY NatLessThanWellFounded DEF R
  <2> QED
    BY <2>1, WFMin
<1>2. \A y \in T : ~(y < x)
  BY <1>1 DEF OpToRel
<1> QED
  BY <1>2

\* Types of the n-th atom.
LEMMA AtomIs ==
  ASSUME NEW atoms \in Seq(HatAtom), NEW n \in 1 .. Len(atoms)
  PROVE  /\ atoms[n][1] \in Nat /\ atoms[n][2] \in Seq(Nat) /\ Len(atoms[n][2]) \in Nat
         /\ atoms[n] = <<atoms[n][1], atoms[n][2]>> /\ Extent(atoms[n]) \in Nat
<1>1. atoms[n] \in HatAtom
  BY LenProperties
<1> QED
  BY <1>1, LenProperties DEF HatAtom, Extent

\* Where the header of the n-th atom is and what it says.
LEMMA HeaderIs ==
  ASSUME NEW buf, NEW atoms, NEW s, LaidOut(buf, atoms, s), NEW n \in 1 .. Len(atoms)
  PROVE  /\ s[n - 1] \in Nat /\ s[n - 1] >= 2 /\ s[n] \in Nat /\ s[n] = s[n - 1] + Extent(atoms[n])
         /\ s[n] <= s[Len(atoms)] /\ s[n] <= Len(buf) + 1 /\ s[n - 1] \in DOMAIN buf
         /\ buf[s[n - 1]] = AtomHeader(atoms[n][1], n - 1, Len(atoms[n][2]) + 1)
         /\ DataLength(buf, s[n - 1]) = Len(atoms[n][2]) + 1
<1>0. /\ buf \in Seq(AllCells) /\ atoms \in Seq(HatAtom) /\ Len(atoms) \in Nat /\ Len(buf) \in Nat
      /\ DOMAIN buf = 1 .. Len(buf)
  <2>1. buf \in Seq(AllCells) /\ atoms \in Seq(HatAtom)
    BY DEF LaidOut
  <2> QED
    BY <2>1, LenProperties
<1>1. /\ s \in [0 .. Len(atoms) -> Nat] /\ s[0] = 2 /\ s[n] = s[n - 1] + Extent(atoms[n])
      /\ \A l, m \in 0 .. Len(atoms) : l <= m => s[l] <= s[m]
      /\ s[Len(atoms)] - 1 <= Len(buf)
  BY DEF LaidOut, Starts
<1>2. n - 1 \in 0 .. Len(atoms) /\ n \in 0 .. Len(atoms) /\ 0 <= n - 1 /\ 0 \in 0 .. Len(atoms)
      /\ Len(atoms) \in 0 .. Len(atoms) /\ n <= Len(atoms)
  BY <1>0
<1>3. /\ s[n - 1] \in Nat /\ s[n] \in Nat /\ s[Len(atoms)] \in Nat
      /\ s[0] <= s[n - 1] /\ s[n] <= s[Len(atoms)]
  BY <1>1, <1>2
<1>4. /\ atoms[n][1] \in Nat /\ atoms[n][2] \in Seq(Nat) /\ Len(atoms[n][2]) \in Nat
      /\ Extent(atoms[n]) = Len(atoms[n][2]) + 2
  BY <1>0, AtomIs DEF Extent
<1>5. s[n] <= Len(buf) + 1 /\ s[n - 1] \in DOMAIN buf /\ s[n - 1] >= 2
  BY <1>0, <1>1, <1>3, <1>4
<1>6. buf[s[n - 1]] = AtomHeader(atoms[n][1], n - 1, Len(atoms[n][2]) + 1)
  <2>1. \A j \in 1 .. Extent(atoms[n]) :
          buf[s[n - 1] + j - 1] = AtomCells(atoms[n][1], n - 1, atoms[n][2])[j]
    BY DEF LaidOut
  <2>2. 1 \in 1 .. Extent(atoms[n]) /\ s[n - 1] + 1 - 1 = s[n - 1] /\ n - 1 \in Nat
    BY <1>3, <1>4
  <2>3. AtomCells(atoms[n][1], n - 1, atoms[n][2])[1] = AtomHeader(atoms[n][1], n - 1, Len(atoms[n][2]) + 1)
    BY <1>4, <2>2, CellsAre
  <2> QED
    BY <2>1, <2>2, <2>3
<1>7. DataLength(buf, s[n - 1]) = Len(atoms[n][2]) + 1
  BY <1>5, <1>6 DEF DataLength, AtomHeader
<1> QED
  BY <1>1, <1>3, <1>5, <1>6, <1>7

\* Going from header to header finds where an atom begins.
LEMMA StartIs ==
  ASSUME NEW buf, NEW atoms, NEW s, LaidOut(buf, atoms, s), NEW pos \in 0 .. Len(atoms)
  PROVE  AtomStart(buf, pos) = s[pos]
<1>0. atoms \in Seq(HatAtom) /\ Len(atoms) \in Nat /\ pos \in Nat
  <2>1. atoms \in Seq(HatAtom)
    BY DEF LaidOut
  <2> QED
    BY <2>1, LenProperties
<1>1. /\ s \in [0 .. Len(atoms) -> Nat] /\ s[0] = 2
      /\ \A n \in 1 .. Len(atoms) : s[n] = s[n - 1] + 1 + DataLength(buf, s[n - 1])
  <2>1. s \in [0 .. Len(atoms) -> Nat] /\ s[0] = 2
    BY DEF LaidOut, Starts
  <2>2. ASSUME NEW n \in 1 .. Len(atoms) PROVE s[n] = s[n - 1] + 1 + DataLength(buf, s[n - 1])
    <3>1. /\ s[n] = s[n - 1] + Extent(atoms[n]) /\ s[n - 1] \in Nat
          /\ DataLength(buf, s[n - 1]) = Len(atoms[n][2]) + 1
      BY HeaderIs
    <3>2. Len(atoms[n][2]) \in Nat /\ Extent(atoms[n]) = Len(atoms[n][2]) + 2
      BY <1>0, AtomIs DEF Extent
    <3>3. \A p, l \in Nat : p + (l + 2) = p + 1 + (l + 1)
      OBVIOUS
    <3>4. s[n - 1] + (Len(atoms[n][2]) + 2) = s[n - 1] + 1 + (Len(atoms[n][2]) + 1)
      BY <3>1, <3>2, <3>3, Zenon
    <3> QED
      BY <3>1, <3>2, <3>4, Zenon
  <2> QED
    BY <2>1, <2>2
<1> DEFINE Start(g) ==
      g = [i \in 0 .. pos |-> IF i = 0 THEN 2 ELSE g[i - 1] + 1 + DataLength(buf, g[i - 1])]
           first == [i \in 0 .. pos |-> s[i]]
           start == CHOOSE g : Start(g)
<1>2. Start(first)
  <2>1. ASSUME NEW i \in 0 .. pos
        PROVE  s[i] = IF i = 0 THEN 2 ELSE first[i - 1] + 1 + DataLength(buf, first[i - 1])
    <3>1. CASE i = 0
      BY <1>1, <3>1
    <3>2. CASE i # 0
      <4>1. i \in 1 .. Len(atoms) /\ i - 1 \in 0 .. pos
        BY <1>0, <3>2
      <4>2. first[i - 1] = s[i - 1]
        BY <4>1
      <4> QED
        BY <1>1, <3>2, <4>1, <4>2
    <3> HIDE DEF first
    <3> QED
      BY <3>1, <3>2
  <2> QED
    BY <2>1
<1>3. Start(start)
  <2> HIDE DEF Start
  <2> QED
    BY <1>2
<1>4. AtomStart(buf, pos) = start[pos]
  BY DEF AtomStart
<1> DEFINE T == {k \in 0 .. pos : start[k] # s[k]}
<1>5. T = {}
  <2> SUFFICES ASSUME T # {} PROVE FALSE
    OBVIOUS
  <2> HIDE DEF start
  <2>1. T \subseteq Nat
    OBVIOUS
  <2>2. PICK k \in T : \A y \in T : ~(y < k)
    <3> HIDE DEF T
    <3> QED
      BY <2>1, LeastMember
  <2>3. k \in 0 .. pos /\ start[k] # s[k]
    OBVIOUS
  <2>4. start[k] = IF k = 0 THEN 2 ELSE start[k - 1] + 1 + DataLength(buf, start[k - 1])
    BY <1>3, <2>3
  <2>5. k # 0
    BY <1>1, <2>3, <2>4
  <2>6. k - 1 \in 0 .. pos /\ k - 1 < k /\ k \in 1 .. Len(atoms)
    BY <1>0, <2>3, <2>5
  <2>7. k - 1 \notin T
    <3> HIDE DEF T
    <3> QED
      BY <2>2, <2>6
  <2>8. start[k - 1] = s[k - 1]
    BY <2>6, <2>7
  <2> QED
    BY <1>1, <2>3, <2>4, <2>5, <2>6, <2>8
<1> QED
  <2>1. pos \in 0 .. pos
    BY <1>0
  <2> HIDE DEF start
  <2> QED
    BY <1>4, <1>5, <2>1

\* An image of atoms verifies, and the atoms are read back from it.
LEMMA ImageReads ==
  ASSUME NEW buf, NEW atoms, IsImage(buf, atoms)
  PROVE  /\ HatVerified(buf) /\ AtomCount(buf) = Len(atoms)
         /\ [i \in 1 .. AtomCount(buf) |-> GetAtom(buf, i - 1)] = atoms
         /\ ImageLength(buf) = AtomStart(buf, AtomCount(buf)) - 1
<1>1. PICK s : LaidOut(buf, atoms, s)
  BY DEF IsImage
<1>0. /\ buf \in Seq(AllCells) /\ atoms \in Seq(HatAtom) /\ Len(atoms) \in Nat /\ Len(buf) \in Nat
      /\ DOMAIN buf = 1 .. Len(buf) /\ atoms = [i \in 1 .. Len(atoms) |-> atoms[i]]
  <2>1. buf \in Seq(AllCells) /\ atoms \in Seq(HatAtom)
    BY <1>1 DEF LaidOut
  <2> QED
    BY <2>1, LenProperties
<1>2. /\ buf[1].k = "eeprom" /\ AtomCount(buf) = Len(atoms) /\ ImageLength(buf) = s[Len(atoms)] - 1
      /\ s[Len(atoms)] - 1 <= Len(buf)
  BY <1>1 DEF LaidOut, EepromHeader, AtomCount, ImageLength
<1>3. s[Len(atoms)] \in Nat /\ s[Len(atoms)] >= 2
  <2>1. /\ s \in [0 .. Len(atoms) -> Nat] /\ s[0] = 2
        /\ \A l, m \in 0 .. Len(atoms) : l <= m => s[l] <= s[m]
    BY <1>1 DEF LaidOut, Starts
  <2>2. 0 \in 0 .. Len(atoms) /\ Len(atoms) \in 0 .. Len(atoms) /\ 0 <= Len(atoms)
    BY <1>0
  <2> QED
    BY <2>1, <2>2
<1>4. ASSUME NEW n \in 1 .. Len(atoms)
      PROVE  /\ ~AtomError(buf, AtomStart(buf, n - 1))
             /\ GetAtom(buf, n - 1) = atoms[n]
  <2> DEFINE p == s[n - 1]
             data == atoms[n][2]
             cells == AtomCells(atoms[n][1], n - 1, data)
  <2>1. /\ p \in Nat /\ p >= 2 /\ s[n] = p + Extent(atoms[n]) /\ s[n] <= Len(buf) + 1 /\ p \in DOMAIN buf
        /\ buf[p] = AtomHeader(atoms[n][1], n - 1, Len(data) + 1) /\ DataLength(buf, p) = Len(data) + 1
    BY <1>1, HeaderIs
  <2>2. n - 1 \in 0 .. Len(atoms) /\ n - 1 \in Nat
    BY <1>0
  <2>3. AtomStart(buf, n - 1) = p
    BY <1>1, <2>2, StartIs
  <2>4. /\ atoms[n][1] \in Nat /\ data \in Seq(Nat) /\ Len(data) \in Nat
        /\ atoms[n] = <<atoms[n][1], data>> /\ Extent(atoms[n]) = Len(data) + 2
    BY <1>0, AtomIs DEF Extent
  <2>5. \A j \in 1 .. Len(data) + 2 : buf[p + j - 1] = cells[j]
    BY <1>1, <2>4 DEF LaidOut
  <2>6. /\ cells \in Seq(AllCells) /\ Len(cells) = Len(data) + 2
        /\ \A i \in 1 .. Len(data) : cells[i + 1] = [k |-> "data", of |-> <<data[i]>>]
        /\ cells[Len(data) + 2] = [k |-> "crc", of |-> SubSeq(cells, 1, Len(data) + 1)]
    BY <2>2, <2>4, CellsAre
  <2> HIDE DEF p, data, cells
  <2>7. p + (Len(data) + 1) \in DOMAIN buf /\ p + (Len(data) + 1) = p + (Len(data) + 2) - 1
    BY <1>0, <2>1, <2>4
  <2>8. buf[p + (Len(data) + 1)] = cells[Len(data) + 2]
    <3>1. Len(data) + 2 \in 1 .. Len(data) + 2
      BY <2>4
    <3> QED
      BY <2>5, <2>7, <3>1
  <2>9. SubSeq(buf, p, p + (Len(data) + 1) - 1) = SubSeq(cells, 1, Len(data) + 1)
    <3> DEFINE m == Len(data) + 1
               q == p + m - 1
    <3>1. m \in Nat /\ m >= 1 /\ q \in Nat /\ p <= q /\ q - p + 1 = m /\ q <= Len(buf)
      BY <1>0, <2>1, <2>4
    <3>2. \A i \in p .. q : buf[i] \in AllCells
      <4>1. \A i \in p .. q : i \in 1 .. Len(buf)
        <5> HIDE DEF m, q
        <5>1. p \in Nat /\ 1 <= p /\ q \in Nat /\ q <= Len(buf) /\ Len(buf) \in Nat
          BY <1>0, <2>1, <3>1
        <5> HIDE DEF p
        <5> QED
          BY <5>1
      <4> QED
        BY <1>0, <4>1, ElementOfSeq
    <3>3. \A i \in 1 .. m : cells[i] \in AllCells
      <4>1. \A i \in 1 .. m : i \in 1 .. Len(cells)
        <5>1. m \in Nat /\ Len(cells) \in Nat /\ m <= Len(cells)
          BY <2>4, <2>6
        <5> HIDE DEF m
        <5> QED
          BY <5>1
      <4> QED
        BY <2>6, <4>1, ElementOfSeq
    <3> HIDE DEF q
    <3>4. /\ SubSeq(buf, p, q) \in Seq(AllCells) /\ Len(SubSeq(buf, p, q)) = m
          /\ \A i \in 1 .. m : SubSeq(buf, p, q)[i] = buf[p + i - 1]
      BY <2>1, <3>1, <3>2, SubSeqProperties
    <3> HIDE DEF m
    <3>5. /\ SubSeq(cells, 1, m) \in Seq(AllCells) /\ Len(SubSeq(cells, 1, m)) = m
          /\ \A i \in 1 .. m : SubSeq(cells, 1, m)[i] = cells[i]
      <4>1. /\ SubSeq(cells, 1, m) \in Seq(AllCells)
            /\ Len(SubSeq(cells, 1, m)) = IF 1 <= m THEN m - 1 + 1 ELSE 0
            /\ \A i \in 1 .. m - 1 + 1 : SubSeq(cells, 1, m)[i] = cells[1 + i - 1]
        BY <3>1, <3>3, SubSeqProperties
      <4>2. (IF 1 <= m THEN m - 1 + 1 ELSE 0) = m /\ m - 1 + 1 = m /\ \A i \in 1 .. m : 1 + i - 1 = i
        BY <3>1
      <4> QED
        BY <4>1, <4>2
    <3>6. \A i \in 1 .. m : buf[p + i - 1] = cells[i]
      <4>1. \A i \in 1 .. m : i \in 1 .. Len(data) + 2
        BY <2>4 DEF m
      <4> QED
        BY <2>5, <4>1
    <3>7. SubSeq(buf, p, q) = SubSeq(cells, 1, m)
      BY <3>4, <3>5, <3>6, SeqEqual
    <3> QED
      BY <3>7 DEF q, m
  <2>10. ~AtomError(buf, p)
    <3>1. buf[p].k = "atom"
      BY <2>1 DEF AtomHeader
    <3>2. buf[p + (Len(data) + 1)].k = "crc"
      BY <2>6, <2>8
    <3>3. buf[p + (Len(data) + 1)].of = SubSeq(buf, p, p + (Len(data) + 1) - 1)
      <4>1. cells[Len(data) + 2].of = SubSeq(cells, 1, Len(data) + 1)
        BY <2>6
      <4> QED
        BY <2>8, <2>9, <4>1, Zenon
    <3> QED
      BY <2>1, <2>7, <3>1, <3>2, <3>3 DEF AtomError
  <2>11. GetAtom(buf, n - 1) = atoms[n]
    <3>1. buf[p].of[1] = atoms[n][1]
      BY <2>1 DEF AtomHeader
    <3>2. [i \in 1 .. (DataLength(buf, p) - 1) |-> buf[p + i].of[1]] = data
      <4>1. DataLength(buf, p) - 1 = Len(data)
        BY <2>1, <2>4
      <4>2. ASSUME NEW i \in 1 .. Len(data) PROVE buf[p + i].of[1] = data[i]
        <5>1. i + 1 \in 1 .. Len(data) + 2 /\ p + (i + 1) - 1 = p + i
          BY <2>1, <2>4
        <5>2. buf[p + i] = [k |-> "data", of |-> <<data[i]>>]
          BY <2>5, <2>6, <5>1
        <5> QED
          BY <5>2
      <4>3. data = [i \in 1 .. Len(data) |-> data[i]]
        BY <2>4, LenProperties
      <4> QED
        BY <4>1, <4>2, <4>3
    <3>3. GetAtom(buf, n - 1) = <<buf[p].of[1], [i \in 1 .. (DataLength(buf, p) - 1) |-> buf[p + i].of[1]]>>
      BY <2>3 DEF GetAtom
    <3> QED
      BY <2>4, <3>1, <3>2, <3>3
  <2> QED
    BY <2>3, <2>10, <2>11
<1>5. HatVerified(buf)
  <2>1. ASSUME NEW i \in 0 .. (AtomCount(buf) - 1) PROVE ~AtomError(buf, AtomStart(buf, i))
    <3>1. i + 1 \in 1 .. Len(atoms) /\ (i + 1) - 1 = i
      BY <1>0, <1>2
    <3>2. ~AtomError(buf, AtomStart(buf, (i + 1) - 1))
      BY <1>4, <3>1
    <3> QED
      BY <3>1, <3>2
  <2>2. Len(buf) > 0 /\ ImageLength(buf) <= Len(buf)
    BY <1>0, <1>2, <1>3
  <2> QED
    BY <1>2, <2>1, <2>2 DEF HatVerified
<1>6. [i \in 1 .. AtomCount(buf) |-> GetAtom(buf, i - 1)] = atoms
  BY <1>0, <1>2, <1>4
<1>7. ImageLength(buf) = AtomStart(buf, AtomCount(buf)) - 1
  <2>1. Len(atoms) \in 0 .. Len(atoms)
    BY <1>0
  <2> QED
    BY <1>1, <1>2, <2>1, StartIs
<1> QED
  BY <1>2, <1>5, <1>6, <1>7

\* Where atoms begin, as numbers.
LEMMA StartsAre ==
  ASSUME NEW buf, NEW atoms, NEW s, LaidOut(buf, atoms, s), NEW n \in 0 .. Len(atoms)
  PROVE  /\ s[n] \in Nat /\ s[n] >= 2 /\ s[n] <= s[Len(atoms)] /\ s[n] <= Len(buf) + 1
         /\ s[Len(atoms)] \in Nat /\ Len(atoms) \in Nat /\ Len(buf) \in Nat
         /\ \A m \in 0 .. Len(atoms) : s[m] \in Nat /\ (m <= n => s[m] <= s[n])
<1>0. Len(atoms) \in Nat /\ Len(buf) \in Nat
  <2>1. buf \in Seq(AllCells) /\ atoms \in Seq(HatAtom)
    BY DEF LaidOut
  <2> QED
    BY <2>1, LenProperties
<1>1. /\ s \in [0 .. Len(atoms) -> Nat] /\ s[0] = 2
      /\ \A l, m \in 0 .. Len(atoms) : l <= m => s[l] <= s[m]
      /\ s[Len(atoms)] - 1 <= Len(buf)
  BY DEF LaidOut, Starts
<1>2. 0 \in 0 .. Len(atoms) /\ Len(atoms) \in 0 .. Len(atoms) /\ 0 <= n /\ n <= Len(atoms)
  BY <1>0
<1>3. s[0] <= s[n] /\ s[n] <= s[Len(atoms)] /\ s[n] \in Nat /\ s[Len(atoms)] \in Nat
  BY <1>1, <1>2
<1> QED
  BY <1>0, <1>1, <1>3

\* What the image is after an atom has been set, cell for cell.
Replaced(buf, image, p, old, new, cells, header) ==
  /\ image \in Seq(AllCells) /\ Len(image) = Len(buf) + new - old
  /\ image[1] = header
  /\ \A i \in 2 .. p - 1 : image[i] = buf[i]
  /\ \A j \in 1 .. new : image[p + j - 1] = cells[j]
  /\ \A i \in p + new .. Len(buf) + new - old : image[i] = buf[i - new + old]

LEMMA SetAtomCells ==
  ASSUME NEW buf, NEW atoms, NEW s, LaidOut(buf, atoms, s), NEW pos \in 0 .. Len(atoms),
         NEW type \in Nat, NEW data \in Seq(Nat), NEW old, NEW count,
         old = IF pos = Len(atoms) THEN 0 ELSE Extent(atoms[pos + 1]),
         count = IF pos = Len(atoms) THEN Len(atoms) + 1 ELSE Len(atoms)
  PROVE  Replaced(buf, SetAtom(buf, pos, type, data), s[pos], old, Len(data) + 2,
                  AtomCells(type, pos, data),
                  EepromHeader(count, s[Len(atoms)] - 1 + (Len(data) + 2) - old))
<1> DEFINE p == s[pos]
           adding == pos = Len(atoms)
           cells == AtomCells(type, pos, data)
           new == Len(data) + 2
           at == IF adding THEN p ELSE p + 1
           room == Resized(buf, at, old, new)
           size == Len(buf) + new - old
           header == EepromHeader(count, s[Len(atoms)] - 1 + new - old)
           image == SetAtom(buf, pos, type, data)
<1>1. buf \in Seq(AllCells) /\ atoms \in Seq(HatAtom)
  BY DEF LaidOut
<1>2. /\ p \in Nat /\ p >= 2 /\ p <= Len(buf) + 1 /\ p <= s[Len(atoms)] /\ s[Len(atoms)] \in Nat
      /\ Len(atoms) \in Nat /\ Len(buf) \in Nat /\ pos \in Nat /\ s[Len(atoms)] <= Len(buf) + 1
  <2>1. /\ s[pos] \in Nat /\ s[pos] >= 2 /\ s[pos] <= s[Len(atoms)] /\ s[pos] <= Len(buf) + 1
        /\ s[Len(atoms)] \in Nat /\ Len(atoms) \in Nat /\ Len(buf) \in Nat
    BY StartsAre
  <2>2. Len(atoms) \in 0 .. Len(atoms)
    BY <2>1
  <2>3. s[Len(atoms)] <= Len(buf) + 1
    BY <2>2, StartsAre
  <2> QED
    BY <2>1, <2>3
<1>3. new \in Nat /\ new >= 2 /\ Len(data) \in Nat
  BY LenProperties
<1>4. old \in Nat /\ p + old <= s[Len(atoms)] /\ (~adding => p + 1 <= Len(buf) + 1 /\ old >= 1)
  <2>1. CASE adding
    BY <1>2, <2>1
  <2>2. CASE ~adding
    <3>1. pos + 1 \in 1 .. Len(atoms) /\ (pos + 1) - 1 = pos
      BY <1>2, <2>2
    <3>2. /\ s[pos + 1] = s[(pos + 1) - 1] + Extent(atoms[pos + 1]) /\ s[pos + 1] <= s[Len(atoms)]
          /\ s[(pos + 1) - 1] \in DOMAIN buf
      BY <3>1, HeaderIs
    <3>3. Extent(atoms[pos + 1]) \in Nat /\ DOMAIN buf = 1 .. Len(buf) /\ Extent(atoms[pos + 1]) >= 1
      <4>1. Len(atoms[pos + 1][2]) \in Nat
        BY <1>1, <3>1, AtomIs
      <4> QED
        BY <1>1, <4>1, LenProperties DEF Extent
    <3> QED
      BY <1>2, <2>2, <3>1, <3>2, <3>3
  <2> QED
    BY <2>1, <2>2
<1>5. image = [i \in DOMAIN room |->
                 CASE i = 1 -> header
                   [] i \in p .. (p + Len(cells) - 1) -> cells[i - p + 1]
                   [] OTHER -> room[i]]
  <2>1. /\ AtomCount(buf) = Len(atoms) /\ ImageLength(buf) = s[Len(atoms)] - 1
    BY DEF LaidOut, EepromHeader, AtomCount, ImageLength
  <2>2. AtomStart(buf, pos) = p
    BY StartIs
  <2>3. Len(cells) = new
    BY <1>2, CellsAre
  <2>4. CASE adding
    <3>1. old = 0 /\ count = Len(atoms) + 1 /\ at = p
      BY <2>4
    <3>2. (pos = Len(atoms)) = TRUE
      BY <2>4
    <3> HIDE DEF p, cells
    <3> QED
      BY <2>1, <2>2, <2>3, <3>1, <3>2 DEF SetAtom, cells
  <2>5. CASE ~adding
    <3>1. pos + 1 \in 1 .. Len(atoms) /\ (pos + 1) - 1 = pos
      BY <1>2, <2>5
    <3>2. DataLength(buf, p) = Len(atoms[pos + 1][2]) + 1
      BY <3>1, HeaderIs
    <3>3. old = 1 + DataLength(buf, p)
      BY <1>1, <2>5, <3>1, <3>2, AtomIs DEF Extent
    <3>4. count = Len(atoms) + 0 /\ at = p + 1
      BY <1>2, <2>5
    <3> HIDE DEF p, cells
    <3> QED
      BY <2>1, <2>2, <2>3, <2>5, <3>3, <3>4 DEF SetAtom, cells
  <2> QED
    BY <2>4, <2>5
<1>18. at \in Nat /\ (at = p \/ (at = p + 1 /\ p + 1 <= Len(buf) + 1 /\ old >= 1))
  BY <1>2, <1>4
<1>19. old \in Nat /\ p + old <= Len(buf) + 1
  BY <1>2, <1>4
<1>7. /\ cells \in Seq(AllCells) /\ Len(cells) = new
  BY <1>2, CellsAre
<1> HIDE DEF p, adding, at, new
<1>6. /\ room \in Seq(AllCells) /\ Len(room) = size /\ DOMAIN room = 1 .. size
      /\ \A i \in 1 .. at - 1 : room[i] = buf[i]
      /\ \A i \in 1 .. size : i >= at /\ i >= at + new - old => room[i] = buf[i - new + old]
  <2>1. at \in Nat /\ 1 <= at /\ at <= Len(buf) + 1 /\ at + old - new <= Len(buf) + 1
    BY <1>2, <1>3, <1>18, <1>19
  <2>2. RoomMade(buf, at, old, new)
    BY <1>1, <1>3, <1>19, <2>1, RoomIs
  <2>3. DOMAIN room = 1 .. size
    BY <2>2, LenProperties DEF RoomMade
  <2> QED
    BY <2>2, <2>3 DEF RoomMade
<1>8. header \in AllCells
  <2>1. count \in Nat /\ s[Len(atoms)] - 1 + new - old \in Nat
    BY <1>2, <1>3, <1>4
  <2>2. <<count, s[Len(atoms)] - 1 + new - old>> \in Seq(Nat)
    <3> DEFINE n == s[Len(atoms)] - 1 + new - old
    <3> HIDE DEF n
    <3>1. <<count, n>> \in Seq(Nat)
      BY <2>1 DEF n
    <3> QED
      BY <3>1 DEF n
  <2> QED
    BY <2>2 DEF EepromHeader, AllCells, PlainCells
<1> HIDE DEF room, cells, header
<1>9. size \in Nat /\ size >= p + new - 1
  BY <1>2, <1>3, <1>19
<1>10. DOMAIN image = 1 .. size
  BY <1>5, <1>6
<1>11. image[1] = header
  <2>1. 1 \in 1 .. size
    BY <1>2, <1>3, <1>9
  <2>2. ~(1 \in p .. (p + Len(cells) - 1))
    BY <1>2
  <2> QED
    BY <1>5, <1>6, <2>1, <2>2
<1>12. ASSUME NEW i \in 1 .. size, i \in p .. (p + new - 1) PROVE image[i] = cells[i - p + 1]
  <2>1. i # 1
    BY <1>2, <1>12
  <2> QED
    BY <1>5, <1>6, <1>7, <1>12, <2>1
<1>13. ASSUME NEW i \in 1 .. size, i # 1, ~(i \in p .. (p + new - 1)) PROVE image[i] = room[i]
  BY <1>5, <1>6, <1>7, <1>13
<1>14. image \in Seq(AllCells) /\ Len(image) = size
  <2>1. ASSUME NEW i \in 1 .. size PROVE image[i] \in AllCells
    <3>1. CASE i = 1
      BY <1>8, <1>11, <3>1
    <3>2. CASE i \in p .. (p + new - 1)
      <4>1. i - p + 1 \in 1 .. Len(cells)
        BY <1>2, <1>3, <1>7, <3>2
      <4>2. cells[i - p + 1] \in AllCells
        BY <1>7, <4>1, ElementOfSeq
      <4> QED
        BY <1>12, <3>2, <4>2
    <3>3. CASE i # 1 /\ ~(i \in p .. (p + new - 1))
      <4>1. room[i] \in AllCells
        BY <1>6, ElementOfSeq
      <4> QED
        BY <1>13, <3>3, <4>1
    <3> QED
      BY <3>1, <3>2, <3>3
  <2>2. image \in [1 .. size -> AllCells]
    <3> HIDE DEF image
    <3>1. image = [i \in 1 .. size |-> image[i]]
      BY <1>5, <1>6
    <3> QED
      BY <2>1, <3>1
  <2> HIDE DEF image, size
  <2>3. image \in Seq(AllCells)
    BY <1>9, <2>2, SeqDef
  <2> QED
    BY <1>9, <2>2, <2>3, LenProperties
<1>15. ASSUME NEW i \in 2 .. p - 1 PROVE image[i] = buf[i]
  <2>1. i \in 1 .. size /\ i # 1 /\ ~(i \in p .. (p + new - 1)) /\ i \in 1 .. at - 1
    BY <1>2, <1>3, <1>9, <1>18
  <2> QED
    BY <1>6, <1>13, <2>1
<1>16. ASSUME NEW j \in 1 .. new PROVE image[p + j - 1] = cells[j]
  <2>1. p + j - 1 \in 1 .. size /\ p + j - 1 \in p .. (p + new - 1) /\ (p + j - 1) - p + 1 = j
    BY <1>2, <1>3, <1>9
  <2> QED
    BY <1>12, <2>1
<1>17. ASSUME NEW i \in p + new .. size PROVE image[i] = buf[i - new + old]
  <2>1. i \in 1 .. size /\ i # 1 /\ ~(i \in p .. (p + new - 1))
    BY <1>2, <1>3
  <2>2. i >= at /\ i >= at + new - old
    BY <1>2, <1>3, <1>18, <1>19
  <2> QED
    BY <1>6, <1>13, <2>1, <2>2
<1> QED
  BY <1>11, <1>14, <1>15, <1>16, <1>17 DEF cells, header, p, new, Replaced

\* An atom behind the others makes the image of one more.
LEMMA AtomAdded ==
  ASSUME NEW buf, NEW atoms, NEW s, LaidOut(buf, atoms, s),
         NEW type \in Nat, NEW data \in Seq(Nat)
  PROVE  IsImage(SetAtom(buf, Len(atoms), type, data), Append(atoms, <<type, data>>))
<1> DEFINE c == Len(atoms)
           new == Len(data) + 2
           more == Append(atoms, <<type, data>>)
           image == SetAtom(buf, c, type, data)
           t == [n \in 0 .. c + 1 |-> IF n <= c THEN s[n] ELSE s[c] + new]
           header == EepromHeader(c + 1, s[c] - 1 + new - 0)
           cells == AtomCells(type, c, data)
<1>1. /\ buf \in Seq(AllCells) /\ atoms \in Seq(HatAtom) /\ c \in Nat /\ Len(buf) \in Nat
      /\ new \in Nat /\ new >= 2 /\ c \in 0 .. c /\ <<type, data>> \in HatAtom /\ Len(data) \in Nat
  <2>1. buf \in Seq(AllCells) /\ atoms \in Seq(HatAtom)
    BY DEF LaidOut
  <2>2. c \in Nat /\ Len(buf) \in Nat /\ Len(data) \in Nat
    BY <2>1, LenProperties
  <2> QED
    BY <2>1, <2>2 DEF HatAtom
<1>2. /\ s \in [0 .. c -> Nat] /\ s[0] = 2 /\ s[c] \in Nat /\ s[c] >= 2 /\ s[c] <= Len(buf) + 1
      /\ \A n \in 1 .. c : s[n] = s[n - 1] + Extent(atoms[n])
      /\ \A m, n \in 0 .. c : m <= n => s[m] <= s[n]
  <2>1. s[c] \in Nat /\ s[c] >= 2 /\ s[c] <= Len(buf) + 1
    BY <1>1, StartsAre
  <2> QED
    BY <2>1 DEF LaidOut, Starts
<1>3. Replaced(buf, image, s[c], 0, new, cells, header)
  <2>1. /\ 0 = (IF c = Len(atoms) THEN 0 ELSE Extent(atoms[c + 1]))
        /\ c + 1 = (IF c = Len(atoms) THEN Len(atoms) + 1 ELSE Len(atoms))
    OBVIOUS
  <2> QED
    BY <1>1, <2>1, SetAtomCells
<1>4. /\ more \in Seq(HatAtom) /\ Len(more) = c + 1 /\ more[c + 1] = <<type, data>>
      /\ \A n \in 1 .. c : more[n] = atoms[n]
  <2> HIDE DEF HatAtom
  <2> QED
    BY <1>1, AppendProperties
<1>5. Extent(more[c + 1]) = new
  BY <1>4 DEF Extent
<1> HIDE DEF c, new, more, image, cells, header
<1>6. \A n \in 0 .. c : s[n] \in Nat /\ s[n] <= s[c]
  BY <1>1, <1>2
<1>7. Starts(more, t)
  <2>1. t \in [0 .. c + 1 -> Nat] /\ t[0] = 2 /\ t[c + 1] = s[c] + new /\ t[c] = s[c]
    <3>1. ASSUME NEW n \in 0 .. c + 1 PROVE (IF n <= c THEN s[n] ELSE s[c] + new) \in Nat
      <4>1. n <= c => n \in 0 .. c
        BY <1>1
      <4>2. s[c] + new \in Nat /\ (n <= c => s[n] \in Nat)
        BY <1>1, <1>2, <1>6, <4>1
      <4> QED
        BY <4>2, Zenon
    <3>2. 0 \in 0 .. c + 1 /\ 0 <= c /\ c \in 0 .. c + 1 /\ c + 1 \in 0 .. c + 1 /\ ~(c + 1 <= c) /\ c <= c
      BY <1>1
    <3> QED
      BY <1>2, <3>1, <3>2
  <2>2. ASSUME NEW n \in 1 .. c + 1 PROVE t[n] = t[n - 1] + Extent(more[n])
    <3>1. CASE n = c + 1
      BY <1>1, <1>5, <2>1, <3>1
    <3>2. CASE n # c + 1
      <4>1. n \in 1 .. c /\ n \in 0 .. c + 1 /\ n - 1 \in 0 .. c + 1 /\ n <= c /\ n - 1 <= c
        BY <1>1, <3>2
      <4> QED
        BY <1>2, <1>4, <4>1
    <3> QED
      BY <3>1, <3>2
  <2>3. ASSUME NEW m \in 0 .. c + 1, NEW n \in 0 .. c + 1, m <= n PROVE t[m] <= t[n]
    <3>1. CASE n = c + 1
      <4>1. CASE m = c + 1
        <5>1. t[m] = s[c] + new /\ t[n] = s[c] + new
          BY <2>1, <3>1, <4>1, Zenon
        <5> QED
          BY <1>1, <1>2, <5>1
      <4>2. CASE m # c + 1
        <5>1. m \in 0 .. c /\ m <= c
          BY <1>1, <4>2
        <5>2. t[m] = s[m] /\ t[n] = s[c] + new
          BY <2>1, <3>1, <5>1
        <5> HIDE DEF t
        <5> QED
          BY <1>1, <1>2, <1>6, <5>1, <5>2
      <4> QED
        BY <4>1, <4>2
    <3>2. CASE n # c + 1
      <4>1. m \in 0 .. c /\ n \in 0 .. c
        BY <1>1, <2>3, <3>2
      <4> QED
        BY <1>1, <1>2, <2>3, <4>1
    <3> QED
      BY <3>1, <3>2
  <2> HIDE DEF t
  <2> QED
    BY <1>4, <2>1, <2>2, <2>3 DEF Starts
<1>8. image \in Seq(AllCells) /\ Len(image) = Len(buf) + new - 0
  BY <1>3 DEF Replaced
<1>9. t[c + 1] = s[c] + new /\ t[c] = s[c]
  BY <1>1
<1>10. t[c + 1] - 1 <= Len(image)
  BY <1>1, <1>2, <1>8, <1>9
<1>11. image[1] = EepromHeader(c + 1, t[c + 1] - 1)
  <2>1. s[c] - 1 + new - 0 = t[c + 1] - 1
    BY <1>1, <1>2, <1>9
  <2> QED
    BY <1>3, <2>1 DEF Replaced, header
<1>12. ASSUME NEW n \in 1 .. c + 1, NEW j \in 1 .. Extent(more[n])
       PROVE  image[t[n - 1] + j - 1] = AtomCells(more[n][1], n - 1, more[n][2])[j]
  <2>1. CASE n = c + 1
    <3>1. n - 1 = c /\ more[n][1] = type /\ more[n][2] = data /\ j \in 1 .. new
      <4>1. n - 1 = c
        BY <1>1, <2>1
      <4>2. more[n] = <<type, data>> /\ Extent(more[n]) = new
        BY <1>4, <1>5, <2>1, Zenon
      <4> QED
        BY <4>1, <4>2
    <3>2. image[s[c] + j - 1] = cells[j]
      BY <1>3, <3>1 DEF Replaced
    <3> QED
      BY <1>9, <3>1, <3>2 DEF cells
  <2>2. CASE n # c + 1
    <3>1. n \in 1 .. c /\ n - 1 \in 0 .. c + 1 /\ n - 1 <= c /\ n \in 0 .. c /\ n - 1 \in 0 .. c
      BY <1>1, <2>2
    <3>2. more[n] = atoms[n] /\ t[n - 1] = s[n - 1] /\ s[n] = s[n - 1] + Extent(atoms[n])
      BY <1>2, <1>4, <3>1
    <3>3. buf[s[n - 1] + j - 1] = AtomCells(atoms[n][1], n - 1, atoms[n][2])[j]
      <4>1. n \in 1 .. Len(atoms) /\ j \in 1 .. Extent(atoms[n])
        BY <3>1, <3>2 DEF c
      <4> QED
        BY <4>1 DEF LaidOut
    <3>4. s[n - 1] + j - 1 \in 2 .. s[c] - 1
      <4>1. s[n - 1] \in Nat /\ s[n - 1] >= 2 /\ s[n] <= s[c]
        <5>1. 0 \in 0 .. c /\ 0 <= n - 1 /\ c \in 0 .. c /\ n <= c
          BY <1>1, <3>1
        <5>2. s[0] <= s[n - 1] /\ s[n] <= s[c]
          BY <1>2, <3>1, <5>1
        <5> QED
          BY <1>2, <1>6, <3>1, <5>2
      <4>2. Extent(atoms[n]) \in Nat
        BY <1>1, <3>1, AtomIs DEF c
      <4> QED
        BY <1>2, <3>2, <4>1, <4>2
    <3>5. image[s[n - 1] + j - 1] = buf[s[n - 1] + j - 1]
      BY <1>3, <3>4 DEF Replaced
    <3> QED
      BY <3>2, <3>3, <3>5
  <2> QED
    BY <2>1, <2>2
<1> HIDE DEF t
<1>13. LaidOut(image, more, t)
  BY <1>4, <1>7, <1>8, <1>10, <1>11, <1>12 DEF LaidOut
<1> QED
  BY <1>13 DEF IsImage, image, more, c

\* An atom in the place of another one makes the image of the others and it.
LEMMA AtomExchanged ==
  ASSUME NEW buf, NEW atoms, NEW s, LaidOut(buf, atoms, s), NEW k \in 1 .. Len(atoms),
         NEW type \in Nat, NEW data \in Seq(Nat)
  PROVE  IsImage(SetAtom(buf, k - 1, type, data), [atoms EXCEPT ![k] = <<type, data>>])
<1> DEFINE c == Len(atoms)
           new == Len(data) + 2
           old == Extent(atoms[k])
           more == [atoms EXCEPT ![k] = <<type, data>>]
           image == SetAtom(buf, k - 1, type, data)
           t == [n \in 0 .. c |-> IF n < k THEN s[n] ELSE s[n] + new - old]
           header == EepromHeader(c, s[c] - 1 + new - old)
           cells == AtomCells(type, k - 1, data)
<1>1. /\ buf \in Seq(AllCells) /\ atoms \in Seq(HatAtom) /\ c \in Nat /\ Len(buf) \in Nat
      /\ new \in Nat /\ new >= 2 /\ c \in 0 .. c /\ <<type, data>> \in HatAtom /\ Len(data) \in Nat
      /\ k \in Nat /\ 1 <= k /\ k <= c /\ old \in Nat
  <2>1. buf \in Seq(AllCells) /\ atoms \in Seq(HatAtom)
    BY DEF LaidOut
  <2>2. c \in Nat /\ Len(buf) \in Nat /\ Len(data) \in Nat
    BY <2>1, LenProperties
  <2>3. old \in Nat
    BY <2>1, AtomIs
  <2> QED
    BY <2>1, <2>2, <2>3 DEF HatAtom
<1>2. /\ s \in [0 .. c -> Nat] /\ s[0] = 2 /\ s[c] \in Nat /\ s[c] >= 2 /\ s[c] <= Len(buf) + 1
      /\ \A n \in 1 .. c : s[n] = s[n - 1] + Extent(atoms[n])
      /\ \A m, n \in 0 .. c : m <= n => s[m] <= s[n]
  <2>1. s[c] \in Nat /\ s[c] >= 2 /\ s[c] <= Len(buf) + 1
    BY <1>1, StartsAre
  <2> QED
    BY <2>1 DEF LaidOut, Starts
<1>3. Replaced(buf, image, s[k - 1], old, new, cells, header)
  <2>1. /\ k - 1 # Len(atoms) /\ k - 1 + 1 = k /\ k - 1 \in 0 .. Len(atoms)
    BY <1>1
  <2>2. /\ old = (IF k - 1 = Len(atoms) THEN 0 ELSE Extent(atoms[k - 1 + 1]))
        /\ c = (IF k - 1 = Len(atoms) THEN Len(atoms) + 1 ELSE Len(atoms))
    BY <2>1
  <2> QED
    BY <2>1, <2>2, SetAtomCells
<1>4. /\ more \in Seq(HatAtom) /\ Len(more) = c /\ more[k] = <<type, data>>
      /\ \A n \in 1 .. c : n # k => more[n] = atoms[n]
  <2> HIDE DEF HatAtom
  <2> QED
    BY <1>1, ExceptSeq
<1>5. Extent(more[k]) = new
  BY <1>4 DEF Extent
<1>6. /\ \A n \in 0 .. c : s[n] \in Nat /\ s[n] >= 2
      /\ k - 1 \in 0 .. c /\ s[k] = s[k - 1] + old
      /\ \A n \in 0 .. c : n >= k => s[n] >= s[k - 1] + old
  <2>1. ASSUME NEW n \in 0 .. c PROVE s[n] \in Nat /\ s[n] >= 2
    BY StartsAre
  <2>2. k - 1 \in 0 .. c /\ k \in 0 .. c /\ k \in 1 .. c
    BY <1>1
  <2>3. s[k] = s[k - 1] + old
    BY <1>2, <2>2
  <2>4. ASSUME NEW n \in 0 .. c, n >= k PROVE s[n] >= s[k - 1] + old
    BY <1>1, <1>2, <2>1, <2>2, <2>3, <2>4
  <2> QED
    BY <2>1, <2>2, <2>3, <2>4
<1> HIDE DEF c, new, old, more, image, cells, header
<1>9. \A n \in 0 .. c : t[n] = IF n < k THEN s[n] ELSE s[n] + new - old
  OBVIOUS
<1>14. \A n \in 0 .. c : t[n] \in Nat /\ (n < k => t[n] = s[n]) /\ (n >= k => t[n] = s[n] + new - old)
  <2> SUFFICES ASSUME NEW n \in 0 .. c
               PROVE  t[n] \in Nat /\ (n < k => t[n] = s[n]) /\ (n >= k => t[n] = s[n] + new - old)
    OBVIOUS
  <2>1. CASE n < k
    BY <1>1, <1>6, <1>9, <2>1
  <2>2. CASE n >= k
    BY <1>1, <1>6, <1>9, <2>2
  <2> QED
    BY <1>1, <2>1, <2>2
<1>7. Starts(more, t)
  <2>0. t = [n \in 0 .. c |-> t[n]]
    OBVIOUS
  <2> HIDE DEF t
  <2>1. t \in [0 .. c -> Nat] /\ t[0] = 2
    <3>1. 0 \in 0 .. c /\ 0 < k
      BY <1>1
    <3> QED
      BY <1>2, <1>14, <2>0, <3>1
  <2>2. ASSUME NEW n \in 1 .. c PROVE t[n] = t[n - 1] + Extent(more[n])
    <3>0. n \in 0 .. c /\ n - 1 \in 0 .. c /\ s[n] \in Nat /\ s[n - 1] \in Nat
          /\ s[n] = s[n - 1] + Extent(atoms[n]) /\ Extent(atoms[n]) \in Nat
      <4>1. Extent(atoms[n]) \in Nat
        BY <1>1, AtomIs DEF c
      <4>2. n \in 0 .. c /\ n - 1 \in 0 .. c
        BY <1>1
      <4> QED
        BY <1>2, <1>6, <4>1, <4>2
    <3>1. CASE n < k
      BY <1>1, <1>4, <1>14, <3>0, <3>1
    <3>2. CASE n = k
      <4>1. t[n] = s[n] + new - old /\ t[n - 1] = s[n - 1]
        BY <1>1, <1>14, <3>0, <3>2
      <4>2. s[n] = s[n - 1] + old
        BY <1>6, <3>2
      <4> QED
        BY <1>1, <1>5, <3>0, <3>2, <4>1, <4>2
    <3>3. CASE n > k
      <4>1. t[n] = s[n] + new - old /\ t[n - 1] = s[n - 1] + new - old /\ more[n] = atoms[n]
        BY <1>1, <1>4, <1>14, <3>0, <3>3
      <4> QED
        BY <1>1, <3>0, <4>1
    <3> QED
      BY <1>1, <3>1, <3>2, <3>3
  <2>3. ASSUME NEW m \in 0 .. c, NEW n \in 0 .. c, m <= n PROVE t[m] <= t[n]
    <3>0. s[m] \in Nat /\ s[n] \in Nat /\ s[m] <= s[n] /\ s[k - 1] \in Nat
      BY <1>2, <1>6, <2>3
    <3>1. CASE n < k
      BY <1>1, <1>14, <2>3, <3>0, <3>1
    <3>2. CASE m >= k
      BY <1>1, <1>14, <2>3, <3>0, <3>2
    <3>3. CASE m < k /\ n >= k
      <4>1. t[m] = s[m] /\ t[n] = s[n] + new - old /\ s[n] >= s[k - 1] + old
        BY <1>6, <1>14, <3>3
      <4>2. s[m] <= s[k - 1]
        <5>1. m <= k - 1
          BY <1>1, <3>3
        <5> QED
          BY <1>2, <1>6, <5>1
      <4> QED
        BY <1>1, <3>0, <4>1, <4>2
    <3> QED
      BY <1>1, <3>1, <3>2, <3>3
  <2> QED
    BY <1>4, <2>1, <2>2, <2>3 DEF Starts
<1> HIDE DEF t
<1>8. image \in Seq(AllCells) /\ Len(image) = Len(buf) + new - old
  BY <1>3 DEF Replaced
<1>15. t[c] = s[c] + new - old
  BY <1>1, <1>14
<1>10. t[c] - 1 <= Len(image)
  BY <1>1, <1>2, <1>8, <1>15
<1>11. image[1] = EepromHeader(c, t[c] - 1)
  <2>1. s[c] - 1 + new - old = t[c] - 1
    BY <1>1, <1>2, <1>15
  <2> QED
    BY <1>3, <2>1 DEF Replaced, header
<1>12. ASSUME NEW n \in 1 .. c, NEW j \in 1 .. Extent(more[n])
       PROVE  image[t[n - 1] + j - 1] = AtomCells(more[n][1], n - 1, more[n][2])[j]
  <2>0. /\ n \in 0 .. c /\ n - 1 \in 0 .. c /\ s[n] \in Nat /\ s[n - 1] \in Nat /\ s[n - 1] >= 2
        /\ s[n] = s[n - 1] + Extent(atoms[n]) /\ Extent(atoms[n]) \in Nat /\ s[n] <= s[c]
        /\ s[k - 1] \in Nat
    <3>1. Extent(atoms[n]) \in Nat
      BY <1>1, AtomIs DEF c
    <3>2. n \in 0 .. c /\ n - 1 \in 0 .. c /\ c \in 0 .. c /\ n <= c
      BY <1>1
    <3> QED
      BY <1>2, <1>6, <3>1, <3>2
  <2>5. n # k => \A i \in 1 .. Extent(atoms[n]) :
          buf[s[n - 1] + i - 1] = AtomCells(atoms[n][1], n - 1, atoms[n][2])[i]
    <3>1. n \in 1 .. Len(atoms)
      BY DEF c
    <3> QED
      BY <3>1 DEF LaidOut
  <2>1. CASE n = k
    <3>1. t[n - 1] = s[k - 1] /\ more[n][1] = type /\ more[n][2] = data /\ j \in 1 .. new
      <4>1. n - 1 < k /\ n - 1 = k - 1
        BY <1>1, <2>1
      <4>2. t[n - 1] = s[k - 1]
        BY <1>14, <2>0, <4>1
      <4>3. more[n] = <<type, data>> /\ Extent(more[n]) = new
        BY <1>4, <1>5, <2>1, Zenon
      <4> QED
        BY <4>2, <4>3
    <3>2. image[s[k - 1] + j - 1] = cells[j]
      BY <1>3, <3>1 DEF Replaced
    <3> QED
      BY <2>1, <3>1, <3>2 DEF cells
  <2>2. CASE n < k
    <3>1. t[n - 1] = s[n - 1] /\ more[n] = atoms[n]
      BY <1>1, <1>4, <1>14, <2>0, <2>2
    <3>2. s[n] <= s[k - 1]
      <4>1. n <= k - 1
        BY <1>1, <2>2
      <4> QED
        BY <1>2, <1>6, <2>0, <4>1
    <3>3. s[n - 1] + j - 1 \in 2 .. s[k - 1] - 1
      <4>1. j \in 1 .. Extent(atoms[n])
        BY <3>1, Zenon
      <4>2. \A a, e, b \in Nat : \A i \in 1 .. e : a >= 2 /\ a + e <= b => a + i - 1 \in 2 .. b - 1
        OBVIOUS
      <4>3. s[n - 1] + Extent(atoms[n]) <= s[k - 1]
        BY <2>0, <3>2, Zenon
      <4> QED
        BY <2>0, <4>1, <4>2, <4>3, Zenon
    <3>4. image[s[n - 1] + j - 1] = buf[s[n - 1] + j - 1]
      BY <1>3, <3>3 DEF Replaced
    <3> QED
      BY <2>2, <2>5, <3>1, <3>4
  <2>3. CASE n > k
    <3>1. t[n - 1] = s[n - 1] + new - old /\ more[n] = atoms[n]
      <4>1. n - 1 >= k /\ n # k
        BY <1>1, <2>3
      <4> QED
        BY <1>4, <1>14, <2>0, <4>1
    <3>2. s[n - 1] >= s[k - 1] + old
      <4>1. n - 1 >= k
        BY <1>1, <2>3
      <4> QED
        BY <1>6, <2>0, <4>1
    <3> DEFINE i == t[n - 1] + j - 1
    <3>3. i \in s[k - 1] + new .. Len(buf) + new - old /\ i - new + old = s[n - 1] + j - 1
      <4>1. j \in 1 .. Extent(atoms[n])
        BY <3>1, Zenon
      <4>3. s[n - 1] + Extent(atoms[n]) <= s[c]
        BY <2>0, Zenon
      <4>4. i = s[n - 1] + new - old + j - 1
        BY <3>1, Zenon
      <4>5. /\ s[n - 1] \in Nat /\ Extent(atoms[n]) \in Nat /\ s[k - 1] \in Nat /\ new \in Nat
            /\ s[c] \in Nat /\ Len(buf) \in Nat /\ old \in Nat
            /\ s[n - 1] >= s[k - 1] + old /\ s[c] <= Len(buf) + 1
        BY <1>1, <1>2, <2>0, <3>2, Zenon
      <4>6. /\ s[n - 1] + new - old + j - 1 \in s[k - 1] + new .. Len(buf) + new - old
            /\ (s[n - 1] + new - old + j - 1) - new + old = s[n - 1] + j - 1
        <5> DEFINE a == s[n - 1]
                   e == Extent(atoms[n])
                   b == s[k - 1]
                   z == s[c]
                   l == Len(buf)
        <5>1. /\ a \in Nat /\ e \in Nat /\ b \in Nat /\ z \in Nat /\ l \in Nat /\ j \in 1 .. e
              /\ a >= b + old /\ a + e <= z /\ z <= l + 1 /\ new \in Nat /\ old \in Nat
          BY <4>1, <4>3, <4>5, Zenon
        <5> HIDE DEF a, e, b, z, l
        <5>2. /\ a + new - old + j - 1 \in b + new .. l + new - old
              /\ (a + new - old + j - 1) - new + old = a + j - 1
          BY <5>1
        <5> QED
          BY <5>2 DEF a, b, l
      <4> HIDE DEF i
      <4> QED
        BY <4>4, <4>6, Zenon
    <3>4. image[i] = buf[i - new + old]
      <4> HIDE DEF i
      <4> QED
        BY <1>3, <3>3 DEF Replaced
    <3> QED
      BY <2>3, <2>5, <3>1, <3>3, <3>4
  <2> QED
    BY <1>1, <2>1, <2>2, <2>3
<1>13. LaidOut(image, more, t)
  BY <1>4, <1>7, <1>8, <1>10, <1>11, <1>12 DEF LaidOut
<1> QED
  BY <1>13 DEF IsImage, image, more

-----------------------------------------------------------------------------
(* Images kept, copied and read back.                                       *)

\* What a lemma says of the image and its atoms, for an atom added or changed.
LEMMA ImageWithAtom ==
  ASSUME NEW buf, NEW atoms, IsImage(buf, atoms), NEW type \in Nat, NEW data \in Seq(Nat)
  PROVE  /\ atoms \in Seq(HatAtom) /\ AtomCount(buf) = Len(atoms) /\ buf \in Seq(AllCells)
         /\ IsImage(SetAtom(buf, Len(atoms), type, data), Append(atoms, <<type, data>>))
         /\ \A k \in 1 .. Len(atoms) :
              IsImage(SetAtom(buf, k - 1, type, data), [atoms EXCEPT ![k] = <<type, data>>])
<1>1. PICK s : LaidOut(buf, atoms, s)
  BY DEF IsImage
<1>2. atoms \in Seq(HatAtom) /\ buf \in Seq(AllCells)
  BY <1>1 DEF LaidOut
<1>3. AtomCount(buf) = Len(atoms)
  BY ImageReads
<1>4. IsImage(SetAtom(buf, Len(atoms), type, data), Append(atoms, <<type, data>>))
  BY <1>1, AtomAdded
<1>5. ASSUME NEW k \in 1 .. Len(atoms)
      PROVE  IsImage(SetAtom(buf, k - 1, type, data), [atoms EXCEPT ![k] = <<type, data>>])
  BY <1>1, AtomExchanged
<1> QED
  BY <1>2, <1>3, <1>4, <1>5

\* A buffer that agrees with an image to the image's end is an image too.
LEMMA SamePrefix ==
  ASSUME NEW buf, NEW atoms, NEW s, LaidOut(buf, atoms, s), NEW other \in Seq(AllCells),
         s[Len(atoms)] - 1 <= Len(other), \A i \in 1 .. s[Len(atoms)] - 1 : other[i] = buf[i]
  PROVE  LaidOut(other, atoms, s)
<1>1. /\ atoms \in Seq(HatAtom) /\ Starts(atoms, s) /\ Len(atoms) \in Nat
      /\ buf[1] = EepromHeader(Len(atoms), s[Len(atoms)] - 1)
      /\ \A n \in 1 .. Len(atoms) : \A j \in 1 .. Extent(atoms[n]) :
           buf[s[n - 1] + j - 1] = AtomCells(atoms[n][1], n - 1, atoms[n][2])[j]
  <2>1. atoms \in Seq(HatAtom)
    BY DEF LaidOut
  <2> QED
    BY <2>1, LenProperties DEF LaidOut
<1>2. Len(atoms) \in 0 .. Len(atoms)
  BY <1>1
<1>3. s[Len(atoms)] \in Nat /\ s[Len(atoms)] >= 2
  BY <1>2, StartsAre
<1>4. other[1] = EepromHeader(Len(atoms), s[Len(atoms)] - 1)
  BY <1>1, <1>3
<1>5. ASSUME NEW n \in 1 .. Len(atoms), NEW j \in 1 .. Extent(atoms[n])
      PROVE  other[s[n - 1] + j - 1] = AtomCells(atoms[n][1], n - 1, atoms[n][2])[j]
  <2>1. /\ s[n - 1] \in Nat /\ s[n - 1] >= 2 /\ s[n] \in Nat /\ s[n] = s[n - 1] + Extent(atoms[n])
        /\ s[n] <= s[Len(atoms)] /\ Extent(atoms[n]) \in Nat
    BY <1>1, HeaderIs, AtomIs
  <2>2. s[n - 1] + j - 1 \in 1 .. s[Len(atoms)] - 1
    <3>1. \A a, e, z \in Nat : \A i \in 1 .. e : a >= 2 /\ a + e <= z => a + i - 1 \in 1 .. z - 1
      OBVIOUS
    <3>2. s[n - 1] + Extent(atoms[n]) <= s[Len(atoms)]
      BY <2>1
    <3> QED
      BY <1>3, <2>1, <3>1, <3>2, Zenon
  <2>3. other[s[n - 1] + j - 1] = buf[s[n - 1] + j - 1]
    BY <2>2
  <2> QED
    BY <1>1, <2>3
<1> QED
  BY <1>1, <1>4, <1>5 DEF LaidOut

\* The atoms of the code need 18 cells at most, with the header.
LEMMA FewFit ==
  ASSUME NEW buf, NEW atoms, NEW s, LaidOut(buf, atoms, s), FewAtoms(atoms)
  PROVE  s[Len(atoms)] - 1 <= 18
<1> DEFINE c == Len(atoms)
<1>1. /\ s \in [0 .. c -> Nat] /\ s[0] = 2
      /\ \A n \in 1 .. c : s[n] = s[n - 1] + Extent(atoms[n])
      /\ atoms \in Seq(HatAtom)
  BY DEF LaidOut, Starts
<1>2. \A n \in 1 .. c : Extent(atoms[n]) = Len(atoms[n][2]) + 2 /\ Len(atoms[n][2]) \in Nat
  BY <1>1, AtomIs DEF Extent
<1>3. /\ c \in {0, 1, 3, 4, 5}
      /\ c >= 1 => Len(atoms[1][2]) <= 3
      /\ c >= 3 => Len(atoms[2][2]) <= 1 /\ Len(atoms[3][2]) = 0
      /\ c >= 4 => Len(atoms[4][2]) <= 2
      /\ c >= 5 => Len(atoms[5][2]) <= 1
  BY DEF FewAtoms
<1> HIDE DEF c
<1>4. c >= 1 => s[1] \in Nat /\ s[1] <= 7
  <2> SUFFICES ASSUME c >= 1 PROVE s[1] \in Nat /\ s[1] <= 7
    OBVIOUS
  <2>1. 1 \in 1 .. c /\ 1 - 1 = 0
    BY <1>3
  <2>2. s[1] = s[0] + Extent(atoms[1])
    BY <1>1, <2>1
  <2> QED
    BY <1>1, <1>2, <1>3, <2>1, <2>2
<1>5. c >= 3 => s[3] \in Nat /\ s[3] <= 12
  <2> SUFFICES ASSUME c >= 3 PROVE s[3] \in Nat /\ s[3] <= 12
    OBVIOUS
  <2>1. 2 \in 1 .. c /\ 2 - 1 = 1 /\ 3 \in 1 .. c /\ 3 - 1 = 2
    BY <1>3
  <2>2. s[2] = s[1] + Extent(atoms[2]) /\ s[3] = s[2] + Extent(atoms[3])
    BY <1>1, <2>1
  <2>3. s[2] \in Nat /\ s[2] <= 10
    BY <1>2, <1>3, <1>4, <2>1, <2>2
  <2> QED
    BY <1>2, <1>3, <2>1, <2>2, <2>3
<1>6. c >= 4 => s[4] \in Nat /\ s[4] <= 16
  <2> SUFFICES ASSUME c >= 4 PROVE s[4] \in Nat /\ s[4] <= 16
    OBVIOUS
  <2>1. 4 \in 1 .. c /\ 4 - 1 = 3
    BY <1>3
  <2>2. s[4] = s[3] + Extent(atoms[4])
    BY <1>1, <2>1
  <2> QED
    BY <1>2, <1>3, <1>5, <2>1, <2>2
<1>7. c >= 5 => s[5] \in Nat /\ s[5] <= 19
  <2> SUFFICES ASSUME c >= 5 PROVE s[5] \in Nat /\ s[5] <= 19
    OBVIOUS
  <2>1. 5 \in 1 .. c /\ 5 - 1 = 4
    BY <1>3
  <2>2. s[5] = s[4] + Extent(atoms[5])
    BY <1>1, <2>1
  <2> QED
    BY <1>2, <1>3, <1>6, <2>1, <2>2
<1>8. s[c] \in Nat /\ s[c] <= 19
  <2>1. CASE c = 0
    BY <1>1, <2>1
  <2>2. CASE c = 1
    BY <1>4, <2>2
  <2>3. CASE c = 3
    BY <1>5, <2>3
  <2>4. CASE c = 4
    BY <1>6, <2>4
  <2>5. CASE c = 5
    BY <1>7, <2>5
  <2> QED
    BY <1>3, <2>1, <2>2, <2>3, <2>4, <2>5
<1> QED
  BY <1>8 DEF c

\* Written to a chip, an image of few atoms is the chip's.
LEMMA OnChipReads ==
  ASSUME HatAssumption, RoomEnough, NEW image, NEW atoms, IsImage(image, atoms), FewAtoms(atoms),
         NEW chip \in Seq(AllCells), Len(chip) = HatCapacity
  PROVE  /\ OnChip(image, chip) \in Seq(AllCells) /\ Len(OnChip(image, chip)) = HatCapacity
         /\ IsImage(OnChip(image, chip), atoms)
<1> DEFINE copy == OnChip(image, chip)
<1>1. PICK s : LaidOut(image, atoms, s)
  BY DEF IsImage
<1>2. image \in Seq(AllCells) /\ Len(image) \in Nat /\ HatCapacity \in Nat /\ HatCapacity >= 18
  <2>1. image \in Seq(AllCells)
    BY <1>1 DEF LaidOut
  <2> QED
    BY <2>1, LenProperties DEF HatAssumption, RoomEnough
<1>3. /\ \A i \in 1 .. Len(image) : image[i] \in AllCells
      /\ \A i \in 1 .. HatCapacity : chip[i] \in AllCells
  BY <1>2, LenProperties
<1>4. copy \in Seq(AllCells) /\ Len(copy) = HatCapacity
  <2>1. ASSUME NEW i \in 1 .. HatCapacity PROVE (IF i <= Len(image) THEN image[i] ELSE chip[i]) \in AllCells
    <3>1. i <= Len(image) => i \in 1 .. Len(image)
      BY <1>2
    <3> QED
      BY <1>3, <3>1
  <2>2. copy \in [1 .. HatCapacity -> AllCells] /\ copy = [i \in 1 .. HatCapacity |-> copy[i]]
    BY <2>1 DEF OnChip
  <2> HIDE DEF copy
  <2>3. copy \in Seq(AllCells)
    BY <1>2, <2>2
  <2> QED
    BY <1>2, <2>2, <2>3, LenProperties
<1>5. s[Len(atoms)] - 1 <= 18 /\ s[Len(atoms)] \in Nat /\ s[Len(atoms)] - 1 <= Len(image)
  <2>1. Len(atoms) \in 0 .. Len(atoms)
    <3>1. atoms \in Seq(HatAtom)
      BY <1>1 DEF LaidOut
    <3>2. Len(atoms) \in Nat
      BY <3>1, LenProperties
    <3> QED
      BY <3>2
  <2>2. s[Len(atoms)] \in Nat /\ s[Len(atoms)] <= Len(image) + 1
    BY <1>1, <2>1, StartsAre
  <2> QED
    BY <1>1, <1>2, <2>2, FewFit
<1>6. \A i \in 1 .. s[Len(atoms)] - 1 : copy[i] = image[i]
  BY <1>2, <1>5 DEF OnChip
<1> HIDE DEF copy
<1>7. LaidOut(copy, atoms, s)
  BY <1>1, <1>2, <1>4, <1>5, <1>6, SamePrefix
<1> QED
  BY <1>4, <1>7 DEF IsImage, copy

\* What is read of a chip and verifies is the image of the chip's atoms.
LEMMA ReadIsImage ==
  ASSUME NEW chip, NEW atoms, IsImage(chip, atoms), NEW received \in 0 .. Len(chip),
         HatVerified(SubSeq(chip, 1, received))
  PROVE  IsImage(SubSeq(chip, 1, received), atoms)
<1> DEFINE read == SubSeq(chip, 1, received)
<1>1. PICK s : LaidOut(chip, atoms, s)
  BY DEF IsImage
<1>2. chip \in Seq(AllCells) /\ Len(chip) \in Nat
  <2>1. chip \in Seq(AllCells)
    BY <1>1 DEF LaidOut
  <2> QED
    BY <2>1, LenProperties
<1>3. /\ read \in Seq(AllCells) /\ Len(read) = received
      /\ \A i \in 1 .. received : read[i] = chip[i]
  <2>1. \A i \in 1 .. received : chip[i] \in AllCells
    BY <1>2, LenProperties
  <2> QED
    BY <1>2, <2>1, SubSeqProperties
<1>4. Len(read) > 0 /\ ImageLength(read) <= Len(read)
  BY DEF HatVerified
<1> HIDE DEF read
<1>5. read[1] = EepromHeader(Len(atoms), s[Len(atoms)] - 1)
  <2>1. chip[1] = EepromHeader(Len(atoms), s[Len(atoms)] - 1)
    BY <1>1 DEF LaidOut
  <2> QED
    BY <1>3, <1>4, <2>1
<1>6. s[Len(atoms)] - 1 <= received
  BY <1>3, <1>4, <1>5 DEF ImageLength, EepromHeader
<1>7. \A i \in 1 .. s[Len(atoms)] - 1 : read[i] = chip[i]
  <2>1. Len(atoms) \in 0 .. Len(atoms)
    <3>1. atoms \in Seq(HatAtom)
      BY <1>1 DEF LaidOut
    <3>2. Len(atoms) \in Nat
      BY <3>1, LenProperties
    <3> QED
      BY <3>2
  <2>2. s[Len(atoms)] \in Nat
    BY <1>1, <2>1, StartsAre
  <2> QED
    BY <1>2, <1>3, <1>6, <2>2
<1>8. LaidOut(read, atoms, s)
  BY <1>1, <1>3, <1>6, <1>7, SamePrefix
<1> QED
  BY <1>8 DEF IsImage, read

LEMMA BlankIs ==
  ASSUME HatAssumption
  PROVE  /\ Blank \in Seq(AllCells) /\ Len(Blank) = HatCapacity
         /\ OnChip(<<>>, Blank) = Blank
         /\ \A received \in 0 .. HatCapacity : ~HatVerified(SubSeq(Blank, 1, received))
<1>1. HatCapacity \in Nat
  BY DEF HatAssumption
<1>2. Cell("garbage") \in AllCells
  <2>1. <<>> \in Seq(Nat)
    OBVIOUS
  <2> QED
    BY <2>1 DEF Cell, AllCells, PlainCells
<1>3. Blank \in [1 .. HatCapacity -> AllCells] /\ Blank = [i \in 1 .. HatCapacity |-> Blank[i]]
  BY <1>2 DEF Blank
<1>4. \A i \in 1 .. HatCapacity : Blank[i] = Cell("garbage")
  BY DEF Blank
<1>5. Blank \in Seq(AllCells)
  BY <1>1, <1>3
<1>6. Len(Blank) = HatCapacity
  BY <1>1, <1>3, <1>5, LenProperties
<1>7. OnChip(<<>>, Blank) = Blank
  <2>1. Len(<<>>) = 0
    OBVIOUS
  <2>2. \A i \in 1 .. HatCapacity : (IF i <= Len(<<>>) THEN <<>>[i] ELSE Blank[i]) = Blank[i]
    BY <1>1, <2>1
  <2>3. OnChip(<<>>, Blank) = [i \in 1 .. HatCapacity |-> Blank[i]]
    BY <2>2 DEF OnChip
  <2> QED
    BY <1>3, <2>3
<1>8. ASSUME NEW received \in 0 .. HatCapacity, HatVerified(SubSeq(Blank, 1, received)) PROVE FALSE
  <2>1. \A i \in 1 .. received : Blank[i] \in AllCells
    BY <1>1, <1>5, <1>6, LenProperties
  <2>2. Len(SubSeq(Blank, 1, received)) = received /\ \A i \in 1 .. received : SubSeq(Blank, 1, received)[i] = Blank[i]
    BY <1>1, <1>5, <1>6, <2>1, SubSeqProperties
  <2>3. Len(SubSeq(Blank, 1, received)) > 0 /\ SubSeq(Blank, 1, received)[1].k = "eeprom"
    BY <1>8 DEF HatVerified
  <2>4. SubSeq(Blank, 1, received)[1] = Cell("garbage")
    BY <1>1, <1>4, <2>2, <2>3
  <2> QED
    BY <2>3, <2>4 DEF Cell
<1> QED
  BY <1>5, <1>6, <1>7, <1>8

-----------------------------------------------------------------------------
(* The image of a list of atoms, and the one at boot.                       *)

LEMMA ResetIs == IsImage(HatReset, <<>>) /\ FewAtoms(<<>>)
<1> DEFINE s == [n \in 0 .. 0 |-> 2]
<1>1. EepromHeader(0, 1) \in AllCells
  BY DEF EepromHeader, AllCells, PlainCells
<1>2. HatReset \in Seq(AllCells) /\ Len(HatReset) = 1 /\ HatReset[1] = EepromHeader(0, 1)
  <2> HIDE DEF AllCells
  <2> QED
    BY <1>1 DEF HatReset
<1>3. <<>> \in Seq(HatAtom) /\ Len(<<>>) = 0
  OBVIOUS
<1>4. Starts(<<>>, s) /\ s[0] = 2
  BY <1>3 DEF Starts
<1> HIDE DEF s
<1>5. LaidOut(HatReset, <<>>, s)
  BY <1>2, <1>3, <1>4 DEF LaidOut
<1>6. FewAtoms(<<>>)
  BY <1>3 DEF FewAtoms
<1> QED
  BY <1>5, <1>6 DEF IsImage

\* The image that set_atom() leaves, atom by atom, is that of the atoms.
ImageGrows(image, atoms, c) ==
  image = [n \in 0 .. c |->
             IF n = 0 THEN HatReset ELSE SetAtom(image[n - 1], n - 1, atoms[n][1], atoms[n][2])]

LEMMA ImagesExist ==
  ASSUME NEW atoms, NEW c \in Nat
  PROVE  \E image : ImageGrows(image, atoms, c)
<1> DEFINE T == {n \in Nat : ~ \E image : ImageGrows(image, atoms, n)}
<1>1. SUFFICES ASSUME T # {} PROVE FALSE
  OBVIOUS
<1>2. PICK n \in T : \A m \in T : ~(m < n)
  BY <1>1, LeastMember
<1>3. n \in Nat /\ ~ \E image : ImageGrows(image, atoms, n)
  OBVIOUS
<1>4. CASE n = 0
  <2> DEFINE image == [m \in 0 .. n |-> HatReset]
  <2>1. \A m \in 0 .. n : m = 0
    BY <1>4
  <2>2. image = [m \in 0 .. n |->
                   IF m = 0 THEN HatReset ELSE SetAtom(image[m - 1], m - 1, atoms[m][1], atoms[m][2])]
    BY <2>1
  <2> QED
    BY <1>3, <2>2 DEF ImageGrows
<1>5. CASE n # 0
  <2>1. n - 1 \in Nat /\ n - 1 < n
    BY <1>3, <1>5
  <2>2. n - 1 \notin T
    BY <1>2, <2>1
  <2>3. PICK before : ImageGrows(before, atoms, n - 1)
    BY <2>1, <2>2
  <2> HIDE DEF T
  <2> DEFINE last == SetAtom(before[n - 1], n - 1, atoms[n][1], atoms[n][2])
             image == [m \in 0 .. n |-> IF m < n THEN before[m] ELSE last]
             grown(m) == IF m = 0 THEN HatReset ELSE SetAtom(image[m - 1], m - 1, atoms[m][1], atoms[m][2])
  <2>4. ASSUME NEW m \in 0 .. n PROVE image[m] = grown(m)
    <3>1. CASE m = n
      <4>1. n - 1 \in 0 .. n /\ n - 1 < n /\ ~(n < n) /\ n \in 0 .. n
        BY <1>3, <2>1
      <4>2. image[n - 1] = before[n - 1] /\ image[n] = last
        BY <4>1
      <4> HIDE DEF image
      <4> QED
        BY <1>5, <3>1, <4>2
    <3>2. CASE m # n
      <4>1. m \in 0 .. n - 1 /\ m < n /\ (m # 0 => m - 1 \in 0 .. n - 1 /\ m - 1 \in 0 .. n /\ m - 1 < n)
        BY <1>3, <3>2
      <4>2. image[m] = before[m] /\ (m # 0 => image[m - 1] = before[m - 1])
        BY <4>1
      <4>3. before[m] = IF m = 0 THEN HatReset ELSE SetAtom(before[m - 1], m - 1, atoms[m][1], atoms[m][2])
        BY <2>3, <4>1 DEF ImageGrows
      <4> HIDE DEF image
      <4> QED
        BY <4>2, <4>3
    <3> QED
      BY <3>1, <3>2
  <2>5. image = [m \in 0 .. n |-> image[m]]
    OBVIOUS
  <2> HIDE DEF image
  <2>6. image = [m \in 0 .. n |-> grown(m)]
    BY <2>4, <2>5
  <2> QED
    BY <1>3, <2>6 DEF ImageGrows
<1> QED
  BY <1>4, <1>5

LEMMA ImageOfIs ==
  ASSUME NEW atoms \in Seq(HatAtom)
  PROVE  IsImage(ImageOf(atoms), atoms)
<1> DEFINE c == Len(atoms)
           image == CHOOSE f : f = [n \in 0 .. c |->
                      IF n = 0 THEN HatReset ELSE SetAtom(f[n - 1], n - 1, atoms[n][1], atoms[n][2])]
<1>1. c \in Nat /\ \A n \in 1 .. c : atoms[n] \in HatAtom
  BY LenProperties
<1> HIDE DEF c
<1>2. ImageOf(atoms) = image[c]
  BY DEF ImageOf, c
<1>3. ImageGrows(image, atoms, c)
  BY <1>1, ImagesExist DEF ImageGrows
<1> HIDE DEF image
<1>4. \A n \in 0 .. c : image[n] = IF n = 0 THEN HatReset
                                   ELSE SetAtom(image[n - 1], n - 1, atoms[n][1], atoms[n][2])
  BY <1>3 DEF ImageGrows
<1> DEFINE T == {n \in Nat : n <= c /\ ~IsImage(image[n], SubSeq(atoms, 1, n))}
<1>5. T = {}
  <2> SUFFICES ASSUME T # {} PROVE FALSE
    OBVIOUS
  <2>1. PICK n \in T : \A m \in T : ~(m < n)
    BY LeastMember
  <2>2. n \in Nat /\ n <= c /\ n \in 0 .. c /\ ~IsImage(image[n], SubSeq(atoms, 1, n))
    BY <1>1
  <2>3. CASE n = 0
    <3>1. SubSeq(atoms, 1, 0) = <<>>
      OBVIOUS
    <3> QED
      BY <1>4, <2>2, <2>3, <3>1, ResetIs
  <2>4. CASE n # 0
    <3>1. n - 1 \in Nat /\ n - 1 < n /\ n - 1 <= c /\ n \in 1 .. c
      BY <1>1, <2>2, <2>4
    <3>2. IsImage(image[n - 1], SubSeq(atoms, 1, n - 1))
      BY <2>1, <3>1
    <3>3. SubSeq(atoms, 1, n - 1) \in Seq(HatAtom) /\ Len(SubSeq(atoms, 1, n - 1)) = n - 1
      <4>1. \A i \in 1 .. n - 1 : atoms[i] \in HatAtom
        BY <1>1, <3>1
      <4> QED
        BY <1>1, <3>1, <4>1, SubSeqProperties DEF c
    <3>4. atoms[n] = <<atoms[n][1], atoms[n][2]>> /\ atoms[n][1] \in Nat /\ atoms[n][2] \in Seq(Nat)
      BY <3>1, AtomIs DEF c
    <3>5. Append(SubSeq(atoms, 1, n - 1), atoms[n]) = SubSeq(atoms, 1, n)
      BY <1>1, <3>1 DEF c
    <3>6. image[n] = SetAtom(image[n - 1], n - 1, atoms[n][1], atoms[n][2])
      BY <1>4, <2>2, <2>4
    <3> HIDE DEF T
    <3>7. IsImage(image[n], Append(SubSeq(atoms, 1, n - 1), atoms[n]))
      <4>1. IsImage(SetAtom(image[n - 1], Len(SubSeq(atoms, 1, n - 1)), atoms[n][1], atoms[n][2]),
                    Append(SubSeq(atoms, 1, n - 1), <<atoms[n][1], atoms[n][2]>>))
        BY <3>2, <3>4, ImageWithAtom
      <4> QED
        BY <3>3, <3>4, <3>6, <4>1, Zenon
    <3> QED
      BY <2>2, <3>5, <3>7
  <2> QED
    BY <2>3, <2>4
<1>6. IsImage(image[c], SubSeq(atoms, 1, c))
  BY <1>1, <1>5
<1>7. SubSeq(atoms, 1, c) = atoms
  BY <1>1 DEF c
<1> QED
  BY <1>2, <1>6, <1>7

LEMMA NamesAre ==
  /\ VendorNow = <<Vendor, <<7, 7>>>> /\ Vendor \in Nat /\ <<7, 7>> \in Seq(Nat) /\ Len(<<7, 7>>) = 2
  /\ StubNow = <<Custom, <<>>>> /\ Custom \in Nat /\ Other \in Nat /\ <<>> \in Seq(Nat) /\ Len(<<>>) = 0
  /\ \A x \in Nat : <<x>> \in Seq(Nat) /\ Len(<<x>>) = 1
  /\ VendorNow[2] = <<7, 7>> /\ StubNow[2] = <<>> /\ VendorNow[1] = Vendor /\ StubNow[1] = Custom
<1>1. VendorNow = <<Vendor, <<7, 7>>>> /\ Vendor \in Nat /\ VendorNow[2] = <<7, 7>> /\ VendorNow[1] = Vendor
  BY DEF VendorNow, Vendor
<1>2. StubNow = <<Custom, <<>>>> /\ Custom \in Nat /\ Other \in Nat /\ StubNow[2] = <<>> /\ StubNow[1] = Custom
  BY DEF StubNow, Custom, Other
<1>3. /\ <<7, 7>> \in Seq(Nat) /\ Len(<<7, 7>>) = 2 /\ <<>> \in Seq(Nat) /\ Len(<<>>) = 0
  OBVIOUS
<1>4. \A x \in Nat : <<x>> \in Seq(Nat) /\ Len(<<x>>) = 1
  OBVIOUS
<1> QED
  BY <1>1, <1>2, <1>3, <1>4

\* The vendor's atom in its place, and stubs behind it.
LEMMA VendorIs ==
  ASSUME NEW buf, NEW atoms, IsImage(buf, atoms), FewAtoms(atoms)
  PROVE  LET named == IF atoms = <<>> THEN <<VendorNow>> ELSE [atoms EXCEPT ![1] = VendorNow]
         IN IsImage(WithVendor(buf), named) /\ FewAtoms(named) /\ Len(named) \in {1, 3, 4, 5}
            /\ (Len(named) = 1 => named = <<VendorNow>>)
<1> DEFINE named == IF atoms = <<>> THEN <<VendorNow>> ELSE [atoms EXCEPT ![1] = VendorNow]
<1>1. /\ atoms \in Seq(HatAtom) /\ Len(atoms) \in {0, 1, 3, 4, 5}
      /\ WithVendor(buf) = SetAtom(buf, 0, Vendor, <<7, 7>>)
      /\ VendorNow \in HatAtom
  <2>1. WithVendor(buf) = SetAtom(buf, 0, Vendor, <<7, 7>>)
    BY NamesAre DEF WithVendor
  <2>2. VendorNow \in HatAtom
    <3>1. \A x \in Nat, y \in Seq(Nat) : <<x, y>> \in HatAtom
      BY DEF HatAtom
    <3> QED
      BY <3>1, NamesAre, Zenon
  <2> QED
    BY <2>1, <2>2 DEF FewAtoms
<1>2. CASE atoms = <<>>
  <2>1. Len(atoms) = 0 /\ Append(atoms, VendorNow) = <<VendorNow>>
    BY <1>2
  <2>2. IsImage(SetAtom(buf, 0, Vendor, <<7, 7>>), Append(atoms, <<Vendor, <<7, 7>>>>))
    <3>1. IsImage(SetAtom(buf, Len(atoms), Vendor, <<7, 7>>), Append(atoms, <<Vendor, <<7, 7>>>>))
      BY NamesAre, ImageWithAtom
    <3> QED
      BY <2>1, <3>1
  <2>3. named = <<VendorNow>> /\ Append(atoms, <<Vendor, <<7, 7>>>>) = named
    BY <1>2, <2>1, NamesAre
  <2>4. <<VendorNow>> \in Seq(HatAtom) /\ Len(<<VendorNow>>) = 1 /\ <<VendorNow>>[1] = VendorNow
    <3> HIDE DEF HatAtom
    <3> QED
      BY <1>1
  <2>5. IsImage(WithVendor(buf), named)
    BY <1>1, <2>2, <2>3
  <2>6. FewAtoms(named)
    <3> DEFINE one == <<VendorNow>>
    <3>1. one \in Seq(HatAtom) /\ Len(one) = 1 /\ one[1] = VendorNow
      BY <2>4
    <3> HIDE DEF one, HatAtom
    <3>2. Len(VendorNow[2]) = 2
      BY NamesAre
    <3>3. Len(one[1][2]) <= 3
      BY <3>1, <3>2
    <3>4. FewAtoms(one)
      BY <3>1, <3>3 DEF FewAtoms
    <3> QED
      BY <2>3, <3>4 DEF one
  <2> QED
    BY <2>3, <2>4, <2>5, <2>6
<1>3. CASE atoms # <<>>
  <2>1. Len(atoms) \in Nat /\ 1 \in 1 .. Len(atoms) /\ 1 - 1 = 0
    <3>1. Len(atoms) # 0
      BY <1>1, <1>3, EmptySeq
    <3> QED
      BY <1>1, <3>1
  <2>2. IsImage(SetAtom(buf, 0, Vendor, <<7, 7>>), [atoms EXCEPT ![1] = <<Vendor, <<7, 7>>>>])
    <3>1. IsImage(SetAtom(buf, 1 - 1, Vendor, <<7, 7>>), [atoms EXCEPT ![1] = <<Vendor, <<7, 7>>>>])
      BY <2>1, NamesAre, ImageWithAtom
    <3> QED
      BY <2>1, <3>1
  <2>3. named = [atoms EXCEPT ![1] = VendorNow] /\ named = [atoms EXCEPT ![1] = <<Vendor, <<7, 7>>>>]
    BY <1>3, NamesAre
  <2>4. IsImage(WithVendor(buf), named)
    BY <1>1, <2>2, <2>3
  <2>5. /\ named \in Seq(HatAtom) /\ Len(named) = Len(atoms) /\ named[1] = VendorNow
        /\ \A n \in 1 .. Len(atoms) : n # 1 => named[n] = atoms[n]
    <3> HIDE DEF HatAtom
    <3> QED
      BY <1>1, <2>1, <2>3, ExceptSeq
  <2> HIDE DEF named
  <2>6. FewAtoms(named) /\ Len(named) \in {1, 3, 4, 5}
    <3>1. Len(named) \in {1, 3, 4, 5}
      BY <1>1, <2>1, <2>5
    <3>2. Len(named[1][2]) <= 3
      BY <2>5, NamesAre
    <3>3. /\ Len(atoms) >= 3 => named[2] = atoms[2] /\ named[3] = atoms[3]
          /\ Len(atoms) >= 4 => named[4] = atoms[4]
          /\ Len(atoms) >= 5 => named[5] = atoms[5]
      <4>1. \A n \in {2, 3, 4, 5} : Len(atoms) >= n => n \in 1 .. Len(atoms) /\ n # 1
        BY <2>1
      <4> QED
        BY <2>1, <2>5, <4>1
    <3>4. /\ Len(named) >= 3 => Len(named[2][2]) <= 1 /\ Len(named[3][2]) = 0
          /\ Len(named) >= 4 => Len(named[4][2]) <= 2
          /\ Len(named) >= 5 => Len(named[5][2]) <= 1
      BY <2>5, <3>3 DEF FewAtoms
    <3> QED
      BY <2>5, <3>1, <3>2, <3>4 DEF FewAtoms
  <2>7. Len(named) = 1 => named = <<VendorNow>>
    <3>1. ASSUME Len(named) = 1 PROVE named = <<VendorNow>>
      <4>1. named = [i \in 1 .. Len(named) |-> named[i]]
        BY <2>5, LenProperties
      <4>2. named = [i \in 1 .. 1 |-> VendorNow]
        BY <2>5, <3>1, <4>1
      <4> QED
        BY <4>2
    <3> QED
      BY <3>1
  <2> QED
    BY <2>4, <2>6, <2>7 DEF named
<1> QED
  BY <1>2, <1>3

LEMMA StubsAre ==
  ASSUME NEW buf, NEW named, IsImage(buf, named), FewAtoms(named), Len(named) \in {1, 3, 4, 5},
         Len(named) = 1 => named = <<VendorNow>>,
         NEW atoms, atoms = IF Len(named) >= 3 THEN named ELSE SubSeq(named \o <<StubNow, StubNow>>, 1, 3)
  PROVE  IsImage(WithStubs(buf), atoms) /\ FewAtoms(atoms) /\ Len(atoms) >= 3
<1> DEFINE stub(b, pos) == IF AtomCount(b) <= pos THEN SetAtom(b, pos, StubNow[1], StubNow[2]) ELSE b
<1>1. WithStubs(buf) = stub(stub(stub(buf, 0), 1), 2)
  BY DEF WithStubs
<1>2. AtomCount(buf) = Len(named)
  BY ImageReads
<1>3. CASE Len(named) >= 3
  <2>1. ~(Len(named) <= 0) /\ ~(Len(named) <= 1) /\ ~(Len(named) <= 2)
    BY <1>3
  <2>2. WithStubs(buf) = buf
    BY <1>1, <1>2, <2>1
  <2> QED
    BY <1>3, <2>2
<1>4. CASE Len(named) = 1
  <2> DEFINE two == Append(named, StubNow)
             three == Append(two, StubNow)
             b1 == SetAtom(buf, 1, Custom, <<>>)
             b2 == SetAtom(b1, 2, Custom, <<>>)
  <2>1. named = <<VendorNow>> /\ named \in Seq(HatAtom) /\ StubNow \in HatAtom
    BY <1>4, NamesAre DEF FewAtoms, HatAtom
  <2>2. /\ two \in Seq(HatAtom) /\ Len(two) = 2 /\ three \in Seq(HatAtom) /\ Len(three) = 3
        /\ three[1] = VendorNow /\ three[2] = StubNow /\ three[3] = StubNow
    <3> HIDE DEF HatAtom
    <3> QED
      BY <1>4, <2>1
  <2>3. IsImage(b1, two)
    <3>1. IsImage(SetAtom(buf, Len(named), Custom, <<>>), Append(named, <<Custom, <<>>>>))
      BY NamesAre, ImageWithAtom
    <3> QED
      BY <1>4, <3>1, NamesAre
  <2>4. IsImage(b2, three)
    <3> HIDE DEF b1, two
    <3>1. IsImage(SetAtom(b1, Len(two), Custom, <<>>), Append(two, <<Custom, <<>>>>))
      BY <2>3, NamesAre, ImageWithAtom
    <3> QED
      BY <2>2, <3>1, NamesAre
  <2>5. AtomCount(buf) = 1 /\ AtomCount(b1) = 2
    BY <1>2, <1>4, <2>2, <2>3, ImageReads
  <2>6. stub(buf, 0) = buf /\ stub(buf, 1) = b1 /\ stub(b1, 2) = b2
    <3>1. ~(1 <= 0) /\ 1 <= 1 /\ 2 <= 2
      OBVIOUS
    <3> QED
      BY <2>5, <3>1, NamesAre
  <2>7. WithStubs(buf) = b2
    <3> HIDE DEF stub, b1, b2
    <3> QED
      BY <1>1, <2>6
  <2>8. atoms = three
    <3>1. ~(Len(named) >= 3)
      BY <1>4
    <3> DEFINE stubs == <<StubNow, StubNow>>
               all == named \o stubs
    <3>2. atoms = SubSeq(all, 1, 3)
      BY <3>1, Zenon
    <3>3. /\ stubs \in Seq(HatAtom) /\ Len(stubs) = 2 /\ stubs[1] = StubNow /\ stubs[2] = StubNow
          /\ named[1] = VendorNow
      <4> HIDE DEF HatAtom
      <4> QED
        BY <2>1
    <3> HIDE DEF stubs, three, two, HatAtom
    <3>4. /\ all \in Seq(HatAtom) /\ Len(all) = 3
          /\ \A i \in 1 .. 3 : all[i] = IF i <= 1 THEN named[i] ELSE stubs[i - 1]
      BY <1>4, <2>1, <3>3, ConcatProperties
    <3> HIDE DEF all
    <3>5. SubSeq(all, 1, 3) \in Seq(HatAtom) /\ Len(SubSeq(all, 1, 3)) = 3
          /\ \A i \in 1 .. 3 : SubSeq(all, 1, 3)[i] = all[i]
      <4>1. \A i \in 1 .. 3 : all[i] \in HatAtom
        BY <3>4, LenProperties
      <4> QED
        BY <3>4, <4>1, SubSeqProperties
    <3>6. \A i \in 1 .. 3 : SubSeq(all, 1, 3)[i] = three[i]
      <4>1. \A i \in 1 .. 3 : i = 1 \/ i = 2 \/ i = 3
        OBVIOUS
      <4> QED
        BY <2>2, <3>3, <3>4, <3>5, <4>1
    <3> QED
      BY <2>2, <3>2, <3>5, <3>6, SeqEqual
  <2>9. FewAtoms(three)
    BY <2>2, NamesAre DEF FewAtoms
  <2> HIDE DEF three, b2, two
  <2>10. IsImage(WithStubs(buf), atoms)
    BY <2>4, <2>7, <2>8, Zenon
  <2>11. FewAtoms(atoms) /\ Len(atoms) >= 3
    <3>1. Len(three) >= 3
      BY <2>2
    <3> QED
      BY <2>8, <2>9, <3>1, Zenon
  <2> QED
    BY <2>10, <2>11
<1>5. Len(named) >= 3 \/ Len(named) = 1
  <2>1. Len(named) = 1 \/ Len(named) = 3 \/ Len(named) = 4 \/ Len(named) = 5
    BY Zenon
  <2>2. 3 >= 3 /\ 4 >= 3 /\ 5 >= 3
    OBVIOUS
  <2> QED
    BY <2>1, <2>2, Zenon
<1> HIDE DEF stub
<1> QED
  BY <1>3, <1>4, <1>5

\* What the board starts from is the image of its atoms, whatever the chip gave.
LEMMA StartedIs ==
  ASSUME HatAssumption, NEW chip, NEW atoms, NEW received \in 0 .. HatCapacity,
         Len(chip) = HatCapacity, FewAtoms(atoms),
         (chip = Blank /\ atoms = <<>>) \/ IsImage(chip, atoms)
  PROVE  LET start == Started(chip, atoms, received)
         IN /\ IsImage(start.buf, start.atoms) /\ FewAtoms(start.atoms) /\ Len(start.atoms) >= 3
            /\ start.size = received
<1> DEFINE read == SubSeq(chip, 1, received)
           intact == HatVerified(read)
           from == IF intact THEN read ELSE HatReset
           held == IF intact THEN atoms ELSE <<>>
           start == Started(chip, atoms, received)
<1>1. IsImage(from, held) /\ FewAtoms(held)
  <2>1. CASE intact
    <3>1. IsImage(chip, atoms)
      BY <2>1, BlankIs
    <3>2. IsImage(read, atoms)
      BY <2>1, <3>1, ReadIsImage
    <3> QED
      BY <2>1, <3>2
  <2>2. CASE ~intact
    BY <2>2, ResetIs
  <2> QED
    BY <2>1, <2>2
<1>2. start.buf = WithStubs(WithVendor(from)) /\ start.atoms = AtomsAtBoot(held) /\ start.size = received
  BY DEF Started
<1> HIDE DEF from, held, start
<1> DEFINE named == IF held = <<>> THEN <<VendorNow>> ELSE [held EXCEPT ![1] = VendorNow]
<1>3. /\ IsImage(WithVendor(from), named) /\ FewAtoms(named) /\ Len(named) \in {1, 3, 4, 5}
      /\ (Len(named) = 1 => named = <<VendorNow>>)
  BY <1>1, VendorIs
<1>4. AtomsAtBoot(held) = IF Len(named) >= 3 THEN named ELSE SubSeq(named \o <<StubNow, StubNow>>, 1, 3)
  BY DEF AtomsAtBoot
<1> HIDE DEF named
<1>5. IsImage(WithStubs(WithVendor(from)), AtomsAtBoot(held)) /\ FewAtoms(AtomsAtBoot(held))
      /\ Len(AtomsAtBoot(held)) >= 3
  BY <1>3, <1>4, StubsAre
<1> QED
  BY <1>2, <1>5 DEF start

-----------------------------------------------------------------------------
(* The image is readable.                                                   *)

\* What the chip may hold at first.
LEMMA FirstAtomsAre ==
  ASSUME NEW atoms \in FirstAtoms
  PROVE  FewAtoms(atoms)
<1> DEFINE D == {<<8>>, <<8, 8, 8>>}
           R == {<<>>, <<<<Custom, <<6>>>>, <<Other, <<9>>>>>>}
<1>0. \A x \in Nat, y \in Seq(Nat) : <<x, y>> \in HatAtom
  BY DEF HatAtom
<1>1. CASE atoms = <<>>
  BY <1>1, ResetIs
<1>2. CASE atoms = <<VendorNow>>
  <2>1. VendorNow \in HatAtom
    BY <1>0, NamesAre, Zenon
  <2>2. atoms \in Seq(HatAtom) /\ Len(atoms) = 1 /\ atoms[1] = VendorNow
    <3> HIDE DEF HatAtom
    <3> QED
      BY <1>2, <2>1
  <2> QED
    BY <2>2, NamesAre DEF FewAtoms
<1>3. ASSUME NEW d \in D, NEW rest \in R,
             atoms = OtherFirmware(d, rest)
      PROVE  FewAtoms(atoms)
  <2> DEFINE a1 == <<Vendor, d>>
             a2 == <<Other, <<5>>>>
             a4 == <<Custom, <<6>>>>
             a5 == <<Other, <<9>>>>
  <2>1. d \in Seq(Nat) /\ Len(d) <= 3 /\ <<5>> \in Seq(Nat) /\ Len(<<5>>) = 1
        /\ <<6>> \in Seq(Nat) /\ Len(<<6>>) = 1 /\ <<9>> \in Seq(Nat) /\ Len(<<9>>) = 1
    <3>1. /\ <<8>> \in Seq(Nat) /\ Len(<<8>>) <= 3
          /\ <<8, 8, 8>> \in Seq(Nat) /\ Len(<<8, 8, 8>>) <= 3
      OBVIOUS
    <3>2. d \in Seq(Nat) /\ Len(d) <= 3
      <4>1. d = <<8>> \/ d = <<8, 8, 8>>
        OBVIOUS
      <4> QED
        BY <3>1, <4>1, Zenon
    <3>3. /\ <<5>> \in Seq(Nat) /\ Len(<<5>>) = 1
          /\ <<6>> \in Seq(Nat) /\ Len(<<6>>) = 1 /\ <<9>> \in Seq(Nat) /\ Len(<<9>>) = 1
      BY NamesAre
    <3> QED
      BY <3>2, <3>3
  <2>2. a1 \in HatAtom /\ a2 \in HatAtom /\ StubNow \in HatAtom /\ a4 \in HatAtom /\ a5 \in HatAtom
    BY <1>0, <2>1, NamesAre, Zenon
  <2>3. a1[2] = d /\ a2[2] = <<5>> /\ a4[2] = <<6>> /\ a5[2] = <<9>>
    OBVIOUS
  <2> DEFINE first == <<a1, a2, StubNow>>
             both == <<a4, a5>>
  <2>4. atoms = first \o rest /\ (rest = <<>> \/ rest = both)
    BY <1>3 DEF OtherFirmware
  <2> HIDE DEF a1, a2, a4, a5, HatAtom
  <2>5. /\ first \in Seq(HatAtom) /\ Len(first) = 3 /\ first[1] = a1 /\ first[2] = a2 /\ first[3] = StubNow
        /\ both \in Seq(HatAtom) /\ Len(both) = 2 /\ both[1] = a4 /\ both[2] = a5
    BY <2>2
  <2> HIDE DEF first, both
  <2>6. rest \in Seq(HatAtom) /\ Len(rest) \in {0, 2}
    <3>1. <<>> \in Seq(HatAtom) /\ Len(<<>>) = 0
      OBVIOUS
    <3> QED
      BY <2>4, <2>5, <3>1
  <2>7. /\ atoms \in Seq(HatAtom) /\ Len(atoms) = 3 + Len(rest)
        /\ \A i \in 1 .. 3 + Len(rest) : atoms[i] = IF i <= 3 THEN first[i] ELSE rest[i - 3]
    <3>1. /\ first \o rest \in Seq(HatAtom) /\ Len(first \o rest) = Len(first) + Len(rest)
          /\ \A i \in 1 .. Len(first) + Len(rest) : (first \o rest)[i] =
                IF i <= Len(first) THEN first[i] ELSE rest[i - Len(first)]
      BY <2>5, <2>6, ConcatProperties
    <3>2. atoms = first \o rest /\ Len(first) = 3
      BY <2>4, <2>5, Zenon
    <3> QED
      BY <3>1, <3>2, Zenon
  <2>8. atoms[1] = a1 /\ atoms[2] = a2 /\ atoms[3] = StubNow /\ Len(atoms) \in {3, 5}
    <3>1. Len(atoms) \in {3, 5}
      <4>1. Len(rest) = 0 \/ Len(rest) = 2
        BY <2>6
      <4>2. 3 + 0 = 3 /\ 3 + 2 = 5
        OBVIOUS
      <4> QED
        BY <2>7, <4>1, <4>2, Zenon
    <3>2. /\ 1 \in 1 .. 3 + Len(rest) /\ 2 \in 1 .. 3 + Len(rest) /\ 3 \in 1 .. 3 + Len(rest)
          /\ 1 <= 3 /\ 2 <= 3 /\ 3 <= 3
      BY <2>6
    <3>3. atoms[1] = first[1] /\ atoms[2] = first[2] /\ atoms[3] = first[3]
      BY <2>7, <3>2, Zenon
    <3> QED
      BY <2>5, <3>1, <3>3
  <2>9. Len(atoms) >= 4 => Len(atoms) = 5 /\ atoms[4] = a4 /\ atoms[5] = a5
    <3>1. CASE Len(rest) = 0
      BY <2>7, <3>1
    <3>2. CASE Len(rest) = 2
      <4>1. rest = both
        <5>1. Len(<<>>) = 0
          OBVIOUS
        <5> QED
          BY <2>4, <3>2, <5>1
      <4>2. 4 \in 1 .. 3 + Len(rest) /\ 5 \in 1 .. 3 + Len(rest) /\ ~(4 <= 3) /\ ~(5 <= 3) /\ 4 - 3 = 1 /\ 5 - 3 = 2
        BY <3>2
      <4> QED
        BY <2>5, <2>7, <3>2, <4>1, <4>2
    <3> QED
      BY <2>6, <3>1, <3>2
  <2>10. /\ Len(atoms[1][2]) <= 3 /\ Len(atoms[2][2]) <= 1 /\ Len(atoms[3][2]) = 0
         /\ Len(atoms) >= 4 => Len(atoms[4][2]) <= 2 /\ Len(atoms[5][2]) <= 1
    <3>1. Len(a1[2]) <= 3 /\ Len(a2[2]) <= 1 /\ Len(a4[2]) <= 2 /\ Len(a5[2]) <= 1 /\ Len(StubNow[2]) = 0
      BY <2>1, <2>3, NamesAre
    <3> QED
      BY <2>8, <2>9, <3>1
  <2>11. Len(atoms) \in {0, 1, 3, 4, 5} /\ (Len(atoms) >= 5 => Len(atoms) >= 4)
    BY <2>8
  <2> QED
    BY <2>7, <2>10, <2>11 DEF FewAtoms
<1>4. \/ atoms = <<>> \/ atoms = <<VendorNow>>
      \/ \E d \in D, rest \in R :
           atoms = OtherFirmware(d, rest)
  BY SMT DEF FirstAtoms
<1> QED
  BY <1>1, <1>2, <1>3, <1>4

LEMMA ImagesAtFirst ==
  ASSUME HatAssumption, RoomEnough, HatInit
  PROVE  HatInv
<1>1. PICK atoms \in FirstAtoms, damaged \in BOOLEAN :
        /\ hatChip = OnChip(IF damaged THEN <<>> ELSE ImageOf(atoms), Blank)
        /\ hatChipAtoms = IF damaged THEN <<>> ELSE atoms
  BY DEF HatInit
<1>2. HatCapacity \in Nat /\ HatCapacity \in 0 .. HatCapacity
  BY DEF HatAssumption
<1>3. /\ hatChip \in Seq(AllCells) /\ Len(hatChip) = HatCapacity /\ FewAtoms(hatChipAtoms)
      /\ (hatChip = Blank /\ hatChipAtoms = <<>>) \/ IsImage(hatChip, hatChipAtoms)
  <2>1. CASE damaged
    <3>1. hatChip = Blank /\ hatChipAtoms = <<>>
      BY <1>1, <2>1, BlankIs
    <3> QED
      BY <3>1, BlankIs, ResetIs
  <2>2. CASE ~damaged
    <3>1. hatChip = OnChip(ImageOf(atoms), Blank) /\ hatChipAtoms = atoms
      BY <1>1, <2>2, Zenon
    <3>2. FewAtoms(atoms) /\ atoms \in Seq(HatAtom)
      BY FirstAtomsAre DEF FewAtoms
    <3>3. IsImage(ImageOf(atoms), atoms)
      BY <3>2, ImageOfIs
    <3> QED
      BY <3>1, <3>2, <3>3, BlankIs, OnChipReads
  <2> QED
    BY <2>1, <2>2
<1> DEFINE start == Started(hatChip, hatChipAtoms, HatCapacity)
<1>4. hatBuf = start.buf /\ hatAtoms = start.atoms /\ hatMemSize = start.size
  BY DEF HatInit
<1>5. /\ IsImage(start.buf, start.atoms) /\ FewAtoms(start.atoms) /\ Len(start.atoms) >= 3
      /\ start.size = HatCapacity
  BY <1>2, <1>3, StartedIs
<1> HIDE DEF start
<1>6. ImagesHeld
  BY <1>3, <1>4, <1>5 DEF ImagesHeld
<1>7. InSequence
  <2>1. hatState = "halted" /\ hatIndex = 0 /\ hatLoaded = -1 /\ hatNack = FALSE /\ hatExpected = -1
    BY DEF HatInit
  <2>2. ~hatNack /\ hatNack \in BOOLEAN
    BY <2>1, Zenon
  <2> QED
    BY <1>2, <1>4, <1>5, <2>1, <2>2 DEF InSequence
<1> QED
  BY <1>6, <1>7 DEF HatInv

LEMMA ImagesAfterStart ==
  ASSUME HatAssumption, RoomEnough, HatInv, HatStart
  PROVE  HatInv'
<1>1. PICK received \in {0, 3, HatCapacity} :
        LET start == Started(hatChip, hatChipAtoms, received)
        IN hatBuf' = start.buf /\ hatAtoms' = start.atoms /\ hatMemSize' = start.size
  BY DEF HatStart
<1>2. received \in 0 .. HatCapacity
  BY DEF HatAssumption, RoomEnough
<1>3. /\ hatChip \in Seq(AllCells) /\ Len(hatChip) = HatCapacity /\ FewAtoms(hatChipAtoms)
      /\ (hatChip = Blank /\ hatChipAtoms = <<>>) \/ IsImage(hatChip, hatChipAtoms)
  BY DEF HatInv, ImagesHeld
<1> DEFINE start == Started(hatChip, hatChipAtoms, received)
<1>4. hatBuf' = start.buf /\ hatAtoms' = start.atoms /\ hatMemSize' = start.size
  BY <1>1
<1>5. /\ IsImage(start.buf, start.atoms) /\ FewAtoms(start.atoms) /\ Len(start.atoms) >= 3
      /\ start.size = received
  BY <1>2, <1>3, StartedIs
<1> HIDE DEF start
<1>6. UNCHANGED <<hatChip, hatChipAtoms>>
  BY DEF HatStart
<1>7. ImagesHeld'
  BY <1>3, <1>4, <1>5, <1>6 DEF ImagesHeld, Blank
<1>8. InSequence'
  <2>1. hatState' = "halted" /\ hatIndex' = 0 /\ hatLoaded' = -1 /\ hatNack' = FALSE /\ hatExpected' = -1
    BY DEF HatStart
  <2>2. ~hatNack' /\ hatNack' \in BOOLEAN
    BY <2>1, Zenon
  <2> QED
    BY <1>2, <1>4, <1>5, <2>1, <2>2 DEF InSequence
<1> QED
  BY <1>7, <1>8 DEF HatInv

LEMMA ImagesAfterCalibrate ==
  ASSUME HatAssumption, RoomEnough, HatInv, HatCalibrate
  PROVE  HatInv'
<1>1. PICK value \in HatValues, stored \in BOOLEAN :
        LET data  == <<value, value>>
            image == SetAtom(hatBuf, 3, Custom, data)
            atom  == <<Custom, data>>
        IN /\ hatBuf' = image
           /\ hatAtoms' = IF Len(hatAtoms) = 3 THEN Append(hatAtoms, atom) ELSE [hatAtoms EXCEPT ![4] = atom]
           /\ IF stored THEN hatChip' = OnChip(image, hatChip) /\ hatChipAtoms' = hatAtoms'
                        ELSE UNCHANGED <<hatChip, hatChipAtoms>>
           /\ UNCHANGED <<hatMemSize, slaveVars>>
  BY DEF HatCalibrate
<1> DEFINE data == <<value, value>>
           atom == <<Custom, data>>
<1>2. value \in Nat /\ data \in Seq(Nat) /\ Len(data) = 2 /\ Custom \in Nat /\ atom[2] = data
  <2>1. value \in Nat
    BY DEF HatAssumption
  <2> QED
    BY <2>1, NamesAre
<1>3. atom \in HatAtom
  BY <1>2 DEF HatAtom
<1>4. hatBuf' = SetAtom(hatBuf, 3, Custom, data)
  BY <1>1
<1>5. hatAtoms' = IF Len(hatAtoms) = 3 THEN Append(hatAtoms, atom) ELSE [hatAtoms EXCEPT ![4] = atom]
  BY <1>1
<1>6. /\ IsImage(hatBuf, hatAtoms) /\ FewAtoms(hatAtoms) /\ Len(hatAtoms) >= 3
      /\ hatAtoms \in Seq(HatAtom) /\ Len(hatAtoms) \in {3, 4, 5}
  BY DEF HatInv, ImagesHeld, FewAtoms
<1> HIDE DEF atom, data, HatAtom
<1>7. /\ IsImage(hatBuf', hatAtoms') /\ FewAtoms(hatAtoms') /\ Len(hatAtoms') >= 3
  <2>1. CASE Len(hatAtoms) = 3
    <3>1. hatAtoms' = Append(hatAtoms, atom)
      BY <1>5, <2>1
    <3>2. IsImage(SetAtom(hatBuf, Len(hatAtoms), Custom, data), Append(hatAtoms, <<Custom, data>>))
      BY <1>2, <1>6, ImageWithAtom
    <3>3. IsImage(hatBuf', hatAtoms')
      BY <1>4, <2>1, <3>1, <3>2 DEF atom
    <3>4. /\ hatAtoms' \in Seq(HatAtom) /\ Len(hatAtoms') = 4 /\ hatAtoms'[4] = atom
          /\ hatAtoms'[1] = hatAtoms[1] /\ hatAtoms'[2] = hatAtoms[2] /\ hatAtoms'[3] = hatAtoms[3]
      <4>1. /\ hatAtoms' \in Seq(HatAtom) /\ Len(hatAtoms') = Len(hatAtoms) + 1
            /\ \A i \in 1 .. Len(hatAtoms) : hatAtoms'[i] = hatAtoms[i]
            /\ hatAtoms'[Len(hatAtoms) + 1] = atom
        BY <1>3, <1>6, <3>1, AppendProperties
      <4>2. Len(hatAtoms) + 1 = 4 /\ \A i \in {1, 2, 3} : i \in 1 .. Len(hatAtoms)
        BY <2>1
      <4> QED
        BY <4>1, <4>2
    <3>5. FewAtoms(hatAtoms')
      <4>1. Len(hatAtoms'[4][2]) <= 2
        <5>1. Len(hatAtoms'[4][2]) = 2
          BY <1>2, <3>4, Zenon
        <5> QED
          BY <5>1
      <4> QED
        BY <1>6, <3>4, <4>1 DEF FewAtoms
    <3> QED
      BY <3>3, <3>4, <3>5
  <2>2. CASE Len(hatAtoms) # 3
    <3>1. hatAtoms' = [hatAtoms EXCEPT ![4] = atom] /\ 4 \in 1 .. Len(hatAtoms) /\ 4 - 1 = 3
      BY <1>5, <1>6, <2>2
    <3>2. IsImage(SetAtom(hatBuf, 4 - 1, Custom, data), [hatAtoms EXCEPT ![4] = <<Custom, data>>])
      BY <1>2, <1>6, <3>1, ImageWithAtom
    <3>3. IsImage(hatBuf', hatAtoms')
      BY <1>4, <3>1, <3>2 DEF atom
    <3>4. /\ hatAtoms' \in Seq(HatAtom) /\ Len(hatAtoms') = Len(hatAtoms) /\ hatAtoms'[4] = atom
          /\ \A n \in 1 .. Len(hatAtoms) : n # 4 => hatAtoms'[n] = hatAtoms[n]
      BY <1>3, <1>6, <3>1, ExceptSeq
    <3>5. /\ hatAtoms'[1] = hatAtoms[1] /\ hatAtoms'[2] = hatAtoms[2] /\ hatAtoms'[3] = hatAtoms[3]
          /\ Len(hatAtoms) >= 5 => hatAtoms'[5] = hatAtoms[5]
      BY <1>6, <3>4
    <3>6. FewAtoms(hatAtoms')
      <4>1. Len(hatAtoms'[4][2]) <= 2
        <5>1. Len(hatAtoms'[4][2]) = 2
          BY <1>2, <3>4, Zenon
        <5> QED
          BY <5>1
      <4>2. Len(hatAtoms') \in {0, 1, 3, 4, 5} /\ Len(hatAtoms') >= 3
        BY <1>6, <3>4
      <4>3. /\ Len(hatAtoms'[1][2]) <= 3 /\ Len(hatAtoms'[2][2]) <= 1 /\ Len(hatAtoms'[3][2]) = 0
            /\ Len(hatAtoms') >= 5 => Len(hatAtoms'[5][2]) <= 1
        BY <1>6, <3>4, <3>5 DEF FewAtoms
      <4> QED
        BY <3>4, <4>1, <4>2, <4>3 DEF FewAtoms
    <3> QED
      BY <1>6, <3>3, <3>4, <3>6
  <2> QED
    BY <2>1, <2>2
<1>8. /\ hatChip' \in Seq(AllCells) /\ Len(hatChip') = HatCapacity /\ FewAtoms(hatChipAtoms')
      /\ (hatChip' = Blank /\ hatChipAtoms' = <<>>) \/ IsImage(hatChip', hatChipAtoms')
  <2>0. /\ hatChip \in Seq(AllCells) /\ Len(hatChip) = HatCapacity /\ FewAtoms(hatChipAtoms)
        /\ (hatChip = Blank /\ hatChipAtoms = <<>>) \/ IsImage(hatChip, hatChipAtoms)
    BY DEF HatInv, ImagesHeld
  <2>1. CASE stored
    <3>1. hatChip' = OnChip(hatBuf', hatChip) /\ hatChipAtoms' = hatAtoms'
      BY <1>1, <2>1
    <3> QED
      BY <1>7, <2>0, <3>1, OnChipReads
  <2>2. CASE ~stored
    BY <1>1, <2>0, <2>2
  <2> QED
    BY <2>1, <2>2
<1>9. ImagesHeld'
  BY <1>7, <1>8 DEF ImagesHeld, Blank
<1>10. InSequence'
  <2>1. UNCHANGED <<hatMemSize, hatState, hatIndex, hatLoaded, hatNack, hatExpected>>
    BY <1>1 DEF slaveVars
  <2> QED
    BY <2>1 DEF HatInv, InSequence, Served
<1> QED
  BY <1>9, <1>10 DEF HatInv

LEMMA HatInvReads ==
  ASSUME HatInv
  PROVE  ImageReadable
<1>1. IsImage(hatBuf, hatAtoms)
  BY DEF HatInv, ImagesHeld
<1>2. hatChipAtoms # <<>> => IsImage(hatChip, hatChipAtoms)
  BY DEF HatInv, ImagesHeld
<1>3. ImageIsItsAtoms
  <2>1. /\ HatVerified(hatBuf) /\ [i \in 1 .. AtomCount(hatBuf) |-> GetAtom(hatBuf, i - 1)] = hatAtoms
        /\ ImageLength(hatBuf) = AtomStart(hatBuf, AtomCount(hatBuf)) - 1
    BY <1>1, ImageReads
  <2>2. hatChipAtoms # <<>> =>
          HatVerified(hatChip) /\ [i \in 1 .. AtomCount(hatChip) |-> GetAtom(hatChip, i - 1)] = hatChipAtoms
    BY <1>2, ImageReads
  <2> QED
    BY <2>1, <2>2 DEF ImageIsItsAtoms
<1>4. ReadsInSequence
  BY DEF HatInv, InSequence, Served, ReadsInSequence
<1> QED
  BY <1>3, <1>4 DEF ImageReadable

\* Whatever the calibration values and the addresses, on any chip with room for
\* the atoms of the code: the image stays the list of atoms it is meant to be, in
\* RAM and on the chip, through starts and changes, and the Pi reads in sequence.
THEOREM ImageStaysReadable ==
  ASSUME HatAssumption, RoomEnough
  PROVE  HatSpec => []ImageReadable
<1>1. HatInit => HatInv
  BY ImagesAtFirst
<1>2. HatInv /\ [HatNext]_hatVars => HatInv'
  <2> SUFFICES ASSUME HatInv, [HatNext]_hatVars PROVE HatInv'
    OBVIOUS
  <2>1. CASE HatStart
    BY <2>1, ImagesAfterStart
  <2>2. CASE HatCalibrate
    BY <2>2, ImagesAfterCalibrate
  <2>3. CASE HatAddressed \/ HatAddressByte \/ HatReadByte \/ HatByteTaken \/ HatStop
    <3>1. UNCHANGED imageVars
      BY <2>3 DEF HatAddressed, HatAddressByte, HatReadByte, HatByteTaken, HatStop, Slave
    <3>2. ImagesHeld'
      BY <3>1 DEF imageVars, HatInv, ImagesHeld, Blank
    <3>3. InSequence'
      BY <2>3, SlaveKeeps DEF HatInv
    <3> QED
      BY <3>2, <3>3 DEF HatInv
  <2>4. CASE UNCHANGED hatVars
    BY <2>4 DEF hatVars, imageVars, slaveVars, HatInv, ImagesHeld, Blank, InSequence, Served
  <2> QED
    BY <2>1, <2>2, <2>3, <2>4 DEF HatNext
<1>3. HatInv => ImageReadable
  BY HatInvReads
<1> QED
  BY <1>1, <1>2, <1>3, PTL DEF HatSpec
=============================================================================
