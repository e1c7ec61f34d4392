---------------------------------- MODULE Led ----------------------------------
(***************************************************************************)
(* One LED of the four with the channel of the view that owns it           *)
(* (led/nodeLED.cpp, CViewChannel and CView in control/View.cpp): the      *)
(* views switch it on, colour it and let it blink, the data colour it      *)
(* while no menu is open, and the main loop counts the flashes.            *)
(*                                                                         *)
(* Time counts in units of 100 ms, one turn of the main loop each.  When   *)
(* which view is shown is in Panel; here any may follow any.               *)
(***************************************************************************)
EXTENDS Integers

CONSTANT LedColours      \* colours a view or the data may choose, besides 0 (dark)

LedAssumption == LedColours \subseteq Nat \ {0} /\ LedColours # {}

VARIABLES
  led,          \* the CLED: on, blinking, period, colour, since (m_LastTimeUpd),
                \*   phase, count, limit, and the pixel it has sent
  ledVis,       \* m_VisMode
  ledData,      \* m_LastBackgroundCol
  ledFlashes,   \* history: flashes since it last began to blink
  ledPainted    \* history: a channel colour stands over the data

ledChannelVars == <<ledVis, ledData>>
ledVars == <<led, ledChannelVars, ledFlashes, ledPainted>>

\* nodeLED::init() has switched all LEDs off.
LedInit ==
  /\ led = [on |-> FALSE, blinking |-> FALSE, period |-> 4, colour |-> 0, since |-> 0,
            phase |-> FALSE, count |-> 0, limit |-> 0, pixel |-> 0]
  /\ ledVis = "background" /\ ledData = 0 /\ ledFlashes = 0 /\ ledPainted = TRUE

-----------------------------------------------------------------------------
\* CLED
BugOn(l, how) == [l EXCEPT !.on = how, !.count = 0, !.since = IF how THEN 0 ELSE @,
                           !.pixel = IF how THEN l.colour ELSE 0]

On(l, how) == [l EXCEPT !.on = how, !.count = 0, !.since = IF how THEN 0 ELSE @,
                        !.phase = how \/ @, !.pixel = IF how THEN l.colour ELSE 0]

LedColour(l, colour) ==
  [l EXCEPT !.colour = colour, !.pixel = IF l.on /\ (l.blinking => l.phase) THEN colour ELSE @]

BlinkMode(l, how) == [l EXCEPT !.blinking = how]

PeriodAndCount(l, period, limit) == [l EXCEPT !.period = period, !.limit = limit]

\* Update(), one unit later: every period the phase turns; a flash that is one
\* too many switches the LED off.
Update(l) ==
  LET turned == [l EXCEPT !.since = 0, !.phase = ~@]
      counts == l.limit > 0 /\ turned.phase
      next   == [turned EXCEPT !.count = IF counts THEN @ + 1 ELSE @]
  IN IF l.since + 1 < l.period THEN [l EXCEPT !.since = @ + 1]
     ELSE IF ~l.on \/ ~l.blinking THEN [l EXCEPT !.since = 0]
     ELSE IF counts /\ next.count >= l.limit THEN On(next, FALSE)
     ELSE [next EXCEPT !.pixel = IF next.phase THEN l.colour ELSE 0]

\* CViewChannel::SelectVisMode()
SelectVisMode(l, vis) ==
  On(LedColour(BlinkMode(l, FALSE), IF vis = "background" THEN ledData ELSE 0), TRUE)

-----------------------------------------------------------------------------
\* BlinkAtStart(), SetRecordMarker(), ResetSettings(): blinkMultipleLED().
LedBlink ==
  \E colour \in LedColours, times \in {1, 2}:
    /\ led' = On(BlinkMode(LedColour(PeriodAndCount(SelectVisMode(led, "UI"), 3, times), colour), TRUE), TRUE)
    /\ ledVis' = "UI" /\ ledFlashes' = 1 /\ ledPainted' = FALSE /\ UNCHANGED ledData

\* SelectMenuPrevew(), SelectMenu(): out of its range a LED is dark; ApplyMenu().
LedShow ==
  \E colour \in LedColours \cup {0}, how \in BOOLEAN, times \in {0, 2}:
    /\ times = 2 => how
    /\ led' = On(PeriodAndCount(BlinkMode(LedColour(SelectVisMode(led, "UI"), colour), how),
                                IF times = 2 THEN 1 ELSE 5, times), TRUE)
    /\ ledVis' = "UI" /\ ledFlashes' = 1 /\ ledPainted' = FALSE /\ UNCHANGED ledData

\* SetZeroSearchingMark()
LedSearching ==
  \E colour \in LedColours:
    /\ ledVis = "UI"
    /\ led' = On(LedColour(PeriodAndCount(BlinkMode(led, TRUE), 1, 0), colour), TRUE)
    /\ ledFlashes' = 1 /\ UNCHANGED <<ledVis, ledData, ledPainted>>

\* SetZeroFoundMark(), SetZeroSearchErrorMark()
LedSearched ==
  \E colour \in LedColours:
    /\ ledVis = "UI"
    /\ led' = LedColour(BlinkMode(led, FALSE), colour)
    /\ UNCHANGED <<ledVis, ledData, ledFlashes, ledPainted>>

\* ZeroSearchCompleted()
LedSearchCompleted ==
  /\ led' = On(BlinkMode(led, FALSE), TRUE)
  /\ UNCHANGED <<ledVis, ledData, ledFlashes, ledPainted>>

\* ExitMenu()
LedExitMenu ==
  /\ led' = SelectVisMode(led, "background")
  /\ ledVis' = "background" /\ ledPainted' = FALSE /\ UNCHANGED <<ledData, ledFlashes>>

\* SetSensorIntensity(), from the data of the channel.  A LED that a channel
\* colour of 0 has switched off stays off.
LedSensor ==
  \E colour \in LedColours \cup {0}:
    /\ ledData' = colour
    /\ IF ledVis = "background"
       THEN led' = LedColour(led, colour) /\ ledPainted' = (ledPainted /\ ~led.on)
       ELSE UNCHANGED <<led, ledPainted>>
    /\ UNCHANGED <<ledVis, ledFlashes>>

\* CViewChannel::SetColor(), the setting channelNColor.
LedPaint ==
  \E colour \in LedColours \cup {0}:
    /\ led' = On(LedColour(BlinkMode(led, FALSE), colour), colour # 0)
    /\ ledPainted' = TRUE /\ UNCHANGED <<ledVis, ledData, ledFlashes>>

\* nodeLED::Update(), one unit of time later.
LedTurn ==
  /\ led' = Update(led)
  /\ ledFlashes' = IF led.phase = led'.phase \/ ~led'.phase \/ ~led'.on THEN ledFlashes ELSE ledFlashes + 1
  /\ ledFlashes' <= 3            \* bound: flashes counted, with no limit there is no end
  /\ UNCHANGED <<ledVis, ledData, ledPainted>>

LedNext == LedBlink \/ LedShow \/ LedSearching \/ LedSearched \/ LedSearchCompleted \/ LedExitMenu
             \/ LedSensor \/ LedPaint \/ LedTurn

LedSpec == LedInit /\ [][LedNext]_ledVars

-----------------------------------------------------------------------------
\* Safety: the LED shows what its state says and what its view is about.
\* Whatever the order of views, data and flashes: it is lit in its colour when
\* it is on and not in the dark half of a flash, and dark otherwise; with no menu
\* open it does not blink and has the colour of the data, unless a channel
\* colour stands over it. (Each operation sends the pixel itself, or forgets to.)
LedShowsState ==
  /\ led.pixel = IF led.on /\ (led.blinking => led.phase) THEN led.colour ELSE 0
  /\ ledVis = "background" /\ ~ledPainted => led.on /\ ~led.blinking /\ led.pixel = ledData

\* Safety: a LED told to flash n times flashes n times: never more, and when it
\* goes out by itself not fewer (CLED::Blink(), "limited number of blink times").
FlashesAreCounted ==
  led.blinking /\ led.limit > 0 =>
    IF led.on THEN ledFlashes <= led.limit ELSE ledFlashes = led.limit

\* Safety: what an LED shows and how often it flashes is what it was told, for
\* any sequence of views, data and ticks.
LedTruthful == LedShowsState /\ FlashesAreCounted
=============================================================================
