-------------------------------- MODULE Panel --------------------------------
(***************************************************************************)
(* The push button, the menu behind it and the display of the board        *)
(* (pin_button.hpp, control/NewMenu.cpp, control/View.cpp): clicks are     *)
(* recognised by their durations, the menu moves with them, and the view   *)
(* shows the menu, with delayed steps of its own.  The offset search,      *)
(* which the menu starts, ends with a delayed step of the view.            *)
(*                                                                         *)
(* Time counts in units of 100 ms, and the main loop comes around once in  *)
(* a unit.  The filtered level of the button may change at every turn.     *)
(* What the menu sets is in Board, how LEDs blink in Led.                  *)
(***************************************************************************)
EXTENDS Integers

CONSTANTS
  PnlMenus,       \* number of menus: 4 in the code
  PnlOffsets      \* the menu that starts the search

PanelAssumption == PnlMenus \in Nat \ {0} /\ PnlOffsets \in 0..(PnlMenus - 1)

MaxSecondClick == 4    \* max_second_click_duration_
MaxShortClick  == 12   \* max_short_click_duration_
MinVeryLong    == 60   \* min_very_long_click_duration_
SearchTime     == 13   \* ADpointSearch: 13 steps, one in 100 ms
Elements       == 2    \* bound: values of a menu (2 to 4 in the code)

VARIABLES
  pnlPrevious,                    \* previous_state_: is it pressed?
  pnlSincePress, pnlSinceRelease, \* time since last_press_time_, last_release_time_
  pnlInterval,                    \* last_interclick_interval_
  pnlFirst, pnlLong, pnlVeryLong, \* is_first_of_double_click_, is_long_click_, ...
  pnlMode, pnlMenu, pnlElement,   \* m_CurMode, m_MenuInd, m_MenuEl
  pnlView,                        \* the view: mode, what the LEDs show, delayed step
  pnlSearch,                      \* time until the search is over
  pnlSpare                        \* history: presses that no click accounts for

buttonVars == <<pnlPrevious, pnlSincePress, pnlSinceRelease, pnlInterval, pnlFirst, pnlLong,
                pnlVeryLong, pnlSpare>>
menuVars == <<pnlMode, pnlMenu, pnlElement>>
displayVars == <<pnlView, pnlSearch>>
pnlVars == <<buttonVars, menuVars, displayVars>>

-----------------------------------------------------------------------------
(* The view.  A step after a delay runs in the turn in which the delay ends; *)
(* the delay counts from the turn that sets it.                              *)
Show(view, what) == [view EXCEPT !.vis = "UI", !.shown = what]

Delay(view, time, step) == [view EXCEPT !.step = step, !.wait = time + 1]

EndProc(view) == [view EXCEPT !.step = "none", !.wait = 0]

BugExitMenu(view) == [view EXCEPT !.vis = "background", !.shown = <<>>]

ExitMenu(view) == [EndProc(view) EXCEPT !.vis = "background", !.shown = <<>>]

SetRecordMarker(view) == Delay(Show(view, <<"marker">>), 4, "exit_menu")

SelectMenuPreview(view, menu) == Show(view, <<"preview", menu>>)

SelectMenu(view, menu, element) == [Show(view, <<"menu", menu, element>>) EXCEPT !.active = menu]

ApplyMenu(view) == Delay(Show(view, <<"applied">>), 5, "apply_end")

ResetSettings(view) == Delay(Show(view, <<"reset">>), 12, "exit_menu")

ZeroSearchingMark(view) == IF view.vis = "UI" THEN Show(view, <<"searching">>) ELSE view

ZeroSearchCompleted(view) == Delay(view, 20, "apply_end")

ViewUpdate(view) ==
  LET due == view.step # "none" /\ view.wait = 1
  IN CASE due /\ view.step = "exit_menu" -> ExitMenu(view)
       [] due /\ view.step = "apply_end" -> EndProc(SelectMenuPreview(view, view.active))
       [] OTHER -> IF view.step = "none" THEN view ELSE [view EXCEPT !.wait = @ - 1]

\* BlinkAtStart() has run.
PnlInit ==
  /\ pnlPrevious = FALSE /\ pnlSincePress = 0 /\ pnlSinceRelease = MinVeryLong /\ pnlInterval = 0
  /\ pnlFirst = FALSE /\ pnlLong = FALSE /\ pnlVeryLong = FALSE
  /\ pnlMode = "def" /\ pnlMenu = 0 /\ pnlElement = 0
  /\ pnlView = [vis |-> "UI", shown |-> <<"start">>, step |-> "exit_menu", wait |-> 12, active |-> 0]
  /\ pnlSearch = 0 /\ pnlSpare = 0

-----------------------------------------------------------------------------
\* Pin_button::update(): the clicks reported when the level becomes `pressed',
\* in their order.
Elapsed(t) == IF t > MinVeryLong THEN t ELSE t + 1

Clicks(pressed) ==
  LET held    == Elapsed(pnlSincePress)
      release == pnlPrevious /\ ~pressed
      long    == pnlPrevious /\ ~pnlLong /\ held > MaxShortClick
      very    == pnlPrevious /\ ~pnlVeryLong /\ held > MinVeryLong
      late    == ~pnlPrevious /\ pnlFirst /\ Elapsed(pnlSinceRelease) > MaxSecondClick
      first   == pnlFirst /\ ~long /\ ~very
      quick   == release /\ held < MaxSecondClick
  IN [long |-> long, very |-> very,
      short  |-> late \/ (release /\ held < MaxShortClick /\ ~quick),
      double |-> quick /\ first /\ pnlInterval < MaxSecondClick,
      first  |-> IF release THEN quick /\ ~first ELSE first /\ ~late]

ButtonUpdate(pressed, clicks) ==
  LET press   == ~pnlPrevious /\ pressed
      release == pnlPrevious /\ ~pressed
      spare   == pnlSpare + (IF press THEN 1 ELSE 0) - (IF clicks.short THEN 1 ELSE 0)
                   - (IF clicks.long THEN 1 ELSE 0) - (IF clicks.double THEN 2 ELSE 0)
  IN /\ pnlPrevious' = pressed
     /\ pnlSincePress' = IF press THEN 0 ELSE IF pressed THEN Elapsed(pnlSincePress) ELSE 0
     /\ pnlSinceRelease' = IF release THEN 0 ELSE IF clicks.first THEN Elapsed(pnlSinceRelease) ELSE MinVeryLong
     /\ pnlInterval' = IF press THEN Elapsed(pnlSinceRelease) ELSE IF clicks.first \/ pressed THEN pnlInterval ELSE 0
     /\ pnlFirst' = clicks.first
     /\ pnlLong' = ((pnlLong \/ clicks.long) /\ ~release)
     /\ pnlVeryLong' = ((pnlVeryLong \/ clicks.very) /\ ~release)
     /\ pnlSpare' = IF ~pressed /\ ~clicks.first /\ spare > 0 THEN 0 ELSE spare

-----------------------------------------------------------------------------
\* CNewMenu::handle_state(): one action for each mode; at most one click is
\* reported in a turn.  `view' is what the handler leaves to the rest of the turn.
Menu(mode, menu, element) == pnlMode' = mode /\ pnlMenu' = menu /\ pnlElement' = element

Keep == UNCHANGED <<pnlMode, pnlMenu, pnlElement>>

Blocked == pnlSearch > 0        \* is_offset_search_started()

\* CCalMan::Update(), then CView::Update().
RestOfTurn(view) ==
  /\ pnlSearch' = IF pnlSearch > 0 THEN pnlSearch - 1 ELSE 0
  /\ pnlView' = ViewUpdate(IF pnlSearch = 1 THEN ZeroSearchCompleted(view) ELSE view)

Reset(clicks) ==
  /\ clicks.very
  /\ Menu("def", pnlMenu, pnlElement)
  /\ RestOfTurn(ResetSettings(pnlView))

NoClick(clicks) ==
  /\ ~clicks.very /\ ~clicks.long /\ ~clicks.short /\ ~clicks.double
  /\ Keep /\ RestOfTurn(pnlView)

OutsideMenu(clicks) ==
  /\ pnlMode = "def" /\ ~clicks.very
  /\ \/ clicks.short /\ Keep /\ RestOfTurn(SetRecordMarker(pnlView))
     \/ clicks.long /\ Menu("preview", pnlMenu, pnlElement)
                    /\ RestOfTurn(SelectMenuPreview(pnlView, pnlMenu))
     \/ clicks.double /\ Keep /\ RestOfTurn(pnlView)

BlockedClick(clicks) ==
  /\ pnlMode # "def" /\ Blocked /\ ~clicks.very
  /\ clicks.short \/ clicks.long \/ clicks.double
  /\ Keep /\ RestOfTurn(pnlView)

\* The element that ObtainMenuElRange() reads from the board is any.
InPreview(clicks) ==
  /\ pnlMode = "preview" /\ ~Blocked /\ ~clicks.very
  /\ \/ clicks.double /\ Menu("def", pnlMenu, pnlElement) /\ RestOfTurn(ExitMenu(pnlView))
     \/ LET next == (pnlMenu + 1) % PnlMenus
        IN /\ clicks.short /\ Menu("preview", next, pnlElement)
           /\ RestOfTurn(SelectMenuPreview(pnlView, next))
     \/ \E element \in IF pnlMenu = PnlOffsets THEN {0} ELSE 0..(Elements - 1):
          /\ clicks.long /\ Menu("inside_menu", pnlMenu, element)
          /\ RestOfTurn(SelectMenu(pnlView, pnlMenu, element))

\* ApplyMenuSetting() for the offsets: Start() shows the search.
StartSearch(clicks) ==
  /\ pnlMode = "inside_menu" /\ ~Blocked /\ ~clicks.very
  /\ clicks.long /\ pnlMenu = PnlOffsets
  /\ Menu("preview", pnlMenu, pnlElement)
  /\ pnlSearch' = SearchTime
  /\ pnlView' = ViewUpdate(ZeroSearchingMark(pnlView))

InsideMenu(clicks) ==
  /\ pnlMode = "inside_menu" /\ ~Blocked /\ ~clicks.very
  /\ \/ clicks.double /\ Menu("preview", pnlMenu, pnlElement)
                      /\ RestOfTurn(SelectMenuPreview(pnlView, pnlMenu))
     \/ LET next == (pnlElement + 1) % Elements
        IN /\ clicks.short /\ Menu("inside_menu", pnlMenu, next)
           /\ RestOfTurn(SelectMenu(pnlView, pnlMenu, next))
     \/ /\ clicks.long /\ pnlMenu # PnlOffsets
        /\ Menu("preview", pnlMenu, pnlElement)
        /\ RestOfTurn(ApplyMenu(pnlView))

PnlTurn ==
  \E pressed \in BOOLEAN:
    LET clicks == Clicks(pressed)
    IN /\ ButtonUpdate(pressed, clicks)
       /\ \/ Reset(clicks) \/ NoClick(clicks) \/ OutsideMenu(clicks) \/ BlockedClick(clicks)
          \/ InPreview(clicks) \/ StartSearch(clicks) \/ InsideMenu(clicks)

PnlNext == PnlTurn

PnlSpec == PnlInit /\ [][PnlNext]_pnlVars

-----------------------------------------------------------------------------
\* Safety: no press is reported twice. However presses and pauses follow one
\* another, the clicks that Pin_button::update() has reported account for no
\* more presses than there were: a short and a long one for one, a double one
\* for two.
NoPhantomClicks == pnlSpare >= 0

\* Safety: the display is the user's or the data's, as the menu says. While the
\* menu is open its view stays, no step left over from a marker, a reset or the
\* start can close it; once the menu is left, the view goes back to the data,
\* at once or with a step that is pending. (CNewMenu and CView each keep a mode
\* of their own, and no code compares them.)
ViewFollowsMenu ==
  /\ pnlMode # "def" => pnlView.vis = "UI" /\ pnlView.step # "exit_menu"
  /\ pnlMode = "def" /\ pnlView.vis = "UI" => pnlView.step = "exit_menu"

\* Inside a menu the LEDs show this menu and the value a long click applies
\* (View.h: "Sets Inside menu view"). The step that ends an applied setting or
\* a search may come late: this does not hold, README, section 5.
ShowsWhatItSets == pnlMode = "inside_menu" => pnlView.shown = <<"menu", pnlMenu, pnlElement>>

\* Safety: button, menu and display stay in step in any sequence of presses,
\* pauses, markers and searches.
PanelInStep == NoPhantomClicks /\ ViewFollowsMenu
=============================================================================
