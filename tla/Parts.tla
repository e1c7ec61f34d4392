------------------------------- MODULE Parts -------------------------------
(***************************************************************************)
(* The parts that share no state with others, model-checked in one run:    *)
(* `part' says at the start which of them this behaviour is about, and the *)
(* others rest in one of their initial states.  So the states of the run   *)
(* are the sum of the parts' states, and not their product.                *)
(***************************************************************************)
EXTENDS PidFile, Resampler, DataBus, Settings, Panel, Led, Hat, Amplifier,
        Fan, Atoms, Documents, Fifo, Voltage

ASSUME PartsAssumption ==
  /\ PanelAssumption /\ LedAssumption /\ HatAssumption /\ AmpAssumption /\ FanAssumption
  /\ RsAssumption /\ BusAssumption /\ AtAssumption /\ DocAssumption /\ FifoAssumption /\ VoAssumption

VARIABLE part

\* In TLC's configuration.
McBusSets == {<<0, 43690, 21845, 4660>>, <<65535, 1, 32768, 4660>>}
McShape   == <<2, 1>>
McForeign == {<<1, 2>>, <<1>>, <<1, 1>>}
McStrings == {<<>>, <<6, 7>>, [i \in 1 .. 33 |-> 1]}
McFactors == {<<-88, 4344>>, <<-60, 4000>>, <<0, 7>>}
McModes   == {"zero", "constant", "symmetric", "reflect", "periodic"}

PartNames == {"pid file", "resampler", "data bus", "settings", "panel", "led", "hat",
              "amplifier", "fan", "atoms", "documents", "fifo", "voltage"}

\* The one initial state in which a part rests.
Rests(name, initial) == part = name \/ initial

PartsInit ==
  /\ part \in PartNames
  /\ PidInit /\ BusInit /\ SetInit /\ PnlInit /\ LedInit /\ FifoInit
  /\ RsInit  /\ Rests("resampler", rsOptions = DriverOptions(Min(RsRates)))
  /\ HatInit /\ Rests("hat", hatChipAtoms = <<>> /\ ~HatVerified(hatChip))
  /\ AmpInit /\ Rests("amplifier", \A c \in AmpChips : ampRegisters[c][GainMux] = 0)
  /\ FanInit /\ Rests("fan", fan.top = Max(FanTops))
  /\ AtInit  /\ Rests("atoms", atKind = "gpio")
  /\ DocInit /\ Rests("documents", docUsed = "board")
  /\ VoInit  /\ Rests("voltage", voStored = NoEntry /\ voChip = 0)

PartsNext ==
  /\ IF part = "pid file"  THEN PidNext  ELSE UNCHANGED pidVars
  /\ IF part = "resampler" THEN RsNext   ELSE UNCHANGED rsVars
  /\ IF part = "data bus"  THEN BusNext  ELSE UNCHANGED busVars
  /\ IF part = "settings"  THEN SetNext  ELSE UNCHANGED setVars
  /\ IF part = "panel"     THEN PnlNext  ELSE UNCHANGED pnlVars
  /\ IF part = "led"       THEN LedNext  ELSE UNCHANGED ledVars
  /\ IF part = "hat"       THEN HatNext  ELSE UNCHANGED hatVars
  /\ IF part = "amplifier" THEN AmpNext  ELSE UNCHANGED ampVars
  /\ IF part = "fan"       THEN FanNext  ELSE UNCHANGED fanVars
  /\ IF part = "atoms"     THEN AtNext   ELSE UNCHANGED atVars
  /\ IF part = "documents" THEN DocNext  ELSE UNCHANGED docVars
  /\ IF part = "fifo"      THEN FifoNext ELSE UNCHANGED fifoVars
  /\ IF part = "voltage"   THEN VoNext   ELSE UNCHANGED voVars
  /\ UNCHANGED part

=============================================================================
