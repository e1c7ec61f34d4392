-------------------------------- MODULE Voltage --------------------------------
(***************************************************************************)
(* The voltage output of a DMS board: a value in volts, the factors that   *)
(* make a raw number of it (Calibratable_dac, firmware/adcdac.hpp), the    *)
(* frame that takes the number to the chip (firmware/base/dac_max5715.cpp) *)
(* and the switch of the bridge (Board).                                   *)
(*                                                                         *)
(* Values are in halves of a volt, slopes in raw numbers per half volt.    *)
(* The slope is negative: the lowest raw number is the highest voltage.    *)
(* How calibration data are stored and fail is in Board.                   *)
(***************************************************************************)
EXTENDS Integers

CONSTANTS
  VoAsked,      \* values the driver sets
  VoRawAsked,   \* raw numbers a calibration station sets
  VoFactors,    \* <<slope, offset>> that calibration data may hold
  VoMaxLost     \* bound: frames that do not reach the chip

VoAssumption == /\ VoAsked \subseteq Int /\ VoRawAsked \subseteq Int
                /\ VoFactors \subseteq Int \X Int /\ VoMaxLost \in Nat

VARIABLES
  voStep,      \* of main(): "construct", "connect", "enable", "loop"
  voStored,    \* the v_supply entry that can be read from the cache, or none
  voUsed,      \* is_calibration_data_enabled_
  voValue,     \* value_
  voFactors,   \* slope_, offset_
  voRaw,       \* raw_ of the MAX5715 object
  voChip,      \* the code in the chip's register
  voBridge,    \* is_bridge_enabled_, and the pin
  voDirect,    \* history: the raw number was set directly since the last value
  voStale,     \* history: the last frame did not reach the chip
  voLost

supplyVars == <<voValue, voFactors, voBridge>>
dacVars == <<voRaw, voChip>>
voVars == <<voStep, voStored, voUsed, supplyVars, dacVars, voDirect, voStale, voLost>>

MinValue == 5      MaxValue == 48      \* 2.5 V, 24 V
MinRaw == 120      MaxRaw == 3904
NoEntry == <<>>
DefaultSupply == <<-88, 4344>>         \* hat::atom::Calibration: slope -176

Clamped(v, low, high) == IF v < low THEN low ELSE IF v > high THEN high ELSE v

-----------------------------------------------------------------------------
\* The frame for channel a: a command and 12 bits, left aligned in two bytes;
\* and what the chip makes of it.
Frame(raw) == <<48, (raw \div 16) % 256, (raw * 16) % 256>>
Received(frame) == (frame[2] * 256 + frame[3]) \div 16

\* Dac_max5715::SetRawBinVal(): the result of sending is not looked at.
SetRegister(raw) ==
  /\ voRaw' = raw
  /\ \/ voChip' = Received(Frame(raw)) /\ voStale' = FALSE /\ UNCHANGED voLost
     \/ voLost < VoMaxLost /\ voLost' = voLost + 1 /\ voStale' = TRUE /\ UNCHANGED voChip

RawOf(value, factors) == Clamped(value * factors[1] + factors[2], MinRaw, MaxRaw)

\* Calibratable_dac::set_value()
ApplyValue(value, factors) ==
  LET v == Clamped(value, MinValue, MaxValue)
  IN voValue' = v /\ voDirect' = FALSE /\ SetRegister(RawOf(v, factors))

\* set_linear_factors(): the value is converted again.
BugApplyFactors(factors) == voFactors' = factors /\ UNCHANGED <<voRaw, voChip, voValue, voDirect, voStale, voLost>>
ApplyFactors(factors) == voFactors' = factors /\ ApplyValue(voValue, factors)

\* Board::apply_calibration_data(): the stored entry, or the default.
SupplyEntry(stored, used) == IF used /\ stored # NoEntry THEN stored ELSE DefaultSupply
ApplySupply == ApplyFactors(SupplyEntry(voStored', voUsed'))

-----------------------------------------------------------------------------
VoInit ==
  /\ voStep = "construct" /\ voStored \in VoFactors \cup {NoEntry} /\ voUsed = FALSE
  /\ voValue = 0 /\ voFactors = <<1, 0>>
  /\ voRaw = 0 /\ voChip \in {0, MinRaw} /\ voBridge = FALSE
  /\ voDirect = FALSE /\ voStale = FALSE /\ voLost = 0

\* main(): the value is set before there are factors, ...
VoConstruct ==
  /\ voStep = "construct" /\ voStep' = "connect"
  /\ ApplyValue(MinValue, voFactors)
  /\ UNCHANGED <<voStored, voUsed, voFactors, voBridge>>
\* ... set_voltage_dac() supplies the default, ...
VoConnect ==
  /\ voStep = "connect" /\ voStep' = "enable"
  /\ UNCHANGED <<voStored, voUsed, voBridge>> /\ ApplySupply
\* ... and enable_calibration_data(true) what is stored.
VoEnable ==
  /\ voStep = "enable" /\ voStep' = "loop"
  /\ voUsed' = TRUE /\ UNCHANGED <<voStored, voBridge>> /\ ApplySupply

\* Settings: voltageOutValue, voltageOutRaw, voltageOutEnabled,
\* calibrationDataEnabled, calibrationData.
SetVoltage ==
  \E v \in VoAsked: ApplyValue(v, voFactors) /\ UNCHANGED <<voStored, voUsed, voFactors, voBridge>>
SetVoltageRaw ==
  /\ \E r \in VoRawAsked: SetRegister(Clamped(r, MinRaw, MaxRaw))
  /\ voDirect' = TRUE
  /\ UNCHANGED <<voStored, voUsed, voValue, voFactors, voBridge>>
EnableBridge ==
  /\ voBridge' \in BOOLEAN
  /\ UNCHANGED <<voStored, voUsed, voValue, voFactors, voRaw, voChip, voDirect, voStale, voLost>>
UseStored == voUsed' \in BOOLEAN /\ UNCHANGED <<voStored, voBridge>> /\ ApplySupply
StoreSupply == voStored' \in VoFactors /\ UNCHANGED <<voUsed, voBridge>> /\ ApplySupply

VoSetting ==
  /\ voStep = "loop" /\ UNCHANGED voStep
  /\ SetVoltage \/ SetVoltageRaw \/ EnableBridge \/ UseStored \/ StoreSupply

VoNext == VoConstruct \/ VoConnect \/ VoEnable \/ VoSetting
VoSpec == VoInit /\ [][VoNext]_voVars

-----------------------------------------------------------------------------
\* The raw number that the value and the calibration in effect stand for.
Meant == RawOf(voValue, SupplyEntry(voStored, voUsed))

(* When the main loop runs, and so whenever the bridge can be on, the chip   *)
(* puts out the value that voltageOutValue answers, by the calibration that  *)
(* is in effect, in whatever order value, calibration and switches were set, *)
(* unless the raw number was set directly since or the last frame got lost;  *)
(* and what is answered as the raw number is what the chip has.  src/doc/    *)
(* firmware-api.md:71-78. *)
OutputIsValue ==
  /\ voBridge => voStep = "loop"
  /\ (voStep = "loop" /\ ~voStale) => voChip = voRaw /\ (voDirect \/ voRaw = Meant)
  /\ voStep = "loop" => voValue \in MinValue..MaxValue /\ voRaw \in MinRaw..MaxRaw
=============================================================================
