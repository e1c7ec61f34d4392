------------------------------- MODULE Board -------------------------------
(***************************************************************************)
(* The firmware's board: channel modes and gains, the amplifiers (PGA280)   *)
(* and offset DACs they drive, the calibration data in the EEPROM chip and  *)
(* its cache in RAM, the button menu and the offset search.                 *)
(*                                                                          *)
(* The firmware is one main loop: a setting request, a menu item and a step *)
(* of the search each run to their end, so each is one action.  Requests    *)
(* the firmware refuses change nothing and are no steps.  What comes from   *)
(* outside is the failure of a transfer and the loss of power, which may    *)
(* also cut the writing of the EEPROM.                                      *)
(***************************************************************************)
EXTENDS Integers, FiniteSets

CONSTANTS
  Channels,   \* measurement channels (4 on the board)
  MaxGain,    \* gains are indices 1..MaxGain of the gain table (22)
  Offsets,    \* the offsets a calibration entry can hold
  MaxWrites   \* calibration writes in a behaviour (bound of the model)

ASSUME ChannelsAssumption == Channels \subseteq Nat \ {0} /\ Channels # {}
ASSUME GainAssumption == MaxGain \in Nat \ {0}
ASSUME OffsetsAssumption == Offsets \subseteq Nat /\ 0 \in Offsets
ASSUME WritesAssumption == MaxWrites \in Nat

Modes == {"voltage", "current"}
Gains == 1..MaxGain
Direct == -1    \* a DAC word that does not come from the calibration data
Unknown == -1   \* nothing is known of a register or of an entry of the chip

(* Calibration atoms and their entries; v_supply has one entry. *)
SupplyAtom == <<"supply", 0>>
Entries == ((Modes \X Channels) \X Gains) \cup {<<SupplyAtom, 1>>}
Maps == [Entries -> Offsets]

(* The map the code constructs: offset 2048 (4344 for the supply), here 0. *)
DefaultMap == [e \in Entries |-> 0]

(* An EEPROM image: without a calibration atom, with one this firmware       *)
(* cannot read (another type or length), damaged, or with calibration data.  *)
Image(state) == [state |-> state, map |-> DefaultMap]
Calibrated(map) == [state |-> "present", map |-> map]
Images == {Image("missing"), Image("foreign"), Image("corrupted")}
            \cup {Calibrated(map) : map \in Maps}

VARIABLES
  build,        \* compile-time options: dms or IEPE board, station or release
  eeprom,       \* the image in the external chip
  cache,        \* eeprom_cache_
  eepromError,  \* calibration_data_eeprom_error_
  applyError,   \* calibration_data_apply_error_
  enabled,      \* is_calibration_data_enabled_
  mode,         \* measurement_mode_ of each channel, "unset" when empty
  gain,         \* index of amplification_gain_, 0 when empty
  pga,          \* switches and gain in each PGA280's registers, if known
  dac,          \* offset DAC of each channel
  supply,       \* linear factors of the voltage DAC
  adc,          \* level of adc_measurement_enable_pin_
  search,       \* offset_search_ runs
  writes,       \* calibration writes so far (bound)
  known,        \* history: what the chip was last told, and has confirmed
  blind,        \* history: this boot could not read the chip
  tested        \* history: the self-test has overwritten the chip

calibrationVars == <<eeprom, cache, eepromError, applyError, enabled, supply>>
channelVars == <<mode, gain, pga>>
historyVars == <<writes, known, blind, tested>>
vars == <<build, calibrationVars, channelVars, dac, adc, search, historyVars>>

-----------------------------------------------------------------------------
(* Calibration data in effect *)

Readable(c) == c.state = "present"

(* Dms_channel::update_offsets: an unset mode reads the current atom, an     *)
(* unset gain the first entry.                                               *)
EntryOf(c, m, g) ==
  <<<<IF m = "voltage" THEN "voltage" ELSE "current", c>>, IF g = 0 THEN 1 ELSE g>>

Offset(on, data, e) == IF on /\ Readable(data) THEN data.map[e] ELSE 0

Updated(on, data, m, g) ==
  [c \in Channels |-> Offset(on, data, EntryOf(c, m[c], g[c]))]

(* Fault: disabling the data leaves the offsets in the DACs. *)
BugDacsApplied(on, data, m, g) ==
  IF build.dms /\ on THEN Updated(on, data, m, g) ELSE dac

(* What Board::apply_calibration_data leaves in the DACs. *)
DacsApplied(on, data, m, g) == IF build.dms THEN Updated(on, data, m, g) ELSE dac

SupplyApplied(on, data) ==
  IF build.dms THEN Offset(on, data, <<SupplyAtom, 1>>) ELSE 0

(* As a fallback the defaults are applied instead of data that cannot be     *)
(* read, and success is then recorded over the error of reading.             *)
ApplyErrorAfter(on, data, fallback) ==
  IF build.dms /\ on /\ ~Readable(data) /\ ~fallback THEN "corrupted" ELSE "ok"

-----------------------------------------------------------------------------
(* Start of the firmware *)

(* Board::set_eeprom_handles: an image that cannot be verified, or was not   *)
(* received, is replaced by an empty one in RAM.                             *)
Usable(image, received) == received /\ image.state # "corrupted"

CacheAtBoot(image, received) ==
  IF Usable(image, received) THEN image ELSE Image("missing")

(* Fault: a damaged image that was received is no error. *)
BugErrorAtBoot(image, received) == IF received THEN "ok" ELSE "corrupted"

ErrorAtBoot(image, received) == IF Usable(image, received) THEN "ok" ELSE "corrupted"

NoModes == [c \in Channels |-> "unset"]
NoGains == [c \in Channels |-> 0]
PgasReset == [c \in Channels |-> [mode |-> "voltage", gain |-> 0]]

(* Fault: the calibration data are never enabled at start-up. *)
BugDacsAtBoot(image, received, dms) == [c \in Channels |-> IF dms THEN 0 ELSE Direct]

DacsAtBoot(image, received, dms) ==
  IF dms THEN Updated(TRUE, CacheAtBoot(image, received), NoModes, NoGains)
         ELSE [c \in Channels |-> Direct]

Boot(image, received) ==
  /\ cache' = CacheAtBoot(image, received)
  /\ eepromError' = ErrorAtBoot(image, received)
  /\ applyError' = ApplyErrorAfter(TRUE, CacheAtBoot(image, received), TRUE)
  /\ enabled' = TRUE
  /\ mode' = NoModes /\ gain' = NoGains /\ pga' = PgasReset
  /\ dac' = DacsAtBoot(image, received, build.dms)
  /\ supply' = SupplyApplied(TRUE, CacheAtBoot(image, received))
  /\ adc' = FALSE
  /\ search' = FALSE
  /\ blind' = ~received
  /\ tested' = FALSE
  /\ UNCHANGED build

(* Chips as they leave the factory, or with one offset in every entry. *)
Init ==
  /\ build \in [dms : BOOLEAN, station : BOOLEAN]
  /\ eeprom \in {Image("missing"), Image("foreign"), Image("corrupted")}
                  \cup {Calibrated([e \in Entries |-> v]) : v \in Offsets}
  /\ blind \in BOOLEAN
  /\ cache = CacheAtBoot(eeprom, ~blind)
  /\ eepromError = ErrorAtBoot(eeprom, ~blind)
  /\ applyError = ApplyErrorAfter(TRUE, cache, TRUE)
  /\ enabled = TRUE
  /\ mode = NoModes /\ gain = NoGains /\ pga = PgasReset
  /\ dac = DacsAtBoot(eeprom, ~blind, build.dms)
  /\ supply = SupplyApplied(TRUE, cache)
  /\ adc = FALSE
  /\ search = FALSE
  /\ writes = 0
  /\ tested = FALSE
  /\ known = IF Readable(eeprom) THEN eeprom.map ELSE [e \in Entries |-> Unknown]

(* The power is lost and comes back; the chip may not answer at start-up.    *)
Restart ==
  /\ \E received \in BOOLEAN : Boot(eeprom, received)
  /\ UNCHANGED <<eeprom, writes, known>>

-----------------------------------------------------------------------------
(* Channel settings *)

(* Fault: no check of the ADCs. *)
BugSettable == TRUE

(* A DMS channel refuses a new mode or gain while the ADCs measure. *)
Settable == ~(build.dms /\ adc)

(* Dms_channel::set_measurement_mode ignores the result of the transfer,     *)
(* after which a failed one leaves the register with an unknown value.       *)
SetMode(c, m) ==
  /\ Settable
  /\ mode' = [mode EXCEPT ![c] = m]
  /\ IF build.dms
       THEN \E switched \in {m, "unsure"} : pga' = [pga EXCEPT ![c].mode = switched]
       ELSE pga' = pga
  /\ dac' = [dac EXCEPT ![c] = DacsApplied(enabled, cache, mode', gain)[c]]
  /\ UNCHANGED <<build, calibrationVars, gain, adc, search, historyVars>>

(* set_amplification_gain on the channels cs: a failed transfer keeps what   *)
(* is recorded, whatever it has left in the register.                        *)
Amplify(cs, g) ==
  /\ Settable
  /\ \E failed \in SUBSET cs :
       /\ build.dms \/ failed = {}
       /\ gain' = [c \in Channels |-> IF c \in cs \ failed THEN g ELSE gain[c]]
       /\ dac' = [c \in Channels |-> IF c \in cs \ failed
                     THEN DacsApplied(enabled, cache, mode, gain')[c] ELSE dac[c]]
       /\ pga' = [c \in Channels |-> IF c \in cs /\ build.dms
                     THEN [pga[c] EXCEPT !.gain = IF c \in failed THEN Unknown ELSE g]
                     ELSE pga[c]]
  /\ UNCHANGED <<build, calibrationVars, mode, adc, search, historyVars>>

SetGain(c, g) == Amplify({c}, g)

(* channelNDacRaw *)
SetDac(c) ==
  /\ dac' = [dac EXCEPT ![c] = Direct]
  /\ UNCHANGED <<build, calibrationVars, channelVars, adc, search, historyVars>>

(* Fault: one of the two is enough. *)
BugChannelsConfigured ==
  \A c \in Channels : mode[c] # "unset" \/ gain[c] # 0

ChannelsConfigured ==
  \A c \in Channels : mode[c] # "unset" /\ gain[c] # 0

(* Board::enable_channels_adc *)
EnableAdc(on) ==
  /\ on => ChannelsConfigured
  /\ adc' = on
  /\ UNCHANGED <<build, calibrationVars, channelVars, dac, search, historyVars>>

-----------------------------------------------------------------------------
(* Button menu and offset search, in the release firmware only *)

(* CNewMenu offers the gains 1..4, here any index of the table; a search      *)
(* blocks the menu.                                                          *)
MenuGain(g) ==
  /\ ~build.station /\ ~search
  /\ Amplify(Channels, g)

StartSearch ==
  /\ ~build.station /\ ~search
  /\ search' = TRUE
  /\ dac' = [c \in Channels |-> Direct]
  /\ UNCHANGED <<build, calibrationVars, channelVars, adc, historyVars>>

(* CCalMan::Update: every channel gets its next trial word; the last step    *)
(* ends the search on all of them.                                           *)
SearchStep ==
  /\ search
  /\ search' \in BOOLEAN
  /\ dac' = [c \in Channels |-> Direct]
  /\ UNCHANGED <<build, calibrationVars, channelVars, adc, historyVars>>

-----------------------------------------------------------------------------
(* Calibration, on a calibration station only *)

EnableCalibration(on) ==
  /\ build.station
  /\ enabled' = on
  /\ applyError' = ApplyErrorAfter(on, cache, TRUE)
  /\ dac' = DacsApplied(on, cache, mode, gain)
  /\ supply' = SupplyApplied(on, cache)
  /\ UNCHANGED <<build, eeprom, cache, eepromError, channelVars, adc, search, historyVars>>

(* What a request can name: the first entries of an atom. *)
Named(last) == {e \in Entries : e[1] = last[1] /\ e[2] <= last[2]}

(* Fault: a write starts from the default map. *)
BugWriteBase == DefaultMap

(* Calibration_data_handler starts from the data in the cache, or from the   *)
(* default map when there is none.                                           *)
WriteBase == cache.map

NewMap(named, v) == [e \in Entries |-> IF e \in named THEN v ELSE WriteBase[e]]

(* Data the firmware cannot read is an error of the request. *)
Writable == build.station /\ cache.state # "foreign" /\ writes < MaxWrites

(* Board::set_calibration_data: cache, then channels, then chip. *)
WriteData(named, v) ==
  /\ Writable
  /\ cache' = Calibrated(NewMap(named, v))
  /\ applyError' = ApplyErrorAfter(enabled, cache', FALSE)
  /\ dac' = DacsApplied(enabled, cache', mode, gain)
  /\ supply' = SupplyApplied(enabled, cache')
  /\ \/ /\ eeprom' = cache'
        /\ eepromError' = "ok"
        /\ known' = [e \in Entries |->
             IF e \in named THEN v ELSE IF blind THEN Unknown ELSE known[e]]
        /\ blind' = FALSE /\ tested' = FALSE
     \/ /\ eeprom' \in {eeprom, cache', Image("corrupted")}
        /\ eepromError' = "unavailable"
        /\ known' = [e \in Entries |-> Unknown]
        /\ UNCHANGED <<blind, tested>>
  /\ writes' = writes + 1
  /\ UNCHANGED <<build, enabled, channelVars, adc, search>>

(* The power is lost while the chip is written. *)
WriteCutShort(named, v) ==
  /\ Writable
  /\ eeprom' \in {eeprom, Calibrated(NewMap(named, v)), Image("corrupted")}
  /\ \E received \in BOOLEAN : Boot(eeprom', received)
  /\ known' = [e \in Entries |-> Unknown]
  /\ writes' = writes + 1

(* Sam_i2c_eeprom_master::run_self_test (eepromTest) writes a pattern over    *)
(* the first page, which holds the header, and does not restore it; a chip   *)
(* that refuses the pattern is left alone.  Nothing in RAM tells of it.      *)
SelfTest ==
  /\ build.station
  /\ \/ /\ eeprom' = Image("corrupted")
        /\ tested' = TRUE
        /\ known' = [e \in Entries |-> Unknown]
     \/ UNCHANGED <<eeprom, tested, known>>
  /\ UNCHANGED <<build, cache, eepromError, applyError, enabled, supply, channelVars,
                 dac, adc, search, writes, blind>>

-----------------------------------------------------------------------------
Next ==
  \/ Restart
  \/ \E c \in Channels : \E m \in Modes : SetMode(c, m)
  \/ \E c \in Channels : \E g \in Gains : SetGain(c, g)
  \/ \E c \in Channels : SetDac(c)
  \/ \E on \in BOOLEAN : EnableAdc(on)
  \/ \E g \in Gains : MenuGain(g)
  \/ StartSearch
  \/ SearchStep
  \/ \E on \in BOOLEAN : EnableCalibration(on)
  \/ \E last \in Entries, v \in Offsets : WriteData(Named(last), v)
  \/ \E last \in Entries, v \in Offsets : WriteCutShort(Named(last), v)
  \/ SelfTest

Spec == Init /\ [][Next]_vars

-----------------------------------------------------------------------------
(* Properties *)

(* Every variable keeps its type. *)
TypeOK ==
  /\ build \in [dms : BOOLEAN, station : BOOLEAN]
  /\ eeprom \in Images
  /\ cache \in Images /\ cache # Image("corrupted")
  /\ eepromError \in {"ok", "corrupted", "unavailable"}
  /\ applyError \in {"ok", "corrupted"}
  /\ enabled \in BOOLEAN /\ adc \in BOOLEAN /\ search \in BOOLEAN
  /\ mode \in [Channels -> Modes \cup {"unset"}]
  /\ gain \in [Channels -> Gains \cup {0}]
  /\ pga \in [Channels -> [mode : Modes \cup {"unsure"}, gain : Gains \cup {0, Unknown}]]
  /\ dac \in [Channels -> Offsets \cup {Direct}]
  /\ supply \in Offsets
  /\ writes \in 0..MaxWrites
  /\ known \in [Entries -> Offsets \cup {Unknown}]
  /\ blind \in BOOLEAN /\ tested \in BOOLEAN

(* On a DMS board the voltage DAC, and each channel's DAC unless it was       *)
(* written directly or searched since, hold the calibrated offset of the      *)
(* present mode and gain, whatever the order of settings, calibration writes, *)
(* failed transfers and restarts.                                             *)
CalibrationInEffect ==
  build.dms =>
    /\ \A c \in Channels :
         dac[c] \in {Direct, Offset(enabled, cache, EntryOf(c, mode[c], gain[c]))}
    /\ supply = Offset(enabled, cache, <<SupplyAtom, 1>>)

(* While calibrationDataEepromError reports no error, the data the firmware   *)
(* uses and serves is what the chip holds and a restart will find, unless the *)
(* chip was tested meanwhile.                                                 *)
CacheMatchesEeprom == eepromError = "ok" /\ ~tested => cache = eeprom

(* An entry the chip held at first or has acknowledged is not lost by restarts*)
(* nor by later writes of other entries, unless a write fails, the chip is    *)
(* tested or the firmware that writes had been unable to read the chip.       *)
EntriesSurvive ==
  \A e \in Entries :
    known[e] # Unknown => Readable(eeprom) /\ eeprom.map[e] = known[e]

(* The ADCs of a board measure only with every channel's mode and gain set.   *)
MeasurementConfigured ==
  adc => \A c \in Channels : mode[c] \in Modes /\ gain[c] \in Gains

(* On a DMS board neither the settings nor the menu change a mode, a gain or  *)
(* an amplifier while the ADCs measure.                                       *)
FrozenOnDms ==
  [][build.dms /\ adc /\ adc' => UNCHANGED <<mode, gain, pga>>]_vars

(* Claim of the interface: the mode and the gain of a channel can be set only *)
(* while the ADCs do not measure, on every board. Not kept: README, section 5. *)
SetOnlyWhenStopped == [][adc /\ adc' => UNCHANGED <<mode, gain>>]_vars

(* Claim of the interface: the apply error tells of the last application of   *)
(* the calibration data; when they could not be read it is not "ok". Not kept: *)
(* README, section 5.                                                         *)
ApplyErrorTold ==
  build.dms /\ enabled /\ ~Readable(cache) => applyError # "ok"

=============================================================================
