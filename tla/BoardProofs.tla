---------------------------- MODULE BoardProofs ----------------------------
(***************************************************************************)
(* Proofs about Board for every set of channels, gain table and set of      *)
(* offsets: types, the calibration in effect, the agreement of cache and    *)
(* chip, the survival of calibration entries, the configuration of a        *)
(* measurement and its protection while it runs.                            *)
(***************************************************************************)
EXTENDS Board, TLAPS

-----------------------------------------------------------------------------
(* Facts about the data *)

(* The entry update_offsets reads exists for every mode and gain recorded.   *)
LEMMA EntryExists ==
  ASSUME NEW c \in Channels, NEW m \in Modes \cup {"unset"}, NEW g \in Gains \cup {0}
  PROVE  EntryOf(c, m, g) \in Entries
<1>1. (IF g = 0 THEN 1 ELSE g) \in Gains
  BY GainAssumption DEF Gains
<1>2. (IF m = "voltage" THEN "voltage" ELSE "current") \in Modes
  BY DEF Modes
<1> QED
  BY <1>1, <1>2 DEF EntryOf, Entries

(* An image carries a map, and what a boot makes of it is an image.          *)
LEMMA ImageTyped ==
  /\ \A image \in Images : image.map \in Maps
  /\ \A state \in {"missing", "foreign", "corrupted"} :
       Image(state) \in Images /\ Image(state).state = state
  /\ \A map \in Maps : Calibrated(map) \in Images /\ Calibrated(map) # Image("corrupted")
                       /\ Readable(Calibrated(map)) /\ Calibrated(map).map = map
<1>1. DefaultMap \in Maps
  BY OffsetsAssumption DEF DefaultMap, Maps
<1>2. ASSUME NEW state \in {"missing", "foreign", "corrupted"}
      PROVE  Image(state) \in Images /\ Image(state).state = state
                                     /\ Image(state).map \in Maps
  BY <1>1 DEF Images, Image
<1>3. ASSUME NEW map \in Maps
      PROVE  /\ Calibrated(map) \in Images
             /\ Calibrated(map).state = "present"
             /\ Calibrated(map).map = map
  BY DEF Images, Calibrated
<1>4. ASSUME NEW map \in Maps PROVE Calibrated(map) # Image("corrupted")
  BY <1>2, <1>3
<1>5. ASSUME NEW image \in Images PROVE image.map \in Maps
  <2>1. CASE \E map \in Maps : image = Calibrated(map)
    BY <2>1, <1>3
  <2>2. CASE image \in {Image("missing"), Image("foreign"), Image("corrupted")}
    BY <2>2, <1>2
  <2> QED
    BY <2>1, <2>2 DEF Images
<1> QED
  BY <1>2, <1>3, <1>4, <1>5 DEF Readable

(* An offset read through the cache is one a calibration entry can hold.     *)
LEMMA OffsetTyped ==
  ASSUME NEW on, NEW data \in Images, NEW e \in Entries
  PROVE  Offset(on, data, e) \in Offsets
BY ImageTyped, OffsetsAssumption DEF Offset, Maps

(* The supply's entry is an entry. *)
LEMMA SupplyExists == <<SupplyAtom, 1>> \in Entries
BY DEF Entries

(* What update_offsets writes to the DACs are such offsets.                   *)
LEMMA UpdatedTyped ==
  ASSUME NEW on, NEW data \in Images,
         NEW m \in [Channels -> Modes \cup {"unset"}],
         NEW g \in [Channels -> Gains \cup {0}]
  PROVE  /\ Updated(on, data, m, g) \in [Channels -> Offsets]
         /\ \A c \in Channels :
              Updated(on, data, m, g)[c] = Offset(on, data, EntryOf(c, m[c], g[c]))
<1> SUFFICES ASSUME NEW c \in Channels
             PROVE  Offset(on, data, EntryOf(c, m[c], g[c])) \in Offsets
  BY DEF Updated
<1>1. EntryOf(c, m[c], g[c]) \in Entries
  BY EntryExists
<1> QED
  BY <1>1, OffsetTyped

(* The cache after a boot is an image the firmware could verify.             *)
LEMMA CacheAtBootTyped ==
  ASSUME NEW image \in Images, NEW received \in BOOLEAN
  PROVE  /\ CacheAtBoot(image, received) \in Images
         /\ CacheAtBoot(image, received) # Image("corrupted")
         /\ ErrorAtBoot(image, received) \in {"ok", "corrupted"}
<1>1. Image("missing") \in Images /\ Image("missing") # Image("corrupted")
  BY ImageTyped
<1>2. Image("corrupted").state = "corrupted"
  BY ImageTyped
<1> QED
  BY <1>1, <1>2 DEF CacheAtBoot, ErrorAtBoot, Usable

(* The map a calibration write builds. *)
LEMMA NewMapTyped ==
  ASSUME TypeOK, NEW named, NEW v \in Offsets
  PROVE  NewMap(named, v) \in Maps
<1>1. WriteBase \in Maps
  BY ImageTyped DEF TypeOK, WriteBase
<1> QED
  BY <1>1 DEF NewMap, Maps

-----------------------------------------------------------------------------
(* Types *)

(* What Boot assigns has the right type. *)
LEMMA BootTyped ==
  ASSUME NEW dms \in BOOLEAN, NEW image \in Images, NEW received \in BOOLEAN
  PROVE  /\ NoModes \in [Channels -> Modes \cup {"unset"}]
         /\ NoGains \in [Channels -> Gains \cup {0}]
         /\ PgasReset \in [Channels -> [mode : Modes \cup {"unsure"},
                                        gain : Gains \cup {0, Unknown}]]
         /\ DacsAtBoot(image, received, dms) \in [Channels -> Offsets \cup {Direct}]
<1>1. /\ NoModes \in [Channels -> Modes \cup {"unset"}]
      /\ NoGains \in [Channels -> Gains \cup {0}]
  BY DEF NoModes, NoGains
<1>2. PgasReset \in [Channels -> [mode : Modes \cup {"unsure"}, gain : Gains \cup {0, Unknown}]]
  BY DEF PgasReset, Modes
<1>3. CacheAtBoot(image, received) \in Images
  BY CacheAtBootTyped
<1>4. Updated(TRUE, CacheAtBoot(image, received), NoModes, NoGains) \in [Channels -> Offsets]
  BY <1>1, <1>3, UpdatedTyped
<1>5. [c \in Channels |-> Direct] \in [Channels -> Offsets \cup {Direct}]
  OBVIOUS
<1>6. \A f : f \in [Channels -> Offsets] => f \in [Channels -> Offsets \cup {Direct}]
  OBVIOUS
<1>7. DacsAtBoot(image, received, dms) \in [Channels -> Offsets \cup {Direct}]
  BY <1>4, <1>5, <1>6 DEF DacsAtBoot
<1> QED
  BY <1>1, <1>2, <1>7

(* The calibrated supply factors, and the error of applying them.            *)
LEMMA AppliedTyped ==
  ASSUME NEW on, NEW data \in Images, NEW fallback
  PROVE  /\ SupplyApplied(on, data) \in Offsets
         /\ ApplyErrorAfter(on, data, fallback) \in {"ok", "corrupted"}
<1>1. Offset(on, data, <<SupplyAtom, 1>>) \in Offsets
  BY SupplyExists, OffsetTyped
<1> QED
  BY <1>1, OffsetsAssumption DEF SupplyApplied, ApplyErrorAfter

(* The DACs after an application of the calibration data. *)
LEMMA DacsTyped ==
  ASSUME TypeOK, NEW on, NEW data \in Images,
         NEW m \in [Channels -> Modes \cup {"unset"}],
         NEW g \in [Channels -> Gains \cup {0}]
  PROVE  DacsApplied(on, data, m, g) \in [Channels -> Offsets \cup {Direct}]
<1>1. Updated(on, data, m, g) \in [Channels -> Offsets]
  BY UpdatedTyped
<1>2. dac \in [Channels -> Offsets \cup {Direct}]
  BY DEF TypeOK
<1>3. \A f : f \in [Channels -> Offsets] => f \in [Channels -> Offsets \cup {Direct}]
  OBVIOUS
<1> QED
  BY <1>1, <1>2, <1>3 DEF DacsApplied

(* A boot keeps the types. *)
LEMMA BootKeepsTypes ==
  ASSUME TypeOK, NEW received \in BOOLEAN, eeprom' \in Images,
         Boot(eeprom', received), writes' \in 0..MaxWrites,
         known' \in [Entries -> Offsets \cup {Unknown}]
  PROVE  TypeOK'
<1>1. build' \in [dms : BOOLEAN, station : BOOLEAN] /\ build'.dms \in BOOLEAN
  BY DEF Boot, TypeOK
<1>2. cache' \in Images /\ cache' # Image("corrupted") /\ eepromError' \in {"ok", "corrupted", "unavailable"}
  BY CacheAtBootTyped DEF Boot
<1>3. supply' \in Offsets /\ applyError' \in {"ok", "corrupted"}
  BY <1>2, AppliedTyped DEF Boot
<1>4. build.dms \in BOOLEAN
  BY DEF TypeOK
<1>5. /\ mode' \in [Channels -> Modes \cup {"unset"}]
      /\ gain' \in [Channels -> Gains \cup {0}]
      /\ pga' \in [Channels -> [mode : Modes \cup {"unsure"}, gain : Gains \cup {0, Unknown}]]
      /\ dac' \in [Channels -> Offsets \cup {Direct}]
  BY <1>4, BootTyped DEF Boot
<1>6. enabled' \in BOOLEAN /\ adc' \in BOOLEAN /\ search' \in BOOLEAN
      /\ blind' \in BOOLEAN /\ tested' \in BOOLEAN
  BY DEF Boot
<1> QED
  BY <1>1, <1>2, <1>3, <1>5, <1>6 DEF TypeOK

(* Amplify keeps the types. *)
LEMMA AmplifyKeepsTypes ==
  ASSUME TypeOK, NEW cs, cs \subseteq Channels, NEW g \in Gains, Amplify(cs, g)
  PROVE  TypeOK'
<1>1. PICK failed \in SUBSET cs :
        /\ gain' = [c \in Channels |-> IF c \in cs \ failed THEN g ELSE gain[c]]
        /\ dac' = [c \in Channels |-> IF c \in cs \ failed
                     THEN DacsApplied(enabled, cache, mode, gain')[c] ELSE dac[c]]
        /\ pga' = [c \in Channels |-> IF c \in cs /\ build.dms
                     THEN [pga[c] EXCEPT !.gain = IF c \in failed THEN Unknown ELSE g]
                     ELSE pga[c]]
  BY DEF Amplify
<1>2. gain' \in [Channels -> Gains \cup {0}]
  BY <1>1 DEF TypeOK
<1>3. DacsApplied(enabled, cache, mode, gain') \in [Channels -> Offsets \cup {Direct}]
  BY <1>2, DacsTyped DEF TypeOK
<1>4. dac' \in [Channels -> Offsets \cup {Direct}]
  BY <1>1, <1>3 DEF TypeOK
<1>5. pga' \in [Channels -> [mode : Modes \cup {"unsure"}, gain : Gains \cup {0, Unknown}]]
  BY <1>1 DEF TypeOK
<1> QED
  BY <1>2, <1>4, <1>5 DEF TypeOK, Amplify, calibrationVars, historyVars

(* Every variable keeps its type: TypeOK holds in every behaviour of the     *)
(* board.                                                                    *)
THEOREM BoardTypeCorrect == Spec => []TypeOK
<1>1. Init => TypeOK
  <2> SUFFICES ASSUME Init PROVE TypeOK
    OBVIOUS
  <2>1. eeprom \in Images
    <3>1. \A v \in Offsets : [e \in Entries |-> v] \in Maps
      BY DEF Maps
    <3> QED
      BY <3>1, ImageTyped DEF Init
  <2>2. (~blind) \in BOOLEAN /\ build.dms \in BOOLEAN
    BY DEF Init
  <2>3. cache \in Images /\ cache # Image("corrupted") /\ eepromError \in {"ok", "corrupted"}
    BY <2>1, <2>2, CacheAtBootTyped DEF Init
  <2>4. supply \in Offsets /\ applyError \in {"ok", "corrupted"}
    BY <2>3, AppliedTyped DEF Init
  <2>5. /\ mode \in [Channels -> Modes \cup {"unset"}]
        /\ gain \in [Channels -> Gains \cup {0}]
        /\ pga \in [Channels -> [mode : Modes \cup {"unsure"}, gain : Gains \cup {0, Unknown}]]
        /\ dac \in [Channels -> Offsets \cup {Direct}]
    BY <2>1, <2>2, BootTyped DEF Init
  <2>6. known \in [Entries -> Offsets \cup {Unknown}]
    <3>1. eeprom.map \in Maps
      BY <2>1, ImageTyped
    <3> QED
      BY <3>1 DEF Init, Maps
  <2>7. writes \in 0..MaxWrites
    BY WritesAssumption DEF Init
  <2> QED
    BY <2>1, <2>3, <2>4, <2>5, <2>6, <2>7 DEF Init, TypeOK
<1>2. TypeOK /\ [Next]_vars => TypeOK'
  <2> SUFFICES ASSUME TypeOK, [Next]_vars PROVE TypeOK'
    OBVIOUS
  <2> USE DEF calibrationVars, channelVars, historyVars
  <2>1. CASE Restart
    BY <2>1, BootKeepsTypes DEF Restart, TypeOK
  <2>2. ASSUME NEW c \in Channels, NEW m \in Modes, SetMode(c, m) PROVE TypeOK'
    <3>1. mode' \in [Channels -> Modes \cup {"unset"}]
      BY <2>2 DEF SetMode, TypeOK
    <3>2. DacsApplied(enabled, cache, mode', gain) \in [Channels -> Offsets \cup {Direct}]
      BY <3>1, DacsTyped DEF TypeOK
    <3>3. dac' \in [Channels -> Offsets \cup {Direct}]
      BY <2>2, <3>2 DEF SetMode, TypeOK
    <3>4. pga' \in [Channels -> [mode : Modes \cup {"unsure"}, gain : Gains \cup {0, Unknown}]]
      BY <2>2 DEF SetMode, TypeOK
    <3> QED
      BY <2>2, <3>1, <3>3, <3>4 DEF SetMode, TypeOK
  <2>3. ASSUME NEW c \in Channels, NEW g \in Gains, SetGain(c, g) PROVE TypeOK'
    BY <2>3, AmplifyKeepsTypes DEF SetGain
  <2>4. ASSUME NEW g \in Gains, MenuGain(g) PROVE TypeOK'
    BY <2>4, AmplifyKeepsTypes DEF MenuGain
  <2>5. ASSUME NEW c \in Channels, SetDac(c) PROVE TypeOK'
    BY <2>5 DEF SetDac, TypeOK
  <2>6. ASSUME NEW on \in BOOLEAN, EnableAdc(on) PROVE TypeOK'
    BY <2>6 DEF EnableAdc, TypeOK
  <2>7. CASE StartSearch \/ SearchStep
    BY <2>7 DEF StartSearch, SearchStep, TypeOK
  <2>8. ASSUME NEW on \in BOOLEAN, EnableCalibration(on) PROVE TypeOK'
    <3>1. /\ DacsApplied(on, cache, mode, gain) \in [Channels -> Offsets \cup {Direct}]
          /\ SupplyApplied(on, cache) \in Offsets
          /\ ApplyErrorAfter(on, cache, TRUE) \in {"ok", "corrupted"}
      BY DacsTyped, AppliedTyped DEF TypeOK
    <3> QED
      BY <2>8, <3>1 DEF EnableCalibration, TypeOK
  <2>9. ASSUME NEW last \in Entries, NEW v \in Offsets, WriteData(Named(last), v)
        PROVE  TypeOK'
    <3> DEFINE named == Named(last)
    <3>1. cache' \in Images /\ cache' # Image("corrupted")
      BY <2>9, NewMapTyped, ImageTyped DEF WriteData
    <3>2. /\ DacsApplied(enabled, cache', mode, gain) \in [Channels -> Offsets \cup {Direct}]
          /\ SupplyApplied(enabled, cache') \in Offsets
          /\ ApplyErrorAfter(enabled, cache', FALSE) \in {"ok", "corrupted"}
      BY <3>1, DacsTyped, AppliedTyped DEF TypeOK
    <3>3. eeprom' \in Images /\ eepromError' \in {"ok", "corrupted", "unavailable"}
      BY <2>9, <3>1, ImageTyped DEF WriteData, TypeOK
    <3>4. known' \in [Entries -> Offsets \cup {Unknown}]
      BY <2>9 DEF WriteData, TypeOK
    <3>5. writes' \in 0..MaxWrites
      BY <2>9, WritesAssumption DEF WriteData, Writable, TypeOK
    <3>6. blind' \in BOOLEAN /\ tested' \in BOOLEAN
      BY <2>9 DEF WriteData, TypeOK
    <3>7. dac' \in [Channels -> Offsets \cup {Direct}] /\ supply' \in Offsets
          /\ applyError' \in {"ok", "corrupted"}
      BY <2>9, <3>2 DEF WriteData
    <3> QED
      BY <2>9, <3>1, <3>3, <3>4, <3>5, <3>6, <3>7 DEF WriteData, TypeOK
  <2>10. ASSUME NEW last \in Entries, NEW v \in Offsets, WriteCutShort(Named(last), v)
         PROVE  TypeOK'
    <3>1. eeprom' \in Images
      BY <2>10, NewMapTyped, ImageTyped DEF WriteCutShort, TypeOK
    <3>2. writes' \in 0..MaxWrites
      BY <2>10, WritesAssumption DEF WriteCutShort, Writable, TypeOK
    <3>3. known' \in [Entries -> Offsets \cup {Unknown}]
      BY <2>10 DEF WriteCutShort
    <3>4. PICK received \in BOOLEAN : Boot(eeprom', received)
      BY <2>10 DEF WriteCutShort
    <3> QED
      BY <3>1, <3>2, <3>3, <3>4, BootKeepsTypes
  <2>11. CASE SelfTest
    <3>1. Image("corrupted") \in Images
      BY ImageTyped
    <3> QED
      BY <2>11, <3>1 DEF SelfTest, TypeOK
  <2>12. CASE UNCHANGED vars
    BY <2>12 DEF vars, TypeOK
  <2> QED
    BY <2>1, <2>2, <2>3, <2>4, <2>5, <2>6, <2>7, <2>8, <2>9, <2>10, <2>11, <2>12 DEF Next
<1> QED
  BY <1>1, <1>2, PTL DEF Spec

-----------------------------------------------------------------------------
(* The calibration in effect *)

(* A boot puts the calibration it finds, or the defaults, into effect.       *)
LEMMA BootAppliesCalibration ==
  ASSUME TypeOK, NEW received, Boot(eeprom', received)
  PROVE  CalibrationInEffect'
<1> SUFFICES ASSUME build'.dms
             PROVE  /\ \A c \in Channels :
                         dac'[c] = Offset(enabled', cache', EntryOf(c, mode'[c], gain'[c]))
                    /\ supply' = Offset(enabled', cache', <<SupplyAtom, 1>>)
  BY DEF CalibrationInEffect
<1>1. build.dms
  BY DEF Boot
<1>2. dac' = Updated(enabled', cache', mode', gain')
  BY <1>1 DEF Boot, DacsAtBoot
<1>3. supply' = Offset(enabled', cache', <<SupplyAtom, 1>>)
  BY <1>1 DEF Boot, SupplyApplied
<1> QED
  BY <1>2, <1>3 DEF Updated

(* New gains put their offsets into effect on the channels that take them,   *)
(* and leave the others alone.                                               *)
LEMMA AmplifyAppliesCalibration ==
  ASSUME TypeOK, CalibrationInEffect, NEW cs, NEW g \in Gains, Amplify(cs, g)
  PROVE  CalibrationInEffect'
<1> SUFFICES ASSUME build.dms, NEW c \in Channels
             PROVE  dac'[c] \in {Direct, Offset(enabled, cache, EntryOf(c, mode[c], gain'[c]))}
  BY DEF CalibrationInEffect, Amplify, calibrationVars, historyVars
<1>1. PICK failed \in SUBSET cs :
        /\ gain' = [d \in Channels |-> IF d \in cs \ failed THEN g ELSE gain[d]]
        /\ dac' = [d \in Channels |-> IF d \in cs \ failed
                     THEN DacsApplied(enabled, cache, mode, gain')[d] ELSE dac[d]]
  BY DEF Amplify
<1>2. CASE c \in cs \ failed
  <2>1. dac'[c] = Updated(enabled, cache, mode, gain')[c]
    BY <1>1, <1>2 DEF DacsApplied
  <2> QED
    BY <2>1 DEF Updated
<1>3. CASE c \notin cs \ failed
  <2>1. dac'[c] = dac[c] /\ gain'[c] = gain[c]
    BY <1>1, <1>3
  <2> QED
    BY <2>1 DEF CalibrationInEffect
<1> QED
  BY <1>2, <1>3

(* CalibrationInEffect holds in every behaviour: the DACs follow the mode,   *)
(* the gain and the calibration data in the cache.                           *)
THEOREM CalibrationHeld == Spec => []CalibrationInEffect
<1>1. Init => CalibrationInEffect
  <2> SUFFICES ASSUME Init, build.dms
               PROVE  /\ \A c \in Channels :
                           dac[c] = Offset(enabled, cache, EntryOf(c, mode[c], gain[c]))
                      /\ supply = Offset(enabled, cache, <<SupplyAtom, 1>>)
    BY DEF CalibrationInEffect
  <2>1. dac = Updated(enabled, cache, mode, gain)
    BY DEF Init, DacsAtBoot
  <2>2. supply = Offset(enabled, cache, <<SupplyAtom, 1>>)
    BY DEF Init, SupplyApplied
  <2> QED
    BY <2>1, <2>2 DEF Updated
<1>2. TypeOK /\ CalibrationInEffect /\ [Next]_vars => CalibrationInEffect'
  <2> SUFFICES ASSUME TypeOK, CalibrationInEffect, [Next]_vars PROVE CalibrationInEffect'
    OBVIOUS
  <2> USE DEF calibrationVars, channelVars, historyVars
  <2>1. CASE Restart
    <3>1. PICK received : Boot(eeprom, received) /\ eeprom' = eeprom
      BY <2>1 DEF Restart
    <3>2. Boot(eeprom', received)
      BY <3>1
    <3> QED
      BY <3>2, BootAppliesCalibration
  <2>2. ASSUME NEW c \in Channels, NEW m \in Modes, SetMode(c, m)
        PROVE  CalibrationInEffect'
    <3> SUFFICES ASSUME build.dms, NEW d \in Channels
                 PROVE  dac'[d] \in {Direct, Offset(enabled, cache, EntryOf(d, mode'[d], gain[d]))}
      BY <2>2 DEF CalibrationInEffect, SetMode
    <3>1. CASE d = c
      <4>1. dac'[d] = Updated(enabled, cache, mode', gain)[d]
        BY <2>2, <3>1 DEF SetMode, DacsApplied, TypeOK
      <4> QED
        BY <4>1 DEF Updated
    <3>2. CASE d # c
      <4>1. dac'[d] = dac[d] /\ mode'[d] = mode[d]
        BY <2>2, <3>2 DEF SetMode, TypeOK
      <4> QED
        BY <4>1 DEF CalibrationInEffect
    <3> QED
      BY <3>1, <3>2
  <2>3. ASSUME NEW c \in Channels, NEW g \in Gains, SetGain(c, g)
        PROVE  CalibrationInEffect'
    BY <2>3, AmplifyAppliesCalibration DEF SetGain
  <2>4. ASSUME NEW g \in Gains, MenuGain(g) PROVE CalibrationInEffect'
    BY <2>4, AmplifyAppliesCalibration DEF MenuGain
  <2>5. ASSUME NEW c \in Channels, SetDac(c) PROVE CalibrationInEffect'
    BY <2>5 DEF SetDac, TypeOK, CalibrationInEffect
  <2>6. ASSUME NEW on \in BOOLEAN, EnableAdc(on) PROVE CalibrationInEffect'
    BY <2>6 DEF EnableAdc, CalibrationInEffect
  <2>7. CASE StartSearch \/ SearchStep
    BY <2>7 DEF StartSearch, SearchStep, CalibrationInEffect
  <2>8. ASSUME NEW on \in BOOLEAN, EnableCalibration(on) PROVE CalibrationInEffect'
    <3> SUFFICES ASSUME build.dms
                 PROVE  /\ \A c \in Channels :
                             dac'[c] = Offset(on, cache, EntryOf(c, mode[c], gain[c]))
                        /\ supply' = Offset(on, cache, <<SupplyAtom, 1>>)
      BY <2>8 DEF EnableCalibration, CalibrationInEffect
    <3>1. /\ dac' = Updated(on, cache, mode, gain)
          /\ supply' = Offset(on, cache, <<SupplyAtom, 1>>)
      BY <2>8 DEF EnableCalibration, DacsApplied, SupplyApplied
    <3> QED
      BY <3>1 DEF Updated
  <2>9. ASSUME NEW last \in Entries, NEW v \in Offsets, WriteData(Named(last), v)
        PROVE  CalibrationInEffect'
    <3> SUFFICES ASSUME build.dms
                 PROVE  /\ \A c \in Channels :
                             dac'[c] = Offset(enabled, cache', EntryOf(c, mode[c], gain[c]))
                        /\ supply' = Offset(enabled, cache', <<SupplyAtom, 1>>)
      BY <2>9 DEF WriteData, CalibrationInEffect
    <3>1. /\ dac' = Updated(enabled, cache', mode, gain)
          /\ supply' = Offset(enabled, cache', <<SupplyAtom, 1>>)
      BY <2>9 DEF WriteData, DacsApplied, SupplyApplied
    <3> QED
      BY <3>1 DEF Updated
  <2>10. ASSUME NEW last \in Entries, NEW v \in Offsets, WriteCutShort(Named(last), v)
         PROVE  CalibrationInEffect'
    BY <2>10, BootAppliesCalibration DEF WriteCutShort
  <2>11. CASE SelfTest
    BY <2>11 DEF SelfTest, CalibrationInEffect
  <2>12. CASE UNCHANGED vars
    BY <2>12 DEF vars, CalibrationInEffect
  <2> QED
    BY <2>1, <2>2, <2>3, <2>4, <2>5, <2>6, <2>7, <2>8, <2>9, <2>10, <2>11, <2>12 DEF Next
<1> QED
  BY <1>1, <1>2, BoardTypeCorrect, PTL DEF Spec

-----------------------------------------------------------------------------
(* Cache, chip and the entries in them *)

(* While the chip is known to hold an entry and this boot could read it, the *)
(* cache is what the chip holds: a write then starts from the chip's data.   *)
KnownIsCached ==
  ~blind /\ (\E e \in Entries : known[e] # Unknown) => cache = eeprom

CalibrationInv == CacheMatchesEeprom /\ EntriesSurvive /\ KnownIsCached

(* After a boot the cache is the chip's image, or the boot tells.            *)
LEMMA BootReadsChip ==
  ASSUME NEW received \in BOOLEAN, Boot(eeprom', received)
  PROVE  /\ CacheMatchesEeprom'
         /\ ~blind' /\ Readable(eeprom)' => cache' = eeprom'
BY DEF Boot, CacheMatchesEeprom, CacheAtBoot, ErrorAtBoot, Usable, Readable

(* The inductive invariant behind the survival of calibration entries.       *)
THEOREM CalibrationKept == Spec => []CalibrationInv
<1>1. Init => CalibrationInv
  <2> SUFFICES ASSUME Init PROVE CalibrationInv
    OBVIOUS
  <2>1. CacheMatchesEeprom
    BY DEF Init, CacheMatchesEeprom, CacheAtBoot, ErrorAtBoot, Usable
  <2>2. \A e \in Entries : known[e] # Unknown => Readable(eeprom) /\ eeprom.map[e] = known[e]
    BY DEF Init
  <2>3. KnownIsCached
    BY <2>2 DEF Init, KnownIsCached, CacheAtBoot, Usable, Readable
  <2> QED
    BY <2>1, <2>2, <2>3 DEF CalibrationInv, EntriesSurvive
<1>2. TypeOK /\ CalibrationInv /\ [Next]_vars => CalibrationInv'
  <2> SUFFICES ASSUME TypeOK, CalibrationInv, [Next]_vars PROVE CalibrationInv'
    OBVIOUS
  <2> USE DEF calibrationVars, channelVars, historyVars
  <2>1. CASE Restart
    <3>1. PICK received \in BOOLEAN : Boot(eeprom, received)
      BY <2>1 DEF Restart
    <3>2. eeprom' = eeprom /\ known' = known
      BY <2>1 DEF Restart
    <3>3. /\ CacheMatchesEeprom'
          /\ ~blind' /\ Readable(eeprom)' => cache' = eeprom'
      BY <3>1, <3>2, BootReadsChip
    <3>4. EntriesSurvive'
      BY <3>2 DEF CalibrationInv, EntriesSurvive, Readable
    <3>5. KnownIsCached'
      BY <3>3, <3>4 DEF KnownIsCached, EntriesSurvive
    <3> QED
      BY <3>3, <3>4, <3>5 DEF CalibrationInv
  <2>2. ASSUME NEW last \in Entries, NEW v \in Offsets, WriteData(Named(last), v)
        PROVE  CalibrationInv'
    <3> DEFINE named == Named(last)
    <3>1. NewMap(named, v) \in Maps /\ cache' = Calibrated(NewMap(named, v))
      BY <2>2, NewMapTyped DEF WriteData
    <3>2. Readable(cache)' /\ cache'.map = NewMap(named, v)
      BY <3>1, ImageTyped DEF Readable
    <3>3. CASE /\ eeprom' = cache'
               /\ known' = [e \in Entries |->
                    IF e \in named THEN v ELSE IF blind THEN Unknown ELSE known[e]]
      <4>1. ASSUME NEW e \in Entries, known'[e] # Unknown
            PROVE  Readable(eeprom)' /\ eeprom'.map[e] = known'[e]
        <5>1. Readable(eeprom)' /\ eeprom'.map[e] = NewMap(named, v)[e]
          BY <3>2, <3>3 DEF Readable
        <5>2. CASE e \in named
          BY <3>3, <5>1, <5>2 DEF NewMap
        <5>3. CASE e \notin named
          <6>1. ~blind /\ known[e] # Unknown /\ known'[e] = known[e]
            BY <3>3, <4>1, <5>3
          <6>2. cache = eeprom /\ eeprom.map[e] = known[e]
            BY <6>1 DEF CalibrationInv, KnownIsCached, EntriesSurvive
          <6> QED
            BY <5>1, <5>3, <6>1, <6>2 DEF NewMap, WriteBase
        <5> QED
          BY <5>2, <5>3, <5>1
      <4> QED
        BY <3>3, <4>1 DEF CalibrationInv, CacheMatchesEeprom, EntriesSurvive, KnownIsCached
    <3>4. CASE /\ eepromError' = "unavailable"
               /\ known' = [e \in Entries |-> Unknown]
      BY <3>4 DEF CalibrationInv, CacheMatchesEeprom, EntriesSurvive, KnownIsCached
    <3> QED
      BY <2>2, <3>3, <3>4 DEF WriteData
  <2>3. ASSUME NEW last \in Entries, NEW v \in Offsets, WriteCutShort(Named(last), v)
        PROVE  CalibrationInv'
    <3>1. known' = [e \in Entries |-> Unknown] /\ CacheMatchesEeprom'
      BY <2>3, BootReadsChip DEF WriteCutShort
    <3> QED
      BY <3>1 DEF CalibrationInv, EntriesSurvive, KnownIsCached
  <2>4. CASE SelfTest
    <3>1. CASE tested' /\ known' = [e \in Entries |-> Unknown]
      BY <3>1 DEF CalibrationInv, CacheMatchesEeprom, EntriesSurvive, KnownIsCached
    <3>2. CASE UNCHANGED <<eeprom, tested, known>>
      BY <2>4, <3>2 DEF SelfTest, CalibrationInv, CacheMatchesEeprom, EntriesSurvive,
                        KnownIsCached, Readable
    <3> QED
      BY <2>4, <3>1, <3>2 DEF SelfTest
  <2>5. CASE UNCHANGED <<eeprom, cache, eepromError, known, blind, tested>>
    BY <2>5 DEF CalibrationInv, CacheMatchesEeprom, EntriesSurvive, KnownIsCached, Readable
  <2>6. ASSUME NEW c \in Channels, NEW m \in Modes, SetMode(c, m) PROVE CalibrationInv'
    BY <2>5, <2>6 DEF SetMode
  <2>7. ASSUME NEW c \in Channels, NEW g \in Gains, SetGain(c, g) PROVE CalibrationInv'
    BY <2>5, <2>7 DEF SetGain, Amplify
  <2>8. ASSUME NEW g \in Gains, MenuGain(g) PROVE CalibrationInv'
    BY <2>5, <2>8 DEF MenuGain, Amplify
  <2>9. ASSUME NEW c \in Channels, SetDac(c) PROVE CalibrationInv'
    BY <2>5, <2>9 DEF SetDac
  <2>10. ASSUME NEW on \in BOOLEAN, EnableAdc(on) PROVE CalibrationInv'
    BY <2>5, <2>10 DEF EnableAdc
  <2>11. CASE StartSearch \/ SearchStep
    BY <2>5, <2>11 DEF StartSearch, SearchStep
  <2>12. ASSUME NEW on \in BOOLEAN, EnableCalibration(on) PROVE CalibrationInv'
    BY <2>5, <2>12 DEF EnableCalibration
  <2>13. CASE UNCHANGED vars
    BY <2>5, <2>13 DEF vars
  <2> QED
    BY <2>1, <2>2, <2>3, <2>4, <2>6, <2>7, <2>8, <2>9, <2>10, <2>11, <2>12, <2>13 DEF Next
<1> QED
  BY <1>1, <1>2, BoardTypeCorrect, PTL DEF Spec

(* CacheMatchesEeprom holds in every behaviour. *)
THEOREM CacheAndChipAgree == Spec => []CacheMatchesEeprom
<1>1. CalibrationInv => CacheMatchesEeprom
  BY DEF CalibrationInv
<1> QED
  BY <1>1, CalibrationKept, PTL

(* EntriesSurvive holds in every behaviour, through any number of writes and *)
(* restarts.                                                                 *)
THEOREM EntriesKept == Spec => []EntriesSurvive
<1>1. CalibrationInv => EntriesSurvive
  BY DEF CalibrationInv
<1> QED
  BY <1>1, CalibrationKept, PTL

(* From the chip to the DAC: with the calibration enabled, no error reported *)
(* and no self-test since, a channel's DAC that nobody wrote directly holds  *)
(* the offset stored in the chip for its mode and gain.                      *)
StoredInEffect ==
  build.dms /\ enabled /\ eepromError = "ok" /\ ~tested /\ Readable(eeprom) =>
    \A c \in Channels : dac[c] # Direct => dac[c] = eeprom.map[EntryOf(c, mode[c], gain[c])]

(* StoredInEffect holds in every behaviour. *)
THEOREM ChipToDac == Spec => []StoredInEffect
<1>1. CalibrationInEffect /\ CacheMatchesEeprom => StoredInEffect
  BY DEF CalibrationInEffect, CacheMatchesEeprom, StoredInEffect, Offset
<1> QED
  BY <1>1, CalibrationHeld, CacheAndChipAgree, PTL

-----------------------------------------------------------------------------
(* The measurement *)

(* MeasurementConfigured holds in every behaviour: nothing unsets a mode or  *)
(* a gain while the ADCs measure.                                            *)
THEOREM Configured == Spec => []MeasurementConfigured
<1>1. Init => MeasurementConfigured
  BY DEF Init, MeasurementConfigured
<1>2. TypeOK /\ MeasurementConfigured /\ [Next]_vars => MeasurementConfigured'
  <2> SUFFICES ASSUME TypeOK, MeasurementConfigured, [Next]_vars PROVE MeasurementConfigured'
    OBVIOUS
  <2> USE DEF calibrationVars, channelVars, historyVars
  <2>1. ASSUME NEW image, NEW received, Boot(image, received) PROVE MeasurementConfigured'
    BY <2>1 DEF Boot, MeasurementConfigured
  <2>2. CASE Restart
    BY <2>1, <2>2 DEF Restart
  <2>3. ASSUME NEW c \in Channels, NEW m \in Modes, SetMode(c, m)
        PROVE  MeasurementConfigured'
    BY <2>3 DEF SetMode, TypeOK, MeasurementConfigured
  <2>4. ASSUME NEW cs, NEW g \in Gains, Amplify(cs, g) PROVE MeasurementConfigured'
    <3>1. PICK failed \in SUBSET cs :
            gain' = [d \in Channels |-> IF d \in cs \ failed THEN g ELSE gain[d]]
      BY <2>4 DEF Amplify
    <3> QED
      BY <2>4, <3>1 DEF Amplify, MeasurementConfigured
  <2>5. ASSUME NEW on \in BOOLEAN, EnableAdc(on) PROVE MeasurementConfigured'
    BY <2>5 DEF EnableAdc, ChannelsConfigured, TypeOK, MeasurementConfigured
  <2>6. ASSUME NEW last \in Entries, NEW v \in Offsets, WriteCutShort(Named(last), v)
        PROVE  MeasurementConfigured'
    BY <2>1, <2>6 DEF WriteCutShort
  <2>7. CASE UNCHANGED <<adc, mode, gain>>
    BY <2>7 DEF MeasurementConfigured
  <2>8. CASE \/ \E c \in Channels : SetDac(c)
             \/ StartSearch \/ SearchStep
             \/ \E on \in BOOLEAN : EnableCalibration(on)
             \/ \E last \in Entries, v \in Offsets : WriteData(Named(last), v)
             \/ SelfTest \/ UNCHANGED vars
    BY <2>7, <2>8 DEF SetDac, StartSearch, SearchStep, EnableCalibration, WriteData,
                      SelfTest, vars
  <2> QED
    BY <2>2, <2>3, <2>4, <2>5, <2>6, <2>8 DEF Next, SetGain, MenuGain
<1> QED
  BY <1>1, <1>2, BoardTypeCorrect, PTL DEF Spec

(* FrozenOnDms holds of every step. *)
THEOREM Frozen == Spec => FrozenOnDms
<1>1. [Next]_vars => (build.dms /\ adc /\ adc' => UNCHANGED <<mode, gain, pga>>)
  <2> SUFFICES ASSUME [Next]_vars, build.dms, adc, adc' PROVE UNCHANGED <<mode, gain, pga>>
    OBVIOUS
  <2> USE DEF calibrationVars, channelVars, historyVars
  <2>1. ~Settable
    BY DEF Settable
  <2>2. \A image, received : ~Boot(image, received)
    BY DEF Boot
  <2>3. \A c, m : ~SetMode(c, m)
    BY <2>1 DEF SetMode
  <2>4. \A cs, g : ~Amplify(cs, g)
    BY <2>1 DEF Amplify
  <2>5. CASE \/ \E c \in Channels : SetDac(c)
             \/ \E on \in BOOLEAN : EnableAdc(on) \/ EnableCalibration(on)
             \/ StartSearch \/ SearchStep
             \/ \E last \in Entries, v \in Offsets : WriteData(Named(last), v)
             \/ SelfTest \/ UNCHANGED vars
    BY <2>5 DEF SetDac, EnableAdc, EnableCalibration, StartSearch, SearchStep, WriteData,
                SelfTest, vars
  <2> QED
    BY <2>2, <2>3, <2>4, <2>5 DEF Next, Restart, SetGain, MenuGain, WriteCutShort
<1> QED
  BY <1>1, PTL DEF Spec, FrozenOnDms

=============================================================================
