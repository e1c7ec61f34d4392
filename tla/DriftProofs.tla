------------------------------ MODULE DriftProofs ------------------------------
(***************************************************************************)
(* Proofs about Drift, for any settings, numbers of channels, faults,      *)
(* killed processes and restarts of the board.                             *)
(***************************************************************************)
EXTENDS Drift, TLAPS, FiniteSetTheorems

Documents == [rate : Nat, size : Nat, freq : Nat]

\* An optional value: a set of at most one element.
IsOptional(value, S) == value \in SUBSET S /\ \A x, y \in value : x = y

BoardTypes ==
  /\ adc \in BOOLEAN /\ mode \in Modes
  /\ level \in 0 .. MaxLevel /\ file \in References

FieldTypes ==
  /\ up \in BOOLEAN /\ started \in BOOLEAN /\ moved \in BOOLEAN
  /\ settings \in Documents /\ burstSize \in Nat
  /\ IsOptional(references, References) /\ IsOptional(deltas, Int)
  /\ IsOptional(base, References)

ThreadTypes ==
  /\ handlers \subseteq {"app", "ready", "notify", "stray"} /\ queue \subseteq Modes

CallTypes ==
  /\ at \in Steps /\ stash \in Documents /\ IsOptional(refs, References)
  /\ mean \in Int /\ result \subseteq Modes

DriftTypes == BoardTypes /\ FieldTypes /\ ThreadTypes /\ CallTypes

NoCalculation == at \in {"idle", "died"}
Beginning == at \in {"ask", "stash", "modes", "rate", "start"}
Ending    == at \in {"restore", "restore board", "return"}
Saving    == at \in {"write", "cache"}

\* The file is what a calculation has made, unless a digit is missing; so are the
\* references wherever they are, and the mean on its way into file and cache.
OnRecord ==
  /\ file # NoFile /\ file.exact => file.value \in made
  /\ ReferencesOnRecord
  /\ \A r \in refs : Sound(r)
  /\ \A r \in base : Sound(r)
  /\ Saving => mean \in made

\* A calculation of deltas has references, and they are not cleared under it.
Related ==
  /\ deltas # None => references # None /\ base # None
  /\ refs # None => references # None
  /\ NoCalculation => refs = None
  /\ ~NoCalculation /\ job = "deltas" => refs # None

\* The threads have a handler of the call only when it has begun a measurement,
\* and it is that handler which ends its waiting.
HandlerFits ==
  /\ at = "stop" => done
  /\ ~done => result = {}
  /\ NoCalculation \/ Beginning => handlers \cap Own = {}
  /\ handlers \cap Own # {} => Waiting \/ done

\* While the call waits for rows, nobody has changed what the guard has set;
\* a restart of the board stops it as well.
SettingsHeld ==
  /\ at = "start" \/ Waiting => settings.rate = FullRate /\ burstSize = DriftRows
  /\ at \in {"rate", "start"} \/ Waiting => mode \in {"current", "unset"}
  /\ Waiting /\ adc => mode = "current"

\* Unless the board has restarted under them, threads live and rows are in the
\* queue only while the board measures and the cached flag says so; a call that
\* nothing has failed in has ended both.
KnownToBoard ==
  /\ at \in {"stash", "modes", "rate", "start"} => ~adc
  /\ ~orphans =>
       /\ handlers # {} => adc /\ started
       /\ queue # {} => adc
       /\ Waiting => queue \subseteq {"current"}
       /\ (Ending /\ ~failed) \/ Saving => handlers = {} /\ ~adc /\ ~started

DriftInv ==
  /\ DriftTypes /\ OnRecord /\ Related /\ HandlerFits /\ SettingsHeld /\ KnownToBoard

-----------------------------------------------------------------------------
(* Settings documents and optional values.                                  *)

LEMMA ChoicesAreDocuments == DriftAssumption => Choices \subseteq Documents
<1> SUFFICES ASSUME DriftAssumption, NEW s \in Choices PROVE s \in Documents
  OBVIOUS
<1>1. s \in [rate : Rates \cup {Unset}, size : BurstSizes \cup {Unset}, freq : Frequencies \cup {Unset}]
  BY DEF Choices
<1>2. /\ Rates \cup {Unset} \subseteq Nat /\ BurstSizes \cup {Unset} \subseteq Nat
      /\ Frequencies \cup {Unset} \subseteq Nat
  BY DEF DriftAssumption, Unset
<1> QED BY <1>1, <1>2 DEF Documents

LEMMA MergedIsDocument ==
  ASSUME NEW old \in Documents, NEW new \in Documents
  PROVE  Merged(old, new) \in Documents
BY DEF Merged, Documents, Unset

LEMMA BurstSizeIsNat ==
  ASSUME FieldTypes, NEW new \in Documents
  PROVE  BurstSizeAfter(new) \in Nat
<1>1. new.size \in Nat /\ new.rate \in Nat /\ new.freq \in Nat /\ burstSize \in Nat
  BY DEF FieldTypes, Documents
<1>2. ASSUME new.freq # 0 PROVE new.rate \div new.freq \in Nat
  <2> DEFINE rate == new.rate
             freq == new.freq
  <2>1. rate \in Nat /\ freq \in Nat \ {0}
    BY <1>1, <1>2
  <2> HIDE DEF rate, freq
  <2>2. rate \div freq \in Nat
    BY <2>1
  <2> QED BY <2>2 DEF rate, freq
<1> QED BY <1>1, <1>2 DEF BurstSizeAfter, Unset

\* The settings a drift calculation merges in are those it measures under.
LEMMA DriftSettingsMerged ==
  ASSUME DriftAssumption, NEW old \in Documents
  PROVE  /\ DriftSettings \in Documents /\ Merged(old, DriftSettings).rate = FullRate
         /\ BurstSizeAfter(DriftSettings) = DriftRows
BY DEF DriftAssumption, DriftSettings, Documents, Merged, BurstSizeAfter, Unset

LEMMA ReadIsOptional ==
  ASSUME BoardTypes
  PROVE  /\ IsOptional(ReadFile, References)
         /\ \A r \in ReadFile : r = file /\ r.numbers = Channels /\ r # NoFile
BY DEF BoardTypes, ReadFile, Enough, IsOptional, None

LEMMA NoneIsOptional == \A S : IsOptional(None, S)
BY DEF IsOptional, None

LEMMA EmptyIsDocument == Empty \in Documents
BY DEF Empty, Documents, Unset

\* What is left when a call returns.
LEMMA ReturnTyped ==
  ASSUME CallTypes, ThreadTypes, Return
  PROVE  CallTypes' /\ ThreadTypes'
<1>1. at' \in Steps /\ mean' \in Int /\ result' \subseteq Modes
  BY DEF Return, NoCall, Steps
<1>2. stash' \in Documents /\ IsOptional(refs', References)
  BY NoneIsOptional, EmptyIsDocument DEF Return, NoCall
<1>3. ThreadTypes'
  BY DEF ThreadTypes, Return, Own
<1> QED BY <1>1, <1>2, <1>3 DEF CallTypes

\* A process that is gone, or a new one.
LEMMA FreshKeeps ==
  ASSUME DriftInv, Fresh, at' \in {"idle", "died"}, up' \in BOOLEAN, BoardTypes',
         UNCHANGED file, made' = made
  PROVE  DriftInv'
<1>1. /\ IsOptional(references', References) /\ IsOptional(deltas', Int)
      /\ IsOptional(refs', References) /\ IsOptional(base', References)
      /\ settings' \in Documents /\ stash' \in Documents
  BY NoneIsOptional, EmptyIsDocument DEF Fresh, NoCall
<1>2. FieldTypes' /\ ThreadTypes' /\ CallTypes'
  <2>1. FieldTypes'
    BY <1>1 DEF Fresh, FieldTypes
  <2>2. ThreadTypes'
    BY DEF Fresh, ThreadTypes
  <2>3. at' \in Steps
    BY DEF Steps
  <2>4. mean' \in Int /\ result' \subseteq Modes
    BY DEF Fresh, NoCall
  <2> QED BY <2>4, <1>1, <2>1, <2>2, <2>3 DEF CallTypes
<1>3. OnRecord' /\ Related'
  BY DEF DriftInv, Fresh, NoCall, OnRecord, ReferencesOnRecord, Related, Saving, None,
         NoCalculation
<1>4. HandlerFits' /\ SettingsHeld' /\ KnownToBoard'
  BY DEF Fresh, NoCall, HandlerFits, SettingsHeld, KnownToBoard,
         Beginning, Waiting, Ending, Saving, Own
<1> QED BY <1>2, <1>3, <1>4 DEF DriftInv, DriftTypes

LEMMA DriftInitially ==
  ASSUME DriftAssumption, Init
  PROVE  DriftInv
<1>1. BoardTypes
  <2>1. NoFile \in References /\ 0 \in 0 .. MaxLevel
    BY DEF DriftAssumption, References, NoFile
  <2> QED BY <2>1 DEF Init, BoardTypes, Modes
<1>2. FieldTypes /\ ThreadTypes /\ CallTypes
  <2>1. /\ references = None /\ deltas = None /\ refs = None /\ base = None
        /\ settings = Empty /\ stash = Empty
    BY DEF Init
  <2>2. /\ IsOptional(references, References) /\ IsOptional(deltas, Int)
        /\ IsOptional(refs, References) /\ IsOptional(base, References)
        /\ settings \in Documents /\ stash \in Documents
    BY <2>1, NoneIsOptional, EmptyIsDocument
  <2>3. FieldTypes
    BY <2>2 DEF Init, FieldTypes
  <2>4. ThreadTypes
    BY DEF Init, ThreadTypes
  <2>5. at \in Steps /\ mean \in Int /\ result \subseteq Modes
    BY DEF Init, Steps
  <2> QED BY <2>2, <2>3, <2>4, <2>5 DEF CallTypes
<1>3. OnRecord /\ Related
  BY DEF Init, OnRecord, ReferencesOnRecord, Related, Saving, None, NoCalculation
<1>4. HandlerFits /\ SettingsHeld /\ KnownToBoard
  BY DEF Init, HandlerFits, SettingsHeld, KnownToBoard,
         Beginning, Waiting, Ending, Saving, Own
<1> QED BY <1>1, <1>2, <1>3, <1>4 DEF DriftInv, DriftTypes

LEMMA ProcessKeeps ==
  ASSUME DriftInv, Initialize \/ Killed \/ Dies
  PROVE  DriftInv'
<1>1. Fresh /\ at' \in {"idle", "died"} /\ up' \in BOOLEAN /\ UNCHANGED <<file, made>>
  BY DEF Initialize, Killed, Dies, boardv
<1>2. BoardTypes'
  BY DEF DriftInv, DriftTypes, BoardTypes, Modes, Initialize, Killed, Dies, boardv
<1> QED BY <1>1, <1>2, FreshKeeps

\* Beginning a measurement, and failing to; ending one, and failing to.
LEMMA ThreadsTyped ==
  ASSUME BoardTypes, ThreadTypes, NEW h \in {"app", "ready"},
         \/ Begun(h) \/ NotBegun \/ Stopped \/ NotDisabled \/ NothingToStop \/ NotAsked
  PROVE  ThreadTypes'
BY DEF BoardTypes, ThreadTypes, Begun, NotBegun, Stopped, NotDisabled, Joined,
       NothingToStop, NotAsked, threadv

LEMMA NoneStrays ==
  ASSUME NEW h \in {"app", "ready"}, "stray" \in handlers',
         \/ Begun(h) \/ NotBegun \/ Stopped \/ NotDisabled \/ NothingToStop \/ NotAsked
  PROVE  "stray" \in handlers
<1>1. handlers' \in {handlers, handlers \cup {h}, {}}
  BY Zenon DEF Begun, NotBegun, Stopped, NotDisabled, Joined, NothingToStop, NotAsked, threadv
<1> QED BY <1>1

-----------------------------------------------------------------------------
(* One lemma per action.                                                    *)

LEMMA BoardRestartKeeps ==
  ASSUME DriftAssumption, DriftInv, BoardRestart
  PROVE  DriftInv'
<1> USE DEF DriftInv, DriftTypes, BoardRestart, fields, threadv, localv
<1>1. FieldTypes' /\ ThreadTypes' /\ CallTypes'
  <2>1. FieldTypes'
    BY DEF FieldTypes, IsOptional
  <2>2. ThreadTypes'
    BY DEF ThreadTypes
  <2>3. CallTypes'
    BY DEF CallTypes, Steps, IsOptional
  <2> QED BY <2>1, <2>2, <2>3
<1>2. BoardTypes'
  BY DEF BoardTypes, Modes
<1>3. OnRecord'
  BY DEF OnRecord, ReferencesOnRecord, Sound, Saving
<1>4. Related'
  BY DEF Related, NoCalculation
<1>5. HandlerFits'
  BY DEF HandlerFits, NoCalculation, Beginning, Waiting, Own
<1>6. SettingsHeld'
  BY DEF SettingsHeld, Waiting
<1>7. KnownToBoard'
  BY DEF KnownToBoard, HandlerFits, SettingsHeld, Waiting, Ending, Saving, Own
<1> QED BY <1>1, <1>2, <1>3, <1>4, <1>5, <1>6, <1>7

LEMMA DriftsKeeps ==
  ASSUME DriftAssumption, DriftInv, Drifts
  PROVE  DriftInv'
<1> USE DEF DriftInv, DriftTypes, Drifts, fields, threadv, localv, hist
<1>1. FieldTypes' /\ ThreadTypes' /\ CallTypes'
  <2>1. FieldTypes'
    BY DEF FieldTypes, IsOptional
  <2>2. ThreadTypes'
    BY DEF ThreadTypes
  <2>3. CallTypes'
    BY DEF CallTypes, Steps, IsOptional
  <2> QED BY <2>1, <2>2, <2>3
<1>2. BoardTypes'
  <2>1. level \in 0 .. MaxLevel /\ level < MaxLevel /\ level' = level + 1 /\ MaxLevel \in Nat
    BY DEF BoardTypes, DriftAssumption
  <2>2. level' \in 0 .. MaxLevel
    BY <2>1
  <2> QED BY <2>2 DEF BoardTypes
<1>3. OnRecord'
  BY DEF OnRecord, ReferencesOnRecord, Sound, Saving
<1>4. Related'
  BY DEF Related, NoCalculation
<1>5. HandlerFits'
  BY DEF HandlerFits, NoCalculation, Beginning, Waiting, Own
<1>6. SettingsHeld'
  BY DEF SettingsHeld, Waiting
<1>7. KnownToBoard'
  BY DEF KnownToBoard, HandlerFits, SettingsHeld, Waiting, Ending, Saving, Own
<1> QED BY <1>1, <1>2, <1>3, <1>4, <1>5, <1>6, <1>7

LEMMA SetDriverSettingsKeeps ==
  ASSUME DriftAssumption, DriftInv, NEW new \in Choices, NEW merge \in BOOLEAN,
         SetDriverSettings(new, merge)
  PROVE  DriftInv'
<1> USE DEF DriftInv, DriftTypes, SetDriverSettings, Idle, boardv, threadv, localv, hist
<1>1. BoardTypes' /\ ThreadTypes' /\ CallTypes'
  <2>1. BoardTypes'
    BY DEF BoardTypes
  <2>2. ThreadTypes'
    BY DEF ThreadTypes
  <2>3. CallTypes'
    BY DEF CallTypes, Steps, IsOptional
  <2> QED BY <2>1, <2>2, <2>3
<1>2. FieldTypes'
  <2>1. new \in Documents
    BY ChoicesAreDocuments
  <2>2. Merged(settings, new) \in Documents /\ BurstSizeAfter(new) \in Nat
    BY <2>1, MergedIsDocument, BurstSizeIsNat DEF FieldTypes
  <2> QED BY <2>1, <2>2 DEF FieldTypes, BoardTypes, IsOptional
<1>3. OnRecord'
  BY DEF OnRecord, ReferencesOnRecord, Sound, Saving
<1>4. Related'
  BY DEF Related, NoCalculation
<1>5. HandlerFits'
  BY DEF HandlerFits, NoCalculation, Beginning, Waiting, Own
<1>6. SettingsHeld'
  BY DEF SettingsHeld, Waiting
<1>7. KnownToBoard'
  BY DEF KnownToBoard, HandlerFits, SettingsHeld, Waiting, Ending, Saving, Own
<1> QED BY <1>1, <1>2, <1>3, <1>4, <1>5, <1>6, <1>7

LEMMA SetModesKeeps ==
  ASSUME DriftAssumption, DriftInv, SetModes
  PROVE  DriftInv'
<1> USE DEF DriftInv, DriftTypes, SetModes, Idle, fields, threadv, localv, hist
<1>1. FieldTypes' /\ ThreadTypes' /\ CallTypes'
  <2>1. FieldTypes'
    BY DEF FieldTypes, IsOptional
  <2>2. ThreadTypes'
    BY DEF ThreadTypes
  <2>3. CallTypes'
    BY DEF CallTypes, Steps, IsOptional
  <2> QED BY <2>1, <2>2, <2>3
<1>2. BoardTypes'
  BY DEF BoardTypes, Modes
<1>3. OnRecord'
  BY DEF OnRecord, ReferencesOnRecord, Sound, Saving
<1>4. Related'
  BY DEF Related, NoCalculation
<1>5. HandlerFits'
  BY DEF HandlerFits, NoCalculation, Beginning, Waiting, Own
<1>6. SettingsHeld'
  BY DEF SettingsHeld, Waiting
<1>7. KnownToBoard'
  BY DEF KnownToBoard, HandlerFits, SettingsHeld, Waiting, Ending, Saving, Own
<1> QED BY <1>1, <1>2, <1>3, <1>4, <1>5, <1>6, <1>7

LEMMA StartKeeps ==
  ASSUME DriftAssumption, DriftInv, Start
  PROVE  DriftInv'
<1> USE DEF DriftInv, DriftTypes, Start, Idle, localv
<1>1. CallTypes'
  <2>1. CallTypes'
    BY DEF CallTypes, Steps, IsOptional
  <2> QED BY <2>1
<1>2. BoardTypes'
  BY DEF BoardTypes, Begun, NotBegun, Stopped, NotDisabled, NothingToStop, NotAsked, Joined
<1>3. FieldTypes'
  BY DEF FieldTypes, BoardTypes, IsOptional, Begun, NotBegun, Stopped, NotDisabled, NothingToStop, NotAsked, Joined
<1>4. ThreadTypes'
  <2>1. CASE UNCHANGED threadv
    BY <2>1 DEF ThreadTypes, threadv
  <2>2. CASE Begun("app") \/ NotBegun
    BY <2>2, ThreadsTyped
  <2> QED BY <2>1, <2>2
<1>5. OnRecord'
  BY DEF OnRecord, ReferencesOnRecord, Sound, Saving
<1>6. Related'
  BY DEF Related, NoCalculation
<1>7. HandlerFits'
  BY DEF HandlerFits, NoCalculation, Beginning, Waiting, Own, Begun, NotBegun, Stopped, NotDisabled, NothingToStop, NotAsked, Joined, threadv
<1>8. SettingsHeld'
  BY DEF SettingsHeld, Waiting, Begun, NotBegun
<1>9. KnownToBoard'
  BY DEF KnownToBoard, HandlerFits, SettingsHeld, Waiting, Ending, Saving, Own, Begun, NotBegun, Stopped, NotDisabled, NothingToStop, NotAsked, Joined, threadv
<1> QED BY <1>1, <1>2, <1>3, <1>4, <1>5, <1>6, <1>7, <1>8, <1>9

LEMMA StopKeeps ==
  ASSUME DriftAssumption, DriftInv, Stop
  PROVE  DriftInv'
<1> USE DEF DriftInv, DriftTypes, Stop, Idle, localv
<1>1. CallTypes'
  <2>1. CallTypes'
    BY DEF CallTypes, Steps, IsOptional
  <2> QED BY <2>1
<1>2. BoardTypes'
  BY DEF BoardTypes, Begun, NotBegun, Stopped, NotDisabled, NothingToStop, NotAsked, Joined
<1>3. FieldTypes'
  BY DEF FieldTypes, BoardTypes, IsOptional, Begun, NotBegun, Stopped, NotDisabled, NothingToStop, NotAsked, Joined
<1>4. ThreadTypes'
  BY ThreadsTyped
<1>5. OnRecord'
  BY DEF OnRecord, ReferencesOnRecord, Sound, Saving
<1>6. Related'
  BY DEF Related, NoCalculation
<1>7. HandlerFits'
  BY DEF HandlerFits, NoCalculation, Beginning, Waiting, Own, Begun, NotBegun, Stopped, NotDisabled, NothingToStop, NotAsked, Joined, threadv
<1>8. SettingsHeld'
  BY DEF SettingsHeld, Waiting
<1>9. KnownToBoard'
  BY DEF KnownToBoard, HandlerFits, SettingsHeld, Waiting, Ending, Saving, Own, Begun, NotBegun, Stopped, NotDisabled, NothingToStop, NotAsked, Joined, threadv
<1> QED BY <1>1, <1>2, <1>3, <1>4, <1>5, <1>6, <1>7, <1>8, <1>9

LEMMA ReadReferencesKeeps ==
  ASSUME DriftAssumption, DriftInv, NEW force \in BOOLEAN, ReadReferences(force)
  PROVE  DriftInv'
<1> USE DEF DriftInv, DriftTypes, ReadReferences, Idle, boardv, threadv, localv, hist
<1>1. BoardTypes' /\ ThreadTypes' /\ CallTypes'
  <2>1. BoardTypes'
    BY DEF BoardTypes
  <2>2. ThreadTypes'
    BY DEF ThreadTypes
  <2>3. CallTypes'
    BY DEF CallTypes, Steps, IsOptional
  <2> QED BY <2>1, <2>2, <2>3
<1>2. FieldTypes'
  <2>1. IsOptional(references', References)
    BY ReadIsOptional DEF FieldTypes
  <2> QED BY <2>1 DEF FieldTypes, IsOptional
<1>3. OnRecord'
  BY ReadIsOptional DEF OnRecord, ReferencesOnRecord, Sound, Saving
<1>4. Related'
  BY DEF Related, NoCalculation
<1>5. HandlerFits'
  BY DEF HandlerFits, NoCalculation, Beginning, Waiting, Own
<1>6. SettingsHeld'
  BY DEF SettingsHeld, Waiting
<1>7. KnownToBoard'
  BY DEF KnownToBoard, HandlerFits, SettingsHeld, Waiting, Ending, Saving, Own
<1> QED BY <1>1, <1>2, <1>3, <1>4, <1>5, <1>6, <1>7

LEMMA ClearReferencesKeeps ==
  ASSUME DriftAssumption, DriftInv, ClearReferences
  PROVE  DriftInv'
<1> USE DEF DriftInv, DriftTypes, ClearReferences, Idle, boardv, threadv, localv, NoFile, None
<1>1. FieldTypes' /\ ThreadTypes' /\ CallTypes'
  <2>1. FieldTypes'
    BY DEF FieldTypes, IsOptional
  <2>2. ThreadTypes'
    BY DEF ThreadTypes
  <2>3. CallTypes'
    BY DEF CallTypes, Steps, IsOptional
  <2> QED BY <2>1, <2>2, <2>3
<1>2. BoardTypes'
  BY DEF BoardTypes, References, DriftAssumption
<1>3. OnRecord'
  BY DEF OnRecord, ReferencesOnRecord, Sound, Saving
<1>4. Related'
  BY DEF Related, NoCalculation
<1>5. HandlerFits'
  BY DEF HandlerFits, NoCalculation, Beginning, Waiting, Own
<1>6. SettingsHeld'
  BY DEF SettingsHeld, Waiting
<1>7. KnownToBoard'
  BY DEF KnownToBoard, HandlerFits, SettingsHeld, Waiting, Ending, Saving, Own
<1> QED BY <1>1, <1>2, <1>3, <1>4, <1>5, <1>6, <1>7

LEMMA ClearDeltasKeeps ==
  ASSUME DriftAssumption, DriftInv, ClearDeltas
  PROVE  DriftInv'
<1> USE DEF DriftInv, DriftTypes, ClearDeltas, Idle, boardv, threadv, localv, None
<1>1. BoardTypes' /\ FieldTypes' /\ ThreadTypes' /\ CallTypes'
  <2>1. BoardTypes'
    BY DEF BoardTypes
  <2>2. FieldTypes'
    BY DEF FieldTypes, IsOptional
  <2>3. ThreadTypes'
    BY DEF ThreadTypes
  <2>4. CallTypes'
    BY DEF CallTypes, Steps, IsOptional
  <2> QED BY <2>1, <2>2, <2>3, <2>4
<1>2. OnRecord'
  BY DEF OnRecord, ReferencesOnRecord, Sound, Saving
<1>3. Related'
  BY DEF Related, NoCalculation
<1>4. HandlerFits'
  BY DEF HandlerFits, NoCalculation, Beginning, Waiting, Own
<1>5. SettingsHeld'
  BY DEF SettingsHeld, Waiting
<1>6. KnownToBoard'
  BY DEF KnownToBoard, HandlerFits, SettingsHeld, Waiting, Ending, Saving, Own
<1> QED BY <1>1, <1>2, <1>3, <1>4, <1>5, <1>6

LEMMA CalculateKeeps ==
  ASSUME DriftAssumption, DriftInv, NEW what \in {"references", "deltas"}, Calculate(what)
  PROVE  DriftInv'
<1> USE DEF DriftInv, DriftTypes, Calculate, Idle, Stay, threadv, None
<1>1. BoardTypes' /\ ThreadTypes'
  <2>1. BoardTypes'
    BY DEF BoardTypes
  <2>2. ThreadTypes'
    BY DEF ThreadTypes
  <2> QED BY <2>1, <2>2
<1>2. FieldTypes'
  <2>1. IsOptional(references', References)
    BY ReadIsOptional DEF FieldTypes
  <2> QED BY <2>1 DEF FieldTypes, IsOptional
<1>3. CallTypes'
  <2>1. IsOptional(refs', References)
    BY ReadIsOptional, NoneIsOptional DEF FieldTypes
  <2>2. stash' \in Documents
    BY EmptyIsDocument
  <2>3. at' \in Steps /\ mean' \in Int /\ result' \subseteq Modes
    BY DEF Steps
  <2> QED BY <2>1, <2>2, <2>3 DEF CallTypes
<1>4. OnRecord'
  BY ReadIsOptional DEF OnRecord, ReferencesOnRecord, Sound, Saving
<1>5. Related'
  BY DEF Related, NoCalculation
<1>6. HandlerFits'
  BY DEF HandlerFits, NoCalculation, Beginning, Waiting, Own
<1>7. SettingsHeld'
  BY DEF SettingsHeld, Waiting
<1>8. KnownToBoard'
  BY DEF KnownToBoard, HandlerFits, SettingsHeld, Waiting, Ending, Saving, Own
<1> QED BY <1>1, <1>2, <1>3, <1>4, <1>5, <1>6, <1>7, <1>8

LEMMA AskKeeps ==
  ASSUME DriftAssumption, DriftInv, Ask
  PROVE  DriftInv'
<1> USE DEF DriftInv, DriftTypes, Ask, Stay, Answered, Fault, threadv, localv, None
<1>1. BoardTypes'
  <2>1. BoardTypes'
    BY DEF BoardTypes
  <2> QED BY <2>1
<1>2. FieldTypes'
  BY DEF FieldTypes, BoardTypes, IsOptional
<1>3. ThreadTypes'
  <2>1. CASE Return
    BY <2>1, ReturnTyped
  <2>2. CASE UNCHANGED threadv
    BY <2>2 DEF ThreadTypes, threadv
  <2> QED BY <2>1, <2>2 DEF threadv, localv
<1>4. CallTypes'
  <2>1. CASE Return
    BY <2>1, ReturnTyped
  <2>2. CASE at' = "stash" /\ UNCHANGED localv
    BY <2>2 DEF CallTypes, Steps, IsOptional, localv
  <2> QED BY <2>1, <2>2 DEF threadv, localv
<1>5. OnRecord'
  BY DEF OnRecord, ReferencesOnRecord, Sound, Saving, Return, NoCall
<1>6. Related'
  BY DEF Related, NoCalculation, Return, NoCall
<1>7. HandlerFits'
  BY DEF HandlerFits, NoCalculation, Beginning, Waiting, Own, Return, NoCall
<1>8. SettingsHeld'
  BY DEF SettingsHeld, Waiting, Return
<1>9. KnownToBoard'
  BY DEF KnownToBoard, HandlerFits, Beginning, Waiting, Ending, Saving, Own, Return, NoCall
<1> QED BY <1>1, <1>2, <1>3, <1>4, <1>5, <1>6, <1>7, <1>8, <1>9

LEMMA StashKeeps ==
  ASSUME DriftAssumption, DriftInv, Stash
  PROVE  DriftInv'
<1> USE DEF DriftInv, DriftTypes, Stash, Stay, Answered, Fault, threadv
<1>1. BoardTypes' /\ ThreadTypes'
  <2>1. BoardTypes'
    BY DEF BoardTypes
  <2>2. ThreadTypes'
    BY DEF ThreadTypes
  <2> QED BY <2>1, <2>2
<1>2. FieldTypes'
  BY EmptyIsDocument DEF FieldTypes, IsOptional
<1>3. CallTypes'
  BY DEF CallTypes, FieldTypes, Steps, IsOptional
<1>4. OnRecord'
  BY DEF OnRecord, ReferencesOnRecord, Sound, Saving
<1>5. Related'
  BY DEF Related, NoCalculation
<1>6. HandlerFits'
  BY DEF HandlerFits, NoCalculation, Beginning, Waiting, Own
<1>7. SettingsHeld'
  BY DEF SettingsHeld, Waiting
<1>8. KnownToBoard'
  BY DEF KnownToBoard, HandlerFits, SettingsHeld, Waiting, Ending, Saving, Own
<1> QED BY <1>1, <1>2, <1>3, <1>4, <1>5, <1>6, <1>7, <1>8

LEMMA ChangeModesKeeps ==
  ASSUME DriftAssumption, DriftInv, ChangeModes
  PROVE  DriftInv'
<1> USE DEF DriftInv, DriftTypes, ChangeModes, Stay, Answered, Fault, fields, threadv
<1>1. FieldTypes' /\ ThreadTypes' /\ CallTypes'
  <2>1. FieldTypes'
    BY DEF FieldTypes, IsOptional
  <2>2. ThreadTypes'
    BY DEF ThreadTypes
  <2>3. CallTypes'
    BY DEF CallTypes, Steps, IsOptional
  <2> QED BY <2>1, <2>2, <2>3
<1>2. BoardTypes'
  BY DEF BoardTypes, Modes
<1>3. OnRecord'
  BY DEF OnRecord, ReferencesOnRecord, Sound, Saving
<1>4. Related'
  BY DEF Related, NoCalculation
<1>5. HandlerFits'
  BY DEF HandlerFits, NoCalculation, Beginning, Waiting, Own
<1>6. SettingsHeld'
  BY DEF SettingsHeld, Waiting
<1>7. KnownToBoard'
  BY DEF KnownToBoard, HandlerFits, SettingsHeld, Waiting, Ending, Saving, Own
<1> QED BY <1>1, <1>2, <1>3, <1>4, <1>5, <1>6, <1>7

LEMMA ChangeRateKeeps ==
  ASSUME DriftAssumption, DriftInv, ChangeRate
  PROVE  DriftInv'
<1> USE DEF DriftInv, DriftTypes, ChangeRate, Stay, Answered, Fault, threadv
<1>1. BoardTypes' /\ ThreadTypes' /\ CallTypes'
  <2>1. BoardTypes'
    BY DEF BoardTypes
  <2>2. ThreadTypes'
    BY DEF ThreadTypes
  <2>3. CallTypes'
    BY DEF CallTypes, Steps, IsOptional
  <2> QED BY <2>1, <2>2, <2>3
<1>2. FieldTypes'
  <2>1. Merged(settings, DriftSettings) \in Documents /\ BurstSizeAfter(DriftSettings) \in Nat
    BY DriftSettingsMerged, MergedIsDocument, BurstSizeIsNat DEF FieldTypes
  <2> QED BY <2>1 DEF FieldTypes, BoardTypes, IsOptional
<1>3. OnRecord'
  BY DEF OnRecord, ReferencesOnRecord, Sound, Saving
<1>4. Related'
  BY DEF Related, NoCalculation
<1>5. HandlerFits'
  BY DEF HandlerFits, NoCalculation, Beginning, Waiting, Own
<1>6. SettingsHeld'
  BY DriftSettingsMerged DEF SettingsHeld, FieldTypes, Waiting
<1>7. KnownToBoard'
  BY DEF KnownToBoard, HandlerFits, SettingsHeld, Waiting, Ending, Saving, Own
<1> QED BY <1>1, <1>2, <1>3, <1>4, <1>5, <1>6, <1>7

LEMMA StartCollectingKeeps ==
  ASSUME DriftAssumption, DriftInv, StartCollecting
  PROVE  DriftInv'
<1> USE DEF DriftInv, DriftTypes, StartCollecting, Stay
<1>1. CallTypes'
  <2>1. CallTypes'
    BY DEF CallTypes, Steps, IsOptional
  <2> QED BY <2>1
<1>2. BoardTypes'
  BY DEF BoardTypes, Begun, NotBegun, Stopped, NotDisabled, NothingToStop, NotAsked, Joined
<1>3. FieldTypes'
  BY DEF FieldTypes, BoardTypes, IsOptional, Begun, NotBegun, Stopped, NotDisabled, NothingToStop, NotAsked, Joined
<1>4. ThreadTypes'
  <2>1. CASE UNCHANGED threadv
    BY <2>1 DEF ThreadTypes, threadv
  <2>2. CASE Begun("ready") \/ NotBegun
    BY <2>2, ThreadsTyped
  <2> QED BY <2>1, <2>2
<1>5. OnRecord'
  BY DEF OnRecord, ReferencesOnRecord, Sound, Saving
<1>6. Related'
  BY DEF Related, NoCalculation
<1>7. HandlerFits'
  BY DEF HandlerFits, NoCalculation, Beginning, Waiting, Own, Begun, NotBegun, Stopped, NotDisabled, NothingToStop, NotAsked, Joined, threadv
<1>8. SettingsHeld'
  BY DEF SettingsHeld, Waiting, Begun, NotBegun
<1>9. KnownToBoard'
  BY DEF KnownToBoard, HandlerFits, SettingsHeld, Waiting, Ending, Saving, Own, Begun, NotBegun, Stopped, NotDisabled, NothingToStop, NotAsked, Joined, threadv
<1> QED BY <1>1, <1>2, <1>3, <1>4, <1>5, <1>6, <1>7, <1>8, <1>9

LEMMA ReadKeeps ==
  ASSUME DriftAssumption, DriftInv, Read
  PROVE  DriftInv'
<1> USE DEF DriftInv, DriftTypes, Read, boardv, fields, localv, hist
<1>1. BoardTypes' /\ FieldTypes' /\ CallTypes'
  <2>1. BoardTypes'
    BY DEF BoardTypes
  <2>2. FieldTypes'
    BY DEF FieldTypes, IsOptional
  <2>3. CallTypes'
    BY DEF CallTypes, Steps, IsOptional
  <2> QED BY <2>1, <2>2, <2>3
<1>2. ThreadTypes'
  BY DEF ThreadTypes, BoardTypes, Modes
<1>3. OnRecord'
  BY DEF OnRecord, ReferencesOnRecord, Sound, Saving
<1>4. Related'
  BY DEF Related, NoCalculation
<1>5. HandlerFits'
  BY DEF HandlerFits, NoCalculation, Beginning, Waiting, Own
<1>6. SettingsHeld'
  BY DEF SettingsHeld, Waiting
<1>7. KnownToBoard'
  BY DEF KnownToBoard, HandlerFits, SettingsHeld, Waiting, Ending, Saving, Own
<1> QED BY <1>1, <1>2, <1>3, <1>4, <1>5, <1>6, <1>7

LEMMA ProcessRowsKeep ==
  ASSUME DriftAssumption, DriftInv, Process
  PROVE  DriftInv'
<1> USE DEF DriftInv, DriftTypes, Process, boardv, fields, localv, hist
<1>1. BoardTypes' /\ FieldTypes' /\ ThreadTypes' /\ CallTypes'
  <2>1. BoardTypes'
    BY DEF BoardTypes
  <2>2. FieldTypes'
    BY DEF FieldTypes, IsOptional
  <2>3. ThreadTypes'
    BY DEF ThreadTypes
  <2>4. CallTypes'
    BY DEF CallTypes, Steps, IsOptional
  <2> QED BY <2>1, <2>2, <2>3, <2>4
<1>2. OnRecord'
  BY DEF OnRecord, ReferencesOnRecord, Sound, Saving
<1>3. Related'
  BY DEF Related, NoCalculation
<1>4. HandlerFits'
  BY DEF HandlerFits, NoCalculation, Beginning, Waiting, Own
<1>5. SettingsHeld'
  BY DEF SettingsHeld, Waiting
<1>6. KnownToBoard'
  BY DEF KnownToBoard, HandlerFits, SettingsHeld, Waiting, Ending, Saving, Own
<1> QED BY <1>1, <1>2, <1>3, <1>4, <1>5, <1>6

LEMMA CollectKeeps ==
  ASSUME DriftAssumption, DriftInv, Collect
  PROVE  DriftInv'
<1> USE DEF DriftInv, DriftTypes, Collect, Stay, fields, Answered, Fault
<1>1. BoardTypes' /\ FieldTypes' /\ ThreadTypes'
  <2>1. BoardTypes'
    BY DEF BoardTypes
  <2>2. FieldTypes'
    BY DEF FieldTypes, IsOptional
  <2>3. ThreadTypes'
    BY DEF ThreadTypes
  <2> QED BY <2>1, <2>2, <2>3
<1>2. CallTypes'
  <2>1. level \in Int
    BY DEF BoardTypes, DriftAssumption
  <2>2. (IF deltas = None THEN 0 ELSE CHOOSE d \in deltas : TRUE) \in Int
    <3>1. CASE deltas = None
      BY <3>1
    <3>2. CASE deltas # None
      <4>1. \E d \in deltas : TRUE
        BY <3>2 DEF None
      <4>2. (CHOOSE d \in deltas : TRUE) \in deltas
        BY <4>1, Zenon
      <4> QED BY <3>2, <4>2 DEF FieldTypes, IsOptional
    <3> QED BY <3>1, <3>2
  <2>3. mean' \in Int
    <3> DEFINE drift == IF deltas = None THEN 0 ELSE CHOOSE d \in deltas : TRUE
    <3>1. drift \in Int /\ (mean' = level - drift \/ mean' = mean)
      BY <2>2
    <3>2. mean \in Int
      BY DEF CallTypes
    <3> HIDE DEF drift
    <3> QED BY <2>1, <3>1, <3>2
  <2>4. result' \subseteq Modes
    BY DEF CallTypes, ThreadTypes
  <2> QED BY <2>3, <2>4 DEF CallTypes, IsOptional
<1>3. OnRecord'
  BY DEF OnRecord, ReferencesOnRecord, Sound, Saving, HandlerFits, Waiting, Own
<1>4. Related'
  BY DEF Related, NoCalculation
<1>5. HandlerFits'
  BY DEF HandlerFits, NoCalculation, Beginning, Waiting, Own
<1>6. SettingsHeld'
  BY DEF SettingsHeld, Waiting
<1>7. KnownToBoard'
  BY DEF KnownToBoard, HandlerFits, SettingsHeld, Waiting, Ending, Saving, Own
<1> QED BY <1>1, <1>2, <1>3, <1>4, <1>5, <1>6, <1>7

LEMMA NotifyKeeps ==
  ASSUME DriftAssumption, DriftInv, Notify
  PROVE  DriftInv'
<1> USE DEF DriftInv, DriftTypes, Notify, Stay, fields, localv
<1>1. BoardTypes' /\ FieldTypes' /\ ThreadTypes' /\ CallTypes'
  <2>1. BoardTypes'
    BY DEF BoardTypes
  <2>2. FieldTypes'
    BY DEF FieldTypes, IsOptional
  <2>3. ThreadTypes'
    BY DEF ThreadTypes
  <2>4. CallTypes'
    BY DEF CallTypes, Steps, IsOptional
  <2> QED BY <2>1, <2>2, <2>3, <2>4
<1>2. OnRecord'
  BY DEF OnRecord, ReferencesOnRecord, Sound, Saving
<1>3. Related'
  BY DEF Related, NoCalculation
<1>4. HandlerFits'
  BY DEF HandlerFits, NoCalculation, Beginning, Waiting, Own
<1>5. SettingsHeld'
  BY DEF SettingsHeld, Waiting
<1>6. KnownToBoard'
  BY DEF KnownToBoard, HandlerFits, SettingsHeld, Waiting, Ending, Saving, Own
<1> QED BY <1>1, <1>2, <1>3, <1>4, <1>5, <1>6

LEMMA WaitKeeps ==
  ASSUME DriftAssumption, DriftInv, Wait
  PROVE  DriftInv'
<1> USE DEF DriftInv, DriftTypes, Wait, Stay, fields, threadv, localv
<1>1. BoardTypes' /\ FieldTypes' /\ ThreadTypes' /\ CallTypes'
  <2>1. BoardTypes'
    BY DEF BoardTypes
  <2>2. FieldTypes'
    BY DEF FieldTypes, IsOptional
  <2>3. ThreadTypes'
    BY DEF ThreadTypes
  <2>4. CallTypes'
    BY DEF CallTypes, Steps, IsOptional
  <2> QED BY <2>1, <2>2, <2>3, <2>4
<1>2. OnRecord'
  BY DEF OnRecord, ReferencesOnRecord, Sound, Saving
<1>3. Related'
  BY DEF Related, NoCalculation
<1>4. HandlerFits'
  BY DEF HandlerFits, NoCalculation, Beginning, Waiting, Own
<1>5. SettingsHeld'
  BY DEF SettingsHeld, Waiting
<1>6. KnownToBoard'
  BY DEF KnownToBoard, HandlerFits, SettingsHeld, Waiting, Ending, Saving, Own
<1> QED BY <1>1, <1>2, <1>3, <1>4, <1>5, <1>6

LEMMA StopCollectingKeeps ==
  ASSUME DriftAssumption, DriftInv, StopCollecting
  PROVE  DriftInv'
<1> USE DEF DriftInv, DriftTypes, StopCollecting, Stay
<1>1. CallTypes'
  <2>1. CallTypes'
    BY DEF CallTypes, Steps, IsOptional
  <2> QED BY <2>1
<1>2. BoardTypes'
  BY DEF BoardTypes, Begun, NotBegun, Stopped, NotDisabled, NothingToStop, NotAsked, Joined
<1>3. FieldTypes'
  BY DEF FieldTypes, BoardTypes, IsOptional, Begun, NotBegun, Stopped, NotDisabled, NothingToStop, NotAsked, Joined
<1>4. ThreadTypes'
  BY ThreadsTyped
<1>5. OnRecord'
  BY DEF OnRecord, ReferencesOnRecord, Sound, Saving
<1>6. Related'
  BY DEF Related, NoCalculation
<1>7. HandlerFits'
  BY DEF HandlerFits, NoCalculation, Beginning, Waiting, Own, Begun, NotBegun, Stopped, NotDisabled, NothingToStop, NotAsked, Joined, threadv
<1>8. SettingsHeld'
  BY DEF SettingsHeld, Waiting
<1>9. KnownToBoard'
  BY DEF KnownToBoard, HandlerFits, SettingsHeld, Waiting, Ending, Saving, Own, Begun, NotBegun, Stopped, NotDisabled, NothingToStop, NotAsked, Joined, threadv
<1> QED BY <1>1, <1>2, <1>3, <1>4, <1>5, <1>6, <1>7, <1>8, <1>9

LEMMA RestoreDriverKeeps ==
  ASSUME DriftAssumption, DriftInv, RestoreDriver
  PROVE  DriftInv'
<1> USE DEF DriftInv, DriftTypes, RestoreDriver, Stay, Answered, Fault, threadv, localv
<1>1. BoardTypes' /\ ThreadTypes' /\ CallTypes'
  <2>1. BoardTypes'
    BY DEF BoardTypes
  <2>2. ThreadTypes'
    BY DEF ThreadTypes
  <2>3. CallTypes'
    BY DEF CallTypes, Steps, IsOptional
  <2> QED BY <2>1, <2>2, <2>3
<1>2. FieldTypes'
  <2>1. Merged(settings, stash) \in Documents /\ BurstSizeAfter(stash) \in Nat
    BY MergedIsDocument, BurstSizeIsNat DEF FieldTypes, CallTypes
  <2> QED BY <2>1 DEF FieldTypes, IsOptional
<1>3. OnRecord'
  BY DEF OnRecord, ReferencesOnRecord, Sound, Saving
<1>4. Related'
  BY DEF Related, NoCalculation
<1>5. HandlerFits'
  BY DEF HandlerFits, NoCalculation, Beginning, Waiting, Own
<1>6. SettingsHeld'
  BY DEF SettingsHeld, Waiting
<1>7. KnownToBoard'
  <2>1. /\ at = "restore" /\ at' \in {"return", "restore board"}
        /\ adc' = adc /\ handlers' = handlers /\ queue' = queue /\ orphans' = orphans
        /\ failed' = failed
    OBVIOUS
  <2>2. started' = started \/ (adc /\ started' = TRUE) \/ (~adc /\ started' = FALSE)
    OBVIOUS
  <2> HIDE DEF RestoreDriver
  <2>3. CASE started' = started
    BY <2>1, <2>3 DEF KnownToBoard, Waiting, Ending, Saving
  <2>4. CASE adc /\ started' = TRUE
    BY <2>1, <2>4 DEF KnownToBoard, Waiting, Ending, Saving
  <2>5. CASE ~adc /\ started' = FALSE
    BY <2>1, <2>5 DEF KnownToBoard, Waiting, Ending, Saving
  <2> QED BY <2>2, <2>3, <2>4, <2>5
<1> QED BY <1>1, <1>2, <1>3, <1>4, <1>5, <1>6, <1>7

LEMMA RestoreBoardKeeps ==
  ASSUME DriftAssumption, DriftInv, RestoreBoard
  PROVE  DriftInv'
<1> USE DEF DriftInv, DriftTypes, RestoreBoard, Stay, fields, threadv, localv
<1>1. BoardTypes' /\ FieldTypes' /\ ThreadTypes' /\ CallTypes'
  <2>1. BoardTypes'
    BY DEF BoardTypes
  <2>2. FieldTypes'
    BY DEF FieldTypes, IsOptional
  <2>3. ThreadTypes'
    BY DEF ThreadTypes
  <2>4. CallTypes'
    BY DEF CallTypes, Steps, IsOptional
  <2> QED BY <2>1, <2>2, <2>3, <2>4
<1>2. OnRecord'
  BY DEF OnRecord, ReferencesOnRecord, Sound, Saving
<1>3. Related'
  BY DEF Related, NoCalculation
<1>4. HandlerFits'
  BY DEF HandlerFits, NoCalculation, Beginning, Waiting, Own
<1>5. SettingsHeld'
  BY DEF SettingsHeld, Waiting
<1>6. KnownToBoard'
  BY DEF KnownToBoard, HandlerFits, SettingsHeld, Waiting, Ending, Saving, Own
<1> QED BY <1>1, <1>2, <1>3, <1>4, <1>5, <1>6

LEMMA FinishKeeps ==
  ASSUME DriftAssumption, DriftInv, Finish
  PROVE  DriftInv'
<1> USE DEF DriftInv, DriftTypes, Finish, Answered, Fault, boardv, threadv, localv, None
<1>1. BoardTypes'
  <2>1. file' \in {file, Truncated}
    OBVIOUS
  <2>2. Truncated \in References
    BY DEF References, Truncated, DriftAssumption
  <2> QED BY <2>1, <2>2 DEF BoardTypes
<1>2. FieldTypes'
  <2>1. CASE deltas' = deltas /\ base' = base
    BY <2>1 DEF FieldTypes, IsOptional
  <2>2. CASE deltas' = {mean - r.value : r \in refs} /\ base' = refs
    <3>1. mean \in Int /\ refs \in SUBSET References /\ \A r, q \in refs : r = q
      BY DEF CallTypes, IsOptional
    <3>2. \A r \in References : mean - r.value \in Int
      BY <3>1 DEF References
    <3>3. IsOptional(deltas', Int)
      BY <2>2, <3>1, <3>2 DEF IsOptional
    <3> QED BY <2>2, <3>3 DEF FieldTypes, CallTypes, IsOptional
  <2> QED BY <2>1, <2>2
<1>3. ThreadTypes'
  <2>1. CASE Return
    BY <2>1, ReturnTyped
  <2>2. CASE UNCHANGED threadv
    BY <2>2 DEF ThreadTypes, threadv
  <2> QED BY <2>1, <2>2 DEF threadv, localv
<1>4. CallTypes'
  <2>1. CASE Return
    BY <2>1, ReturnTyped
  <2>2. CASE at' \in {"write", "cache"} /\ UNCHANGED localv
    BY <2>2 DEF CallTypes, Steps, IsOptional, localv
  <2> QED BY <2>1, <2>2 DEF threadv, localv
<1>5. OnRecord'
  BY DEF OnRecord, ReferencesOnRecord, Sound, Saving, Truncated, NoFile, Return, NoCall
<1>6. Related'
  BY DEF Related, NoCalculation, Return, NoCall
<1>7. HandlerFits'
  BY DEF HandlerFits, NoCalculation, Beginning, Waiting, Own, Return, NoCall
<1>8. SettingsHeld'
  BY DEF SettingsHeld, Waiting, Return
<1>9. KnownToBoard'
  BY DEF KnownToBoard, Waiting, Ending, Saving, Own, Return
<1> QED BY <1>1, <1>2, <1>3, <1>4, <1>5, <1>6, <1>7, <1>8, <1>9

LEMMA WriteFileKeeps ==
  ASSUME DriftAssumption, DriftInv, WriteFile
  PROVE  DriftInv'
<1> USE DEF DriftInv, DriftTypes, WriteFile, boardv, fields, threadv, localv, hist, Answered, Fault, Averages
<1>1. FieldTypes' /\ ThreadTypes' /\ CallTypes'
  <2>1. FieldTypes'
    BY DEF FieldTypes, IsOptional
  <2>2. ThreadTypes'
    BY DEF ThreadTypes
  <2>3. CallTypes'
    BY DEF CallTypes, Steps, IsOptional
  <2> QED BY <2>1, <2>2, <2>3
<1>2. BoardTypes'
  <2>1. mean \in Int /\ Channels \in Nat
    BY DEF CallTypes, DriftAssumption
  <2>2. Averages(mean) \in References
    BY <2>1 DEF Averages, References
  <2>3. \A n \in 1 .. Channels : [value |-> mean, numbers |-> n, exact |-> FALSE] \in References
    BY <2>1 DEF References
  <2>4. file' \in References
    BY <2>2, <2>3
  <2> QED BY <2>4, Zenon DEF BoardTypes
<1>3. OnRecord'
  BY DEF OnRecord, ReferencesOnRecord, Sound, Saving
<1>4. Related'
  BY DEF Related, NoCalculation
<1>5. HandlerFits'
  BY DEF HandlerFits, NoCalculation, Beginning, Waiting, Own
<1>6. SettingsHeld'
  BY DEF SettingsHeld, Waiting
<1>7. KnownToBoard'
  BY DEF KnownToBoard, Waiting, Ending, Saving
<1> QED BY <1>1, <1>2, <1>3, <1>4, <1>5, <1>6, <1>7

LEMMA CacheReferencesKeeps ==
  ASSUME DriftAssumption, DriftInv, CacheReferences
  PROVE  DriftInv'
<1> USE DEF DriftInv, DriftTypes, CacheReferences, Stay, Averages, None
<1>1. BoardTypes'
  <2>1. BoardTypes'
    BY DEF BoardTypes
  <2> QED BY <2>1
<1>2. FieldTypes'
  <2>1. Averages(mean) \in References
    BY DEF Averages, References, CallTypes, DriftAssumption
  <2>2. IsOptional(references', References)
    BY <2>1 DEF IsOptional
  <2> QED BY <2>2 DEF FieldTypes, IsOptional
<1>3. ThreadTypes'
  BY ReturnTyped
<1>4. CallTypes'
  BY ReturnTyped
<1>5. OnRecord'
  BY DEF OnRecord, ReferencesOnRecord, Sound, Saving, Return, NoCall
<1>6. Related'
  BY DEF Related, NoCalculation, Return, NoCall
<1>7. HandlerFits'
  BY DEF HandlerFits, NoCalculation, Beginning, Waiting, Own, Return, NoCall
<1>8. SettingsHeld'
  BY DEF SettingsHeld, Waiting, Return
<1>9. KnownToBoard'
  BY DEF KnownToBoard, Waiting, Ending, Saving, Own, Return
<1> QED BY <1>1, <1>2, <1>3, <1>4, <1>5, <1>6, <1>7, <1>8, <1>9

LEMMA StutterKeeps ==
  ASSUME DriftInv, UNCHANGED vars
  PROVE  DriftInv'
<1> USE DEF vars, boardv, fields, threadv, localv, hist, bounds
<1>1. DriftTypes'
  BY DEF DriftInv, DriftTypes, BoardTypes, FieldTypes, ThreadTypes, CallTypes, IsOptional
<1>2. OnRecord' /\ Related'
  BY DEF DriftInv, OnRecord, ReferencesOnRecord, Sound, Related, Saving, NoCalculation
<1>3. HandlerFits' /\ SettingsHeld' /\ KnownToBoard'
  BY DEF DriftInv, HandlerFits, SettingsHeld, KnownToBoard, NoCalculation, Beginning,
         Waiting, Ending, Saving
<1> QED BY <1>1, <1>2, <1>3 DEF DriftInv

LEMMA DriftStep == DriftAssumption /\ DriftInv /\ [Next]_vars => DriftInv'
<1> SUFFICES ASSUME DriftAssumption, DriftInv, [Next]_vars PROVE DriftInv'
  OBVIOUS
<1>1. CASE Initialize \/ Killed \/ UseMovedSettings \/ DiesMerging
  BY <1>1, ProcessKeeps DEF UseMovedSettings, DiesMerging
<1>2. CASE BoardRestart \/ Drifts \/ Threads
  BY <1>2, BoardRestartKeeps, DriftsKeeps, ReadKeeps, ProcessRowsKeep, CollectKeeps,
     NotifyKeeps DEF Threads
<1>3. CASE ApiCall
  BY <1>1, <1>3, SetDriverSettingsKeeps, SetModesKeeps, StartKeeps, StopKeeps,
     ReadReferencesKeeps, ClearReferencesKeeps, ClearDeltasKeeps, CalculateKeeps DEF ApiCall
<1>4. CASE Calculation
  BY <1>1, <1>4, AskKeeps, StashKeeps, ChangeModesKeeps, ChangeRateKeeps, StartCollectingKeeps,
     WaitKeeps, StopCollectingKeeps, RestoreDriverKeeps, RestoreBoardKeeps, FinishKeeps,
     WriteFileKeeps, CacheReferencesKeeps DEF Calculation
<1>5. CASE UNCHANGED vars
  BY <1>5, StutterKeeps
<1> QED BY <1>1, <1>2, <1>3, <1>4, <1>5 DEF Next

LEMMA DriftInvariant == Spec => []DriftInv
<1>1. Init => DriftInv
  BY DriftInitially, DriftAssumption
<1>2. DriftInv /\ [Next]_vars => DriftInv'
  BY DriftStep, DriftAssumption
<1> QED BY <1>1, <1>2, PTL DEF Spec

-----------------------------------------------------------------------------
LEMMA AtMostOne ==
  ASSUME NEW S, NEW value, IsOptional(value, S)
  PROVE  Cardinality(value) <= 1
<1>1. CASE value = {}
  BY <1>1, FS_EmptySet
<1>2. CASE value # {}
  <2>1. PICK x \in value : value = {x}
    BY <1>2 DEF IsOptional
  <2>2. Cardinality(value) = 1
    BY <2>1, FS_Singleton
  <2> QED BY <2>2
<1> QED BY <1>1, <1>2

\* Whatever call fails, is cut short by a killed process or meets a restart of the
\* board: the references the driver has are what some calculation has measured,
\* and deltas are only there when it has references and when they were computed
\* from references of that kind, which it may have replaced since
\* (calculate_drift_references(), _deltas(), drift_references(), src/driver.cpp).
THEOREM DriftDataKept == Spec => []DriftDataHold
<1>1. DriftInv => DriftDataHold
  <2> SUFFICES ASSUME DriftInv PROVE DriftDataHold
    OBVIOUS
  <2>1. settings.rate \in Nat
    BY DEF DriftInv, DriftTypes, FieldTypes, Documents
  <2>2. Cardinality(references) <= 1 /\ Cardinality(deltas) <= 1
    BY AtMostOne DEF DriftInv, DriftTypes, FieldTypes
  <2>3. TypeOK
    BY <2>1, <2>2 DEF DriftInv, DriftTypes, BoardTypes, FieldTypes, ThreadTypes, CallTypes,
       IsOptional, TypeOK
  <2> QED BY <2>3 DEF DriftInv, OnRecord, Related, DeltasHaveReferences, DriftDataHold
<1> QED BY <1>1, DriftInvariant, PTL

\* What a calculation collects is measured with the inputs switched to current, at
\* the full rate and in one block, whatever fails before, between and during its
\* steps; but threads or rows that a restart of the board has left spoil it.
THEOREM CollectsAsMeant == Spec => CollectsUnderDriftSettings
<1>1. DriftInv /\ [Next]_vars =>
        [(~orphans /\ ~done /\ done')
           => result' \subseteq {"current"} /\ burstSize = DriftRows
              /\ settings.rate = FullRate]_vars
  <2> SUFFICES ASSUME DriftInv, Next, ~orphans, ~done, done'
               PROVE  /\ result' \subseteq {"current"} /\ burstSize = DriftRows
                      /\ settings.rate = FullRate
    OBVIOUS
  <2>1. Collect
    BY DEF Next, Initialize, Killed, BoardRestart, Drifts, ApiCall, Calculation, Threads,
           SetDriverSettings, UseMovedSettings, SetModes, Start, Stop, ReadReferences,
           ClearReferences, ClearDeltas, Calculate, Ask, Stash, ChangeModes, ChangeRate,
           DiesMerging, Dies, Fresh, NoCall, StartCollecting, Wait, StopCollecting,
           RestoreDriver, RestoreBoard, Finish, WriteFile, CacheReferences, Notify, Read,
           Process, Stay, Return, localv
  <2>2. Waiting
    BY <2>1 DEF DriftInv, HandlerFits, Collect, Own
  <2>3. result' \subseteq {"current"}
    <3>1. queue \subseteq {"current"}
      BY <2>2 DEF DriftInv, KnownToBoard
    <3>2. result' \subseteq queue \/ result' = result
      BY <2>1 DEF Collect
    <3>3. result = {}
      BY DEF DriftInv, HandlerFits
    <3> QED BY <3>1, <3>2, <3>3
  <2> QED BY <2>2, <2>3 DEF DriftInv, SettingsHeld
<1> QED BY <1>1, DriftInvariant, PTL DEF Spec, CollectsUnderDriftSettings

\* A calculation that gives a result has ended its measurement and its threads; one
\* that leaves its handler running reports an error, and the next stop_measurement()
\* can end it.  Threads the board has restarted under are not ended by either.
THEOREM CallEndsItsThreads == Spec => HandlersEndOrAreReported
<1>1. DriftInv /\ [Next]_vars =>
        [~orphans =>
           /\ Gives => handlers' = {} /\ ~adc' /\ ~started'
           /\ "stray" \in handlers' \ handlers => ~Gives /\ adc' /\ started']_vars
  <2> SUFFICES ASSUME DriftInv, Next, ~orphans
               PROVE  /\ Gives => handlers' = {} /\ ~adc' /\ ~started'
                      /\ "stray" \in handlers' \ handlers => ~Gives /\ adc' /\ started'
    BY DEF Gives, vars, threadv
  <2>1. Gives => handlers' = {} /\ ~adc' /\ ~started'
    <3>1. CASE CacheReferences
      BY <3>1 DEF CacheReferences, Return, Stay, DriftInv, KnownToBoard, Saving
    <3>2. CASE Finish /\ ~failed /\ job = "deltas"
      BY <3>2 DEF Finish, Return, boardv, DriftInv, KnownToBoard, Ending
    <3> QED BY <3>1, <3>2 DEF Gives
  <2>2. ASSUME "stray" \in handlers' \ handlers PROVE ~Gives /\ adc' /\ started'
    <3>1. ~Gives
      BY <2>1, <2>2
    <3>2. Ask \/ Finish \/ CacheReferences
      <4>1. CASE Initialize \/ Killed \/ BoardRestart \/ Drifts
        BY <4>1, <2>2 DEF Initialize, Killed, BoardRestart, Drifts, Fresh, threadv
      <4>2. CASE Start \/ Stop \/ StartCollecting \/ StopCollecting
        <5>1. UNCHANGED threadv \/ \E h \in {"app", "ready"} :
                Begun(h) \/ NotBegun \/ Stopped \/ NotDisabled \/ NothingToStop \/ NotAsked
          BY <4>2 DEF Start, Stop, StartCollecting, StopCollecting, threadv
        <5> QED BY <5>1, <2>2, NoneStrays DEF threadv
      <4>3. CASE ApiCall \/ Calculation
        BY <4>2, <4>3, <2>2 DEF ApiCall, SetDriverSettings, UseMovedSettings, Dies, Fresh,
             SetModes, ReadReferences, ClearReferences, ClearDeltas, Calculate, Calculation,
             Stash, ChangeModes, ChangeRate, DiesMerging, Wait, RestoreDriver, RestoreBoard,
             WriteFile, Stay, threadv
      <4>4. CASE Threads
        BY <4>4, <2>2 DEF Threads, Read, Process, Collect, Notify
      <4> QED BY <4>1, <4>2, <4>3, <4>4 DEF Next
    <3>3. Return
      BY <2>2, <3>2 DEF Ask, Finish, CacheReferences, threadv
    <3>4. handlers \cap Own # {}
      BY <2>2, <3>3 DEF Return
    <3>5. Finish
      BY <3>1, <3>2, <3>4 DEF Gives, Ask, DriftInv, HandlerFits, Beginning
    <3>6. UNCHANGED <<adc, started>>
      BY <3>5 DEF Finish, boardv
    <3> QED BY <3>1, <3>4, <3>6 DEF DriftInv, KnownToBoard
  <2> QED BY <2>1, <2>2
<1> QED BY <1>1, DriftInvariant, PTL DEF Spec, HandlersEndOrAreReported

\* The deltas do not change while a processing thread may read them, unless the
\* board has restarted under that thread.
THEOREM DeltasStable == Spec => DeltasStableWhileProcessed
<1>1. DriftInv /\ [Next]_vars =>
        [(~orphans /\ up' /\ handlers # {} /\ handlers' # {}) => deltas' = deltas]_vars
  <2> SUFFICES ASSUME DriftInv, Next, ~orphans, up', handlers # {}, handlers' # {},
                      deltas' # deltas
               PROVE  FALSE
    OBVIOUS
  <2>1. \/ Initialize \/ Killed \/ Dies \/ ClearReferences \/ ClearDeltas \/ Finish
    BY DEF Next, BoardRestart, Drifts, ApiCall, Calculation, Threads,
           SetDriverSettings, UseMovedSettings, SetModes, Start, Stop, ReadReferences,
           Calculate, Ask, Stash, ChangeModes, ChangeRate, DiesMerging, StartCollecting, Wait,
           StopCollecting, RestoreDriver, RestoreBoard, WriteFile, CacheReferences, Collect,
           Notify, Read, Process, Stay, fields
  <2>2. CASE Initialize \/ Killed \/ Dies
    BY <2>2 DEF Initialize, Killed, Dies, Fresh
  <2>3. CASE ClearReferences \/ ClearDeltas
    BY <2>3 DEF ClearReferences, ClearDeltas, DriftInv, KnownToBoard
  <2>4. CASE Finish
    BY <2>4 DEF Finish, DriftInv, KnownToBoard, Ending
  <2> QED BY <2>1, <2>2, <2>3, <2>4
<1> QED BY <1>1, DriftInvariant, PTL DEF Spec, DeltasStableWhileProcessed
=============================================================================
