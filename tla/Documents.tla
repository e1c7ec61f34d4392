------------------------------- MODULE Documents -------------------------------
(***************************************************************************)
(* The JSON documents behind Board_settings and Driver_settings            *)
(* (src/board_settings.cpp, src/driver_settings.cpp): what an application  *)
(* puts into them value by value, as JSON text or from another document,   *)
(* and what it gets out.                                                   *)
(*                                                                         *)
(* A value has the C++ type it was given with; the document keeps a JSON   *)
(* number, and decides by its size which type to answer with.  What the    *)
(* driver does with settings is in Drift, the firmware in Settings.        *)
(***************************************************************************)
EXTENDS Integers, FiniteSets

CONSTANTS
  DocNames,     \* names of board settings
  DocModeNames, \* those among them that match channel\dMode
  DocMinRate, DocMaxRate, DocChannels,   \* of the driver: 32, 48000, 4
  DocTried      \* numbers the application tries as a driver setting

DocAssumption == /\ DocModeNames \subseteq DocNames
                 /\ DocMinRate \in Nat /\ DocMaxRate \in Nat /\ DocTried \subseteq Nat

VARIABLES
  docUsed,     \* which of the two the application works with
  docBoard,    \* Rep::doc_ of Board_settings: name |-> JSON value
  docGiven,    \* abstract: name |-> <<type, value>> that was given last
  docDriver,   \* Rep::doc_ of Driver_settings: name |-> number or null
  docObject,   \* that document is an object
  docDied      \* what is no object was used as one: undefined

boardDocument == <<docBoard, docGiven>>
driverDocument == <<docDriver, docObject>>
docVars == <<docUsed, boardDocument, driverDocument, docDied>>

-----------------------------------------------------------------------------
\* C++ types.  32 and 64 bits are 2 and 3 here, a bool is 0 or 1, and a real
\* number is one a float can hold, one it must round, or one out of its range.
Width == [int32 |-> 2, uint32 |-> 2, int64 |-> 3, uint64 |-> 3]
RangeOf(type) ==
  IF type \in {"int32", "int64"} THEN -(2^(Width[type] - 1)) .. (2^(Width[type] - 1) - 1)
  ELSE 0 .. (2^Width[type] - 1)
FloatExact == 1   Rounded == 2   BeyondFloat == 3
Modes == {0, 1}     \* Measurement_mode

Givable ==
  (UNION {{type} \X RangeOf(type): type \in DOMAIN Width})
    \cup ({"mode"} \X Modes) \cup ({"bool"} \X {0, 1}) \cup {<<"string", 0>>}
    \cup {<<"float", FloatExact>>, <<"double", FloatExact>>, <<"double", Rounded>>, <<"double", BeyondFloat>>}

\* The JSON value.
Json(type, v) ==
  [k |-> CASE type \in DOMAIN Width \cup {"mode"} -> "integer"
           [] type \in {"float", "double"} -> "real"
           [] OTHER -> type,
   v |-> v]
JsonNull == Json("null", 0)

\* Rep::value(): the type by size, in this order; <<>> is the empty value and
\* "invalid" an exception.
ValueIn(doc, name) ==
  IF name \notin DOMAIN doc \/ doc[name] = JsonNull THEN <<>>
  ELSE LET j == doc[name]
       IN CASE j.k = "integer" ->
                 (IF j.v \in RangeOf("int32")
                  THEN IF name \notin DocModeNames THEN <<"int32", j.v>>
                       ELSE IF j.v \in Modes THEN <<"mode", j.v>> ELSE <<"invalid", 0>>
                  ELSE IF j.v \in RangeOf("uint32") THEN <<"uint32", j.v>>
                  ELSE IF j.v \in RangeOf("int64") THEN <<"int64", j.v>>
                  ELSE <<"uint64", j.v>>)
            [] j.k = "real" -> IF j.v = BeyondFloat THEN <<"double", j.v>> ELSE <<"float", FloatExact>>
            [] OTHER -> <<j.k, j.v>>

\* Rep::set(): members of `other' replace those of the same name.
WithMembers(doc, other) ==
  [n \in DOMAIN doc \cup DOMAIN other |-> IF n \in DOMAIN other THEN other[n] ELSE doc[n]]

DocumentOf(given) ==
  [n \in DOMAIN given |-> Json(given[n][1], given[n][2])]

\* set_value(); an integer shorter than 32 bits throws, like a type that is not
\* listed, and leaves the document as it is.
SetValue(name, type, v) ==
  /\ docBoard' = WithMembers(docBoard, DocumentOf([n \in {name} |-> <<type, v>>]))
  /\ docGiven' = [n \in DOMAIN docGiven \cup {name} |-> IF n = name THEN <<type, v>> ELSE docGiven[n]]

\* The constructor from JSON text, which refuses what is neither null nor an
\* object, and set() with such a document.
BoardTexts ==
  {[n \in names |-> g] : names \in SUBSET DocNames,
     g \in {<<"int32", 1>>, <<"uint64", 7>>, <<"null", 0>>, <<"double", Rounded>>}}
ParseBoard ==
  \E given \in BoardTexts: docBoard' = DocumentOf(given) /\ docGiven' = given
SetBoard ==
  \E given \in BoardTexts:
    /\ docBoard' = WithMembers(docBoard, DocumentOf(given))
    /\ docGiven' = [n \in DOMAIN docGiven \cup DOMAIN given |->
                      IF n \in DOMAIN given THEN given[n] ELSE docGiven[n]]

-----------------------------------------------------------------------------
(* Driver settings.  0 is null here: a member that is there and not set. *)
DriverNames == {"sampleRate", "burstBufferSize", "frequency", "translationOffsets", "translationSlopes"}
DocNull == 0

Acceptable(name, v) ==
  \/ v = DocNull
  \/ name \in {"sampleRate", "burstBufferSize"} /\ v \in DocMinRate..DocMaxRate
  \/ name = "frequency" /\ v \in 1..DocMinRate
  \/ name \in {"translationOffsets", "translationSlopes"} /\ v = DocChannels

Member(doc, name) == IF name \in DOMAIN doc THEN doc[name] ELSE DocNull

\* The setters: each of burst buffer size and frequency erases the other, also
\* when it is set to null.
Erased(name) ==
  CASE name = "burstBufferSize" -> {"frequency"}
    [] name = "frequency" -> {"burstBufferSize"}
    [] OTHER -> {}
BugSetIn(doc, name, v) ==
  [n \in DOMAIN doc \cup {name} |-> IF n = name THEN v ELSE doc[n]]

SetIn(doc, name, v) ==
  [n \in (DOMAIN doc \cup {name}) \ Erased(name) |-> IF n = name THEN v ELSE doc[n]]

\* merge_not_null(): the setters, in this order.
MergedDriver(doc, other) ==
  LET Apply(d, name) == IF Member(other, name) = DocNull THEN d ELSE SetIn(d, name, other[name])
  IN Apply(Apply(Apply(Apply(Apply(doc, "sampleRate"), "burstBufferSize"), "frequency"),
                 "translationOffsets"), "translationSlopes")

DriverTexts ==
  {d \in UNION {[names -> DocTried \cup {DocNull, DocChannels}] : names \in SUBSET DriverNames} :
     Cardinality(DOMAIN d) <= 2}
Parsable(d) ==
  /\ \A n \in DOMAIN d: Acceptable(n, d[n])
  /\ Member(d, "burstBufferSize") = DocNull \/ Member(d, "frequency") = DocNull

\* What is not accepted throws.  A setter on a document that is no object has
\* no defined behaviour, where assertions are compiled in it ends the program.
SetDriver ==
  \E name \in DriverNames, v \in DocTried \cup {DocNull, DocChannels}:
    /\ Acceptable(name, v)
    /\ docDied' = ~docObject
    /\ docDriver' = IF docObject THEN SetIn(docDriver, name, v) ELSE docDriver
    /\ UNCHANGED docObject

\* The constructor from JSON text: null becomes an object, but an array or a
\* number is taken, for it has none of the members that are checked.
ParseDriver ==
  /\ \/ \E d \in DriverTexts: Parsable(d) /\ docDriver' = d /\ docObject' = TRUE
     \/ docDriver' = <<>> /\ docObject' = FALSE
  /\ UNCHANGED docDied

MergeDriver ==
  \E d \in DriverTexts:
    /\ Parsable(d)
    /\ docDied' = (~docObject /\ \E n \in DOMAIN d: d[n] # DocNull)
    /\ docDriver' = IF docObject THEN MergedDriver(docDriver, d) ELSE docDriver
    /\ UNCHANGED docObject

DocInit ==
  /\ docUsed \in {"board", "driver"}
  /\ docBoard = <<>> /\ docGiven = <<>>
  /\ docDriver = <<>> /\ docObject = TRUE /\ docDied = FALSE

BoardDocument ==
  /\ docUsed = "board"
  /\ \/ \E name \in DocNames, g \in Givable: SetValue(name, g[1], g[2])
     \/ ParseBoard \/ SetBoard
  /\ UNCHANGED <<docUsed, docDriver, docObject, docDied>>
DriverDocument ==
  /\ docUsed = "driver" /\ ~docDied
  /\ SetDriver \/ ParseDriver \/ MergeDriver
  /\ UNCHANGED <<docUsed, docBoard, docGiven>>

DocNext == BoardDocument \/ DriverDocument
DocSpec == DocInit /\ [][DocNext]_docVars

-----------------------------------------------------------------------------
\* What a caller may expect to read after it gave <<type, v>>: the same number
\* in a type that has it, a real number as near as a float gets.
Expected(name, given, read) ==
  LET type == given[1]   v == given[2]
  IN CASE type = "null" -> read = <<>>
       [] type \in {"bool", "string"} -> read = given
       [] type \in {"float", "double"} ->
            read[1] \in {"float", "double"} /\ (v = BeyondFloat => read = given)
       [] OTHER -> \/ read[2] = v
                      /\ \/ read[1] \in DOMAIN Width /\ v \in RangeOf(read[1])
                         \/ read[1] = "mode" /\ name \in DocModeNames
                   \/ read[1] = "invalid" /\ name \in DocModeNames /\ v \notin Modes

(* Board_settings answers with what was given last, in a type wide enough    *)
(* for it, whichever of set_value(), set() and the parser it came by; a name *)
(* nobody has given, or that was set to null, has no value.  src/            *)
(* board_settings.hpp:76-117. *)
ValuesReadBack ==
  /\ \A n \in DOMAIN docGiven: Expected(n, docGiven[n], ValueIn(docBoard, n))
  /\ \A n \in DocNames \ DOMAIN docGiven: ValueIn(docBoard, n) = <<>>

(* Burst buffer size and frequency are never both set, and every setting     *)
(* that is set is one the driver accepts, whatever sequence of setters,      *)
(* merges and parsed texts an application makes.  src/driver_settings.hpp:   *)
(* 60-70, 118-160. *)
SettingsConsistent ==
  /\ Member(docDriver, "burstBufferSize") = DocNull \/ Member(docDriver, "frequency") = DocNull
  /\ \A n \in DOMAIN docDriver: Acceptable(n, docDriver[n])

(* Safety: both kinds of settings keep what callers put in, after any        *)
(* sequence of setters, merges and parsed texts. *)
DocumentsHold == ValuesReadBack /\ SettingsConsistent
=============================================================================
