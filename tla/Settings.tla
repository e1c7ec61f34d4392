------------------------------- MODULE Settings -------------------------------
(***************************************************************************)
(* The settings protocol of the firmware (src/firmware/settings.hpp): the  *)
(* parser that collects a line from the serial bus, the dispatcher with    *)
(* its special settings "all" and "basic", and the generic handler with    *)
(* its getter, its setter and the value it reads back.                     *)
(*                                                                         *)
(* A line arrives as tokens: a run of letters and digits, '<', '>', any    *)
(* other character ("?"), after the '<' or '>' a JSON value or what is     *)
(* none.  Settings of a kind behave alike, so one or two of each kind that *)
(* firmware.cpp registers stand for all of them.                           *)
(***************************************************************************)
EXTENDS Naturals, Sequences, SequencesExt, FiniteSets

CONSTANTS
  SetLineLength,   \* bound: tokens of a line
  SetObjectLength  \* bound: members of an object

\* The second gain refuses a number, the voltage has no DAC on this board: its
\* getter and its setter answer with an error.
SetNames == {"armId", "calibrationData", "channel1Gain", "channel2Gain", "voltageOutValue"}
Writable == {"calibrationData", "channel1Gain", "channel2Gain", "voltageOutValue"}
Absent   == {"voltageOutValue"}
Special  == {"all", "basic"}
SkippedByBasic == {"calibrationData"}

Numbers == {0, 1}
Accepted(name, number) == name = "channel2Gain" => number = 0

\* JSON values: numbers, a text that no setter takes, objects.
Members == {"armId", "calibrationData", "channel1Gain", "channel2Gain", "voltageOutValue", "all"} \X Numbers
Objects == SeqOf(Members, SetObjectLength)
Number(n) == [json |-> "number", number |-> n]
Object(o) == [json |-> "object", members |-> o]
Text == [json |-> "text"]
Null == [json |-> "null"]
Junk == [json |-> "not json"]
Documents == {Number(n) : n \in Numbers} \cup {Object(o) : o \in Objects} \cup {Text, Junk}
NameTokens == {"armId", "channel1Gain", "calibrationData", "voltageOutValue", "all", "basic"}

VARIABLES
  setState,   \* state_ of the parser: "name", "input" or "error"
  setName,    \* request_name_, a sequence of tokens
  setType,    \* request_type_
  setInput,   \* request_input_, a sequence of tokens
  setValues,  \* the values behind the getters
  setAnswer,  \* the response sent, until the next line begins
  setLine,    \* history: the line received so far
  setLast     \* history: the line answered, and the values before it

parserVars == <<setState, setName, setType, setInput>>
setVars == <<parserVars, setValues, setAnswer, setLine, setLast>>

SetStored == SetNames \ Absent

NoAnswer == [error |-> "none"]
NoLine == [line |-> <<>>]

SetInit ==
  /\ setState = "name" /\ setName = <<>> /\ setType = "read" /\ setInput = <<>>
  /\ setValues = [n \in SetStored |-> 0]
  /\ setAnswer = NoAnswer /\ setLine = <<>> /\ setLast = NoLine

-----------------------------------------------------------------------------
\* Setting_generic_handler::handle().  A request ends with an error or a result,
\* and the values it leaves.
Failed(error, values) == [error |-> error, result |-> <<>>, values |-> values]
Done(result, values) == [error |-> "none", result |-> result, values |-> values]

HandleRead(name, values) ==
  IF name \in Absent THEN Failed("calibration", values) ELSE Done(values[name], values)

HandleWrite(name, input, values) ==
  CASE name \notin Writable -> Failed("write_forbidden", values)
    [] name \in Writable /\ input.json # "number" -> Failed("invalid", values)
    [] name \in Absent /\ input.json = "number" -> Failed("calibration", values)
    [] name \in Writable \ Absent /\ input.json = "number" /\ ~Accepted(name, input.number) ->
         Failed("out_of_range", values)
    [] OTHER -> HandleRead(name, [values EXCEPT ![name] = input.number])

\* Setting_dispatcher::handle() of a plain name.  The result is an object with
\* one member.
Handle(name, type, input, values) ==
  IF name \notin SetNames THEN Failed("unknown", values)
  ELSE LET r == IF type = "read" THEN HandleRead(name, values) ELSE HandleWrite(name, input, values)
       IN IF r.error = "none" THEN Done(<<<<name, r.result>>>>, r.values) ELSE r

Skipped(special, name) == special = "basic" /\ name \in SkippedByBasic

\* Reading all: the members of the resulting object, whose order has no
\* meaning.  An error of one setting is a part of the result.
ReadAll(special, values) ==
  LET Part(name) == LET r == HandleRead(name, values)
                    IN <<name, IF r.error = "none" THEN r.result ELSE r.error>>
  IN Done({Part(name) : name \in {n \in SetNames : ~Skipped(special, n)}}, values)

BugWriteMember(special, r, member) ==
  IF Skipped(special, member[1]) THEN r
  ELSE LET w == Handle(member[1], "write", Number(member[2]), r.values)
       IN IF w.error = "none" THEN Done(Append(r.result, <<member[1], w.result>>), w.values)
          ELSE [r EXCEPT !.error = w.error]

\* Writing all: the members in the order of the object, up to the first error.
\* The result of each is the object that the plain name would have answered.
WriteMember(special, r, member) ==
  IF r.error # "none" \/ Skipped(special, member[1]) THEN r
  ELSE IF member[1] \in Special THEN Failed("invalid", r.values)
  ELSE LET w == Handle(member[1], "write", Number(member[2]), r.values)
       IN IF w.error = "none" THEN Done(Append(r.result, <<member[1], w.result>>), w.values)
          ELSE Failed(w.error, w.values)

WriteAll(special, input, values) ==
  LET written[n \in 0 .. Len(input.members)] ==
        IF n = 0 THEN Done(<<>>, values)
        ELSE WriteMember(special, written[n - 1], input.members[n])
  IN IF input.json # "object" THEN Failed("invalid", values)
     ELSE written[Len(input.members)]

Dispatch(name, type, input, values) ==
  CASE name = <<>> -> Failed("bug", values)
    [] Len(name) = 1 /\ name[1] \in Special /\ type = "read" -> ReadAll(name[1], values)
    [] Len(name) = 1 /\ name[1] \in Special /\ type = "write" -> WriteAll(name[1], input, values)
    [] Len(name) = 1 /\ name[1] \notin Special -> Handle(name[1], type, input, values)
    [] OTHER -> Failed("unknown", values)

-----------------------------------------------------------------------------
\* Setting_parser::handle_receive().  No character, or a document that does
\* not parse as a whole, and what to do with it.
Parsed(tokens) ==
  CASE tokens = <<>> -> Null
    [] Len(tokens) = 1 -> tokens[1]
    [] OTHER -> Junk

EndOfLine ==
  LET input == Parsed(setInput)
      r == IF setState = "input" /\ input.json # "not json"
           THEN Dispatch(setName, setType, input, setValues) ELSE Failed("invalid", setValues)
  IN /\ Len(setLine) > 0
     /\ setValues' = r.values
     /\ setAnswer' = IF r.error = "none" THEN [result |-> r.result] ELSE [error |-> r.error]
     /\ setState' = "name" /\ setName' = <<>> /\ setType' = "read" /\ setInput' = <<>>
     /\ setLine' = <<>> /\ setLast' = [line |-> setLine, values |-> setValues]

Room == Len(setLine) < SetLineLength
Forget == setAnswer' = NoAnswer /\ setLast' = NoLine

\* A character of the name, or the one that ends it.
ReceiveName ==
  /\ setState = "name" /\ Room
  /\ \E t \in NameTokens \cup {"<", ">", "?"} :
       /\ setLine' = Append(setLine, t)
       /\ setName' = IF t \in NameTokens THEN Append(setName, t) ELSE setName
       /\ setType' = IF t = "<" THEN "write" ELSE setType
       /\ setState' = CASE t \in {"<", ">"} -> "input"
                        [] t \in NameTokens -> "name"
                        [] t = "?" -> "error"
  /\ Forget /\ UNCHANGED <<setInput, setValues>>

ReceiveInput ==
  /\ setState = "input" /\ Room
  /\ \E d \in Documents :
       /\ setInput' = Append(setInput, d) /\ setLine' = Append(setLine, d)
       /\ Len(setInput) > 0 => d = Junk  \* two values are no value, whichever they are
  /\ Forget /\ UNCHANGED <<setState, setName, setType, setValues>>

\* What follows the first wrong character is dropped up to the end of the line.
ReceiveAfterError ==
  /\ setState = "error" /\ Room
  /\ \E t \in {"channel1Gain", "<", "?"} : setLine' = Append(setLine, t)
  /\ Forget /\ UNCHANGED <<setState, setName, setType, setInput, setValues>>

SetNext == ReceiveName \/ ReceiveInput \/ ReceiveAfterError \/ EndOfLine
SetSpec == SetInit /\ [][SetNext]_setVars

-----------------------------------------------------------------------------
\* The line of a request: a name, '<' or '>', at most one value.
Mark(line) ==
  CHOOSE i \in DOMAIN line : /\ line[i] \in {"<", ">"}
                             /\ \A k \in 1 .. i - 1 : line[k] \in NameTokens
IsRequest(line) ==
  \E i \in DOMAIN line :
    /\ \A k \in 1 .. i - 1 : line[k] \in NameTokens
    /\ \/ line[i] \in {"<", ">"} /\ Len(line) = i
       \/ line[i] \in {"<", ">"} /\ Len(line) = i + 1 /\ line[i + 1] # Junk

Answered == setLine = <<>> /\ setLast.line # <<>>
Failure  == "error" \in DOMAIN setAnswer

\* Each line is answered by itself, whatever the lines before it have left in
\* the parser: a line that is no request, or that asks for no setting, changes
\* nothing and is answered with an error; a request to read is answered with
\* the values there are.
LinesStandAlone ==
  Answered =>
    LET line == setLast.line
        name == SubSeq(line, 1, Mark(line) - 1)
    IN IF ~IsRequest(line) THEN setValues = setLast.values /\ Failure
       ELSE
         /\ Len(name) # 1 => setValues = setLast.values /\ Failure
         /\ (line[Mark(line)] = ">" /\ Len(name) = 1) =>
              /\ setValues = setLast.values
              /\ name[1] \in SetStored =>
                   setAnswer = [result |-> <<<<name[1], setValues[name[1]]>>>>]
              /\ name[1] \in Special =>
                   LET told == setAnswer.result IN
                     /\ {p[1] : p \in told} =
                          SetNames \ {n \in SkippedByBasic : name[1] = "basic"}
                     /\ \A p \in told : p[1] \in SetStored => p[2] = setValues[p[1]]

\* A write of several settings that fails is not taken back: it has set a
\* prefix of the members, all of them if it is answered with a result, and
\* nothing else.  The member after the prefix is at fault.
WritesArePrefixes ==
  LET line    == setLast.line
      members == line[3].members
      skip(m) == line[1] = "basic" /\ m[1] \in SkippedByBasic
      good(m) == m[1] \in Writable \ Absent /\ Accepted(m[1], m[2])
      Applied(n) == \A name \in SetStored :
        LET its == {k \in 1 .. n : members[k][1] = name /\ ~skip(members[k])}
        IN IF its = {} THEN setValues[name] = setLast.values[name]
           ELSE setValues[name] = members[CHOOSE k \in its : \A j \in its : j <= k][2]
  IN (Answered /\ IsRequest(line) /\ Len(line) = 3 /\ line[1] \in Special /\ line[2] = "<"
        /\ line[3].json = "object") =>
       \E n \in 0 .. Len(members) :
         /\ \A k \in 1 .. n : skip(members[k]) \/ good(members[k])
         /\ Applied(n)
         /\ IF Failure THEN n < Len(members) /\ ~skip(members[n + 1]) /\ ~good(members[n + 1])
            ELSE n = Len(members)

\* Safety: any sequence of lines, broken ones and writes that fail half way
\* among them, is answered line by line, and the values are those that the
\* answers tell of.
LinesAnswered == LinesStandAlone /\ WritesArePrefixes
=============================================================================
