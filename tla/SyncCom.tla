------------------------------ MODULE SyncCom ------------------------------
(***************************************************************************)
(* The SPI link between the driver (Bcm_spi, src/bcmspi.hpp) and the       *)
(* firmware (CSPIcomm, src/firmware/base/SPIcomm.cpp), character by         *)
(* character, with the flow control of src/synccom.hpp on both sides.      *)
(*                                                                         *)
(* The driver is the master: nothing moves unless it clocks a character.   *)
(* It sends a request, then clocks until it has seen an answer or gives    *)
(* up.  The firmware receives in an interrupt routine, executes a request  *)
(* in its main loop, in its own time, and answers from there.              *)
(*                                                                         *)
(* A character is a number; Flag stands for 0x80 and Radix for 256.  A     *)
(* message is made of text characters, which are neither 0 nor flagged.    *)
(***************************************************************************)
EXTENDS Integers, Sequences

CONSTANTS
  MaxRequests,   \* bound: exchanges in a behaviour
  MaxStalls,     \* bound: exchanges during which the driver pauses for 100 ms
  MaxDelay,      \* bound: characters the firmware lets pass before it answers
  Patience,      \* zeros the driver accepts before a length (100000)
  Silence,       \* zeros that make a silence frame (5)
  Radix, Flag,   \* values of a length's low byte, and the mark of its high one
  Lengths,       \* lengths of the messages
  Capacity       \* size of the firmware's receive buffer (4096)

ASSUME LinkAssumption ==
  /\ MaxRequests \in Nat /\ MaxStalls \in Nat /\ MaxDelay \in Nat
  /\ Patience \in Nat /\ Silence \in Nat \ {0}
  /\ Radix \in Nat \ {0} /\ Flag \in Nat \ {0} /\ MaxRequests < Flag
  /\ Lengths \subseteq Nat \ {0} /\ Lengths # {}
  /\ Capacity \in Nat \ {0}

Requests == 1 .. MaxRequests
Text(r, n) == [i \in 1 .. n |-> r]     \* a message of n characters about r

VARIABLES
  \* --- the driver ----------------------------------------------------------
  step,       \* what execute() is doing: idle, send, add or receive
  request,    \* requests so far; the last one is being or was executed
  com,        \* com_cntr_, its flow control
  outMsg,     \* the characters of the request not sent yet
  rec,        \* rec_fifo_
  \* --- the wire ------------------------------------------------------------
  data,       \* the firmware's DATA register: at most one character
  shift,      \* the character the next clock brings to the driver
  \* --- the firmware --------------------------------------------------------
  irqCom,     \* m_ComCntr
  fifo,       \* m_recFIFO
  main,       \* the main loop: in its loop, at work on a request, or replying
  hold,       \* m_recFIFOhold
  cntr,       \* flow control of its send()
  reply,      \* the characters of the answer not sent yet
  busy,       \* characters clocked since a request is waiting or being handled
  \* --- history -------------------------------------------------------------
  executed,   \* the requests executed
  responded,  \* responded[r]: the answer sent to request r
  answers,    \* answers[r]: how receive() ended for request r, and its text
  disturbed,  \* the current exchange met a busy firmware or was interrupted
  stalls      \* pauses so far

master == <<step, request, com, outMsg, rec>>
wire   == <<data, shift>>
irq    == <<irqCom, fifo>>
loop   == <<main, hold, cntr, reply>>
hist   == <<executed, responded, answers, disturbed, stalls>>
vars   == <<master, wire, irq, loop, busy, hist>>

-----------------------------------------------------------------------------
(* CSyncSerComFSM                                                           *)

Start(state) == [state |-> state, cnt |-> 0, target |-> 0]

Msb(n) == Flag + ((n \div Radix) % Flag)
Lsb(n) == n % Radix

\* The silence frame is over with this character.
BugSilenceSent(cnt) == cnt + 2 >= Silence          \* one zero short
SilenceSent(cnt) == cnt + 1 >= Silence

\* proc() while sending: the character to send, and what is left to do.  It
\* returns false, and there is no character, when the new state is "sent".
Sends(fsm, msg) ==
  CASE fsm.state = "silence" ->
         [ch |-> 0, msg |-> msg,
          fsm |-> IF SilenceSent(fsm.cnt) THEN Start("msb")
                  ELSE [fsm EXCEPT !.cnt = @ + 1]]
    [] fsm.state = "msb"  -> [ch |-> Msb(Len(msg)), msg |-> msg, fsm |-> Start("lsb")]
    [] fsm.state = "lsb"  -> [ch |-> Lsb(Len(msg)), msg |-> msg, fsm |-> Start("body")]
    [] fsm.state = "body" ->
         IF msg = <<>> THEN [ch |-> 0, msg |-> msg, fsm |-> Start("sent")]
         ELSE [ch |-> Head(msg), msg |-> Tail(msg), fsm |-> fsm]

\* No length has come within the time a receiver waits for it.
Impatient(cnt) == cnt > Patience

\* proc() while receiving ch: the new state of the flow control.  `got` is the
\* number of characters in the buffer once a body character is stored.
Receives(fsm, ch, got) ==
  CASE fsm.state = "recSilence" ->
         IF ch # 0 THEN Start("errLine")
         ELSE IF fsm.cnt + 1 >= Silence THEN Start("recMsb")
         ELSE [fsm EXCEPT !.cnt = @ + 1]
    [] fsm.state = "recMsb" ->
         IF ch # 0
         THEN [state |-> "recLsb", cnt |-> fsm.cnt, target |-> (ch % Flag) * Radix]
         ELSE IF Impatient(fsm.cnt) THEN Start("errTimeout")
         ELSE [fsm EXCEPT !.cnt = @ + 1]
    [] fsm.state = "recLsb" ->
         [fsm EXCEPT !.state = "recBody", !.target = @ + ch]
    [] fsm.state = "recBody" ->
         IF got >= fsm.target THEN Start("recOK") ELSE fsm
    [] OTHER -> fsm

\* The flow control expects more characters.
BugReceiving(fsm) ==                               \* overlooks the timeout
  fsm.state \notin {"recOK", "errLine"}
Receiving(fsm) == fsm.state \in {"recSilence", "recMsb", "recLsb", "recBody"}

\* CFIFOlt: a full buffer starts again at its beginning.
Stored(buffer, ch) ==
  IF Len(buffer) >= Capacity THEN <<ch>> ELSE Append(buffer, ch)

-----------------------------------------------------------------------------
Init ==
  /\ step = "idle" /\ request = 0 /\ com = Start("halted")
  /\ outMsg = <<>> /\ rec = <<>>
  /\ data = <<>> /\ shift = 0
  /\ irqCom = Start("halted") /\ fifo = <<>>
  /\ main = "loop" /\ hold = <<>> /\ cntr = Start("halted") /\ reply = <<>>
  /\ busy = 0
  /\ executed = <<>>
  /\ responded = [r \in Requests |-> <<>>]
  /\ answers = [r \in Requests |-> [how |-> "none", text |-> <<>>]]
  /\ disturbed = FALSE /\ stalls = 0

-----------------------------------------------------------------------------
(* The driver                                                               *)

\* The main loop has a request to take over or is at work on one.
Awaited == main = "work" \/ (main = "loop" /\ irqCom.state = "recOK")

\* Chip select falls: the firmware's interrupt routine starts to receive.
BugSlaveSelected == irqCom' = Start("recMsb") /\ UNCHANGED fifo
SlaveSelected == irqCom' = Start("recMsb") /\ fifo' = <<>>

BugAnswerReset == rec' = rec                        \* keeps the last answer
AnswerReset == rec' = <<>>

Begin(n) ==
  /\ step = "idle" /\ request < MaxRequests
  /\ step' = "send" /\ request' = request + 1
  /\ com' = Start("msb") /\ outMsg' = Text(request + 1, n)
  /\ AnswerReset
  /\ SlaveSelected
  /\ disturbed' = (Awaited \/ main = "reply")
  /\ UNCHANGED <<wire, loop, busy, executed, responded, answers, stalls>>

\* The driver clocks one character: ch goes to the interrupt routine, and the
\* register follows the character that was on its way to the driver.  The
\* firmware answers within MaxDelay characters, and once it has begun to reply
\* it fills the register before the next clock.
Clock(ch) ==
  /\ Awaited => busy < MaxDelay
  /\ main = "reply" => data # <<>>
  /\ busy' = IF Awaited THEN busy + 1 ELSE 0
  /\ shift' = (IF data = <<>> THEN 0 ELSE Head(data)) /\ data' = <<>>
  /\ LET stored == Stored(fifo, ch)
         inBody == irqCom.state = "recBody"
     IN /\ irqCom' = Receives(irqCom, ch, Len(stored))
        /\ fifo' = IF inBody THEN stored ELSE fifo
  /\ UNCHANGED loop

SendRequest ==
  /\ step = "send"
  /\ LET next == Sends(com, outMsg) IN
     /\ com' = next.fsm /\ outMsg' = next.msg
     /\ IF next.fsm.state = "sent"
        THEN step' = "add" /\ UNCHANGED <<wire, irq, loop, busy>>
        ELSE Clock(next.ch) /\ UNCHANGED step
  /\ UNCHANGED <<request, rec, hist>>

\* One more clock, then the driver looks for the answer.
AddClock ==
  /\ step = "add"
  /\ Clock(0)
  /\ step' = "receive" /\ com' = Start("recSilence")
  /\ UNCHANGED <<request, outMsg, rec, hist>>

\* A character of the answer; at the end execute() returns what it has got, or
\* throws.
ReceiveAnswer ==
  /\ step = "receive"
  /\ Clock(0)
  /\ rec' = IF com.state = "recBody" THEN Append(rec, shift) ELSE rec
  /\ com' = Receives(com, shift, Len(rec'))
  /\ IF Receiving(com')
     THEN UNCHANGED <<step, answers>>
     ELSE /\ step' = "idle"
          /\ answers' = [answers EXCEPT ![request] =
                           [how |-> com'.state, text |-> rec']]
  /\ UNCHANGED <<request, outMsg, executed, responded, disturbed, stalls>>

-----------------------------------------------------------------------------
(* The firmware's main loop                                                 *)

\* Update(): a whole message is taken over from the interrupt routine.
Update ==
  /\ main = "loop" /\ irqCom.state = "recOK"
  /\ hold' = fifo /\ fifo' = <<>>
  /\ irqCom' = Start("halted")
  /\ main' = "work"
  /\ UNCHANGED <<master, wire, cntr, reply, busy, hist>>

\* The setting parser executes the request and turns to the answer.
Work(n) ==
  /\ main = "work"
  /\ LET r == hold[1] IN
     /\ executed' = Append(executed, hold)
     /\ responded' = [responded EXCEPT ![r] = Text(r, n)]
     /\ reply' = Text(r, n)
  /\ hold' = <<>>
  /\ cntr' = Start("silence")
  /\ main' = "reply"
  /\ UNCHANGED <<master, wire, irq, busy, answers, disturbed, stalls>>

\* send(): a character is put into the empty DATA register.
Reply ==
  /\ main = "reply" /\ data = <<>>
  /\ LET next == Sends(cntr, reply) IN
     /\ cntr' = next.fsm /\ reply' = next.msg
     /\ IF next.fsm.state = "sent"
        THEN main' = "loop" /\ UNCHANGED data
        ELSE data' = <<next.ch>> /\ UNCHANGED main
  /\ UNCHANGED <<master, shift, irq, hold, busy, hist>>

\* send_char() waits 100 ms for a clock, then send() gives up.  That happens
\* when no exchange is going on, or when the driver pauses in one.
GiveUp ==
  /\ main = "reply" /\ data # <<>>
  /\ IF step = "idle"
     THEN UNCHANGED <<disturbed, stalls>>
     ELSE stalls < MaxStalls /\ stalls' = stalls + 1 /\ disturbed' = TRUE
  /\ main' = "loop" /\ reply' = <<>>
  /\ UNCHANGED <<master, wire, irq, hold, cntr, busy, executed, responded,
                 answers>>

-----------------------------------------------------------------------------
DriverStep == SendRequest \/ AddClock \/ ReceiveAnswer

FirmwareStep ==
  \/ Update
  \/ \E n \in Lengths : Work(n)
  \/ Reply
  \/ GiveUp

Next ==
  \/ \E n \in Lengths : Begin(n)
  \/ DriverStep
  \/ FirmwareStep

\* The driver goes on with an exchange and the firmware's main loop runs.
Fairness == WF_vars(DriverStep) /\ WF_vars(FirmwareStep)

Spec == Init /\ [][Next]_vars
FairSpec == Spec /\ Fairness

-----------------------------------------------------------------------------
(* Properties                                                               *)

Chars == 0 .. 2 * Flag + Radix
States == {"halted", "silence", "msb", "lsb", "body", "sent", "recSilence",
           "recMsb", "recLsb", "recBody", "recOK", "errLine", "errTimeout"}
FsmOK(fsm) ==
  /\ fsm.state \in States
  /\ fsm.cnt \in 0 .. Patience + Silence + 1 /\ fsm.target \in Nat

\* Every variable holds a value of its type; the firmware's buffer never
\* exceeds its capacity.
TypeOK ==
  /\ step \in {"idle", "send", "add", "receive"} /\ request \in 0 .. MaxRequests
  /\ FsmOK(com) /\ FsmOK(irqCom) /\ FsmOK(cntr)
  /\ outMsg \in Seq(Requests) /\ rec \in Seq(Chars)
  /\ data \in Seq(Chars) /\ Len(data) <= 1 /\ shift \in Chars
  /\ fifo \in Seq(Chars) /\ Len(fifo) <= Capacity
  /\ main \in {"loop", "work", "reply"}
  /\ hold \in Seq(Chars) /\ reply \in Seq(Requests)
  /\ busy \in 0 .. MaxDelay
  /\ executed \in Seq(Seq(Chars))
  /\ responded \in [Requests -> Seq(Requests)]
  /\ disturbed \in BOOLEAN /\ stalls \in 0 .. MaxStalls

Done(r) == answers[r].how # "none"
Answered(r) == answers[r] = [how |-> "recOK", text |-> responded[r]]

\* When the firmware is never slower than the driver is patient, every request
\* is answered, with the answer the firmware gave to it.
EveryRequestAnswered ==
  \A r \in Requests : Done(r) => Answered(r)

\* An exchange that succeeds returns the answer to its own request.
AnswerIsToTheRequest ==
  \A r \in Requests : answers[r].how = "recOK" => Answered(r)

\* Whatever went wrong before, an exchange that meets a firmware with nothing
\* else to do either returns the answer to its own request or times out: no
\* character left over from an earlier exchange is taken for part of an answer.
UndisturbedIsTrue ==
  step = "idle" /\ request > 0 /\ ~disturbed =>
    Answered(request) \/ answers[request].how = "errTimeout"

\* The firmware executes whole requests only, each at most once and in the
\* order in which the driver made them, also when an exchange was abandoned in
\* the middle of a request or of an answer.
ExecutedOnceInOrder ==
  /\ \A i \in DOMAIN executed :
       \E n \in Lengths : executed[i] = Text(executed[i][1], n)
  /\ \A i, j \in DOMAIN executed : i < j => executed[i][1] < executed[j][1]

\* And no buffer on the way ever holds more than it has room for, which is
\* where a request that is too long for it must not become another one.
ExecutedWithinBounds == TypeOK /\ ExecutedOnceInOrder

\* Every exchange ends, however the characters on the wire read.
ExchangesEnd == step # "idle" ~> step = "idle"
=============================================================================
