----------------------------- MODULE LinkProofs -----------------------------
(***************************************************************************)
(* Proofs about the SPI link, for messages of any length, any capacity,    *)
(* delay and patience: what the firmware executes, and what the driver     *)
(* takes for an answer.  Then, about the firmware's receive buffers, what  *)
(* the main loop hands over while the interrupt routine receives.          *)
(***************************************************************************)
EXTENDS SyncComCall, Fifo, SequenceTheorems, TLAPS

\* A length has fifteen bits: seven in its high character, eight in the low.
LengthsFit == \A n \in Lengths : n < Radix * Flag

\* A message about r, or what is left of one.
Part(r, msg)  == msg = Text(r, Len(msg))
Whole(r, msg) == Part(r, msg) /\ Len(msg) \in Lengths

-----------------------------------------------------------------------------
(* The request on its way                                                   *)

\* Driver and interrupt routine are at the same place of the request; what is
\* in the buffer and what is still to send make it up.  A request that is
\* longer than the buffer is never complete.
RequestComes ==
  /\ step # "idle" \/ irqCom.state # "halted" => request \in Requests
  /\ irqCom.state \in {"halted", "recMsb", "recLsb", "recBody", "recOK"}
  /\ step = "send" => com.state \in {"msb", "lsb", "body"} /\ Part(request, outMsg)
  /\ irqCom.state = "recMsb" <=> step = "send" /\ com.state = "msb"
  /\ irqCom.state = "recLsb" <=> step = "send" /\ com.state = "lsb"
  /\ irqCom.state \in {"recMsb", "recLsb"} => Whole(request, outMsg) /\ fifo = <<>>
  /\ irqCom.state = "recLsb" => irqCom.target = (Msb(Len(outMsg)) % Flag) * Radix
  /\ irqCom.state = "recBody" =>
       /\ irqCom.target \in Lengths
       /\ irqCom.target <= Capacity =>
            /\ step = "send" /\ Part(request, fifo)
            /\ Len(fifo) + Len(outMsg) = irqCom.target /\ outMsg # <<>>
  /\ irqCom.state = "recOK" => Whole(request, fifo)
  /\ irqCom.state \in {"recOK", "halted"} /\ step = "send" => outMsg = <<>>
  /\ step = "receive" => Receiving(com)

\* What was executed was whole and came in order, and so does what is at work;
\* a request that is on its way was neither.
InTurn ==
  /\ \A i \in DOMAIN executed :
       /\ executed[i][1] \in 1 .. request /\ Whole(executed[i][1], executed[i])
       /\ \A j \in DOMAIN executed : i < j => executed[i][1] < executed[j][1]
  /\ main = "work" => /\ hold[1] \in 1 .. request /\ Whole(hold[1], hold)
                      /\ \A i \in DOMAIN executed : executed[i][1] < hold[1]
  /\ irqCom.state # "halted" => /\ \A i \in DOMAIN executed : executed[i][1] < request
                                /\ main = "work" => hold[1] < request

Fsms == [state : States, cnt : 0 .. Patience + Silence + 1, target : Nat]

LinkTypes ==
  /\ TypeOK /\ com \in Fsms /\ irqCom \in Fsms /\ cntr \in Fsms
  /\ main = "reply" => cntr.state \in {"silence", "msb", "lsb", "body"}

LinkInv == LinkTypes /\ RequestComes /\ InTurn

-----------------------------------------------------------------------------
(* The answer on its way                                                    *)

None == [how |-> "none", text |-> <<>>]

\* A request has no answer before it was executed, nor returned before its
\* exchange is over.
NotYet ==
  /\ answers \in [Requests -> [how : States \cup {"none"}, text : Seq(Chars)]]
  /\ \A r \in Requests : r > request => responded[r] = <<>> /\ answers[r] = None
  /\ \A r \in Requests : responded[r] # <<>> => Whole(r, responded[r])
  /\ irqCom.state # "halted" => responded[request] = <<>>
  /\ main = "work" => responded[hold[1]] = <<>>
  /\ step # "idle" => answers[request] = None
  /\ step \in {"send", "add"} => rec = <<>>

Alone == step # "idle" /\ ~disturbed
Unanswered == responded[request] = <<>>

\* Before the answer begins the line falls silent: what was left of an earlier
\* exchange has been clocked out with the head of the request.
LineSilent ==
  Alone /\ Unanswered =>
    /\ main \in {"loop", "work"}
    /\ main = "work" => hold[1] = request /\ irqCom.state = "halted"
    /\ main = "loop" => irqCom.state # "halted"
    /\ step = "send" /\ com.state = "lsb" => data = <<>>
    /\ (step = "send" => com.state = "body") => data = <<>> /\ shift = 0
    /\ step = "receive" => com.state \in {"recSilence", "recMsb"} /\ rec = <<>>

\* The zeros the driver will see before the length.
Zeros == 1 + Len(data) + (IF cntr.state = "silence" THEN Silence - cntr.cnt ELSE 0)

High == Msb(Len(responded[request]))
Low  == Lsb(Len(responded[request]))

\* The stages of an answer.  At each of them the two flow controls, the
\* register and the line are at places that fit.
InSilence ==
  /\ main = "reply" /\ cntr.state \in {"silence", "msb"} /\ reply = responded[request]
  /\ data \in {<<>>, <<0>>} /\ shift = 0
  /\ cntr.state = "silence" => cntr.cnt < Silence
  /\ step \in {"send", "add"} => Zeros = Silence + 1
  /\ step = "receive" => /\ rec = <<>> /\ com.state \in {"recSilence", "recMsb"}
                         /\ com.state = "recSilence" => com.cnt + Zeros >= Silence

HighPut ==
  /\ main = "reply" /\ cntr.state = "lsb" /\ reply = responded[request]
  /\ data = <<High>> /\ shift = 0
  /\ step = "receive" /\ rec = <<>> /\ com.state \in {"recSilence", "recMsb"}
  /\ com.state = "recSilence" => com.cnt + 1 >= Silence

HighComes ==
  /\ main = "reply" /\ cntr.state = "lsb" /\ reply = responded[request]
  /\ data = <<>> /\ shift = High
  /\ step = "receive" /\ rec = <<>> /\ com.state = "recMsb"

LowPut ==
  /\ main = "reply" /\ cntr.state = "body" /\ reply = responded[request]
  /\ data = <<Low>> /\ shift = High
  /\ step = "receive" /\ rec = <<>> /\ com.state = "recMsb"

LowComes ==
  /\ main = "reply" /\ cntr.state = "body"
  /\ shift = Low /\ step = "receive" /\ rec = <<>>
  /\ com.state = "recLsb" /\ com.target = (High % Flag) * Radix
  /\ \/ data = <<>> /\ reply = responded[request]
     \/ data = <<request>> /\ reply = Tail(responded[request])

TextComes ==
  /\ main \in {"reply", "loop"}
  /\ main = "reply" => cntr.state = "body"
  /\ shift = request /\ data \in {<<>>, <<request>>}
  /\ main = "loop" => data = <<>> /\ reply = <<>>
  /\ step = "receive" /\ com.state = "recBody" /\ com.target = Len(responded[request])
  /\ Part(request, rec) /\ Part(request, reply)
  /\ Len(rec) + 1 + Len(data) + Len(reply) = Len(responded[request])

AnswerComes ==
  Alone /\ ~Unanswered =>
    /\ irqCom.state = "halted"
    /\ InSilence \/ HighPut \/ HighComes \/ LowPut \/ LowComes \/ TextComes

\* An exchange that was alone on the line has ended with its answer or a time-out.
EndedWell ==
  step = "idle" /\ request > 0 /\ ~disturbed =>
    (Answered(request) /\ ~Unanswered) \/ answers[request].how = "errTimeout"

AnswerInv == LinkInv /\ NotYet /\ LineSilent /\ AnswerComes /\ EndedWell

-----------------------------------------------------------------------------
(* A firmware that is fast enough                                           *)

Prompt ==
  /\ MaxStalls = 0 /\ MaxDelay <= Patience
  /\ \A n \in Lengths : n <= Capacity

\* Between two exchanges the firmware has nothing left to do.
Rest ==
  /\ ~disturbed
  /\ step = "idle" => main = "loop" /\ irqCom.state = "halted"
  /\ \A r \in Requests : r < request \/ (r = request /\ step = "idle") => 
       answers[r] = [how |-> "recOK", text |-> responded[r]] /\ responded[r] # <<>>

\* The zeros so far and those to come are fewer than the driver accepts.
InTime ==
  step = "receive" =>
    /\ Unanswered => /\ com.state = "recSilence" => com.cnt + 1 <= busy
                     /\ com.state = "recMsb" => com.cnt + 1 + Silence <= busy
    /\ InSilence => /\ com.state = "recSilence" => com.cnt + Zeros <= MaxDelay + Silence
                    /\ com.state = "recMsb" => com.cnt + Zeros <= MaxDelay
    /\ HighPut /\ com.state = "recMsb" => com.cnt + 1 <= MaxDelay

PromptInv == AnswerInv /\ Rest /\ InTime

-----------------------------------------------------------------------------
(* Messages and lengths                                                     *)

LEMMA TextIs ==
  ASSUME NEW S, NEW r \in S, NEW n \in Nat
  PROVE  /\ Text(r, n) \in Seq(S) /\ Len(Text(r, n)) = n
         /\ \A i \in 1 .. n : Text(r, n)[i] = r
         /\ n = 0 => Text(r, n) = <<>>
         /\ n # 0 => Text(r, n) # <<>>
<1>1. Text(r, n) \in [1 .. n -> S]
  BY DEF Text
<1>2. Text(r, n) \in Seq(S) /\ Len(Text(r, n)) = n
  BY <1>1
<1>3. \A i \in 1 .. n : Text(r, n)[i] = r
  BY DEF Text
<1> HIDE DEF Text
<1> QED
  BY <1>2, <1>3

\* A sequence of nothing but r is a message about r.
LEMMA IsText ==
  ASSUME NEW S, NEW r \in S, NEW s \in Seq(S), \A i \in 1 .. Len(s) : s[i] = r
  PROVE  Part(r, s)
<1>1. Len(s) \in Nat
  OBVIOUS
<1>2. Text(r, Len(s)) \in Seq(S) /\ Len(Text(r, Len(s))) = Len(s)
      /\ \A i \in 1 .. Len(s) : Text(r, Len(s))[i] = r
  BY <1>1, TextIs
<1>3. s = Text(r, Len(s))
  BY <1>2, SeqEqual
<1> QED
  BY <1>3 DEF Part

LEMMA TextGrows ==
  ASSUME NEW S, NEW r \in S, NEW s \in Seq(S), Part(r, s)
  PROVE  Part(r, Append(s, r)) /\ Len(Append(s, r)) = Len(s) + 1
         /\ Append(s, r) \in Seq(S)
<1>0. Len(s) \in Nat
  OBVIOUS
<1>1. \A i \in 1 .. Len(s) : s[i] = r
  <2>1. \A i \in 1 .. Len(s) : Text(r, Len(s))[i] = r
    BY <1>0, TextIs
  <2> QED
    BY <2>1 DEF Part
<1>2. /\ Append(s, r) \in Seq(S) /\ Len(Append(s, r)) = Len(s) + 1
      /\ \A i \in 1 .. (Len(s) + 1) : Append(s, r)[i] = r
  BY <1>0, <1>1
<1> QED
  BY <1>2, IsText

LEMMA TextShrinks ==
  ASSUME NEW S, NEW r \in S, NEW s \in Seq(S), Part(r, s), s # <<>>
  PROVE  /\ Head(s) = r /\ s[1] = r
         /\ Tail(s) \in Seq(S) /\ Part(r, Tail(s)) /\ Len(Tail(s)) = Len(s) - 1
<1>0. Len(s) \in Nat \ {0}
  OBVIOUS
<1>1. \A i \in 1 .. Len(s) : s[i] = r
  <2>1. \A i \in 1 .. Len(s) : Text(r, Len(s))[i] = r
    BY <1>0, TextIs
  <2> QED
    BY <2>1 DEF Part
<1>2. /\ Tail(s) \in Seq(S) /\ Len(Tail(s)) = Len(s) - 1
      /\ \A i \in 1 .. (Len(s) - 1) : Tail(s)[i] = r
  BY <1>0, <1>1
<1>3. Head(s) = r /\ s[1] = r
  BY <1>0, <1>1
<1> QED
  BY <1>2, <1>3, IsText

LEMMA LengthsAre ==
  /\ Lengths \subseteq Nat \ {0} /\ Radix \in Nat \ {0} /\ Flag \in Nat \ {0}
  /\ Silence \in Nat \ {0} /\ Capacity \in Nat \ {0} /\ MaxRequests \in Nat
  /\ MaxRequests < Flag /\ Patience \in Nat /\ MaxDelay \in Nat /\ MaxStalls \in Nat
BY LinkAssumption

\* What the two characters of a length say.
LEMMA LengthRead ==
  ASSUME NEW n \in Nat, n < Radix * Flag
  PROVE  (Msb(n) % Flag) * Radix + Lsb(n) = n
<1>0. Radix \in Nat \ {0} /\ Flag \in Nat \ {0}
  BY LengthsAre
<1> DEFINE q == n \div Radix
           p == n % Radix
<1>1. q \in Nat /\ p \in 0 .. (Radix - 1) /\ n = Radix * q + p
  BY <1>0
<1>2. q < Flag
  <2> SUFFICES ASSUME q >= Flag PROVE FALSE
    BY <1>0, <1>1
  <2>1. Radix * q >= Radix * Flag
    <3> HIDE DEF q
    <3> QED BY <1>0, <1>1
  <2> HIDE DEF q, p
  <2> DEFINE a == Radix * q
             b == Radix * Flag
  <2>2. a \in Nat /\ b \in Nat
    BY <1>0, <1>1
  <2> HIDE DEF a, b
  <2> QED BY <1>0, <1>1, <2>1, <2>2 DEF a, b
<1>3. q % Flag = q
  <2> HIDE DEF q
  <2> QED BY <1>0, <1>1, <1>2
<1>4. (Flag + q) % Flag = q
  <2> HIDE DEF q
  <2> QED BY <1>0, <1>1, <1>2
<1>5. Msb(n) % Flag = q
  BY <1>3, <1>4 DEF Msb
<1>6. Lsb(n) = p
  BY DEF Lsb
<1>7. q * Radix = Radix * q
  <2> HIDE DEF q
  <2> QED BY <1>0, <1>1
<1> HIDE DEF q, p
<1> QED
  BY <1>1, <1>5, <1>6, <1>7

LEMMA CharsAre ==
  ASSUME NEW n \in Nat
  PROVE  /\ Msb(n) \in Chars /\ Msb(n) # 0 /\ Lsb(n) \in Chars
         /\ Msb(n) % Flag \in Nat /\ (Msb(n) % Flag) * Radix \in Nat
         /\ 0 \in Chars /\ Requests \subseteq Chars
<1>0. Radix \in Nat \ {0} /\ Flag \in Nat \ {0} /\ MaxRequests \in Nat /\ MaxRequests < Flag
  BY LengthsAre
<1>1. n \div Radix \in Nat /\ n % Radix \in 0 .. (Radix - 1)
  BY <1>0
<1>2. (n \div Radix) % Flag \in 0 .. (Flag - 1)
  BY <1>0, <1>1
<1>3. Msb(n) \in Flag .. (2 * Flag - 1)
  BY <1>0, <1>2 DEF Msb
<1>4. Msb(n) % Flag \in Nat
  BY <1>0, <1>3
<1>5. (Msb(n) % Flag) * Radix \in Nat
  BY <1>0, <1>4
<1>6. Lsb(n) \in 0 .. (Radix - 1)
  BY <1>1 DEF Lsb
<1> QED
  BY <1>0, <1>3, <1>4, <1>5, <1>6 DEF Chars, Requests

-----------------------------------------------------------------------------
(* The flow control                                                         *)

LEMMA Starts ==
  ASSUME NEW state \in States
  PROVE  Start(state) \in Fsms /\ Start(state) = [state |-> state, cnt |-> 0, target |-> 0]
BY LengthsAre DEF Start, Fsms

LEMMA SendsAre ==
  ASSUME NEW fsm \in Fsms, NEW msg \in Seq(Requests),
         fsm.state \in {"silence", "msb", "lsb", "body"}
  PROVE  /\ Sends(fsm, msg).fsm \in Fsms /\ Sends(fsm, msg).msg \in Seq(Requests)
         /\ Sends(fsm, msg).ch \in Chars
         /\ Sends(fsm, msg).fsm.state \in {"silence", "msb", "lsb", "body", "sent"}
<1> DEFINE next == Sends(fsm, msg)
<1>0. Len(msg) \in Nat /\ 0 \in Chars
  BY CharsAre
<1>s. /\ Start("msb") \in Fsms /\ Start("lsb") \in Fsms
      /\ Start("body") \in Fsms /\ Start("sent") \in Fsms
      /\ Start("msb").state = "msb" /\ Start("lsb").state = "lsb"
      /\ Start("body").state = "body" /\ Start("sent").state = "sent"
  BY Starts DEF States
<1>1. CASE fsm.state = "silence"
  <2>1. CASE SilenceSent(fsm.cnt)
    <3>1. next = [ch |-> 0, msg |-> msg, fsm |-> Start("msb")]
      BY <1>1, <2>1 DEF Sends
    <3> HIDE DEF next
    <3>2. next.fsm \in Fsms /\ next.msg \in Seq(Requests) /\ next.ch \in Chars
          /\ next.fsm.state \in {"silence", "msb", "lsb", "body", "sent"}
      BY <1>0, <1>s, <3>1
    <3> QED
      BY <3>2 DEF next
  <2>2. CASE ~SilenceSent(fsm.cnt)
    <3>1. next = [ch |-> 0, msg |-> msg, fsm |-> [fsm EXCEPT !.cnt = @ + 1]]
      BY <1>1, <2>2 DEF Sends
    <3>2. [fsm EXCEPT !.cnt = @ + 1] \in Fsms /\ [fsm EXCEPT !.cnt = @ + 1].state = "silence"
      <4>1. fsm.cnt \in Nat /\ fsm.cnt + 1 < Silence /\ Silence \in Nat /\ Patience \in Nat
        BY <2>2, LengthsAre DEF Fsms, SilenceSent
      <4>2. fsm.cnt + 1 \in 0 .. Patience + Silence + 1
        BY <4>1
      <4> QED
        BY <1>1, <4>2 DEF Fsms
    <3> HIDE DEF next
    <3>3. next.fsm \in Fsms /\ next.msg \in Seq(Requests) /\ next.ch \in Chars
          /\ next.fsm.state \in {"silence", "msb", "lsb", "body", "sent"}
      BY <1>0, <3>1, <3>2
    <3> QED
      BY <3>3 DEF next
  <2> QED
    BY <2>1, <2>2
<1>2. CASE fsm.state = "msb"
  <2>1. next = [ch |-> Msb(Len(msg)), msg |-> msg, fsm |-> Start("lsb")]
    BY <1>2 DEF Sends
  <2>2. Msb(Len(msg)) \in Chars
    BY <1>0, CharsAre
  <2> HIDE DEF next
  <2>3. next.fsm \in Fsms /\ next.msg \in Seq(Requests) /\ next.ch \in Chars
        /\ next.fsm.state \in {"silence", "msb", "lsb", "body", "sent"}
    BY <1>0, <1>s, <2>1, <2>2
  <2> QED
    BY <2>3 DEF next
<1>3. CASE fsm.state = "lsb"
  <2>1. next = [ch |-> Lsb(Len(msg)), msg |-> msg, fsm |-> Start("body")]
    BY <1>3 DEF Sends
  <2>2. Lsb(Len(msg)) \in Chars
    BY <1>0, CharsAre
  <2> HIDE DEF next
  <2>3. next.fsm \in Fsms /\ next.msg \in Seq(Requests) /\ next.ch \in Chars
        /\ next.fsm.state \in {"silence", "msb", "lsb", "body", "sent"}
    BY <1>0, <1>s, <2>1, <2>2
  <2> QED
    BY <2>3 DEF next
<1>4. CASE fsm.state = "body" /\ msg = <<>>
  <2>1. next = [ch |-> 0, msg |-> msg, fsm |-> Start("sent")]
    BY <1>4 DEF Sends
  <2> QED
    BY <1>0, <1>s, <2>1
<1>5. CASE fsm.state = "body" /\ msg # <<>>
  <2>1. next = [ch |-> Head(msg), msg |-> Tail(msg), fsm |-> fsm]
    BY <1>5 DEF Sends
  <2>2. Head(msg) \in Requests /\ Tail(msg) \in Seq(Requests)
    BY <1>5
  <2> HIDE DEF next
  <2>3. next.fsm \in Fsms /\ next.msg \in Seq(Requests) /\ next.ch \in Chars
        /\ next.fsm.state \in {"silence", "msb", "lsb", "body", "sent"}
    BY <1>0, <1>5, <2>1, <2>2, CharsAre
  <2> QED
    BY <2>3 DEF next
<1> QED
  BY <1>1, <1>2, <1>3, <1>4, <1>5

LEMMA ReceivesAre ==
  ASSUME NEW fsm \in Fsms, NEW ch \in Chars, NEW got \in Nat
  PROVE  Receives(fsm, ch, got) \in Fsms
<1>0. ch \in Nat
  BY LengthsAre DEF Chars
<1>1. CASE fsm.state = "recSilence"
  <2>1. fsm.cnt + 1 < Silence => [fsm EXCEPT !.cnt = @ + 1] \in Fsms
    BY LengthsAre DEF Fsms
  <2>2. fsm.cnt \in Int
    BY DEF Fsms
  <2> QED
    BY <1>1, <2>1, <2>2, Starts, LengthsAre DEF Receives, States
<1>2. CASE fsm.state = "recMsb"
  <2>1. ~Impatient(fsm.cnt) => [fsm EXCEPT !.cnt = @ + 1] \in Fsms
    BY LengthsAre DEF Fsms, Impatient
  <2>2. (ch % Flag) * Radix \in Nat
    <3>1. ch % Flag \in Nat
      BY <1>0, LengthsAre
    <3> HIDE <1>1, <1>2
    <3> QED
      BY <3>1, LengthsAre
  <2>3. [state |-> "recLsb", cnt |-> fsm.cnt, target |-> (ch % Flag) * Radix] \in Fsms
    BY <2>2 DEF Fsms, States
  <2> QED
    BY <1>2, <2>1, <2>3, Starts DEF Receives, States
<1>3. CASE fsm.state = "recLsb"
  <2>1. Receives(fsm, ch, got) = [fsm EXCEPT !.state = "recBody", !.target = @ + ch]
    BY <1>3 DEF Receives
  <2>2. fsm.target + ch \in Nat
    BY <1>0 DEF Fsms
  <2> QED
    BY <2>1, <2>2 DEF Fsms, States
<1>4. CASE fsm.state = "recBody"
  BY <1>4, Starts DEF Receives, States
<1>5. CASE fsm.state \notin {"recSilence", "recMsb", "recLsb", "recBody"}
  BY <1>5 DEF Receives
<1> QED
  BY <1>1, <1>2, <1>3, <1>4, <1>5

LEMMA StoredIs ==
  ASSUME NEW buffer \in Seq(Chars), NEW ch \in Chars, Len(buffer) <= Capacity
  PROVE  /\ Stored(buffer, ch) \in Seq(Chars)
         /\ Len(Stored(buffer, ch)) \in Nat /\ Len(Stored(buffer, ch)) <= Capacity
         /\ Len(buffer) < Capacity => Stored(buffer, ch) = Append(buffer, ch)
<1>1. Len(buffer) \in Nat /\ Append(buffer, ch) \in Seq(Chars) /\ <<ch>> \in Seq(Chars)
      /\ Len(Append(buffer, ch)) = Len(buffer) + 1 /\ Len(<<ch>>) = 1
  OBVIOUS
<1> QED
  BY <1>1, LengthsAre DEF Stored

LEMMA SomeChars == 0 \in Chars /\ Requests \subseteq Chars
BY CharsAre, LengthsAre

\* A clock: what it brings to either side is of the right kind.
LEMMA ClockTypes ==
  ASSUME LinkTypes, NEW ch \in Chars, Clock(ch)
  PROVE  /\ data' = <<>> /\ shift' = (IF data = <<>> THEN 0 ELSE Head(data)) /\ shift' \in Chars
         /\ irqCom' = Receives(irqCom, ch, Len(Stored(fifo, ch))) /\ irqCom' \in Fsms
         /\ fifo' = (IF irqCom.state = "recBody" THEN Stored(fifo, ch) ELSE fifo)
         /\ fifo' \in Seq(Chars) /\ Len(fifo') <= Capacity
         /\ busy' \in 0 .. MaxDelay
         /\ UNCHANGED <<main, hold, cntr, reply>>
<1>1. /\ fifo \in Seq(Chars) /\ Len(fifo) \in Nat /\ Len(fifo) <= Capacity /\ irqCom \in Fsms
      /\ busy \in 0 .. MaxDelay /\ data \in Seq(Chars)
  BY DEF LinkTypes, TypeOK
<1>2. data' = <<>> /\ shift' = (IF data = <<>> THEN 0 ELSE Head(data)) /\ shift' \in Chars
  BY <1>1, LengthsAre DEF Clock, Chars
<1>3. Stored(fifo, ch) \in Seq(Chars) /\ Len(Stored(fifo, ch)) \in Nat
      /\ Len(Stored(fifo, ch)) <= Capacity
  BY <1>1, StoredIs, LengthsAre
<1>4. irqCom' = Receives(irqCom, ch, Len(Stored(fifo, ch)))
      /\ fifo' = (IF irqCom.state = "recBody" THEN Stored(fifo, ch) ELSE fifo)
  BY DEF Clock
<1>5. irqCom' \in Fsms
  BY <1>1, <1>3, <1>4, ReceivesAre
<1>6. busy' \in 0 .. MaxDelay
  BY <1>1, LengthsAre DEF Clock
<1> QED
  BY <1>1, <1>2, <1>3, <1>4, <1>5, <1>6 DEF Clock, loop

-----------------------------------------------------------------------------
(* Types                                                                    *)

LEMMA FsmsOK == \A fsm \in Fsms : FsmOK(fsm)
BY DEF Fsms, FsmOK

LEMMA LinkTypesInit == Init => LinkTypes
<1> SUFFICES ASSUME Init PROVE LinkTypes
  OBVIOUS
<1>1. Start("halted") \in Fsms
  BY Starts DEF States
<1>2. com \in Fsms /\ irqCom \in Fsms /\ cntr \in Fsms
  BY <1>1 DEF Init
<1>3. responded \in [Requests -> Seq(Requests)]
  BY DEF Init
<1>4. 0 \in Chars /\ request \in 0 .. MaxRequests /\ busy \in 0 .. MaxDelay /\ stalls \in 0 .. MaxStalls
  BY CharsAre, LengthsAre DEF Init, Chars
<1>5. /\ Len(data) <= 1 /\ Len(fifo) <= Capacity
      /\ data \in Seq(Chars) /\ fifo \in Seq(Chars) /\ rec \in Seq(Chars) /\ hold \in Seq(Chars)
      /\ outMsg \in Seq(Requests) /\ reply \in Seq(Requests) /\ executed \in Seq(Seq(Chars))
  BY LengthsAre DEF Init
<1>6. /\ step \in {"idle", "send", "add", "receive"} /\ main \in {"loop", "work", "reply"}
      /\ main # "reply" /\ shift = 0
  BY DEF Init
<1>7. disturbed \in BOOLEAN
  BY Zenon DEF Init
<1> QED
  BY <1>2, <1>3, <1>4, <1>5, <1>6, <1>7, FsmsOK DEF LinkTypes, TypeOK

LEMMA BeginTypes ==
  ASSUME LinkTypes, NEW n \in Lengths, Begin(n)
  PROVE  LinkTypes'
<1>1. Start("msb") \in Fsms /\ Start("recMsb") \in Fsms
  BY Starts DEF States
<1>2. request' \in 0 .. MaxRequests /\ request' \in Requests
  BY LengthsAre DEF LinkTypes, TypeOK, Begin, Requests
<1>3. outMsg' \in Seq(Requests)
  BY <1>2, TextIs, LengthsAre DEF Begin
<1>4. com' \in Fsms /\ irqCom' \in Fsms /\ cntr' \in Fsms /\ FsmOK(com') /\ FsmOK(irqCom') /\ FsmOK(cntr')
  BY <1>1, FsmsOK DEF Begin, SlaveSelected, LinkTypes, loop
<1>5. disturbed' \in BOOLEAN
  BY DEF Begin
<1>6. /\ step' = "send" /\ rec' = <<>> /\ fifo' = <<>>
      /\ UNCHANGED <<data, shift, main, hold, cntr, reply, busy, executed, responded, stalls>>
  BY DEF Begin, SlaveSelected, AnswerReset, wire, loop
<1>7. Len(fifo') <= Capacity
  BY <1>6, LengthsAre
<1> QED
  BY <1>2, <1>3, <1>4, <1>5, <1>6, <1>7 DEF LinkTypes, TypeOK

LEMMA SendRequestTypes ==
  ASSUME LinkTypes, RequestComes, SendRequest
  PROVE  LinkTypes'
<1> DEFINE next == Sends(com, outMsg)
<1>1. com.state \in {"silence", "msb", "lsb", "body"}
  BY DEF RequestComes, SendRequest
<1>2. next.fsm \in Fsms /\ next.msg \in Seq(Requests) /\ next.ch \in Chars
  BY <1>1, SendsAre DEF LinkTypes, TypeOK
<1>3. com' = next.fsm /\ outMsg' = next.msg /\ UNCHANGED <<request, rec, hist>>
  BY DEF SendRequest
<1>4. CASE next.fsm.state = "sent"
  <2>1. step' = "add" /\ UNCHANGED <<wire, irq, loop, busy>>
    BY <1>4 DEF SendRequest
  <2> HIDE DEF next
  <2> QED
    BY <1>2, <1>3, <2>1, FsmsOK DEF LinkTypes, TypeOK, wire, irq, loop, hist
<1>5. CASE next.fsm.state # "sent"
  <2>1. Clock(next.ch) /\ UNCHANGED step
    BY <1>5 DEF SendRequest
  <2> HIDE DEF next
  <2>2. /\ data' = <<>> /\ shift' \in Chars /\ irqCom' \in Fsms
        /\ fifo' \in Seq(Chars) /\ Len(fifo') <= Capacity
        /\ busy' \in 0 .. MaxDelay /\ UNCHANGED <<main, hold, cntr, reply>>
    BY <1>2, <2>1, ClockTypes
  <2> QED
    BY <1>2, <1>3, <2>1, <2>2, FsmsOK DEF LinkTypes, TypeOK, hist
<1> QED
  BY <1>4, <1>5

LEMMA AddClockTypes ==
  ASSUME LinkTypes, AddClock
  PROVE  LinkTypes'
<1>1. 0 \in Chars /\ Start("recSilence") \in Fsms
  BY CharsAre, Starts DEF States
<1>2. /\ data' = <<>> /\ shift' \in Chars /\ irqCom' \in Fsms
      /\ fifo' \in Seq(Chars) /\ Len(fifo') <= Capacity
      /\ busy' \in 0 .. MaxDelay /\ UNCHANGED <<main, hold, cntr, reply>>
  BY <1>1, ClockTypes DEF AddClock
<1> QED
  BY <1>1, <1>2, FsmsOK DEF AddClock, LinkTypes, TypeOK, hist

LEMMA ReceiveAnswerTypes ==
  ASSUME LinkTypes, ReceiveAnswer
  PROVE  LinkTypes' /\ Len(rec') \in Nat
<1>1. 0 \in Chars
  BY CharsAre
<1>2. /\ data' = <<>> /\ shift' \in Chars /\ irqCom' \in Fsms
      /\ fifo' \in Seq(Chars) /\ Len(fifo') <= Capacity
      /\ busy' \in 0 .. MaxDelay /\ UNCHANGED <<main, hold, cntr, reply>>
  BY <1>1, ClockTypes DEF ReceiveAnswer
<1>3. rec' \in Seq(Chars) /\ Len(rec') \in Nat
  BY DEF ReceiveAnswer, LinkTypes, TypeOK
<1>4. com' = Receives(com, shift, Len(rec'))
  BY DEF ReceiveAnswer
<1>5. com' \in Fsms
  BY <1>3, <1>4, ReceivesAre DEF LinkTypes, TypeOK
<1>6. step' \in {"idle", "receive"}
  BY DEF ReceiveAnswer
<1>7. UNCHANGED <<request, outMsg, executed, responded, disturbed, stalls>>
  BY DEF ReceiveAnswer
<1> QED
  BY <1>2, <1>3, <1>5, <1>6, <1>7, FsmsOK DEF LinkTypes, TypeOK

LEMMA UpdateTypes ==
  ASSUME LinkTypes, Update
  PROVE  LinkTypes'
<1>1. Start("halted") \in Fsms
  BY Starts DEF States
<1>2. irqCom' \in Fsms /\ fifo' = <<>> /\ hold' \in Seq(Chars) /\ main' = "work"
      /\ UNCHANGED <<master, wire, cntr, reply, busy, hist>>
  BY <1>1 DEF Update, LinkTypes, TypeOK
<1>3. Len(fifo') <= Capacity
  BY <1>2, LengthsAre
<1> QED
  BY <1>2, <1>3, FsmsOK DEF LinkTypes, TypeOK, master, wire, hist

LEMMA WorkTypes ==
  ASSUME LinkTypes, InTurn, NEW n \in Lengths, Work(n)
  PROVE  LinkTypes'
<1>1. hold[1] \in Requests
  BY LengthsAre DEF InTurn, Work, LinkTypes, TypeOK, Requests
<1>2. Text(hold[1], n) \in Seq(Requests)
  BY <1>1, TextIs, LengthsAre
<1>3. executed' \in Seq(Seq(Chars))
  BY DEF Work, LinkTypes, TypeOK
<1>4. responded' \in [Requests -> Seq(Requests)]
  BY <1>1, <1>2 DEF Work, LinkTypes, TypeOK
<1>5. Start("silence") \in Fsms /\ Start("silence").state = "silence"
  BY Starts DEF States
<1>6. /\ reply' \in Seq(Requests) /\ hold' = <<>> /\ main' = "reply" /\ cntr' \in Fsms
      /\ cntr'.state = "silence"
      /\ UNCHANGED <<master, wire, irq, busy, answers, disturbed, stalls>>
  BY <1>2, <1>5 DEF Work
<1> QED
  BY <1>3, <1>4, <1>6, FsmsOK DEF LinkTypes, TypeOK, master, wire, irq

LEMMA GiveUpTypes ==
  ASSUME LinkTypes, GiveUp
  PROVE  LinkTypes'
<1>1. stalls' \in 0 .. MaxStalls
  BY LengthsAre DEF GiveUp, LinkTypes, TypeOK
<1>3. disturbed' = disturbed \/ disturbed' = TRUE
  BY DEF GiveUp
<1>4. disturbed' \in BOOLEAN
  BY <1>3 DEF LinkTypes, TypeOK
<1>2. /\ main' = "loop" /\ reply' = <<>>
      /\ UNCHANGED <<master, wire, irq, hold, cntr, busy, executed, responded, answers>>
  BY DEF GiveUp
<1> QED
  BY <1>1, <1>2, <1>4 DEF LinkTypes, TypeOK, master, wire, irq

LEMMA ReplyTypes ==
  ASSUME LinkTypes, Reply
  PROVE  LinkTypes'
<1> DEFINE next == Sends(cntr, reply)
<1>1. cntr.state \in {"silence", "msb", "lsb", "body"}
  BY DEF LinkTypes, Reply
<1>2. /\ next.fsm \in Fsms /\ next.msg \in Seq(Requests) /\ next.ch \in Chars
      /\ next.fsm.state \in {"silence", "msb", "lsb", "body", "sent"}
  BY <1>1, SendsAre DEF LinkTypes, TypeOK
<1>3. /\ cntr' = next.fsm /\ reply' = next.msg
      /\ IF next.fsm.state = "sent" THEN main' = "loop" /\ UNCHANGED data
         ELSE data' = <<next.ch>> /\ UNCHANGED main
      /\ UNCHANGED <<master, shift, irq, hold, busy, hist>>
  BY DEF Reply
<1> HIDE DEF next
<1>4. data' \in Seq(Chars) /\ Len(data') <= 1
  <2>1. <<next.ch>> \in Seq(Chars) /\ Len(<<next.ch>>) <= 1
    BY <1>2
  <2>2. data' = data \/ data' = <<next.ch>>
    BY <1>3
  <2>3. data \in Seq(Chars) /\ Len(data) <= 1
    BY DEF LinkTypes, TypeOK
  <2>4. CASE data' = data
    BY <2>3, <2>4
  <2>5. CASE data' = <<next.ch>>
    BY <2>1, <2>5, Zenon
  <2> QED
    BY <2>2, <2>4, <2>5
<1>5. main' \in {"loop", "reply"} /\ (main' = "reply" => cntr'.state \in {"silence", "msb", "lsb", "body"})
  BY <1>2, <1>3 DEF Reply
<1> QED
  BY <1>2, <1>3, <1>4, <1>5, FsmsOK DEF LinkTypes, TypeOK, master, irq, hist

LEMMA StandsTypes ==
  ASSUME LinkTypes, UNCHANGED vars
  PROVE  LinkTypes'
BY DEF LinkTypes, TypeOK, FsmOK, vars, master, wire, irq, loop, hist

-----------------------------------------------------------------------------
(* The request                                                              *)

LEMMA RequestComesInit == Init => RequestComes
BY DEF Init, RequestComes, Start

LEMMA BeginRequest ==
  ASSUME LinkInv, NEW n \in Lengths, Begin(n)
  PROVE  RequestComes'
<1>1. request' \in Requests /\ n \in Nat
  BY LengthsAre DEF LinkInv, LinkTypes, TypeOK, Begin, Requests
<1>2. step' = "send" /\ com' = Start("msb") /\ irqCom' = Start("recMsb")
      /\ fifo' = <<>> /\ outMsg' = Text(request', n)
  BY DEF Begin, SlaveSelected
<1>3. Len(outMsg') = n
  BY <1>1, <1>2, TextIs
<1>4. com'.state = "msb" /\ irqCom'.state = "recMsb"
  BY <1>2 DEF Start
<1>5. Whole(request', outMsg')
  BY <1>2, <1>3 DEF Whole, Part
<1> QED
  BY <1>1, <1>2, <1>4, <1>5 DEF RequestComes, Whole

\* Outside of the head of a request the interrupt routine is done, or takes in
\* a request it has no room for.
LEMMA LateCharacter ==
  ASSUME LinkInv, NEW ch \in Chars, Clock(ch), irqCom.state \notin {"recMsb", "recLsb"},
         irqCom.state = "recBody" => irqCom.target > Capacity
  PROVE  irqCom' = irqCom /\ (irqCom.state # "recBody" => fifo' = fifo)
<1>1. /\ irqCom' = Receives(irqCom, ch, Len(Stored(fifo, ch)))
      /\ irqCom.state # "recBody" => fifo' = fifo
  BY ClockTypes DEF LinkInv
<1>2. irqCom.state \in {"halted", "recBody", "recOK"}
  BY DEF LinkInv, RequestComes
<1>3. CASE irqCom.state = "recBody"
  <2>0. fifo \in Seq(Chars) /\ Len(fifo) <= Capacity
    BY DEF LinkInv, LinkTypes, TypeOK
  <2>1. Len(Stored(fifo, ch)) \in Nat /\ Len(Stored(fifo, ch)) <= Capacity /\ Capacity \in Nat
    BY <2>0, StoredIs, LengthsAre
  <2>2. irqCom.target \in Nat
    BY DEF LinkInv, LinkTypes, Fsms
  <2>3. ~(Len(Stored(fifo, ch)) >= irqCom.target)
    BY <1>3, <2>1, <2>2
  <2> QED
    BY <1>1, <1>3, <2>3 DEF Receives
<1>4. CASE irqCom.state # "recBody"
  BY <1>1, <1>2, <1>4 DEF Receives
<1> QED
  BY <1>1, <1>3, <1>4

\* The driver sends the next character of the text.
LEMMA TextCharacter ==
  ASSUME LinkInv, step = "send", com.state = "body", outMsg # <<>>, Clock(Head(outMsg)),
         com' = com, outMsg' = Tail(outMsg), UNCHANGED <<step, request>>
  PROVE  RequestComes'
<1>1. /\ request \in Requests /\ Part(request, outMsg) /\ irqCom.state = "recBody"
      /\ irqCom.target \in Lengths
  BY DEF LinkInv, RequestComes
<1>a. /\ outMsg \in Seq(Requests) /\ fifo \in Seq(Chars) /\ Len(fifo) <= Capacity
      /\ irqCom.target \in Nat
  BY DEF LinkInv, LinkTypes, TypeOK, Fsms
<1>2. /\ outMsg \in Seq(Requests) /\ fifo \in Seq(Chars) /\ Len(fifo) \in Nat /\ Len(fifo) <= Capacity
      /\ Len(outMsg) \in Nat \ {0} /\ irqCom.target \in Nat /\ Capacity \in Nat \ {0}
      /\ request \in Chars
  BY <1>1, <1>a, LengthsAre, SomeChars
<1>3. Head(outMsg) = request /\ Part(request, outMsg') /\ Len(outMsg') = Len(outMsg) - 1
      /\ outMsg' \in Seq(Requests)
  BY <1>1, <1>2, TextShrinks
<1>4. /\ irqCom' = Receives(irqCom, request, Len(Stored(fifo, request)))
      /\ fifo' = Stored(fifo, request)
  BY <1>1, <1>2, <1>3, ClockTypes DEF LinkInv
<1>5. irqCom' = (IF Len(fifo') >= irqCom.target THEN Start("recOK") ELSE irqCom)
  BY <1>1, <1>4 DEF Receives
<1>6. CASE irqCom.target > Capacity
  <2>1. Len(fifo') \in Nat /\ Len(fifo') <= Capacity
    BY <1>2, <1>4, StoredIs
  <2>2. irqCom' = irqCom
    BY <1>2, <1>5, <1>6, <2>1
  <2> QED
    BY <1>1, <1>2, <1>3, <1>6, <2>2 DEF RequestComes
<1>7. CASE irqCom.target <= Capacity
  <2>1. Part(request, fifo) /\ Len(fifo) + Len(outMsg) = irqCom.target
    BY <1>1, <1>7 DEF LinkInv, RequestComes
  <2>a. Len(fifo) < Capacity
    BY <1>2, <1>7, <2>1
  <2>2. fifo' = Append(fifo, request)
    BY <1>2, <1>4, <2>a, StoredIs
  <2>3. Part(request, fifo') /\ Len(fifo') = Len(fifo) + 1
    BY <1>2, <2>1, <2>2, TextGrows
  <2>4. CASE Len(outMsg) = 1
    <3>1. Len(fifo') = irqCom.target /\ outMsg' = <<>>
      BY <1>2, <1>3, <2>1, <2>3, <2>4
    <3>2. irqCom'.state = "recOK"
      BY <1>2, <1>5, <3>1 DEF Start
    <3>3. Whole(request, fifo')
      BY <1>1, <2>3, <3>1 DEF Whole
    <3> QED
      BY <1>1, <1>3, <3>1, <3>2, <3>3 DEF RequestComes
  <2>5. CASE Len(outMsg) # 1
    <3> DEFINE had == Len(fifo)
               left == Len(outMsg)
               has == Len(fifo')
               leaves == Len(outMsg')
    <3>a. /\ had \in Nat /\ left \in Nat \ {0} /\ left # 1 /\ irqCom.target \in Nat
          /\ had + left = irqCom.target /\ has = had + 1 /\ leaves = left - 1
      BY <1>2, <1>3, <2>1, <2>3, <2>5
    <3> HIDE DEF had, left, has, leaves
    <3>b. has < irqCom.target /\ leaves # 0 /\ has + leaves = irqCom.target
      BY <3>a
    <3>1. Len(fifo') < irqCom.target /\ outMsg' # <<>> /\ Len(fifo') + Len(outMsg') = irqCom.target
      BY <3>b DEF has, leaves
    <3>2. irqCom' = irqCom
      BY <1>2, <1>5, <2>3, <3>1
    <3> QED
      BY <1>1, <1>3, <2>3, <3>1, <3>2 DEF RequestComes
  <2> QED
    BY <2>4, <2>5
<1> QED
  BY <1>2, <1>6, <1>7

LEMMA SendRequestRequest ==
  ASSUME LengthsFit, LinkInv, SendRequest
  PROVE  RequestComes'
<1> DEFINE len == Len(outMsg)
<1>1. /\ step = "send" /\ request \in Requests /\ Part(request, outMsg)
      /\ com.state \in {"msb", "lsb", "body"} /\ UNCHANGED request
  BY DEF SendRequest, LinkInv, RequestComes
<1>2. len \in Nat
  BY DEF LinkInv, LinkTypes, TypeOK
<1>3. CASE com.state = "msb"
  <2>1. irqCom.state = "recMsb" /\ Whole(request, outMsg) /\ fifo = <<>>
    BY <1>1, <1>3 DEF LinkInv, RequestComes
  <2>2. Sends(com, outMsg) = [ch |-> Msb(len), msg |-> outMsg, fsm |-> Start("lsb")]
    BY <1>3 DEF Sends
  <2>3. Clock(Msb(len)) /\ com' = Start("lsb") /\ outMsg' = outMsg /\ UNCHANGED step
    BY <2>2 DEF SendRequest, Start
  <2>4. Msb(len) \in Chars /\ Msb(len) # 0
    BY <1>2, CharsAre
  <2>5. fifo' = fifo /\ irqCom' = Receives(irqCom, Msb(len), Len(Stored(fifo, Msb(len))))
    BY <2>1, <2>3, <2>4, ClockTypes DEF LinkInv
  <2>6. irqCom' = [state |-> "recLsb", cnt |-> irqCom.cnt, target |-> (Msb(len) % Flag) * Radix]
    BY <2>1, <2>4, <2>5 DEF Receives
  <2>7. com'.state = "lsb"
    BY <2>3 DEF Start
  <2> HIDE DEF len
  <2>8. irqCom'.state = "recLsb" /\ irqCom'.target = (Msb(len) % Flag) * Radix
    BY <2>6
  <2>9. irqCom'.target = (Msb(Len(outMsg')) % Flag) * Radix
    BY <2>3, <2>8 DEF len
  <2> QED
    BY <1>1, <2>1, <2>3, <2>5, <2>7, <2>8, <2>9 DEF RequestComes
<1>4. CASE com.state = "lsb"
  <2>1. irqCom.state = "recLsb" /\ Whole(request, outMsg) /\ fifo = <<>>
        /\ irqCom.target = (Msb(len) % Flag) * Radix
    BY <1>1, <1>4 DEF LinkInv, RequestComes
  <2>2. Sends(com, outMsg) = [ch |-> Lsb(len), msg |-> outMsg, fsm |-> Start("body")]
    BY <1>4 DEF Sends
  <2>3. Clock(Lsb(len)) /\ com' = Start("body") /\ outMsg' = outMsg /\ UNCHANGED step
    BY <2>2 DEF SendRequest, Start
  <2>4. Lsb(len) \in Chars
    BY <1>2, CharsAre
  <2>5. fifo' = fifo /\ irqCom' = Receives(irqCom, Lsb(len), Len(Stored(fifo, Lsb(len))))
    BY <2>1, <2>3, <2>4, ClockTypes DEF LinkInv
  <2>6. irqCom' = [irqCom EXCEPT !.state = "recBody", !.target = @ + Lsb(len)]
    BY <2>1, <2>5 DEF Receives
  <2>7. len \in Lengths /\ (Msb(len) % Flag) * Radix + Lsb(len) = len
    BY <1>2, <2>1, LengthRead DEF LengthsFit, Whole
  <2> HIDE DEF len
  <2>8. irqCom'.state = "recBody" /\ irqCom'.target = len
    BY <2>1, <2>6, <2>7 DEF LinkInv, LinkTypes, Fsms
  <2>9. com'.state = "body"
    BY <2>3 DEF Start
  <2>10. Len(fifo') = 0 /\ Part(request, fifo') /\ Len(outMsg') = len /\ outMsg' # <<>>
    <3>1. fifo' = <<>> /\ Text(request, 0) = <<>>
      BY <1>1, <2>1, <2>5, TextIs
    <3>2. len # 0
      BY <2>7, LengthsAre
    <3> QED
      BY <2>3, <3>1, <3>2 DEF Part, len
  <2> QED
    BY <1>1, <1>2, <2>3, <2>7, <2>8, <2>9, <2>10 DEF RequestComes
<1>5. CASE com.state = "body" /\ outMsg # <<>>
  <2>1. Sends(com, outMsg) = [ch |-> Head(outMsg), msg |-> Tail(outMsg), fsm |-> com]
    BY <1>5 DEF Sends
  <2>2. Clock(Head(outMsg)) /\ com' = com /\ outMsg' = Tail(outMsg) /\ UNCHANGED step
    BY <1>5, <2>1 DEF SendRequest
  <2> QED
    BY <1>1, <1>5, <2>2, TextCharacter
<1>6. CASE com.state = "body" /\ outMsg = <<>>
  <2>1. Sends(com, outMsg) = [ch |-> 0, msg |-> outMsg, fsm |-> Start("sent")]
    BY <1>6 DEF Sends
  <2>2. com' = Start("sent") /\ step' = "add" /\ UNCHANGED <<irqCom, fifo>>
    BY <2>1 DEF SendRequest, Start, irq
  <2>3. com'.state = "sent"
    BY <2>2 DEF Start
  <2> QED
    BY <1>1, <1>6, <2>2, <2>3 DEF LinkInv, RequestComes
<1> QED
  BY <1>1, <1>3, <1>4, <1>5, <1>6

\* After the request the interrupt routine does nothing new.
LEMMA AfterRequest ==
  ASSUME LinkInv, step \in {"add", "receive"}, Clock(0)
  PROVE  irqCom' = irqCom /\ (irqCom.state # "recBody" => fifo' = fifo)
         /\ (irqCom.state = "recBody" => irqCom.target > Capacity)
<1>1. /\ irqCom.state \notin {"recMsb", "recLsb"} /\ 0 \in Chars
      /\ irqCom.state = "recBody" => irqCom.target \in Lengths /\ ~(irqCom.target <= Capacity)
  BY SomeChars DEF LinkInv, RequestComes
<1>2. ASSUME irqCom.state = "recBody" PROVE irqCom.target > Capacity
  <2>1. irqCom.target \in Nat /\ Capacity \in Nat
    BY <1>1, <1>2, LengthsAre
  <2> QED
    BY <1>1, <1>2, <2>1
<1> QED
  BY <1>1, <1>2, LateCharacter

LEMMA AddClockRequest ==
  ASSUME LinkInv, AddClock
  PROVE  RequestComes'
<1>1. irqCom' = irqCom /\ (irqCom.state # "recBody" => fifo' = fifo)
  BY AfterRequest DEF AddClock
<1>2. step' = "receive" /\ com' = Start("recSilence") /\ UNCHANGED <<request, outMsg>>
  BY DEF AddClock
<1>3. Receiving(com')
  BY <1>2 DEF Receiving, Start
<1> QED
  BY <1>1, <1>2, <1>3 DEF AddClock, LinkInv, RequestComes

LEMMA ReceiveAnswerRequest ==
  ASSUME LinkInv, ReceiveAnswer
  PROVE  RequestComes'
<1>1. irqCom' = irqCom /\ (irqCom.state # "recBody" => fifo' = fifo)
  BY AfterRequest DEF ReceiveAnswer
<1>2. UNCHANGED <<request, outMsg>>
      /\ ((step' = "receive" /\ Receiving(com')) \/ step' = "idle")
  BY DEF ReceiveAnswer
<1> QED
  BY <1>1, <1>2 DEF ReceiveAnswer, LinkInv, RequestComes

LEMMA UpdateRequest ==
  ASSUME LinkInv, Update
  PROVE  RequestComes'
<1>1. irqCom'.state = "halted" /\ UNCHANGED master
  BY DEF Update, Start
<1> QED
  BY <1>1 DEF Update, LinkInv, RequestComes, master

LEMMA RequestStands ==
  ASSUME LinkInv, UNCHANGED <<master, irq>>
  PROVE  RequestComes'
BY DEF LinkInv, RequestComes, Part, Whole, Receiving, master, irq

-----------------------------------------------------------------------------
(* What is executed                                                         *)

LEMMA InTurnInit == Init => InTurn
BY DEF Init, InTurn, Start

\* Nothing happens to the order while the main loop takes nothing over and
\* executes nothing.
LEMMA InTurnKept ==
  ASSUME LinkInv, UNCHANGED <<request, executed, main, hold>>,
         irqCom.state = "halted" => irqCom'.state = "halted"
  PROVE  InTurn'
BY DEF LinkInv, InTurn, Part, Whole

LEMMA BeginTurn ==
  ASSUME LinkInv, NEW n \in Lengths, Begin(n)
  PROVE  InTurn'
<1>1. request' = request + 1 /\ request \in Nat /\ UNCHANGED <<executed, main, hold>>
  BY LengthsAre DEF Begin, LinkInv, LinkTypes, TypeOK, loop
<1>2. \A r \in 1 .. request : r \in 1 .. request' /\ r < request'
  BY <1>1
<1> QED
  BY <1>1, <1>2 DEF LinkInv, InTurn, Part, Whole

LEMMA DriverTurn ==
  ASSUME LinkInv, DriverStep
  PROVE  InTurn'
<1>1. CASE SendRequest
  <2>1. CASE Sends(com, outMsg).fsm.state = "sent"
    <3>1. UNCHANGED <<request, executed, main, hold, irqCom>>
      BY <1>1, <2>1 DEF SendRequest, irq, loop, hist
    <3> QED
      BY <3>1, InTurnKept
  <2>2. CASE Sends(com, outMsg).fsm.state # "sent"
    <3>1. /\ UNCHANGED <<request, executed>>
          /\ \E ch : Clock(ch)
      BY <1>1, <2>2 DEF SendRequest, hist
    <3>2. UNCHANGED <<main, hold>> /\ (irqCom.state = "halted" => irqCom' = irqCom)
      BY <3>1 DEF Clock, loop, Receives
    <3> QED
      BY <3>1, <3>2, InTurnKept
  <2> QED
    BY <2>1, <2>2
<1>2. CASE AddClock
  <2>1. Clock(0) /\ UNCHANGED <<request, executed>>
    BY <1>2 DEF AddClock, hist
  <2>2. UNCHANGED <<main, hold>> /\ (irqCom.state = "halted" => irqCom' = irqCom)
    BY <2>1 DEF Clock, loop, Receives
  <2> QED
    BY <2>1, <2>2, InTurnKept
<1>3. CASE ReceiveAnswer
  <2>1. Clock(0) /\ UNCHANGED <<request, executed>>
    BY <1>3 DEF ReceiveAnswer
  <2>2. UNCHANGED <<main, hold>> /\ (irqCom.state = "halted" => irqCom' = irqCom)
    BY <2>1 DEF Clock, loop, Receives
  <2> QED
    BY <2>1, <2>2, InTurnKept
<1> QED
  BY <1>1, <1>2, <1>3 DEF DriverStep

LEMMA UpdateTurn ==
  ASSUME LinkInv, Update
  PROVE  InTurn'
<1>1. /\ main = "loop" /\ irqCom.state = "recOK" /\ hold' = fifo /\ main' = "work"
      /\ irqCom'.state = "halted" /\ UNCHANGED <<request, executed>>
  BY DEF Update, Start, master, hist
<1>2. Whole(request, fifo) /\ request \in Requests /\ fifo \in Seq(Chars)
  BY <1>1 DEF LinkInv, RequestComes, LinkTypes, TypeOK
<1>3. request \in Chars /\ fifo # <<>> /\ request \in 1 .. request
  <2>1. Len(fifo) # 0
    BY <1>2, LengthsAre DEF Whole
  <2> QED
    BY <1>2, <2>1, SomeChars, LengthsAre DEF Requests
<1>4. fifo[1] = request
  BY <1>2, <1>3, TextShrinks DEF Whole
<1> QED
  BY <1>1, <1>2, <1>3, <1>4 DEF LinkInv, InTurn, Whole, Part

LEMMA WorkTurn ==
  ASSUME LinkInv, NEW n \in Lengths, Work(n)
  PROVE  InTurn'
<1>1. /\ main = "work" /\ executed' = Append(executed, hold) /\ main' = "reply"
      /\ UNCHANGED <<request, irqCom>>
  BY DEF Work, master, irq
<1>2. /\ hold[1] \in 1 .. request /\ Whole(hold[1], hold)
      /\ \A i \in DOMAIN executed : executed[i][1] < hold[1]
      /\ irqCom.state # "halted" => hold[1] < request
  BY <1>1 DEF LinkInv, InTurn
<1>3. executed \in Seq(Seq(Chars)) /\ hold \in Seq(Chars)
  BY DEF LinkInv, LinkTypes, TypeOK
<1> DEFINE last == Len(executed) + 1
<1>4. /\ DOMAIN executed = 1 .. Len(executed) /\ Len(executed) \in Nat
      /\ DOMAIN executed' = 1 .. last /\ executed'[last] = hold
      /\ \A i \in DOMAIN executed : executed'[i] = executed[i]
  BY <1>1, <1>3
<1>5. ASSUME NEW i \in DOMAIN executed'
      PROVE  /\ executed'[i][1] \in 1 .. request
             /\ Whole(executed'[i][1], executed'[i])
             /\ irqCom.state # "halted" => executed'[i][1] < request
  <2>1. CASE i = last
    BY <1>2, <1>4, <2>1
  <2>2. CASE i # last
    <3>1. i \in DOMAIN executed /\ executed'[i] = executed[i]
      BY <1>4, <2>2
    <3> QED
      BY <3>1 DEF LinkInv, InTurn
  <2> QED
    BY <2>1, <2>2
<1>6. ASSUME NEW i \in DOMAIN executed', NEW j \in DOMAIN executed', i < j
      PROVE  executed'[i][1] < executed'[j][1]
  <2>1. i \in DOMAIN executed /\ executed'[i] = executed[i]
    BY <1>4, <1>6
  <2>2. CASE j = last
    BY <1>2, <1>4, <2>1, <2>2
  <2>3. CASE j # last
    <3>1. j \in DOMAIN executed /\ executed'[j] = executed[j]
      BY <1>4, <2>3
    <3> QED
      BY <1>6, <2>1, <3>1 DEF LinkInv, InTurn
  <2> QED
    BY <2>2, <2>3
<1> HIDE DEF last
<1> QED
  BY <1>1, <1>5, <1>6 DEF InTurn, Whole, Part

LEMMA ReplyTurn ==
  ASSUME LinkInv, Reply \/ GiveUp
  PROVE  InTurn'
<1>1. UNCHANGED <<request, executed, hold, irqCom>> /\ main' \in {"loop", "reply"}
  BY DEF Reply, GiveUp, master, irq, hist
<1> QED
  BY <1>1 DEF LinkInv, InTurn, Part, Whole

\* Together: the part of the invariant that holds whatever goes wrong.
LEMMA LinkInvariant ==
  ASSUME LengthsFit
  PROVE  /\ Init => LinkInv
         /\ LinkInv /\ [Next]_vars => LinkInv'
<1>1. Init => LinkInv
  BY LinkTypesInit, RequestComesInit, InTurnInit DEF LinkInv
<1>2. ASSUME LinkInv, NEW n \in Lengths, Begin(n) PROVE LinkInv'
  BY <1>2, BeginTypes, BeginRequest, BeginTurn DEF LinkInv
<1>3. ASSUME LinkInv, DriverStep PROVE LinkInv'
  <2>1. InTurn'
    BY <1>3, DriverTurn
  <2>2. LinkTypes' /\ RequestComes'
    BY <1>3, SendRequestTypes, SendRequestRequest, AddClockTypes, AddClockRequest,
       ReceiveAnswerTypes, ReceiveAnswerRequest DEF DriverStep, LinkInv
  <2> QED
    BY <2>1, <2>2 DEF LinkInv
<1>4. ASSUME LinkInv, FirmwareStep PROVE LinkInv'
  <2>1. CASE Update
    BY <1>4, <2>1, UpdateTypes, UpdateRequest, UpdateTurn DEF LinkInv
  <2>2. ASSUME NEW n \in Lengths, Work(n) PROVE LinkInv'
    <3>1. UNCHANGED <<master, irq>>
      BY <2>2 DEF Work
    <3> QED
      BY <1>4, <2>2, <3>1, WorkTypes, RequestStands, WorkTurn DEF LinkInv
  <2>3. CASE Reply \/ GiveUp
    <3>1. UNCHANGED <<master, irq>>
      BY <2>3 DEF Reply, GiveUp
    <3> QED
      BY <1>4, <2>3, <3>1, ReplyTypes, GiveUpTypes, RequestStands, ReplyTurn DEF LinkInv
  <2> QED
    BY <1>4, <2>1, <2>2, <2>3 DEF FirmwareStep
<1>5. ASSUME LinkInv, UNCHANGED vars PROVE LinkInv'
  <2>1. UNCHANGED <<master, irq>> /\ UNCHANGED <<request, executed, main, hold, irqCom>>
    BY <1>5 DEF vars, master, irq, loop, hist
  <2> QED
    BY <1>5, <2>1, StandsTypes, RequestStands, InTurnKept DEF LinkInv
<1> QED
  BY <1>1, <1>2, <1>3, <1>4, <1>5 DEF Next

-----------------------------------------------------------------------------
\* The firmware executes whole requests only, each at most once and in their
\* order, and no buffer overflows (CSPIcomm::Update(), Bcm_spi::execute()),
\* however long the messages, slow the firmware and impatient the driver is.
THEOREM ExecutedInTurn ==
  ASSUME LengthsFit
  PROVE  Spec => []ExecutedWithinBounds
<1>1. LinkInv => ExecutedWithinBounds
  <2> SUFFICES ASSUME LinkInv PROVE ExecutedOnceInOrder
    BY DEF LinkInv, LinkTypes, ExecutedWithinBounds
  <2>1. ASSUME NEW i \in DOMAIN executed
        PROVE  \E n \in Lengths : executed[i] = Text(executed[i][1], n)
    BY DEF LinkInv, InTurn, Whole, Part
  <2>2. ASSUME NEW i \in DOMAIN executed, NEW j \in DOMAIN executed, i < j
        PROVE  executed[i][1] < executed[j][1]
    BY <2>2 DEF LinkInv, InTurn
  <2> QED
    BY <2>1, <2>2 DEF ExecutedOnceInOrder
<1> QED
  BY <1>1, LinkInvariant, PTL DEF Spec

-----------------------------------------------------------------------------
(* The answer: what no exchange has yet                                     *)

LEMMA NotYetBegin ==
  ASSUME LinkInv, LinkInv', NotYet, NEW n \in Lengths, Begin(n)
  PROVE  NotYet'
<1>1. /\ request' = request + 1 /\ request \in Nat /\ request' \in Requests /\ rec' = <<>>
      /\ UNCHANGED <<main, hold, responded, answers>>
  BY LengthsAre DEF Begin, AnswerReset, LinkInv, LinkTypes, TypeOK, loop, Requests
<1>2. responded[request'] = <<>> /\ answers[request'] = None
  BY <1>1 DEF NotYet, Requests
<1>3. \A r \in Requests : r > request' => r > request
  BY <1>1 DEF Requests
<1> QED
  BY <1>1, <1>2, <1>3 DEF NotYet, Whole, Part

LEMMA NotYetReceive ==
  ASSUME LinkInv, LinkInv', NotYet, ReceiveAnswer
  PROVE  NotYet'
<1>1. /\ request \in Requests /\ com' \in Fsms /\ rec' \in Seq(Chars)
      /\ irqCom' = irqCom /\ step' \in {"receive", "idle"}
      /\ UNCHANGED <<request, responded, main, hold>>
  BY AfterRequest DEF ReceiveAnswer, LinkInv, LinkTypes, TypeOK, RequestComes, Clock, loop
<1>2. CASE Receiving(com')
  <2>1. UNCHANGED <<step, answers>>
    BY <1>2 DEF ReceiveAnswer
  <2> QED
    BY <1>1, <2>1 DEF NotYet, Whole, Part, ReceiveAnswer
<1>3. CASE ~Receiving(com')
  <2>1. /\ step' = "idle"
        /\ answers' = [answers EXCEPT ![request] = [how |-> com'.state, text |-> rec']]
    BY <1>3 DEF ReceiveAnswer
  <2>2. [how |-> com'.state, text |-> rec'] \in [how : States \cup {"none"}, text : Seq(Chars)]
    BY <1>1 DEF Fsms
  <2>3. /\ answers' \in [Requests -> [how : States \cup {"none"}, text : Seq(Chars)]]
        /\ \A r \in Requests : r # request => answers'[r] = answers[r]
    BY <2>1, <2>2 DEF NotYet
  <2>4. ASSUME NEW r \in Requests, r > request PROVE responded[r] = <<>> /\ answers'[r] = None
    <3>1. r # request
      BY <1>1, <2>4 DEF Requests
    <3> QED
      BY <2>3, <2>4, <3>1 DEF NotYet
  <2> QED
    BY <1>1, <2>1, <2>3, <2>4 DEF NotYet, Whole, Part
<1> QED
  BY <1>2, <1>3

LEMMA NotYetWork ==
  ASSUME LinkInv, LinkInv', NotYet, NEW n \in Lengths, Work(n)
  PROVE  /\ NotYet' /\ hold[1] \in Requests /\ hold[1] <= request
         /\ responded' = [responded EXCEPT ![hold[1]] = Text(hold[1], n)]
         /\ Whole(hold[1], Text(hold[1], n)) /\ Text(hold[1], n) # <<>>
<1>1. /\ main = "work" /\ main' = "reply"
      /\ responded' = [responded EXCEPT ![hold[1]] = Text(hold[1], n)]
      /\ UNCHANGED <<request, step, rec, irqCom, answers>>
  BY DEF Work, master, irq
<1>2. hold[1] \in 1 .. request /\ (irqCom.state # "halted" => hold[1] < request)
  BY <1>1 DEF LinkInv, InTurn
<1>3. hold[1] \in Requests /\ request \in Nat /\ hold[1] <= request
  <2>1. request \in 0 .. MaxRequests
    BY DEF LinkInv, LinkTypes, TypeOK
  <2> QED
    BY <1>2, <2>1, LengthsAre DEF Requests
<1>4. Len(Text(hold[1], n)) = n /\ Text(hold[1], n) # <<>>
  BY <1>3, TextIs, LengthsAre
<1>5. Whole(hold[1], Text(hold[1], n))
  BY <1>4 DEF Whole, Part
<1>6. /\ responded'[hold[1]] = Text(hold[1], n)
      /\ \A r \in Requests : r # hold[1] => responded'[r] = responded[r]
  BY <1>1, <1>3 DEF LinkInv, LinkTypes, TypeOK
<1>7. \A r \in Requests : r > request => r # hold[1]
  BY <1>3 DEF Requests
<1>8. irqCom.state # "halted" => request # hold[1] /\ request \in Requests
  BY <1>2, <1>3 DEF LinkInv, RequestComes
<1>9. \A r \in Requests : responded'[r] # <<>> => Whole(r, responded'[r])
  BY <1>5, <1>6 DEF NotYet
<1>10. \A r \in Requests : r > request => responded'[r] = <<>> /\ answers[r] = None
  BY <1>6, <1>7 DEF NotYet
<1>11. irqCom.state # "halted" => responded'[request] = <<>>
  BY <1>6, <1>8 DEF NotYet
<1>12. NotYet'
  BY <1>1, <1>9, <1>10, <1>11 DEF NotYet
<1> QED
  BY <1>1, <1>3, <1>4, <1>5, <1>12

LEMMA NotYetKept ==
  ASSUME LinkInv, NotYet, UNCHANGED <<request, responded, answers>>,
         irqCom.state = "halted" => irqCom'.state = "halted",
         main' = "work" => main = "work" /\ UNCHANGED hold,
         step' # "idle" => step # "idle",
         step' \in {"send", "add"} => step \in {"send", "add"} /\ UNCHANGED rec
  PROVE  NotYet'
BY DEF NotYet, Whole, Part

LEMMA NotYetUpdate ==
  ASSUME LinkInv, NotYet, Update
  PROVE  NotYet'
<1>1. /\ irqCom.state = "recOK" /\ main' = "work" /\ hold' = fifo /\ irqCom'.state = "halted"
      /\ UNCHANGED <<request, step, rec, responded, answers>>
  BY DEF Update, Start, master, hist
<1>2. hold'[1] = request
  <2>1. Whole(request, fifo) /\ request \in Requests /\ fifo \in Seq(Chars)
    BY <1>1 DEF LinkInv, RequestComes, LinkTypes, TypeOK
  <2>2. request \in Chars /\ fifo # <<>>
    BY <2>1, SomeChars, LengthsAre DEF Whole
  <2> QED
    BY <1>1, <2>1, <2>2, TextShrinks DEF Whole
<1> QED
  BY <1>1, <1>2 DEF NotYet, Whole, Part

LEMMA NotYetStep ==
  ASSUME LinkInv, LinkInv', NotYet, [Next]_vars
  PROVE  NotYet'
<1>1. ASSUME NEW n \in Lengths, Begin(n) PROVE NotYet'
  BY <1>1, NotYetBegin
<1>2. CASE SendRequest
  <2>1. UNCHANGED <<request, rec, responded, answers>> /\ step = "send"
    BY <1>2 DEF SendRequest, hist
  <2>2. UNCHANGED <<main, hold>> /\ (irqCom.state = "halted" => irqCom'.state = "halted")
        /\ step' \in {"send", "add"}
    <3>1. CASE Sends(com, outMsg).fsm.state = "sent"
      BY <1>2, <3>1 DEF SendRequest, irq, loop
    <3>2. CASE Sends(com, outMsg).fsm.state # "sent"
      <4>1. (\E ch : Clock(ch)) /\ UNCHANGED step
        BY <1>2, <3>2 DEF SendRequest
      <4> QED
        BY <2>1, <4>1 DEF Clock, loop, Receives
    <3> QED
      BY <3>1, <3>2
  <2> QED
    BY <2>1, <2>2, NotYetKept
<1>3. CASE AddClock
  <2>1. /\ UNCHANGED <<request, rec, responded, answers, main, hold>>
        /\ step = "add" /\ step' = "receive" /\ irqCom' = irqCom
    BY <1>3, AfterRequest DEF AddClock, hist, Clock, loop
  <2> QED
    BY <2>1, NotYetKept
<1>4. CASE ReceiveAnswer
  BY <1>4, NotYetReceive
<1>5. CASE Update
  BY <1>5, NotYetUpdate
<1>6. ASSUME NEW n \in Lengths, Work(n) PROVE NotYet'
  BY <1>6, NotYetWork
<1>7. CASE Reply \/ GiveUp
  <2>1. UNCHANGED <<request, rec, responded, answers, irqCom, step, hold>> /\ main' # "work"
    BY <1>7 DEF Reply, GiveUp, hist, master, irq
  <2> QED
    BY <2>1, NotYetKept
<1>8. CASE UNCHANGED vars
  <2>1. UNCHANGED <<request, rec, responded, answers, irqCom, step, hold, main>>
    BY <1>8 DEF vars, hist, master, irq, loop
  <2> QED
    BY <2>1, NotYetKept
<1> QED
  BY <1>1, <1>2, <1>3, <1>4, <1>5, <1>6, <1>7, <1>8 DEF Next, DriverStep, FirmwareStep

-----------------------------------------------------------------------------
(* The answer: the exchange that is going on                                *)

OnTheWay == LineSilent /\ AnswerComes

\* Zeros keep a receiver waiting, or make it give up.
LEMMA ZeroComes ==
  ASSUME NEW fsm \in Fsms, fsm.state \in {"recSilence", "recMsb"}, NEW got
  PROVE  /\ Receives(fsm, 0, got).state \in {"recSilence", "recMsb", "errTimeout"}
         /\ Receives(fsm, 0, got).state = "recSilence" =>
              fsm.state = "recSilence" /\ Receives(fsm, 0, got).cnt = fsm.cnt + 1
              /\ fsm.cnt + 1 < Silence
         /\ Receives(fsm, 0, got).state = "recMsb" =>
              \/ fsm.state = "recMsb" /\ Receives(fsm, 0, got).cnt = fsm.cnt + 1
              \/ fsm.state = "recSilence" /\ Receives(fsm, 0, got).cnt = 0
                 /\ fsm.cnt + 1 >= Silence
         /\ Receives(fsm, 0, got).state = "errTimeout" => fsm.state = "recMsb" /\ Impatient(fsm.cnt)
<1>1. CASE fsm.state = "recSilence" /\ fsm.cnt + 1 >= Silence
  <2>1. Receives(fsm, 0, got) = Start("recMsb")
    BY <1>1 DEF Receives
  <2> QED
    BY <1>1, <2>1 DEF Start
<1>2. CASE fsm.state = "recSilence" /\ ~(fsm.cnt + 1 >= Silence)
  <2>1. Receives(fsm, 0, got) = [fsm EXCEPT !.cnt = @ + 1]
    BY <1>2 DEF Receives
  <2>2. fsm.cnt \in Int /\ Silence \in Int
    BY LengthsAre DEF Fsms
  <2> QED
    BY <1>2, <2>1, <2>2 DEF Fsms
<1>3. CASE fsm.state = "recMsb" /\ Impatient(fsm.cnt)
  <2>1. Receives(fsm, 0, got) = Start("errTimeout")
    BY <1>3 DEF Receives
  <2> QED
    BY <1>3, <2>1 DEF Start
<1>4. CASE fsm.state = "recMsb" /\ ~Impatient(fsm.cnt)
  <2>1. Receives(fsm, 0, got) = [fsm EXCEPT !.cnt = @ + 1]
    BY <1>4 DEF Receives
  <2> QED
    BY <1>4, <2>1 DEF Fsms
<1> QED
  BY <1>1, <1>2, <1>3, <1>4

\* Before the request has been executed, the exchange takes its time.
LEMMA BeginOnTheWay ==
  ASSUME LinkInv, LinkInv', NotYet, NEW n \in Lengths, Begin(n)
  PROVE  OnTheWay' /\ EndedWell'
<1>1. /\ step' = "send" /\ com' = Start("msb") /\ irqCom' = Start("recMsb")
      /\ disturbed' = (Awaited \/ main = "reply") /\ request' = request + 1
      /\ UNCHANGED <<main, responded>>
  BY DEF Begin, SlaveSelected, loop
<1>2. com'.state = "msb" /\ irqCom'.state = "recMsb"
  BY <1>1 DEF Start
<1>3. Unanswered'
  <2>1. request' \in Requests /\ request' > request
    BY <1>1, LengthsAre DEF Begin, LinkInv, LinkTypes, TypeOK, Requests
  <2> QED
    BY <1>1, <2>1 DEF NotYet, Unanswered
<1>4. ~disturbed' => main' = "loop"
  BY <1>1 DEF Awaited, LinkInv, LinkTypes, TypeOK
<1>5. LineSilent'
  BY <1>1, <1>2, <1>4 DEF LineSilent, Alone
<1>6. AnswerComes'
  BY <1>3 DEF AnswerComes
<1>7. EndedWell'
  BY <1>1 DEF EndedWell
<1> QED
  BY <1>5, <1>6, <1>7 DEF OnTheWay

LEMMA SendOnTheWay ==
  ASSUME LinkInv, LinkInv', NotYet, OnTheWay, SendRequest
  PROVE  OnTheWay' /\ EndedWell'
<1>1. /\ step = "send" /\ step' \in {"send", "add"} /\ com.state \in {"msb", "lsb", "body"}
      /\ UNCHANGED <<request, rec, responded, disturbed, answers>>
  BY DEF SendRequest, hist, LinkInv, RequestComes
<1>2. EndedWell'
  BY <1>1 DEF EndedWell
<1>3. CASE com.state = "body" /\ outMsg = <<>>
  <2>1. Sends(com, outMsg) = [ch |-> 0, msg |-> outMsg, fsm |-> Start("sent")]
    BY <1>3 DEF Sends
  <2>2. /\ step' = "add"
        /\ UNCHANGED <<data, shift, irqCom, main, hold, cntr, reply>>
    BY <2>1 DEF SendRequest, Start, wire, irq, loop
  <2>3. LineSilent'
    BY <1>1, <1>3, <2>2 DEF OnTheWay, LineSilent, Alone, Unanswered
  <2>4. ASSUME Alone', ~Unanswered'
        PROVE  irqCom'.state = "halted" /\ InSilence'
    <3>1. Alone /\ ~Unanswered
      BY <1>1, <2>4 DEF Alone, Unanswered
    <3>2. irqCom.state = "halted" /\ InSilence
      BY <1>1, <3>1 DEF OnTheWay, AnswerComes, HighPut, HighComes, LowPut, LowComes, TextComes
    <3> QED
      BY <1>1, <2>2, <3>2 DEF InSilence, Zeros
  <2> QED
    BY <1>2, <2>3, <2>4 DEF OnTheWay, AnswerComes
<1>4. CASE ~(com.state = "body" /\ outMsg = <<>>)
  <2>1. /\ Sends(com, outMsg).fsm.state # "sent"
        /\ com.state = "msb" => Sends(com, outMsg).fsm = Start("lsb")
        /\ com.state = "lsb" => Sends(com, outMsg).fsm = Start("body")
        /\ com.state = "body" => Sends(com, outMsg).fsm = com
    BY <1>1, <1>4 DEF Sends, Start
  <2>2. /\ Clock(Sends(com, outMsg).ch) /\ UNCHANGED step
        /\ com.state = "msb" => com'.state = "lsb"
        /\ com.state = "lsb" => com'.state = "body"
        /\ com.state = "body" => com'.state = "body"
    BY <1>1, <2>1 DEF SendRequest, Start
  <2>3. irqCom.state # "halted"
    <3>1. com.state = "body" => outMsg # <<>>
      BY <1>4
    <3> QED
      BY <1>1, <3>1 DEF LinkInv, RequestComes
  <2>4. irqCom'.state # "halted"
    <3>1. irqCom.state \in {"recMsb", "recLsb", "recBody", "recOK"} /\ irqCom \in Fsms
      BY <2>3 DEF LinkInv, LinkTypes, RequestComes
    <3>2. \A ch, got : Receives(irqCom, ch, got).state # "halted"
      BY <3>1 DEF Receives, Start, Fsms
    <3> QED
      BY <2>2, <3>2 DEF Clock
  <2>5. /\ UNCHANGED <<main, hold>> /\ data' = <<>>
        /\ data = <<>> => shift' = 0
    BY <2>2 DEF Clock, loop
  <2>6. Unanswered'
    BY <1>1, <2>3 DEF NotYet, Unanswered
  <2>7. ASSUME Alone', Unanswered'
        PROVE  /\ main' = "loop"
               /\ com'.state = "body" => data' = <<>> /\ shift' = 0
    <3>1. Alone /\ Unanswered
      BY <1>1, <2>2, <2>7 DEF Alone, Unanswered
    <3>2. main = "loop"
      BY <2>3, <3>1 DEF OnTheWay, LineSilent
    <3>3. com.state \in {"lsb", "body"} => data = <<>>
      BY <1>1, <3>1 DEF OnTheWay, LineSilent
    <3> QED
      BY <1>1, <2>2, <2>5, <3>2, <3>3
  <2>8. LineSilent'
    BY <1>1, <2>2, <2>4, <2>5, <2>7 DEF LineSilent
  <2> QED
    BY <1>2, <2>6, <2>8 DEF OnTheWay, AnswerComes
<1> QED
  BY <1>3, <1>4

LEMMA AddClockOnTheWay ==
  ASSUME LinkInv, LinkInv', NotYet, OnTheWay, AddClock
  PROVE  OnTheWay' /\ EndedWell'
<1>1. /\ step = "add" /\ step' = "receive" /\ com' = Start("recSilence")
      /\ UNCHANGED <<request, rec, responded, disturbed, answers, main, hold, cntr, reply>>
      /\ data' = <<>> /\ shift' = (IF data = <<>> THEN 0 ELSE Head(data))
      /\ main = "reply" => data # <<>>
  BY DEF AddClock, hist, Clock, loop
<1>2. irqCom' = irqCom /\ rec = <<>> /\ com'.state = "recSilence" /\ com'.cnt = 0
  BY <1>1, AfterRequest DEF AddClock, NotYet, Start
<1>3. EndedWell'
  BY <1>1 DEF EndedWell
<1>4. LineSilent'
  BY <1>1, <1>2 DEF OnTheWay, LineSilent, Alone, Unanswered
<1>5. ASSUME Alone', ~Unanswered'
      PROVE  irqCom'.state = "halted" /\ InSilence'
  <2>1. Alone /\ ~Unanswered
    BY <1>1, <1>5 DEF Alone, Unanswered
  <2>2. irqCom.state = "halted" /\ InSilence
    BY <1>1, <2>1 DEF OnTheWay, AnswerComes, HighPut, HighComes, LowPut, LowComes, TextComes
  <2>3. data = <<0>> /\ Zeros = Silence + 1
    BY <1>1, <2>2 DEF InSilence
  <2>4. shift' = 0
    BY <1>1, <2>3
  <2>5. com'.cnt + Zeros' >= Silence
    <3> DEFINE due == IF cntr.state = "silence" THEN Silence - cntr.cnt ELSE 0
    <3>1. due \in Int /\ Silence \in Int
      BY LengthsAre DEF LinkInv, LinkTypes, Fsms
    <3>2. Zeros = 1 + 1 + due /\ Zeros' = 1 + 0 + due
      <4>1. Len(data) = 1 /\ Len(data') = 0
        BY <1>1, <2>3
      <4> QED
        BY <1>1, <4>1 DEF Zeros
    <3> HIDE DEF due
    <3> QED
      BY <1>2, <2>3, <3>1, <3>2
  <2> QED
    BY <1>1, <1>2, <2>2, <2>4, <2>5 DEF InSilence
<1> QED
  BY <1>3, <1>4, <1>5 DEF OnTheWay, AnswerComes

\* What a character does that the driver receives.
LEMMA ReceiveMoves ==
  ASSUME LinkInv, LinkInv', ReceiveAnswer
  PROVE  /\ step = "receive" /\ request \in Requests /\ irqCom' = irqCom
         /\ UNCHANGED <<request, responded, disturbed, main, hold, cntr, reply>>
         /\ data' = <<>> /\ shift' = (IF data = <<>> THEN 0 ELSE Head(data))
         /\ main = "reply" => data # <<>>
         /\ com' = Receives(com, shift, Len(rec')) /\ com \in Fsms /\ com' \in Fsms
         /\ rec' = (IF com.state = "recBody" THEN Append(rec, shift) ELSE rec)
         /\ Receiving(com') => UNCHANGED <<step, answers>>
         /\ ~Receiving(com') =>
              step' = "idle" /\ answers' = [answers EXCEPT ![request] = [how |-> com'.state, text |-> rec']]
<1>1. /\ step = "receive" /\ irqCom' = irqCom
      /\ UNCHANGED <<request, responded, disturbed, main, hold, cntr, reply>>
      /\ data' = <<>> /\ shift' = (IF data = <<>> THEN 0 ELSE Head(data))
      /\ main = "reply" => data # <<>>
  BY AfterRequest DEF ReceiveAnswer, Clock, loop
<1>2. request \in Requests /\ com \in Fsms /\ com' \in Fsms
  BY <1>1 DEF LinkInv, RequestComes, LinkTypes
<1> QED
  BY <1>1, <1>2 DEF ReceiveAnswer

\* The driver still counts zeros, or has given up.
LEMMA ZeroReceived ==
  ASSUME LinkInv, LinkInv', NotYet, ReceiveAnswer, shift = 0, rec = <<>>,
         com.state \in {"recSilence", "recMsb"}
  PROVE  /\ rec' = <<>> /\ com' = Receives(com, 0, Len(rec'))
         /\ \/ step' = "receive" /\ com'.state \in {"recSilence", "recMsb"}
            \/ step' = "idle" /\ answers'[request].how = "errTimeout"
               /\ com.state = "recMsb" /\ Impatient(com.cnt)
<1>1. rec' = <<>> /\ com' = Receives(com, 0, Len(rec'))
  BY ReceiveMoves
<1>2. /\ com'.state \in {"recSilence", "recMsb", "errTimeout"}
      /\ com'.state = "errTimeout" => com.state = "recMsb" /\ Impatient(com.cnt)
  BY <1>1, ReceiveMoves, ZeroComes
<1>3. CASE com'.state = "errTimeout"
  <2>1. step' = "idle" /\ answers' = [answers EXCEPT ![request] = [how |-> com'.state, text |-> rec']]
    BY <1>3, ReceiveMoves DEF Receiving
  <2>2. answers'[request].how = "errTimeout"
    BY <1>3, <2>1, ReceiveMoves DEF NotYet
  <2> QED
    BY <1>1, <1>2, <1>3, <2>1, <2>2
<1>4. CASE com'.state # "errTimeout"
  <2>1. UNCHANGED step
    BY <1>2, <1>4, ReceiveMoves DEF Receiving
  <2> QED
    BY <1>1, <1>2, <1>4, <2>1, ReceiveMoves
<1> QED
  BY <1>3, <1>4

LEMMA ReceiveSilence ==
  ASSUME LinkInv, LinkInv', NotYet, OnTheWay, ReceiveAnswer, Alone, Unanswered
  PROVE  OnTheWay' /\ EndedWell'
<1>1. /\ step = "receive" /\ irqCom' = irqCom /\ data' = <<>> /\ shift' = (IF data = <<>> THEN 0 ELSE Head(data))
      /\ UNCHANGED <<request, responded, disturbed, main, hold>>
  BY ReceiveMoves
<1>2. /\ data = <<>> /\ shift = 0 /\ rec = <<>> /\ com.state \in {"recSilence", "recMsb"}
      /\ main \in {"loop", "work"}
      /\ main = "work" => hold[1] = request /\ irqCom.state = "halted"
      /\ main = "loop" => irqCom.state # "halted"
  BY <1>1 DEF OnTheWay, LineSilent
<1>3. /\ rec' = <<>> /\ shift' = 0
      /\ \/ step' = "receive" /\ com'.state \in {"recSilence", "recMsb"}
         \/ step' = "idle" /\ answers'[request].how = "errTimeout"
  BY <1>1, <1>2, ZeroReceived
<1>4. LineSilent'
  BY <1>1, <1>2, <1>3 DEF LineSilent, Alone
<1>5. AnswerComes'
  BY <1>1 DEF AnswerComes, Unanswered
<1>6. EndedWell'
  BY <1>1, <1>3 DEF EndedWell
<1> QED
  BY <1>4, <1>5, <1>6 DEF OnTheWay

\* The zeros before the answer.
LEMMA ReceiveZero ==
  ASSUME LinkInv, LinkInv', NotYet, ReceiveAnswer, InSilence
  PROVE  /\ \/ step' = "receive" /\ InSilence'
            \/ step' = "idle" /\ answers'[request].how = "errTimeout"
         /\ Zeros' = Zeros - 1 /\ Zeros' \in Int /\ Zeros' > 0
<1>1. /\ step = "receive" /\ data' = <<>> /\ shift' = (IF data = <<>> THEN 0 ELSE Head(data))
      /\ UNCHANGED <<request, responded, disturbed, main, hold, cntr, reply>>
      /\ com \in Fsms /\ com' \in Fsms /\ data # <<>>
  BY ReceiveMoves DEF InSilence
<1>2. /\ data = <<0>> /\ shift = 0 /\ rec = <<>> /\ com.state \in {"recSilence", "recMsb"}
      /\ com.state = "recSilence" => com.cnt + Zeros >= Silence
      /\ cntr.state = "silence" => cntr.cnt < Silence
  BY <1>1 DEF InSilence
<1>3. Zeros' = Zeros - 1 /\ Zeros \in Int /\ Zeros' \in Int /\ Zeros' > 0
  <2> DEFINE due == IF cntr.state = "silence" THEN Silence - cntr.cnt ELSE 0
  <2>1. due \in Nat
    BY <1>2, LengthsAre DEF LinkInv, LinkTypes, Fsms
  <2>2. Zeros = 1 + 1 + due /\ Zeros' = 1 + 0 + due
    <3>1. Len(data) = 1 /\ Len(data') = 0
      BY <1>1, <1>2
    <3> QED
      BY <1>1, <3>1 DEF Zeros
  <2> HIDE DEF due
  <2> QED
    BY <2>1, <2>2
<1>4. rec' = <<>> /\ com' = Receives(com, 0, Len(rec')) /\ shift' = 0
      /\ (\/ step' = "receive" /\ com'.state \in {"recSilence", "recMsb"}
          \/ step' = "idle" /\ answers'[request].how = "errTimeout")
  BY <1>1, <1>2, ZeroReceived
<1>5. com'.state = "recSilence" => com'.cnt + Zeros' >= Silence
  <2> SUFFICES ASSUME com'.state = "recSilence" PROVE com'.cnt + Zeros' >= Silence
    OBVIOUS
  <2>1. com.state = "recSilence" /\ com'.cnt = com.cnt + 1
    BY <1>1, <1>2, <1>4, ZeroComes
  <2>2. com.cnt \in Int /\ Silence \in Int
    BY <1>1, LengthsAre DEF Fsms
  <2> QED
    BY <1>2, <1>3, <2>1, <2>2
<1>6. step' = "receive" => InSilence'
  BY <1>1, <1>2, <1>4, <1>5 DEF InSilence
<1> QED
  BY <1>3, <1>4, <1>6

\* Zero or not, the character before the length.
LEMMA ReceiveBeforeHigh ==
  ASSUME LinkInv, LinkInv', NotYet, ReceiveAnswer, HighPut
  PROVE  \/ step' = "receive" /\ HighComes'
         \/ step' = "idle" /\ answers'[request].how = "errTimeout"
<1>1. /\ step = "receive" /\ data' = <<>> /\ shift' = (IF data = <<>> THEN 0 ELSE Head(data))
      /\ UNCHANGED <<request, responded, disturbed, main, hold, cntr, reply>>
      /\ com \in Fsms
  BY ReceiveMoves
<1>2. /\ data = <<High>> /\ shift = 0 /\ rec = <<>> /\ com.state \in {"recSilence", "recMsb"}
      /\ com.state = "recSilence" => com.cnt + 1 >= Silence
      /\ main = "reply" /\ cntr.state = "lsb" /\ reply = responded[request]
  BY DEF HighPut
<1>3. rec' = <<>> /\ com' = Receives(com, 0, Len(rec'))
      /\ (\/ step' = "receive" /\ com'.state \in {"recSilence", "recMsb"}
          \/ step' = "idle" /\ answers'[request].how = "errTimeout")
  BY <1>2, ZeroReceived
<1>4. com'.state # "recSilence"
  <2> SUFFICES ASSUME com'.state = "recSilence" PROVE FALSE
    OBVIOUS
  <2>1. com.state = "recSilence" /\ com.cnt + 1 < Silence
    BY <1>1, <1>2, <1>3, ZeroComes
  <2>2. com.cnt \in Int /\ Silence \in Int
    BY <1>1, LengthsAre DEF Fsms
  <2> QED
    BY <1>2, <2>1, <2>2
<1>5. shift' = High /\ High' = High
  <2>1. data # <<>> /\ Head(data) = High
    BY <1>2
  <2> QED
    BY <1>1, <2>1 DEF High
<1> QED
  BY <1>1, <1>2, <1>3, <1>4, <1>5 DEF HighComes

\* An answer that was given.
LEMMA AnswerGiven ==
  ASSUME LengthsFit, LinkInv, NotYet, request \in Requests, ~Unanswered
  PROVE  /\ responded[request] \in Seq(Requests) /\ Part(request, responded[request])
         /\ Len(responded[request]) \in Nat \ {0} /\ responded[request] # <<>>
         /\ High \in Chars /\ High # 0 /\ Low \in Chars
         /\ (High % Flag) * Radix + Low = Len(responded[request])
<1>1. responded[request] \in Seq(Requests) /\ responded[request] # <<>>
      /\ Whole(request, responded[request])
  BY DEF LinkInv, LinkTypes, TypeOK, NotYet, Unanswered
<1> DEFINE n == Len(responded[request])
<1>2. n \in Lengths /\ n \in Nat \ {0} /\ n < Radix * Flag
  BY <1>1, LengthsAre DEF Whole, LengthsFit
<1>3. Msb(n) \in Chars /\ Msb(n) # 0 /\ Lsb(n) \in Chars
  BY <1>2, CharsAre
<1>4. (Msb(n) % Flag) * Radix + Lsb(n) = n
  BY <1>2, LengthRead
<1> HIDE DEF n
<1>5. High = Msb(n) /\ Low = Lsb(n)
  BY DEF High, Low, n
<1> QED
  BY <1>1, <1>2, <1>3, <1>4, <1>5 DEF n, Whole

LEMMA ReceiveHigh ==
  ASSUME LengthsFit, LinkInv, LinkInv', NotYet, ~Unanswered, ReceiveAnswer, LowPut
  PROVE  step' = "receive" /\ LowComes'
<1>1. /\ step = "receive" /\ data' = <<>> /\ shift' = (IF data = <<>> THEN 0 ELSE Head(data))
      /\ UNCHANGED <<request, responded, disturbed, main, hold, cntr, reply>>
      /\ request \in Requests /\ rec' = rec /\ com' = Receives(com, shift, Len(rec'))
  BY ReceiveMoves DEF LowPut
<1>2. /\ data = <<Low>> /\ shift = High /\ rec = <<>> /\ com.state = "recMsb"
      /\ main = "reply" /\ cntr.state = "body" /\ reply = responded[request]
  BY DEF LowPut
<1>3. High # 0
  BY <1>1, AnswerGiven
<1>4. com' = [state |-> "recLsb", cnt |-> com.cnt, target |-> (High % Flag) * Radix]
  BY <1>1, <1>2, <1>3 DEF Receives
<1>5. com'.state = "recLsb" /\ com'.target = (High % Flag) * Radix
  BY <1>4
<1>6. step' = "receive"
  BY <1>1, <1>5, ReceiveMoves DEF Receiving
<1>7. shift' = Low /\ High' = High /\ Low' = Low
  <2>1. data # <<>> /\ Head(data) = Low
    BY <1>2
  <2> QED
    BY <1>1, <2>1 DEF High, Low
<1> QED
  BY <1>1, <1>2, <1>5, <1>6, <1>7 DEF LowComes

LEMMA ReceiveLow ==
  ASSUME LengthsFit, LinkInv, LinkInv', NotYet, ~Unanswered, ReceiveAnswer, LowComes
  PROVE  step' = "receive" /\ TextComes'
<1>1. /\ step = "receive" /\ data' = <<>> /\ shift' = (IF data = <<>> THEN 0 ELSE Head(data))
      /\ UNCHANGED <<request, responded, disturbed, main, hold, cntr, reply>>
      /\ request \in Requests /\ rec' = rec /\ com' = Receives(com, shift, Len(rec'))
      /\ com \in Fsms /\ main = "reply" /\ data # <<>>
  BY ReceiveMoves DEF LowComes
<1>2. /\ data = <<request>> /\ shift = Low /\ rec = <<>> /\ com.state = "recLsb"
      /\ com.target = (High % Flag) * Radix
      /\ cntr.state = "body" /\ reply = Tail(responded[request])
  BY <1>1 DEF LowComes
<1>3. /\ responded[request] \in Seq(Requests) /\ Part(request, responded[request])
      /\ Len(responded[request]) \in Nat \ {0} /\ responded[request] # <<>>
      /\ (High % Flag) * Radix + Low = Len(responded[request])
  BY <1>1, AnswerGiven
<1>4. com' = [com EXCEPT !.state = "recBody", !.target = @ + Low]
  BY <1>1, <1>2 DEF Receives
<1>5. com'.state = "recBody" /\ com'.target = com.target + Low
  BY <1>1, <1>4 DEF Fsms
<1>6. com'.target = Len(responded[request])
  BY <1>2, <1>3, <1>5
<1>7. step' = "receive"
  BY <1>5, ReceiveMoves DEF Receiving
<1>8. shift' = request
  <2>1. data # <<>> /\ Head(data) = request
    BY <1>2
  <2> QED
    BY <1>1, <2>1
<1>9. Part(request, rec')
  <2>1. rec' = <<>> /\ Text(request, 0) = <<>> /\ Len(rec') = 0
    BY <1>1, <1>2, TextIs
  <2> QED
    BY <2>1 DEF Part
<1>10. Part(request, reply') /\ Len(reply') = Len(responded[request]) - 1
  BY <1>1, <1>2, <1>3, TextShrinks
<1>11. Len(rec') + 1 + Len(data') + Len(reply') = Len(responded[request])
  <2>1. Len(rec') = 0 /\ Len(data') = 0
    BY <1>1, <1>2
  <2> QED
    BY <1>3, <1>10, <2>1
<1> QED
  BY <1>1, <1>2, <1>5, <1>6, <1>7, <1>8, <1>9, <1>10, <1>11 DEF TextComes

LEMMA ReceiveText ==
  ASSUME LengthsFit, LinkInv, LinkInv', NotYet, ~Unanswered, ReceiveAnswer, TextComes
  PROVE  \/ step' = "receive" /\ TextComes'
         \/ /\ step' = "idle" /\ main = "loop"
            /\ answers'[request] = [how |-> "recOK", text |-> responded[request]]
<1>1. /\ step = "receive" /\ data' = <<>> /\ shift' = (IF data = <<>> THEN 0 ELSE Head(data))
      /\ UNCHANGED <<request, responded, disturbed, main, hold, cntr, reply>>
      /\ request \in Requests /\ rec' = Append(rec, shift)
      /\ com' = Receives(com, shift, Len(rec'))
      /\ main = "reply" => data # <<>>
  BY ReceiveMoves DEF TextComes
<1>2. /\ main \in {"reply", "loop"}
      /\ main = "reply" => cntr.state = "body"
      /\ shift = request /\ data \in {<<>>, <<request>>}
      /\ main = "loop" => data = <<>> /\ reply = <<>>
      /\ com.state = "recBody" /\ com.target = Len(responded[request])
      /\ Part(request, rec) /\ Part(request, reply)
      /\ Len(rec) + 1 + Len(data) + Len(reply) = Len(responded[request])
  BY DEF TextComes
<1>3. /\ responded[request] \in Seq(Requests) /\ Part(request, responded[request])
      /\ Len(responded[request]) \in Nat
  BY <1>1, AnswerGiven
<1>3a. rec \in Seq(Chars) /\ reply \in Seq(Requests)
  BY DEF LinkInv, LinkTypes, TypeOK
<1>4. rec \in Seq(Chars) /\ request \in Chars /\ reply \in Seq(Requests) /\ Len(rec) \in Nat
      /\ Len(reply) \in Nat
  BY <1>1, <1>3a, SomeChars
<1>5. Part(request, rec') /\ Len(rec') = Len(rec) + 1
  BY <1>1, <1>2, <1>4, TextGrows
<1>6. com' = (IF Len(rec') >= Len(responded[request]) THEN Start("recOK") ELSE com)
  BY <1>1, <1>2 DEF Receives
<1>7. CASE main = "reply"
  <2>1. data = <<request>> /\ Len(data) = 1 /\ Len(data') = 0 /\ Head(data) = request
    BY <1>1, <1>2, <1>7
  <2>2. Len(rec') < Len(responded[request])
        /\ Len(rec') + 1 + Len(data') + Len(reply') = Len(responded[request])
    BY <1>1, <1>2, <1>3, <1>4, <1>5, <2>1
  <2>3. com' = com /\ shift' = request
    BY <1>1, <1>3, <1>5, <1>6, <1>7, <2>1, <2>2
  <2>4. step' = "receive"
    BY <1>1, <1>2, <2>3, ReceiveMoves DEF Receiving
  <2> QED
    BY <1>1, <1>2, <1>5, <1>7, <2>2, <2>3, <2>4 DEF TextComes
<1>8. CASE main = "loop"
  <2>1. data = <<>> /\ reply = <<>> /\ Len(data) = 0 /\ Len(reply) = 0
    BY <1>2, <1>8
  <2>2. Len(rec') = Len(responded[request])
    BY <1>2, <1>3, <1>4, <1>5, <2>1
  <2>3. com' = Start("recOK")
    BY <1>3, <1>6, <2>2
  <2>4. step' = "idle" /\ answers' = [answers EXCEPT ![request] = [how |-> "recOK", text |-> rec']]
    BY <2>3, ReceiveMoves DEF Receiving, Start
  <2>5. rec' = responded[request]
    BY <1>3, <1>5, <2>2 DEF Part
  <2> QED
    BY <1>1, <1>8, <2>4, <2>5 DEF NotYet
<1> QED
  BY <1>2, <1>7, <1>8

LEMMA ReceiveOnTheWay ==
  ASSUME LengthsFit, LinkInv, LinkInv', NotYet, OnTheWay, ReceiveAnswer
  PROVE  OnTheWay' /\ EndedWell'
<1>1. /\ step = "receive" /\ request \in Requests /\ irqCom' = irqCom
      /\ UNCHANGED <<request, responded, disturbed>>
  BY ReceiveMoves
<1>2. CASE disturbed
  BY <1>1, <1>2 DEF OnTheWay, LineSilent, AnswerComes, EndedWell, Alone
<1>3. CASE ~disturbed /\ Unanswered
  BY <1>1, <1>3, ReceiveSilence DEF Alone
<1>4. CASE ~disturbed /\ ~Unanswered
  <2>1. Alone /\ ~Unanswered'
    BY <1>1, <1>4 DEF Alone, Unanswered
  <2>2. irqCom.state = "halted"
        /\ (InSilence \/ HighPut \/ HighComes \/ LowPut \/ LowComes \/ TextComes)
    BY <1>4, <2>1 DEF OnTheWay, AnswerComes
  <2>3. ~HighComes
    BY ReceiveMoves DEF HighComes
  <2>4. \/ /\ step' = "receive"
           /\ InSilence' \/ HighComes' \/ LowComes' \/ TextComes'
        \/ step' = "idle" /\ answers'[request].how = "errTimeout"
        \/ step' = "idle" /\ answers'[request] = [how |-> "recOK", text |-> responded[request]]
    BY <1>4, <2>2, <2>3, ReceiveZero, ReceiveBeforeHigh, ReceiveHigh, ReceiveLow, ReceiveText
  <2>5. LineSilent'
    BY <2>1 DEF LineSilent
  <2>6. AnswerComes'
    BY <1>1, <2>2, <2>4 DEF AnswerComes, Alone
  <2>7. EndedWell'
    BY <1>1, <2>1, <2>4 DEF EndedWell, Answered
  <2> QED
    BY <2>5, <2>6, <2>7 DEF OnTheWay
<1> QED
  BY <1>2, <1>3, <1>4

\* The request that is taken over is the one that is on its way.
LEMMA UpdateTakes ==
  ASSUME LinkInv, Update
  PROVE  /\ irqCom.state = "recOK" /\ main = "loop" /\ main' = "work"
         /\ hold'[1] = request /\ irqCom'.state = "halted" /\ request \in Requests
         /\ UNCHANGED <<step, request, com, rec, data, shift, responded, answers, disturbed>>
<1>1. /\ irqCom.state = "recOK" /\ main = "loop" /\ main' = "work"
      /\ hold' = fifo /\ irqCom'.state = "halted"
      /\ UNCHANGED <<step, request, com, rec, data, shift, responded, answers, disturbed>>
  BY DEF Update, Start, master, wire, hist
<1>2. Whole(request, fifo) /\ request \in Requests /\ fifo \in Seq(Chars)
  BY <1>1 DEF LinkInv, RequestComes, LinkTypes, TypeOK
<1>3. request \in Chars /\ fifo # <<>>
  BY <1>2, SomeChars, LengthsAre DEF Whole
<1>4. hold'[1] = request
  BY <1>1, <1>2, <1>3, TextShrinks DEF Whole
<1> QED
  BY <1>1, <1>2, <1>4

LEMMA UpdateOnTheWay ==
  ASSUME LinkInv, NotYet, OnTheWay, EndedWell, Update
  PROVE  OnTheWay' /\ EndedWell'
<1>1. /\ irqCom.state = "recOK" /\ main = "loop" /\ main' = "work"
      /\ hold'[1] = request /\ irqCom'.state = "halted" /\ request \in Requests
      /\ UNCHANGED <<step, request, com, rec, data, shift, responded, answers, disturbed>>
  BY UpdateTakes
<1>2. Unanswered
  BY <1>1 DEF NotYet, Unanswered
<1>3. EndedWell'
  BY <1>1 DEF EndedWell, Answered, Unanswered
<1>4. LineSilent'
  BY <1>1, <1>2 DEF OnTheWay, LineSilent, Alone
<1>5. AnswerComes'
  BY <1>1, <1>2 DEF AnswerComes, Unanswered
<1> QED
  BY <1>3, <1>4, <1>5 DEF OnTheWay

LEMMA WorkOnTheWay ==
  ASSUME LinkInv, LinkInv', NotYet, OnTheWay, EndedWell, NEW n \in Lengths, Work(n)
  PROVE  OnTheWay' /\ EndedWell'
<1>1. /\ main = "work" /\ main' = "reply" /\ cntr' = Start("silence")
      /\ reply' = Text(hold[1], n)
      /\ UNCHANGED <<step, request, com, rec, data, shift, irqCom, answers, disturbed>>
  BY DEF Work, master, wire, irq
<1>2. /\ hold[1] \in Requests /\ hold[1] <= request
      /\ responded' = [responded EXCEPT ![hold[1]] = Text(hold[1], n)]
      /\ Text(hold[1], n) # <<>> /\ responded[hold[1]] = <<>>
  BY <1>1, NotYetWork DEF NotYet
<1>3. request \in Requests /\ responded \in [Requests -> Seq(Requests)]
  <2>1. request \in 0 .. MaxRequests /\ responded \in [Requests -> Seq(Requests)]
    BY DEF LinkInv, LinkTypes, TypeOK
  <2> QED
    BY <1>2, <2>1, LengthsAre DEF Requests
<1>4. CASE hold[1] = request
  <2>1. Unanswered /\ responded'[request] = Text(request, n) /\ ~Unanswered'
    BY <1>1, <1>2, <1>3, <1>4 DEF Unanswered
  <2>2. irqCom.state = "halted"
    BY <1>1, <1>3, <1>4 DEF LinkInv, InTurn, Requests
  <2>3. EndedWell'
    BY <1>1, <2>1 DEF EndedWell
  <2>4. LineSilent'
    BY <2>1 DEF LineSilent
  <2>5. ASSUME Alone' PROVE InSilence'
    <3>1. Alone
      BY <1>1, <2>5 DEF Alone
    <3>2. step = "send" => com.state = "body"
      BY <2>2 DEF LinkInv, RequestComes
    <3>3. data = <<>> /\ shift = 0
          /\ (step = "receive" => com.state \in {"recSilence", "recMsb"} /\ rec = <<>>)
      BY <2>1, <3>1, <3>2 DEF OnTheWay, LineSilent
    <3>4. cntr'.state = "silence" /\ cntr'.cnt = 0
      BY <1>1 DEF Start
    <3>5. Silence \in Nat \ {0} /\ com.cnt \in Nat
      BY LengthsAre DEF LinkInv, LinkTypes, Fsms
    <3>6. Zeros' = Silence + 1
      <4>1. Len(data') = 0
        BY <1>1, <3>3
      <4> QED
        BY <3>4, <3>5, <4>1 DEF Zeros
    <3>7. com'.cnt + Zeros' >= Silence
      BY <1>1, <3>5, <3>6
    <3> QED
      BY <1>1, <1>4, <2>1, <3>3, <3>4, <3>5, <3>6, <3>7 DEF InSilence
  <2> QED
    BY <1>1, <2>2, <2>3, <2>4, <2>5 DEF OnTheWay, AnswerComes
<1>5. CASE hold[1] # request
  <2>1. responded'[request] = responded[request]
    BY <1>2, <1>3, <1>5
  <2>2. ~Alone
    BY <1>1, <1>5 DEF OnTheWay, LineSilent, AnswerComes, InSilence, HighPut, HighComes,
                      LowPut, LowComes, TextComes
  <2>3. ~Alone'
    BY <1>1, <2>2 DEF Alone
  <2>4. EndedWell'
    BY <1>1, <2>1 DEF EndedWell, Answered, Unanswered
  <2> QED
    BY <2>3, <2>4 DEF OnTheWay, LineSilent, AnswerComes
<1> QED
  BY <1>4, <1>5

\* The firmware puts a zero, or the length after the last of them.
LEMMA ReplySilence ==
  ASSUME LinkInv, LinkInv', Reply, InSilence, Alone
  PROVE  /\ (InSilence' /\ Zeros' = Zeros) \/ (HighPut' /\ Zeros = 1)
         /\ UNCHANGED <<step, request, com, rec, shift, responded, disturbed>>
<1>1. /\ main = "reply" /\ data = <<>>
      /\ UNCHANGED <<step, request, com, rec, shift, irqCom, responded, answers, disturbed>>
  BY DEF Reply, master, irq, hist
<1>2. /\ cntr.state \in {"silence", "msb"} /\ reply = responded[request] /\ shift = 0
      /\ cntr.state = "silence" => cntr.cnt < Silence
      /\ step \in {"send", "add"} => Zeros = Silence + 1
      /\ step = "receive" => /\ rec = <<>> /\ com.state \in {"recSilence", "recMsb"}
                             /\ com.state = "recSilence" => com.cnt + Zeros >= Silence
  BY DEF InSilence
<1>3. cntr \in Fsms /\ cntr.cnt \in Nat /\ com.cnt \in Nat /\ Silence \in Nat \ {0}
  BY LengthsAre DEF LinkInv, LinkTypes, Fsms
<1>4. Len(data) = 0
  BY <1>1
<1>5. CASE cntr.state = "silence"
  <2>1. /\ Sends(cntr, reply).ch = 0 /\ Sends(cntr, reply).msg = reply
        /\ Sends(cntr, reply).fsm =
             IF SilenceSent(cntr.cnt) THEN Start("msb") ELSE [cntr EXCEPT !.cnt = @ + 1]
    BY <1>5 DEF Sends
  <2>2. CASE SilenceSent(cntr.cnt)
    <3>1. Sends(cntr, reply).fsm.state = "msb"
      BY <2>1, <2>2 DEF Start
    <3>2. /\ cntr'.state = "msb" /\ reply' = reply /\ data' = <<0>> /\ main' = main
      BY <2>1, <3>1 DEF Reply
    <3>3. Silence - cntr.cnt = 1
      BY <1>2, <1>3, <1>5, <2>2 DEF SilenceSent
    <3>4. Len(data') = 1
      BY <3>2
    <3>5. Zeros' = Zeros
      BY <1>4, <1>5, <3>2, <3>3, <3>4 DEF Zeros
    <3> QED
      BY <1>1, <1>2, <3>2, <3>5 DEF InSilence
  <2>3. CASE ~SilenceSent(cntr.cnt)
    <3>1. Sends(cntr, reply).fsm.state = "silence" /\ Sends(cntr, reply).fsm.cnt = cntr.cnt + 1
      BY <1>3, <1>5, <2>1, <2>3 DEF Fsms
    <3>2. /\ cntr'.state = "silence" /\ cntr'.cnt = cntr.cnt + 1
          /\ reply' = reply /\ data' = <<0>> /\ main' = main
      BY <2>1, <3>1 DEF Reply
    <3>3. cntr.cnt + 1 < Silence
      BY <1>3, <2>3 DEF SilenceSent
    <3>4. Len(data') = 1
      BY <3>2
    <3>5. Zeros' = Zeros
      BY <1>3, <1>4, <1>5, <3>2, <3>3, <3>4 DEF Zeros
    <3> QED
      BY <1>1, <1>2, <3>2, <3>3, <3>5 DEF InSilence
  <2> QED
    BY <2>2, <2>3
<1>6. CASE cntr.state = "msb"
  <2>1. /\ Sends(cntr, reply).ch = High /\ Sends(cntr, reply).msg = reply
        /\ Sends(cntr, reply).fsm = Start("lsb") /\ Start("lsb").state = "lsb"
    BY <1>2, <1>6 DEF Sends, High, Start
  <2>2. cntr'.state = "lsb" /\ reply' = reply /\ data' = <<High>> /\ main' = main
    BY <2>1 DEF Reply
  <2>3. Zeros = 1
    BY <1>4, <1>6 DEF Zeros
  <2>4. step = "receive"
    <3>1. step # "idle" /\ step \notin {"send", "add"}
      BY <1>2, <1>3, <2>3 DEF Alone
    <3> QED
      BY <3>1 DEF LinkInv, LinkTypes, TypeOK
  <2>5. com'.state = "recSilence" => com'.cnt + 1 >= Silence
    BY <1>1, <1>2, <2>3, <2>4
  <2>6. High' = High
    BY <1>1 DEF High
  <2> QED
    BY <1>1, <1>2, <2>2, <2>3, <2>4, <2>5, <2>6 DEF HighPut
<1> QED
  BY <1>1, <1>2, <1>5, <1>6

\* Then the rest of the length, and the text.
LEMMA ReplyLow ==
  ASSUME LinkInv, Reply, HighComes
  PROVE  LowPut'
<1>1. /\ main = "reply" /\ data = <<>>
      /\ UNCHANGED <<step, request, com, rec, shift, irqCom, responded, answers, disturbed>>
  BY DEF Reply, master, irq, hist
<1>2. Sends(cntr, reply).ch = Low /\ Sends(cntr, reply).msg = reply
      /\ Sends(cntr, reply).fsm = Start("body") /\ Start("body").state = "body"
  BY DEF HighComes, Sends, Low, Start
<1>3. cntr'.state = "body" /\ reply' = reply /\ data' = <<Low>> /\ main' = main
  BY <1>2 DEF Reply
<1>4. High' = High /\ Low' = Low
  BY <1>1 DEF High, Low
<1> QED
  BY <1>1, <1>3, <1>4 DEF HighComes, LowPut

\* The next character of the text, if there is one.
LEMMA ReplyCharacter ==
  ASSUME LinkInv, Reply, cntr.state = "body", Part(request, reply), request \in Requests
  PROVE  \/ /\ reply # <<>> /\ main' = "reply" /\ cntr' = cntr /\ data' = <<request>>
            /\ reply' = Tail(reply) /\ Part(request, Tail(reply))
            /\ Len(Tail(reply)) = Len(reply) - 1
         \/ /\ reply = <<>> /\ main' = "loop" /\ data' = <<>> /\ reply' = <<>>
<1>1. main = "reply" /\ data = <<>> /\ reply \in Seq(Requests)
  BY DEF Reply, LinkInv, LinkTypes, TypeOK
<1>2. CASE reply = <<>>
  <2>1. Sends(cntr, reply) = [ch |-> 0, msg |-> reply, fsm |-> Start("sent")]
    BY <1>2 DEF Sends
  <2>2. Sends(cntr, reply).fsm.state = "sent" /\ Sends(cntr, reply).msg = reply
    BY <2>1 DEF Start
  <2> QED
    BY <1>1, <1>2, <2>2 DEF Reply
<1>3. CASE reply # <<>>
  <2>1. Sends(cntr, reply) = [ch |-> Head(reply), msg |-> Tail(reply), fsm |-> cntr]
    BY <1>3 DEF Sends
  <2>2. Head(reply) = request /\ Part(request, Tail(reply)) /\ Len(Tail(reply)) = Len(reply) - 1
    BY <1>1, <1>3, TextShrinks
  <2>3. Sends(cntr, reply).fsm.state # "sent"
    BY <2>1
  <2> QED
    BY <1>1, <1>3, <2>1, <2>2, <2>3 DEF Reply
<1> QED
  BY <1>2, <1>3

LEMMA ReplyText ==
  ASSUME LengthsFit, LinkInv, LinkInv', NotYet, request \in Requests, ~Unanswered, Reply,
         LowComes \/ TextComes
  PROVE  LowComes' \/ TextComes'
<1>1. /\ main = "reply" /\ data = <<>>
      /\ UNCHANGED <<step, request, com, rec, shift, irqCom, responded, answers, disturbed>>
  BY DEF Reply, master, irq, hist
<1>2. /\ responded[request] \in Seq(Requests) /\ Part(request, responded[request])
      /\ responded[request] # <<>>
  BY AnswerGiven
<1>3. High' = High /\ Low' = Low
  BY <1>1 DEF High, Low
<1>4. CASE LowComes
  <2>1. cntr.state = "body" /\ reply = responded[request]
    BY <1>1, <1>4 DEF LowComes
  <2>2. /\ main' = "reply" /\ cntr' = cntr /\ data' = <<request>> /\ reply' = Tail(reply)
    BY <1>2, <2>1, ReplyCharacter
  <2> QED
    BY <1>1, <1>3, <1>4, <2>1, <2>2 DEF LowComes
<1>5. CASE TextComes
  <2>1. cntr.state = "body" /\ Part(request, reply)
    BY <1>1, <1>5 DEF TextComes
  <2>2. Len(rec) \in Nat /\ Len(reply) \in Nat /\ Len(data) = 0
    <3>1. rec \in Seq(Chars) /\ reply \in Seq(Requests)
      BY DEF LinkInv, LinkTypes, TypeOK
    <3> QED
      BY <1>1, <3>1
  <2>3. Len(rec) + 1 + Len(reply) = Len(responded[request])
    BY <1>5, <2>2 DEF TextComes
  <2>4. CASE reply # <<>>
    <3>1. /\ main' = "reply" /\ cntr' = cntr /\ data' = <<request>> /\ reply' = Tail(reply)
          /\ Part(request, reply') /\ Len(reply') = Len(reply) - 1
      BY <2>1, <2>4, ReplyCharacter
    <3>2. Len(data') = 1
      BY <3>1
    <3>3. Len(rec) + 1 + Len(data') + Len(reply') = Len(responded[request])
      <4>1. Len(reply') = Len(reply) - 1
        BY <3>1
      <4> QED
        BY <2>2, <2>3, <3>2, <4>1
    <3> QED
      BY <1>1, <1>5, <2>1, <3>1, <3>3 DEF TextComes
  <2>5. CASE reply = <<>>
    <3>1. main' = "loop" /\ data' = <<>> /\ reply' = <<>>
      BY <2>1, <2>5, ReplyCharacter
    <3>2. data' = data /\ reply' = reply
      BY <1>1, <2>5, <3>1
    <3> QED
      BY <1>1, <1>5, <3>1, <3>2 DEF TextComes
  <2> QED
    BY <2>4, <2>5
<1> QED
  BY <1>4, <1>5

LEMMA ReplyOnTheWay ==
  ASSUME LengthsFit, LinkInv, LinkInv', NotYet, OnTheWay, EndedWell, Reply
  PROVE  OnTheWay' /\ EndedWell'
<1>1. /\ main = "reply" /\ data = <<>>
      /\ UNCHANGED <<step, request, com, rec, shift, irqCom, responded, answers, disturbed>>
  BY DEF Reply, master, irq, hist
<1>2. EndedWell'
  BY <1>1 DEF EndedWell, Answered, Unanswered
<1>3. LineSilent'
  BY <1>1 DEF OnTheWay, LineSilent, Alone, Unanswered
<1>4. ASSUME Alone', ~Unanswered'
      PROVE  /\ irqCom'.state = "halted"
             /\ InSilence' \/ HighPut' \/ LowPut' \/ LowComes' \/ TextComes'
  <2>1. Alone /\ ~Unanswered /\ request \in Requests
    BY <1>1, <1>4 DEF Alone, Unanswered, LinkInv, RequestComes
  <2>2. irqCom.state = "halted" /\ (InSilence \/ HighComes \/ LowComes \/ TextComes)
    BY <1>1, <2>1 DEF OnTheWay, AnswerComes, HighPut, LowPut
  <2> QED
    BY <1>1, <2>1, <2>2, ReplySilence, ReplyLow, ReplyText
<1> QED
  BY <1>2, <1>3, <1>4 DEF OnTheWay, AnswerComes

LEMMA GiveUpOnTheWay ==
  ASSUME LinkInv, OnTheWay, EndedWell, GiveUp
  PROVE  OnTheWay' /\ EndedWell'
<1>1. /\ UNCHANGED <<step, request, responded, answers>>
      /\ step = "idle" \/ disturbed'
      /\ step = "idle" => UNCHANGED disturbed
  BY DEF GiveUp, master
<1>2. ~Alone'
  BY <1>1 DEF Alone
<1>3. EndedWell'
  BY <1>1 DEF EndedWell, Answered, Unanswered
<1> QED
  BY <1>2, <1>3 DEF OnTheWay, LineSilent, AnswerComes

LEMMA StandsOnTheWay ==
  ASSUME OnTheWay, EndedWell, UNCHANGED vars
  PROVE  OnTheWay' /\ EndedWell'
<1>1. UNCHANGED <<step, request, com, rec, data, shift, irqCom, main, hold, cntr, reply,
                  responded, answers, disturbed>>
  BY DEF vars, master, wire, irq, loop, hist
<1>2. High' = High /\ Low' = Low /\ Zeros' = Zeros
  BY <1>1 DEF High, Low, Zeros
<1>3. LineSilent' /\ EndedWell'
  BY <1>1 DEF OnTheWay, LineSilent, Alone, Unanswered, EndedWell, Answered
<1>4. /\ InSilence' = InSilence /\ HighPut' = HighPut /\ HighComes' = HighComes
      /\ LowPut' = LowPut /\ LowComes' = LowComes /\ TextComes' = TextComes
  BY <1>1, <1>2 DEF InSilence, HighPut, HighComes, LowPut, LowComes, TextComes, Part
<1>5. AnswerComes'
  BY <1>1, <1>4 DEF OnTheWay, AnswerComes, Alone, Unanswered
<1> QED
  BY <1>3, <1>5 DEF OnTheWay

LEMMA AnswerInvariant ==
  ASSUME LengthsFit
  PROVE  /\ Init => AnswerInv
         /\ AnswerInv /\ [Next]_vars => AnswerInv'
<1>1. Init => AnswerInv
  <2> SUFFICES ASSUME Init PROVE AnswerInv
    OBVIOUS
  <2>1. LinkInv
    BY LinkInvariant
  <2>2. NotYet
    BY <2>1 DEF Init, NotYet, None, Start
  <2>3. LineSilent /\ AnswerComes /\ EndedWell
    BY DEF Init, LineSilent, AnswerComes, EndedWell, Alone
  <2> QED
    BY <2>1, <2>2, <2>3 DEF AnswerInv
<1>2. ASSUME AnswerInv, [Next]_vars PROVE AnswerInv'
  <2>1. LinkInv /\ LinkInv' /\ NotYet /\ NotYet' /\ OnTheWay /\ EndedWell
    BY <1>2, LinkInvariant, NotYetStep DEF AnswerInv, OnTheWay
  <2> SUFFICES OnTheWay' /\ EndedWell'
    BY <2>1 DEF AnswerInv, OnTheWay
  <2>2. ASSUME NEW n \in Lengths, Begin(n) PROVE OnTheWay' /\ EndedWell'
    BY <2>1, <2>2, BeginOnTheWay
  <2>3. CASE DriverStep
    BY <2>1, <2>3, SendOnTheWay, AddClockOnTheWay, ReceiveOnTheWay DEF DriverStep
  <2>4. ASSUME NEW n \in Lengths, Work(n) PROVE OnTheWay' /\ EndedWell'
    BY <2>1, <2>4, WorkOnTheWay
  <2>5. CASE Update \/ Reply \/ GiveUp
    BY <2>1, <2>5, UpdateOnTheWay, ReplyOnTheWay, GiveUpOnTheWay
  <2>6. CASE UNCHANGED vars
    BY <2>1, <2>6, StandsOnTheWay
  <2> QED
    BY <1>2, <2>2, <2>3, <2>4, <2>5, <2>6 DEF Next, FirmwareStep
<1> QED
  BY <1>1, <1>2

\* Whatever went wrong before, no character of an earlier exchange is taken for
\* part of an answer: the driver lets the line fall silent before it looks for a
\* length (Bcm_spi::execute(), CSyncSerComFSM::proc()).
THEOREM NotMisled ==
  ASSUME LengthsFit
  PROVE  Spec => []UndisturbedIsTrue
<1>1. AnswerInv => UndisturbedIsTrue
  BY DEF AnswerInv, EndedWell, UndisturbedIsTrue
<1> QED
  BY <1>1, AnswerInvariant, PTL DEF Spec

-----------------------------------------------------------------------------
(* A firmware that is fast enough                                           *)

\* While a request has no answer, every character counts as delay.
LEMMA StillAwaited ==
  ASSUME Prompt, LinkInv, LineSilent, Alone, Unanswered, step \in {"add", "receive"}
  PROVE  Awaited
<1>1. main = "work" \/ (main = "loop" /\ irqCom.state # "halted")
  BY DEF LineSilent
<1>2. irqCom.state \notin {"recMsb", "recLsb"}
  BY DEF LinkInv, RequestComes
<1>3. irqCom.state # "recBody"
  <2> SUFFICES ASSUME irqCom.state = "recBody" PROVE FALSE
    OBVIOUS
  <2>1. irqCom.target \in Lengths
    BY DEF LinkInv, RequestComes
  <2>2. irqCom.target <= Capacity
    BY <2>1 DEF Prompt
  <2> QED
    BY <2>2 DEF LinkInv, RequestComes
<1> QED
  BY <1>1, <1>2, <1>3 DEF Awaited, LinkInv, RequestComes

\* Zeros that are still to come.
LEMMA ZerosLeft ==
  ASSUME LinkInv, InSilence
  PROVE  Zeros \in Nat \ {0}
<1> DEFINE due == IF cntr.state = "silence" THEN Silence - cntr.cnt ELSE 0
<1>1. due \in Nat
  BY LengthsAre DEF InSilence, LinkInv, LinkTypes, Fsms
<1>2. Len(data) \in Nat
  BY DEF LinkInv, LinkTypes, TypeOK
<1>3. Zeros = 1 + Len(data) + due
  BY DEF Zeros
<1> HIDE DEF due
<1> QED
  BY <1>1, <1>2, <1>3

\* The driver never gives up.
LEMMA NoTimeOut ==
  ASSUME LengthsFit, Prompt, PromptInv, step = "receive", com.state = "recMsb", shift = 0
  PROVE  ~Impatient(com.cnt)
<1>1. com.cnt \in Nat /\ busy \in Nat /\ busy <= MaxDelay /\ MaxDelay \in Nat
      /\ Silence \in Nat \ {0} /\ Patience \in Nat /\ MaxDelay <= Patience
      /\ request \in Requests /\ ~disturbed
  BY LengthsAre DEF Prompt, PromptInv, AnswerInv, LinkInv, LinkTypes, TypeOK, Fsms, Rest,
                    RequestComes
<1>2. CASE Unanswered
  <2>1. com.cnt + 1 + Silence <= busy
    BY <1>2 DEF PromptInv, InTime
  <2> QED
    BY <1>1, <2>1 DEF Impatient
<1>3. CASE ~Unanswered
  <2>1. Alone
    BY <1>1 DEF Alone
  <2>2. InSilence \/ HighPut \/ HighComes \/ LowPut
    BY <1>3, <2>1 DEF PromptInv, AnswerInv, AnswerComes, LowComes, TextComes
  <2>3. ~HighComes /\ ~LowPut
    <3>1. shift # High
      BY <1>1, <1>3, AnswerGiven DEF PromptInv, AnswerInv
    <3> QED
      BY <3>1 DEF HighComes, LowPut
  <2>4. CASE InSilence
    <3>1. com.cnt + Zeros <= MaxDelay
      BY <2>4 DEF PromptInv, InTime
    <3>2. Zeros \in Nat \ {0}
      BY <2>4, ZerosLeft DEF PromptInv, AnswerInv
    <3> QED
      BY <1>1, <3>1, <3>2 DEF Impatient
  <2>5. CASE HighPut
    <3>1. com.cnt + 1 <= MaxDelay
      BY <2>5 DEF PromptInv, InTime
    <3> QED
      BY <1>1, <3>1 DEF Impatient
  <2> QED
    BY <2>2, <2>3, <2>4, <2>5
<1> QED
  BY <1>2, <1>3

\* How the exchange goes on: an answer that ends has come whole.
LEMMA ReceiveEnds ==
  ASSUME LengthsFit, Prompt, PromptInv, LinkInv', ReceiveAnswer, step' = "idle"
  PROVE  /\ main' = "loop" /\ irqCom'.state = "halted" /\ ~Unanswered
         /\ answers' = [answers EXCEPT ![request] =
                          [how |-> "recOK", text |-> responded[request]]]
<1>1. /\ step = "receive" /\ request \in Requests /\ irqCom' = irqCom /\ main' = main
      /\ com \in Fsms /\ com' \in Fsms /\ com' = Receives(com, shift, Len(rec'))
      /\ ~Receiving(com')
      /\ answers' = [answers EXCEPT ![request] = [how |-> com'.state, text |-> rec']]
  BY ReceiveMoves DEF PromptInv, AnswerInv
<1>2. Alone
  BY <1>1 DEF PromptInv, Rest, Alone
<1>3. answers'[request] = [how |-> com'.state, text |-> rec']
  BY <1>1 DEF PromptInv, AnswerInv, NotYet
<1>4. answers'[request].how # "errTimeout"
  <2> SUFFICES ASSUME com'.state = "errTimeout" PROVE FALSE
    BY <1>3
  <2>1. Receiving(com)
    BY <1>1 DEF PromptInv, AnswerInv, LinkInv, RequestComes
  <2>2. com.state = "recMsb" /\ shift = 0 /\ Impatient(com.cnt)
    BY <1>1, <2>1 DEF Receives, Start, Receiving, Fsms
  <2> QED
    BY <1>1, <2>2, NoTimeOut
<1>5. ~Unanswered
  <2> SUFFICES ASSUME Unanswered PROVE FALSE
    OBVIOUS
  <2>1. shift = 0 /\ rec = <<>> /\ com.state \in {"recSilence", "recMsb"}
    BY <1>1, <1>2 DEF PromptInv, AnswerInv, LineSilent
  <2> QED
    BY <1>4, <2>1, ZeroReceived DEF PromptInv, AnswerInv
<1>6. irqCom.state = "halted"
      /\ (InSilence \/ HighPut \/ HighComes \/ LowPut \/ LowComes \/ TextComes)
  BY <1>2, <1>5 DEF PromptInv, AnswerInv, AnswerComes
<1>7. ~HighComes
  BY ReceiveMoves DEF PromptInv, AnswerInv, HighComes
<1>8. TextComes
  BY <1>4, <1>5, <1>6, <1>7, ReceiveZero, ReceiveBeforeHigh, ReceiveHigh, ReceiveLow
     DEF PromptInv, AnswerInv
<1>9. main = "loop"
      /\ answers'[request] = [how |-> "recOK", text |-> responded[request]]
  BY <1>5, <1>8, ReceiveText DEF PromptInv, AnswerInv
<1> QED
  BY <1>1, <1>3, <1>5, <1>6, <1>9

LEMMA BeginPrompt ==
  ASSUME PromptInv, NEW n \in Lengths, Begin(n)
  PROVE  Rest' /\ InTime' /\ ~Awaited
<1>1. /\ step = "idle" /\ step' = "send" /\ request' = request + 1
      /\ disturbed' = (Awaited \/ main = "reply")
      /\ UNCHANGED <<main, responded, answers>>
  BY DEF Begin, loop
<1>2. main = "loop" /\ irqCom.state = "halted"
  BY <1>1 DEF PromptInv, Rest
<1>3. ~disturbed' /\ ~Awaited
  BY <1>1, <1>2 DEF Awaited
<1>4. \A r \in Requests : r < request' => r < request \/ (r = request /\ step = "idle")
  BY <1>1, LengthsAre DEF PromptInv, AnswerInv, LinkInv, LinkTypes, TypeOK, Requests
<1>5. Rest'
  BY <1>1, <1>3, <1>4 DEF PromptInv, Rest
<1> QED
  BY <1>1, <1>3, <1>5 DEF InTime

LEMMA RestKept ==
  ASSUME Rest, step # "idle", step' # "idle", UNCHANGED <<request, responded, answers, disturbed>>
  PROVE  Rest'
BY DEF Rest

LEMMA SendPrompt ==
  ASSUME PromptInv, SendRequest
  PROVE  Rest' /\ InTime'
<1>1. step = "send" /\ step' \in {"send", "add"} /\ UNCHANGED <<request, responded, answers, disturbed>>
  BY DEF SendRequest, hist
<1> QED
  BY <1>1, RestKept DEF PromptInv, InTime

LEMMA AddClockPrompt ==
  ASSUME LengthsFit, Prompt, PromptInv, LinkInv', AddClock
  PROVE  Rest' /\ InTime'
<1>1. /\ step = "add" /\ step' = "receive" /\ com' = Start("recSilence")
      /\ UNCHANGED <<request, responded, answers, disturbed, cntr>>
      /\ data' = <<>> /\ (Awaited => busy' = busy + 1)
  BY DEF AddClock, hist, Clock, loop
<1>2. com'.state = "recSilence" /\ com'.cnt = 0
  BY <1>1 DEF Start
<1>3. Alone /\ busy \in Nat
  BY <1>1 DEF PromptInv, Rest, Alone, AnswerInv, LinkInv, LinkTypes, TypeOK
<1>4. Unanswered' => com'.cnt + 1 <= busy'
  <2> SUFFICES ASSUME Unanswered' PROVE com'.cnt + 1 <= busy'
    OBVIOUS
  <2>1. Unanswered
    BY <1>1 DEF Unanswered
  <2>2. Awaited
    BY <1>1, <1>3, <2>1, StillAwaited DEF PromptInv, AnswerInv
  <2> QED
    BY <1>1, <1>2, <1>3, <2>2
<1>5. InSilence' => com'.cnt + Zeros' <= MaxDelay + Silence
  <2> SUFFICES ASSUME InSilence' PROVE com'.cnt + Zeros' <= MaxDelay + Silence
    OBVIOUS
  <2>1. main = "reply" /\ data # <<>>
    BY <1>1 DEF InSilence, AddClock, Clock, loop
  <2>2. ~Unanswered
    BY <1>3, <2>1 DEF PromptInv, AnswerInv, LineSilent
  <2>3. InSilence /\ Zeros = Silence + 1
    BY <1>1, <1>3, <2>2 DEF PromptInv, AnswerInv, AnswerComes, InSilence, HighPut, HighComes,
                            LowPut, LowComes, TextComes
  <2>4. Len(data) = 1 /\ Len(data') = 0
    BY <1>1, <2>1, <2>3 DEF InSilence
  <2> DEFINE due == IF cntr.state = "silence" THEN Silence - cntr.cnt ELSE 0
  <2>5. Zeros = 1 + 1 + due /\ Zeros' = 1 + 0 + due
    BY <1>1, <2>4 DEF Zeros
  <2>6. due \in Int /\ MaxDelay \in Nat /\ Silence \in Nat
    BY LengthsAre DEF PromptInv, AnswerInv, LinkInv, LinkTypes, Fsms
  <2> HIDE DEF due
  <2> QED
    BY <1>2, <2>3, <2>5, <2>6
<1>6. ~HighPut' \/ com'.state # "recMsb"
  BY <1>2
<1>7. InTime'
  BY <1>1, <1>2, <1>4, <1>5, <1>6 DEF InTime
<1> QED
  BY <1>1, <1>7, RestKept DEF PromptInv

\* The zeros counted and still to come stay within what the driver accepts.
LEMMA ReceiveInTime ==
  ASSUME LengthsFit, Prompt, PromptInv, LinkInv', ReceiveAnswer, step' = "receive"
  PROVE  InTime'
<1>1. /\ step = "receive" /\ request \in Requests /\ irqCom' = irqCom /\ data' = <<>>
      /\ UNCHANGED <<request, responded, disturbed, main, hold, cntr, reply>>
      /\ main = "reply" => data # <<>>
      /\ com \in Fsms /\ com' \in Fsms /\ com' = Receives(com, shift, Len(rec'))
  BY ReceiveMoves DEF PromptInv, AnswerInv
<1>2. Alone /\ (Awaited => busy' = busy + 1)
  BY <1>1 DEF PromptInv, Rest, Alone, ReceiveAnswer, Clock
<1>3. /\ com.cnt \in Nat /\ com'.cnt \in Nat /\ Silence \in Nat \ {0} /\ busy \in Nat
      /\ MaxDelay \in Nat
  BY <1>1, LengthsAre DEF Fsms, PromptInv, AnswerInv, LinkInv, LinkTypes, TypeOK
<1>4. CASE Unanswered
  <2>1. shift = 0 /\ com.state \in {"recSilence", "recMsb"} /\ main # "reply"
    BY <1>1, <1>2, <1>4 DEF PromptInv, AnswerInv, LineSilent
  <2>2. busy' = busy + 1
    BY <1>1, <1>2, <1>4, StillAwaited DEF PromptInv, AnswerInv
  <2>3. /\ com.state = "recSilence" => com.cnt + 1 <= busy
        /\ com.state = "recMsb" => com.cnt + 1 + Silence <= busy
    BY <1>1, <1>4 DEF PromptInv, InTime
  <2>4. /\ com'.state = "recSilence" => com.state = "recSilence" /\ com'.cnt = com.cnt + 1
        /\ com'.state = "recMsb" =>
             \/ com.state = "recMsb" /\ com'.cnt = com.cnt + 1
             \/ com.state = "recSilence" /\ com'.cnt = 0 /\ com.cnt + 1 >= Silence
    BY <1>1, <2>1, ZeroComes
  <2>5. /\ com'.state = "recSilence" => com'.cnt + 1 <= busy'
        /\ com'.state = "recMsb" => com'.cnt + 1 + Silence <= busy'
    BY <1>3, <2>2, <2>3, <2>4
  <2>6. ~InSilence' /\ ~HighPut'
    BY <1>1, <2>1 DEF InSilence, HighPut
  <2> QED
    BY <2>5, <2>6 DEF InTime
<1>5. CASE ~Unanswered
  <2>1. ~Unanswered' /\ ~HighPut'
    BY <1>1, <1>5 DEF Unanswered, HighPut
  <2>2. ASSUME InSilence'
        PROVE  /\ com'.state = "recSilence" => com'.cnt + Zeros' <= MaxDelay + Silence
               /\ com'.state = "recMsb" => com'.cnt + Zeros' <= MaxDelay
    <3>1. InSilence
      BY <1>1, <1>2, <1>5, <2>2
         DEF PromptInv, AnswerInv, AnswerComes, InSilence, HighPut, HighComes, LowPut,
             LowComes, TextComes
    <3>2. shift = 0 /\ com.state \in {"recSilence", "recMsb"}
      BY <1>1, <3>1 DEF InSilence
    <3>3. Zeros' = Zeros - 1 /\ Zeros \in Nat \ {0}
      BY <3>1, ReceiveZero, ZerosLeft DEF PromptInv, AnswerInv
    <3>4. /\ com.state = "recSilence" => com.cnt + Zeros <= MaxDelay + Silence
          /\ com.state = "recMsb" => com.cnt + Zeros <= MaxDelay
      BY <1>1, <3>1 DEF PromptInv, InTime
    <3>5. /\ com'.state = "recSilence" => com.state = "recSilence" /\ com'.cnt = com.cnt + 1
          /\ com'.state = "recMsb" =>
               \/ com.state = "recMsb" /\ com'.cnt = com.cnt + 1
               \/ com.state = "recSilence" /\ com'.cnt = 0 /\ com.cnt + 1 >= Silence
      BY <1>1, <3>2, ZeroComes
    <3> QED
      BY <1>3, <3>3, <3>4, <3>5
  <2> QED
    BY <2>1, <2>2 DEF InTime
<1> QED
  BY <1>4, <1>5

LEMMA ReceivePrompt ==
  ASSUME LengthsFit, Prompt, PromptInv, LinkInv', ReceiveAnswer
  PROVE  Rest' /\ InTime'
<1>1. /\ step = "receive" /\ request \in Requests /\ step' \in {"receive", "idle"}
      /\ UNCHANGED <<request, responded, disturbed>>
      /\ step' = "receive" => UNCHANGED answers
  BY ReceiveMoves DEF PromptInv, AnswerInv, ReceiveAnswer
<1>2. CASE step' = "receive"
  BY <1>1, <1>2, ReceiveInTime, RestKept DEF PromptInv
<1>3. CASE step' = "idle"
  <2>1. /\ main' = "loop" /\ irqCom'.state = "halted" /\ ~Unanswered
        /\ answers' = [answers EXCEPT ![request] =
                         [how |-> "recOK", text |-> responded[request]]]
    BY <1>3, ReceiveEnds
  <2>2. /\ answers'[request] = [how |-> "recOK", text |-> responded[request]]
        /\ \A r \in Requests : r < request => answers'[r] = answers[r]
    BY <1>1, <2>1 DEF PromptInv, AnswerInv, NotYet, Requests
  <2>3. Rest'
    BY <1>1, <1>3, <2>1, <2>2 DEF PromptInv, Rest, Unanswered
  <2> QED
    BY <1>3, <2>3 DEF InTime
<1> QED
  BY <1>1, <1>2, <1>3

\* A request is taken over and executed in its own exchange.
LEMMA UpdatePrompt ==
  ASSUME PromptInv, Update
  PROVE  Rest' /\ InTime' /\ step # "idle"
<1>1. /\ irqCom.state = "recOK" /\ main' = "work" /\ request \in Requests
      /\ UNCHANGED <<step, request, com, rec, data, shift, responded, answers, disturbed, busy>>
  BY UpdateTakes DEF PromptInv, AnswerInv, Update
<1>2. step # "idle"
  BY <1>1 DEF PromptInv, Rest
<1>3. Rest'
  BY <1>1, <1>2, RestKept DEF PromptInv
<1>4. InTime'
  BY <1>1 DEF PromptInv, InTime, Unanswered, InSilence, HighPut
<1> QED
  BY <1>2, <1>3, <1>4

LEMMA WorkPrompt ==
  ASSUME Prompt, PromptInv, NEW n \in Lengths, Work(n)
  PROVE  /\ Rest' /\ InTime' /\ step # "idle" /\ request \in Requests
         /\ hold[1] = request /\ responded[request] = <<>>
         /\ responded' = [responded EXCEPT ![request] = Text(request, n)]
         /\ Text(request, n) # <<>> /\ UNCHANGED <<request, answers>>
<1>1. /\ main = "work" /\ main' = "reply" /\ cntr' = Start("silence")
      /\ responded' = [responded EXCEPT ![hold[1]] = Text(hold[1], n)]
      /\ UNCHANGED <<step, request, com, data, shift, answers, disturbed, busy>>
  BY DEF Work, master, wire
<1>2. step # "idle" /\ Alone
  BY <1>1 DEF PromptInv, Rest, Alone
<1>3. Unanswered
  BY <1>1, <1>2 DEF PromptInv, AnswerInv, AnswerComes, InSilence, HighPut, HighComes,
                    LowPut, LowComes, TextComes
<1>4. hold[1] = request /\ irqCom.state = "halted" /\ request \in Requests
  BY <1>1, <1>2, <1>3 DEF PromptInv, AnswerInv, LineSilent, LinkInv, RequestComes
<1>5. /\ responded'[request] = Text(request, n)
      /\ \A r \in Requests : r < request => responded'[r] = responded[r]
  BY <1>1, <1>4 DEF PromptInv, AnswerInv, LinkInv, LinkTypes, TypeOK, Requests
<1>6. Text(request, n) # <<>>
  BY <1>4, TextIs, LengthsAre
<1>7. Rest'
  BY <1>1, <1>2, <1>5 DEF PromptInv, Rest
<1>8. ASSUME step = "receive"
      PROVE  /\ com.state = "recSilence" => com.cnt + Zeros' <= MaxDelay + Silence
             /\ com.state = "recMsb" => com.cnt + Zeros' <= MaxDelay
  <2>1. /\ com.state = "recSilence" => com.cnt + 1 <= busy
        /\ com.state = "recMsb" => com.cnt + 1 + Silence <= busy
    BY <1>3, <1>8 DEF PromptInv, InTime
  <2>2. busy <= MaxDelay /\ busy \in Nat /\ com.cnt \in Nat /\ MaxDelay \in Nat
        /\ Silence \in Nat
    BY LengthsAre DEF PromptInv, AnswerInv, LinkInv, LinkTypes, TypeOK, Fsms
  <2>3. data' = <<>> /\ Len(data') = 0
    BY <1>1, <1>2, <1>3, <1>8 DEF PromptInv, AnswerInv, LineSilent
  <2>4. Zeros' = 1 + Silence
    <3>1. cntr'.state = "silence" /\ cntr'.cnt = 0
      BY <1>1 DEF Start
    <3> QED
      BY <2>2, <2>3, <3>1 DEF Zeros
  <2> QED
    BY <2>1, <2>2, <2>4
<1>9. InTime'
  <2>1. ~Unanswered' /\ ~HighPut'
    BY <1>1, <1>5, <1>6 DEF Unanswered, HighPut, Start
  <2> QED
    BY <1>1, <1>8, <2>1 DEF InTime
<1> QED
  BY <1>1, <1>2, <1>3, <1>4, <1>6, <1>7, <1>9 DEF Unanswered

LEMMA ReplyPrompt ==
  ASSUME PromptInv, LinkInv', Reply
  PROVE  Rest' /\ InTime'
<1>1. /\ main = "reply" /\ data = <<>>
      /\ UNCHANGED <<step, request, com, rec, shift, irqCom, responded, answers, disturbed, busy>>
  BY DEF Reply, master, irq, hist
<1>2. step # "idle" /\ Alone
  BY <1>1 DEF PromptInv, Rest, Alone
<1>3. Rest'
  BY <1>1, <1>2, RestKept DEF PromptInv
<1>4. ~Unanswered
  BY <1>1, <1>2 DEF PromptInv, AnswerInv, LineSilent
<1>5. InSilence \/ HighComes \/ LowComes \/ TextComes
  BY <1>1, <1>2, <1>4 DEF PromptInv, AnswerInv, AnswerComes, HighPut, LowPut
<1>6. CASE InSilence
  <2>1. (InSilence' /\ Zeros' = Zeros) \/ (HighPut' /\ Zeros = 1)
    BY <1>2, <1>6, ReplySilence DEF PromptInv, AnswerInv
  <2>2. ~(InSilence' /\ HighPut')
    BY DEF InSilence, HighPut
  <2> QED
    BY <1>1, <1>3, <1>4, <1>6, <2>1, <2>2 DEF PromptInv, InTime, Unanswered
<1>7. CASE HighComes \/ LowComes \/ TextComes
  <2>1. cntr'.state = "body" \/ main' = "loop"
    <3>1. cntr.state \in {"lsb", "body"}
      BY <1>1, <1>7 DEF HighComes, LowComes, TextComes
    <3> QED
      BY <3>1 DEF Reply, Sends, Start
  <2>2. ~InSilence' /\ ~HighPut'
    BY <2>1 DEF InSilence, HighPut
  <2> QED
    BY <1>1, <1>3, <1>4, <2>2 DEF InTime, Unanswered
<1> QED
  BY <1>5, <1>6, <1>7

LEMMA NeverGivesUp ==
  ASSUME Prompt, PromptInv
  PROVE  ~GiveUp
<1>1. stalls = 0 /\ MaxStalls = 0
  BY DEF Prompt, PromptInv, AnswerInv, LinkInv, LinkTypes, TypeOK
<1>2. main = "reply" => step # "idle"
  BY DEF PromptInv, Rest
<1> QED
  BY <1>1, <1>2 DEF GiveUp

LEMMA StandsPrompt ==
  ASSUME PromptInv, UNCHANGED vars
  PROVE  Rest' /\ InTime'
<1>1. UNCHANGED <<step, request, com, rec, data, shift, irqCom, main, hold, cntr, reply, busy,
                  responded, answers, disturbed>>
  BY DEF vars, master, wire, irq, loop, hist
<1>2. Zeros' = Zeros /\ High' = High
  BY <1>1 DEF Zeros, High
<1>3. InSilence' = InSilence /\ HighPut' = HighPut /\ Unanswered' = Unanswered
  BY <1>1, <1>2 DEF InSilence, HighPut, Unanswered
<1> QED
  BY <1>1, <1>2, <1>3 DEF PromptInv, Rest, InTime

LEMMA PromptInvariant ==
  ASSUME LengthsFit, Prompt
  PROVE  /\ Init => PromptInv
         /\ PromptInv /\ [Next]_vars => PromptInv'
<1>1. Init => PromptInv
  <2> SUFFICES ASSUME Init PROVE Rest /\ InTime
    BY AnswerInvariant DEF PromptInv
  <2> QED
    BY DEF Init, Start, Rest, InTime, Requests
<1>2. ASSUME PromptInv, [Next]_vars PROVE PromptInv'
  <2>1. AnswerInv' /\ LinkInv'
    BY <1>2, AnswerInvariant DEF PromptInv, AnswerInv
  <2> SUFFICES Rest' /\ InTime'
    BY <2>1 DEF PromptInv
  <2>2. ASSUME NEW n \in Lengths, Begin(n) PROVE Rest' /\ InTime'
    BY <1>2, <2>2, BeginPrompt
  <2>3. CASE DriverStep
    BY <1>2, <2>1, <2>3, SendPrompt, AddClockPrompt, ReceivePrompt DEF DriverStep
  <2>4. ASSUME NEW n \in Lengths, Work(n) PROVE Rest' /\ InTime'
    BY <1>2, <2>4, WorkPrompt
  <2>5. CASE Update \/ Reply \/ GiveUp
    BY <1>2, <2>1, <2>5, UpdatePrompt, ReplyPrompt, NeverGivesUp
  <2>6. CASE UNCHANGED vars
    BY <1>2, <2>6, StandsPrompt
  <2> QED
    BY <1>2, <2>2, <2>3, <2>4, <2>5, <2>6 DEF Next, FirmwareStep
<1> QED
  BY <1>1, <1>2

-----------------------------------------------------------------------------
\* A driver that does not pause and a firmware that is not slower than it is
\* patient: every request that fits the buffer gets the answer the firmware gave
\* to it (Bcm_spi::execute(), CSPIcomm::Update() and send()).
THEOREM AnswersComeBack ==
  ASSUME LengthsFit, Prompt
  PROVE  Spec => []EveryRequestAnswered
<1>1. PromptInv => EveryRequestAnswered
  <2> SUFFICES ASSUME PromptInv, NEW r \in Requests, Done(r) PROVE Answered(r)
    BY DEF EveryRequestAnswered
  <2>1. request \in Int /\ r \in Int
    BY DEF PromptInv, AnswerInv, LinkInv, LinkTypes, TypeOK, Requests
  <2>2. ~(r > request) /\ ~(r = request /\ step # "idle")
    BY DEF Done, PromptInv, AnswerInv, NotYet, None
  <2>3. r < request \/ (r = request /\ step = "idle")
    BY <2>1, <2>2
  <2> QED
    BY <2>3 DEF PromptInv, Rest, Answered
<1> QED
  BY <1>1, PromptInvariant, PTL DEF Spec

\* The steps of the link that the call does not see.
LEMMA CallStands ==
  ASSUME UNCHANGED <<request, responded, answers>>
  PROVE  UNCHANGED Call!vars
BY DEF Call!vars

\* The characters the two flow controls exchange amount to a remote call: each
\* request is executed once while it is in progress, by Work, and its exchange
\* returns what was answered.
THEOREM LinkImplementsCall ==
  ASSUME LengthsFit, Prompt
  PROVE  Spec => ImplementsCall
<1>1. Init => Call!Init
  BY DEF Init, Call!Init, Given
<1>2. ASSUME PromptInv, PromptInv', [Next]_vars
      PROVE  [Call!Next]_(Call!vars)
  <2>1. ASSUME NEW n \in Lengths, Begin(n) PROVE [Call!Next]_(Call!vars)
    <3>1. /\ step = "idle" /\ request' = request + 1 /\ request' \in Requests
          /\ UNCHANGED <<responded, answers>>
      BY <1>2, <2>1, LengthsAre
         DEF Begin, PromptInv, AnswerInv, LinkInv, LinkTypes, TypeOK, Requests
    <3>2. request \in Requests => Given(answers[request].text) # {}
      <4>1. request \in Requests =>
              answers[request] = [how |-> "recOK", text |-> responded[request]]
              /\ responded[request] # <<>>
        BY <1>2, <3>1 DEF PromptInv, Rest
      <4> QED
        BY <4>1 DEF Given
    <3>3. ~Call!InProgress
      BY <3>2 DEF Call!InProgress
    <3>4. Call!Make
      BY <3>1, <3>3 DEF Call!Make
    <3> QED
      BY <3>4 DEF Call!Next
  <2>2. CASE SendRequest \/ AddClock
    BY <2>2, CallStands DEF SendRequest, AddClock, hist
  <2>3. CASE ReceiveAnswer
    <3>1. /\ step = "receive" /\ request \in Requests /\ step' \in {"receive", "idle"}
          /\ UNCHANGED <<request, responded>>
          /\ step' = "receive" => UNCHANGED answers
      BY <1>2, <2>3, ReceiveMoves DEF PromptInv, AnswerInv, ReceiveAnswer
    <3>2. CASE step' = "receive"
      BY <3>1, <3>2, CallStands
    <3>3. CASE step' = "idle"
      <4>1. /\ ~Unanswered
            /\ answers' = [answers EXCEPT ![request] =
                             [how |-> "recOK", text |-> responded[request]]]
        BY <1>2, <2>3, <3>3, ReceiveEnds DEF PromptInv, AnswerInv
      <4>2. /\ answers'[request].text = responded[request]
            /\ \A r \in Requests : r # request => answers'[r] = answers[r]
            /\ answers[request].text = <<>>
        BY <1>2, <3>1, <4>1 DEF PromptInv, AnswerInv, NotYet, None
      <4>3. Call!InProgress
        BY <3>1, <4>2 DEF Call!InProgress, Given
      <4>4. Given(responded[request]) # {}
        BY <4>1 DEF Given, Unanswered
      <4>5. [r \in Requests |-> Given(answers'[r].text)]
              = [[r \in Requests |-> Given(answers[r].text)]
                   EXCEPT ![request] = Given(responded[request])]
        BY <3>1, <4>2
      <4>6. Call!Return
        BY <3>1, <4>3, <4>4, <4>5 DEF Call!Return
      <4> QED
        BY <4>6 DEF Call!Next
    <3> QED
      BY <3>1, <3>2, <3>3
  <2>4. CASE Update
    BY <2>4, CallStands DEF Update, master, hist
  <2>5. ASSUME NEW n \in Lengths, Work(n) PROVE [Call!Next]_(Call!vars)
    <3>1. /\ step # "idle" /\ request \in Requests /\ responded[request] = <<>>
          /\ responded' = [responded EXCEPT ![request] = Text(request, n)]
          /\ Text(request, n) # <<>> /\ UNCHANGED <<request, answers>>
      BY <1>2, <2>5, WorkPrompt
    <3>2. answers[request].text = <<>>
      BY <1>2, <3>1 DEF PromptInv, AnswerInv, NotYet, None
    <3>3. Call!InProgress
      BY <3>1, <3>2 DEF Call!InProgress, Given
    <3>4. responded \in [Requests -> Seq(Requests)]
      BY <1>2 DEF PromptInv, AnswerInv, LinkInv, LinkTypes, TypeOK
    <3>5. [r \in Requests |-> Given(responded'[r])]
            = [[r \in Requests |-> Given(responded[r])] EXCEPT ![request] = {Text(request, n)}]
      BY <3>1, <3>4 DEF Given
    <3>6. Call!Execute(Text(request, n))
      BY <3>1, <3>3, <3>5 DEF Call!Execute, Given
    <3>7. Text(request, n) \in {Text(r, k) : r \in Requests, k \in Lengths}
      BY <3>1
    <3> QED
      BY <3>6, <3>7 DEF Call!Next
  <2>6. CASE Reply
    BY <2>6, CallStands DEF Reply, master, hist
  <2>7. CASE GiveUp
    BY <1>2, <2>7, NeverGivesUp
  <2>8. CASE UNCHANGED vars
    BY <2>8, CallStands DEF vars, master, hist
  <2> QED
    BY <1>2, <2>1, <2>2, <2>3, <2>4, <2>5, <2>6, <2>7, <2>8
       DEF Next, DriverStep, FirmwareStep
<1> QED
  BY <1>1, <1>2, PromptInvariant, PTL DEF Spec, ImplementsCall, Call!Spec

-----------------------------------------------------------------------------
(* The two receive buffers, of any size, and any sinks                      *)

Buffers == [block : {1, 2}, read : Nat, write : 0 .. FifoSize]

FifoTypes ==
  /\ fifoMemory \in [{1, 2} -> [0 .. (FifoSize - 1) -> Int]]
  /\ fifoRec \in Buffers /\ fifoRec.read = 0
  /\ fifoHold \in Buffers /\ fifoHold.read <= fifoHold.write
  /\ fifoFrame \in Seq(Int) /\ fifoDue \in 0 .. Len(fifoFrame) /\ fifoComplete \in BOOLEAN
  /\ fifoTaken \in Seq(Int) /\ fifoSinks \subseteq FifoSinks /\ fifoAlive \subseteq FifoSinks
  /\ fifoHeard \in [FifoSinks -> Seq(Int)]

\* The interrupt routine and the main loop never share memory.
Apart == fifoRec.block # fifoHold.block

\* The first n characters of a frame are in a block.
HasFirst(n, frame, block) == \A i \in 1 .. n : fifoMemory[block][i - 1] = frame[i]

\* What has come of a frame that fits is in the buffer of the interrupt routine.
ComesIn ==
  /\ fifoComplete => fifoDue = 0
  /\ (fifoDue > 0 \/ fifoComplete) /\ Len(fifoFrame) <= FifoSize =>
       /\ fifoRec.write = Len(fifoFrame) - fifoDue
       /\ HasFirst(fifoRec.write, fifoFrame, fifoRec.block)

\* A frame that was taken and fits is in the main loop's buffer as a whole.
IsTaken ==
  Len(fifoTaken) <= FifoSize =>
    /\ fifoHold.write = Len(fifoTaken)
    /\ HasFirst(fifoHold.write, fifoTaken, fifoHold.block)

\* A sink was given what the main loop has read of it.
GivenFirst(s, n) ==
  Len(fifoHeard[s]) = n /\ \A i \in 1 .. n : fifoHeard[s][i] = fifoTaken[i]

\* The sinks that have heard of the frame are those that are still in the list.
AllGiven ==
  Len(fifoTaken) <= FifoSize =>
    \A s \in fifoAlive:
      /\ fifoHeard[s] # <<>> => s \in fifoSinks /\ GivenFirst(s, fifoHold.read)
      /\ s \in fifoSinks /\ Available(fifoHold) # 0 => GivenFirst(s, fifoHold.read)

FifoInv == FifoTypes /\ Apart /\ ComesIn /\ IsTaken /\ AllGiven

-----------------------------------------------------------------------------
LEMMA FramesAreSequences ==
  ASSUME FifoAssumption, NEW frame \in Frames
  PROVE  frame \in Seq(Int) /\ Len(frame) \in Nat \ {0}
<1>1. PICK n \in 1 .. FifoMaxFrame, c \in {0, FifoMaxFrame} : frame = [i \in 1 .. n |-> c + i]
  BY DEF Frames
<1>2. n \in Nat /\ c \in Int
  BY DEF FifoAssumption
<1>3. frame \in [1 .. n -> Int]
  BY <1>1, <1>2
<1>4. frame \in Seq(Int) /\ Len(frame) = n
  BY <1>2, <1>3
<1> QED BY <1>4

LEMMA FifoInitially ==
  ASSUME FifoAssumption, FifoInit
  PROVE  FifoInv
<1>1. FifoTypes
  <2>1. fifoMemory \in [{1, 2} -> [0 .. (FifoSize - 1) -> Int]]
    BY DEF FifoInit
  <2>2. fifoRec \in Buffers /\ fifoHold \in Buffers /\ fifoRec.read = 0 /\ fifoHold.read = 0
        /\ fifoHold.write = 0
    BY DEF FifoAssumption, FifoInit, Buffers, FifoEmpty
  <2>3. fifoHeard \in [FifoSinks -> Seq(Int)]
    BY DEF FifoInit
  <2>4. fifoFrame \in Seq(Int) /\ fifoDue \in 0 .. Len(fifoFrame) /\ fifoTaken \in Seq(Int)
    BY DEF FifoInit
  <2>5. fifoComplete \in BOOLEAN /\ fifoSinks \subseteq FifoSinks /\ fifoAlive \subseteq FifoSinks
    BY DEF FifoInit
  <2> QED BY <2>1, <2>2, <2>3, <2>4, <2>5 DEF FifoTypes
<1>2. Apart /\ ComesIn /\ IsTaken
  BY DEF FifoInit, Apart, ComesIn, IsTaken, HasFirst, FifoEmpty
<1>3. AllGiven
  BY DEF FifoInit, AllGiven, FifoEmpty
<1> QED BY <1>1, <1>2, <1>3 DEF FifoInv

LEMMA FrameBeginsStep ==
  ASSUME FifoAssumption, FifoInv, FrameBegins
  PROVE  FifoInv'
<1> USE DEF FifoInv
<1>1. PICK frame \in Frames :
        /\ fifoRec' = FifoEmpty(fifoRec.block)
        /\ fifoFrame' = frame /\ fifoDue' = Len(frame) /\ fifoComplete' = FALSE
        /\ UNCHANGED <<fifoMemory, fifoHold, fifoMain>>
  BY DEF FrameBegins
<1>2. frame \in Seq(Int) /\ Len(frame) \in Nat \ {0}
  BY FramesAreSequences
<1>3. fifoRec' = [block |-> fifoRec.block, read |-> 0, write |-> 0]
  BY <1>1 DEF FifoEmpty
<1>4. FifoTypes'
  <2>1. fifoRec' \in Buffers /\ fifoRec'.read = 0
    BY <1>3 DEF FifoTypes, Buffers, FifoAssumption
  <2>2. fifoHold' \in Buffers /\ fifoHold'.read <= fifoHold'.write
    BY <1>1 DEF FifoTypes, Buffers
  <2>3. fifoFrame' \in Seq(Int) /\ fifoDue' = Len(fifoFrame') /\ Len(fifoFrame') \in Nat
    BY <1>1, <1>2, Zenon
  <2>4. fifoDue' \in 0 .. Len(fifoFrame')
    BY <2>3
  <2>5. fifoComplete' \in BOOLEAN
    BY <1>1
  <2> QED BY <1>1, <2>1, <2>2, <2>3, <2>4, <2>5 DEF FifoTypes, fifoMain
<1>5. Apart'
  BY <1>1, <1>3 DEF Apart
<1>6. ComesIn'
  BY <1>1, <1>2, <1>3 DEF ComesIn, HasFirst
<1>7. IsTaken'
  BY <1>1 DEF IsTaken, HasFirst, fifoMain
<1>8. AllGiven'
  BY <1>1 DEF AllGiven, GivenFirst, fifoMain
<1> QED BY <1>4, <1>5, <1>6, <1>7, <1>8

LEMMA FrameCharacterStep ==
  ASSUME FifoAssumption, FifoInv, FrameCharacter
  PROVE  FifoInv'
<1> USE DEF FifoInv
<1> DEFINE at == WriteAt(fifoRec)
           ch == fifoFrame[Len(fifoFrame) - fifoDue + 1]
           block == fifoRec.block
<1>1. /\ fifoDue \in 1 .. Len(fifoFrame) /\ Len(fifoFrame) \in Nat
      /\ block \in {1, 2} /\ at \in 0 .. (FifoSize - 1) /\ ch \in Int
  <2>1. fifoDue \in 1 .. Len(fifoFrame) /\ Len(fifoFrame) \in Nat
    BY DEF FrameCharacter, FifoTypes
  <2>2. ch \in Int
    BY <2>1 DEF FifoTypes
  <2>3. block \in {1, 2} /\ at \in 0 .. (FifoSize - 1)
    BY DEF FifoTypes, Buffers, WriteAt, FifoAssumption
  <2> QED BY <2>1, <2>2, <2>3
<1>2. /\ fifoMemory' = [fifoMemory EXCEPT ![block][at] = ch]
      /\ fifoRec' = [fifoRec EXCEPT !.write = at + 1]
      /\ fifoDue' = fifoDue - 1 /\ fifoComplete' = (fifoDue = 1)
      /\ UNCHANGED <<fifoHold, fifoFrame, fifoMain>>
  BY DEF FrameCharacter
<1>3. FifoTypes'
  <2>1. fifoMemory' \in [{1, 2} -> [0 .. (FifoSize - 1) -> Int]]
    BY <1>1, <1>2 DEF FifoTypes
  <2>2. fifoRec' \in Buffers /\ fifoRec'.read = 0
    <3>1. at + 1 \in 0 .. FifoSize
      BY <1>1 DEF FifoAssumption
    <3> HIDE DEF at
    <3> QED BY <1>2, <3>1 DEF FifoTypes, Buffers
  <2>3. fifoDue' \in 0 .. Len(fifoFrame') /\ fifoComplete' \in BOOLEAN
    BY <1>1, <1>2
  <2> QED BY <1>2, <2>1, <2>2, <2>3 DEF FifoTypes, fifoMain
<1>4. fifoRec'.block = block /\ fifoRec'.write = at + 1
  BY <1>2 DEF FifoTypes, Buffers
<1>5. Apart'
  BY <1>2, <1>4 DEF Apart
<1>6. /\ fifoMemory'[block][at] = ch
      /\ \A j \in 0 .. (FifoSize - 1) : j # at => fifoMemory'[block][j] = fifoMemory[block][j]
      /\ fifoMemory'[fifoHold.block] = fifoMemory[fifoHold.block]
  BY <1>1, <1>2 DEF FifoTypes, Apart, Buffers
<1>7. ASSUME Len(fifoFrame) <= FifoSize
      PROVE  /\ at = fifoRec.write
             /\ fifoRec'.write = Len(fifoFrame') - fifoDue'
             /\ HasFirst(fifoRec.write, fifoFrame, fifoRec.block)'
  <2>1. fifoRec.write = Len(fifoFrame) - fifoDue /\ HasFirst(fifoRec.write, fifoFrame, block)
    BY <1>1, <1>7 DEF ComesIn
  <2>2. at = fifoRec.write
    BY <1>1, <1>7, <2>1 DEF WriteAt, FifoAssumption
  <2>3. ASSUME NEW i \in 1 .. (at + 1) PROVE fifoMemory'[block][i - 1] = fifoFrame[i]
    <3>1. CASE i = at + 1
      BY <1>1, <1>6, <2>1, <2>2, <3>1
    <3>2. CASE i # at + 1
      <4>1. i \in 1 .. at /\ i - 1 \in 0 .. (FifoSize - 1) /\ i - 1 # at
        BY <1>1, <3>2 DEF FifoAssumption
      <4> QED BY <1>6, <2>1, <2>2, <4>1 DEF HasFirst
    <3> QED BY <3>1, <3>2
  <2>4. fifoFrame' = fifoFrame
    BY <1>2
  <2> QED BY <1>1, <1>2, <1>4, <2>1, <2>2, <2>3, <2>4 DEF HasFirst
<1>8. ComesIn'
  <2>1. fifoComplete' => fifoDue' = 0
    <3>1. fifoComplete' => fifoDue = 1
      BY <1>2, Zenon
    <3>2. fifoDue' = fifoDue - 1
      BY <1>2
    <3> QED BY <3>1, <3>2
  <2>2. fifoFrame' = fifoFrame
    BY <1>2
  <2>3. Len(fifoFrame') <= FifoSize =>
          fifoRec'.write = Len(fifoFrame') - fifoDue' /\ HasFirst(fifoRec.write, fifoFrame, fifoRec.block)'
    BY <1>7, <2>2
  <2> QED BY <2>1, <2>3 DEF ComesIn
<1>9. IsTaken'
  BY <1>2, <1>6 DEF IsTaken, HasFirst, fifoMain
<1>10. AllGiven'
  BY <1>2 DEF AllGiven, GivenFirst, fifoMain
<1> QED BY <1>3, <1>5, <1>8, <1>9, <1>10

LEMMA TakeFrameStep ==
  ASSUME FifoAssumption, FifoInv, TakeFrame
  PROVE  FifoInv'
<1> USE DEF FifoInv
<1>1. /\ fifoComplete
      /\ fifoRec' = [block |-> fifoHold.block, read |-> 0, write |-> 0]
      /\ fifoHold' = [block |-> fifoRec.block, read |-> fifoRec.read, write |-> fifoRec.write]
      /\ fifoComplete' = FALSE
      /\ fifoTaken' = fifoFrame /\ fifoHeard' = [s \in FifoSinks |-> <<>>]
      /\ UNCHANGED <<fifoMemory, fifoFrame, fifoDue, fifoSinks, fifoAlive>>
  BY DEF TakeFrame, Dumped
<1>2. fifoDue = 0 /\ Len(fifoFrame) \in Nat
  BY <1>1 DEF ComesIn, FifoTypes
<1>3. FifoTypes'
  <2>1. fifoRec' \in Buffers /\ fifoRec'.read = 0
    BY <1>1 DEF FifoTypes, Buffers, FifoAssumption
  <2>2. fifoHold' \in Buffers /\ fifoHold'.read <= fifoHold'.write
    BY <1>1 DEF FifoTypes, Buffers, FifoAssumption
  <2>3. fifoHeard' \in [FifoSinks -> Seq(Int)]
    BY <1>1
  <2>4. fifoComplete' \in BOOLEAN
    BY <1>1
  <2> QED BY <1>1, <2>1, <2>2, <2>3, <2>4 DEF FifoTypes
<1>4. Apart'
  BY <1>1 DEF Apart
<1>5. ComesIn'
  BY <1>1, <1>2 DEF ComesIn
<1>6. IsTaken'
  BY <1>1, <1>2 DEF IsTaken, ComesIn, HasFirst
<1>7. AllGiven'
  <2> SUFFICES ASSUME NEW s \in fifoAlive PROVE fifoHeard'[s] = <<>> /\ GivenFirst(s, fifoHold.read)'
    BY <1>1 DEF AllGiven
  <2>1. s \in FifoSinks
    BY DEF FifoTypes
  <2>2. fifoHeard'[s] = <<>> /\ fifoHold'.read = 0
    BY <1>1, <2>1 DEF FifoTypes
  <2> QED BY <2>2 DEF GivenFirst
<1> QED BY <1>3, <1>4, <1>5, <1>6, <1>7

LEMMA HandOverStep ==
  ASSUME FifoAssumption, FifoInv, HandOver
  PROVE  FifoInv'
<1> USE DEF FifoInv
<1> DEFINE ch == fifoMemory[fifoHold.block][fifoHold.read]
<1>1. /\ Available(fifoHold) # 0
      /\ fifoSinks' = fifoSinks \cap fifoAlive
      /\ fifoHeard' = [s \in FifoSinks |->
           IF s \in fifoSinks' THEN Append(fifoHeard[s], ch) ELSE fifoHeard[s]]
      /\ fifoHold' = [fifoHold EXCEPT !.read = @ + 1]
      /\ UNCHANGED <<fifoMemory, fifoRec, fifoIrq, fifoTaken, fifoAlive>>
  BY DEF HandOver
<1>2. /\ fifoHold.read \in Nat /\ fifoHold.write \in 0 .. FifoSize
      /\ fifoHold.read < fifoHold.write /\ fifoHold.block \in {1, 2}
  BY <1>1 DEF FifoTypes, Buffers, Available, FifoAssumption
<1>3. ch \in Int
  BY <1>2 DEF FifoTypes, FifoAssumption
<1>4. /\ fifoHold'.block = fifoHold.block /\ fifoHold'.write = fifoHold.write
      /\ fifoHold'.read = fifoHold.read + 1
      /\ fifoHold' \in Buffers
  <2> fifoHold \in Buffers
    BY DEF FifoTypes
  <2>1. fifoHold.read + 1 \in Nat
    BY <1>2
  <2> QED BY <1>1, <2>1 DEF Buffers
<1>5. FifoTypes'
  <2>1. fifoHeard' \in [FifoSinks -> Seq(Int)]
    BY <1>1, <1>3 DEF FifoTypes
  <2>2. fifoHold'.read <= fifoHold'.write
    BY <1>2, <1>4 DEF FifoAssumption
  <2> QED BY <1>1, <1>4, <2>1, <2>2 DEF FifoTypes, fifoIrq
<1>6. Apart'
  BY <1>1, <1>4 DEF Apart
<1>7. ComesIn'
  BY <1>1 DEF ComesIn, HasFirst, fifoIrq
<1>8. IsTaken'
  BY <1>1, <1>4 DEF IsTaken, HasFirst
<1>9. AllGiven'
  <2> SUFFICES ASSUME Len(fifoTaken) <= FifoSize, NEW s \in fifoAlive
               PROVE  /\ fifoHeard'[s] # <<>> => s \in fifoSinks' /\ GivenFirst(s, fifoHold.read)'
                      /\ s \in fifoSinks' => GivenFirst(s, fifoHold.read)'
    BY <1>1 DEF AllGiven
  <2>1. s \in FifoSinks /\ fifoHeard[s] \in Seq(Int)
    BY DEF FifoTypes
  <2>2. CASE s \notin fifoSinks
    BY <1>1, <2>1, <2>2 DEF AllGiven
  <2>3. CASE s \in fifoSinks
    <3>1. s \in fifoSinks' /\ fifoHeard'[s] = Append(fifoHeard[s], ch)
      BY <1>1, <2>1, <2>3
    <3>2. GivenFirst(s, fifoHold.read)
      BY <1>1, <2>3 DEF AllGiven
    <3>3. ch = fifoTaken[fifoHold.read + 1]
      BY <1>2 DEF IsTaken, HasFirst
    <3>4. /\ Len(Append(fifoHeard[s], ch)) = fifoHold.read + 1
          /\ \A i \in 1 .. (fifoHold.read + 1) : Append(fifoHeard[s], ch)[i] = fifoTaken[i]
      BY <1>2, <1>3, <2>1, <3>2, <3>3 DEF GivenFirst
    <3> QED BY <1>1, <1>4, <3>1, <3>4 DEF GivenFirst
  <2> QED BY <2>2, <2>3
<1> QED BY <1>5, <1>6, <1>7, <1>8, <1>9

LEMMA SinksStep ==
  ASSUME FifoAssumption, FifoInv, AdviseSink \/ LetGo
  PROVE  FifoInv'
<1> USE DEF FifoInv
<1>1. CASE AdviseSink
  <2>1. PICK s \in fifoAlive :
          /\ Available(fifoHold) = 0 /\ fifoSinks' = fifoSinks \cup {s}
          /\ UNCHANGED <<fifoMemory, fifoRec, fifoHold, fifoIrq, fifoTaken, fifoAlive, fifoHeard>>
    BY <1>1 DEF AdviseSink
  <2>2. FifoTypes' /\ Apart' /\ ComesIn' /\ IsTaken'
    BY <2>1 DEF FifoTypes, Apart, ComesIn, IsTaken, HasFirst, fifoIrq
  <2>3. AllGiven'
    BY <2>1 DEF AllGiven, GivenFirst, Available
  <2> QED BY <2>2, <2>3
<1>2. CASE LetGo
  <2>1. PICK s \in fifoAlive :
          /\ fifoAlive' = fifoAlive \ {s}
          /\ UNCHANGED <<fifoMemory, fifoRec, fifoHold, fifoIrq, fifoTaken, fifoSinks, fifoHeard>>
    BY <1>2 DEF LetGo
  <2>2. FifoTypes' /\ Apart' /\ ComesIn' /\ IsTaken'
    BY <2>1 DEF FifoTypes, Apart, ComesIn, IsTaken, HasFirst, fifoIrq
  <2>3. AllGiven'
    BY <2>1 DEF AllGiven, GivenFirst, Available
  <2> QED BY <2>2, <2>3
<1> QED BY <1>1, <1>2

LEMMA FifoStands ==
  ASSUME FifoInv, UNCHANGED fifoVars
  PROVE  FifoInv'
BY DEF FifoInv, FifoTypes, Apart, ComesIn, IsTaken, AllGiven, HasFirst, GivenFirst,
       Available, fifoVars, fifoBuffers, fifoIrq, fifoMain

LEMMA FifoImplies ==
  ASSUME FifoAssumption, FifoInv
  PROVE  FramesHandedOver
<1> SUFFICES ASSUME Len(fifoTaken) <= FifoSize, NEW s \in fifoAlive, fifoHeard[s] # <<>>
             PROVE  /\ fifoHeard[s] = SubSeq(fifoTaken, 1, Len(fifoHeard[s]))
                    /\ Available(fifoHold) = Len(fifoTaken) - Len(fifoHeard[s])
  BY DEF FramesHandedOver
<1>1. /\ fifoHold.read \in Nat /\ fifoHold.write = Len(fifoTaken)
      /\ fifoHold.read <= Len(fifoTaken)
      /\ fifoTaken \in Seq(Int) /\ fifoHeard[s] \in Seq(Int)
  BY DEF FifoInv, FifoTypes, Buffers, IsTaken
<1>2. GivenFirst(s, fifoHold.read)
  BY DEF FifoInv, AllGiven
<1>3. fifoHeard[s] = SubSeq(fifoTaken, 1, Len(fifoHeard[s]))
  BY <1>1, <1>2 DEF GivenFirst
<1> QED BY <1>1, <1>2, <1>3 DEF GivenFirst, Available

-----------------------------------------------------------------------------
(* What the main loop hands over is the frame it has taken, in order and     *)
(* completely, to every sink that is held (CSPIcomm::Update, CFIFOlt), while *)
(* the interrupt routine receives frames of any length. *)
THEOREM FramesHandedOn ==
  ASSUME FifoAssumption
  PROVE  FifoSpec => []FramesHandedOver
<1>1. FifoInit => FifoInv
  BY FifoInitially
<1>2. FifoInv /\ [FifoNext]_fifoVars => FifoInv'
  BY FrameBeginsStep, FrameCharacterStep, TakeFrameStep, HandOverStep, SinksStep, FifoStands
     DEF FifoNext
<1>3. FifoInv => FramesHandedOver
  BY FifoImplies
<1> QED BY <1>1, <1>2, <1>3, PTL DEF FifoSpec
=============================================================================
