---------------------------- MODULE RecordStream ----------------------------
(***************************************************************************)
(* What the measurement promises to a data handler, whatever threads and   *)
(* buffers are in between: a first-in first-out stream of the data sets    *)
(* the board produced.  A data set that has arrived enters the stream at   *)
(* once or never: it is refused, and counted, only when at least Capacity  *)
(* data sets are on their way.  What has entered is handed over, or thrown *)
(* away after the measurement was told to stop.  Nothing is reordered,     *)
(* duplicated, invented, or handed to the handler of another session.      *)
(***************************************************************************)
EXTENDS Integers, Sequences

CONSTANTS Sessions, Capacity

VARIABLES
  on,       \* the measurement has not been told to stop
  arrived,  \* the data set <<session, number>> that has just arrived, if any
  stream,   \* data sets on their way, the oldest first
  lost,     \* lost[s]: data sets refused in session s
  out       \* out[s]: data sets handed over in session s

streamVars == <<on, arrived, stream, lost, out>>

Init ==
  /\ on = FALSE /\ arrived = <<>> /\ stream = <<>>
  /\ lost = [s \in Sessions |-> 0]
  /\ out = [s \in Sessions |-> <<>>]

Behind(rows, row) ==
  \A i \in DOMAIN rows : rows[i][1] = row[1] => rows[i][2] < row[2]

\* Nothing of an earlier session is on its way when one begins.
Start ==
  /\ ~on /\ on' = TRUE
  /\ stream = <<>> /\ arrived = <<>>
  /\ UNCHANGED <<arrived, stream, lost, out>>

Stop ==
  /\ on /\ on' = FALSE
  /\ UNCHANGED <<arrived, stream, lost, out>>

\* A data set arrives behind all that is on its way or was handed over.
Arrive ==
  \E s \in Sessions :
    /\ arrived = <<>> /\ arrived' # <<>>
    /\ LET row == arrived'[1] IN
       /\ arrived' = <<row>>
       /\ row[1] = s /\ row[2] \in Nat
       /\ Behind(stream, row) /\ Behind(out[s], row)
    /\ UNCHANGED <<on, stream, lost, out>>

Enter ==
  /\ arrived # <<>> /\ arrived' = <<>>
  /\ stream' = stream \o arrived
  /\ UNCHANGED <<on, lost, out>>

Refuse ==
  /\ arrived # <<>> /\ arrived' = <<>>
  /\ Len(stream) >= Capacity
  /\ lost' = [lost EXCEPT ![arrived[1][1]] = @ + 1]
  /\ UNCHANGED <<on, stream, out>>

\* The oldest data sets, all of one session, are handed to its handler.
HandOver ==
  \E n \in 1 .. Len(stream) :
    LET s == stream[1][1] IN
    /\ \A i \in 1 .. n : stream[i][1] = s
    /\ out' = [out EXCEPT ![s] = @ \o SubSeq(stream, 1, n)]
    /\ stream' = SubSeq(stream, n + 1, Len(stream))
    /\ UNCHANGED <<on, arrived, lost>>

\* The measurement has stopped: what is still on its way is thrown away.
Discard ==
  /\ ~on /\ arrived = <<>>
  /\ stream' = <<>>
  /\ UNCHANGED <<on, arrived, lost, out>>

Next == Start \/ Stop \/ Arrive \/ Enter \/ Refuse \/ HandOver \/ Discard

Spec == Init /\ [][Next]_streamVars
=============================================================================
