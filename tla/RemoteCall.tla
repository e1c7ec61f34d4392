----------------------------- MODULE RemoteCall -----------------------------
(***************************************************************************)
(* What the driver needs of the link to the firmware: a call is executed   *)
(* by the firmware once, between the moment it is made and the moment it   *)
(* returns, and returns the answer the firmware gave.                      *)
(***************************************************************************)
EXTENDS Integers

CONSTANTS Calls,     \* calls that may be made, numbered from 1
          Answers    \* what the firmware may answer

VARIABLES made,      \* calls made so far; the last one may be in progress
          given,     \* given[c]: the set of answers the firmware gave to call c
          returned   \* returned[c]: the set of answers call c returned

vars == <<made, given, returned>>

InProgress == made \in Calls /\ returned[made] = {}

Init ==
  /\ made = 0
  /\ given = [c \in Calls |-> {}] /\ returned = [c \in Calls |-> {}]

Make ==
  /\ ~InProgress /\ made + 1 \in Calls
  /\ made' = made + 1
  /\ UNCHANGED <<given, returned>>

Execute(a) ==
  /\ InProgress /\ given[made] = {}
  /\ given' = [given EXCEPT ![made] = {a}]
  /\ UNCHANGED <<made, returned>>

Return ==
  /\ InProgress /\ given[made] # {}
  /\ returned' = [returned EXCEPT ![made] = given[made]]
  /\ UNCHANGED <<made, given>>

Next == Make \/ (\E a \in Answers : Execute(a)) \/ Return

Spec == Init /\ [][Next]_vars
=============================================================================
