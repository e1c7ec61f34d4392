---------------------------- MODULE SyncComCall ----------------------------
(***************************************************************************)
(* The character link implements RemoteCall while the firmware is never    *)
(* slower than the driver is patient.                                      *)
(***************************************************************************)
EXTENDS SyncCom

\* The abstract call behind a history entry: no text yet, or the text.
Given(text) == IF text = <<>> THEN {} ELSE {text}

Call == INSTANCE RemoteCall WITH
          Calls    <- Requests,
          Answers  <- {Text(r, n) : r \in Requests, n \in Lengths},
          made     <- request,
          given    <- [r \in Requests |-> Given(responded[r])],
          returned <- [r \in Requests |-> Given(answers[r].text)]

\* execute() behaves like a remote call: each request is executed once while
\* it is in progress, and returns the answer given to it, whatever characters
\* the two flow controls exchange on the way.
ImplementsCall == Call!Spec
=============================================================================
