---------------------------- MODULE MessageChannel ----------------------------
(***************************************************************************)
(* What the /linear session promises to those who use it: the messages of  *)
(* the camera reach the bridge whole, each once and in their order, until  *)
(* the session ends and loses what is still under way.                     *)
(***************************************************************************)
EXTENDS Sequences

CONSTANT Message

VARIABLES queue,      \* sent and not yet received
          received    \* the last one received, or none

Init == queue = <<>> /\ received = <<>>

Send ==
  /\ \E m \in Message : queue' = Append(queue, m)
  /\ UNCHANGED received

Receive ==
  /\ queue # <<>>
  /\ received' = <<Head(queue)>>
  /\ queue' = Tail(queue)

Lose ==
  /\ queue' = <<>>
  /\ UNCHANGED received

Next == Send \/ Receive \/ Lose

Spec == Init /\ [][Next]_<<queue, received>>
=============================================================================
