---------------------------- MODULE DurableValue ----------------------------
(***************************************************************************)
(* What the storage promises of one setting: a value that a save replaces  *)
(* in one step or not at all, and that every restart finds again.          *)
(***************************************************************************)
CONSTANTS Values, Default

VARIABLES saved,          \* what a restart would find
          live            \* what the running firmware uses

Init == saved = Default /\ live = Default

Commit(v) == saved = live /\ saved' = v /\ UNCHANGED live

Adopt == live' = saved /\ UNCHANGED saved

Next == Adopt \/ \E v \in Values : Commit(v)

Spec == Init /\ [][Next]_<<saved, live>>
=============================================================================
