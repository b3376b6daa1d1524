------------------------- MODULE ExclusiveOperation -------------------------
(***************************************************************************)
(* What the bridge promises about the camera: operations on it do not      *)
(* overlap, and one begins only after the one before has ended.            *)
(***************************************************************************)
CONSTANT Operations

VARIABLE active           \* the operations in progress

Init == active = {}

Begin(o) == active = {} /\ active' = {o}

End == active # {} /\ active' = {}

Next == End \/ \E o \in Operations : Begin(o)

Spec == Init /\ [][Next]_active
=============================================================================
