-------------------------- MODULE CameraStateStore --------------------------
(***************************************************************************)
(* The semantic camera state every interface reads: per state id a text,   *)
(* whether it was ever set, and how long ago.  The code stores the time of *)
(* the update and always compares the difference with the current time;    *)
(* the model stores that difference, the age, in ticks of the clock.  Ages *)
(* stop growing at SampleHorizon, beyond every freshness limit in use.     *)
(***************************************************************************)
EXTENDS Integers

CONSTANT SampleHorizon    \* age at which a sample stops ageing

ASSUME SampleHorizonAssumption == SampleHorizon \in Nat \ {0}

VARIABLE sample           \* state id -> last sample

(* The four of the 23 state ids the engines interpret. *)
StateIds == {"ready", "writing", "recording", "playback"}

(* Texts textBool reads as true, as false, and those it does not know. *)
Raws == {"true", "false", "other"}

Sample == [valid: BOOLEAN, raw: Raws, age: 0..SampleHorizon]

NoSample == [valid |-> FALSE, raw |-> "other", age |-> 0]

StoreInit == sample = [id \in StateIds |-> NoSample]

(* set() for every id in the domain of raws, in one handler. *)
StoreSet(raws) ==
  sample' = [id \in StateIds |->
               IF id \in DOMAIN raws
                 THEN [valid |-> TRUE, raw |-> raws[id], age |-> 0]
                 ELSE sample[id]]

Older(n, horizon) == IF n < horizon THEN n + 1 ELSE horizon

Aged(s) ==
  [valid |-> s.valid, raw |-> s.raw,
   age |-> IF s.valid THEN Older(s.age, SampleHorizon) ELSE s.age]

StoreTick == sample' = [id \in StateIds |-> Aged(sample[id])]

(* A value is current truth only while it is at most limit old. *)
Fresh(id, limit) == sample[id].valid /\ sample[id].age <= limit

(* Slip: a sample from before the event counts as well. *)
FreshAtAll(id, limit, since) == Fresh(id, limit)

(* Fresh, and set no earlier than the event that happened since ticks ago. *)
FreshSince(id, limit, since) == Fresh(id, limit) /\ sample[id].age <= since

TextBool(raw, fallback) == IF raw = "other" THEN fallback ELSE raw = "true"

BoolValue(id, fallback) ==
  IF sample[id].valid THEN TextBool(sample[id].raw, fallback) ELSE fallback
=============================================================================
