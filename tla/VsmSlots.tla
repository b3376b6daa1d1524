------------------------------ MODULE VsmSlots ------------------------------
(***************************************************************************)
(* The numbered trigger slots of external controllers: the map an operator *)
(* posts or an older firmware has left, its canonical form, the slots that *)
(* VsmGeneric keeps, and the command a trigger runs.                       *)
(*                                                                         *)
(* A map is a list of entries in any order and number.  An entry may name  *)
(* its slot; one that does not (NoSlot, or a number out of range) means    *)
(* the slot of its own position.  Labels follow the values and are left    *)
(* out.  The feedback groups are canonicalized in the same way.            *)
(***************************************************************************)
EXTENDS Naturals, Sequences, SequencesExt, FiniteSetsExt

CONSTANTS Count,         \* 16 triggers
          MaxEntries,    \* entries of a posted map
          Callable,      \* commands and sequences a trigger may run
          Refused,       \* unknown and hold-only commands
          DefaultCommands,   \* of a device without a map
          NoEntry,       \* an array member that is no object
          NoFile

NoSlot == 0
Unmapped == "unmapped"
Values == Callable \cup Refused \cup {Unmapped}
Objects == [slot : NoSlot..(Count + 1), value : Values]
Entries == Objects \cup {NoEntry}
Maps == UNION { [1..n -> Entries] : n \in 0..MaxEntries }

VARIABLES file,          \* what VSM_GENERIC_PATH holds
          map,           \* vsmGenericMap_
          triggers,      \* VsmGeneric::triggers_
          booted,
          given,         \* history: the document the map came from
          ran            \* history: the last trigger and what it ran

vars == <<file, map, triggers, booted, given, ran>>

-----------------------------------------------------------------------------
(* canonicalizeVsmGroup                                                    *)

Slots == 1..Count
(* selected: the position of the entry that has claimed each slot, or 0.   *)
Unclaimed == [n \in Slots |-> 0]
ValidSlot(e) == e # NoEntry /\ e.slot \in Slots

(* The claims in the order they are made: the entries that name a slot in  *)
(* the order of the map, then the others, each for its own position.       *)
NamedClaims(input) ==
  [i \in DOMAIN input |->
     [slot |-> IF ValidSlot(input[i]) THEN input[i].slot ELSE NoSlot, entry |-> i]]

ClaimsByPosition(input) ==
  [n \in Slots |->
     [slot |-> IF n <= Len(input) /\ input[n] # NoEntry /\ ~ValidSlot(input[n]) THEN n ELSE NoSlot,
      entry |-> n]]

(* Slip: the last claim to a slot wins. *)
ClaimsLast(claim, selected) == claim.slot # NoSlot
Claims(claim, selected) == claim.slot # NoSlot /\ selected[claim.slot] = 0

Selected(input) ==
  LET Claim(selected, claim) ==
        IF Claims(claim, selected) THEN [selected EXCEPT ![claim.slot] = claim.entry] ELSE selected
  IN  FoldLeft(Claim, Unclaimed, NamedClaims(input) \o ClaimsByPosition(input))

(* Every slot is there, in order, and names itself. *)
Canonical(input) ==
  LET selected == Selected(input)
  IN  [n \in Slots |-> [slot |-> n,
                        value |-> IF selected[n] = 0 THEN Unmapped ELSE input[selected[n]].value]]

(* VsmGeneric::reload reads by position. *)
Reloaded(document) == [n \in Slots |-> document[n].value]

-----------------------------------------------------------------------------

NothingRan == [slot |-> 0, command |-> Unmapped]

Init ==
  /\ file \in Maps \cup {NoFile}
  /\ map = <<>> /\ triggers = [n \in Slots |-> Unmapped]
  /\ booted = FALSE /\ given = <<>> /\ ran = NothingRan

Use(document) == map' = document /\ triggers' = Reloaded(document)

Factory == [n \in Slots |-> [slot |-> n, value |-> DefaultCommands[n]]]

BootWithoutMap ==
  /\ ~booted /\ file = NoFile
  /\ Use(Factory)
  /\ file' \in {NoFile, map'}
  /\ booted' = TRUE /\ given' = Factory /\ UNCHANGED ran

(* The canonical form is written if it differs; that may fail. *)
LoadVsmGenericMap ==
  /\ ~booted /\ file # NoFile
  /\ Use(Canonical(file))
  /\ file' \in {file, map'}
  /\ booted' = TRUE
  /\ given' = IF map = <<>> THEN file ELSE given
  /\ UNCHANGED ran

SaveVsmGenericMap(document) ==
  /\ booted
  /\ Use(Canonical(document))
  /\ file' = map'
  /\ given' = document /\ ran' = NothingRan
  /\ UNCHANGED booted

Trigger(n) ==
  /\ booted
  /\ triggers[n] \in Callable
  /\ ran' = [slot |-> n, command |-> triggers[n]]
  /\ UNCHANGED <<file, map, triggers, booted, given>>

Restart ==
  /\ booted /\ booted' = FALSE
  /\ ran' = NothingRan
  /\ UNCHANGED <<file, map, triggers, given>>

Next ==
  \/ BootWithoutMap \/ LoadVsmGenericMap \/ Restart
  \/ \E document \in Maps : SaveVsmGenericMap(document)
  \/ \E n \in Slots : Trigger(n)

Spec == Init /\ [][Next]_vars

-----------------------------------------------------------------------------
(* Properties                                                              *)

(* docs/INTEGRATION.md:66: "the first explicit entry for a duplicate slot  *)
(* wins, while entries with absent or invalid slot fields use their array  *)
(* position only when that position is still free".                        *)
Meant(document, n) ==
  LET explicit == { i \in 1..Len(document) : document[i] # NoEntry /\ document[i].slot = n }
      own == n <= Len(document) /\ document[n] # NoEntry /\ document[n].slot \notin Slots
  IN  IF explicit # {} THEN document[Min(explicit)].value
      ELSE IF own THEN document[n].value ELSE Unmapped

(* A trigger runs what the operator's document means by its slot, through  *)
(* any number of restarts, each of which canonicalizes again.              *)
TriggerRunsItsSlot == ran # NothingRan => ran.command = Meant(given, ran.slot)
=============================================================================
