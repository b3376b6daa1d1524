--------------------------- MODULE BridgeSettings ---------------------------
(***************************************************************************)
(* The life of /bridge.json: what a boot makes of a file of this or of an  *)
(* older firmware, and what an operator's update makes of the settings in  *)
(* RAM and in flash.  A write replaces the whole file or nothing, which    *)
(* AtomicFile shows.                                                       *)
(*                                                                         *)
(* A setting is a number with a range and a default; the texts (names,     *)
(* hosts, addresses) are one network profile.  A file may lack a setting.  *)
(***************************************************************************)
EXTENDS Integers

CONSTANTS Fields,         \* the numeric settings
          Low, High,      \* their ranges
          Default,        \* their values in a new bridge
          Legacy,         \* defaults of older firmware, replaced at a boot
          Checked,        \* settings an update must give in range
          Inputs,         \* numbers an operator may send
          Files           \* what the flash may hold at the first boot

CurrentSchema == 4        \* CONFIG_SCHEMA_VERSION
Schemas == 1..CurrentSchema

(* dhcp, the static address older firmware shipped, any other static       *)
(* profile, and whatever configSane refuses.                               *)
Profiles == {"dhcp", "legacyStatic", "static", "refused"}

Unreadable == [schema |-> 0]

ASSUME SettingsAssumption ==
  /\ Low \in [Fields -> Nat] /\ High \in [Fields -> Nat] /\ Default \in [Fields -> Nat]
  /\ \A f \in Fields : Low[f] <= Default[f] /\ Default[f] <= High[f]
  /\ Legacy \in [Fields -> SUBSET Nat]
  /\ Checked \subseteq Fields
  /\ Inputs \subseteq Nat
  /\ \A file \in Files :
       file = Unreadable \/ (/\ file.schema \in Schemas
                             /\ file.network \in Profiles
                             /\ DOMAIN file.values \subseteq Fields
                             /\ \A f \in DOMAIN file.values : file.values[f] \in Nat)

VARIABLES running,        \* the firmware has booted
          stored,         \* the file
          cfg             \* the settings in RAM

vars == <<running, stored, cfg>>

Factory == [values |-> Default, network |-> "dhcp"]

Init ==
  /\ running = FALSE
  /\ stored \in Files
  /\ cfg = Factory

-----------------------------------------------------------------------------
(* Reading and writing the file                                            *)

Clamp(f, n) == IF n < Low[f] THEN Low[f] ELSE IF n > High[f] THEN High[f] ELSE n

(* Slip: the file keeps the schema it was read with. *)
DocumentOfOldSchema(c) ==
  [schema |-> CurrentSchema - 1, values |-> c.values, network |-> c.network]

Document(c) == [schema |-> CurrentSchema, values |-> c.values, network |-> c.network]

Outdated(file) == file.schema < CurrentSchema

LoadedValue(file, f) ==
  LET read == IF f \in DOMAIN file.values THEN Clamp(f, file.values[f]) ELSE Default[f]
  IN  IF Outdated(file) /\ read \in Legacy[f] THEN Default[f] ELSE read

Loaded(file) ==
  [values  |-> [f \in Fields |-> LoadedValue(file, f)],
   network |-> IF Outdated(file) /\ file.network = "legacyStatic" THEN "dhcp" ELSE file.network]

ConfigSane(c) ==
  /\ c.network # "refused"
  /\ \A f \in Checked : c.values[f] \in Low[f]..High[f]

Loads(file) == file # Unreadable /\ ConfigSane(Loaded(file))

(* The settings the next boot will run with. *)
Effective(file) == IF Loads(file) THEN Loaded(file) ELSE Factory

-----------------------------------------------------------------------------
(* A boot migrates an outdated file and replaces one it cannot use; if the *)
(* write fails, the settings are in RAM only.                              *)
Boot ==
  /\ ~running
  /\ running' = TRUE
  /\ cfg' = Effective(stored)
  /\ \/ stored' = stored
     \/ (~Loads(stored) \/ Outdated(stored)) /\ stored' = Document(cfg')

Changed(values, changes) ==
  [f \in Fields |->
     IF f \notin DOMAIN changes THEN values[f]
     ELSE IF f \in Checked THEN changes[f] ELSE Clamp(f, changes[f])]

(* A refused update and one that cannot be written change nothing. *)
UpdateConfig(changes, network) ==
  LET next == [values |-> Changed(cfg.values, changes), network |-> network]
  IN  /\ running
      /\ ConfigSane(next)
      /\ stored' = Document(next)
      /\ cfg' = next
      /\ UNCHANGED running

(* A restart, for whatever reason: RAM is lost. *)
Restart ==
  /\ running
  /\ running' = FALSE
  /\ cfg' = Factory
  /\ UNCHANGED stored

Next ==
  \/ Boot
  \/ \E f \in Fields, n \in Inputs : UpdateConfig([g \in {f} |-> n], cfg.network)
  \/ \E network \in Profiles : UpdateConfig([g \in {} |-> 0], network)
  \/ Restart

Spec == Init /\ [][Next]_vars

-----------------------------------------------------------------------------
(* Properties                                                              *)

(* Types, and what the engines rely on: every delay and timeout in use is  *)
(* inside its range, whatever the file or the operator says.               *)
SettingsTypeOK ==
  /\ running \in BOOLEAN
  /\ cfg.values \in [Fields -> Nat]
  /\ \A f \in Fields : Low[f] <= cfg.values[f] /\ cfg.values[f] <= High[f]
  /\ cfg.network \in Profiles

(* A restart never changes a setting: what a boot reads back is what was   *)
(* in use, after any mix of updates, migrations that could not be written, *)
(* refused files and restarts.  An operator's choice is not mistaken for   *)
(* the default of an older firmware, nor clamped a second time.            *)
RestartKeepsSettings == running => Effective(stored) = cfg
=============================================================================
