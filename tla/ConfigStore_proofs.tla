------------------------ MODULE ConfigStore_proofs ------------------------
(***************************************************************************)
(* Proofs about what the bridge stores.  The settings in use are always in *)
(* range and a restart never changes them, for every set of settings,      *)
(* every range and every file of an older firmware; the three files of the *)
(* store are each kept as their own specification says; a restart keeps    *)
(* the command map, an upgrade the requests it stands for; a trigger runs  *)
(* what the operator's map means by its slot; the engines and the pages    *)
(* use what the operator's documents mean; and the check of a static       *)
(* address and the warning of networks that overlap are exact.             *)
(***************************************************************************)
EXTENDS ConfigStore, Addressing, FiniteSetTheorems, WellFoundedInduction, TLAPS

(* Settings the engines can run with. *)
InUse(c) ==
  /\ c \in [values: [Fields -> Nat], network: Profiles]
  /\ \A f \in Fields : Low[f] <= c.values[f] /\ c.values[f] <= High[f]

(* A file the first boot may find, or one this firmware wrote. *)
Readable(file) ==
  /\ file.schema \in Schemas
  /\ file.network \in Profiles
  /\ DOMAIN file.values \subseteq Fields
  /\ \A f \in DOMAIN file.values : file.values[f] \in Nat

SettingsInv ==
  /\ running \in BOOLEAN
  /\ InUse(cfg)
  /\ stored = Unreadable \/ Readable(stored)
  /\ RestartKeepsSettings

(* What the assumption says of one setting. *)
LEMMA Ranges ==
  ASSUME NEW f \in Fields
  PROVE  /\ Low[f] \in Nat /\ High[f] \in Nat /\ Default[f] \in Nat
         /\ Low[f] <= Default[f] /\ Default[f] <= High[f]
BY SettingsAssumption

LEMMA ClampInRange ==
  ASSUME NEW f \in Fields, NEW n \in Nat
  PROVE  /\ Clamp(f, n) \in Nat /\ Low[f] <= Clamp(f, n) /\ Clamp(f, n) <= High[f]
         /\ Low[f] <= n /\ n <= High[f] => Clamp(f, n) = n
BY Ranges DEF Clamp

(* The factory settings can be used, and pass the check of an update. *)
LEMMA FactoryInUse == InUse(Factory) /\ ConfigSane(Factory)
<1>1. Default \in [Fields -> Nat]
      BY SettingsAssumption
<1>2. \A f \in Fields : Low[f] <= Default[f] /\ Default[f] <= High[f]
      BY Ranges
<1>3. ASSUME NEW f \in Checked
      PROVE  Default[f] \in Low[f]..High[f]
  <2>1. f \in Fields
        BY SettingsAssumption
  <2> QED
      BY <2>1, Ranges
<1> QED
    BY <1>1, <1>2, <1>3 DEF InUse, Factory, Profiles, ConfigSane

(* A file of any schema is loaded into range. *)
LEMMA LoadedInUse ==
  ASSUME NEW file, Readable(file)
  PROVE  InUse(Loaded(file))
<1>1. ASSUME NEW f \in Fields
      PROVE  /\ LoadedValue(file, f) \in Nat
             /\ Low[f] <= LoadedValue(file, f) /\ LoadedValue(file, f) <= High[f]
  <2> DEFINE read == IF f \in DOMAIN file.values THEN Clamp(f, file.values[f]) ELSE Default[f]
  <2>1. read \in Nat /\ Low[f] <= read /\ read <= High[f]
        BY Ranges, ClampInRange DEF Readable
  <2>2. LoadedValue(file, f) \in {read, Default[f]}
        BY DEF LoadedValue
  <2> QED
      BY <2>1, <2>2, Ranges
<1>2. Loaded(file).network \in Profiles
      BY DEF Loaded, Readable, Profiles
<1> QED
    BY <1>1, <1>2 DEF InUse, Loaded

LEMMA EffectiveInUse ==
  ASSUME NEW file, file = Unreadable \/ Readable(file)
  PROVE  InUse(Effective(file)) /\ ConfigSane(Effective(file))
BY LoadedInUse, FactoryInUse DEF Effective, Loads

(* What this firmware writes it reads back unchanged. *)
LEMMA DocumentKeeps ==
  ASSUME NEW c, InUse(c), ConfigSane(c)
  PROVE  Readable(Document(c)) /\ Effective(Document(c)) = c
<1>1. Readable(Document(c))
      BY DEF Readable, Document, InUse, Schemas, CurrentSchema
<1>2. ~Outdated(Document(c)) /\ Document(c) # Unreadable
  <2>1. Document(c).schema = 4 /\ Unreadable.schema = 0
        BY DEF Document, Unreadable, CurrentSchema
  <2> QED
      BY <2>1 DEF Outdated, CurrentSchema
<1>3. ASSUME NEW f \in Fields
      PROVE  LoadedValue(Document(c), f) = c.values[f]
  <2>1. Document(c).values = c.values /\ f \in DOMAIN c.values /\ c.values[f] \in Nat
        BY DEF Document, InUse
  <2>2. Clamp(f, c.values[f]) = c.values[f]
        BY <2>1, ClampInRange DEF InUse
  <2> QED
      BY <1>2, <2>1, <2>2 DEF LoadedValue
<1>4. Loaded(Document(c)) = [values |-> c.values, network |-> c.network]
  <2>1. [f \in Fields |-> LoadedValue(Document(c), f)] = c.values
        BY <1>3 DEF InUse
  <2> QED
      BY <1>2, <2>1 DEF Loaded, Document
<1>5. Loaded(Document(c)) = c
      BY <1>4 DEF InUse
<1> QED
    BY <1>1, <1>2, <1>5 DEF Effective, Loads

(* An update that passes the check leaves every setting in range. *)
LEMMA ChangedInUse ==
  ASSUME InUse(cfg), NEW changes, NEW network \in Profiles,
         \A f \in DOMAIN changes : changes[f] \in Nat,
         ConfigSane([values |-> Changed(cfg.values, changes), network |-> network])
  PROVE  InUse([values |-> Changed(cfg.values, changes), network |-> network])
<1> DEFINE values == Changed(cfg.values, changes)
<1>1. ASSUME NEW f \in Fields
      PROVE  values[f] \in Nat /\ Low[f] <= values[f] /\ values[f] <= High[f]
  <2>0. cfg.values[f] \in Nat /\ Low[f] <= cfg.values[f] /\ cfg.values[f] <= High[f]
        BY DEF InUse
  <2>1. CASE f \notin DOMAIN changes
        BY <2>0, <2>1 DEF Changed
  <2>2. CASE f \in DOMAIN changes /\ f \notin Checked
    <3>1. values[f] = Clamp(f, changes[f])
          BY <2>2 DEF Changed
    <3> QED
        BY <2>2, <3>1, ClampInRange
  <2>3. CASE f \in DOMAIN changes /\ f \in Checked
    <3>1. values[f] = changes[f] /\ values[f] \in Nat
          BY <2>3 DEF Changed
    <3>2. values[f] \in Low[f]..High[f]
          BY <2>3 DEF ConfigSane
    <3> QED
        BY <3>1, <3>2, Ranges
  <2> QED
      BY <2>1, <2>2, <2>3
<1>2. values \in [Fields -> Nat]
      BY <1>1 DEF Changed
<1> QED
    BY <1>1, <1>2 DEF InUse

(* A setting in use stays readable in flash, whatever happens next. *)
LEMMA SettingsStep == SettingsInv /\ [Next]_vars => SettingsInv'
<1> SUFFICES ASSUME SettingsInv, [Next]_vars
             PROVE  SettingsInv'
    OBVIOUS
<1> USE DEF SettingsInv, RestartKeepsSettings
<1>1. CASE Boot
  <2>1. InUse(Effective(stored)) /\ ConfigSane(Effective(stored))
        BY EffectiveInUse
  <2>2. /\ Readable(Document(Effective(stored)))
        /\ Effective(Document(Effective(stored))) = Effective(stored)
        BY <2>1, DocumentKeeps
  <2>3. /\ cfg' = Effective(stored) /\ running' = TRUE
        /\ stored' \in {stored, Document(Effective(stored))}
        BY <1>1 DEF Boot
  <2>4. InUse(cfg')
        BY <2>1, <2>3
  <2> QED
      BY <2>2, <2>3, <2>4 DEF InUse
<1>2. ASSUME NEW changes, NEW network \in Profiles, UpdateConfig(changes, network),
             \A f \in DOMAIN changes : changes[f] \in Nat
      PROVE  SettingsInv'
  <2> DEFINE next == [values |-> Changed(cfg.values, changes), network |-> network]
  <2>1. ConfigSane(next) /\ cfg' = next /\ stored' = Document(next) /\ running' = running
        BY <1>2 DEF UpdateConfig
  <2>2. InUse(next)
        BY <1>2, <2>1, ChangedInUse
  <2>3. Readable(Document(next)) /\ Effective(Document(next)) = next
        BY <2>1, <2>2, DocumentKeeps
  <2> HIDE DEF next
  <2> QED
      BY <2>1, <2>2, <2>3 DEF InUse
<1>3. CASE \E f \in Fields, n \in Inputs : UpdateConfig([g \in {f} |-> n], cfg.network)
  <2>1. PICK f \in Fields, n \in Inputs : UpdateConfig([g \in {f} |-> n], cfg.network)
        BY <1>3
  <2>2. cfg.network \in Profiles /\ n \in Nat
        BY SettingsAssumption DEF InUse
  <2> QED
      BY <1>2, <2>1, <2>2
<1>4. CASE \E network \in Profiles : UpdateConfig([g \in {} |-> 0], network)
      BY <1>2, <1>4
<1>5. CASE Restart
      BY <1>5, FactoryInUse DEF Restart, InUse
<1>6. CASE UNCHANGED vars
      BY <1>6 DEF vars, InUse
<1> QED
    BY <1>1, <1>3, <1>4, <1>5, <1>6 DEF Next

(* The invariant of the settings holds in every reachable state. *)
THEOREM SettingsInvariant == Spec => []SettingsInv
<1>1. ASSUME Init
      PROVE  SettingsInv
  <2>1. stored = Unreadable \/ Readable(stored)
        BY <1>1, SettingsAssumption DEF Init, Readable
  <2> QED
      BY <1>1, <2>1, FactoryInUse DEF Init, SettingsInv, RestartKeepsSettings
<1> QED
    BY <1>1, SettingsStep, PTL DEF Spec

(* Every setting in use is in its range, whatever the file held. *)
THEOREM SettingsAlwaysInRange == Spec => []SettingsTypeOK
<1>1. SettingsInv => SettingsTypeOK
      BY DEF SettingsInv, SettingsTypeOK, InUse
<1> QED
    BY <1>1, SettingsInvariant, PTL

(* What a boot reads back is what was in use. *)
THEOREM RestartAlwaysKeepsSettings == Spec => []RestartKeepsSettings
<1>1. SettingsInv => RestartKeepsSettings
      BY DEF SettingsInv
<1> QED
    BY <1>1, SettingsInvariant, PTL

-----------------------------------------------------------------------------
(***************************************************************************)
(* The store.  Its steps are those of its parts, each of which may stand   *)
(* still; what holds of a part alone holds of the store.                   *)
(***************************************************************************)

LEMMA StoreStepsAreTheirs ==
  ASSUME [StoreNext]_storeVars
  PROVE  [Next]_vars /\ [CM!Next]_CM!vars /\ [VS!Next]_VS!vars /\ [SD!Next]_SD!vars
<1>1. CASE Begin
  BY <1>1 DEF Begin, Next, CM!Next, VS!Next, SD!Next
<1>2. CASE StoreRestart
  BY <1>2 DEF StoreRestart, Next, CM!Next, VS!Next, SD!Next
<1>3. CASE SaveSettings
  <2>1. Next /\ UNCHANGED running
    BY <1>3 DEF SaveSettings, Next, UpdateConfig
  <2> QED
    BY <1>3, <2>1 DEF SaveSettings, commandVars, slotVars, documentVars, CM!vars, VS!vars, SD!vars
<1>4. CASE SaveCommands
  BY <1>4 DEF SaveCommands, CM!Next, vars, slotVars, documentVars, VS!vars, SD!vars
<1>5. CASE SaveSlots \/ UseSlot
  BY <1>5 DEF SaveSlots, UseSlot, VS!Next, vars, commandVars, documentVars, CM!vars, SD!vars
<1>6. ASSUME SD!Next, UNCHANGED <<vars, commandVars, slotVars>>
      PROVE  [Next]_vars /\ [CM!Next]_CM!vars /\ [VS!Next]_VS!vars /\ [SD!Next]_SD!vars
  BY <1>6 DEF vars, commandVars, slotVars, CM!vars, VS!vars
<1>7. CASE \E posted \in Layouts : SaveLayout(posted)
  BY <1>6, <1>7 DEF SaveLayout, SD!Next
<1>8. CASE \E posted \in TelemetryMaps : SaveTelemetryMap(posted)
  BY <1>6, <1>8 DEF SaveTelemetryMap, SD!Next
<1>9. CASE \E posted \in Programs : SaveSequences(posted)
  BY <1>6, <1>9 DEF SaveSequences, SD!Next
<1>10. CASE UNCHANGED storeVars
  BY <1>10 DEF storeVars, vars, commandVars, slotVars, documentVars, CM!vars, VS!vars, SD!vars
<1> QED
    BY <1>1, <1>2, <1>3, <1>4, <1>5, <1>7, <1>8, <1>9, <1>10 DEF StoreNext

(* The store implements the specification of each of its files.            *)
THEOREM StoreImplementsParts == StoreSpec => Spec /\ CM!Spec /\ VS!Spec /\ SD!Spec
<1>1. StoreInit => Init /\ CM!Init /\ VS!Init /\ SD!Init
      BY DEF StoreInit
<1> QED
    BY <1>1, StoreStepsAreTheirs, PTL DEF StoreSpec, Spec, CM!Spec, VS!Spec, SD!Spec

-----------------------------------------------------------------------------
(***************************************************************************)
(* The command map.  What the next boot will make of the file is what is   *)
(* in RAM, whether or not the file could be brought up to date.            *)
(***************************************************************************)

BootMap(file) ==
  IF file = NoStored THEN CM!DefaultMap
  ELSE IF file.schema < CM!COMMAND_SCHEMA_VERSION THEN CM!Migrated(file) ELSE file.map

MapInv ==
  /\ commandFile = NoStored \/ commandFile \in CM!Documents
  /\ commandMap \in [CM!Commands -> CM!Mappings]
  /\ CM!SavedOnce => BootMap(commandFile) = commandMap

(* Mappings no upgrade may change. *)
OfTheOperator(m) == m.rpc # "Button.SendKeys" /\ ~CM!Untouched(m)

(* What a migration makes of a map. *)
Follows(old, new) ==
  /\ new \in [CM!Commands -> CM!Mappings]
  /\ \A c \in CM!Commands : OfTheOperator(old[c]) => new[c] = old[c]

LEMMA NamesAreTexts ==
  /\ "" \in CM!Texts /\ "Clip.Recorder.Start" \in CM!Texts /\ "Clip.Recorder.Stop" \in CM!Texts
  /\ "Button.SendKeys" \in CM!Texts /\ "Thumbnail" \in CM!Texts /\ "Pause" \in CM!Texts
<1>1. CM!Names \subseteq CM!Texts
      BY DEF CM!Texts
<1> QED
    BY <1>1 DEF CM!Names

LEMMA BlankIsMapping == CM!Blank \in CM!Mappings
BY NamesAreTexts DEF CM!Blank, CM!Http, CM!Mappings

LEMMA DefaultIsMapping ==
  ASSUME NEW c \in CM!Commands, CM!HasDefault(c)
  PROVE  CM!LinearDefault(c) \in CM!Mappings
BY NamesAreTexts
   DEF CM!LinearDefault, CM!HasDefault, CM!Commands, CM!Mappings, CM!Linear, CM!Keys

LEMMA DefaultsFollow ==
  ASSUME NEW old \in [CM!Commands -> CM!Mappings]
  PROVE  Follows(old, CM!LinearDefaults(old))
<1>1. ASSUME NEW c \in CM!Commands
      PROVE  /\ CM!LinearDefaults(old)[c] \in CM!Mappings
             /\ OfTheOperator(old[c]) => CM!LinearDefaults(old)[c] = old[c]
  <2>1. old[c] \in CM!Mappings
    OBVIOUS
  <2>2. CM!Available(old[c]) => ~OfTheOperator(old[c])
    BY <2>1 DEF CM!Available, OfTheOperator, CM!Untouched, CM!NoRequest, CM!Mappings
  <2> QED
      BY <2>1, <2>2, DefaultIsMapping DEF CM!LinearDefaults
<1>2. CM!LinearDefaults(old) = [c \in CM!Commands |-> CM!LinearDefaults(old)[c]]
      BY DEF CM!LinearDefaults
<1> QED
    BY <1>1, <1>2 DEF Follows

LEMMA V3Follows ==
  ASSUME NEW old \in [CM!Commands -> CM!Mappings]
  PROVE  Follows(old, CM!V3(old))
<1>1. /\ "record_start" \in CM!Commands /\ CM!HasDefault("record_start")
      /\ "record_stop" \in CM!Commands /\ CM!HasDefault("record_stop")
      BY DEF CM!Commands, CM!HasDefault
<1>2. ASSUME NEW m, CM!SameRequest(m, CM!FlatStart) \/ CM!SameRequest(m, CM!Keys(2, "Rec"))
      PROVE  ~OfTheOperator(m)
      BY <1>2 DEF OfTheOperator, CM!Untouched, CM!SameRequest, CM!Keys, CM!Linear
<1>3. /\ CM!LinearDefault("record_start") \in CM!Mappings
      /\ CM!LinearDefault("record_stop") \in CM!Mappings
      BY <1>1, DefaultIsMapping
<1>4. ASSUME NEW c \in CM!Commands
      PROVE  /\ CM!V3(old)[c] \in CM!Mappings
             /\ OfTheOperator(old[c]) => CM!V3(old)[c] = old[c]
      BY <1>1, <1>2, <1>3 DEF CM!V3
<1>5. CM!V3(old) = [c \in CM!Commands |-> CM!V3(old)[c]]
      BY DEF CM!V3
<1> QED
    BY <1>4, <1>5 DEF Follows

LEMMA V4Follows ==
  ASSUME NEW old \in [CM!Commands -> CM!Mappings]
  PROVE  Follows(old, CM!V4(old))
<1>1. "rec_review" \in CM!Commands /\ CM!HasDefault("rec_review")
      BY DEF CM!Commands, CM!HasDefault
<1>2. ASSUME NEW m, CM!SameRequest(m, CM!Keys(2, "Assignable.6"))
      PROVE  ~OfTheOperator(m)
      BY <1>2 DEF OfTheOperator, CM!SameRequest, CM!Keys, CM!Linear
<1>3. CM!LinearDefault("rec_review") \in CM!Mappings
      BY <1>1, DefaultIsMapping
<1>4. ASSUME NEW c \in CM!Commands
      PROVE  /\ CM!V4(old)[c] \in CM!Mappings
             /\ OfTheOperator(old[c]) => CM!V4(old)[c] = old[c]
      BY <1>1, <1>2, <1>3 DEF CM!V4
<1>5. CM!V4(old) = [c \in CM!Commands |-> CM!V4(old)[c]]
      BY DEF CM!V4
<1> QED
    BY <1>4, <1>5 DEF Follows

LEMMA V5Follows ==
  ASSUME NEW old \in [CM!Commands -> CM!Mappings]
  PROVE  Follows(old, CM!V5(old))
<1>1. ASSUME NEW m \in CM!Mappings
      PROVE  /\ CM!Wrapped(m) \in CM!Mappings
             /\ OfTheOperator(m) => CM!Wrapped(m) = m
  <2>1. [m EXCEPT !.depth = 2] \in CM!Mappings
        BY DEF CM!Mappings
  <2> QED
      BY <2>1 DEF CM!Wrapped, OfTheOperator
<1>2. ASSUME NEW m \in CM!Mappings
      PROVE  /\ CM!Paused(m) \in CM!Mappings
             /\ OfTheOperator(m) => CM!Paused(m) = m
  <2>1. [m EXCEPT !.key = "Pause"] \in CM!Mappings
        BY NamesAreTexts DEF CM!Mappings
  <2>2. CM!Keys(2, "Play").rpc = "Button.SendKeys"
        BY DEF CM!Keys, CM!Linear
  <2> QED
      BY <2>1, <2>2 DEF CM!Paused, CM!SameRequest, OfTheOperator
<1>3. ASSUME NEW c \in CM!Commands
      PROVE  /\ CM!V5(old)[c] \in CM!Mappings
             /\ OfTheOperator(old[c]) => CM!V5(old)[c] = old[c]
  <2>1. old[c] \in CM!Mappings
    OBVIOUS
  <2>2. /\ CM!Wrapped(old[c]) \in CM!Mappings
        /\ OfTheOperator(old[c]) => CM!Wrapped(old[c]) = old[c]
    BY <1>1, <2>1
  <2>3. /\ CM!Paused(CM!Wrapped(old[c])) \in CM!Mappings
        /\ OfTheOperator(CM!Wrapped(old[c])) =>
             CM!Paused(CM!Wrapped(old[c])) = CM!Wrapped(old[c])
    BY <1>2, <2>2
  <2> QED
      BY <2>2, <2>3 DEF CM!V5
<1>4. CM!V5(old) = [c \in CM!Commands |-> CM!V5(old)[c]]
      BY DEF CM!V5
<1> QED
    BY <1>3, <1>4 DEF Follows

(* However old the file is, its migration leaves the operator's requests.  *)
LEMMA MigratedFollows ==
  ASSUME NEW doc \in CM!Documents
  PROVE  Follows(doc.map, CM!Migrated(doc))
<1> DEFINE three == IF doc.schema < 3 THEN CM!V3(doc.map) ELSE doc.map
           four == IF doc.schema < 4 THEN CM!V4(three) ELSE three
           five == IF doc.schema < 5 THEN CM!V5(four) ELSE four
<1>0. doc.map \in [CM!Commands -> CM!Mappings]
      BY DEF CM!Documents
<1>1. Follows(doc.map, three)
      BY <1>0, V3Follows DEF Follows
<1> HIDE DEF three
<1>2. Follows(three, four)
      BY <1>1, V4Follows DEF Follows
<1> HIDE DEF four
<1>3. Follows(four, five)
      BY <1>2, V5Follows DEF Follows
<1> HIDE DEF five
<1>4. Follows(five, CM!LinearDefaults(five))
      BY <1>3, DefaultsFollow DEF Follows
<1>5. Follows(doc.map, CM!LinearDefaults(five))
      BY <1>1, <1>2, <1>3, <1>4 DEF Follows
<1> QED
    BY <1>5 DEF CM!Migrated, three, four, five

LEMMA DefaultMapIsMap == CM!DefaultMap \in [CM!Commands -> CM!Mappings]
<1>1. [c \in CM!Commands |-> CM!Blank] \in [CM!Commands -> CM!Mappings]
      BY BlankIsMapping
<1> QED
    BY <1>1, DefaultsFollow DEF CM!DefaultMap, Follows

(* What this firmware writes the next boot reads back unchanged.           *)
LEMMA CurrentKeeps ==
  ASSUME NEW m \in [CM!Commands -> CM!Mappings]
  PROVE  CM!Current(m) \in CM!Documents /\ BootMap(CM!Current(m)) = m
<1>1. CM!Current(m) \in CM!Documents
      BY DEF CM!Current, CM!Documents, CM!COMMAND_SCHEMA_VERSION
<1>2. CM!Current(m) # NoStored
      BY <1>1, StoreAssumption
<1> QED
    BY <1>1, <1>2 DEF BootMap, CM!Current, CM!COMMAND_SCHEMA_VERSION

LEMMA BootMapIsMap ==
  ASSUME NEW file, file = NoStored \/ file \in CM!Documents
  PROVE  BootMap(file) \in [CM!Commands -> CM!Mappings]
BY DefaultMapIsMap, MigratedFollows DEF BootMap, Follows, CM!Documents

LEMMA MapStarts == CM!Init => MapInv
<1> SUFFICES ASSUME CM!Init PROVE MapInv
    OBVIOUS
<1>1. CM!Blank \in CM!Mappings
      BY BlankIsMapping
<1>2. commandFile = NoStored \/ commandFile \in CM!Documents
      BY StoreAssumption DEF CM!Init, CM!Documents
<1> QED
    BY <1>1, <1>2 DEF CM!Init, MapInv, CM!SavedOnce

(* A boot gives what the file is read as, and the file will be read as     *)
(* that again.                                                             *)
LEMMA BootReadsMap ==
  ASSUME MapInv, CM!BootWithoutMap \/ CM!LoadCommandMap
  PROVE  commandMap' = BootMap(commandFile) /\ MapInv'
<1> DEFINE m == BootMap(commandFile)
<1>1. m \in [CM!Commands -> CM!Mappings]
      BY BootMapIsMap DEF MapInv
<1>2. /\ commandMap' = m
      /\ commandFile' = commandFile \/ commandFile' = CM!Current(m)
      BY DEF CM!BootWithoutMap, CM!LoadCommandMap, CM!Written, BootMap
<1> HIDE DEF m
<1>3. CM!Current(m) \in CM!Documents /\ BootMap(CM!Current(m)) = m
      BY <1>1, CurrentKeeps
<1>4. BootMap(commandFile)' = m
  <2>1. BootMap(commandFile)' = BootMap(commandFile')
        BY DEF BootMap
  <2> QED
      BY <1>2, <1>3, <2>1 DEF m
<1> QED
    BY <1>1, <1>2, <1>3, <1>4 DEF MapInv, m

LEMMA MapSteps == MapInv /\ [CM!Next]_CM!vars => MapInv'
<1> SUFFICES ASSUME MapInv, [CM!Next]_CM!vars PROVE MapInv'
    OBVIOUS
<1>1. CASE CM!BootWithoutMap \/ CM!LoadCommandMap
      BY <1>1, BootReadsMap
<1>2. CASE CM!Restart \/ UNCHANGED CM!vars
      BY <1>2 DEF CM!Restart, CM!vars, MapInv, CM!SavedOnce, BootMap
<1>3. ASSUME NEW c \in CM!Commands, NEW m \in CommandEdits, CM!SaveCommandMap(c, m)
      PROVE  MapInv'
  <2>1. commandMap' \in [CM!Commands -> CM!Mappings] /\ commandFile' = CM!Current(commandMap')
        BY <1>3, StoreAssumption DEF CM!SaveCommandMap, MapInv
  <2>2. CM!Current(commandMap') \in CM!Documents /\ BootMap(CM!Current(commandMap')) = commandMap'
        BY <2>1, CurrentKeeps
  <2>3. BootMap(commandFile)' = BootMap(commandFile')
        BY DEF BootMap
  <2> QED
      BY <2>1, <2>2, <2>3 DEF MapInv
<1> QED
    BY <1>1, <1>2, <1>3 DEF CM!Next

(* What the next boot will make of the command file is the map in use,     *)
(* through migrations, failed writes and restarts.                         *)
THEOREM MapInvariant == StoreSpec => []MapInv
<1> QED
    BY StoreImplementsParts, MapStarts, MapSteps, PTL DEF CM!Spec

LEMMA BootIsARead ==
  ASSUME [CM!Next]_CM!vars, ~running, running'
  PROVE  CM!BootWithoutMap \/ CM!LoadCommandMap
BY DEF CM!Next, CM!vars, CM!Restart, CM!SaveCommandMap

(* The commands do after a restart what they did before it: no default     *)
(* comes back to a command the operator blanked, and a migration that      *)
(* could not be written is repeated with the same result.                  *)
THEOREM RestartAlwaysKeepsMap == StoreSpec => RestartKeepsMap
<1>1. MapInv /\ [CM!Next]_CM!vars =>
        [ (~running /\ running' /\ CM!SavedOnce) => commandMap' = commandMap ]_CM!vars
      BY BootIsARead, BootReadsMap DEF MapInv
<1> QED
    BY <1>1, MapInvariant, StoreImplementsParts, PTL
    DEF CM!Spec, RestartKeepsMap, CM!RestartKeepsMap

(* An upgrade of the firmware replaces neither an HTTP request nor a       *)
(* /linear method of the operator's own, whatever version wrote the file.  *)
THEOREM UpgradeAlwaysKeepsRequests == StoreSpec => UpgradeKeepsRequests
<1>1. MapInv /\ [CM!Next]_CM!vars =>
        [ (~running /\ running' /\ commandFile # NoStored) =>
            \A c \in CM!Commands :
              \/ commandFile.map[c].rpc = "Button.SendKeys" \/ CM!Untouched(commandFile.map[c])
              \/ commandMap'[c] = commandFile.map[c] ]_CM!vars
  <2> SUFFICES ASSUME MapInv, [CM!Next]_CM!vars, ~running, running', commandFile # NoStored,
                      NEW c \in CM!Commands, OfTheOperator(commandFile.map[c])
               PROVE  commandMap'[c] = commandFile.map[c]
      BY DEF OfTheOperator
  <2>1. commandMap' = BootMap(commandFile) /\ commandFile \in CM!Documents
        BY BootIsARead, BootReadsMap DEF MapInv
  <2>2. Follows(commandFile.map, CM!Migrated(commandFile))
        BY <2>1, MigratedFollows
  <2> QED
      BY <2>1, <2>2 DEF BootMap, Follows
<1> QED
    BY <1>1, MapInvariant, StoreImplementsParts, PTL
    DEF CM!Spec, UpgradeKeepsRequests, CM!UpgradeKeepsRequests

-----------------------------------------------------------------------------
(***************************************************************************)
(* Folds.  A fold over a sequence is the value of a recursive function at  *)
(* the set of its positions; what it has folded after k of them is given   *)
(* by induction, from the well-foundedness of < on Nat.                    *)
(***************************************************************************)

(* Induction up to a number, for the members of a set.                     *)
LEMMA UpTo ==
  ASSUME NEW n \in Nat, NEW B, 0 \in B,
         \A k \in 1..n : k - 1 \in B => k \in B
  PROVE  \A k \in 0..n : k \in B
<1> DEFINE out == {k \in 0..n : k \notin B}
<1> SUFFICES ASSUME out # {} PROVE FALSE
  OBVIOUS
<1>1. PICK k \in out : \A j \in out : ~(<<j, k>> \in OpToRel(<, Nat))
  <2>1. out \subseteq Nat
    OBVIOUS
  <2> HIDE DEF out
  <2> QED  BY <2>1, NatLessThanWellFounded, WFMin
<1>2. k \in 1..n /\ k - 1 \in 0..n
  OBVIOUS
<1>3. k - 1 \notin B
  BY <1>2
<1>4. k - 1 \in out /\ k - 1 < k /\ k \in Nat /\ k - 1 \in Nat
  BY <1>2, <1>3
<1>5. <<k - 1, k>> \in OpToRel(<, Nat)
  BY <1>4 DEF OpToRel
<1> QED  BY <1>1, <1>4, <1>5

Top(s) == CHOOSE x \in s : \A y \in s : x >= y

LEMMA TopOf ==
  ASSUME NEW n \in Nat, NEW s \in SUBSET (1..n), s # {}
  PROVE  Top(s) \in s /\ \A y \in s : y <= Top(s)
<1> DEFINE has(k) == (\E x \in s : x >= n - k) => \E m \in s : \A y \in s : m >= y
           B == {k \in 0..n : has(k)}
<1>1. 0 \in B
  OBVIOUS
<1>2. ASSUME NEW k \in 1..n, k - 1 \in B PROVE k \in B
  <2>1. CASE \E x \in s : x >= n - (k - 1)
    BY <1>2, <2>1
  <2>2. CASE ~ \E x \in s : x >= n - (k - 1)
    BY <1>2, <2>2
  <2> QED  BY <2>1, <2>2
<1>3. n \in B
  <2> HIDE DEF B
  <2> QED  BY <1>1, <1>2, UpTo
<1>4. \E x \in s : x >= n - n
  <2>1. PICK x \in s : TRUE
    OBVIOUS
  <2>2. x \in 1..n /\ n - n = 0
    OBVIOUS
  <2>3. x >= n - n
    BY <2>2
  <2> QED  BY <2>3
<1>5. \E m \in s : \A y \in s : m >= y
  <2>1. has(n)
    BY <1>3
  <2> QED  BY <2>1, <1>4
<1>6. Top(s) \in s /\ \A y \in s : Top(s) >= y
  BY <1>5 DEF Top
<1> QED  BY <1>6

(* The top of the numbers up to k is k, and that of what k tops off too.   *)
LEMMA TopIs ==
  ASSUME NEW n \in Nat, NEW s \in SUBSET (1..n), NEW k \in s, \A y \in s : y <= k
  PROVE  Top(s) = k
<1> DEFINE t == Top(s)
<1>1. t \in s /\ t <= k /\ k <= t
  BY TopOf
<1>2. t \in Int /\ k \in Int
  <2>1. \A x \in s : x \in Int
    OBVIOUS
  <2> HIDE DEF t
  <2> QED  BY <1>1, <2>1
<1> HIDE DEF t
<1>3. t = k
  BY <1>1, <1>2
<1> QED  BY <1>3 DEF t

LEMMA TopOfAll ==
  ASSUME NEW k \in Nat \ {0}
  PROVE  /\ 1..k # {} /\ Top(1..k) = k /\ (1..k) \ {k} = 1..(k - 1)
<1>1. k \in 1..k /\ \A y \in 1..k : y <= k
  OBVIOUS
<1>2. Top(1..k) = k
  BY <1>1, TopIs
<1> QED  BY <1>1, <1>2

(* A function over the sets of positions that folds step from the left, as *)
(* FoldLeft does: the highest position is folded last.                     *)
Folds(g, step, base, n) ==
  /\ g[{}] = base
  /\ \A s \in SUBSET (1..n) : s # {} => g[s] = step[Top(s)][g[s \ {Top(s)}]]

LEMMA FoldExists ==
  ASSUME NEW n \in Nat, NEW A, NEW base \in A, NEW step \in [1..n -> [A -> A]]
  PROVE  \E g \in [SUBSET (1..n) -> A] : Folds(g, step, base, n)
<1> DEFINE B == {k \in 0..n : \E g \in [SUBSET (1..k) -> A] : Folds(g, step, base, k)}
<1>1. 0 \in B
  <2> DEFINE g == [s \in SUBSET (1..0) |-> base]
  <2>1. 1..0 = {} /\ SUBSET (1..0) = {{}}
    OBVIOUS
  <2>2. g \in [SUBSET (1..0) -> A] /\ Folds(g, step, base, 0)
    BY <2>1 DEF Folds
  <2> QED  BY <2>2
<1>2. ASSUME NEW k \in 1..n, k - 1 \in B PROVE k \in B
  <2>1. PICK g \in [SUBSET (1..(k - 1)) -> A] : Folds(g, step, base, k - 1)
    BY <1>2
  <2> DEFINE h == [s \in SUBSET (1..k) |-> IF k \in s THEN step[k][g[s \ {k}]] ELSE g[s]]
  <2>2. \A s \in SUBSET (1..k) : /\ k \notin s => s \in SUBSET (1..(k - 1))
                               /\ s \ {k} \in SUBSET (1..(k - 1))
    OBVIOUS
  <2>3. h[{}] = base
    BY <2>1 DEF Folds
  <2>4. ASSUME NEW s \in SUBSET (1..k), s # {}
        PROVE  h[s] = step[Top(s)][h[s \ {Top(s)}]]
    <3>1. CASE k \in s
      <4>1. Top(s) = k
        <5>1. k \in Nat /\ k \in s /\ \A y \in s : y <= k
          BY <3>1
        <5> QED  BY <5>1, TopIs
      <4>2. h[s \ {k}] = g[s \ {k}]
        OBVIOUS
      <4> QED  BY <3>1, <4>1, <4>2
    <3>2. CASE k \notin s
      <4>1. /\ s \in SUBSET (1..(k - 1)) /\ Top(s) \in s
        <5>1. k \in Nat
          OBVIOUS
        <5> QED  BY <5>1, <3>2, <2>2, <2>4, TopOf
      <4>2. g[s] = step[Top(s)][g[s \ {Top(s)}]]
        BY <2>1, <2>4, <4>1 DEF Folds
      <4>3. h[s] = g[s] /\ h[s \ {Top(s)}] = g[s \ {Top(s)}]
        BY <3>2, <4>1
      <4> QED  BY <4>2, <4>3
    <3> QED  BY <3>1, <3>2
  <2>5. h \in [SUBSET (1..k) -> A]
    <3>1. step[k] \in [A -> A]
      OBVIOUS
    <3> QED  BY <3>1, <2>2
  <2>6. Folds(h, step, base, k)
    <3> HIDE DEF h
    <3> QED  BY <2>3, <2>4 DEF Folds
  <2>7. k \in 0..n
    OBVIOUS
  <2> HIDE DEF h
  <2> QED  BY <2>5, <2>6, <2>7
<1>3. n \in B
  <2> HIDE DEF B
  <2>1. \A k \in 0..n : k \in B
    BY <1>1, <1>2, UpTo
  <2> QED  BY <2>1
<1> QED  BY <1>3

(* What a fold gives for the first k positions, if it is one as long as it *)
(* stays in A.                                                             *)
FoldsWithin(A, g, step, base, n) ==
  /\ g[{}] = base
  /\ \A s \in SUBSET (1..n) : s # {} /\ g[s \ {Top(s)}] \in A =>
       g[s] = step[Top(s)][g[s \ {Top(s)}]]

RunOf(r, g, step, base, n) ==
  /\ r[0] = base /\ r[n] = g[1..n]
  /\ \A k \in 1..n : r[k] = step[k][r[k - 1]]

LEMMA FoldSteps ==
  ASSUME NEW n \in Nat, NEW A, NEW base \in A, NEW step \in [1..n -> [A -> A]],
         NEW g, FoldsWithin(A, g, step, base, n)
  PROVE  \E r \in [0..n -> A] : RunOf(r, g, step, base, n)
<1> DEFINE r == [k \in 0..n |-> g[1..k]]
           B == {k \in 0..n : g[1..k] \in A}
<1>1. 1..0 = {} /\ g[{}] = base
  BY DEF FoldsWithin
<1>2. ASSUME NEW k \in 1..n, g[1..(k - 1)] \in A
      PROVE  g[1..k] = step[k][g[1..(k - 1)]]
  <2>1. 1..k # {} /\ Top(1..k) = k /\ (1..k) \ {k} = 1..(k - 1)
    <3>1. k \in Nat \ {0}
      OBVIOUS
    <3> QED  BY <3>1, TopOfAll
  <2>2. 1..k \in SUBSET (1..n)
    OBVIOUS
  <2> QED  BY <1>2, <2>1, <2>2 DEF FoldsWithin
<1>3. \A k \in 0..n : k \in B
  <2>1. 0 \in B
    BY <1>1
  <2>2. ASSUME NEW k \in 1..n, k - 1 \in B PROVE k \in B
    <3>1. g[1..(k - 1)] \in A /\ step[k] \in [A -> A] /\ k \in 0..n
      BY <2>2
    <3> QED  BY <3>1, <1>2
  <2> HIDE DEF B
  <2> QED  BY <2>1, <2>2, UpTo
<1>4. r \in [0..n -> A]
  BY <1>3
<1>5. r[0] = base /\ r[n] = g[1..n]
  BY <1>1
<1>6. \A k \in 1..n : r[k] = step[k][r[k - 1]]
  <2>1. \A k \in 1..n : k \in 0..n /\ k - 1 \in 0..n
    OBVIOUS
  <2>2. \A k \in 1..n : g[1..(k - 1)] \in A
    BY <2>1, <1>3
  <2> QED  BY <1>2, <2>1, <2>2
<1> HIDE DEF r
<1> QED  BY <1>4, <1>5, <1>6 DEF RunOf

-----------------------------------------------------------------------------
(***************************************************************************)
(* The trigger slots.  canonicalizeVsmGroup goes through the claims to     *)
(* slots one by one; a slot gets the first of those to it, which is the    *)
(* entry the documentation means by it, for every map.                     *)
(***************************************************************************)

LEMMA SlotCounts ==
  /\ TriggerCount \in Nat \ {0} /\ VS!Slots = 1..TriggerCount
BY StoreAssumption DEF VS!Slots

ClaimsOf(input) == VS!NamedClaims(input) \o VS!ClaimsByPosition(input)

LEMMA ClaimsAre ==
  ASSUME NEW m \in Nat, NEW V, NEW input \in [1..m -> V]
  PROVE  /\ Len(input) = m
         /\ DOMAIN ClaimsOf(input) = 1..(m + TriggerCount)
         /\ \A i \in 1..m : ClaimsOf(input)[i] = VS!NamedClaims(input)[i]
         /\ \A i \in 1..TriggerCount :
              ClaimsOf(input)[m + i] = VS!ClaimsByPosition(input)[i]
<1> DEFINE named == VS!NamedClaims(input)  own == VS!ClaimsByPosition(input)
<1>1. named = [i \in 1..m |->
        [slot |-> IF VS!ValidSlot(input[i]) THEN input[i].slot ELSE VS!NoSlot, entry |-> i]]
  BY DEF VS!NamedClaims
<1>2. \E v : own = [i \in 1..TriggerCount |-> v[i]]
  <2>1. own = [n \in 1..TriggerCount |-> own[n]]
    BY SlotCounts DEF VS!ClaimsByPosition
  <2> QED  BY <2>1
<1>3. Len(input) = m /\ Len(named) = m /\ Len(own) = TriggerCount
  BY <1>1, <1>2, SlotCounts
<1>4. PICK S : named \in Seq(S) /\ own \in Seq(S)
  <2> DEFINE S == {named[i] : i \in 1..m} \cup {own[i] : i \in 1..TriggerCount}
  <2>1. \A i \in 1..m : named[i] \in S
    OBVIOUS
  <2>2. \A i \in 1..TriggerCount : own[i] \in S
    OBVIOUS
  <2>3. named = [i \in 1..m |-> named[i]] /\ own = [i \in 1..TriggerCount |-> own[i]]
    BY <1>1, <1>2
  <2> HIDE DEF S, named, own
  <2>4. named \in [1..m -> S] /\ own \in [1..TriggerCount -> S]
    BY <2>1, <2>2, <2>3
  <2>5. \A k \in Nat : [1..k -> S] \subseteq Seq(S)
    OBVIOUS
  <2> QED  BY <2>4, <2>5, SlotCounts
<1> HIDE DEF named, own
<1>5. ClaimsOf(input) = named \o own
  BY DEF ClaimsOf, named, own
<1>6. \A p, q \in Seq(S) :
         /\ DOMAIN (p \o q) = 1..(Len(p) + Len(q))
         /\ \A i \in 1..Len(p) : (p \o q)[i] = p[i]
         /\ \A i \in 1..Len(q) : (p \o q)[Len(p) + i] = q[i]
  OBVIOUS
<1>7. /\ DOMAIN (named \o own) = 1..(m + TriggerCount)
      /\ \A i \in 1..m : (named \o own)[i] = named[i]
      /\ \A i \in 1..TriggerCount : (named \o own)[m + i] = own[i]
  <2>1. /\ DOMAIN (named \o own) = 1..(Len(named) + Len(own))
        /\ \A i \in 1..Len(named) : (named \o own)[i] = named[i]
        /\ \A i \in 1..Len(own) : (named \o own)[Len(named) + i] = own[i]
    BY <1>4, <1>6
  <2> QED  BY <1>3, <2>1
<1> QED  BY <1>3, <1>5, <1>7 DEF named, own

(* Every claim is for a slot or for none, by a position of the map.        *)
Claimable(input, n) ==
  /\ DOMAIN ClaimsOf(input) = 1..n
  /\ \A i \in 1..n : /\ ClaimsOf(input)[i].slot \in VS!Slots \cup {0}
                    /\ ClaimsOf(input)[i].entry \in Nat \ {0}

(* selected, claim by claim.                                               *)
Selects(r, input, n) ==
  /\ r \in [0..n -> [VS!Slots -> Nat]]
  /\ r[0] = VS!Unclaimed /\ r[n] = VS!Selected(input)
  /\ \A k \in 1..n : LET claim == ClaimsOf(input)[k]
                     IN  r[k] = IF VS!Claims(claim, r[k - 1])
                                THEN [r[k - 1] EXCEPT ![claim.slot] = claim.entry]
                                ELSE r[k - 1]

LEMMA SelectedSteps ==
  ASSUME NEW n \in Nat, NEW input, Claimable(input, n)
  PROVE  \E r : Selects(r, input, n)
<1> DEFINE claims == ClaimsOf(input)
           A == [VS!Slots -> Nat]
           Op(i, a) == IF VS!Claims(claims[i], a)
                       THEN [a EXCEPT ![claims[i].slot] = claims[i].entry] ELSE a
           step == [i \in 1..n |-> [a \in A |-> Op(i, a)]]
           Sol(g) == g = [s \in SUBSET (1..n) |->
                            IF s = {} THEN VS!Unclaimed ELSE Op(Top(s), g[s \ {Top(s)}])]
           iter == CHOOSE g : Sol(g)
<1>1. VS!Selected(input) = iter[1..n]
  BY DEF VS!Selected, VS!FoldLeft, VS!MapThenFoldSet, VS!Max, Top, ClaimsOf, Claimable
<1>2. VS!Unclaimed \in A
  BY DEF VS!Unclaimed
<1>3. step \in [1..n -> [A -> A]]
  BY DEF Claimable
<1>4. \E g : Sol(g)
  <2> HIDE DEF A, step, Op
  <2>1. PICK g \in [SUBSET (1..n) -> A] : Folds(g, step, VS!Unclaimed, n)
    BY <1>2, <1>3, FoldExists
  <2>2. ASSUME NEW s \in SUBSET (1..n), s # {}
        PROVE  g[s] = Op(Top(s), g[s \ {Top(s)}])
    <3>1. Top(s) \in 1..n /\ g[s \ {Top(s)}] \in A
      BY <2>2, TopOf
    <3> QED  BY <2>1, <2>2, <3>1 DEF Folds, step
  <2>3. Sol(g)
    BY <2>1, <2>2 DEF Folds
  <2> QED  BY <2>3
<1>5. Sol(iter)
  BY <1>4
<1> HIDE DEF iter
<1>6. FoldsWithin(A, iter, step, VS!Unclaimed, n)
  <2> HIDE DEF A, Op
  <2>1. iter[{}] = VS!Unclaimed
    BY <1>5
  <2>2. ASSUME NEW s \in SUBSET (1..n), s # {}, iter[s \ {Top(s)}] \in A
        PROVE  iter[s] = step[Top(s)][iter[s \ {Top(s)}]]
    <3>1. Top(s) \in 1..n
      BY <2>2, TopOf
    <3>2. iter[s] = Op(Top(s), iter[s \ {Top(s)}])
      BY <1>5, <2>2
    <3> QED  BY <2>2, <3>1, <3>2
  <2> HIDE DEF step
  <2> QED  BY <2>1, <2>2 DEF FoldsWithin
<1>7. PICK r \in [0..n -> A] : RunOf(r, iter, step, VS!Unclaimed, n)
  <2> HIDE DEF A, step
  <2> QED  BY <1>2, <1>3, <1>6, FoldSteps
<1>8. \A k \in 1..n : r[k] = Op(k, r[k - 1])
  <2>1. \A k \in 1..n : r[k - 1] \in A
    OBVIOUS
  <2> HIDE DEF A, Op
  <2> QED  BY <1>7, <2>1 DEF RunOf
<1> QED  BY <1>1, <1>7, <1>8 DEF RunOf, Selects

(* The first claim to a slot among the first k.                            *)
Won(input, k, n, i) ==
  /\ i \in 1..k /\ ClaimsOf(input)[i].slot = n
  /\ \A j \in 1..(i - 1) : ClaimsOf(input)[j].slot # n

LEMMA SelectedIsFirst ==
  ASSUME NEW N \in Nat, NEW input, Claimable(input, N), NEW n \in VS!Slots
  PROVE  \/ VS!Selected(input)[n] = 0 /\ \A i \in 1..N : ClaimsOf(input)[i].slot # n
         \/ \E i \in 1..N : Won(input, N, n, i) /\ VS!Selected(input)[n] = ClaimsOf(input)[i].entry
<1> DEFINE c == ClaimsOf(input)
<1>0. \A i \in 1..N : c[i].slot \in VS!Slots \cup {0} /\ c[i].entry \in Nat \ {0}
  BY DEF Claimable
<1>1. PICK r : Selects(r, input, N)
  BY SelectedSteps
<1> DEFINE Here(k) == \/ r[k][n] = 0 /\ \A i \in 1..k : c[i].slot # n
                      \/ \E i \in 1..k : Won(input, k, n, i) /\ r[k][n] = c[i].entry
           B == {k \in 0..N : Here(k)}
<1>2. 0 \in B
  BY <1>1 DEF VS!Unclaimed, Selects
<1>3. ASSUME NEW k \in 1..N, k - 1 \in B PROVE k \in B
  <2>0. /\ Here(k - 1) /\ k - 1 \in 0..N /\ k \in 0..N
        /\ r[k - 1] \in [VS!Slots -> Nat] /\ VS!Slots \subseteq Nat \ {0}
        /\ c[k].slot \in VS!Slots \cup {0} /\ c[k].entry \in Nat \ {0}
        /\ n \in Nat \ {0}
    <3>1. Here(k - 1)
      BY <1>3
    <3>2. k - 1 \in 0..N /\ k \in 0..N
      OBVIOUS
    <3>3. r[k - 1] \in [VS!Slots -> Nat]
      BY <1>1, <3>2 DEF Selects
    <3>4. VS!Slots \subseteq Nat \ {0} /\ n \in Nat \ {0}
      BY SlotCounts
    <3>5. c[k].slot \in VS!Slots \cup {0} /\ c[k].entry \in Nat \ {0}
      BY <1>0
    <3> QED  BY <3>1, <3>2, <3>3, <3>4, <3>5
  <2>1. \A i : Won(input, k - 1, n, i) => Won(input, k, n, i)
    BY DEF Won
  <2>2. CASE VS!Claims(c[k], r[k - 1]) /\ c[k].slot = n
    <3>1. r[k][n] = c[k].entry /\ r[k - 1][n] = 0
      BY <1>1, <2>0, <2>2 DEF VS!Claims, Selects
    <3>2. \A i \in 1..(k - 1) : c[i].slot # n
      <4>1. \A i \in 1..(k - 1) : c[i].entry # 0
        BY <1>0
      <4> QED  BY <2>0, <3>1, <4>1
    <3>3. Won(input, k, n, k)
      BY <2>2, <3>2 DEF Won
    <3> QED  BY <2>0, <3>1, <3>3
  <2>3. CASE ~(VS!Claims(c[k], r[k - 1]) /\ c[k].slot = n)
    <3>1. r[k][n] = r[k - 1][n]
      BY <1>1, <2>0, <2>3 DEF VS!Claims, VS!NoSlot, Selects
    <3>2. CASE r[k - 1][n] = 0 /\ \A i \in 1..(k - 1) : c[i].slot # n
      <4>1. c[k].slot # n
        BY <2>0, <2>3, <3>2 DEF VS!Claims, VS!NoSlot
      <4>2. \A i \in 1..k : c[i].slot # n
        BY <3>2, <4>1
      <4> QED  BY <2>0, <3>1, <3>2, <4>2
    <3>3. CASE \E i \in 1..(k - 1) : Won(input, k - 1, n, i) /\ r[k - 1][n] = c[i].entry
      BY <2>0, <2>1, <3>1, <3>3
    <3> QED  BY <2>0, <3>2, <3>3
  <2> QED  BY <2>2, <2>3
<1>4. N \in B
  <2> HIDE DEF B
  <2>1. \A k \in 0..N : k \in B
    BY <1>2, <1>3, UpTo
  <2> QED  BY <2>1
<1> QED  BY <1>1, <1>4 DEF Selects

(* The claims of a map: those of its entries, then one for each slot.      *)
ClaimsFit(input, m) ==
  /\ Len(input) = m
  /\ \A i \in 1..m :
       /\ ClaimsOf(input)[i].slot = IF VS!ValidSlot(input[i]) THEN input[i].slot ELSE 0
       /\ ClaimsOf(input)[i].entry = i
  /\ \A n \in VS!Slots :
       /\ ClaimsOf(input)[m + n].slot =
            IF n <= m /\ input[n] # NoObject /\ ~VS!ValidSlot(input[n]) THEN n ELSE 0
       /\ ClaimsOf(input)[m + n].entry = n

LEMMA InputClaims ==
  ASSUME NEW m \in Nat, NEW V, NEW input \in [1..m -> V]
  PROVE  ClaimsFit(input, m) /\ Claimable(input, m + TriggerCount)
<1> DEFINE c == ClaimsOf(input)  N == m + TriggerCount
<1>1. Len(input) = m /\ DOMAIN c = 1..N
  BY ClaimsAre
<1>2. \A i \in 1..m : /\ c[i].slot = IF VS!ValidSlot(input[i]) THEN input[i].slot ELSE 0
                      /\ c[i].entry = i
  <2>1. \A i \in 1..m : c[i] = VS!NamedClaims(input)[i]
    BY ClaimsAre
  <2>2. VS!NamedClaims(input) =
          [i \in 1..m |-> [slot |-> IF VS!ValidSlot(input[i]) THEN input[i].slot ELSE 0,
                          entry |-> i]]
    BY DEF VS!NamedClaims, VS!NoSlot
  <2> HIDE DEF c
  <2> QED  BY <2>1, <2>2
<1>3. \A n \in VS!Slots :
        /\ c[m + n].slot = IF n <= m /\ input[n] # NoObject /\ ~VS!ValidSlot(input[n]) THEN n ELSE 0
        /\ c[m + n].entry = n
  <2>1. \A n \in VS!Slots : c[m + n] = VS!ClaimsByPosition(input)[n]
    BY ClaimsAre, SlotCounts
  <2>2. VS!ClaimsByPosition(input) =
          [n \in VS!Slots |->
            [slot |-> IF n <= m /\ input[n] # NoObject /\ ~VS!ValidSlot(input[n]) THEN n ELSE 0,
             entry |-> n]]
    BY <1>1 DEF VS!ClaimsByPosition, VS!NoSlot
  <2> HIDE DEF c
  <2> QED  BY <2>1, <2>2
<1>4. ASSUME NEW i \in 1..N PROVE c[i].slot \in VS!Slots \cup {0} /\ c[i].entry \in Nat \ {0}
  <2>1. CASE i \in 1..m
    BY <1>2, <2>1 DEF VS!ValidSlot
  <2>2. CASE i \notin 1..m
    <3>1. i - m \in VS!Slots /\ m + (i - m) = i
      BY <2>2, SlotCounts
    <3>2. c[i].slot \in VS!Slots \cup {0} /\ c[i].entry = i - m
      BY <1>3, <3>1
    <3> QED  BY <3>1, <3>2, SlotCounts
  <2> QED  BY <2>1, <2>2
<1> HIDE DEF c
<1> QED  BY <1>1, <1>2, <1>3, <1>4 DEF Claimable, ClaimsFit, c

LEMMA MinIs ==
  ASSUME NEW S, S \subseteq Nat, NEW k \in S, \A y \in S : k <= y
  PROVE  VS!Min(S) = k
<1> DEFINE t == VS!Min(S)
<1>1. t \in S /\ k <= t /\ t <= k
  BY DEF VS!Min
<1>2. t \in Int /\ k \in Int
  <2> HIDE DEF t
  <2> QED  BY <1>1
<1> HIDE DEF t
<1>3. t = k
  BY <1>1, <1>2
<1> QED  BY <1>3 DEF t

(* Claim by claim, the slots get what the map means by them.               *)
LEMMA CanonicalMeans ==
  ASSUME NEW m \in Nat, NEW V, NEW input \in [1..m -> V], NEW n \in VS!Slots
  PROVE  VS!Canonical(input)[n] = [slot |-> n, value |-> VS!Meant(input, n)]
<1> DEFINE c == ClaimsOf(input)  N == m + TriggerCount
           explicit == {i \in 1..m : input[i] # NoObject /\ input[i].slot = n}
           own == n <= m /\ input[n] # NoObject /\ input[n].slot \notin VS!Slots
           w == VS!Selected(input)[n]
<1>1. /\ Len(input) = m /\ Claimable(input, N) /\ N \in Nat /\ n \in 1..TriggerCount
      /\ \A i \in 1..m : c[i].slot = (IF VS!ValidSlot(input[i]) THEN input[i].slot ELSE 0)
      /\ \A i \in 1..m : c[i].entry = i
      /\ \A j \in VS!Slots :
           c[m + j].slot =
             (IF j <= m /\ input[j] # NoObject /\ ~VS!ValidSlot(input[j]) THEN j ELSE 0)
      /\ \A j \in VS!Slots : c[m + j].entry = j
  <2>1. N \in Nat /\ n \in 1..TriggerCount
    BY SlotCounts
  <2>2. ClaimsFit(input, m) /\ Claimable(input, N)
    BY InputClaims
  <2> HIDE DEF N
  <2> QED  BY <2>1, <2>2 DEF ClaimsFit
<1>2. \A i \in 1..m : c[i].slot = n <=> i \in explicit
  BY <1>1 DEF VS!ValidSlot
<1>3. \A j \in VS!Slots : c[m + j].slot = n <=> j = n /\ own
  BY <1>1 DEF VS!ValidSlot
<1>4. VS!Meant(input, n) = IF explicit # {} THEN input[VS!Min(explicit)].value
                           ELSE IF own THEN input[n].value ELSE VS!Unmapped
  BY <1>1 DEF VS!Meant
<1>5. VS!Canonical(input)[n] =
        [slot |-> n, value |-> IF w = 0 THEN VS!Unmapped ELSE input[w].value]
  BY DEF VS!Canonical
<1>6. \/ w = 0 /\ \A i \in 1..N : c[i].slot # n
      \/ \E i \in 1..N : Won(input, N, n, i) /\ w = c[i].entry
  BY <1>1, SelectedIsFirst
<1> HIDE DEF c, w, explicit, own
<1>7. CASE w = 0 /\ \A i \in 1..N : c[i].slot # n
  <2>1. explicit = {}
    <3>1. \A i \in 1..m : i \in 1..N
      BY <1>1, SlotCounts
    <3> QED  BY <3>1, <1>2, <1>7 DEF explicit
  <2>2. ~own
    <3>1. m + n \in 1..N
      BY <1>1, SlotCounts
    <3> QED  BY <3>1, <1>3, <1>7
  <2> QED  BY <1>4, <1>5, <1>7, <2>1, <2>2
<1>8. ASSUME NEW i \in 1..N, Won(input, N, n, i), w = c[i].entry
      PROVE  VS!Canonical(input)[n] = [slot |-> n, value |-> VS!Meant(input, n)]
  <2>1. c[i].slot = n /\ \A j \in 1..(i - 1) : c[j].slot # n
    BY <1>8 DEF Won, c
  <2>2. CASE i \in 1..m
    <3>1. i \in explicit /\ \A j \in explicit : i <= j
      BY <1>2, <2>1, <2>2 DEF explicit
    <3>2. explicit \subseteq Nat
      BY DEF explicit
    <3>3. VS!Min(explicit) = i
      BY <3>1, <3>2, MinIs
    <3>4. w = i /\ i # 0
      BY <1>1, <1>8, <2>2
    <3> QED  BY <1>4, <1>5, <3>1, <3>3, <3>4
  <2>3. CASE i \notin 1..m
    <3>1. i - m \in VS!Slots /\ m + (i - m) = i
      BY <2>3, <1>1, SlotCounts
    <3>2. own /\ i - m = n
      BY <1>3, <2>1, <3>1
    <3>3. explicit = {}
      <4>1. \A j \in 1..m : j \in 1..(i - 1)
        BY <2>3
      <4> QED  BY <4>1, <1>2, <2>1 DEF explicit
    <3>4. w = n /\ n # 0
      BY <1>1, <1>8, <3>1, <3>2, SlotCounts
    <3> QED  BY <1>4, <1>5, <3>2, <3>3, <3>4
  <2> QED  BY <2>2, <2>3
<1> QED  BY <1>6, <1>7, <1>8

LEMMA MinOf ==
  ASSUME NEW S, S \subseteq Nat, S # {}
  PROVE  VS!Min(S) \in S
<1> SUFFICES ASSUME ~ \E x \in S : \A y \in S : x <= y PROVE FALSE
  BY DEF VS!Min
<1>1. PICK n \in S : TRUE
  OBVIOUS
<1> DEFINE B == {k \in 0..n : \A j \in 0..k : j \notin S}
<1>2. 0 \in B
  OBVIOUS
<1>3. ASSUME NEW k \in 1..n, k - 1 \in B PROVE k \in B
  <2>1. \A j \in 0..(k - 1) : j \notin S
    BY <1>3
  <2>2. \A y \in S : k <= y
    BY <2>1
  <2>3. k \notin S
    BY <2>2
  <2> QED  BY <2>1, <2>3
<1>4. \A k \in 0..n : k \in B
  <2> HIDE DEF B
  <2> QED  BY <1>1, <1>2, <1>3, UpTo
<1> QED  BY <1>1, <1>4

(* A map that a file may hold.                                             *)
IsMap(document) == \E m \in Nat : document \in [1..m -> VS!Entries]

LEMMA MeantIsValue ==
  ASSUME NEW document, IsMap(document), NEW n \in VS!Slots
  PROVE  VS!Meant(document, n) \in VS!Values
<1>1. PICK m \in Nat : document \in [1..m -> VS!Entries]
  BY DEF IsMap
<1>2. Len(document) = m /\ n \in Nat \ {0}
  BY <1>1, SlotCounts
<1>3. \A i \in 1..m : document[i] # NoObject => document[i].value \in VS!Values
  BY <1>1 DEF VS!Entries, VS!Objects
<1>4. VS!Unmapped \in VS!Values
  BY DEF VS!Values
<1> DEFINE explicit == {i \in 1..m : document[i] # NoObject /\ document[i].slot = n}
           own == n <= m /\ document[n] # NoObject /\ document[n].slot \notin VS!Slots
<1>5. VS!Meant(document, n) = IF explicit # {} THEN document[VS!Min(explicit)].value
                              ELSE IF own THEN document[n].value ELSE VS!Unmapped
  BY <1>2 DEF VS!Meant
<1>6. explicit # {} => VS!Min(explicit) \in explicit
  BY MinOf
<1> QED  BY <1>2, <1>3, <1>4, <1>5, <1>6

(* A map whose entries name their own slots.                               *)
InOrder(document) ==
  /\ document \in [VS!Slots -> VS!Objects]
  /\ \A n \in VS!Slots : document[n].slot = n

LEMMA InOrderMeans ==
  ASSUME NEW document, InOrder(document)
  PROVE  /\ IsMap(document) /\ document # NoStored /\ document # <<>>
         /\ \A n \in VS!Slots : VS!Meant(document, n) = document[n].value
<1>1. document \in [1..TriggerCount -> VS!Objects] /\ Len(document) = TriggerCount
  BY SlotCounts DEF InOrder
<1>2. IsMap(document)
  BY <1>1, SlotCounts DEF IsMap, VS!Entries
<1>3. document # NoStored /\ document # <<>>
  BY <1>1, SlotCounts, StoreAssumption
<1>4. ASSUME NEW n \in VS!Slots PROVE VS!Meant(document, n) = document[n].value
  <2> DEFINE explicit == {i \in 1..TriggerCount : document[i] # NoObject /\ document[i].slot = n}
  <2>1. explicit = {n}
    BY <1>1, SlotCounts, StoreAssumption DEF InOrder
  <2>2. VS!Min(explicit) = n
    <3>1. n \in Nat
      BY SlotCounts
    <3> QED  BY <2>1, <3>1, MinIs
  <2> QED  BY <1>1, <2>1, <2>2 DEF VS!Meant
<1> QED  BY <1>2, <1>3, <1>4

LEMMA CanonicalInOrder ==
  ASSUME NEW input, IsMap(input)
  PROVE  /\ InOrder(VS!Canonical(input))
         /\ \A n \in VS!Slots : VS!Canonical(input)[n].value = VS!Meant(input, n)
<1>1. PICK m \in Nat : input \in [1..m -> VS!Entries]
  BY DEF IsMap
<1>2. \A n \in VS!Slots :
        VS!Canonical(input)[n] = [slot |-> n, value |-> VS!Meant(input, n)]
  BY <1>1, CanonicalMeans
<1>3. \A n \in VS!Slots : [slot |-> n, value |-> VS!Meant(input, n)] \in VS!Objects
  <2>1. \A n \in VS!Slots : n \in VS!NoSlot..(TriggerCount + 1)
    BY SlotCounts DEF VS!NoSlot
  <2> QED  BY <2>1, MeantIsValue DEF VS!Objects
<1>4. VS!Canonical(input) = [n \in VS!Slots |-> VS!Canonical(input)[n]]
  BY DEF VS!Canonical
<1> QED  BY <1>2, <1>3, <1>4 DEF InOrder

LEMMA FactoryInOrder == InOrder(VS!Factory)
<1>1. \A n \in VS!Slots : n \in VS!NoSlot..(TriggerCount + 1) /\ FactoryTriggers[n] \in VS!Values
  BY SlotCounts, StoreAssumption DEF VS!NoSlot
<1> QED  BY <1>1 DEF InOrder, VS!Factory, VS!Objects

(* What triggers run is what the document they were given means by them,   *)
(* and so is what the file will be read as.                                *)
SlotsInv ==
  /\ running \in BOOLEAN
  /\ slotFile = NoStored \/ IsMap(slotFile)
  /\ running => slotMap # <<>> /\ \A n \in VS!Slots : slots[n] = VS!Meant(givenMap, n)
  /\ ~running => lastTrigger = VS!NothingRan
  /\ slotMap # <<>> /\ slotFile = NoStored => givenMap = VS!Factory
  /\ slotMap # <<>> /\ slotFile # NoStored =>
       \A n \in VS!Slots : VS!Meant(slotFile, n) = VS!Meant(givenMap, n)
  /\ lastTrigger # VS!NothingRan =>
       lastTrigger.slot \in VS!Slots /\ TriggerRunsItsSlot

LEMMA PostedIsMap ==
  ASSUME NEW document \in VS!Maps
  PROVE  IsMap(document)
BY StoreAssumption DEF VS!Maps, IsMap

LEMMA SlotsStart == VS!Init => SlotsInv
<1> SUFFICES ASSUME VS!Init PROVE SlotsInv
  OBVIOUS
<1>1. slotFile = NoStored \/ IsMap(slotFile)
  BY PostedIsMap DEF VS!Init
<1> QED  BY <1>1 DEF VS!Init, SlotsInv

(* Using a map that is in order, or the canonical form of one.             *)
LEMMA UseMeans ==
  ASSUME NEW document, InOrder(document), VS!Use(document)
  PROVE  /\ slotMap' = document /\ slotMap' # <<>> /\ IsMap(document) /\ document # NoStored
         /\ \A n \in VS!Slots : /\ slots'[n] = document[n].value
                                /\ VS!Meant(document, n) = document[n].value
BY InOrderMeans DEF VS!Use, VS!Reloaded

LEMMA SlotSteps == SlotsInv /\ [VS!Next]_VS!vars => SlotsInv'
<1> SUFFICES ASSUME SlotsInv, [VS!Next]_VS!vars PROVE SlotsInv'
  OBVIOUS
<1>1. CASE VS!BootWithoutMap
  <2>1. /\ ~running /\ running' = TRUE /\ slotFile = NoStored /\ lastTrigger = VS!NothingRan
        /\ VS!Use(VS!Factory) /\ slotFile' \in {NoStored, slotMap'} /\ givenMap' = VS!Factory
        /\ lastTrigger' = VS!NothingRan
    BY <1>1 DEF VS!BootWithoutMap, SlotsInv
  <2>2. /\ slotMap' = VS!Factory /\ slotMap' # <<>> /\ IsMap(slotMap')
        /\ \A n \in VS!Slots : slots'[n] = VS!Meant(givenMap', n)
    BY <2>1, FactoryInOrder, UseMeans
  <2> QED  BY <2>1, <2>2 DEF SlotsInv
<1>2. CASE VS!LoadVsmGenericMap
  <2>1. /\ ~running /\ running' = TRUE /\ slotFile # NoStored /\ IsMap(slotFile)
        /\ lastTrigger' = VS!NothingRan
        /\ VS!Use(VS!Canonical(slotFile)) /\ slotFile' \in {slotFile, slotMap'}
        /\ givenMap' = IF slotMap = <<>> THEN slotFile ELSE givenMap
    BY <1>2 DEF VS!LoadVsmGenericMap, SlotsInv
  <2>2. \A n \in VS!Slots : VS!Meant(slotFile, n) = VS!Meant(givenMap', n)
    BY <2>1 DEF SlotsInv
  <2>3. /\ slotMap' = VS!Canonical(slotFile)
        /\ slotMap' # <<>> /\ IsMap(slotMap') /\ slotMap' # NoStored
        /\ \A n \in VS!Slots : /\ slots'[n] = VS!Meant(slotFile, n)
                               /\ VS!Meant(slotMap', n) = VS!Meant(slotFile, n)
    BY <2>1, CanonicalInOrder, UseMeans
  <2>4. \A n \in VS!Slots : VS!Meant(slotFile', n) = VS!Meant(givenMap', n)
    BY <2>1, <2>2, <2>3
  <2>5. slotFile' # NoStored /\ IsMap(slotFile')
    BY <2>1, <2>3
  <2> QED  BY <2>1, <2>2, <2>3, <2>4, <2>5 DEF SlotsInv
<1>3. CASE VS!Restart
  BY <1>3 DEF VS!Restart, SlotsInv
<1>4. ASSUME NEW document \in VS!Maps, VS!SaveVsmGenericMap(document)
      PROVE  SlotsInv'
  <2>1. /\ running' = running /\ running /\ VS!Use(VS!Canonical(document)) /\ slotFile' = slotMap'
        /\ givenMap' = document /\ lastTrigger' = VS!NothingRan
    BY <1>4 DEF VS!SaveVsmGenericMap
  <2>2. /\ slotMap' = VS!Canonical(document)
        /\ slotMap' # <<>> /\ IsMap(slotMap') /\ slotMap' # NoStored
        /\ \A n \in VS!Slots : /\ slots'[n] = VS!Meant(document, n)
                               /\ VS!Meant(slotMap', n) = VS!Meant(document, n)
    BY <2>1, PostedIsMap, CanonicalInOrder, UseMeans
  <2> QED  BY <2>1, <2>2 DEF SlotsInv
<1>5. ASSUME NEW n \in VS!Slots, VS!Trigger(n)
      PROVE  SlotsInv'
  <2>1. /\ running /\ lastTrigger' = [slot |-> n, command |-> slots[n]]
        /\ UNCHANGED <<slotFile, slotMap, slots, running, givenMap>>
    BY <1>5 DEF VS!Trigger
  <2>2. lastTrigger'.slot = n /\ lastTrigger'.command = VS!Meant(givenMap', n)
    BY <2>1 DEF SlotsInv
  <2>3. lastTrigger'.slot \in VS!Slots /\ TriggerRunsItsSlot'
    BY <2>2 DEF TriggerRunsItsSlot, VS!TriggerRunsItsSlot
  <2> QED  BY <2>1, <2>3 DEF SlotsInv
<1>6. CASE UNCHANGED VS!vars
  BY <1>6 DEF VS!vars, SlotsInv, TriggerRunsItsSlot, VS!TriggerRunsItsSlot
<1> QED  BY <1>1, <1>2, <1>3, <1>4, <1>5, <1>6 DEF VS!Next

(* A trigger runs what the operator's document means by its slot, for      *)
(* every number of slots and every map, through any number of restarts,    *)
(* with the canonical form written back or not.                            *)
THEOREM TriggerAlwaysRunsItsSlot == StoreSpec => []TriggerRunsItsSlot
<1>1. SlotsInv => TriggerRunsItsSlot
      BY DEF SlotsInv, TriggerRunsItsSlot, VS!TriggerRunsItsSlot
<1> QED
    BY <1>1, SlotsStart, SlotSteps, StoreImplementsParts, PTL DEF VS!Spec

-----------------------------------------------------------------------------
(***************************************************************************)
(* The saved documents.  A save and a load apply the same rules; applied   *)
(* twice they change nothing more, so that what is stored, cleaned or as   *)
(* it was found, is read as what the operator's document means.            *)
(***************************************************************************)
LimitedSteps(steps) == {SD!Limited(steps[i]) : i \in DOMAIN steps}

(* Kept, step by step.                                                     *)
Keeps(r, steps, n) ==
  /\ r \in [0..n -> Seq(LimitedSteps(steps))]
  /\ r[0] = <<>> /\ r[n] = SD!Kept(steps)
  /\ \A k \in 1..n :
       r[k] = IF Len(r[k - 1]) < MaxSteps /\ SD!Recognised(steps[k])
              THEN Append(r[k - 1], SD!Limited(steps[k])) ELSE r[k - 1]

LEMMA KeptSteps ==
  ASSUME NEW n \in Nat, NEW steps, DOMAIN steps = 1..n
  PROVE  \E r : Keeps(r, steps, n)
<1> DEFINE A == Seq(LimitedSteps(steps))
           Op(i, a) == IF Len(a) < MaxSteps /\ SD!Recognised(steps[i])
                       THEN Append(a, SD!Limited(steps[i])) ELSE a
           step == [i \in 1..n |-> [a \in A |-> Op(i, a)]]
           Sol(g) == g = [s \in SUBSET (1..n) |->
                            IF s = {} THEN <<>> ELSE Op(Top(s), g[s \ {Top(s)}])]
           iter == CHOOSE g : Sol(g)
<1>1. SD!Kept(steps) = iter[1..n]
  BY DEF SD!Kept, SD!FoldLeft, SD!MapThenFoldSet, SD!Max, Top
<1>2. <<>> \in A
  OBVIOUS
<1>3. step \in [1..n -> [A -> A]]
  <2>1. ASSUME NEW i \in 1..n, NEW a \in A PROVE Op(i, a) \in A
    <3>1. SD!Limited(steps[i]) \in LimitedSteps(steps)
      BY DEF LimitedSteps
    <3> HIDE DEF LimitedSteps
    <3> QED  BY <3>1
  <2> HIDE DEF A, Op
  <2> QED  BY <2>1
<1>4. \E g : Sol(g)
  <2> HIDE DEF A, step, Op
  <2>1. PICK g \in [SUBSET (1..n) -> A] : Folds(g, step, <<>>, n)
    BY <1>2, <1>3, FoldExists
  <2>2. ASSUME NEW s \in SUBSET (1..n), s # {}
        PROVE  g[s] = Op(Top(s), g[s \ {Top(s)}])
    <3>1. Top(s) \in 1..n /\ g[s \ {Top(s)}] \in A
      BY <2>2, TopOf
    <3> QED  BY <2>1, <2>2, <3>1 DEF Folds, step
  <2>3. Sol(g)
    BY <2>1, <2>2 DEF Folds
  <2> QED  BY <2>3
<1>5. Sol(iter)
  BY <1>4
<1> HIDE DEF iter
<1>6. FoldsWithin(A, iter, step, <<>>, n)
  <2> HIDE DEF A, Op
  <2>1. iter[{}] = <<>>
    BY <1>5
  <2>2. ASSUME NEW s \in SUBSET (1..n), s # {}, iter[s \ {Top(s)}] \in A
        PROVE  iter[s] = step[Top(s)][iter[s \ {Top(s)}]]
    <3>1. Top(s) \in 1..n
      BY <2>2, TopOf
    <3>2. iter[s] = Op(Top(s), iter[s \ {Top(s)}])
      BY <1>5, <2>2
    <3> QED  BY <2>2, <3>1, <3>2
  <2> HIDE DEF step
  <2> QED  BY <2>1, <2>2 DEF FoldsWithin
<1>7. PICK r \in [0..n -> A] : RunOf(r, iter, step, <<>>, n)
  <2> HIDE DEF A, step
  <2> QED  BY <1>2, <1>3, <1>6, FoldSteps
<1>8. \A k \in 1..n : r[k] = Op(k, r[k - 1])
  <2>1. \A k \in 1..n : r[k - 1] \in A
    OBVIOUS
  <2> HIDE DEF A, Op
  <2> QED  BY <1>7, <2>1 DEF RunOf
<1> QED  BY <1>1, <1>7, <1>8 DEF RunOf, Keeps

(* Chosen, item by item.                                                   *)
Chooses(r, list, allowed, n) ==
  /\ r \in [0..n -> Seq(SD!ToSet(list))]
  /\ r[0] = <<>> /\ r[n] = SD!Chosen(list, allowed)
  /\ \A k \in 1..n :
       r[k] = IF list[k] \in allowed /\ list[k] \notin SD!ToSet(r[k - 1])
              THEN Append(r[k - 1], list[k]) ELSE r[k - 1]

LEMMA ChosenSteps ==
  ASSUME NEW n \in Nat, NEW list, DOMAIN list = 1..n, NEW allowed
  PROVE  \E r : Chooses(r, list, allowed, n)
<1> DEFINE A == Seq(SD!ToSet(list))
           Op(i, a) == IF list[i] \in allowed /\ list[i] \notin SD!ToSet(a)
                       THEN Append(a, list[i]) ELSE a
           step == [i \in 1..n |-> [a \in A |-> Op(i, a)]]
           Sol(g) == g = [s \in SUBSET (1..n) |->
                            IF s = {} THEN <<>> ELSE Op(Top(s), g[s \ {Top(s)}])]
           iter == CHOOSE g : Sol(g)
<1>1. SD!Chosen(list, allowed) = iter[1..n]
  BY DEF SD!Chosen, SD!FoldLeft, SD!MapThenFoldSet, SD!Max, Top
<1>2. <<>> \in A
  OBVIOUS
<1>3. step \in [1..n -> [A -> A]]
  <2>1. ASSUME NEW i \in 1..n, NEW a \in A PROVE Op(i, a) \in A
    <3>1. list[i] \in SD!ToSet(list)
      BY DEF SD!ToSet
    <3> DEFINE R == SD!ToSet(list)  new == list[i] \in allowed /\ list[i] \notin SD!ToSet(a)
    <3> HIDE DEF R, new
    <3> QED  BY <3>1
  <2> HIDE DEF A, Op
  <2> QED  BY <2>1
<1>4. \E g : Sol(g)
  <2> HIDE DEF A, step, Op
  <2>1. PICK g \in [SUBSET (1..n) -> A] : Folds(g, step, <<>>, n)
    BY <1>2, <1>3, FoldExists
  <2>2. ASSUME NEW s \in SUBSET (1..n), s # {}
        PROVE  g[s] = Op(Top(s), g[s \ {Top(s)}])
    <3>1. Top(s) \in 1..n /\ g[s \ {Top(s)}] \in A
      BY <2>2, TopOf
    <3> QED  BY <2>1, <2>2, <3>1 DEF Folds, step
  <2>3. Sol(g)
    BY <2>1, <2>2 DEF Folds
  <2> QED  BY <2>3
<1>5. Sol(iter)
  BY <1>4
<1> HIDE DEF iter
<1>6. FoldsWithin(A, iter, step, <<>>, n)
  <2> HIDE DEF A, Op
  <2>1. iter[{}] = <<>>
    BY <1>5
  <2>2. ASSUME NEW s \in SUBSET (1..n), s # {}, iter[s \ {Top(s)}] \in A
        PROVE  iter[s] = step[Top(s)][iter[s \ {Top(s)}]]
    <3>1. Top(s) \in 1..n
      BY <2>2, TopOf
    <3>2. iter[s] = Op(Top(s), iter[s \ {Top(s)}])
      BY <1>5, <2>2
    <3> QED  BY <2>2, <3>1, <3>2
  <2> HIDE DEF step
  <2> QED  BY <2>1, <2>2 DEF FoldsWithin
<1>7. PICK r \in [0..n -> A] : RunOf(r, iter, step, <<>>, n)
  <2> HIDE DEF A, step
  <2> QED  BY <1>2, <1>3, <1>6, FoldSteps
<1>8. \A k \in 1..n : r[k] = Op(k, r[k - 1])
  <2>1. \A k \in 1..n : r[k - 1] \in A
    OBVIOUS
  <2> HIDE DEF A, Op
  <2> QED  BY <1>7, <2>1 DEF RunOf
<1> QED  BY <1>1, <1>7, <1>8 DEF RunOf, Chooses

LEMMA ListIs ==
  ASSUME NEW list, IsList(list)
  PROVE  Len(list) \in Nat /\ DOMAIN list = 1..Len(list)
BY DEF IsList

(* A number in range stays as it is.                                       *)
LEMMA ConstrainTwice ==
  ASSUME NEW n \in Int, NEW default \in Int, NEW low \in Nat, NEW high \in Nat, low <= high
  PROVE  LET c == SD!Constrain(SD!Given(n, default), low, high)
         IN  c \in Int /\ SD!Constrain(SD!Given(c, default), low, high) = c
BY DEF SD!Constrain, SD!Given

LEMMA NumberTwice ==
  ASSUME NEW step, IsStep(step), NEW c, NEW d, c = d
  PROVE  /\ [[step EXCEPT !.number = c] EXCEPT !.number = d] = [step EXCEPT !.number = c]
         /\ [step EXCEPT !.number = c].number = c
         /\ [step EXCEPT !.number = c].type = step.type /\ [step EXCEPT !.number = c].id = step.id
         /\ DOMAIN [step EXCEPT !.number = c] = DOMAIN step
BY DEF IsStep

(* Limiting the number of a step twice is limiting it once.                *)
LEMMA LimitedIs ==
  ASSUME NEW step, IsStep(step)
  PROVE  /\ IsStep(SD!Limited(step)) /\ SD!Limited(SD!Limited(step)) = SD!Limited(step)
         /\ SD!Recognised(SD!Limited(step)) = SD!Recognised(step)
         /\ SD!Forbidden(SD!Limited(step)) = SD!Forbidden(step)
<1> DEFINE l == SD!Limited(step)
<1>1. /\ IsStep(l) /\ l.type = step.type /\ l.id = step.id /\ SD!Limited(l) = l
  <2>1. CASE step.type = "wait_ms"
    <3> DEFINE c == SD!Constrain(SD!Given(step.number, 0), 0, 300000)
               d == SD!Constrain(SD!Given(c, 0), 0, 300000)
    <3>1. c \in Int /\ d = c
      BY ConstrainTwice DEF IsStep
    <3>2. l = [step EXCEPT !.number = c]
      BY <2>1 DEF SD!Limited
    <3> HIDE DEF c, l
    <3>3. l.number = c /\ l.type = "wait_ms" /\ l.id = step.id /\ DOMAIN l = DOMAIN step
      BY <2>1, <3>2, NumberTwice
    <3>4. SD!Limited(l) = [l EXCEPT !.number = d]
      BY <3>3 DEF SD!Limited
    <3> HIDE DEF d
    <3>5. SD!Limited(l) = l
      BY <3>1, <3>2, <3>4, NumberTwice
    <3> QED  BY <2>1, <3>1, <3>3, <3>5 DEF IsStep
  <2>2. CASE step.type = "wait_state"
    <3> DEFINE c == SD!Constrain(SD!Given(step.number, 15000), 250, 300000)
               d == SD!Constrain(SD!Given(c, 15000), 250, 300000)
    <3>1. c \in Int /\ d = c
      BY ConstrainTwice DEF IsStep
    <3>2. l = [step EXCEPT !.number = c]
      BY <2>2 DEF SD!Limited
    <3> HIDE DEF c, l
    <3>3. l.number = c /\ l.type = "wait_state" /\ l.id = step.id /\ DOMAIN l = DOMAIN step
      BY <2>2, <3>2, NumberTwice
    <3>4. SD!Limited(l) = [l EXCEPT !.number = d]
      BY <3>3 DEF SD!Limited
    <3> HIDE DEF d
    <3>5. SD!Limited(l) = l
      BY <3>1, <3>2, <3>4, NumberTwice
    <3> QED  BY <2>2, <3>1, <3>3, <3>5 DEF IsStep
  <2>3. CASE step.type \notin {"wait_ms", "wait_state"}
    BY <2>3 DEF SD!Limited, IsStep
  <2> QED  BY <2>1, <2>2, <2>3
<1> HIDE DEF l
<1>2. SD!Recognised(l) = SD!Recognised(step) /\ SD!Forbidden(l) = SD!Forbidden(step)
  BY <1>1, Zenon DEF SD!Recognised, SD!Forbidden
<1> QED  BY <1>1, <1>2 DEF l

(* What is kept are the known steps, as many as there is room for.         *)
StepsFrom(ran, steps, n, from) ==
  /\ from \in [DOMAIN ran -> 1..n]
  /\ Len(ran) <= MaxSteps
  /\ \A i, j \in DOMAIN ran : i < j => from[i] < from[j]
  /\ \A i \in DOMAIN ran : /\ SD!Recognised(steps[from[i]])
                          /\ ran[i] = SD!Limited(steps[from[i]])
  /\ \A k \in 1..n : SD!Recognised(steps[k]) =>
       \/ \E i \in DOMAIN ran : from[i] = k
       \/ Len(ran) = MaxSteps /\ \A i \in DOMAIN ran : from[i] < k

LEMMA StepTaken ==
  ASSUME NEW S, NEW ran \in Seq(S), NEW steps, NEW k \in Nat \ {0},
         SD!Limited(steps[k]) \in S, NEW from, StepsFrom(ran, steps, k - 1, from),
         Len(ran) < MaxSteps, SD!Recognised(steps[k])
  PROVE  \E g : StepsFrom(Append(ran, SD!Limited(steps[k])), steps, k, g)
<1> DEFINE new == Append(ran, SD!Limited(steps[k]))
           g == [i \in DOMAIN new |-> IF i \in DOMAIN ran THEN from[i] ELSE k]
<1>1. /\ Len(ran) \in Nat /\ DOMAIN ran = 1..Len(ran) /\ Len(new) = Len(ran) + 1
      /\ DOMAIN new = 1..(Len(ran) + 1) /\ new[Len(ran) + 1] = SD!Limited(steps[k])
      /\ \A i \in DOMAIN ran : new[i] = ran[i]
  OBVIOUS
<1> HIDE DEF new
<1>2. /\ \A i \in DOMAIN ran : g[i] = from[i] /\ from[i] \in 1..(k - 1)
      /\ g[Len(ran) + 1] = k /\ Len(ran) + 1 \in DOMAIN new
      /\ \A i \in DOMAIN new : i \in DOMAIN ran \/ i = Len(ran) + 1
      /\ DOMAIN ran \subseteq DOMAIN new
  BY <1>1 DEF StepsFrom
<1> DEFINE m == Len(ran) + 1
<1>3. g \in [DOMAIN new -> 1..k]
  <2>1. k \in 1..k /\ 1..(k - 1) \subseteq 1..k
    OBVIOUS
  <2> QED  BY <1>2, <2>1
<1> HIDE DEF g
<1>4. \A i, j \in DOMAIN new : i < j => g[i] < g[j]
  BY <1>1, <1>2 DEF StepsFrom
<1>5. \A i \in DOMAIN new : SD!Recognised(steps[g[i]]) /\ new[i] = SD!Limited(steps[g[i]])
  BY <1>1, <1>2 DEF StepsFrom
<1>6. ASSUME NEW j \in 1..k, SD!Recognised(steps[j]) PROVE \E i \in DOMAIN new : g[i] = j
  <2>1. CASE j = k
    BY <1>2, <2>1
  <2>2. CASE j # k
    <3>1. j \in 1..(k - 1)
      BY <2>2
    <3> QED  BY <1>1, <1>2, <1>6, <3>1 DEF StepsFrom
  <2> QED  BY <2>1, <2>2
<1>7. Len(new) <= MaxSteps
  <2>1. MaxSteps \in Nat
    BY StoreAssumption
  <2> QED  BY <1>1, <2>1
<1>8. StepsFrom(new, steps, k, g)
  BY <1>3, <1>4, <1>5, <1>6, <1>7 DEF StepsFrom
<1> QED  BY <1>8 DEF new

LEMMA StepLeft ==
  ASSUME NEW S, NEW ran \in Seq(S), NEW steps, NEW k \in Nat \ {0},
         NEW from, StepsFrom(ran, steps, k - 1, from),
         ~(Len(ran) < MaxSteps /\ SD!Recognised(steps[k]))
  PROVE  StepsFrom(ran, steps, k, from)
<1>1. Len(ran) \in Nat /\ MaxSteps \in Nat /\ Len(ran) <= MaxSteps
  BY StoreAssumption DEF StepsFrom
<1>2. 1..(k - 1) \subseteq 1..k /\ \A j \in 1..k : j = k \/ j \in 1..(k - 1)
  OBVIOUS
<1>3. \A i \in DOMAIN ran : from[i] \in 1..(k - 1) /\ from[i] < k
  BY DEF StepsFrom
<1>4. from \in [DOMAIN ran -> 1..k]
  BY <1>2 DEF StepsFrom
<1>5. ASSUME NEW j \in 1..k, SD!Recognised(steps[j])
      PROVE  \/ \E i \in DOMAIN ran : from[i] = j
             \/ Len(ran) = MaxSteps /\ \A i \in DOMAIN ran : from[i] < j
  BY <1>1, <1>2, <1>3, <1>5 DEF StepsFrom
<1> QED  BY <1>4, <1>5 DEF StepsFrom

LEMMA KeptAreKnown ==
  ASSUME NEW steps, IsList(steps)
  PROVE  /\ \E from : StepsFrom(SD!Kept(steps), steps, Len(steps), from)
         /\ SD!Kept(steps) \in Seq(LimitedSteps(steps))
<1> DEFINE n == Len(steps)
<1>1. n \in Nat /\ DOMAIN steps = 1..n
  BY ListIs
<1>2. PICK r : Keeps(r, steps, n)
  BY <1>1, KeptSteps
<1> DEFINE B == {k \in 0..n : \E from : StepsFrom(r[k], steps, k, from)}
<1>3. 0 \in B
  <2>1. StepsFrom(<<>>, steps, 0, [i \in {} |-> 0])
    BY StoreAssumption DEF StepsFrom
  <2> QED  BY <1>1, <1>2, <2>1 DEF Keeps
<1>4. ASSUME NEW k \in 1..n, k - 1 \in B PROVE k \in B
  <2>1. PICK from : StepsFrom(r[k - 1], steps, k - 1, from)
    BY <1>4
  <2>2. k - 1 \in 0..n /\ k \in 0..n /\ k \in Nat \ {0}
    BY <1>1
  <2>3. r[k - 1] \in Seq(LimitedSteps(steps)) /\ SD!Limited(steps[k]) \in LimitedSteps(steps)
    BY <1>1, <1>2, <2>2 DEF Keeps, LimitedSteps
  <2>4. r[k] = IF Len(r[k - 1]) < MaxSteps /\ SD!Recognised(steps[k])
               THEN Append(r[k - 1], SD!Limited(steps[k])) ELSE r[k - 1]
    BY <1>2 DEF Keeps
  <2>5. \E g : StepsFrom(r[k], steps, k, g)
    <3>1. CASE Len(r[k - 1]) < MaxSteps /\ SD!Recognised(steps[k])
      BY <2>1, <2>2, <2>3, <2>4, <3>1, StepTaken
    <3>2. CASE ~(Len(r[k - 1]) < MaxSteps /\ SD!Recognised(steps[k]))
      BY <2>1, <2>2, <2>3, <2>4, <3>2, StepLeft
    <3> QED  BY <3>1, <3>2
  <2> QED  BY <2>2, <2>5
<1>5. n \in B
  <2> HIDE DEF B
  <2>1. \A k \in 0..n : k \in B
    BY <1>1, <1>3, <1>4, UpTo
  <2> QED  BY <1>1, <2>1
<1> QED  BY <1>1, <1>2, <1>5 DEF Keeps

(* Lists a slot has room for, of steps that are known and within limits.   *)
Runnable(ran) ==
  /\ IsList(ran) /\ Len(ran) <= MaxSteps
  /\ \A i \in DOMAIN ran : SD!Recognised(ran[i]) /\ SD!Limited(ran[i]) = ran[i]

AreSteps(steps) == IsList(steps) /\ \A i \in DOMAIN steps : IsStep(steps[i])

LEMMA KeptRunnable ==
  ASSUME NEW steps, AreSteps(steps)
  PROVE  Runnable(SD!Kept(steps)) /\ AreSteps(SD!Kept(steps))
<1> DEFINE ran == SD!Kept(steps)  n == Len(steps)
<1>1. n \in Nat /\ DOMAIN steps = 1..n
  BY ListIs DEF AreSteps
<1>2. PICK from : StepsFrom(ran, steps, n, from)
  BY KeptAreKnown DEF AreSteps
<1>3. IsList(ran)
  <2>1. ran \in Seq(LimitedSteps(steps))
    BY KeptAreKnown DEF AreSteps
  <2> HIDE DEF ran
  <2> QED  BY <2>1 DEF IsList
<1> HIDE DEF ran, n
<1>4. ASSUME NEW i \in DOMAIN ran
      PROVE  IsStep(ran[i]) /\ SD!Recognised(ran[i]) /\ SD!Limited(ran[i]) = ran[i]
  <2>1. /\ from[i] \in DOMAIN steps /\ IsStep(steps[from[i]]) /\ SD!Recognised(steps[from[i]])
        /\ ran[i] = SD!Limited(steps[from[i]])
    BY <1>1, <1>2 DEF StepsFrom, AreSteps
  <2> QED  BY <2>1, LimitedIs
<1> QED  BY <1>2, <1>3, <1>4 DEF StepsFrom, Runnable, AreSteps, ran

LEMMA RunnableKept ==
  ASSUME NEW ran, Runnable(ran)
  PROVE  SD!Kept(ran) = ran
<1> DEFINE n == Len(ran)
<1>1. n \in Nat /\ DOMAIN ran = 1..n /\ n <= MaxSteps /\ MaxSteps \in Nat
  BY ListIs, StoreAssumption DEF Runnable
<1>2. PICK r : Keeps(r, ran, n)
  BY <1>1, KeptSteps
<1> DEFINE Same(k) == Len(r[k]) = k /\ \A i \in 1..k : r[k][i] = ran[i]
           B == {k \in 0..n : Same(k)}
<1>3. 0 \in B
  BY <1>1, <1>2 DEF Keeps
<1>4. ASSUME NEW k \in 1..n, k - 1 \in B PROVE k \in B
  <2>1. r[k - 1] \in Seq(LimitedSteps(ran))
    <3>1. k - 1 \in 0..n
      BY <1>1
    <3> QED  BY <1>2, <3>1 DEF Keeps
  <2>2. Same(k - 1) /\ k - 1 < MaxSteps
    BY <1>1, <1>4
  <2>3. SD!Recognised(ran[k]) /\ SD!Limited(ran[k]) = ran[k]
    BY <1>1 DEF Runnable
  <2>4. r[k] = Append(r[k - 1], ran[k])
    BY <1>2, <2>2, <2>3 DEF Keeps
  <2>5. Same(k)
    <3> DEFINE old == r[k - 1]
    <3>1. /\ Len(Append(old, ran[k])) = k /\ Append(old, ran[k])[k] = ran[k]
          /\ \A i \in 1..(k - 1) : Append(old, ran[k])[i] = old[i]
      BY <2>1, <2>2
    <3>2. \A i \in 1..k : i = k \/ i \in 1..(k - 1)
      OBVIOUS
    <3> QED  BY <2>2, <2>4, <3>1, <3>2
  <2> QED  BY <2>5
<1>5. Same(n)
  <2> HIDE DEF B
  <2>1. \A k \in 0..n : k \in B
    BY <1>1, <1>3, <1>4, UpTo
  <2>2. n \in B
    BY <1>1, <2>1
  <2> QED  BY <2>2 DEF B
<1>6. SD!Kept(ran) = r[n] /\ r[n] \in Seq(LimitedSteps(ran))
  BY <1>1, <1>2 DEF Keeps
<1>7. ran \in Seq({ran[i] : i \in DOMAIN ran})
  BY DEF Runnable, IsList
<1> DEFINE out == r[n]
<1>8. out = [i \in 1..n |-> out[i]] /\ ran = [i \in 1..n |-> ran[i]]
  <2>1. \A S : \A s \in Seq(S) : s = [i \in 1..Len(s) |-> s[i]]
    OBVIOUS
  <2>2. Len(out) = n
    BY <1>5
  <2> HIDE DEF out
  <2> QED  BY <1>6, <1>7, <2>1, <2>2 DEF out
<1> QED  BY <1>5, <1>6, <1>8

LEMMA NothingKept == SD!Kept(<<>>) = <<>>
<1>1. Runnable(<<>>)
  BY StoreAssumption DEF Runnable, IsList
<1> QED  BY <1>1, RunnableKept

LEMMA KeptTwice ==
  ASSUME NEW steps, AreSteps(steps)
  PROVE  SD!Kept(SD!Kept(steps)) = SD!Kept(steps)
BY KeptRunnable, RunnableKept

LEMMA KeptAreKnownSteps ==
  ASSUME NEW steps, IsList(steps)
  PROVE  SD!AreKnownSteps(SD!Kept(steps), steps)
<1>1. Len(steps) \in Nat /\ DOMAIN steps = 1..Len(steps)
  BY ListIs
<1> QED  BY <1>1, KeptAreKnown DEF SD!AreKnownSteps, StepsFrom

LEMMA Counts ==
  /\ SlotCount \in Nat \ {0} /\ SourceCount \in Nat \ {0} /\ MaxSteps \in Nat \ {0}
  /\ SD!Slots = 1..SlotCount /\ SD!Sources = 1..SourceCount
BY StoreAssumption DEF SD!Slots, SD!Sources

LEMMA ArrayIsList ==
  ASSUME NEW n \in Nat, NEW f, f = [i \in 1..n |-> f[i]]
  PROVE  IsList(f) /\ Len(f) = n /\ DOMAIN f = 1..n
<1> DEFINE S == {f[i] : i \in 1..n}
<1>1. DOMAIN f = 1..n /\ \A i \in 1..n : f[i] \in S
  OBVIOUS
<1>2. S = {f[i] : i \in DOMAIN f}
  BY <1>1
<1> HIDE DEF S
<1>3. f \in [1..n -> S]
  BY <1>1
<1>4. f \in Seq(S) /\ Len(f) = n
  BY <1>3
<1> QED  BY <1>1, <1>2, <1>4 DEF IsList

LEMMA FirstOfIs ==
  ASSUME NEW list, IsList(list), NEW n \in Nat
  PROVE  DOMAIN SD!FirstOf(list, n) = {i \in 1..n : i <= Len(list)}
<1> DEFINE m == IF Len(list) < n THEN Len(list) ELSE n
<1>1. Len(list) \in Nat /\ m \in Nat
  BY ListIs
<1>2. DOMAIN SubSeq(list, 1, m) = 1..m
  BY <1>1
<1>3. 1..m = {i \in 1..n : i <= Len(list)}
  BY <1>1
<1> QED  BY <1>2, <1>3 DEF SD!FirstOf

StepsOf(d, s) == SD!Kept(d[s].steps)

LEMMA RefusesIs ==
  ASSUME NEW d, IsList(d)
  PROVE  SD!Refuses(d) <=>
           \E s \in SD!Slots :
             s <= Len(d) /\ \E i \in DOMAIN StepsOf(d, s) : SD!Forbidden(StepsOf(d, s)[i])
<1>1. DOMAIN SD!FirstOf(d, SlotCount) = {s \in SD!Slots : s <= Len(d)}
  BY Counts, FirstOfIs
<1> QED  BY <1>1 DEF SD!Refuses, StepsOf

(* Two documents the engine makes the same of.                             *)
SamePrograms(d, e) ==
  SD!LoadedDefs(d) = SD!LoadedDefs(e) /\ (SD!Refuses(d) <=> SD!Refuses(e))

Timeout(d, s) == SD!Constrain(SD!Given(d[s].timeoutMs, 60000), 1000, 600000)

LEMMA DisabledIs ==
  SD!Disabled = [enabled |-> SD!Disabled.enabled, timeoutMs |-> SD!Disabled.timeoutMs,
                 steps |-> SD!Disabled.steps]
<1> DEFINE D == SD!Disabled
<1>1. DOMAIN D = {"enabled", "timeoutMs", "steps"} /\ D = [x \in DOMAIN D |-> D[x]]
  BY DEF SD!Disabled
<1> HIDE DEF D
<1>2. D = [enabled |-> D.enabled, timeoutMs |-> D.timeoutMs, steps |-> D.steps]
  BY <1>1
<1> QED  BY <1>2 DEF D

LEMMA CleanSamePrograms ==
  ASSUME NEW d, IsPrograms(d)
  PROVE  SamePrograms(SD!CleanSequences(d), d)
<1> DEFINE c == SD!CleanSequences(d)
<1>1. Len(d) \in Nat /\ DOMAIN d = 1..Len(d) /\ \A s \in 1..Len(d) : IsProgram(d[s])
  BY ListIs DEF IsPrograms
<1>2. c = [s \in 1..SlotCount |->
             IF s > Len(d) THEN SD!Disabled
             ELSE [enabled |-> d[s].enabled, steps |-> StepsOf(d, s), timeoutMs |-> Timeout(d, s)]]
  BY Counts DEF SD!CleanSequences, StepsOf, Timeout
<1> HIDE DEF c
<1>3. DOMAIN c = 1..SlotCount /\ Len(c) = SlotCount /\ IsList(c)
  <2>1. c = [s \in 1..SlotCount |-> c[s]]
    BY <1>2
  <2> QED  BY <2>1, Counts, ArrayIsList
<1>4. ASSUME NEW s \in SD!Slots
      PROVE  /\ s > Len(d) => c[s] = SD!Disabled
             /\ s <= Len(d) => /\ c[s].enabled = d[s].enabled
                               /\ StepsOf(c, s) = StepsOf(d, s)
                               /\ Timeout(c, s) = Timeout(d, s)
  <2>1. CASE s > Len(d)
    BY <1>1, <1>2, <2>1, Counts
  <2>2. CASE s <= Len(d)
    <3>1. c[s] = [enabled |-> d[s].enabled, steps |-> StepsOf(d, s), timeoutMs |-> Timeout(d, s)]
      BY <1>1, <1>2, <2>2, Counts
    <3>2. IsProgram(d[s])
      BY <1>1, <2>2, Counts
    <3>3. StepsOf(c, s) = StepsOf(d, s)
      <4>1. AreSteps(d[s].steps)
        BY <3>2 DEF IsProgram, AreSteps
      <4> QED  BY <3>1, <4>1, KeptTwice DEF StepsOf
    <3>4. Timeout(c, s) = Timeout(d, s)
      BY <3>1, <3>2, ConstrainTwice DEF Timeout, IsProgram
    <3> QED  BY <1>1, <2>2, <3>1, <3>3, <3>4, Counts
  <2> QED  BY <1>1, <2>1, <2>2, Counts
<1>5. \A s \in SD!Slots : s > Len(d) => StepsOf(c, s) = <<>> /\ Timeout(c, s) = 60000
  <2> SUFFICES ASSUME NEW s \in SD!Slots, s > Len(d)
               PROVE  StepsOf(c, s) = <<>> /\ Timeout(c, s) = 60000
    OBVIOUS
  <2>1. c[s].steps = <<>> /\ c[s].timeoutMs = 60000
    BY <1>4 DEF SD!Disabled
  <2> QED  BY <2>1, NothingKept DEF StepsOf, Timeout, SD!Constrain, SD!Given
<1>6. \A s \in SD!Slots : /\ s > Len(d) \/ s <= Len(d)
                          /\ ~(s > Len(d) /\ s <= Len(d))
                          /\ ~(s > Len(c)) /\ s <= Len(c)
  BY <1>1, <1>3, Counts
<1>7. SD!LoadedDefs(c) = SD!LoadedDefs(d)
  <2> DEFINE L(e, s) == IF s > Len(e) THEN SD!Disabled
                        ELSE [enabled |-> e[s].enabled, steps |-> StepsOf(e, s),
                              timeoutMs |-> Timeout(e, s)]
  <2>1. \A e : SD!LoadedDefs(e) = [s \in SD!Slots |-> L(e, s)]
    BY DEF SD!LoadedDefs, StepsOf, Timeout
  <2>2. ASSUME NEW s \in SD!Slots PROVE L(c, s) = L(d, s)
    <3>1. CASE s > Len(d)
      <4>1. L(d, s) = SD!Disabled
        BY <3>1
      <4>2. L(c, s) = [enabled |-> c[s].enabled, timeoutMs |-> Timeout(c, s),
                       steps |-> StepsOf(c, s)]
        BY <1>6
      <4>3. c[s] = SD!Disabled
        BY <1>4, <3>1
      <4>4. StepsOf(c, s) = SD!Disabled.steps /\ Timeout(c, s) = SD!Disabled.timeoutMs
        BY <1>5, <3>1 DEF SD!Disabled
      <4> HIDE DEF L
      <4>5. L(c, s) = [enabled |-> SD!Disabled.enabled, timeoutMs |-> SD!Disabled.timeoutMs,
                       steps |-> SD!Disabled.steps]
        BY <4>2, <4>3, <4>4
      <4>6. L(c, s) = SD!Disabled
        BY <4>5, DisabledIs
      <4> QED  BY <4>1, <4>6
    <3>2. CASE s <= Len(d)
      <4>1. /\ c[s].enabled = d[s].enabled /\ StepsOf(c, s) = StepsOf(d, s)
            /\ Timeout(c, s) = Timeout(d, s) /\ ~(s > Len(c)) /\ ~(s > Len(d))
        BY <1>4, <1>6, <3>2
      <4> HIDE DEF c
      <4> QED  BY <4>1
    <3> QED  BY <3>1, <3>2, <1>6
  <2> HIDE DEF L
  <2> QED  BY <2>1, <2>2
<1>8. SD!Refuses(c) <=> SD!Refuses(d)
  <2> DEFINE Bad(e, s) == \E i \in DOMAIN StepsOf(e, s) : SD!Forbidden(StepsOf(e, s)[i])
  <2>1. \A s \in SD!Slots : s > Len(d) => ~Bad(c, s)
    BY <1>5
  <2>2. \A s \in SD!Slots : s <= Len(d) => (Bad(c, s) <=> Bad(d, s))
    BY <1>4
  <2>3. /\ SD!Refuses(c) <=> \E s \in SD!Slots : s <= Len(c) /\ Bad(c, s)
        /\ SD!Refuses(d) <=> \E s \in SD!Slots : s <= Len(d) /\ Bad(d, s)
    BY <1>3, RefusesIs DEF IsPrograms
  <2> HIDE DEF Bad
  <2> QED  BY <1>6, <2>1, <2>2, <2>3
<1> QED  BY <1>7, <1>8 DEF SamePrograms, c

(* A document the operator may have had accepted, or found.                *)
ProgramsGood(d) == IsPrograms(d) /\ (SD!Refuses(d) => d \in OldPrograms)

StepRecord(type, id, n) == [type |-> type, id |-> id, number |-> n]

LEMMA StepIs ==
  ASSUME NEW type, NEW id, NEW n, NEW step, step = StepRecord(type, id, n)
  PROVE  /\ step.type = type /\ step.id = id
         /\ step.number = n /\ DOMAIN step = {"type", "id", "number"}
BY DEF StepRecord

NoId == ""

Template ==
  << StepRecord("command", "record_start", -1), StepRecord("wait_ms", NoId, 10000),
     StepRecord("command", "record_stop", -1), StepRecord("wait_state", "ready", 15000),
     StepRecord("command", "rec_review", -1) >>

LEMMA TemplateRuns == AreSteps(Template) /\ \A i \in DOMAIN Template : ~SD!Forbidden(Template[i])
<1> DEFINE t == Template
<1>1. /\ Template[1] = StepRecord("command", "record_start", -1)
      /\ Template[2] = StepRecord("wait_ms", NoId, 10000)
      /\ Template[3] = StepRecord("command", "record_stop", -1)
      /\ Template[4] = StepRecord("wait_state", "ready", 15000)
      /\ Template[5] = StepRecord("command", "rec_review", -1)
  BY DEF Template
<1>2. /\ t[1].type = "command" /\ t[1].id = "record_start"
      /\ t[2].type = "wait_ms" /\ t[4].type = "wait_state"
      /\ t[3].type = "command" /\ t[3].id = "record_stop"
      /\ t[5].type = "command" /\ t[5].id = "rec_review"
  BY <1>1, StepIs
<1>3. IsStep(t[1]) /\ IsStep(t[2]) /\ IsStep(t[3]) /\ IsStep(t[4]) /\ IsStep(t[5])
  BY <1>1, StepIs DEF IsStep
<1>4. Template = [i \in 1..5 |-> Template[i]]
  BY DEF Template
<1>5. IsList(t) /\ DOMAIN t = 1..5
  BY <1>4, ArrayIsList
<1>6. \A i \in 1..5 : i = 1 \/ i = 2 \/ i = 3 \/ i = 4 \/ i = 5
  OBVIOUS
<1>7. \A i \in 1..5 : ~SD!Forbidden(t[i])
  BY <1>2, <1>6, DocumentAssumption DEF SD!Forbidden
<1> QED  BY <1>3, <1>5, <1>6, <1>7 DEF AreSteps

LEMMA DefaultPrograms == IsPrograms(SD!DefaultSequences) /\ ~SD!Refuses(SD!DefaultSequences)
<1> DEFINE d == SD!DefaultSequences
           t == Template
<1>1. /\ DOMAIN d = 1..SlotCount
      /\ d = [s \in 1..SlotCount |-> d[s]]
      /\ d[1] = [SD!Disabled EXCEPT !.steps = t]
      /\ \A s \in 1..SlotCount : s # 1 => d[s] = SD!Disabled
  <2>1. d = [s \in 1..SlotCount |-> IF s = 1 THEN [SD!Disabled EXCEPT !.steps = t] ELSE SD!Disabled]
    BY Counts DEF SD!DefaultSequences, StepRecord, Template, NoId
  <2> HIDE DEF d, t
  <2>2. 1 \in 1..SlotCount
    BY Counts
  <2> QED  BY <2>1, <2>2
<1> HIDE DEF d
<1>2. AreSteps(t) /\ \A i \in DOMAIN t : ~SD!Forbidden(t[i])
  BY TemplateRuns
<1> HIDE DEF t
<1>9. d[1].steps = t /\ d[1].timeoutMs = 60000
  BY <1>1 DEF SD!Disabled
<1>3. IsList(d) /\ Len(d) = SlotCount
  BY <1>1, Counts, ArrayIsList
<1>4. \A s \in 1..SlotCount : IsProgram(d[s])
  <2>1. IsProgram(d[1])
    BY <1>2, <1>9 DEF IsProgram, AreSteps
  <2>2. IsProgram(SD!Disabled)
    BY DEF IsProgram, SD!Disabled, IsList
  <2> QED  BY <1>1, <2>1, <2>2
<1>5. \A i \in DOMAIN SD!Kept(t) : ~SD!Forbidden(SD!Kept(t)[i])
  <2>1. PICK from : StepsFrom(SD!Kept(t), t, Len(t), from)
    BY <1>2, KeptAreKnown DEF AreSteps
  <2>2. DOMAIN t = 1..Len(t)
    BY <1>2, ListIs DEF AreSteps
  <2> DEFINE k == SD!Kept(t)
  <2> HIDE DEF k
  <2>3. ASSUME NEW i \in DOMAIN k
        PROVE  ~SD!Forbidden(k[i])
    <3>1. from[i] \in DOMAIN t /\ k[i] = SD!Limited(t[from[i]])
      BY <2>1, <2>2 DEF StepsFrom, k
    <3> QED  BY <1>2, <3>1, LimitedIs DEF AreSteps
  <2> QED  BY <2>3 DEF k
<1>6. ASSUME NEW s \in SD!Slots, NEW i \in DOMAIN StepsOf(d, s)
      PROVE  ~SD!Forbidden(StepsOf(d, s)[i])
  <2>1. CASE s = 1
    BY <1>5, <1>6, <1>9, <2>1 DEF StepsOf
  <2>2. CASE s # 1
    <3>1. d[s].steps = <<>>
      BY <1>1, <2>2, Counts DEF SD!Disabled
    <3> QED  BY <1>6, <3>1, NothingKept DEF StepsOf
  <2> QED  BY <2>1, <2>2
<1>7. ~SD!Refuses(d)
  BY <1>3, <1>6, RefusesIs
<1> QED  BY <1>1, <1>3, <1>4, <1>7 DEF IsPrograms, d

(* What the engine makes of a document is what the document says.          *)
ProgramsMean(slot, e) ==
  IF SD!Refuses(e) THEN slot = SD!AllDisabled ELSE slot = SD!LoadedDefs(e)

LEMMA MeantProgramsRun ==
  ASSUME NEW e, ProgramsGood(e), NEW slot, ProgramsMean(slot, e)
  PROVE  IF SD!Refuses(e) THEN slot = SD!AllDisabled /\ e \in OldPrograms
         ELSE \A s \in SD!Slots :
                IF s > Len(e) THEN slot[s] = SD!Disabled
                ELSE /\ slot[s].enabled = e[s].enabled
                     /\ SD!AreKnownSteps(slot[s].steps, e[s].steps)
                     /\ \A i \in DOMAIN slot[s].steps : ~SD!Forbidden(slot[s].steps[i])
<1>1. CASE SD!Refuses(e)
  BY <1>1 DEF ProgramsGood, ProgramsMean
<1>2. CASE ~SD!Refuses(e)
  <2> SUFFICES ASSUME NEW s \in SD!Slots
               PROVE  IF s > Len(e) THEN slot[s] = SD!Disabled
                      ELSE /\ slot[s].enabled = e[s].enabled
                           /\ SD!AreKnownSteps(slot[s].steps, e[s].steps)
                           /\ \A i \in DOMAIN slot[s].steps : ~SD!Forbidden(slot[s].steps[i])
    BY <1>2
  <2>1. slot[s] = IF s > Len(e) THEN SD!Disabled
                  ELSE [enabled |-> e[s].enabled, steps |-> StepsOf(e, s),
                        timeoutMs |-> Timeout(e, s)]
    BY <1>2 DEF ProgramsMean, SD!LoadedDefs, StepsOf, Timeout
  <2>2. CASE s > Len(e)
    BY <2>1, <2>2
  <2>3. CASE ~(s > Len(e))
    <3>1. slot[s].enabled = e[s].enabled /\ slot[s].steps = StepsOf(e, s)
      BY <2>1, <2>3
    <3>2. Len(e) \in Nat /\ DOMAIN e = 1..Len(e) /\ s \in 1..Len(e) /\ s <= Len(e)
      <4>1. Len(e) \in Nat /\ DOMAIN e = 1..Len(e)
        BY ListIs DEF ProgramsGood, IsPrograms
      <4> QED  BY <2>3, <4>1, Counts
    <3>3. SD!AreKnownSteps(StepsOf(e, s), e[s].steps)
      BY <3>2, KeptAreKnownSteps DEF ProgramsGood, IsPrograms, IsProgram, StepsOf
    <3>4. \A i \in DOMAIN StepsOf(e, s) : ~SD!Forbidden(StepsOf(e, s)[i])
      BY <1>2, <3>2, RefusesIs DEF ProgramsGood, IsPrograms
    <3> QED  BY <2>3, <3>1, <3>3, <3>4
  <2> QED  BY <2>2, <2>3
<1> QED  BY <1>1, <1>2

(* Two telemetry maps the engine makes the same of.                        *)
SameSources(d, e) ==
  /\ \A i \in SD!Sources : SD!LoadedSource(d, i) = SD!LoadedSource(e, i)
  /\ SD!Rules(d) = SD!Rules(e)

(* A source as it is stored and loaded.                                    *)
Cleaned(source, i) ==
  [source EXCEPT !.intervalMs = SD!Constrain(SD!Given(@, 500), 100, 10000),
                 !.id = IF @ = NoName THEN SD!DefaultName(i) ELSE @]

LEMMA CleanedTwice ==
  ASSUME NEW source, IsSource(source), NEW i
  PROVE  /\ Cleaned(Cleaned(source, i), i) = Cleaned(source, i)
         /\ Cleaned(source, i).enabled = source.enabled
         /\ Cleaned(source, i).id = IF source.id = NoName THEN SD!DefaultName(i) ELSE source.id
<1> DEFINE n == SD!Constrain(SD!Given(source.intervalMs, 500), 100, 10000)
           m == SD!Constrain(SD!Given(n, 500), 100, 10000)
           id == IF source.id = NoName THEN SD!DefaultName(i) ELSE source.id
           id2 == IF id = NoName THEN SD!DefaultName(i) ELSE id
           c == Cleaned(source, i)
<1>1. n = m /\ id2 = id
  BY ConstrainTwice DEF IsSource
<1>2. c = [source EXCEPT !.intervalMs = n, !.id = id]
  BY DEF Cleaned
<1> HIDE DEF n, id, c
<1>3. /\ c.intervalMs = n /\ c.id = id /\ c.enabled = source.enabled
      /\ {"intervalMs", "id"} \subseteq DOMAIN c
  BY <1>2 DEF IsSource
<1>4. Cleaned(c, i) = [c EXCEPT !.intervalMs = m, !.id = id2]
  BY <1>3 DEF Cleaned
<1> HIDE DEF m, id2
<1>5. [c EXCEPT !.intervalMs = n, !.id = id] = c
  BY <1>2, <1>3
<1> QED  BY <1>1, <1>3, <1>4, <1>5 DEF c, id

LEMMA NoSourceIs ==
  ASSUME NEW i
  PROVE  /\ IsSource(SD!NoSource(i)) /\ ~SD!NoSource(i).enabled
         /\ Cleaned(SD!NoSource(i), i) = SD!NoSource(i)
<1> DEFINE s == SD!NoSource(i)
<1>1. s = [id |-> SD!DefaultName(i), enabled |-> FALSE, path |-> NoId, valid |-> TRUE,
           intervalMs |-> 500]
  BY Zenon DEF SD!NoSource, NoId
<1> HIDE DEF s
<1>2. /\ DOMAIN s = {"id", "enabled", "path", "valid", "intervalMs"}
      /\ s = [x \in DOMAIN s |-> s[x]]
      /\ s.intervalMs = 500 /\ s.id = SD!DefaultName(i) /\ ~s.enabled
  BY <1>1
<1>3. [s EXCEPT !.intervalMs = 500, !.id = SD!DefaultName(i)] = s
  <2> DEFINE n == 500  id == SD!DefaultName(i)  t == [s EXCEPT !.intervalMs = n, !.id = id]
  <2>1. s.intervalMs = n /\ s.id = id
    BY <1>2
  <2> HIDE DEF n, id
  <2>2. DOMAIN t = DOMAIN s /\ t = [x \in DOMAIN t |-> t[x]] /\ \A x \in DOMAIN s : t[x] = s[x]
    BY <2>1
  <2> HIDE DEF t
  <2>3. t = s
    BY <1>2, <2>2
  <2> QED  BY <2>3 DEF t, n, id
<1>4. Cleaned(s, i) = [s EXCEPT !.intervalMs = 500, !.id = SD!DefaultName(i)]
  BY <1>2 DEF Cleaned, SD!Constrain, SD!Given
<1> QED  BY <1>2, <1>3, <1>4 DEF IsSource, s

LEMMA LoadedSourceIs ==
  ASSUME NEW d, NEW i
  PROVE  SD!LoadedSource(d, i) =
           IF i > Len(d.sources) THEN SD!NoSource(i) ELSE Cleaned(d.sources[i], i)
BY DEF SD!LoadedSource, Cleaned

LEMMA RulesTwice ==
  ASSUME NEW d, NEW c, c.fields = SD!Rules(d)
  PROVE  SD!Rules(c) = SD!Rules(d)
<1> DEFINE r == SD!Rules(d)
<1>1. DOMAIN r = StateIds /\ r = [f \in StateIds |-> r[f]]
  BY DEF SD!Rules
<1>2. SD!Rules(c) = [f \in StateIds |-> IF f \in DOMAIN r THEN r[f] ELSE SD!NoRule]
  BY DEF SD!Rules
<1> HIDE DEF r
<1> QED  BY <1>1, <1>2 DEF r

LEMMA CleanSameSources ==
  ASSUME NEW d, IsTelemetryMap(d)
  PROVE  SameSources(SD!CleanTelemetryMap(d), d)
<1> DEFINE c == SD!CleanTelemetryMap(d)  n == Len(d.sources)
<1>1. n \in Nat /\ DOMAIN d.sources = 1..n /\ \A i \in 1..n : IsSource(d.sources[i])
  BY ListIs DEF IsTelemetryMap
<1>2. c.sources = [i \in 1..SourceCount |-> SD!LoadedSource(d, i)] /\ c.fields = SD!Rules(d)
  BY Counts DEF SD!CleanTelemetryMap, SD!CleanSource, SD!LoadedSource
<1> HIDE DEF c
<1>3. Len(c.sources) = SourceCount
  BY <1>2, Counts
<1>4. ASSUME NEW i \in SD!Sources
      PROVE  SD!LoadedSource(c, i) = SD!LoadedSource(d, i)
  <2>1. SD!LoadedSource(c, i) = Cleaned(SD!LoadedSource(d, i), i)
    <3>1. ~(i > Len(c.sources)) /\ c.sources[i] = SD!LoadedSource(d, i)
      BY <1>2, <1>3, Counts
    <3> QED  BY <3>1, LoadedSourceIs
  <2>2. CASE i > n
    BY <2>1, <2>2, LoadedSourceIs, NoSourceIs
  <2>3. CASE ~(i > n)
    <3>1. IsSource(d.sources[i])
      BY <1>1, <2>3, Counts
    <3> QED  BY <2>1, <2>3, <3>1, LoadedSourceIs, CleanedTwice
  <2> QED  BY <2>2, <2>3
<1> QED  BY <1>2, <1>4, RulesTwice DEF SameSources, c

LEMMA DefaultSources == IsTelemetryMap(SD!DefaultTelemetryMap)
<1> DEFINE d == SD!DefaultTelemetryMap
<1>1. /\ d.sources = [i \in 1..SourceCount |-> SD!NoSource(i)]
      /\ d.fields = [f \in StateIds |-> SD!NoRule]
  BY Counts DEF SD!DefaultTelemetryMap
<1> HIDE DEF d
<1>2. IsList(d.sources) /\ DOMAIN d.sources = 1..SourceCount
  <2>1. d.sources = [i \in 1..SourceCount |-> d.sources[i]]
    BY <1>1
  <2> QED  BY <2>1, ArrayIsList, Counts
<1>3. \A i \in 1..SourceCount : IsSource(d.sources[i])
  BY <1>1, NoSourceIs
<1>4. \A f \in DOMAIN d.fields : d.fields[f] # NoName
  BY <1>1, DocumentAssumption
<1> QED  BY <1>2, <1>3, <1>4 DEF IsTelemetryMap, d

(* What the engine makes of a telemetry map.                               *)
SourcesMean(all, rules, e) ==
  /\ all = [i \in SD!Sources |-> SD!LoadedSource(e, i)]
  /\ rules = SD!Rules(e)

LEMMA MeantSourcesRead ==
  ASSUME NEW e, IsTelemetryMap(e), NEW all, NEW rules, SourcesMean(all, rules, e),
         NEW f \in StateIds
  PROVE  SD!ReadFrom(all, rules[f]) = SD!MeantSources(e, f)
<1> DEFINE n == Len(e.sources)
<1>1. n \in Nat /\ DOMAIN e.sources = 1..n /\ \A i \in 1..n : IsSource(e.sources[i])
  BY ListIs DEF IsTelemetryMap
<1>2. rules[f] = IF f \in DOMAIN e.fields THEN e.fields[f] ELSE SD!NoRule
  BY DEF SourcesMean, SD!Rules
<1>3. f \in DOMAIN e.fields => e.fields[f] # NoName
  BY DEF IsTelemetryMap
<1>4. DOMAIN all = SD!Sources /\ \A i \in SD!Sources : all[i] = SD!LoadedSource(e, i)
  BY DEF SourcesMean
<1>5. ASSUME NEW i \in SD!Sources
      PROVE  i \in SD!ReadFrom(all, rules[f]) <=> i \in SD!MeantSources(e, f)
  <2>1. CASE i > n
    <3>1. ~all[i].enabled
      BY <1>4, <2>1, LoadedSourceIs, NoSourceIs
    <3>2. ~(i <= n)
      BY <1>1, <2>1, Counts
    <3> QED  BY <3>1, <3>2 DEF SD!ReadFrom, SD!MeantSources
  <2>2. CASE ~(i > n)
    <3>1. i <= n /\ IsSource(e.sources[i])
      BY <1>1, <2>2, Counts
    <3>2. /\ all[i].enabled = e.sources[i].enabled
          /\ all[i].id = IF e.sources[i].id = NoName THEN SD!DefaultName(i) ELSE e.sources[i].id
      BY <1>4, <2>2, <3>1, LoadedSourceIs, CleanedTwice
    <3>3. i \in SD!ReadFrom(all, rules[f]) <=>
            all[i].enabled /\ rules[f] # SD!NoRule /\ all[i].id = rules[f]
      BY <1>4 DEF SD!ReadFrom
    <3>4. i \in SD!MeantSources(e, f) <=>
            /\ i <= n /\ e.sources[i].enabled
            /\ f \in DOMAIN e.fields /\ e.fields[f] # SD!NoRule
            /\ \/ e.sources[i].id = e.fields[f]
               \/ e.sources[i].id = NoName /\ e.fields[f] = SD!DefaultName(i)
      BY DEF SD!MeantSources
    <3> QED  BY <1>2, <1>3, <3>1, <3>2, <3>3, <3>4
  <2> QED  BY <2>1, <2>2
<1>6. SD!ReadFrom(all, rules[f]) \subseteq SD!Sources /\ SD!MeantSources(e, f) \subseteq SD!Sources
  BY <1>4 DEF SD!ReadFrom, SD!MeantSources
<1> QED  BY <1>5, <1>6

LEMMA FirstIs ==
  ASSUME NEW list, IsList(list), NEW k \in DOMAIN list, \A j \in 1..(k - 1) : list[j] # list[k]
  PROVE  SD!First(list, list[k]) = k
<1> DEFINE t == SD!First(list, list[k])
<1>1. k \in 1..Len(list) /\ DOMAIN list = 1..Len(list) /\ Len(list) \in Nat
  BY ListIs
<1>2. t \in DOMAIN list /\ list[t] = list[k] /\ \A j \in 1..(t - 1) : list[j] # list[k]
  BY DEF SD!First
<1> HIDE DEF t
<1>3. t \in Nat \ {0} /\ k \in Nat \ {0}
  BY <1>1, <1>2
<1>4. ~(t < k) /\ ~(k < t)
  BY <1>2, <1>3
<1>5. t = k
  BY <1>3, <1>4
<1> QED  BY <1>5 DEF t

(* The allowed items of the first k of a list, in the order in which they  *)
(* come first.                                                             *)
ShowsFirst(out, list, allowed, k) ==
  /\ SD!ToSet(out) = {list[j] : j \in 1..k} \cap allowed
  /\ \A i \in DOMAIN out : SD!First(list, out[i]) \in 1..k
  /\ \A i, j \in DOMAIN out : i < j => SD!First(list, out[i]) < SD!First(list, out[j])

LEMMA ItemTaken ==
  ASSUME NEW list, IsList(list), NEW k \in DOMAIN list, NEW allowed,
         NEW S, NEW out \in Seq(S), list[k] \in S, ShowsFirst(out, list, allowed, k - 1),
         list[k] \in allowed, list[k] \notin SD!ToSet(out)
  PROVE  ShowsFirst(Append(out, list[k]), list, allowed, k)
<1> DEFINE new == Append(out, list[k])  n == Len(out)
<1>1. /\ n \in Nat /\ DOMAIN out = 1..n /\ DOMAIN new = 1..(n + 1) /\ new[n + 1] = list[k]
      /\ \A i \in 1..n : new[i] = out[i]
  OBVIOUS
<1>2. k \in Nat \ {0}
  BY ListIs
<1>3. SD!First(list, list[k]) = k
  <2>1. \A j \in 1..(k - 1) : list[j] # list[k]
    BY DEF ShowsFirst
  <2> QED  BY <2>1, FirstIs
<1> HIDE DEF new, n
<1>4. SD!ToSet(new) = {list[j] : j \in 1..k} \cap allowed
  <2>1. SD!ToSet(new) = SD!ToSet(out) \cup {list[k]}
    <3>1. \A i \in 1..(n + 1) : i \in 1..n \/ i = n + 1
      BY <1>1
    <3>2. 1..n \subseteq 1..(n + 1) /\ n + 1 \in 1..(n + 1)
      BY <1>1
    <3> QED  BY <1>1, <3>1, <3>2 DEF SD!ToSet
  <2>2. {list[j] : j \in 1..k} = {list[j] : j \in 1..(k - 1)} \cup {list[k]}
    <3>1. \A j \in 1..k : j \in 1..(k - 1) \/ j = k
      BY <1>2
    <3>2. 1..(k - 1) \subseteq 1..k /\ k \in 1..k
      BY <1>2
    <3> QED  BY <3>1, <3>2
  <2> QED  BY <2>1, <2>2 DEF ShowsFirst
<1>5. \A i \in 1..n : SD!First(list, new[i]) \in 1..(k - 1)
  BY <1>1 DEF ShowsFirst
<1>6. \A i \in DOMAIN new : SD!First(list, new[i]) \in 1..k
  <2>1. \A i \in 1..(n + 1) : i \in 1..n \/ i = n + 1
    BY <1>1
  <2>2. 1..(k - 1) \subseteq 1..k /\ k \in 1..k
    BY <1>2
  <2> QED  BY <1>1, <1>3, <1>5, <2>1, <2>2
<1>7. ASSUME NEW i \in DOMAIN new, NEW j \in DOMAIN new, i < j
      PROVE  SD!First(list, new[i]) < SD!First(list, new[j])
  <2>1. i \in 1..n
    BY <1>1, <1>7
  <2>2. CASE j = n + 1
    <3>1. SD!First(list, new[i]) \in 1..(k - 1) /\ SD!First(list, new[j]) = k
      BY <1>1, <1>3, <1>5, <2>1, <2>2
    <3> QED  BY <1>2, <3>1
  <2>3. CASE j # n + 1
    <3>1. j \in 1..n
      BY <1>1, <2>3
    <3> QED  BY <1>1, <1>7, <2>1, <3>1 DEF ShowsFirst
  <2> QED  BY <2>2, <2>3
<1> QED  BY <1>4, <1>6, <1>7 DEF ShowsFirst, new

LEMMA ItemLeft ==
  ASSUME NEW list, IsList(list), NEW k \in DOMAIN list, NEW allowed,
         NEW out, ShowsFirst(out, list, allowed, k - 1),
         ~(list[k] \in allowed /\ list[k] \notin SD!ToSet(out))
  PROVE  ShowsFirst(out, list, allowed, k)
<1>1. k \in Nat \ {0}
  BY ListIs
<1>2. (\A j \in 1..k : j \in 1..(k - 1) \/ j = k) /\ 1..(k - 1) \subseteq 1..k
  BY <1>1
<1>3. SD!ToSet(out) = {list[j] : j \in 1..k} \cap allowed
  BY <1>2 DEF ShowsFirst
<1> QED  BY <1>2, <1>3 DEF ShowsFirst

Buttons == CommandIds \ HoldOnlyCommands

LEMMA ChosenShows ==
  ASSUME NEW list, IsList(list)
  PROVE  SD!Shows(SD!Chosen(list, Buttons), list)
<1> DEFINE n == Len(list)
<1>1. n \in Nat /\ DOMAIN list = 1..n
  BY ListIs
<1>2. PICK r : Chooses(r, list, Buttons, n)
  BY <1>1, ChosenSteps
<1> DEFINE B == {k \in 0..n : ShowsFirst(r[k], list, Buttons, k)}
<1>3. 0 \in B
  <2>1. r[0] = <<>> /\ 1..0 = {} /\ DOMAIN <<>> = {}
    BY <1>2 DEF Chooses
  <2> QED  BY <1>1, <2>1 DEF ShowsFirst, SD!ToSet
<1>4. ASSUME NEW k \in 1..n, k - 1 \in B PROVE k \in B
  <2>1. k - 1 \in 0..n /\ k \in 0..n /\ k \in DOMAIN list
    BY <1>1
  <2>2. r[k - 1] \in Seq(SD!ToSet(list)) /\ list[k] \in SD!ToSet(list)
    BY <1>2, <2>1 DEF Chooses, SD!ToSet
  <2>3. ShowsFirst(r[k - 1], list, Buttons, k - 1)
    BY <1>4
  <2>4. r[k] = IF list[k] \in Buttons /\ list[k] \notin SD!ToSet(r[k - 1])
               THEN Append(r[k - 1], list[k]) ELSE r[k - 1]
    BY <1>2 DEF Chooses
  <2>5. ShowsFirst(r[k], list, Buttons, k)
    <3>1. CASE list[k] \in Buttons /\ list[k] \notin SD!ToSet(r[k - 1])
      BY <2>1, <2>2, <2>3, <2>4, <3>1, ItemTaken
    <3>2. CASE ~(list[k] \in Buttons /\ list[k] \notin SD!ToSet(r[k - 1]))
      BY <2>1, <2>3, <2>4, <3>2, ItemLeft
    <3> QED  BY <3>1, <3>2
  <2> QED  BY <2>1, <2>5
<1>5. n \in B
  <2> HIDE DEF B
  <2>1. \A k \in 0..n : k \in B
    BY <1>1, <1>3, <1>4, UpTo
  <2> QED  BY <1>1, <2>1
<1>6. ShowsFirst(SD!Chosen(list, Buttons), list, Buttons, n)
  BY <1>2, <1>5 DEF Chooses
<1>7. {list[j] : j \in 1..n} = SD!ToSet(list)
  BY <1>1 DEF SD!ToSet
<1> QED  BY <1>6, <1>7 DEF ShowsFirst, SD!Shows, Buttons

LEMMA KindsAre ==
  /\ SD!Kinds = {"layout", "telemetry", "sequences"}
  /\ SD!DefaultDocument["layout"] = SD!DefaultLayout
  /\ SD!DefaultDocument["telemetry"] = SD!DefaultTelemetryMap
  /\ SD!DefaultDocument["sequences"] = SD!DefaultSequences
BY DEF SD!Kinds, SD!DefaultDocument

(* What a boot makes of a file.                                            *)
Boots(k, f) ==
  IF f = NoStored THEN SD!DefaultDocument[k]
  ELSE IF k = "layout" THEN SD!UpgradedLayout(f) ELSE f

LEMMA LoadedBoots ==
  ASSUME NEW k
  PROVE  SD!Loaded(k) = Boots(k, documentFile[k]) /\ SD!Loaded(k)' = Boots(k, documentFile'[k])
BY DEF SD!Loaded, Boots

(* The document the operator means, and what is stored for it.             *)
Wanted(k) == IF asked[k] = NoStored THEN SD!Loaded(k) ELSE asked[k]

Serves(k, d, e) ==
  /\ d # NoStored /\ e # NoStored
  /\ k = "layout" => SD!UpgradedLayout(d) = d /\ SD!Shows(d.items, e.items)
  /\ k = "telemetry" => SameSources(d, e) /\ IsTelemetryMap(e)
  /\ k = "sequences" => SamePrograms(d, e) /\ ProgramsGood(e)

DocumentsInv ==
  /\ running \in BOOLEAN
  /\ ~running => SD!Idle
  /\ DOMAIN documentFile = SD!Kinds /\ DOMAIN asked = SD!Kinds /\ DOMAIN inUse = SD!Kinds
  /\ \A k \in SD!Kinds : Serves(k, SD!Loaded(k), Wanted(k))
  /\ running =>
       /\ text = [k \in SD!Kinds |-> SD!Loaded(k)]
       /\ \A k \in SD!Kinds : asked[k] # NoStored
       /\ IsTelemetryMap(inUse.telemetry) /\ SourcesMean(sources, fields, inUse.telemetry)
       /\ ProgramsGood(inUse.sequences) /\ ProgramsMean(defs, inUse.sequences)

LEMMA BootsTwice ==
  ASSUME NEW k, NEW d, NEW e, Serves(k, d, e)
  PROVE  Boots(k, d) = d
BY DEF Boots, Serves

LEMMA LayoutBoots ==
  ASSUME NEW f \in OldLayouts \cup {NoStored, SD!DefaultLayout}
  PROVE  LET d == Boots("layout", f) IN Serves("layout", d, d)
<1> DEFINE d == Boots("layout", f)
<1>1. /\ SD!DefaultLayout # NoStored /\ SD!UpgradedLayout(SD!DefaultLayout) = SD!DefaultLayout
      /\ SD!DefaultLayout.items = DefaultItems
  BY KindsAre, DocumentAssumption DEF SD!UpgradedLayout, SD!DefaultLayout
<1>2. SD!Shows(DefaultItems, DefaultItems)
  BY StoreAssumption, DocumentAssumption, ChosenShows DEF Buttons
<1>3. CASE f \in {NoStored, SD!DefaultLayout}
  <2>1. d = SD!DefaultLayout
    BY <1>1, <1>3, KindsAre DEF Boots
  <2> QED  BY <1>1, <1>2, <2>1 DEF Serves
<1>4. CASE f \in OldLayouts /\ f # NoStored
  <2>1. IsLayout(f) /\ SD!Chosen(f.items, Buttons) = f.items
    BY <1>4, DocumentAssumption DEF Buttons
  <2>2. d = SD!UpgradedLayout(f)
    BY <1>4 DEF Boots
  <2>3. d # NoStored
    BY <1>4, <2>2, DocumentAssumption
  <2>4. d.items = f.items
    BY <2>1, <2>2 DEF SD!UpgradedLayout, IsLayout
  <2>5. SD!UpgradedLayout(d) = d
    <3>1. CASE f.hasStates
      BY <2>2, <3>1 DEF SD!UpgradedLayout
    <3>2. CASE ~f.hasStates
      <4>1. d = [f EXCEPT !.hasStates = TRUE, !.stateItems = DefaultStates]
        BY <2>2, <3>2 DEF SD!UpgradedLayout
      <4>2. d.hasStates
        BY <2>1, <4>1 DEF IsLayout
      <4> HIDE DEF d
      <4> QED  BY <4>2 DEF SD!UpgradedLayout
    <3> QED  BY <3>1, <3>2
  <2>6. SD!Shows(f.items, f.items)
    <3>1. IsList(f.items)
      BY <2>1 DEF IsLayout
    <3> QED  BY <2>1, <3>1, ChosenShows
  <2> HIDE DEF d
  <2>7. Serves("layout", d, d)
    BY <2>3, <2>4, <2>5, <2>6 DEF Serves
  <2> QED  BY <2>7 DEF d
<1> QED  BY <1>3, <1>4

LEMMA TelemetryBoots ==
  ASSUME NEW f \in OldTelemetryMaps \cup {NoStored, SD!DefaultTelemetryMap}
  PROVE  LET d == Boots("telemetry", f) IN Serves("telemetry", d, d)
<1>1. Boots("telemetry", f) = IF f = NoStored THEN SD!DefaultTelemetryMap ELSE f
  BY KindsAre DEF Boots
<1>2. SD!DefaultTelemetryMap # NoStored /\ IsTelemetryMap(SD!DefaultTelemetryMap)
  BY KindsAre, DefaultSources, DocumentAssumption
<1>3. f \in OldTelemetryMaps => IsTelemetryMap(f)
  BY DocumentAssumption
<1> QED  BY <1>1, <1>2, <1>3 DEF Serves, SameSources

LEMMA ProgramsBoot ==
  ASSUME NEW f \in OldPrograms \cup {NoStored, SD!DefaultSequences}
  PROVE  LET d == Boots("sequences", f) IN Serves("sequences", d, d)
<1>1. Boots("sequences", f) = IF f = NoStored THEN SD!DefaultSequences ELSE f
  BY KindsAre DEF Boots
<1>2. SD!DefaultSequences # NoStored /\ ProgramsGood(SD!DefaultSequences)
  BY KindsAre, DefaultPrograms, DocumentAssumption DEF ProgramsGood
<1>3. f \in OldPrograms => ProgramsGood(f)
  BY DocumentAssumption DEF ProgramsGood
<1> QED  BY <1>1, <1>2, <1>3 DEF Serves, SamePrograms

LEMMA DocumentsStart == SD!Init => DocumentsInv
<1> SUFFICES ASSUME SD!Init PROVE DocumentsInv
  OBVIOUS
<1>1. /\ documentFile["layout"] \in OldLayouts \cup {NoStored, SD!DefaultLayout}
      /\ documentFile["telemetry"] \in OldTelemetryMaps \cup {NoStored, SD!DefaultTelemetryMap}
      /\ documentFile["sequences"] \in OldPrograms \cup {NoStored, SD!DefaultSequences}
      /\ DOMAIN documentFile = SD!Kinds
  BY KindsAre DEF SD!Init
<1>2. /\ SD!Idle /\ running = FALSE /\ DOMAIN asked = SD!Kinds /\ DOMAIN inUse = SD!Kinds
      /\ \A k \in SD!Kinds : asked[k] = NoStored
  BY DEF SD!Init, SD!Idle, SD!NoText
<1>3. \A k \in SD!Kinds : Serves(k, SD!Loaded(k), SD!Loaded(k))
  BY <1>1, KindsAre, LoadedBoots, LayoutBoots, TelemetryBoots, ProgramsBoot
<1>4. \A k \in SD!Kinds : Wanted(k) = SD!Loaded(k)
  BY <1>2 DEF Wanted
<1> QED  BY <1>1, <1>2, <1>3, <1>4 DEF DocumentsInv

(* What all three saves have in common.                                    *)
LEMMA StoreServes ==
  ASSUME DocumentsInv, NEW k \in SD!Kinds, NEW posted, NEW clean, NEW reloaded \in BOOLEAN,
         SD!Store(k, posted, clean, reloaded), Serves(k, clean, posted)
  PROVE  /\ running /\ running'
         /\ DOMAIN documentFile' = SD!Kinds /\ DOMAIN asked' = SD!Kinds /\ DOMAIN inUse' = SD!Kinds
         /\ \A j \in SD!Kinds : Serves(j, SD!Loaded(j)', Wanted(j)')
         /\ text' = [j \in SD!Kinds |-> SD!Loaded(j)']
         /\ \A j \in SD!Kinds : asked'[j] # NoStored
         /\ inUse'[k] = IF reloaded THEN posted ELSE inUse[k]
         /\ \A j \in SD!Kinds \ {k} : inUse'[j] = inUse[j]
<1>1. /\ running /\ running'
      /\ documentFile' = [documentFile EXCEPT ![k] = clean]
      /\ text' = [text EXCEPT ![k] = clean]
      /\ asked' = [asked EXCEPT ![k] = posted]
      /\ inUse' = IF reloaded THEN [inUse EXCEPT ![k] = posted] ELSE inUse
  BY DEF SD!Store
<1>2. /\ DOMAIN documentFile = SD!Kinds /\ DOMAIN asked = SD!Kinds /\ DOMAIN inUse = SD!Kinds
      /\ text = [j \in SD!Kinds |-> SD!Loaded(j)]
      /\ \A j \in SD!Kinds : asked[j] # NoStored /\ Serves(j, SD!Loaded(j), Wanted(j))
  BY <1>1 DEF DocumentsInv
<1>3. SD!Loaded(k)' = clean /\ asked'[k] = posted /\ posted # NoStored
  <2>1. documentFile'[k] = clean
    BY <1>1, <1>2
  <2>2. Boots(k, clean) = clean
    BY BootsTwice
  <2> QED  BY <1>1, <1>2, <2>1, <2>2, LoadedBoots DEF Serves
<1>4. \A j \in SD!Kinds \ {k} : SD!Loaded(j)' = SD!Loaded(j) /\ asked'[j] = asked[j]
  <2>1. \A j \in SD!Kinds \ {k} : documentFile'[j] = documentFile[j] /\ asked'[j] = asked[j]
    BY <1>1, <1>2
  <2> QED  BY <2>1, LoadedBoots
<1>5. \A j \in SD!Kinds : asked'[j] # NoStored
  BY <1>2, <1>3, <1>4
<1>6. ASSUME NEW j \in SD!Kinds PROVE Serves(j, SD!Loaded(j)', Wanted(j)')
  <2>1. Wanted(j)' = asked'[j] /\ Wanted(j) = asked[j]
    BY <1>2, <1>5 DEF Wanted
  <2> QED  BY <1>2, <1>3, <1>4, <2>1
<1>7. text' = [j \in SD!Kinds |-> SD!Loaded(j)']
  BY <1>1, <1>2, <1>3, <1>4
<1> QED  BY <1>1, <1>2, <1>5, <1>6, <1>7

LEMMA DocumentSteps == DocumentsInv /\ [SD!Next]_SD!vars => DocumentsInv'
<1> SUFFICES ASSUME DocumentsInv, [SD!Next]_SD!vars PROVE DocumentsInv'
  OBVIOUS
<1>1. CASE SD!Begin
  <2>1. ~running /\ running' /\ running' = TRUE /\ SD!Idle
    BY <1>1 DEF SD!Begin, DocumentsInv
  <2>2. ASSUME NEW k \in SD!Kinds
        PROVE  /\ SD!Loaded(k)' = SD!Loaded(k)
               /\ asked'[k] = Wanted(k) /\ inUse'[k] = Wanted(k) /\ Wanted(k)' = Wanted(k)
               /\ asked'[k] # NoStored /\ Serves(k, SD!Loaded(k)', Wanted(k)')
    <3>1. Serves(k, SD!Loaded(k), Wanted(k))
      BY DEF DocumentsInv
    <3>2. documentFile'[k] = documentFile[k] \/ documentFile'[k] = SD!Loaded(k)
      BY <1>1 DEF SD!Begin
    <3>3. Boots(k, SD!Loaded(k)) = SD!Loaded(k)
      BY <3>1, BootsTwice
    <3>4. SD!Loaded(k)' = SD!Loaded(k)
      BY <3>2, <3>3, LoadedBoots
    <3>5. asked'[k] = Wanted(k) /\ inUse'[k] = asked'[k]
      BY <1>1 DEF SD!Begin, Wanted
    <3>6. Wanted(k)' = Wanted(k) /\ asked'[k] # NoStored
      BY <3>1, <3>5 DEF Wanted, Serves
    <3> QED  BY <3>1, <3>4, <3>5, <3>6
  <2>3. DOMAIN documentFile' = SD!Kinds /\ DOMAIN asked' = SD!Kinds /\ DOMAIN inUse' = SD!Kinds
    BY <1>1 DEF SD!Begin
  <2>4. text' = [k \in SD!Kinds |-> SD!Loaded(k)']
    BY <1>1, <2>2 DEF SD!Begin
  <2>5. /\ IsTelemetryMap(inUse'["telemetry"])
        /\ SourcesMean(sources', fields', inUse'["telemetry"])
    <3>1. /\ SameSources(SD!Loaded("telemetry"), Wanted("telemetry"))
          /\ IsTelemetryMap(Wanted("telemetry")) /\ inUse'["telemetry"] = Wanted("telemetry")
      BY <2>2, KindsAre DEF DocumentsInv, Serves
    <3>2. SD!ReloadTelemetry(SD!Loaded("telemetry"))
      BY <1>1 DEF SD!Begin
    <3> QED  BY <3>1, <3>2 DEF SD!ReloadTelemetry, SourcesMean, SameSources
  <2>6. ProgramsGood(inUse'["sequences"]) /\ ProgramsMean(defs', inUse'["sequences"])
    <3>1. /\ SamePrograms(SD!Loaded("sequences"), Wanted("sequences"))
          /\ ProgramsGood(Wanted("sequences")) /\ inUse'["sequences"] = Wanted("sequences")
      BY <2>2, KindsAre DEF DocumentsInv, Serves
    <3>2. SD!ReloadSequences(SD!Loaded("sequences")) /\ defs = SD!AllDisabled
      BY <1>1, <2>1 DEF SD!Begin, SD!Idle
    <3> QED  BY <3>1, <3>2 DEF SD!ReloadSequences, ProgramsMean, SamePrograms
  <2> QED  BY <2>1, <2>2, <2>3, <2>4, <2>5, <2>6 DEF DocumentsInv
<1>2. CASE SD!Restart
  <2>1. /\ SD!Idle' /\ running' = FALSE
        /\ documentFile' = documentFile /\ asked' = asked /\ inUse' = inUse
    BY <1>2 DEF SD!Restart, SD!Idle, SD!NoText, SD!AllDisabled
  <2>2. \A k \in SD!Kinds : SD!Loaded(k)' = SD!Loaded(k) /\ Wanted(k)' = Wanted(k)
    BY <2>1, LoadedBoots DEF Wanted
  <2> QED  BY <2>1, <2>2 DEF DocumentsInv
<1>3. ASSUME NEW posted \in Layouts, SD!SaveLayout(posted) PROVE DocumentsInv'
  <2> DEFINE clean == SD!CleanLayout(posted)
  <2>1. /\ SD!Store("layout", posted, clean, TRUE) /\ UNCHANGED <<defs, sources, fields>>
    BY <1>3 DEF SD!SaveLayout
  <2>2. Serves("layout", clean, posted)
    <3>1. clean.items = SD!Chosen(posted.items, Buttons) /\ SD!UpgradedLayout(clean) = clean
      BY DEF SD!CleanLayout, SD!UpgradedLayout, Buttons
    <3>2. IsList(posted.items) /\ clean # NoStored /\ posted # NoStored
      BY DocumentAssumption DEF IsLayout
    <3> HIDE DEF clean
    <3> QED  BY <3>1, <3>2, ChosenShows DEF Serves
  <2> HIDE DEF clean
  <2>3. "layout" \in SD!Kinds /\ TRUE \in BOOLEAN
    BY KindsAre
  <2>4. /\ running /\ running'
        /\ DOMAIN documentFile' = SD!Kinds /\ DOMAIN asked' = SD!Kinds /\ DOMAIN inUse' = SD!Kinds
        /\ \A j \in SD!Kinds : Serves(j, SD!Loaded(j)', Wanted(j)')
        /\ text' = [j \in SD!Kinds |-> SD!Loaded(j)']
        /\ \A j \in SD!Kinds : asked'[j] # NoStored
        /\ \A j \in SD!Kinds \ {"layout"} : inUse'[j] = inUse[j]
    BY <2>1, <2>2, <2>3, StoreServes
  <2>5. inUse'["telemetry"] = inUse["telemetry"] /\ inUse'["sequences"] = inUse["sequences"]
    BY <2>4, KindsAre
  <2> QED  BY <2>1, <2>4, <2>5 DEF DocumentsInv
<1>4. ASSUME NEW posted \in TelemetryMaps, NEW memory \in BOOLEAN,
             SD!SaveTelemetryMap(posted, memory)
      PROVE  DocumentsInv'
  <2> DEFINE clean == SD!CleanTelemetryMap(posted)
  <2>1. /\ SD!Store("telemetry", posted, clean, memory) /\ UNCHANGED defs
        /\ IF memory THEN SD!ReloadTelemetry(clean) ELSE UNCHANGED <<sources, fields>>
    BY <1>4 DEF SD!SaveTelemetryMap
  <2>2. Serves("telemetry", clean, posted)
    BY DocumentAssumption, CleanSameSources DEF Serves
  <2> HIDE DEF clean
  <2>3. "telemetry" \in SD!Kinds
    BY KindsAre
  <2>4. /\ running /\ running'
        /\ DOMAIN documentFile' = SD!Kinds /\ DOMAIN asked' = SD!Kinds /\ DOMAIN inUse' = SD!Kinds
        /\ \A j \in SD!Kinds : Serves(j, SD!Loaded(j)', Wanted(j)')
        /\ text' = [j \in SD!Kinds |-> SD!Loaded(j)']
        /\ \A j \in SD!Kinds : asked'[j] # NoStored
        /\ inUse'["telemetry"] = IF memory THEN posted ELSE inUse["telemetry"]
        /\ \A j \in SD!Kinds \ {"telemetry"} : inUse'[j] = inUse[j]
    BY <2>1, <2>2, <2>3, StoreServes
  <2>5. inUse'["sequences"] = inUse["sequences"]
    BY <2>4, KindsAre
  <2>6. /\ IsTelemetryMap(inUse'["telemetry"])
        /\ SourcesMean(sources', fields', inUse'["telemetry"])
    <3>1. CASE memory
      BY <2>1, <2>2, <2>4, <3>1 DEF SD!ReloadTelemetry, SourcesMean, SameSources, Serves
    <3>2. CASE ~memory
      BY <2>1, <2>4, <3>2 DEF DocumentsInv
    <3> QED  BY <3>1, <3>2
  <2> QED  BY <2>1, <2>4, <2>5, <2>6 DEF DocumentsInv
<1>5. ASSUME NEW posted \in Programs, NEW memory \in BOOLEAN, SD!SaveSequences(posted, memory)
      PROVE  DocumentsInv'
  <2> DEFINE clean == SD!CleanSequences(posted)
  <2>1. /\ SD!Store("sequences", posted, clean, memory) /\ UNCHANGED <<sources, fields>>
        /\ IF memory THEN SD!ReloadSequences(clean) ELSE UNCHANGED defs
        /\ ~SD!Refuses(posted)
    BY <1>5 DEF SD!SaveSequences, SD!SaveRefuses
  <2>2. Serves("sequences", clean, posted)
    BY <2>1, DocumentAssumption, CleanSamePrograms DEF Serves, ProgramsGood
  <2> HIDE DEF clean
  <2>3. "sequences" \in SD!Kinds
    BY KindsAre
  <2>4. /\ running /\ running'
        /\ DOMAIN documentFile' = SD!Kinds /\ DOMAIN asked' = SD!Kinds /\ DOMAIN inUse' = SD!Kinds
        /\ \A j \in SD!Kinds : Serves(j, SD!Loaded(j)', Wanted(j)')
        /\ text' = [j \in SD!Kinds |-> SD!Loaded(j)']
        /\ \A j \in SD!Kinds : asked'[j] # NoStored
        /\ inUse'["sequences"] = IF memory THEN posted ELSE inUse["sequences"]
        /\ \A j \in SD!Kinds \ {"sequences"} : inUse'[j] = inUse[j]
    BY <2>1, <2>2, <2>3, StoreServes
  <2>5. inUse'["telemetry"] = inUse["telemetry"]
    BY <2>4, KindsAre
  <2>6. ProgramsGood(inUse'["sequences"]) /\ ProgramsMean(defs', inUse'["sequences"])
    <3>1. CASE memory
      BY <2>1, <2>2, <2>4, <3>1 DEF SD!ReloadSequences, ProgramsMean, SamePrograms, Serves
    <3>2. CASE ~memory
      BY <2>1, <2>4, <3>2 DEF DocumentsInv
    <3> QED  BY <3>1, <3>2
  <2> QED  BY <2>1, <2>4, <2>5, <2>6 DEF DocumentsInv
<1>6. CASE UNCHANGED SD!vars
  <2>1. /\ UNCHANGED <<documentFile, text, defs, sources, fields, running, asked, inUse>>
    BY <1>6 DEF SD!vars
  <2>2. \A k \in SD!Kinds : SD!Loaded(k)' = SD!Loaded(k) /\ Wanted(k)' = Wanted(k)
    BY <2>1, LoadedBoots DEF Wanted
  <2> QED  BY <2>1, <2>2 DEF DocumentsInv, SD!Idle
<1> QED  BY <1>1, <1>2, <1>3, <1>4, <1>5, <1>6 DEF SD!Next

(* What a save accepted is what the engines and the pages use from then    *)
(* on, through restarts and failed writes, for every document and every    *)
(* size of the tables.                                                     *)
THEOREM SavedDocumentsAreAlwaysUsed == StoreSpec => []SavedDocumentsAreUsed
<1>1. DocumentsInv => SavedDocumentsAreUsed
  <2> SUFFICES ASSUME DocumentsInv PROVE SavedDocumentsAreUsed
    OBVIOUS
  <2>1. SD!ProgramsAreUsed
    BY MeantProgramsRun DEF SD!ProgramsAreUsed, DocumentsInv
  <2>2. SD!SourcesAreUsed
    BY MeantSourcesRead DEF SD!SourcesAreUsed, DocumentsInv
  <2>3. SD!LayoutIsShown
    <3> SUFFICES ASSUME running PROVE SD!Shows(text.layout.items, asked.layout.items)
      BY DEF SD!LayoutIsShown
    <3>1. text.layout = SD!Loaded("layout") /\ asked.layout = Wanted("layout")
      BY KindsAre DEF DocumentsInv, Wanted
    <3> QED  BY <3>1, KindsAre DEF DocumentsInv, Serves
  <2> QED  BY <2>1, <2>2, <2>3 DEF SavedDocumentsAreUsed, SD!SavedDocumentsAreUsed
<1> QED
    BY <1>1, DocumentsStart, DocumentSteps, StoreImplementsParts, PTL DEF SD!Spec

-----------------------------------------------------------------------------
(***************************************************************************)
(* The networks, for any width of an address.  The tests of the code are   *)
(* on bits; LowBits and NetworksMeet say what they mean of prefixes and    *)
(* networks.  Of two networks one has all the host bits of the other,      *)
(* which is why one of them considers the other's address its own whenever *)
(* they meet at all.                                                       *)
(***************************************************************************)

(* A set that is not all bits has a first bit missing.                     *)
LEMMA FirstMissing ==
  ASSUME NEW x \in SUBSET Bits, x # Bits
  PROVE  \E n \in Bits : n \notin x /\ 0..n - 1 \subseteq x
<1> DEFINE missing == {n \in Nat : n \in Bits \ x}
<1>0. Bits \subseteq Nat
  BY AddressingAssumption DEF Bits
<1>1. missing # {} /\ missing \subseteq Nat
  <2>1. PICK n \in Bits : n \notin x
    OBVIOUS
  <2>2. n \in missing
    BY <1>0, <2>1
  <2> QED  BY <2>2
<1>2. IsWellFoundedOn(OpToRel(<, Nat), Nat)
  BY NatLessThanWellFounded
<1>3. PICK n \in missing : \A m \in missing : ~(<<m, n>> \in OpToRel(<, Nat))
  BY <1>1, <1>2, WFMin
<1>4. \A m \in missing : ~(m < n)
  BY <1>1, <1>3 DEF OpToRel
<1>5. n \in Bits /\ n \notin x
  OBVIOUS
<1>6. \A i \in 0..n - 1 : i \in x
  BY <1>4, <1>5, AddressingAssumption DEF Bits
<1> QED  BY <1>5, <1>6

(* x & (x + 1) is 0 exactly for sets of low bits, the host's of a prefix.  *)
LEMMA LowBits ==
  ASSUME NEW x \in SUBSET Bits
  PROVE  x \cap PlusOne(x) = {} <=> \E p \in 0..Width : x = HostBits(p)
<1>1. ASSUME x \cap PlusOne(x) = {}
      PROVE  \E p \in 0..Width : x = HostBits(p)
  <2>1. \A i \in x : 0..i - 1 \subseteq x
    BY <1>1 DEF PlusOne
  <2>2. CASE x = Bits
    <3>1. 0 \in 0..Width /\ Width - 0 - 1 = Width - 1
      BY AddressingAssumption
    <3> QED  BY <2>2, <3>1 DEF HostBits, Bits
  <2>3. CASE x # Bits
    <3>1. PICK n \in Bits : n \notin x /\ 0..n - 1 \subseteq x
      BY <2>3, FirstMissing
    <3>2. n \in 0..Width - 1
      BY DEF Bits
    <3>3. \A i \in x : i \in 0..n - 1
      BY <2>1, <3>1, <3>2, AddressingAssumption DEF Bits
    <3>4. Width - n \in 0..Width /\ Width - (Width - n) - 1 = n - 1
      BY <3>2, AddressingAssumption
    <3>5. x = 0..n - 1
      BY <3>1, <3>3
    <3>6. x = HostBits(Width - n)
      BY <3>4, <3>5 DEF HostBits
    <3> QED  BY <3>4, <3>6
  <2> QED  BY <2>2, <2>3
<1>2. ASSUME NEW p \in 0..Width, x = HostBits(p)
      PROVE  x \cap PlusOne(x) = {}
  <2> SUFFICES ASSUME NEW i \in x, i \in PlusOne(x) PROVE FALSE
    OBVIOUS
  <2>1. ~(0..i - 1 \subseteq x)
    BY DEF PlusOne
  <2>2. i \in 0..Width - p - 1
    BY <1>2 DEF HostBits
  <2>3. 0..i - 1 \subseteq 0..Width - p - 1
    BY <2>2, AddressingAssumption
  <2> QED  BY <1>2, <2>1, <2>3 DEF HostBits
<1> QED  BY <1>1, <1>2

LEMMA HostBitsAre ==
  ASSUME NEW p \in 0..Width
  PROVE  /\ HostBits(p) \subseteq Bits
         /\ HostBits(p) = {} <=> p = Width
         /\ HostBits(p) = Bits <=> p = 0
<1>1. HostBits(p) \subseteq Bits
  BY AddressingAssumption DEF HostBits, Bits
<1>2. p < Width => 0 \in HostBits(p)
  BY AddressingAssumption DEF HostBits
<1>3. p = Width => HostBits(p) = {}
  BY AddressingAssumption DEF HostBits
<1>4. p = 0 => HostBits(p) = Bits
  BY AddressingAssumption DEF HostBits, Bits
<1>5. p # 0 => Width - 1 \in Bits /\ Width - 1 \notin HostBits(p)
  BY AddressingAssumption DEF HostBits, Bits
<1>6. p # Width => p < Width
  BY AddressingAssumption
<1> QED  BY <1>1, <1>2, <1>3, <1>4, <1>5, <1>6

(* One of two networks has all the host bits of the other.                 *)
LEMMA HostBitsNest ==
  ASSUME NEW p \in 0..Width, NEW q \in 0..Width
  PROVE  HostBits(p) \subseteq HostBits(q) \/ HostBits(q) \subseteq HostBits(p)
<1>1. CASE p <= q
  BY <1>1, AddressingAssumption DEF HostBits
<1>2. CASE q <= p
  BY <1>2, AddressingAssumption DEF HostBits
<1> QED  BY <1>1, <1>2, AddressingAssumption

(* validStaticEthernet (ConfigStore.cpp:30) lets a static address pass     *)
(* exactly if its mask is that of a prefix and it is the address of a host *)
(* there: nothing good is refused, and nothing else is saved.              *)
THEOREM StaticCheckIsExact ==
  \A ip, mask \in Addresses :
    ValidStatic(ip, mask) <=> \E p \in 1..Width : mask = MaskOf(p) /\ IsHost(ip, p)
<1> SUFFICES ASSUME NEW ip \in Addresses, NEW mask \in Addresses
             PROVE  ValidStatic(ip, mask) <=> \E p \in 1..Width : mask = MaskOf(p) /\ IsHost(ip, p)
  OBVIOUS
<1> DEFINE inverse == Bits \ mask
           host == ip \cap inverse
<1>1. inverse \in SUBSET Bits /\ mask = Bits \ inverse /\ ip \subseteq Bits
  BY DEF Addresses
<1>2. ASSUME NEW p \in 1..Width, inverse = HostBits(p)
      PROVE  (inverse # {} => host # {} /\ host # inverse)
                <=> (p < Width => ip # ip \ HostBits(p) /\ ip # ip \cup HostBits(p))
  <2>1. p \in 0..Width
    BY AddressingAssumption
  <2>2. inverse # {} <=> p < Width
    BY <1>2, <2>1, HostBitsAre, AddressingAssumption
  <2>3. host # {} <=> ip # ip \ HostBits(p)
    BY <1>2
  <2>4. host # inverse <=> ip # ip \cup HostBits(p)
    BY <1>2
  <2> QED  BY <2>2, <2>3, <2>4
<1>3. ASSUME ValidStatic(ip, mask)
      PROVE  \E p \in 1..Width : mask = MaskOf(p) /\ IsHost(ip, p)
  <2>1. PICK p \in 0..Width : inverse = HostBits(p)
    <3> HIDE DEF inverse
    <3>1. inverse \cap PlusOne(inverse) = {}
      BY <1>3 DEF ValidStatic, inverse
    <3> QED  BY <1>1, <3>1, LowBits
  <2>2. p # 0
    BY <1>1, <1>3, <2>1, HostBitsAre DEF ValidStatic
  <2>3. p \in 1..Width
    BY <2>2, AddressingAssumption
  <2>4. mask = MaskOf(p)
    BY <1>1, <2>1 DEF MaskOf
  <2>5. IsHost(ip, p)
    BY <1>2, <1>3, <2>1, <2>3 DEF ValidStatic, IsHost
  <2> QED  BY <2>3, <2>4, <2>5
<1>4. ASSUME NEW p \in 1..Width, mask = MaskOf(p), IsHost(ip, p)
      PROVE  ValidStatic(ip, mask)
  <2>1. p \in 0..Width /\ p # 0
    BY AddressingAssumption
  <2>2. inverse = HostBits(p)
    BY <1>4, <2>1, HostBitsAre DEF MaskOf
  <2>3. inverse \cap PlusOne(inverse) = {}
    BY <1>1, <2>1, <2>2, LowBits
  <2>4. mask # {}
    BY <1>1, <2>1, <2>2, HostBitsAre
  <2> QED  BY <1>2, <1>4, <2>2, <2>3, <2>4 DEF ValidStatic, IsHost
<1> QED  BY <1>3, <1>4

(* What & finds of two addresses is whether their networks meet.           *)
LEMMA NetworksMeet ==
  ASSUME NEW a \in Addresses, NEW b \in Addresses, NEW p \in 0..Width, NEW q \in 0..Width
  PROVE  (a \cap MaskOf(p) = b \cap MaskOf(p) \/ a \cap MaskOf(q) = b \cap MaskOf(q))
           <=> Network(a, p) \cap Network(b, q) # {}
<1> DEFINE P == HostBits(p)
           Q == HostBits(q)
<1>1. /\ a \cap MaskOf(p) = a \ P /\ b \cap MaskOf(p) = b \ P
      /\ a \cap MaskOf(q) = a \ Q /\ b \cap MaskOf(q) = b \ Q
  BY DEF MaskOf, Addresses
<1>2. P \subseteq Q \/ Q \subseteq P
  BY HostBitsNest
<1>3. a \in Network(a, p) /\ b \in Network(b, q)
  BY DEF Network
<1>4. a \in Network(b, q) <=> a \ Q = b \ Q
  BY DEF Network
<1>5. b \in Network(a, p) <=> a \ P = b \ P
  BY DEF Network
<1>6. \A c \in Network(a, p) \cap Network(b, q) : c \ P = a \ P /\ c \ Q = b \ Q
  BY DEF Network
<1> HIDE DEF P, Q
<1>7. ASSUME NEW c, c \ P = a \ P, c \ Q = b \ Q
      PROVE  a \ P = b \ P \/ a \ Q = b \ Q
  <2>1. CASE P \subseteq Q
    <3>1. c \ Q = a \ Q
      BY <1>7, <2>1
    <3> QED  BY <1>7, <3>1
  <2>2. CASE Q \subseteq P
    <3>1. c \ P = b \ P
      BY <1>7, <2>2
    <3> QED  BY <1>7, <3>1
  <2> QED  BY <1>2, <2>1, <2>2
<1> QED  BY <1>1, <1>3, <1>4, <1>5, <1>6, <1>7

(* Static addresses are those the check lets pass, and a link has one of   *)
(* them or a lease.                                                        *)
Statics == {s \in [dhcp: {FALSE}, ip: Addresses, mask: Addresses] : ValidStatic(s.ip, s.mask)}

AddressInv ==
  /\ setting \in Statics \cup {Dhcp} /\ applied \in Statics \cup {Dhcp}
  /\ ethernet \in Leases \cup {Off} /\ wifi \in Leases \cup {Off}

LEMMA StaticIsLease ==
  ASSUME NEW s \in Statics
  PROVE  On(s.ip, s.mask) \in Leases
<1>1. s.ip \in Addresses /\ s.mask \in Addresses /\ ValidStatic(s.ip, s.mask)
  BY DEF Statics
<1>2. \E p \in 1..Width : s.mask = MaskOf(p)
  BY <1>1, StaticCheckIsExact
<1> QED  BY <1>1, <1>2 DEF Leases

(* The settings are such addresses or none, at whatever boot they were     *)
(* applied, and what a link has is an address in a network                 *)
(* (updateConfigJson, NetworkManager::begin).                              *)
THEOREM AddressInvariant == AddressSpec => []AddressInv
<1>1. AddressInit => AddressInv
  BY DEF AddressInit, AddressInv
<1>2. ASSUME AddressInv, [AddressNext]_addressVars
      PROVE  AddressInv'
  <2>1. ASSUME NEW ip \in Addresses, NEW mask \in Addresses, SaveStatic(ip, mask)
        PROVE  AddressInv'
    <3>1. setting' = [dhcp |-> FALSE, ip |-> ip, mask |-> mask] /\ ValidStatic(ip, mask)
      BY <2>1 DEF SaveStatic
    <3>2. setting' \in Statics
      BY <3>1 DEF Statics
    <3> QED  BY <1>2, <2>1, <3>2 DEF SaveStatic, AddressInv
  <2>2. CASE SaveDhcp
    BY <1>2, <2>2 DEF SaveDhcp, AddressInv
  <2>3. CASE BeginNetwork
    BY <1>2, <2>3 DEF BeginNetwork, AddressInv
  <2>4. CASE EthernetGotIp
    <3>1. ethernet' \in Leases
      <4>1. CASE ~applied.dhcp /\ ethernet' = On(applied.ip, applied.mask)
        BY <1>2, <4>1, StaticIsLease DEF AddressInv, Dhcp
      <4>2. CASE ethernet' \in {l \in Leases : IsHost(l.ip, Width)}
        BY <4>2
      <4> QED  BY <2>4, <4>1, <4>2 DEF EthernetGotIp
    <3> QED  BY <1>2, <2>4, <3>1 DEF EthernetGotIp, AddressInv
  <2>5. CASE EthernetLost
    BY <1>2, <2>5 DEF EthernetLost, AddressInv
  <2>6. CASE WifiGotIp
    BY <1>2, <2>6 DEF WifiGotIp, AddressInv
  <2>7. CASE WifiLost
    BY <1>2, <2>7 DEF WifiLost, AddressInv
  <2>8. CASE UNCHANGED addressVars
    BY <1>2, <2>8 DEF addressVars, AddressInv
  <2> QED  BY <1>2, <2>1, <2>2, <2>3, <2>4, <2>5, <2>6, <2>7, <2>8 DEF AddressNext
<1> QED  BY <1>1, <1>2, PTL DEF AddressSpec

(* The status warns of networks that overlap exactly when they do          *)
(* (NetworkManager::subnetsOverlap), and a saved address is a host's.      *)
THEOREM NetworksAreAlwaysRead == AddressSpec => []NetworksAreRead
<1>1. AddressInv => NetworksAreRead
  <2> SUFFICES ASSUME AddressInv PROVE NetworksAreRead
    OBVIOUS
  <2>1. ASSUME ~setting.dhcp
        PROVE  \E p \in Prefixes(setting) : IsHost(setting.ip, p)
    <3>0. setting \in Statics
      BY <2>1 DEF AddressInv, Dhcp
    <3>1. setting \in Statics /\ ValidStatic(setting.ip, setting.mask)
      BY <3>0 DEF Statics
    <3>2. setting.ip \in Addresses /\ setting.mask \in Addresses
      BY <3>1 DEF Statics
    <3> QED  BY <3>1, <3>2, StaticCheckIsExact DEF Prefixes
  <2>2. ASSUME ethernet.up, wifi.up
        PROVE  \E p \in Prefixes(ethernet), q \in Prefixes(wifi) :
                 SubnetsOverlap <=> Network(ethernet.ip, p) \cap Network(wifi.ip, q) # {}
    <3>1. ethernet \in Leases /\ wifi \in Leases
      BY <2>2 DEF AddressInv, Off
    <3>2. PICK p \in 1..Width : ethernet.ip \in Addresses /\ ethernet.mask = MaskOf(p)
      BY <3>1 DEF Leases, On
    <3>3. PICK q \in 1..Width : wifi.ip \in Addresses /\ wifi.mask = MaskOf(q)
      BY <3>1 DEF Leases, On
    <3>4. p \in 0..Width /\ q \in 0..Width
      BY AddressingAssumption
    <3>5. SubnetsOverlap <=> Network(ethernet.ip, p) \cap Network(wifi.ip, q) # {}
      BY <2>2, <3>2, <3>3, <3>4, NetworksMeet DEF SubnetsOverlap
    <3> QED  BY <3>2, <3>3, <3>5 DEF Prefixes
  <2> QED  BY <2>1, <2>2 DEF NetworksAreRead
<1> QED  BY <1>1, AddressInvariant, PTL
=============================================================================
