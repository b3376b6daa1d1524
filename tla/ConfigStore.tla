---------------------------- MODULE ConfigStore ----------------------------
(***************************************************************************)
(* ConfigStore over its lifetime: the settings, the command mapping, the   *)
(* trigger slots, the layout, the telemetry map and the sequences, each in *)
(* a file of its own.  begin() loads the six at one boot, of whatever      *)
(* firmware each file is from; the operator saves them one at a time.      *)
(***************************************************************************)
EXTENDS BridgeSettings, Sequences

CONSTANTS CommandEdits,    \* Edits of CommandMap
          TriggerCount, MapEntries, CallableIds, RefusedIds,
          FactoryTriggers, NoObject,   \* Count ... NoEntry of VsmSlots
          NoStored,                    \* NoFile of the three
          SlotCount, MaxSteps, SourceCount, CommandIds, HoldOnlyCommands, DefaultItems,
          StateIds, DefaultStates, Layouts, TelemetryMaps, Programs,
          OldLayouts, OldTelemetryMaps, OldPrograms, NoName   \* of SavedDocuments

VARIABLES commandFile, commandMap,     \* COMMAND_PATH, commandMap_
          slotFile, slotMap, slots,    \* VSM_GENERIC_PATH, vsmGenericMap_, triggers_
          givenMap, lastTrigger,       \* given and ran of VsmSlots
          documentFile, text, defs, sources, fields, asked, inUse   \* of SavedDocuments

CM == INSTANCE CommandMap
        WITH Edits <- CommandEdits, NoFile <- NoStored,
             file <- commandFile, map <- commandMap, booted <- running
VS == INSTANCE VsmSlots
        WITH Count <- TriggerCount, MaxEntries <- MapEntries, Callable <- CallableIds,
             Refused <- RefusedIds, DefaultCommands <- FactoryTriggers,
             NoEntry <- NoObject, NoFile <- NoStored,
             file <- slotFile, map <- slotMap, triggers <- slots, booted <- running,
             given <- givenMap, ran <- lastTrigger
SD == INSTANCE SavedDocuments WITH NoFile <- NoStored, file <- documentFile

ASSUME StoreAssumption ==
  /\ CommandEdits \subseteq CM!Mappings
  /\ NoStored \notin CM!Documents
  /\ TriggerCount \in Nat \ {0} /\ MapEntries \in Nat
  /\ FactoryTriggers \in [1..TriggerCount -> VS!Values]
  /\ NoObject \notin VS!Objects /\ NoStored \notin [1..TriggerCount -> VS!Objects]
  /\ {SlotCount, MaxSteps, SourceCount} \subseteq Nat \ {0}
  /\ HoldOnlyCommands \cup {"stop_replay"} \subseteq CommandIds
  /\ SD!Chosen(DefaultItems, CommandIds \ HoldOnlyCommands) = DefaultItems
  /\ SD!Chosen(DefaultStates, StateIds) = DefaultStates

(* What is posted or found parses as a document of its kind: lists, steps  *)
(* and sources with their members, each a number where one belongs.        *)
IsList(list) == list \in Seq({list[i] : i \in DOMAIN list})
IsStep(step) == {"type", "id", "number"} \subseteq DOMAIN step /\ step.number \in Int
IsProgram(p) ==
  /\ p.timeoutMs \in Int
  /\ IsList(p.steps) /\ \A i \in DOMAIN p.steps : IsStep(p.steps[i])
IsSource(s) == {"id", "enabled", "intervalMs"} \subseteq DOMAIN s /\ s.intervalMs \in Int

IsPrograms(d) == IsList(d) /\ \A s \in DOMAIN d : IsProgram(d[s])
IsTelemetryMap(d) ==
  /\ IsList(d.sources) /\ \A i \in DOMAIN d.sources : IsSource(d.sources[i])
  /\ \A f \in DOMAIN d.fields : d.fields[f] # NoName
IsLayout(d) ==
  /\ {"items", "hasStates", "stateItems"} \subseteq DOMAIN d /\ d.hasStates \in BOOLEAN
  /\ IsList(d.items)

(* Layouts of older firmware were cleaned too, and the commands of the     *)
(* template are neither the macro nor a lens command.                      *)
ASSUME DocumentAssumption ==
  /\ \A d \in Programs \cup OldPrograms : IsPrograms(d)
  /\ \A d \in TelemetryMaps \cup OldTelemetryMaps : IsTelemetryMap(d)
  /\ \A d \in Layouts \cup OldLayouts : IsLayout(d)
  /\ IsList(DefaultItems) /\ NoName # SD!NoRule
  /\ \A d \in OldLayouts : SD!Chosen(d.items, CommandIds \ HoldOnlyCommands) = d.items
  /\ {"record_start", "record_stop", "rec_review"} \cap HoldOnlyCommands = {}
  /\ NoStored \notin Programs \cup OldPrograms \cup {SD!CleanSequences(d) : d \in Programs}
  /\ NoStored \notin TelemetryMaps \cup OldTelemetryMaps
                      \cup {SD!CleanTelemetryMap(d) : d \in TelemetryMaps}
  /\ NoStored \notin Layouts \cup {SD!CleanLayout(d) : d \in Layouts}
                      \cup {SD!UpgradedLayout(d) : d \in OldLayouts}
  /\ \A k \in SD!Kinds : SD!DefaultDocument[k] # NoStored

commandVars == <<commandFile, commandMap>>
slotVars == <<slotFile, slotMap, slots, givenMap, lastTrigger>>
documentVars == <<documentFile, text, defs, sources, fields, asked, inUse>>
storeVars == <<vars, commandVars, slotVars, documentVars>>

StoreInit == Init /\ CM!Init /\ VS!Init /\ SD!Init

Begin ==
  /\ Boot
  /\ CM!BootWithoutMap \/ CM!LoadCommandMap
  /\ VS!BootWithoutMap \/ VS!LoadVsmGenericMap
  /\ SD!Begin

StoreRestart == Restart /\ CM!Restart /\ VS!Restart /\ SD!Restart

SaveSettings ==
  /\ \/ \E f \in Fields, n \in Inputs : UpdateConfig([g \in {f} |-> n], cfg.network)
     \/ \E network \in Profiles : UpdateConfig([g \in {} |-> 0], network)
  /\ UNCHANGED <<commandVars, slotVars, documentVars>>

SaveCommands ==
  /\ \E c \in CM!Commands, m \in CommandEdits : CM!SaveCommandMap(c, m)
  /\ UNCHANGED <<vars, slotVars, documentVars>>

SaveSlots ==
  /\ \E document \in VS!Maps : VS!SaveVsmGenericMap(document)
  /\ UNCHANGED <<vars, commandVars, documentVars>>

UseSlot ==
  /\ \E n \in VS!Slots : VS!Trigger(n)
  /\ UNCHANGED <<vars, commandVars, documentVars>>

SaveLayout(posted) ==
  /\ SD!SaveLayout(posted)
  /\ UNCHANGED <<vars, commandVars, slotVars>>

SaveTelemetryMap(posted) ==
  /\ \E memory \in BOOLEAN : SD!SaveTelemetryMap(posted, memory)
  /\ UNCHANGED <<vars, commandVars, slotVars>>

SaveSequences(posted) ==
  /\ \E memory \in BOOLEAN : SD!SaveSequences(posted, memory)
  /\ UNCHANGED <<vars, commandVars, slotVars>>

StoreNext ==
  \/ Begin \/ StoreRestart
  \/ SaveSettings \/ SaveCommands \/ SaveSlots
  \/ \E posted \in Layouts : SaveLayout(posted)
  \/ \E posted \in TelemetryMaps : SaveTelemetryMap(posted)
  \/ \E posted \in Programs : SaveSequences(posted)
  \/ UseSlot

StoreSpec == StoreInit /\ [][StoreNext]_storeVars

-----------------------------------------------------------------------------
(* Properties                                                              *)

(* The commands do after a restart what they did before it, see CommandMap.*)
RestartKeepsMap == CM!RestartKeepsMap

(* An upgrade keeps the operator's requests, see CommandMap.               *)
UpgradeKeepsRequests == CM!UpgradeKeepsRequests

(* A trigger runs what the operator's document means by its slot, through  *)
(* any number of restarts, see VsmSlots.                                   *)
TriggerRunsItsSlot == VS!TriggerRunsItsSlot

(* The engines and the pages use what a save accepted, see SavedDocuments. *)
SavedDocumentsAreUsed == SD!SavedDocumentsAreUsed
=============================================================================
