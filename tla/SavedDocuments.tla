--------------------------- MODULE SavedDocuments ---------------------------
(***************************************************************************)
(* The three documents of ConfigStore that no migration rewrites: the      *)
(* layout of the control page, the telemetry map and the sequences.  A     *)
(* save cleans what the operator posted and hands it on to the engine that *)
(* uses it; at a boot the engine is given the text of the file, whoever    *)
(* wrote it.  The sequence engine reads a document by rules of its own,    *)
(* and refuses all of it for one step it cannot run.                       *)
(*                                                                         *)
(* A number a document does not have is -1, which the code's `| default'   *)
(* treats the same way.  Of a step the number of its kind stands for all   *)
(* its numbers, of a source the interval; a request is valid or not.       *)
(* writeFileAtomic replaces a file or leaves it, and then the save is      *)
(* refused (AtomicFile).                                                   *)
(***************************************************************************)
EXTENDS Integers, SequencesExt

CONSTANTS SlotCount, MaxSteps, SourceCount,        \* 8, 16 and 4
          CommandIds, HoldOnlyCommands, StateIds,    \* AppTypes.cpp
          DefaultItems, DefaultStates,             \* those with defaultVisible
          Layouts, TelemetryMaps, Programs,      \* documents an operator may post
          OldLayouts, OldTelemetryMaps, OldPrograms,   \* and those found in the flash
          NoFile,                                  \* no file, or not one of its kind
          NoName                                   \* of a source without an id

VARIABLES file,            \* what the three files hold
          text,            \* layout_, telemetryMap_, sequences_
          defs,            \* SequenceEngine
          sources, fields, \* TelemetryManager
          running,
          asked,           \* the document the operator last had accepted, or the first one found
          inUse            \* the one the engine was given: older if a reload had no memory

vars == <<file, text, defs, sources, fields, running, asked, inUse>>

Slots == 1..SlotCount
Sources == 1..SourceCount

(* value | default, and constrain() *)
Given(number, default) == IF number < 0 THEN default ELSE number
Constrain(number, low, high) ==
  IF number < low THEN low ELSE IF number > high THEN high ELSE number

FirstOf(list, n) == SubSeq(list, 1, IF Len(list) < n THEN Len(list) ELSE n)

-----------------------------------------------------------------------------
(* Sequences                                                               *)

Recognised(step) ==
  CASE step.type = "command" -> step.id \in CommandIds
    [] step.type = "wait_state" -> step.id \in StateIds
    [] OTHER -> step.type = "wait_ms"

Forbidden(step) == step.type = "command" /\ step.id \in HoldOnlyCommands \cup {"stop_replay"}

Limited(step) ==
  CASE step.type = "wait_ms" -> [step EXCEPT !.number = Constrain(Given(@, 0), 0, 300000)]
    [] step.type = "wait_state" -> [step EXCEPT !.number = Constrain(Given(@, 15000), 250, 300000)]
    [] OTHER -> step

Kept(steps) ==
  LET Add(kept, step) ==
        IF Len(kept) < MaxSteps /\ Recognised(step) THEN Append(kept, Limited(step)) ELSE kept
  IN  FoldLeft(Add, <<>>, steps)

Refuses(document) ==
  \E s \in DOMAIN FirstOf(document, SlotCount) : \E i \in DOMAIN Kept(document[s].steps) :
    Forbidden(Kept(document[s].steps)[i])

(* Slip: only the lens commands are refused. *)
RefusesLensOnly(document) ==
  \E s \in DOMAIN FirstOf(document, SlotCount) : \E i \in DOMAIN Kept(document[s].steps) :
    Kept(document[s].steps)[i].id \in HoldOnlyCommands
SaveRefuses(document) == Refuses(document)

Disabled == [enabled |-> FALSE, timeoutMs |-> 60000, steps |-> <<>>]

CleanSequences(document) ==
  [s \in Slots |->
     IF s > Len(document) THEN Disabled
     ELSE [enabled |-> document[s].enabled, steps |-> Kept(document[s].steps),
           timeoutMs |-> Constrain(Given(document[s].timeoutMs, 60000), 1000, 600000)]]

(* reload() reads the stored text with a copy of the same rules, and       *)
(* leaves the slots alone when it refuses.                                 *)
LoadedDefs(document) ==
  [s \in Slots |->
     IF s > Len(document) THEN Disabled
     ELSE [enabled |-> document[s].enabled, steps |-> Kept(document[s].steps),
           timeoutMs |-> Constrain(Given(document[s].timeoutMs, 60000), 1000, 600000)]]

ReloadSequences(document) == defs' = IF Refuses(document) THEN defs ELSE LoadedDefs(document)

(* The template and the empty slots behind it. *)
DefaultSequences ==
  LET Step(type, id, number) == [type |-> type, id |-> id, number |-> number]
      template == <<Step("command", "record_start", -1), Step("wait_ms", "", 10000),
                    Step("command", "record_stop", -1), Step("wait_state", "ready", 15000),
                    Step("command", "rec_review", -1)>>
  IN  [s \in Slots |-> IF s = 1 THEN [Disabled EXCEPT !.steps = template] ELSE Disabled]

-----------------------------------------------------------------------------
(* Telemetry map                                                           *)

NoRule == ""
DefaultName(i) == "source" \o ToString(i)
NoSource(i) ==
  [id |-> DefaultName(i), enabled |-> FALSE, path |-> "", valid |-> TRUE, intervalMs |-> 500]

CleanSource(document, i) ==
  [document.sources[i] EXCEPT !.intervalMs = Constrain(Given(@, 500), 100, 10000),
                              !.id = IF @ = NoName THEN DefaultName(i) ELSE @]

Rules(document) ==
  [f \in StateIds |-> IF f \in DOMAIN document.fields THEN document.fields[f] ELSE NoRule]

CleanTelemetryMap(document) ==
  [sources |-> [i \in Sources |->
                  IF i > Len(document.sources) THEN NoSource(i) ELSE CleanSource(document, i)],
   fields |-> Rules(document)]

InvalidSource(document) ==
  \E i \in DOMAIN FirstOf(document.sources, SourceCount) : ~document.sources[i].valid

(* reload() reads by position and gives what is missing its default. *)
LoadedSource(document, i) ==
  IF i > Len(document.sources) THEN NoSource(i)
  ELSE [document.sources[i] EXCEPT !.intervalMs = Constrain(Given(@, 500), 100, 10000),
                                   !.id = IF @ = NoName THEN DefaultName(i) ELSE @]

ReloadTelemetry(document) ==
  /\ sources' = [i \in Sources |-> LoadedSource(document, i)]
  /\ fields' = Rules(document)

DefaultTelemetryMap ==
  [sources |-> [i \in Sources |-> NoSource(i)], fields |-> [f \in StateIds |-> NoRule]]

-----------------------------------------------------------------------------
(* Layout                                                                  *)

Chosen(list, allowed) ==
  LET Add(out, id) == IF id \in allowed /\ id \notin ToSet(out) THEN Append(out, id) ELSE out
  IN  FoldLeft(Add, <<>>, list)

(* hasStates: layouts of v0.1.0 had no list of states. *)
CleanLayout(document) ==
  [items |-> Chosen(document.items, CommandIds \ HoldOnlyCommands), hasStates |-> TRUE,
   stateItems |-> IF document.hasStates THEN Chosen(document.stateItems, StateIds) ELSE <<>>]

UpgradedLayout(document) ==
  IF document.hasStates THEN document
  ELSE [document EXCEPT !.hasStates = TRUE, !.stateItems = DefaultStates]

DefaultLayout == [items |-> DefaultItems, hasStates |-> TRUE, stateItems |-> DefaultStates]

-----------------------------------------------------------------------------

DefaultDocument ==
  [layout |-> DefaultLayout, telemetry |-> DefaultTelemetryMap, sequences |-> DefaultSequences]
Kinds == DOMAIN DefaultDocument
NoText == [k \in Kinds |-> NoFile]
AllDisabled == [s \in Slots |-> Disabled]

Idle ==
  /\ text = NoText
  /\ defs = AllDisabled
  /\ sources = [i \in Sources |-> NoSource(i)] /\ fields = [f \in StateIds |-> NoRule]
  /\ running = FALSE

Init ==
  /\ file \in [layout: OldLayouts \cup {NoFile, DefaultLayout},
               telemetry: OldTelemetryMaps \cup {NoFile, DefaultTelemetryMap},
               sequences: OldPrograms \cup {NoFile, DefaultSequences}]
  /\ Idle /\ asked = NoText /\ inUse = NoText

(* What begin() leaves in RAM, and what it writes back, which may fail.    *)
Loaded(k) ==
  CASE file[k] = NoFile -> DefaultDocument[k]
    [] file[k] # NoFile /\ k = "layout" -> UpgradedLayout(file[k])
    [] OTHER -> file[k]

(* setup(): the store's begin(), then reload() of the two engines. *)
Begin ==
  /\ ~running /\ running' = TRUE
  /\ text' = [k \in Kinds |-> Loaded(k)]
  /\ \E written \in SUBSET {k \in Kinds : file[k] # Loaded(k)} :
       file' = [k \in Kinds |-> IF k \in written THEN Loaded(k) ELSE file[k]]
  /\ ReloadTelemetry(Loaded("telemetry"))
  /\ ReloadSequences(Loaded("sequences"))
  /\ asked' = [k \in Kinds |-> IF asked[k] = NoFile THEN Loaded(k) ELSE asked[k]]
  /\ inUse' = asked'

Store(k, posted, clean, reloaded) ==
  /\ running
  /\ file' = [file EXCEPT ![k] = clean]
  /\ text' = [text EXCEPT ![k] = clean]
  /\ asked' = [asked EXCEPT ![k] = posted]
  /\ inUse' = IF reloaded THEN [inUse EXCEPT ![k] = posted] ELSE inUse
  /\ UNCHANGED running

SaveLayout(posted) ==
  /\ CleanLayout(posted).items # <<>>
  /\ Store("layout", posted, CleanLayout(posted), TRUE)
  /\ UNCHANGED <<defs, sources, fields>>

(* The lock was free (requireAutomationIdle), so reload() fails for want   *)
(* of memory alone; the operator is told "saved, but reload failed".       *)
SaveTelemetryMap(posted, memory) ==
  /\ ~InvalidSource(posted)
  /\ Store("telemetry", posted, CleanTelemetryMap(posted), memory)
  /\ IF memory THEN ReloadTelemetry(CleanTelemetryMap(posted)) ELSE UNCHANGED <<sources, fields>>
  /\ UNCHANGED defs

SaveSequences(posted, memory) ==
  /\ ~SaveRefuses(posted)
  /\ Store("sequences", posted, CleanSequences(posted), memory)
  /\ IF memory THEN ReloadSequences(CleanSequences(posted)) ELSE UNCHANGED defs
  /\ UNCHANGED <<sources, fields>>

Restart ==
  /\ running
  /\ text' = NoText /\ defs' = AllDisabled /\ running' = FALSE
  /\ sources' = [i \in Sources |-> NoSource(i)] /\ fields' = [f \in StateIds |-> NoRule]
  /\ UNCHANGED <<file, asked, inUse>>

Next ==
  \/ Begin \/ Restart
  \/ \E posted \in Layouts : SaveLayout(posted)
  \/ \E posted \in TelemetryMaps, memory \in BOOLEAN : SaveTelemetryMap(posted, memory)
  \/ \E posted \in Programs, memory \in BOOLEAN : SaveSequences(posted, memory)

Spec == Init /\ [][Next]_vars

-----------------------------------------------------------------------------
(* Properties                                                              *)

(* What a slot runs are the known steps of the document, in their order,   *)
(* as many as the table has room for; from says which step is which.       *)
AreKnownSteps(ran, steps) ==
  \E from \in [DOMAIN ran -> DOMAIN steps] :
    /\ Len(ran) <= MaxSteps
    /\ \A i, j \in DOMAIN ran : i < j => from[i] < from[j]
    /\ \A i \in DOMAIN ran : Recognised(steps[from[i]]) /\ ran[i] = Limited(steps[from[i]])
    /\ \A n \in DOMAIN steps : Recognised(steps[n]) =>
         \/ \E i \in DOMAIN ran : from[i] = n
         \/ Len(ran) = MaxSteps /\ \A i \in DOMAIN ran : from[i] < n

(* The n-th program of the operator's document is what slot n runs, now    *)
(* and after any number of restarts; slots it does not name stay empty.    *)
(* No slot can hold a step that would start the macro or leave a lens      *)
(* moving: a document of older firmware that has one is refused whole.     *)
ProgramsAreUsed ==
  running =>
    IF Refuses(inUse.sequences) THEN defs = AllDisabled /\ inUse.sequences \in OldPrograms
    ELSE \A s \in Slots :
           IF s > Len(inUse.sequences) THEN defs[s] = Disabled
           ELSE /\ defs[s].enabled = inUse.sequences[s].enabled
                /\ AreKnownSteps(defs[s].steps, inUse.sequences[s].steps)
                /\ \A i \in DOMAIN defs[s].steps : ~Forbidden(defs[s].steps[i])

(* The sources a state is read from: those of its rule's name, where a     *)
(* source without a name of its own is called by its position.             *)
ReadFrom(all, rule) == { i \in DOMAIN all : all[i].enabled /\ rule # NoRule /\ all[i].id = rule }
MeantSources(document, f) ==
  { i \in Sources : /\ i <= Len(document.sources) /\ document.sources[i].enabled
                    /\ f \in DOMAIN document.fields /\ document.fields[f] # NoRule
                    /\ \/ document.sources[i].id = document.fields[f]
                       \/ document.sources[i].id = NoName /\ document.fields[f] = DefaultName(i) }

(* Each state is read from the sources the operator's document means.      *)
SourcesAreUsed ==
  running => \A f \in StateIds : ReadFrom(sources, fields[f]) = MeantSources(inUse.telemetry, f)

First(list, id) == CHOOSE i \in DOMAIN list : list[i] = id /\ \A j \in 1..i - 1 : list[j] # id

Shows(shown, given) ==
  /\ ToSet(shown) = ToSet(given) \cap (CommandIds \ HoldOnlyCommands)
  /\ \A i, j \in DOMAIN shown : i < j => First(given, shown[i]) < First(given, shown[j])

(* The page shows each known button of the operator's document once, where *)
(* it came first, and never a lens command that moves until released.      *)
LayoutIsShown == running => Shows(text.layout.items, asked.layout.items)

(* What a save accepted is what the engines and the pages use from then    *)
(* on, through restarts: the two copies of the rules agree, and nothing    *)
(* that is stored would be refused when it is read.                        *)
SavedDocumentsAreUsed == ProgramsAreUsed /\ SourcesAreUsed /\ LayoutIsShown
=============================================================================
