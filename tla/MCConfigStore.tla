--------------------------- MODULE MCConfigStore ---------------------------
(* The six files share nothing but the boots, so each behaviour is about   *)
(* one of them, the subject: the others start as on a new bridge, and the  *)
(* operator never saves them.  The two networks are one more subject, and  *)
(* so are the steps in which any of the files is replaced.                 *)
(* A save of the slots or of a document replaces all that was there, so    *)
(* every one is tried on the factory's, and one of each kind on any other. *)
(* Three bits make networks of four, two and one.                          *)
EXTENDS ConfigStore, Addressing, AtomicFile

VARIABLE subject

(* Three settings of the kinds the file has: a clamped one and a checked   *)
(* one that older firmware had other defaults for, and a plain one.        *)
MCFields == {"replayDelayMs", "recReviewSetDelayMs", "telemetryFreshMs"}
MCLow == [f \in MCFields |-> IF f = "replayDelayMs" THEN 0 ELSE 250]
MCHigh == [f \in MCFields |-> IF f = "recReviewSetDelayMs" THEN 5000 ELSE 10000]
MCDefault ==
  [f \in MCFields |-> CASE f = "replayDelayMs" -> 3000
                        [] f = "recReviewSetDelayMs" -> 4500
                        [] f = "telemetryFreshMs" -> 2500]
MCLegacy ==
  [f \in MCFields |-> CASE f = "replayDelayMs" -> {900, 1500}
                        [] f = "recReviewSetDelayMs" -> {1200}
                        [] f = "telemetryFreshMs" -> {}]

(* Out of range on both sides, the old defaults and one value in range. *)
MCInputs == {0, 900, 1200, 2500, 20000}

MCFiles ==
  {Unreadable} \cup
  [schema: {1, 3, 4}, network: Profiles,
   values: {[f \in g |-> n] : g \in {{}, {"replayDelayMs"}, MCFields}, n \in MCInputs}]

(* What a command of an old or edited map may be: blank, an HTTP request,  *)
(* and what the migrations to schema 3, 4 and 5 look for, one with a path  *)
(* that was left from an HTTP request.                                     *)
MCMapping(transport, path, rpc, depth, key) ==
  [transport |-> transport, path |-> path, rpc |-> rpc, depth |-> depth, key |-> key]
MCBlank == MCMapping("http", "", "", 0, "")
MCFlatKeys == MCMapping("linear", "", "Button.SendKeys", 1, "Play")
MCEdits ==
  { MCBlank, MCFlatKeys,
    MCMapping("http", "cgi", "", 0, ""),
    MCMapping("linear", "cgi", "Clip.Recorder.Start", 1, "main"),
    MCMapping("linear", "", "Button.SendKeys", 2, "Assignable.6") }

(* Two slots; entries may be duplicates, out of range, beyond the last     *)
(* position, and at one position claim the other's slot.                   *)
MCDefaults == <<"play", "unmapped">>

(* Sequences for two slots of two steps: every list of up to three steps,  *)
(* and programs behind an empty one, with one more than there are slots.   *)
DocSteps ==
  {[type |-> "command", id |-> c, number |-> -1] :
     c \in {"rec_review", "zoom_in", "stop_replay", "no_such"}}
  \cup {[type |-> "wait_state", id |-> "ready", number |-> 100]}
DocProgram(enabled, timeout, steps) == [enabled |-> enabled, timeoutMs |-> timeout, steps |-> steps]
MCPrograms ==
  { <<DocProgram(TRUE, -1, steps)>> : steps \in UNION {[1..n -> DocSteps] : n \in 0..3} }
  \cup { <<DocProgram(FALSE, 5, <<>>), DocProgram(TRUE, 5000, <<a>>), DocProgram(TRUE, 5000, <<b>>)>> :
           a, b \in DocSteps }

DocSource(id, enabled, valid, interval) ==
  [id |-> id, enabled |-> enabled, path |-> "cgi", valid |-> valid, intervalMs |-> interval]
DocSources == { DocSource(id, TRUE, TRUE, 50) : id \in {NoName, "source2", "camera"} }
  \cup { DocSource(NoName, FALSE, TRUE, -1), DocSource(NoName, TRUE, FALSE, -1) }

(* Two sources: unnamed, with another's default name, with a name of its   *)
(* own, disabled or invalid; and one more than there is room for.          *)
MCTelemetryMaps ==
  [sources: UNION {[1..n -> DocSources] : n \in 0..2} \cup {<<a, a, a>> : a \in DocSources},
   fields: UNION {[g -> {"source1", "source2", "camera", ""}] : g \in {{}, {"ready"}}}]

(* Lens commands, unknown and repeated ids; layouts of older firmware were *)
(* cleaned too, but may have no list of states.                            *)
MCLayouts ==
  [items: UNION {[1..n -> {"record_stop", "rec_review", "zoom_in", "no_such"}] : n \in 0..3},
   hasStates: BOOLEAN, stateItems: {<<"ready", "ready", "no_such">>}]
MCDefaultItems == <<"record_start", "record_stop">>
MCDefaultStates == <<"ready">>
MCOldLayouts ==
  {l \in MCLayouts :
     /\ l.items # <<>>
     /\ \A i, j \in DOMAIN l.items :
          l.items[i] \in CommandIds \ HoldOnlyCommands /\ (l.items[i] = l.items[j] => i = j)}

(* What is saved over any other document. *)
Again ==
  [layout |-> [SD!DefaultLayout EXCEPT !.items = <<"rec_review">>],
   telemetry |-> [sources |-> <<DocSource("camera", TRUE, TRUE, 50)>>,
                  fields |-> [f \in {"ready"} |-> "camera"]],
   sequences |->
     <<DocProgram(TRUE, 5000, <<[type |-> "command", id |-> "rec_review", number |-> -1]>>)>>]

Tried(k, posted) == subject = k /\ (asked[k] = SD!DefaultDocument[k] \/ posted = Again[k])

Found(k) ==
  CASE k = "layout" -> OldLayouts \cup {NoStored}
    [] k = "telemetry" -> OldTelemetryMaps \cup {NoStored}
    [] k = "sequences" -> OldPrograms \cup {NoStored}

MCInit ==
  /\ subject \in {"settings", "commands", "slots", "network", "file"} \cup SD!Kinds
  /\ subject # "settings" => stored = [schema |-> CurrentSchema, network |-> "dhcp",
                                        values |-> [f \in {} |-> 0]]
  /\ subject # "commands" => commandFile = NoStored
  /\ subject # "slots" => slotFile = VS!Factory
  /\ IF subject \in SD!Kinds
     THEN \E old \in Found(subject) : documentFile = [SD!DefaultDocument EXCEPT ![subject] = old]
     ELSE documentFile = SD!DefaultDocument
  /\ StoreInit /\ AddressInit /\ FileInit

MCStoreNext ==
  \/ Begin
  \/ StoreRestart
  \/ subject = "settings" /\ SaveSettings
  \/ subject = "commands" /\ SaveCommands
  \/ subject = "slots" /\ givenMap = VS!Factory /\ SaveSlots
  \/ subject = "slots" /\ UseSlot
  \/ \E posted \in Layouts : Tried("layout", posted) /\ SaveLayout(posted)
  \/ \E posted \in TelemetryMaps : Tried("telemetry", posted) /\ SaveTelemetryMap(posted)
  \/ \E posted \in Programs : Tried("sequences", posted) /\ SaveSequences(posted)

MCNext ==
  /\ \/ subject \notin {"network", "file"} /\ MCStoreNext /\ UNCHANGED <<addressVars, fileVars>>
     \/ subject = "network" /\ AddressNext /\ UNCHANGED <<storeVars, fileVars>>
     \/ subject = "file" /\ FileNext /\ UNCHANGED <<storeVars, addressVars>>
  /\ UNCHANGED subject

MCSpec == MCInit /\ [][MCNext]_<<storeVars, addressVars, fileVars, subject>>
=============================================================================
