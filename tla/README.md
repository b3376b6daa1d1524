# A model-checked and partly proved model of the FS7 network bridge

This directory holds TLA+ specifications of the firmware in `src/`: a WT32-ETH01 that lets a
production control room drive a Sony PXW-FS7 over Ethernet. Commands come in by HTTP, by a TCP
line protocol and by the numbered slots of vMix-style controllers. The bridge joins the camera's
own Wi-Fi and talks to it over one persistent WebSocket session (`/linear`) or plain HTTP. It
runs one main loop, `loop()`, on one core; only the proxy for Sony's native page has tasks of its
own, on the other core.

Contents: 1 inventory, 2 how the parts interact and what is hard, 3 modules and how they
correspond to the code, 4 runs, 5 fairness, 6 proofs, 7 findings and known differences,
8 what is not modelled, 9 plan, 10 running the tools.

## 1. Inventory

| part | state it keeps | operations | what makes it correct |
|---|---|---|---|
| Operation arbiter (`include/OperationArbiter.h`) | the owner of the camera | `acquire`, `release` | one operation at a time; only the owner releases |
| Command engine (`CommandEngine.cpp`) | macro state and clock, phase, optimistic display | `execute`, `abortStopReplay`, `loop` | every path ends with the lock given back; the review waits for the camera; no answer is taken for another's |
| Review dialogue (`CommandEngine.cpp:78-168`) | the key under way, a deadline | Thumbnail, Set, Play, probe | verifies only its own playback; bounded |
| Sequence engine (`SequenceEngine.cpp`) | eight programs, run states, the active slot | `reload`, `trigger`, `abort`, `loop` | a running slot has a step and the lock; failures stay visible; waits use feedback from after they began |
| State store (`CameraState.cpp`) | 23 texts with the time they were set | `set`, `isFresh`, `boolValue` | what is stale is never taken for current |
| `/linear` session (`SonyLinear.cpp`) | a socket, request ids, the retry time | `loop`, `request`, `recvWsMessage` | an open session is a subscribed one; a lost one is replaced; two readers of one stream never lose or mix messages |
| HTTP client (`SonyRemote.cpp`) | the primed mark | `send`, `primeCameraSession`, `rawRequest` | one warm-up for each association; a part of an answer is never taken for the whole |
| Telemetry (`TelemetryManager.cpp`) | sources with due times and backoff, rules of states | `reload`, `loop`, `poll`, `processBody` | no source starves; what is shown is what the camera last said |
| Configuration storage (`ConfigStore.cpp`) | six JSON files, their copies in RAM | `begin`, `update...`, `save...Json` | flash and RAM agree; migrations lose nothing; power loss leaves old or new |
| Web application (`WebApp.cpp`) | the firmware update's flags | routes, upload callbacks, `loop` | an update holds the lock until it fails or reboots; settings change only while the camera is free |
| Network manager (`NetworkManager.cpp`) | two interfaces, time of the last Wi-Fi attempt | `begin`, `loop`, `reconnectCameraWifi`, `subnetsOverlap` | the camera is joined again whenever it can be; a static address is a host's; overlapping networks are told |
| TCP control (`ControlProtocol.cpp`) | one client, a line buffer, an idle timer | `loop`, `processLine` | lines stay whole and with their sender; those who wait are served |
| VSM slots (`VsmGeneric.cpp`) | numbered slots and labels | `reload`, `trigger` | a trigger runs what the map means by its number |
| Native proxy (`SonyProxy.cpp`) | sessions, counters, a RAM capture ring | listener and session tasks, capture routes | no slot or socket leaks; the ring is consistent |
| Catalogue (`AppTypes.cpp`) | 57 commands, 23 states | look-ups | data |
| Main loop (`main.cpp`) | - | `setup`, `loop` | one handler at a time |
| Operator console (`WebPages.h`), discovery tools, build scripts | - | - | outside the firmware's logic |

## 2. Interactions, and what is hard

* Every camera operation goes through the one lock of the arbiter: a manual command holds it for
  one blocking call, the Stop + Replay macro from its STOP to the end of its review, a slot from its
  trigger to its last step, a firmware update from START to the reboot. Saving settings or
  programs, and a requested reboot, are refused while it is held.
* Handlers run to their end, except that a camera call blocks for up to seconds. Nothing else of
  the main loop runs meanwhile, but time passes, the camera moves, the link may drop, and a call
  over `/linear` reads the session's notifications while it waits for its own answer.
* Telemetry reaches the engines late and stamped with the time it was *read*: by a notification
  (one message per pass) or a poll. The order of notifications and answers on one session is
  kept; HTTP answers come on a connection of their own.
* On the `/linear` session a message is several pieces: frames, fragments, pings between them, each
  arriving when it likes. `loop()` and a request read the same stream in turn, with different
  timeouts, and nobody keeps how far a reader got that gave up. An HTTP answer comes cut anywhere.
* Ages are differences of `millis()`, which wraps around.
* A document is checked and cleaned by the save and read once more, by a copy of the same rules, by
  the engine that uses it, now and after every boot.
* Files are replaced by a temporary file and two renames; power may go between any two steps, and
  each step may fail.
* The proxy's listener and sessions share counters and the capture ring with the main loop
  across two cores.

Each of these hazards is listed with its line in `PROJECT.json`, with the properties that would
catch it going wrong or a note saying why none does.

## 3. The modules

| module | models | how |
|---|---|---|
| `OperationArbiter` | the lock | `owner`; `Acquire`, `Release`; owners are the C++ enum's integers |
| `CameraStateStore` | the store's four ids that engines interpret | `sample[id]`: text and age; `Fresh`, `FreshSince`, `BoolValue` |
| `SonyCamera` | the camera and the link (external), and how its messages are read | `camera`, `link`, `wire`: a queue of notifications and answers |
| `CommandEngine` | `execute`, the macro, `loop` | blocking calls are two steps through `call`; `macroAge` is the time since the STOP returned |
| `SequenceEngine` | the slots, beside the engine | `defs`, `runtime`, `activeSlot` (0 is none); one action per branch of `loop()` |
| `FirmwareUpdate` | the upload callbacks, the backstop, the reboot | the five flags, `upload` (where the external HTTP server is) |
| `Bridge` | all lock users, saving of settings, restarts | composes the three above |
| `ExclusiveOperation` | abstract: operations on the camera never overlap | `Bridge` implements it |
| `RecReview` | the dialogue inside one `rec_review` call | one step per key, delay and probe; `age` advances by what each takes |
| `AtomicFile` | `writeFileAtomic`, `readFile`, `begin`, `updateConfigJson` for one file | one step per file-system call, each may fail or be the last |
| `DurableValue` | abstract: a value that changes by atomic commits | `AtomicFile` implements it |
| `BridgeSettings` | loading, migrating, clamping, validating, updating `/bridge.json` | numbers with ranges, defaults and legacy defaults; the texts are one network profile |
| `CommandMap` | the command map: defaults, migrations V3-V5, edits | five representative commands; a parameter array is its key and nesting; `SameRequest` is what a migration compares |
| `VsmSlots` | canonical form of the trigger map, reload, trigger | lists of entries that may name a slot |
| `SavedDocuments` | `saveLayoutJson`, `saveTelemetryMapJson`, `saveSequencesJson`; `reload` of the engines that use them | a document is a list of items, sources or steps, each a record of what the rules look at; one number stands for all numbers of a step or source |
| `ConfigStore` | `begin()` over all six files, and their saves | extends `BridgeSettings`, instantiates the other three |
| `Addressing` | `validStaticEthernet`, `NetworkManager::begin`, `subnetsOverlap` | an address or a mask is the set of its 1-bits, so that `&` is an intersection and `~` a complement; `MaskOf`, `Network` and `IsHost` are the reference definitions (prefixes and sets of addresses) the code's bit operations are compared with |
| `NativeProxy` | listener, session slots, every early return of a session | one phase per connection |
| `NativeCapture` | the frame sniffer, the ring, the capture routes | bytes are parts of frames; lock-protected blocks are steps |
| `TelemetrySchedule` | which source is polled when, backoff | remaining waits in ticks; `failureCount` is kept as the factor it stands for, `1 << failureCount`; the history variables `slow` and `ahead` remember whether an answer took too long for an interval and who failed while a source was due |
| `Feedback` | a text's way from the camera to the interfaces: the rules of the telemetry map (extract, normalise), the properties of notifications, the store's `set`, `isFresh` and `boolValue`, the typed VSM slots, the status document, TCP GET, the mark of fresh telemetry | a text stands for all that are read like it; `millis` wraps around at `ClockSpan` |
| `CameraLink` | the Wi-Fi association, the warm-up, the session | blocking requests are two steps; the association is numbered |
| `MessageChannel` | abstract: messages of the camera arrive whole, each once and in order, or are lost with the session | `LinearStream` implements it |
| `LinearStream` | one session: frames, fragments and control frames, `recvWsMessage`, the readers `loop()` and `request()`, their timeouts, request ids and the limit of a payload | a piece is a frame's header or a part of its payload; the camera is external |
| `HttpResponse` | one `rawRequest`: receiving, the end by length, chunks or close, the limits, de-chunking | a token is a header line, a chunk size, a break or a byte of the body |
| `TcpControl` | the client, its bytes, the line buffer with its limit, the idle timer | a byte is its sender and number; which bytes are line feeds is the sender's choice |
| `MC...` | values for TLC. In `MCServers`, `MCTelemetry`, `MCCameraSession` and `MCConfigStore` a behaviour is about one `subject`, of several modules that share no state there | |
| `..._proofs` | theorems checked by TLAPS | |

Conventions that hold throughout:

* Times are ages or remaining times in ticks, saturating where nobody looks further. Millisecond
  settings are scaled to ticks in the MC modules.
* A request that is refused changes nothing and is a stutter, so it has no action of its own.
  Unreachable defensive branches (an active slot without a current step, for instance) are left
  out; `RunHasStep` and `CallerOwnsArbiter` justify that.
* A definition whose comment begins with "Slip:" is a plausible bug, never part of a
  specification: it replaces the definition after it to show that a property would notice.

Decisions the reader should know of:

* **Calls.** Dry run answers at once. A real success needs the camera to have acted, a tick to
  have passed, and, over `/linear`, its answer to be read after everything sent before it. A
  failure may come at any time, whether or not the camera acted, and closes the session it used.
* **The camera** moves only by the bridge's commands and by settling (closing a clip, ending
  playback). An operator at the camera body, commands sent through the native page, and a
  command the camera carries out after the call for it failed are not in the model.
* **Polls** happen only while the main loop is free, cover one state per pass, and also replace
  what is displayed; a polled playback removes the display's deadline, as the code does.
* **STOP's fallback.** Without a mapping for `record_stop` the code sends `record_toggle`, which
  starts a recording if the camera has already stopped. Properties about STOP are stated, and
  the theorem `ReplayAlwaysHidesRecording` assumes (`StopsAreMapped`), that STOP has its own.
* **Dry run** moves no camera, so properties about the camera exclude it.
* **The HTTP server** is external. `SilentDrops` lets it lose a client without `ABORTED`,
  `BareRequests` lets a client post to the update URL without a file. With both, a bare request
  can release the lock of an upload in progress; the theorems assume not both
  (`UploadsAreTracked`).
* **The review's camera** acknowledges the keys it acts on and ignores the rest; it never acts on a
  key after its call failed. A receive timeout restarts with every message, so a call may last
  longer than `cameraTimeoutMs`: `CallMax`.
* **The stream** of `LinearStream` is one session at a time. The camera answers a request at most once,
  may send notifications, pings, useless and forbidden frames at any time, and may fall silent or break
  the session anywhere. The four requests of `subscribeAndPrime` are like any other.
* **The peer** of `HttpResponse` sends a good answer or one that contradicts itself, cut anywhere, or
  stops. What ends the exchange early is remembered in `interrupted`, which only the property reads.
* **LittleFS** is external: a rename replaces atomically or fails. `LittleFS.begin(true)` formats
  the flash when it cannot be mounted; that is not modelled.
* **Files** in `BridgeSettings`, `CommandMap`, `VsmSlots` and `SavedDocuments` are replaced whole or not at all, which
  is what `AtomicFile` shows.

## 4. The runs

`PROJECT.json` lists every run with its properties. Bounds are the constants of each `.cfg`.

| run | states | what it shows | bounds, and why they suffice |
|---|---|---|---|
| `engine` | 2.2 M | whose answer is read; no "recording" on display during Stop + Replay; the review released by feedback is sent only once the clip is closed; a review with the gate of Set, Play and Playing is not said to be verified of a recording camera | four configurations: the shipped mappings, a review sent at once, one without the gate, dry run; one unread message in flight, two ticks of sample age against a freshness of one, timeout 3 with delay 0 or 1: late, stale and missing feedback, both sides of every comparison |
| `phase_verified` | - | violation, see 7 | the configuration of `engine` whose review has no gate |
| `sequences` | 0.33 M | a wait for ready outlasts the clip; the lock is always given back | one slot; three programs: the example's shape, one with unknown and surplus steps, one refused. The macro has delay 0 and its review no mapping, so that it only keeps the slot company |
| `rec_review` | 801 | the dialogue verifies its own playback, finds its clip, is bounded and returns | a deadline of 12 ticks: two unanswered Sets, a Play and two probes |
| `bridge` | 1.1 M | ownership, stable settings, latched failures, the refinement of `ExclusiveOperation` | two slots, two tables, two configurations (one in dry run), lost uploads |
| `firmware_lock` | - | violation, see 7 | |
| `config_store` | 123 k | saves of one file are atomic: the refinement of `DurableValue`; settings, commands and requests kept; triggers run their slot; the saved sequences, sources and layout are what is used; networks and overlaps are read as they are | a behaviour is about one file or the networks, as files share only the boot. One file, call by call, with the factory value and two more. Three settings of the kinds the file has; five commands with five values each at every schema; maps of up to three entries for two slots; sequences of two slots with up to three steps where two fit, a kind each of allowed, hold-only and unknown; telemetry maps and layouts with missing and too small numbers, surplus, repeated and unknown entries, each posted over the factory's, one over any. Every pair of addresses and masks of three bits, two of them reserved: the masks /0, /1, /2 and /3, networks of different sizes either way |
| `servers` | 180 k | the proxy: counters, sockets, the backlog drains; the control port: lines whole and with their sender, the waiting client is served | two sessions and four connections: one in the listener's hand and one behind it; two clients with three bytes each, any of them a line feed, and one byte kept of a line: whole, cut and blank lines |
| `native_capture` | 1.2 M | the ring holds the latest, listings keep places, frames stay in order | a ring of two, buffers of two parts, frames of one and two parts, two of each direction |
| `telemetry` | 135 k | every source is polled for ever, unless answers never cease to be slow, and failing ones go ahead once; what is shown is what the camera last said, while that is recent | the shipped four sources at the default interval of 500 ms and timeout of 600 ms, in ticks of 100 ms: an interval of 5, a failing poll of 5 and a tick for the rest of a pass, so that polls of failing sources never fit into the interval; answers at once or after 4 ticks, which is slow. The factor is capped at 4 and not 64, the delay at 18, just above the 2 x 6 + 1 that two failing sources take. A clock that wraps around at 3 with a freshness of 1, ages told apart up to 4: each comparison on either side of the wrap |
| `telemetry_fresh` | - | violation, see 7 | as `telemetry` |
| `camera_session` | 227 k | the link: open means subscribed, one warm-up, the camera is joined again, a dead session is replaced; the stream: `MessageChannel`, the outcome of every request, a bound on every read; an HTTP exchange: no part of a body is taken for it, no whole one refused | two addresses, three associations, joining takes as long as the bridge waits. The stream: a call timeout of 2 and a loop timeout of 1, two request ids (so that they wrap) and two notifications, messages of up to two payload pieces in one or two frames, with pings between. The exchange: a limit that fits (3) and one that does not (1), bodies of every kind of end, a receive buffer of 4 tokens cut anywhere |

`firmware_lock`, `phase_verified` and `telemetry_fresh` stop at their counterexamples. Only `rec_review` disables the
deadlock check: the dialogue ends.

## 5. Fairness

* `CommandEngine`, `SequenceEngine`: weak fairness of the clock, of the passes of `loop()` that
  work on a macro or a slot, and of the return of a blocking call, which is bounded by its
  timeout. Commands, the camera, its feedback and the link owe nothing.
* `FirmwareUpdate`: the clock, the backstop and the scheduled reboot in `WebApp::loop`, and the
  end of a request the server has received.
* `RecReview`: weak fairness of the dialogue's own steps: calls return and delays end. The camera
  owes nothing.
* `NativeProxy`: weak fairness of the listener alone, which is a task with a loop of its own. The
  session tasks owe nothing: peers may hold a stream or tunnel for ever. Without a free slot the
  listener's wait ends after 1.5 s, which is why `BacklogDrains` needs no free slot.
* `TelemetrySchedule`: weak fairness of the passes of the main loop. Nothing is assumed of which polls
  succeed or how long they take within their bounds.
* `CameraLink` (in `camera_session`): weak for the return of a blocking request (it has a timeout), the clock, and joining
  once the camera stays there. Strong for the passes of the network manager and of the session:
  each pass of `loop()` runs both, but requests block in between, so they are enabled only again and
  again. That a dead session is replaced is stated for an operator who goes on sending commands.
* `TcpControl` (`TcpSpec`): weak for the passes of `loop()`; strong for the clock, since time passes whatever the
  clients and the passes do.
* In the runs with a `subject` each component keeps its own fairness, for the behaviours about it.
* `LinearStream`, `HttpResponse`, `Feedback`, `Addressing`, `NativeCapture`, `AtomicFile` and
  `ConfigStore` have safety properties only. That a read ends is stated as a bound on its time
  (`ReadsAreBounded`), which needs no fairness.

## 6. Proofs

All theorems hold for every value of the constants that satisfies the modules' named
assumptions. `PROJECT.json` lists the main ones.

* `CommandEngine_proofs`: the inductive invariant `EngineInv` is `EngineTypeOK`,
  `MacroHoldsArbiter` and `CallerOwnsArbiter`. The lock cannot be shown to be held by the macro
  without knowing whose call is under way, nor types without knowing that a review is only
  pending in a macro, so the three go together. On top of it `ReplayInv` (the display stays free of
  "recording": needs `StopsAreMapped`), `AnswerInv` (at most one answer is unread and its call was
  obeyed) and `PhaseInv` (the camera after a verified probe, for any mappings: where the review has no
  gate, nothing is said of the phase, see 7).
* `SequenceEngine_proofs`: `SequenceInv` adds `SlotsInv`: types, `RunningSlotHoldsArbiter` and
  `RunHasStep`. Each engine's lemma also says which owners its steps may change, which is what the
  other's invariant needs to survive them.
* `Bridge_proofs`: `BridgeInv` adds `UpdateInv`: the flags' types, `UpdateHoldsArbiter` and
  `UpdateWindows`, which says in which windows of an upload the flags can be set at all, so that a
  request's end cannot release an update in progress. From it follow `Ownership`, stable settings and
  `BridgeSpec => Exclusive!Spec` by the refinement mapping `AtWork`, which reads the parts'
  states, not the lock. `FailureStaysShown` needs beside the invariant that what the slots run is always a
  table that could be saved (`TableLoaded`): a restart then is a load like any other.
* `AtomicFile_proofs`: `FileInv` states for each program point what main, backup and temporary
  file may hold; `SavesAreAtomic` is the step simulation of `DurableValue`.
* `RecReview_proofs`: `DialogueInv` bounds the age at each step and ties the camera's view to the
  keys it acted on. From `ReviewAssumption` alone follows the bound of `ReviewBounded`: one call and
  its delay beyond the deadline, at most.
* `CommandEngine_proofs`, second part, `ReviewAfterCameraSettled`: `NewsInv` says what the messages on the
  wire and the samples in the store are worth. An unread "Standby" while the camera records or writes
  is followed, on the wire, by the answer of the start under way, or the start itself is to come; a
  sample of age 0 taken during any other call is true of the camera now; what was
  sampled after the STOP was acknowledged is true as long as nothing starts a recording; and `writing`
  alone releases nothing while ready was not set after it. The theorem assumes `StopsAreMapped` and
  `StartsOverLinear`: every command that can start a recording goes over `/linear`, as the shipped
  mappings do (`ConfigStore.cpp:184`). It is needed: with `record_start` sent by HTTP nothing orders its
  answer behind a "Standby" that the camera sent before it, and TLC finds the review sent into the clip.
* `SequenceEngine_proofs`, second part, `WaitForReadyOutlastsClip`: `WaitInv` adds to `NewsInv` what a slot knows
  while it waits: its last command was acknowledged, was not a start, and what is fresh is younger than
  that. It assumes `ReadyFollowsCommand`: the command before a wait for ready is not one that
  starts a recording, as in the shipped template (`ConfigStore.cpp:970`: start, wait, stop, wait for
  ready, review). With the program start, wait for ready, TLC finds an unread "Standby" that is
  read in the very tick in which the start returns, and the wait ends inside the clip. The proof also
  needs that the freshness of a step is within what samples are told apart (`SampleHorizon`), which became
  a part of `SequenceAssumption`.
* `CameraSession_proofs`, the link: `LinkInv` names the call in which a session may be open and not yet
  subscribed, and ties the number of warm-ups of the present association to the call under way or the mark: a
  warm-up may outlive the association it was sent in, and then marks an address that is gone.
* `CameraSession_proofs`, the stream: `StreamInv` says that for what the reader has there is a rest that
  `Fits`: the part read and the rest are together a frame the camera began. The rest is what
  `Remains` to come, piece by piece, and `TimeSpent` on it is within the limits of the read under way.
  From it `ReadsAreBounded`, `RequestOutcome`, and, step by step, `StreamSpec => Channel!Spec`: a message is
  taken in whole and in order, or the session ends. The proof found a mistake of the model, which looked
  for the piece that ends a frame in the wrong place when it refused one; it is corrected.
* `CameraSession_proofs`, the HTTP exchange: the loop that decodes chunks is a recursive function, and such a
  function has the value its definition says only if one exists. Every turn looks only at turns further on
  (`TurnLooksAhead`), so `DecoderIs` shows it from the last place of the wire to the first. Of all turns
  together, `ChunksDecode` says that what has come of a sequence of chunks is decoded as far as it goes and
  refused only for its size, and `DecodedIsChunked` that what is decoded to an end is such a sequence.
  `HttpInv` says how much of the answer has come in each phase, and that an exchange that ended did so with
  what its headers allow. `BodyIsWhole` follows for any answers, limits and sizes of `recv()`.
  `ResponseAssumption` says what a good answer is, without the decoder: its chunks follow each other in the
  wire and carry the body that is meant, or its one length is a prefix of the wire. The proof found two
  mistakes of the model. The cases of `BodyState` overlapped: an answer to HEAD may have a length, and `CASE` then
  chooses any of the two; and an answer with more than `Slack` around its chunks (`SonyRemote.cpp:388`) may be
  refused though nothing is wrong with it, which `BodyIsWhole` now says.
* `Servers_proofs`, the proxy: `ProxyInv` says of every program point which sockets are whose
  (`OwnersOfSockets`), that the backlog holds each connection once (`BacklogHoldsEachOnce`), that the
  listener has one at most in hand (`ListenerHoldsOne`), and that the counters are the cardinalities of the
  sets of sessions and tunnels that have not decremented them yet (`CountersMatchTasks`).
  `SocketsHaveOwners` follows.
* `Servers_proofs`, the control port: the line buffer alone does not say whose bytes it holds. `TcpInv` says
  that it is what is kept of the bytes read since the last line feed of the client that is served, and empty
  where that is none; and nothing of a waiting client has been read. With `LinesAreWhole` itself this is
  inductive, for any number of bytes and any limit.
* `Servers_proofs`, the capture: `RingInv` says of each place of the ring the latest number it can hold,
  which needs the remainder of a division; the module proves the few lemmas about `%` it uses from its
  definition. `ListingInv` says of a listing that its n-th row is of the place of the n-th number when it
  began, or of a later one of that place, whatever is recorded meanwhile. `DirectionInv` orders what one
  session task has: the frames recorded come before the one found, that before those in the
  buffer, and those before what is still to pass. `RingHoldsLatest`, `ListingKeepsPlaces` and `FramesInOrder`
  follow for any ring, any number of tasks and any sizes of frames.
* `Servers_proofs`, feedback: `SampleInv` says that stamp plus age is the clock, or the clock and one round of
  it: `isFresh` subtracts with wrap-around, and its difference is the age as long as that is below one
  round. From it `FeedbackIsCurrent`: each interface shows what the camera last said. The proof found
  that the model took an answer that was cut after its header for said by the camera, while the code
  has its status and not its text (`TelemetryManager.cpp:78`); it is corrected, and the run has such an
  answer now.
* `ConfigStore_proofs`, the settings: `SettingsInv`: what is in RAM is in range and what the file will be read
  as is what is in RAM. The key lemma is `DocumentKeeps`: reading back a written document changes nothing,
  because it has the current schema and is in range.
* `ConfigStore_proofs`, the store: `StoreImplementsParts`: the steps of `ConfigStore` over all files are, file by
  file, steps or stutters of `BridgeSettings`, `CommandMap`, `VsmSlots` and `SavedDocuments`, so that what is
  shown of a file alone holds in the store. On the store, `MapInv` says that what the next boot makes of the
  command map is what is in RAM, whether or not the migration could be written. Its lemmas say of each
  migration what `Follows` it: only what the operator did not choose is replaced, and a migrated map is left
  alone by the next one. `RestartKeepsMap` and `UpgradeKeepsRequests` follow for any edits of any texts;
  `StoreAssumption` says that edits are mappings, and that no file is not a document.
* `ConfigStore_proofs`, the trigger slots: `canonicalizeVsmGroup` makes one claim after the other, a fold over
  the entries of a map. A fold is the value of a recursive function at the set of positions, of which
  `FoldSteps` gives what there is after k of them, by induction (`UpTo`, from the well-foundedness of < on Nat:
  the induction theorems of the library take an operator and cannot be used). `SelectedIsFirst` then says that
  a slot has the first claim to it, and `CanonicalMeans` that this is the entry which the documentation means
  by the slot. Canonicalizing again changes no meaning (`CanonicalInOrder`, `InOrderMeans`), so in `SlotsInv` the
  slots in RAM and the file, canonical or not, both mean what the operator's document means.
  `TriggerRunsItsSlot` follows for any number of slots and any map. `StoreAssumption` gives each factory trigger
  a value, and says that a member of no object and a missing file are neither an entry nor a map.
* `ConfigStore_proofs`, the saved documents: the rules by which a save cleans a document stand twice in the code,
  once in the save and once in the engine that loads it. The lemmas `KeptTwice`, `CleanSamePrograms` and
  `CleanSameSources` say that what the one has cleaned the other accepts and leaves as it is. `DocumentsInv` then
  says of each file that what a boot would make of it `Serves` the document the operator saved last, whether the
  file holds that one, an older one to be upgraded or none. `LimitedIs` and `StepsFrom` give, step by step of the
  fold, which steps of the document are kept and in which order, and `ChosenShows` the same of the buttons of a
  layout, which keep the place of their first mention. `SavedDocumentsAreUsed` follows for any documents and any
  sizes of the tables, through refused saves, failed writes and restarts. `DocumentAssumption` says that what
  parses as a document has the members of its kind, that the template names neither the macro nor a lens
  command, and that older layouts name none of the commands that are hold-only now (section 7).
* `ConfigStore_proofs`, the networks, for addresses of any width: the check `inverse & (inverse + 1)` of
  `validStaticEthernet` is about a carry, and a proof about it needs the lowest 0-bit of the inverse. `FirstMissing`
  gives it, and `LowBits` says that a number has no bit in common with its successor exactly if its 1-bits
  are all those below some place. With it `StaticCheckIsExact`: an address and a mask may be saved if and
  only if the mask is that of a prefix of 1 to `Width` bits and the address is a host's. The bits of hosts of two
  prefixes contain one another (`HostBitsNest`), so two networks meet exactly if one of the two contains the
  other's address (`NetworksMeet`), which is what `subnetsOverlap` asks. `AddressInv` ties the setting, what the boot
  applied and what an interface has; `NetworksAreRead` follows. Numbers with the operators of `Bitwise` said
  the same to TLC, but nothing can be proved of a module that uses them: hence addresses are sets of bits.
* `Servers_proofs`, the telemetry schedule: `FailingAlwaysGoAheadOnce`: of sources that fail at the full delay,
  none is polled twice while another one is due and only such sources are polled. It holds for any
  intervals, timeouts longer than the interval included; what it needs is the growing delay: `AheadInv` says
  that one that has gone ahead of a source stands before it in the table, and what it still has to wait is its
  full delay less one longest failing pass for each of the others that went ahead after it. `BackoffAssumption` says
  that the full delay is longer than the failing polls of all sources but two. With the code's constants it is
  64 intervals or 30 s, whichever is less: 30 s by default, and 6.4 s for the shortest interval an operator may
  choose (100 ms), against two failing polls, each of which may thus take 14 s or 3 s; the answer is waited for 1.5 s
  at most (from its last piece on), while how long a connection attempt lasts is the network stack's to say. The factor is in the model, and not the exponent,
  because no prover here knows powers.

Some of what is proved is not a property of a run, because it follows from types, from another one or,
like `StoredIsLive`, from an inductive invariant that holds for every value of the constants: `RunHasStep`,
`RunningSlotHoldsArbiter`, `MacroHoldsArbiter`, `OldOrNew`, `StoredIsLive`, `SettingsTypeOK` and the type invariants.

Every safety property that a passing run checks is also a theorem. Only model-checked is liveness:
`JoinsAgain`, `SessionRecovers`, `ReviewReturns`, `CameraAlwaysFreed`, `BacklogDrains`, `WaitingIsServed` and
`EverySourcePolled`. It rests on fairness, whose meaning is in ENABLED, which is out of the prover's reach. Of
two of them a theorem gives the part that is safety: `ReviewBounded` of `ReviewReturns`, `FailingGoAheadOnce` of
`EverySourcePolled`.

## 7. Findings, and known differences

**A second upload wedges the bridge** (`firmware_lock`, `WebApp.cpp:512`). Between a successful
update and its reboot 1.5 s later, another upload's START clears `otaSuccess_` and
`otaRebootPending_` before it looks at the lock, and is then refused as busy. The reboot is
cancelled, nobody releases the lock, and every command answers 409 until power is cycled.
`docs/ARCHITECTURE.md:34` says that every terminal path releases ownership.

**Telemetry is fresh without an update** (`telemetry_fresh`, `SonyLinear.cpp:532`). Every notification
of the session, whatever it names, stamps the time of the last telemetry, from which the status and the
VSM feedback derive that telemetry is fresh. A poll stamps it only if a state was updated
(`TelemetryManager.cpp:107`).

**A playback is verified that nobody verified** (`phase_verified`, `CommandEngine.cpp:340`). Stop + Replay sets
`PLAYBACK_VERIFIED` after every `rec_review` that succeeded. The gate of Set, Play and Playing is run for the
`/linear` key Thumbnail alone, so with any other mapping one acknowledged request is enough, also of a camera
that is still writing the clip. `CHANGELOG.md:8` says that the phase is reported only after the gate.

Differences between code and text met while modelling; the models follow the code, and no property
demands the opposite:

* The fallback delay, once chosen, no longer looks at telemetry, so fresh WRITING does not hold the
  review (`CommandEngine.cpp:319`; `tests/test_safety_contracts.py:77` says WAIT).
* Samples are stamped when read. With STOP or a start sent by HTTP a READY sent before it and read after
  it counts as later (`CommandEngine.cpp:185`), and a sample of the very millisecond a wait began
  satisfies it (`SequenceEngine.cpp:175`).
* A transport failure while the session is renewed inside the Set loop has the text of a missing
  answer and is retried until the deadline (`CommandEngine.cpp:96`;
  `docs/FS7_PROTOCOL_QUALIFICATION.md:11`).
* A capture started in the middle of a frame takes its payload for the start of another
  (`SonyProxy.cpp:502`, comment at 472). `FramesInOrder` is about the entries that are frames.
* A link that drops and returns with the same address gets no new warm-up request unless a command
  is sent meanwhile (`SonyRemote.cpp:143`, comment at 161-163).
* A TCP client whose PING came in time but is unread, because the main loop was held, is closed as
  idle (`ControlProtocol.cpp:34`; `docs/INTEGRATION.md:39`).
* A request whose encoding fails closes the session, though nothing was sent.
* The status document shows `recording: false` for a fresh text that is neither true nor false
  (`docs/API.md:16`), and `extractHeader` takes an empty value for a value.
* `telemetryFresh` of the status does not look at whether the camera is reachable; the VSM slot
  `bridge.telemetry_fresh` does (`WebApp.cpp:373`, `VsmGeneric.cpp:70`).
* A sequences file an older firmware wrote with a step that is no longer accepted makes `reload()` at the
  boot refuse all eight slots (`SequenceEngine.cpp:53-63`); `SavedDocuments` has this. The save takes
  slots by position, whatever number the document gives them, and drops unknown steps without saying.
* An older layout may keep commands that are now hold-only (`docs/API.md:32`); `OldLayouts` has none.
* After a session that was open for 25 days `loop()` may wait for up to 24.8 days to connect again, for the
  time of the next attempt is compared as a signed difference (`SonyLinear.cpp:600`). A command
  connects at once.
* The migration to schema 5 wraps every flat key array and turns any `pause` mapped to Play into
  Pause, whoever wrote it (`ConfigStore.cpp:342`, comment at 334); the migration to schema 4 looks
  for a nested array and misses the flat default it is meant for (`ConfigStore.cpp:326`).
* Answers that are slow for the interval starve the sources at the end of the table: with the shortest
  interval (100 ms) answers of 50 ms of three sources keep the fourth out, for as long as they go on
  (`TelemetryManager.cpp:57-63`). No text promises otherwise; `EverySourcePolled` excepts it, and without the exception
  TLC finds it.

## 8. Not modelled

* HTTP digest authentication, the check of the upgrade response, MessagePack and JSON encoding, RPC
  summaries, header rewriting of the proxy: conversions without control of their own, which succeed or
  fail.
* Feedback groups of the slot map (the same function as the triggers); the sources of VSM feedback that
  pass a status field on. `setCommandMapping` has no caller.
* A blank camera SSID, the failure of the Ethernet hardware, `testConnection`, a changed camera host.
* The manual test, raw and linear-test routes, which use the lock as `ManualCommand` does, and
  `reconnect-camera` beyond `CameraLink.ReconnectRequest`.
* The race of `cfg_` strings between the proxy's tasks and a save: undefined behaviour whose outcomes
  these models do not tell apart.
* Wrap-around of `millis()` outside `Feedback`: elsewhere ages saturate.
* Carriage returns and white space of a TCP line, and the status line; `WebPages.h`; the Python tools; the
  build scripts.

## 9. Plan

Done, in this order: arbiter, store and camera; command engine; sequence engine; firmware update;
the bridge with `ExclusiveOperation`; the review dialogue; atomic files with `DurableValue`; settings; the
proxy and its capture; telemetry; camera link, TCP control, command map and slot map, and their
composition `ConfigStore`; proofs for the first six; the stream with `MessageChannel`, the HTTP exchange,
feedback, addresses and the saved documents; proofs for the camera link and TCP control, for the value of
feedback (`ReviewAfterCameraSettled`, `WaitForReadyOutlastsClip`), the stream, the HTTP exchange, the proxy, the capture, what
the interfaces show, the store with its command map, its trigger slots and its saved documents, the
networks and the telemetry schedule.

Left: proofs of the liveness properties, should the prover learn to reason about ENABLED.

## 10. Running

    tlc -workers 2 -config MCBridge.cfg MCBridge
    tlapm Bridge_proofs.tla

Each `.cfg` belongs to the MC module of the same name, except `MCFirmwareLock.cfg`, which is for
`MCFirmwareUpdate`, `MCTelemetryFresh.cfg`, which is for `MCTelemetry`, and `MCVerifiedPhase.cfg`, which is for
`MCCommandEngine`. These three end with the counterexamples described above.
