----------------------------- MODULE CommandMap -----------------------------
(***************************************************************************)
(* The mapping of the semantic commands to requests of the camera: loading *)
(* /commands.json, which an older firmware may have written, bringing it   *)
(* up to date, and saving an edited one.                                   *)
(*                                                                         *)
(* Five of the catalogue's commands are enough: one for every migration,   *)
(* one whose default never changed and one without a default.  A mapping   *)
(* keeps what the migrations look at; a parameter array is its key and the *)
(* depth of its nesting: [], ["Rec"], [["Rec"]].  writeFileAtomic replaces *)
(* the file or leaves it (AtomicFile).                                     *)
(***************************************************************************)
EXTENDS Naturals

COMMAND_SCHEMA_VERSION == 5
Commands == {"record_start", "record_stop", "rec_review", "pause", "iris_up"}

Http(path) ==
  [transport |-> "http", path |-> path, rpc |-> "", depth |-> 0, key |-> ""]
Linear(rpc, depth, key) ==
  [transport |-> "linear", path |-> "", rpc |-> rpc, depth |-> depth, key |-> key]
Blank == Http("")
Keys(depth, key) == Linear("Button.SendKeys", depth, key)

CONSTANTS Edits,           \* mappings an operator may have given a command
          NoFile

Names ==
  { "", "Clip.Recorder.Start", "Clip.Recorder.Stop", "Button.SendKeys", "Thumbnail", "Pause" }
Texts == Names \cup UNION { {m.path, m.rpc, m.key} : m \in Edits }
Mappings ==
  [transport : {"http", "linear"}, path : Texts, rpc : Texts, depth : Nat, key : Texts]
Documents == [schema : 1..COMMAND_SCHEMA_VERSION, map : [Commands -> Mappings]]

VARIABLES file,            \* what COMMAND_PATH holds
          map,             \* commandMap_
          booted

vars == <<file, map, booted>>

-----------------------------------------------------------------------------
(* Defaults and migrations                                                 *)

HasDefault(c) == c # "iris_up"
LinearDefault(c) ==
  CASE c = "record_start" -> Linear("Clip.Recorder.Start", 0, "")
    [] c = "record_stop"  -> Linear("Clip.Recorder.Stop", 0, "")
    [] c = "rec_review"   -> Keys(2, "Thumbnail")
    [] c = "pause"        -> Keys(2, "Pause")

(* Slip: an HTTP mapping of the operator counts as blank. *)
AvailableUnlessLinear(m) == m.rpc = "" /\ m.transport # "linear"
Available(m) == m.path = "" /\ m.rpc = "" /\ m.transport # "linear"

LinearDefaults(cmds) ==
  [c \in Commands |-> IF HasDefault(c) /\ Available(cmds[c]) THEN LinearDefault(c) ELSE cmds[c]]

DefaultMap == LinearDefaults([c \in Commands |-> Blank])

(* The migrations compare the transport, the method and the parameters; a  *)
(* path that was left from an HTTP request makes no difference.            *)
SameRequest(m, n) ==
  m.transport = n.transport /\ m.rpc = n.rpc /\ m.depth = n.depth /\ m.key = n.key

FlatStart == Linear("Clip.Recorder.Start", 1, "main")

V3(cmds) ==
  [cmds EXCEPT
     !["record_start"] = IF SameRequest(@, FlatStart) THEN LinearDefault("record_start") ELSE @,
     !["record_stop"]  = IF SameRequest(@, Keys(2, "Rec")) THEN LinearDefault("record_stop") ELSE @]

V4(cmds) ==
  [cmds EXCEPT !["rec_review"] =
     IF SameRequest(@, Keys(2, "Assignable.6")) THEN LinearDefault("rec_review") ELSE @]

(* Every one-element array of keys is wrapped, whoever wrote it. *)
Wrapped(m) ==
  IF m.transport = "linear" /\ m.rpc = "Button.SendKeys" /\ m.depth = 1 THEN [m EXCEPT !.depth = 2] ELSE m

(* Only the parameters of such a PAUSE change. *)
Paused(m) == IF SameRequest(m, Keys(2, "Play")) THEN [m EXCEPT !.key = "Pause"] ELSE m

V5(cmds) ==
  [c \in Commands |-> IF c = "pause" THEN Paused(Wrapped(cmds[c])) ELSE Wrapped(cmds[c])]

Migrated(doc) ==
  LET three == IF doc.schema < 3 THEN V3(doc.map) ELSE doc.map
      four  == IF doc.schema < 4 THEN V4(three) ELSE three
      five  == IF doc.schema < 5 THEN V5(four) ELSE four
  IN  LinearDefaults(five)

(* Slip: the schema of the document that was read is kept. *)
CurrentOfRead(m) == [schema |-> COMMAND_SCHEMA_VERSION - 1, map |-> m]
Current(m) == [schema |-> COMMAND_SCHEMA_VERSION, map |-> m]

-----------------------------------------------------------------------------

(* A flash with no map, one it cannot read, or one of any earlier schema. *)
Init ==
  /\ file \in [schema : 1..COMMAND_SCHEMA_VERSION, map : [Commands -> Edits]] \cup {NoFile}
  /\ map = [c \in Commands |-> Blank]
  /\ booted = FALSE

Written(doc) == file' = doc \/ file' = file

BootWithoutMap ==
  /\ ~booted /\ file = NoFile
  /\ map' = DefaultMap
  /\ Written(Current(map'))
  /\ booted' = TRUE

LoadCommandMap ==
  /\ ~booted /\ file # NoFile
  /\ IF file.schema < COMMAND_SCHEMA_VERSION
     THEN map' = Migrated(file) /\ Written(Current(map'))
     ELSE map' = file.map /\ UNCHANGED file
  /\ booted' = TRUE

(* An HTTP mapping may be blank; a /linear one needs its method. *)
ValidMapping(m) == m.transport = "linear" => m.rpc # ""

(* The operator posts the map with one command edited; what is refused or  *)
(* cannot be written changes nothing.                                      *)
SaveCommandMap(c, m) ==
  /\ booted /\ ValidMapping(m)
  /\ map' = [map EXCEPT ![c] = m]
  /\ file' = Current(map')
  /\ UNCHANGED booted

Restart == booted /\ booted' = FALSE /\ UNCHANGED <<file, map>>

Next ==
  \/ BootWithoutMap \/ LoadCommandMap \/ Restart
  \/ \E c \in Commands, m \in Edits : SaveCommandMap(c, m)

Spec == Init /\ [][Next]_vars

-----------------------------------------------------------------------------
(* Properties                                                              *)

(* The commands do after a restart what they did before it: a command the  *)
(* operator blanked is not given its default again, and a migration that   *)
(* could not be written is repeated with the same result.                  *)
SavedOnce == map # [c \in Commands |-> Blank]
RestartKeepsMap == [][ (~booted /\ booted' /\ SavedOnce) => map' = map ]_vars

(* "Any operator-edited mapping is preserved" (ConfigStore.cpp:295), for   *)
(* the mappings that have no camera keys: an upgrade replaces neither an   *)
(* HTTP request nor a /linear method of the operator's own.  What nobody   *)
(* edited is a mapping without a request, and the old default of START.    *)
NoRequest(m) == m.transport = "http" /\ m.path = ""
Untouched(m) == NoRequest(m) \/ SameRequest(m, FlatStart)
UpgradeKeepsRequests ==
  [][ (~booted /\ booted' /\ file # NoFile) =>
        \A c \in Commands :
          \/ file.map[c].rpc = "Button.SendKeys" \/ Untouched(file.map[c])
          \/ map'[c] = file.map[c] ]_vars
=============================================================================
