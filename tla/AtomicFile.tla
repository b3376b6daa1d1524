----------------------------- MODULE AtomicFile -----------------------------
(***************************************************************************)
(* One of the six setting files of ConfigStore: how writeFileAtomic        *)
(* replaces it, how readFile finds it again, and the live copy in RAM.     *)
(* Every call of the flash file system is a step, may fail, and may be the *)
(* last before the power goes.  LittleFS itself is external: a rename and  *)
(* a remove happen or do not, and a file being written may be left torn.   *)
(***************************************************************************)

CONSTANTS FileValues,     \* what the file may hold
          FactoryValue,   \* the factory setting
          Absent, Torn    \* no file, and a file that holds no whole value

ASSUME FileAssumption ==
  /\ FactoryValue \in FileValues
  /\ Absent \notin FileValues /\ Torn \notin FileValues /\ Absent # Torn

VARIABLES main, tmp, bak, \* the file, its .tmp and its .bak
          live,           \* the setting in RAM
          data,           \* the value being written
          pc              \* the next step of writeFileAtomic, or of begin()

fileVars == <<main, tmp, bak, live, data, pc>>

Steps == {"idle", "print", "verify", "removeBackup", "backUp", "install",
          "restore", "cleanUp", "adopt", "load"}

FileTypeOK ==
  /\ main \in FileValues \cup {Absent}
  /\ tmp \in FileValues \cup {Absent, Torn}
  /\ bak \in FileValues \cup {Absent}
  /\ live \in FileValues /\ data \in FileValues
  /\ pc \in Steps

(* A new flash: begin() finds no file and uses the factory setting. *)
FileInit ==
  /\ main = Absent /\ tmp = Absent /\ bak = Absent
  /\ live = FactoryValue /\ data = FactoryValue
  /\ pc = "load"

(* What readFile returns, or begin() makes of its failure. *)
Stored ==
  IF main # Absent THEN main ELSE IF bak # Absent THEN bak ELSE FactoryValue

-----------------------------------------------------------------------------
(* writeFileAtomic                                                         *)

(* The validated new value; an open that fails ends the save at once. *)
Save(v) ==
  /\ pc = "idle"
  /\ data' = v
  /\ tmp' = Torn
  /\ pc' = "print"
  /\ UNCHANGED <<main, bak, live>>

WriteTemp ==
  /\ pc = "print"
  /\ \/ tmp' = data /\ pc' = "verify"
     \/ UNCHANGED tmp /\ pc' = "cleanUp"
  /\ UNCHANGED <<main, bak, live, data>>

(* The size is read back; only a complete file goes on. *)
Verify ==
  /\ pc = "verify"
  /\ \/ tmp = data /\ main # Absent /\ pc' = "removeBackup"
     \/ tmp = data /\ main = Absent /\ pc' = "install"
     \/ pc' = "cleanUp"
  /\ UNCHANGED <<main, tmp, bak, live, data>>

(* Nobody looks at the result of this remove. *)
RemoveBackup ==
  /\ pc = "removeBackup"
  /\ bak' \in {Absent, bak}
  /\ pc' = "backUp"
  /\ UNCHANGED <<main, tmp, live, data>>

(* Slip: the old file is removed, not kept, before the new one is there. *)
BackUpByRemoving ==
  /\ pc = "backUp"
  /\ main' = Absent /\ pc' = "install"
  /\ UNCHANGED <<bak, tmp, live, data>>

BackUp ==
  /\ pc = "backUp"
  /\ \/ bak' = main /\ main' = Absent /\ pc' = "install"
     \/ UNCHANGED <<bak, main>> /\ pc' = "cleanUp"
  /\ UNCHANGED <<tmp, live, data>>

Install ==
  /\ pc = "install"
  /\ \/ main' = tmp /\ tmp' = Absent /\ pc' = "adopt"
     \/ UNCHANGED <<main, tmp>> /\ pc' = "restore"
  /\ UNCHANGED <<bak, live, data>>

(* Nor at this rename: readFile still finds the backup. *)
Restore ==
  /\ pc = "restore"
  /\ pc' = "cleanUp"
  /\ \/ bak # Absent /\ main' = bak /\ bak' = Absent
     \/ UNCHANGED <<main, bak>>
  /\ UNCHANGED <<tmp, live, data>>

(* Every failing path ends here and returns false. *)
CleanUp ==
  /\ pc = "cleanUp"
  /\ tmp' \in {Absent, tmp}
  /\ pc' = "idle"
  /\ UNCHANGED <<main, bak, live, data>>

(* The caller, updateConfigJson or its like, changes RAM only on success. *)
AdoptSaved ==
  /\ pc = "adopt"
  /\ live' = data
  /\ pc' = "idle"
  /\ UNCHANGED <<main, tmp, bak, data>>

-----------------------------------------------------------------------------
(* Losing power, and begin() after it                                      *)

PowerLoss ==
  /\ pc' = "load"
  /\ tmp' \in {tmp, Torn}
  /\ UNCHANGED <<main, bak, live, data>>

(* A file that cannot be found is replaced by the factory setting, which   *)
(* is written at once; its failure is ignored.                             *)
Load ==
  /\ pc = "load"
  /\ live' = Stored
  /\ \/ main = Absent /\ bak = Absent /\ data' = FactoryValue /\ tmp' = Torn /\ pc' = "print"
     \/ (main # Absent \/ bak # Absent) /\ pc' = "idle" /\ UNCHANGED <<data, tmp>>
  /\ UNCHANGED <<main, bak>>

FileNext ==
  \/ \E v \in FileValues : Save(v)
  \/ WriteTemp
  \/ Verify
  \/ RemoveBackup
  \/ BackUp
  \/ Install
  \/ Restore
  \/ CleanUp
  \/ AdoptSaved
  \/ PowerLoss
  \/ Load

FileSpec == FileInit /\ [][FileNext]_fileVars

-----------------------------------------------------------------------------
(* Properties                                                              *)

(* Whenever no save is under way, a restart would find exactly the setting *)
(* in use: a save that reported failure left nothing behind, and one that  *)
(* reported success lost nothing, however many calls of either failed.     *)
StoredIsLive == pc = "idle" => Stored = live

(* Losing power between any two steps of a save leaves the old value or    *)
(* the new one, never a torn file, a third value or the factory setting.   *)
OldOrNew == pc # "load" => Stored \in {live, data}

Durable == INSTANCE DurableValue WITH Values <- FileValues, Default <- FactoryValue, saved <- Stored

(* Saves are atomic: the stored value changes only by one commit, which    *)
(* nothing takes back, and RAM never holds anything but a stored value.    *)
SavesAreAtomic == Durable!Spec
=============================================================================
