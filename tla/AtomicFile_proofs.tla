-------------------------- MODULE AtomicFile_proofs --------------------------
(***************************************************************************)
(* Proofs that replacing a settings file is atomic, for every set of       *)
(* values, however often calls of the file system fail or the power goes.  *)
(***************************************************************************)
EXTENDS AtomicFile, TLAPS

(* What each step of writeFileAtomic relies on: until the install, the     *)
(* stored value is the live one; from it to the adoption, the new one.     *)
FileInv ==
  /\ FileTypeOK
  /\ pc \notin {"adopt", "load"} => Stored = live
  /\ pc = "adopt" => Stored = data
  /\ pc \in {"removeBackup", "backUp"} => main # Absent
  /\ pc \in {"install", "restore"} => main = Absent
  /\ pc \in {"removeBackup", "backUp", "install"} => tmp = data

(* A new flash satisfies the invariant.                                    *)
LEMMA FileInvInit == FileInit => FileInv
BY FileAssumption DEF FileInit, FileInv, FileTypeOK, Stored, Steps

(* Every step of a save, of a restart and of a power loss keeps it.        *)
LEMMA FileInvStep == FileInv /\ [FileNext]_fileVars => FileInv'
<1> SUFFICES ASSUME FileInv, [FileNext]_fileVars
             PROVE  FileInv'
    OBVIOUS
<1> USE FileAssumption DEF FileInv, FileTypeOK, Stored, Steps
<1>1. ASSUME NEW v \in FileValues, Save(v)
      PROVE  FileInv'
      BY <1>1 DEF Save
<1>2. CASE WriteTemp
      BY <1>2 DEF WriteTemp
<1>3. CASE Verify
      BY <1>3 DEF Verify
<1>4. CASE RemoveBackup
      BY <1>4 DEF RemoveBackup
<1>5. CASE BackUp
      BY <1>5 DEF BackUp
<1>6. CASE Install
      BY <1>6 DEF Install
<1>7. CASE Restore
      BY <1>7 DEF Restore
<1>8. CASE CleanUp
      BY <1>8 DEF CleanUp
<1>9. CASE AdoptSaved
      BY <1>9 DEF AdoptSaved
<1>10. CASE PowerLoss
      BY <1>10 DEF PowerLoss
<1>11. CASE Load
      BY <1>11 DEF Load
<1>12. CASE UNCHANGED fileVars
      BY <1>12 DEF fileVars
<1> QED
    BY <1>1, <1>2, <1>3, <1>4, <1>5, <1>6, <1>7, <1>8, <1>9, <1>10, <1>11, <1>12 DEF FileNext

(* The invariant holds in every reachable state.                           *)
THEOREM FileInvariant == FileSpec => []FileInv
BY FileInvInit, FileInvStep, PTL DEF FileSpec

(* A failed save leaves RAM and flash in agreement, and so does a good one.*)
THEOREM StoredIsLiveAlways == FileSpec => []StoredIsLive
<1>1. FileInv => StoredIsLive
      BY DEF FileInv, StoredIsLive
<1> QED
    BY <1>1, FileInvariant, PTL

(* A power loss between any two steps leaves the old value or the new one. *)
THEOREM OldOrNewAlways == FileSpec => []OldOrNew
<1>1. FileInv => OldOrNew
      BY DEF FileInv, OldOrNew, FileTypeOK
<1> QED
    BY <1>1, FileInvariant, PTL

(* writeFileAtomic with its callers implements an atomic durable value.    *)
THEOREM SavesAreAtomicAlways == FileSpec => SavesAreAtomic
<1>1. FileInit => Durable!Init
      BY DEF FileInit, Durable!Init, Stored
<1>2. FileInv /\ [FileNext]_fileVars => [Durable!Next]_<<Stored, live>>
  <2> SUFFICES ASSUME FileInv, [FileNext]_fileVars
               PROVE  [Durable!Next]_<<Stored, live>>
      OBVIOUS
  <2> USE FileAssumption DEF FileInv, FileTypeOK, Stored, Durable!Next, Durable!Commit, Durable!Adopt
  <2>1. ASSUME NEW v \in FileValues, Save(v)
        PROVE  UNCHANGED <<Stored, live>>
        BY <2>1 DEF Save
  <2>2. CASE WriteTemp
        BY <2>2 DEF WriteTemp
  <2>3. CASE Verify
        BY <2>3 DEF Verify
  <2>4. CASE RemoveBackup
        BY <2>4 DEF RemoveBackup
  <2>5. CASE BackUp
        BY <2>5 DEF BackUp
  <2>6. CASE Install
        BY <2>6 DEF Install
  <2>7. CASE Restore
        BY <2>7 DEF Restore
  <2>8. CASE CleanUp
        BY <2>8 DEF CleanUp
  <2>9. CASE AdoptSaved
        BY <2>9 DEF AdoptSaved
  <2>10. CASE PowerLoss
        BY <2>10 DEF PowerLoss
  <2>11. CASE Load
        BY <2>11 DEF Load
  <2>12. CASE UNCHANGED fileVars
        BY <2>12 DEF fileVars
  <2> QED
      BY <2>1, <2>2, <2>3, <2>4, <2>5, <2>6, <2>7, <2>8, <2>9, <2>10, <2>11, <2>12 DEF FileNext
<1> QED
    BY <1>1, <1>2, FileInvariant, PTL DEF FileSpec, SavesAreAtomic, Durable!Spec
=============================================================================
