----------------------- MODULE ReencryptJournalProofs -----------------------
(***************************************************************************)
(* Proofs about ReencryptJournal and VaultWriters, for any number of       *)
(* entries, writers and processes that open the vault, any number of runs, *)
(* crashes and I/O errors, and one process at a time that rotates          *)
(* (SingleRotator).                                                        *)
(*                                                                         *)
(* Inv is inductive.  A step happens outside the lock, or it is a step of  *)
(* the lock holder; the lemmas below take the steps in the order of        *)
(* ReencryptJournal, and each has one step per conjunct of Inv.  Writers   *)
(* invalidate most of Inv; WInv, in the last part, is what holds beside    *)
(* them.                                                                   *)
(***************************************************************************)
EXTENDS VaultWriters, TLAPS

(* How far the holder's current loop has come. *)
LoopInv == FilesInv /\ StageInv /\ InstallInv /\ RecoverInv /\ RollbackInv
           /\ DiscardInv

USE ConstantsAssumption DEF disk, memory, procs, counts, Goto, At, Absent

(* The two forms a record takes in the loops of a rotation are records. *)
LEMMA RecordForms ==
  ASSUME NEW e \in Entries, files[e] \in Cipher
  PROVE  /\ StagedRecord(e) \in Record /\ InstalledRecord(e) \in Record
         /\ StagedRecord(e) # None /\ InstalledRecord(e) # None
<1>1. StagedRecord(e) \in Record /\ InstalledRecord(e) \in Record
  BY DEF StagedRecord, InstalledRecord, Record
<1> QED BY <1>1

(* So is the one the first journal gives each entry. *)
LEMMA BlankForm == Blank \in Record /\ Blank # None /\ Blank.digest = None
<1>1. Blank \in Record /\ Blank.digest = None
  BY DEF Blank, Record
<1> QED BY <1>1

(* The last step of an install turns the one form into the other. *)
LEMMA RecordInstalled ==
  ASSUME NEW p \in Procs, InstallRecord(p), cur \in Entries,
         files[cur] \in Cipher, journal[cur] = StagedRecord(cur)
  PROVE  journal' = [journal EXCEPT ![cur] = InstalledRecord(cur)]
<1>1. PICK r : r = [journal[cur] EXCEPT !.temp = FALSE, !.installed = TRUE]
  OBVIOUS
<1>2. /\ journal[cur] \in Record
      /\ journal[cur].digest = files[cur] /\ journal[cur].backup = TRUE
  BY RecordForms DEF StagedRecord
<1>3. r = InstalledRecord(cur)
  BY <1>1, <1>2 DEF Record, InstalledRecord
<1> QED BY <1>1, <1>3 DEF InstallRecord

(* Inv holds of a vault without a journal and of one that Go left behind. *)
LEMMA InitInv == Init => Inv
<1> SUFFICES ASSUME Init PROVE Inv
  OBVIOUS
<1>1. /\ Original \in Cipher /\ Original.val = 0
      /\ GoStaged \in Cipher /\ GoStaged.val = 0
      /\ Blank \in Record /\ GoRecord \in Record
      /\ GoRecord.digest = GoStaged /\ GoRecord.temp
  BY DEF Original, GoStaged, GoRecord, Blank, Cipher, Record
<1>2. PICK S \in SUBSET Entries :
        /\ temp = [e \in Entries |-> IF e \in S THEN GoStaged ELSE None]
        /\ journal = [e \in Entries |->
               CASE e \in S -> GoRecord
                 [] S # {} /\ e \notin S -> Blank
                 [] S = {} -> None]
  BY DEF Init
<1>3. \A e \in Entries :
        \/ journal[e] = GoRecord
        \/ journal[e] = Blank /\ temp[e] = None
        \/ journal[e] = None /\ temp[e] = None
  BY <1>2
<1>4. TypeOK
  <2>1. journal \in [Entries -> Record \cup {None}]
    BY <1>1, <1>2
  <2>2. temp \in [Entries -> Cipher \cup {None, Partial}]
    BY <1>1, <1>2
  <2> QED BY <1>1, <2>1, <2>2 DEF Init, TypeOK, Resting
<1>5. DiskInv
  <2> SUFFICES ASSUME NEW e \in Entries
               PROVE  /\ temp[e] # None => journal[e] # None /\ journal[e].temp
                      /\ journal[e] # None /\ journal[e].digest = None =>
                           ~journal[e].temp /\ ~journal[e].backup
                           /\ ~journal[e].installed
                      /\ journal[e] # None /\ journal[e].digest # None =>
                           /\ journal[e].temp \/ journal[e].backup
                           /\ journal[e].digest.val = 0
    BY <1>1 DEF Init, DiskInv, Cipher
  <2>1. CASE journal[e] = GoRecord
    BY <1>1, <2>1
  <2>2. CASE journal[e] = Blank /\ temp[e] = None
    BY <2>2 DEF Blank
  <2> QED BY <1>3, <2>1, <2>2
<1>6. LockInv /\ StartInv /\ LoopInv /\ SuccessMeansResealed
  BY DEF Init, LockInv, StartInv, LoopInv, FilesInv, StageInv, InstallInv,
     RecoverInv, RollbackInv, DiscardInv, SuccessMeansResealed, Holding
<1> QED BY <1>4, <1>5, <1>6 DEF Inv, LoopInv

(* The steps of a process that neither holds nor takes the lock. *)
Outside(p) == ChangeRecipients(p) \/ ResolveRecipients(p) \/ StartOpen(p)
              \/ Opening(p) \/ LockTimeout(p)

(* A step outside the lock moves one pc and touches no file. *)
LEMMA OutsideStep ==
  ASSUME SingleRotator, Inv, NEW p \in Procs, Outside(p)
  PROVE  Inv'
<1>1. /\ UNCHANGED <<disk, lock, memory, crashes, ioerrors>>
      /\ lock # p /\ pc'[p] \notin Holding
      /\ \A q \in Procs \ {p} : pc'[q] = pc[q] /\ rcp'[q] = rcp[q]
  BY DEF Inv, TypeOK, LockInv, Outside, ChangeRecipients, ResolveRecipients,
     StartOpen, Opening, OpenClean, OpenPending, OpenSettled, LockTimeout,
     Resting, Holding
<1>2. TypeOK'
  <2>1. CASE Opening(p)
    BY <2>1, SMTT(30) DEF Inv, TypeOK, Opening, OpenClean, OpenPending,
       OpenSettled, Resting, Waiting
  <2>2. CASE ~Opening(p)
    BY <2>2 DEF Inv, TypeOK, Outside, ChangeRecipients, ResolveRecipients,
       StartOpen, LockTimeout, Resting, Waiting
  <2> QED BY <2>1, <2>2
<1>3. pc'[p] \notin {"open", "opened", "openlock", "idle", "err"} => p \in Rotators
  BY DEF Inv, TypeOK, LockInv, Outside, ChangeRecipients, ResolveRecipients,
     StartOpen, Opening, OpenClean, OpenPending, OpenSettled, LockTimeout
<1>4. LockInv'
  BY <1>1, <1>2, <1>3 DEF Inv, TypeOK, LockInv, Holding
<1>5. DiskInv'
  BY <1>1 DEF Inv, DiskInv
<1>6. pc'[p] # "ok" /\ (pc'[p] = "cmdlock" => Listed = {})
  BY DEF Inv, TypeOK, Outside, ChangeRecipients, ResolveRecipients, StartOpen,
     Opening, OpenClean, OpenPending, OpenSettled, LockTimeout, JournalExists
<1>7. StartInv'
  BY <1>1, <1>6 DEF Inv, StartInv, Listed
<1>8. LoopInv'
  <2>1. phase # "none" => rcp'[lock] = rcp[lock] /\ pc'[lock] = pc[lock]
    BY <1>1 DEF Inv, TypeOK, LockInv
  <2> QED
    BY <1>1, <2>1 DEF Inv, LoopInv, FilesInv, StageInv, InstallInv,
       RecoverInv, RollbackInv, DiscardInv, StagedRecord, InstalledRecord,
       Listed
<1>9. SuccessMeansResealed'
  BY <1>1, <1>6 DEF Inv, SuccessMeansResealed
<1> QED BY <1>2, <1>4, <1>5, <1>7, <1>8, <1>9 DEF Inv, LoopInv

(* Recovery begins: the holder lists every journalled entry and takes its  *)
(* snapshot of the manifest.                                               *)
LEMMA RecoverStartStep ==
  ASSUME SingleRotator, Inv, NEW p \in Procs, RecoverStart(p)
  PROVE  Inv'
<1>1. TypeOK'
  BY DEF Inv, TypeOK, Listed, RecoverStart, Holding
<1>2. LockInv'
  BY DEF Inv, TypeOK, LockInv, Holding, RecoverStart, JournalExists
<1>3. DiskInv'
  BY DEF Inv, DiskInv, RecoverStart
<1>4. StartInv'
  BY DEF Inv, TypeOK, LockInv, DiskInv, StartInv, FilesInv, StageInv,
     InstallInv, RecoverInv, RollbackInv, DiscardInv, StagedRecord,
     InstalledRecord, SingleRotator, Listed, Holding, Blank, Record,
     RecoverStart, JournalExists
<1>5. LoopInv'
  BY DEF Inv, DiskInv, LoopInv, FilesInv, StageInv, InstallInv, RecoverInv,
     RollbackInv, DiscardInv, Listed, RecoverStart
<1>6. SuccessMeansResealed'
  BY DEF Inv, TypeOK, SuccessMeansResealed, RecoverStart
<1> QED BY <1>1, <1>2, <1>3, <1>4, <1>5, <1>6 DEF Inv, LoopInv

(* Recovery settles one entry: a moved original goes back, an installed    *)
(* replacement stays.                                                      *)
LEMMA RecoverEntryStep ==
  ASSUME SingleRotator, Inv, NEW p \in Procs, NEW e \in Entries,
         RecoverEntry(p, e)
  PROVE  Inv'
<1>1. TypeOK'
  BY DEF Inv, TypeOK, RecoverEntry
<1>2. LockInv'
  BY DEF Inv, TypeOK, LockInv, Holding, RecoverEntry, Refuses, NeedsRestore
<1>3. DiskInv'
  BY DEF Inv, TypeOK, DiskInv, RecoverEntry, NeedsRestore
<1>4. StartInv'
  BY DEF Inv, StartInv, Listed, RecoverEntry
<1>5. LoopInv'
  BY DEF Inv, TypeOK, DiskInv, LoopInv, FilesInv, StageInv, InstallInv,
     RecoverInv, RollbackInv, DiscardInv, Listed, RecoverEntry, NeedsRestore
<1>6. SuccessMeansResealed'
  BY DEF Inv, StartInv, RecoverInv, SuccessMeansResealed, RecoverEntry
<1> QED BY <1>1, <1>2, <1>3, <1>4, <1>5, <1>6 DEF Inv, LoopInv

(* Recovery removes the staged files: none is the only copy of an entry. *)
LEMMA RecoverDropTempStep ==
  ASSUME SingleRotator, Inv, NEW p \in Procs, RecoverDropTemp(p)
  PROVE  Inv'
<1>1. TypeOK'
  BY DEF Inv, TypeOK, RecoverDropTemp
<1>2. LockInv'
  BY DEF Inv, TypeOK, LockInv, Holding, RecoverDropTemp
<1>3. DiskInv'
  BY DEF Inv, DiskInv, RecoverDropTemp
<1>4. StartInv'
  BY DEF Inv, StartInv, Listed, RecoverDropTemp
<1>5. LoopInv'
  BY DEF Inv, TypeOK, DiskInv, LoopInv, FilesInv, StageInv, InstallInv,
     RecoverInv, RollbackInv, DiscardInv, Listed, RecoverDropTemp
<1>6. SuccessMeansResealed'
  BY DEF Inv, SuccessMeansResealed, RecoverDropTemp
<1> QED BY <1>1, <1>2, <1>3, <1>4, <1>5, <1>6 DEF Inv, LoopInv

(* Recovery rebuilds the manifest from the settled files. *)
LEMMA RecoverManifestStep ==
  ASSUME SingleRotator, Inv, NEW p \in Procs, RecoverManifest(p)
  PROVE  Inv'
<1>1. TypeOK'
  BY DEF Inv, TypeOK, Listed, RecoverManifest, RebuildManifest
<1>2. LockInv'
  BY DEF Inv, TypeOK, LockInv, Holding, RecoverManifest, RebuildManifest
<1>3. DiskInv'
  BY DEF Inv, DiskInv, RecoverManifest
<1>4. StartInv'
  BY DEF Inv, StartInv, Listed, RecoverManifest
<1>5. LoopInv'
  BY DEF Inv, LockInv, DiskInv, LoopInv, FilesInv, StageInv, InstallInv,
     RecoverInv, RollbackInv, DiscardInv, Listed, RecoverManifest
<1>6. SuccessMeansResealed'
  BY DEF Inv, SuccessMeansResealed, RecoverManifest
<1> QED BY <1>1, <1>2, <1>3, <1>4, <1>5, <1>6 DEF Inv, LoopInv

(* The rebuild fails: recovery turns to rolling the entries back. *)
LEMMA RecoverManifestFailsStep ==
  ASSUME SingleRotator, Inv, NEW p \in Procs, RecoverManifestFails(p)
  PROVE  Inv'
<1>1. TypeOK'
  BY DEF Inv, TypeOK, Listed, RecoverManifestFails, ManifestFailed,
     RebuildManifest
<1>2. LockInv'
  BY DEF Inv, LockInv, RecoverManifestFails, ManifestFailed
<1>3. DiskInv'
  BY DEF Inv, DiskInv, RecoverManifestFails, ManifestFailed
<1>4. StartInv'
  BY DEF Inv, StartInv, Listed, RecoverManifestFails, ManifestFailed
<1>5. LoopInv'
  BY DEF Inv, DiskInv, LoopInv, FilesInv, StageInv, InstallInv, RecoverInv,
     RollbackInv, DiscardInv, Listed, RecoverManifestFails, ManifestFailed
<1>6. SuccessMeansResealed'
  BY DEF Inv, SuccessMeansResealed, RecoverManifestFails, ManifestFailed
<1> QED BY <1>1, <1>2, <1>3, <1>4, <1>5, <1>6 DEF Inv, LoopInv

(* The backup of one settled entry is removed. *)
LEMMA DiscardArtifactsStep ==
  ASSUME SingleRotator, Inv, NEW p \in Procs, NEW e \in Entries,
         DiscardArtifacts(p, e)
  PROVE  Inv'
<1>1. TypeOK'
  BY DEF Inv, TypeOK, DiscardArtifacts
<1>2. LockInv'
  BY DEF Inv, TypeOK, LockInv, Holding, DiscardArtifacts
<1>3. DiskInv'
  BY DEF Inv, DiskInv, DiscardInv, DiscardArtifacts
<1>4. StartInv'
  BY DEF Inv, StartInv, Listed, DiscardArtifacts
<1>5. LoopInv'
  BY DEF Inv, TypeOK, DiskInv, LoopInv, FilesInv, StageInv, InstallInv,
     RecoverInv, RollbackInv, DiscardInv, DiscardArtifacts
<1>6. SuccessMeansResealed'
  BY DEF Inv, SuccessMeansResealed, DiscardArtifacts
<1> QED BY <1>1, <1>2, <1>3, <1>4, <1>5, <1>6 DEF Inv, LoopInv

(* The journal is removed once no artifact is left. *)
LEMMA FinishStep ==
  ASSUME SingleRotator, Inv, NEW p \in Procs, Finish(p)
  PROVE  Inv'
<1>1. TypeOK'
  BY DEF Inv, TypeOK, LockInv, Finish, Release, AfterRecovery, Holding,
     Resting, Waiting
<1>2. LockInv'
  BY DEF Inv, TypeOK, LockInv, Holding, Finish, Release, AfterRecovery
<1>3. DiskInv'
  BY DEF Inv, DiskInv, DiscardInv, Finish, Release, AfterRecovery
<1>4. StartInv'
  BY DEF StartInv, Listed, Finish, Release, AfterRecovery
<1>5. LoopInv'
  BY DEF LoopInv, FilesInv, StageInv, InstallInv, RecoverInv, RollbackInv,
     DiscardInv, Finish, Release, AfterRecovery
<1>6. SuccessMeansResealed'
  BY DEF Inv, TypeOK, LockInv, DiscardInv, Holding, SuccessMeansResealed,
     Finish, Release, AfterRecovery
<1> QED BY <1>1, <1>2, <1>3, <1>4, <1>5, <1>6 DEF Inv, LoopInv

(* A rollback removes the replacement of one entry, whose original is in   *)
(* the backup.                                                             *)
LEMMA RollbackEntryStep ==
  ASSUME SingleRotator, Inv, NEW p \in Procs, NEW e \in Entries,
         RollbackEntry(p, e)
  PROVE  Inv'
<1>1. TypeOK'
  BY DEF Inv, TypeOK, RollbackEntry
<1>2. LockInv'
  BY DEF Inv, TypeOK, LockInv, Holding, RollbackEntry, RollbackRefuses
<1>3. DiskInv'
  BY DEF Inv, TypeOK, DiskInv, RollbackEntry
<1>4. StartInv'
  BY DEF Inv, StartInv, Listed, RollbackEntry
<1>5. LoopInv'
  BY DEF Inv, TypeOK, DiskInv, LoopInv, FilesInv, StageInv, InstallInv,
     RecoverInv, RollbackInv, DiscardInv, RollbackEntry
<1>6. SuccessMeansResealed'
  BY DEF Inv, TypeOK, SuccessMeansResealed, RollbackEntry
<1> QED BY <1>1, <1>2, <1>3, <1>4, <1>5, <1>6 DEF Inv, LoopInv

(* A rollback moves the backup of the current entry back. *)
LEMMA RollbackRenameStep ==
  ASSUME SingleRotator, Inv, NEW p \in Procs, RollbackRename(p)
  PROVE  Inv'
<1>1. TypeOK'
  BY DEF Inv, TypeOK, RollbackRename
<1>2. LockInv'
  BY DEF Inv, TypeOK, LockInv, Holding, RollbackRename
<1>3. DiskInv'
  BY DEF Inv, TypeOK, DiskInv, RollbackInv, RollbackRename
<1>4. StartInv'
  BY DEF Inv, StartInv, Listed, RollbackRename
<1>5. LoopInv'
  BY DEF Inv, TypeOK, LoopInv, FilesInv, StageInv, InstallInv, RecoverInv,
     RollbackInv, DiscardInv, RollbackRename
<1>6. SuccessMeansResealed'
  BY DEF Inv, DiskInv, StartInv, Listed, SuccessMeansResealed, RollbackRename
<1> QED BY <1>1, <1>2, <1>3, <1>4, <1>5, <1>6 DEF Inv, LoopInv

(* A rollback puts the snapshot of the manifest back. *)
LEMMA RestoreManifestStep ==
  ASSUME SingleRotator, Inv, NEW p \in Procs, RestoreManifest(p)
  PROVE  Inv'
<1>1. TypeOK'
  BY DEF Inv, TypeOK, RestoreManifest
<1>2. LockInv'
  BY DEF Inv, TypeOK, LockInv, Holding, RestoreManifest
<1>3. DiskInv'
  BY DEF Inv, DiskInv, RestoreManifest
<1>4. StartInv'
  BY DEF Inv, StartInv, Listed, RestoreManifest
<1>5. LoopInv'
  BY DEF Inv, LoopInv, FilesInv, StageInv, InstallInv, RecoverInv,
     RollbackInv, DiscardInv, RestoreManifest
<1>6. SuccessMeansResealed'
  BY DEF Inv, SuccessMeansResealed, RestoreManifest
<1> QED BY <1>1, <1>2, <1>3, <1>4, <1>5, <1>6 DEF Inv, LoopInv

(* A rollback ends by removing the journal, when every original is back. *)
LEMMA RollbackFinishStep ==
  ASSUME SingleRotator, Inv, NEW p \in Procs, RollbackFinish(p)
  PROVE  Inv'
<1>1. TypeOK'
  BY DEF Inv, TypeOK, RollbackFinish, Release, Resting
<1>2. LockInv'
  BY DEF Inv, TypeOK, LockInv, Holding, RollbackFinish, Release
<1>3. DiskInv'
  BY DEF Inv, TypeOK, DiskInv, StartInv, FilesInv, StageInv, InstallInv,
     RecoverInv, RollbackInv, DiscardInv, StagedRecord, InstalledRecord,
     Listed, Record, Blank, Cipher, RollbackFinish, Release
<1>4. StartInv'
  BY DEF StartInv, Listed, RollbackFinish, Release
<1>5. LoopInv'
  BY DEF LoopInv, FilesInv, StageInv, InstallInv, RecoverInv, RollbackInv,
     DiscardInv, RollbackFinish, Release
<1>6. SuccessMeansResealed'
  BY DEF Inv, SuccessMeansResealed, RollbackFinish, Release
<1> QED BY <1>1, <1>2, <1>3, <1>4, <1>5, <1>6 DEF Inv, LoopInv

(* A command takes the write lock without looking for a journal again:     *)
(* with a single rotator there is none.                                    *)
LEMMA AcquireStep ==
  ASSUME SingleRotator, Inv, NEW p \in Procs, Acquire(p)
  PROVE  Inv'
<1>1. TypeOK'
  BY DEF Inv, TypeOK, Acquire, Holding
<1>2. LockInv'
  BY DEF Inv, TypeOK, LockInv, Holding, Acquire
<1>3. DiskInv'
  BY DEF Inv, DiskInv, Acquire
<1>4. StartInv'
  BY DEF Inv, StartInv, Listed, Acquire
<1>5. LoopInv'
  BY DEF LoopInv, FilesInv, StageInv, InstallInv, RecoverInv, RollbackInv,
     DiscardInv, Acquire
<1>6. SuccessMeansResealed'
  BY DEF Inv, SuccessMeansResealed, Acquire
<1> QED BY <1>1, <1>2, <1>3, <1>4, <1>5, <1>6 DEF Inv, LoopInv

(* The command encrypts every entry for its recipients. *)
LEMMA CollectStep ==
  ASSUME SingleRotator, Inv, NEW p \in Procs, Collect(p)
  PROVE  Inv'
<1>1. TypeOK'
  BY DEF Inv, TypeOK, Collect, Cipher
<1>2. LockInv'
  BY DEF Inv, TypeOK, LockInv, Holding, Collect
<1>3. DiskInv'
  BY DEF Inv, DiskInv, Collect
<1>4. StartInv'
  BY DEF Inv, StartInv, Listed, Collect
<1>5. LoopInv'
  <2>1. \A e \in Entries : target[e] \in Cipher /\ target[e].val = 0
    BY DEF Inv, TypeOK, DiskInv, StartInv, Listed, Collect
  <2>2. \A e \in Entries :
          files'[e] = [val |-> 0, rcp |-> rcp[p], run |-> run[p]]
    BY <2>1 DEF Collect
  <2>3. \A e \in Entries : files'[e] \in Cipher
    BY <2>2 DEF Inv, TypeOK, Cipher
  <2> QED
    BY <2>2, <2>3 DEF LoopInv, FilesInv, StageInv, InstallInv, RecoverInv,
       RollbackInv, DiscardInv, Collect
<1>6. SuccessMeansResealed'
  BY DEF Inv, SuccessMeansResealed, Collect
<1> QED BY <1>1, <1>2, <1>3, <1>4, <1>5, <1>6 DEF Inv, LoopInv

(* The journal that lists every entry appears in one publication. *)
LEMMA WriteJournalStep ==
  ASSUME SingleRotator, Inv, NEW p \in Procs, WriteJournal(p)
  PROVE  Inv'
<1>1. TypeOK'
  BY DEF Inv, TypeOK, WriteJournal, Record, Blank
<1>2. LockInv'
  BY DEF Inv, TypeOK, LockInv, Holding, WriteJournal
<1>3. DiskInv'
  BY DEF Inv, DiskInv, StartInv, Listed, Blank, WriteJournal
<1>4. StartInv'
  <2>1. \A q \in Procs : pc[q] \notin {"cmdlock", "ok"}
    BY DEF Inv, TypeOK, LockInv, SingleRotator, WriteJournal
  <2> QED BY <2>1 DEF StartInv, WriteJournal
<1>5. LoopInv'
  <2>1. \A e \in Entries : target[e] # None /\ files[e] # None
    BY DEF Inv, DiskInv, StartInv, FilesInv, Listed, WriteJournal
  <2>2. \A e \in Entries : journal'[e] = Blank /\ e \in todo'
    BY <2>1 DEF WriteJournal
  <2>3. cur = None
    BY DEF Inv, LockInv, WriteJournal
  <2> QED
    BY <2>1, <2>2, <2>3 DEF Inv, LoopInv, FilesInv, StageInv, InstallInv,
       RecoverInv, RollbackInv, DiscardInv, WriteJournal
<1>6. SuccessMeansResealed'
  BY DEF Inv, SuccessMeansResealed, WriteJournal
<1> QED BY <1>1, <1>2, <1>3, <1>4, <1>5, <1>6 DEF Inv, LoopInv

(* The record names the staged file and the backup before either exists. *)
LEMMA StageRecordStep ==
  ASSUME SingleRotator, Inv, NEW p \in Procs, NEW e \in Entries,
         StageRecord(p, e)
  PROVE  Inv'
<1>1. TypeOK'
  BY DEF Inv, TypeOK, StageRecord, Record
<1>2. LockInv'
  BY DEF Inv, TypeOK, LockInv, Holding, StageRecord
<1>3. DiskInv'
  BY DEF Inv, DiskInv, FilesInv, StageInv, StageRecord
<1>4. StartInv'
  BY DEF Inv, LockInv, StartInv, SingleRotator, StageRecord
<1>5. LoopInv'
  <2>1. StageInv'
    <3> SUFFICES ASSUME NEW f \in Entries
                 PROVE  /\ target[f] # None /\ backup[f] = None
                        /\ f \notin todo => journal'[f] = StagedRecord(f) /\ temp[f] = files[f]
                        /\ f \in todo /\ f # e => journal'[f] = Blank /\ temp[f] = None
                        /\ f = e => journal'[f] = StagedRecord(f) /\ temp[f] \in {None, Partial}
      BY DEF StageInv, StageRecord, StagedRecord
    <3>1. CASE f = e
      BY <3>1 DEF Inv, TypeOK, StageInv, StageRecord, StagedRecord
    <3>2. CASE f # e
      BY <3>2 DEF Inv, TypeOK, StageInv, StageRecord
    <3> QED BY <3>1, <3>2
  <2> QED
    BY <2>1 DEF Inv, LoopInv, FilesInv, InstallInv, RecoverInv, RollbackInv,
       DiscardInv, StageRecord
<1>6. SuccessMeansResealed'
  BY DEF Inv, SuccessMeansResealed, StageRecord
<1> QED BY <1>1, <1>2, <1>3, <1>4, <1>5, <1>6 DEF Inv, LoopInv

(* The staged file is created under the journalled name. *)
LEMMA StageCreateStep ==
  ASSUME SingleRotator, Inv, NEW p \in Procs, StageCreate(p)
  PROVE  Inv'
<1>1. TypeOK'
  BY DEF Inv, TypeOK, StageCreate
<1>2. LockInv'
  BY DEF Inv, TypeOK, LockInv, Holding, StageCreate
<1>3. DiskInv'
  <2>1. journal[cur] = StagedRecord(cur)
    BY DEF Inv, TypeOK, StageInv, StageCreate
  <2>2. files[cur] \in Cipher
    BY DEF Inv, TypeOK, FilesInv, StageCreate
  <2>3. StagedRecord(cur) \in Record /\ StagedRecord(cur).temp
    BY <2>2 DEF StagedRecord, Record
  <2>4. journal[cur].temp /\ journal[cur] # None
    BY <2>1, <2>3
  <2> QED BY <2>4 DEF Inv, TypeOK, DiskInv, StageCreate
<1>4. StartInv'
  BY DEF Inv, StartInv, Listed, StageCreate
<1>5. LoopInv'
  BY DEF Inv, TypeOK, LoopInv, FilesInv, StageInv, InstallInv, RecoverInv,
     RollbackInv, DiscardInv, StagedRecord, StageCreate
<1>6. SuccessMeansResealed'
  BY DEF Inv, SuccessMeansResealed, StageCreate
<1> QED BY <1>1, <1>2, <1>3, <1>4, <1>5, <1>6 DEF Inv, LoopInv

(* The staged file receives the replacement. *)
LEMMA StageWriteStep ==
  ASSUME SingleRotator, Inv, NEW p \in Procs, StageWrite(p)
  PROVE  Inv'
<1>1. TypeOK'
  BY DEF Inv, TypeOK, StageWrite
<1>2. LockInv'
  BY DEF Inv, TypeOK, LockInv, Holding, StageWrite
<1>3. DiskInv'
  BY DEF Inv, DiskInv, StageWrite
<1>4. StartInv'
  BY DEF Inv, StartInv, Listed, StageWrite
<1>5. LoopInv'
  BY DEF Inv, TypeOK, LoopInv, FilesInv, StageInv, InstallInv, RecoverInv,
     RollbackInv, DiscardInv, StagedRecord, StageWrite
<1>6. SuccessMeansResealed'
  BY DEF Inv, SuccessMeansResealed, StageWrite
<1> QED BY <1>1, <1>2, <1>3, <1>4, <1>5, <1>6 DEF Inv, LoopInv

(* Every entry is staged: the installs begin. *)
LEMMA StageDoneStep ==
  ASSUME SingleRotator, Inv, NEW p \in Procs, StageDone(p)
  PROVE  Inv'
<1>1. TypeOK'
  BY DEF Inv, TypeOK, Listed, StageDone
<1>2. LockInv'
  BY DEF Inv, TypeOK, LockInv, Holding, StageDone
<1>3. DiskInv'
  BY DEF Inv, DiskInv, StageDone
<1>4. StartInv'
  BY DEF Inv, StartInv, Listed, StageDone
<1>5. LoopInv'
  BY DEF Inv, DiskInv, LoopInv, FilesInv, StageInv, InstallInv, RecoverInv,
     RollbackInv, DiscardInv, StagedRecord, Listed, StageDone
<1>6. SuccessMeansResealed'
  BY DEF Inv, SuccessMeansResealed, StageDone
<1> QED BY <1>1, <1>2, <1>3, <1>4, <1>5, <1>6 DEF Inv, LoopInv

(* The original moves to the backup its record names. *)
LEMMA InstallMoveStep ==
  ASSUME SingleRotator, Inv, NEW p \in Procs, NEW e \in Entries,
         InstallMove(p, e)
  PROVE  Inv'
<1>1. TypeOK'
  BY DEF Inv, TypeOK, InstallMove
<1>2. LockInv'
  BY DEF Inv, TypeOK, LockInv, Holding, InstallMove
<1>3. DiskInv'
  BY DEF Inv, TypeOK, DiskInv, FilesInv, InstallInv, StagedRecord, InstallMove
<1>4. StartInv'
  BY DEF Inv, StartInv, Listed, InstallMove
<1>5. LoopInv'
  BY DEF Inv, TypeOK, LoopInv, FilesInv, StageInv, InstallInv, RecoverInv,
     RollbackInv, DiscardInv, StagedRecord, InstalledRecord, InstallMove
<1>6. SuccessMeansResealed'
  BY DEF Inv, SuccessMeansResealed, InstallMove
<1> QED BY <1>1, <1>2, <1>3, <1>4, <1>5, <1>6 DEF Inv, LoopInv

(* The replacement moves to the place the original left. *)
LEMMA InstallSwapStep ==
  ASSUME SingleRotator, Inv, NEW p \in Procs, InstallSwap(p)
  PROVE  Inv'
<1>1. TypeOK'
  BY DEF Inv, TypeOK, InstallInv, InstallSwap
<1>2. LockInv'
  BY DEF Inv, TypeOK, LockInv, Holding, InstallSwap
<1>3. DiskInv'
  BY DEF Inv, TypeOK, DiskInv, InstallInv, StagedRecord, InstallSwap
<1>4. StartInv'
  BY DEF Inv, StartInv, Listed, InstallSwap
<1>5. LoopInv'
  BY DEF Inv, TypeOK, LoopInv, FilesInv, StageInv, InstallInv, RecoverInv,
     RollbackInv, DiscardInv, StagedRecord, InstalledRecord, InstallSwap
<1>6. SuccessMeansResealed'
  BY DEF Inv, LockInv, SuccessMeansResealed, SingleRotator, InstallSwap
<1> QED BY <1>1, <1>2, <1>3, <1>4, <1>5, <1>6 DEF Inv, LoopInv

(* The record says that the replacement is installed. *)
LEMMA InstallRecordStep ==
  ASSUME SingleRotator, Inv, NEW p \in Procs, InstallRecord(p)
  PROVE  Inv'
<1>0. /\ cur \in Entries /\ temp[cur] = None /\ target[cur] = files[cur]
      /\ files[cur] \in Cipher /\ files[cur].val = 0
      /\ InstalledRecord(cur) \in Record
      /\ journal' = [journal EXCEPT ![cur] = InstalledRecord(cur)]
  <2>1. cur \in Entries /\ journal[cur] = StagedRecord(cur)
    BY DEF Inv, TypeOK, InstallInv, InstallRecord
  <2>2. /\ temp[cur] = None /\ target[cur] = files[cur]
        /\ files[cur] \in Cipher /\ files[cur].val = 0
    BY <2>1 DEF Inv, TypeOK, FilesInv, InstallInv, InstallRecord
  <2> QED BY <2>1, <2>2, RecordForms, RecordInstalled
<1>1. TypeOK'
  BY <1>0 DEF Inv, TypeOK, InstallRecord
<1>2. LockInv'
  BY DEF Inv, TypeOK, LockInv, Holding, InstallRecord
<1>3. DiskInv'
  <2> SUFFICES ASSUME NEW e \in Entries PROVE DiskInv!(e)'
    BY DEF DiskInv
  <2>1. CASE e = cur
    <3>1. /\ journal'[e] = InstalledRecord(e) /\ journal'[e] # None
          /\ journal'[e].digest = files[e] /\ journal'[e].backup = TRUE
      BY <1>0, <2>1, RecordForms DEF Inv, TypeOK, InstalledRecord
    <3> QED
      BY <1>0, <2>1, <3>1 DEF Inv, TypeOK, DiskInv, InstallRecord
  <2>2. CASE e # cur
    BY <1>0, <2>2 DEF Inv, TypeOK, DiskInv, InstallRecord
  <2> QED BY <2>1, <2>2
<1>4. StartInv'
  BY DEF Inv, LockInv, StartInv, SingleRotator, InstallRecord
<1>5. LoopInv'
  <2>1. InstallInv'
    <3>1. ASSUME NEW e \in Entries, e # cur
          PROVE  journal'[e] = journal[e]
      BY <1>0, <3>1 DEF Inv, TypeOK
    <3>2. journal'[cur] = InstalledRecord(cur)
      BY <1>0 DEF Inv, TypeOK
    <3> QED
      BY <1>0, <3>1, <3>2 DEF Inv, TypeOK, InstallInv, InstallRecord,
         StagedRecord, InstalledRecord
  <2> QED
    BY <2>1 DEF Inv, LoopInv, FilesInv, StageInv, RecoverInv, RollbackInv,
       DiscardInv, InstallRecord
<1>6. SuccessMeansResealed'
  BY DEF Inv, SuccessMeansResealed, InstallRecord
<1> QED BY <1>1, <1>2, <1>3, <1>4, <1>5, <1>6 DEF Inv, LoopInv

(* A handled error hands the lock holder over to recovery. *)
LEMMA StageOrInstallFailsStep ==
  ASSUME SingleRotator, Inv, NEW p \in Procs, StageOrInstallFails(p)
  PROVE  Inv'
<1>1. TypeOK'
  BY DEF Inv, TypeOK, Listed, StageOrInstallFails, EnterRecovery, Holding
<1>2. LockInv'
  BY DEF Inv, TypeOK, LockInv, Holding, StageOrInstallFails, EnterRecovery
<1>3. DiskInv'
  BY DEF Inv, DiskInv, StageOrInstallFails, EnterRecovery
<1>4. StartInv'
  BY DEF Inv, StartInv, Listed, StageOrInstallFails, EnterRecovery
<1>5. LoopInv'
  BY DEF Inv, DiskInv, LoopInv, FilesInv, StageInv, InstallInv, RecoverInv,
     RollbackInv, DiscardInv, Listed, StageOrInstallFails, EnterRecovery
<1>6. SuccessMeansResealed'
  BY DEF Inv, SuccessMeansResealed, StageOrInstallFails, EnterRecovery
<1> QED BY <1>1, <1>2, <1>3, <1>4, <1>5, <1>6 DEF Inv, LoopInv

(* The second rename of an install fails, and the original moves back. *)
LEMMA InstallUndoStep ==
  ASSUME SingleRotator, Inv, NEW p \in Procs, InstallUndo(p)
  PROVE  Inv'
<1>1. TypeOK'
  BY DEF Inv, TypeOK, Listed, InstallUndo, EnterRecovery, Holding
<1>2. LockInv'
  BY DEF Inv, TypeOK, LockInv, Holding, InstallUndo, EnterRecovery
<1>3. DiskInv'
  BY DEF Inv, TypeOK, DiskInv, InstallInv, InstallUndo, EnterRecovery
<1>4. StartInv'
  BY DEF Inv, StartInv, Listed, InstallUndo, EnterRecovery
<1>5. LoopInv'
  BY DEF Inv, DiskInv, LoopInv, FilesInv, StageInv, InstallInv, RecoverInv,
     RollbackInv, DiscardInv, Listed, InstallUndo, EnterRecovery
<1>6. SuccessMeansResealed'
  BY DEF Inv, LockInv, SuccessMeansResealed, SingleRotator, InstallUndo,
     EnterRecovery
<1> QED BY <1>1, <1>2, <1>3, <1>4, <1>5, <1>6 DEF Inv, LoopInv

(* The command rebuilds the manifest. *)
LEMMA ManifestStep ==
  ASSUME SingleRotator, Inv, NEW p \in Procs, Manifest(p)
  PROVE  Inv'
<1>1. TypeOK'
  BY DEF Inv, TypeOK, Manifest, RebuildManifest
<1>2. LockInv'
  BY DEF Inv, TypeOK, LockInv, Holding, Manifest, RebuildManifest
<1>3. DiskInv'
  BY DEF Inv, DiskInv, Manifest
<1>4. StartInv'
  BY DEF Inv, StartInv, Listed, Manifest
<1>5. LoopInv'
  BY DEF Inv, LoopInv, FilesInv, StageInv, InstallInv, RecoverInv,
     RollbackInv, DiscardInv, InstalledRecord, Manifest
<1>6. SuccessMeansResealed'
  BY DEF Inv, SuccessMeansResealed, Manifest
<1> QED BY <1>1, <1>2, <1>3, <1>4, <1>5, <1>6 DEF Inv, LoopInv

(* The command's rebuild fails: the entries are rolled back. *)
LEMMA ManifestFailsStep ==
  ASSUME SingleRotator, Inv, NEW p \in Procs, ManifestFails(p)
  PROVE  Inv'
<1>1. TypeOK'
  BY DEF Inv, TypeOK, Listed, ManifestFails, ManifestFailed, RebuildManifest,
     Holding
<1>2. LockInv'
  BY DEF Inv, TypeOK, LockInv, Holding, ManifestFails, ManifestFailed,
     RebuildManifest
<1>3. DiskInv'
  BY DEF Inv, DiskInv, ManifestFails, ManifestFailed
<1>4. StartInv'
  BY DEF Inv, StartInv, Listed, ManifestFails, ManifestFailed
<1>5. LoopInv'
  BY DEF Inv, DiskInv, LoopInv, FilesInv, StageInv, InstallInv, RecoverInv,
     RollbackInv, DiscardInv, Listed, ManifestFails, ManifestFailed
<1>6. SuccessMeansResealed'
  BY DEF Inv, SuccessMeansResealed, ManifestFails, ManifestFailed
<1> QED BY <1>1, <1>2, <1>3, <1>4, <1>5, <1>6 DEF Inv, LoopInv

(* Every installed file is the replacement its record names. *)
LEMMA VerifyStep ==
  ASSUME SingleRotator, Inv, NEW p \in Procs, Verify(p)
  PROVE  Inv'
<1>1. TypeOK'
  BY DEF Inv, TypeOK, Listed, Verify
<1>2. LockInv'
  BY DEF Inv, TypeOK, LockInv, Holding, Verify, Installed
<1>3. DiskInv'
  BY DEF Inv, DiskInv, Verify
<1>4. StartInv'
  BY DEF Inv, StartInv, Listed, Verify
<1>5. LoopInv'
  BY DEF Inv, TypeOK, DiskInv, LoopInv, FilesInv, StageInv, InstallInv,
     RecoverInv, RollbackInv, DiscardInv, Listed, Verify
<1>6. SuccessMeansResealed'
  BY DEF Inv, SuccessMeansResealed, Verify
<1> QED BY <1>1, <1>2, <1>3, <1>4, <1>5, <1>6 DEF Inv, LoopInv

(* A crash at any point leaves the files as they are and frees the lock. *)
LEMMA CrashStep ==
  ASSUME SingleRotator, Inv, NEW p \in Procs, Crash(p)
  PROVE  Inv'
<1>1. TypeOK'
  BY DEF Inv, TypeOK, Crash, Release, Resting
<1>2. LockInv'
  BY DEF Inv, TypeOK, LockInv, Holding, Crash, Release
<1>3. DiskInv'
  BY DEF Inv, DiskInv, Crash, Release
<1>4. StartInv'
  BY DEF Inv, TypeOK, StartInv, Listed, Crash, Release
<1>5. LoopInv'
  BY DEF Inv, TypeOK, LockInv, LoopInv, FilesInv, StageInv, InstallInv,
     RecoverInv, RollbackInv, DiscardInv, StagedRecord, InstalledRecord,
     Listed, Crash, Release
<1>6. SuccessMeansResealed'
  BY DEF Inv, TypeOK, SuccessMeansResealed, Crash, Release
<1> QED BY <1>1, <1>2, <1>3, <1>4, <1>5, <1>6 DEF Inv, LoopInv
-----------------------------------------------------------------------------
(* Every step of the specification preserves Inv. *)
LEMMA NextInv ==
  ASSUME SingleRotator, Inv, [Next]_vars
  PROVE  Inv'
<1>1. CASE UNCHANGED vars
  <2>1. LoopInv'
    BY <1>1 DEF Inv, LoopInv, FilesInv, StageInv, InstallInv, RecoverInv,
       RollbackInv, DiscardInv, StagedRecord, InstalledRecord, Listed, vars
  <2>2. TypeOK' /\ LockInv' /\ DiskInv' /\ StartInv' /\ SuccessMeansResealed'
    BY <1>1 DEF Inv, TypeOK, LockInv, DiskInv, StartInv, SuccessMeansResealed,
       Listed, vars
  <2> QED BY <2>1, <2>2 DEF Inv, LoopInv
<1>2. CASE Next
  <2>1. PICK p \in Procs : Outside(p) \/ Recovery(p) \/ Rollback(p)
                            \/ Rotation(p) \/ Crash(p)
    BY <1>2 DEF Next, Outside
  <2>2. CASE Outside(p)
    BY <2>2, OutsideStep
  <2>3. CASE Recovery(p)
    BY <2>3, RecoverStartStep, RecoverEntryStep, RecoverDropTempStep,
       RecoverManifestStep, RecoverManifestFailsStep,
       DiscardArtifactsStep, FinishStep
       DEF Recovery
  <2>4. CASE Rollback(p)
    BY <2>4, RollbackEntryStep, RollbackRenameStep,
       RestoreManifestStep, RollbackFinishStep
       DEF Rollback
  <2>5. CASE Rotation(p)
    BY <2>5, AcquireStep, CollectStep, WriteJournalStep,
       StageRecordStep, StageCreateStep, StageWriteStep, StageDoneStep,
       InstallMoveStep, InstallSwapStep, InstallRecordStep,
       StageOrInstallFailsStep, InstallUndoStep,
       ManifestStep, ManifestFailsStep, VerifyStep
       DEF Rotation
  <2>6. CASE Crash(p)
    BY <2>6, CrashStep
  <2> QED BY <2>1, <2>2, <2>3, <2>4, <2>5, <2>6
<1> QED BY <1>1, <1>2

(* The inductive invariant holds in every state of a rotation, of its       *)
(* crashes and of its recoveries.                                          *)
THEOREM Invariance ==
  ASSUME SingleRotator
  PROVE  Spec => []Inv
<1>1. Init => Inv
  BY InitInv
<1>2. Inv /\ [Next]_vars => Inv'
  BY NextInv
<1> QED BY <1>1, <1>2, PTL DEF Spec

(* Every variable keeps its type, and exactly the holder is in a critical  *)
(* section.                                                                *)
THEOREM TypeCorrect ==
  ASSUME SingleRotator
  PROVE  Spec => []TypeOK
<1>1. Inv => TypeOK
  BY DEF Inv
<1> QED BY <1>1, Invariance, PTL

(* No crash, error or recovery loses an entry: stage_and_install_reencrypted *)
(* and recover_locked keep its ciphertext in its file or in a journalled   *)
(* backup.                                                                 *)
THEOREM EntriesSurvive ==
  ASSUME SingleRotator
  PROVE  Spec => []NoEntryLost
<1>1. Inv => NoEntryLost
  <2> SUFFICES ASSUME Inv, NEW e \in Entries
               PROVE  \/ Holds(target[e])
                      \/ /\ target[e] = None /\ Holds(backup[e])
                         /\ journal[e] # None /\ journal[e].backup
                         /\ journal[e].digest # None
    BY DEF NoEntryLost
  <2> QED BY DEF Inv, TypeOK, DiskInv, Holds
<1> QED BY <1>1, Invariance, PTL

(* resolve_entry, recover_locked and rollback_locked never refuse.         *)
THEOREM RecoveryNeverRefuses ==
  ASSUME SingleRotator
  PROVE  Spec => []NeverRefuses
<1>1. Inv => NeverRefuses
  <2> SUFFICES ASSUME Inv PROVE NeverRefuses
    OBVIOUS
  <2>1. ~Malformed
    BY DEF Inv, DiskInv, Malformed, Listed
  <2>2. ASSUME phase = "recover", NEW e \in todo
        PROVE  ~Refuses(e)
    BY <2>2 DEF Inv, TypeOK, DiskInv, RecoverInv, Listed, Refuses,
       NeedsRestore
  <2>3. ASSUME phase = "rollback", NEW e \in todo
        PROVE  ~RollbackRefuses(e)
    BY <2>3 DEF Inv, TypeOK, DiskInv, RollbackRefuses
  <2> QED BY <2>1, <2>2, <2>3 DEF NeverRefuses
<1> QED BY <1>1, Invariance, PTL

(* Once the journal is gone, nothing else of the rotation is left.         *)
THEOREM NothingLeftOver ==
  ASSUME SingleRotator
  PROVE  Spec => []CleanAtRest
<1>1. Inv => CleanAtRest
  BY DEF Inv, TypeOK, DiskInv, CleanAtRest, JournalExists, Listed, Holds
<1> QED BY <1>1, Invariance, PTL

(* A command that reports success has resealed every entry.                *)
THEOREM SuccessResealed ==
  ASSUME SingleRotator
  PROVE  Spec => []SuccessMeansResealed
<1>1. Inv => SuccessMeansResealed
  BY DEF Inv
<1> QED BY <1>1, Invariance, PTL

(* No step drops a backup that is still needed (DiskInv before and after   *)
(* the step is all it takes).                                              *)
THEOREM BackupsOutliveNeed ==
  ASSUME SingleRotator
  PROVE  Spec => BackupOutlivesNeed
<1>1. Inv /\ Inv' => \A e \in Entries :
         backup[e] # None /\ backup'[e] = None =>
             target'[e] # None /\ target'[e].val = backup[e].val
  BY DEF Inv, DiskInv
<1> QED BY <1>1, Invariance, PTL DEF BackupOutlivesNeed
-----------------------------------------------------------------------------
(* As long as no I/O error was met nothing is rolled back, and the         *)
(* manifest is exact whenever no journal is pending.                       *)
ManifestInv ==
    /\ phase \notin {"rollback", "unjournal"}
    /\ ~JournalExists \/ phase \in {"verify", "discard"} => manifest = target

(* The number of I/O errors never falls. *)
LEMMA IoErrorsGrow ==
  ASSUME Inv, [Next]_vars
  PROVE  ioerrors \in Nat /\ ioerrors' \in {ioerrors, ioerrors + 1}
<1>0. ioerrors \in Nat BY DEF Inv, TypeOK
<1>1. CASE UNCHANGED vars
  BY <1>0, <1>1 DEF vars, counts
<1>2. CASE Next
  <2>1. PICK p \in Procs : Outside(p) \/ Recovery(p) \/ Rollback(p)
                            \/ Rotation(p) \/ Crash(p)
    BY <1>2 DEF Next, Outside
  <2>2. CASE Outside(p)
    BY <1>0, <2>2 DEF Outside, ChangeRecipients, ResolveRecipients, StartOpen,
       Opening, OpenClean, OpenPending, OpenSettled, LockTimeout, counts
  <2>3. CASE Recovery(p)
    BY <1>0, <2>3 DEF Recovery, RecoverStart, RecoverEntry, RecoverDropTemp,
       RecoverManifest, RecoverManifestFails, ManifestFailed, Finish,
       DiscardArtifacts, counts
  <2>4. CASE Rollback(p)
    BY <1>0, <2>4 DEF Rollback, RollbackEntry, RollbackRename, RestoreManifest,
       RollbackFinish, counts
  <2>5. CASE Rotation(p)
    BY <1>0, <2>5 DEF Rotation, Acquire, Collect, WriteJournal, StageRecord,
       StageCreate, StageWrite, StageDone, InstallMove, InstallSwap,
       InstallRecord, StageOrInstallFails, InstallUndo, Manifest,
       ManifestFails, ManifestFailed, Verify, counts
  <2>6. CASE Crash(p)
    BY <1>0, <2>6 DEF Crash
  <2> QED BY <1>0, <2>1, <2>2, <2>3, <2>4, <2>5, <2>6
<1> QED BY <1>0, <1>1, <1>2

(* A step that keeps the manifest exact touches both files or neither, or  *)
(* leaves a journal behind.                                                *)
LEMMA NextManifestInv ==
  ASSUME SingleRotator, ioerrors' = 0, Inv, ManifestInv, [Next]_vars
  PROVE  ManifestInv'
<1> USE DEF ManifestInv, JournalExists, Listed
<1>1. CASE UNCHANGED vars
  BY <1>1 DEF vars
<1>2. CASE Next
  <2>1. PICK p \in Procs : Outside(p) \/ Recovery(p) \/ Rollback(p)
                            \/ Rotation(p) \/ Crash(p)
    BY <1>2 DEF Next, Outside
  <2>2. ioerrors' # ioerrors + 1
    BY DEF Inv, TypeOK
  <2>3. CASE Outside(p)
    BY <2>3 DEF Outside, ChangeRecipients, ResolveRecipients, StartOpen,
       Opening, OpenClean, OpenPending, OpenSettled, LockTimeout
  <2>4. CASE \E e \in Entries : RecoverEntry(p, e)
    BY <2>4 DEF RecoverEntry, Inv, TypeOK, DiskInv, NeedsRestore
  <2>5. CASE \/ RecoverStart(p) \/ RecoverDropTemp(p)
             \/ RecoverManifest(p) \/ Finish(p)
             \/ \E e \in Entries : DiscardArtifacts(p, e)
    BY <2>5 DEF RecoverStart, RecoverDropTemp,
       RecoverManifest, RebuildManifest, Finish, DiscardArtifacts, Release
  <2>6. ~RecoverManifestFails(p) /\ ~ManifestFails(p)
    BY <2>2 DEF RecoverManifestFails, ManifestFails, ManifestFailed
  <2>7. ~Rollback(p)
    BY DEF Rollback, RollbackEntry, RollbackRename,
       RestoreManifest, RollbackFinish
  <2>8. CASE \E e \in Entries : InstallMove(p, e)
    <3>1. PICK e \in Entries : InstallMove(p, e)
      BY <2>8
    <3>2. journal[e] = StagedRecord(e) /\ files[e] \in Cipher
      BY <3>1 DEF Inv, TypeOK, FilesInv, InstallInv, InstallMove
    <3> QED BY <3>1, <3>2, RecordForms DEF InstallMove
  <2>9. CASE InstallSwap(p)
    <3>1. cur \in Entries /\ journal[cur] = StagedRecord(cur)
          /\ files[cur] \in Cipher
      BY <2>9 DEF Inv, TypeOK, FilesInv, InstallInv, InstallSwap
    <3> QED BY <2>9, <3>1, RecordForms DEF InstallSwap
  <2>10. CASE InstallRecord(p)
    <3>1. cur \in Entries /\ journal[cur] = StagedRecord(cur)
          /\ files[cur] \in Cipher
      BY <2>10 DEF Inv, TypeOK, FilesInv, InstallInv, InstallRecord
    <3>2. journal'[cur] = InstalledRecord(cur)
      BY <2>10, <3>1, RecordInstalled DEF Inv, TypeOK
    <3> QED BY <2>10, <3>1, <3>2, RecordForms DEF InstallRecord
  <2>11. CASE \/ Acquire(p) \/ Collect(p)
              \/ WriteJournal(p)
    BY <2>11 DEF Acquire, Collect, WriteJournal, Inv,
       StartInv
  <2>12. CASE \E e \in Entries : StageRecord(p, e)
    <3>1. PICK e \in Entries : StageRecord(p, e)
      BY <2>12
    <3>2. journal'[e] = StagedRecord(e) /\ files[e] \in Cipher
      BY <3>1 DEF Inv, TypeOK, FilesInv, StageRecord, StagedRecord
    <3> QED BY <3>1, <3>2, RecordForms DEF StageRecord
  <2>13. CASE StageCreate(p) \/ StageWrite(p) \/ StageDone(p)
    BY <2>13 DEF StageCreate, StageWrite, StageDone
  <2>14. CASE InstallUndo(p) \/ StageOrInstallFails(p)
    BY <2>2, <2>14 DEF InstallUndo, StageOrInstallFails
  <2>15. CASE Manifest(p) \/ Verify(p)
    BY <2>15 DEF Manifest, RebuildManifest, Verify
  <2>16. CASE Crash(p)
    BY <2>16 DEF Crash, Release
  <2> QED
    BY <2>1, <2>3, <2>4, <2>5, <2>6, <2>7, <2>8, <2>9, <2>10, <2>11, <2>12,
       <2>13, <2>14, <2>15, <2>16 DEF Recovery, Rotation
<1> QED BY <1>1, <1>2

(* rebuild_manifest_with_budget leaves the manifest exact, through every   *)
(* crash, as long as nothing has failed.                                   *)
THEOREM ManifestExact ==
  ASSUME SingleRotator
  PROVE  Spec => []ManifestAtRest
<1> DEFINE Exact == ioerrors = 0 => ManifestInv
<1>1. Init => Exact
  BY DEF Init, ManifestInv
<1>2. Inv /\ Exact /\ [Next]_vars => Exact'
  BY NextManifestInv, IoErrorsGrow
<1>3. Exact => ManifestAtRest
  BY DEF ManifestInv, ManifestAtRest
<1> QED BY <1>1, <1>2, <1>3, Invariance, PTL DEF Spec
-----------------------------------------------------------------------------
(* The refinement: only InstallSwap and RollbackEntry change what a reader *)
(* of an entry gets, and only Finish reports a success.                    *)

(* A process that has reported success rules out a pending journal and     *)
(* another rotation.                                                       *)
LEMMA OkIsQuiet ==
  ASSUME SingleRotator, Inv, NEW q \in Procs, pc[q] = "ok"
  PROVE  Listed = {} /\ \A p \in Procs : pc[p] # "cmd"
BY DEF Inv, LockInv, StartInv, SingleRotator

(* Steps that change neither a content nor a report. *)
LEMMA StutterStep ==
  ASSUME SingleRotator, Inv, Inv', NEW p \in Procs,
         \/ ResolveRecipients(p) \/ Opening(p) \/ LockTimeout(p)
         \/ (Recovery(p) /\ ~Finish(p))
         \/ RollbackRename(p) \/ RestoreManifest(p)
         \/ RollbackFinish(p)
         \/ Acquire(p) \/ Collect(p) \/ WriteJournal(p)
         \/ StageCreate(p) \/ StageWrite(p) \/ StageDone(p)
         \/ (\E e \in Entries : StageRecord(p, e))
         \/ (\E e \in Entries : InstallMove(p, e))
         \/ InstallRecord(p) \/ StageOrInstallFails(p) \/ InstallUndo(p)
         \/ Manifest(p) \/ ManifestFails(p) \/ Verify(p)
         \/ Crash(p)
  PROVE  Content' = Content /\ Reported' = Reported
<1> DEFINE SameFiles == target' = target /\ backup' = backup
<1> DEFINE SameReports == \A q \in Procs :
             (pc'[q] = "ok") = (pc[q] = "ok") /\ (pc[q] = "ok" => rcp'[q] = rcp[q])
<1>1. SameReports
  <2>1. CASE ResolveRecipients(p) \/ Opening(p) \/ LockTimeout(p) \/ Crash(p)
    BY <2>1 DEF ResolveRecipients, Opening, OpenClean, OpenPending,
       OpenSettled, LockTimeout, Crash, Release, Resting, Inv, TypeOK
  <2>2. CASE Recovery(p) /\ ~Finish(p)
    BY <2>2 DEF Recovery, RecoverStart, RecoverEntry, RecoverDropTemp,
       RecoverManifest, RecoverManifestFails, ManifestFailed,
       DiscardArtifacts, Release, Inv, TypeOK, LockInv, Holding
  <2>3. CASE \/ RollbackRename(p) \/ RestoreManifest(p)
             \/ RollbackFinish(p)
    BY <2>3 DEF RollbackRename, RestoreManifest,
       RollbackFinish, Release, Inv, TypeOK, LockInv, Holding
  <2>4. CASE \/ StageOrInstallFails(p) \/ InstallUndo(p) \/ ManifestFails(p)
    BY <2>4 DEF StageOrInstallFails, InstallUndo,
       EnterRecovery, ManifestFails, ManifestFailed, Inv, TypeOK, LockInv,
       Holding
  <2>5. CASE \/ Acquire(p) \/ Collect(p) \/ WriteJournal(p) \/ StageCreate(p)
             \/ StageWrite(p) \/ StageDone(p) \/ InstallRecord(p)
             \/ Manifest(p) \/ Verify(p)
             \/ (\E e \in Entries : StageRecord(p, e) \/ InstallMove(p, e))
    BY <2>5 DEF Acquire, Collect, WriteJournal, StageCreate, StageWrite,
       StageDone, InstallRecord, Manifest, Verify, StageRecord, InstallMove,
       Inv, TypeOK
  <2> QED BY <2>1, <2>2, <2>3, <2>4, <2>5
<1>2. Reported' = Reported
  BY <1>1 DEF Reported
<1>3. \A f \in Entries :
        (IF target'[f] # None THEN target'[f] ELSE backup'[f])
           = (IF target[f] # None THEN target[f] ELSE backup[f])
  <2>1. CASE SameFiles
    BY <2>1
  <2>2. CASE \E e \in Entries : RecoverEntry(p, e)
    BY <2>2 DEF RecoverEntry, Refuses, NeedsRestore, Inv, TypeOK
  <2>3. CASE \E e \in Entries : DiscardArtifacts(p, e)
    BY <2>3 DEF DiscardArtifacts, Inv, TypeOK, DiscardInv
  <2>4. CASE RollbackRename(p)
    BY <2>4 DEF RollbackRename, Inv, TypeOK, RollbackInv
  <2>5. CASE WriteJournal(p)
    BY <2>5 DEF WriteJournal, Inv, TypeOK, DiskInv, StartInv, Listed
  <2>6. CASE \E e \in Entries : InstallMove(p, e)
    BY <2>6 DEF InstallMove, Inv, TypeOK
  <2>7. CASE InstallUndo(p)
    BY <2>7 DEF InstallUndo, Inv, TypeOK, FilesInv, InstallInv
  <2>8. CASE \/ ResolveRecipients(p) \/ Opening(p) \/ LockTimeout(p)
             \/ RecoverStart(p) \/ RecoverDropTemp(p)
             \/ RecoverManifest(p) \/ RecoverManifestFails(p)
             \/ RestoreManifest(p) \/ RollbackFinish(p)
             \/ Crash(p)
    BY <2>1, <2>8 DEF ResolveRecipients, Opening, OpenClean, OpenPending,
       OpenSettled, LockTimeout, RecoverStart, RecoverDropTemp,
       RecoverManifest, RecoverManifestFails, ManifestFailed,
       RestoreManifest, RollbackFinish, Crash
  <2>9. CASE \/ Acquire(p) \/ Collect(p) \/ StageCreate(p) \/ StageWrite(p)
             \/ StageDone(p) \/ InstallRecord(p) \/ StageOrInstallFails(p)
             \/ Manifest(p) \/ ManifestFails(p) \/ Verify(p)
             \/ \E e \in Entries : StageRecord(p, e)
    BY <2>1, <2>9 DEF Acquire, Collect, StageCreate, StageWrite, StageDone,
       InstallRecord, StageOrInstallFails, Manifest, ManifestFails,
       ManifestFailed, Verify, StageRecord
  <2> QED
    BY <2>2, <2>3, <2>4, <2>5, <2>6, <2>7, <2>8, <2>9 DEF Recovery
<1> QED BY <1>2, <1>3 DEF Content

(* Every step of the journal is a step of Reseal, or changes nothing that  *)
(* Reseal sees.                                                            *)
LEMMA StepRefines ==
  ASSUME SingleRotator, Inv, Inv', [Next]_vars
  PROVE  [Abstract!Next]_<<Content, Reported>>
<1>1. CASE UNCHANGED vars
  BY <1>1 DEF vars, Content, Reported
<1>2. ASSUME NEW p \in Procs, InstallSwap(p)
      PROVE  Abstract!ResealOne(cur) /\ cur \in Entries
  <2>1. cur \in Entries /\ target[cur] = None /\ backup[cur] # None
        /\ target'[cur] = files[cur] /\ files[cur] # None
        /\ files[cur].val = 0 /\ backup[cur].val = 0
    BY <1>2 DEF InstallSwap, Inv, TypeOK, DiskInv, FilesInv, InstallInv
  <2>2. \A f \in Entries \ {cur} : target'[f] = target[f]
    BY <1>2 DEF InstallSwap, Inv, TypeOK
  <2>3. Content'[cur] = files[cur] /\ Content[cur] = backup[cur]
        /\ \A f \in Entries \ {cur} : Content'[f] = Content[f]
    BY <1>2, <2>1, <2>2 DEF Content, InstallSwap
  <2>4. Reported' = Reported
    BY <1>2 DEF Reported, InstallSwap
  <2>5. \A q \in Procs : Reported[q] = None
    BY <1>2, OkIsQuiet DEF Reported, InstallSwap, Inv, LockInv
  <2> QED BY <2>1, <2>3, <2>4, <2>5 DEF Abstract!ResealOne
<1>3. ASSUME NEW p \in Procs, NEW e \in Entries, RollbackEntry(p, e)
      PROVE  Abstract!ResealOne(e) \/ UNCHANGED <<Content, Reported>>
  <2>1. Reported' = Reported
    BY <1>3 DEF Reported, RollbackEntry
  <2>2. CASE ~(journal[e].backup /\ backup[e] # None)
    BY <1>3, <2>1, <2>2 DEF Content, RollbackEntry
  <2>3. CASE journal[e].backup /\ backup[e] # None
    <3>1. target'[e] = None /\ backup' = backup
          /\ \A f \in Entries \ {e} : target'[f] = target[f]
      BY <1>3, <2>3 DEF RollbackEntry, Inv, TypeOK
    <3>2. \A f \in Entries \ {e} : Content'[f] = Content[f]
      BY <3>1 DEF Content
    <3>3. Content'[e] = backup[e] /\ Content[e].val = 0 /\ backup[e].val = 0
      BY <2>3, <3>1 DEF Content, Inv, DiskInv
    <3>4. \A q \in Procs : Reported[q] = None
      BY <2>3, OkIsQuiet DEF Reported, Listed, Inv, DiskInv
    <3> QED BY <2>1, <3>2, <3>3, <3>4 DEF Abstract!ResealOne
  <2> QED BY <2>2, <2>3
<1>4. ASSUME NEW p \in Procs,
             Finish(p) \/ ChangeRecipients(p) \/ StartOpen(p)
      PROVE  Abstract!Report(p)
  <2>1. Content' = Content
    BY <1>4 DEF Content, Finish, ChangeRecipients, StartOpen
  <2>2. \A q \in Procs \ {p} : Reported'[q] = Reported[q]
    BY <1>4 DEF Reported, Finish, ChangeRecipients, StartOpen,
       Release, Inv, TypeOK
  <2>3. ASSUME Reported'[p] # None, NEW e \in Entries
        PROVE  Content[e].rcp >= Reported'[p]
    <3>1. pc'[p] = "ok" /\ Reported'[p] = rcp'[p]
      BY <2>3 DEF Reported
    <3>3. CASE Finish(p)
      <4>1. target'[e] # None /\ target'[e].rcp >= rcp'[p]
        BY <3>1, <3>3 DEF Finish, Inv, DiscardInv, SuccessMeansResealed
      <4> QED BY <3>1, <3>3, <4>1 DEF Content, Finish
    <3>4. ~ChangeRecipients(p) /\ ~StartOpen(p)
      BY <3>1 DEF ChangeRecipients, StartOpen, Inv, TypeOK
    <3> QED BY <1>4, <3>3, <3>4
  <2> QED
    BY <2>1, <2>2, <2>3 DEF Abstract!Report, Abstract!SealedFor
<1>5. CASE Next
  <2>1. PICK p \in Procs :
          ChangeRecipients(p) \/ ResolveRecipients(p) \/ StartOpen(p)
          \/ Opening(p) \/ LockTimeout(p) \/ Recovery(p) \/ Rollback(p)
          \/ Rotation(p) \/ Crash(p)
    BY <1>5 DEF Next
  <2>2. CASE \/ Finish(p) \/ ChangeRecipients(p)
             \/ StartOpen(p)
    BY <1>4, <2>2 DEF Abstract!Next
  <2>3. CASE InstallSwap(p)
    BY <1>2, <2>3 DEF Abstract!Next
  <2>4. CASE \E e \in Entries : RollbackEntry(p, e)
    BY <1>3, <2>4 DEF Abstract!Next
  <2>5. CASE ~(\/ Finish(p) \/ ChangeRecipients(p)
               \/ StartOpen(p) \/ InstallSwap(p)
               \/ \E e \in Entries : RollbackEntry(p, e))
    BY <2>1, <2>5, StutterStep DEF Rollback, Rotation
  <2> QED BY <2>2, <2>3, <2>4, <2>5
<1> QED BY <1>1, <1>5

(* Re-encryption with its journal implements resealing entries one at a    *)
(* time (reencrypt_all_entries together with recover_locked).              *)
THEOREM Refinement ==
  ASSUME SingleRotator
  PROVE  Spec => RefinesReseal
<1>1. Init => Abstract!Init
  BY DEF Init, Abstract!Init, Content, Reported, Original
<1>2. Inv /\ Inv' /\ [Next]_vars => [Abstract!Next]_<<Content, Reported>>
  BY StepRefines
<1> QED BY <1>1, <1>2, Invariance, PTL DEF Spec, RefinesReseal, Abstract!Spec
-----------------------------------------------------------------------------
(***************************************************************************)
(* Writers beside the rotation (VaultWriters).  A writer takes no lock, so *)
(* of the files nothing of Inv survives but what the holder alone decides: *)
(* the lock, the journal and the staged files.  What is left of the rest   *)
(* is about one quiet entry at a time, one that no write met while it was  *)
(* rotated: every copy of it in existence is its last version.             *)
(***************************************************************************)

(* The entries the holder has collected for rotation. *)
Collected == {e \in Entries : files[e] # None}

(* What a writer is about to do is well formed. *)
WriterInv == \A w \in Writers :
    /\ wpc[w] # "idle" => wentry[w] \in Entries
    /\ wpc[w] = "publish" => wcipher[w] \in Cipher

(* The two loops of the rotation, for every entry, raced or not. *)
StageLoop == phase = "stage" =>
    /\ backup = Absent
    /\ todo \subseteq Collected /\ (cur = None \/ cur \in todo)
    /\ \A e \in Entries :
        /\ e \notin Collected => journal[e] = None
        /\ e \in Collected \ todo => journal[e] = StagedRecord(e) /\ temp[e] = files[e]
        /\ e \in todo /\ e # cur => journal[e] # None /\ temp[e] = None
        /\ e = cur => journal[e] = StagedRecord(e) /\ temp[e] \in {None, Partial}

InstallLoop == phase = "install" =>
    /\ todo \subseteq Collected /\ (cur = None \/ cur \in todo)
    /\ \A e \in todo :
        /\ journal[e] = StagedRecord(e)
        /\ temp[e] = files[e] \/ (e = cur /\ temp[e] = None)

(* c is no file, or the last version of e, which is not deleted. *)
Current(c, e) == c # None => latest[e] # None /\ c.val = latest[e]

(* Every file of a quiet entry is current, a listed entry exists, and a    *)
(* file next to a backup is the replacement.                               *)
QuietDisk(e) ==
    /\ Current(target[e], e) /\ Current(backup[e], e) /\ Current(files[e], e)
    /\ target[e] = None /\ backup[e] = None => latest[e] = None
    /\ journal[e] # None => latest[e] # None /\ Current(journal[e].digest, e)
    /\ backup[e] # None =>
         /\ journal[e] # None /\ journal[e].backup /\ journal[e].digest # None
         /\ target[e] = None \/ target[e] = journal[e].digest

(* Where the backup of a quiet entry can be, loop by loop. *)
QuietLoop(e) ==
    /\ phase \in {"install", "rollback"} /\ e = cur => backup[e] # None
    /\ phase = "recover" /\ e \notin todo /\ backup[e] # None => target[e] # None
    /\ phase = "discard" /\ backup[e] # None => e \in todo /\ target[e] # None
    /\ phase = "rollback" /\ backup[e] # None => e \in todo \/ e = cur
    /\ phase = "unjournal" => backup[e] = None

QuietInv == \A e \in Entries : ~raced[e] => QuietDisk(e) /\ QuietLoop(e)

WInv == WTypeOK /\ WriterInv /\ LockInv /\ StartInv /\ StageLoop
        /\ InstallLoop /\ QuietInv

USE WritersAssumption

(* A step of the holder leaves the writers alone. *)
LEMMA WritersRest ==
  ASSUME WInv, TypeOK', UNCHANGED wvars
  PROVE  WTypeOK' /\ WriterInv'
BY DEF WInv, WTypeOK, WriterInv, wvars

(* The holder lists the journalled entries; one that is not listed has no    *)
(* backup.                                                                  *)
LEMMA RecoverStartBeside ==
  ASSUME SingleRotator, WInv, NEW p \in Procs,
         RecoverStart(p), UNCHANGED wvars
  PROVE  WInv'
<1>1. TypeOK'
  BY DEF WInv, WTypeOK, TypeOK, LockInv, Resting, Waiting, Holding,
     StageLoop, InstallLoop, Collected, StagedRecord, Record, Blank,
     RecoverStart, JournalExists, Listed
<1>2. LockInv'
  BY <1>1 DEF WInv, WTypeOK, TypeOK, LockInv, Holding, Resting,
     RecoverStart, JournalExists, Listed
<1>3. StartInv'
  BY <1>1 DEF WInv, WTypeOK, TypeOK, StartInv, LockInv,
     SingleRotator, Holding, Resting, RecoverStart, JournalExists, Listed
<1>4. StageLoop' /\ InstallLoop'
  BY <1>1 DEF WInv, StageLoop, InstallLoop, RecoverStart,
     JournalExists, Listed
<1>5. QuietInv'
  BY <1>1 DEF WInv, QuietInv, QuietDisk, QuietLoop, Current, wvars,
     RecoverStart, JournalExists, Listed
<1> QED BY <1>1, <1>2, <1>3, <1>4, <1>5, WritersRest DEF WInv

(* A backup goes back, or its file is the replacement. *)
LEMMA RecoverEntryBeside ==
  ASSUME SingleRotator, WInv, NEW p \in Procs, NEW x \in Entries,
         RecoverEntry(p, x), UNCHANGED wvars
  PROVE  WInv'
<1>1. TypeOK'
  BY DEF WInv, WTypeOK, TypeOK, RecoverEntry, NeedsRestore, Refuses
<1>2. LockInv'
  BY <1>1 DEF WInv, LockInv, RecoverEntry, NeedsRestore, Refuses
<1>3. StartInv'
  BY <1>1 DEF WInv, StartInv, LockInv, SingleRotator, RecoverEntry,
     NeedsRestore, Refuses, Listed
<1>4. StageLoop' /\ InstallLoop'
  BY <1>1 DEF WInv, StageLoop, InstallLoop, RecoverEntry,
     NeedsRestore, Refuses
<1>5. QuietInv'
  BY <1>1 DEF WInv, WTypeOK, TypeOK, QuietInv, QuietDisk,
     QuietLoop, Current, wvars, RecoverEntry, NeedsRestore, Refuses
<1> QED BY <1>1, <1>2, <1>3, <1>4, <1>5, WritersRest DEF WInv

(* Recovery of an entry drops its staged file. *)
LEMMA RecoverDropTempBeside ==
  ASSUME SingleRotator, WInv, NEW p \in Procs,
         RecoverDropTemp(p), UNCHANGED wvars
  PROVE  WInv'
<1>1. TypeOK'
  BY DEF WInv, WTypeOK, TypeOK, RecoverDropTemp
<1>2. LockInv'
  BY <1>1 DEF WInv, LockInv, RecoverDropTemp
<1>3. StartInv'
  BY <1>1 DEF WInv, StartInv, LockInv, SingleRotator,
     RecoverDropTemp, Listed
<1>4. StageLoop' /\ InstallLoop'
  BY <1>1 DEF WInv, StageLoop, InstallLoop, RecoverDropTemp
<1>5. QuietInv'
  BY <1>1 DEF WInv, QuietInv, QuietDisk, QuietLoop, Current, wvars,
     RecoverDropTemp
<1> QED BY <1>1, <1>2, <1>3, <1>4, <1>5, WritersRest DEF WInv

(* Every entry is settled: what has a backup has a file. *)
LEMMA RecoverManifestBeside ==
  ASSUME SingleRotator, WInv, NEW p \in Procs,
         RecoverManifest(p), UNCHANGED wvars
  PROVE  WInv'
<1>1. TypeOK'
  BY DEF WInv, WTypeOK, TypeOK, RecoverManifest, RebuildManifest,
     Listed
<1>2. LockInv'
  BY <1>1 DEF WInv, LockInv, RecoverManifest, RebuildManifest,
     Listed
<1>3. StartInv'
  BY <1>1 DEF WInv, StartInv, RecoverManifest, RebuildManifest,
     Listed
<1>4. StageLoop' /\ InstallLoop'
  BY <1>1 DEF WInv, StageLoop, InstallLoop, RecoverManifest,
     RebuildManifest, Listed
<1>5. QuietInv'
  BY <1>1 DEF WInv, QuietInv, QuietDisk, QuietLoop, Current, wvars,
     RecoverManifest, RebuildManifest, Listed
<1> QED BY <1>1, <1>2, <1>3, <1>4, <1>5, WritersRest DEF WInv

(* The manifest fails and recovery rolls the entries back. *)
LEMMA RecoverManifestFailsBeside ==
  ASSUME SingleRotator, WInv, NEW p \in Procs,
         RecoverManifestFails(p), UNCHANGED wvars
  PROVE  WInv'
<1>1. TypeOK'
  BY DEF WInv, WTypeOK, TypeOK, RecoverManifestFails,
     ManifestFailed, RebuildManifest, Listed
<1>2. LockInv'
  BY <1>1 DEF WInv, LockInv, RecoverManifestFails, ManifestFailed,
     RebuildManifest, Listed
<1>3. StartInv'
  BY <1>1 DEF WInv, StartInv, RecoverManifestFails, ManifestFailed,
     RebuildManifest, Listed
<1>4. StageLoop' /\ InstallLoop'
  BY <1>1 DEF WInv, StageLoop, InstallLoop, RecoverManifestFails,
     ManifestFailed, RebuildManifest, Listed
<1>5. QuietInv'
  BY <1>1 DEF WInv, QuietInv, QuietDisk, QuietLoop, Current, wvars,
     RecoverManifestFails, ManifestFailed, RebuildManifest, Listed
<1> QED BY <1>1, <1>2, <1>3, <1>4, <1>5, WritersRest DEF WInv

(* A backup is dropped next to its replacement. *)
LEMMA DiscardArtifactsBeside ==
  ASSUME SingleRotator, WInv, NEW p \in Procs, NEW x \in Entries,
         DiscardArtifacts(p, x), UNCHANGED wvars
  PROVE  WInv'
<1>1. TypeOK'
  BY DEF WInv, WTypeOK, TypeOK, DiscardArtifacts
<1>2. LockInv'
  BY <1>1 DEF WInv, LockInv, DiscardArtifacts
<1>3. StartInv'
  BY <1>1 DEF WInv, StartInv, LockInv, SingleRotator,
     DiscardArtifacts, Listed
<1>4. StageLoop' /\ InstallLoop'
  BY <1>1 DEF WInv, StageLoop, InstallLoop, DiscardArtifacts
<1>5. QuietInv'
  BY <1>1 DEF WInv, WTypeOK, TypeOK, QuietInv, QuietDisk,
     QuietLoop, Current, wvars, DiscardArtifacts
<1> QED BY <1>1, <1>2, <1>3, <1>4, <1>5, WritersRest DEF WInv

(* No backup is left when the journal goes. *)
LEMMA FinishBeside ==
  ASSUME SingleRotator, WInv, NEW p \in Procs,
         Finish(p), UNCHANGED wvars
  PROVE  WInv'
<1>1. TypeOK'
  BY DEF WInv, WTypeOK, TypeOK, LockInv, Resting, Waiting, Holding,
     StageLoop, InstallLoop, Collected, StagedRecord, Record, Blank, Finish,
     Release, AfterRecovery, Listed
<1>2. LockInv'
  BY <1>1 DEF WInv, WTypeOK, TypeOK, LockInv, Holding, Resting,
     Finish, Release, AfterRecovery, Listed
<1>3. StartInv'
  BY <1>1 DEF WInv, StartInv, Finish, Release, AfterRecovery,
     Listed
<1>4. StageLoop' /\ InstallLoop'
  BY <1>1 DEF WInv, StageLoop, InstallLoop, Finish, Release,
     AfterRecovery, Listed
<1>5. QuietInv'
  BY <1>1 DEF WInv, QuietInv, QuietDisk, QuietLoop, Current, wvars,
     Finish, Release, AfterRecovery, Listed
<1> QED BY <1>1, <1>2, <1>3, <1>4, <1>5, WritersRest DEF WInv

(* The replacement goes; its original is still in the backup. *)
LEMMA RollbackEntryBeside ==
  ASSUME SingleRotator, WInv, NEW p \in Procs, NEW x \in Entries,
         RollbackEntry(p, x), UNCHANGED wvars
  PROVE  WInv'
<1>1. TypeOK'
  BY DEF WInv, WTypeOK, TypeOK, RollbackEntry, RollbackRefuses
<1>2. LockInv'
  BY <1>1 DEF WInv, LockInv, RollbackEntry, RollbackRefuses
<1>3. StartInv'
  BY <1>1 DEF WInv, StartInv, LockInv, SingleRotator,
     RollbackEntry, RollbackRefuses, Listed
<1>4. StageLoop' /\ InstallLoop'
  BY <1>1 DEF WInv, StageLoop, InstallLoop, RollbackEntry,
     RollbackRefuses
<1>5. QuietInv'
  BY <1>1 DEF WInv, WTypeOK, TypeOK, QuietInv, QuietDisk,
     QuietLoop, Current, wvars, RollbackEntry, RollbackRefuses
<1> QED BY <1>1, <1>2, <1>3, <1>4, <1>5, WritersRest DEF WInv

(* The original takes its place again. *)
LEMMA RollbackRenameBeside ==
  ASSUME SingleRotator, WInv, NEW p \in Procs,
         RollbackRename(p), UNCHANGED wvars
  PROVE  WInv'
<1>1. TypeOK'
  BY DEF WInv, WTypeOK, TypeOK, RollbackRename
<1>2. LockInv'
  BY <1>1 DEF WInv, LockInv, RollbackRename
<1>3. StartInv'
  BY <1>1 DEF WInv, StartInv, LockInv, SingleRotator,
     RollbackRename, Listed
<1>4. StageLoop' /\ InstallLoop'
  BY <1>1 DEF WInv, StageLoop, InstallLoop, RollbackRename
<1>5. QuietInv'
  BY <1>1 DEF WInv, WTypeOK, TypeOK, QuietInv, QuietDisk,
     QuietLoop, Current, wvars, RollbackRename
<1> QED BY <1>1, <1>2, <1>3, <1>4, <1>5, WritersRest DEF WInv

(* The old manifest is restored. *)
LEMMA RestoreManifestBeside ==
  ASSUME SingleRotator, WInv, NEW p \in Procs,
         RestoreManifest(p), UNCHANGED wvars
  PROVE  WInv'
<1>1. TypeOK'
  BY DEF WInv, WTypeOK, TypeOK, RestoreManifest
<1>2. LockInv'
  BY <1>1 DEF WInv, LockInv, RestoreManifest
<1>3. StartInv'
  BY <1>1 DEF WInv, StartInv, LockInv, SingleRotator,
     RestoreManifest, Listed
<1>4. StageLoop' /\ InstallLoop'
  BY <1>1 DEF WInv, StageLoop, InstallLoop, RestoreManifest
<1>5. QuietInv'
  BY <1>1 DEF WInv, QuietInv, QuietDisk, QuietLoop, Current, wvars,
     RestoreManifest
<1> QED BY <1>1, <1>2, <1>3, <1>4, <1>5, WritersRest DEF WInv

(* Every backup is back in its place when the journal goes. *)
LEMMA RollbackFinishBeside ==
  ASSUME SingleRotator, WInv, NEW p \in Procs,
         RollbackFinish(p), UNCHANGED wvars
  PROVE  WInv'
<1>1. TypeOK'
  BY DEF WInv, WTypeOK, TypeOK, LockInv, Resting, Waiting, Holding,
     StageLoop, InstallLoop, Collected, StagedRecord, Record, Blank,
     RollbackFinish, Release, Listed
<1>2. LockInv'
  BY <1>1 DEF WInv, WTypeOK, TypeOK, LockInv, Holding, Resting,
     RollbackFinish, Release, Listed
<1>3. StartInv'
  BY <1>1 DEF WInv, StartInv, RollbackFinish, Release, Listed
<1>4. StageLoop' /\ InstallLoop'
  BY <1>1 DEF WInv, StageLoop, InstallLoop, RollbackFinish,
     Release, Listed
<1>5. QuietInv'
  BY <1>1 DEF WInv, QuietInv, QuietDisk, QuietLoop, Current, wvars,
     RollbackFinish, Release, Listed
<1> QED BY <1>1, <1>2, <1>3, <1>4, <1>5, WritersRest DEF WInv

(* The command takes the lock of a vault without a journal. *)
LEMMA AcquireBeside ==
  ASSUME SingleRotator, WInv, NEW p \in Procs,
         Acquire(p), UNCHANGED wvars
  PROVE  WInv'
<1>1. TypeOK'
  BY DEF WInv, WTypeOK, TypeOK, LockInv, Resting, Waiting, Holding,
     StageLoop, InstallLoop, Collected, StagedRecord, Record, Blank,
     Acquire, Listed
<1>2. LockInv'
  BY <1>1 DEF WInv, WTypeOK, TypeOK, LockInv, Holding, Resting,
     Acquire, Listed
<1>3. StartInv'
  BY <1>1 DEF WInv, StartInv, Acquire, Listed
<1>4. StageLoop' /\ InstallLoop'
  BY <1>1 DEF WInv, StageLoop, InstallLoop, Acquire, Listed
<1>5. QuietInv'
  BY <1>1 DEF WInv, QuietInv, QuietDisk, QuietLoop, Current, wvars,
     Acquire, Listed
<1> QED BY <1>1, <1>2, <1>3, <1>4, <1>5, WritersRest DEF WInv

(* Every entry that has a file is re-encrypted from its last version. *)
LEMMA CollectBeside ==
  ASSUME SingleRotator, WInv, NEW p \in Procs,
         Collect(p), UNCHANGED wvars
  PROVE  WInv'
<1>1. TypeOK'
  BY DEF WInv, WTypeOK, TypeOK, Collect, Cipher
<1>2. LockInv'
  BY <1>1 DEF WInv, LockInv, Collect, Listed
<1>3. StartInv'
  BY <1>1 DEF WInv, StartInv, Collect, Listed
<1>4. StageLoop' /\ InstallLoop'
  BY <1>1 DEF WInv, StageLoop, InstallLoop, Collect, Listed
<1>5. QuietInv'
  BY <1>1 DEF WInv, QuietInv, QuietDisk, QuietLoop, Current, wvars,
     Collect, Listed
<1> QED BY <1>1, <1>2, <1>3, <1>4, <1>5, WritersRest DEF WInv

(* The first journal lists what was collected. *)
LEMMA WriteJournalBeside ==
  ASSUME SingleRotator, WInv, NEW p \in Procs,
         WriteJournal(p), UNCHANGED wvars
  PROVE  WInv'
<1>1. TypeOK'
  BY DEF WInv, WTypeOK, TypeOK, Record, Blank, WriteJournal, Listed
<1>2. LockInv'
  BY <1>1 DEF WInv, LockInv, WriteJournal, Listed
<1>3. StartInv'
  BY <1>1 DEF WInv, StartInv, LockInv, SingleRotator, WriteJournal,
     Listed
<1>4. StageLoop' /\ InstallLoop'
  <2>1. /\ phase' = "stage" /\ cur' = None /\ temp' = Absent /\ backup' = Absent
        /\ UNCHANGED files /\ todo' = Collected
        /\ journal' = [e \in Entries |-> IF files[e] = None THEN None ELSE Blank]
    BY DEF WInv, LockInv, WriteJournal, Collected
  <2> QED
    BY <2>1, BlankForm, ZenonT(30) DEF StageLoop, InstallLoop, Collected
<1>5. QuietInv'
  <2> SUFFICES ASSUME NEW e \in Entries, ~raced[e]
               PROVE  QuietDisk(e)' /\ QuietLoop(e)'
    BY DEF QuietInv, wvars
  <2>1. /\ QuietDisk(e) /\ journal[e] = None
        /\ UNCHANGED <<latest, target, files>>
        /\ phase' = "stage" /\ backup'[e] = None
        /\ journal'[e] = IF files[e] = None THEN None ELSE Blank
    BY DEF WInv, StartInv, Listed, QuietInv, WriteJournal, wvars
  <2> QED
    BY <2>1, BlankForm DEF QuietDisk, QuietLoop, Current
<1> QED BY <1>1, <1>2, <1>3, <1>4, <1>5, WritersRest DEF WInv

(* The journal owns the artefacts of an entry. *)
LEMMA StageRecordBeside ==
  ASSUME SingleRotator, WInv, NEW p \in Procs, NEW x \in Entries,
         StageRecord(p, x), UNCHANGED wvars
  PROVE  WInv'
<1>1. TypeOK'
  BY DEF WInv, WTypeOK, TypeOK, Record, Blank, StageRecord, Listed
<1>2. LockInv'
  BY <1>1 DEF WInv, LockInv, StageRecord, Listed
<1>3. StartInv'
  BY <1>1 DEF WInv, StartInv, LockInv, SingleRotator, StageRecord,
     Listed
<1>4. StageLoop' /\ InstallLoop'
  <2>1. /\ files[x] \in Cipher /\ StagedRecord(x) # None
        /\ StagedRecord(x)' = StagedRecord(x)
    <3>1. files[x] \in Cipher
      BY DEF WInv, WTypeOK, TypeOK, StageLoop, Collected, StageRecord
    <3>2. StagedRecord(x)' = StagedRecord(x)
      BY DEF StagedRecord, StageRecord
    <3> QED BY <3>1, <3>2, RecordForms
  <2>2. /\ journal' = [journal EXCEPT ![x] = StagedRecord(x)]
        /\ cur' = x /\ cur = None /\ x \in todo /\ phase = "stage"
        /\ UNCHANGED <<temp, backup, todo, files, phase>>
    BY DEF StageRecord, StagedRecord
  <2>3. /\ Collected' = Collected /\ todo \subseteq Collected
        /\ x \in Collected /\ backup = Absent /\ temp[x] = None
    BY <2>2 DEF WInv, StageLoop, Collected
  <2>4. ASSUME NEW e \in Entries, e # x
        PROVE  journal'[e] = journal[e] /\ StagedRecord(e)' = StagedRecord(e)
    BY <2>2, <2>4 DEF WInv, WTypeOK, TypeOK, StagedRecord
  <2>5. journal'[x] = StagedRecord(x)
    BY <2>2 DEF WInv, WTypeOK, TypeOK
  <2>6. ASSUME NEW e \in Entries
        PROVE  /\ e \notin Collected' => journal'[e] = None
               /\ e \in Collected' \ todo' =>
                    journal'[e] = StagedRecord(e)' /\ temp'[e] = files'[e]
               /\ e \in todo' /\ e # cur' => journal'[e] # None /\ temp'[e] = None
               /\ e = cur' => /\ journal'[e] = StagedRecord(e)'
                               /\ temp'[e] \in {None, Partial}
    <3>1. CASE e = x
      BY <2>1, <2>2, <2>3, <2>5, <3>1
    <3>2. CASE e # x
      BY <2>2, <2>3, <2>4, <3>2 DEF WInv, StageLoop
    <3> QED BY <3>1, <3>2
  <2>7. StageLoop'
    BY <2>2, <2>3, <2>6 DEF StageLoop
  <2> QED
    BY <2>2, <2>7 DEF InstallLoop
<1>5. QuietInv'
  BY <1>1 DEF WInv, WTypeOK, TypeOK, StageLoop, InstallLoop,
     Collected, StagedRecord, QuietInv, QuietDisk, QuietLoop, Current,
     wvars, StageRecord, Listed
<1> QED BY <1>1, <1>2, <1>3, <1>4, <1>5, WritersRest DEF WInv

(* The staged file appears. *)
LEMMA StageCreateBeside ==
  ASSUME SingleRotator, WInv, NEW p \in Procs,
         StageCreate(p), UNCHANGED wvars
  PROVE  WInv'
<1>1. TypeOK'
  BY DEF WInv, WTypeOK, TypeOK, StageCreate
<1>2. LockInv'
  BY <1>1 DEF WInv, LockInv, StageCreate
<1>3. StartInv'
  BY <1>1 DEF WInv, StartInv, LockInv, SingleRotator, StageCreate,
     Listed
<1>4. StageLoop' /\ InstallLoop'
  BY <1>1 DEF WInv, StageLoop, InstallLoop, Collected,
     StagedRecord, StageCreate
<1>5. QuietInv'
  BY <1>1 DEF WInv, QuietInv, QuietDisk, QuietLoop, Current, wvars,
     StageCreate
<1> QED BY <1>1, <1>2, <1>3, <1>4, <1>5, WritersRest DEF WInv

(* The staged file is complete. *)
LEMMA StageWriteBeside ==
  ASSUME SingleRotator, WInv, NEW p \in Procs,
         StageWrite(p), UNCHANGED wvars
  PROVE  WInv'
<1>1. TypeOK'
  BY DEF WInv, WTypeOK, TypeOK, StageWrite
<1>2. LockInv'
  BY <1>1 DEF WInv, LockInv, StageWrite
<1>3. StartInv'
  BY <1>1 DEF WInv, StartInv, LockInv, SingleRotator, StageWrite,
     Listed
<1>4. StageLoop' /\ InstallLoop'
  BY <1>1 DEF WInv, WTypeOK, TypeOK, StageLoop, InstallLoop,
     Collected, StagedRecord, StageWrite
<1>5. QuietInv'
  BY <1>1 DEF WInv, QuietInv, QuietDisk, QuietLoop, Current, wvars,
     StageWrite
<1> QED BY <1>1, <1>2, <1>3, <1>4, <1>5, WritersRest DEF WInv

(* Every listed entry is staged. *)
LEMMA StageDoneBeside ==
  ASSUME SingleRotator, WInv, NEW p \in Procs,
         StageDone(p), UNCHANGED wvars
  PROVE  WInv'
<1>1. TypeOK'
  BY DEF WInv, WTypeOK, TypeOK, StageDone, Listed
<1>2. LockInv'
  BY <1>1 DEF WInv, LockInv, StageDone, Listed
<1>3. StartInv'
  BY <1>1 DEF WInv, StartInv, StageDone, Listed
<1>4. StageLoop' /\ InstallLoop'
  BY <1>1 DEF WInv, WTypeOK, TypeOK, StageLoop, InstallLoop,
     Collected, StagedRecord, StageDone, Listed
<1>5. QuietInv'
  BY <1>1 DEF WInv, QuietInv, QuietDisk, QuietLoop, Current, wvars,
     StageDone, Listed
<1> QED BY <1>1, <1>2, <1>3, <1>4, <1>5, WritersRest DEF WInv

(* The original moves to the backup the journal names. *)
LEMMA InstallMoveBeside ==
  ASSUME SingleRotator, WInv, NEW p \in Procs, NEW x \in Entries,
         InstallMove(p, x), UNCHANGED wvars
  PROVE  WInv'
<1>1. TypeOK'
  BY DEF WInv, WTypeOK, TypeOK, InstallMove
<1>2. LockInv'
  BY <1>1 DEF WInv, LockInv, InstallMove
<1>3. StartInv'
  BY <1>1 DEF WInv, StartInv, LockInv, SingleRotator, InstallMove,
     Listed
<1>4. StageLoop' /\ InstallLoop'
  BY <1>1 DEF WInv, StageLoop, InstallLoop, Collected,
     StagedRecord, InstallMove
<1>5. QuietInv'
  <2> SUFFICES ASSUME NEW e \in Entries, ~raced[e]
               PROVE  QuietDisk(e)' /\ QuietLoop(e)'
    BY DEF QuietInv, wvars
  <2>0. QuietDisk(e) /\ QuietLoop(e) /\ UNCHANGED latest
    BY DEF WInv, QuietInv, wvars
  <2>1. CASE e = x
    <3>1. /\ journal[e] = StagedRecord(e) /\ files[e] \in Cipher
          /\ target[e] # None /\ backup'[e] = target[e] /\ target'[e] = None
      BY <2>1 DEF WInv, WTypeOK, TypeOK, InstallLoop, Collected, InstallMove
    <3>2. /\ journal[e] # None /\ journal[e].backup
          /\ journal[e].digest = files[e] /\ files[e] # None
      BY <3>1, RecordForms DEF StagedRecord
    <3> QED
      BY <2>0, <2>1, <3>1, <3>2 DEF QuietDisk, QuietLoop, Current, InstallMove
  <2>2. CASE e # x
    BY <2>0, <2>2 DEF WInv, WTypeOK, TypeOK, QuietDisk, QuietLoop, Current,
       InstallMove
  <2> QED BY <2>1, <2>2
<1> QED BY <1>1, <1>2, <1>3, <1>4, <1>5, WritersRest DEF WInv

(* The replacement takes its place. *)
LEMMA InstallSwapBeside ==
  ASSUME SingleRotator, WInv, NEW p \in Procs,
         InstallSwap(p), UNCHANGED wvars
  PROVE  WInv'
<1>1. TypeOK'
  <2>1. cur \in Entries /\ temp[cur] \in Cipher
    BY DEF WInv, WTypeOK, TypeOK, InstallLoop, Collected, InstallSwap
  <2>2. /\ target' \in [Entries -> Cipher \cup {None}]
        /\ temp' \in [Entries -> Cipher \cup {None, Partial}]
    BY <2>1 DEF WInv, WTypeOK, TypeOK, InstallSwap
  <2> QED
    BY <2>2 DEF WInv, WTypeOK, TypeOK, InstallSwap
<1>2. LockInv'
  BY <1>1 DEF WInv, LockInv, InstallSwap
<1>3. StartInv'
  BY <1>1 DEF WInv, StartInv, LockInv, SingleRotator, InstallSwap,
     Listed
<1>4. StageLoop' /\ InstallLoop'
  BY <1>1 DEF WInv, StageLoop, InstallLoop, Collected,
     StagedRecord, InstallSwap
<1>5. QuietInv'
  <2> SUFFICES ASSUME NEW e \in Entries, ~raced[e]
               PROVE  QuietDisk(e)' /\ QuietLoop(e)'
    BY DEF QuietInv, wvars
  <2>0. QuietDisk(e) /\ QuietLoop(e) /\ UNCHANGED latest
    BY DEF WInv, QuietInv, wvars
  <2>1. CASE e = cur
    <3>1. /\ journal[e] = StagedRecord(e) /\ files[e] \in Cipher
          /\ target'[e] = files[e] /\ backup[e] # None
      BY <2>0, <2>1 DEF WInv, WTypeOK, TypeOK, InstallLoop, QuietLoop,
         Collected, InstallSwap
    <3>2. /\ journal[e] # None /\ journal[e].backup
          /\ journal[e].digest = files[e] /\ files[e] # None
      BY <3>1, RecordForms DEF StagedRecord
    <3> QED
      BY <2>0, <3>1, <3>2 DEF QuietDisk, QuietLoop, Current, InstallSwap
  <2>2. CASE e # cur
    BY <2>0, <2>2 DEF WInv, WTypeOK, TypeOK, QuietDisk, QuietLoop, Current,
       InstallSwap
  <2> QED BY <2>1, <2>2
<1> QED BY <1>1, <1>2, <1>3, <1>4, <1>5, WritersRest DEF WInv

(* The journal says so. *)
LEMMA InstallRecordBeside ==
  ASSUME SingleRotator, WInv, NEW p \in Procs,
         InstallRecord(p), UNCHANGED wvars
  PROVE  WInv'
<1>0. /\ cur \in Entries /\ files[cur] \in Cipher
      /\ journal[cur] = StagedRecord(cur)
      /\ InstalledRecord(cur) \in Record /\ InstalledRecord(cur) # None
      /\ journal' = [journal EXCEPT ![cur] = InstalledRecord(cur)]
  <2>1. /\ cur \in Entries /\ files[cur] \in Cipher
        /\ journal[cur] = StagedRecord(cur)
    BY DEF WInv, WTypeOK, TypeOK, InstallLoop, Collected, InstallRecord
  <2> QED BY <2>1, RecordForms, RecordInstalled
<1>1. TypeOK'
  BY <1>0 DEF WInv, WTypeOK, TypeOK, InstallRecord
<1>2. LockInv'
  BY <1>1 DEF WInv, LockInv, InstallRecord, Listed
<1>3. StartInv'
  BY <1>1 DEF WInv, StartInv, LockInv, SingleRotator,
     InstallRecord, Listed
<1>4. StageLoop' /\ InstallLoop'
  BY <1>1 DEF WInv, StageLoop, InstallLoop, Collected,
     StagedRecord, InstallRecord, Listed
<1>5. QuietInv'
  <2> SUFFICES ASSUME NEW e \in Entries, ~raced[e]
               PROVE  QuietDisk(e)' /\ QuietLoop(e)'
    BY DEF QuietInv, wvars
  <2>0. QuietDisk(e) /\ QuietLoop(e) /\ UNCHANGED <<latest, target, backup, files>>
    BY DEF WInv, QuietInv, InstallRecord, wvars
  <2>1. CASE e = cur
    <3>1. /\ journal'[e] = InstalledRecord(e)
          /\ journal'[e].backup = TRUE /\ journal'[e].digest = files[e]
          /\ journal[e].digest = files[e] /\ journal[e] # None
      BY <1>0, <2>1, RecordForms DEF WInv, WTypeOK, TypeOK, StagedRecord,
         InstalledRecord
    <3> QED
      BY <1>0, <2>0, <2>1, <3>1 DEF QuietDisk, QuietLoop, Current, InstallRecord
  <2>2. CASE e # cur
    <3>1. journal'[e] = journal[e]
      BY <1>0, <2>2 DEF WInv, WTypeOK, TypeOK
    <3> QED
      BY <2>0, <2>2, <3>1 DEF QuietDisk, QuietLoop, Current, InstallRecord
  <2> QED BY <2>1, <2>2
<1> QED BY <1>1, <1>2, <1>3, <1>4, <1>5, WritersRest DEF WInv

(* A failure of either loop is recovered from. *)
LEMMA StageOrInstallFailsBeside ==
  ASSUME SingleRotator, WInv, NEW p \in Procs,
         StageOrInstallFails(p), UNCHANGED wvars
  PROVE  WInv'
<1>1. TypeOK'
  BY DEF WInv, WTypeOK, TypeOK, LockInv, Resting, Waiting, Holding,
     StageLoop, InstallLoop, Collected, StagedRecord, Record, Blank,
     StageOrInstallFails, EnterRecovery, Listed
<1>2. LockInv'
  BY <1>1 DEF WInv, WTypeOK, TypeOK, LockInv, Holding, Resting,
     StageOrInstallFails, EnterRecovery, Listed
<1>3. StartInv'
  BY <1>1 DEF WInv, StartInv, StageOrInstallFails, EnterRecovery,
     Listed
<1>4. StageLoop' /\ InstallLoop'
  BY <1>1 DEF WInv, StageLoop, InstallLoop, StageOrInstallFails,
     EnterRecovery, Listed
<1>5. QuietInv'
  BY <1>1 DEF WInv, QuietInv, QuietDisk, QuietLoop, Current, wvars,
     StageOrInstallFails, EnterRecovery, Listed
<1> QED BY <1>1, <1>2, <1>3, <1>4, <1>5, WritersRest DEF WInv

(* The original is put back first. *)
LEMMA InstallUndoBeside ==
  ASSUME SingleRotator, WInv, NEW p \in Procs,
         InstallUndo(p), UNCHANGED wvars
  PROVE  WInv'
<1>1. TypeOK'
  BY DEF WInv, WTypeOK, TypeOK, LockInv, Resting, Waiting, Holding,
     StageLoop, InstallLoop, Collected, StagedRecord, Record, Blank,
     InstallUndo, EnterRecovery, Listed
<1>2. LockInv'
  BY <1>1 DEF WInv, WTypeOK, TypeOK, LockInv, Holding, Resting,
     InstallUndo, EnterRecovery, Listed
<1>3. StartInv'
  BY <1>1 DEF WInv, StartInv, InstallUndo, EnterRecovery, Listed
<1>4. StageLoop' /\ InstallLoop'
  BY <1>1 DEF WInv, StageLoop, InstallLoop, InstallUndo,
     EnterRecovery, Listed
<1>5. QuietInv'
  BY <1>1 DEF WInv, WTypeOK, TypeOK, QuietInv, QuietDisk,
     QuietLoop, Current, wvars, InstallUndo, EnterRecovery, Listed
<1> QED BY <1>1, <1>2, <1>3, <1>4, <1>5, WritersRest DEF WInv

(* The manifest is rebuilt. *)
LEMMA ManifestBeside ==
  ASSUME SingleRotator, WInv, NEW p \in Procs,
         Manifest(p), UNCHANGED wvars
  PROVE  WInv'
<1>1. TypeOK'
  BY DEF WInv, WTypeOK, TypeOK, Manifest, RebuildManifest
<1>2. LockInv'
  BY <1>1 DEF WInv, LockInv, Manifest, RebuildManifest
<1>3. StartInv'
  BY <1>1 DEF WInv, StartInv, LockInv, SingleRotator, Manifest,
     RebuildManifest, Listed
<1>4. StageLoop' /\ InstallLoop'
  BY <1>1 DEF WInv, StageLoop, InstallLoop, Manifest,
     RebuildManifest
<1>5. QuietInv'
  BY <1>1 DEF WInv, QuietInv, QuietDisk, QuietLoop, Current, wvars,
     Manifest, RebuildManifest
<1> QED BY <1>1, <1>2, <1>3, <1>4, <1>5, WritersRest DEF WInv

(* The manifest fails: roll back. *)
LEMMA ManifestFailsBeside ==
  ASSUME SingleRotator, WInv, NEW p \in Procs,
         ManifestFails(p), UNCHANGED wvars
  PROVE  WInv'
<1>1. TypeOK'
  BY DEF WInv, WTypeOK, TypeOK, LockInv, Resting, Waiting, Holding,
     StageLoop, InstallLoop, Collected, StagedRecord, Record, Blank,
     ManifestFails, ManifestFailed, RebuildManifest, Listed
<1>2. LockInv'
  BY <1>1 DEF WInv, LockInv, Holding, Resting, ManifestFails,
     ManifestFailed, RebuildManifest, Listed
<1>3. StartInv'
  BY <1>1 DEF WInv, StartInv, ManifestFails, ManifestFailed,
     RebuildManifest, Listed
<1>4. StageLoop' /\ InstallLoop'
  BY <1>1 DEF WInv, StageLoop, InstallLoop, ManifestFails,
     ManifestFailed, RebuildManifest, Listed
<1>5. QuietInv'
  BY <1>1 DEF WInv, QuietInv, QuietDisk, QuietLoop, Current, wvars,
     ManifestFails, ManifestFailed, RebuildManifest, Listed
<1> QED BY <1>1, <1>2, <1>3, <1>4, <1>5, WritersRest DEF WInv

(* Verification has compared every file with its digest. *)
LEMMA VerifyBeside ==
  ASSUME SingleRotator, WInv, NEW p \in Procs,
         Verify(p), UNCHANGED wvars
  PROVE  WInv'
<1>1. TypeOK'
  BY DEF WInv, WTypeOK, TypeOK, Verify, Installed, Listed
<1>2. LockInv'
  BY <1>1 DEF WInv, LockInv, Verify, Installed, Listed
<1>3. StartInv'
  BY <1>1 DEF WInv, StartInv, Verify, Installed, Listed
<1>4. StageLoop' /\ InstallLoop'
  BY <1>1 DEF WInv, StageLoop, InstallLoop, Verify, Installed,
     Listed
<1>5. QuietInv'
  BY <1>1 DEF WInv, QuietInv, QuietDisk, QuietLoop, Current, wvars,
     Verify, Installed, Listed
<1> QED BY <1>1, <1>2, <1>3, <1>4, <1>5, WritersRest DEF WInv

(* A crash drops the lock; the files stay. *)
LEMMA CrashBeside ==
  ASSUME SingleRotator, WInv, NEW p \in Procs,
         Crash(p), UNCHANGED wvars
  PROVE  WInv'
<1>1. TypeOK'
  BY DEF WInv, WTypeOK, TypeOK, LockInv, Resting, Waiting, Holding,
     StageLoop, InstallLoop, Collected, StagedRecord, Record, Blank, Crash,
     Release
<1>2. LockInv'
  BY <1>1 DEF WInv, WTypeOK, TypeOK, LockInv, Holding, Resting,
     Crash, Release
<1>3. StartInv'
  BY <1>1 DEF WInv, WTypeOK, TypeOK, StartInv, LockInv,
     SingleRotator, Holding, Resting, Crash, Release, Listed
<1>4. StageLoop' /\ InstallLoop'
  BY <1>1 DEF WInv, StageLoop, InstallLoop, Collected,
     StagedRecord, Crash, Release
<1>5. QuietInv'
  BY <1>1 DEF WInv, QuietInv, QuietDisk, QuietLoop, Current, wvars,
     Crash, Release
<1> QED BY <1>1, <1>2, <1>3, <1>4, <1>5, WritersRest DEF WInv

(* Recovery gives up and changes no file. *)
LEMMA RecoverRefuseBeside ==
  ASSUME SingleRotator, WInv, NEW p \in Procs,
         RecoverRefuse(p)
  PROVE  WInv'
<1>1. TypeOK'
  BY DEF WInv, WTypeOK, TypeOK, LockInv, Resting, Waiting, Holding,
     StageLoop, InstallLoop, Collected, StagedRecord, Record, Blank,
     RecoverRefuse, Release
<1>2. LockInv'
  BY <1>1 DEF WInv, WTypeOK, TypeOK, LockInv, Holding, Resting,
     RecoverRefuse, Release
<1>3. StartInv'
  BY <1>1 DEF WInv, StartInv, LockInv, SingleRotator,
     RecoverRefuse, Release, Listed
<1>4. StageLoop' /\ InstallLoop'
  BY <1>1 DEF WInv, StageLoop, InstallLoop, RecoverRefuse, Release
<1>5. QuietInv'
  BY <1>1 DEF WInv, QuietInv, QuietDisk, QuietLoop, Current, wvars,
     RecoverRefuse, Release
<1> QED BY <1>1, <1>2, <1>3, <1>4, <1>5, WritersRest DEF WInv, RecoverRefuse

(* A rollback gives up; the backups and the journal stay. *)
LEMMA RollbackRefuseBeside ==
  ASSUME SingleRotator, WInv, NEW p \in Procs,
         RollbackRefuse(p)
  PROVE  WInv'
<1>1. TypeOK'
  BY DEF WInv, WTypeOK, TypeOK, LockInv, Resting, Waiting, Holding,
     StageLoop, InstallLoop, Collected, StagedRecord, Record, Blank,
     RollbackRefuse, Release
<1>2. LockInv'
  BY <1>1 DEF WInv, WTypeOK, TypeOK, LockInv, Holding, Resting,
     RollbackRefuse, Release
<1>3. StartInv'
  BY <1>1 DEF WInv, StartInv, LockInv, SingleRotator,
     RollbackRefuse, Release, Listed
<1>4. StageLoop' /\ InstallLoop'
  BY <1>1 DEF WInv, StageLoop, InstallLoop, RollbackRefuse, Release
<1>5. QuietInv'
  BY <1>1 DEF WInv, QuietInv, QuietDisk, QuietLoop, Current, wvars,
     RollbackRefuse, Release
<1> QED BY <1>1, <1>2, <1>3, <1>4, <1>5, WritersRest DEF WInv, RollbackRefuse

(* There was nothing to rotate. *)
LEMMA CollectNothingBeside ==
  ASSUME SingleRotator, WInv, NEW p \in Procs,
         CollectNothing(p)
  PROVE  WInv'
<1>1. TypeOK'
  BY DEF WInv, WTypeOK, TypeOK, LockInv, Resting, Waiting, Holding,
     StageLoop, InstallLoop, Collected, StagedRecord, Record, Blank,
     CollectNothing, Release
<1>2. LockInv'
  BY <1>1 DEF WInv, WTypeOK, TypeOK, LockInv, Holding, Resting,
     CollectNothing, Release
<1>3. StartInv'
  BY <1>1 DEF WInv, StartInv, LockInv, SingleRotator,
     CollectNothing, Release, Listed
<1>4. StageLoop' /\ InstallLoop'
  BY <1>1 DEF WInv, StageLoop, InstallLoop, CollectNothing, Release
<1>5. QuietInv'
  BY <1>1 DEF WInv, QuietInv, QuietDisk, QuietLoop, Current, wvars,
     CollectNothing, Release
<1> QED BY <1>1, <1>2, <1>3, <1>4, <1>5, WritersRest DEF WInv, CollectNothing

(* An original is gone: recovery begins. *)
LEMMA InstallMissingBeside ==
  ASSUME SingleRotator, WInv, NEW p \in Procs, NEW x \in Entries,
         InstallMissing(p, x)
  PROVE  WInv'
<1>1. TypeOK'
  BY DEF WInv, WTypeOK, TypeOK, LockInv, Resting, Waiting, Holding,
     StageLoop, InstallLoop, Collected, StagedRecord, Record, Blank,
     InstallMissing, EnterRecovery, Listed
<1>2. LockInv'
  BY <1>1 DEF WInv, WTypeOK, TypeOK, LockInv, Holding, Resting,
     InstallMissing, EnterRecovery, Listed
<1>3. StartInv'
  BY <1>1 DEF WInv, StartInv, InstallMissing, EnterRecovery, Listed
<1>4. StageLoop' /\ InstallLoop'
  BY <1>1 DEF WInv, StageLoop, InstallLoop, InstallMissing,
     EnterRecovery, Listed
<1>5. QuietInv'
  BY <1>1 DEF WInv, QuietInv, QuietDisk, QuietLoop, Current, wvars,
     InstallMissing, EnterRecovery, Listed
<1> QED BY <1>1, <1>2, <1>3, <1>4, <1>5, WritersRest DEF WInv, InstallMissing

(* Verification fails; the backups and the journal stay. *)
LEMMA VerifyFailsBeside ==
  ASSUME SingleRotator, WInv, NEW p \in Procs,
         VerifyFails(p)
  PROVE  WInv'
<1>1. TypeOK'
  BY DEF WInv, WTypeOK, TypeOK, LockInv, Resting, Waiting, Holding,
     StageLoop, InstallLoop, Collected, StagedRecord, Record, Blank,
     VerifyFails, Release
<1>2. LockInv'
  BY <1>1 DEF WInv, WTypeOK, TypeOK, LockInv, Holding, Resting,
     VerifyFails, Release
<1>3. StartInv'
  BY <1>1 DEF WInv, StartInv, VerifyFails, Release
<1>4. StageLoop' /\ InstallLoop'
  BY <1>1 DEF WInv, StageLoop, InstallLoop, VerifyFails, Release
<1>5. QuietInv'
  BY <1>1 DEF WInv, QuietInv, QuietDisk, QuietLoop, Current, wvars,
     VerifyFails, Release
<1> QED BY <1>1, <1>2, <1>3, <1>4, <1>5, WritersRest DEF WInv, VerifyFails

(* A step outside the lock moves one pc and touches no file. *)
LEMMA OutsideBeside ==
  ASSUME SingleRotator, WInv, NEW p \in Procs, Outside(p), UNCHANGED wvars
  PROVE  WInv'
<1>1. /\ UNCHANGED <<disk, lock, memory, crashes, ioerrors>>
      /\ lock # p /\ pc'[p] \notin Holding
      /\ \A q \in Procs \ {p} : pc'[q] = pc[q] /\ rcp'[q] = rcp[q]
  BY DEF WInv, WTypeOK, TypeOK, LockInv, Outside, ChangeRecipients,
     ResolveRecipients, StartOpen, Opening, OpenClean, OpenPending,
     OpenSettled, LockTimeout, Resting, Holding
<1>2. TypeOK'
  <2>1. CASE Opening(p)
    BY <2>1, SMTT(30) DEF WInv, WTypeOK, TypeOK, Opening, OpenClean,
       OpenPending, OpenSettled, Resting, Waiting
  <2>2. CASE ~Opening(p)
    BY <2>2 DEF WInv, WTypeOK, TypeOK, Outside, ChangeRecipients,
       ResolveRecipients, StartOpen, LockTimeout, Resting, Waiting
  <2> QED BY <2>1, <2>2
<1>3. pc'[p] \notin {"open", "opened", "openlock", "idle", "err"} => p \in Rotators
  BY DEF WInv, WTypeOK, TypeOK, LockInv, Outside, ChangeRecipients,
     ResolveRecipients, StartOpen, Opening, OpenClean, OpenPending,
     OpenSettled, LockTimeout
<1>4. LockInv'
  BY <1>1, <1>2, <1>3 DEF WInv, WTypeOK, TypeOK, LockInv, Holding
<1>5. pc'[p] # "ok" /\ (pc'[p] = "cmdlock" => Listed = {})
  BY DEF WInv, WTypeOK, TypeOK, Outside, ChangeRecipients, ResolveRecipients,
     StartOpen, Opening, OpenClean, OpenPending, OpenSettled, LockTimeout,
     JournalExists
<1>6. StartInv'
  BY <1>1, <1>5 DEF WInv, StartInv, Listed
<1>7. StageLoop' /\ InstallLoop'
  BY <1>1 DEF WInv, StageLoop, InstallLoop, Collected, StagedRecord
<1>8. QuietInv'
  BY <1>1 DEF WInv, QuietInv, QuietDisk, QuietLoop, Current, wvars
<1> QED BY <1>2, <1>4, <1>6, <1>7, <1>8, WritersRest DEF WInv

(* A writer that prepares, or has published, touches no entry file. *)
LEMMA WriterStep ==
  ASSUME WInv, NEW w \in Writers,
         \/ \E e \in Entries : Prepare(w, e)
         \/ UpdateManifest(w) \/ SkipManifest(w)
  PROVE  WInv'
<1>1. /\ UNCHANGED <<recipients, target, temp, backup, journal, lock, memory,
                     procs, counts, latest, raced>>
      /\ \A v \in Writers \ {w} : /\ wpc'[v] = wpc[v] /\ wentry'[v] = wentry[v]
                                  /\ wcipher'[v] = wcipher[v]
  BY DEF WInv, WTypeOK, Prepare, UpdateManifest, SkipManifest, vars
<1>2. WTypeOK' /\ WriterInv'
  <2>1. CASE \E e \in Entries : Prepare(w, e)
    <3>1. PICK e \in Entries : Prepare(w, e)
      BY <2>1
    <3>2. writes + 1 \in 0 .. MaxWrites
      BY <3>1 DEF WInv, WTypeOK, Prepare
    <3>3. [val |-> writes + 1, rcp |-> recipients, run |-> 0] \in Cipher
      BY <3>2 DEF WInv, WTypeOK, TypeOK, Cipher
    <3> QED
      BY <3>1, <3>2, <3>3 DEF WInv, WTypeOK, TypeOK, WriterInv, Prepare, vars
  <2>2. CASE UpdateManifest(w)
    BY <2>2 DEF WInv, WTypeOK, TypeOK, WriterInv, UpdateManifest
  <2>3. CASE SkipManifest(w)
    BY <2>3 DEF WInv, WTypeOK, TypeOK, WriterInv, SkipManifest, vars
  <2> QED BY <2>1, <2>2, <2>3
<1>3. LockInv' /\ StartInv'
  BY <1>1 DEF WInv, LockInv, StartInv, Listed
<1>4. StageLoop' /\ InstallLoop'
  BY <1>1 DEF WInv, StageLoop, InstallLoop, Collected, StagedRecord
<1>5. QuietInv'
  BY <1>1 DEF WInv, QuietInv, QuietDisk, QuietLoop, Current
<1> QED BY <1>2, <1>3, <1>4, <1>5 DEF WInv

(* A publication or a deletion of x, at any moment: either x is raced from *)
(* now on, or no journal lists it, and then it has no backup.              *)
LEMMA ChangeStep ==
  ASSUME WInv, NEW w \in Writers, NEW x \in Entries, NEW c \in Cipher \cup {None},
         target' = [target EXCEPT ![x] = c],
         latest' = [latest EXCEPT ![x] = IF c = None THEN None ELSE c.val],
         raced' = [raced EXCEPT ![x] = @ \/ UnderRotation(x)],
         UNCHANGED <<recipients, temp, backup, journal, manifest, lock, memory,
                     procs, counts>>,
         WTypeOK', WriterInv'
  PROVE  WInv'
<1>1. LockInv' /\ StartInv'
  BY DEF WInv, LockInv, StartInv, Listed
<1>2. StageLoop' /\ InstallLoop'
  BY DEF WInv, StageLoop, InstallLoop, Collected, StagedRecord
<1>3. QuietInv'
  <2> SUFFICES ASSUME NEW e \in Entries, ~raced'[e]
               PROVE  QuietDisk(e)' /\ QuietLoop(e)'
    BY DEF QuietInv
  <2>1. CASE e = x
    <3>1. ~raced[x] /\ files[x] = None /\ journal[x] = None
      BY <2>1, Zenon DEF WInv, WTypeOK, UnderRotation
    <3>2. QuietDisk(x) /\ backup[x] = None
      BY <3>1 DEF WInv, QuietInv, QuietDisk
    <3>3. /\ target'[x] = c /\ latest'[x] = IF c = None THEN None ELSE c.val
          /\ c # None => c.val # None
      BY DEF WInv, WTypeOK, TypeOK, Cipher
    <3>4. phase \notin {"install", "rollback"} \/ x # cur
      BY <3>1, <3>2 DEF WInv, QuietInv, QuietLoop
    <3> QED
      BY <2>1, <3>1, <3>2, <3>3, <3>4 DEF QuietDisk, QuietLoop, Current
  <2>2. CASE e # x
    <3>1. target'[e] = target[e] /\ latest'[e] = latest[e] /\ raced'[e] = raced[e]
      BY <2>2 DEF WInv, WTypeOK, TypeOK
    <3> QED
      BY <3>1 DEF WInv, QuietInv, QuietDisk, QuietLoop, Current
  <2> QED BY <2>1, <2>2
<1> QED BY <1>1, <1>2, <1>3 DEF WInv

(* replace_entry publishes without the write lock. *)
LEMMA PublishStep ==
  ASSUME WInv, NEW w \in Writers, Publish(w)
  PROVE  WInv'
<1>1. wentry[w] \in Entries /\ wcipher[w] \in Cipher
  BY DEF WInv, WriterInv, Publish
<1>2. wcipher[w].val \in Nat /\ wcipher[w] # None
  BY <1>1 DEF Cipher
<1>3. WTypeOK' /\ WriterInv'
  BY <1>1, <1>2 DEF WInv, WTypeOK, TypeOK, WriterInv, UnderRotation, Publish
<1> QED BY <1>1, <1>2, <1>3, ChangeStep DEF Publish

(* delete_entry_at unlinks without the write lock. *)
LEMMA DeleteStep ==
  ASSUME WInv, NEW w \in Writers, NEW e \in Entries, Delete(w, e)
  PROVE  WInv'
<1>1. WTypeOK' /\ WriterInv'
  BY DEF WInv, WTypeOK, TypeOK, WriterInv, UnderRotation, Delete
<1> QED BY <1>1, ChangeStep DEF Delete

(* Before the first write every entry holds its version 0. *)
LEMMA WInitInv == WInit => WInv
<1> SUFFICES ASSUME WInit PROVE WInv
  OBVIOUS
<1>1. Inv
  BY InitInv DEF WInit
<1>2. WTypeOK /\ WriterInv
  BY <1>1 DEF Inv, WInit, WTypeOK, WriterInv
<1>3. StageLoop /\ InstallLoop
  BY DEF WInit, Init, StageLoop, InstallLoop
<1>4. QuietInv
  <2> SUFFICES ASSUME NEW e \in Entries PROVE QuietDisk(e) /\ QuietLoop(e)
    BY DEF QuietInv
  <2>1. /\ target[e] = Original /\ backup[e] = None /\ files[e] = None
        /\ latest[e] = 0 /\ phase = "none" /\ 0 # None
    BY DEF WInit, Init
  <2>2. Original.val = 0 /\ Original # None
    BY DEF Original, Cipher
  <2>3. journal[e] # None /\ journal[e].digest # None => journal[e].digest.val = 0
    BY <1>1 DEF Inv, DiskInv
  <2> QED
    BY <2>1, <2>2, <2>3 DEF QuietDisk, QuietLoop, Current
<1> QED BY <1>1, <1>2, <1>3, <1>4 DEF Inv, WInv

(* WInv is inductive. *)
LEMMA WNextInv ==
  ASSUME SingleRotator, WInv, [WNext]_allvars
  PROVE  WInv'
<1>1. CASE UNCHANGED allvars
  BY <1>1 DEF WInv, WTypeOK, TypeOK, WriterInv, LockInv, StartInv, Listed,
     StageLoop, InstallLoop, Collected, StagedRecord, QuietInv, QuietDisk,
     QuietLoop, Current, allvars, vars, wvars
<1>2. ASSUME Next, UNCHANGED wvars
      PROVE  WInv'
  <2>1. PICK p \in Procs : Outside(p) \/ Recovery(p) \/ Rollback(p)
                            \/ Rotation(p) \/ Crash(p)
    BY <1>2 DEF Next, Outside
  <2>2. CASE Recovery(p)
    BY <1>2, <2>2, RecoverStartBeside, RecoverEntryBeside,
       RecoverDropTempBeside, RecoverManifestBeside,
       RecoverManifestFailsBeside, DiscardArtifactsBeside, FinishBeside
       DEF Recovery
  <2>3. CASE Rollback(p)
    BY <1>2, <2>3, RollbackEntryBeside, RollbackRenameBeside,
       RestoreManifestBeside, RollbackFinishBeside DEF Rollback
  <2>4. CASE Rotation(p)
    BY <1>2, <2>4, AcquireBeside, CollectBeside, WriteJournalBeside,
       StageRecordBeside, StageCreateBeside, StageWriteBeside,
       StageDoneBeside, InstallMoveBeside, InstallSwapBeside,
       InstallRecordBeside, StageOrInstallFailsBeside, InstallUndoBeside,
       ManifestBeside, ManifestFailsBeside, VerifyBeside DEF Rotation
  <2> QED BY <1>2, <2>1, <2>2, <2>3, <2>4, OutsideBeside, CrashBeside
<1>3. ASSUME NEW p \in Procs, Disturbed(p)
      PROVE  WInv'
  BY <1>3, RecoverRefuseBeside, RollbackRefuseBeside, CollectNothingBeside,
     VerifyFailsBeside, InstallMissingBeside DEF Disturbed
<1>4. ASSUME NEW w \in Writers,
             \/ Publish(w) \/ UpdateManifest(w) \/ SkipManifest(w)
             \/ \E e \in Entries : Prepare(w, e) \/ Delete(w, e)
      PROVE  WInv'
  BY <1>4, PublishStep, WriterStep, DeleteStep
<1> QED BY <1>1, <1>2, <1>3, <1>4 DEF WNext

(* Type correctness of the vault and of the writers beside a rotation. *)
THEOREM WritersTypeCorrect ==
  ASSUME SingleRotator
  PROVE  WSpec => []WTypeOK
<1>1. WInit => WInv
  BY WInitInv
<1>2. WInv /\ [WNext]_allvars => WInv'
  BY WNextInv
<1>3. WInv => WTypeOK
  BY DEF WInv
<1> QED BY <1>1, <1>2, <1>3, PTL DEF WSpec

(* Whatever the writers, the rotation, its crashes and its recoveries do,  *)
(* in whatever order: the last version of an entry that no write met while *)
(* the entry was being rotated is in its file, or in the backup that the   *)
(* journal names.                                                          *)
THEOREM QuietWritesHold ==
  ASSUME SingleRotator
  PROVE  WSpec => []QuietWritesSurvive
<1>1. WInit => WInv
  BY WInitInv
<1>2. WInv /\ [WNext]_allvars => WInv'
  BY WNextInv
<1>3. WInv => QuietWritesSurvive
  BY DEF WInv, QuietInv, QuietDisk, Current, QuietWritesSurvive
<1> QED BY <1>1, <1>2, <1>3, PTL DEF WSpec
=============================================================================
