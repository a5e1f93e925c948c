-------------------------- MODULE ReencryptJournal --------------------------
(***************************************************************************)
(* Crash-safe re-encryption of a vault.                                    *)
(*                                                                         *)
(* A command that changes the recipients (`recipients add/remove`,         *)
(* `device accept/revoke`, `auth rotate-passphrase`) rewrites every        *)
(* entries/*.age file for the new recipients.  It holds the vault's write  *)
(* lock, and it records what it is doing in `.reencrypt.journal`, so that  *)
(* the next Store::open can settle a rotation that crashed half way.       *)
(*                                                                         *)
(* Only the ciphertext files, the journal, the manifest and the lock are   *)
(* shared.  A step of this module is one durable change of the file        *)
(* system (a rename, a removal, a publication), so a crash may fall        *)
(* between any two of them.  Entries are processed in any order: the code  *)
(* sorts them, and rolls back in reverse order.                            *)
(*                                                                         *)
(* Here nobody but the lock holder touches the entry files.  The branches  *)
(* the code takes when it finds that somebody did (recovery or a rollback  *)
(* refuses, an original is gone, a target fails its verification) cannot   *)
(* be taken: NeverRefuses and Inv say so.  They are the actions of         *)
(* VaultWriters, which adds writers that do not take the lock.             *)
(***************************************************************************)
EXTENDS Naturals, FiniteSets

CONSTANTS
    Entries,      \* the logical entries of the vault
    Procs,        \* processes that open the vault
    Rotators,     \* those of them that run re-encrypting commands
    MaxRuns,      \* bound: re-encrypting commands started
    MaxCrashes,   \* bound: processes that die, or abort on an I/O error
    MaxIoErrors,  \* bound: I/O errors the code handles by rolling back
    GoJournal,    \* whether a crashed Go process may have left a journal
    None,         \* no file / no process / no digest
    Partial       \* a staged file whose bytes are not all written

(* A ciphertext: the version of the plaintext, the recipients it was      *)
(* sealed for (the number of changes recipients.txt had seen) and the      *)
(* encryption it came out of.  age is randomised, so two encryptions never *)
(* have the same digest, and the digest of a ciphertext is the ciphertext. *)
Cipher == [val : Nat, rcp : Nat, run : Nat]

(* A record of the journal: whether it names a staged file and a backup,   *)
(* the digest of the replacement, and whether the replacement is installed.*)
Record == [digest : Cipher \cup {None}, temp : BOOLEAN, backup : BOOLEAN,
           installed : BOOLEAN]
Blank == [digest |-> None, temp |-> FALSE, backup |-> FALSE,
          installed |-> FALSE]

ASSUME ConstantsAssumption ==
    /\ Rotators \subseteq Procs
    /\ MaxRuns \in Nat /\ MaxCrashes \in Nat /\ MaxIoErrors \in Nat
    /\ GoJournal \in BOOLEAN
    /\ None \notin Cipher /\ Partial \notin Cipher /\ None # Partial
    /\ None \notin Record /\ None \notin Entries /\ None \notin Procs

VARIABLES
    recipients,  \* how often recipients.txt has changed
    target,      \* entries/<e>.age
    temp,        \* the staged file the journal names for e
    backup,      \* the backup file the journal names for e
    journal,     \* e's record in .reencrypt.journal, None if not listed
    manifest,    \* the digest manifest.age records for e
    lock,        \* the holder of the vault's write lock
    phase,       \* what the holder is doing
    todo,        \* the entries left in the holder's current loop
    cur,         \* the entry the holder is in the middle of
    files,       \* the holder's replacement ciphertexts
    snap,        \* the holder's snapshot of the manifest
    pc,          \* where each process is
    rcp,         \* the recipients each command resolved
    run,         \* the encryption run of each command
    runs, crashes, ioerrors

disk   == <<target, temp, backup, journal, manifest>>
memory == <<phase, todo, cur, files, snap>>
procs  == <<pc, rcp, run>>
counts == <<runs, crashes, ioerrors>>
vars   == <<recipients, disk, lock, memory, procs, counts>>

Absent == [e \in Entries |-> None]
Listed == {e \in Entries : journal[e] # None}
JournalExists == Listed # {}

(* A process rests, waits for the lock or holds it. *)
Resting == {"idle", "opened", "ok", "err"}
Waiting == {"resolve", "open", "openlock", "cmdopen", "cmdopenlock", "cmdlock"}
Holding == {"openrec", "cmdopenrec", "cmd", "cmdfail"}

Original == [val |-> 0, rcp |-> 0, run |-> 0]

(* The vault before the first step: no journal, or the journal of a        *)
(* crashed Go process that staged S but had not yet journalled a backup.   *)
GoStaged == [val |-> 0, rcp |-> 0, run |-> 1]
GoRecord == [digest |-> GoStaged, temp |-> TRUE, backup |-> FALSE,
             installed |-> FALSE]

Init ==
    /\ recipients = 0
    /\ target = [e \in Entries |-> Original]
    /\ backup = Absent
    /\ \E S \in SUBSET Entries :
         /\ S # {} => GoJournal
         /\ temp = [e \in Entries |-> IF e \in S THEN GoStaged ELSE None]
         /\ journal = [e \in Entries |->
                CASE e \in S -> GoRecord
                  [] S # {} /\ e \notin S -> Blank
                  [] S = {} -> None]
    /\ manifest = target
    /\ lock = None
    /\ phase = "none" /\ todo = {} /\ cur = None
    /\ files = Absent /\ snap = Absent
    /\ pc = [p \in Procs |-> "idle"]
    /\ rcp = [p \in Procs |-> 0] /\ run = [p \in Procs |-> 0]
    /\ runs = 1 /\ crashes = 0 /\ ioerrors = 0

-----------------------------------------------------------------------------
(* Before the lock. *)

Goto(p, where) == pc' = [pc EXCEPT ![p] = where]

(* The command edits recipients.txt (rotate-passphrase leaves it alone)... *)
ChangeRecipients(p) ==
    /\ p \in Rotators /\ pc[p] \in Resting /\ runs < MaxRuns
    /\ recipients' \in {recipients, recipients + 1}
    /\ runs' = runs + 1
    /\ run' = [run EXCEPT ![p] = runs + 1]
    /\ Goto(p, "resolve")
    /\ UNCHANGED <<disk, lock, memory, rcp, crashes, ioerrors>>

(* ...then reads back whom to encrypt for... *)
ResolveRecipients(p) ==
    /\ pc[p] = "resolve"
    /\ rcp' = [rcp EXCEPT ![p] = recipients]
    /\ Goto(p, "cmdopen")
    /\ UNCHANGED <<recipients, disk, lock, memory, run, counts>>

(* Any other process just opens the vault. *)
StartOpen(p) ==
    /\ pc[p] \in Resting
    /\ Goto(p, "open")
    /\ UNCHANGED <<recipients, disk, lock, memory, rcp, run, counts>>

(* Store::open: without a journal there is nothing to recover. *)
OpenClean(p) ==
    /\ ~JournalExists
    /\ \/ pc[p] = "open" /\ Goto(p, "opened")
       \/ pc[p] = "cmdopen" /\ Goto(p, "cmdlock")
    /\ UNCHANGED <<recipients, disk, lock, memory, rcp, run, counts>>

(* Store::open: with one, wait for the write lock. *)
OpenPending(p) ==
    /\ JournalExists
    /\ \/ pc[p] = "open" /\ Goto(p, "openlock")
       \/ pc[p] = "cmdopen" /\ Goto(p, "cmdopenlock")
    /\ UNCHANGED <<recipients, disk, lock, memory, rcp, run, counts>>

(* The lock is free, and the journal was settled while p waited for it. *)
OpenSettled(p) ==
    /\ lock = None /\ ~JournalExists
    /\ \/ pc[p] = "openlock" /\ Goto(p, "opened")
       \/ pc[p] = "cmdopenlock" /\ Goto(p, "cmdlock")
    /\ UNCHANGED <<recipients, disk, lock, memory, rcp, run, counts>>

(* open_root_write_lock gives up after 30 seconds of waiting. *)
LockTimeout(p) ==
    /\ pc[p] \in {"openlock", "cmdopenlock", "cmdlock"} /\ lock # None
    /\ Goto(p, "err")
    /\ UNCHANGED <<recipients, disk, lock, memory, rcp, run, counts>>

(* p holds no lock any more and forgets what it knew. *)
Release(p, where) ==
    /\ lock' = None
    /\ phase' = "none" /\ todo' = {} /\ cur' = None
    /\ files' = Absent /\ snap' = Absent
    /\ Goto(p, where)

-----------------------------------------------------------------------------
(* Recovery of a journal (reencrypt_journal::recover_locked), run by a      *)
(* process that opens the vault or by a command whose staging failed.      *)

(* Mutant of AfterRecovery: the staging error is lost once recovery works. *)
AfterRecoverySwallowed(p) ==
    CASE pc[p] = "openrec"    -> "opened"
      [] pc[p] = "cmdopenrec" -> "cmdlock"
      [] pc[p] = "cmdfail"    -> "ok"
      [] pc[p] = "cmd"        -> "ok"

(* Where recovery takes each process that runs it: on success, and when it *)
(* has rolled back or refused.                                             *)
AfterRecovery(p) ==
    CASE pc[p] = "openrec"    -> "opened"
      [] pc[p] = "cmdopenrec" -> "cmdlock"
      [] pc[p] = "cmdfail"    -> "err"
      [] pc[p] = "cmd"        -> "ok"

(* The guard of the loops: p holds the lock and is between two entries. *)
At(p, where) == lock = p /\ phase = where

RecoverStart(p) ==
    /\ lock = None /\ JournalExists
    /\ \/ pc[p] = "openlock" /\ Goto(p, "openrec")
       \/ pc[p] = "cmdopenlock" /\ Goto(p, "cmdopenrec")
    /\ lock' = p
    /\ phase' = "recover" /\ todo' = Listed
    /\ snap' = manifest
    /\ UNCHANGED <<recipients, disk, cur, files, rcp, run, counts>>

(* The target is not the replacement, and its original sits in the backup. *)
NeedsRestore(e) ==
    /\ journal[e].digest # None /\ target[e] # journal[e].digest
    /\ journal[e].backup /\ backup[e] # None

(* resolve_entry: artefacts without a digest.  Every record is resolved    *)
(* before the first file is touched.                                       *)
Malformed == \E e \in Listed :
    journal[e].digest = None /\ (journal[e].temp \/ journal[e].backup)

(* Mutant of Refuses: a missing target is refused although its backup is   *)
(* there.                                                                  *)
RefusesMissing(e) ==
    /\ journal[e].digest # None /\ target[e] # journal[e].digest
    /\ \/ NeedsRestore(e)
       \/ backup[e] = None /\ target[e] = None
       \/ ~journal[e].backup /\ (target[e] = None \/ ~journal[e].temp)

(* What recovery does not dare to decide: a target that changed next to    *)
(* its backup, a target missing together with its backup, and a changed    *)
(* target the journal shows no staged file for.                            *)
Refuses(e) ==
    LET j == journal[e] IN
    /\ j.digest # None /\ target[e] # j.digest
    /\ \/ NeedsRestore(e) /\ target[e] # None
       \/ backup[e] = None /\ target[e] = None
       \/ ~j.backup /\ (target[e] = None \/ ~j.temp)

RecoverEntry(p, e) ==
    /\ At(p, "recover") /\ cur = None /\ e \in todo
    /\ ~Malformed /\ ~Refuses(e)
    /\ IF NeedsRestore(e)
       THEN /\ target' = [target EXCEPT ![e] = backup[e]]
            /\ backup' = [backup EXCEPT ![e] = None]
       ELSE UNCHANGED <<target, backup>>
    /\ cur' = e /\ todo' = todo \ {e}
    /\ UNCHANGED <<recipients, temp, journal, manifest, lock, phase, files,
                   snap, procs, counts>>

RecoverDropTemp(p) ==
    /\ At(p, "recover") /\ cur # None
    /\ temp' = [temp EXCEPT ![cur] = IF journal[cur].temp THEN None ELSE @]
    /\ cur' = None
    /\ UNCHANGED <<recipients, target, backup, journal, manifest, lock, phase,
                   todo, files, snap, procs, counts>>

(* rebuild_manifest_with_budget: the digest of every entry file. *)
RebuildManifest == manifest' = target

(* Mutants of RecoverManifest: it runs before every entry is resolved, or  *)
(* trusts the manifest the crashed process left.                           *)
RecoverManifestEarly(p) ==
    /\ At(p, "recover") /\ cur = None
    /\ RebuildManifest
    /\ phase' = "discard" /\ todo' = Listed
    /\ UNCHANGED <<recipients, target, temp, backup, journal, lock, cur, files,
                   snap, procs, counts>>

RecoverManifestSkipped(p) ==
    /\ At(p, "recover") /\ cur = None /\ todo = {}
    /\ phase' = "discard" /\ todo' = Listed
    /\ UNCHANGED <<recipients, disk, lock, cur, files, snap, procs, counts>>

RecoverManifest(p) ==
    /\ At(p, "recover") /\ cur = None /\ todo = {}
    /\ RebuildManifest
    /\ phase' = "discard" /\ todo' = Listed
    /\ UNCHANGED <<recipients, target, temp, backup, journal, lock, cur, files,
                   snap, procs, counts>>

(* The manifest could not be rebuilt: roll every entry back.  The error    *)
(* may also be reported after the new manifest was published.              *)
ManifestFailed(p, where) ==
    /\ ioerrors < MaxIoErrors /\ ioerrors' = ioerrors + 1
    /\ RebuildManifest \/ UNCHANGED manifest
    /\ phase' = "rollback" /\ todo' = Listed
    /\ Goto(p, where)
    /\ UNCHANGED <<recipients, target, temp, backup, journal, lock, cur, files,
                   snap, rcp, run, runs, crashes>>

RecoverManifestFails(p) ==
    /\ At(p, "recover") /\ cur = None /\ todo = {}
    /\ ManifestFailed(p, pc[p])

(* The last loop of a recovery and of a rotation: the artefacts go...      *)
DiscardArtifacts(p, e) ==
    /\ At(p, "discard") /\ e \in todo
    /\ temp' = [temp EXCEPT ![e] = IF journal[e].temp THEN None ELSE @]
    /\ backup' = [backup EXCEPT ![e] = IF journal[e].backup THEN None ELSE @]
    /\ todo' = todo \ {e}
    /\ UNCHANGED <<recipients, target, journal, manifest, lock, phase, cur,
                   files, snap, procs, counts>>

(* Mutant of Finish: the journal goes before the artefacts do. *)
FinishEarly(p) ==
    /\ At(p, "discard")
    /\ journal' = Absent
    /\ Release(p, AfterRecovery(p))
    /\ UNCHANGED <<recipients, target, temp, backup, manifest, rcp, run, counts>>

(* ...and then the journal. *)
Finish(p) ==
    /\ At(p, "discard") /\ todo = {}
    /\ journal' = Absent
    /\ Release(p, AfterRecovery(p))
    /\ UNCHANGED <<recipients, target, temp, backup, manifest, rcp, run, counts>>

-----------------------------------------------------------------------------
(* Rollback after a failed manifest (rollback_locked in recovery,          *)
(* rollback_reencrypt_journal_locked in the command).                      *)

RollbackRefuses(e) ==
    /\ journal[e].backup /\ backup[e] # None
    /\ target[e] # None /\ target[e] # journal[e].digest
    /\ journal[e].digest # None

(* The replacement is removed, and a staged file, which a rollback that    *)
(* follows a complete install or recovery does not find any more...        *)
RollbackEntry(p, e) ==
    /\ At(p, "rollback") /\ cur = None /\ e \in todo
    /\ ~RollbackRefuses(e)
    /\ temp' = [temp EXCEPT ![e] = IF journal[e].temp THEN None ELSE @]
    /\ IF journal[e].backup /\ backup[e] # None
       THEN target' = [target EXCEPT ![e] = None] /\ cur' = e
       ELSE UNCHANGED <<target, cur>>
    /\ todo' = todo \ {e}
    /\ UNCHANGED <<recipients, backup, journal, manifest, lock, phase, files,
                   snap, procs, counts>>

(* ...and the original takes its place. *)
RollbackRename(p) ==
    /\ At(p, "rollback") /\ cur # None
    /\ target' = [target EXCEPT ![cur] = backup[cur]]
    /\ backup' = [backup EXCEPT ![cur] = None]
    /\ cur' = None
    /\ UNCHANGED <<recipients, temp, journal, manifest, lock, phase, todo,
                   files, snap, procs, counts>>

RestoreManifest(p) ==
    /\ At(p, "rollback") /\ cur = None /\ todo = {}
    /\ manifest' = snap
    /\ phase' = "unjournal"
    /\ UNCHANGED <<recipients, target, temp, backup, journal, lock, todo, cur,
                   files, snap, procs, counts>>

RollbackFinish(p) ==
    /\ At(p, "unjournal")
    /\ journal' = Absent
    /\ Release(p, "err")
    /\ UNCHANGED <<recipients, target, temp, backup, manifest, rcp, run, counts>>

-----------------------------------------------------------------------------
(* The rotation itself (device::reencrypt_all_entries), under the lock.    *)

(* with_write_lock, and the manifest snapshot.  The journal is not looked  *)
(* at again here.                                                          *)
Acquire(p) ==
    /\ pc[p] = "cmdlock" /\ lock = None
    /\ lock' = p /\ Goto(p, "cmd")
    /\ phase' = "collect" /\ snap' = manifest
    /\ UNCHANGED <<recipients, disk, todo, cur, files, rcp, run, counts>>

(* collect_reencrypt_files: every entry is re-encrypted in memory.  There  *)
(* is one, or the command is done: CollectNothing of VaultWriters.         *)
Collect(p) ==
    /\ At(p, "collect") /\ target # Absent
    /\ files' = [e \in Entries |->
            IF target[e] = None THEN None
            ELSE [val |-> target[e].val, rcp |-> rcp[p], run |-> run[p]]]
    /\ phase' = "journal"
    /\ UNCHANGED <<recipients, disk, lock, todo, cur, snap, procs, counts>>

(* The first journal lists the entries and nothing else.  The run's        *)
(* artefacts get names that no file has (artifact_path), so whatever an    *)
(* older journal named is now a file that no journal names.                *)
WriteJournal(p) ==
    /\ At(p, "journal")
    /\ journal' = [e \in Entries |-> IF files[e] = None THEN None ELSE Blank]
    /\ temp' = Absent /\ backup' = Absent
    /\ phase' = "stage" /\ todo' = {e \in Entries : files[e] # None}
    /\ UNCHANGED <<recipients, target, manifest, lock, cur, files, snap, procs,
                   counts>>

(* Mutant of StageRecord: the journal does not own the backup yet. *)
StageRecordNoBackup(p, e) ==
    /\ At(p, "stage") /\ cur = None /\ e \in todo
    /\ journal' = [journal EXCEPT ![e] =
            [digest |-> files[e], temp |-> TRUE, backup |-> FALSE,
             installed |-> FALSE]]
    /\ cur' = e
    /\ UNCHANGED <<recipients, target, temp, backup, manifest, lock, phase,
                   todo, files, snap, procs, counts>>

(* stage_and_install_reencrypted, first loop: the journal owns the staged  *)
(* file and the backup before either exists...                             *)
StageRecord(p, e) ==
    /\ At(p, "stage") /\ cur = None /\ e \in todo
    /\ journal' = [journal EXCEPT ![e] =
            [digest |-> files[e], temp |-> TRUE, backup |-> TRUE,
             installed |-> FALSE]]
    /\ cur' = e
    /\ UNCHANGED <<recipients, target, temp, backup, manifest, lock, phase,
                   todo, files, snap, procs, counts>>

StageCreate(p) ==
    /\ At(p, "stage") /\ cur # None /\ temp[cur] = None
    /\ temp' = [temp EXCEPT ![cur] = Partial]
    /\ UNCHANGED <<recipients, target, backup, journal, manifest, lock, memory,
                   procs, counts>>

(* Mutant of StageWrite: the file is not complete when it is renamed. *)
StageWriteShort(p) ==
    /\ At(p, "stage") /\ cur # None /\ temp[cur] = Partial
    /\ cur' = None /\ todo' = todo \ {cur}
    /\ UNCHANGED <<recipients, disk, lock, phase, files, snap, procs, counts>>

(* ...and the second persist of the journal changes nothing. *)
StageWrite(p) ==
    /\ At(p, "stage") /\ cur # None /\ temp[cur] = Partial
    /\ temp' = [temp EXCEPT ![cur] = files[cur]]
    /\ cur' = None /\ todo' = todo \ {cur}
    /\ UNCHANGED <<recipients, target, backup, journal, manifest, lock, phase,
                   files, snap, procs, counts>>

StageDone(p) ==
    /\ At(p, "stage") /\ cur = None /\ todo = {}
    /\ phase' = "install" /\ todo' = Listed
    /\ UNCHANGED <<recipients, disk, lock, cur, files, snap, procs, counts>>

(* Second loop: the original moves to the backup, the staged file takes    *)
(* its place, the journal says so.                                         *)
InstallMove(p, e) ==
    /\ At(p, "install") /\ cur = None /\ e \in todo /\ target[e] # None
    /\ backup' = [backup EXCEPT ![e] = target[e]]
    /\ target' = [target EXCEPT ![e] = None]
    /\ cur' = e
    /\ UNCHANGED <<recipients, temp, journal, manifest, lock, phase, todo,
                   files, snap, procs, counts>>

InstallSwap(p) ==
    /\ At(p, "install") /\ cur # None /\ temp[cur] # None
    /\ target' = [target EXCEPT ![cur] = temp[cur]]
    /\ temp' = [temp EXCEPT ![cur] = None]
    /\ UNCHANGED <<recipients, backup, journal, manifest, lock, memory, procs,
                   counts>>

InstallRecord(p) ==
    /\ At(p, "install") /\ cur # None /\ temp[cur] = None
    /\ journal' = [journal EXCEPT ![cur] =
            [@ EXCEPT !.temp = FALSE, !.installed = TRUE]]
    /\ cur' = None /\ todo' = todo \ {cur}
    /\ UNCHANGED <<recipients, target, temp, backup, manifest, lock, phase,
                   files, snap, procs, counts>>

(* A failure of either loop is recovered from under the same lock. *)
EnterRecovery(p) ==
    /\ phase' = "recover" /\ todo' = Listed /\ cur' = None
    /\ snap' = manifest
    /\ Goto(p, "cmdfail")
    /\ UNCHANGED <<recipients, temp, journal, manifest, lock, files, rcp, run,
                   runs, crashes>>

StageOrInstallFails(p) ==
    /\ At(p, "stage") \/ At(p, "install")
    /\ ioerrors < MaxIoErrors /\ ioerrors' = ioerrors + 1
    /\ EnterRecovery(p)
    /\ UNCHANGED <<target, backup>>

(* Mutant of InstallUndo: the original is copied back, the backup stays. *)
InstallUndoCopies(p) ==
    /\ At(p, "install") /\ cur # None /\ temp[cur] # None
    /\ ioerrors < MaxIoErrors /\ ioerrors' = ioerrors + 1
    /\ target' = [target EXCEPT ![cur] = backup[cur]]
    /\ UNCHANGED backup
    /\ EnterRecovery(p)

(* The staged file cannot be installed: the original is put back first. *)
InstallUndo(p) ==
    /\ At(p, "install") /\ cur # None /\ temp[cur] # None
    /\ ioerrors < MaxIoErrors /\ ioerrors' = ioerrors + 1
    /\ target' = [target EXCEPT ![cur] = backup[cur]]
    /\ backup' = [backup EXCEPT ![cur] = None]
    /\ EnterRecovery(p)

Manifest(p) ==
    /\ At(p, "install") /\ cur = None /\ todo = {}
    /\ RebuildManifest
    /\ phase' = "verify"
    /\ UNCHANGED <<recipients, target, temp, backup, journal, lock, todo, cur,
                   files, snap, procs, counts>>

ManifestFails(p) ==
    /\ At(p, "install") /\ cur = None /\ todo = {}
    /\ ManifestFailed(p, "cmdfail")

(* verify_installed_targets *)
Installed(e) == journal[e].installed /\ target[e] = journal[e].digest

(* Mutant of Verify: success is reported and the next open cleans up. *)
VerifyReports(p) ==
    /\ At(p, "verify")
    /\ \A e \in Listed : Installed(e)
    /\ Release(p, "ok")
    /\ UNCHANGED <<recipients, disk, rcp, run, counts>>

Verify(p) ==
    /\ At(p, "verify")
    /\ \A e \in Listed : Installed(e)
    /\ phase' = "discard" /\ todo' = Listed
    /\ UNCHANGED <<recipients, disk, lock, cur, files, snap, procs, counts>>

-----------------------------------------------------------------------------
(* The process dies, or an I/O error makes it return with nothing undone   *)
(* (every step but the three that are handled above).  The operating       *)
(* system drops the lock; the files stay.                                  *)
Crash(p) ==
    /\ crashes < MaxCrashes /\ crashes' = crashes + 1
    /\ pc[p] \notin Resting
    /\ IF lock = p THEN Release(p, "idle")
       ELSE Goto(p, "idle") /\ UNCHANGED <<lock, memory>>
    /\ UNCHANGED <<recipients, disk, rcp, run, runs, ioerrors>>

Recovery(p) ==
    \/ RecoverStart(p) \/ RecoverDropTemp(p)
    \/ RecoverManifest(p) \/ RecoverManifestFails(p) \/ Finish(p)
    \/ \E e \in Entries : RecoverEntry(p, e) \/ DiscardArtifacts(p, e)

Rollback(p) ==
    \/ RollbackRename(p) \/ RestoreManifest(p) \/ RollbackFinish(p)
    \/ \E e \in Entries : RollbackEntry(p, e)

Rotation(p) ==
    \/ Acquire(p) \/ Collect(p) \/ WriteJournal(p)
    \/ StageCreate(p) \/ StageWrite(p) \/ StageDone(p)
    \/ InstallSwap(p) \/ InstallRecord(p) \/ StageOrInstallFails(p)
    \/ InstallUndo(p) \/ Manifest(p) \/ ManifestFails(p) \/ Verify(p)
    \/ \E e \in Entries : StageRecord(p, e) \/ InstallMove(p, e)

Opening(p) == OpenClean(p) \/ OpenPending(p) \/ OpenSettled(p)

Next == \E p \in Procs :
    \/ ChangeRecipients(p) \/ ResolveRecipients(p) \/ StartOpen(p)
    \/ Opening(p) \/ LockTimeout(p)
    \/ Recovery(p) \/ Rollback(p) \/ Rotation(p) \/ Crash(p)

Spec == Init /\ [][Next]_vars

(* The lock is granted to a process that keeps waiting for it, a process    *)
(* that runs keeps running, and somebody keeps opening the vault.          *)
Fairness == \A p \in Procs :
    /\ WF_vars(ResolveRecipients(p)) /\ WF_vars(StartOpen(p))
    /\ WF_vars(Opening(p))
    /\ SF_vars(RecoverStart(p) \/ OpenSettled(p)) /\ SF_vars(Acquire(p))
    /\ WF_vars(Recovery(p)) /\ WF_vars(Rollback(p)) /\ WF_vars(Rotation(p))

FairSpec == Spec /\ Fairness

-----------------------------------------------------------------------------
(* Types; exactly the lock holder is in a critical section. *)
TypeOK ==
    /\ recipients \in Nat /\ runs \in Nat /\ crashes \in Nat /\ ioerrors \in Nat
    /\ target \in [Entries -> Cipher \cup {None}]
    /\ temp \in [Entries -> Cipher \cup {None, Partial}]
    /\ backup \in [Entries -> Cipher \cup {None}]
    /\ manifest \in [Entries -> Cipher \cup {None}]
    /\ journal \in [Entries -> Record \cup {None}]
    /\ lock \in Procs \cup {None}
    /\ phase \in {"none", "recover", "discard", "rollback", "unjournal",
                  "collect", "journal", "stage", "install", "verify"}
    /\ todo \subseteq Entries /\ cur \in Entries \cup {None}
    /\ files \in [Entries -> Cipher \cup {None}]
    /\ snap \in [Entries -> Cipher \cup {None}]
    /\ pc \in [Procs -> Resting \cup Waiting \cup Holding]
    /\ rcp \in [Procs -> Nat] /\ run \in [Procs -> Nat]

(* c is a complete ciphertext of the plaintext the entry started with. *)
Holds(c) == c # None /\ c # Partial /\ c.val = 0

(* No crash, error or recovery, in whatever order, loses an entry: its     *)
(* ciphertext is in its file, or in the backup that the journal names, in  *)
(* which case recovery can bring it back.                                  *)
NoEntryLost == \A e \in Entries :
    \/ Holds(target[e])
    \/ /\ target[e] = None /\ Holds(backup[e])
       /\ journal[e] # None /\ journal[e].backup /\ journal[e].digest # None

(* Recovery never meets a state of the files it refuses to decide, and a   *)
(* rollback never one it refuses to undo: only I/O errors can keep a vault *)
(* with a journal from opening.                                            *)
NeverRefuses ==
    /\ ~Malformed
    /\ phase = "recover" => \A e \in todo : ~Refuses(e)
    /\ phase = "rollback" => \A e \in todo : ~RollbackRefuses(e)

(* Without a journal nothing is left over: every entry is in its file and  *)
(* no staged file or backup remains.                                       *)
CleanAtRest == ~JournalExists =>
    \A e \in Entries : Holds(target[e]) /\ temp[e] = None /\ backup[e] = None

(* When the command reports success every entry is sealed for the          *)
(* recipients the command resolved, or for later ones.                     *)
SuccessMeansResealed == \A p \in Procs : pc[p] = "ok" =>
    \A e \in Entries : target[e] # None => target[e].rcp >= rcp[p]

(* As long as no rebuild, stage or install has failed, manifest.age        *)
(* records the digest of every entry file whenever no journal is pending   *)
(* and nobody is at work, through every crash.                             *)
ManifestAtRest ==
    ioerrors = 0 /\ lock = None /\ ~JournalExists => manifest = target

(* A backup disappears only into its entry's file, or once that file holds *)
(* the same plaintext.                                                     *)
BackupOutlivesNeed == [][\A e \in Entries :
    backup[e] # None /\ backup'[e] = None =>
        target'[e] # None /\ target'[e].val = backup[e].val]_vars

(* A pending journal is settled in the end. *)
JournalSettles == JournalExists ~> ~JournalExists

-----------------------------------------------------------------------------
(* The refinement mapping: an entry's content is its file or, while there  *)
(* is none, the backup recovery restores it from.                          *)
Content == [e \in Entries |-> IF target[e] # None THEN target[e] ELSE backup[e]]
Reported == [p \in Procs |-> IF pc[p] = "ok" THEN rcp[p] ELSE None]

Abstract == INSTANCE Reseal WITH content <- Content, ok <- Reported

(* Re-encryption with its journal implements resealing one entry at a time: *)
(* no reader, at any crash point and after any recovery, is left without   *)
(* the entry's plaintext, and reported success is lasting.                 *)
RefinesReseal == Abstract!Spec

-----------------------------------------------------------------------------
(* The inductive invariant behind these properties.  It needs the journal  *)
(* to have one author: with two, the second may overwrite the journal the  *)
(* first one left behind (see the README).                                 *)
SingleRotator == \A p, q \in Rotators : p = q

(* The lock holder, and nobody else, is in a critical section. *)
LockInv ==
    /\ lock = None <=> phase = "none"
    /\ phase \in {"none", "collect", "journal"} => todo = {} /\ cur = None
    /\ \A p \in Procs : pc[p] \in Holding <=> lock = p
    /\ \A p \in Procs : pc[p] \notin {"open", "openlock", "openrec", "opened",
                                    "idle", "err"} => p \in Rotators
    /\ phase \in {"collect", "journal", "stage", "install", "verify"} =>
           pc[lock] = "cmd"
    /\ phase = "recover" => pc[lock] # "cmd"

(* What the files and the journal say of each other, at any moment a crash *)
(* may strike.  The fifth conjunct is what makes recovery safe: a target   *)
(* next to a backup is the replacement.                                    *)
DiskInv == \A e \in Entries :
    /\ target[e] # None => target[e].val = 0
    /\ backup[e] # None => backup[e].val = 0
    /\ target[e] = None => backup[e] # None
    /\ backup[e] # None =>
           journal[e] # None /\ journal[e].backup /\ journal[e].digest # None
    /\ backup[e] # None => target[e] = None \/ target[e] = journal[e].digest
    /\ temp[e] # None => journal[e] # None /\ journal[e].temp
    /\ journal[e] # None /\ journal[e].digest = None =>
           ~journal[e].temp /\ ~journal[e].backup /\ ~journal[e].installed
    /\ journal[e] # None /\ journal[e].digest # None =>
           /\ journal[e].temp \/ journal[e].backup
           /\ journal[e].digest.val = 0

(* A rotation starts on a vault without a journal. *)
StartInv ==
    /\ \A p \in Procs : pc[p] \in {"cmdlock", "ok"} => Listed = {}
    /\ phase \in {"collect", "journal"} => Listed = {}

StagedRecord(e) ==
    [digest |-> files[e], temp |-> TRUE, backup |-> TRUE, installed |-> FALSE]
InstalledRecord(e) ==
    [digest |-> files[e], temp |-> FALSE, backup |-> TRUE, installed |-> TRUE]

(* How far the holder's loop has come. *)
FilesInv == phase \in {"journal", "stage", "install", "verify"} =>
    \A e \in Entries : /\ files[e] # None
                       /\ files[e].val = 0 /\ files[e].rcp = rcp[lock]

StageInv == phase = "stage" =>
    /\ cur = None \/ cur \in todo
    /\ \A e \in Entries :
        /\ target[e] # None /\ backup[e] = None
        /\ e \notin todo => journal[e] = StagedRecord(e) /\ temp[e] = files[e]
        /\ e \in todo /\ e # cur => journal[e] = Blank /\ temp[e] = None
        /\ e = cur => journal[e] = StagedRecord(e) /\ temp[e] \in {None, Partial}

InstallInv == phase \in {"install", "verify"} =>
    /\ cur = None \/ cur \in todo
    /\ phase = "verify" => todo = {} /\ cur = None
    /\ \A e \in Entries :
        /\ e \notin todo =>
              /\ journal[e] = InstalledRecord(e) /\ target[e] = files[e]
              /\ temp[e] = None
        /\ e \in todo => journal[e] = StagedRecord(e)
        /\ e \in todo /\ e # cur => temp[e] = files[e] /\ backup[e] = None
        /\ e = cur => /\ backup[e] # None
                     /\ \/ temp[e] = files[e] /\ target[e] = None
                        \/ temp[e] = None /\ target[e] = files[e]

RecoverInv == phase = "recover" =>
    /\ todo \subseteq Listed
    /\ \A e \in Entries \ todo : target[e] # None /\ (temp[e] # None => e = cur)

RollbackInv == phase \in {"rollback", "unjournal"} =>
    /\ phase = "unjournal" => todo = {} /\ cur = None
    /\ \A e \in Entries \ todo : temp[e] = None /\ (backup[e] # None => e = cur)
    /\ cur # None => cur \notin todo /\ backup[cur] # None /\ target[cur] = None

DiscardInv == phase = "discard" =>
    /\ cur = None
    /\ \A e \in Entries :
        /\ target[e] # None
        /\ e \notin todo => temp[e] = None /\ backup[e] = None
        /\ pc[lock] = "cmd" => target[e].rcp = rcp[lock]

Inv == TypeOK /\ LockInv /\ DiskInv /\ StartInv /\ FilesInv /\ StageInv
       /\ InstallInv /\ RecoverInv /\ RollbackInv /\ DiscardInv
       /\ SuccessMeansResealed
=============================================================================
