---------------------------- MODULE VaultWriters ----------------------------
(***************************************************************************)
(* Entry writers beside a rotation.                                        *)
(*                                                                         *)
(* write_entry_with_recipients_at and delete_entry_at publish or unlink an *)
(* entry file WITHOUT the write lock; only the manifest update that        *)
(* follows takes it.  A writer is a process that has the vault open        *)
(* already (the MCP server, the TUI, another command), so it never runs    *)
(* recovery.  This module adds such writers to ReencryptJournal, and the   *)
(* branches its lock holder takes only because of them.                    *)
(***************************************************************************)
EXTENDS ReencryptJournal

CONSTANTS
    Writers,    \* processes that write and delete entries
    MaxWrites   \* bound: entry writes started

ASSUME WritersAssumption == MaxWrites \in Nat /\ None \notin Nat

VARIABLES
    wpc,      \* where each writer is
    wentry,   \* the entry it works on
    wcipher,  \* the ciphertext it publishes
    writes,   \* the writes started
    latest,   \* history: the version last published, None once deleted
    raced     \* history: a write or delete of e met a rotation of e

wvars == <<wpc, wentry, wcipher, writes, latest, raced>>
allvars == <<vars, wvars>>

WInit ==
    /\ Init
    /\ wpc = [w \in Writers |-> "idle"]
    /\ wentry = [w \in Writers |-> None]
    /\ wcipher = [w \in Writers |-> None]
    /\ writes = 0
    /\ latest = [e \in Entries |-> 0]
    /\ raced = [e \in Entries |-> FALSE]

(* The holder has read e for re-encryption, or a journal lists it. *)
UnderRotation(e) == files[e] # None \/ journal[e] # None

(* The recipients are resolved and the entry is encrypted... *)
Prepare(w, e) ==
    /\ wpc[w] = "idle" /\ writes < MaxWrites
    /\ writes' = writes + 1
    /\ wentry' = [wentry EXCEPT ![w] = e]
    /\ wcipher' = [wcipher EXCEPT ![w] =
            [val |-> writes + 1, rcp |-> recipients, run |-> 0]]
    /\ wpc' = [wpc EXCEPT ![w] = "publish"]
    /\ UNCHANGED <<vars, latest, raced>>

(* ...and the file replaces whatever is there (publication::replace_entry). *)
Publish(w) ==
    LET e == wentry[w] IN
    /\ wpc[w] = "publish"
    /\ target' = [target EXCEPT ![e] = wcipher[w]]
    /\ latest' = [latest EXCEPT ![e] = wcipher[w].val]
    /\ raced' = [raced EXCEPT ![e] = @ \/ UnderRotation(e)]
    /\ wpc' = [wpc EXCEPT ![w] = "manifest"]
    /\ UNCHANGED <<recipients, temp, backup, journal, manifest, lock, memory,
                   procs, counts, wentry, wcipher, writes>>

(* delete_entry_at unlinks the file; a missing one is reported. *)
Delete(w, e) ==
    /\ wpc[w] = "idle" /\ target[e] # None
    /\ target' = [target EXCEPT ![e] = None]
    /\ latest' = [latest EXCEPT ![e] = None]
    /\ raced' = [raced EXCEPT ![e] = @ \/ UnderRotation(e)]
    /\ wentry' = [wentry EXCEPT ![w] = e]
    /\ wcipher' = [wcipher EXCEPT ![w] = None]
    /\ wpc' = [wpc EXCEPT ![w] = "manifest"]
    /\ UNCHANGED <<recipients, temp, backup, journal, manifest, lock, memory,
                   procs, counts, writes>>

(* update_manifest_entry / remove_manifest_entry, under the write lock. *)
UpdateManifest(w) ==
    /\ wpc[w] = "manifest" /\ lock = None
    /\ manifest' = [manifest EXCEPT ![wentry[w]] = wcipher[w]]
    /\ wpc' = [wpc EXCEPT ![w] = "idle"]
    /\ UNCHANGED <<recipients, target, temp, backup, journal, lock, memory,
                   procs, counts, wentry, wcipher, writes, latest, raced>>

(* A failure of it (or of the wait for the lock) is discarded, and the     *)
(* writer may die before it.                                               *)
SkipManifest(w) ==
    /\ wpc[w] = "manifest"
    /\ wpc' = [wpc EXCEPT ![w] = "idle"]
    /\ UNCHANGED <<vars, wentry, wcipher, writes, latest, raced>>

-----------------------------------------------------------------------------
(* What the lock holder does when it finds that a writer was there.        *)

(* Recovery gives up; the journal and every file stay as they are. *)
RecoverRefuse(p) ==
    /\ At(p, "recover") /\ cur = None
    /\ Malformed \/ \E e \in todo : Refuses(e)
    /\ Release(p, "err")
    /\ UNCHANGED <<recipients, disk, rcp, run, counts, wvars>>

(* A target that is neither the replacement nor missing is left alone; the *)
(* old manifest is restored all the same and the journal stays.            *)
RollbackRefuse(p) ==
    /\ At(p, "rollback") /\ cur = None
    /\ \E e \in todo : RollbackRefuses(e)
    /\ manifest' = snap
    /\ Release(p, "err")
    /\ UNCHANGED <<recipients, target, temp, backup, journal, rcp, run, counts,
                   wvars>>

(* No entry is left to rotate: the command has succeeded. *)
CollectNothing(p) ==
    /\ At(p, "collect") /\ target = Absent
    /\ Release(p, "ok")
    /\ UNCHANGED <<recipients, disk, rcp, run, counts, wvars>>

(* The original is gone: rename fails. *)
InstallMissing(p, e) ==
    /\ At(p, "install") /\ cur = None /\ e \in todo /\ target[e] = None
    /\ EnterRecovery(p)
    /\ UNCHANGED <<target, backup, ioerrors, wvars>>

(* A target changed since it was installed: the journal is kept. *)
VerifyFails(p) ==
    /\ At(p, "verify")
    /\ \E e \in Listed : ~Installed(e)
    /\ Release(p, "err")
    /\ UNCHANGED <<recipients, disk, rcp, run, counts, wvars>>

Disturbed(p) ==
    \/ RecoverRefuse(p) \/ RollbackRefuse(p) \/ CollectNothing(p)
    \/ VerifyFails(p)
    \/ \E e \in Entries : InstallMissing(p, e)

WNext ==
    \/ Next /\ UNCHANGED wvars
    \/ \E p \in Procs : Disturbed(p)
    \/ \E w \in Writers :
         \/ Publish(w) \/ UpdateManifest(w) \/ SkipManifest(w)
         \/ \E e \in Entries : Prepare(w, e) \/ Delete(w, e)

WSpec == WInit /\ [][WNext]_allvars

-----------------------------------------------------------------------------
(* Types of the writers' state. *)
WTypeOK ==
    /\ TypeOK
    /\ wpc \in [Writers -> {"idle", "publish", "manifest"}]
    /\ wentry \in [Writers -> Entries \cup {None}]
    /\ wcipher \in [Writers -> Cipher \cup {None}]
    /\ writes \in 0 .. MaxWrites
    /\ latest \in [Entries -> Nat \cup {None}]
    /\ raced \in [Entries -> BOOLEAN]

(* A rotation, its crashes and its recoveries lose no write and undo no    *)
(* delete of an entry, as long as none of them landed while the entry was  *)
(* being rotated: the version published last is in the entry's file, or in *)
(* the backup from which recovery restores it.                             *)
QuietWritesSurvive == \A e \in Entries : ~raced[e] =>
    IF latest[e] = None THEN target[e] = None /\ backup[e] = None
    ELSE \/ target[e] # None /\ target[e].val = latest[e]
         \/ /\ target[e] = None /\ backup[e] # None /\ backup[e].val = latest[e]
            /\ journal[e] # None /\ journal[e].backup
=============================================================================
