------------------------------ MODULE AuditLog ------------------------------
(***************************************************************************)
(* The audit log of one agent and the key that seals it.                   *)
(*                                                                         *)
(* A Logger appends entries to audit-<agent>.log.  Each carries an HMAC    *)
(* over its predecessor's HMAC, which the logger keeps in memory and reads *)
(* back from the file when it is opened.  A full or old file is first      *)
(* renamed away, and the rotated files are pruned.  `audit rotate-key`     *)
(* replaces the key in the keyring beside a running logger, and an export  *)
(* verifies all files as one chain.                                        *)
(*                                                                         *)
(* One logger writes at a time (the calls of a server share one behind a   *)
(* mutex), so the entries are numbered in the order of their bytes and a   *)
(* number stands for the HMAC; 0 is the empty one.  A crash is that of the *)
(* process: bytes once written stay.  An absent file and an empty one are  *)
(* the same to every reader.                                               *)
(*                                                                         *)
(* The keyring is FallbackKeyring: once the system's keyring has failed, a *)
(* process keeps its keys in its own memory and is told of no error.       *)
(***************************************************************************)
EXTENDS Integers, Sequences, FiniteSets

CONSTANTS
    MaxSize,      \* RotationConfig::max_file_size, in entries
    MaxBackups,   \* RotationConfig::max_backups
    MaxAge,       \* RotationConfig::max_age
    MaxEntries,   \* bound: entries
    MaxTime,      \* bound: the clock
    MaxKeys,      \* bound: keys made
    MaxCrashes,   \* bound: processes that die or are restarted
    MaxFaults     \* bound: failing system and keyring calls

ASSUME AuditAssumption ==
    /\ MaxSize \in Nat \ {0} /\ MaxBackups \in Nat /\ MaxAge \in Nat \ {0}
    /\ MaxEntries \in Nat /\ MaxTime \in Nat /\ MaxKeys \in Nat
    /\ MaxCrashes \in Nat /\ MaxFaults \in Nat

VARIABLES
    now,
    log,       \* the entries of all files, in the order of their bytes
    written,   \* modification time of every file; the last one is the current file
    kept,      \* the rotated files that exist
    pc,        \* where the logger is
    previous,  \* Logger::previous
    kid,       \* Logger::kid
    fresh,     \* history: whether the logger has yet to write its first entry
    key,       \* the key in the keyring, 0: none
    archived,  \* the keys in audit-hmac-key.rotated.*
    rpc,       \* where rotate-key is
    old,       \* the key it has read
    made,      \* keys made so far
    volatile,  \* history: keys that were only ever in the memory of a process
    lost,      \* history: keys replaced by a process that had not read them
    bare,      \* history: the keyring held no key to begin with
    crashes, faults

files == <<log, written, kept>>
logger == <<pc, previous, kid, fresh>>
keyring == <<key, archived, made, volatile, lost, bare>>
rotator == <<rpc, old>>
vars == <<now, files, logger, keyring, rotator, crashes, faults>>

(* A vault in use has a key; a new one, or one from before, has none. *)
Init ==
    /\ now = 0
    /\ log = <<>> /\ written = <<0>> /\ kept = {}
    /\ pc = "off" /\ previous = 0 /\ kid = 0 /\ fresh = TRUE
    /\ key \in {0, 1} /\ made = key /\ archived = {}
    /\ volatile = {} /\ lost = {} /\ bare = (key = 0)
    /\ rpc = "off" /\ old = 0
    /\ crashes = 0 /\ faults = 0

Current == Len(written)
Goto(where) == pc' = where
Fault == faults < MaxFaults /\ faults' = faults + 1

-----------------------------------------------------------------------------
(* Reading the log.  Lines are split at newlines, and a line that is not   *)
(* one JSON object, because it is short or because the line before it was  *)
(* never ended, is passed over.                                            *)
SameFile(i, j) == log[i].file = log[j].file
Readable(i) ==
    /\ log[i].whole
    /\ i > 1 => ~SameFile(i - 1, i) \/ log[i - 1].newline
    /\ i < Len(log) => ~SameFile(i, i + 1) \/ log[i].newline

(* last_hmac: of the current file alone. *)
IsLastHmac(h) ==
    LET read == {i \in 1..Len(log) : log[i].file = Current /\ Readable(i)}
    IN  h \in read \cup {0} /\ \A i \in read : i <= h

(* The entries an export reads, the predecessor it sees for each, and its  *)
(* verdict.  The command verifies with the key in the keyring only.        *)
Exported == {i \in 1..Len(log) : log[i].file \in kept \cup {Current} /\ Readable(i)}

Before(i) ==
    CHOOSE h \in Exported \cup {0} :
        h < i /\ \A j \in Exported : j < i => j <= h

Verdict(i) ==
    CASE log[i].kid # key -> "unverifiable"
      [] log[i].kid = key /\ log[i].prev = Before(i) -> "verified"
      [] log[i].kid = key /\ log[i].prev # Before(i) -> "tampered"

-----------------------------------------------------------------------------
(* Opening a logger: the key, then the file. *)
LoadKey ==
    /\ pc = "off" /\ key # 0
    /\ kid' = key /\ Goto("open")
    /\ UNCHANGED <<now, files, previous, fresh, keyring, rotator, crashes, faults>>

LoadKeyMisses ==
    /\ pc = "off" /\ key = 0
    /\ Goto("create")
    /\ UNCHANGED <<now, files, previous, kid, fresh, keyring, rotator, crashes, faults>>

CreateKey ==
    /\ pc = "create" /\ made < MaxKeys
    /\ made' = made + 1 /\ key' = made + 1 /\ kid' = made + 1
    /\ lost' = IF key = 0 THEN lost ELSE lost \cup {key}
    /\ Goto("open")
    /\ UNCHANGED <<now, files, previous, fresh, archived, volatile, bare, rotator,
                   crashes, faults>>

(* The system's keyring fails to answer, or to store the new key: the      *)
(* logger opens with a key that the process alone has.                     *)
FallbackKey ==
    /\ pc \in {"off", "create"} /\ made < MaxKeys /\ Fault
    /\ made' = made + 1 /\ kid' = made + 1
    /\ volatile' = volatile \cup {made + 1}
    /\ Goto("open")
    /\ UNCHANGED <<now, files, previous, fresh, key, archived, lost, bare, rotator,
                   crashes>>

(* Mutant: a logger that is opened starts a new chain. *)
OpenAnew ==
    /\ pc = "open"
    /\ previous' = 0 /\ fresh' = TRUE /\ Goto("idle")
    /\ UNCHANGED <<now, files, kid, keyring, rotator, crashes, faults>>

(* Logger::open: the chain goes on from what the file holds. *)
Open ==
    /\ pc = "open"
    /\ \E h \in 0..Len(log) : IsLastHmac(h) /\ previous' = h
    /\ fresh' = TRUE /\ Goto("idle")
    /\ UNCHANGED <<now, files, kid, keyring, rotator, crashes, faults>>

(* A command closes its logger after the entry, a server when it ends. *)
Close ==
    /\ pc \in {"idle", "closed"} /\ crashes < MaxCrashes
    /\ crashes' = crashes + 1
    /\ Goto("off")
    /\ UNCHANGED <<now, files, previous, kid, fresh, keyring, rotator, faults>>

-----------------------------------------------------------------------------
(* Logger::append: the rotation that is due, then the text, the newline    *)
(* and the sync.  previous advances only when all three have succeeded.    *)
Size == Cardinality({i \in 1..Len(log) : log[i].file = Current})
Due == Size >= MaxSize \/ now - written[Current] >= MaxAge

StartAppend ==
    /\ pc = "idle" /\ Len(log) < MaxEntries
    /\ Goto(IF Due /\ Size > 0 THEN "gate" ELSE "text")
    /\ UNCHANGED <<now, files, previous, kid, fresh, keyring, rotator, crashes, faults>>

Extend(whole) ==
    /\ log' = Append(log, [file |-> Current, prev |-> previous, kid |-> kid,
                           whole |-> whole, newline |-> FALSE, done |-> FALSE,
                           first |-> fresh])
    /\ written' = [written EXCEPT ![Current] = now]
    /\ fresh' = FALSE
    /\ UNCHANGED kept

WriteText ==
    /\ pc = "text" /\ Extend(TRUE)
    /\ Goto("newline")
    /\ UNCHANGED <<now, previous, kid, keyring, rotator, crashes, faults>>

(* Some of the text may have been written, or none. *)
WriteTextFails ==
    /\ pc = "text" /\ Fault
    /\ Extend(FALSE) \/ UNCHANGED <<files, fresh>>
    /\ Goto("idle")
    /\ UNCHANGED <<now, previous, kid, keyring, rotator, crashes>>

WriteNewline ==
    /\ pc = "newline"
    /\ log' = [log EXCEPT ![Len(log)].newline = TRUE]
    /\ written' = [written EXCEPT ![Current] = now]
    /\ Goto("sync")
    /\ UNCHANGED <<now, kept, previous, kid, fresh, keyring, rotator, crashes, faults>>

Sync ==
    /\ pc = "sync"
    /\ log' = [log EXCEPT ![Len(log)].done = TRUE]
    /\ previous' = Len(log)
    /\ Goto("idle")
    /\ UNCHANGED <<now, written, kept, kid, fresh, keyring, rotator, crashes, faults>>

NewlineOrSyncFails ==
    /\ pc \in {"newline", "sync"} /\ Fault
    /\ Goto("idle")
    /\ UNCHANGED <<now, files, previous, kid, fresh, keyring, rotator, crashes>>

-----------------------------------------------------------------------------
(* Logger::rotate_at.  A failure before the handle is taken, or in the     *)
(* retention, fails this append; one in between closes the logger for good.*)
RotateGate ==
    /\ pc = "gate"
    /\ Goto("rename")
    /\ UNCHANGED <<now, files, previous, kid, fresh, keyring, rotator, crashes, faults>>

(* Mutant: the logger goes on writing to the renamed file. *)
RotateRenameLate ==
    /\ pc = "rename"
    /\ kept' = kept \cup {Current}
    /\ Goto("reopen")
    /\ UNCHANGED <<now, log, written, previous, kid, fresh, keyring, rotator, crashes,
                   faults>>

RotateRename ==
    /\ pc = "rename"
    /\ kept' = kept \cup {Current} /\ written' = Append(written, now)
    /\ Goto("reopen")
    /\ UNCHANGED <<now, log, previous, kid, fresh, keyring, rotator, crashes, faults>>

RotateReopen ==
    /\ pc = "reopen"
    /\ written' = [written EXCEPT ![Current] = now]
    /\ Goto("retain")
    /\ UNCHANGED <<now, log, kept, previous, kid, fresh, keyring, rotator, crashes,
                   faults>>

(* enforce_log_retention: the oldest beyond max_backups, and whatever is   *)
(* too old, the file just rotated included, are unlinked one by one.       *)
Surplus(gone) ==
    /\ gone \subseteq kept
    /\ Cardinality(gone) = IF Cardinality(kept) > MaxBackups
                           THEN Cardinality(kept) - MaxBackups ELSE 0
    /\ \A g \in gone, f \in kept \ gone : written[g] <= written[f]

TooOld == {f \in kept : now - written[f] >= MaxAge}

EnforceLogRetention ==
    /\ pc = "retain"
    /\ \E gone \in SUBSET kept : Surplus(gone) /\ kept' = kept \ (gone \cup TooOld)
    /\ Goto("text")
    /\ UNCHANGED <<now, log, written, previous, kid, fresh, keyring, rotator, crashes,
                   faults>>

(* Unlinks that fail are ignored, and a crash falls between any two. *)
SomeUnlinked ==
    \E gone \in SUBSET kept :
        /\ Surplus(gone)
        /\ \E some \in SUBSET (gone \cup TooOld) : kept' = kept \ some

UnlinkFails ==
    /\ pc = "retain" /\ Fault
    /\ SomeUnlinked
    /\ Goto("text")
    /\ UNCHANGED <<now, log, written, previous, kid, fresh, keyring, rotator, crashes>>

RetentionCrash ==
    /\ pc = "retain" /\ crashes < MaxCrashes
    /\ crashes' = crashes + 1
    /\ SomeUnlinked
    /\ Goto("off")
    /\ UNCHANGED <<now, log, written, previous, kid, fresh, keyring, rotator, faults>>

RotateFails ==
    /\ pc \in {"gate", "rename", "reopen", "retain"} /\ Fault
    /\ Goto(IF pc \in {"gate", "retain"} THEN "idle" ELSE "closed")
    /\ UNCHANGED <<now, files, previous, kid, fresh, keyring, rotator, crashes>>

Crash ==
    /\ pc \notin {"off", "idle", "closed", "retain"} /\ crashes < MaxCrashes
    /\ crashes' = crashes + 1
    /\ Goto("off")
    /\ UNCHANGED <<now, files, previous, kid, fresh, keyring, rotator, faults>>

-----------------------------------------------------------------------------
(* Mutant: the old key is not archived. *)
RotateKeyUnarchived ==
    /\ rpc = "off" /\ made < MaxKeys
    /\ old' = key /\ rpc' = "set"
    /\ UNCHANGED <<now, files, logger, keyring, crashes, faults>>

(* rotate_key_with_keyring: the old key is archived before it is replaced. *)
RotateKey ==
    /\ rpc = "off" /\ made < MaxKeys
    /\ old' = key
    /\ rpc' = IF key = 0 THEN "set" ELSE "archive"
    /\ UNCHANGED <<now, files, logger, keyring, crashes, faults>>

(* The system's keyring fails to answer: the memory of the process holds   *)
(* no key, so it makes one there, reports success and forgets it.          *)
RotateKeyFallsBack ==
    /\ rpc = "off" /\ Fault
    /\ UNCHANGED <<now, files, logger, keyring, rotator, crashes>>

ArchiveKey ==
    /\ rpc = "archive"
    /\ archived' = archived \cup {old}
    /\ rpc' = "set"
    /\ UNCHANGED <<now, files, logger, key, made, volatile, lost, bare, old, crashes,
                   faults>>

ArchiveKeyFails ==
    /\ rpc = "archive" /\ Fault
    /\ rpc' = "off"
    /\ UNCHANGED <<now, files, logger, keyring, old, crashes>>

SetKey ==
    /\ rpc = "set" /\ made < MaxKeys
    /\ made' = made + 1 /\ key' = made + 1
    /\ lost' = IF key = old THEN lost ELSE lost \cup {key}
    /\ rpc' = "off"
    /\ UNCHANGED <<now, files, logger, archived, volatile, bare, old, crashes, faults>>

(* The new key does not reach the system's keyring, which keeps the old    *)
(* one; success is reported and the archive stays.                         *)
SetKeyFails ==
    /\ rpc = "set" /\ Fault
    /\ rpc' = "off"
    /\ UNCHANGED <<now, files, logger, keyring, old, crashes>>

RotateKeyCrash ==
    /\ rpc # "off" /\ crashes < MaxCrashes
    /\ crashes' = crashes + 1
    /\ rpc' = "off"
    /\ UNCHANGED <<now, files, logger, keyring, old, faults>>

Tick ==
    /\ now < MaxTime
    /\ now' = now + 1
    /\ UNCHANGED <<files, logger, keyring, rotator, crashes, faults>>

-----------------------------------------------------------------------------
Next ==
    \/ LoadKey \/ LoadKeyMisses \/ CreateKey \/ FallbackKey \/ Open \/ Close
    \/ StartAppend \/ WriteText \/ WriteTextFails \/ WriteNewline \/ Sync
    \/ NewlineOrSyncFails
    \/ RotateGate \/ RotateRename \/ RotateReopen \/ EnforceLogRetention
    \/ UnlinkFails \/ RetentionCrash \/ RotateFails \/ Crash
    \/ RotateKey \/ RotateKeyFallsBack \/ ArchiveKey \/ ArchiveKeyFails
    \/ SetKey \/ SetKeyFails \/ RotateKeyCrash
    \/ Tick

Spec == Init /\ [][Next]_vars

-----------------------------------------------------------------------------
Fragments == [file : Nat \ {0}, prev : Nat, kid : Nat, whole : BOOLEAN,
              newline : BOOLEAN, done : BOOLEAN, first : BOOLEAN]

(* Types: every entry lies in a file that was once the current one, is     *)
(* chained to an earlier one, and was sealed with a key that was made.     *)
TypeOK ==
    /\ now \in Nat
    /\ log \in Seq(Fragments) /\ written \in Seq(Nat) /\ Len(written) > 0
    /\ \A i \in 1..Len(log) :
         log[i].file <= Current /\ log[i].prev < i /\ log[i].kid \in 1..made
    /\ kept \subseteq 1..(Current - 1)
    /\ pc \in {"off", "create", "open", "idle", "closed", "text", "newline",
               "sync", "gate", "rename", "reopen", "retain"}
    /\ previous \in 0..Len(log) /\ kid \in 0..made /\ fresh \in BOOLEAN
    /\ made \in Nat /\ key \in 0..made /\ old \in 0..made
    /\ archived \subseteq 1..made /\ volatile \subseteq 1..made
    /\ lost \subseteq 0..made /\ bare \in BOOLEAN
    /\ rpc \in {"off", "archive", "set"}
    /\ crashes \in Nat /\ faults \in Nat

(* Every alarm an export raises about these genuine entries has a cause.   *)
(* The first entry of a logger is called tampered only when the file held  *)
(* no readable entry to continue from, as after a crash between the rename *)
(* of a full file and the first entry of the next, or when the entry it    *)
(* continues has been pruned since: so a restart takes up the chain of its *)
(* file whatever a crash, a torn line or a failed append has left there.   *)
(* A later entry is called tampered only when the line before it cannot be *)
(* read or has been pruned, or when the append of that line reported an    *)
(* error: a sync that fails behind a complete line does cost the next      *)
(* entry its verdict, and never the one after that.                        *)
AlarmsExplained ==
    \A i \in Exported : Verdict(i) = "tampered" =>
        IF log[i].first
        THEN \/ /\ log[i].prev = 0
                /\ \A j \in 1..(i - 1) : SameFile(j, i) => ~Readable(j)
             \/ log[i].prev # 0 /\ log[i].prev \notin Exported
        ELSE i - 1 \notin Exported \/ ~log[i - 1].done

(* The key of every entry is in the keyring or archived, through key       *)
(* rotations that crash or fail at any step beside a logger that still     *)
(* uses the old key, except a key that a failing keyring left in the       *)
(* memory of one process, and one that was replaced by a process that had  *)
(* not read it.  The latter takes two first uses of a vault at a time: a   *)
(* key that was in the keyring to begin with is never replaced unread.     *)
KeyOnHand ==
    /\ \A i \in 1..Len(log) : log[i].kid \in archived \cup {key} \cup volatile \cup lost
    /\ ~bare => lost = {}
=============================================================================
