# Symaira Vault: a TLA+ verification project

TLA+ models of the parts of Symaira Vault whose correctness depends on the order
in which several processes, crashes and failures meet, with TLC runs on small
instances and TLAPS proofs for arbitrary ones. The reference is the Rust code
under `src/crates`; every definition that models code is mapped to its lines in
`PROJECT.json`.

## 1. Inventory

Symaira Vault is a password manager: a directory of age-encrypted files, used by
a command line, a TUI, an MCP server for agents and a native client through an
FFI. There is no daemon that owns the vault. Several processes work on the same
directory and the same OS keyring, and coordinate by file locks, atomic renames
and, in places, nothing at all.

| component | state | operations | hard behaviour | what makes it correct |
|---|---|---|---|---|
| re-encryption journal (`reencrypt_journal.rs`, `device.rs`) | entry files, staged files, backups, `.reencrypt.journal`, `manifest.age`, write lock | change recipients, re-encrypt all, recover on open, roll back | crash between any two renames, failing rebuild, two commands | no entry lost, recovery always possible, success is true |
| entry store and manifest (`symvault-store/lib.rs`) | entry files, manifest, versions | read, write, delete, merge, rebuild | entry writes take no lock | a write survives, manifest matches |
| session cache (`session.rs`, unlock paths) | three keyring items: session, identity, wrap key | unlock, open, complete, migrate, lock | read-modify-write of keyring items without a lock | lock is final, expiry holds, no needless prompt |
| persistent quotas (`persistent_quota.rs`, `quota.rs`) | counter file per window | check, increment, reset | check and increment are separate, truncate then write | limit not exceeded, no silent reset |
| token registry (`token_registry.rs`, `http.rs`) | registry file, the server's cached copy of it | create, refresh, revoke, rotate, look up a bearer, poll | several processes and threads, expiry of access and refresh tokens, a corrupt or deleted file | a grant has one live token, a revoked one none, the cache catches up |
| data-safety gate (`data_safety.rs`) | backup, marker | first-write gate | crash between backup and marker | no write without a verified backup |
| approval queue (`approval.rs`) | requests of waiting calls, in memory | request, decide, list, wait, expire | a decision races the expiry | what the human was told is what happens |
| audit log (`audit.rs`) | hash-chained log, rotated files, key in the keyring, archived keys | open, append, rotate, prune, rotate the key, export | crash and failure between any two writes, key rotation beside a logger, a keyring that falls back to memory | every alarm has a cause, no key is lost unnoticed |
| pairing codes, approval devices (`pairing.rs`, `enroll.rs`, `device_sessions.rs`, `device_approval.rs`) | codes, failure count and cooldown; sessions in the server's memory and in a file | mint, redeem, enrol, validate, revoke | server and command line share a file without a lock | guesses spaced, a code used once, a revocation holds |
| devices of a vault (`devices.rs`, `device.rs`) | device registry, recipients | add, accept, revoke | crash between registry and files | only accepted devices are recipients |
| git sync, winner, reconcile, intake | working tree, remote | pull, merge, push | concurrent pushers | no entry lost by a merge |
| read admission | budget of concurrent reads | admit, release | pool at its limit | budget never exceeded |
| OAuth (`oauth.rs`) | consents, authorisation codes | start, confirm, exchange | the lock is released while the passphrase is checked | one consent, one grant |
| rate limits, anomaly detection, auth guard | buckets, windows | take, record, lock out | concurrent requests | limits hold |
| HTTP server and its shutdown (`http.rs`, `http_shutdown.rs`, `mcp_shutdown.rs`), clipboard | connections, MCP slots, draining and cancelled flags, copied secret and timers | accept, serve, keep alive, drain, exit | a lock-free idle flag, signals at any point, calls that wait for a human | the drain ends by itself and cuts nobody off, no secret on the clipboard is forgotten |
| MCP calls, store adapter, broker | budgets, grants | tool calls, egress | several calls at once | budgets hold |
| sharing, grants | grant records | share, accept, revoke | expiry races | a revoked grant opens nothing |
| update, KDF migration | binary, identity file | download, swap, roll back | crash during the swap | always one working version |
| policy, redaction, TOTP, passwords, configuration, codecs, CLI, TUI, clipboard, crypto | little or none | pure functions, presentation | - | functional correctness |

Interactions. The MCP server authenticates a call against the token registry (a
copy it keeps fresh by polling), may make it wait in the approval queue, and runs
it. A human decides over the same HTTP server, from a device enrolled with a
pairing code; OAuth clients get their tokens through it as well. Operators change
registry, devices and keys from the command line, in other processes. Every call
and command writes an audit entry. A recipients or device command edits `recipients.txt`, opens the
vault (which recovers a journal), takes the write lock and re-encrypts. Every
other opener of the vault runs the same recovery. Writers publish entry files
without the lock and then update the manifest under it. Every command that opens
a vault goes through the session cache first and renews it.

## 2. Modules

| module | models | extends |
|---|---|---|
| `ReencryptJournal` | re-encryption of a vault, its journal, recovery and rollback | |
| `Reseal` | what re-encryption promises, without files, journal and lock | |
| `VaultWriters` | lock-free entry writers beside a rotation | `ReencryptJournal` |
| `SessionCache` | the keyring items and the commands that load, save, migrate and revoke them | |
| `PairingCodes` | the pairing codes of a server and their cooldown | |
| `DeviceSessions` | enrolment, validation and revocation of approval devices | `PairingCodes` |
| `ApprovalQueue` | requests that wait for a human | |
| `HttpServer` | connections, calls, clipboard, signals, drain and exit | `ApprovalQueue` |
| `TokenRegistry` | the registry file and every operation on it | |
| `TokenServer` | the server's cached registry, its poller and the bearer lookup | `TokenRegistry` |
| `OAuthConsents` | consents, codes and their exchange for tokens | `TokenRegistry` |
| `ConsentLife` | what the OAuth routes promise about a consent | |
| `AuditLog` | the log, its rotation and retention, its keys, the export's verdict | |
| `ReencryptJournalProofs`, `SessionCacheProofs`, `DeviceSessionsProofs`, `HttpServerProofs`, `TokenRegistryProofs`, `TokenServerProofs`, `OAuthConsentsProofs`, `AuditLogProofs` | theorems | their module, `TLAPS` |
| `MCReencryptJournal`, `MCVaultWriters`, `MCSessionCache`, `MCDeviceSessions`, `MCHttpServer`, `MCTokenServer`, `MCOAuthConsents`, `MCAuditLog` | model values, symmetry, views | their module |

`ReencryptJournalProofs` is about `VaultWriters` too. `TokenRegistryProofs` holds
the lemmas about the file that `TokenServerProofs` and `OAuthConsentsProofs` share.

Operators called "Mutant" in a comment are plausible wrong versions of the
definition they precede. No specification uses them; each shows that the
property named in `PROJECT.json` would notice that mistake.

### ReencryptJournal

One step is one durable change of the file system, or one decision taken between
two of them, so a crash can fall anywhere. `target`, `temp` and `backup` hold
what is at the entry's path and at the two paths its journal record names.
`journal` holds the records, where `None` for every entry means that there is no
journal file. The code rewrites the whole file at each change by an atomic
rename, so one variable changes at once. A ciphertext is the
version of its plaintext, the recipients it was sealed for and the encryption it
came from; age is randomised, so no two encryptions have the same digest and a
digest is modelled by its ciphertext.

| code | actions |
|---|---|
| `recipients add/remove`, `device accept/revoke`, passphrase rotation | `ChangeRecipients`, `ResolveRecipients` |
| `Store::open`, `recover_if_present` | `StartOpen`, `OpenClean`, `OpenPending`, `OpenSettled`, `LockTimeout` |
| `recover_locked` | `RecoverStart`, `RecoverEntry`, `RecoverDropTemp`, `RecoverManifest`, `RecoverManifestFails`, `DiscardArtifacts`, `Finish` |
| rollback after a failing manifest | `RollbackEntry`, `RollbackRename`, `RestoreManifest`, `RollbackFinish` |
| `reencrypt_all_entries` | `Acquire`, `Collect`, `WriteJournal`, `Manifest`, `ManifestFails`, `Verify` |
| `stage_and_install_reencrypted` | `StageRecord`, `StageCreate`, `StageWrite`, `StageDone`, `InstallMove`, `InstallSwap`, `InstallRecord`, `InstallUndo`, `StageOrInstallFails` |
| death of a process, or an error that returns at once | `Crash` |

Command and recovery share `DiscardArtifacts` and `Finish`, because the code that
removes backups and the journal does the same in both. The initial state may
contain the journal of a crashed Go process (`GoJournal`), whose records name a
staged file and no backup; recovery has to accept it.

Abstracted: path and mode validation of journal records (`Malformed` keeps the
rule about which fields may be empty), durability (every rename is durable when
it returns, which the code's syncs are there for), and the order of entries.

### VaultWriters

Adds processes that have the vault open and write or delete entries. `Publish`
and `Delete` need no lock, `UpdateManifest` does, and its failure is dropped
(`SkipManifest`), as in `publish_prepared_entry`.

The lock holder's branches that only such a writer can bring about are here too:
recovery refuses (`RecoverRefuse`), a rollback refuses (`RollbackRefuse`), no entry
is left (`CollectNothing`), an original is gone before its install
(`InstallMissing`), a target fails its verification (`VerifyFails`). They are not
in `ReencryptJournal`, where the invariant `Inv` and `NeverRefuses`, both proved,
show that they could not be taken.

### SessionCache

One step is one keyring call. An item is its write number, the wrap key it was
encrypted under (0 for plaintext), `saved_at` and `last_access`. Keys are random, so a new key is a new number. `load_identity`
is four to five steps (get identity, get session, get key, set identity, set
session), and what it writes back is what it read at the first. `mark`, `floor`
and `locked` are history: they count the writes that a lock has covered. Opening
a vault tries the identity, then the passphrase twice (`unlock_vault_with_mode`
loads it and, after a miss, `unlock_passphrase_with_mode` loads it again), then
asks.

The OS keyring is external: get, set and delete are each atomic. A wrap key that
cannot be decoded is the same as none (`NoKey`): no load opens anything with it and
every save replaces it. A keyring call that fails makes `FallbackKeyring`
(`symvault-platform/src/lib.rs:113`) serve the process from its own memory until
it ends; the keyring, which is what the model is about, sees no more of it, so it
is a `Crash` here. What such a process does for itself is outside the model: it
asks for a passphrase although a session is cached, and a lock it runs reports
success with the items still in the keyring.

### PairingCodes and DeviceSessions

`PairingCodes` is the `TokenStore` behind its mutex: `Mint`, and `redeem` as
`RedeemBlocked`, `RedeemMiss` and `RedeemHit`. The clock is read just before the
mutex is taken; the model reads it inside. At the last instant of a cooldown the
code neither blocks nor forgets, and `Blocked` and `Over` keep that gap.

`DeviceSessions` adds the two programs that share `device-sessions.json`. The
server's copy is `memory`; `EnrollSave` writes it whole, `Validate` merges the
file's revocations into it first. `approval-revoke` is `RevokeLoad`, the wait for
its user, `RevokeMark` (merge and mark) and two writes, `RevokeSave` and
`RevokeReport`: the code saves inside `revoke`, ignoring a failure, and again
afterwards. `Restart` gives the server the file and an empty `TokenStore`. A
device stands for its session, since every enrolment makes a new device id. The
history variables `version`, `asof`, `casof` and `undone` say when a copy that had
not seen the last write of the file was saved over it.

### ApprovalQueue and HttpServer

| code | actions |
|---|---|
| accept loop, `CancelOnDrop` | `Accept`, `AcceptStops`, `AcceptFails` |
| `read_request`, `request_started` | `Arrive`, `NoRequest`, `RequestStarted` |
| approval API | `ServeApproval` |
| MCP call | `AdmitMcp`, `StartCall`, `Dispatch`, `AwaitApproval`, `RunTool`, `ArmTimer`, `Answer` |
| `wait_for_next_request` | `MarkIdle`, `CheckStopping` |
| end of a worker | `Close` |
| auto-clear of the clipboard | `TimerFires`, `TimerClears` |
| `clear_armed_clipboards`: registry emptied, thread spawned, wait of at most 2 s | `TakeArmed`, `ClearTaken`, `AwaitClear` |
| SIGHUP listener | `Hangup` |
| signal thread | `Signal`, `BeginDrain`, `Drained`, `Deadline`, `TakeAgain`, `Exit` |
| the listener's error ends the server | `ServeFails` |
| passing of `expires_at` | `Lapse` |

A worker learns that its transport was closed only by reading from it, so
`BeginDrain` and `Deadline` change `open` and nothing else of a worker. The idle
flag and the stopping state are two steps on each side. A call checks whether its
context is cancelled in `StartCall` and may then wait for its agent session, which
is why `Dispatch` is a step of its own and may follow the begin of a drain.

A copy on the clipboard has a timer, registered (`armed`) or claimed by its own
thread (`firing`). Each of the two signal listeners takes the registered timers
into its hands (`taken`) and has them cleared by a thread it waits for; the term
listener's wait has a bound (`AwaitClear` records that it was given up), and
nothing waits for the SIGHUP listener or for a timer whose entry was taken while
it fired (`adrift`). Any clear may fail, which the code ignores (`failed`).

Entries are named by their caller, which waits for one at a time; expiry is lazy,
as in the code. Each connection is its own client and its own handler of the
clipboard, and auto-clear is assumed enabled, which is the default. What a
request says (origin, bearer, tool, policy) is a choice among its outcomes.

### TokenRegistry and TokenServer

Every operation on the registry file takes the vault's write lock and publishes
the file by one rename, so it is one step: `Create`, `CreateWithRefresh`,
`RotateViaRefresh`, `Revoke`, `RevokeAll`, `Rotate`. `PurgeExpired` is the sweep
that precedes them, and the distinctions of the code are kept: an access token
expires strictly after its deadline, a refresh token at it; the sweep looks at the
access token only; it is written only with another change. A grant, the first
token of a chain of refreshes, is history. `Damage` is external: something
corrupts or deletes the file.

`TokenServer` has the threads that load it. `LoadRead` takes the mutex of
`LAST_GOOD_REGISTRY` and reads the file, the publishing step replaces the cache
and releases. A call whose load failed decides by the cache (`Fallback`). The
poller's `changed` stands for "the identity of the file is not the last one
seen", which `PollStat` records before it loads.

### OAuthConsents

`Confirm` copies the consent and releases the lock; `ConfirmDeny`,
`ConfirmApprove`, `IssueCodeFails` (the consent is gone and there is no code) and
`ConfirmFails` are what follows the check of the passphrase.
A code is named after its consent, and counted, so that two of one consent would
be noticed. `Exchange` takes the code and creates the token under the lock of the
codes. Operators use the registry meanwhile (`Elsewhere`).

`ConsentLife` is the promise: a consent is new, open, worth a code, granted, denied
or void; each is answered once and redeemed once, and nothing leaves the last three
stages. `StageOf` reads the stage off the tables. What moves a consent without an
answer (a sweep, an approval that gets no code, a code that is spoiled, a restart)
moves it to void.

### AuditLog

`Logger::append` is up to seven steps (rotation's gate, rename, reopen and
retention; text, newline, sync), any of which may fail or be the last before a
crash. The bytes of all files are one sequence of entries; an entry is `whole`,
ended by a `newline`, `done` when the caller was told it is written. What a
reader can parse follows from these: a line glued to a torn one is unreadable.
The HMAC of an entry is its number, and `first` marks the first entry of a logger,
whose predecessor was read from the file. Retention unlinks one file at a time, so
a failure or a crash may leave any part of what was to go (`SomeUnlinked`).

`key` is the key in the OS keyring. The keyring the program is given is a
`FallbackKeyring`, which answers a failure of the OS keyring from the memory of
the process and reports none: a logger then seals with a key that is gone when
the process ends (`FallbackKey`), and `audit rotate-key` reports success and
changes nothing (`RotateKeyFallsBack`) or keeps the old key in place beside its
archive (`SetKeyFails`). The comment of `rotate_key_with_keyring`
(`audit.rs:470`), by which a keyring failure "fails the rotation", is not true of
the shipped keyring. `volatile` and `lost` are history: keys that were only ever in
the memory of a process, and keys that somebody replaced without having read them.
`RotateKey`, `ArchiveKey`, `SetKey` and their failures are `audit rotate-key`.
`Verdict` is that of `audit export`, which verifies with the keyring's key.

## 3. Runs

| run | shows |
|---|---|
| `crash_safety` | a rotation of two entries beside another opener, two crashes, one handled error, possibly a Go journal: `NoEntryLost`, `NeverRefuses`, `CleanAtRest`, `SuccessMeansResealed`, `ManifestAtRest`, `BackupOutlivesNeed`, the refinement of `Reseal`, and that every pending journal is settled in the end (`JournalSettles`) |
| `writers` | writes and deletes that do not meet the rotation of their entry are neither lost nor undone |
| `lock_is_final` | two processes over a plaintext session of an old version, at every interleaving of keyring calls: `RevokeIsFinal`, `PlaintextStaysGone` |
| `warm_cache` | one process at a time, crashing anywhere: `PromptMeansEmpty` |
| `device_sessions` | `MissesSpaced`, `OneDevicePerCode`, `RevokedMeansRefused`, `EnrolledAccepted` with two requests, two commands, a restart and a failing write |
| `http_drain` | `DecisionStands`, `NoIdleSurvivesDrain`, `InFlightKeepTransport`, `NoCopyForgotten`, and `DrainsByItself` |
| `tokens` | `OneLivePerGrant`, `EndedStaysEnded`, `RevocationSticks`, and `PollerCatchesUp` |
| `consents` | `ConsentWorthOne`, the limit on consents, and the refinement of `ConsentLife` |
| `audit_chain` | `AlarmsExplained`, `KeyOnHand` |
| `overwritten_journal`, `revocation_undone`, `revoke_misses` | violations, see section 6 |

Bounds. Each is chosen so that the cases its properties are about occur, and the
mutants, which the runs must catch, show that they do.

- `crash_safety`, `writers`: two entries tell "this entry" from "the others"; two
  crashes give a crash during the recovery of a crash, one handled error each
  rollback. One rotating command runs (`MaxRuns` counts the encryption the vault
  starts with); a rotation after another one is in `overwritten_journal` and in the
  proofs.
- `lock_is_final`, `warm_cache`: two or three commands that write beside any
  number of completions and locks give every pair of operations; the clock runs
  past `Ttl`, so eviction happens.
- `device_sessions`: two requests for one code, two commands around each other's
  writes and around an enrolment; three misses against a limit of two, over two
  instants, cross the end of a cooldown.
- `http_drain`: three clients on two workers and one MCP slot, so that there is a
  503 of each kind, a call that waits, and a human who decides on another
  connection, beside signals of both kinds and clears that race; two requests in
  all.
- `tokens`, `consents`: two tokens are a refresh and its successor, or two grants;
  access expires before refresh, and the clock reaches both. A call and the poller
  load at once. Tokens without expiry stand for the operators' (`Ttls`).
- `audit_chain`: four entries in files of two, one backup, two instants, three
  keys, two crashes and one failure, from a keyring with and without a key. Each
  exception that `AlarmsExplained` and `KeyOnHand` make occurs.

The proofs remove the bounds for the safety properties they cover.

The runs of `SessionCache` and `DeviceSessions` use a view: where a process stands
decides which of its variables it can still read before it writes them, and of the
version counters only their comparison matters. States that differ in the rest
are one state. Symmetry is used for interchangeable model values in runs without
liveness properties.

Deadlock. Where `CHECK_DEADLOCK FALSE` appears, the bounds let everybody come to
rest, and nobody has to start a command; the server may have exited. `crash_safety`,
`writers` and `overwritten_journal` check for it.

Fairness.

- `crash_safety`: weak fairness for a process that is running (the operating
  system schedules it), strong fairness for taking the lock
  (`open_root_write_lock` polls every 50 ms, and one who finds it free again and
  again gets it), weak fairness of `StartOpen` (somebody keeps using the vault).
  Nothing is assumed of crashes, errors or timeouts beyond their finite number.
- `http_drain`: weak fairness of each worker (a read times out, a thread runs) and
  of time passing the expiry of a request. For a worker in a tool call it assumes
  that the call itself ends, which is up to the tool. No signal, no decision and no deadline
  of the drain is promised: `DrainsByItself` holds without them.
- `tokens`: the poller wakes up and is not starved of a mutex that others hold only
  while they read a small file (`SF` for its `LoadRead`); a thread that holds the
  mutex gets on.

## 4. Proofs

`ReencryptJournalProofs`, for any sets of entries and processes and any bounds,
when at most one process rotates (`SingleRotator`):

- `Invariance`: `Spec => []Inv`, and from it `TypeCorrect`, `EntriesSurvive`,
  `RecoveryNeverRefuses`, `NothingLeftOver`, `SuccessResealed` and the action
  property `BackupsOutliveNeed`;
- `ManifestExact`: `ManifestAtRest`, which speaks of the time before the first
  handled I/O error;
- `Refinement`: `Spec => RefinesReseal`;
- `WritersTypeCorrect` and `QuietWritesHold`: `WSpec => []WTypeOK` and
  `WSpec => []QuietWritesSurvive`, for any number of writers.

The safety properties are not inductive: that an entry's original sits in a
backup says nothing about what recovery will do with it. `Inv` adds `LockInv`
(exactly the holder is in a critical section), `DiskInv` (what the files and the
journal say of each other at every point a crash may strike; its central clause
is that a target beside a backup is the replacement named by the journal, which
makes recovery's choice safe), `StartInv` (a rotation starts without a journal)
and one part per loop that says how far it has come. `SingleRotator` is needed:
without it the run `overwritten_journal` shows `NoEntryLost` broken.

Beside writers most of `Inv` is false: a file may be published, or removed, at any
point of a rotation. `WInv` keeps what the lock holder alone decides, `LockInv`,
`StartInv` and how far the staging and installing loops have come with the journal
and the staged files (`StageLoop`, `InstallLoop`). The rest speaks of one entry at a
time, and only while no write met its rotation (`QuietInv`): every copy of it, in
its file, its backup, its journal record and the holder's memory, is its last
version (`QuietDisk`), and its backup is where the current loop can still find it
(`QuietLoop`). `QuietWritesSurvive` follows from `QuietDisk`; the induction needs
`QuietLoop` because discarding and rolling back end with the journal gone.

`InstallRecord` changes two fields of a record in a function by a record `EXCEPT`
inside the function's; from one `EXCEPT` with two nested paths tlapm 1.4.5 makes
contradictory facts, so no module uses that form.

`SessionCacheProofs`, for any number of processes and any limits:

- `TypeCorrect`;
- `LockIsFinal`: `RevokeIsFinal`, if no delete fails silently (`MaxFaults = 0`),
  with or without a plaintext session of an old version in the keyring;
- `PromptOnlyWhenEmpty`: `PromptMeansEmpty` for one process (`SingleProcess`), with
  crashes and failing deletes;
- `PlaintextGone`: `PlaintextStaysGone`, with no assumption.

`LockIsFinal` rests on the life of a wrap key. A key that has been generated and
not stored yet is the key of no item or copy (`PendingFresh`). When revoke
deletes the stored key, the keys of all copies in existence are therefore dead:
neither stored nor about to be (`Dead`), and no step revives a key. `Covered(n)`
says so of the first `n` writes; later writes have later numbers.

`RevokeIsFinal` names the one thing that gets through a lock: the plaintext session
of an old version, which a migration that read it before the lock encrypts anew
after it. The proof exempts items of that first write
(`Old`) and shows that a migration gives no other item an older number.

`PromptOnlyWhenEmpty` rests on `WarmInv`: an encrypted session in the keyring is
always under the stored wrap key. To be inductive this needs what the process in
the middle of a command has at hand: the copy a load will write back is the session
itself, a save stores a key only where there was none and seals under the stored
one, and revoke touches the key only after the session is gone. With two processes
it is false (one stores its key between the other's two writes), so `SingleProcess`
is needed.

`DeviceSessionsProofs`, for any numbers of codes, devices, requests, commands and
any limits, without further assumptions: `TypeCorrect`, `GuessesSpaced`
(`MissesSpaced`), `CodesEnrolOnce` (`OneDevicePerCode`), `RevocationHolds`
(`RevokedMeansRefused`), `EnrolmentHolds` (`EnrolledAccepted`). `MissInv` ties the
failure count to the misses it still counts: below the limit, every miss that is
no longer counted lies a cooldown back, and at the limit the last miss has set the
end of the cooldown. `CodeInv` says that a code somebody holds is no longer
stored. `CopyInv` says what a copy that has merged the last version of the file
knows, and is why a save of such a copy undoes nothing.

`HttpServerProofs`, for any finite set of connections and any limits:
`TypeCorrect` (with the limits on workers and calls), `DecisionsStand`,
`IdleClosed` (`NoIdleSurvivesDrain`), `InFlightKept`, `NoCopyIsForgotten`
(`NoCopyForgotten`). `FlagInv` says at which places of a worker its flag is set
and its slot held, `DrainInv` which transports are open at each place of the
signal thread, and `CopyInv` that a secret on the clipboard always has somebody
about to clear it, unless a clear of it failed: a timer, a thread that has claimed
the clear, a listener that has taken it, or a call about to start the timer; and
that nothing is registered any more when the process is about to leave after a
complete drain. The limits are proved with the cardinality theorems of the
library.

`TokenServerProofs`, for any threads, tokens and lifetimes: `TypeCorrect`,
`RefreshedOnce` (`OneLivePerGrant`), `GrantsEnd` (`EndedStaysEnded`),
`SeenRevocationsStick` (`RevocationSticks`). The lemmas of `TokenRegistryProofs`
show that every write but that of a new token makes the map weaker (drops records
and revokes tokens), and that a new token's grant is new or that of a token
revoked by the same write. `RevocationSticks` needs `RevokedDead`: a token the
cache calls revoked is live neither in the file nor in what a thread has read,
because whoever is about to replace the cache has read the file under its mutex.

`OAuthConsentsProofs`, for any threads and consents: `TypeCorrect` (with the limit
on consents), `ConsentsWorthOne`, and `LifeFollowed`: `Spec => FollowsLife`, the
refinement of `ConsentLife`. `Worth` says where one consent stands: open, or worth
a code, or worth a grant, or nothing; the refinement needs it to know that an open
consent has no code yet, and that a code that is taken was the only one.

`AuditLogProofs`, for any limits and any number of crashes and faults:
`TypeCorrect`, `AlarmsHaveCauses` (`AlarmsExplained`), `KeysOnHand` (`KeyOnHand`).
`AlarmsExplained` speaks of what is exported, after files were deleted; the
invariant speaks of all entries in the order of their bytes. `LinkInv` says how an
entry that is not the first of its logger is linked to its neighbour, because of
what the logger remembers (`TailInv`); `FirstInv` says that what a logger skipped
when it took up the chain cannot be read, because it could not be read then
(`FreshInv`) and an unreadable line stays so. `KeyInv` follows the old key through
`rotate-key`, and says that where there was a key to begin with `rotate-key` always
holds the key that is in the keyring.

Assumptions on constants are the named `ASSUME`s of the modules, which TLC evaluates
in every run: sets are finite where they are counted, bounds are natural numbers,
and `None` is no number, record or model value of another sort.

Only model-checked: liveness (`JournalSettles`, `DrainsByItself`,
`PollerCatchesUp`), which the prover cannot do under fairness. Every safety
property and both refinements that a passing run checks are also proved.

## 5. Plan

Done: `ReencryptJournal` with `Reseal`, `VaultWriters`, `SessionCache`;
`PairingCodes`, `DeviceSessions`; `ApprovalQueue`, `HttpServer`; `TokenRegistry`,
`TokenServer`; `OAuthConsents` with `ConsentLife`; `AuditLog`. Every safety property
of their passing runs has a theorem.

Left, in this order:

1. `PersistentQuota`: check-then-increment, truncate-then-write, with a bound on
   the overshoot and its proof;
2. `DataSafetyGate`: backup, verification and marker before the first write,
   composed with the store's write lock;
3. the registry of vault devices around `ReencryptJournal` (edited before the
   rotation), and the agents' configuration around `TokenRegistry`;
4. `ReadAdmission`, rate limits and lockouts, git synchronisation;
5. policy evaluation as an operator against a reference definition.

## 6. Disagreements found

Three have a run that TLC ends with a counterexample; `PROJECT.json` quotes the
lines.

- `overwritten_journal`: a rotating command looks for a journal before it waits
  for the lock and not again when it has it. If the holder died between the
  renames of an install, the command replaces the journal that knows where the
  original is.
- `revocation_undone`: an enrolment saves the server's copy of the device sessions
  without merging the file. A device revoked from the command line since the last
  validation is active again. The comments of the store say that the merge makes
  this impossible; only validation merges.
- `revoke_misses`: `agent token revoke` sweeps expired records before it looks for
  the token, and a token whose access has expired but whose refresh token has not
  is reported as not found, stays in the file and can be renewed. `agent
  uninstall` has the same gap when all tokens of the agent are in that state.

Others were met while modelling and have no run of their own; where a property
touches one, it is stated around it and its comment says so.

- Recipients are resolved before the lock (`device.rs:320`). A command that waited
  seals for a list that another one has changed, after that one reported success.
- Recovery snapshots the manifest when it starts (`reencrypt_journal.rs:128`). If
  the crashed command had published the new one, a failing rebuild restores it
  beside the old entries.
- An entry written between the two renames of an install, or deleted before its
  own, makes recovery refuse at every open (`reencrypt_journal.rs:154`).
- A command served from the session cache saves the secret again with a new
  `saved_at` (`main.rs:5711`), so the "absolute maximum lifetime" of
  `docs/configuration.md:78` starts anew.
- A SIGTERM that follows a SIGHUP finds the registry of timers emptied by the
  SIGHUP listener and may exit before that one has cleared
  (`mcp_shutdown.rs:159`, `:326`), where the comment at `mcp_shutdown.rs:39` says
  that the clipboard is always cleared. The wait of 2 s and an ignored failure of
  the clear leave a copy behind as well. `NoCopyForgotten` names the four ways.
- A sync that fails behind a complete line (`audit.rs:784`) makes the export call
  the next entry tampered. So does a restart between the rename of a full log and
  the first entry of the next (`audit.rs:733`), where the comment at
  `audit.rs:983` says that verification continues across the archive boundary.
- With the shipped keyring a failing OS keyring fails no key operation
  (`audit.rs:470`, above): entries are sealed with keys nobody keeps.
- A log rotated because of its age keeps its modification time and is deleted by
  the retention that follows (`audit.rs:845`), where `docs/audit-retention.md`
  says that rotation does not lose entries and that the most recently rotated
  files survive. A rename that fails closes the logger, where that page says that
  writing continues.

## 7. Not modelled

The components with status `not_modelled` in `PROJECT.json`: those of the plan,
and those without a protocol (codecs, configuration, presentation, cryptography,
OS integration). They are most of the repository's lines: argument parsing, help
texts, forms, prompts, diagnostics and byte-exact codecs have no state whose
order matters, and restating their strings in TLA+ would show nothing.

Of the modelled ones:

- `device.rs`: the other subcommands; store: versions, merge, search and legacy
  migration;
- session cache: Touch ID items, and what a process does for itself once its
  keyring has fallen back to memory;
- device sessions: the migration of raw tokens, and the server store's `revoke`,
  `revoke_all` and `cleanup`, which only tests call;
- approvals at a terminal or by a dialog; HTTP parsing, TLS, authentication
  guards;
- token registry: import of legacy tokens, scopes, client registration, the
  encodings of the file;
- audit log: entries of old versions and the key file of old versions; two loggers of one agent at once,
  which fork the chain; two rotations within a second, of which the second
  replaces the first's file.
