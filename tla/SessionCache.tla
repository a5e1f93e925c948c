---------------------------- MODULE SessionCache ----------------------------
(***************************************************************************)
(* The session cache: SessionManager, and the commands that use it.        *)
(*                                                                         *)
(* The OS keyring holds three items per vault: the session (the encrypted  *)
(* passphrase), the identity (the encrypted private key) and the wrap key  *)
(* both are encrypted under.  Every get, set and delete of the keyring is  *)
(* atomic, nothing else is: no lock is held between them, so the           *)
(* operations of two processes interleave at every keyring call, and each  *)
(* such call is one step here.                                             *)
(*                                                                         *)
(* An entry is described by its place in the order of all writes, the wrap *)
(* key it needs, and the two instants its expiry is computed from.         *)
(***************************************************************************)
EXTENDS Integers

CONSTANTS
    Procs,        \* processes sharing the keyring
    Ttl,          \* session_timeout: the idle time a session survives
    MaxLifetime,  \* session_max_lifetime
    Legacy,       \* whether the keyring starts with a plaintext session
    MaxTime,      \* bound: the clock
    MaxCmds,      \* bound: commands that may write the cache
    MaxCrashes,   \* bound: processes that die, or whose keyring write fails
    MaxFaults,    \* bound: deletes whose failure is swallowed
    None          \* no item

ASSUME SessionAssumption ==
    /\ Ttl \in Nat \ {0} /\ MaxLifetime \in Nat \ {0}
    /\ Legacy \in BOOLEAN
    /\ MaxTime \in Nat /\ MaxCmds \in Nat /\ MaxCrashes \in Nat
    /\ MaxFaults \in Nat

(* Wrap keys are random, so every generated key is a new number.  NoKey    *)
(* stands for a wrap key that is missing, empty or not 32 bytes in base64, *)
(* which all callers treat alike, and for an entry stored in the clear.    *)
NoKey == 0

Entry == [save : Nat, key : Nat, saved : Nat, last : Nat]

ASSUME NoneAssumption == None \notin Entry

VARIABLES
    now,       \* the clock
    session,   \* the keyring's session item
    identity,  \* the keyring's identity item
    wrap,      \* the keyring's wrap key
    pc,        \* where each process is
    cmd,       \* the command it runs
    rec,       \* the entry it has read, or is about to write
    meta,      \* the session it read for its metadata
    t,         \* the instant it read the clock
    then,      \* where it continues after a revocation
    mark,      \* history: the writes completed when it began to lock
    floor,     \* history: the writes a lock had covered when it began to load
    saves,     \* the writes completed
    locked,    \* history: the writes covered by a completed lock
    keys, cmds, crashes, faults

keyring == <<session, identity, wrap>>
local   == <<cmd, rec, meta, t, then>>
history == <<mark, floor, saves, locked>>
counts  == <<keys, cmds, crashes, faults>>
vars    == <<now, keyring, pc, local, history, counts>>

Blank == [save |-> 1, key |-> NoKey, saved |-> 0, last |-> 0]

Init ==
    /\ now = 0
    /\ session = (IF Legacy THEN Blank ELSE None)
    /\ identity = None /\ wrap = NoKey
    /\ pc = [p \in Procs |-> "idle"] /\ cmd = [p \in Procs |-> "none"]
    /\ rec = [p \in Procs |-> Blank] /\ meta = [p \in Procs |-> None]
    /\ t = [p \in Procs |-> 0] /\ then = [p \in Procs |-> "idle"]
    /\ mark = [p \in Procs |-> 0] /\ floor = [p \in Procs |-> 0]
    /\ saves = (IF Legacy THEN 1 ELSE 0) /\ locked = 0
    /\ keys = 0 /\ cmds = 0 /\ crashes = 0 /\ faults = 0

Goto(p, where) == pc' = [pc EXCEPT ![p] = where]

Tick ==
    /\ now < MaxTime /\ now' = now + 1
    /\ UNCHANGED <<keyring, pc, local, history, counts>>

(* unlock loads the passphrase and saves both items again; any command     *)
(* that opens the vault tries the identity first; completion only reads    *)
(* the identity; migrate encrypts a plaintext session.                     *)
Start(p, c) ==
    /\ pc[p] = "idle" /\ (cmds < MaxCmds \/ c = "complete")
    /\ cmds' = IF c = "complete" THEN cmds ELSE cmds + 1
    /\ cmd' = [cmd EXCEPT ![p] = c]
    /\ Goto(p, CASE c = "unlock" -> "lp_get"
                 [] c = "open" -> "li_get"
                 [] c = "complete" -> "li_get"
                 [] c = "migrate" -> "mig_get")
    /\ UNCHANGED <<now, keyring, rec, meta, t, then, history, keys, crashes,
                   faults>>

StartLock(p) ==
    /\ pc[p] = "idle"
    /\ cmd' = [cmd EXCEPT ![p] = "lock"]
    /\ then' = [then EXCEPT ![p] = "idle"]
    /\ mark' = [mark EXCEPT ![p] = saves]
    /\ Goto(p, "rv_session")
    /\ UNCHANGED <<now, keyring, rec, meta, t, floor, saves, locked, counts>>

-----------------------------------------------------------------------------
(* SessionManager::expired, negated *)
Live(m, at) == at - m.last <= Ttl /\ at - m.saved <= MaxLifetime

(* has_legacy_plaintext_session *)
Plaintext(item) == item # None /\ item.key = NoKey

(* decrypt: the wrap key is there and is the one the entry needs. *)
Opens(e) == wrap # NoKey /\ wrap = e.key

(* An expired item is revoked like a lock, and the load then misses. *)
Evict(p, miss) ==
    /\ Goto(p, "rv_session")
    /\ then' = [then EXCEPT ![p] = miss]
    /\ mark' = [mark EXCEPT ![p] = saves]

(* Where a command goes when the identity, or the passphrase, is a miss.   *)
(* Opening a vault loads the passphrase for itself and, after a miss, once *)
(* more on the path it shares with unlock, before anybody is asked.        *)
IdentityMiss(p) == IF cmd[p] = "open" THEN "lp_get" ELSE "idle"
PassphraseMiss(p) == IF cmd[p] = "open" THEN "lp_get" ELSE "prompt"
AsUnlock(p) == cmd' = [cmd EXCEPT ![p] = "unlock"]

(* Mutant: an absent identity is not told from a cached one. *)
LoadIdentityGetUnchecked(p) ==
    /\ pc[p] = "li_get"
    /\ floor' = [floor EXCEPT ![p] = locked]
    /\ Goto(p, "li_meta") /\ rec' = [rec EXCEPT ![p] = identity]
    /\ UNCHANGED <<now, keyring, cmd, meta, t, then, mark, saves, locked, counts>>

(* load_identity(refresh): the identity item... *)
LoadIdentityGet(p) ==
    /\ pc[p] = "li_get"
    /\ floor' = [floor EXCEPT ![p] = locked]
    /\ IF identity = None
       THEN Goto(p, IdentityMiss(p)) /\ UNCHANGED rec
       ELSE Goto(p, "li_meta") /\ rec' = [rec EXCEPT ![p] = identity]
    /\ UNCHANGED <<now, keyring, cmd, meta, t, then, mark, saves, locked, counts>>

(* ...whose expiry is the session's, if there is one... *)
LoadIdentityMeta(p) ==
    LET m == IF session # None THEN session ELSE rec[p] IN
    /\ pc[p] = "li_meta"
    /\ meta' = [meta EXCEPT ![p] = session]
    /\ t' = [t EXCEPT ![p] = now]
    /\ IF Live(m, now)
       THEN Goto(p, "li_decrypt") /\ UNCHANGED <<then, mark>>
       ELSE Evict(p, IdentityMiss(p))
    /\ UNCHANGED <<now, keyring, cmd, rec, floor, saves, locked, counts>>

(* ...decrypted under the wrap key of this moment... *)
LoadIdentityDecrypt(p) ==
    /\ pc[p] = "li_decrypt"
    /\ Goto(p, IF Opens(rec[p]) THEN "li_touch" ELSE IdentityMiss(p))
    /\ UNCHANGED <<now, keyring, local, history, counts>>

(* ...written back with a new last access, and the session after it. *)
LoadIdentityTouch(p) ==
    /\ pc[p] = "li_touch"
    /\ identity' = [rec[p] EXCEPT !.last = t[p]]
    /\ Goto(p, IF meta[p] = None THEN "idle" ELSE "li_touch_session")
    /\ UNCHANGED <<now, session, wrap, local, history, counts>>

LoadIdentityTouchSession(p) ==
    /\ pc[p] = "li_touch_session"
    /\ session' = [meta[p] EXCEPT !.last = t[p]]
    /\ Goto(p, "idle")
    /\ UNCHANGED <<now, identity, wrap, local, history, counts>>

(* Mutant: a plaintext session is accepted, and renewed like the others. *)
LoadPassphraseGetPlain(p) ==
    /\ pc[p] = "lp_get"
    /\ floor' = [floor EXCEPT ![p] = locked]
    /\ t' = [t EXCEPT ![p] = now]
    /\ \/ /\ session = None
          /\ Goto(p, PassphraseMiss(p)) /\ AsUnlock(p)
          /\ UNCHANGED <<rec, then, mark>>
       \/ /\ session # None /\ ~Live(session, now)
          /\ Evict(p, PassphraseMiss(p)) /\ AsUnlock(p)
          /\ UNCHANGED rec
       \/ /\ session # None /\ Live(session, now)
          /\ rec' = [rec EXCEPT ![p] = session]
          /\ Goto(p, IF Plaintext(session) THEN "lp_touch" ELSE "lp_decrypt")
          /\ UNCHANGED <<cmd, then, mark>>
    /\ UNCHANGED <<now, keyring, meta, saves, locked, counts>>

(* load_passphrase: a plaintext session is an error, so a miss. *)
LoadPassphraseGet(p) ==
    /\ pc[p] = "lp_get"
    /\ floor' = [floor EXCEPT ![p] = locked]
    /\ t' = [t EXCEPT ![p] = now]
    /\ \/ /\ session = None \/ (Plaintext(session) /\ Live(session, now))
          /\ Goto(p, PassphraseMiss(p)) /\ AsUnlock(p)
          /\ UNCHANGED <<rec, then, mark>>
       \/ /\ session # None /\ ~Live(session, now)
          /\ Evict(p, PassphraseMiss(p)) /\ AsUnlock(p)
          /\ UNCHANGED rec
       \/ /\ session # None /\ session.key # NoKey /\ Live(session, now)
          /\ rec' = [rec EXCEPT ![p] = session]
          /\ Goto(p, "lp_decrypt")
          /\ UNCHANGED <<cmd, then, mark>>
    /\ UNCHANGED <<now, keyring, meta, saves, locked, counts>>

LoadPassphraseDecrypt(p) ==
    /\ pc[p] = "lp_decrypt"
    /\ \/ Opens(rec[p]) /\ Goto(p, "lp_touch") /\ UNCHANGED cmd
       \/ ~Opens(rec[p]) /\ Goto(p, PassphraseMiss(p)) /\ AsUnlock(p)
    /\ UNCHANGED <<now, keyring, rec, meta, t, then, history, counts>>

(* A hit: the command goes on to save again what it loaded. *)
LoadPassphraseTouch(p) ==
    /\ pc[p] = "lp_touch"
    /\ session' = [rec[p] EXCEPT !.last = t[p]]
    /\ Goto(p, "sp_wrap")
    /\ UNCHANGED <<now, identity, wrap, local, history, counts>>

(* The user types the passphrase, or gives up; a passphrase from the       *)
(* environment is not cached by a command that opens the vault.            *)
Prompt(p) ==
    /\ pc[p] = "prompt"
    /\ rec' = [rec EXCEPT ![p] = Blank]
    /\ pc' \in {[pc EXCEPT ![p] = "sp_wrap"], [pc EXCEPT ![p] = "idle"]}
    /\ UNCHANGED <<now, keyring, cmd, meta, t, then, history, counts>>

-----------------------------------------------------------------------------
(* Mutant: every save generates a wrap key. *)
WrapKeyAlwaysNew(p, have, missing) ==
    /\ rec' = [rec EXCEPT ![p].key = keys + 1]
    /\ keys' = keys + 1
    /\ Goto(p, missing)

(* get_or_create_wrap_key: use the wrap key, or, when there is no usable   *)
(* one, generate one to be set.                                            *)
WrapKey(p, have, missing) ==
    IF wrap # NoKey
    THEN rec' = [rec EXCEPT ![p].key = wrap] /\ Goto(p, have) /\ UNCHANGED keys
    ELSE /\ rec' = [rec EXCEPT ![p].key = keys + 1]
         /\ keys' = keys + 1
         /\ Goto(p, missing)

SetWrapKey(p, at, next) ==
    /\ pc[p] = at
    /\ wrap' = rec[p].key
    /\ Goto(p, next)
    /\ UNCHANGED <<now, session, identity, local, history, counts>>

(* save_passphrase, and then... *)
SavePassphraseWrap(p) ==
    /\ pc[p] = "sp_wrap"
    /\ WrapKey(p, "sp_put", "sp_setwrap")
    /\ t' = [t EXCEPT ![p] = now]
    /\ UNCHANGED <<now, keyring, cmd, meta, then, history, cmds, crashes, faults>>

SavePassphraseSetWrap(p) == SetWrapKey(p, "sp_setwrap", "sp_put")

SavePassphrasePut(p) ==
    /\ pc[p] = "sp_put"
    /\ saves' = saves + 1
    /\ session' = [rec[p] EXCEPT !.save = saves + 1, !.saved = t[p], !.last = t[p]]
    /\ Goto(p, "si_meta")
    /\ UNCHANGED <<now, identity, wrap, local, mark, floor, locked, counts>>

(* ...save_identity, which takes over the session's saved_at. *)
SaveIdentityMeta(p) ==
    /\ pc[p] = "si_meta"
    /\ t' = [t EXCEPT ![p] = now]
    /\ rec' = [rec EXCEPT ![p].saved = IF session # None THEN session.saved ELSE now]
    /\ Goto(p, "si_wrap")
    /\ UNCHANGED <<now, keyring, cmd, meta, then, history, counts>>

SaveIdentityWrap(p) ==
    /\ pc[p] = "si_wrap"
    /\ WrapKey(p, "si_put", "si_setwrap")
    /\ UNCHANGED <<now, keyring, cmd, meta, t, then, history, cmds, crashes, faults>>

SaveIdentitySetWrap(p) == SetWrapKey(p, "si_setwrap", "si_put")

SaveIdentityPut(p) ==
    /\ pc[p] = "si_put"
    /\ saves' = saves + 1
    /\ identity' = [rec[p] EXCEPT !.save = saves + 1, !.last = t[p]]
    /\ Goto(p, "idle")
    /\ UNCHANGED <<now, session, wrap, local, mark, floor, locked, counts>>

(* migrate_session: a plaintext session is written back encrypted. *)
MigrateGet(p) ==
    /\ pc[p] = "mig_get"
    /\ IF Plaintext(session)
       THEN rec' = [rec EXCEPT ![p] = session] /\ Goto(p, "mig_wrap")
       ELSE Goto(p, "idle") /\ UNCHANGED rec
    /\ UNCHANGED <<now, keyring, cmd, meta, t, then, history, counts>>

MigrateWrap(p) ==
    /\ pc[p] = "mig_wrap"
    /\ WrapKey(p, "mig_put", "mig_setwrap")
    /\ UNCHANGED <<now, keyring, cmd, meta, t, then, history, cmds, crashes, faults>>

MigrateSetWrap(p) == SetWrapKey(p, "mig_setwrap", "mig_put")

MigratePut(p) ==
    /\ pc[p] = "mig_put"
    /\ session' = rec[p]
    /\ Goto(p, "idle")
    /\ UNCHANGED <<now, identity, wrap, local, history, counts>>

-----------------------------------------------------------------------------
(* revoke: the session goes first, then the wrap key, then the identity.   *)
(* The failure of the last two is swallowed.                               *)
RevokeSession(p) ==
    /\ pc[p] = "rv_session"
    /\ session' = None
    /\ Goto(p, "rv_wrap")
    /\ UNCHANGED <<now, identity, wrap, local, history, counts>>

(* Mutant: revoke deletes the items and keeps the wrap key. *)
RevokeWrapKept(p) ==
    /\ pc[p] = "rv_wrap"
    /\ Goto(p, "rv_identity")
    /\ UNCHANGED <<now, keyring, local, history, counts>>

RevokeWrap(p) ==
    /\ pc[p] = "rv_wrap"
    /\ \/ wrap' = NoKey /\ UNCHANGED faults
       \/ faults < MaxFaults /\ faults' = faults + 1 /\ UNCHANGED wrap
    /\ Goto(p, "rv_identity")
    /\ UNCHANGED <<now, session, identity, local, history, keys, cmds, crashes>>

RevokeIdentity(p) ==
    /\ pc[p] = "rv_identity"
    /\ \/ identity' = None /\ UNCHANGED faults
       \/ faults < MaxFaults /\ faults' = faults + 1 /\ UNCHANGED identity
    /\ locked' = IF mark[p] > locked THEN mark[p] ELSE locked
    /\ Goto(p, then[p])
    /\ UNCHANGED <<now, session, wrap, local, mark, floor, saves, keys, cmds,
                   crashes>>

(* The process dies, or a keyring call fails: FallbackKeyring then serves  *)
(* it from its own memory to its end, and the keyring sees no more of it.  *)
Crash(p) ==
    /\ pc[p] # "idle" /\ crashes < MaxCrashes
    /\ crashes' = crashes + 1
    /\ Goto(p, "idle")
    /\ UNCHANGED <<now, keyring, local, history, keys, cmds, faults>>

Load(p) ==
    \/ LoadIdentityGet(p) \/ LoadIdentityMeta(p) \/ LoadIdentityDecrypt(p)
    \/ LoadIdentityTouch(p) \/ LoadIdentityTouchSession(p)
    \/ LoadPassphraseGet(p) \/ LoadPassphraseDecrypt(p) \/ LoadPassphraseTouch(p)

Save(p) ==
    \/ SavePassphraseWrap(p) \/ SavePassphraseSetWrap(p) \/ SavePassphrasePut(p)
    \/ SaveIdentityMeta(p) \/ SaveIdentityWrap(p) \/ SaveIdentitySetWrap(p)
    \/ SaveIdentityPut(p)

Migrate(p) ==
    MigrateGet(p) \/ MigrateWrap(p) \/ MigrateSetWrap(p) \/ MigratePut(p)

Revoke(p) == RevokeSession(p) \/ RevokeWrap(p) \/ RevokeIdentity(p)

Next ==
    \/ Tick
    \/ \E p \in Procs :
         \/ \E c \in {"unlock", "open", "complete", "migrate"} : Start(p, c)
         \/ StartLock(p) \/ Prompt(p)
         \/ Load(p) \/ Save(p) \/ Migrate(p) \/ Revoke(p) \/ Crash(p)

Spec == Init /\ [][Next]_vars

-----------------------------------------------------------------------------
Places ==
    {"idle", "li_get", "li_meta", "li_decrypt", "li_touch", "li_touch_session",
     "lp_get", "lp_decrypt", "lp_touch", "prompt",
     "sp_wrap", "sp_setwrap", "sp_put",
     "si_meta", "si_wrap", "si_setwrap", "si_put",
     "mig_get", "mig_wrap", "mig_setwrap", "mig_put",
     "rv_session", "rv_wrap", "rv_identity"}

(* Type correctness of the keyring, of the processes and of the history.   *)
TypeOK ==
    /\ now \in Nat
    /\ session \in Entry \cup {None} /\ identity \in Entry \cup {None}
    /\ wrap \in Nat
    /\ pc \in [Procs -> Places]
    /\ cmd \in [Procs -> {"none", "unlock", "open", "complete", "migrate", "lock"}]
    /\ rec \in [Procs -> Entry] /\ meta \in [Procs -> Entry \cup {None}]
    /\ t \in [Procs -> Nat] /\ then \in [Procs -> {"idle", "lp_get", "prompt"}]
    /\ mark \in [Procs -> Nat] /\ floor \in [Procs -> Nat]
    /\ saves \in Nat /\ locked \in Nat
    /\ keys \in Nat /\ cmds \in Nat /\ crashes \in Nat /\ faults \in Nat

(* A load that succeeds: load_identity or load_passphrase has decrypted.   *)
Hit(p) == pc[p] \in {"li_touch", "lp_touch"}

(* Once a lock (or the eviction of an expired session) has completed, no   *)
(* load that begins later succeeds with an item written before that lock   *)
(* began, although commands in flight during the lock write their stale    *)
(* copies of the items back: revoke destroys the wrap key they need.  The  *)
(* one exception is the plaintext session of an old version, save 1: a     *)
(* migration that has read it before the lock encrypts it anew after it.   *)
RevokeIsFinal ==
    \A p \in Procs : Hit(p) =>
        rec[p].save > floor[p] \/ (Legacy /\ rec[p].save = 1)

(* One process after the other, with crashes anywhere: the passphrase is   *)
(* asked for only when no encrypted session is cached.  A session is never *)
(* stored under another wrap key than the stored one, which is why revoke  *)
(* deletes the session before the key and save sets the key before it.     *)
PromptMeansEmpty ==
    \A p \in Procs : pc[p] = "prompt" => session = None \/ Plaintext(session)

(* A plaintext session that was migrated, replaced or revoked never comes  *)
(* back, although loads write stale copies of the session they have read.  *)
PlaintextStaysGone == [][Plaintext(session') => Plaintext(session)]_vars
=============================================================================
