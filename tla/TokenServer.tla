----------------------------- MODULE TokenServer -----------------------------
(***************************************************************************)
(* The serve process in front of the token registry: the last registry it  *)
(* could read (LAST_GOOD_REGISTRY), the poller that keeps it fresh and the *)
(* bearer lookup of a call.  The cache has a lock; the registry file is    *)
(* written by other processes, and by the OAuth routes, at any time.       *)
(***************************************************************************)
EXTENDS TokenRegistry

CONSTANTS
    Readers,  \* threads serving calls
    Poller    \* the thread of watch_registry

Threads == Readers \cup {Poller}

ASSUME ServerAssumption == Poller \notin Readers /\ None \notin Threads

VARIABLES
    cache,     \* LAST_GOOD_REGISTRY
    holder,    \* the thread that holds its lock
    pc,        \* where each thread that reads the registry stands
    snap,      \* the registry it has read
    token,     \* the bearer a call was shown
    known,     \* history: the cache said it is revoked when the call came in
    revived    \* history: such a call was admitted

loads == <<cache, holder, pc, snap, token, known, revived>>
vars == <<now, registry, loads>>

Init ==
    /\ now = 0 /\ InitRegistry
    /\ holder = None /\ cache = Nothing
    /\ pc = [p \in Threads |-> "idle"] /\ snap = [p \in Threads |-> None]
    /\ token = [p \in Readers |-> None] /\ known = [p \in Readers |-> FALSE]
    /\ revived = FALSE

-----------------------------------------------------------------------------
(* Reading the registry.                                                   *)

(* A call arrives with the bearer of a token that was issued. *)
Present(p, t) ==
    /\ pc[p] = "idle" /\ t <= issued
    /\ pc' = [pc EXCEPT ![p] = "load"]
    /\ token' = [token EXCEPT ![p] = t]
    /\ known' = [known EXCEPT ![p] = Revoked(cache, t)]
    /\ UNCHANGED <<now, registry, cache, holder, snap, revived>>

(* The poller looks at the file.  Its identity is recorded before the file  *)
(* is read; a file that is not there, or has not changed, is left alone.    *)
PollStat ==
    /\ pc[Poller] = "idle"
    /\ file.st # "gone" /\ changed
    /\ changed' = FALSE
    /\ pc' = [pc EXCEPT ![Poller] = "load"]
    /\ UNCHANGED <<now, file, issued, ended, cache, holder, snap, token, known, revived>>

(* What load_token_registry reads; None if the file cannot be read. *)
Contents == IF file.st = "ok" THEN file.recs ELSE None

(* Mutant: the file is read before the lock is taken. *)
LoadReadUnlocked(p) ==
    /\ pc[p] = "load"
    /\ holder' = p
    /\ snap' = [snap EXCEPT ![p] = Contents]
    /\ pc' = [pc EXCEPT ![p] = "publish"]
    /\ UNCHANGED <<now, registry, cache, token, known, revived>>

(* load_token_registry takes the lock and reads the file ... *)
LoadRead(p) ==
    /\ pc[p] = "load" /\ holder = None
    /\ holder' = p
    /\ snap' = [snap EXCEPT ![p] = Contents]
    /\ pc' = [pc EXCEPT ![p] = "publish"]
    /\ UNCHANGED <<now, registry, cache, token, known, revived>>

(* ... replaces the cache if the file could be read, and lets the lock go. *)
Publish(p) ==
    /\ pc[p] = "publish"
    /\ holder' = None
    /\ cache' = IF snap[p] = None THEN cache ELSE snap[p]
    /\ snap' = [snap EXCEPT ![p] = None]

(* Mutant: the poller records the identity once the file is loaded. *)
PollPublishStamps ==
    /\ Publish(Poller)
    /\ pc' = [pc EXCEPT ![Poller] = "idle"]
    /\ changed' = FALSE
    /\ UNCHANGED <<now, file, issued, ended, token, known, revived>>

PollPublish ==
    /\ Publish(Poller)
    /\ pc' = [pc EXCEPT ![Poller] = "idle"]
    /\ UNCHANGED <<now, registry, token, known, revived>>

(* lookup_raw_bearer: the token must be in the map, not revoked nor expired. *)
(* Nothing but the clock moves between a registry and the decision by it.    *)
Decide(p, recs) ==
    /\ revived' = (revived \/ (known[p] /\ IsActive(recs, token[p])))
    /\ pc' = [pc EXCEPT ![p] = "idle"]
    /\ token' = [token EXCEPT ![p] = None]
    /\ known' = [known EXCEPT ![p] = FALSE]

(* A call decides by what it has read ... *)
CallPublish(p) ==
    /\ Publish(p) /\ snap[p] # None
    /\ Decide(p, snap[p])
    /\ UNCHANGED <<now, registry>>

(* ... or, in lookup_token, by the cache when the file cannot be read. *)
CallFails(p) ==
    /\ Publish(p) /\ snap[p] = None
    /\ pc' = [pc EXCEPT ![p] = "fallback"]
    /\ UNCHANGED <<now, registry, token, known, revived>>

Fallback(p) ==
    /\ pc[p] = "fallback" /\ holder = None
    /\ Decide(p, cache)
    /\ UNCHANGED <<now, registry, cache, holder, snap>>

-----------------------------------------------------------------------------
Tick ==
    /\ now < MaxTime /\ now' = now + 1
    /\ UNCHANGED <<registry, loads>>

(* Other processes, and the OAuth routes of this one, change the file. *)
Granted == \E a \in Agents : CreateWithRefresh(a) /\ UNCHANGED now

Elsewhere == (RegistryNext \/ Granted) /\ UNCHANGED loads

(* The process ends and is started again, which it is only if it can read   *)
(* the registry.                                                            *)
Restart ==
    /\ file.st = "ok" /\ cache' = file.recs
    /\ holder' = None /\ changed' = TRUE
    /\ pc' = [p \in Threads |-> "idle"] /\ snap' = [p \in Threads |-> None]
    /\ token' = [p \in Readers |-> None] /\ known' = [p \in Readers |-> FALSE]
    /\ UNCHANGED <<now, file, issued, ended, revived>>

Next ==
    \/ Tick \/ Elsewhere \/ Restart \/ PollStat \/ PollPublish
    \/ \E p \in Threads : LoadRead(p)
    \/ \E p \in Readers : CallPublish(p) \/ CallFails(p) \/ Fallback(p)
    \/ \E p \in Readers, t \in Ids : Present(p, t)

Spec == Init /\ [][Next]_vars

(* The poller wakes every REGISTRY_POLL_INTERVAL, and a thread that holds   *)
(* the lock of the cache only reads a small file.                           *)
FairSpec ==
    /\ Spec
    /\ WF_vars(PollStat) /\ WF_vars(PollPublish) /\ SF_vars(LoadRead(Poller))
    /\ \A p \in Readers : WF_vars(CallPublish(p) \/ CallFails(p))

-----------------------------------------------------------------------------
(* Types; exactly the thread about to publish holds the lock of the cache.   *)
TypeOK ==
    /\ FileTypeOK
    /\ cache \in Maps /\ holder \in Threads \cup {None}
    /\ pc \in [Threads -> {"idle", "load", "publish", "fallback"}]
    /\ snap \in [Threads -> Maps \cup {None}]
    /\ token \in [Readers -> Ids \cup {None}] /\ known \in [Readers -> BOOLEAN]
    /\ revived \in BOOLEAN
    /\ \A p \in Threads : pc[p] = "publish" <=> holder = p
    /\ \A p \in Readers : token[p] = None <=> pc[p] = "idle"

(* A revocation the process has seen is final for it: a request that comes   *)
(* in after the cache said a token is revoked is not admitted with that      *)
(* token, whether the file is then corrupted or deleted and however many     *)
(* threads load it at once (lookup_token, load_token_registry).              *)
RevocationSticks == ~revived

(* If the file is left alone and can be read, the cache comes to hold it,    *)
(* without any request (watch_registry, poll_registry_once).                 *)
PollerCatchesUp == (<>[](file.st = "ok")) => <>[](cache = file.recs)
=============================================================================
