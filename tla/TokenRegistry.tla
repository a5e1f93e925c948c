---------------------------- MODULE TokenRegistry ----------------------------
(***************************************************************************)
(* The token registry file of a vault: the access tokens of the agents,    *)
(* with the refresh token each may be renewed by.                          *)
(*                                                                         *)
(* Every operation takes the vault's write lock, reads the file, and       *)
(* publishes the whole of it by one rename, so an operation is one step.   *)
(* A token's identifier, bearer and refresh token are random and never     *)
(* repeat; here they are one number, given out in order.  A grant is the   *)
(* first token of a chain of refreshes.  An operation that is refused, or  *)
(* whose write fails, leaves everything as it is and is no step.           *)
(***************************************************************************)
EXTENDS Integers

CONSTANTS
    Agents,      \* owners of tokens
    AccessTtl,   \* access_token_ttl
    RefreshTtl,  \* refresh_token_ttl
    MaxTokens,   \* bound: tokens ever issued
    MaxTime,     \* bound: the clock
    Ttls,        \* what operators let a token live for; None is forever
    None         \* no record, no expiry, nothing loaded

ASSUME RegistryAssumption ==
    /\ AccessTtl \in Nat \ {0} /\ RefreshTtl \in Nat \ {0}
    /\ MaxTokens \in Nat /\ MaxTime \in Nat
    /\ Ttls \subseteq 1..AccessTtl \cup {None}
    /\ None \notin Nat

VARIABLES
    now,     \* the clock
    file,    \* the registry file: what it holds, and whether it can be read
    changed, \* the identity of the file is not the one the poller saw last
    issued,  \* tokens issued so far
    ended    \* history: the grants a revocation was published for

registry == <<file, changed, issued, ended>>

Ids == 1..MaxTokens
Instants == 0..(MaxTime + AccessTtl + RefreshTtl)
Expiry == Instants \cup {None}

(* TokenRecord; grant is history. *)
Records == [grant : Ids, agent : Agents, revoked : BOOLEAN, exp : Expiry, refresh : Expiry]
Maps == [Ids -> Records \cup {None}]
Nothing == [t \in Ids |-> None]

ASSUME NoneAssumption == None \notin Records /\ None \notin Maps

(* A token that is in the map and was not revoked. *)
Live(recs, t) == recs[t] # None /\ ~recs[t].revoked

Revoked(recs, t) == recs[t] # None /\ recs[t].revoked

(* Expiry is strict for the access token, and not for the refresh token. *)
IsExpired(r) == r.exp # None /\ now > r.exp
IsActive(recs, t) == Live(recs, t) /\ ~IsExpired(recs[t])
Refreshable(recs, t) ==
    Live(recs, t) /\ recs[t].refresh # None /\ now < recs[t].refresh

PurgeExpired(recs) ==
    [t \in Ids |-> IF recs[t] # None /\ IsExpired(recs[t]) THEN None ELSE recs[t]]

Revoking(recs, T) ==
    [t \in Ids |-> IF t \in T THEN [recs[t] EXCEPT !.revoked = TRUE] ELSE recs[t]]

Owned(recs, a) == {t \in Ids : Live(recs, t) /\ recs[t].agent = a}

GrantsOf(recs, T) == {recs[t].grant : t \in T}

(* A file that is gone reads as an empty registry, a corrupt one as an error. *)
Readable == file.st # "bad"

InitRegistry ==
    /\ file = [st |-> "ok", recs |-> Nothing]
    /\ changed = TRUE /\ issued = 0 /\ ended = {}

Write(recs) ==
    /\ file' = [st |-> "ok", recs |-> recs]
    /\ changed' = TRUE

(* Adds the next token to recs and publishes the result. *)
Insert(recs, g, a, exp, refresh) ==
    /\ issued < MaxTokens /\ issued' = issued + 1
    /\ Write([recs EXCEPT ![issued + 1] =
         [grant |-> g, agent |-> a, revoked |-> FALSE, exp |-> exp, refresh |-> refresh]])

Until(ttl) == IF ttl = None THEN None ELSE now + ttl

(* create: a token without a refresh token; it may live forever. *)
Create(a, ttl) ==
    /\ Readable
    /\ Insert(file.recs, issued + 1, a, Until(ttl), None)
    /\ UNCHANGED ended

(* create_with_refresh *)
CreateWithRefresh(a) ==
    /\ Readable
    /\ Insert(file.recs, issued + 1, a, now + AccessTtl, now + RefreshTtl)
    /\ UNCHANGED ended

(* Mutant: the token that was renewed stays good until it expires. *)
RotateViaRefreshKeepsOld(t) ==
    /\ Readable /\ Refreshable(file.recs, t)
    /\ LET old == file.recs[t]
       IN  Insert(file.recs, old.grant, old.agent,
                  IF old.exp # None /\ now >= old.exp THEN now + AccessTtl ELSE old.exp,
                  old.refresh)
    /\ UNCHANGED ended

(* rotate_via_refresh_token_with_access_ttl: the old token is revoked and   *)
(* its successor inserted by one write.  The access token keeps its         *)
(* deadline unless it has passed, the refresh token always keeps its own.   *)
RotateViaRefresh(t) ==
    /\ Readable /\ Refreshable(file.recs, t)
    /\ LET old == file.recs[t]
       IN  Insert(Revoking(file.recs, {t}), old.grant, old.agent,
                  IF old.exp # None /\ now >= old.exp THEN now + AccessTtl ELSE old.exp,
                  old.refresh)
    /\ UNCHANGED ended

(* revoke: expired records are swept first, so one of them is not found.    *)
(* The sweep is written only when the revocation is.                        *)
Revoke(a, t) ==
    /\ Readable
    /\ LET recs == PurgeExpired(file.recs)
       IN  /\ t \in Owned(recs, a)
           /\ Write(Revoking(recs, {t}))
           /\ ended' = ended \cup {recs[t].grant}
    /\ UNCHANGED issued

(* Mutant: the tokens are revoked in the map that was read, and the sweep is *)
(* left to the next command.                                                 *)
RevokeAllKeepsExpired(a) ==
    /\ Readable
    /\ LET recs == PurgeExpired(file.recs)
           mine == Owned(recs, a)
       IN  /\ mine # {}
           /\ Write(Revoking(file.recs, mine))
           /\ ended' = ended \cup GrantsOf(file.recs, Owned(file.recs, a))
    /\ UNCHANGED issued

(* revoke_all_for_agent, of agent uninstall and agent upgrade.  Nothing is   *)
(* written when no token is left to revoke after the sweep.                  *)
RevokeAll(a) ==
    /\ Readable
    /\ LET recs == PurgeExpired(file.recs)
           mine == Owned(recs, a)
       IN  /\ mine # {}
           /\ Write(Revoking(recs, mine))
           /\ ended' = ended \cup GrantsOf(file.recs, Owned(file.recs, a))
    /\ UNCHANGED issued

(* rotate: revoke every token of the agent and create one, by one write. *)
Rotate(a, ttl) ==
    /\ Readable
    /\ LET recs == PurgeExpired(file.recs)
       IN  /\ Insert(Revoking(recs, Owned(recs, a)), issued + 1, a, Until(ttl), None)
           /\ ended' = ended \cup GrantsOf(file.recs, Owned(file.recs, a))

(* Something outside the program corrupts or deletes the file. *)
Damage(st) ==
    /\ file' = [st |-> st, recs |-> Nothing]
    /\ changed' = TRUE
    /\ UNCHANGED <<issued, ended>>

RegistryNext ==
    /\ \/ \E a \in Agents, ttl \in Ttls : Create(a, ttl) \/ Rotate(a, ttl)
       \/ \E t \in Ids : RotateViaRefresh(t)
       \/ \E a \in Agents, t \in Ids : Revoke(a, t)
       \/ \E a \in Agents : RevokeAll(a)
       \/ \E st \in {"bad", "gone"} : Damage(st)
    /\ UNCHANGED now

-----------------------------------------------------------------------------
FileTypeOK ==
    /\ now \in 0..MaxTime
    /\ file \in [st : {"ok", "bad", "gone"}, recs : Maps]
    /\ changed \in BOOLEAN /\ issued \in 0..MaxTokens
    /\ ended \subseteq Ids

(* A refresh token is good once: however often a client repeats a refresh    *)
(* whose answer it lost, and whatever the operator revokes meanwhile, at     *)
(* most one token of a grant is live (rotate_via_refresh_token_inner).       *)
OneLivePerGrant ==
    \A t, u \in Ids :
        Live(file.recs, t) /\ Live(file.recs, u) /\ file.recs[t].grant = file.recs[u].grant
            => t = u

(* Once a revocation of a grant is written, no token of it is ever live      *)
(* again: neither a refresh of an access token that had expired when the     *)
(* agent was uninstalled, nor a rebuilt file (revoke, revoke_all_for_agent,  *)
(* rotate).                                                                  *)
EndedStaysEnded ==
    \A t \in Ids : Live(file.recs, t) => file.recs[t].grant \notin ended

(* What the comment of revoke says: it returns false only for an unknown     *)
(* token and for one that is revoked.  So it must find every token that can   *)
(* still be renewed; it does not find one whose access has expired.           *)
RevokeFinds ==
    \A t \in Ids : Refreshable(file.recs, t) =>
        t \in Owned(PurgeExpired(file.recs), file.recs[t].agent)
=============================================================================
