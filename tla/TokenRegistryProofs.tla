------------------------- MODULE TokenRegistryProofs -------------------------
(***************************************************************************)
(* What every operation on the token registry preserves.  A write other    *)
(* than that of a new token only weakens the map that was read: it drops   *)
(* records and revokes tokens.  The new token has a number, and, unless it *)
(* renews another one, a grant that nothing in the file has.               *)
(***************************************************************************)
EXTENDS TokenRegistry, TLAPS

(* What the identifiers mean: nothing is in the file before it is issued.  *)
Numbered ==
    /\ \A t \in Ids : file.recs[t] # None => t <= issued /\ file.recs[t].grant <= issued
    /\ \A g \in ended : g <= issued

(* The inductive invariant of the file. *)
RegInv == FileTypeOK /\ Numbered /\ OneLivePerGrant /\ EndedStaysEnded

(* new holds at most what old holds, with the same owner and grant. *)
Weaker(new, old) ==
    \A t \in Ids : new[t] # None =>
        /\ old[t] # None
        /\ new[t].grant = old[t].grant /\ new[t].agent = old[t].agent
        /\ Live(new, t) => Live(old, t)

LEMMA Booleans ==
    ASSUME NEW r \in Records
    PROVE  /\ r.grant \in Ids /\ r.agent \in Agents /\ r.revoked \in BOOLEAN
           /\ r.exp \in Expiry /\ r.refresh \in Expiry
BY DEF Records

(* Revoking a record changes nothing else of it. *)
LEMMA RevokedRecord ==
    ASSUME NEW r \in Records
    PROVE  LET q == [r EXCEPT !.revoked = TRUE]
           IN  /\ q \in Records /\ q # None
               /\ q.grant = r.grant /\ q.agent = r.agent /\ q.revoked
BY NoneAssumption DEF Records

LEMMA PurgedMap ==
    ASSUME NEW recs \in Maps
    PROVE  PurgeExpired(recs) \in Maps /\ Weaker(PurgeExpired(recs), recs)
BY DEF PurgeExpired, Maps, Weaker, Live

LEMMA RevokingMap ==
    ASSUME NEW recs \in Maps, NEW T, \A t \in Ids : t \in T => recs[t] # None
    PROVE  /\ Revoking(recs, T) \in Maps
           /\ Weaker(Revoking(recs, T), recs)
           /\ \A t \in Ids : t \in T => ~Live(Revoking(recs, T), t)
<1>1. ASSUME NEW t \in Ids, t \in T
      PROVE  /\ Revoking(recs, T)[t] = [recs[t] EXCEPT !.revoked = TRUE]
             /\ recs[t] \in Records
  BY <1>1 DEF Revoking, Maps
<1>2. ASSUME NEW t \in Ids, t \notin T
      PROVE  Revoking(recs, T)[t] = recs[t]
  BY <1>2 DEF Revoking
<1>3. Revoking(recs, T) \in Maps
  <2>1. \A t \in Ids : Revoking(recs, T)[t] \in Records \cup {None}
    BY <1>1, <1>2, RevokedRecord DEF Maps
  <2> QED BY <2>1 DEF Maps, Revoking
<1>4. Weaker(Revoking(recs, T), recs)
  BY <1>1, <1>2, RevokedRecord DEF Weaker, Live
<1>5. \A t \in Ids : t \in T => ~Live(Revoking(recs, T), t)
  BY <1>1, RevokedRecord DEF Live
<1> QED BY <1>3, <1>4, <1>5

LEMMA WeakerTrans ==
    ASSUME NEW x, NEW y, NEW z, Weaker(x, y), Weaker(y, z)
    PROVE  Weaker(x, z)
BY DEF Weaker

LEMMA Itself == \A x : Weaker(x, x)
BY DEF Weaker

(* A write of a weaker map, for which at most the grants of tokens it no    *)
(* longer holds live were ended.                                            *)
LEMMA WriteWeaker ==
    ASSUME RegInv, NEW recs \in Maps, Weaker(recs, file.recs), Write(recs),
           UNCHANGED <<now, issued>>,
           ended' \subseteq Ids, \A g \in ended' : g <= issued,
           \A t \in Ids : Live(recs, t) => recs[t].grant \notin ended'
    PROVE  RegInv'
<1> file'.recs = recs /\ file' = [st |-> "ok", recs |-> recs] /\ changed' = TRUE
  BY DEF Write
<1>1. FileTypeOK'
  BY DEF RegInv, FileTypeOK
<1>2. Numbered'
  BY DEF RegInv, Numbered, Weaker
<1>3. OneLivePerGrant'
  BY DEF RegInv, OneLivePerGrant, Weaker, Live
<1>4. EndedStaysEnded'
  BY DEF EndedStaysEnded, Live
<1> QED BY <1>1, <1>2, <1>3, <1>4 DEF RegInv

(* The same with a new token, whose grant is new or belongs to no token     *)
(* that is still live and was not ended.                                    *)
LEMMA InsertWeaker ==
    ASSUME RegInv, NEW recs \in Maps, Weaker(recs, file.recs),
           NEW g \in Nat, NEW a \in Agents, NEW exp \in Expiry, NEW refresh \in Expiry,
           Insert(recs, g, a, exp, refresh),
           UNCHANGED now,
           g >= 1, g <= issued + 1,
           ended' \subseteq Ids, \A h \in ended' : h <= issued,
           \A t \in Ids : Live(recs, t) => recs[t].grant \notin ended' /\ recs[t].grant # g,
           g \notin ended'
    PROVE  RegInv'
<1> DEFINE n == issued + 1
           r == [grant |-> g, agent |-> a, revoked |-> FALSE, exp |-> exp, refresh |-> refresh]
<1>0. issued \in Nat /\ MaxTokens \in Nat /\ issued < MaxTokens /\ n \in Ids /\ g \in Ids
  BY RegistryAssumption DEF RegInv, FileTypeOK, Insert, Ids
<1>1. /\ issued' = n
      /\ file' = [st |-> "ok", recs |-> [recs EXCEPT ![n] = r]] /\ changed' = TRUE
  BY DEF Insert, Write
<1>2. r \in Records /\ r # None /\ r.grant = g /\ ~r.revoked
  <2>1. r \in Records
    BY <1>0 DEF Records
  <2>2. r # None
    BY <2>1, NoneAssumption
  <2> QED BY <2>1, <2>2
<1>3. /\ file'.recs \in Maps /\ file'.recs[n] = r
      /\ \A t \in Ids : t # n => file'.recs[t] = recs[t]
  BY <1>0, <1>1, <1>2 DEF Maps
<1> HIDE DEF r
<1>4. FileTypeOK'
  <2>1. issued' \in 0..MaxTokens
    BY <1>0, <1>1
  <2> QED BY <1>1, <1>3, <2>1 DEF RegInv, FileTypeOK
<1>5. Numbered'
  <2>1. ASSUME NEW t \in Ids, file'.recs[t] # None
        PROVE  t <= n /\ file'.recs[t].grant <= n
    <3>1. CASE t = n
      BY <3>1, <1>0, <1>2, <1>3
    <3>2. CASE t # n
      <4>1. file.recs[t] # None /\ file'.recs[t].grant = file.recs[t].grant
        BY <3>2, <2>1, <1>3 DEF Weaker
      <4>2. t <= issued /\ file.recs[t].grant <= issued /\ file.recs[t] \in Records
        BY <4>1 DEF RegInv, Numbered, FileTypeOK, Maps
      <4>3. t \in Int /\ file.recs[t].grant \in Int
        BY <4>2, Booleans DEF Ids
      <4> QED BY <4>1, <4>2, <4>3, <1>0
    <3> QED BY <3>1, <3>2
  <2>2. \A h \in ended' : h <= n
    BY <1>0 DEF Ids
  <2> QED BY <2>1, <2>2, <1>1 DEF Numbered
<1>6. ASSUME NEW t \in Ids, Live(file'.recs, t), t # n
      PROVE  /\ Live(recs, t) /\ Live(file.recs, t)
             /\ file'.recs[t].grant = recs[t].grant /\ recs[t].grant = file.recs[t].grant
             /\ recs[t].grant # g /\ recs[t].grant \notin ended'
  BY <1>6, <1>3 DEF Live, Weaker
<1>7. OneLivePerGrant'
  BY <1>2, <1>3, <1>6, <1>0 DEF RegInv, OneLivePerGrant
<1>8. EndedStaysEnded'
  BY <1>2, <1>3, <1>6, <1>0 DEF EndedStaysEnded
<1> QED BY <1>4, <1>5, <1>7, <1>8 DEF RegInv

LEMMA Clock ==
    ASSUME FileTypeOK
    PROVE  /\ now \in Nat /\ now + AccessTtl \in Expiry /\ now + RefreshTtl \in Expiry
           /\ None \in Expiry
           /\ \A ttl \in Ttls : Until(ttl) \in Expiry
<1>1. now \in 0..MaxTime /\ AccessTtl \in Nat /\ RefreshTtl \in Nat /\ MaxTime \in Nat
  BY RegistryAssumption DEF FileTypeOK
<1>2. \A ttl \in Ttls : ttl # None => ttl \in 1..AccessTtl
  BY RegistryAssumption
<1> QED BY <1>1, <1>2 DEF Expiry, Instants, Until

(* The agent's live tokens, with or without the expired ones. *)
LEMMA SweptOwned ==
    ASSUME NEW recs \in Maps, NEW a, NEW t \in Ids,
           Live(PurgeExpired(recs), t), recs[t].agent = a
    PROVE  t \in Owned(PurgeExpired(recs), a)
BY DEF Owned, PurgeExpired, Live

LEMMA CreateOK ==
    ASSUME RegInv, NEW a \in Agents, NEW ttl \in Ttls, Create(a, ttl), UNCHANGED now
    PROVE  RegInv'
<1>1. file.recs \in Maps /\ issued \in Nat
  BY DEF RegInv, FileTypeOK
<1>2. \A t \in Ids : Live(file.recs, t) => file.recs[t].grant # issued + 1
  BY <1>1, Booleans DEF RegInv, Numbered, Live, Maps, Ids
<1>3. issued + 1 \notin ended /\ \A g \in ended : g <= issued
  BY <1>1 DEF RegInv, Numbered
<1>4. \A t \in Ids : Live(file.recs, t) => file.recs[t].grant \notin ended
  BY DEF RegInv, EndedStaysEnded
<1>5. Until(ttl) \in Expiry /\ None \in Expiry
  BY Clock DEF RegInv
<1> QED
  BY <1>1, <1>2, <1>3, <1>4, <1>5, Itself, InsertWeaker DEF Create, RegInv, FileTypeOK

LEMMA CreateWithRefreshOK ==
    ASSUME RegInv, NEW a \in Agents, CreateWithRefresh(a), UNCHANGED now
    PROVE  RegInv'
<1>1. file.recs \in Maps /\ issued \in Nat
  BY DEF RegInv, FileTypeOK
<1>2. \A t \in Ids : Live(file.recs, t) => file.recs[t].grant # issued + 1
  BY <1>1, Booleans DEF RegInv, Numbered, Live, Maps, Ids
<1>3. issued + 1 \notin ended /\ \A g \in ended : g <= issued
  BY <1>1 DEF RegInv, Numbered
<1>4. \A t \in Ids : Live(file.recs, t) => file.recs[t].grant \notin ended
  BY DEF RegInv, EndedStaysEnded
<1>5. now + AccessTtl \in Expiry /\ now + RefreshTtl \in Expiry
  BY Clock DEF RegInv
<1> QED
  BY <1>1, <1>2, <1>3, <1>4, <1>5, Itself, InsertWeaker
  DEF CreateWithRefresh, RegInv, FileTypeOK

(* The successor of a token takes over its grant, which no other live       *)
(* token has, at the moment the token is revoked.                           *)
LEMMA RotateViaRefreshOK ==
    ASSUME RegInv, NEW t \in Ids, RotateViaRefresh(t), UNCHANGED now
    PROVE  RegInv'
<1> DEFINE old == file.recs[t]
           recs == Revoking(file.recs, {t})
           exp == IF old.exp # None /\ now >= old.exp THEN now + AccessTtl ELSE old.exp
<1>1. file.recs \in Maps /\ issued \in Nat /\ Live(file.recs, t)
  BY DEF RegInv, FileTypeOK, RotateViaRefresh, Refreshable
<1>2. old \in Records /\ old # None /\ t \in Ids
  BY <1>1 DEF Maps, Live
<1>3. /\ old.grant \in Nat /\ old.grant >= 1 /\ old.grant <= issued + 1
      /\ old.agent \in Agents /\ exp \in Expiry /\ old.refresh \in Expiry
  <2>1. old.grant <= issued /\ old.grant \in Ids
    BY <1>2, Booleans DEF RegInv, Numbered
  <2>2. exp \in Expiry
    BY <1>2, Booleans, Clock DEF RegInv
  <2> QED BY <2>1, <2>2, <1>1, <1>2, Booleans DEF Ids
<1>4. recs \in Maps /\ Weaker(recs, file.recs) /\ ~Live(recs, t)
  BY <1>1, <1>2, RevokingMap
<1>5. \A u \in Ids : Live(recs, u) => recs[u].grant \notin ended /\ recs[u].grant # old.grant
  <2> SUFFICES ASSUME NEW u \in Ids, Live(recs, u)
               PROVE  recs[u].grant \notin ended /\ recs[u].grant # old.grant
    OBVIOUS
  <2>1. Live(file.recs, u) /\ recs[u].grant = file.recs[u].grant /\ u # t
    BY <1>4 DEF Weaker, Live
  <2> QED BY <2>1, <1>1 DEF RegInv, OneLivePerGrant, EndedStaysEnded
<1>6. old.grant \notin ended /\ \A g \in ended : g <= issued
  BY <1>1 DEF RegInv, EndedStaysEnded, Numbered
<1>7. Insert(recs, old.grant, old.agent, exp, old.refresh) /\ ended' = ended
  BY DEF RotateViaRefresh
<1>8. ended \subseteq Ids
  BY DEF RegInv, FileTypeOK
<1> HIDE DEF old, recs, exp
<1> QED BY <1>3, <1>4, <1>5, <1>6, <1>7, <1>8, InsertWeaker

LEMMA RevokeOK ==
    ASSUME RegInv, NEW a \in Agents, NEW t \in Ids, Revoke(a, t), UNCHANGED now
    PROVE  RegInv'
<1> DEFINE swept == PurgeExpired(file.recs)
           recs == Revoking(swept, {t})
<1>1. file.recs \in Maps /\ issued \in Nat /\ ended \subseteq Ids
  BY DEF RegInv, FileTypeOK
<1>2. swept \in Maps /\ Weaker(swept, file.recs)
  BY <1>1, PurgedMap
<1>3. /\ Live(swept, t) /\ Write(recs) /\ ended' = ended \cup {swept[t].grant}
      /\ issued' = issued
  BY DEF Revoke, Owned
<1>4. Live(file.recs, t) /\ swept[t].grant = file.recs[t].grant
  BY <1>2, <1>3 DEF Weaker, Live
<1>5. file.recs[t].grant \in Ids /\ file.recs[t].grant <= issued
  BY <1>1, <1>4, Booleans DEF RegInv, Numbered, Live, Maps
<1>6. recs \in Maps /\ Weaker(recs, swept) /\ ~Live(recs, t)
  BY <1>2, <1>3, RevokingMap DEF Live
<1> HIDE DEF swept, recs
<1>7. Weaker(recs, file.recs)
  BY <1>2, <1>6, WeakerTrans
<1>8. \A u \in Ids : Live(recs, u) => recs[u].grant \notin ended'
  <2> SUFFICES ASSUME NEW u \in Ids, Live(recs, u)
               PROVE  recs[u].grant \notin ended'
    OBVIOUS
  <2>1. Live(file.recs, u) /\ recs[u].grant = file.recs[u].grant /\ u # t
    BY <1>6, <1>7 DEF Weaker, Live
  <2> QED BY <2>1, <1>3, <1>4 DEF RegInv, OneLivePerGrant, EndedStaysEnded
<1>9. ended' \subseteq Ids /\ \A g \in ended' : g <= issued
  BY <1>1, <1>3, <1>4, <1>5 DEF RegInv, Numbered
<1> QED BY <1>3, <1>6, <1>7, <1>8, <1>9, WriteWeaker

(* Sweeping the file and revoking the agent's tokens in what is left ends   *)
(* every grant the agent had, those of the swept records too.               *)
LEMMA AgentRevoked ==
    ASSUME RegInv, NEW a \in Agents
    PROVE  LET swept == PurgeExpired(file.recs)
               recs == Revoking(swept, Owned(swept, a))
               over == ended \cup GrantsOf(file.recs, Owned(file.recs, a))
           IN  /\ recs \in Maps /\ Weaker(recs, file.recs)
               /\ \A u \in Ids : Live(recs, u) => recs[u].grant \notin over
               /\ over \subseteq Ids /\ \A g \in over : g <= issued
<1> DEFINE swept == PurgeExpired(file.recs)
           mine == Owned(swept, a)
           recs == Revoking(swept, mine)
           over == ended \cup GrantsOf(file.recs, Owned(file.recs, a))
<1>1. file.recs \in Maps /\ issued \in Nat /\ ended \subseteq Ids
  BY DEF RegInv, FileTypeOK
<1>2. swept \in Maps /\ Weaker(swept, file.recs)
  BY <1>1, PurgedMap
<1>3. \A t \in Ids : t \in mine => swept[t] # None
  BY DEF Owned, Live
<1>4. recs \in Maps /\ Weaker(recs, swept) /\ \A t \in Ids : t \in mine => ~Live(recs, t)
  <2> HIDE DEF swept, mine
  <2> QED BY <1>2, <1>3, RevokingMap
<1>5. Weaker(recs, file.recs)
  <2> HIDE DEF swept, recs
  <2> QED BY <1>2, <1>4, WeakerTrans
<1>6. ASSUME NEW u \in Ids, Live(recs, u)
      PROVE  /\ Live(file.recs, u) /\ recs[u].grant = file.recs[u].grant
             /\ file.recs[u].agent # a
  <2>1. Live(swept, u) /\ u \notin mine
    <3> HIDE DEF swept, recs, mine
    <3> QED BY <1>4, <1>6 DEF Weaker, Live
  <2>2. Live(file.recs, u) /\ recs[u].grant = file.recs[u].grant
    <3> HIDE DEF recs
    <3> QED BY <1>5, <1>6 DEF Weaker, Live
  <2>3. file.recs[u].agent # a
    BY <1>1, <2>1, SweptOwned
  <2> QED BY <2>2, <2>3
<1>7. \A u \in Ids : Live(recs, u) => recs[u].grant \notin over
  <2> SUFFICES ASSUME NEW u \in Ids, Live(recs, u), recs[u].grant \in over
               PROVE  FALSE
    OBVIOUS
  <2> HIDE DEF recs
  <2>1. recs[u].grant \notin ended
    BY <1>6 DEF RegInv, EndedStaysEnded
  <2>2. PICK v \in Owned(file.recs, a) : recs[u].grant = file.recs[v].grant
    BY <2>1 DEF GrantsOf
  <2>3. v \in Ids /\ Live(file.recs, v) /\ file.recs[v].agent = a
    BY <2>2 DEF Owned
  <2> QED BY <2>2, <2>3, <1>6 DEF RegInv, OneLivePerGrant
<1>8. over \subseteq Ids /\ \A g \in over : g <= issued
  BY <1>1, Booleans DEF GrantsOf, Owned, Live, RegInv, Numbered, Maps
<1> HIDE DEF recs, over
<1>9. /\ recs \in Maps /\ Weaker(recs, file.recs)
      /\ \A u \in Ids : Live(recs, u) => recs[u].grant \notin over
      /\ over \subseteq Ids /\ \A g \in over : g <= issued
  BY <1>4, <1>5, <1>7, <1>8
<1> QED BY <1>9 DEF recs, over

LEMMA RevokeAllOK ==
    ASSUME RegInv, NEW a \in Agents, RevokeAll(a), UNCHANGED now
    PROVE  RegInv'
<1> DEFINE swept == PurgeExpired(file.recs)
           recs == Revoking(swept, Owned(swept, a))
           over == ended \cup GrantsOf(file.recs, Owned(file.recs, a))
<1>1. /\ recs \in Maps /\ Weaker(recs, file.recs)
      /\ \A u \in Ids : Live(recs, u) => recs[u].grant \notin over
      /\ over \subseteq Ids /\ \A g \in over : g <= issued
  BY AgentRevoked
<1>2. Write(recs) /\ ended' = over /\ issued' = issued
  BY DEF RevokeAll
<1> HIDE DEF recs, over
<1> QED BY <1>1, <1>2, WriteWeaker

LEMMA RotateOK ==
    ASSUME RegInv, NEW a \in Agents, NEW ttl \in Ttls, Rotate(a, ttl), UNCHANGED now
    PROVE  RegInv'
<1> DEFINE swept == PurgeExpired(file.recs)
           recs == Revoking(swept, Owned(swept, a))
           over == ended \cup GrantsOf(file.recs, Owned(file.recs, a))
<1>1. /\ recs \in Maps /\ Weaker(recs, file.recs)
      /\ \A u \in Ids : Live(recs, u) => recs[u].grant \notin over
      /\ over \subseteq Ids /\ \A g \in over : g <= issued
  BY AgentRevoked
<1>2. Insert(recs, issued + 1, a, Until(ttl), None) /\ ended' = over
  BY DEF Rotate
<1> HIDE DEF recs, over
<1>3. issued \in Nat /\ Until(ttl) \in Expiry /\ None \in Expiry
  BY Clock DEF RegInv, FileTypeOK
<1>4. issued + 1 \notin over
  BY <1>1, <1>3
<1>5. \A u \in Ids : Live(recs, u) => recs[u].grant # issued + 1
  <2> SUFFICES ASSUME NEW u \in Ids, Live(recs, u)
               PROVE  recs[u].grant # issued + 1
    OBVIOUS
  <2>1. file.recs[u] # None /\ recs[u].grant = file.recs[u].grant
    BY <1>1 DEF Weaker, Live
  <2>2. file.recs[u].grant <= issued /\ file.recs[u] \in Records
    BY <2>1 DEF RegInv, Numbered, FileTypeOK, Maps
  <2> QED BY <2>1, <2>2, <1>3, Booleans DEF Ids
<1> QED BY <1>1, <1>2, <1>3, <1>4, <1>5, InsertWeaker

LEMMA DamageOK ==
    ASSUME RegInv, NEW st \in {"bad", "gone"}, Damage(st), UNCHANGED now
    PROVE  RegInv'
<1>1. file'.recs = Nothing /\ file' = [st |-> st, recs |-> Nothing] /\ Nothing \in Maps
  BY DEF Damage, Nothing, Maps
<1>2. \A t \in Ids : file'.recs[t] = None /\ ~Live(file'.recs, t)
  BY <1>1 DEF Nothing, Live
<1>3. FileTypeOK'
  BY <1>1 DEF RegInv, FileTypeOK, Damage
<1>4. Numbered'
  BY <1>2 DEF RegInv, Numbered, Damage
<1> QED BY <1>2, <1>3, <1>4 DEF RegInv, OneLivePerGrant, EndedStaysEnded

LEMMA RegInitOK ==
    ASSUME now = 0, InitRegistry
    PROVE  RegInv
<1>1. file.recs = Nothing /\ Nothing \in Maps
  BY DEF InitRegistry, Nothing, Maps
<1>2. \A t \in Ids : file.recs[t] = None /\ ~Live(file.recs, t)
  BY <1>1 DEF Nothing, Live
<1>3. FileTypeOK
  BY <1>1, RegistryAssumption DEF InitRegistry, FileTypeOK
<1>4. Numbered
  BY <1>2 DEF InitRegistry, Numbered
<1> QED BY <1>2, <1>3, <1>4 DEF RegInv, OneLivePerGrant, EndedStaysEnded

(* The operators' commands, the refreshes and the damage. *)
LEMMA RegistryStep ==
    ASSUME RegInv, RegistryNext
    PROVE  RegInv'
BY CreateOK, RotateOK, RotateViaRefreshOK, RevokeOK, RevokeAllOK, DamageOK DEF RegistryNext

LEMMA RegistryStutter ==
    ASSUME RegInv, UNCHANGED <<now, file, issued, ended>>, changed' \in BOOLEAN
    PROVE  RegInv'
BY DEF RegInv, FileTypeOK, Numbered, OneLivePerGrant, EndedStaysEnded, Live

LEMMA ClockStep ==
    ASSUME RegInv, now < MaxTime, now' = now + 1, UNCHANGED registry
    PROVE  RegInv'
<1>1. now' \in 0..MaxTime
  BY RegistryAssumption DEF RegInv, FileTypeOK
<1> QED
  BY <1>1 DEF RegInv, FileTypeOK, Numbered, OneLivePerGrant, EndedStaysEnded, Live, registry

-----------------------------------------------------------------------------
(* No step makes a token live that was issued and is not.                   *)

NoneRevived ==
    /\ issued' \in Nat /\ issued' >= issued
    /\ \A t \in Ids : t <= issued /\ Live(file'.recs, t) => Live(file.recs, t)

LEMMA WriteRevivesNone ==
    ASSUME RegInv, NEW recs, Weaker(recs, file.recs), Write(recs), issued' = issued
    PROVE  NoneRevived
BY DEF NoneRevived, Weaker, Live, Write, RegInv, FileTypeOK

LEMMA InsertRevivesNone ==
    ASSUME RegInv, NEW recs \in Maps, Weaker(recs, file.recs),
           NEW g, NEW a, NEW exp, NEW refresh, Insert(recs, g, a, exp, refresh)
    PROVE  NoneRevived
<1>1. issued \in Nat /\ issued' = issued + 1
  BY DEF RegInv, FileTypeOK, Insert
<1>2. ASSUME NEW t \in Ids, t <= issued
      PROVE  file'.recs[t] = recs[t]
  <2>1. t # issued + 1
    BY <1>1, <1>2 DEF Ids
  <2> QED BY <2>1 DEF Insert, Write, Maps
<1> QED BY <1>1, <1>2 DEF NoneRevived, Weaker, Live

LEMMA GrantRevivesNone ==
    ASSUME RegInv, NEW a \in Agents, CreateWithRefresh(a)
    PROVE  NoneRevived
BY Itself, InsertRevivesNone DEF CreateWithRefresh, RegInv, FileTypeOK

LEMMA StepRevivesNone ==
    ASSUME RegInv, RegistryNext
    PROVE  NoneRevived
<1>0. file.recs \in Maps
  BY DEF RegInv, FileTypeOK
<1>1. ASSUME NEW a \in Agents, NEW ttl \in Ttls, Create(a, ttl)
      PROVE  NoneRevived
  BY <1>0, <1>1, Itself, InsertRevivesNone DEF Create
<1>2. ASSUME NEW a \in Agents, NEW ttl \in Ttls, Rotate(a, ttl)
      PROVE  NoneRevived
  BY <1>2, AgentRevoked, InsertRevivesNone DEF Rotate
<1>3. ASSUME NEW t \in Ids, RotateViaRefresh(t)
      PROVE  NoneRevived
  <2>1. file.recs[t] # None
    BY <1>3 DEF RotateViaRefresh, Refreshable, Live
  <2>2. Revoking(file.recs, {t}) \in Maps /\ Weaker(Revoking(file.recs, {t}), file.recs)
    BY <1>0, <2>1, RevokingMap
  <2> QED BY <1>3, <2>2, InsertRevivesNone DEF RotateViaRefresh
<1>4. ASSUME NEW a \in Agents, NEW t \in Ids, Revoke(a, t)
      PROVE  NoneRevived
  <2> DEFINE swept == PurgeExpired(file.recs)
  <2>1. swept \in Maps /\ Weaker(swept, file.recs)
    BY <1>0, PurgedMap
  <2>2. swept[t] # None /\ Write(Revoking(swept, {t})) /\ issued' = issued
    BY <1>4 DEF Revoke, Owned, Live
  <2> HIDE DEF swept
  <2>3. Weaker(Revoking(swept, {t}), file.recs)
    BY <2>1, <2>2, RevokingMap, WeakerTrans
  <2> QED BY <2>2, <2>3, WriteRevivesNone
<1>5. ASSUME NEW a \in Agents, RevokeAll(a)
      PROVE  NoneRevived
  BY <1>5, AgentRevoked, WriteRevivesNone DEF RevokeAll
<1>6. ASSUME NEW st \in {"bad", "gone"}, Damage(st)
      PROVE  NoneRevived
  BY <1>6 DEF Damage, Nothing, Live, NoneRevived, RegInv, FileTypeOK
<1> QED BY <1>1, <1>2, <1>3, <1>4, <1>5, <1>6 DEF RegistryNext
=============================================================================
