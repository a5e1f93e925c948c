-------------------------- MODULE TokenServerProofs --------------------------
(***************************************************************************)
(* The theorems about the token registry and the server in front of it.    *)
(*                                                                         *)
(* The argument for RevocationSticks: the file never revives a token, and  *)
(* whoever is about to replace the cache has read the file under the lock, *)
(* after the last replacement.  So a token the cache calls revoked is live *)
(* neither in the file nor in what a thread has read.                      *)
(***************************************************************************)
EXTENDS TokenServer, TokenRegistryProofs

(* A token that no registry the server may come to use calls live. *)
Dead(t) ==
    /\ t \in Ids /\ t <= issued
    /\ ~Live(cache, t) /\ ~Live(file.recs, t)
    /\ \A q \in Threads : snap[q] # None => ~Live(snap[q], t)

SnapHeld == \A p \in Threads : snap[p] # None => pc[p] = "publish"

(* What the cache or a thread knows to be revoked. *)
RevokedDead ==
    /\ \A t \in Ids : Revoked(cache, t) => Dead(t)
    /\ \A p \in Threads, t \in Ids :
          snap[p] # None /\ Revoked(snap[p], t) => t <= issued /\ ~Live(file.recs, t)

KnownDead == \A p \in Readers : known[p] = TRUE => Dead(token[p])

IInv ==
    /\ RegInv /\ TypeOK
    /\ SnapHeld /\ RevokedDead /\ KnownDead
    /\ revived = FALSE

-----------------------------------------------------------------------------
THEOREM Initially == Init => IInv
<1> SUFFICES ASSUME Init PROVE IInv
  OBVIOUS
<1>1. RegInv
  BY RegInitOK DEF Init
<1>2. Nothing \in Maps
  BY DEF Nothing, Maps
<1>3. \A p \in Threads : snap[p] = None
  BY DEF Init
<1>4. \A t \in Ids : ~Revoked(cache, t)
  BY DEF Init, Nothing, Revoked
<1>5. TypeOK
  BY <1>1, <1>2, ServerAssumption DEF Init, TypeOK, RegInv, Threads
<1>6. SnapHeld /\ RevokedDead
  BY <1>3, <1>4 DEF SnapHeld, RevokedDead
<1>7. KnownDead
  BY DEF Init, KnownDead
<1> QED BY <1>1, <1>5, <1>6, <1>7 DEF IInv, Init

(* What the steps of the server that leave the file alone keep of the file. *)
LEMMA FileAlone ==
    ASSUME IInv, UNCHANGED <<now, file, issued, ended>>, changed' \in BOOLEAN
    PROVE  RegInv' /\ FileTypeOK'
BY RegistryStutter DEF IInv, RegInv

LEMMA PresentOK ==
    ASSUME IInv, NEW p \in Readers, NEW t \in Ids, Present(p, t)
    PROVE  IInv'
<1>1. RegInv' /\ FileTypeOK'
  BY FileAlone DEF Present, registry, IInv, TypeOK, FileTypeOK
<1>2. UNCHANGED <<file, issued, cache, holder, snap, revived>>
  BY DEF Present, registry
<1>3. t # None
  BY RegistryAssumption DEF Ids
<1>4. TypeOK'
  <2>1. Revoked(cache, t) \in BOOLEAN
    BY DEF Revoked
  <2>2. known' \in [Readers -> BOOLEAN]
    BY <2>1 DEF IInv, TypeOK, Present
  <2>3. token' \in [Readers -> Ids \cup {None}]
    BY DEF IInv, TypeOK, Present
  <2>4. pc' \in [Threads -> {"idle", "load", "publish", "fallback"}]
    BY DEF IInv, TypeOK, Present
  <2>5. \A q \in Threads : pc'[q] = "publish" <=> holder' = q
    BY <1>2 DEF IInv, TypeOK, Present, Threads
  <2>6. \A q \in Readers : token'[q] = None <=> pc'[q] = "idle"
    BY <1>3 DEF IInv, TypeOK, Present, Threads
  <2> QED BY <1>1, <1>2, <2>2, <2>3, <2>4, <2>5, <2>6 DEF IInv, TypeOK
<1>5. SnapHeld' /\ RevokedDead'
  BY <1>2 DEF IInv, TypeOK, SnapHeld, RevokedDead, Dead, Live, Revoked, Present, Threads
<1>6. KnownDead'
  <2> SUFFICES ASSUME NEW q \in Readers, known'[q] = TRUE
               PROVE  Dead(token[q])'
    BY DEF KnownDead
  <2>1. CASE q = p
    <3>1. token'[q] = t /\ Revoked(cache, t)
      BY <2>1 DEF Present, IInv, TypeOK
    <3>2. Dead(t)
      BY <3>1 DEF IInv, RevokedDead
    <3> QED BY <3>1, <3>2, <1>2 DEF Dead, Live
  <2>2. CASE q # p
    <3>1. token'[q] = token[q] /\ known[q] = TRUE
      BY <2>2 DEF Present, IInv, TypeOK
    <3> QED BY <3>1, <1>2 DEF IInv, KnownDead, Dead, Live
  <2> QED BY <2>1, <2>2
<1> QED BY <1>1, <1>2, <1>4, <1>5, <1>6 DEF IInv

LEMMA PollStatOK ==
    ASSUME IInv, PollStat
    PROVE  IInv'
<1>1. RegInv' /\ FileTypeOK'
  BY FileAlone DEF PollStat
<1>2. UNCHANGED <<file, issued, cache, holder, snap, token, known, revived>>
  BY DEF PollStat
<1>3. TypeOK'
  BY <1>1, <1>2, ServerAssumption DEF IInv, TypeOK, PollStat, Threads
<1>4. SnapHeld' /\ RevokedDead' /\ KnownDead'
  BY <1>2 DEF IInv, TypeOK, SnapHeld, RevokedDead, KnownDead, Dead, Live, Revoked, PollStat
<1> QED BY <1>1, <1>2, <1>3, <1>4 DEF IInv

(* The lock is free, so no thread but this one holds a registry. *)
LEMMA LoadReadOK ==
    ASSUME IInv, NEW p \in Threads, LoadRead(p)
    PROVE  IInv'
<1>1. RegInv' /\ FileTypeOK'
  BY FileAlone DEF LoadRead, registry, IInv, TypeOK, FileTypeOK
<1>2. UNCHANGED <<file, issued, cache, token, known, revived>>
  BY DEF LoadRead, registry
<1>3. \A q \in Threads : snap[q] = None /\ pc[q] # "publish"
  BY ServerAssumption DEF LoadRead, IInv, TypeOK, SnapHeld
<1>4. file.recs \in Maps
  BY DEF IInv, RegInv, FileTypeOK
<1>5. Contents \in Maps \cup {None} /\ (Contents # None => Contents = file.recs)
  BY <1>4 DEF Contents
<1>6. /\ snap'[p] = Contents /\ pc'[p] = "publish" /\ holder' = p
      /\ \A q \in Threads : q # p => snap'[q] = None /\ pc'[q] = pc[q]
  BY <1>3 DEF LoadRead, IInv, TypeOK
<1>7. TypeOK'
  <2>1. snap' \in [Threads -> Maps \cup {None}]
    BY <1>5 DEF LoadRead, IInv, TypeOK
  <2>2. pc' \in [Threads -> {"idle", "load", "publish", "fallback"}]
    BY DEF LoadRead, IInv, TypeOK
  <2>3. \A q \in Threads : pc'[q] = "publish" <=> holder' = q
    BY <1>3, <1>6
  <2>4. \A q \in Readers : token'[q] = None <=> pc'[q] = "idle"
    BY <1>2, <1>6 DEF IInv, TypeOK, LoadRead, Threads
  <2> QED BY <1>1, <1>2, <1>6, <2>1, <2>2, <2>3, <2>4 DEF IInv, TypeOK
<1>8. SnapHeld'
  BY <1>6 DEF SnapHeld
<1>9. ASSUME NEW t, Dead(t)
      PROVE  Dead(t)'
  BY <1>2, <1>5, <1>6, <1>9 DEF Dead, Live
<1>10. RevokedDead'
  BY <1>2, <1>4, <1>5, <1>6, <1>9
  DEF IInv, RegInv, Numbered, RevokedDead, Revoked, Live
<1>11. KnownDead'
  BY <1>2, <1>9 DEF IInv, KnownDead
<1> QED BY <1>1, <1>2, <1>7, <1>8, <1>10, <1>11 DEF IInv

(* The thread that holds the lock replaces the cache by what it has read.   *)
LEMMA PublishKeeps ==
    ASSUME IInv, NEW p \in Threads, Publish(p), UNCHANGED <<file, issued>>
    PROVE  /\ cache' \in Maps
           /\ snap' \in [Threads -> Maps \cup {None}]
           /\ \A q \in Threads : snap'[q] = None
           /\ \A q \in Threads : holder' # q
           /\ \A q \in Threads : q # p => pc[q] # "publish"
           /\ RevokedDead'
           /\ \A t : Dead(t) => Dead(t)'
<1>1. \A q \in Threads : q # p => snap[q] = None /\ pc[q] # "publish"
  BY DEF Publish, IInv, TypeOK, SnapHeld
<1>2. snap' \in [Threads -> Maps \cup {None}] /\ \A q \in Threads : snap'[q] = None
  BY <1>1 DEF Publish, IInv, TypeOK
<1>3. cache' \in Maps /\ \A q \in Threads : holder' # q
  BY ServerAssumption DEF Publish, IInv, TypeOK
<1>4. ASSUME NEW t, Dead(t)
      PROVE  Dead(t)'
  BY <1>2, <1>4 DEF Dead, Live, Publish
<1>5. RevokedDead'
  <2>1. ASSUME NEW t \in Ids, Revoked(cache', t)
        PROVE  Dead(t)'
    <3>1. CASE snap[p] = None
      <4>1. cache' = cache
        BY <3>1 DEF Publish
      <4>2. Dead(t)
        BY <4>1, <2>1 DEF IInv, RevokedDead
      <4> QED BY <4>2, <1>4
    <3>2. CASE snap[p] # None
      <4>1. cache' = snap[p]
        BY <3>2 DEF Publish
      <4>2. t <= issued /\ ~Live(file.recs, t)
        BY <4>1, <3>2, <2>1 DEF IInv, RevokedDead
      <4>3. ~Live(cache', t)
        BY <2>1 DEF Revoked, Live
      <4> QED BY <4>2, <4>3, <1>2 DEF Dead
    <3> QED BY <3>1, <3>2
  <2> QED BY <2>1, <1>2 DEF RevokedDead, Revoked
<1> QED BY <1>1, <1>2, <1>3, <1>4, <1>5

(* A thread that goes from publishing to where it may be without the lock. *)
LEMMA LetGo ==
    ASSUME IInv, NEW p \in Threads, NEW at \in {"idle", "fallback"},
           \A q \in Threads : holder' # q,
           \A q \in Threads : q # p => pc[q] # "publish",
           pc' = [pc EXCEPT ![p] = at]
    PROVE  /\ pc' \in [Threads -> {"idle", "load", "publish", "fallback"}]
           /\ pc'[p] = at /\ \A q \in Threads : q # p => pc'[q] = pc[q]
           /\ \A q \in Threads : pc'[q] = "publish" <=> holder' = q
BY DEF IInv, TypeOK

LEMMA PollPublishOK ==
    ASSUME IInv, PollPublish
    PROVE  IInv'
<1>1. RegInv' /\ FileTypeOK'
  BY FileAlone DEF PollPublish, registry, IInv, TypeOK, FileTypeOK
<1>2. UNCHANGED <<file, issued, token, known, revived>> /\ Publish(Poller) /\ Poller \in Threads
  BY DEF PollPublish, registry, Threads
<1>3. /\ cache' \in Maps /\ snap' \in [Threads -> Maps \cup {None}]
      /\ \A q \in Threads : snap'[q] = None /\ holder' # q
      /\ RevokedDead' /\ (\A t : Dead(t) => Dead(t)')
      /\ \A q \in Threads : q # Poller => pc[q] # "publish"
  BY <1>2, PublishKeeps
<1>4. /\ pc' \in [Threads -> {"idle", "load", "publish", "fallback"}]
      /\ \A q \in Threads : pc'[q] = "publish" <=> holder' = q
      /\ \A q \in Threads : q # Poller => pc'[q] = pc[q]
  BY <1>2, <1>3, LetGo DEF PollPublish
<1>5. TypeOK'
  BY <1>1, <1>2, <1>3, <1>4, ServerAssumption DEF IInv, TypeOK, Publish, Threads
<1>6. SnapHeld' /\ KnownDead'
  BY <1>2, <1>3 DEF SnapHeld, KnownDead, IInv
<1> QED BY <1>1, <1>2, <1>3, <1>5, <1>6 DEF IInv

(* The call is decided by a registry in which the token is not live if the  *)
(* cache knew it for revoked.                                               *)
LEMMA DecideOK ==
    ASSUME IInv, NEW p \in Readers, NEW recs, Decide(p, recs),
           \A t : Dead(t) => ~Live(recs, t)
    PROVE  /\ revived' = FALSE
           /\ token' \in [Readers -> Ids \cup {None}] /\ known' \in [Readers -> BOOLEAN]
           /\ token'[p] = None /\ known'[p] = FALSE
           /\ \A q \in Readers : q # p => token'[q] = token[q] /\ known'[q] = known[q]
<1>1. known[p] = TRUE => ~IsActive(recs, token[p])
  BY DEF IInv, KnownDead, IsActive
<1>2. known[p] \in BOOLEAN /\ revived = FALSE
  BY DEF IInv, TypeOK
<1>3. ~(known[p] /\ IsActive(recs, token[p]))
  BY <1>1, <1>2
<1>4. revived' = FALSE
  BY <1>2, <1>3 DEF Decide
<1> QED BY <1>4 DEF Decide, IInv, TypeOK

LEMMA CallPublishOK ==
    ASSUME IInv, NEW p \in Readers, CallPublish(p)
    PROVE  IInv'
<1>1. RegInv' /\ FileTypeOK'
  BY FileAlone DEF CallPublish, registry, IInv, TypeOK, FileTypeOK
<1>2. UNCHANGED <<file, issued>> /\ Publish(p) /\ p \in Threads /\ snap[p] # None
  BY DEF CallPublish, registry, Threads
<1>3. /\ cache' \in Maps /\ snap' \in [Threads -> Maps \cup {None}]
      /\ \A q \in Threads : snap'[q] = None /\ holder' # q
      /\ RevokedDead' /\ (\A t : Dead(t) => Dead(t)')
      /\ \A q \in Threads : q # p => pc[q] # "publish"
  BY <1>2, PublishKeeps
<1>4. /\ pc' \in [Threads -> {"idle", "load", "publish", "fallback"}]
      /\ pc'[p] = "idle" /\ \A q \in Threads : q # p => pc'[q] = pc[q]
      /\ \A q \in Threads : pc'[q] = "publish" <=> holder' = q
  BY <1>2, <1>3, LetGo DEF CallPublish, Decide
<1>5. \A t : Dead(t) => ~Live(snap[p], t)
  BY <1>2 DEF Dead
<1>6. /\ revived' = FALSE
      /\ token' \in [Readers -> Ids \cup {None}] /\ known' \in [Readers -> BOOLEAN]
      /\ token'[p] = None /\ known'[p] = FALSE
      /\ \A q \in Readers : q # p => token'[q] = token[q] /\ known'[q] = known[q]
  BY <1>5, DecideOK DEF CallPublish
<1>7. TypeOK'
  <2>1. holder' = None
    BY <1>2 DEF Publish
  <2>2. \A q \in Readers : token'[q] = None <=> pc'[q] = "idle"
    BY <1>4, <1>6 DEF IInv, TypeOK, Threads
  <2> QED BY <1>1, <1>3, <1>4, <1>6, <2>1, <2>2 DEF TypeOK
<1>8. SnapHeld' /\ KnownDead'
  BY <1>3, <1>6 DEF SnapHeld, KnownDead, IInv
<1> QED BY <1>1, <1>3, <1>6, <1>7, <1>8 DEF IInv

LEMMA CallFailsOK ==
    ASSUME IInv, NEW p \in Readers, CallFails(p)
    PROVE  IInv'
<1>1. RegInv' /\ FileTypeOK'
  BY FileAlone DEF CallFails, registry, IInv, TypeOK, FileTypeOK
<1>2. UNCHANGED <<file, issued, token, known, revived>> /\ Publish(p) /\ p \in Threads
  BY DEF CallFails, registry, Threads
<1>3. /\ cache' \in Maps /\ snap' \in [Threads -> Maps \cup {None}]
      /\ \A q \in Threads : snap'[q] = None /\ holder' # q
      /\ RevokedDead' /\ (\A t : Dead(t) => Dead(t)')
      /\ \A q \in Threads : q # p => pc[q] # "publish"
  BY <1>2, PublishKeeps
<1>4. /\ pc' \in [Threads -> {"idle", "load", "publish", "fallback"}]
      /\ pc'[p] = "fallback" /\ \A q \in Threads : q # p => pc'[q] = pc[q]
      /\ \A q \in Threads : pc'[q] = "publish" <=> holder' = q
  BY <1>2, <1>3, LetGo DEF CallFails
<1>5. TypeOK'
  BY <1>1, <1>2, <1>3, <1>4 DEF IInv, TypeOK, Publish, Threads
<1>6. SnapHeld' /\ KnownDead'
  BY <1>2, <1>3 DEF SnapHeld, KnownDead, IInv
<1> QED BY <1>1, <1>2, <1>3, <1>5, <1>6 DEF IInv

LEMMA FallbackOK ==
    ASSUME IInv, NEW p \in Readers, Fallback(p)
    PROVE  IInv'
<1>1. RegInv' /\ FileTypeOK'
  BY FileAlone DEF Fallback, registry, IInv, TypeOK, FileTypeOK
<1>2. UNCHANGED <<file, issued, cache, holder, snap>> /\ pc[p] = "fallback" /\ p \in Threads
  BY DEF Fallback, registry, Threads
<1>3. \A t : Dead(t) => ~Live(cache, t)
  BY DEF Dead
<1>4. /\ revived' = FALSE
      /\ token' \in [Readers -> Ids \cup {None}] /\ known' \in [Readers -> BOOLEAN]
      /\ token'[p] = None /\ known'[p] = FALSE
      /\ \A q \in Readers : q # p => token'[q] = token[q] /\ known'[q] = known[q]
  BY <1>3, DecideOK DEF Fallback
<1>5. /\ pc' \in [Threads -> {"idle", "load", "publish", "fallback"}]
      /\ pc'[p] = "idle" /\ \A q \in Threads : q # p => pc'[q] = pc[q]
  BY <1>2 DEF Fallback, Decide, IInv, TypeOK
<1>6. TypeOK'
  BY <1>1, <1>2, <1>4, <1>5 DEF IInv, TypeOK, Threads
<1>7. \A t : Dead(t) => Dead(t)'
  BY <1>2 DEF Dead, Live
<1>8. SnapHeld' /\ RevokedDead'
  BY <1>2, <1>5, <1>7 DEF IInv, SnapHeld, RevokedDead, Revoked, Live
<1>9. KnownDead'
  BY <1>4, <1>7 DEF IInv, KnownDead
<1> QED BY <1>1, <1>4, <1>6, <1>8, <1>9 DEF IInv

(* The file changes under the server: no token comes back to life.          *)
LEMMA FileStep ==
    ASSUME IInv, RegInv', NoneRevived, UNCHANGED loads
    PROVE  IInv'
<1>1. UNCHANGED <<cache, holder, pc, snap, token, known, revived>>
  BY DEF loads
<1>2. TypeOK'
  BY <1>1 DEF IInv, TypeOK, RegInv
<1>3. issued \in Nat /\ issued' \in Nat /\ issued' >= issued
  BY DEF IInv, RegInv, FileTypeOK, NoneRevived
<1>4. \A t \in Ids : t <= issued /\ ~Live(file.recs, t) => t <= issued' /\ ~Live(file'.recs, t)
  BY <1>3 DEF NoneRevived, Ids
<1>5. \A t : Dead(t) => Dead(t)'
  BY <1>1, <1>4 DEF Dead, Live
<1>6. SnapHeld'
  BY <1>1 DEF IInv, SnapHeld
<1>7. RevokedDead'
  BY <1>1, <1>4, <1>5 DEF IInv, RevokedDead, Revoked
<1>8. KnownDead'
  BY <1>1, <1>5 DEF IInv, KnownDead
<1> QED BY <1>1, <1>2, <1>6, <1>7, <1>8 DEF IInv

LEMMA ElsewhereOK ==
    ASSUME IInv, Elsewhere
    PROVE  IInv'
<1>1. CASE RegistryNext
  BY <1>1, RegistryStep, StepRevivesNone, FileStep DEF Elsewhere, IInv
<1>2. CASE Granted
  BY <1>2, CreateWithRefreshOK, GrantRevivesNone, FileStep DEF Elsewhere, Granted, IInv
<1> QED BY <1>1, <1>2 DEF Elsewhere

LEMMA TickOK ==
    ASSUME IInv, Tick
    PROVE  IInv'
<1>1. RegInv'
  BY ClockStep DEF Tick, IInv
<1>2. NoneRevived
  BY DEF Tick, registry, NoneRevived, IInv, RegInv, FileTypeOK, Live
<1> QED BY <1>1, <1>2, FileStep DEF Tick

LEMMA RestartOK ==
    ASSUME IInv, Restart
    PROVE  IInv'
<1>1. RegInv' /\ FileTypeOK'
  BY FileAlone DEF Restart
<1>2. UNCHANGED <<file, issued, revived>> /\ cache' = file.recs /\ file.recs \in Maps
  BY DEF Restart, IInv, RegInv, FileTypeOK
<1>3. \A p \in Threads : snap'[p] = None /\ pc'[p] = "idle"
  BY DEF Restart
<1>4. \A p \in Readers : known'[p] = FALSE /\ token'[p] = None /\ p \in Threads
  BY DEF Restart, Threads
<1>5. TypeOK'
  BY <1>1, <1>2, <1>3, <1>4, ServerAssumption DEF Restart, TypeOK, IInv
<1>6. \A t \in Ids : Revoked(file.recs, t) => t <= issued /\ ~Live(file.recs, t)
  BY DEF IInv, RegInv, Numbered, Revoked, Live
<1>7. SnapHeld' /\ RevokedDead' /\ KnownDead'
  BY <1>2, <1>3, <1>4, <1>6 DEF SnapHeld, RevokedDead, KnownDead, Dead
<1> QED BY <1>1, <1>2, <1>5, <1>7 DEF IInv

THEOREM Step == IInv /\ [Next]_vars => IInv'
<1> SUFFICES ASSUME IInv, [Next]_vars PROVE IInv'
  OBVIOUS
<1>1. CASE Next
  BY <1>1, TickOK, ElsewhereOK, RestartOK, PollStatOK, PollPublishOK, LoadReadOK, CallPublishOK,
     CallFailsOK, FallbackOK, PresentOK
  DEF Next
<1>2. CASE UNCHANGED vars
  <2>1. UNCHANGED <<now, file, changed, issued, ended>> /\ UNCHANGED loads
    BY <1>2 DEF vars, registry
  <2>2. RegInv'
    BY <2>1, FileAlone DEF IInv, RegInv, FileTypeOK
  <2>3. NoneRevived
    BY <2>1 DEF NoneRevived, IInv, RegInv, FileTypeOK, Live
  <2> QED BY <2>1, <2>2, <2>3, FileStep
<1> QED BY <1>1, <1>2

THEOREM Invariance == Spec => []IInv
BY Initially, Step, PTL DEF Spec

(* The types, and that the lock of the cache is held by the one thread that *)
(* is about to replace it (load_token_registry).                            *)
THEOREM TypeCorrect == Spec => []TypeOK
<1>1. IInv => TypeOK
  BY DEF IInv
<1> QED BY <1>1, Invariance, PTL

(* A refresh token is good once (rotate_via_refresh_token_inner). *)
THEOREM RefreshedOnce == Spec => []OneLivePerGrant
<1>1. IInv => OneLivePerGrant
  BY DEF IInv, RegInv
<1> QED BY <1>1, Invariance, PTL

(* A grant whose revocation was written is over for good (revoke,           *)
(* revoke_all_for_agent, rotate).                                           *)
THEOREM GrantsEnd == Spec => []EndedStaysEnded
<1>1. IInv => EndedStaysEnded
  BY DEF IInv, RegInv
<1> QED BY <1>1, Invariance, PTL

(* A revocation the server has seen is final for it (lookup_token). *)
THEOREM SeenRevocationsStick == Spec => []RevocationSticks
<1>1. IInv => RevocationSticks
  BY DEF IInv, RevocationSticks
<1> QED BY <1>1, Invariance, PTL
=============================================================================
