------------------------- MODULE SessionCacheProofs -------------------------
(***************************************************************************)
(* A lock is final, for any number of processes: no load that begins after *)
(* it succeeds with an item written before it.                             *)
(*                                                                         *)
(* The argument is about keys.  A wrap key exists in three places: in the  *)
(* keyring, in a process that has generated it and is about to store it    *)
(* (Pending), and as the key of copies of the items.  A pending key is the *)
(* key of no copy, so once revoke has deleted the stored one, every key of *)
(* a copy then in existence is dead: it is neither stored nor pending, and *)
(* no step revives it, because keys are generated fresh.  Items written    *)
(* later have later write numbers.  Covered(n) says it of the copies of    *)
(* the first n writes.                                                     *)
(*                                                                         *)
(* It is assumed that no delete of the wrap key or of the identity fails   *)
(* silently.  A plaintext session of an old version may be cached; it has  *)
(* no key to destroy, and neither has the copy a migration holds, so both  *)
(* are exempt (Old), as RevokeIsFinal says.                                *)
(***************************************************************************)
EXTENDS SessionCache, TLAPS

(* Type correctness, with the one guard the touch of the session rests on. *)
TypeInv ==
    /\ TypeOK
    /\ \A p \in Procs : pc[p] = "li_touch_session" => meta[p] # None

(* No delete fails silently. *)
Reliable == MaxFaults = 0

(* The plaintext session of an old version, or a copy made from it. *)
Old(e) == Legacy /\ e.save = 1

(* The process has generated a key and not stored it yet. *)
Pending(p) == pc[p] \in {"sp_setwrap", "si_setwrap", "mig_setwrap"}

(* The process holds a copy of an item that it may write back. *)
Loading(p) == pc[p] \in {"li_meta", "li_decrypt", "li_touch", "lp_decrypt", "lp_touch"}

(* Keys in use have been generated, and only an old session has none. *)
KeysBounded ==
    /\ wrap <= keys
    /\ session # None =>
         session.key <= keys /\ (session.key # NoKey \/ Old(session))
    /\ identity # None => identity.key <= keys /\ identity.key # NoKey
    /\ \A p \in Procs : rec[p].key <= keys
    /\ \A p \in Procs : meta[p] # None =>
         meta[p].key <= keys /\ (meta[p].key # NoKey \/ Old(meta[p]))

(* A pending key is stored nowhere and is the key of no item or copy. *)
PendingFresh ==
    \A p \in Procs : Pending(p) =>
        /\ rec[p].key # NoKey /\ rec[p].key # wrap
        /\ session # None => session.key # rec[p].key
        /\ identity # None => identity.key # rec[p].key
        /\ \A q \in Procs :
             /\ q # p => rec[q].key # rec[p].key
             /\ meta[q] # None => meta[q].key # rec[p].key

(* What a process holds is encrypted; what it migrates is an old session. *)
HeldKeys ==
    \A p \in Procs :
        /\ Loading(p) \/ pc[p] \in {"sp_put", "si_put"} => rec[p].key # NoKey
        /\ pc[p] \in {"mig_wrap", "mig_setwrap", "mig_put"} => Old(rec[p])

(* The key k is neither stored nor about to be. *)
Dead(k) == k # wrap /\ \A p \in Procs : Pending(p) => rec[p].key # k

(* A lock of the first n writes is to cover e. *)
Due(e, n) == e.save <= n /\ ~Old(e)

(* Every item and copy of the first n writes has a dead key. *)
Covered(n) ==
    /\ session # None /\ Due(session, n) => Dead(session.key)
    /\ identity # None /\ Due(identity, n) => Dead(identity.key)
    /\ \A p \in Procs :
         /\ meta[p] # None /\ Due(meta[p], n) => Dead(meta[p].key)
         /\ Loading(p) /\ Due(rec[p], n) => Dead(rec[p].key)

(* Finished locks cover their writes; so does one past the wrap key. *)
LocksCover ==
    /\ locked <= saves /\ Covered(locked)
    /\ \A p \in Procs :
         /\ mark[p] <= saves /\ floor[p] <= locked
         /\ pc[p] = "rv_identity" => Covered(mark[p])

(* No load succeeds with an item that a finished lock has covered. *)
LoadsFresh == \A p \in Procs : Hit(p) => rec[p].save > floor[p] \/ Old(rec[p])

Inv == TypeInv /\ KeysBounded /\ PendingFresh /\ HeldKeys /\ LocksCover /\ LoadsFresh

USE DEF Old, Due

(* An item under another wrap key is an item. *)
LEMMA EntryKey ==
    ASSUME NEW e \in Entry, NEW n \in Nat
    PROVE  [e EXCEPT !.key = n] \in Entry
  BY DEF Entry

(* An item as the two saves write it is an item. *)
LEMMA EntryWritten ==
    ASSUME NEW e \in Entry, NEW n \in Nat, NEW at \in Nat
    PROVE  /\ [e EXCEPT !.save = n, !.saved = at, !.last = at] \in Entry
           /\ [e EXCEPT !.save = n, !.last = at] \in Entry
<1>1. [e EXCEPT !.save = n, !.saved = at, !.last = at] \in Entry
  BY DEF Entry
<1>2. [e EXCEPT !.save = n, !.last = at] \in Entry
  BY DEF Entry
<1> QED
  BY <1>1, <1>2

(* What get_or_create_wrap_key does to the process: it takes the stored    *)
(* key, or a key that did not exist.                                       *)
LEMMA WrapKeyResult ==
    ASSUME NEW p \in Procs, NEW have, NEW missing,
           TypeOK, WrapKey(p, have, missing)
    PROVE  /\ rec' \in [Procs -> Entry] /\ keys' \in Nat
           /\ \A q \in Procs : q # p => rec'[q] = rec[q]
           /\ rec'[p].save = rec[p].save
           /\ \/ /\ wrap # NoKey /\ rec'[p].key = wrap
                 /\ keys' = keys /\ pc' = [pc EXCEPT ![p] = have]
              \/ /\ wrap = NoKey /\ rec'[p].key = keys + 1
                 /\ keys' = keys + 1 /\ pc' = [pc EXCEPT ![p] = missing]
<1>0. /\ rec \in [Procs -> Entry] /\ wrap \in Nat
      /\ keys \in Nat /\ keys + 1 \in Nat
  BY DEF TypeOK
<1>1. CASE wrap # NoKey
  <2>1. rec' = [rec EXCEPT ![p] = [rec[p] EXCEPT !.key = wrap]]
    BY <1>1 DEF WrapKey
  <2>2. [rec[p] EXCEPT !.key = wrap] \in Entry
    BY <1>0, EntryKey
  <2> QED
    BY <1>0, <1>1, <2>1, <2>2 DEF WrapKey, Goto, Entry
<1>2. CASE wrap = NoKey
  <2>1. rec' = [rec EXCEPT ![p] = [rec[p] EXCEPT !.key = keys + 1]]
    BY <1>2 DEF WrapKey
  <2>2. [rec[p] EXCEPT !.key = keys + 1] \in Entry
    BY <1>0, EntryKey
  <2> QED
    BY <1>0, <1>2, <2>1, <2>2 DEF WrapKey, Goto, Entry
<1> QED
  BY <1>1, <1>2

(* The empty keyring, and the one with a plaintext session, are well       *)
(* typed.                                                                  *)
LEMMA InitType == Init => TypeInv
  BY SessionAssumption DEF Init, TypeInv, TypeOK, Entry, Places, Blank, NoKey

(* Every step keeps the types; one step per keyring call. *)
LEMMA TypeStep ==
    ASSUME TypeInv, [Next]_vars
    PROVE  TypeInv'
<1>1. CASE UNCHANGED vars
  BY <1>1 DEF TypeInv, TypeOK, vars, keyring, local, history, counts
<1>2. CASE Tick
  BY <1>2 DEF TypeInv, TypeOK, Tick, keyring, local, history, counts
<1>3. ASSUME NEW p \in Procs, NEW c \in {"unlock", "open", "complete",
             "migrate"}, Start(p, c)
      PROVE  TypeInv'
  BY <1>3, SessionAssumption DEF TypeInv, TypeOK, Places, Start, keyring,
     local, history, counts, Goto
<1>4. ASSUME NEW p \in Procs, StartLock(p)
      PROVE  TypeInv'
  BY <1>4, SessionAssumption DEF TypeInv, TypeOK, Places, StartLock, keyring,
     local, history, counts, Goto
<1>5. ASSUME NEW p \in Procs, Prompt(p)
      PROVE  TypeInv'
  BY <1>5, SessionAssumption DEF TypeInv, TypeOK, Entry, Places, Prompt,
     Blank, NoKey, keyring, local, history, counts, Goto
<1>6. ASSUME NEW p \in Procs, LoadIdentityGet(p)
      PROVE  TypeInv'
  BY <1>6, SessionAssumption DEF TypeInv, TypeOK, Places, LoadIdentityGet,
     IdentityMiss, keyring, local, history, counts, Goto
<1>7. ASSUME NEW p \in Procs, LoadIdentityMeta(p)
      PROVE  TypeInv'
  BY <1>7, SessionAssumption DEF TypeInv, TypeOK, Places, LoadIdentityMeta,
     IdentityMiss, Evict, keyring, local, history, counts, Goto
<1>8. ASSUME NEW p \in Procs, LoadIdentityDecrypt(p)
      PROVE  TypeInv'
  BY <1>8, SessionAssumption DEF TypeInv, TypeOK, Places, LoadIdentityDecrypt,
     IdentityMiss, Opens, keyring, local, history, counts, Goto
<1>9. ASSUME NEW p \in Procs, LoadIdentityTouch(p)
      PROVE  TypeInv'
  BY <1>9, SessionAssumption DEF TypeInv, TypeOK, Entry, Places,
     LoadIdentityTouch, keyring, local, history, counts, Goto
<1>10. ASSUME NEW p \in Procs, LoadIdentityTouchSession(p)
      PROVE  TypeInv'
  BY <1>10, SessionAssumption DEF TypeInv, TypeOK, Entry, Places,
     LoadIdentityTouchSession, keyring, local, history, counts, Goto
<1>11. ASSUME NEW p \in Procs, LoadPassphraseGet(p)
      PROVE  TypeInv'
  BY <1>11, SessionAssumption DEF TypeInv, TypeOK, Places, LoadPassphraseGet,
     PassphraseMiss, AsUnlock, Evict, Plaintext, keyring, local, history,
     counts, Goto
<1>12. ASSUME NEW p \in Procs, LoadPassphraseDecrypt(p)
      PROVE  TypeInv'
  BY <1>12, SessionAssumption DEF TypeInv, TypeOK, Places,
     LoadPassphraseDecrypt, PassphraseMiss, AsUnlock, Opens, keyring, local,
     history, counts, Goto
<1>13. ASSUME NEW p \in Procs, LoadPassphraseTouch(p)
      PROVE  TypeInv'
  BY <1>13, SessionAssumption DEF TypeInv, TypeOK, Entry, Places,
     LoadPassphraseTouch, keyring, local, history, counts, Goto
<1>14. ASSUME NEW p \in Procs, SavePassphraseWrap(p)
      PROVE  TypeInv'
  <2>1. rec' \in [Procs -> Entry] /\ keys' \in Nat
    BY <1>14, WrapKeyResult DEF TypeInv, SavePassphraseWrap
  <2> QED
    BY <1>14, <2>1 DEF TypeInv, TypeOK, Places, SavePassphraseWrap, WrapKey,
       keyring, local, history, counts, Goto
<1>15. ASSUME NEW p \in Procs, SavePassphraseSetWrap(p)
      PROVE  TypeInv'
  BY <1>15, SessionAssumption DEF TypeInv, TypeOK, Entry, Places,
     SavePassphraseSetWrap, SetWrapKey, keyring, local, history, counts, Goto
<1>16. ASSUME NEW p \in Procs, SavePassphrasePut(p)
      PROVE  TypeInv'
  <2>1. rec[p] \in Entry /\ saves + 1 \in Nat /\ t[p] \in Nat
    BY DEF TypeInv, TypeOK
  <2>2. session' \in Entry
    BY <1>16, <2>1, EntryWritten DEF SavePassphrasePut
  <2> QED
    BY <1>16, <2>2 DEF TypeInv, TypeOK, Places, SavePassphrasePut, keyring,
       local, history, counts, Goto
<1>17. ASSUME NEW p \in Procs, SaveIdentityMeta(p)
      PROVE  TypeInv'
  BY <1>17, SessionAssumption DEF TypeInv, TypeOK, Entry, Places,
     SaveIdentityMeta, keyring, local, history, counts, Goto
<1>18. ASSUME NEW p \in Procs, SaveIdentityWrap(p)
      PROVE  TypeInv'
  <2>1. rec' \in [Procs -> Entry] /\ keys' \in Nat
    BY <1>18, WrapKeyResult DEF TypeInv, SaveIdentityWrap
  <2> QED
    BY <1>18, <2>1 DEF TypeInv, TypeOK, Places, SaveIdentityWrap, WrapKey,
       keyring, local, history, counts, Goto
<1>19. ASSUME NEW p \in Procs, SaveIdentitySetWrap(p)
      PROVE  TypeInv'
  BY <1>19, SessionAssumption DEF TypeInv, TypeOK, Entry, Places,
     SaveIdentitySetWrap, SetWrapKey, keyring, local, history, counts, Goto
<1>20. ASSUME NEW p \in Procs, SaveIdentityPut(p)
      PROVE  TypeInv'
  <2>1. rec[p] \in Entry /\ saves + 1 \in Nat /\ t[p] \in Nat
    BY DEF TypeInv, TypeOK
  <2>2. identity' \in Entry
    BY <1>20, <2>1, EntryWritten DEF SaveIdentityPut
  <2> QED
    BY <1>20, <2>2 DEF TypeInv, TypeOK, Places, SaveIdentityPut, keyring,
       local, history, counts, Goto
<1>21. ASSUME NEW p \in Procs, MigrateGet(p)
      PROVE  TypeInv'
  BY <1>21, SessionAssumption DEF TypeInv, TypeOK, Places, MigrateGet,
     Plaintext, keyring, local, history, counts, Goto
<1>22. ASSUME NEW p \in Procs, MigrateWrap(p)
      PROVE  TypeInv'
  <2>1. rec' \in [Procs -> Entry] /\ keys' \in Nat
    BY <1>22, WrapKeyResult DEF TypeInv, MigrateWrap
  <2> QED
    BY <1>22, <2>1 DEF TypeInv, TypeOK, Places, MigrateWrap, WrapKey, keyring,
       local, history, counts, Goto
<1>23. ASSUME NEW p \in Procs, MigrateSetWrap(p)
      PROVE  TypeInv'
  BY <1>23, SessionAssumption DEF TypeInv, TypeOK, Entry, Places,
     MigrateSetWrap, SetWrapKey, keyring, local, history, counts, Goto
<1>24. ASSUME NEW p \in Procs, MigratePut(p)
      PROVE  TypeInv'
  BY <1>24, SessionAssumption DEF TypeInv, TypeOK, Places, MigratePut,
     keyring, local, history, counts, Goto
<1>25. ASSUME NEW p \in Procs, RevokeSession(p)
      PROVE  TypeInv'
  BY <1>25, SessionAssumption DEF TypeInv, TypeOK, Places, RevokeSession,
     keyring, local, history, counts, Goto
<1>26. ASSUME NEW p \in Procs, RevokeWrap(p)
      PROVE  TypeInv'
  BY <1>26, SessionAssumption DEF TypeInv, TypeOK, Places, RevokeWrap, NoKey,
     keyring, local, history, counts, Goto
<1>27. ASSUME NEW p \in Procs, RevokeIdentity(p)
      PROVE  TypeInv'
  BY <1>27, SessionAssumption DEF TypeInv, TypeOK, Places, RevokeIdentity,
     keyring, local, history, counts, Goto
<1>28. ASSUME NEW p \in Procs, Crash(p)
      PROVE  TypeInv'
  BY <1>28, SessionAssumption DEF TypeInv, TypeOK, Places, Crash, keyring,
     local, history, counts, Goto
<1> QED
  BY <1>1, <1>2, <1>3, <1>4, <1>5, <1>6, <1>7, <1>8, <1>9, <1>10, <1>11,
     <1>12, <1>13, <1>14, <1>15, <1>16, <1>17, <1>18, <1>19, <1>20, <1>21,
     <1>22, <1>23, <1>24, <1>25, <1>26, <1>27, <1>28 DEF Next, Load, Save,
     Migrate, Revoke

(* Before the first command there is at most an old session, which is      *)
(* exempt.                                                                 *)
LEMMA InitInv ==
    ASSUME Reliable, Init
    PROVE  Inv
<1>1. TypeInv
  BY InitType
<1>2. KeysBounded /\ PendingFresh /\ HeldKeys /\ LoadsFresh
  BY DEF Reliable, Init, KeysBounded, PendingFresh, HeldKeys, Loading,
     Pending,
         LoadsFresh, Hit, Blank, NoKey
<1>3. LocksCover
  BY SessionAssumption DEF Init, LocksCover, Covered, Loading, Pending, Blank
<1> QED
  BY <1>1, <1>2, <1>3 DEF Inv

(* Time says nothing about keys. *)
LEMMA TickStep ==
    ASSUME Reliable, Inv, TypeInv', Tick
    PROVE  Inv'
<1>1. KeysBounded'
  BY DEF Inv, TypeInv, TypeOK, Entry, KeysBounded, PendingFresh, HeldKeys,
     Loading, NoKey, Pending, Reliable, Tick, keyring, local, history, counts,
     Goto
<1>2. PendingFresh'
  BY DEF Inv, TypeInv, TypeOK, Entry, KeysBounded, PendingFresh, HeldKeys,
     Pending, NoKey, Tick, keyring, local, history, counts, Goto
<1>3. HeldKeys'
  BY DEF Inv, TypeInv, TypeOK, Entry, KeysBounded, PendingFresh, Pending,
     Loading, HeldKeys, NoKey, Tick, keyring, local, history, counts, Goto
<1>4. LocksCover'
  BY DEF Inv, TypeInv, TypeOK, Entry, KeysBounded, PendingFresh, Pending,
     Loading, HeldKeys, NoKey, LocksCover, Covered, Dead, Reliable, Tick,
     keyring, local, history, counts, Goto
<1>5. LoadsFresh'
  BY DEF Inv, TypeInv, TypeOK, Entry, LocksCover, Covered, Dead, Loading,
     LoadsFresh, Hit, Tick, keyring, local, history, counts, Goto
<1> QED
  BY <1>1, <1>2, <1>3, <1>4, <1>5 DEF Inv

(* A command begins; it holds no copy yet. *)
LEMMA StartStep ==
    ASSUME Reliable, Inv, TypeInv', NEW p \in Procs, NEW c \in {"unlock",
           "open", "complete", "migrate"},
           Start(p, c)
    PROVE  Inv'
<1>1. KeysBounded'
  BY DEF Inv, TypeInv, TypeOK, Entry, KeysBounded, PendingFresh, HeldKeys,
     Loading, NoKey, Pending, Reliable, Start, keyring, local, history,
     counts, Goto
<1>2. PendingFresh'
  BY DEF Inv, TypeInv, TypeOK, Entry, KeysBounded, PendingFresh, HeldKeys,
     Pending, NoKey, Start, keyring, local, history, counts, Goto
<1>3. HeldKeys'
  BY DEF Inv, TypeInv, TypeOK, Entry, KeysBounded, PendingFresh, Pending,
     Loading, HeldKeys, NoKey, Start, keyring, local, history, counts, Goto
<1>4. LocksCover'
  BY DEF Inv, TypeInv, TypeOK, Entry, KeysBounded, PendingFresh, Pending,
     Loading, HeldKeys, NoKey, LocksCover, Covered, Dead, Reliable, Start,
     keyring, local, history, counts, Goto
<1>5. LoadsFresh'
  BY DEF Inv, TypeInv, TypeOK, Entry, LocksCover, Covered, Dead, Loading,
     LoadsFresh, Hit, Start, keyring, local, history, counts, Goto
<1> QED
  BY <1>1, <1>2, <1>3, <1>4, <1>5 DEF Inv

(* A lock begins: its mark is the number of writes so far. *)
LEMMA StartLockStep ==
    ASSUME Reliable, Inv, TypeInv', NEW p \in Procs, StartLock(p)
    PROVE  Inv'
<1>1. KeysBounded'
  BY DEF Inv, TypeInv, TypeOK, Entry, KeysBounded, PendingFresh, HeldKeys,
     Loading, NoKey, Pending, Reliable, StartLock, keyring, local, history,
     counts, Goto
<1>2. PendingFresh'
  BY DEF Inv, TypeInv, TypeOK, Entry, KeysBounded, PendingFresh, HeldKeys,
     Pending, NoKey, StartLock, keyring, local, history, counts, Goto
<1>3. HeldKeys'
  BY DEF Inv, TypeInv, TypeOK, Entry, KeysBounded, PendingFresh, Pending,
     Loading, HeldKeys, NoKey, StartLock, keyring, local, history, counts,
     Goto
<1>4. LocksCover'
  BY DEF Inv, TypeInv, TypeOK, Entry, KeysBounded, PendingFresh, Pending,
     Loading, HeldKeys, NoKey, LocksCover, Covered, Dead, Reliable, StartLock,
     keyring, local, history, counts, Goto
<1>5. LoadsFresh'
  BY DEF Inv, TypeInv, TypeOK, Entry, LocksCover, Covered, Dead, Loading,
     LoadsFresh, Hit, StartLock, keyring, local, history, counts, Goto
<1> QED
  BY <1>1, <1>2, <1>3, <1>4, <1>5 DEF Inv

(* A typed passphrase has no key yet. *)
LEMMA PromptStep ==
    ASSUME Reliable, Inv, TypeInv', NEW p \in Procs, Prompt(p)
    PROVE  Inv'
<1>1. KeysBounded'
  BY DEF Inv, TypeInv, TypeOK, Entry, KeysBounded, PendingFresh, HeldKeys,
     Loading, NoKey, Pending, Reliable, Prompt, Blank, keyring, local,
     history, counts, Goto
<1>2. PendingFresh'
  BY DEF Inv, TypeInv, TypeOK, Entry, KeysBounded, PendingFresh, HeldKeys,
     Pending, NoKey, Prompt, Blank, keyring, local, history, counts, Goto
<1>3. HeldKeys'
  BY DEF Inv, TypeInv, TypeOK, Entry, KeysBounded, PendingFresh, Pending,
     Loading, HeldKeys, NoKey, Prompt, Blank, keyring, local, history, counts,
     Goto
<1>4. LocksCover'
  BY DEF Inv, TypeInv, TypeOK, Entry, KeysBounded, PendingFresh, Pending,
     Loading, HeldKeys, NoKey, LocksCover, Covered, Dead, Reliable, Prompt,
     Blank, keyring, local, history, counts, Goto
<1>5. LoadsFresh'
  BY DEF Inv, TypeInv, TypeOK, Entry, LocksCover, Covered, Dead, Loading,
     LoadsFresh, Hit, Prompt, Blank, NoKey, keyring, local, history,
     counts, Goto
<1> QED
  BY <1>1, <1>2, <1>3, <1>4, <1>5 DEF Inv

(* A load takes a copy of the identity, and its floor from the finished    *)
(* locks.                                                                  *)
LEMMA LoadIdentityGetStep ==
    ASSUME Reliable, Inv, TypeInv', NEW p \in Procs, LoadIdentityGet(p)
    PROVE  Inv'
<1>1. KeysBounded'
  BY DEF Inv, TypeInv, TypeOK, Entry, KeysBounded, PendingFresh, HeldKeys,
     Loading, NoKey, Pending, Reliable, LoadIdentityGet, IdentityMiss,
     keyring, local, history, counts, Goto
<1>2. PendingFresh'
  <2> SUFFICES ASSUME NEW q \in Procs, Pending(q)'
               PROVE  /\ (rec[q].key # NoKey /\ rec[q].key # wrap)'
                      /\ (session # None => session.key # rec[q].key)'
                      /\ (identity # None => identity.key # rec[q].key)'
                      /\ \A r \in Procs :
                           /\ r # q => (rec[r].key # rec[q].key)'
                           /\ (meta[r] # None => meta[r].key # rec[q].key)'
    BY DEF PendingFresh
  <2>1. CASE q = p
    BY <2>1 DEF Inv, TypeInv, TypeOK, Entry, KeysBounded, PendingFresh,
       HeldKeys, Pending, NoKey, LoadIdentityGet, IdentityMiss, keyring,
       local, history, counts, Goto
  <2>2. CASE q # p
    BY <2>2 DEF Inv, TypeInv, TypeOK, Entry, KeysBounded, PendingFresh,
       HeldKeys, Pending, NoKey, LoadIdentityGet, IdentityMiss, keyring,
       local, history, counts, Goto
  <2> QED
    BY <2>1, <2>2
<1>3. HeldKeys'
  BY DEF Inv, TypeInv, TypeOK, Entry, KeysBounded, PendingFresh, Pending,
     Loading, HeldKeys, NoKey, LoadIdentityGet, IdentityMiss, keyring, local,
     history, counts, Goto
<1>4. LocksCover'
  <2>1. ASSUME NEW n \in Nat, n <= saves, Covered(n)
        PROVE  Covered(n)'
    <3>1. (session # None /\ Due(session, n) => Dead(session.key))'
      BY <2>1 DEF Inv, TypeInv, TypeOK, Entry, KeysBounded, PendingFresh,
         Pending, Loading, HeldKeys, NoKey, Dead, Covered, Reliable,
         LoadIdentityGet, IdentityMiss, keyring, local, history, counts, Goto
    <3>2. (identity # None /\ Due(identity, n) => Dead(identity.key))'
      BY <2>1 DEF Inv, TypeInv, TypeOK, Entry, KeysBounded, PendingFresh,
         Pending, Loading, HeldKeys, NoKey, Dead, Covered, Reliable,
         LoadIdentityGet, IdentityMiss, keyring, local, history, counts, Goto
    <3>3. ASSUME NEW q \in Procs
          PROVE  (meta[q] # None /\ Due(meta[q], n) => Dead(meta[q].key))'
      BY <2>1 DEF Inv, TypeInv, TypeOK, Entry, KeysBounded, PendingFresh,
         Pending, Loading, HeldKeys, NoKey, Dead, Covered, Reliable,
         LoadIdentityGet, IdentityMiss, keyring, local, history, counts, Goto
    <3>4. ASSUME NEW q \in Procs
          PROVE  (Loading(q) /\ Due(rec[q], n) => Dead(rec[q].key))'
      <4>1. ASSUME NEW k, Dead(k)
            PROVE  Dead(k)'
        BY <4>1 DEF Inv, TypeInv, TypeOK, Pending, Dead, LoadIdentityGet,
           IdentityMiss, keyring, Goto
      <4>2. CASE q = p
        BY <2>1, <4>1, <4>2 DEF Inv, TypeInv, TypeOK, Loading, Covered,
           LoadIdentityGet, IdentityMiss, keyring, Goto
      <4>3. CASE q # p
        BY <2>1, <4>1, <4>3 DEF Inv, TypeInv, TypeOK, Loading, Covered,
           LoadIdentityGet, IdentityMiss, keyring, Goto
      <4> QED
        BY <4>2, <4>3
    <3> QED
      BY <3>1, <3>2, <3>3, <3>4 DEF Covered
  <2> QED
    BY <2>1 DEF Inv, TypeInv, TypeOK, LocksCover, LoadIdentityGet,
       IdentityMiss, keyring, local, history, counts, Goto
<1>5. LoadsFresh'
  BY DEF Inv, TypeInv, TypeOK, Entry, LocksCover, Covered, Dead, Loading,
     LoadsFresh, Hit, LoadIdentityGet, IdentityMiss, keyring, local,
     history, counts, Goto
<1> QED
  BY <1>1, <1>2, <1>3, <1>4, <1>5 DEF Inv

(* It takes a copy of the session, or evicts both. *)
LEMMA LoadIdentityMetaStep ==
    ASSUME Reliable, Inv, TypeInv', NEW p \in Procs, LoadIdentityMeta(p)
    PROVE  Inv'
<1>1. KeysBounded'
  BY DEF Inv, TypeInv, TypeOK, Entry, KeysBounded, PendingFresh, HeldKeys,
     Loading, NoKey, Pending, Reliable, LoadIdentityMeta, IdentityMiss, Evict,
     keyring, local, history, counts, Goto
<1>2. PendingFresh'
  BY DEF Inv, TypeInv, TypeOK, Entry, KeysBounded, PendingFresh, HeldKeys,
     Pending, NoKey, LoadIdentityMeta, IdentityMiss, Evict, keyring, local,
     history, counts, Goto
<1>3. HeldKeys'
  BY DEF Inv, TypeInv, TypeOK, Entry, KeysBounded, PendingFresh, Pending,
     Loading, HeldKeys, NoKey, LoadIdentityMeta, IdentityMiss, Evict, keyring,
     local, history, counts, Goto
<1>4. LocksCover'
  <2>1. ASSUME NEW n \in Nat, n <= saves, Covered(n)
        PROVE  Covered(n)'
    <3>1. (session # None /\ Due(session, n) => Dead(session.key))'
      BY <2>1 DEF Inv, TypeInv, TypeOK, Entry, KeysBounded, PendingFresh,
         Pending, Loading, HeldKeys, NoKey, Dead, Covered, Reliable,
         LoadIdentityMeta, IdentityMiss, Evict, keyring, local, history,
         counts, Goto
    <3>2. (identity # None /\ Due(identity, n) => Dead(identity.key))'
      BY <2>1 DEF Inv, TypeInv, TypeOK, Entry, KeysBounded, PendingFresh,
         Pending, Loading, HeldKeys, NoKey, Dead, Covered, Reliable,
         LoadIdentityMeta, IdentityMiss, Evict, keyring, local, history,
         counts, Goto
    <3>3. ASSUME NEW q \in Procs
          PROVE  (meta[q] # None /\ Due(meta[q], n) => Dead(meta[q].key))'
      BY <2>1 DEF Inv, TypeInv, TypeOK, Entry, KeysBounded, PendingFresh,
         Pending, Loading, HeldKeys, NoKey, Dead, Covered, Reliable,
         LoadIdentityMeta, IdentityMiss, Evict, keyring, local, history,
         counts, Goto
    <3>4. ASSUME NEW q \in Procs
          PROVE  (Loading(q) /\ Due(rec[q], n) => Dead(rec[q].key))'
      BY <2>1 DEF Inv, TypeInv, TypeOK, Entry, KeysBounded, PendingFresh,
         Pending, Loading, HeldKeys, NoKey, Dead, Covered, Reliable,
         LoadIdentityMeta, IdentityMiss, Evict, keyring, local, history,
         counts, Goto
    <3> QED
      BY <3>1, <3>2, <3>3, <3>4 DEF Covered
  <2> QED
    BY <2>1 DEF Inv, TypeInv, TypeOK, LocksCover, LoadIdentityMeta,
       IdentityMiss, Evict, keyring, local, history, counts, Goto
<1>5. LoadsFresh'
  BY DEF Inv, TypeInv, TypeOK, Entry, LocksCover, Covered, Dead, Loading,
     LoadsFresh, Hit, LoadIdentityMeta, IdentityMiss, Evict, keyring,
     local, history, counts, Goto
<1> QED
  BY <1>1, <1>2, <1>3, <1>4, <1>5 DEF Inv

(* Only a live key decrypts, and a copy with a live key is covered by no   *)
(* finished lock.                                                          *)
LEMMA LoadIdentityDecryptStep ==
    ASSUME Reliable, Inv, TypeInv', NEW p \in Procs, LoadIdentityDecrypt(p)
    PROVE  Inv'
<1>1. KeysBounded'
  BY DEF Inv, TypeInv, TypeOK, Entry, KeysBounded, PendingFresh, HeldKeys,
     Loading, NoKey, Pending, Reliable, LoadIdentityDecrypt, IdentityMiss,
     Opens, keyring, local, history, counts, Goto
<1>2. PendingFresh'
  BY DEF Inv, TypeInv, TypeOK, Entry, KeysBounded, PendingFresh, HeldKeys,
     Pending, NoKey, LoadIdentityDecrypt, IdentityMiss, Opens, keyring, local,
     history, counts, Goto
<1>3. HeldKeys'
  BY DEF Inv, TypeInv, TypeOK, Entry, KeysBounded, PendingFresh, Pending,
     Loading, HeldKeys, NoKey, LoadIdentityDecrypt, IdentityMiss, Opens,
     keyring, local, history, counts, Goto
<1>4. LocksCover'
  BY DEF Inv, TypeInv, TypeOK, Entry, KeysBounded, PendingFresh, Pending,
     Loading, HeldKeys, NoKey, LocksCover, Covered, Dead, Reliable,
     LoadIdentityDecrypt, IdentityMiss, Opens, keyring, local, history,
     counts, Goto
<1>5. LoadsFresh'
  BY DEF Inv, TypeInv, TypeOK, Entry, LocksCover, Covered, Dead, Loading,
     LoadsFresh, Hit, LoadIdentityDecrypt, IdentityMiss, Opens, keyring,
     local, history, counts, Goto
<1> QED
  BY <1>1, <1>2, <1>3, <1>4, <1>5 DEF Inv

(* The copy goes back to the keyring with its number and key. *)
LEMMA LoadIdentityTouchStep ==
    ASSUME Reliable, Inv, TypeInv', NEW p \in Procs, LoadIdentityTouch(p)
    PROVE  Inv'
<1>1. KeysBounded'
  BY DEF Inv, TypeInv, TypeOK, Entry, KeysBounded, PendingFresh, HeldKeys,
     Loading, NoKey, Pending, Reliable, LoadIdentityTouch, keyring, local,
     history, counts, Goto
<1>2. PendingFresh'
  BY DEF Inv, TypeInv, TypeOK, Entry, KeysBounded, PendingFresh, HeldKeys,
     Pending, NoKey, LoadIdentityTouch, keyring, local, history, counts, Goto
<1>3. HeldKeys'
  BY DEF Inv, TypeInv, TypeOK, Entry, KeysBounded, PendingFresh, Pending,
     Loading, HeldKeys, NoKey, LoadIdentityTouch, keyring, local, history,
     counts, Goto
<1>4. LocksCover'
  BY DEF Inv, TypeInv, TypeOK, Entry, KeysBounded, PendingFresh, Pending,
     Loading, HeldKeys, NoKey, LocksCover, Covered, Dead, Reliable,
     LoadIdentityTouch, keyring, local, history, counts, Goto
<1>5. LoadsFresh'
  BY DEF Inv, TypeInv, TypeOK, Entry, LocksCover, Covered, Dead, Loading,
     LoadsFresh, Hit, LoadIdentityTouch, keyring, local, history, counts,
     Goto
<1> QED
  BY <1>1, <1>2, <1>3, <1>4, <1>5 DEF Inv

(* So does the copy of the session. *)
LEMMA LoadIdentityTouchSessionStep ==
    ASSUME Reliable, Inv, TypeInv', NEW p \in Procs,
           LoadIdentityTouchSession(p)
    PROVE  Inv'
<1>1. KeysBounded'
  BY DEF Inv, TypeInv, TypeOK, Entry, KeysBounded, PendingFresh, HeldKeys,
     Loading, NoKey, Pending, Reliable, LoadIdentityTouchSession, keyring,
     local, history, counts, Goto
<1>2. PendingFresh'
  BY DEF Inv, TypeInv, TypeOK, Entry, KeysBounded, PendingFresh, HeldKeys,
     Pending, NoKey, LoadIdentityTouchSession, keyring, local, history,
     counts, Goto
<1>3. HeldKeys'
  BY DEF Inv, TypeInv, TypeOK, Entry, KeysBounded, PendingFresh, Pending,
     Loading, HeldKeys, NoKey, LoadIdentityTouchSession, keyring, local,
     history, counts, Goto
<1>4. LocksCover'
  <2>1. ASSUME NEW n \in Nat, n <= saves, Covered(n)
        PROVE  Covered(n)'
    <3>1. (session # None /\ Due(session, n) => Dead(session.key))'
      BY <2>1 DEF Inv, TypeInv, TypeOK, Entry, KeysBounded, PendingFresh,
         Pending, Loading, HeldKeys, NoKey, Dead, Covered, Reliable,
         LoadIdentityTouchSession, keyring, local, history, counts, Goto
    <3>2. (identity # None /\ Due(identity, n) => Dead(identity.key))'
      BY <2>1 DEF Inv, TypeInv, TypeOK, Entry, KeysBounded, PendingFresh,
         Pending, Loading, HeldKeys, NoKey, Dead, Covered, Reliable,
         LoadIdentityTouchSession, keyring, local, history, counts, Goto
    <3>3. ASSUME NEW q \in Procs
          PROVE  (meta[q] # None /\ Due(meta[q], n) => Dead(meta[q].key))'
      BY <2>1 DEF Inv, TypeInv, TypeOK, Entry, KeysBounded, PendingFresh,
         Pending, Loading, HeldKeys, NoKey, Dead, Covered, Reliable,
         LoadIdentityTouchSession, keyring, local, history, counts, Goto
    <3>4. ASSUME NEW q \in Procs
          PROVE  (Loading(q) /\ Due(rec[q], n) => Dead(rec[q].key))'
      BY <2>1 DEF Inv, TypeInv, TypeOK, Entry, KeysBounded, PendingFresh,
         Pending, Loading, HeldKeys, NoKey, Dead, Covered, Reliable,
         LoadIdentityTouchSession, keyring, local, history, counts, Goto
    <3> QED
      BY <3>1, <3>2, <3>3, <3>4 DEF Covered
  <2> QED
    BY <2>1 DEF Inv, TypeInv, TypeOK, LocksCover, LoadIdentityTouchSession,
       keyring, local, history, counts, Goto
<1>5. LoadsFresh'
  BY DEF Inv, TypeInv, TypeOK, Entry, LocksCover, Covered, Dead, Loading,
     LoadsFresh, Hit, LoadIdentityTouchSession, keyring, local, history,
     counts, Goto
<1> QED
  BY <1>1, <1>2, <1>3, <1>4, <1>5 DEF Inv

(* A load takes a copy of the session, or evicts it. *)
LEMMA LoadPassphraseGetStep ==
    ASSUME Reliable, Inv, TypeInv', NEW p \in Procs, LoadPassphraseGet(p)
    PROVE  Inv'
<1>1. KeysBounded'
  BY DEF Inv, TypeInv, TypeOK, Entry, KeysBounded, PendingFresh, HeldKeys,
     Loading, NoKey, Pending, Reliable, LoadPassphraseGet, PassphraseMiss,
     AsUnlock, Evict, Plaintext, keyring, local, history, counts, Goto
<1>2. PendingFresh'
  <2> SUFFICES ASSUME NEW q \in Procs, Pending(q)'
               PROVE  /\ (rec[q].key # NoKey /\ rec[q].key # wrap)'
                      /\ (session # None => session.key # rec[q].key)'
                      /\ (identity # None => identity.key # rec[q].key)'
                      /\ \A r \in Procs :
                           /\ r # q => (rec[r].key # rec[q].key)'
                           /\ (meta[r] # None => meta[r].key # rec[q].key)'
    BY DEF PendingFresh
  <2>1. CASE q = p
    BY <2>1 DEF Inv, TypeInv, TypeOK, Entry, KeysBounded, PendingFresh,
       HeldKeys, Pending, NoKey, LoadPassphraseGet, PassphraseMiss, AsUnlock,
       Evict, Plaintext, keyring, local, history, counts, Goto
  <2>2. CASE q # p
    <3>1. Pending(q) /\ rec'[q] = rec[q]
      BY <2>2 DEF Inv, TypeInv, TypeOK, Pending, LoadPassphraseGet,
         PassphraseMiss, AsUnlock, Evict, Plaintext, keyring, local, history,
         counts, Goto
    <3>2. UNCHANGED <<wrap, session, identity, meta>>
      BY DEF LoadPassphraseGet, keyring
    <3>3. ASSUME NEW r \in Procs, r # q
          PROVE  rec'[r].key # rec[q].key
      <4>1. rec'[r] = rec[r] \/ (session # None /\ rec'[r] = session)
        BY DEF Inv, TypeInv, TypeOK, LoadPassphraseGet
      <4> QED
        BY <3>1, <3>3, <4>1 DEF Inv, PendingFresh
    <3> QED
      BY <3>1, <3>2, <3>3 DEF Inv, PendingFresh
  <2> QED
    BY <2>1, <2>2
<1>3. HeldKeys'
  BY DEF Inv, TypeInv, TypeOK, Entry, KeysBounded, PendingFresh, Pending,
     Loading, HeldKeys, NoKey, LoadPassphraseGet, PassphraseMiss, AsUnlock,
     Evict, Plaintext, keyring, local, history, counts, Goto
<1>4. LocksCover'
  <2>1. ASSUME NEW n \in Nat, n <= saves, Covered(n)
        PROVE  Covered(n)'
    <3>1. (session # None /\ Due(session, n) => Dead(session.key))'
      BY <2>1 DEF Inv, TypeInv, TypeOK, Entry, KeysBounded, PendingFresh,
         Pending, Loading, HeldKeys, NoKey, Dead, Covered, Reliable,
         LoadPassphraseGet, PassphraseMiss, AsUnlock, Evict, Plaintext,
         keyring, local, history, counts, Goto
    <3>2. (identity # None /\ Due(identity, n) => Dead(identity.key))'
      BY <2>1 DEF Inv, TypeInv, TypeOK, Entry, KeysBounded, PendingFresh,
         Pending, Loading, HeldKeys, NoKey, Dead, Covered, Reliable,
         LoadPassphraseGet, PassphraseMiss, AsUnlock, Evict, Plaintext,
         keyring, local, history, counts, Goto
    <3>3. ASSUME NEW q \in Procs
          PROVE  (meta[q] # None /\ Due(meta[q], n) => Dead(meta[q].key))'
      BY <2>1 DEF Inv, TypeInv, TypeOK, Entry, KeysBounded, PendingFresh,
         Pending, Loading, HeldKeys, NoKey, Dead, Covered, Reliable,
         LoadPassphraseGet, PassphraseMiss, AsUnlock, Evict, Plaintext,
         keyring, local, history, counts, Goto
    <3>4. ASSUME NEW q \in Procs
          PROVE  (Loading(q) /\ Due(rec[q], n) => Dead(rec[q].key))'
      BY <2>1 DEF Inv, TypeInv, TypeOK, Entry, KeysBounded, PendingFresh,
         Pending, Loading, HeldKeys, NoKey, Dead, Covered, Reliable,
         LoadPassphraseGet, PassphraseMiss, AsUnlock, Evict, Plaintext,
         keyring, local, history, counts, Goto
    <3> QED
      BY <3>1, <3>2, <3>3, <3>4 DEF Covered
  <2> QED
    BY <2>1 DEF Inv, TypeInv, TypeOK, LocksCover, LoadPassphraseGet,
       PassphraseMiss, AsUnlock, Evict, Plaintext, keyring, local, history,
       counts, Goto
<1>5. LoadsFresh'
  BY DEF Inv, TypeInv, TypeOK, Entry, LocksCover, Covered, Dead, Loading,
     LoadsFresh, Hit, LoadPassphraseGet, PassphraseMiss, AsUnlock, Evict,
     Plaintext, keyring, local, history, counts, Goto
<1> QED
  BY <1>1, <1>2, <1>3, <1>4, <1>5 DEF Inv

(* As for the identity, only a live key decrypts. *)
LEMMA LoadPassphraseDecryptStep ==
    ASSUME Reliable, Inv, TypeInv', NEW p \in Procs, LoadPassphraseDecrypt(p)
    PROVE  Inv'
<1>1. KeysBounded'
  BY DEF Inv, TypeInv, TypeOK, Entry, KeysBounded, PendingFresh, HeldKeys,
     Loading, NoKey, Pending, Reliable, LoadPassphraseDecrypt, PassphraseMiss,
     AsUnlock, Opens, keyring, local, history, counts, Goto
<1>2. PendingFresh'
  BY DEF Inv, TypeInv, TypeOK, Entry, KeysBounded, PendingFresh, HeldKeys,
     Pending, NoKey, LoadPassphraseDecrypt, PassphraseMiss, AsUnlock, Opens,
     keyring, local, history, counts, Goto
<1>3. HeldKeys'
  BY DEF Inv, TypeInv, TypeOK, Entry, KeysBounded, PendingFresh, Pending,
     Loading, HeldKeys, NoKey, LoadPassphraseDecrypt, PassphraseMiss,
     AsUnlock, Opens, keyring, local, history, counts, Goto
<1>4. LocksCover'
  <2>1. ASSUME NEW n \in Nat, n <= saves, Covered(n)
        PROVE  Covered(n)'
    <3>1. (session # None /\ Due(session, n) => Dead(session.key))'
      BY <2>1 DEF Inv, TypeInv, TypeOK, Entry, KeysBounded, PendingFresh,
         Pending, Loading, HeldKeys, NoKey, Dead, Covered, Reliable,
         LoadPassphraseDecrypt, PassphraseMiss, AsUnlock, Opens, keyring,
         local, history, counts, Goto
    <3>2. (identity # None /\ Due(identity, n) => Dead(identity.key))'
      BY <2>1 DEF Inv, TypeInv, TypeOK, Entry, KeysBounded, PendingFresh,
         Pending, Loading, HeldKeys, NoKey, Dead, Covered, Reliable,
         LoadPassphraseDecrypt, PassphraseMiss, AsUnlock, Opens, keyring,
         local, history, counts, Goto
    <3>3. ASSUME NEW q \in Procs
          PROVE  (meta[q] # None /\ Due(meta[q], n) => Dead(meta[q].key))'
      BY <2>1 DEF Inv, TypeInv, TypeOK, Entry, KeysBounded, PendingFresh,
         Pending, Loading, HeldKeys, NoKey, Dead, Covered, Reliable,
         LoadPassphraseDecrypt, PassphraseMiss, AsUnlock, Opens, keyring,
         local, history, counts, Goto
    <3>4. ASSUME NEW q \in Procs
          PROVE  (Loading(q) /\ Due(rec[q], n) => Dead(rec[q].key))'
      BY <2>1 DEF Inv, TypeInv, TypeOK, Entry, KeysBounded, PendingFresh,
         Pending, Loading, HeldKeys, NoKey, Dead, Covered, Reliable,
         LoadPassphraseDecrypt, PassphraseMiss, AsUnlock, Opens, keyring,
         local, history, counts, Goto
    <3> QED
      BY <3>1, <3>2, <3>3, <3>4 DEF Covered
  <2> QED
    BY <2>1 DEF Inv, TypeInv, TypeOK, LocksCover, LoadPassphraseDecrypt,
       PassphraseMiss, AsUnlock, Opens, keyring, local, history, counts, Goto
<1>5. LoadsFresh'
  BY DEF Inv, TypeInv, TypeOK, Entry, LocksCover, Covered, Dead, Loading,
     LoadsFresh, Hit, LoadPassphraseDecrypt, PassphraseMiss, AsUnlock,
     Opens, keyring, local, history, counts, Goto
<1> QED
  BY <1>1, <1>2, <1>3, <1>4, <1>5 DEF Inv

(* The copy of the session goes back. *)
LEMMA LoadPassphraseTouchStep ==
    ASSUME Reliable, Inv, TypeInv', NEW p \in Procs, LoadPassphraseTouch(p)
    PROVE  Inv'
<1>1. KeysBounded'
  BY DEF Inv, TypeInv, TypeOK, Entry, KeysBounded, PendingFresh, HeldKeys,
     Loading, NoKey, Pending, Reliable, LoadPassphraseTouch, keyring, local,
     history, counts, Goto
<1>2. PendingFresh'
  BY DEF Inv, TypeInv, TypeOK, Entry, KeysBounded, PendingFresh, HeldKeys,
     Pending, NoKey, LoadPassphraseTouch, keyring, local, history, counts,
     Goto
<1>3. HeldKeys'
  BY DEF Inv, TypeInv, TypeOK, Entry, KeysBounded, PendingFresh, Pending,
     Loading, HeldKeys, NoKey, LoadPassphraseTouch, keyring, local, history,
     counts, Goto
<1>4. LocksCover'
  BY DEF Inv, TypeInv, TypeOK, Entry, KeysBounded, PendingFresh, Pending,
     Loading, HeldKeys, NoKey, LocksCover, Covered, Dead, Reliable,
     LoadPassphraseTouch, keyring, local, history, counts, Goto
<1>5. LoadsFresh'
  BY DEF Inv, TypeInv, TypeOK, Entry, LocksCover, Covered, Dead, Loading,
     LoadsFresh, Hit, LoadPassphraseTouch, keyring, local, history, counts,
     Goto
<1> QED
  BY <1>1, <1>2, <1>3, <1>4, <1>5 DEF Inv

(* A save takes the stored key or generates one that no copy has. *)
LEMMA SavePassphraseWrapStep ==
    ASSUME Reliable, Inv, TypeInv', NEW p \in Procs, SavePassphraseWrap(p)
    PROVE  Inv'
<1>0. /\ rec' \in [Procs -> Entry] /\ keys' \in Nat
      /\ \A q \in Procs : q # p => rec'[q] = rec[q]
      /\ \/ /\ wrap # NoKey /\ rec'[p].key = wrap
            /\ keys' = keys /\ pc' = [pc EXCEPT ![p] = "sp_put"]
         \/ /\ wrap = NoKey /\ rec'[p].key = keys + 1
            /\ keys' = keys + 1 /\ pc' = [pc EXCEPT ![p] = "sp_setwrap"]
  BY WrapKeyResult DEF Inv, TypeInv, SavePassphraseWrap
<1>1. KeysBounded'
  <2>1. keys <= keys' /\ rec'[p].key <= keys'
    BY <1>0 DEF Inv, TypeInv, TypeOK, KeysBounded
  <2>2. UNCHANGED <<wrap, session, identity, meta>>
    BY DEF SavePassphraseWrap, keyring
  <2>3. ASSUME NEW q \in Procs
        PROVE  rec'[q].key <= keys'
    <3>1. CASE q = p
      BY <2>1, <3>1
    <3>2. CASE q # p
      BY <1>0, <2>1, <3>2 DEF Inv, TypeInv, TypeOK, Entry, KeysBounded
    <3> QED
      BY <3>1, <3>2
  <2> QED
    BY <1>0, <2>1, <2>2, <2>3 DEF Inv, TypeInv, TypeOK, Entry, KeysBounded,
       NoKey
<1>2. PendingFresh'
  <2> SUFFICES ASSUME NEW q \in Procs, Pending(q)'
               PROVE  /\ (rec[q].key # NoKey /\ rec[q].key # wrap)'
                      /\ (session # None => session.key # rec[q].key)'
                      /\ (identity # None => identity.key # rec[q].key)'
                      /\ \A r \in Procs :
                           /\ r # q => (rec[r].key # rec[q].key)'
                           /\ (meta[r] # None => meta[r].key # rec[q].key)'
    BY DEF PendingFresh
  <2>1. CASE q = p
    BY <1>0, <2>1 DEF Inv, TypeInv, TypeOK, Entry, KeysBounded, PendingFresh,
       HeldKeys, Pending, NoKey, SavePassphraseWrap, keyring, local, history,
       counts
  <2>2. CASE q # p
    <3>1. Pending(q) /\ rec'[q] = rec[q]
      BY <1>0, <2>2 DEF Inv, TypeInv, TypeOK, Pending
    <3>2. UNCHANGED <<wrap, session, identity, meta>>
      BY DEF SavePassphraseWrap, keyring
    <3>3. rec'[p].key # rec[q].key
      BY <1>0, <3>1 DEF Inv, TypeInv, TypeOK, Entry, KeysBounded, PendingFresh
    <3> QED
      BY <1>0, <2>2, <3>1, <3>2, <3>3 DEF Inv, PendingFresh
  <2> QED
    BY <2>1, <2>2
<1>3. HeldKeys'
  BY <1>0 DEF Inv, TypeInv, TypeOK, Entry, KeysBounded, PendingFresh, Pending,
     Loading, HeldKeys, NoKey, SavePassphraseWrap, keyring, local, history,
     counts
<1>4. LocksCover'
  <2>1. ASSUME NEW n \in Nat, n <= saves, Covered(n)
        PROVE  Covered(n)'
    <3>1. (session # None /\ Due(session, n) => Dead(session.key))'
      BY <1>0, <2>1 DEF Inv, TypeInv, TypeOK, Entry, KeysBounded,
         PendingFresh, Pending, Loading, HeldKeys, NoKey, Dead, Covered,
         Reliable, SavePassphraseWrap, keyring, local, history, counts
    <3>2. (identity # None /\ Due(identity, n) => Dead(identity.key))'
      BY <1>0, <2>1 DEF Inv, TypeInv, TypeOK, Entry, KeysBounded,
         PendingFresh, Pending, Loading, HeldKeys, NoKey, Dead, Covered,
         Reliable, SavePassphraseWrap, keyring, local, history, counts
    <3>3. ASSUME NEW q \in Procs
          PROVE  (meta[q] # None /\ Due(meta[q], n) => Dead(meta[q].key))'
      BY <1>0, <2>1 DEF Inv, TypeInv, TypeOK, Entry, KeysBounded,
         PendingFresh, Pending, Loading, HeldKeys, NoKey, Dead, Covered,
         Reliable, SavePassphraseWrap, keyring, local, history, counts
    <3>4. ASSUME NEW q \in Procs
          PROVE  (Loading(q) /\ Due(rec[q], n) => Dead(rec[q].key))'
      <4>1. CASE q = p
        BY <1>0, <4>1 DEF Inv, TypeInv, TypeOK, Loading, SavePassphraseWrap
      <4>2. CASE q # p
        <5>1. UNCHANGED wrap /\ rec'[q] = rec[q] /\ pc'[q] = pc[q]
          BY <1>0, <4>2 DEF Inv, TypeInv, TypeOK, SavePassphraseWrap, keyring
        <5>2. ASSUME NEW r \in Procs, Pending(r)', Dead(rec[q].key)
              PROVE  rec'[r].key # rec[q].key
          BY <1>0, <5>2 DEF Inv, TypeInv, TypeOK, Entry, KeysBounded,
             Pending, Dead
        <5> QED
          BY <2>1, <5>1, <5>2 DEF Dead, Covered, Loading
      <4> QED
        BY <4>1, <4>2
    <3> QED
      BY <3>1, <3>2, <3>3, <3>4 DEF Covered
  <2> QED
    BY <1>0, <2>1 DEF Inv, TypeInv, TypeOK, LocksCover, SavePassphraseWrap,
       keyring, local, history, counts
<1>5. LoadsFresh'
  BY <1>0 DEF Inv, TypeInv, TypeOK, Entry, LocksCover, Covered, Dead, Loading,
     LoadsFresh, Hit, SavePassphraseWrap, keyring, local, history, counts
<1> QED
  BY <1>1, <1>2, <1>3, <1>4, <1>5 DEF Inv

(* The pending key is stored; it was the key of no copy, so it revives     *)
(* none.                                                                   *)
LEMMA SavePassphraseSetWrapStep ==
    ASSUME Reliable, Inv, TypeInv', NEW p \in Procs, SavePassphraseSetWrap(p)
    PROVE  Inv'
<1>1. KeysBounded'
  BY DEF Inv, TypeInv, TypeOK, Entry, KeysBounded, PendingFresh, HeldKeys,
     Loading, NoKey, Pending, Reliable, SavePassphraseSetWrap, SetWrapKey,
     keyring, local, history, counts, Goto
<1>2. PendingFresh'
  BY DEF Inv, TypeInv, TypeOK, Entry, KeysBounded, PendingFresh, HeldKeys,
     Pending, NoKey, SavePassphraseSetWrap, SetWrapKey, keyring, local,
     history, counts, Goto
<1>3. HeldKeys'
  BY DEF Inv, TypeInv, TypeOK, Entry, KeysBounded, PendingFresh, Pending,
     Loading, HeldKeys, NoKey, SavePassphraseSetWrap, SetWrapKey, keyring,
     local, history, counts, Goto
<1>4. LocksCover'
  BY DEF Inv, TypeInv, TypeOK, Entry, KeysBounded, PendingFresh, Pending,
     Loading, HeldKeys, NoKey, LocksCover, Covered, Dead, Reliable,
     SavePassphraseSetWrap, SetWrapKey, keyring, local, history, counts, Goto
<1>5. LoadsFresh'
  BY DEF Inv, TypeInv, TypeOK, Entry, LocksCover, Covered, Dead, Loading,
     LoadsFresh, Hit, SavePassphraseSetWrap, SetWrapKey, keyring, local,
     history, counts, Goto
<1> QED
  BY <1>1, <1>2, <1>3, <1>4, <1>5 DEF Inv

(* The session is written with a number no lock covers. *)
LEMMA SavePassphrasePutStep ==
    ASSUME Reliable, Inv, TypeInv', NEW p \in Procs, SavePassphrasePut(p)
    PROVE  Inv'
<1>1. KeysBounded'
  BY DEF Inv, TypeInv, TypeOK, Entry, KeysBounded, PendingFresh, HeldKeys,
     Loading, NoKey, Pending, Reliable, SavePassphrasePut, keyring, local,
     history, counts, Goto
<1>2. PendingFresh'
  BY DEF Inv, TypeInv, TypeOK, Entry, KeysBounded, PendingFresh, HeldKeys,
     Pending, NoKey, SavePassphrasePut, keyring, local, history, counts, Goto
<1>3. HeldKeys'
  BY DEF Inv, TypeInv, TypeOK, Entry, KeysBounded, PendingFresh, Pending,
     Loading, HeldKeys, NoKey, SavePassphrasePut, keyring, local, history,
     counts, Goto
<1>4. LocksCover'
  <2>1. ASSUME NEW n \in Nat, n <= saves, Covered(n)
        PROVE  Covered(n)'
    <3>1. (session # None /\ Due(session, n) => Dead(session.key))'
      BY <2>1 DEF Inv, TypeInv, TypeOK, Entry, KeysBounded, PendingFresh,
         Pending, Loading, HeldKeys, NoKey, Dead, Covered, Reliable,
         SavePassphrasePut, keyring, local, history, counts, Goto
    <3>2. (identity # None /\ Due(identity, n) => Dead(identity.key))'
      BY <2>1 DEF Inv, TypeInv, TypeOK, Entry, KeysBounded, PendingFresh,
         Pending, Loading, HeldKeys, NoKey, Dead, Covered, Reliable,
         SavePassphrasePut, keyring, local, history, counts, Goto
    <3>3. ASSUME NEW q \in Procs
          PROVE  (meta[q] # None /\ Due(meta[q], n) => Dead(meta[q].key))'
      BY <2>1 DEF Inv, TypeInv, TypeOK, Entry, KeysBounded, PendingFresh,
         Pending, Loading, HeldKeys, NoKey, Dead, Covered, Reliable,
         SavePassphrasePut, keyring, local, history, counts, Goto
    <3>4. ASSUME NEW q \in Procs
          PROVE  (Loading(q) /\ Due(rec[q], n) => Dead(rec[q].key))'
      BY <2>1 DEF Inv, TypeInv, TypeOK, Entry, KeysBounded, PendingFresh,
         Pending, Loading, HeldKeys, NoKey, Dead, Covered, Reliable,
         SavePassphrasePut, keyring, local, history, counts, Goto
    <3> QED
      BY <3>1, <3>2, <3>3, <3>4 DEF Covered
  <2> QED
    BY <2>1 DEF Inv, TypeInv, TypeOK, LocksCover, SavePassphrasePut, keyring,
       local, history, counts, Goto
<1>5. LoadsFresh'
  BY DEF Inv, TypeInv, TypeOK, Entry, LocksCover, Covered, Dead, Loading,
     LoadsFresh, Hit, SavePassphrasePut, keyring, local, history, counts,
     Goto
<1> QED
  BY <1>1, <1>2, <1>3, <1>4, <1>5 DEF Inv

(* save_identity takes over the session's saved_at; keys are as before. *)
LEMMA SaveIdentityMetaStep ==
    ASSUME Reliable, Inv, TypeInv', NEW p \in Procs, SaveIdentityMeta(p)
    PROVE  Inv'
<1>1. KeysBounded'
  BY DEF Inv, TypeInv, TypeOK, Entry, KeysBounded, PendingFresh, HeldKeys,
     Loading, NoKey, Pending, Reliable, SaveIdentityMeta, keyring, local,
     history, counts, Goto
<1>2. PendingFresh'
  BY DEF Inv, TypeInv, TypeOK, Entry, KeysBounded, PendingFresh, HeldKeys,
     Pending, NoKey, SaveIdentityMeta, keyring, local, history, counts, Goto
<1>3. HeldKeys'
  BY DEF Inv, TypeInv, TypeOK, Entry, KeysBounded, PendingFresh, Pending,
     Loading, HeldKeys, NoKey, SaveIdentityMeta, keyring, local, history,
     counts, Goto
<1>4. LocksCover'
  BY DEF Inv, TypeInv, TypeOK, Entry, KeysBounded, PendingFresh, Pending,
     Loading, HeldKeys, NoKey, LocksCover, Covered, Dead, Reliable,
     SaveIdentityMeta, keyring, local, history, counts, Goto
<1>5. LoadsFresh'
  BY DEF Inv, TypeInv, TypeOK, Entry, LocksCover, Covered, Dead, Loading,
     LoadsFresh, Hit, SaveIdentityMeta, keyring, local, history, counts,
     Goto
<1> QED
  BY <1>1, <1>2, <1>3, <1>4, <1>5 DEF Inv

(* As in save_passphrase, the key is the stored one or new. *)
LEMMA SaveIdentityWrapStep ==
    ASSUME Reliable, Inv, TypeInv', NEW p \in Procs, SaveIdentityWrap(p)
    PROVE  Inv'
<1>0. /\ rec' \in [Procs -> Entry] /\ keys' \in Nat
      /\ \A q \in Procs : q # p => rec'[q] = rec[q]
      /\ \/ /\ wrap # NoKey /\ rec'[p].key = wrap
            /\ keys' = keys /\ pc' = [pc EXCEPT ![p] = "si_put"]
         \/ /\ wrap = NoKey /\ rec'[p].key = keys + 1
            /\ keys' = keys + 1 /\ pc' = [pc EXCEPT ![p] = "si_setwrap"]
  BY WrapKeyResult DEF Inv, TypeInv, SaveIdentityWrap
<1>1. KeysBounded'
  <2>1. keys <= keys' /\ rec'[p].key <= keys'
    BY <1>0 DEF Inv, TypeInv, TypeOK, KeysBounded
  <2>2. UNCHANGED <<wrap, session, identity, meta>>
    BY DEF SaveIdentityWrap, keyring
  <2>3. ASSUME NEW q \in Procs
        PROVE  rec'[q].key <= keys'
    <3>1. CASE q = p
      BY <2>1, <3>1
    <3>2. CASE q # p
      BY <1>0, <2>1, <3>2 DEF Inv, TypeInv, TypeOK, Entry, KeysBounded
    <3> QED
      BY <3>1, <3>2
  <2> QED
    BY <1>0, <2>1, <2>2, <2>3 DEF Inv, TypeInv, TypeOK, Entry, KeysBounded,
       NoKey
<1>2. PendingFresh'
  <2> SUFFICES ASSUME NEW q \in Procs, Pending(q)'
               PROVE  /\ (rec[q].key # NoKey /\ rec[q].key # wrap)'
                      /\ (session # None => session.key # rec[q].key)'
                      /\ (identity # None => identity.key # rec[q].key)'
                      /\ \A r \in Procs :
                           /\ r # q => (rec[r].key # rec[q].key)'
                           /\ (meta[r] # None => meta[r].key # rec[q].key)'
    BY DEF PendingFresh
  <2>1. CASE q = p
    BY <1>0, <2>1 DEF Inv, TypeInv, TypeOK, Entry, KeysBounded, PendingFresh,
       HeldKeys, Pending, NoKey, SaveIdentityWrap, keyring, local, history,
       counts
  <2>2. CASE q # p
    <3>1. Pending(q) /\ rec'[q] = rec[q]
      BY <1>0, <2>2 DEF Inv, TypeInv, TypeOK, Pending
    <3>2. UNCHANGED <<wrap, session, identity, meta>>
      BY DEF SaveIdentityWrap, keyring
    <3>3. rec'[p].key # rec[q].key
      BY <1>0, <3>1 DEF Inv, TypeInv, TypeOK, Entry, KeysBounded, PendingFresh
    <3> QED
      BY <1>0, <2>2, <3>1, <3>2, <3>3 DEF Inv, PendingFresh
  <2> QED
    BY <2>1, <2>2
<1>3. HeldKeys'
  BY <1>0 DEF Inv, TypeInv, TypeOK, Entry, KeysBounded, PendingFresh, Pending,
     Loading, HeldKeys, NoKey, SaveIdentityWrap, keyring, local, history,
     counts
<1>4. LocksCover'
  <2>1. ASSUME NEW n \in Nat, n <= saves, Covered(n)
        PROVE  Covered(n)'
    <3>1. (session # None /\ Due(session, n) => Dead(session.key))'
      BY <1>0, <2>1 DEF Inv, TypeInv, TypeOK, Entry, KeysBounded,
         PendingFresh, Pending, Loading, HeldKeys, NoKey, Dead, Covered,
         Reliable, SaveIdentityWrap, keyring, local, history, counts
    <3>2. (identity # None /\ Due(identity, n) => Dead(identity.key))'
      BY <1>0, <2>1 DEF Inv, TypeInv, TypeOK, Entry, KeysBounded,
         PendingFresh, Pending, Loading, HeldKeys, NoKey, Dead, Covered,
         Reliable, SaveIdentityWrap, keyring, local, history, counts
    <3>3. ASSUME NEW q \in Procs
          PROVE  (meta[q] # None /\ Due(meta[q], n) => Dead(meta[q].key))'
      BY <1>0, <2>1 DEF Inv, TypeInv, TypeOK, Entry, KeysBounded,
         PendingFresh, Pending, Loading, HeldKeys, NoKey, Dead, Covered,
         Reliable, SaveIdentityWrap, keyring, local, history, counts
    <3>4. ASSUME NEW q \in Procs
          PROVE  (Loading(q) /\ Due(rec[q], n) => Dead(rec[q].key))'
      <4>1. CASE q = p
        BY <1>0, <4>1 DEF Inv, TypeInv, TypeOK, Loading, SaveIdentityWrap
      <4>2. CASE q # p
        <5>1. UNCHANGED wrap /\ rec'[q] = rec[q] /\ pc'[q] = pc[q]
          BY <1>0, <4>2 DEF Inv, TypeInv, TypeOK, SaveIdentityWrap, keyring
        <5>2. ASSUME NEW r \in Procs, Pending(r)', Dead(rec[q].key)
              PROVE  rec'[r].key # rec[q].key
          BY <1>0, <5>2 DEF Inv, TypeInv, TypeOK, Entry, KeysBounded,
             Pending, Dead
        <5> QED
          BY <2>1, <5>1, <5>2 DEF Dead, Covered, Loading
      <4> QED
        BY <4>1, <4>2
    <3> QED
      BY <3>1, <3>2, <3>3, <3>4 DEF Covered
  <2> QED
    BY <1>0, <2>1 DEF Inv, TypeInv, TypeOK, LocksCover, SaveIdentityWrap,
       keyring, local, history, counts
<1>5. LoadsFresh'
  BY <1>0 DEF Inv, TypeInv, TypeOK, Entry, LocksCover, Covered, Dead, Loading,
     LoadsFresh, Hit, SaveIdentityWrap, keyring, local, history, counts
<1> QED
  BY <1>1, <1>2, <1>3, <1>4, <1>5 DEF Inv

(* The pending key is stored and revives no copy. *)
LEMMA SaveIdentitySetWrapStep ==
    ASSUME Reliable, Inv, TypeInv', NEW p \in Procs, SaveIdentitySetWrap(p)
    PROVE  Inv'
<1>1. KeysBounded'
  BY DEF Inv, TypeInv, TypeOK, Entry, KeysBounded, PendingFresh, HeldKeys,
     Loading, NoKey, Pending, Reliable, SaveIdentitySetWrap, SetWrapKey,
     keyring, local, history, counts, Goto
<1>2. PendingFresh'
  BY DEF Inv, TypeInv, TypeOK, Entry, KeysBounded, PendingFresh, HeldKeys,
     Pending, NoKey, SaveIdentitySetWrap, SetWrapKey, keyring, local, history,
     counts, Goto
<1>3. HeldKeys'
  BY DEF Inv, TypeInv, TypeOK, Entry, KeysBounded, PendingFresh, Pending,
     Loading, HeldKeys, NoKey, SaveIdentitySetWrap, SetWrapKey, keyring,
     local, history, counts, Goto
<1>4. LocksCover'
  BY DEF Inv, TypeInv, TypeOK, Entry, KeysBounded, PendingFresh, Pending,
     Loading, HeldKeys, NoKey, LocksCover, Covered, Dead, Reliable,
     SaveIdentitySetWrap, SetWrapKey, keyring, local, history, counts, Goto
<1>5. LoadsFresh'
  BY DEF Inv, TypeInv, TypeOK, Entry, LocksCover, Covered, Dead, Loading,
     LoadsFresh, Hit, SaveIdentitySetWrap, SetWrapKey, keyring, local,
     history, counts, Goto
<1> QED
  BY <1>1, <1>2, <1>3, <1>4, <1>5 DEF Inv

(* The identity is written with a number no lock covers. *)
LEMMA SaveIdentityPutStep ==
    ASSUME Reliable, Inv, TypeInv', NEW p \in Procs, SaveIdentityPut(p)
    PROVE  Inv'
<1>1. KeysBounded'
  BY DEF Inv, TypeInv, TypeOK, Entry, KeysBounded, PendingFresh, HeldKeys,
     Loading, NoKey, Pending, Reliable, SaveIdentityPut, keyring, local,
     history, counts, Goto
<1>2. PendingFresh'
  BY DEF Inv, TypeInv, TypeOK, Entry, KeysBounded, PendingFresh, HeldKeys,
     Pending, NoKey, SaveIdentityPut, keyring, local, history, counts, Goto
<1>3. HeldKeys'
  BY DEF Inv, TypeInv, TypeOK, Entry, KeysBounded, PendingFresh, Pending,
     Loading, HeldKeys, NoKey, SaveIdentityPut, keyring, local, history,
     counts, Goto
<1>4. LocksCover'
  <2>1. ASSUME NEW n \in Nat, n <= saves, Covered(n)
        PROVE  Covered(n)'
    <3>1. (session # None /\ Due(session, n) => Dead(session.key))'
      BY <2>1 DEF Inv, TypeInv, TypeOK, Entry, KeysBounded, PendingFresh,
         Pending, Loading, HeldKeys, NoKey, Dead, Covered, Reliable,
         SaveIdentityPut, keyring, local, history, counts, Goto
    <3>2. (identity # None /\ Due(identity, n) => Dead(identity.key))'
      BY <2>1 DEF Inv, TypeInv, TypeOK, Entry, KeysBounded, PendingFresh,
         Pending, Loading, HeldKeys, NoKey, Dead, Covered, Reliable,
         SaveIdentityPut, keyring, local, history, counts, Goto
    <3>3. ASSUME NEW q \in Procs
          PROVE  (meta[q] # None /\ Due(meta[q], n) => Dead(meta[q].key))'
      BY <2>1 DEF Inv, TypeInv, TypeOK, Entry, KeysBounded, PendingFresh,
         Pending, Loading, HeldKeys, NoKey, Dead, Covered, Reliable,
         SaveIdentityPut, keyring, local, history, counts, Goto
    <3>4. ASSUME NEW q \in Procs
          PROVE  (Loading(q) /\ Due(rec[q], n) => Dead(rec[q].key))'
      BY <2>1 DEF Inv, TypeInv, TypeOK, Entry, KeysBounded, PendingFresh,
         Pending, Loading, HeldKeys, NoKey, Dead, Covered, Reliable,
         SaveIdentityPut, keyring, local, history, counts, Goto
    <3> QED
      BY <3>1, <3>2, <3>3, <3>4 DEF Covered
  <2> QED
    BY <2>1 DEF Inv, TypeInv, TypeOK, LocksCover, SaveIdentityPut, keyring,
       local, history, counts, Goto
<1>5. LoadsFresh'
  BY DEF Inv, TypeInv, TypeOK, Entry, LocksCover, Covered, Dead, Loading,
     LoadsFresh, Hit, SaveIdentityPut, keyring, local, history, counts,
     Goto
<1> QED
  BY <1>1, <1>2, <1>3, <1>4, <1>5 DEF Inv

(* A session without a key is an old one; a migration takes a copy of it. *)
LEMMA MigrateGetStep ==
    ASSUME Reliable, Inv, TypeInv', NEW p \in Procs, MigrateGet(p)
    PROVE  Inv'
<1>0. /\ UNCHANGED <<wrap, session, identity, meta, keys, history>>
      /\ \A q \in Procs : q # p => rec'[q] = rec[q] /\ pc'[q] = pc[q]
      /\ \/ /\ session # None /\ rec'[p] = session /\ Old(session)
            /\ session.key = NoKey /\ pc'[p] = "mig_wrap"
         \/ rec'[p] = rec[p] /\ pc'[p] = "idle"
  BY DEF Inv, TypeInv, TypeOK, KeysBounded, MigrateGet, Plaintext, keyring,
     counts, Goto
<1>1. KeysBounded'
  BY <1>0 DEF Inv, TypeInv, TypeOK, KeysBounded
<1>2. PendingFresh'
  <2> SUFFICES ASSUME NEW q \in Procs, Pending(q)'
               PROVE  /\ (rec[q].key # NoKey /\ rec[q].key # wrap)'
                      /\ (session # None => session.key # rec[q].key)'
                      /\ (identity # None => identity.key # rec[q].key)'
                      /\ \A r \in Procs :
                           /\ r # q => (rec[r].key # rec[q].key)'
                           /\ (meta[r] # None => meta[r].key # rec[q].key)'
    BY DEF PendingFresh
  <2>1. q # p /\ Pending(q) /\ rec'[q] = rec[q]
    BY <1>0 DEF Pending
  <2>2. ASSUME NEW r \in Procs, r # q
        PROVE  rec'[r].key # rec[q].key
    BY <1>0, <2>1, <2>2 DEF Inv, PendingFresh
  <2> QED
    BY <1>0, <2>1, <2>2 DEF Inv, PendingFresh
<1>3. HeldKeys'
  BY <1>0 DEF Inv, HeldKeys, Loading
<1>4. LocksCover'
  <2>1. ASSUME NEW k, Dead(k)
        PROVE  Dead(k)'
    BY <1>0, <2>1 DEF Dead, Pending
  <2>2. ASSUME NEW n, Covered(n)
        PROVE  Covered(n)'
    BY <1>0, <2>1, <2>2 DEF Covered, Loading
  <2> QED
    BY <1>0, <2>2 DEF Inv, TypeInv, TypeOK, LocksCover, history
<1>5. LoadsFresh'
  BY <1>0 DEF Inv, LoadsFresh, Hit, history
<1> QED
  BY <1>1, <1>2, <1>3, <1>4, <1>5 DEF Inv

(* It takes the stored key, or generates a fresh one. *)
LEMMA MigrateWrapStep ==
    ASSUME Reliable, Inv, TypeInv', NEW p \in Procs, MigrateWrap(p)
    PROVE  Inv'
<1>0. /\ rec' \in [Procs -> Entry] /\ keys' \in Nat
      /\ \A q \in Procs : q # p => rec'[q] = rec[q]
      /\ \/ /\ wrap # NoKey /\ rec'[p].key = wrap
            /\ keys' = keys /\ pc' = [pc EXCEPT ![p] = "mig_put"]
         \/ /\ wrap = NoKey /\ rec'[p].key = keys + 1
            /\ keys' = keys + 1 /\ pc' = [pc EXCEPT ![p] = "mig_setwrap"]
  BY WrapKeyResult DEF Inv, TypeInv, MigrateWrap
<1>1. KeysBounded'
  <2>1. keys <= keys' /\ rec'[p].key <= keys'
    BY <1>0 DEF Inv, TypeInv, TypeOK, KeysBounded
  <2>2. UNCHANGED <<wrap, session, identity, meta>>
    BY DEF MigrateWrap, keyring
  <2>3. ASSUME NEW q \in Procs
        PROVE  rec'[q].key <= keys'
    <3>1. CASE q = p
      BY <2>1, <3>1
    <3>2. CASE q # p
      BY <1>0, <2>1, <3>2 DEF Inv, TypeInv, TypeOK, Entry, KeysBounded
    <3> QED
      BY <3>1, <3>2
  <2> QED
    BY <1>0, <2>1, <2>2, <2>3 DEF Inv, TypeInv, TypeOK, Entry, KeysBounded,
       NoKey
<1>2. PendingFresh'
  <2> SUFFICES ASSUME NEW q \in Procs, Pending(q)'
               PROVE  /\ (rec[q].key # NoKey /\ rec[q].key # wrap)'
                      /\ (session # None => session.key # rec[q].key)'
                      /\ (identity # None => identity.key # rec[q].key)'
                      /\ \A r \in Procs :
                           /\ r # q => (rec[r].key # rec[q].key)'
                           /\ (meta[r] # None => meta[r].key # rec[q].key)'
    BY DEF PendingFresh
  <2>1. CASE q = p
    BY <1>0, <2>1 DEF Inv, TypeInv, TypeOK, Entry, KeysBounded, PendingFresh,
       HeldKeys, Pending, NoKey, MigrateWrap, keyring, local, history,
       counts
  <2>2. CASE q # p
    <3>1. Pending(q) /\ rec'[q] = rec[q]
      BY <1>0, <2>2 DEF Inv, TypeInv, TypeOK, Pending
    <3>2. UNCHANGED <<wrap, session, identity, meta>>
      BY DEF MigrateWrap, keyring
    <3>3. rec'[p].key # rec[q].key
      BY <1>0, <3>1 DEF Inv, TypeInv, TypeOK, Entry, KeysBounded, PendingFresh
    <3> QED
      BY <1>0, <2>2, <3>1, <3>2, <3>3 DEF Inv, PendingFresh
  <2> QED
    BY <2>1, <2>2
<1>3. HeldKeys'
  <2>1. Old(rec[p]) /\ rec'[p].save = rec[p].save
    BY WrapKeyResult DEF Inv, TypeInv, HeldKeys, MigrateWrap
  <2> QED
    BY <1>0, <2>1 DEF Inv, TypeInv, TypeOK, HeldKeys, Loading
<1>4. LocksCover'
  <2>1. ASSUME NEW n \in Nat, n <= saves, Covered(n)
        PROVE  Covered(n)'
    <3>1. (session # None /\ Due(session, n) => Dead(session.key))'
      BY <1>0, <2>1 DEF Inv, TypeInv, TypeOK, Entry, KeysBounded,
         PendingFresh, Pending, Loading, HeldKeys, NoKey, Dead, Covered,
         Reliable, MigrateWrap, keyring, local, history, counts
    <3>2. (identity # None /\ Due(identity, n) => Dead(identity.key))'
      BY <1>0, <2>1 DEF Inv, TypeInv, TypeOK, Entry, KeysBounded,
         PendingFresh, Pending, Loading, HeldKeys, NoKey, Dead, Covered,
         Reliable, MigrateWrap, keyring, local, history, counts
    <3>3. ASSUME NEW q \in Procs
          PROVE  (meta[q] # None /\ Due(meta[q], n) => Dead(meta[q].key))'
      BY <1>0, <2>1 DEF Inv, TypeInv, TypeOK, Entry, KeysBounded,
         PendingFresh, Pending, Loading, HeldKeys, NoKey, Dead, Covered,
         Reliable, MigrateWrap, keyring, local, history, counts
    <3>4. ASSUME NEW q \in Procs
          PROVE  (Loading(q) /\ Due(rec[q], n) => Dead(rec[q].key))'
      <4>1. CASE q = p
        BY <1>0, <4>1 DEF Inv, TypeInv, TypeOK, Loading, MigrateWrap
      <4>2. CASE q # p
        <5>1. UNCHANGED wrap /\ rec'[q] = rec[q] /\ pc'[q] = pc[q]
          BY <1>0, <4>2 DEF Inv, TypeInv, TypeOK, MigrateWrap, keyring
        <5>2. ASSUME NEW r \in Procs, Pending(r)', Dead(rec[q].key)
              PROVE  rec'[r].key # rec[q].key
          BY <1>0, <5>2 DEF Inv, TypeInv, TypeOK, Entry, KeysBounded,
             Pending, Dead
        <5> QED
          BY <2>1, <5>1, <5>2 DEF Dead, Covered, Loading
      <4> QED
        BY <4>1, <4>2
    <3> QED
      BY <3>1, <3>2, <3>3, <3>4 DEF Covered
  <2> QED
    BY <1>0, <2>1 DEF Inv, TypeInv, TypeOK, LocksCover, MigrateWrap,
       keyring, local, history, counts
<1>5. LoadsFresh'
  BY <1>0 DEF Inv, TypeInv, TypeOK, Entry, LocksCover, Covered, Dead, Loading,
     LoadsFresh, Hit, MigrateWrap, keyring, local, history, counts
<1> QED
  BY <1>1, <1>2, <1>3, <1>4, <1>5 DEF Inv

(* The pending key is stored and revives no copy. *)
LEMMA MigrateSetWrapStep ==
    ASSUME Reliable, Inv, TypeInv', NEW p \in Procs, MigrateSetWrap(p)
    PROVE  Inv'
<1>1. KeysBounded'
  BY DEF Inv, TypeInv, TypeOK, Entry, KeysBounded, PendingFresh, HeldKeys,
     Loading, NoKey, Pending, Reliable, MigrateSetWrap, SetWrapKey,
     keyring, local, history, counts, Goto
<1>2. PendingFresh'
  BY DEF Inv, TypeInv, TypeOK, Entry, KeysBounded, PendingFresh, HeldKeys,
     Pending, NoKey, MigrateSetWrap, SetWrapKey, keyring, local, history,
     counts, Goto
<1>3. HeldKeys'
  BY DEF Inv, TypeInv, TypeOK, Entry, KeysBounded, PendingFresh, Pending,
     Loading, HeldKeys, NoKey, MigrateSetWrap, SetWrapKey, keyring,
     local, history, counts, Goto
<1>4. LocksCover'
  BY DEF Inv, TypeInv, TypeOK, Entry, KeysBounded, PendingFresh, Pending,
     Loading, HeldKeys, NoKey, LocksCover, Covered, Dead, Reliable,
     MigrateSetWrap, SetWrapKey, keyring, local, history, counts, Goto
<1>5. LoadsFresh'
  BY DEF Inv, TypeInv, TypeOK, Entry, LocksCover, Covered, Dead, Loading,
     LoadsFresh, Hit, MigrateSetWrap, SetWrapKey, keyring, local,
     history, counts, Goto
<1> QED
  BY <1>1, <1>2, <1>3, <1>4, <1>5 DEF Inv

(* The old session goes back, encrypted and still old. *)
LEMMA MigratePutStep ==
    ASSUME Reliable, Inv, TypeInv', NEW p \in Procs, MigratePut(p)
    PROVE  Inv'
<1>0. /\ session' = rec[p] /\ Old(rec[p]) /\ pc[p] = "mig_put"
      /\ pc' = [pc EXCEPT ![p] = "idle"]
      /\ UNCHANGED <<wrap, identity, rec, meta, keys, history>>
  BY DEF Inv, HeldKeys, MigratePut, local, counts, Goto
<1>1. KeysBounded'
  BY <1>0 DEF Inv, KeysBounded
<1>2. PendingFresh'
  BY <1>0 DEF Inv, TypeInv, TypeOK, PendingFresh, Pending
<1>3. HeldKeys'
  BY <1>0 DEF Inv, TypeInv, TypeOK, HeldKeys, Loading
<1>4. LocksCover'
  <2>1. ASSUME NEW k, Dead(k)
        PROVE  Dead(k)'
    BY <1>0, <2>1 DEF Inv, TypeInv, TypeOK, Dead, Pending
  <2>2. ASSUME NEW n, Covered(n)
        PROVE  Covered(n)'
    BY <1>0, <2>1, <2>2 DEF Inv, TypeInv, TypeOK, Covered, Loading
  <2> QED
    BY <1>0, <2>2 DEF Inv, TypeInv, TypeOK, LocksCover, history
<1>5. LoadsFresh'
  BY <1>0 DEF Inv, TypeInv, TypeOK, LoadsFresh, Hit, history
<1> QED
  BY <1>1, <1>2, <1>3, <1>4, <1>5 DEF Inv

(* The session goes; copies of it may remain. *)
LEMMA RevokeSessionStep ==
    ASSUME Reliable, Inv, TypeInv', NEW p \in Procs, RevokeSession(p)
    PROVE  Inv'
<1>1. KeysBounded'
  BY DEF Inv, TypeInv, TypeOK, Entry, KeysBounded, PendingFresh, HeldKeys,
     Loading, NoKey, Pending, Reliable, RevokeSession, keyring, local,
     history, counts, Goto
<1>2. PendingFresh'
  BY DEF Inv, TypeInv, TypeOK, Entry, KeysBounded, PendingFresh, HeldKeys,
     Pending, NoKey, RevokeSession, keyring, local, history, counts, Goto
<1>3. HeldKeys'
  BY DEF Inv, TypeInv, TypeOK, Entry, KeysBounded, PendingFresh, Pending,
     Loading, HeldKeys, NoKey, RevokeSession, keyring, local, history, counts,
     Goto
<1>4. LocksCover'
  BY DEF Inv, TypeInv, TypeOK, Entry, KeysBounded, PendingFresh, Pending,
     Loading, HeldKeys, NoKey, LocksCover, Covered, Dead, Reliable,
     RevokeSession, keyring, local, history, counts, Goto
<1>5. LoadsFresh'
  BY DEF Inv, TypeInv, TypeOK, Entry, LocksCover, Covered, Dead, Loading,
     LoadsFresh, Hit, RevokeSession, keyring, local, history, counts, Goto
<1> QED
  BY <1>1, <1>2, <1>3, <1>4, <1>5 DEF Inv

(* The key goes: from here on the key of every copy is dead. *)
LEMMA RevokeWrapStep ==
    ASSUME Reliable, Inv, TypeInv', NEW p \in Procs, RevokeWrap(p)
    PROVE  Inv'
<1>1. KeysBounded'
  BY DEF Inv, TypeInv, TypeOK, Entry, KeysBounded, PendingFresh, HeldKeys,
     Loading, NoKey, Pending, Reliable, RevokeWrap, keyring, local, history,
     counts, Goto
<1>2. PendingFresh'
  BY DEF Inv, TypeInv, TypeOK, Entry, KeysBounded, PendingFresh, HeldKeys,
     Pending, NoKey, RevokeWrap, keyring, local, history, counts, Goto
<1>3. HeldKeys'
  BY DEF Inv, TypeInv, TypeOK, Entry, KeysBounded, PendingFresh, Pending,
     Loading, HeldKeys, NoKey, RevokeWrap, keyring, local, history, counts,
     Goto
<1>4. LocksCover'
  <2>1. ASSUME NEW n \in Nat, n <= saves, n <= saves
        PROVE  Covered(n)'
    <3>1. (session # None /\ Due(session, n) => Dead(session.key))'
      BY <2>1 DEF Inv, TypeInv, TypeOK, Entry, KeysBounded, PendingFresh,
         Pending, Loading, HeldKeys, NoKey, Dead, Covered, Reliable,
         RevokeWrap, keyring, local, history, counts, Goto
    <3>2. (identity # None /\ Due(identity, n) => Dead(identity.key))'
      BY <2>1 DEF Inv, TypeInv, TypeOK, Entry, KeysBounded, PendingFresh,
         Pending, Loading, HeldKeys, NoKey, Dead, Covered, Reliable,
         RevokeWrap, keyring, local, history, counts, Goto
    <3>3. ASSUME NEW q \in Procs
          PROVE  (meta[q] # None /\ Due(meta[q], n) => Dead(meta[q].key))'
      BY <2>1 DEF Inv, TypeInv, TypeOK, Entry, KeysBounded, PendingFresh,
         Pending, Loading, HeldKeys, NoKey, Dead, Covered, Reliable,
         RevokeWrap, keyring, local, history, counts, Goto
    <3>4. ASSUME NEW q \in Procs
          PROVE  (Loading(q) /\ Due(rec[q], n) => Dead(rec[q].key))'
      BY <2>1 DEF Inv, TypeInv, TypeOK, Entry, KeysBounded, PendingFresh,
         Pending, Loading, HeldKeys, NoKey, Dead, Covered, Reliable,
         RevokeWrap, keyring, local, history, counts, Goto
    <3> QED
      BY <3>1, <3>2, <3>3, <3>4 DEF Covered
  <2> QED
    BY <2>1 DEF Inv, TypeInv, TypeOK, LocksCover, RevokeWrap, NoKey, keyring,
       local, history, counts, Goto
<1>5. LoadsFresh'
  BY DEF Inv, TypeInv, TypeOK, Entry, LocksCover, Covered, Dead, Loading,
     LoadsFresh, Hit, RevokeWrap, NoKey, keyring, local, history, counts,
     Goto
<1> QED
  BY <1>1, <1>2, <1>3, <1>4, <1>5 DEF Inv

(* The lock is complete and covers the writes up to its mark. *)
LEMMA RevokeIdentityStep ==
    ASSUME Reliable, Inv, TypeInv', NEW p \in Procs, RevokeIdentity(p)
    PROVE  Inv'
<1>1. KeysBounded'
  BY DEF Inv, TypeInv, TypeOK, Entry, KeysBounded, PendingFresh, HeldKeys,
     Loading, NoKey, Pending, Reliable, RevokeIdentity, keyring, local,
     history, counts, Goto
<1>2. PendingFresh'
  BY DEF Inv, TypeInv, TypeOK, Entry, KeysBounded, PendingFresh, HeldKeys,
     Pending, NoKey, RevokeIdentity, keyring, local, history, counts, Goto
<1>3. HeldKeys'
  BY DEF Inv, TypeInv, TypeOK, Entry, KeysBounded, PendingFresh, Pending,
     Loading, HeldKeys, NoKey, RevokeIdentity, keyring, local, history,
     counts, Goto
<1>4. LocksCover'
  <2>1. ASSUME NEW n \in Nat, n <= saves, Covered(n)
        PROVE  Covered(n)'
    <3>1. (session # None /\ Due(session, n) => Dead(session.key))'
      BY <2>1 DEF Inv, TypeInv, TypeOK, Entry, KeysBounded, PendingFresh,
         Pending, Loading, HeldKeys, NoKey, Dead, Covered, Reliable,
         RevokeIdentity, keyring, local, history, counts, Goto
    <3>2. (identity # None /\ Due(identity, n) => Dead(identity.key))'
      BY <2>1 DEF Inv, TypeInv, TypeOK, Entry, KeysBounded, PendingFresh,
         Pending, Loading, HeldKeys, NoKey, Dead, Covered, Reliable,
         RevokeIdentity, keyring, local, history, counts, Goto
    <3>3. ASSUME NEW q \in Procs
          PROVE  (meta[q] # None /\ Due(meta[q], n) => Dead(meta[q].key))'
      BY <2>1 DEF Inv, TypeInv, TypeOK, Entry, KeysBounded, PendingFresh,
         Pending, Loading, HeldKeys, NoKey, Dead, Covered, Reliable,
         RevokeIdentity, keyring, local, history, counts, Goto
    <3>4. ASSUME NEW q \in Procs
          PROVE  (Loading(q) /\ Due(rec[q], n) => Dead(rec[q].key))'
      BY <2>1 DEF Inv, TypeInv, TypeOK, Entry, KeysBounded, PendingFresh,
         Pending, Loading, HeldKeys, NoKey, Dead, Covered, Reliable,
         RevokeIdentity, keyring, local, history, counts, Goto
    <3> QED
      BY <3>1, <3>2, <3>3, <3>4 DEF Covered
  <2> QED
    BY <2>1 DEF Inv, TypeInv, TypeOK, LocksCover, RevokeIdentity, keyring,
       local, history, counts, Goto
<1>5. LoadsFresh'
  BY DEF Inv, TypeInv, TypeOK, Entry, LocksCover, Covered, Dead, Loading,
     LoadsFresh, Hit, RevokeIdentity, keyring, local, history, counts, Goto
<1> QED
  BY <1>1, <1>2, <1>3, <1>4, <1>5 DEF Inv

(* A process that dies takes its pending key with it. *)
LEMMA CrashStep ==
    ASSUME Reliable, Inv, TypeInv', NEW p \in Procs, Crash(p)
    PROVE  Inv'
<1>1. KeysBounded'
  BY DEF Inv, TypeInv, TypeOK, Entry, KeysBounded, PendingFresh, HeldKeys,
     Loading, NoKey, Pending, Reliable, Crash, keyring, local, history,
     counts, Goto
<1>2. PendingFresh'
  BY DEF Inv, TypeInv, TypeOK, Entry, KeysBounded, PendingFresh, HeldKeys,
     Pending, NoKey, Crash, keyring, local, history, counts, Goto
<1>3. HeldKeys'
  BY DEF Inv, TypeInv, TypeOK, Entry, KeysBounded, PendingFresh, Pending,
     Loading, HeldKeys, NoKey, Crash, keyring, local, history, counts, Goto
<1>4. LocksCover'
  BY DEF Inv, TypeInv, TypeOK, Entry, KeysBounded, PendingFresh, Pending,
     Loading, HeldKeys, NoKey, LocksCover, Covered, Dead, Reliable, Crash,
     keyring, local, history, counts, Goto
<1>5. LoadsFresh'
  BY DEF Inv, TypeInv, TypeOK, Entry, LocksCover, Covered, Dead, Loading,
     LoadsFresh, Hit, Crash, keyring, local, history, counts, Goto
<1> QED
  BY <1>1, <1>2, <1>3, <1>4, <1>5 DEF Inv

(* Inv is inductive: the steps one by one. *)
LEMMA NextInv ==
    ASSUME Reliable, Inv, [Next]_vars
    PROVE  Inv'
<1>1. TypeInv'
  BY TypeStep DEF Inv
<1>2. CASE UNCHANGED vars
  BY <1>1, <1>2 DEF Inv, KeysBounded, PendingFresh, HeldKeys, LocksCover,
     Covered, Dead,
     Pending, Loading, LoadsFresh, Hit, vars, keyring, local, history, counts
<1>3. CASE Tick
  BY <1>1, <1>3, TickStep
<1>4. ASSUME NEW p \in Procs, NEW c \in {"unlock", "open", "complete",
             "migrate"}, Start(p, c)
      PROVE  Inv'
  BY <1>1, <1>4, StartStep
<1>5. ASSUME NEW p \in Procs, StartLock(p) \/ Prompt(p) \/ Crash(p)
      PROVE  Inv'
  BY <1>1, <1>5, StartLockStep, PromptStep, CrashStep
<1>6. ASSUME NEW p \in Procs, Load(p)
      PROVE  Inv'
  BY <1>1, <1>6, LoadIdentityGetStep, LoadIdentityMetaStep,
     LoadIdentityDecryptStep, LoadIdentityTouchStep,
     LoadIdentityTouchSessionStep, LoadPassphraseGetStep,
     LoadPassphraseDecryptStep, LoadPassphraseTouchStep DEF Load
<1>7. ASSUME NEW p \in Procs, Save(p)
      PROVE  Inv'
  BY <1>1, <1>7, SavePassphraseWrapStep, SavePassphraseSetWrapStep,
     SavePassphrasePutStep, SaveIdentityMetaStep, SaveIdentityWrapStep,
     SaveIdentitySetWrapStep, SaveIdentityPutStep DEF Save
<1>8. ASSUME NEW p \in Procs, Migrate(p)
      PROVE  Inv'
  BY <1>1, <1>8, MigrateGetStep, MigrateWrapStep, MigrateSetWrapStep,
     MigratePutStep DEF Migrate
<1>9. ASSUME NEW p \in Procs, Revoke(p)
      PROVE  Inv'
  BY <1>1, <1>9, RevokeSessionStep, RevokeWrapStep, RevokeIdentityStep DEF
     Revoke
<1> QED
  BY <1>2, <1>3, <1>4, <1>5, <1>6, <1>7, <1>8, <1>9 DEF Next

-----------------------------------------------------------------------------
(* A plaintext session excludes a cached identity and everybody who could  *)
(* write it back; encrypted copies are encrypted.                          *)
PlainInv ==
    /\ Plaintext(session) =>
         /\ identity = None
         /\ \A p \in Procs : pc[p] \notin {"li_meta", "li_decrypt", "li_touch",
                "li_touch_session", "si_meta", "si_wrap", "si_setwrap", "si_put"}
    /\ \A p \in Procs :
         /\ pc[p] \in {"li_decrypt", "li_touch", "li_touch_session"} => ~Plaintext(meta[p])
         /\ pc[p] \in {"lp_decrypt", "lp_touch", "sp_setwrap", "sp_put",
                       "mig_setwrap", "mig_put"} => rec[p].key # NoKey

(* No step makes the session plaintext: whoever writes the session back    *)
(* has read an encrypted one, because a cached identity, which the touch   *)
(* of the session needs, excludes a plaintext session.                     *)
LEMMA PlainStep ==
    ASSUME TypeInv, PlainInv, [Next]_vars
    PROVE  PlainInv' /\ (Plaintext(session') => Plaintext(session))
<1>1. CASE UNCHANGED vars
  BY <1>1 DEF PlainInv, Plaintext, vars, keyring, local
<1>2. CASE Tick
  BY <1>2 DEF PlainInv, Plaintext, Tick, keyring, local
<1>3. ASSUME NEW p \in Procs, NEW c \in {"unlock", "open", "complete",
             "migrate"}, Start(p, c)
      PROVE  PlainInv' /\ (Plaintext(session') => Plaintext(session))
  BY <1>3 DEF TypeInv, TypeOK, Entry, PlainInv, Plaintext, Start, keyring,
     local, Goto
<1>4. ASSUME NEW p \in Procs, StartLock(p)
      PROVE  PlainInv' /\ (Plaintext(session') => Plaintext(session))
  BY <1>4 DEF TypeInv, TypeOK, Entry, PlainInv, Plaintext, StartLock, keyring,
     local, Goto
<1>5. ASSUME NEW p \in Procs, Prompt(p)
      PROVE  PlainInv' /\ (Plaintext(session') => Plaintext(session))
  BY <1>5 DEF TypeInv, TypeOK, Entry, PlainInv, Plaintext, Prompt, Blank,
     keyring, local, Goto
<1>6. ASSUME NEW p \in Procs, LoadIdentityGet(p)
      PROVE  PlainInv' /\ (Plaintext(session') => Plaintext(session))
  BY <1>6 DEF TypeInv, TypeOK, Entry, PlainInv, Plaintext, LoadIdentityGet,
     IdentityMiss, keyring, local, Goto
<1>7. ASSUME NEW p \in Procs, LoadIdentityMeta(p)
      PROVE  PlainInv' /\ (Plaintext(session') => Plaintext(session))
  BY <1>7 DEF TypeInv, TypeOK, Entry, PlainInv, Plaintext, LoadIdentityMeta,
     IdentityMiss, Evict, keyring, local, Goto
<1>8. ASSUME NEW p \in Procs, LoadIdentityDecrypt(p)
      PROVE  PlainInv' /\ (Plaintext(session') => Plaintext(session))
  BY <1>8 DEF TypeInv, TypeOK, Entry, PlainInv, Plaintext,
     LoadIdentityDecrypt, IdentityMiss, Opens, keyring, local, Goto
<1>9. ASSUME NEW p \in Procs, LoadIdentityTouch(p)
      PROVE  PlainInv' /\ (Plaintext(session') => Plaintext(session))
  BY <1>9 DEF TypeInv, TypeOK, Entry, PlainInv, Plaintext, LoadIdentityTouch,
     keyring, local, Goto
<1>10. ASSUME NEW p \in Procs, LoadIdentityTouchSession(p)
      PROVE  PlainInv' /\ (Plaintext(session') => Plaintext(session))
  BY <1>10 DEF TypeInv, TypeOK, Entry, PlainInv, Plaintext,
     LoadIdentityTouchSession, keyring, local, Goto
<1>11. ASSUME NEW p \in Procs, LoadPassphraseGet(p)
      PROVE  PlainInv' /\ (Plaintext(session') => Plaintext(session))
  BY <1>11 DEF TypeInv, TypeOK, Entry, PlainInv, Plaintext, LoadPassphraseGet,
     PassphraseMiss, AsUnlock, Evict, keyring, local, Goto
<1>12. ASSUME NEW p \in Procs, LoadPassphraseDecrypt(p)
      PROVE  PlainInv' /\ (Plaintext(session') => Plaintext(session))
  BY <1>12 DEF TypeInv, TypeOK, Entry, PlainInv, Plaintext,
     LoadPassphraseDecrypt, PassphraseMiss, AsUnlock, Opens, keyring, local,
     Goto
<1>13. ASSUME NEW p \in Procs, LoadPassphraseTouch(p)
      PROVE  PlainInv' /\ (Plaintext(session') => Plaintext(session))
  BY <1>13 DEF TypeInv, TypeOK, Entry, PlainInv, Plaintext,
     LoadPassphraseTouch, keyring, local, Goto
<1>14. ASSUME NEW p \in Procs, SavePassphraseWrap(p)
      PROVE  PlainInv' /\ (Plaintext(session') => Plaintext(session))
  <2>1. /\ keys \in Nat /\ \A q \in Procs : q # p => rec'[q] = rec[q]
        /\ rec'[p].key # NoKey
        /\ pc' = [pc EXCEPT ![p] = "sp_put"] \/ pc' = [pc EXCEPT ![p] = "sp_setwrap"]
    BY <1>14, WrapKeyResult DEF TypeInv, TypeOK, NoKey, SavePassphraseWrap
  <2> QED
    BY <1>14, <2>1 DEF TypeInv, TypeOK, PlainInv, Plaintext,
       SavePassphraseWrap, keyring
<1>15. ASSUME NEW p \in Procs, SavePassphraseSetWrap(p)
      PROVE  PlainInv' /\ (Plaintext(session') => Plaintext(session))
  BY <1>15 DEF TypeInv, TypeOK, Entry, PlainInv, Plaintext,
     SavePassphraseSetWrap, SetWrapKey, keyring, local, Goto
<1>16. ASSUME NEW p \in Procs, SavePassphrasePut(p)
      PROVE  PlainInv' /\ (Plaintext(session') => Plaintext(session))
  BY <1>16 DEF TypeInv, TypeOK, Entry, PlainInv, Plaintext, SavePassphrasePut,
     keyring, local, Goto
<1>17. ASSUME NEW p \in Procs, SaveIdentityMeta(p)
      PROVE  PlainInv' /\ (Plaintext(session') => Plaintext(session))
  BY <1>17 DEF TypeInv, TypeOK, Entry, PlainInv, Plaintext, SaveIdentityMeta,
     keyring, local, Goto
<1>18. ASSUME NEW p \in Procs, SaveIdentityWrap(p)
      PROVE  PlainInv' /\ (Plaintext(session') => Plaintext(session))
  <2>1. /\ keys \in Nat /\ \A q \in Procs : q # p => rec'[q] = rec[q]
        /\ rec'[p].key # NoKey
        /\ pc' = [pc EXCEPT ![p] = "si_put"] \/ pc' = [pc EXCEPT ![p] = "si_setwrap"]
    BY <1>18, WrapKeyResult DEF TypeInv, TypeOK, NoKey, SaveIdentityWrap
  <2> QED
    BY <1>18, <2>1 DEF TypeInv, TypeOK, PlainInv, Plaintext, SaveIdentityWrap,
       keyring
<1>19. ASSUME NEW p \in Procs, SaveIdentitySetWrap(p)
      PROVE  PlainInv' /\ (Plaintext(session') => Plaintext(session))
  BY <1>19 DEF TypeInv, TypeOK, Entry, PlainInv, Plaintext,
     SaveIdentitySetWrap, SetWrapKey, keyring, local, Goto
<1>20. ASSUME NEW p \in Procs, SaveIdentityPut(p)
      PROVE  PlainInv' /\ (Plaintext(session') => Plaintext(session))
  BY <1>20 DEF TypeInv, TypeOK, Entry, PlainInv, Plaintext, SaveIdentityPut,
     keyring, local, Goto
<1>21. ASSUME NEW p \in Procs, MigrateGet(p)
      PROVE  PlainInv' /\ (Plaintext(session') => Plaintext(session))
  BY <1>21 DEF TypeInv, TypeOK, Entry, PlainInv, Plaintext, MigrateGet,
     keyring, local, Goto
<1>22. ASSUME NEW p \in Procs, MigrateWrap(p)
      PROVE  PlainInv' /\ (Plaintext(session') => Plaintext(session))
  <2>1. /\ keys \in Nat /\ \A q \in Procs : q # p => rec'[q] = rec[q]
        /\ rec'[p].key # NoKey
        /\ pc' = [pc EXCEPT ![p] = "mig_put"] \/ pc' = [pc EXCEPT ![p] = "mig_setwrap"]
    BY <1>22, WrapKeyResult DEF TypeInv, TypeOK, NoKey, MigrateWrap
  <2> QED
    BY <1>22, <2>1 DEF TypeInv, TypeOK, PlainInv, Plaintext, MigrateWrap,
       keyring
<1>23. ASSUME NEW p \in Procs, MigrateSetWrap(p)
      PROVE  PlainInv' /\ (Plaintext(session') => Plaintext(session))
  BY <1>23 DEF TypeInv, TypeOK, Entry, PlainInv, Plaintext, MigrateSetWrap,
     SetWrapKey, keyring, local, Goto
<1>24. ASSUME NEW p \in Procs, MigratePut(p)
      PROVE  PlainInv' /\ (Plaintext(session') => Plaintext(session))
  BY <1>24 DEF TypeInv, TypeOK, Entry, PlainInv, Plaintext, MigratePut,
     keyring, local, Goto
<1>25. ASSUME NEW p \in Procs, RevokeSession(p)
      PROVE  PlainInv' /\ (Plaintext(session') => Plaintext(session))
  BY <1>25 DEF TypeInv, TypeOK, Entry, PlainInv, Plaintext, RevokeSession,
     keyring, local, Goto
<1>26. ASSUME NEW p \in Procs, RevokeWrap(p)
      PROVE  PlainInv' /\ (Plaintext(session') => Plaintext(session))
  BY <1>26 DEF TypeInv, TypeOK, Entry, PlainInv, Plaintext, RevokeWrap, NoKey,
     keyring, local, Goto
<1>27. ASSUME NEW p \in Procs, RevokeIdentity(p)
      PROVE  PlainInv' /\ (Plaintext(session') => Plaintext(session))
  BY <1>27 DEF TypeInv, TypeOK, Entry, PlainInv, Plaintext, RevokeIdentity,
     keyring, local, Goto
<1>28. ASSUME NEW p \in Procs, Crash(p)
      PROVE  PlainInv' /\ (Plaintext(session') => Plaintext(session))
  BY <1>28 DEF TypeInv, TypeOK, Entry, PlainInv, Plaintext, Crash, keyring,
     local, Goto
<1> QED
  BY <1>1, <1>2, <1>3, <1>4, <1>5, <1>6, <1>7, <1>8, <1>9, <1>10, <1>11,
     <1>12, <1>13, <1>14, <1>15, <1>16, <1>17, <1>18, <1>19, <1>20, <1>21,
     <1>22, <1>23, <1>24, <1>25, <1>26, <1>27, <1>28 DEF Next, Load, Save,
     Migrate, Revoke

-----------------------------------------------------------------------------
(* One process uses the keyring at a time. *)
SingleProcess == \A p, q \in Procs : p = q

(* A cached session is encrypted under the stored wrap key, the copies     *)
(* that a load writes back are the session itself, a key is stored only    *)
(* where there was none, and revoke has deleted the session before it      *)
(* touches the key.                                                        *)
WarmInv ==
    /\ session # None /\ session.key # NoKey => wrap = session.key
    /\ \A p \in Procs :
         /\ pc[p] \in {"li_decrypt", "li_touch", "li_touch_session"} => meta[p] = session
         /\ pc[p] \in {"lp_decrypt", "lp_touch"} =>
              session # None /\ rec[p] = session /\ session.key # NoKey
         /\ pc[p] \in {"sp_put", "mig_put"} => rec[p].key = wrap
         /\ pc[p] \in {"sp_setwrap", "si_setwrap", "mig_setwrap"} => wrap = NoKey
         /\ pc[p] \in {"rv_wrap", "rv_identity"} => session = None

(* With one process, no step leaves a session under a key that is not      *)
(* stored, so a load of an encrypted session decrypts it or evicts it.     *)
LEMMA WarmStep ==
    ASSUME SingleProcess, TypeInv, WarmInv, PromptMeansEmpty, [Next]_vars
    PROVE  WarmInv' /\ PromptMeansEmpty'
<1>1. CASE UNCHANGED vars
  BY <1>1 DEF WarmInv, PromptMeansEmpty, Plaintext, vars, keyring, local
<1>2. CASE Tick
  BY <1>2 DEF WarmInv, PromptMeansEmpty, Plaintext, Tick, keyring, local
<1>3. ASSUME NEW p \in Procs, NEW c \in {"unlock", "open", "complete",
             "migrate"}, Start(p, c)
      PROVE  WarmInv' /\ PromptMeansEmpty'
  BY <1>3 DEF TypeInv, TypeOK, Entry, WarmInv, PromptMeansEmpty, Plaintext,
     Start, keyring, local, Goto
<1>4. ASSUME NEW p \in Procs, StartLock(p)
      PROVE  WarmInv' /\ PromptMeansEmpty'
  BY <1>4 DEF TypeInv, TypeOK, Entry, WarmInv, PromptMeansEmpty, Plaintext,
     StartLock, keyring, local, Goto
<1>5. ASSUME NEW p \in Procs, Prompt(p)
      PROVE  WarmInv' /\ PromptMeansEmpty'
  BY <1>5 DEF TypeInv, TypeOK, Entry, WarmInv, PromptMeansEmpty,
     SingleProcess, Plaintext, Prompt, Blank, keyring, local, Goto
<1>6. ASSUME NEW p \in Procs, LoadIdentityGet(p)
      PROVE  WarmInv' /\ PromptMeansEmpty'
  BY <1>6 DEF TypeInv, TypeOK, Entry, WarmInv, PromptMeansEmpty,
     SingleProcess, Plaintext, LoadIdentityGet, IdentityMiss, keyring,
     local, Goto
<1>7. ASSUME NEW p \in Procs, LoadIdentityMeta(p)
      PROVE  WarmInv' /\ PromptMeansEmpty'
  BY <1>7 DEF TypeInv, TypeOK, Entry, WarmInv, PromptMeansEmpty,
     SingleProcess, Plaintext, LoadIdentityMeta, IdentityMiss, Evict,
     keyring, local, Goto
<1>8. ASSUME NEW p \in Procs, LoadIdentityDecrypt(p)
      PROVE  WarmInv' /\ PromptMeansEmpty'
  BY <1>8 DEF TypeInv, TypeOK, Entry, WarmInv, PromptMeansEmpty,
     SingleProcess, Plaintext, LoadIdentityDecrypt, IdentityMiss, Opens,
     keyring, local, Goto
<1>9. ASSUME NEW p \in Procs, LoadIdentityTouch(p)
      PROVE  WarmInv' /\ PromptMeansEmpty'
  BY <1>9 DEF TypeInv, TypeOK, Entry, WarmInv, PromptMeansEmpty,
     SingleProcess, Plaintext, LoadIdentityTouch, keyring, local, Goto
<1>10. ASSUME NEW p \in Procs, LoadIdentityTouchSession(p)
      PROVE  WarmInv' /\ PromptMeansEmpty'
  BY <1>10 DEF TypeInv, TypeOK, Entry, WarmInv, PromptMeansEmpty,
     SingleProcess, Plaintext, LoadIdentityTouchSession, keyring, local,
     Goto
<1>11. ASSUME NEW p \in Procs, LoadPassphraseGet(p)
      PROVE  WarmInv' /\ PromptMeansEmpty'
  BY <1>11 DEF TypeInv, TypeOK, Entry, WarmInv, PromptMeansEmpty,
     SingleProcess, Plaintext, LoadPassphraseGet, PassphraseMiss, AsUnlock,
     Evict, keyring, local, Goto
<1>12. ASSUME NEW p \in Procs, LoadPassphraseDecrypt(p)
      PROVE  WarmInv' /\ PromptMeansEmpty'
  BY <1>12 DEF TypeInv, TypeOK, Entry, WarmInv, PromptMeansEmpty,
     SingleProcess, Plaintext, LoadPassphraseDecrypt, PassphraseMiss,
     AsUnlock, Opens, keyring, local, Goto
<1>13. ASSUME NEW p \in Procs, LoadPassphraseTouch(p)
      PROVE  WarmInv' /\ PromptMeansEmpty'
  BY <1>13 DEF TypeInv, TypeOK, Entry, WarmInv, PromptMeansEmpty,
     SingleProcess, Plaintext, LoadPassphraseTouch, keyring, local, Goto
<1>14. ASSUME NEW p \in Procs, SavePassphraseWrap(p)
      PROVE  WarmInv' /\ PromptMeansEmpty'
  <2>1. /\ keys \in Nat /\ \A q \in Procs : q = p
        /\ \/ wrap # NoKey /\ rec'[p].key = wrap /\ pc' = [pc EXCEPT ![p] = "sp_put"]
           \/ wrap = NoKey /\ pc' = [pc EXCEPT ![p] = "sp_setwrap"]
    BY <1>14, WrapKeyResult DEF SingleProcess, TypeInv, TypeOK,
       SavePassphraseWrap
  <2> QED
    BY <1>14, <2>1 DEF TypeInv, TypeOK, WarmInv, PromptMeansEmpty,
       Plaintext, SavePassphraseWrap, keyring
<1>15. ASSUME NEW p \in Procs, SavePassphraseSetWrap(p)
      PROVE  WarmInv' /\ PromptMeansEmpty'
  BY <1>15 DEF TypeInv, TypeOK, Entry, WarmInv, PromptMeansEmpty,
     SingleProcess, Plaintext, SavePassphraseSetWrap, SetWrapKey, keyring,
     local, Goto
<1>16. ASSUME NEW p \in Procs, SavePassphrasePut(p)
      PROVE  WarmInv' /\ PromptMeansEmpty'
  BY <1>16 DEF TypeInv, TypeOK, Entry, WarmInv, PromptMeansEmpty,
     SingleProcess, Plaintext, SavePassphrasePut, keyring, local, Goto
<1>17. ASSUME NEW p \in Procs, SaveIdentityMeta(p)
      PROVE  WarmInv' /\ PromptMeansEmpty'
  BY <1>17 DEF TypeInv, TypeOK, Entry, WarmInv, PromptMeansEmpty,
     SingleProcess, Plaintext, SaveIdentityMeta, keyring, local, Goto
<1>18. ASSUME NEW p \in Procs, SaveIdentityWrap(p)
      PROVE  WarmInv' /\ PromptMeansEmpty'
  <2>1. /\ keys \in Nat /\ \A q \in Procs : q = p
        /\ \/ wrap # NoKey /\ rec'[p].key = wrap /\ pc' = [pc EXCEPT ![p] = "si_put"]
           \/ wrap = NoKey /\ pc' = [pc EXCEPT ![p] = "si_setwrap"]
    BY <1>18, WrapKeyResult DEF SingleProcess, TypeInv, TypeOK,
       SaveIdentityWrap
  <2> QED
    BY <1>18, <2>1 DEF TypeInv, TypeOK, WarmInv, PromptMeansEmpty,
       Plaintext, SaveIdentityWrap, keyring
<1>19. ASSUME NEW p \in Procs, SaveIdentitySetWrap(p)
      PROVE  WarmInv' /\ PromptMeansEmpty'
  BY <1>19 DEF TypeInv, TypeOK, Entry, WarmInv, PromptMeansEmpty,
     SingleProcess, Plaintext, SaveIdentitySetWrap, SetWrapKey, keyring,
     local, Goto
<1>20. ASSUME NEW p \in Procs, SaveIdentityPut(p)
      PROVE  WarmInv' /\ PromptMeansEmpty'
  BY <1>20 DEF TypeInv, TypeOK, Entry, WarmInv, PromptMeansEmpty,
     SingleProcess, Plaintext, SaveIdentityPut, keyring, local, Goto
<1>21. ASSUME NEW p \in Procs, MigrateGet(p)
      PROVE  WarmInv' /\ PromptMeansEmpty'
  BY <1>21 DEF TypeInv, TypeOK, Entry, WarmInv, PromptMeansEmpty,
     SingleProcess, Plaintext, MigrateGet, keyring, local, Goto
<1>22. ASSUME NEW p \in Procs, MigrateWrap(p)
      PROVE  WarmInv' /\ PromptMeansEmpty'
  <2>1. /\ keys \in Nat /\ \A q \in Procs : q = p
        /\ \/ wrap # NoKey /\ rec'[p].key = wrap /\ pc' = [pc EXCEPT ![p] = "mig_put"]
           \/ wrap = NoKey /\ pc' = [pc EXCEPT ![p] = "mig_setwrap"]
    BY <1>22, WrapKeyResult DEF SingleProcess, TypeInv, TypeOK, MigrateWrap
  <2> QED
    BY <1>22, <2>1 DEF TypeInv, TypeOK, WarmInv, PromptMeansEmpty,
       Plaintext, MigrateWrap, keyring
<1>23. ASSUME NEW p \in Procs, MigrateSetWrap(p)
      PROVE  WarmInv' /\ PromptMeansEmpty'
  BY <1>23 DEF TypeInv, TypeOK, Entry, WarmInv, PromptMeansEmpty,
     SingleProcess, Plaintext, MigrateSetWrap, SetWrapKey, keyring, local,
     Goto
<1>24. ASSUME NEW p \in Procs, MigratePut(p)
      PROVE  WarmInv' /\ PromptMeansEmpty'
  BY <1>24 DEF TypeInv, TypeOK, Entry, WarmInv, PromptMeansEmpty,
     SingleProcess, Plaintext, MigratePut, keyring, local, Goto
<1>25. ASSUME NEW p \in Procs, RevokeSession(p)
      PROVE  WarmInv' /\ PromptMeansEmpty'
  BY <1>25 DEF TypeInv, TypeOK, Entry, WarmInv, PromptMeansEmpty,
     SingleProcess, Plaintext, RevokeSession, keyring, local, Goto
<1>26. ASSUME NEW p \in Procs, RevokeWrap(p)
      PROVE  WarmInv' /\ PromptMeansEmpty'
  BY <1>26 DEF TypeInv, TypeOK, Entry, WarmInv, PromptMeansEmpty,
     SingleProcess, Plaintext, RevokeWrap, NoKey, keyring, local, Goto
<1>27. ASSUME NEW p \in Procs, RevokeIdentity(p)
      PROVE  WarmInv' /\ PromptMeansEmpty'
  BY <1>27 DEF TypeInv, TypeOK, Entry, WarmInv, PromptMeansEmpty,
     SingleProcess, Plaintext, RevokeIdentity, keyring, local, Goto
<1>28. ASSUME NEW p \in Procs, Crash(p)
      PROVE  WarmInv' /\ PromptMeansEmpty'
  BY <1>28 DEF TypeInv, TypeOK, Entry, WarmInv, PromptMeansEmpty,
     SingleProcess, Plaintext, Crash, keyring, local, Goto
<1> QED
  BY <1>1, <1>2, <1>3, <1>4, <1>5, <1>6, <1>7, <1>8, <1>9, <1>10, <1>11,
     <1>12, <1>13, <1>14, <1>15, <1>16, <1>17, <1>18, <1>19, <1>20, <1>21,
     <1>22, <1>23, <1>24, <1>25, <1>26, <1>27, <1>28 DEF Next, Load, Save,
     Migrate, Revoke

(* Type correctness of the keyring items and of every process between two  *)
(* keyring calls.                                                          *)
THEOREM TypeCorrect == Spec => []TypeOK
<1>1. Init => TypeInv
  BY InitType
<1>2. TypeInv /\ [Next]_vars => TypeInv'
  BY TypeStep
<1>3. TypeInv => TypeOK
  BY DEF TypeInv
<1> QED
  BY <1>1, <1>2, <1>3, PTL DEF Spec

(* After revoke no load that begins later succeeds with an item written    *)
(* before the lock began, whatever the processes in flight write back.     *)
THEOREM LockIsFinal == ASSUME Reliable PROVE Spec => []RevokeIsFinal
<1>1. Init => Inv
  BY InitInv
<1>2. Inv /\ [Next]_vars => Inv'
  BY NextInv
<1>3. Inv => RevokeIsFinal
  BY DEF Inv, LoadsFresh, RevokeIsFinal
<1> QED
  BY <1>1, <1>2, <1>3, PTL DEF Spec

(* migrate_session, save_passphrase and revoke remove a plaintext session  *)
(* for good: no load writes it back.                                       *)
THEOREM PlaintextGone == Spec => PlaintextStaysGone
<1>1. Init => TypeInv /\ PlainInv
  BY InitType DEF Init, PlainInv
<1>2. TypeInv /\ PlainInv /\ [Next]_vars => TypeInv' /\ PlainInv'
  BY TypeStep, PlainStep
<1>3. TypeInv /\ PlainInv /\ [Next]_vars => [Plaintext(session') => Plaintext(session)]_vars
  BY PlainStep
<1> QED
  BY <1>1, <1>2, <1>3, PTL DEF Spec, PlaintextStaysGone

(* A single process, with crashes anywhere and failing deletes: it asks    *)
(* for the passphrase only when no encrypted session is cached.            *)
THEOREM PromptOnlyWhenEmpty ==
    ASSUME SingleProcess PROVE Spec => []PromptMeansEmpty
<1>1. Init => TypeInv /\ WarmInv /\ PromptMeansEmpty
  BY InitType DEF Init, WarmInv, PromptMeansEmpty, Blank, NoKey
<1>2. TypeInv /\ WarmInv /\ PromptMeansEmpty /\ [Next]_vars
        => TypeInv' /\ WarmInv' /\ PromptMeansEmpty'
  BY TypeStep, WarmStep
<1> QED
  BY <1>1, <1>2, PTL DEF Spec

=============================================================================
