------------------------ MODULE DeviceSessionsProofs ------------------------
(***************************************************************************)
(* Proofs about DeviceSessions and the PairingCodes it is built on, for    *)
(* any number of codes, devices, requests and commands.                    *)
(***************************************************************************)
EXTENDS DeviceSessions, TLAPS

(* The misses are in order.  While the count is below the limit, every     *)
(* miss it no longer counts lies a cooldown back; at the limit the last    *)
(* miss has set the end of the cooldown.                                   *)
MissInv ==
    /\ \A i \in 1..Len(misses) : misses[i] <= now
    /\ \A i, j \in 1..Len(misses) : i <= j => misses[i] <= misses[j]
    /\ failed < MaxFailed =>
         \A i \in 1..Len(misses) :
            i <= Len(misses) - failed => now - misses[i] >= Cooldown
    /\ failed >= MaxFailed =>
         Len(misses) >= 1 /\ until = misses[Len(misses)] + Cooldown
    /\ MissesSpaced

(* A code that a request or a device has used is stored no more. *)
CodeInv ==
    /\ \A c \in Codes : tokens[c] # None => c \in minted
    /\ \A r \in Reqs : req[r] # None => req[r] \in minted /\ tokens[req[r]] = None
    /\ \A d \in Devices : via[d] # None => via[d] \in minted /\ tokens[via[d]] = None
    /\ OneDevicePerCode

(* A device that was never enrolled, or that nobody asked to revoke, is    *)
(* not in, or not revoked in, any copy.                                    *)
DeviceInv ==
    /\ \A d \in Devices : via[d] = None =>
         /\ memory[d] = "absent" /\ disk[d] = "absent" /\ d \notin fresh
         /\ d \notin reported /\ \A c \in Clis : view[c][d] = "absent"
    /\ \A d \in Devices : d \notin asked =>
         /\ memory[d] # "revoked" /\ disk[d] # "revoked"
         /\ \A c \in Clis : view[c][d] # "revoked"
    /\ \A d \in fresh : memory[d] # "absent"
    /\ \A c \in Clis : cpc[c] # "idle" => target[c] \in Devices
    /\ \A c \in Clis : cpc[c] = "ask" => view[c][target[c]] # "absent"
    /\ \A c \in Clis : cpc[c] \in {"save", "save_again"} =>
         view[c][target[c]] = "revoked"

(* A copy that has merged the last version of the file knows, of every     *)
(* device it holds, that the file has it revoked.                          *)
CopyInv ==
    /\ asof <= version /\ \A c \in Clis : casof[c] <= version
    /\ asof = version =>
         \A d \in Devices : disk[d] = "revoked" => memory[d] # "active"
    /\ \A c \in Clis : casof[c] = version =>
         \A d \in Devices : disk[d] = "revoked" => view[c][d] # "active"
    /\ \A d \in reported \ undone : disk[d] = "revoked"

IInv == TypeOK /\ MissInv /\ CodeInv /\ DeviceInv /\ CopyInv

-----------------------------------------------------------------------------
(* The pairing store's own invariant is kept by each of its operations. *)
LEMMA TickKeepsMisses ==
    ASSUME PairingTypeOK, MissInv, now' = now + 1, UNCHANGED pairing
    PROVE  MissInv'
BY PairingAssumption DEF PairingTypeOK, MissInv, MissesSpaced, pairing

LEMMA MintKeepsMisses ==
    ASSUME PairingTypeOK, MissInv, NEW c \in Codes, Mint(c)
    PROVE  MissInv'
<1> USE PairingAssumption DEF PairingTypeOK, MissInv, Mint
<1>1. CASE Over
  <2>1. \A i \in 1..Len(misses) : now - misses[i] >= Cooldown
    BY <1>1 DEF Over
  <2> QED BY <1>1, <2>1 DEF MissesSpaced
<1>2. CASE ~Over
  BY <1>2 DEF MissesSpaced
<1> QED BY <1>1, <1>2

LEMMA MissKeepsMisses ==
    ASSUME PairingTypeOK, MissInv, NEW c, RedeemMiss(c)
    PROVE  MissInv'
<1> DEFINE k == Len(misses)
<1> USE PairingAssumption DEF PairingTypeOK, MissInv
<1>1. /\ k \in Nat /\ misses' = Append(misses, now) /\ now' = now
      /\ Len(misses') = k + 1 /\ misses'[k + 1] = now
      /\ \A i \in 1..k : misses'[i] = misses[i]
  BY DEF RedeemMiss
<1>2. \A i \in 1..k : i + MaxFailed > k => now - misses[i] >= 0
  BY <1>1
<1>3. \A i \in 1..k :
         i + MaxFailed <= k + 1 \/ Over \/ failed >= MaxFailed
           => now - misses[i] >= Cooldown
  <2>1. CASE failed >= MaxFailed
    <3>1. now >= until /\ until = misses[k] + Cooldown /\ k >= 1
      BY <2>1 DEF RedeemMiss, Blocked
    <3> QED BY <3>1, <1>1
  <2>2. CASE failed < MaxFailed
    BY <2>2, <1>1 DEF Over
  <2> QED BY <2>1, <2>2
<1>4. MissesSpaced'
  <2> SUFFICES ASSUME NEW i \in 1..(k + 1), i + MaxFailed <= k + 1
               PROVE  misses'[i + MaxFailed] - misses'[i] >= Cooldown
    BY <1>1 DEF MissesSpaced
  <2>1. i \in 1..k
    BY <1>1
  <2>2. CASE i + MaxFailed = k + 1
    BY <2>1, <2>2, <1>1, <1>3
  <2>3. CASE i + MaxFailed <= k
    BY <2>1, <2>3, <1>1 DEF MissesSpaced
  <2>4. i + MaxFailed = k + 1 \/ i + MaxFailed <= k
    BY <1>1
  <2> QED BY <2>2, <2>3, <2>4
<1>5. failed' < MaxFailed =>
        \A i \in 1..Len(misses') :
           i <= Len(misses') - failed' => now' - misses'[i] >= Cooldown
  <2>1. failed' = (IF Over THEN 0 ELSE failed) + 1 /\ failed' \in Nat
    BY DEF RedeemMiss
  <2>2. ASSUME failed' < MaxFailed, NEW i \in 1..Len(misses'),
               i <= Len(misses') - failed'
        PROVE  now' - misses'[i] >= Cooldown
    <3>1. i \in 1..k /\ misses'[i] = misses[i]
      BY <2>1, <2>2, <1>1
    <3>2. i + MaxFailed <= k + 1 \/ Over \/ failed >= MaxFailed
          \/ (failed < MaxFailed /\ i <= k - failed)
      BY <2>1, <2>2, <3>1, <1>1
    <3> QED BY <2>1, <3>1, <3>2, <1>1, <1>3
  <2> QED BY <2>2
<1>6. failed' >= MaxFailed => until' = misses'[Len(misses')] + Cooldown
  BY <1>1 DEF RedeemMiss
<1>7. \A i \in 1..Len(misses') : misses'[i] <= now'
  BY <1>1
<1>8. \A i, j \in 1..Len(misses') : i <= j => misses'[i] <= misses'[j]
  <2> SUFFICES ASSUME NEW i \in 1..(k + 1), NEW j \in 1..(k + 1), i <= j
               PROVE  misses'[i] <= misses'[j]
    BY <1>1
  <2>1. CASE j = k + 1
    BY <2>1, <1>1, <1>7
  <2>2. CASE j <= k
    BY <2>2, <1>1
  <2> QED BY <2>1, <2>2, <1>1
<1> QED BY <1>1, <1>4, <1>5, <1>6, <1>7, <1>8

LEMMA EmptyMisses ==
    ASSUME failed' = 0, misses' = << >>
    PROVE  MissInv'
BY PairingAssumption DEF MissInv, MissesSpaced

(* The initial states, and each action in turn. *)
LEMMA InitEstablishes == Init => IInv
<1> SUFFICES ASSUME Init PROVE IInv
  OBVIOUS
<1> USE PairingAssumption, DeviceAssumption DEF Init, InitPairing
<1>1. TypeOK
  BY DEF TypeOK, PairingTypeOK, Copies, Status, Empty
<1>2. MissInv
  BY DEF MissInv, MissesSpaced
<1>3. CodeInv
  BY DEF CodeInv, OneDevicePerCode
<1>4. DeviceInv
  BY DEF DeviceInv, Empty
<1>5. CopyInv
  BY DEF CopyInv, Empty
<1> QED BY <1>1, <1>2, <1>3, <1>4, <1>5 DEF IInv

LEMMA MergedType ==
    ASSUME NEW copy \in Copies PROVE Merged(copy) \in Copies
BY DEF Merged, Copies, Status

LEMMA TypeStep == TypeOK /\ DeviceInv /\ [Next]_vars => TypeOK'
<1> SUFFICES ASSUME TypeOK, DeviceInv, [Next]_vars PROVE TypeOK'
  OBVIOUS
<1> USE PairingAssumption, DeviceAssumption DEF TypeOK, PairingTypeOK
<1>1. ASSUME Tick PROVE TypeOK'
  BY <1>1 DEF Tick, pairing, server, command, history, counts
<1>2. ASSUME Validate PROVE TypeOK'
  BY <1>2, MergedType DEF Validate, pairing, command, counts
<1>3. ASSUME Restart PROVE TypeOK'
  BY <1>3 DEF Restart, NewStore, pairing, server, command, history, counts
<1>4. ASSUME NEW c \in Codes, MintCode(c) PROVE TypeOK'
  BY <1>4 DEF MintCode, Mint, pairing, server, command, history, counts
<1>5. ASSUME NEW r \in Reqs, NEW c \in Codes \cup {Wrong}, EnrollRefused(r, c) PROVE TypeOK'
  <2>1. CASE RedeemBlocked
    BY <1>5, <2>1 DEF EnrollRefused, RedeemBlocked, pairing, server, command, history, counts
  <2>2. CASE RedeemMiss(c)
    <3>1. misses' \in Seq(Nat) /\ tokens' \in [Codes -> Nat \cup {None}]
      BY <2>2 DEF RedeemMiss
    <3>2. now' = now /\ minted' = minted /\ failed' \in Nat /\ until' \in Nat
      BY <2>2 DEF RedeemMiss
    <3> QED BY <1>5, <3>1, <3>2 DEF EnrollRefused, server, command, history, counts
  <2> QED BY <1>5, <2>1, <2>2 DEF EnrollRefused
<1>6. ASSUME NEW r \in Reqs, NEW c \in Codes, EnrollRedeem(r, c) PROVE TypeOK'
  BY <1>6 DEF EnrollRedeem, RedeemHit, LiveCode, pairing, server, command, history, counts
<1>7. ASSUME NEW r \in Reqs, NEW d \in Devices, EnrollSave(r, d) PROVE TypeOK'
  BY <1>7 DEF EnrollSave, pairing, command, counts, Copies, Status, AtStake
<1>8. ASSUME NEW r \in Reqs, EnrollFails(r) PROVE TypeOK'
  BY <1>8 DEF EnrollFails, pairing, server, command, history, counts
<1>9. ASSUME NEW k \in Clis, NEW d \in Devices, RevokeLoad(k, d) PROVE TypeOK'
  BY <1>9 DEF RevokeLoad, pairing, server, command, history, counts
<1>10. ASSUME NEW k \in Clis, RevokeStops(k) PROVE TypeOK'
  BY <1>10 DEF RevokeStops, pairing, server, command, history, counts
<1>11. ASSUME NEW k \in Clis, RevokeMark(k) PROVE TypeOK'
  <2>1. Merged(view[k]) \in Copies /\ target[k] \in Devices
    BY <1>11, MergedType DEF RevokeMark, DeviceInv
  <2>2. [Merged(view[k]) EXCEPT ![target[k]] = "revoked"] \in Copies
    BY <2>1 DEF Copies, Status
  <2> QED BY <1>11, <2>1, <2>2 DEF RevokeMark, pairing, server, counts
<1>12. ASSUME NEW k \in Clis, RevokeSave(k) PROVE TypeOK'
  BY <1>12 DEF RevokeSave, WriteView, pairing, server, counts, AtStake
<1>13. ASSUME NEW k \in Clis, RevokeSaveFails(k) PROVE TypeOK'
  BY <1>13 DEF RevokeSaveFails, pairing, server, command, history, counts
<1>14. ASSUME NEW k \in Clis, RevokeReport(k) PROVE TypeOK'
  BY <1>14 DEF RevokeReport, WriteView, pairing, server, counts, AtStake, DeviceInv
<1>15. CASE UNCHANGED vars
  BY <1>15 DEF vars, server, command, pairing, server, command, history, counts
<1> QED
  BY <1>1, <1>2, <1>3, <1>4, <1>5, <1>6, <1>7, <1>8, <1>9, <1>10, <1>11, <1>12, <1>13, <1>14, <1>15 DEF Next

LEMMA MissStep == TypeOK /\ MissInv /\ [Next]_vars => MissInv'
<1> SUFFICES ASSUME TypeOK, MissInv, [Next]_vars PROVE MissInv'
  OBVIOUS
<1>0. PairingTypeOK
  BY DEF TypeOK
<1> DEFINE Same == UNCHANGED <<now, misses, failed, until>>
<1>a. Same => MissInv'
  BY DEF MissInv, MissesSpaced
<1>1. ASSUME Tick PROVE MissInv'
  BY <1>0, <1>1, TickKeepsMisses DEF Tick
<1>2. ASSUME Validate PROVE MissInv'
  BY <1>2, <1>a DEF Validate, pairing
<1>3. ASSUME Restart PROVE MissInv'
  BY <1>3, EmptyMisses DEF Restart, NewStore
<1>4. ASSUME NEW c \in Codes, MintCode(c) PROVE MissInv'
  BY <1>0, <1>4, MintKeepsMisses DEF MintCode
<1>5. ASSUME NEW r \in Reqs, NEW c \in Codes \cup {Wrong}, EnrollRefused(r, c) PROVE MissInv'
  BY <1>0, <1>a, <1>5, MissKeepsMisses DEF EnrollRefused, RedeemBlocked, pairing
<1>6. ASSUME NEW r \in Reqs, NEW c \in Codes, EnrollRedeem(r, c) PROVE MissInv'
  BY <1>6, EmptyMisses DEF EnrollRedeem, RedeemHit
<1>7. ASSUME NEW r \in Reqs, NEW d \in Devices, EnrollSave(r, d) PROVE MissInv'
  BY <1>7, <1>a DEF EnrollSave, pairing
<1>8. ASSUME NEW r \in Reqs, EnrollFails(r) PROVE MissInv'
  BY <1>8, <1>a DEF EnrollFails, pairing
<1>9. ASSUME NEW k \in Clis, NEW d \in Devices, RevokeLoad(k, d) PROVE MissInv'
  BY <1>9, <1>a DEF RevokeLoad, pairing
<1>10. ASSUME NEW k \in Clis, RevokeStops(k) PROVE MissInv'
  BY <1>10, <1>a DEF RevokeStops, pairing
<1>11. ASSUME NEW k \in Clis, RevokeMark(k) PROVE MissInv'
  BY <1>11, <1>a DEF RevokeMark, pairing
<1>12. ASSUME NEW k \in Clis, RevokeSave(k) PROVE MissInv'
  BY <1>12, <1>a DEF RevokeSave, pairing
<1>13. ASSUME NEW k \in Clis, RevokeSaveFails(k) PROVE MissInv'
  BY <1>13, <1>a DEF RevokeSaveFails, pairing
<1>14. ASSUME NEW k \in Clis, RevokeReport(k) PROVE MissInv'
  BY <1>14, <1>a DEF RevokeReport, pairing
<1>15. CASE UNCHANGED vars
  BY <1>15, <1>a DEF vars, server, command, pairing
<1> QED
  BY <1>1, <1>2, <1>3, <1>4, <1>5, <1>6, <1>7, <1>8, <1>9, <1>10, <1>11, <1>12, <1>13, <1>14, <1>15 DEF Next

LEMMA CodeStep == TypeOK /\ CodeInv /\ [Next]_vars => CodeInv'
<1> SUFFICES ASSUME TypeOK, CodeInv, [Next]_vars PROVE CodeInv'
  OBVIOUS
<1> USE PairingAssumption DEF CodeInv, OneDevicePerCode, TypeOK, PairingTypeOK
<1>1. ASSUME Tick PROVE CodeInv'
  BY <1>1 DEF Tick, pairing, server, history
<1>2. ASSUME Validate PROVE CodeInv'
  BY <1>2 DEF Validate, pairing, server, history
<1>3. ASSUME Restart PROVE CodeInv'
  BY <1>3 DEF Restart, NewStore, pairing, server, history
<1>4. ASSUME NEW c \in Codes, MintCode(c) PROVE CodeInv'
  BY <1>4 DEF MintCode, Mint, pairing, server, history
<1>5. ASSUME NEW r \in Reqs, NEW c \in Codes \cup {Wrong}, EnrollRefused(r, c) PROVE CodeInv'
  BY <1>5 DEF EnrollRefused, RedeemBlocked, RedeemMiss, Blocked, pairing, server, history
<1>6. ASSUME NEW r \in Reqs, NEW c \in Codes, EnrollRedeem(r, c) PROVE CodeInv'
  BY <1>6 DEF EnrollRedeem, RedeemHit, LiveCode, pairing, server, history
<1>7. ASSUME NEW r \in Reqs, NEW d \in Devices, EnrollSave(r, d) PROVE CodeInv'
  BY <1>7 DEF EnrollSave, pairing, server, history
<1>8. ASSUME NEW r \in Reqs, EnrollFails(r) PROVE CodeInv'
  BY <1>8 DEF EnrollFails, pairing, server, history
<1>9. ASSUME NEW k \in Clis, NEW d \in Devices, RevokeLoad(k, d) PROVE CodeInv'
  BY <1>9 DEF RevokeLoad, pairing, server, history
<1>10. ASSUME NEW k \in Clis, RevokeStops(k) PROVE CodeInv'
  BY <1>10 DEF RevokeStops, pairing, server, history
<1>11. ASSUME NEW k \in Clis, RevokeMark(k) PROVE CodeInv'
  BY <1>11 DEF RevokeMark, pairing, server, history
<1>12. ASSUME NEW k \in Clis, RevokeSave(k) PROVE CodeInv'
  BY <1>12 DEF RevokeSave, WriteView, pairing, server, history
<1>13. ASSUME NEW k \in Clis, RevokeSaveFails(k) PROVE CodeInv'
  BY <1>13 DEF RevokeSaveFails, pairing, server, history
<1>14. ASSUME NEW k \in Clis, RevokeReport(k) PROVE CodeInv'
  BY <1>14 DEF RevokeReport, WriteView, pairing, server, history
<1>15. CASE UNCHANGED vars
  BY <1>15 DEF vars, server, command, pairing, server, history
<1> QED
  BY <1>1, <1>2, <1>3, <1>4, <1>5, <1>6, <1>7, <1>8, <1>9, <1>10, <1>11, <1>12, <1>13, <1>14, <1>15 DEF Next

LEMMA DeviceStep == TypeOK /\ DeviceInv /\ [Next]_vars => DeviceInv'
<1> SUFFICES ASSUME TypeOK, DeviceInv, [Next]_vars PROVE DeviceInv'
  OBVIOUS
<1> USE DeviceAssumption DEF DeviceInv, TypeOK, Copies, Status
<1>1. ASSUME Tick PROVE DeviceInv'
  BY <1>1 DEF Tick, server, command, history
<1>2. ASSUME Validate PROVE DeviceInv'
  BY <1>2 DEF Validate, Merged, command
<1>3. ASSUME Restart PROVE DeviceInv'
  BY <1>3 DEF Restart, NewStore, server, command, history
<1>4. ASSUME NEW c \in Codes, MintCode(c) PROVE DeviceInv'
  BY <1>4 DEF MintCode, Mint, server, command, history
<1>5. ASSUME NEW r \in Reqs, NEW c \in Codes \cup {Wrong}, EnrollRefused(r, c) PROVE DeviceInv'
  BY <1>5 DEF EnrollRefused, RedeemBlocked, RedeemMiss, Blocked, server, command, history
<1>6. ASSUME NEW r \in Reqs, NEW c \in Codes, EnrollRedeem(r, c) PROVE DeviceInv'
  BY <1>6 DEF EnrollRedeem, RedeemHit, LiveCode, server, command, history
<1>7. ASSUME NEW r \in Reqs, NEW d \in Devices, EnrollSave(r, d) PROVE DeviceInv'
  BY <1>7 DEF EnrollSave, server, command, history
<1>8. ASSUME NEW r \in Reqs, EnrollFails(r) PROVE DeviceInv'
  BY <1>8 DEF EnrollFails, server, command, history
<1>9. ASSUME NEW k \in Clis, NEW d \in Devices, RevokeLoad(k, d) PROVE DeviceInv'
  BY <1>9 DEF RevokeLoad, server, command, history
<1>10. ASSUME NEW k \in Clis, RevokeStops(k) PROVE DeviceInv'
  BY <1>10 DEF RevokeStops, server, command, history
<1>11. ASSUME NEW k \in Clis, RevokeMark(k) PROVE DeviceInv'
  <2> DEFINE copy == [Merged(view[k]) EXCEPT ![target[k]] = "revoked"]
  <2>1. target[k] \in Devices /\ view[k][target[k]] # "absent"
    BY <1>11 DEF RevokeMark
  <2>2. copy[target[k]] = "revoked"
    BY <2>1 DEF Merged
  <2>3. \A d \in Devices : /\ copy[d] = "absent" <=> view[k][d] = "absent"
                           /\ copy[d] = "revoked" =>
                                \/ d = target[k] \/ view[k][d] = "revoked" \/ disk[d] = "revoked"
    BY <2>1 DEF Merged
  <2>4. /\ view' = [view EXCEPT ![k] = copy]
        /\ asked' = asked \cup {target[k]}
        /\ cpc' \in {[cpc EXCEPT ![k] = "save"], [cpc EXCEPT ![k] = "save_again"]}
        /\ UNCHANGED <<memory, disk, target, fresh, reported, via>>
    BY <1>11 DEF RevokeMark, server
  <2> HIDE DEF copy
  <2> QED BY <2>1, <2>2, <2>3, <2>4
<1>12. ASSUME NEW k \in Clis, RevokeSave(k) PROVE DeviceInv'
  BY <1>12 DEF RevokeSave, WriteView, server, command, history
<1>13. ASSUME NEW k \in Clis, RevokeSaveFails(k) PROVE DeviceInv'
  BY <1>13 DEF RevokeSaveFails, server, command, history
<1>14. ASSUME NEW k \in Clis, RevokeReport(k) PROVE DeviceInv'
  BY <1>14 DEF RevokeReport, WriteView, server, command, history
<1>15. CASE UNCHANGED vars
  BY <1>15 DEF vars, server, command, server, command, history
<1> QED
  BY <1>1, <1>2, <1>3, <1>4, <1>5, <1>6, <1>7, <1>8, <1>9, <1>10, <1>11, <1>12, <1>13, <1>14, <1>15 DEF Next

(* A command whose copy is not behind the file saves the revocations of the file. *)
LEMMA UpToDate ==
    ASSUME TypeOK, CopyInv, NEW k \in Clis, NEW d \in Devices,
           disk[d] = "revoked", d \notin AtStake(view[k], casof[k])
    PROVE  view[k][d] = "revoked"
<1>1. ~Behind(view[k], casof[k])
  BY DEF AtStake
<1>2. casof[k] = version /\ view[k][d] # "absent"
  BY <1>1 DEF Behind, TypeOK, CopyInv
<1>3. view[k][d] \in Status
  BY DEF TypeOK, Copies
<1> QED BY <1>2, <1>3 DEF CopyInv, Status

LEMMA CopyStep == TypeOK /\ DeviceInv /\ CopyInv /\ [Next]_vars => CopyInv'
<1> SUFFICES ASSUME TypeOK, DeviceInv, CopyInv, [Next]_vars PROVE CopyInv'
  OBVIOUS
<1> USE DeviceAssumption DEF CopyInv, TypeOK, Copies, Status
<1>1. ASSUME Tick PROVE CopyInv'
  BY <1>1 DEF Tick, server, command, history
<1>2. ASSUME Validate PROVE CopyInv'
  BY <1>2 DEF Validate, Merged, command
<1>3. ASSUME Restart PROVE CopyInv'
  BY <1>3 DEF Restart, NewStore, server, command, history
<1>4. ASSUME NEW c \in Codes, MintCode(c) PROVE CopyInv'
  BY <1>4 DEF MintCode, Mint, server, command, history
<1>5. ASSUME NEW r \in Reqs, NEW c \in Codes \cup {Wrong}, EnrollRefused(r, c) PROVE CopyInv'
  BY <1>5 DEF EnrollRefused, RedeemBlocked, RedeemMiss, Blocked, server, command, history
<1>6. ASSUME NEW r \in Reqs, NEW c \in Codes, EnrollRedeem(r, c) PROVE CopyInv'
  BY <1>6 DEF EnrollRedeem, RedeemHit, LiveCode, server, command, history
<1>7. ASSUME NEW r \in Reqs, NEW d \in Devices, EnrollSave(r, d) PROVE CopyInv'
  BY <1>7 DEF EnrollSave, command, AtStake, Behind, DeviceInv
<1>8. ASSUME NEW r \in Reqs, EnrollFails(r) PROVE CopyInv'
  BY <1>8 DEF EnrollFails, server, command, history
<1>9. ASSUME NEW k \in Clis, NEW d \in Devices, RevokeLoad(k, d) PROVE CopyInv'
  BY <1>9 DEF RevokeLoad, server, command, history
<1>10. ASSUME NEW k \in Clis, RevokeStops(k) PROVE CopyInv'
  BY <1>10 DEF RevokeStops, server, command, history
<1>11. ASSUME NEW k \in Clis, RevokeMark(k) PROVE CopyInv'
  <2> DEFINE copy == [Merged(view[k]) EXCEPT ![target[k]] = "revoked"]
  <2>1. target[k] \in Devices
    BY <1>11 DEF RevokeMark, DeviceInv
  <2>2. \A d \in Devices : disk[d] = "revoked" => copy[d] # "active"
    BY <2>1 DEF Merged
  <2>3. /\ view' = [view EXCEPT ![k] = copy] /\ casof' = [casof EXCEPT ![k] = version]
        /\ UNCHANGED <<memory, disk, version, asof, reported, undone>>
    BY <1>11 DEF RevokeMark, server
  <2> HIDE DEF copy
  <2> QED BY <2>2, <2>3
<1>12. ASSUME NEW k \in Clis, RevokeSave(k) PROVE CopyInv'
  <2>1. /\ disk' = view[k] /\ version' = version + 1
        /\ casof' = [casof EXCEPT ![k] = IF casof[k] = version THEN version + 1 ELSE casof[k]]
        /\ undone' = undone \cup AtStake(view[k], casof[k])
        /\ UNCHANGED <<memory, view, asof, reported>>
    BY <1>12 DEF RevokeSave, WriteView, server
  <2>2. ASSUME NEW d \in reported' \ undone' PROVE disk'[d] = "revoked"
    BY <2>1, <2>2, UpToDate
  <2>3. asof' < version' /\ \A c \in Clis : casof'[c] <= version'
    BY <2>1
  <2>4. \A c \in Clis : casof'[c] = version' => view'[c] = disk'
    BY <2>1
  <2> QED BY <2>1, <2>2, <2>3, <2>4
<1>13. ASSUME NEW k \in Clis, RevokeSaveFails(k) PROVE CopyInv'
  BY <1>13 DEF RevokeSaveFails, server, command, history
<1>14. ASSUME NEW k \in Clis, RevokeReport(k) PROVE CopyInv'
  <2>1. /\ disk' = view[k] /\ version' = version + 1
        /\ casof' = [casof EXCEPT ![k] = IF casof[k] = version THEN version + 1 ELSE casof[k]]
        /\ undone' = (undone \cup AtStake(view[k], casof[k])) \ {target[k]}
        /\ reported' = reported \cup {target[k]} /\ view[k][target[k]] = "revoked"
        /\ UNCHANGED <<memory, view, asof>>
    BY <1>14 DEF RevokeReport, DeviceInv, WriteView, server
  <2>2. ASSUME NEW d \in reported' \ undone' PROVE disk'[d] = "revoked"
    BY <2>1, <2>2, UpToDate
  <2>3. asof' < version' /\ \A c \in Clis : casof'[c] <= version'
    BY <2>1
  <2>4. \A c \in Clis : casof'[c] = version' => view'[c] = disk'
    BY <2>1
  <2> QED BY <2>1, <2>2, <2>3, <2>4
<1>15. CASE UNCHANGED vars
  BY <1>15 DEF vars, server, command, server, command, history
<1> QED
  BY <1>1, <1>2, <1>3, <1>4, <1>5, <1>6, <1>7, <1>8, <1>9, <1>10, <1>11, <1>12, <1>13, <1>14, <1>15 DEF Next

-----------------------------------------------------------------------------
(* The inductive invariant holds in every reachable state. *)
THEOREM Invariance == Spec => []IInv
<1>1. IInv /\ [Next]_vars => IInv'
  BY TypeStep, MissStep, CodeStep, DeviceStep, CopyStep DEF IInv
<1> QED BY <1>1, InitEstablishes, PTL DEF Spec

(* Type correctness, for any number of devices, codes and commands. *)
THEOREM TypeCorrect == Spec => []TypeOK
<1>1. IInv => TypeOK
  BY DEF IInv
<1> QED BY <1>1, Invariance, PTL

(* MaxFailed + 1 misses in a row of a serve process take at least a        *)
(* cooldown, whatever is minted and redeemed and expires in between.       *)
THEOREM GuessesSpaced == Spec => []MissesSpaced
<1>1. IInv => MissesSpaced
  BY DEF IInv, MissInv
<1> QED BY <1>1, Invariance, PTL

(* A code enrols one device at most. *)
THEOREM CodesEnrolOnce == Spec => []OneDevicePerCode
<1>1. IInv => OneDevicePerCode
  BY DEF IInv, CodeInv
<1> QED BY <1>1, Invariance, PTL

(* A reported revocation holds until a copy behind the file is saved. *)
THEOREM RevocationHolds == Spec => []RevokedMeansRefused
<1>1. IInv => RevokedMeansRefused
  BY DEF IInv, TypeOK, CopyInv, RevokedMeansRefused, Accepts, Merged
<1> QED BY <1>1, Invariance, PTL

(* What a command does to the file never takes away a device that the      *)
(* running server has enrolled and nobody has asked to revoke.             *)
THEOREM EnrolmentHolds == Spec => []EnrolledAccepted
<1>1. IInv => EnrolledAccepted
  BY DEF IInv, TypeOK, Copies, Status, DeviceInv, EnrolledAccepted, Accepts, Merged
<1> QED BY <1>1, Invariance, PTL
=============================================================================
