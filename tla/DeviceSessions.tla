--------------------------- MODULE DeviceSessions ---------------------------
(***************************************************************************)
(* Approval devices: their enrolment with a pairing code, the check of     *)
(* their token, and their revocation from the command line.                *)
(*                                                                         *)
(* Two programs share .symvault/device-sessions.json without a lock.  The  *)
(* server reads it once, at start, and then works on a copy in memory: an  *)
(* enrolment writes the whole copy, a validation first merges the          *)
(* revocations found in the file into it.  `device approval-revoke` loads  *)
(* the file, waits for the user, merges, marks the device and writes its   *)
(* whole copy, twice.  A read or a write of the file is atomic (rename);   *)
(* nothing else is.  Every enrolment creates a new device, so a device     *)
(* stands for its one session.                                             *)
(***************************************************************************)
EXTENDS PairingCodes, FiniteSets

CONSTANTS
    Devices,      \* device ids, each enrolled at most once
    Reqs,         \* enrolment requests the server handles at a time
    Clis,         \* approval-revoke commands that may run at a time
    SessionTtl,   \* DEFAULT_SESSION_TTL_SECONDS
    MaxRevokes,   \* bound: approval-revoke commands
    MaxRestarts,  \* bound: restarts of the server
    MaxFaults     \* bound: failing writes

ASSUME DeviceAssumption ==
    /\ SessionTtl \in Nat
    /\ MaxRevokes \in Nat /\ MaxRestarts \in Nat /\ MaxFaults \in Nat
    /\ None \notin Devices

VARIABLES
    memory,    \* the server's copy: what it holds of each device
    disk,      \* device-sessions.json
    born,      \* when each device was enrolled
    req,       \* the code an enrolment request has redeemed
    cpc,       \* where each approval-revoke command is
    view,      \* its copy of the file
    target,    \* the device it revokes
    version,   \* history: the writes of the file
    asof,      \* history: the version the server's copy has merged
    casof,     \* history: the version a command's copy has merged
    via,       \* history: the code each device was enrolled with
    fresh,     \* history: the devices this server process has enrolled
    asked,     \* history: the devices a command has marked
    reported,  \* history: the devices reported revoked
    undone,    \* history: revocations in the file when a copy behind it was saved
    revokes, restarts, faults

server == <<memory, born, req>>
command == <<cpc, view, target>>
history == <<version, asof, casof, via, fresh, asked, reported, undone>>
counts == <<revokes, restarts, faults>>
vars == <<now, pairing, server, disk, command, history, counts>>

Status == {"absent", "active", "revoked"}
Copies == [Devices -> Status]
Empty == [d \in Devices |-> "absent"]

Init ==
    /\ now = 0 /\ InitPairing
    /\ memory = Empty /\ disk = Empty
    /\ born = [d \in Devices |-> 0] /\ req = [r \in Reqs |-> None]
    /\ cpc = [c \in Clis |-> "idle"] /\ view = [c \in Clis |-> Empty]
    /\ target = [c \in Clis |-> None]
    /\ version = 0 /\ asof = 0 /\ casof = [c \in Clis |-> 0]
    /\ via = [d \in Devices |-> None]
    /\ fresh = {} /\ asked = {} /\ reported = {} /\ undone = {}
    /\ revokes = 0 /\ restarts = 0 /\ faults = 0

(* Mutant: the file is taken as it is. *)
MergedReplaces(copy) == disk

(* merge_revocations: a revocation in the file is applied to the copy if   *)
(* the copy knows the device; nothing else is taken over.                  *)
Merged(copy) ==
    [d \in Devices |-> IF disk[d] = "revoked" /\ copy[d] = "active"
                       THEN "revoked" ELSE copy[d]]

(* A copy is behind the file when the file was written since the copy last *)
(* merged it, or when it misses a device of the file.                      *)
Behind(copy, at) ==
    at < version \/ \E d \in Devices : copy[d] = "absent" /\ disk[d] # "absent"

(* The revocations a save of this copy may undo. *)
AtStake(copy, at) ==
    IF Behind(copy, at) THEN {d \in Devices : disk[d] = "revoked"} ELSE {}

Tick ==
    /\ now < MaxTime /\ now' = now + 1
    /\ UNCHANGED <<pairing, server, disk, command, history, counts>>

-----------------------------------------------------------------------------
MintCode(c) ==
    /\ Mint(c)
    /\ UNCHANGED <<server, disk, command, history, counts>>

(* Mutant: a refused request goes on with the code it came with. *)
EnrollRefusedGoesOn(r, c) ==
    /\ req[r] = None
    /\ RedeemBlocked \/ RedeemMiss(c)
    /\ req' = [req EXCEPT ![r] = c]
    /\ UNCHANGED <<memory, born, disk, command, history, counts>>

(* handle_enroll_request: the code is redeemed first... *)
EnrollRefused(r, c) ==
    /\ req[r] = None
    /\ RedeemBlocked \/ RedeemMiss(c)
    /\ UNCHANGED <<server, disk, command, history, counts>>

EnrollRedeem(r, c) ==
    /\ req[r] = None /\ RedeemHit(c)
    /\ req' = [req EXCEPT ![r] = c]
    /\ UNCHANGED <<memory, born, disk, command, history, counts>>

(* ...and a new device then enters the copy, which is written as it is. *)
EnrollSave(r, d) ==
    /\ req[r] # None /\ via[d] = None
    /\ memory' = [memory EXCEPT ![d] = "active"]
    /\ disk' = memory'
    /\ born' = [born EXCEPT ![d] = now]
    /\ req' = [req EXCEPT ![r] = None]
    /\ via' = [via EXCEPT ![d] = req[r]]
    /\ fresh' = fresh \cup {d}
    /\ undone' = undone \cup AtStake(memory, asof)
    /\ version' = version + 1
    /\ asof' = IF asof = version THEN version + 1 ELSE asof
    /\ UNCHANGED <<now, pairing, command, casof, asked, reported, counts>>

(* The write fails: the device leaves the copy again, the code stays used. *)
EnrollFails(r) ==
    /\ req[r] # None /\ faults < MaxFaults
    /\ faults' = faults + 1
    /\ req' = [req EXCEPT ![r] = None]
    /\ UNCHANGED <<now, pairing, memory, born, disk, command, history, revokes, restarts>>

(* What validate answers for the token of a device. *)
Accepts(d) == Merged(memory)[d] = "active" /\ now <= born[d] + SessionTtl

(* validate, on every request of a device: its merge stays in the copy. *)
Validate ==
    /\ memory' = Merged(memory) /\ asof' = version
    /\ UNCHANGED <<now, pairing, born, req, disk, command, version, casof, via,
                   fresh, asked, reported, undone, counts>>

(* The server stops or dies, and starts again from the file: its pairing   *)
(* codes, the cooldown and the requests in flight are gone.                *)
Restart ==
    /\ restarts < MaxRestarts
    /\ restarts' = restarts + 1
    /\ memory' = disk /\ asof' = version /\ fresh' = {}
    /\ req' = [r \in Reqs |-> None]
    /\ NewStore
    /\ UNCHANGED <<now, born, disk, command, version, casof, via, asked,
                   reported, undone, revokes, faults>>

-----------------------------------------------------------------------------
(* approval-revoke: the file is loaded and must hold the device. *)
RevokeLoad(c, d) ==
    /\ cpc[c] = "idle" /\ revokes < MaxRevokes /\ disk[d] # "absent"
    /\ revokes' = revokes + 1
    /\ view' = [view EXCEPT ![c] = disk] /\ casof' = [casof EXCEPT ![c] = version]
    /\ target' = [target EXCEPT ![c] = d]
    /\ cpc' = [cpc EXCEPT ![c] = "ask"]
    /\ UNCHANGED <<now, pairing, server, disk, version, asof, via, fresh, asked,
                   reported, undone, restarts, faults>>

(* The user declines, or the command dies where it stands. *)
RevokeStops(c) ==
    /\ cpc[c] # "idle"
    /\ cpc' = [cpc EXCEPT ![c] = "idle"]
    /\ UNCHANGED <<now, pairing, server, disk, view, target, history, counts>>

(* Mutant: the copy loaded before the question is used without a merge. *)
RevokeMarkUnmerged(c) ==
    /\ cpc[c] = "ask"
    /\ view' = [view EXCEPT ![c] = [view[c] EXCEPT ![target[c]] = "revoked"]]
    /\ casof' = [casof EXCEPT ![c] = version]
    /\ asked' = asked \cup {target[c]}
    /\ cpc' = [cpc EXCEPT ![c] = "save"]
    /\ UNCHANGED <<now, pairing, server, disk, target, version, asof, via, fresh,
                   reported, undone, counts>>

(* The user agrees: the file is merged and the device marked.  The first   *)
(* write is skipped when that changed nothing.                             *)
RevokeMark(c) ==
    LET copy == [Merged(view[c]) EXCEPT ![target[c]] = "revoked"] IN
    /\ cpc[c] = "ask"
    /\ view' = [view EXCEPT ![c] = copy]
    /\ casof' = [casof EXCEPT ![c] = version]
    /\ asked' = asked \cup {target[c]}
    /\ cpc' = [cpc EXCEPT ![c] = IF copy = view[c] THEN "save_again" ELSE "save"]
    /\ UNCHANGED <<now, pairing, server, disk, target, version, asof, via, fresh,
                   reported, undone, counts>>

WriteView(c) ==
    /\ disk' = view[c]
    /\ version' = version + 1
    /\ casof' = [casof EXCEPT ![c] = IF casof[c] = version THEN @ + 1 ELSE @]

(* The two writes: a failure of the first is ignored, one of the second    *)
(* reported, and the success of the second is what the user is told.       *)
RevokeSave(c) ==
    /\ cpc[c] = "save"
    /\ WriteView(c)
    /\ undone' = undone \cup AtStake(view[c], casof[c])
    /\ cpc' = [cpc EXCEPT ![c] = "save_again"]
    /\ UNCHANGED <<now, pairing, server, view, target, asof, via, fresh, asked,
                   reported, counts>>

RevokeSaveFails(c) ==
    /\ cpc[c] \in {"save", "save_again"} /\ faults < MaxFaults
    /\ faults' = faults + 1
    /\ cpc' = [cpc EXCEPT ![c] = IF cpc[c] = "save" THEN "save_again" ELSE "idle"]
    /\ UNCHANGED <<now, pairing, server, disk, view, target, history, revokes, restarts>>

RevokeReport(c) ==
    /\ cpc[c] = "save_again"
    /\ WriteView(c)
    /\ undone' = (undone \cup AtStake(view[c], casof[c])) \ {target[c]}
    /\ reported' = reported \cup {target[c]}
    /\ cpc' = [cpc EXCEPT ![c] = "idle"]
    /\ UNCHANGED <<now, pairing, server, view, target, asof, via, fresh, asked,
                   counts>>

Next ==
    \/ Tick \/ Validate \/ Restart
    \/ \E c \in Codes : MintCode(c)
    \/ \E r \in Reqs :
         \/ \E c \in Codes \cup {Wrong} : EnrollRefused(r, c)
         \/ \E c \in Codes : EnrollRedeem(r, c)
         \/ \E d \in Devices : EnrollSave(r, d)
         \/ EnrollFails(r)
    \/ \E c \in Clis :
         \/ \E d \in Devices : RevokeLoad(c, d)
         \/ RevokeStops(c) \/ RevokeMark(c) \/ RevokeSave(c)
         \/ RevokeSaveFails(c) \/ RevokeReport(c)

Spec == Init /\ [][Next]_vars

-----------------------------------------------------------------------------
(* Type correctness. *)
TypeOK ==
    /\ PairingTypeOK
    /\ memory \in Copies /\ disk \in Copies
    /\ born \in [Devices -> Nat] /\ req \in [Reqs -> Codes \cup {None}]
    /\ cpc \in [Clis -> {"idle", "ask", "save", "save_again"}]
    /\ view \in [Clis -> Copies] /\ target \in [Clis -> Devices \cup {None}]
    /\ version \in Nat /\ asof \in Nat /\ casof \in [Clis -> Nat]
    /\ via \in [Devices -> Codes \cup {None}]
    /\ fresh \subseteq Devices /\ asked \subseteq Devices
    /\ reported \subseteq Devices /\ undone \subseteq Devices
    /\ revokes \in Nat /\ restarts \in Nat /\ faults \in Nat

(* A device that approval-revoke reported revoked is refused from then on, *)
(* by this server and by the next, as long as no store that was behind the *)
(* file has saved its copy over the revocation.                            *)
RevokedMeansRefused == \A d \in reported \ undone : ~Accepts(d)

(* A device keeps working with the server that enrolled it until it        *)
(* expires or somebody asks to revoke it, even if a command that loaded    *)
(* the file before the enrolment has written it out of the file.           *)
EnrolledAccepted ==
    \A d \in fresh \ asked : now <= born[d] + SessionTtl => Accepts(d)

(* A pairing code enrols at most one device, also when two requests carry  *)
(* it at the same time and when a write fails in between.                  *)
OneDevicePerCode ==
    /\ \A d, e \in Devices : via[d] = via[e] /\ via[d] # None => d = e
    /\ \A r, s \in Reqs : req[r] = req[s] /\ req[r] # None => r = s
    /\ \A r \in Reqs, d \in Devices : req[r] # None => req[r] # via[d]

(* What the comments of both stores promise without that condition: a      *)
(* reported revocation is never undone by another store's next save.       *)
RevocationFinal == \A d \in reported : ~Accepts(d)
=============================================================================
