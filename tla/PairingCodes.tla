---------------------------- MODULE PairingCodes ----------------------------
(***************************************************************************)
(* The pairing codes of one serve process: a TokenStore behind a mutex.    *)
(*                                                                         *)
(* A code is minted by the operator, lives for CodeTtl and is redeemed at  *)
(* most once.  A redemption that finds no live code is a miss; MaxFailed   *)
(* misses in a row start a cooldown in which even a live code is refused.  *)
(* The clock is the process's monotonic one.                               *)
(***************************************************************************)
EXTENDS Integers, Sequences

CONSTANTS
    Codes,      \* codes that may be minted, each at most once: they are random
    Wrong,      \* a guess that was never minted
    CodeTtl,    \* PAIRING_CODE_TTL
    MaxFailed,  \* MAX_FAILED_ATTEMPTS
    Cooldown,   \* FAILED_ATTEMPT_COOLDOWN_MS
    MaxTime,    \* bound: the clock
    MaxMisses,  \* bound: misses since the last success
    None        \* no code, no expiry

ASSUME PairingAssumption ==
    /\ CodeTtl \in Nat /\ MaxFailed \in Nat \ {0} /\ Cooldown \in Nat
    /\ MaxTime \in Nat /\ MaxMisses \in Nat
    /\ Wrong \notin Codes /\ None \notin Codes \cup Nat

VARIABLES
    now,     \* the clock
    tokens,  \* when each stored code expires
    minted,  \* the codes handed out so far
    failed,  \* failed_count
    until,   \* cooldown_until_ms
    misses   \* history: the instants of the misses since the last success

pairing == <<tokens, minted, failed, until, misses>>

InitPairing ==
    /\ tokens = [c \in Codes |-> None] /\ minted = {}
    /\ failed = 0 /\ until = 0
    /\ misses = << >>

(* The store of a new serve process; what was minted before is unknown to it. *)
NewStore ==
    /\ tokens' = [c \in Codes |-> None]
    /\ failed' = 0 /\ until' = 0
    /\ misses' = << >>
    /\ UNCHANGED minted

(* The cooldown is in force, or is over: at its last instant it is neither. *)
Blocked == failed >= MaxFailed /\ now < until
Over == failed >= MaxFailed /\ now > until

(* Mutant: the counter starts anew at every mint. *)
MintForgets(c) ==
    /\ c \notin minted /\ minted' = minted \cup {c}
    /\ tokens' = [x \in Codes |->
         IF x = c THEN now + CodeTtl
         ELSE IF tokens[x] # None /\ now <= tokens[x] THEN tokens[x] ELSE None]
    /\ failed' = 0
    /\ UNCHANGED <<now, until, misses>>

(* mint: expired codes are dropped, and an elapsed cooldown is forgotten,  *)
(* before the new code is stored.                                          *)
Mint(c) ==
    /\ c \notin minted /\ minted' = minted \cup {c}
    /\ tokens' = [x \in Codes |->
         IF x = c THEN now + CodeTtl
         ELSE IF tokens[x] # None /\ now <= tokens[x] THEN tokens[x] ELSE None]
    /\ failed' = IF Over THEN 0 ELSE failed
    /\ UNCHANGED <<now, until, misses>>

LiveCode(c) == c \in Codes /\ tokens[c] # None /\ now <= tokens[c]

(* redeem, refused: every attempt of the cooldown, and afterwards a code   *)
(* that is unknown or expired, which counts as a miss.                     *)
RedeemBlocked == Blocked /\ UNCHANGED <<now, pairing>>

RedeemMiss(c) ==
    LET count == (IF Over THEN 0 ELSE failed) + 1 IN
    /\ ~Blocked /\ ~LiveCode(c) /\ Len(misses) < MaxMisses
    /\ tokens' = [x \in Codes |-> IF x = c THEN None ELSE tokens[x]]
    /\ failed' = count
    /\ until' = IF count >= MaxFailed THEN now + Cooldown ELSE until
    /\ misses' = Append(misses, now)
    /\ UNCHANGED <<now, minted>>

(* Mutant: a redeemed code stays stored until it expires. *)
RedeemHitKeeps(c) ==
    /\ ~Blocked /\ LiveCode(c)
    /\ failed' = 0 /\ until' = 0 /\ misses' = << >>
    /\ UNCHANGED <<now, minted, tokens>>

(* redeem, accepted: the code is used up and the failures are forgotten. *)
RedeemHit(c) ==
    /\ ~Blocked /\ LiveCode(c)
    /\ tokens' = [tokens EXCEPT ![c] = None]
    /\ failed' = 0 /\ until' = 0 /\ misses' = << >>
    /\ UNCHANGED <<now, minted>>

-----------------------------------------------------------------------------
PairingTypeOK ==
    /\ now \in Nat
    /\ tokens \in [Codes -> Nat \cup {None}] /\ minted \subseteq Codes
    /\ failed \in Nat /\ until \in Nat
    /\ misses \in Seq(Nat)

(* However the guesses, the mints and the end of the cooldown interleave,  *)
(* MaxFailed + 1 misses in a row take at least a cooldown: nobody tries    *)
(* more than MaxFailed wrong codes in a cooldown's time.                   *)
MissesSpaced ==
    \A i \in 1..Len(misses) :
       i + MaxFailed <= Len(misses) => misses[i + MaxFailed] - misses[i] >= Cooldown
=============================================================================
