---------------------------- MODULE OAuthConsents ----------------------------
(***************************************************************************)
(* The OAuth routes of the serve process: browser consents, the            *)
(* authorization codes they are worth, and the tokens the codes buy.       *)
(*                                                                         *)
(* A confirmation copies the consent, lets the lock go while it checks the *)
(* passphrase, and takes the consent out afterwards; the registry file is  *)
(* used by operators meanwhile.  Requests refused before they touch any    *)
(* state (unknown client, wrong redirect, malformed body) are no steps.    *)
(***************************************************************************)
EXTENDS TokenRegistry, FiniteSets

CONSTANTS
    Confirmers,   \* threads serving confirmations
    Flows,        \* browser consents, each started once: their names are random
    OAuthAgent,   \* the agent every OAuth token is for
    CodeTtl,      \* AUTH_CODE_TTL, of consents and of codes
    MaxConsents   \* MAX_BROWSER_CONSENTS

ASSUME ConsentAssumption ==
    /\ OAuthAgent \in Agents /\ IsFiniteSet(Flows)
    /\ CodeTtl \in Nat /\ MaxConsents \in Nat \ {0}

(* What a confirmation is about. *)
Choices == [f : Flows, choice : {"approve", "deny"}, at : 0..MaxTime]

ASSUME ChoiceAssumption == None \notin Choices

VARIABLES
    flow,      \* the consent a thread confirms, the choice made, and when it came in
    consent,   \* browser_requests: when each consent expires
    codes,     \* how many codes of a consent are out, and until when
    answer,    \* history: what the browser was told about each consent
    grants     \* history: grants that came from each consent

oauth == <<flow, consent, codes, answer, grants>>
vars == <<now, registry, oauth>>

NoCode == [n |-> 0, exp |-> 0]

Init ==
    /\ now = 0 /\ InitRegistry
    /\ flow = [p \in Confirmers |-> None]
    /\ consent = [f \in Flows |-> None] /\ codes = [f \in Flows |-> NoCode]
    /\ answer = [f \in Flows |-> {}] /\ grants = [f \in Flows |-> 0]

-----------------------------------------------------------------------------
(* Consents and codes.  A code is named after its consent.                 *)

Unexpired == {f \in Flows : consent[f] # None /\ consent[f] >= now}

(* Mutant: the consents are limited one too late. *)
StartConsentOneMore(f) ==
    /\ answer[f] = {}
    /\ Cardinality(Unexpired) <= MaxConsents
    /\ consent' = [g \in Flows |-> IF g = f THEN now + CodeTtl
                                   ELSE IF g \in Unexpired THEN consent[g] ELSE None]
    /\ answer' = [answer EXCEPT ![f] = {"asked"}]
    /\ UNCHANGED <<now, registry, flow, codes, grants>>

(* start_browser_consent: sweep, refuse at the limit, insert. *)
StartConsent(f) ==
    /\ answer[f] = {}
    /\ Cardinality(Unexpired) < MaxConsents
    /\ consent' = [g \in Flows |-> IF g = f THEN now + CodeTtl
                                   ELSE IF g \in Unexpired THEN consent[g] ELSE None]
    /\ answer' = [answer EXCEPT ![f] = {"asked"}]
    /\ UNCHANGED <<now, registry, flow, codes, grants>>

(* confirm takes a copy of the consent, and lets the lock go. *)
Confirm(p, f, choice) ==
    /\ flow[p] = None /\ f \in Unexpired
    /\ flow' = [flow EXCEPT ![p] = [f |-> f, choice |-> choice, at |-> now]]
    /\ UNCHANGED <<now, registry, consent, codes, answer, grants>>

Confirmed(p) ==
    /\ flow' = [flow EXCEPT ![p] = None]
    /\ UNCHANGED <<now, registry>>

(* The client is gone, the passphrase wrong, or another request has taken   *)
(* the consent.                                                             *)
ConfirmFails(p) ==
    /\ flow[p] # None
    /\ Confirmed(p)
    /\ UNCHANGED <<consent, codes, answer, grants>>

(* Mutant: a denial leaves the consent in the table. *)
ConfirmDenyKeeps(p) ==
    /\ flow[p] # None /\ flow[p].choice = "deny"
    /\ LET f == flow[p].f
       IN  /\ consent[f] # None
           /\ answer' = [answer EXCEPT ![f] = @ \cup {"denied"}]
    /\ Confirmed(p)
    /\ UNCHANGED <<consent, codes, grants>>

(* The user says no and the consent is still there: it is taken out. *)
ConfirmDeny(p) ==
    /\ flow[p] # None /\ flow[p].choice = "deny"
    /\ LET f == flow[p].f
       IN  /\ consent[f] # None
           /\ consent' = [consent EXCEPT ![f] = None]
           /\ answer' = [answer EXCEPT ![f] = @ \cup {"denied"}]
    /\ Confirmed(p)
    /\ UNCHANGED <<codes, grants>>

(* Mutant: the consent is taken out without looking whether it was there. *)
ConfirmApproveAgain(p) ==
    /\ flow[p] # None /\ flow[p].choice = "approve"
    /\ LET f == flow[p].f
       IN  /\ consent' = [consent EXCEPT ![f] = None]
           /\ codes' = [codes EXCEPT ![f] = [n |-> @.n + 1, exp |-> flow[p].at + CodeTtl]]
           /\ answer' = [answer EXCEPT ![f] = @ \cup {"approved"}]
    /\ Confirmed(p)
    /\ UNCHANGED grants

(* The passphrase was right and the consent is still there: it is taken out *)
(* and a code issued, which lives from the instant the request came in.     *)
ConfirmApprove(p) ==
    /\ flow[p] # None /\ flow[p].choice = "approve"
    /\ LET f == flow[p].f
       IN  /\ consent[f] # None
           /\ consent' = [consent EXCEPT ![f] = None]
           /\ codes' = [codes EXCEPT ![f] = [n |-> @.n + 1, exp |-> flow[p].at + CodeTtl]]
           /\ answer' = [answer EXCEPT ![f] = @ \cup {"approved"}]
    /\ Confirmed(p)
    /\ UNCHANGED grants

(* issue_code fails for want of random bytes: the user has agreed, the       *)
(* consent is gone and there is no code for it.                             *)
IssueCodeFails(p) ==
    /\ flow[p] # None /\ flow[p].choice = "approve"
    /\ consent[flow[p].f] # None
    /\ consent' = [consent EXCEPT ![flow[p].f] = None]
    /\ Confirmed(p)
    /\ UNCHANGED <<codes, answer, grants>>

TakeCode(f) ==
    /\ codes[f].n > 0
    /\ codes' = [codes EXCEPT ![f].n = @ - 1]

(* token, grant_type authorization_code: the code is taken first and a      *)
(* token created while the lock of the codes is held.                       *)
Exchange(f) ==
    /\ TakeCode(f) /\ now <= codes[f].exp
    /\ CreateWithRefresh(OAuthAgent)
    /\ grants' = [grants EXCEPT ![f] = @ + 1]
    /\ UNCHANGED <<now, flow, consent, answer>>

(* The code has expired, the verifier is wrong or the registry cannot be    *)
(* written: the code is gone all the same.                                  *)
ExchangeFails(f) ==
    /\ TakeCode(f)
    /\ UNCHANGED <<now, registry, flow, consent, answer, grants>>

-----------------------------------------------------------------------------
Tick ==
    /\ now < MaxTime /\ now' = now + 1
    /\ UNCHANGED <<registry, oauth>>

(* Operators, other processes and refreshes change the file. *)
Elsewhere == RegistryNext /\ UNCHANGED oauth

(* The process ends and is started again: consents and codes are gone. *)
Restart ==
    /\ flow' = [p \in Confirmers |-> None]
    /\ consent' = [f \in Flows |-> None] /\ codes' = [f \in Flows |-> NoCode]
    /\ UNCHANGED <<now, registry, answer, grants>>

Next ==
    \/ Tick \/ Elsewhere \/ Restart
    \/ \E p \in Confirmers, f \in Flows, c \in {"approve", "deny"} : Confirm(p, f, c)
    \/ \E p \in Confirmers :
         ConfirmFails(p) \/ ConfirmDeny(p) \/ ConfirmApprove(p) \/ IssueCodeFails(p)
    \/ \E f \in Flows : StartConsent(f) \/ Exchange(f) \/ ExchangeFails(f)

Spec == Init /\ [][Next]_vars

-----------------------------------------------------------------------------
(* Types, and the limit on the consents that wait for an answer.             *)
TypeOK ==
    /\ FileTypeOK
    /\ flow \in [Confirmers -> Choices \cup {None}]
    /\ consent \in [Flows -> 0..(MaxTime + CodeTtl) \cup {None}]
    /\ codes \in [Flows -> [n : Nat, exp : 0..(MaxTime + CodeTtl)]]
    /\ answer \in [Flows -> SUBSET {"asked", "approved", "denied"}]
    /\ grants \in [Flows -> Nat]
    /\ Cardinality(Unexpired) <= MaxConsents

(* One consent of the user is worth one grant: two confirmations that race,  *)
(* and two exchanges of the code, do not make two; and a consent the browser *)
(* was told is denied makes none (confirm, token).                           *)
ConsentWorthOne ==
    \A f \in Flows :
        /\ grants[f] + codes[f].n <= 1
        /\ "denied" \in answer[f] => grants[f] + codes[f].n = 0

-----------------------------------------------------------------------------
(* How far each consent has come, read off the tables and the history. *)
StageOf(f) ==
    IF grants[f] > 0 THEN "granted"
    ELSE IF codes[f].n > 0 THEN "code"
    ELSE IF "denied" \in answer[f] THEN "denied"
    ELSE IF consent[f] # None THEN "open"
    ELSE IF answer[f] = {} THEN "new" ELSE "void"

Stage == [f \in Flows |-> StageOf(f)]

Life == INSTANCE ConsentLife WITH stage <- Stage

(* The routes implement ConsentLife: whatever the threads, the clock, the   *)
(* operators and a restart do in between, a consent is answered once, its   *)
(* code is redeemed once, and a consent or code that was denied, spoiled or *)
(* forgotten never comes back (start_browser_consent, confirm, token).      *)
FollowsLife == Life!Spec
=============================================================================
