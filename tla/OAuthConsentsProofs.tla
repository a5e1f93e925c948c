------------------------- MODULE OAuthConsentsProofs -------------------------
(***************************************************************************)
(* The theorems about consents and codes.  A consent is open, or worth a   *)
(* code, or worth a grant, or worth nothing; what it is worth moves on     *)
(* only when one thread takes the consent or the code out.                 *)
(***************************************************************************)
EXTENDS OAuthConsents, TokenRegistryProofs, FiniteSetTheorems

Types ==
    /\ flow \in [Confirmers -> Choices \cup {None}]
    /\ consent \in [Flows -> 0..(MaxTime + CodeTtl) \cup {None}]
    /\ codes \in [Flows -> [n : Nat, exp : 0..(MaxTime + CodeTtl)]]
    /\ answer \in [Flows -> SUBSET {"asked", "approved", "denied"}]
    /\ grants \in [Flows -> Nat]

(* Where one consent stands. *)
Worth(f) ==
    /\ grants[f] + codes[f].n <= 1
    /\ consent[f] # None => grants[f] = 0 /\ codes[f].n = 0 /\ "denied" \notin answer[f]
    /\ answer[f] = {} => consent[f] = None /\ grants[f] = 0 /\ codes[f].n = 0
    /\ "denied" \in answer[f] => grants[f] = 0 /\ codes[f].n = 0

Limit == Cardinality(Unexpired) <= MaxConsents

IInv == RegInv /\ Types /\ (\A f \in Flows : Worth(f)) /\ Limit

-----------------------------------------------------------------------------
(* Fewer consents are within the limit, and one more if they were below it. *)
LEMMA FewerConsents ==
    ASSUME Limit, NEW S, S \subseteq Unexpired
    PROVE  Cardinality(S) <= MaxConsents
<1>1. IsFiniteSet(Unexpired)
  BY ConsentAssumption, FS_Subset DEF Unexpired
<1>2. IsFiniteSet(S) /\ Cardinality(S) <= Cardinality(Unexpired)
  BY <1>1, FS_Subset
<1>3. Cardinality(S) \in Nat /\ Cardinality(Unexpired) \in Nat /\ MaxConsents \in Nat
  BY <1>1, <1>2, FS_CardinalityType, ConsentAssumption
<1> QED BY <1>2, <1>3 DEF Limit

LEMMA OneMore ==
    ASSUME NEW f, Cardinality(Unexpired) < MaxConsents, NEW S, S \subseteq Unexpired \cup {f}
    PROVE  Cardinality(S) <= MaxConsents
<1>1. IsFiniteSet(Unexpired)
  BY ConsentAssumption, FS_Subset DEF Unexpired
<1>2. /\ IsFiniteSet(Unexpired \cup {f})
      /\ Cardinality(Unexpired \cup {f}) <= Cardinality(Unexpired) + 1
  <2>1. Cardinality(Unexpired) \in Nat
    BY <1>1, FS_CardinalityType
  <2>2. /\ IsFiniteSet(Unexpired \cup {f})
        /\ \/ Cardinality(Unexpired \cup {f}) = Cardinality(Unexpired)
           \/ Cardinality(Unexpired \cup {f}) = Cardinality(Unexpired) + 1
    BY <1>1, FS_AddElement, Zenon
  <2> QED BY <2>1, <2>2
<1>3. IsFiniteSet(S) /\ Cardinality(S) <= Cardinality(Unexpired \cup {f})
  BY <1>2, FS_Subset
<1>4. /\ Cardinality(S) \in Nat /\ Cardinality(Unexpired) \in Nat
      /\ Cardinality(Unexpired \cup {f}) \in Nat /\ MaxConsents \in Nat
  BY <1>1, <1>2, <1>3, FS_CardinalityType, ConsentAssumption
<1> QED BY <1>2, <1>3, <1>4

(* No consent is renewed and the clock does not go back. *)
LEMMA LimitKept ==
    ASSUME IInv, now' \in Nat, now' >= now,
           \A f \in Flows : consent'[f] = consent[f] \/ consent'[f] = None
    PROVE  Limit'
<1>1. now \in Nat
  BY RegistryAssumption DEF IInv, RegInv, FileTypeOK
<1>2. \A f \in Flows : consent[f] # None => consent[f] \in Int
  BY DEF IInv, Types
<1>3. Unexpired' \subseteq Unexpired
  BY <1>1, <1>2 DEF Unexpired
<1> QED BY <1>3, FewerConsents DEF IInv, Limit

(* The steps of the OAuth routes leave the clock and the file alone. *)
LEMMA Aside ==
    ASSUME IInv, UNCHANGED <<now, registry>>
    PROVE  RegInv' /\ now' \in Nat /\ now' >= now /\ now \in 0..MaxTime
<1>1. now \in 0..MaxTime
  BY DEF IInv, RegInv, FileTypeOK
<1> QED
  BY <1>1, RegistryAssumption, RegistryStutter DEF IInv, RegInv, FileTypeOK, registry

LEMMA Deadline ==
    ASSUME NEW t \in 0..MaxTime
    PROVE  t + CodeTtl \in 0..(MaxTime + CodeTtl) /\ t + CodeTtl # None
<1>1. t + CodeTtl \in Nat /\ t + CodeTtl \in 0..(MaxTime + CodeTtl)
  BY ConsentAssumption, RegistryAssumption
<1> QED BY <1>1, RegistryAssumption

LEMMA Code ==
    ASSUME Types, NEW f \in Flows
    PROVE  /\ codes[f].n \in Nat /\ codes[f].exp \in 0..(MaxTime + CodeTtl)
           /\ grants[f] \in Nat
BY DEF Types

THEOREM Initially == Init => IInv
<1> SUFFICES ASSUME Init PROVE IInv
  OBVIOUS
<1>1. RegInv
  BY RegInitOK DEF Init
<1>2. Types
  BY ConsentAssumption, RegistryAssumption DEF Init, Types, NoCode
<1>3. \A f \in Flows : Worth(f)
  BY DEF Init, Worth, NoCode
<1>4. Unexpired = {}
  BY DEF Init, Unexpired
<1>5. Limit
  BY <1>4, FS_EmptySet, ConsentAssumption DEF Limit
<1> QED BY <1>1, <1>2, <1>3, <1>5 DEF IInv

LEMMA StartConsentOK ==
    ASSUME IInv, NEW f \in Flows, StartConsent(f)
    PROVE  IInv'
<1>1. RegInv' /\ now' = now /\ now \in 0..MaxTime
  BY Aside DEF StartConsent
<1>2. now + CodeTtl \in 0..(MaxTime + CodeTtl) /\ now + CodeTtl # None
  BY <1>1, Deadline
<1>3. /\ consent'[f] = now + CodeTtl
      /\ \A g \in Flows : g # f => consent'[g] = IF g \in Unexpired THEN consent[g] ELSE None
      /\ answer'[f] = {"asked"} /\ \A g \in Flows : g # f => answer'[g] = answer[g]
      /\ UNCHANGED <<flow, codes, grants>>
  BY DEF StartConsent, IInv, Types
<1>4. Types'
  BY <1>2 DEF StartConsent, IInv, Types
<1>5. ASSUME NEW g \in Flows
      PROVE  Worth(g)'
  <2>1. CASE g = f
    <3>1. Worth(f) /\ answer[f] = {}
      BY DEF IInv, StartConsent
    <3> QED BY <2>1, <3>1, <1>3 DEF Worth
  <2>2. CASE g # f
    <3>1. Worth(g) /\ (consent'[g] = consent[g] \/ consent'[g] = None)
      BY <2>2, <1>3 DEF IInv
    <3> QED BY <2>2, <3>1, <1>3 DEF Worth
  <2> QED BY <2>1, <2>2
<1>6. Unexpired' \subseteq Unexpired \cup {f}
  BY <1>1, <1>3 DEF Unexpired
<1>7. Limit'
  BY <1>6, OneMore DEF StartConsent, Limit
<1> QED BY <1>1, <1>4, <1>5, <1>7 DEF IInv

LEMMA ConfirmOK ==
    ASSUME IInv, NEW p \in Confirmers, NEW f \in Flows, NEW c \in {"approve", "deny"},
           Confirm(p, f, c)
    PROVE  IInv'
<1>1. RegInv' /\ now' \in Nat /\ now' >= now /\ now \in 0..MaxTime
  BY Aside DEF Confirm
<1>2. [f |-> f, choice |-> c, at |-> now] \in Choices
  BY <1>1 DEF Choices
<1>3. Types'
  BY <1>2 DEF Confirm, IInv, Types
<1>4. \A g \in Flows : Worth(g)'
  BY DEF Confirm, IInv, Worth
<1>5. Limit'
  BY <1>1, LimitKept DEF Confirm
<1> QED BY <1>1, <1>3, <1>4, <1>5 DEF IInv

LEMMA ConfirmFailsOK ==
    ASSUME IInv, NEW p \in Confirmers, ConfirmFails(p)
    PROVE  IInv'
<1>1. RegInv' /\ now' \in Nat /\ now' >= now
  BY Aside DEF ConfirmFails, Confirmed
<1>2. Types'
  BY DEF ConfirmFails, Confirmed, IInv, Types
<1>3. \A g \in Flows : Worth(g)'
  BY DEF ConfirmFails, IInv, Worth
<1>4. Limit'
  BY <1>1, LimitKept DEF ConfirmFails
<1> QED BY <1>1, <1>2, <1>3, <1>4 DEF IInv

LEMMA Chosen ==
    ASSUME Types, NEW p \in Confirmers, flow[p] # None
    PROVE  flow[p].f \in Flows /\ flow[p].at \in 0..MaxTime
BY DEF Types, Choices

LEMMA ConfirmDenyOK ==
    ASSUME IInv, NEW p \in Confirmers, ConfirmDeny(p)
    PROVE  IInv'
<1> DEFINE f == flow[p].f
<1>1. RegInv' /\ now' \in Nat /\ now' >= now
  BY Aside DEF ConfirmDeny, Confirmed
<1>2. f \in Flows /\ consent[f] # None
  BY Chosen DEF ConfirmDeny, IInv
<1>3. /\ consent' = [consent EXCEPT ![f] = None]
      /\ answer' = [answer EXCEPT ![f] = @ \cup {"denied"}]
      /\ flow' = [flow EXCEPT ![p] = None]
      /\ UNCHANGED <<codes, grants>>
  BY DEF ConfirmDeny, Confirmed
<1> HIDE DEF f
<1>4. Types'
  BY <1>2, <1>3 DEF IInv, Types
<1>5. ASSUME NEW g \in Flows
      PROVE  Worth(g)'
  <2>1. Worth(g) /\ Worth(f)
    BY <1>2 DEF IInv
  <2>2. CASE g = f
    BY <2>1, <2>2, <1>2, <1>3 DEF Worth, IInv, Types
  <2>3. CASE g # f
    BY <2>1, <2>3, <1>2, <1>3 DEF Worth, IInv, Types
  <2> QED BY <2>2, <2>3
<1>6. Limit'
  BY <1>1, <1>2, <1>3, LimitKept DEF IInv, Types
<1> QED BY <1>1, <1>4, <1>5, <1>6 DEF IInv

LEMMA ConfirmApproveOK ==
    ASSUME IInv, NEW p \in Confirmers, ConfirmApprove(p)
    PROVE  IInv'
<1> DEFINE f == flow[p].f
           code == [n |-> codes[f].n + 1, exp |-> flow[p].at + CodeTtl]
<1>1. RegInv' /\ now' \in Nat /\ now' >= now
  BY Aside DEF ConfirmApprove, Confirmed
<1>2. f \in Flows /\ consent[f] # None /\ flow[p].at \in 0..MaxTime
  BY Chosen DEF ConfirmApprove, IInv
<1>3. /\ consent' = [consent EXCEPT ![f] = None]
      /\ codes' = [codes EXCEPT ![f] = code]
      /\ answer' = [answer EXCEPT ![f] = @ \cup {"approved"}]
      /\ flow' = [flow EXCEPT ![p] = None]
      /\ UNCHANGED grants
  BY DEF ConfirmApprove, Confirmed
<1>4. code \in [n : Nat, exp : 0..(MaxTime + CodeTtl)] /\ code.n = codes[f].n + 1
  BY <1>2, Code, Deadline DEF IInv
<1> HIDE DEF f, code
<1>5. Types'
  BY <1>2, <1>3, <1>4 DEF IInv, Types
<1>6. ASSUME NEW g \in Flows
      PROVE  Worth(g)'
  <2>1. Worth(g) /\ Worth(f)
    BY <1>2 DEF IInv
  <2>2. CASE g = f
    <3>1. grants[f] = 0 /\ codes[f].n = 0 /\ "denied" \notin answer[f]
      BY <2>1, <1>2 DEF Worth
    <3>2. /\ consent'[f] = None /\ codes'[f].n = 1 /\ grants'[f] = 0
          /\ "approved" \in answer'[f] /\ "denied" \notin answer'[f]
      BY <3>1, <1>2, <1>3, <1>4 DEF IInv, Types
    <3> QED BY <2>2, <3>2 DEF Worth
  <2>3. CASE g # f
    BY <2>1, <2>3, <1>2, <1>3 DEF Worth, IInv, Types
  <2> QED BY <2>2, <2>3
<1>7. Limit'
  BY <1>1, <1>2, <1>3, LimitKept DEF IInv, Types
<1> QED BY <1>1, <1>5, <1>6, <1>7 DEF IInv

LEMMA IssueCodeFailsOK ==
    ASSUME IInv, NEW p \in Confirmers, IssueCodeFails(p)
    PROVE  IInv'
<1>1. RegInv' /\ now' \in Nat /\ now' >= now
  BY Aside DEF IssueCodeFails, Confirmed
<1>2. PICK f \in Flows : f = flow[p].f
  BY Chosen DEF IssueCodeFails, IInv
<1>3. /\ consent' = [consent EXCEPT ![f] = None]
      /\ flow' = [flow EXCEPT ![p] = None]
      /\ UNCHANGED <<codes, answer, grants>>
  BY <1>2 DEF IssueCodeFails, Confirmed
<1>4. Types'
  BY <1>2, <1>3 DEF IInv, Types
<1>5. \A g \in Flows : consent'[g] = consent[g] \/ consent'[g] = None
  BY <1>3 DEF IInv, Types
<1>6. \A g \in Flows : Worth(g)'
  BY <1>3, <1>5 DEF IInv, Worth
<1>7. Limit'
  BY <1>1, <1>5, LimitKept
<1> QED BY <1>1, <1>4, <1>6, <1>7 DEF IInv

LEMMA TakeCodeOK ==
    ASSUME IInv, NEW f \in Flows, TakeCode(f)
    PROVE  /\ codes' \in [Flows -> [n : Nat, exp : 0..(MaxTime + CodeTtl)]]
           /\ codes[f].n = 1 /\ codes'[f].n = 0 /\ grants[f] = 0 /\ consent[f] = None
           /\ "denied" \notin answer[f] /\ answer[f] # {}
           /\ \A g \in Flows : g # f => codes'[g] = codes[g]
<1>1. codes[f].n \in Nat /\ codes[f].n > 0 /\ grants[f] \in Nat /\ Worth(f)
  BY Code DEF IInv, TakeCode
<1>2. codes[f].n = 1 /\ grants[f] = 0
  BY <1>1 DEF Worth
<1>3. /\ codes' \in [Flows -> [n : Nat, exp : 0..(MaxTime + CodeTtl)]]
      /\ codes'[f].n = codes[f].n - 1 /\ \A g \in Flows : g # f => codes'[g] = codes[g]
  BY <1>2 DEF IInv, Types, TakeCode
<1> QED BY <1>1, <1>2, <1>3 DEF Worth

LEMMA ExchangeOK ==
    ASSUME IInv, NEW f \in Flows, Exchange(f)
    PROVE  IInv'
<1>1. /\ codes' \in [Flows -> [n : Nat, exp : 0..(MaxTime + CodeTtl)]]
      /\ codes[f].n = 1 /\ codes'[f].n = 0 /\ grants[f] = 0 /\ consent[f] = None
      /\ "denied" \notin answer[f] /\ answer[f] # {}
      /\ \A g \in Flows : g # f => codes'[g] = codes[g]
  BY TakeCodeOK DEF Exchange
<1>2. RegInv' /\ now' = now /\ now' \in Nat /\ now' >= now
  <2>1. now \in Nat
    BY RegistryAssumption DEF IInv, RegInv, FileTypeOK
  <2> QED BY <2>1, CreateWithRefreshOK, ConsentAssumption DEF Exchange, IInv
<1>3. /\ UNCHANGED <<flow, consent, answer>> /\ grants' \in [Flows -> Nat]
      /\ grants'[f] = 1 /\ \A g \in Flows : g # f => grants'[g] = grants[g]
  BY <1>1 DEF Exchange, IInv, Types
<1>4. Types'
  BY <1>1, <1>3 DEF IInv, Types
<1>5. \A g \in Flows : Worth(g)'
  BY <1>1, <1>3 DEF IInv, Worth
<1>6. Limit'
  BY <1>2, <1>3, LimitKept
<1> QED BY <1>2, <1>4, <1>5, <1>6 DEF IInv

LEMMA ExchangeFailsOK ==
    ASSUME IInv, NEW f \in Flows, ExchangeFails(f)
    PROVE  IInv'
<1>1. /\ codes' \in [Flows -> [n : Nat, exp : 0..(MaxTime + CodeTtl)]]
      /\ codes'[f].n = 0 /\ grants[f] = 0 /\ consent[f] = None /\ answer[f] # {}
      /\ \A g \in Flows : g # f => codes'[g] = codes[g]
  BY TakeCodeOK DEF ExchangeFails
<1>2. RegInv' /\ now' \in Nat /\ now' >= now /\ UNCHANGED <<flow, consent, answer, grants>>
  BY Aside DEF ExchangeFails
<1>3. Types'
  BY <1>1, <1>2 DEF IInv, Types
<1>4. \A g \in Flows : Worth(g)'
  BY <1>1, <1>2 DEF IInv, Worth
<1>5. Limit'
  BY <1>2, LimitKept
<1> QED BY <1>2, <1>3, <1>4, <1>5 DEF IInv

LEMMA RestartOK ==
    ASSUME IInv, Restart
    PROVE  IInv'
<1>1. RegInv' /\ now' \in Nat /\ now' >= now
  BY Aside DEF Restart
<1>2. \A f \in Flows : consent'[f] = None /\ codes'[f].n = 0
  BY DEF Restart, NoCode
<1>3. Types'
  BY ConsentAssumption, RegistryAssumption DEF Restart, NoCode, IInv, Types
<1>4. ASSUME NEW f \in Flows
      PROVE  Worth(f)'
  <2>1. grants'[f] = grants[f] /\ answer'[f] = answer[f] /\ Worth(f)
        /\ grants[f] \in Nat /\ codes[f].n \in Nat
    BY Code DEF Restart, IInv
  <2> QED BY <2>1, <1>2 DEF Worth
<1>5. Limit'
  BY <1>1, <1>2, LimitKept
<1> QED BY <1>1, <1>3, <1>4, <1>5 DEF IInv

(* The clock, and the file, move without the OAuth routes. *)
LEMMA OthersOK ==
    ASSUME IInv, RegInv', now' >= now, UNCHANGED oauth
    PROVE  IInv'
<1>1. UNCHANGED <<flow, consent, codes, answer, grants>>
  BY DEF oauth
<1>2. Types' /\ \A f \in Flows : Worth(f)'
  BY <1>1 DEF IInv, Types, Worth
<1>3. now' \in Nat
  BY RegistryAssumption DEF RegInv, FileTypeOK
<1>4. Limit'
  BY <1>1, <1>3, LimitKept
<1> QED BY <1>2, <1>4 DEF IInv

THEOREM Step == IInv /\ [Next]_vars => IInv'
<1> SUFFICES ASSUME IInv, [Next]_vars PROVE IInv'
  OBVIOUS
<1>0. now \in Nat
  BY RegistryAssumption DEF IInv, RegInv, FileTypeOK
<1>1. CASE Tick
  <2>1. RegInv' /\ now' >= now
    BY <1>0, <1>1, ClockStep DEF Tick, IInv
  <2> QED BY <1>1, <2>1, OthersOK DEF Tick
<1>2. CASE Elsewhere
  <2>1. RegInv' /\ now' >= now
    BY <1>0, <1>2, RegistryStep DEF Elsewhere, IInv, RegistryNext
  <2> QED BY <1>2, <2>1, OthersOK DEF Elsewhere
<1>3. CASE UNCHANGED vars
  <2>1. RegInv' /\ now' >= now /\ UNCHANGED oauth
    BY <1>0, <1>3, Aside DEF vars, IInv
  <2> QED BY <2>1, OthersOK
<1>4. CASE Next /\ ~Tick /\ ~Elsewhere
  BY <1>4, RestartOK, StartConsentOK, ConfirmOK, ConfirmFailsOK, ConfirmDenyOK,
     ConfirmApproveOK, IssueCodeFailsOK, ExchangeOK, ExchangeFailsOK
  DEF Next
<1> QED BY <1>1, <1>2, <1>3, <1>4

THEOREM Invariance == Spec => []IInv
BY Initially, Step, PTL DEF Spec

(* The types, and that the number of open consents is bounded               *)
(* (start_browser_consent).                                                 *)
THEOREM TypeCorrect == Spec => []TypeOK
<1>1. IInv => TypeOK
  BY DEF IInv, Types, Limit, TypeOK, RegInv
<1> QED BY <1>1, Invariance, PTL

(* One consent is worth one grant, and a denied one none (confirm, token). *)
THEOREM ConsentsWorthOne == Spec => []ConsentWorthOne
<1>1. IInv => ConsentWorthOne
  BY Code DEF IInv, Worth, ConsentWorthOne
<1> QED BY <1>1, Invariance, PTL

-----------------------------------------------------------------------------
(* The refinement of ConsentLife: the stage of one consent moves, and the   *)
(* others stay, except where a table is swept or lost.                      *)

LEMMA OneMoves ==
    ASSUME NEW f \in Flows, NEW from, NEW to, StageOf(f) = from, StageOf(f)' = to,
           \A g \in Flows \ {f} : StageOf(g)' = StageOf(g)
    PROVE  Life!Move(f, from, to)
BY DEF Stage, Life!Move

(* Nothing the stages are read from changes. *)
LEMMA SameStage ==
    ASSUME UNCHANGED <<consent, codes, answer, grants>>
    PROVE  UNCHANGED Stage
<1>1. \A f \in Flows : StageOf(f)' = StageOf(f)
  BY DEF StageOf
<1> QED BY <1>1 DEF Stage

(* The stage is read from the four tables at that consent alone. *)
LEMMA StageLocal ==
    ASSUME NEW g \in Flows, consent'[g] = consent[g], codes'[g] = codes[g],
           answer'[g] = answer[g], grants'[g] = grants[g]
    PROVE  StageOf(g)' = StageOf(g)
BY DEF StageOf

(* start_browser_consent asks, and sweeps what has expired. *)
LEMMA StartConsentRefines ==
    ASSUME IInv, NEW f \in Flows, StartConsent(f)
    PROVE  Life!Ask(f)
<1> DEFINE S == {g \in Flows \ {f} : StageOf(g) = "open" /\ g \notin Unexpired}
<1>1. now + CodeTtl # None
  BY Aside, Deadline DEF StartConsent
<1>2. /\ answer[f] = {} /\ consent'[f] = now + CodeTtl /\ answer'[f] = {"asked"}
      /\ \A g \in Flows : g # f =>
           /\ consent'[g] = IF g \in Unexpired THEN consent[g] ELSE None
           /\ answer'[g] = answer[g]
      /\ UNCHANGED <<codes, grants>>
  BY DEF StartConsent, IInv, Types
<1>3. Worth(f) /\ grants[f] = 0 /\ codes[f].n = 0 /\ consent[f] = None
  BY <1>2 DEF IInv, Worth
<1>4. StageOf(f) = "new" /\ StageOf(f)' = "open"
  BY <1>1, <1>2, <1>3 DEF StageOf
<1>5. ASSUME NEW g \in Flows, g # f
      PROVE  StageOf(g)' = IF g \in S THEN "void" ELSE StageOf(g)
  <2>1. CASE g \in Unexpired
    BY <1>2, <1>5, <2>1, StageLocal
  <2>2. CASE g \notin Unexpired /\ StageOf(g) = "open"
    <3>1. answer[g] # {}
      BY <2>2 DEF StageOf, IInv, Worth
    <3> QED BY <1>2, <1>5, <2>2, <3>1 DEF StageOf
  <2>3. CASE g \notin Unexpired /\ StageOf(g) # "open"
    BY <1>2, <1>5, <2>3 DEF StageOf
  <2> QED BY <2>1, <2>2, <2>3
<1>6. S \in SUBSET {g \in Flows : Stage[g] = "open"}
  BY DEF Stage
<1> HIDE DEF S
<1>7. Stage' = [g \in Flows |-> IF g = f THEN "open"
                                ELSE IF g \in S THEN "void" ELSE Stage[g]]
  BY <1>4, <1>5 DEF Stage
<1> QED BY <1>4, <1>6, <1>7 DEF Life!Ask, Stage

LEMMA ConfirmDenyRefines ==
    ASSUME IInv, NEW p \in Confirmers, ConfirmDeny(p)
    PROVE  \E f \in Flows : Life!Deny(f)
<1>0. PICK f \in Flows : f = flow[p].f
  BY Chosen DEF ConfirmDeny, IInv
<1>1. consent[f] # None
  BY <1>0 DEF ConfirmDeny
<1>2. /\ consent' = [consent EXCEPT ![f] = None]
      /\ answer' = [answer EXCEPT ![f] = @ \cup {"denied"}]
      /\ UNCHANGED <<codes, grants>>
  BY <1>0 DEF ConfirmDeny
<1>3. Worth(f) /\ codes[f].n = 0 /\ grants[f] = 0 /\ "denied" \notin answer[f]
  BY <1>1 DEF IInv, Worth
<1>4. StageOf(f) = "open" /\ StageOf(f)' = "denied"
  BY <1>1, <1>2, <1>3 DEF StageOf, IInv, Types
<1>5. \A g \in Flows \ {f} : StageOf(g)' = StageOf(g)
  BY <1>1, <1>2, StageLocal DEF IInv, Types
<1> QED BY <1>1, <1>4, <1>5, OneMoves DEF Life!Deny

LEMMA ConfirmApproveRefines ==
    ASSUME IInv, NEW p \in Confirmers, ConfirmApprove(p)
    PROVE  \E f \in Flows : Life!Approve(f)
<1>0. PICK f \in Flows : f = flow[p].f
  BY Chosen DEF ConfirmApprove, IInv
<1> DEFINE code == [n |-> codes[f].n + 1, exp |-> flow[p].at + CodeTtl]
<1>1. consent[f] # None
  BY <1>0 DEF ConfirmApprove
<1>2. /\ consent' = [consent EXCEPT ![f] = None]
      /\ codes' = [codes EXCEPT ![f] = code]
      /\ answer' = [answer EXCEPT ![f] = @ \cup {"approved"}]
      /\ UNCHANGED grants
  BY <1>0 DEF ConfirmApprove
<1>3. code.n = codes[f].n + 1
  OBVIOUS
<1> HIDE DEF code
<1>4. Worth(f) /\ codes[f].n = 0 /\ grants[f] = 0 /\ "denied" \notin answer[f]
  BY <1>1 DEF IInv, Worth
<1>5. codes'[f].n = 1 /\ grants'[f] = 0
  BY <1>1, <1>2, <1>3, <1>4 DEF IInv, Types
<1>6. StageOf(f) = "open" /\ StageOf(f)' = "code"
  BY <1>1, <1>4, <1>5 DEF StageOf
<1>7. \A g \in Flows \ {f} : StageOf(g)' = StageOf(g)
  BY <1>1, <1>2, StageLocal DEF IInv, Types
<1> QED BY <1>1, <1>6, <1>7, OneMoves DEF Life!Approve

(* The consent of an approval that got no code has lapsed. *)
LEMMA IssueCodeFailsRefines ==
    ASSUME IInv, NEW p \in Confirmers, IssueCodeFails(p)
    PROVE  \E f \in Flows : Life!Lapse(f)
<1>0. PICK f \in Flows : f = flow[p].f
  BY Chosen DEF IssueCodeFails, IInv
<1>1. /\ consent[f] # None /\ consent' = [consent EXCEPT ![f] = None]
      /\ UNCHANGED <<codes, answer, grants>>
  BY <1>0 DEF IssueCodeFails
<1>2. /\ codes[f].n = 0 /\ grants[f] = 0 /\ "denied" \notin answer[f]
      /\ answer[f] # {}
  BY <1>1 DEF IInv, Worth
<1>3. StageOf(f) = "open" /\ StageOf(f)' = "void"
  BY <1>1, <1>2 DEF StageOf, IInv, Types
<1>4. \A g \in Flows \ {f} : StageOf(g)' = StageOf(g)
  BY <1>1, StageLocal DEF IInv, Types
<1> QED BY <1>3, <1>4, OneMoves DEF Life!Lapse

LEMMA ExchangeRefines ==
    ASSUME IInv, NEW f \in Flows, Exchange(f)
    PROVE  Life!Redeem(f)
<1>1. /\ codes[f].n = 1 /\ codes'[f].n = 0 /\ grants[f] = 0
      /\ \A g \in Flows : g # f => codes'[g] = codes[g]
  BY TakeCodeOK DEF Exchange
<1>2. /\ UNCHANGED <<consent, answer>> /\ grants'[f] = 1
      /\ \A g \in Flows : g # f => grants'[g] = grants[g]
  BY <1>1 DEF Exchange, IInv, Types
<1>3. StageOf(f) = "code" /\ StageOf(f)' = "granted"
  BY <1>1, <1>2 DEF StageOf
<1>4. \A g \in Flows \ {f} : StageOf(g)' = StageOf(g)
  BY <1>1, <1>2, StageLocal
<1> QED BY <1>3, <1>4, OneMoves DEF Life!Redeem

LEMMA ExchangeFailsRefines ==
    ASSUME IInv, NEW f \in Flows, ExchangeFails(f)
    PROVE  Life!Spoil(f)
<1>1. /\ codes[f].n = 1 /\ codes'[f].n = 0 /\ grants[f] = 0 /\ consent[f] = None
      /\ "denied" \notin answer[f] /\ answer[f] # {}
      /\ \A g \in Flows : g # f => codes'[g] = codes[g]
  BY TakeCodeOK DEF ExchangeFails
<1>2. UNCHANGED <<consent, answer, grants>>
  BY DEF ExchangeFails
<1>3. StageOf(f) = "code" /\ StageOf(f)' = "void"
  BY <1>1, <1>2 DEF StageOf
<1>4. \A g \in Flows \ {f} : StageOf(g)' = StageOf(g)
  BY <1>1, <1>2, StageLocal
<1> QED BY <1>3, <1>4, OneMoves DEF Life!Spoil

(* The process forgets consents and codes, and keeps no answer back. *)
LEMMA RestartRefines ==
    ASSUME IInv, Restart
    PROVE  Life!Forget
<1>1. ASSUME NEW f \in Flows
      PROVE  StageOf(f)' = IF StageOf(f) \in {"open", "code"} THEN "void" ELSE StageOf(f)
  <2>1. /\ consent'[f] = None /\ codes'[f].n = 0
        /\ answer'[f] = answer[f] /\ grants'[f] = grants[f]
    BY DEF Restart, NoCode
  <2>2. Worth(f) /\ grants[f] \in Nat /\ codes[f].n \in Nat
    BY Code DEF IInv
  <2>3. StageOf(f) \in {"open", "code"} => "denied" \notin answer[f] /\ answer[f] # {}
    BY <2>2 DEF StageOf, Worth
  <2> QED BY <2>1, <2>2, <2>3 DEF StageOf
<1> QED BY <1>1 DEF Life!Forget, Stage

LEMMA LifeStep ==
    ASSUME IInv, [Next]_vars
    PROVE  [Life!Next]_Stage
<1>1. CASE UNCHANGED vars \/ Tick \/ Elsewhere
  <2>1. UNCHANGED oauth
    BY <1>1 DEF vars, Tick, Elsewhere
  <2> QED BY <2>1, SameStage DEF oauth
<1>2. CASE \/ \E p \in Confirmers, f \in Flows, c \in {"approve", "deny"} : Confirm(p, f, c)
           \/ \E p \in Confirmers : ConfirmFails(p)
  BY <1>2, SameStage DEF Confirm, ConfirmFails
<1>3. CASE Restart
  BY <1>3, RestartRefines DEF Life!Next
<1>4. CASE \E p \in Confirmers :
             ConfirmDeny(p) \/ ConfirmApprove(p) \/ IssueCodeFails(p)
  BY <1>4, ConfirmDenyRefines, ConfirmApproveRefines, IssueCodeFailsRefines
  DEF Life!Next
<1>5. CASE \E f \in Flows : StartConsent(f) \/ Exchange(f) \/ ExchangeFails(f)
  BY <1>5, StartConsentRefines, ExchangeRefines, ExchangeFailsRefines DEF Life!Next
<1> QED BY <1>1, <1>2, <1>3, <1>4, <1>5 DEF Next

(* The OAuth routes implement the life of a consent, for any number of      *)
(* threads and consents (start_browser_consent, confirm, token).            *)
THEOREM LifeFollowed == Spec => FollowsLife
<1>1. Init => Life!Init
  BY DEF Init, Life!Init, Stage, StageOf, NoCode
<1>2. IInv /\ [Next]_vars => [Life!Next]_Stage
  BY LifeStep
<1> QED BY <1>1, <1>2, Invariance, PTL DEF Spec, FollowsLife, Life!Spec
=============================================================================
