----------------------------- MODULE ConsentLife -----------------------------
(***************************************************************************)
(* What the OAuth routes promise about a consent, without clocks, threads  *)
(* or the registry: it is answered at most once, an approval is one code,  *)
(* a code is redeemed at most once, and what has ended stays ended.        *)
(***************************************************************************)
CONSTANT Flows

VARIABLE stage   \* "new", "open", "code", "granted", "denied" or "void"

Init == stage = [f \in Flows |-> "new"]

Move(f, from, to) ==
    /\ stage[f] = from
    /\ stage' = [stage EXCEPT ![f] = to]

(* A consent is asked for; open ones that nobody answered in time lapse. *)
Ask(f) ==
    /\ stage[f] = "new"
    /\ \E S \in SUBSET {g \in Flows : stage[g] = "open"} :
        stage' = [g \in Flows |-> IF g = f THEN "open"
                                  ELSE IF g \in S THEN "void" ELSE stage[g]]

Approve(f) == Move(f, "open", "code")
Deny(f) == Move(f, "open", "denied")
Lapse(f) == Move(f, "open", "void")
Redeem(f) == Move(f, "code", "granted")
Spoil(f) == Move(f, "code", "void")

(* The process ends: questions and codes are gone, answers are not. *)
Forget ==
    stage' = [f \in Flows |-> IF stage[f] \in {"open", "code"} THEN "void" ELSE stage[f]]

Next ==
    \/ \E f \in Flows :
         Ask(f) \/ Approve(f) \/ Deny(f) \/ Lapse(f) \/ Redeem(f) \/ Spoil(f)
    \/ Forget

Spec == Init /\ [][Next]_stage
=============================================================================
