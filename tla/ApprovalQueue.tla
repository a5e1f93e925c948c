---------------------------- MODULE ApprovalQueue ---------------------------
(***************************************************************************)
(* The queue in which a call of an agent waits for a human decision.       *)
(*                                                                         *)
(* One mutex guards the entries, so every operation is one step.  Nothing  *)
(* happens at the moment an entry expires: whoever looks at the queue next *)
(* (a decision, a listing, the waiting call) first marks what has expired. *)
(* A caller has at most one request pending, so an entry is named by its   *)
(* caller.                                                                 *)
(***************************************************************************)
EXTENDS Integers, FiniteSets

CONSTANT Conns  \* the connections calls arrive on, and decisions too

VARIABLES
    entry,  \* the status of each caller's request
    due,    \* the callers whose request has passed its expires_at
    told    \* history: what the human who decided was answered

queue == <<entry, due, told>>

QueueInit ==
    /\ entry = [c \in Conns |-> "none"]
    /\ due = {}
    /\ told = [c \in Conns |-> "none"]

Decisions == {"approved", "denied"}

(* Time passes the expiry of a request. *)
LapseEntry(c) ==
    /\ entry[c] # "none" /\ c \notin due
    /\ due' = due \cup {c}
    /\ UNCHANGED <<entry, told>>

(* Mutant: what is past its expiry expires, decided or not. *)
ExpiredDecided == [c \in Conns |-> IF c \in due THEN "expired" ELSE entry[c]]

(* expire: what is pending past its expiry has expired. *)
Expired ==
    [c \in Conns |-> IF entry[c] = "pending" /\ c \in due THEN "expired" ELSE entry[c]]

(* enqueue *)
Enqueue(c) ==
    /\ entry' = [entry EXCEPT ![c] = "pending"]
    /\ due' = due \ {c}
    /\ told' = [told EXCEPT ![c] = "none"]

(* The caller is gone and its request with it: the code keeps the entry,   *)
(* whose random id nobody uses again.                                      *)
Forget(c) ==
    /\ entry' = [entry EXCEPT ![c] = "none"]
    /\ due' = due \ {c}
    /\ told' = [told EXCEPT ![c] = "none"]

(* pending: the listing marks what has expired, and wakes nobody. *)
List == entry' = Expired /\ UNCHANGED <<due, told>>

(* decide: refused with 409 unless the request is pending after that. *)
Decide(c, verdict) ==
    IF Expired[c] = "pending"
    THEN /\ entry' = [Expired EXCEPT ![c] = verdict]
         /\ told' = [told EXCEPT ![c] = verdict]
         /\ UNCHANGED due
    ELSE List

(* wait: woken by a decision or by its own timeout, it looks again. *)
Decided(c) == Expired[c] \in Decisions \cup {"expired"}

WaitReturns(c) == Decided(c) /\ List

-----------------------------------------------------------------------------
QueueTypeOK ==
    /\ entry \in [Conns -> {"none", "pending", "expired"} \cup Decisions]
    /\ due \subseteq Conns
    /\ told \in [Conns -> {"none"} \cup Decisions]

(* What the human was told is what the waiting call gets, also when the    *)
(* request expires between the decision and the call's waking up.          *)
DecisionStands == \A c \in Conns : told[c] # "none" => entry[c] = told[c]
=============================================================================
