------------------------------- MODULE Reseal -------------------------------
(***************************************************************************)
(* What re-encryption promises, without files, journals or crashes: every  *)
(* entry always has one readable ciphertext; it is resealed one entry at a *)
(* time and never changes its plaintext; and a command that has reported   *)
(* success is never undone.                                                *)
(***************************************************************************)
EXTENDS Naturals

CONSTANTS Entries, Procs, None

VARIABLES
    content,  \* the ciphertext a reader of the entry gets in the end
    ok        \* the recipients a process has reported success for, or None

Init ==
    /\ content = [e \in Entries |-> [val |-> 0, rcp |-> 0, run |-> 0]]
    /\ ok = [p \in Procs |-> None]

SealedFor(k) == \A e \in Entries : content[e].rcp >= k

(* One entry is sealed anew, for recipients no older than those a command   *)
(* has reported.                                                           *)
ResealOne(e) ==
    /\ \A f \in Entries \ {e} : content'[f] = content[f]
    /\ content'[e].val = content[e].val
    /\ UNCHANGED ok
    /\ \A p \in Procs : ok[p] # None => content'[e].rcp >= ok[p]

(* A command reports success, or a process starts another one. *)
Report(p) ==
    /\ \A q \in Procs \ {p} : ok'[q] = ok[q]
    /\ ok'[p] # None => SealedFor(ok'[p])
    /\ UNCHANGED content

Next == \/ \E e \in Entries : ResealOne(e)
        \/ \E p \in Procs : Report(p)

Spec == Init /\ [][Next]_<<content, ok>>
=============================================================================
