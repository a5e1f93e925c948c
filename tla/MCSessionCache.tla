--------------------------- MODULE MCSessionCache ---------------------------
(* Model values for the runs of SessionCache.  The processes are alike. *)
EXTENDS SessionCache, TLC

CONSTANTS p1, p2

ProcSymmetry == Permutations(Procs)

(* What a process still uses of its local and history variables where it   *)
(* stands: the rest is dead until it is written again, and the view by     *)
(* which TLC tells states apart leaves it out.                             *)
Revoking(p) == pc[p] \in {"rv_session", "rv_wrap", "rv_identity"}
Loading(p) == pc[p] \in {"li_meta", "li_decrypt", "li_touch", "lp_decrypt", "lp_touch"}
Holding(p) ==
    \/ Loading(p)
    \/ pc[p] \in {"sp_wrap", "sp_setwrap", "sp_put", "si_meta", "si_wrap",
                  "si_setwrap", "si_put", "mig_wrap", "mig_setwrap", "mig_put"}

Used(p) ==
    <<pc[p],
      IF pc[p] = "idle" THEN "none" ELSE cmd[p],
      IF Holding(p) THEN rec[p] ELSE Blank,
      IF pc[p] \in {"li_decrypt", "li_touch", "li_touch_session"}
      THEN meta[p] ELSE None,
      IF Holding(p) \/ pc[p] = "li_touch_session" THEN t[p] ELSE 0,
      IF Revoking(p) THEN <<then[p], mark[p]>> ELSE <<"idle", 0>>,
      IF Loading(p) THEN floor[p] ELSE 0>>

View == <<now, keyring, [p \in Procs |-> Used(p)], saves, locked, counts>>
=============================================================================
