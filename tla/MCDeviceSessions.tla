-------------------------- MODULE MCDeviceSessions --------------------------
(* Small instances of DeviceSessions for TLC. *)
EXTENDS DeviceSessions, TLC

CONSTANTS c1, c2, d1, d2, r1, r2, k1, k2

Symmetry ==
    Permutations(Codes) \cup Permutations(Devices)
      \cup Permutations(Reqs) \cup Permutations(Clis)

(* What a command that has ended leaves behind is dead, and of the versions *)
(* only matters whether a copy has merged the last one: the view by which   *)
(* TLC tells states apart leaves the rest out.                              *)
Used(c) ==
    IF cpc[c] = "idle" THEN <<"idle">>
    ELSE <<cpc[c], view[c], target[c], casof[c] = version>>

View ==
    <<now, pairing, server, disk, [c \in Clis |-> Used(c)], asof = version,
      via, fresh, asked, reported, undone, counts>>
=============================================================================
