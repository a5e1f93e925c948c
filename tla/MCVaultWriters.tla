--------------------------- MODULE MCVaultWriters ---------------------------
(* Small instances of VaultWriters for TLC. *)
EXTENDS VaultWriters, TLC

CONSTANTS e1, e2, a, w1, w2

EntrySymmetry == Permutations({e1, e2})
=============================================================================
