------------------------- MODULE MCReencryptJournal -------------------------
(* Small instances of ReencryptJournal for TLC. *)
EXTENDS ReencryptJournal

CONSTANTS e1, e2, a, b
=============================================================================
