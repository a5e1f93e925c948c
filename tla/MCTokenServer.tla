--------------------------- MODULE MCTokenServer ---------------------------
(* A small instance of TokenServer. *)
EXTENDS TokenServer

CONSTANTS a, b, p, r
=============================================================================
