-------------------------- MODULE MCOAuthConsents --------------------------
(* A small instance of OAuthConsents. *)
EXTENDS OAuthConsents, TLC

CONSTANTS a, c1, c2, f1, f2

ThreadSymmetry == Permutations(Confirmers)
=============================================================================
