------------------------------ MODULE MCStore -------------------------------
(* Store under arbitrary callers, small enough for TLC.                       *)
EXTENDS Store, TLC

CONSTANTS w0, g1, s1, k1, k2

(* Tokens are interchangeable. *)
Symmetric == Permutations(Tokens)
=============================================================================
