------------------------------ MODULE MCTokens ------------------------------
(* Symmetry of the keys of Tokens; sound for the safety runs only. *)
EXTENDS Tokens, TLC

Keys == Permutations(Pair) \cup Permutations(Request)
=============================================================================
