----------------------------- MODULE MCSecrets -----------------------------
(* Two processes over two names; the environment may hold the first key or a  *)
(* key that was never used.                                                   *)
EXTENDS Secrets, TLC

CONSTANTS p1, p2, n1, n2, v1

MCProcs   == {p1, p2}
MCNames   == {n1, n2}
MCValues  == {v1}
MCEnvKeys == {0, 1, 9}
MCSymmetry == Permutations(MCProcs) \cup Permutations(MCNames)
=============================================================================
