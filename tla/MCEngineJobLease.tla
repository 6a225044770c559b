-------------------------- MODULE MCEngineJobLease --------------------------
(* Small instances of EngineJobLease for TLC. *)
EXTENDS EngineJobLease, TLC

CONSTANTS w1, w2, w3, t1, t2, t3

\* Workers and tokens are interchangeable when all workers may crash.
Symmetry == Permutations(Workers) \cup Permutations(Tokens)
=============================================================================
