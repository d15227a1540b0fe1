---------------------------- MODULE MCLifecycle ----------------------------
(* Model-checking definitions for Lifecycle. *)
EXTENDS Lifecycle, TLC

CONSTANTS a, b, c

Symmetry == Permutations(Operators) \cup Permutations(Scripts)
=============================================================================
