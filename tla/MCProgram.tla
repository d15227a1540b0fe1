----------------------------- MODULE MCProgram ------------------------------
(* Instances of Program for TLC. *)
EXTENDS Program
=============================================================================
