------------------------------- MODULE MCRelay ------------------------------
(* Model-checking definitions for Relay. *)
EXTENDS Relay
=============================================================================
