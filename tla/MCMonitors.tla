----------------------------- MODULE MCMonitors -----------------------------
(* Model-checking definitions for Monitors: the model a has an alias. *)
EXTENDS Monitors

CONSTANTS a

PlainNames == {"a"}
PlainModelOf == [n \in PlainNames |-> a]

AliasedNames == {"a", "alias-of-a"}
AliasedModelOf == [n \in AliasedNames |-> a]
=============================================================================
