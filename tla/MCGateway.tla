----------------------------- MODULE MCGateway ------------------------------
(* Model-checking definitions for Gateway: one model with an alias, or two. *)
EXTENDS Gateway

CONSTANTS a, b

PlainNames == {"a"}
PlainModelOf == [n \in PlainNames |-> a]
PlainNameOf == [m \in {a} |-> "a"]

AliasedNames == {"a", "alias-of-a"}
AliasedModelOf == [n \in AliasedNames |-> a]
AliasedNameOf == [m \in {a} |-> "a"]

TwoNames == AliasedNames \cup {"b"}
TwoModelOf == [n \in TwoNames |-> IF n = "b" THEN b ELSE a]
TwoNameOf == [m \in {a, b} |-> IF m = b THEN "b" ELSE "a"]
=============================================================================
