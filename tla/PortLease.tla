----------------------------- MODULE PortLease -----------------------------
(***************************************************************************)
(* What the port allocator promises its callers: a model is without a port *)
(* or has exactly one, two models never have the same one, and leases      *)
(* change one model at a time, between "none" and "a port".  A model is    *)
(* never moved from one port to another while it holds the first.          *)
(***************************************************************************)
EXTENDS Naturals

CONSTANTS Models, Ports

VARIABLE holder     \* the port each model leases, 0 for none

Init == holder = [m \in Models |-> 0]

Grant(m, p) ==
  /\ holder[m] = 0
  /\ \A other \in Models : holder[other] # p
  /\ holder' = [holder EXCEPT ![m] = p]

Return(m) ==
  /\ holder[m] # 0
  /\ holder' = [holder EXCEPT ![m] = 0]

Next == \E m \in Models : Return(m) \/ \E p \in Ports : Grant(m, p)

Spec == Init /\ [][Next]_holder
=============================================================================
