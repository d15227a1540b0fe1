---------------------------- MODULE ModelService ----------------------------
(***************************************************************************)
(* What a client of the management API expects of a model: it is down,     *)
(* starting, up or stopping; its port is assigned while it starts, is kept *)
(* as long as it is up or stopping, is returned only when it is down, and  *)
(* belongs to no other model in the meantime.                              *)
(***************************************************************************)
EXTENDS Naturals

CONSTANTS Models, Ports,
          External,   \* models that are always up and have no lease
          WithPort    \* models that need a port to be up

VARIABLES phase, lease

Init ==
  /\ phase = [m \in Models |-> IF m \in External THEN "up" ELSE "down"]
  /\ lease = [m \in Models |-> 0]

Move(m, from, to) ==
  /\ m \notin External
  /\ phase[m] \in from
  /\ phase' = [phase EXCEPT ![m] = to]
  /\ UNCHANGED lease

Start(m) == Move(m, {"down"}, "starting")

Ready(m) ==
  /\ m \in WithPort => lease[m] # 0
  /\ Move(m, {"starting"}, "up")

(* A failed model may be told to stop as well, to clean up.                *)
Stop(m) == Move(m, {"up", "down"}, "stopping")

Down(m) == Move(m, {"starting", "up", "stopping"}, "down")

Assign(m, p) ==
  /\ phase[m] = "starting"
  /\ lease[m] = 0
  /\ \A other \in Models : lease[other] # p
  /\ lease' = [lease EXCEPT ![m] = p]
  /\ UNCHANGED phase

Vacate(m) ==
  /\ phase[m] = "down"
  /\ lease' = [lease EXCEPT ![m] = 0]
  /\ UNCHANGED phase

Next ==
  \E m \in Models :
    \/ Start(m) \/ Ready(m) \/ Stop(m) \/ Down(m) \/ Vacate(m)
    \/ \E p \in Ports : Assign(m, p)

Spec == Init /\ [][Next]_<<phase, lease>>
=============================================================================
