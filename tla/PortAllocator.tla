--------------------------- MODULE PortAllocator ---------------------------
(***************************************************************************)
(* The port allocator of the model manager (internal/models/port.go).      *)
(*                                                                         *)
(* Every method takes the allocator's mutex for its whole body, so each is *)
(* one step.  The operators below describe those steps as functions of the *)
(* lease table; the module Lifecycle takes them at the points where the    *)
(* manager calls them.                                                     *)
(***************************************************************************)
EXTENDS Naturals, FiniteSetsExt

CONSTANTS Models,    \* the names of the configured models
          Ports,     \* startPort .. endPort-1
          NoModel    \* the absence of an entry in pa.allocated

ASSUME PortsAssumption == Ports \subseteq Nat \ {0} /\ IsFiniteSet(Ports)
ASSUME NoModelAssumption == NoModel \notin Models

VARIABLE allocated   \* pa.allocated: the model that leases each port

(* The value of ErrNoPortsAvailable, and of a model's port before SetPort. *)
NoPort == 0

NoLeases == [p \in Ports |-> NoModel]

HeldBy(m) == {p \in Ports : allocated[p] = m}

(* The ports Allocate may hand out when isPortAvailable refuses `busy'.    *)
Candidates(busy) == {p \in Ports : allocated[p] = NoModel} \ busy

(* Mutant: the lease a model has is not looked for. *)
AllocateForgetsLease(m, busy) ==
  IF Candidates(busy) # {} THEN Min(Candidates(busy)) ELSE NoPort

(* Mutant: `exists' is not tested. *)
AllocateIgnoresLeases(m, busy) ==
  IF HeldBy(m) # {} THEN CHOOSE p \in HeldBy(m) : TRUE
  ELSE IF Ports \ busy # {} THEN Min(Ports \ busy) ELSE NoPort

(* Result of Allocate: the lease the model already has, else the lowest    *)
(* candidate, else ErrNoPortsAvailable.                                    *)
AllocateResult(m, busy) ==
  IF HeldBy(m) # {} THEN CHOOSE p \in HeldBy(m) : TRUE
  ELSE IF Candidates(busy) # {} THEN Min(Candidates(busy)) ELSE NoPort

Grant(m, p) ==
  allocated' = IF p = NoPort THEN allocated ELSE [allocated EXCEPT ![p] = m]

(* Release deletes the first entry of the model that it meets, if any.     *)
Release(m) ==
  IF HeldBy(m) = {}
  THEN UNCHANGED allocated
  ELSE \E p \in HeldBy(m) : allocated' = [allocated EXCEPT ![p] = NoModel]

-----------------------------------------------------------------------------
AllocatorTypeOK == allocated \in [Ports -> Models \cup {NoModel}]

(* A model never holds two leases, however its Start, Stop and Restart     *)
(* calls interleave: Release gives back one port, so a second lease would  *)
(* never be returned (port.go:37-42).                                      *)
OnePortPerModel ==
  \A p, q \in Ports : allocated[p] = allocated[q] /\ allocated[p] # NoModel => p = q
=============================================================================
