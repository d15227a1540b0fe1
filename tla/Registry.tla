------------------------------ MODULE Registry ------------------------------
(***************************************************************************)
(* Under which names the models of the configuration can be found.         *)
(* Validate (internal/config/config.go) goes through them in the order of  *)
(* the file and refuses some clashes of names; NewManager                  *)
(* (internal/models/manager.go) goes through them in the same order and    *)
(* puts each into one map under its name and its aliases, whatever was     *)
(* there before.  GetModel and ListModels read the map.                    *)
(*                                                                         *)
(* A configuration is revealed while Validate reads it.  All else that     *)
(* makes one unusable is one way for Load to fail.                         *)
(***************************************************************************)
EXTENDS Naturals, Sequences, FiniteSets

CONSTANTS
  Strings,     \* what a configuration uses as names and aliases
  MaxModels,   \* how many models it has at most
  MaxAliases,  \* how many aliases one of them has at most
  Kinds        \* the sorts of models there are

(* What tells models apart here: an external one has an endpoint and no    *)
(* start script; of the others, some have a stop script, and the health of *)
(* some is checked.                                                        *)
ASSUME RegistryAssumption ==
  /\ MaxModels \in Nat /\ MaxAliases \in Nat
  /\ Kinds \subseteq SUBSET {"external", "stopScript", "healthCheck"}

VARIABLES
  phase,     \* what is going on
  config,    \* Config.Models, as far as Validate has got
  indexed,   \* how many of them NewManager has indexed
  index      \* Manager.models: the number of the model a string stands for

registryVars == <<phase, config, indexed, index>>

Entries == [name : Strings, aliases : SUBSET Strings, kind : Kinds]

NoModel == 0
Models == 1 .. indexed
Is(m, what) == what \in config[m].kind

RegistryInit ==
  /\ phase = "load"
  /\ config = <<>> /\ indexed = 0
  /\ index = [k \in Strings |-> NoModel]

-----------------------------------------------------------------------------
NamesUpTo(n) == {config[m].name : m \in 1 .. n}

(* The aliases of a model are compared with the names up to its own, not   *)
(* with those of later models, and not with aliases.                       *)
Accepts(e) ==
  /\ e.name \notin NamesUpTo(Len(config))
  /\ e.aliases \cap (NamesUpTo(Len(config)) \cup {e.name}) = {}

LoadModel(e) ==
  /\ phase = "load" /\ Len(config) < MaxModels /\ Cardinality(e.aliases) <= MaxAliases
  /\ Accepts(e)
  /\ config' = Append(config, e)
  /\ UNCHANGED <<phase, indexed, index>>

Clash(e) ==
  /\ phase = "load" /\ Len(config) < MaxModels /\ Cardinality(e.aliases) <= MaxAliases
  /\ ~Accepts(e)
  /\ phase' = "refused"
  /\ UNCHANGED <<config, indexed, index>>

(* The file, the port, a provider of authentication or a model is no good. *)
LoadFails ==
  /\ phase = "load"
  /\ phase' = "refused"
  /\ UNCHANGED <<config, indexed, index>>

LoadEnds ==
  /\ phase = "load"
  /\ phase' = "index"
  /\ UNCHANGED <<config, indexed, index>>

(* Mutant: what is taken stays taken. *)
IndexFirstComeFirstServed ==
  /\ phase = "index" /\ indexed < Len(config)
  /\ indexed' = indexed + 1
  /\ LET e == config[indexed + 1] IN
     index' = [k \in Strings |->
                IF k \in {e.name} \cup e.aliases /\ index[k] = NoModel
                THEN indexed + 1 ELSE index[k]]
  /\ UNCHANGED <<phase, config>>

IndexModel ==
  /\ phase = "index" /\ indexed < Len(config)
  /\ indexed' = indexed + 1
  /\ LET e == config[indexed + 1] IN
     index' = [k \in Strings |-> IF k \in {e.name} \cup e.aliases THEN indexed + 1 ELSE index[k]]
  /\ UNCHANGED <<phase, config>>

IndexEnds ==
  /\ phase = "index" /\ indexed = Len(config)
  /\ phase' = "ready"
  /\ UNCHANGED <<config, indexed, index>>

RegistryNext ==
  \/ \E e \in Entries : LoadModel(e) \/ Clash(e)
  \/ LoadFails \/ LoadEnds \/ IndexModel \/ IndexEnds

RegistrySpec == RegistryInit /\ [][RegistryNext]_registryVars

(* ListModels visits the map in any order and drops what it has seen.      *)
ListModels == {index[k] : k \in Strings} \ {NoModel}
-----------------------------------------------------------------------------
(* Every variable has its type.                                            *)
RegistryTypeOK ==
  /\ phase \in {"load", "refused", "index", "ready"}
  /\ config \in Seq(Entries)
  /\ indexed \in 0 .. Len(config)
  /\ index \in [Strings -> 0 .. indexed]

(* Whatever aliases clash, a model that has been indexed is found under    *)
(* its own name: the checks that Validate makes while it reads and the     *)
(* order in which NewManager overwrites fit together, so that Stop and     *)
(* Start, which are given names, reach the model that was meant            *)
(* (config.go:260-281, manager.go:47-56).                                  *)
OwnNameIndexed == \A m \in Models : index[config[m].name] = m
=============================================================================
