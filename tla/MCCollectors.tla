---------------------------- MODULE MCCollectors ----------------------------
(***************************************************************************)
(* Small instances of the collectors that compare counters. Each has a     *)
(* state of its own and none reads another's, so a behaviour is one of one *)
(* collector: the others do not move.                                      *)
(***************************************************************************)
EXTENDS NetworkRates, DiskRates, DockerCollector

VARIABLE part

MCInit ==
  /\ part \in {"network", "disk", "docker"}
  /\ Init /\ DiskInit /\ DockerInit
  /\ part # "network" => up = {} /\ count = [i \in Iface |-> 0]
  /\ part # "docker" => available

MCNext ==
  /\ UNCHANGED part
  /\ IF part = "network" THEN Next ELSE UNCHANGED vars
  /\ IF part = "disk" THEN DiskNext ELSE UNCHANGED diskVars
  /\ IF part = "docker" THEN DockerNext ELSE UNCHANGED dockerVars

MCSpec == MCInit /\ [][MCNext]_<<part, vars, diskVars, dockerVars>>

Names == Permutations(Iface)
=============================================================================
