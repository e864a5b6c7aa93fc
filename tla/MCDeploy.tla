------------------------------ MODULE MCDeploy ------------------------------
(***************************************************************************)
(* Small instances of the two scripts of the deployment. They share no     *)
(* state that decides about either, so a behaviour is one of one script.   *)
(***************************************************************************)
EXTENDS StartServer, Preinstall

VARIABLE program  \* the script that moves

MCInit ==
  /\ program \in {"preinstall", "start"}
  /\ Init /\ PreinstallInit
  /\ program = "preinstall" => agent

MCNext ==
  /\ UNCHANGED program
  /\ IF program = "start" THEN Next ELSE UNCHANGED vars
  /\ IF program = "preinstall" THEN PreinstallNext ELSE UNCHANGED preinstallVars

\* The fairness of StartServer, of the script that moves.
MCFairness ==
  /\ WF_vars(program = "start" /\ Script)
  /\ \A r \in Tunnel : WF_vars(program = "start" /\ OpenLog(r))

MCSpec == MCInit /\ [][MCNext]_<<program, vars, preinstallVars>> /\ MCFairness
=============================================================================
