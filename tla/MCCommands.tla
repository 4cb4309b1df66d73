------------------------------ MODULE MCCommands ------------------------------
(***************************************************************************)
(* Instances of Commands for TLC, and the check that it implements         *)
(* CommandPromise.                                                         *)
(***************************************************************************)
EXTENDS CommandsRefinement
===============================================================================
