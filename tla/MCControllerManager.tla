-------------------------- MODULE MCControllerManager --------------------------
(***************************************************************************)
(* Instances of ControllerManager for TLC.                                 *)
(***************************************************************************)
EXTENDS ControllerManager

Controllers == {"cluster", "node"}
===============================================================================
