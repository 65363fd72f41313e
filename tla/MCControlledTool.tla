-------------------------- MODULE MCControlledTool --------------------------
(* Instances of ControlledTool for TLC. *)
EXTENDS ControlledTool
=============================================================================
