--------------------------- MODULE MCOwnedBridge ---------------------------
(***************************************************************************)
(* Instances of OwnedBridge for TLC.                                       *)
(***************************************************************************)
EXTENDS OwnedBridge
=============================================================================
