---------------------------- MODULE MCPDTransfer ----------------------------
(* PDTransfer on small instances; the .cfg files give the constants.       *)
EXTENDS PDTransfer, TLC

=============================================================================
