-------------------------- MODULE MCDirectTransfer --------------------------
(* DirectTransfer on small instances; the .cfg file gives the constants.   *)
EXTENDS DirectTransfer, TLC

=============================================================================
