------------------------------ MODULE MCRouter ------------------------------
(* Router on small instances; the .cfg files give the constants.           *)
EXTENDS Router, TLC

=============================================================================
