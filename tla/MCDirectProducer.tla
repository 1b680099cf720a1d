-------------------------- MODULE MCDirectProducer --------------------------
(* DirectProducer on a small instance; the .cfg file gives the constants.  *)
EXTENDS DirectProducer, TLC

=============================================================================
