--------------------------- MODULE MCLoadGenerator ---------------------------
(* LoadGenerator on a small instance: two requests, the first of which may *)
(* be a warm-up.                                                           *)
EXTENDS LoadGenerator

CONSTANTS q1, q2

MCPosition == [q \in Request |-> IF q = q1 THEN 1 ELSE 2]

=============================================================================
