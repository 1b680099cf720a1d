---------------------------- MODULE TransferLease ----------------------------
(***************************************************************************)
(* What a producer promises about the blocks of a finished prefill,        *)
(* whatever the tables and threads behind it: the blocks are held for D,   *)
(* are released only once the lease has a reason to end, and D is offered  *)
(* nothing but a copy that was taken while they were held.                 *)
(***************************************************************************)
CONSTANT Req

VARIABLES
  lease,   \* request -> "none", "held", "closing" or "released"
  copied,  \* requests whose blocks were copied while they were held
  served   \* requests whose copy is offered to D

leaseVars == <<lease, copied, served>>

LeaseInit ==
  /\ lease = [r \in Req |-> "none"]
  /\ copied = {}
  /\ served = {}

\* A prefill finishes, and its blocks are kept for D.
Grant(r) ==
  /\ lease[r] = "none"
  /\ lease' = [lease EXCEPT ![r] = "held"]
  /\ UNCHANGED <<copied, served>>

\* A prefill finishes with nothing to transfer.
Decline(r) ==
  /\ lease[r] = "none"
  /\ lease' = [lease EXCEPT ![r] = "released"]
  /\ UNCHANGED <<copied, served>>

\* D is done, the preparation failed, or the deadline has passed.
Close(r) ==
  /\ lease[r] = "held"
  /\ lease' = [lease EXCEPT ![r] = "closing"]
  /\ UNCHANGED <<copied, served>>

\* The blocks go back to the scheduler, several requests at a time.
Release(S) ==
  /\ S # {}
  /\ \A r \in S : lease[r] = "closing"
  /\ lease' = [r \in Req |-> IF r \in S THEN "released" ELSE lease[r]]
  /\ UNCHANGED <<copied, served>>

Copy(r) ==
  /\ lease[r] \in {"held", "closing"}
  /\ copied' = copied \cup {r}
  /\ UNCHANGED <<lease, served>>

Serve(r) ==
  /\ r \in copied
  /\ served' = served \cup {r}
  /\ UNCHANGED <<lease, copied>>

\* A copy that could not be offered is given up.
Discard(r) ==
  /\ r \in copied \ served
  /\ copied' = copied \ {r}
  /\ UNCHANGED <<lease, served>>

LeaseNext ==
  \/ \E r \in Req : \/ Grant(r) \/ Decline(r) \/ Close(r)
                    \/ Copy(r) \/ Serve(r) \/ Discard(r)
  \/ \E S \in SUBSET Req : Release(S)

LeaseSpec == LeaseInit /\ [][LeaseNext]_leaseVars

=============================================================================
