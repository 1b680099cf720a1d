----------------------------- MODULE SideChannel -----------------------------
(***************************************************************************)
(* What the producer worker P and the decoder worker D exchange besides    *)
(* the KV bytes: the kv_transfer_params, which travel from P through the   *)
(* router to D, and the ZeroMQ side channel of tpu_connector.py.           *)
(*                                                                         *)
(* D opens a fresh DEALER socket for every pull plan and a persistent one  *)
(* for the "done" notifications, so nothing orders the messages of one     *)
(* socket with those of another: each kind of message is a set.            *)
(*                                                                         *)
(* A request and the uuid that request_finished() draws for it are one     *)
(* value here: get_uuid() is 50 random bits and collisions are not         *)
(* modelled.  The block ids in a plan matter only through the test that    *)
(* _prepare_selective_kv applies to them, so a plan carries its kind.      *)
(***************************************************************************)
EXTENDS Naturals, FiniteSets

CONSTANTS
  Req,    \* the requests (and their transfer uuids)
  Plan    \* the kinds of pull plan that D, or anything on the port, sends

AllPlans == {"suffix",     \* a non-empty suffix of the producer's blocks
             "nonsuffix",  \* blocks that are not a suffix of them
             "empty",      \* no block at all
             "malformed"}  \* not a plan: wrong JSON, or another action

ASSUME PlanAssumption == Plan \subseteq AllPlans /\ Plan # {}

VARIABLES
  params,   \* requests whose kv_transfer_params P has returned to the router
  plans,    \* pull plans sent to P and not yet received
  dones,    \* requests whose "pull done" notification is on its way to P
  replies   \* P's replies on their way to D

channelVars == <<params, plans, dones, replies>>

PlanMsg == [req : Req, plan : Plan]

\* What the listener answers to a plan.
Status == {"ready", "pending", "error"}

Reply == [req : Req, status : Status]

ChannelTypeOK ==
  /\ params \subseteq Req
  /\ plans \subseteq PlanMsg
  /\ dones \subseteq Req
  /\ replies \subseteq Reply

ChannelInit ==
  /\ params = {}
  /\ plans = {}
  /\ dones = {}
  /\ replies = {}

=============================================================================
