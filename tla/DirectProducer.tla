--------------------------- MODULE DirectProducer ---------------------------
(***************************************************************************)
(* The producer when selective pull is off: it gathers the blocks of a     *)
(* finished prefill at once and offers them to D without waiting for a     *)
(* plan.  Two ways of doing so share TPUConnectorWorker's tables:          *)
(*                                                                         *)
(*   direct   the engine thread registers the gathered KV and calls        *)
(*            await_pull itself;                                           *)
(*   d2h      the engine thread gathers, and a job of kv_d2h_executor      *)
(*            takes a buffer of the host pool, copies, registers the       *)
(*            request and calls await_pull.                                *)
(*                                                                         *)
(* The gather is over before the engine's step goes on, so what is offered *)
(* cannot be overwritten; what can go wrong is who owns a host buffer and  *)
(* when a lease ends.  An action is one lock section with the code up to   *)
(* the next one; a lease's deadline is an event of its own.                *)
(***************************************************************************)
EXTENDS Naturals, FiniteSets

CONSTANTS
  Req,           \* the requests (and their transfer uuids)
  Modes,         \* the values of d2h that deployments choose from
  Buffer,        \* the buffers of HostKVPool
  NoBuffer,      \* buffer_idx = -1
  Workers        \* max_workers of kv_d2h_executor

ASSUME DirectAssumption ==
  /\ Modes \subseteq BOOLEAN
  /\ NoBuffer \notin Buffer
  /\ Workers \in Nat \ {0}

VARIABLES
  d2h,            \* get_enable_d2h_transfer() and not multi_host: a setting
  sched,          \* request -> "active", "held" (delay_free_blocks) or "freed"
  reqs_to_send,   \* finished requests the worker has not been told of
  engine,         \* where the engine's step is
  meta,           \* metadata.reqs_to_send still to be processed this step
  doneSending,    \* the requests get_finished() just reported
  overdue,        \* held requests whose expiration_time has passed
  dones,          \* requests whose "pull done" is on its way from D
  reqs_wait_pull, \* request -> "absent", "timed" or "finished" (-1)
  buffer_index,   \* the buffer that a reqs_wait_pull entry names
  uuid_map,       \* kv_pull_uuid_to_req_id_map
  pool,           \* host_kv_pool: the buffers that get_buffer() may return
  stage,          \* where the request's transfer is
  taken,          \* the buffer that a request's job has taken
  offered         \* requests whose KV was given to await_pull

engineVars == <<sched, reqs_to_send, engine, meta, doneSending>>
entryVars  == <<reqs_wait_pull, buffer_index, uuid_map, pool>>
jobVars    == <<stage, taken, offered>>
vars == <<d2h, engineVars, overdue, dones, entryVars, jobVars>>

-----------------------------------------------------------------------------

\* "queued" to "register" are the steps of a job, "await" is the call of
\* await_pull, and "raised" a job whose future nobody looks at.
Stage == {"none", "queued", "start", "copy", "register", "await", "over",
          "raised"}

TypeOK ==
  /\ d2h \in BOOLEAN
  /\ sched \in [Req -> {"active", "held", "freed"}]
  /\ reqs_to_send \subseteq Req
  /\ engine \in {"schedule", "load", "finish", "update"}
  /\ meta \subseteq Req
  /\ doneSending \subseteq Req
  /\ overdue \subseteq Req
  /\ dones \subseteq Req
  /\ reqs_wait_pull \in [Req -> {"absent", "timed", "finished"}]
  /\ buffer_index \in [Req -> Buffer \cup {NoBuffer}]
  /\ uuid_map \subseteq Req
  /\ pool \subseteq Buffer
  /\ stage \in [Req -> Stage]
  /\ taken \in [Req -> Buffer \cup {NoBuffer}]
  /\ offered \subseteq Req

Init ==
  /\ d2h \in Modes
  /\ sched = [r \in Req |-> "active"]
  /\ reqs_to_send = {}
  /\ engine = "schedule"
  /\ meta = {}
  /\ doneSending = {}
  /\ overdue = {}
  /\ dones = {}
  /\ reqs_wait_pull = [r \in Req |-> "absent"]
  /\ buffer_index = [r \in Req |-> NoBuffer]
  /\ uuid_map = {}
  /\ pool = IF d2h THEN Buffer ELSE {}
  /\ stage = [r \in Req |-> "none"]
  /\ taken = [r \in Req |-> NoBuffer]
  /\ offered = {}

Tracked == {r \in Req : reqs_wait_pull[r] # "absent"}

\* The buffers of a set of entries, for return_buffer(); none has index -1.
BuffersOf(S) == {buffer_index[r] : r \in S} \ {NoBuffer}

-----------------------------------------------------------------------------
(* The engine.                                                             *)

\* build_connector_meta()
BuildConnectorMeta ==
  /\ engine = "schedule"
  /\ engine' = "load"
  /\ meta' = reqs_to_send
  /\ reqs_to_send' = {}
  /\ UNCHANGED <<d2h, sched, doneSending, overdue, dones, entryVars, jobVars>>

\* The reqs_wait_pull entry of a request, with the buffer it names.
Register(r, b) ==
  /\ reqs_wait_pull' = [reqs_wait_pull EXCEPT ![r] = "timed"]
  /\ buffer_index' = [buffer_index EXCEPT ![r] = b]
  /\ uuid_map' = uuid_map \cup {r}
  /\ UNCHANGED pool

\* _prepare_kv_and_wait(), direct: gather and register; await_pull is next.
PrepareDirect(r) ==
  /\ ~ d2h
  /\ engine = "load"
  /\ r \in meta
  /\ \A s \in Req : stage[s] # "await"
  /\ meta' = meta \ {r}
  /\ Register(r, NoBuffer)
  /\ stage' = [stage EXCEPT ![r] = "await"]
  /\ UNCHANGED <<d2h, sched, reqs_to_send, engine, doneSending, overdue, dones,
                 taken, offered>>

\* _prepare_kv_and_wait(), D2H: gather and submit the job.
PrepareD2H(r) ==
  /\ d2h
  /\ engine = "load"
  /\ r \in meta
  /\ meta' = meta \ {r}
  /\ stage' = [stage EXCEPT ![r] = "queued"]
  /\ UNCHANGED <<d2h, sched, reqs_to_send, engine, doneSending, overdue, dones,
                 entryVars, taken, offered>>

\* The model's forward; direct registrations have been offered before it.
Forward ==
  /\ engine = "load"
  /\ meta = {}
  /\ d2h \/ \A s \in Req : stage[s] # "await"
  /\ engine' = "finish"
  /\ UNCHANGED <<d2h, sched, reqs_to_send, meta, doneSending, overdue, dones,
                 entryVars, jobVars>>

\* Mutant: every entry is swept, whatever its expires.
ExpiredAlways == Tracked

\* The entries whose expires is behind the clock: -1, or the lease deadline.
Expired == {r \in Req : \/ reqs_wait_pull[r] = "finished"
                        \/ reqs_wait_pull[r] = "timed" /\ r \in overdue}

\* Mutant: the sweep deletes the entries and forgets their buffers.
ReturnedNone == {}

\* The buffers that a sweep gives back to the pool.
Returned == BuffersOf(Expired)

\* Mutant: the early return looks at the uuid map instead of the entries.
NothingMapped == uuid_map = {}

\* get_finished() has nothing to look at.
NothingRegistered == Tracked = {}

\* get_finished(): sweep every expired entry, its buffer and its uuid.
GetFinished ==
  /\ engine = "finish"
  /\ ~ NothingRegistered
  /\ engine' = "update"
  /\ doneSending' = Expired
  /\ reqs_wait_pull' = [r \in Req |-> IF r \in Expired THEN "absent"
                                      ELSE reqs_wait_pull[r]]
  /\ buffer_index' = [r \in Req |-> IF r \in Expired THEN NoBuffer
                                    ELSE buffer_index[r]]
  /\ uuid_map' = uuid_map \ Expired
  /\ pool' = pool \cup Returned
  /\ UNCHANGED <<d2h, sched, reqs_to_send, meta, overdue, dones, jobVars>>

\* get_finished() returns early when nothing is registered.
GetFinishedEarlyReturn ==
  /\ engine = "finish"
  /\ NothingRegistered
  /\ engine' = "update"
  /\ doneSending' = {}
  /\ UNCHANGED <<d2h, sched, reqs_to_send, meta, overdue, dones, entryVars,
                 jobVars>>

\* request_finished(): a length-capped prefill with a full block is held.
RequestFinished(r) ==
  /\ engine = "update"
  /\ sched[r] = "active"
  /\ sched' = [sched EXCEPT ![r] = "held"]
  /\ reqs_to_send' = reqs_to_send \cup {r}
  /\ UNCHANGED <<d2h, engine, meta, doneSending, overdue, dones, entryVars,
                 jobVars>>

\* request_finished() for an aborted prefill, or one with no full block.
RequestFinishedNoTransfer(r) ==
  /\ engine = "update"
  /\ sched[r] = "active"
  /\ sched' = [sched EXCEPT ![r] = "freed"]
  /\ UNCHANGED <<d2h, reqs_to_send, engine, meta, doneSending, overdue, dones,
                 entryVars, jobVars>>

\* vLLM frees the blocks of the requests that get_finished() reported.
FreeDoneSending ==
  /\ engine = "update"
  /\ engine' = "schedule"
  /\ sched' = [r \in Req |-> IF r \in doneSending THEN "freed" ELSE sched[r]]
  /\ doneSending' = {}
  /\ overdue' = overdue \ doneSending
  /\ UNCHANGED <<d2h, reqs_to_send, meta, dones, entryVars, jobVars>>

-----------------------------------------------------------------------------
(* The D2H job: _async_d2h_and_transfer().                                 *)

Running == {r \in Req : stage[r] \in {"start", "copy", "register", "await"}}

\* A worker of kv_d2h_executor takes the job up.
StartJob(r) ==
  /\ stage[r] = "queued"
  /\ Cardinality(Running) < Workers
  /\ stage' = [stage EXCEPT ![r] = "start"]
  /\ UNCHANGED <<d2h, engineVars, overdue, dones, entryVars, taken, offered>>

\* host_kv_pool.get_buffer(), which waits for a buffer.
GetBuffer(r) ==
  /\ stage[r] = "start"
  /\ \E b \in pool :
       /\ pool' = pool \ {b}
       /\ taken' = [taken EXCEPT ![r] = b]
  /\ stage' = [stage EXCEPT ![r] = "copy"]
  /\ UNCHANGED <<d2h, engineVars, overdue, dones, reqs_wait_pull, buffer_index,
                 uuid_map, offered>>

\* The copy is ready, or the wait for it has taken the pull timeout.
CopyToHost(r) ==
  /\ stage[r] = "copy"
  /\ stage' = [stage EXCEPT ![r] = "register"]
  /\ UNCHANGED <<d2h, engineVars, overdue, dones, entryVars, taken, offered>>

\* copy_to_host() raises: the job ends before it registers the request.
CopyRaises(r) ==
  /\ stage[r] = "copy"
  /\ stage' = [stage EXCEPT ![r] = "raised"]
  /\ UNCHANGED <<d2h, engineVars, overdue, dones, entryVars, taken, offered>>

\* The job registers the request, and with it the buffer.
RegisterCopied(r) ==
  /\ stage[r] = "register"
  /\ Register(r, taken[r])
  /\ taken' = [taken EXCEPT ![r] = NoBuffer]
  /\ stage' = [stage EXCEPT ![r] = "await"]
  /\ UNCHANGED <<d2h, engineVars, overdue, dones, offered>>

\* kv_transfer_server.await_pull(), by the engine or by the job.
AwaitPull(r) ==
  /\ stage[r] = "await"
  /\ stage' = [stage EXCEPT ![r] = "over"]
  /\ offered' = offered \cup {r}
  /\ UNCHANGED <<d2h, engineVars, overdue, dones, entryVars, taken>>

-----------------------------------------------------------------------------
(* The listener, the clock and D.                                          *)

\* Mutant: the entry keeps the index of the buffer that was returned.
IndexKept(r) == buffer_index

\* An entry whose buffer has been returned names none.
IndexCleared(r) == [buffer_index EXCEPT ![r] = NoBuffer]

\* _handle_pull_done(): a notification for an unknown uuid is dropped.
HandlePullDone(r) ==
  /\ r \in dones
  /\ dones' = dones \ {r}
  /\ IF r \in uuid_map /\ r \in Tracked
     THEN /\ pool' = pool \cup BuffersOf({r})
          /\ reqs_wait_pull' = [reqs_wait_pull EXCEPT ![r] = "finished"]
          /\ buffer_index' = IndexCleared(r)
          /\ uuid_map' = uuid_map \ {r}
     ELSE UNCHANGED entryVars
  /\ UNCHANGED <<d2h, engineVars, overdue, jobVars>>

\* time.perf_counter() passes the request's expiration_time.
LeaseDeadline(r) ==
  /\ sched[r] = "held"
  /\ r \notin overdue
  /\ overdue' = overdue \cup {r}
  /\ UNCHANGED <<d2h, engineVars, dones, entryVars, jobVars>>

\* D notifies whenever it likes, also before the request is registered.
SendDone(r) ==
  /\ sched[r] # "active"
  /\ dones' = dones \cup {r}
  /\ UNCHANGED <<d2h, engineVars, overdue, entryVars, jobVars>>

-----------------------------------------------------------------------------

EngineStep ==
  \/ BuildConnectorMeta
  \/ \E r \in Req : PrepareDirect(r) \/ PrepareD2H(r)
  \/ Forward
  \/ GetFinished
  \/ GetFinishedEarlyReturn
  \/ FreeDoneSending

JobStep(r) ==
  \/ GetBuffer(r)
  \/ CopyToHost(r)
  \/ CopyRaises(r)
  \/ RegisterCopied(r)
  \/ AwaitPull(r)

Finishing(r) == RequestFinished(r) \/ RequestFinishedNoTransfer(r)

Next ==
  \/ EngineStep
  \/ \E r \in Req : \/ StartJob(r) \/ JobStep(r) \/ Finishing(r)
                    \/ HandlePullDone(r) \/ LeaseDeadline(r) \/ SendDone(r)

Spec == Init /\ [][Next]_vars

\* The engine keeps stepping, the clock moves, the executor takes up every
\* job it has a worker for, and a job that waits for a buffer gets one if
\* buffers keep coming back.  D owes no notification.
Fairness ==
  /\ WF_vars(EngineStep)
  /\ \A r \in Req : /\ SF_vars(StartJob(r))
                    /\ SF_vars(JobStep(r))
                    /\ WF_vars(LeaseDeadline(r))

FairSpec == Spec /\ Fairness

-----------------------------------------------------------------------------
(* Properties.                                                             *)

LeaseOf(r) ==
  IF sched[r] = "active" THEN "none"
  ELSE IF sched[r] = "freed" \/ r \in doneSending THEN "released"
  ELSE IF r \in overdue \/ reqs_wait_pull[r] = "finished" THEN "closing"
  ELSE "held"

Lease == INSTANCE TransferLease WITH
  lease  <- [r \in Req |-> LeaseOf(r)],
  copied <- {r \in Req : stage[r] # "none"},
  served <- offered

\* The gather is taken while the blocks are held, D is offered only that, and
\* the blocks go back only after a notification or the deadline, although a
\* D2H job may register its request long after either.
ImplementsLease == Lease!LeaseSpec

\* A buffer of the host pool has one owner: the pool, one job or one entry.
\* Notifications, the deadline and late registrations never return it twice
\* or hand it to two transfers.
BufferHasOneOwner ==
  \A b \in Buffer :
    LET jobs    == {r \in Req : taken[r] = b}
        entries == {r \in Tracked : buffer_index[r] = b}
        free    == {b} \cap pool
    IN Cardinality(jobs) + Cardinality(entries) + Cardinality(free) <= 1

\* The requests whose copy raised.
Raised == {r \in Req : stage[r] = "raised"}

\* No buffer is lost, unless a copy raised: what is not in the pool belongs
\* to a job that still runs or to an entry that get_finished() will sweep.
NoBufferLost ==
  d2h => Buffer \ pool \subseteq {taken[r] : r \in Running \cup Raised}
                                \cup BuffersOf(Tracked)

\* A request is reported once, and only while its blocks are held, although
\* its job may register it after its deadline or after D's notification.
NoDoubleRelease ==
  /\ Tracked \cap doneSending = {}
  /\ \A r \in Tracked \cup doneSending : sched[r] = "held"

\* Blocks whose release was delayed are released in the end, also when the
\* jobs outnumber the buffers, unless a copy has raised and taken its buffer
\* with it.
HeldIsReleased ==
  \A r \in Req : sched[r] = "held" ~> (sched[r] = "freed" \/ Raised # {})

=============================================================================
