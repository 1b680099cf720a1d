------------------------ MODULE LoadGeneratorProofs ------------------------
(***************************************************************************)
(* What holds of the router for any set of requests, any number of pairs   *)
(* and any size of the connection pool, and of a load test against it with *)
(* any number of requests, warm-ups, slots and waiting events.             *)
(*                                                                         *)
(* The router's tasks share only the pair iterator and the pool, so each   *)
(* property follows from what a task has sent, written and opened at each  *)
(* of its awaits.  The load test is a client of this router: it reads of a *)
(* task only what no later step changes, the answer and the stream.        *)
(***************************************************************************)
EXTENDS LoadGenerator, FiniteSetTheorems, TLAPS

(***************************************************************************)
(* The router, for any client.                                             *)
(***************************************************************************)

\* The params are unsent until the first attempt, and the retry sends none.
Unsent(q) ==
  \/ pc[q] \in {"new", "prefill"}
  \/ pc[q] = "connect" /\ transfer[q] # "local_retry"

Sent == \A q \in Request : paramsSent[q] <= IF Unsent(q) THEN 0 ELSE 1

\* What a task holds of the pool at each of its awaits.
Connections ==
  \A q \in Request :
    /\ pc[q] \in {"new", "prefill", "connect", "write", "body"}
         => conns[q] = 0
    /\ pc[q] \in {"decode", "relay", "close"} => conns[q] = 1
    /\ pc[q] = "except" => \/ conns[q] = 0
                           \/ conns[q] = 1 /\ stream[q]

\* What a task has written and told the client at each of its awaits.
Records ==
  \A q \in Request :
    /\ pc[q] = "body" => /\ written[q] # <<>>
                         /\ written[q][Len(written[q])] = "ok"
    /\ pc[q] = "close" => reply[q] = RelayedAs(status[q])

IInv ==
  /\ TypeOK
  /\ Sent
  /\ Connections
  /\ Records
  /\ RecordMatchesReply
  /\ EndedHoldsNoConnection

-----------------------------------------------------------------------------

\* The initial states satisfy the inductive invariant.
LEMMA InitIInv == Init => IInv
  BY RouterAssumption
  DEF Init, IInv, TypeOK, Sent, Unsent, Connections, Records,
      RecordMatchesReply, EndedHoldsNoConnection

\* A record file ends with what was appended to it last.
LEMMA Appended ==
  ASSUME NEW S, NEW s \in Seq(S), NEW x \in S
  PROVE  /\ Append(s, x) \in Seq(S)
         /\ Append(s, x) # <<>>
         /\ Append(s, x)[Len(Append(s, x))] = x
  OBVIOUS

\* Every step of a task keeps the inductive invariant.
LEMMA StepIInv ==
  ASSUME IInv, NEW q \in Request, Step(q)
  PROVE  IInv'
  <1> USE RouterAssumption
      DEF IInv, TypeOK, Sent, Unsent, Connections, Records,
          RecordMatchesReply, EndedHoldsNoConnection, Goto, recordVars, Code,
          Refusals
  <1>1. CASE Reject(q)
    BY <1>1 DEF Reject
  <1>2. CASE TakePair(q)
    <2>1. Cycle \in 0 .. NumPairs - 1
      BY DEF Cycle
    <2> QED
      BY <1>2, <2>1 DEF TakePair
  <1>3. ASSUME NEW h \in BOOLEAN, PrefillAnswers(q, h) PROVE IInv'
    BY <1>3 DEF PrefillAnswers
  <1>4. CASE PrefillFails(q)
    BY <1>4 DEF PrefillFails
  <1>5. CASE Connect(q)
    BY <1>5 DEF Connect, IsRemote
  <1>6. CASE ConnectTimeout(q)
    BY <1>6 DEF ConnectTimeout
  <1>7. CASE TransportError(q)
    BY <1>7 DEF TransportError
  <1>8. ASSUME NEW code \in Code, DecodeFailsRemotely(q, code) PROVE IInv'
    BY <1>8 DEF DecodeFailsRemotely, RetryLocally, Attempted, ClosedForRetry
  <1>9. ASSUME NEW code \in Code, DecodeAnswers(q, code) PROVE IInv'
    BY <1>9 DEF DecodeAnswers, Attempted
  <1>10. CASE WriteRecord(q)
    <2>1. TypeOK' /\ Sent' /\ Connections'
      BY <1>10, Appended DEF WriteRecord, Record
    <2>2. Records'
      <3> SUFFICES ASSUME NEW s \in Request
          PROVE /\ pc'[s] = "body"
                     => /\ written'[s] # <<>>
                        /\ written'[s][Len(written'[s])] = "ok"
                /\ pc'[s] = "close" => reply'[s] = RelayedAs(status'[s])
        OBVIOUS
      <3>1. CASE s = q
        <4>1. /\ written'[q] # <<>>
              /\ written'[q][Len(written'[q])] = "ok"
          BY <1>10, Appended DEF WriteRecord, Record
        <4> QED
          BY <1>10, <3>1, <4>1 DEF WriteRecord
      <3>2. CASE s # q
        BY <1>10, <3>2 DEF WriteRecord, Record
      <3> QED
        BY <3>1, <3>2
    <2>3. RecordMatchesReply' /\ EndedHoldsNoConnection'
      BY <1>10 DEF WriteRecord, Record
    <2> QED
      BY <2>1, <2>2, <2>3
  <1>11. CASE AnswerClient(q)
    BY <1>11 DEF AnswerClient
  <1>12. CASE BodyIsNotJson(q)
    BY <1>12 DEF BodyIsNotJson
  <1>13. CASE Fail(q)
    BY <1>13, Appended DEF Fail, RecordError, Record
  <1>14. ASSUME NEW s \in {"ok", "error", "started"}, RelayEnds(q, s)
         PROVE  IInv'
    <2>1. RelayedAs(s) \in {"2xx", "broken"}
      BY DEF RelayedAs
    <2>2. TypeOK' /\ Sent' /\ Connections'
      BY <1>14, <2>1 DEF RelayEnds
    <2>3. Records'
      BY <1>14, <2>1 DEF RelayEnds, RelayedAs
    <2>4. RecordMatchesReply' /\ EndedHoldsNoConnection'
      BY <1>14 DEF RelayEnds
    <2> QED
      BY <2>2, <2>3, <2>4
  <1>15. CASE CloseRelay(q)
    <2>1. /\ TypeOK' /\ Sent' /\ Connections' /\ Records'
          /\ EndedHoldsNoConnection'
      BY <1>15, Appended DEF CloseRelay, RelayClosed, Record
    <2>2. RecordMatchesReply'
      <3> SUFFICES ASSUME NEW s \in Request,
                          pc'[s] = "ended", reply'[s] \notin Refusals
          PROVE /\ written'[s] # <<>>
                /\ written'[s][Len(written'[s])] = "ok" <=> reply'[s] = "2xx"
                /\ reply'[s] = "502"
                     => written'[s][Len(written'[s])] = "error"
        OBVIOUS
      <3>1. CASE s = q
        <4>1. /\ written'[q] # <<>>
              /\ written'[q][Len(written'[q])] = status[q]
          BY <1>15, Appended DEF CloseRelay, Record
        <4>2. reply'[q] = RelayedAs(status[q])
          BY <1>15 DEF CloseRelay
        <4> QED
          BY <3>1, <4>1, <4>2 DEF RelayedAs
      <3>2. CASE s # q
        BY <1>15, <3>2 DEF CloseRelay, Record
      <3> QED
        BY <3>1, <3>2
    <2> QED
      BY <2>1, <2>2
  <1> HIDE DEF IInv, TypeOK, Sent, Connections, Records, RecordMatchesReply,
               EndedHoldsNoConnection, Code
  <1> QED
    BY <1>1, <1>2, <1>3, <1>4, <1>5, <1>6, <1>7, <1>8, <1>9, <1>10, <1>11,
       <1>12, <1>13, <1>14, <1>15
    DEF Step

\* The inductive invariant holds in every reachable state.
THEOREM SpecIInv == Spec => []IInv
  <1>1. Init => IInv
    BY InitIInv
  <1>2. IInv /\ [Next]_vars => IInv'
    <2>1. ASSUME IInv, UNCHANGED vars PROVE IInv'
      BY <2>1 DEF vars, IInv, TypeOK, Sent, Unsent, Connections, Records,
                  RecordMatchesReply, EndedHoldsNoConnection
    <2> QED
      BY <2>1, StepIInv DEF Next
  <1> QED
    BY <1>1, <1>2, PTL DEF Spec

\* The variables of the router keep their types.
THEOREM TypeCorrect == Spec => []TypeOK
  <1>1. IInv => TypeOK
    BY DEF IInv
  <1> QED
    BY <1>1, SpecIInv, PTL

\* The params of a prefill are sent to D at most once, through the retry too.
THEOREM SentOnce == Spec => []ParamsSentOnce
  <1>1. IInv => ParamsSentOnce
    BY DEF IInv, TypeOK, Sent, ParamsSentOnce
  <1> QED
    BY <1>1, SpecIInv, PTL

\* The last record of a request agrees with what its client was told.
THEOREM RecordsMatch == Spec => []RecordMatchesReply
  <1>1. IInv => RecordMatchesReply
    BY DEF IInv
  <1> QED
    BY <1>1, SpecIInv, PTL

\* A request that has ended holds no connection, but for an errored stream.
THEOREM ConnectionsReturned == Spec => []EndedHoldsNoConnection
  <1>1. IInv => EndedHoldsNoConnection
    BY DEF IInv
  <1> QED
    BY <1>1, SpecIInv, PTL

-----------------------------------------------------------------------------
(***************************************************************************)
(* The load test.                                                          *)
(***************************************************************************)

\* Every step of a load test is a step of the router, or leaves it alone.
LEMMA RunNextIsNext == [RunNext]_runVars => [Next]_vars
  <1> SUFFICES ASSUME [RunNext]_runVars PROVE [Next]_vars
    OBVIOUS
  <1>1. ASSUME NEW q \in Request, Serve(q) PROVE Next
    BY <1>1 DEF Serve, Next
  <1>2. ASSUME NEW q \in Request, EmitTokens(q) \/ EmitLast(q)
        PROVE UNCHANGED vars
    BY <1>2 DEF EmitTokens, EmitLast
  <1>3. ASSUME NEW q \in Request, ClientStep(q) \/ ClientTimeout(q)
        PROVE UNCHANGED vars
    BY <1>3 DEF ClientStep, Wake, Send, Headers, ReadEvent, Complete,
       AnswerFails, ClientTimeout, Finish
  <1>4. ASSUME Save \/ UNCHANGED runVars PROVE UNCHANGED vars
    BY <1>4 DEF Save, runVars
  <1> QED
    BY <1>1, <1>2, <1>3, <1>4 DEF RunNext

\* A load test is a behaviour of the router: what holds for any client holds
\* for this one.
THEOREM RunImplementsRouter == RunSpec => Spec
  <1>1. RunInit => Init
    BY DEF RunInit
  <1> QED
    BY <1>1, RunNextIsNext, PTL DEF RunSpec, Spec

\* Also in a load test the params of a prefill are sent to D at most once.
THEOREM RunSentOnce == RunSpec => []ParamsSentOnce
  BY RunImplementsRouter, SentOnce, PTL

-----------------------------------------------------------------------------

\* The client's record of a request against the router's task.
Judged ==
  /\ task \in [Request -> {"sleep", "queue", "open", "read", "done"}]
  /\ result \in [Request -> {"started", "ok", "error"}]
  /\ \A q \in Request :
       /\ task[q] = "done" => result[q] # "started"
       /\ result[q] = "ok" => pc[q] = "ended" /\ reply[q] = "2xx"

\* What has ended for the router stays as it is.
LEMMA EndedStays ==
  ASSUME TypeOK, NEW q \in Request, Step(q), NEW s \in Request,
         pc[s] = "ended"
  PROVE  pc'[s] = "ended" /\ reply'[s] = reply[s]
  <1>1. pc[q] # "ended"
    BY DEF Step, Reject, TakePair, PrefillAnswers, PrefillFails, Connect,
       ConnectTimeout, TransportError, DecodeFailsRemotely, DecodeAnswers,
       WriteRecord, AnswerClient, BodyIsNotJson, Fail, RelayEnds, CloseRelay
  <1>2. pc' = [pc EXCEPT ![q] = pc'[q]]
    BY DEF Step, Goto, TypeOK, Reject, TakePair, PrefillAnswers,
       PrefillFails, Connect, ConnectTimeout, TransportError,
       DecodeFailsRemotely, DecodeAnswers, WriteRecord, AnswerClient,
       BodyIsNotJson, Fail, RelayEnds, CloseRelay
  <1>3. reply' = [reply EXCEPT ![q] = reply'[q]]
    BY DEF Step, TypeOK, Reject, TakePair, PrefillAnswers, PrefillFails,
       Connect, ConnectTimeout, TransportError, DecodeFailsRemotely,
       DecodeAnswers, WriteRecord, AnswerClient, BodyIsNotJson, Fail,
       RelayEnds, CloseRelay, recordVars
  <1> QED
    BY <1>1, <1>2, <1>3 DEF TypeOK

\* Every step keeps the client's records in order.
LEMMA NextJudged == IInv /\ Judged /\ [RunNext]_runVars => Judged'
  <1> SUFFICES ASSUME IInv, Judged, [RunNext]_runVars PROVE Judged'
    OBVIOUS
  <1> USE DEF Judged
  <1>1. ASSUME NEW q \in Request, Serve(q) PROVE Judged'
    <2>1. UNCHANGED <<task, result>> /\ Step(q)
      BY <1>1 DEF Serve, clientVars
    <2>2. \A s \in Request : pc[s] = "ended" =>
            pc'[s] = "ended" /\ reply'[s] = reply[s]
      BY <2>1, EndedStays DEF IInv
    <2> QED
      BY <2>1, <2>2
  <1>2. ASSUME NEW q \in Request, Complete(q) PROVE Judged'
    BY <1>2 DEF Complete, Finish, vars
  <1>3. ASSUME NEW q \in Request, AnswerFails(q) \/ ClientTimeout(q)
        PROVE Judged'
    <2>1. Finish(q, "error")
      BY <1>3 DEF AnswerFails, ClientTimeout
    <2> QED
      BY <2>1 DEF Finish, vars
  <1>4. ASSUME NEW q \in Request, Wake(q) \/ Send(q) \/ Headers(q)
        PROVE Judged'
    BY <1>4 DEF Wake, Send, Headers, vars
  <1>5. ASSUME NEW q \in Request,
               EmitTokens(q) \/ EmitLast(q) \/ ReadEvent(q)
        PROVE Judged'
    BY <1>5 DEF EmitTokens, EmitLast, ReadEvent, clientVars, vars
  <1>6. ASSUME Save \/ UNCHANGED runVars PROVE Judged'
    BY <1>6 DEF Save, runVars, clientVars, vars
  <1> QED
    BY <1>1, <1>2, <1>3, <1>4, <1>5, <1>6 DEF RunNext, ClientStep

\* A record is judged by what the router answered, in every reachable state.
THEOREM RunJudged == RunSpec => []Judged
  <1>1. RunInit => Judged
    BY DEF RunInit, Judged
  <1>2. RunSpec => []IInv
    BY RunImplementsRouter, SpecIInv, PTL
  <1>3. IInv /\ Judged /\ [RunNext]_runVars => Judged'
    BY NextJudged
  <1> QED
    BY <1>1, <1>2, <1>3, PTL DEF RunSpec

\* What the client counts as ok the router has finished and recorded as ok,
\* and what the router has failed the client counts as an error
\* (execute_request() against completions() and relay()).
THEOREM RunRecordsAgree == RunSpec => []RecordsAgree
  <1>1. RunSpec => []Judged
    BY RunJudged
  <1>2. RunSpec => []IInv
    BY RunImplementsRouter, SpecIInv, PTL
  <1>3. IInv /\ Judged => RecordsAgree
    <2> SUFFICES ASSUME IInv, Judged, NEW q \in Request
                 PROVE  /\ result[q] = "ok" =>
                             /\ pc[q] = "ended"
                             /\ written[q][Len(written[q])] = "ok"
                             /\ conns[q] = 0
                        /\ task[q] = "done" /\ reply[q] \in {"502", "broken"}
                             => result[q] = "error"
      BY DEF RecordsAgree
    <2>1. CASE result[q] = "ok"
      <3>1. pc[q] = "ended" /\ reply[q] = "2xx"
        BY <2>1 DEF Judged
      <3>2. conns[q] = 0
        BY <3>1 DEF IInv, EndedHoldsNoConnection
      <3>3. written[q][Len(written[q])] = "ok"
        BY <3>1 DEF IInv, RecordMatchesReply, Refusals
      <3> QED
        BY <3>1, <3>2, <3>3
    <2>2. CASE result[q] # "ok"
      BY <2>2 DEF Judged
    <2> QED
      BY <2>1, <2>2
  <1> QED
    BY <1>1, <1>2, <1>3, PTL

-----------------------------------------------------------------------------
(* Counting what is on its way to the client.                              *)

TextsIn(s) == Cardinality({i \in DOMAIN s : s[i].kind = "text"})

\* An empty stream carries no text.
LEMMA TextsInEmpty == TextsIn(<<>>) = 0
  <1>1. {i \in DOMAIN <<>> : <<>>[i].kind = "text"} = {}
    OBVIOUS
  <1> QED
    BY <1>1, FS_EmptySet DEF TextsIn

\* Sequence facts that every step of the stream needs.
LEMMA AppendFacts ==
  ASSUME NEW S, NEW s \in Seq(S), NEW e \in S
  PROVE  /\ Append(s, e) \in Seq(S)
         /\ Append(s, e) # <<>>
         /\ DOMAIN Append(s, e) = DOMAIN s \cup {Len(s) + 1}
         /\ Len(s) + 1 \notin DOMAIN s
         /\ Append(s, e)[Len(s) + 1] = e
         /\ \A i \in DOMAIN s : Append(s, e)[i] = s[i]
  OBVIOUS

\* What a read from the event queue leaves.
LEMMA TailFacts ==
  ASSUME NEW S, NEW s \in Seq(S), s # <<>>
  PROVE  /\ Tail(s) \in Seq(S)
         /\ Head(s) = s[1] /\ Head(s) \in S
         /\ DOMAIN s = 1 .. Len(s) /\ Len(s) \in Nat
         /\ DOMAIN Tail(s) = 1 .. Len(s) - 1 /\ 1 \in DOMAIN s
         /\ \A i \in 1 .. Len(s) - 1 :
              Tail(s)[i] = s[i + 1] /\ i + 1 \in DOMAIN s
  OBVIOUS

\* The text events of a stream can be counted.
LEMMA TextsFinite ==
  ASSUME NEW S, NEW s \in Seq(S)
  PROVE  /\ IsFiniteSet({i \in DOMAIN s : s[i].kind = "text"})
         /\ TextsIn(s) \in Nat
  <1>1. IsFiniteSet(1 .. Len(s)) /\ DOMAIN s = 1 .. Len(s)
    BY FS_Interval
  <1>2. IsFiniteSet({i \in DOMAIN s : s[i].kind = "text"})
    BY <1>1, FS_Subset
  <1> QED
    BY <1>2, FS_CardinalityType DEF TextsIn

\* A new event adds itself to the count.
LEMMA TextsInAppend ==
  ASSUME NEW S, NEW s \in Seq(S), NEW e \in S
  PROVE  TextsIn(Append(s, e)) =
           IF e.kind = "text" THEN TextsIn(s) + 1 ELSE TextsIn(s)
  <1> DEFINE A == {i \in DOMAIN s : s[i].kind = "text"}
             B == {i \in DOMAIN Append(s, e) : Append(s, e)[i].kind = "text"}
             n == Len(s) + 1
  <1>1. IsFiniteSet(A)
    BY TextsFinite
  <1>2. CASE e.kind = "text"
    <2>1. B = A \cup {n} /\ n \notin A
      BY <1>2, AppendFacts
    <2> QED
      BY <1>1, <1>2, <2>1, FS_AddElement DEF TextsIn
  <1>3. CASE e.kind # "text"
    <2>1. B = A
      BY <1>3, AppendFacts
    <2> QED
      BY <1>3, <2>1 DEF TextsIn
  <1> QED
    BY <1>2, <1>3

\* An event that has been read is no longer counted.
LEMMA TextsInTail ==
  ASSUME NEW S, NEW s \in Seq(S), s # <<>>
  PROVE  TextsIn(s) = IF Head(s).kind = "text" THEN TextsIn(Tail(s)) + 1
                                               ELSE TextsIn(Tail(s))
  <1> DEFINE A == {i \in DOMAIN s : s[i].kind = "text"}
             C == A \ {1}
             B == {i \in DOMAIN Tail(s) : Tail(s)[i].kind = "text"}
             f == [i \in B |-> i + 1]
  <1>1. IsFiniteSet(A) /\ IsFiniteSet(B)
    BY TailFacts, TextsFinite
  <1>2. Cardinality(C) = Cardinality(B)
    <2>1. f \in [B -> C]
      BY TailFacts
    <2>2. \A i, j \in B : f[i] = f[j] => i = j
      BY TailFacts
    <2>3. \A j \in C : \E i \in B : f[i] = j
      <3> SUFFICES ASSUME NEW j \in C PROVE \E i \in B : f[i] = j
        OBVIOUS
      <3>1. j - 1 \in B
        BY TailFacts
      <3> QED
        BY <3>1, TailFacts
    <2>4. f \in Bijection(B, C)
      BY <2>1, <2>2, <2>3 DEF Bijection, Injection, Surjection, IsInjective
    <2>5. ExistsBijection(B, C)
      BY <2>4 DEF ExistsBijection
    <2> HIDE DEF A, B, C, f
    <2> QED
      BY <1>1, <2>5, FS_Bijection
  <1>3. Cardinality(C) = IF 1 \in A THEN Cardinality(A) - 1
                                    ELSE Cardinality(A)
    BY <1>1, FS_RemoveElement
  <1>4. 1 \in A <=> Head(s).kind = "text"
    BY TailFacts
  <1>5. Cardinality(A) \in Nat
    BY <1>1, FS_CardinalityType
  <1>6. TextsIn(s) = Cardinality(A) /\ TextsIn(Tail(s)) = Cardinality(B)
    BY DEF TextsIn
  <1> HIDE DEF A, B, C
  <1> QED
    BY <1>2, <1>3, <1>4, <1>5, <1>6

-----------------------------------------------------------------------------
(* What a record says of the stream it was read from.                      *)

\* The requests that hold a slot of the semaphore.
InFlight == {q \in Request : task[q] \in {"open", "read"}}

\* The slots that are free and those that are held make up the semaphore.
Slots == slots + Cardinality(InFlight) = MaxConcurrency

\* What D has sent, what the client has read and what lies between the two;
\* once a request has failed, its record holds nothing of the stream.
Account(q) ==
  /\ stream[q] /\ pc[q] \notin {"write", "body"}
  /\ pc[q] \in {"close", "ended"} /\ reply[q] = "2xx" => emitted[q].ended
  /\ emitted[q].texts <= emitted[q].tokens
  /\ result[q] # "error" =>
       heard[q].texts + TextsIn(events[q]) = emitted[q].texts
  /\ \A i \in DOMAIN events[q] : events[q][i].kind = "usage" =>
       events[q][i].tokens = emitted[q].tokens /\ emitted[q].ended
  /\ heard[q].usage # None =>
       heard[q].usage = emitted[q].tokens /\ emitted[q].ended
  /\ result[q] = "error" => heard[q] = [texts |-> 0, usage |-> None]
  /\ result[q] = "ok" => events[q] = <<>>
  /\ task[q] # "done" => result[q] = "started"

RunInv ==
  /\ RunTypeOK
  /\ Slots
  /\ \A q \in Request : Account(q)

\* Nobody is in flight and nothing is sent when a run begins.
LEMMA InitRunInv == RunInit => RunInv
  <1> SUFFICES ASSUME RunInit PROVE RunInv
    OBVIOUS
  <1>1. RunTypeOK
    <2>1. TypeOK
      BY InitIInv DEF RunInit, IInv
    <2>2. slots \in 0 .. MaxConcurrency /\ warmups \in 0 .. MaxWarmups
      BY RunConfigAssumption DEF RunInit
    <2>3. /\ [texts |-> 0, usage |-> None]
               \in [texts : 0 .. OutLen, usage : None .. OutLen]
          /\ [tokens |-> 0, texts |-> 0, ended |-> FALSE]
               \in [tokens : 0 .. OutLen, texts : 0 .. OutLen,
                   ended : BOOLEAN]
      BY RunConfigAssumption DEF None
    <2>4. /\ heard \in [Request -> [texts : 0 .. OutLen,
                                   usage : None .. OutLen]]
          /\ emitted \in [Request -> [tokens : 0 .. OutLen,
                                     texts : 0 .. OutLen, ended : BOOLEAN]]
      BY <2>3 DEF RunInit
    <2>5. /\ task \in [Request -> {"sleep", "queue", "open", "read", "done"}]
          /\ result \in [Request -> {"started", "ok", "error"}]
          /\ saved \in BOOLEAN
      BY DEF RunInit
    <2>6. events \in [Request -> Seq(Event)]
      <3>1. <<>> \in Seq(Event)
        OBVIOUS
      <3> QED
        BY <3>1 DEF RunInit
    <2> QED
      BY <2>1, <2>2, <2>4, <2>5, <2>6 DEF RunTypeOK
  <1>2. Slots
    <2>1. InFlight = {}
      BY DEF InFlight, RunInit
    <2> QED
      BY <2>1, FS_EmptySet, RunConfigAssumption DEF Slots, RunInit
  <1>3. ASSUME NEW q \in Request PROVE Account(q)
    BY TextsInEmpty DEF Account, RunInit, Init
  <1> QED
    BY <1>1, <1>2, <1>3 DEF RunInv

\* What a step does to the set of requests in flight.
LEMMA Flight ==
  ASSUME RunInv, NEW q \in Request, NEW t,
         task' = [task EXCEPT ![q] = t]
  PROVE  /\ Cardinality(InFlight) \in Nat
         /\ task[q] \in {"open", "read"} => Cardinality(InFlight) > 0
         /\ t \in {"open", "read"} /\ q \notin InFlight =>
              Cardinality(InFlight') = Cardinality(InFlight) + 1
         /\ t \notin {"open", "read"} /\ q \in InFlight =>
              Cardinality(InFlight') = Cardinality(InFlight) - 1
         /\ (t \in {"open", "read"} <=> q \in InFlight) =>
              InFlight' = InFlight
  <1>1. IsFiniteSet(InFlight)
    BY RouterAssumption, FS_Subset DEF InFlight
  <1>2. Cardinality(InFlight) \in Nat
    BY <1>1, FS_CardinalityType
  <1>3. InFlight' = IF t \in {"open", "read"} THEN InFlight \cup {q}
                                              ELSE InFlight \ {q}
    BY DEF InFlight, RunInv, RunTypeOK
  <1>4. q \in InFlight <=> task[q] \in {"open", "read"}
    BY DEF InFlight
  <1>5. q \in InFlight => Cardinality(InFlight) > 0
    BY <1>1, <1>2, FS_EmptySet
  <1>6. /\ Cardinality(InFlight \cup {q}) =
             IF q \in InFlight THEN Cardinality(InFlight)
                              ELSE Cardinality(InFlight) + 1
        /\ Cardinality(InFlight \ {q}) =
             IF q \in InFlight THEN Cardinality(InFlight) - 1
                              ELSE Cardinality(InFlight)
    BY <1>1, FS_AddElement, FS_RemoveElement
  <1>7. /\ q \in InFlight => InFlight \cup {q} = InFlight
        /\ q \notin InFlight => InFlight \ {q} = InFlight
    OBVIOUS
  <1> QED
    BY <1>2, <1>3, <1>4, <1>5, <1>6, <1>7

\* A streamed answer ends well only where the relay does.
LEMMA RelayStep ==
  ASSUME TypeOK, \A s \in Request : stream[s],
         \A s \in Request : pc[s] \notin {"write", "body"},
         NEW q \in Request, Step(q), NEW s \in Request,
         pc'[s] \in {"close", "ended"}, reply'[s] = "2xx"
  PROVE  \/ s = q /\ pc[q] = "relay" /\ status'[q] = "ok"
         \/ ~ (s = q /\ pc[q] = "relay")
              /\ pc[s] \in {"close", "ended"} /\ reply[s] = "2xx"
  <1> USE DEF TypeOK, Goto
  <1>1. CASE RelayEnds(q, "ok") \/ RelayEnds(q, "error")
               \/ RelayEnds(q, "started")
    BY <1>1 DEF RelayEnds, RelayedAs
  <1>2. CASE CloseRelay(q) \/ Fail(q) \/ Reject(q)
    BY <1>2 DEF CloseRelay, Fail, Reject, Refusals
  <1>3. CASE \/ TakePair(q) \/ PrefillFails(q) \/ Connect(q)
             \/ ConnectTimeout(q) \/ TransportError(q)
             \/ \E h \in BOOLEAN : PrefillAnswers(q, h)
    BY <1>3 DEF TakePair, PrefillFails, Connect, ConnectTimeout,
                TransportError, PrefillAnswers
  <1>4. CASE \E code \in Code :
               DecodeFailsRemotely(q, code) \/ DecodeAnswers(q, code)
    BY <1>4 DEF DecodeFailsRemotely, DecodeAnswers
  <1>5. CASE WriteRecord(q) \/ AnswerClient(q) \/ BodyIsNotJson(q)
    BY <1>5 DEF WriteRecord, AnswerClient, BodyIsNotJson
  <1> QED
    BY <1>1, <1>2, <1>3, <1>4, <1>5 DEF Step

\* A task that streams its answer never takes the other way.
LEMMA StaysStreamed ==
  ASSUME TypeOK, NEW q \in Request, Step(q), stream[q],
         \A s \in Request : pc[s] \notin {"write", "body"}
  PROVE  \A s \in Request : pc'[s] \notin {"write", "body"}
  <1>1. PICK l : l \notin {"write", "body"} /\ Goto(q, l)
    <2>1. CASE \E code \in Code :
                 DecodeFailsRemotely(q, code) \/ DecodeAnswers(q, code)
      BY <2>1 DEF DecodeFailsRemotely, DecodeAnswers
    <2>2. CASE ~ \E code \in Code :
                 DecodeFailsRemotely(q, code) \/ DecodeAnswers(q, code)
      BY <2>2 DEF Step, Reject, TakePair, PrefillAnswers, PrefillFails,
         Connect, ConnectTimeout, TransportError, WriteRecord, AnswerClient,
         BodyIsNotJson, Fail, RelayEnds, CloseRelay
    <2> QED
      BY <2>1, <2>2
  <1> QED
    BY <1>1 DEF Goto, TypeOK

\* A task of the router: the stream ends as D ended it.
LEMMA ServeRunInv ==
  ASSUME IInv, RunInv, NEW q \in Request, Serve(q), TypeOK'
  PROVE  RunInv'
  <1>1. UNCHANGED <<clientVars, streamVars>> /\ Step(q)
    BY DEF Serve
  <1>2. RunTypeOK' /\ Slots'
    BY <1>1 DEF RunInv, RunTypeOK, Slots, InFlight, clientVars, streamVars
  <1>3. stream' = stream
    BY <1>1 DEF Step, Reject, TakePair, PrefillAnswers, PrefillFails, Connect,
       ConnectTimeout, TransportError, DecodeFailsRemotely, DecodeAnswers,
       WriteRecord, AnswerClient, BodyIsNotJson, Fail, RelayEnds, CloseRelay
  <1>4. /\ TypeOK
        /\ \A s \in Request : stream[s] /\ pc[s] \notin {"write", "body"}
    BY DEF IInv, RunInv, Account
  <1>5. \A s \in Request : pc'[s] \notin {"write", "body"}
    BY <1>1, <1>4, StaysStreamed
  <1>6. ASSUME NEW s \in Request, pc'[s] \in {"close", "ended"},
               reply'[s] = "2xx"
        PROVE  emitted[s].ended
    <2>1. \/ s = q /\ pc[q] = "relay" /\ status'[q] = "ok"
          \/ pc[s] \in {"close", "ended"} /\ reply[s] = "2xx"
      BY <1>1, <1>4, <1>6, RelayStep
    <2>2. CASE s = q /\ pc[q] = "relay" /\ status'[q] = "ok"
      BY <2>2 DEF Serve
    <2>3. CASE pc[s] \in {"close", "ended"} /\ reply[s] = "2xx"
      BY <2>3 DEF RunInv, Account
    <2> QED
      BY <2>1, <2>2, <2>3
  <1>7. ASSUME NEW s \in Request PROVE Account(s)'
    <2>1. Account(s)
      BY DEF RunInv
    <2>2. UNCHANGED <<task, heard, result, events, emitted>>
      BY <1>1 DEF clientVars, streamVars
    <2>3. stream'[s] /\ pc'[s] \notin {"write", "body"}
      BY <1>3, <1>4, <1>5
    <2> QED
      BY <1>6, <2>1, <2>2, <2>3 DEF Account, TextsIn
  <1> QED
    BY <1>2, <1>7 DEF RunInv

\* The router and the other requests, when D or the client moves.
LEMMA OthersAccount ==
  ASSUME RunInv, NEW q \in Request, UNCHANGED vars,
         \A s \in Request \ {q} :
           /\ emitted'[s] = emitted[s] /\ events'[s] = events[s]
           /\ heard'[s] = heard[s] /\ result'[s] = result[s]
           /\ task'[s] = task[s],
         Account(q)'
  PROVE  \A s \in Request : Account(s)'
  <1> SUFFICES ASSUME NEW s \in Request \ {q} PROVE Account(s)'
    OBVIOUS
  <1>1. Account(s) /\ events'[s] = events[s]
    BY DEF RunInv
  <1>2. TextsIn(events[s])' = TextsIn(events[s])
    BY <1>1 DEF TextsIn
  <1> QED
    BY <1>1, <1>2 DEF Account, vars

\* One more event with tokens.
LEMMA EmitTokensRunInv ==
  ASSUME RunInv, NEW q \in Request, EmitTokens(q)
  PROVE  RunInv'
  <1>1. PICK e \in [kind : {"text", "blank"}, tokens : 1 .. 2] :
          /\ emitted[q].tokens + e.tokens <= OutLen
          /\ events' = [events EXCEPT ![q] = Append(@, e)]
          /\ emitted' = [emitted EXCEPT ![q] =
               [tokens |-> @.tokens + e.tokens,
                texts  |-> IF e.kind = "text" THEN @.texts + 1 ELSE @.texts,
                ended  |-> FALSE]]
    BY DEF EmitTokens
  <1>2. /\ UNCHANGED <<vars, warmups, task, slots, heard, result, saved>>
        /\ pc[q] = "relay" /\ ~ emitted[q].ended /\ task[q] # "done"
    BY DEF EmitTokens, Streaming, clientVars
  <1>3. e \in Event
    BY DEF Event
  <1>4. /\ events \in [Request -> Seq(Event)]
        /\ emitted \in [Request -> [tokens : 0 .. OutLen, texts : 0 .. OutLen,
                                    ended : BOOLEAN]]
        /\ OutLen \in Nat
        /\ Account(q)
    BY RunConfigAssumption DEF RunInv, RunTypeOK
  <1>5. /\ events'[q] = Append(events[q], e)
        /\ events' \in [Request -> Seq(Event)]
        /\ \A s \in Request \ {q} : events'[s] = events[s]
    BY <1>1, <1>3, <1>4, AppendFacts
  <1>6. /\ emitted'[q].tokens = emitted[q].tokens + e.tokens
        /\ emitted'[q].texts = IF e.kind = "text" THEN emitted[q].texts + 1
                                                  ELSE emitted[q].texts
        /\ emitted'[q].texts <= emitted'[q].tokens
        /\ \A s \in Request \ {q} : emitted'[s] = emitted[s]
    BY <1>1, <1>4 DEF Account
  <1>7. emitted' \in [Request -> [tokens : 0 .. OutLen, texts : 0 .. OutLen,
                                  ended : BOOLEAN]]
    BY <1>1, <1>4, <1>6
  <1>8. RunTypeOK'
    BY <1>2, <1>5, <1>7 DEF RunInv, RunTypeOK, TypeOK, vars
  <1>9. Slots'
    BY <1>2 DEF RunInv, Slots, InFlight
  <1>10. Account(q)'
    <2>1. /\ heard'[q].texts + TextsIn(events'[q]) = emitted'[q].texts
          /\ result'[q] = "started"
      <3>1. TextsIn(events'[q]) =
              IF e.kind = "text" THEN TextsIn(events[q]) + 1
                                 ELSE TextsIn(events[q])
        BY <1>3, <1>4, <1>5, TextsInAppend
      <3>2. TextsIn(events[q]) \in Nat
        BY <1>4, TextsFinite
      <3>3. heard[q].texts \in Nat
        BY <1>4 DEF RunInv, RunTypeOK
      <3>4. /\ result[q] = "started"
            /\ heard[q].texts + TextsIn(events[q]) = emitted[q].texts
        BY <1>2, <1>4 DEF Account
      <3> QED
        BY <1>2, <1>6, <3>1, <3>2, <3>3, <3>4
    <2>2. \A i \in DOMAIN events'[q] : events'[q][i].kind # "usage"
      BY <1>2, <1>3, <1>4, <1>5, AppendFacts DEF Account
    <2>3. heard'[q].usage = None /\ pc'[q] = "relay" /\ stream'[q]
      BY <1>2, <1>4 DEF Account, vars
    <2> QED
      BY <1>6, <2>1, <2>2, <2>3 DEF Account, TextsIn
  <1> QED
    BY <1>2, <1>5, <1>6, <1>8, <1>9, <1>10, OthersAccount DEF RunInv

\* The last event of a stream: what it says of the usage stays true.
LEMMA EmitLastRunInv ==
  ASSUME RunInv, NEW q \in Request, EmitLast(q)
  PROVE  RunInv'
  <1>1. PICK e \in {[kind |-> "usage", tokens |-> emitted[q].tokens],
                    [kind |-> "error", tokens |-> 0]} :
          events' = [events EXCEPT ![q] = Append(@, e)]
    BY DEF EmitLast
  <1>2. /\ UNCHANGED <<vars, warmups, task, slots, heard, result, saved>>
        /\ emitted' = [emitted EXCEPT ![q].ended = TRUE]
        /\ pc[q] = "relay" /\ ~ emitted[q].ended /\ task[q] # "done"
    BY DEF EmitLast, Streaming, clientVars
  <1>3. /\ events \in [Request -> Seq(Event)]
        /\ emitted \in [Request -> [tokens : 0 .. OutLen, texts : 0 .. OutLen,
                                    ended : BOOLEAN]]
        /\ Account(q)
    BY DEF RunInv, RunTypeOK
  <1>4. /\ e \in Event
        /\ e.kind # "text"
        /\ e.kind = "usage" => e.tokens = emitted[q].tokens
    BY <1>1, <1>3 DEF Event
  <1>5. /\ events'[q] = Append(events[q], e)
        /\ events' \in [Request -> Seq(Event)]
        /\ \A s \in Request \ {q} : events'[s] = events[s]
    BY <1>1, <1>3, <1>4, AppendFacts
  <1>6. /\ emitted' \in [Request -> [tokens : 0 .. OutLen,
                                     texts : 0 .. OutLen, ended : BOOLEAN]]
        /\ emitted'[q].tokens = emitted[q].tokens
        /\ emitted'[q].texts = emitted[q].texts
        /\ emitted'[q].ended
        /\ \A s \in Request \ {q} : emitted'[s] = emitted[s]
    BY <1>2, <1>3
  <1>7. RunTypeOK'
    BY <1>2, <1>5, <1>6 DEF RunInv, RunTypeOK, TypeOK, vars
  <1>8. Slots'
    BY <1>2 DEF RunInv, Slots, InFlight
  <1>9. Account(q)'
    <2>1. TextsIn(events'[q]) = TextsIn(events[q])
      BY <1>3, <1>4, <1>5, TextsInAppend
    <2>2. \A i \in DOMAIN events'[q] : events'[q][i].kind = "usage" =>
            events'[q][i].tokens = emitted'[q].tokens
      BY <1>3, <1>4, <1>5, <1>6, AppendFacts DEF Account
    <2>3. UNCHANGED <<stream, pc, reply, heard, result, task>>
      BY <1>2 DEF vars
    <2>4. TextsIn(events[q])' = TextsIn(events[q])
      BY <2>1 DEF TextsIn
    <2> QED
      BY <1>2, <1>3, <1>6, <2>2, <2>3, <2>4 DEF Account
  <1> QED
    BY <1>2, <1>5, <1>6, <1>7, <1>8, <1>9, OthersAccount DEF RunInv

\* The client reads one event.
LEMMA ReadEventRunInv ==
  ASSUME RunInv, NEW q \in Request, ReadEvent(q)
  PROVE  RunInv'
  <1> DEFINE e == Head(events[q])
  <1>1. /\ UNCHANGED <<vars, warmups, task, slots, result, saved, emitted>>
        /\ heard' = [heard EXCEPT ![q] =
             [texts |-> IF e.kind = "text" THEN @.texts + 1 ELSE @.texts,
              usage |-> IF e.kind = "usage" THEN e.tokens ELSE @.usage]]
        /\ events' = [events EXCEPT ![q] = Tail(@)]
        /\ task[q] = "read" /\ events[q] # <<>>
    BY DEF ReadEvent, CountsAsToken
  <1>2. /\ events \in [Request -> Seq(Event)]
        /\ heard \in [Request -> [texts : 0 .. OutLen,
                                  usage : None .. OutLen]]
        /\ emitted \in [Request -> [tokens : 0 .. OutLen, texts : 0 .. OutLen,
                                    ended : BOOLEAN]]
        /\ Account(q)
        /\ OutLen \in Nat
    BY RunConfigAssumption DEF RunInv, RunTypeOK
  <1>3. /\ e \in Event /\ e = events[q][1] /\ 1 \in DOMAIN events[q]
        /\ Tail(events[q]) \in Seq(Event)
    BY <1>1, <1>2, TailFacts
  <1>4. /\ events'[q] = Tail(events[q])
        /\ events' \in [Request -> Seq(Event)]
        /\ \A s \in Request \ {q} : events'[s] = events[s]
    BY <1>1, <1>2, <1>3
  <1>5. /\ result[q] = "started"
        /\ heard[q].texts + TextsIn(events[q]) = emitted[q].texts
        /\ e.kind = "usage" => e.tokens = emitted[q].tokens /\ emitted[q].ended
        /\ e.kind = "usage" => e.tokens \in None .. OutLen
    BY <1>1, <1>2, <1>3 DEF Account, None
  <1> HIDE DEF e
  <1>6. /\ heard'[q].texts = IF e.kind = "text" THEN heard[q].texts + 1
                                                ELSE heard[q].texts
        /\ heard'[q].usage = IF e.kind = "usage" THEN e.tokens
                                                 ELSE heard[q].usage
        /\ \A s \in Request \ {q} : heard'[s] = heard[s]
    BY <1>1, <1>2
  <1>7. /\ heard'[q].texts + TextsIn(Tail(events[q])) = emitted[q].texts
        /\ heard'[q].texts \in 0 .. OutLen
    <2>1. TextsIn(events[q]) =
            IF e.kind = "text" THEN TextsIn(Tail(events[q])) + 1
                               ELSE TextsIn(Tail(events[q]))
      BY <1>1, <1>2, TextsInTail DEF e
    <2>2. TextsIn(Tail(events[q])) \in Nat /\ TextsIn(events[q]) \in Nat
      BY <1>2, <1>3, TextsFinite
    <2>3. heard[q].texts \in Nat /\ emitted[q].texts \in 0 .. OutLen
      BY <1>2
    <2>4. heard'[q].texts + TextsIn(Tail(events[q])) = emitted[q].texts
      <3>1. heard[q].texts + TextsIn(events[q]) = emitted[q].texts
        BY <1>5
      <3>2. CASE e.kind = "text"
        BY <1>6, <2>1, <2>2, <2>3, <3>1, <3>2
      <3>3. CASE e.kind # "text"
        BY <1>6, <2>1, <3>1, <3>3
      <3> QED
        BY <3>2, <3>3
    <2>5. heard'[q].texts \in Nat
      BY <1>6, <2>3
    <2> QED
      BY <2>2, <2>3, <2>4, <2>5, RunConfigAssumption
  <1>8. heard' \in [Request -> [texts : 0 .. OutLen, usage : None .. OutLen]]
    BY <1>1, <1>2, <1>5, <1>6, <1>7
  <1>9. RunTypeOK'
    BY <1>1, <1>4, <1>8 DEF RunInv, RunTypeOK, TypeOK, vars
  <1>10. Slots'
    BY <1>1 DEF RunInv, Slots, InFlight
  <1>11. Account(q)'
    <2>1. UNCHANGED <<stream, pc, reply, emitted, result, task>>
      BY <1>1 DEF vars
    <2>2. TextsIn(events[q])' = TextsIn(Tail(events[q]))
      BY <1>4 DEF TextsIn
    <2>3. \A i \in DOMAIN events'[q] : events'[q][i].kind = "usage" =>
            events'[q][i].tokens = emitted[q].tokens /\ emitted[q].ended
      BY <1>1, <1>2, <1>4, TailFacts DEF Account
    <2>4. heard'[q].usage # None =>
            heard'[q].usage = emitted[q].tokens /\ emitted[q].ended
      BY <1>2, <1>5, <1>6 DEF Account
    <2> QED
      BY <1>2, <1>5, <1>7, <2>1, <2>2, <2>3, <2>4 DEF Account
  <1> QED
    BY <1>1, <1>4, <1>6, <1>9, <1>10, <1>11, OthersAccount DEF RunInv

\* The client is done with a request, well or not.
LEMMA FinishRunInv ==
  ASSUME RunInv, NEW q \in Request, NEW r, Finish(q, r),
         task[q] \in {"open", "read"}, r = "ok" => events[q] = <<>>,
         r \in {"ok", "error"}
  PROVE  RunInv'
  <1>1. /\ UNCHANGED <<vars, warmups, saved, events, emitted>>
        /\ task' = [task EXCEPT ![q] = "done"]
        /\ result' = [result EXCEPT ![q] = r]
        /\ slots' = slots + 1
        /\ heard' = IF r = "ok" THEN heard
                    ELSE [heard EXCEPT ![q] = [texts |-> 0, usage |-> None]]
    BY DEF Finish, SlotsAfter, streamVars
  <1>2. /\ RunTypeOK
        /\ Account(q)
        /\ OutLen \in Nat /\ MaxConcurrency \in Nat
    BY RunConfigAssumption DEF RunInv
  <1>3. Slots' /\ slots' \in 0 .. MaxConcurrency
    <2>1. /\ Cardinality(InFlight) \in Nat /\ Cardinality(InFlight) > 0
          /\ Cardinality(InFlight') = Cardinality(InFlight) - 1
      BY <1>1, Flight DEF InFlight
    <2> QED
      BY <1>1, <1>2, <2>1 DEF RunInv, RunTypeOK, Slots
  <1>4. heard' \in [Request -> [texts : 0 .. OutLen, usage : None .. OutLen]]
    <2>1. [texts |-> 0, usage |-> None]
            \in [texts : 0 .. OutLen, usage : None .. OutLen]
      BY <1>2 DEF None
    <2> QED
      BY <1>1, <1>2, <2>1 DEF RunTypeOK
  <1>5. RunTypeOK'
    BY <1>1, <1>2, <1>3, <1>4 DEF RunTypeOK, TypeOK, vars
  <1>6. Account(q)'
    <2>1. TextsIn(events[q])' = TextsIn(events[q])
      BY <1>1 DEF TextsIn
    <2>2. /\ task'[q] = "done" /\ result'[q] = r /\ result[q] = "started"
          /\ r = "ok" => heard'[q] = heard[q]
          /\ r = "error" => heard'[q] = [texts |-> 0, usage |-> None]
      BY <1>1, <1>2 DEF RunTypeOK, Account
    <2> QED
      BY <1>1, <1>2, <2>1, <2>2 DEF Account, vars
  <1>7. \A s \in Request \ {q} :
          task'[s] = task[s] /\ result'[s] = result[s] /\ heard'[s] = heard[s]
    BY <1>1, <1>2 DEF RunTypeOK
  <1> QED
    BY <1>1, <1>3, <1>5, <1>6, <1>7, OthersAccount DEF RunInv

\* A request on its way to the answer.
LEMMA AdvanceRunInv ==
  ASSUME RunInv, NEW q \in Request, Wake(q) \/ Send(q) \/ Headers(q)
  PROVE  RunInv'
  <1>1. PICK t \in {"queue", "open", "read"} :
          task' = [task EXCEPT ![q] = t]
    BY DEF Wake, Send, Headers
  <1>2. /\ UNCHANGED <<vars, warmups, saved, events, emitted, heard, result>>
        /\ task[q] # "done"
    BY DEF Wake, Send, Headers, streamVars
  <1>3. /\ RunTypeOK
        /\ Account(q)
        /\ MaxConcurrency \in Nat
    BY RunConfigAssumption DEF RunInv
  <1>4. task'[q] = t /\ \A s \in Request \ {q} : task'[s] = task[s]
    BY <1>1, <1>3 DEF RunTypeOK
  <1>5. Slots' /\ slots' \in 0 .. MaxConcurrency
    <2>1. CASE Send(q)
      <3>1. /\ Cardinality(InFlight) \in Nat
            /\ Cardinality(InFlight') = Cardinality(InFlight) + 1
        BY <1>1, <2>1, <1>4, Flight DEF InFlight, Send
      <3> QED
        BY <1>3, <2>1, <3>1 DEF RunInv, RunTypeOK, Slots, Send
    <2>2. CASE Wake(q) \/ Headers(q)
      <3>1. InFlight' = InFlight
        BY <1>1, <2>2, <1>4, Flight DEF InFlight, Wake, Headers
      <3> QED
        BY <1>3, <2>2, <3>1 DEF RunInv, RunTypeOK, Slots, Wake, Headers
    <2> QED
      BY <2>1, <2>2
  <1>6. RunTypeOK'
    BY <1>1, <1>2, <1>3, <1>5 DEF RunTypeOK, TypeOK, vars
  <1>7. Account(q)'
    <2>1. TextsIn(events[q])' = TextsIn(events[q])
      BY <1>2 DEF TextsIn
    <2> QED
      BY <1>2, <1>3, <1>4, <2>1 DEF Account, vars
  <1> QED
    BY <1>2, <1>4, <1>5, <1>6, <1>7, OthersAccount DEF RunInv

\* Every step of a run keeps the accounts.
LEMMA NextRunInv == IInv /\ IInv' /\ RunInv /\ [RunNext]_runVars => RunInv'
  <1> SUFFICES ASSUME IInv, IInv', RunInv, [RunNext]_runVars PROVE RunInv'
    OBVIOUS
  <1>1. ASSUME NEW q \in Request, Serve(q) PROVE RunInv'
    BY <1>1, ServeRunInv DEF IInv
  <1>2. ASSUME NEW q \in Request, Complete(q) PROVE RunInv'
    BY <1>2, FinishRunInv DEF Complete
  <1>3. ASSUME NEW q \in Request, ClientTimeout(q) PROVE RunInv'
    BY <1>3, FinishRunInv DEF ClientTimeout
  <1>4. ASSUME NEW q \in Request, AnswerFails(q) PROVE RunInv'
    BY <1>4, FinishRunInv DEF AnswerFails
  <1>5. ASSUME Save \/ UNCHANGED runVars PROVE RunInv'
    <2>1. UNCHANGED <<vars, warmups, task, slots, heard, result, events,
                      emitted>> /\ saved' \in BOOLEAN
      BY <1>5 DEF Save, runVars, clientVars, streamVars, RunInv, RunTypeOK
    <2>2. RunTypeOK' /\ Slots'
      BY <2>1 DEF RunInv, RunTypeOK, Slots, InFlight, TypeOK, vars
    <2>3. ASSUME NEW s \in Request PROVE Account(s)'
      <3>1. TextsIn(events[s])' = TextsIn(events[s])
        BY <2>1 DEF TextsIn
      <3> QED
        BY <2>1, <3>1 DEF RunInv, Account, vars
    <2> QED
      BY <2>2, <2>3 DEF RunInv
  <1> QED
    BY <1>1, <1>2, <1>3, <1>4, <1>5, EmitTokensRunInv, EmitLastRunInv,
       ReadEventRunInv, AdvanceRunInv
    DEF RunNext, ClientStep

\* The accounts hold in every reachable state of a run.
THEOREM RunSpecRunInv == RunSpec => []RunInv
  <1>1. RunInit => RunInv
    BY InitRunInv
  <1>2. RunSpec => []IInv
    BY RunImplementsRouter, SpecIInv, PTL
  <1>3. IInv /\ IInv' /\ RunInv /\ [RunNext]_runVars => RunInv'
    BY NextRunInv
  <1> QED
    BY <1>1, <1>2, <1>3, PTL DEF RunSpec

\* The variables of a run keep their types: in particular the semaphore is
\* never given back more often than it was taken (execute_request()).
THEOREM RunTypeCorrect == RunSpec => []RunTypeOK
  <1>1. RunInv => RunTypeOK
    BY DEF RunInv
  <1> QED
    BY <1>1, RunSpecRunInv, PTL

\* A record is the record of its fields.
LEMMA WholeStream ==
  ASSUME NEW r \in [tokens : Nat, texts : Nat, ended : BOOLEAN], NEW n,
         r.tokens = n, r.texts = n, r.ended
  PROVE  r = [tokens |-> n, texts |-> n, ended |-> TRUE]
  <1>1. r = [tokens |-> r.tokens, texts |-> r.texts, ended |-> r.ended]
    OBVIOUS
  <1> QED
    BY <1>1

\* What aggregate() reports as exact and valid came whole and token by token,
\* however D batched, dropped or delayed its events (execute_request(),
\* aggregate()).
THEOREM RunValidated == RunSpec => []ValidatedIsComplete
  <1>1. RunSpec => []Judged
    BY RunJudged
  <1>2. RunInv /\ Judged => ValidatedIsComplete
    <2> SUFFICES ASSUME RunInv, Judged,
                        AllOutputLengthsExact, AllItlCountsValid,
                        NEW q \in Successful
                 PROVE  emitted[q] =
                   [tokens |-> OutLen, texts |-> OutLen, ended |-> TRUE]
      BY DEF ValidatedIsComplete
    <2>1. q \in Request /\ result[q] = "ok" /\ Account(q)
      BY DEF Successful, Included, RunInv
    <2>2. pc[q] = "ended" /\ reply[q] = "2xx"
      BY <2>1 DEF Judged
    <2>3. /\ heard[q].usage = OutLen /\ heard[q].usage # None
          /\ heard[q].usage = heard[q].texts
      BY DEF AllOutputLengthsExact, AllItlCountsValid, ItlValid
    <2>4. TextsIn(events[q]) = 0
      BY <2>1, TextsInEmpty DEF Account
    <2>5. emitted[q].ended /\ emitted[q].tokens = OutLen
      BY <2>1, <2>2, <2>3 DEF Account
    <2>6. /\ emitted[q] \in [tokens : Nat, texts : Nat, ended : BOOLEAN]
          /\ heard[q].texts \in Nat
      BY <2>1, RunConfigAssumption DEF RunInv, RunTypeOK
    <2>7. emitted[q].texts = OutLen
      <3>1. heard[q].texts + TextsIn(events[q]) = emitted[q].texts
        BY <2>1 DEF Account
      <3>2. heard[q].texts = OutLen
        BY <2>3
      <3> QED
        BY <2>4, <2>6, <3>1, <3>2
    <2> QED
      BY <2>5, <2>6, <2>7, WholeStream
  <1> QED
    BY <1>1, <1>2, RunSpecRunInv, PTL

=============================================================================
