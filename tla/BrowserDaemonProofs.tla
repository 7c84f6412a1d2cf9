------------------------- MODULE BrowserDaemonProofs -------------------------
(***************************************************************************)
(* First the lemmas about the steps both daemon modes share: each          *)
(* preserves BridgeInv, and is a step of RequestService or a stutter.      *)
(* Then the invariants of the browser mode and its refinement, for any     *)
(* number of connections and requests.                                     *)
(***************************************************************************)
EXTENDS BrowserDaemon, SequenceTheorems, TLAPS

\* The constants, as the lemmas use them.
LEMMA ConstantsFact ==
    /\ NoConn \notin Conn
    /\ NoRequest \notin Request
    /\ DiskFailures \subseteq Conn
BY ConstantsAssumption

\* Whatever is in the outcome fields is not confused with "nothing yet".
LEMMA OutcomeIsNotNone ==
    ASSUME NEW o \in Outcome PROVE o # NoOutcome
BY DEF Outcome, NoOutcome, Code

\* The daemon's own failures are outcomes that carry nobody's answer.
LEMMA FailureIsOutcome ==
    ASSUME NEW code \in Code \ {"Success"}
    PROVE  /\ Failure(code) \in Outcome
           /\ Failure(code).of = NoRequest
           /\ Failure(code).code = code
           /\ Failure(code) # NoOutcome
BY DEF Failure, Outcome, NoOutcome, Code

\* The initial state satisfies the invariant.
LEMMA BaseInitInv == BaseInit /\ disk \in Metadata => BridgeInv
<1> SUFFICES ASSUME BaseInit, disk \in Metadata PROVE BridgeInv
  OBVIOUS
<1>1. BaseTypeOK
  BY ConstantsFact DEF BaseInit, BaseTypeOK, InitialSnapshot, Snapshot, Metadata, BridgeStatus, PC
<1>2. Coherent /\ NoLostWaiter /\ WaitsForHead
  BY DEF BaseInit, Coherent, NoLostWaiter, WaitsForHead
<1>3. OwnAnswer /\ OneshotsOwn
  BY DEF BaseInit, OwnAnswer, OneshotsOwn, NoOutcome
<1> QED
  BY <1>1, <1>2, <1>3 DEF BridgeInv

\* The invariant does not depend on anything outside the base variables.
LEMMA BaseStutterInv ==
    ASSUME BridgeInv, UNCHANGED baseVars PROVE BridgeInv'
BY DEF BridgeInv, baseVars, BaseTypeOK, Coherent, NoLostWaiter, OwnAnswer,
       OneshotsOwn, WaitsForHead, CanForward, ChannelOpen

\* A datagram arrives at the back of the queue.
LEMMA ReceiveInv ==
    ASSUME BridgeInv, NEW r \in Request, Receive(r) PROVE BridgeInv'
<1> USE DEF BridgeInv, Receive, bridgeVars, taskVars, peerVars
<1>1. /\ queue' \in Seq(Request)
      /\ queue # <<>> => queue' # <<>> /\ Head(queue') = Head(queue)
  BY AppendProperties DEF BaseTypeOK
<1>2. BaseTypeOK'
  BY <1>1 DEF BaseTypeOK
<1>3. Coherent' /\ OwnAnswer' /\ OneshotsOwn' /\ WaitsForHead'
  BY <1>1 DEF Coherent, OwnAnswer, OneshotsOwn, WaitsForHead
<1>4. NoLostWaiter'
  BY <1>1 DEF NoLostWaiter, WaitsForHead
<1> QED
  BY <1>2, <1>3, <1>4

\* What the client of r is sent is the outcome, or nothing.
LEMMA AnswerFact ==
    ASSUME NEW r, NEW outcome \in Outcome, Answer(r, outcome)
    PROVE  /\ \E o \in Outcome :
                /\ o = outcome \/ (o.of = NoRequest /\ o.code # "Success")
                /\ reply' = [reply EXCEPT ![r] = o]
           /\ queue' = Tail(queue) /\ serving' = "idle"
<1>1. Failure("Lost") \in Outcome /\ Failure("Lost").of = NoRequest /\ Failure("Lost").code # "Success"
  BY FailureIsOutcome DEF Code
<1> QED
  BY <1>1 DEF Answer

\* Sending a reply that carries the request's own answer, or nobody's.
LEMMA AnswerInv ==
    ASSUME BridgeInv, queue # <<>>, NEW outcome \in Outcome,
           outcome.of \in {Head(queue), NoRequest},
           outcome.code = "Success" => outcome.of = Head(queue) /\ Head(queue) \in answered,
           Answer(Head(queue), outcome),
           UNCHANGED <<bridgeVars, oneshot, taskVars, peerVars>>
    PROVE  BridgeInv'
<1> USE DEF BridgeInv, bridgeVars, taskVars, peerVars
<1>0. PICK o \in Outcome :
        /\ o = outcome \/ (o.of = NoRequest /\ o.code # "Success")
        /\ reply' = [reply EXCEPT ![Head(queue)] = o]
  BY AnswerFact
<1>a. queue' = Tail(queue) /\ serving' = "idle"
  BY AnswerFact
<1>1. Head(queue) \in Request /\ queue' = Tail(queue) /\ queue' \in Seq(Request) /\ serving' = "idle"
  BY <1>a, HeadTailProperties DEF BaseTypeOK
<1>2. BaseTypeOK'
  BY <1>0, <1>1 DEF BaseTypeOK
<1>3. Coherent' /\ OneshotsOwn' /\ WaitsForHead' /\ NoLostWaiter'
  BY <1>1 DEF Coherent, OneshotsOwn, WaitsForHead, NoLostWaiter
<1>4. OwnAnswer'
  BY <1>0, <1>1 DEF OwnAnswer, BaseTypeOK
<1> QED
  BY <1>2, <1>3, <1>4

\* The five steps of the request loop.
LEMMA RequestLoopInv ==
    ASSUME BridgeInv, RequestLoop PROVE BridgeInv'
<1>0. queue # <<>>
  BY DEF RequestLoop, RejectRequest, EnqueueRequest, RefuseRequest, SendReply,
         TimeOut, BridgeInv, WaitsForHead
<1>h. Head(queue) \in Request
  BY <1>0, HeadTailProperties DEF BridgeInv, BaseTypeOK
<1>1. CASE RejectRequest
  BY <1>0, <1>1, AnswerInv, FailureIsOutcome DEF RejectRequest, Code
<1>2. CASE RefuseRequest
  BY <1>0, <1>2, AnswerInv, FailureIsOutcome DEF RefuseRequest, Code
<1>3. CASE TimeOut
  BY <1>0, <1>3, AnswerInv, FailureIsOutcome DEF TimeOut, Code
<1>4. CASE SendReply
  <2>1. oneshot[Head(queue)] \in Outcome
    BY <1>4, <1>h DEF SendReply, BridgeInv, BaseTypeOK
  <2>2. /\ oneshot[Head(queue)].of \in {Head(queue), NoRequest}
        /\ oneshot[Head(queue)].code = "Success" =>
              oneshot[Head(queue)].of = Head(queue) /\ Head(queue) \in answered
    BY <1>h DEF BridgeInv, OneshotsOwn
  <2> QED
    BY <1>0, <1>4, <2>1, <2>2, AnswerInv DEF SendReply
<1>5. CASE EnqueueRequest
  <2> USE <1>5 DEF EnqueueRequest, BridgeInv, peerVars
  <2>1. bridge.transport \in Conn /\ CanForward
    BY DEF CanForward, BaseTypeOK
  <2>2. outbound' \in [Conn -> Seq(Request)]
    BY <2>1, <1>h, AppendProperties DEF BaseTypeOK
  <2>3. BaseTypeOK'
    BY <2>2, <1>h DEF BaseTypeOK
  <2>4. Coherent'
    BY <2>1 DEF Coherent, CanForward, BaseTypeOK
  <2>5. NoLostWaiter'
    BY <1>h DEF NoLostWaiter, BaseTypeOK
  <2>6. OwnAnswer' /\ OneshotsOwn' /\ WaitsForHead'
    BY <1>0 DEF OwnAnswer, OneshotsOwn, WaitsForHead
  <2> QED
    BY <2>3, <2>4, <2>5, <2>6
<1> QED
  BY <1>1, <1>2, <1>3, <1>4, <1>5 DEF RequestLoop

\* Failing a set of requests resolves their oneshots and touches no other.
LEMMA FailPendingFact ==
    ASSUME BaseTypeOK, OneshotsOwn, NEW R \in SUBSET Request, oneshot' = FailPending(R),
           UNCHANGED answered
    PROVE  /\ oneshot' \in [Request -> Outcome \cup {NoOutcome}]
           /\ OneshotsOwn'
           /\ \A r \in R : oneshot'[r] # NoOutcome
           /\ \A r \in Request \ R : oneshot'[r] = oneshot[r]
<1>1. /\ Failure("ProcessNotRunning") \in Outcome
      /\ Failure("ProcessNotRunning").of = NoRequest
      /\ Failure("ProcessNotRunning").code = "ProcessNotRunning"
      /\ Failure("ProcessNotRunning") # NoOutcome
  BY FailureIsOutcome DEF Code
<1>2. \A r \in Request :
        oneshot'[r] = IF r \in R THEN Failure("ProcessNotRunning") ELSE oneshot[r]
  BY DEF FailPending
<1>3. oneshot' \in [Request -> Outcome \cup {NoOutcome}]
  BY <1>1 DEF FailPending, BaseTypeOK
<1>4. OneshotsOwn'
  BY <1>1, <1>2 DEF OneshotsOwn
<1> QED
  BY <1>1, <1>2, <1>3, <1>4

\* A connection attaches, whatever the bridge was doing.
LEMMA AttachInv ==
    ASSUME BridgeInv, NEW c \in Conn, pc[c] = "hello", Attach(c),
           UNCHANGED <<loopVars, peerVars>>
    PROVE  BridgeInv'
<1> USE DEF BridgeInv, Attach, loopVars, peerVars
<1>1. /\ oneshot' \in [Request -> Outcome \cup {NoOutcome}]
      /\ OneshotsOwn'
      /\ \A r \in bridge.pending : oneshot'[r] # NoOutcome
      /\ \A r \in Request \ bridge.pending : oneshot'[r] = oneshot[r]
  BY FailPendingFact DEF BaseTypeOK
<1>2. BaseTypeOK'
  BY <1>1 DEF BaseTypeOK, BridgeStatus, PC
<1>3. Coherent'
  BY ConstantsFact DEF Coherent
<1>4. NoLostWaiter'
  <2>1. serving = "waiting" => Head(queue) \in Request
    BY HeadTailProperties DEF BaseTypeOK, WaitsForHead
  <2>2. \A d \in Conn : pc[d] \in {"cloning", "writing"} => pc'[d] \in {"cloning", "writing"}
    BY DEF BaseTypeOK
  <2> QED
    BY <1>1, <2>1, <2>2 DEF NoLostWaiter
<1>5. OwnAnswer' /\ WaitsForHead'
  BY DEF OwnAnswer, WaitsForHead
<1> QED
  BY <1>1, <1>2, <1>3, <1>4, <1>5

\* A response is read on any connection, for a pending request or for none.
LEMMA CompleteResponseInv ==
    ASSUME BridgeInv, NEW c \in Conn, NEW m \in Message, m.type \in {"payload", "failed"},
           Consume(c, m), CompleteResponse(m),
           UNCHANGED <<disk, loopVars, taskVars>>
    PROVE  BridgeInv'
<1> USE DEF BridgeInv, Consume, CompleteResponse, loopVars, taskVars
<1>1. m.id \in Request
  BY DEF Message, PlainType
<1> DEFINE o == [code |-> IF m.type = "payload" THEN "Success" ELSE "GenericError",
                 of |-> m.id]
<1>2. o \in Outcome /\ o # NoOutcome /\ o.of = m.id
      /\ (o.code = "Success" => m.type = "payload")
  BY <1>1 DEF Outcome, NoOutcome, Code
<1>3. oneshot' = IF m.id \in bridge.pending THEN [oneshot EXCEPT ![m.id] = o] ELSE oneshot
  OBVIOUS
<1> HIDE DEF o
<1>4. oneshot' \in [Request -> Outcome \cup {NoOutcome}]
  BY <1>1, <1>2, <1>3 DEF BaseTypeOK
<1>5. BaseTypeOK'
  BY <1>1, <1>4 DEF BaseTypeOK
<1>6. Coherent'
  BY DEF Coherent, BaseTypeOK
<1>7. answered \subseteq answered' /\ (m.type = "payload" => m.id \in answered')
  OBVIOUS
<1>8. OneshotsOwn'
  BY <1>1, <1>2, <1>3, <1>7 DEF OneshotsOwn, BaseTypeOK
<1>9. OwnAnswer' /\ WaitsForHead'
  BY <1>7 DEF OwnAnswer, WaitsForHead
<1>10. NoLostWaiter'
  <2>1. serving = "waiting" => Head(queue) \in Request
    BY HeadTailProperties DEF BaseTypeOK, WaitsForHead
  <2>2. bridge'.pending = bridge.pending \ {m.id}
    BY DEF BaseTypeOK
  <2> QED
    BY <1>1, <1>2, <1>3, <2>1, <2>2 DEF NoLostWaiter, BaseTypeOK
<1> QED
  BY <1>5, <1>6, <1>8, <1>9, <1>10

\* A connection is marked disconnected or in error, being the active one or not.
LEMMA MarkInv ==
    ASSUME BridgeInv, NEW c \in Conn, NEW last \in BOOLEAN,
           NEW status \in {"disconnected", "error"},
           pc[c] = "loop", Mark(c, status, last),
           outbound' \in [Conn -> Seq(Request)], owed' \in [Conn -> SUBSET Request],
           UNCHANGED <<disk, loopVars, oneshot, snap, answered>>
    PROVE  BridgeInv'
<1> USE DEF BridgeInv, Mark, loopVars
<1>1. BaseTypeOK'
  <2>1. bridge' \in [status : BridgeStatus, browser : Conn \cup {NoConn},
                    transport : Conn \cup {NoConn}, active : Conn \cup {NoConn},
                    pending : SUBSET Request]
    BY DEF BaseTypeOK, BridgeStatus
  <2>2. pc' \in [Conn -> PC]
    BY DEF BaseTypeOK, PC
  <2>3. taken' \in [Conn -> SUBSET Request] /\ ending' \in [Conn -> BOOLEAN]
    BY DEF BaseTypeOK
  <2> QED BY <2>1, <2>2, <2>3 DEF BaseTypeOK
<1>2. Coherent'
  <2>1. CASE bridge.active = c
    <3>1. /\ bridge'.transport = NoConn /\ bridge'.active = NoConn
          /\ bridge'.pending = {} /\ bridge'.status = status
      BY <2>1 DEF BaseTypeOK
    <3>2. status # "attached"
      OBVIOUS
    <3> QED
      BY <3>1, <3>2 DEF Coherent
  <2>2. CASE bridge.active # c
    BY <2>2 DEF Coherent
  <2> QED
    BY <2>1, <2>2
<1>3. OwnAnswer' /\ OneshotsOwn' /\ WaitsForHead'
  BY DEF OwnAnswer, OneshotsOwn, WaitsForHead
<1>4. NoLostWaiter'
  BY DEF NoLostWaiter, BaseTypeOK
<1> QED
  BY <1>1, <1>2, <1>3, <1>4

\* A task moves between phases in which it holds no request.
LEMMA PhaseInv ==
    ASSUME BridgeInv, NEW c \in Conn, NEW phase \in PC,
           pc[c] \notin {"cloning", "writing"}, pc' = [pc EXCEPT ![c] = phase],
           outbound' \in [Conn -> Seq(Request)], owed' \in [Conn -> SUBSET Request],
           ending' \in [Conn -> BOOLEAN],
           UNCHANGED <<bridgeVars, loopVars, oneshot, snap, taken, answered>>
    PROVE  BridgeInv'
<1> USE DEF BridgeInv, bridgeVars, loopVars
<1>1. BaseTypeOK'
  BY DEF BaseTypeOK
<1>2. Coherent' /\ OwnAnswer' /\ OneshotsOwn' /\ WaitsForHead'
  BY DEF Coherent, OwnAnswer, OneshotsOwn, WaitsForHead
<1>3. NoLostWaiter'
  BY DEF NoLostWaiter, BaseTypeOK
<1> QED
  BY <1>1, <1>2, <1>3

\* What a task writes is something config.json may hold.
LEMMA SnapshotIsMetadata == Snapshot \subseteq Metadata
BY DEF Snapshot, Metadata

\* The two halves of persist_snapshot.
LEMMA PersistInv ==
    ASSUME BridgeInv, NEW c \in Conn, Persist(c) PROVE BridgeInv'
<1> USE DEF BridgeInv, bridgeVars, loopVars, peerVars
<1>1. CASE CloneSnapshot(c)
  <2> USE <1>1 DEF CloneSnapshot
  <2>1. BaseTypeOK'
    BY DEF BaseTypeOK, Snapshot, BridgeStatus, PC
  <2>2. Coherent' /\ OwnAnswer' /\ OneshotsOwn' /\ WaitsForHead'
    BY DEF Coherent, OwnAnswer, OneshotsOwn, WaitsForHead
  <2>3. NoLostWaiter'
    BY DEF NoLostWaiter, BaseTypeOK
  <2> QED
    BY <2>1, <2>2, <2>3
<1>2. CASE WriteSnapshot(c)
  <2> USE <1>2 DEF WriteSnapshot
  <2>1. /\ oneshot' \in [Request -> Outcome \cup {NoOutcome}]
        /\ OneshotsOwn'
        /\ \A r \in taken[c] : oneshot'[r] # NoOutcome
        /\ \A r \in Request \ taken[c] : oneshot'[r] = oneshot[r]
    BY FailPendingFact DEF BaseTypeOK
  <2>2. BaseTypeOK'
    BY <2>1, SnapshotIsMetadata DEF BaseTypeOK, PC
  <2>3. Coherent' /\ OwnAnswer' /\ WaitsForHead'
    BY DEF Coherent, OwnAnswer, WaitsForHead
  <2>4. NoLostWaiter'
    <3>1. serving = "waiting" => Head(queue) \in Request
      BY HeadTailProperties DEF BaseTypeOK, WaitsForHead
    <3>2. \A d \in Conn \ {c} : pc'[d] = pc[d] /\ taken'[d] = taken[d]
      BY DEF BaseTypeOK
    <3> QED
      BY <2>1, <3>1, <3>2 DEF NoLostWaiter
  <2> QED
    BY <2>1, <2>2, <2>3, <2>4
<1> QED
  BY <1>1, <1>2 DEF Persist

\* A request goes from the channel to the wire.
LEMMA SendOutboundInv ==
    ASSUME BridgeInv, NEW c \in Conn, SendOutbound(c) PROVE BridgeInv'
<1> USE DEF SendOutbound, BridgeInv
<1>1. Head(outbound[c]) \in Request /\ Tail(outbound[c]) \in Seq(Request)
  BY HeadTailProperties DEF BaseTypeOK
<1>2. outbound' \in [Conn -> Seq(Request)] /\ owed' \in [Conn -> SUBSET Request]
  BY <1>1 DEF BaseTypeOK
<1>3. BaseTypeOK'
  BY <1>2 DEF BaseTypeOK, bridgeVars, loopVars
<1>4. Coherent' /\ OwnAnswer' /\ OneshotsOwn' /\ WaitsForHead' /\ NoLostWaiter'
  BY DEF Coherent, OwnAnswer, OneshotsOwn, WaitsForHead, NoLostWaiter, bridgeVars, loopVars
<1> QED
  BY <1>3, <1>4

-----------------------------------------------------------------------------
(* The steps of the daemon are steps of RequestService or stutter.          *)

\* The daemon starts without requests and answers.
LEMMA InitRefines == BaseInit => Service!Init
BY DEF BaseInit, Service!Init, Service!NoReply, NoOutcome

\* A datagram is queued behind those that wait.
LEMMA ReceiveRefines ==
    ASSUME NEW r \in Request, Receive(r) PROVE Service!Receive(r)
BY DEF Receive, Service!Receive, Service!NoReply, NoOutcome, peerVars

\* A reply is a step of the service if it carries the head's own answer, once
\* the peer has produced it, or an error.
LEMMA AnswerRefines ==
    ASSUME BridgeInv, queue # <<>>, NEW outcome \in Outcome,
           outcome.of \in {Head(queue), NoRequest},
           outcome.code = "Success" => outcome.of = Head(queue) /\ Head(queue) \in answered,
           Answer(Head(queue), outcome), UNCHANGED answered
    PROVE  Service!Reply
<1>1. PICK o \in Outcome :
        /\ o = outcome \/ (o.of = NoRequest /\ o.code # "Success")
        /\ reply' = [reply EXCEPT ![Head(queue)] = o]
  BY AnswerFact
<1>2. o = [code |-> o.code, of |-> o.of] /\ o.code \in Code /\ queue' = Tail(queue)
  BY AnswerFact DEF Outcome
<1>3. CASE o.code = "Success"
  BY <1>1, <1>2, <1>3 DEF Service!Reply
<1>4. CASE o.code # "Success"
  <2>1. o.code \in Code \ {"Success"} /\ o.of \in {Head(queue), NoRequest}
    BY <1>1, <1>2, <1>4
  <2>2. reply' = [reply EXCEPT ![Head(queue)] = [code |-> o.code, of |-> o.of]]
    BY <1>1, <1>2
  <2> QED
    BY <1>2, <2>1, <2>2 DEF Service!Reply
<1> QED
  BY <1>3, <1>4

\* A step of the request loop answers the head of the queue, or is a stutter.
LEMMA RequestLoopRefines ==
    ASSUME BridgeInv, RequestLoop PROVE Service!Reply \/ UNCHANGED Service!vars
<1>0. queue # <<>>
  BY DEF RequestLoop, RejectRequest, EnqueueRequest, RefuseRequest, SendReply,
         TimeOut, BridgeInv, WaitsForHead
<1>h. Head(queue) \in Request
  BY <1>0, HeadTailProperties DEF BridgeInv, BaseTypeOK
<1>1. CASE RejectRequest
  BY <1>0, <1>1, AnswerRefines, FailureIsOutcome DEF RejectRequest, Code, peerVars
<1>2. CASE RefuseRequest
  BY <1>0, <1>2, AnswerRefines, FailureIsOutcome DEF RefuseRequest, Code, peerVars
<1>3. CASE TimeOut
  BY <1>0, <1>3, AnswerRefines, FailureIsOutcome DEF TimeOut, Code, peerVars
<1>4. CASE SendReply
  <2>1. oneshot[Head(queue)] \in Outcome
    BY <1>4, <1>h DEF SendReply, BridgeInv, BaseTypeOK
  <2>2. /\ oneshot[Head(queue)].of \in {Head(queue), NoRequest}
        /\ oneshot[Head(queue)].code = "Success" =>
              oneshot[Head(queue)].of = Head(queue) /\ Head(queue) \in answered
    BY <1>h DEF BridgeInv, OneshotsOwn
  <2> QED
    BY <1>0, <1>4, <2>1, <2>2, AnswerRefines DEF SendReply, peerVars
<1>5. CASE EnqueueRequest
  BY <1>5 DEF EnqueueRequest, Service!vars, peerVars
<1> QED
  BY <1>1, <1>2, <1>3, <1>4, <1>5 DEF RequestLoop

\* Reading a message produces at most one answer, of a request not answered yet.
LEMMA ConsumeRefines ==
    ASSUME NEW c \in Conn, NEW m \in Message, Consume(c, m), UNCHANGED loopVars
    PROVE  (\E r \in Request : Service!Produce(r)) \/ UNCHANGED Service!vars
<1>1. m.type = "payload" => m.id \in Request
  BY DEF Message, PlainType
<1>2. CASE m.type = "payload" /\ m.id \notin answered
  BY <1>1, <1>2 DEF Consume, loopVars, Service!Produce
<1>3. CASE ~(m.type = "payload" /\ m.id \notin answered)
  <2>1. answered' = answered
    BY <1>3 DEF Consume
  <2> QED
    BY <2>1 DEF loopVars, Service!vars
<1> QED
  BY <1>2, <1>3

\* persist_snapshot answers nobody.
LEMMA PersistRefines ==
    ASSUME NEW c \in Conn, Persist(c) PROVE UNCHANGED Service!vars
BY DEF Persist, CloneSnapshot, WriteSnapshot, loopVars, peerVars, Service!vars

-----------------------------------------------------------------------------
(* What RequestService promises, in the daemon's variables.                 *)

\* A request is in the queue once, and not after it was answered.
QueuedOnce ==
    /\ queue \in Seq(Request) /\ DOMAIN reply = Request
    /\ \A i, j \in 1..Len(queue) : i # j => queue[i] # queue[j]
    /\ \A i \in 1..Len(queue) : reply[queue[i]] = Service!NoReply

\* RequestService queues a request once, before its answer.
LEMMA ServiceQueuedOnce == QueuedOnce /\ [Service!Next]_(Service!vars) => QueuedOnce'
<1> SUFFICES ASSUME QueuedOnce, Service!Next \/ UNCHANGED Service!vars PROVE QueuedOnce'
  OBVIOUS
<1> USE DEF QueuedOnce
<1>1. ASSUME NEW r \in Request, Service!Receive(r) PROVE QueuedOnce'
  <2>1. /\ queue' \in Seq(Request) /\ Len(queue') = Len(queue) + 1 /\ Len(queue) \in Nat
        /\ \A i \in 1..Len(queue) : queue'[i] = queue[i]
        /\ queue'[Len(queue) + 1] = r
        /\ reply' = reply /\ reply[r] = Service!NoReply
        /\ \A i \in 1..Len(queue) : queue[i] # r
    BY <1>1, AppendProperties DEF Service!Receive
  <2>2. \A i \in 1..Len(queue') :
           (i \in 1..Len(queue) /\ queue'[i] = queue[i]) \/ (i = Len(queue) + 1 /\ queue'[i] = r)
    BY <2>1
  <2>3. \A i, j \in 1..Len(queue') : i # j => queue'[i] # queue'[j]
    BY <2>1, <2>2
  <2>4. \A i \in 1..Len(queue') : reply'[queue'[i]] = Service!NoReply'
    BY <2>1, <2>2 DEF Service!NoReply
  <2> QED
    BY <2>1, <2>3, <2>4
<1>2. CASE Service!Reply
  <2>1. /\ queue # <<>> /\ queue' = Tail(queue) /\ DOMAIN reply' = Request
        /\ \A r \in Request : r # Head(queue) => reply'[r] = reply[r]
    BY <1>2 DEF Service!Reply
  <2>2. /\ queue' \in Seq(Request) /\ Head(queue) = queue[1] /\ 1 \in 1..Len(queue)
        /\ \A i \in 1..Len(queue') : queue'[i] = queue[i + 1] /\ i + 1 \in 1..Len(queue) /\ i + 1 # 1
    BY <2>1, HeadTailProperties
  <2>3. \A i \in 1..Len(queue') : queue'[i] # Head(queue) /\ queue'[i] \in Request
    BY <2>2
  <2>4. \A i \in 1..Len(queue') : reply'[queue'[i]] = Service!NoReply'
    BY <2>1, <2>2, <2>3 DEF Service!NoReply
  <2>5. \A i, j \in 1..Len(queue') : i # j => queue'[i] # queue'[j]
    <3> SUFFICES ASSUME NEW i \in 1..Len(queue'), NEW j \in 1..Len(queue'), i # j
                 PROVE  queue'[i] # queue'[j]
      OBVIOUS
    <3>1. i + 1 # j + 1
      OBVIOUS
    <3> QED
      BY <2>2, <3>1
  <2> QED
    BY <2>1, <2>2, <2>4, <2>5
<1>3. CASE (\E r \in Request : Service!Produce(r)) \/ UNCHANGED Service!vars
  BY <1>3 DEF Service!Produce, Service!vars, Service!NoReply
<1> QED
  BY <1>1, <1>2, <1>3 DEF Service!Next

\* QueuedOnce holds of every behaviour of RequestService.
LEMMA ServiceInvariant == ServiceSpec => []QueuedOnce
<1>1. Service!Init => QueuedOnce
  BY DEF Service!Init, QueuedOnce
<1> QED
  BY <1>1, ServiceQueuedOnce, PTL DEF ServiceSpec, Service!Spec

\* A reply is for the head of the queue, and for a request that had none.
LEMMA ServiceReplyFact ==
    ASSUME QueuedOnce, Service!Next \/ UNCHANGED Service!vars,
           NEW r \in Request, reply'[r] # reply[r]
    PROVE  queue # <<>> /\ r = queue[1] /\ reply[r] = Service!NoReply
<1>1. Service!Reply
  BY DEF Service!Next, Service!Receive, Service!Produce, Service!vars
<1>2. queue # <<>> /\ \A q \in Request : q # Head(queue) => reply'[q] = reply[q]
  BY <1>1 DEF Service!Reply, QueuedOnce
<1>3. Head(queue) = queue[1] /\ 1 \in 1..Len(queue)
  BY <1>2 DEF QueuedOnce
<1> QED
  BY <1>2, <1>3 DEF QueuedOnce

\* Every behaviour of RequestService gives a request one answer.
LEMMA ServiceAnsweredOnce == ServiceSpec => Service!AnsweredOnce
<1> DEFINE Once == \A r \in Request : reply[r] # Service!NoReply =>
                      reply'[r] = reply[r] /\ \A i \in 1..Len(queue') : queue'[i] # r
<1>1. QueuedOnce /\ QueuedOnce' /\ [Service!Next]_(Service!vars) => Once
  <2> SUFFICES ASSUME QueuedOnce, QueuedOnce', Service!Next \/ UNCHANGED Service!vars,
                      NEW r \in Request, reply[r] # Service!NoReply
               PROVE  reply'[r] = reply[r] /\ \A i \in 1..Len(queue') : queue'[i] # r
    BY DEF Service!vars
  <2>1. reply'[r] = reply[r]
    BY ServiceReplyFact
  <2>2. \A i \in 1..Len(queue') : reply'[queue'[i]] = Service!NoReply
    BY DEF QueuedOnce, Service!NoReply
  <2> QED
    BY <2>1, <2>2
<1>2. QueuedOnce /\ QueuedOnce' /\ [Service!Next]_(Service!vars) => [Once]_(Service!vars)
  BY <1>1
<1> QED
  BY <1>2, ServiceInvariant, PTL DEF ServiceSpec, Service!Spec, Service!AnsweredOnce

\* Every behaviour of RequestService answers in the order of the queue.
LEMMA ServiceInOrder == ServiceSpec => Service!InOrder
<1> DEFINE Order == \A i, j \in 1..Len(queue) :
                       i < j /\ reply'[queue[j]] # Service!NoReply =>
                           reply'[queue[i]] # Service!NoReply
<1>1. QueuedOnce /\ [Service!Next]_(Service!vars) => Order
  <2> SUFFICES ASSUME QueuedOnce, Service!Next \/ UNCHANGED Service!vars,
                      NEW i \in 1..Len(queue), NEW j \in 1..Len(queue), i < j,
                      reply'[queue[j]] # Service!NoReply
               PROVE  FALSE
    BY DEF Service!vars
  <2>1. queue[j] \in Request /\ reply[queue[j]] = Service!NoReply
    BY DEF QueuedOnce
  <2>2. queue[j] = queue[1] /\ 1 \in 1..Len(queue) /\ j # 1
    BY <2>1, ServiceReplyFact
  <2> QED
    BY <2>2 DEF QueuedOnce
<1>2. QueuedOnce /\ [Service!Next]_(Service!vars) => [Order]_(Service!vars)
  BY <1>1
<1> QED
  BY <1>2, ServiceInvariant, PTL DEF ServiceSpec, Service!Spec, Service!InOrder

-----------------------------------------------------------------------------
(* The browser mode.                                                        *)

\* What a step may assume of the messages a peer can send.
LEMMA ReadableFact ==
    ASSUME BaseTypeOK, NEW c \in Conn, NEW m \in Readable(c)
    PROVE  /\ m \in Message
           /\ m.type \in {"payload", "failed"} \cup PlainType
           /\ m.type \in PlainType => m.id = NoRequest
BY DEF Readable, Message, BaseTypeOK, PlainType

\* Reading a message of a peer keeps BridgeInv.
LEMMA ReadInv ==
    ASSUME BridgeInv, NEW c \in Conn, Read(c) PROVE BridgeInv'
<1> PICK m \in Readable(c) :
        /\ Consume(c, m)
        /\ \/ /\ m.type \in {"payload", "failed"}
              /\ CompleteResponse(m)
              /\ UNCHANGED <<pc, taken, ending>>
           \/ /\ m.type = "attached"
              /\ pc' = [pc EXCEPT ![c] = "refreshing"]
              /\ ending' = [ending EXCEPT ![c] = FALSE]
              /\ UNCHANGED <<bridge, oneshot, taken>>
           \/ /\ m.type \in {"error", "disconnected"}
              /\ Mark(c, m.type, FALSE)
              /\ UNCHANGED oneshot
           \/ /\ m.type = "close"
              /\ Mark(c, "disconnected", TRUE)
              /\ UNCHANGED oneshot
           \/ /\ m.type \in {"garbage", "reset"}
              /\ ReturnError(c)
           \/ /\ m.type = "hello"
              /\ UNCHANGED <<bridge, oneshot, pc, taken, ending>>
  BY DEF Read
<1>0. /\ m \in Message /\ pc[c] = "loop"
      /\ m.type \in {"payload", "failed"} \cup PlainType
      /\ m.type \in PlainType => m.id = NoRequest
      /\ UNCHANGED <<disk, loopVars, snap, outbound>>
  BY ReadableFact DEF BridgeInv, Read
<1>1. /\ owed' \in [Conn -> SUBSET Request]
      /\ outbound' \in [Conn -> Seq(Request)]
      /\ ending \in [Conn -> BOOLEAN]
      /\ [ending EXCEPT ![c] = FALSE] \in [Conn -> BOOLEAN]
  BY <1>0 DEF Consume, BridgeInv, BaseTypeOK
<1>2. m.type # "payload" => UNCHANGED answered
  BY DEF Consume
<1>3. CASE m.type \in {"payload", "failed"} /\ CompleteResponse(m) /\ UNCHANGED <<pc, taken, ending>>
  BY <1>0, <1>3, CompleteResponseInv DEF taskVars
<1>4. CASE /\ m.type = "attached"
           /\ pc' = [pc EXCEPT ![c] = "refreshing"]
           /\ ending' = [ending EXCEPT ![c] = FALSE]
           /\ UNCHANGED <<bridge, oneshot, taken>>
  BY <1>0, <1>1, <1>2, <1>4, PhaseInv DEF PC, bridgeVars
<1>5. CASE m.type \in {"error", "disconnected"} /\ Mark(c, m.type, FALSE) /\ UNCHANGED oneshot
  BY <1>0, <1>1, <1>2, <1>5, MarkInv
<1>6. CASE m.type = "close" /\ Mark(c, "disconnected", TRUE) /\ UNCHANGED oneshot
  BY <1>0, <1>1, <1>2, <1>6, MarkInv
<1>7. CASE m.type \in {"garbage", "reset"} /\ ReturnError(c)
  BY <1>0, <1>1, <1>2, <1>7, PhaseInv DEF ReturnError, PC, bridgeVars
<1>8. CASE m.type = "hello" /\ UNCHANGED <<bridge, oneshot, pc, taken, ending>>
  <2>1. [pc EXCEPT ![c] = "loop"] = pc
    BY <1>0 DEF BridgeInv, BaseTypeOK
  <2> QED
    BY <1>0, <1>1, <1>2, <1>8, <2>1, PhaseInv DEF PC, bridgeVars
<1> QED
  BY <1>3, <1>4, <1>5, <1>6, <1>7, <1>8

\* A connection task keeps BridgeInv at each of its awaits.
LEMMA TaskInv ==
    ASSUME BridgeInv, NEW c \in Conn, Accept(c) \/ Task(c) PROVE BridgeInv'
<1>1. /\ outbound \in [Conn -> Seq(Request)] /\ owed \in [Conn -> SUBSET Request]
      /\ ending \in [Conn -> BOOLEAN] /\ pc \in [Conn -> PC]
  BY DEF BridgeInv, BaseTypeOK
<1>2. CASE Accept(c)
  BY <1>1, <1>2, PhaseInv DEF Accept, PC, peerVars
<1>3. CASE Hello(c)
  BY <1>3, AttachInv DEF Hello
<1>4. CASE NoHello(c)
  BY <1>1, <1>4, PhaseInv DEF NoHello, PC, peerVars
<1>5. CASE SendOutbound(c)
  BY <1>5, SendOutboundInv
<1>6. CASE SendFails(c)
  BY <1>1, <1>6, PhaseInv DEF SendFails, ReturnError, PC, bridgeVars, peerVars
<1>7. CASE OutboundClosed(c)
  BY <1>1, <1>7, PhaseInv DEF OutboundClosed, PC, peerVars
<1>8. CASE Read(c)
  BY <1>8, ReadInv
<1>9. CASE Persist(c)
  BY <1>9, PersistInv
<1> QED
  BY <1>2, <1>3, <1>4, <1>5, <1>6, <1>7, <1>8, <1>9 DEF Task

\* BridgeInv is inductive in browser mode: any interleaving of connection tasks
\* that attach, replace each other, persist and end around one request loop.
THEOREM BrowserBridgeInvariant == Spec => []BridgeInv
<1>1. Init => BridgeInv
  BY BaseInitInv, SnapshotIsMetadata DEF Init, InitialSnapshot, Snapshot, BridgeStatus
<1>2. BridgeInv /\ [Next]_vars => BridgeInv'
  <2> SUFFICES ASSUME BridgeInv, [Next]_vars PROVE BridgeInv'
    OBVIOUS
  <2>1. ASSUME NEW r \in Request, Receive(r) PROVE BridgeInv'
    BY <2>1, ReceiveInv
  <2>2. CASE RequestLoop
    BY <2>2, RequestLoopInv
  <2>3. ASSUME NEW c \in Conn, Accept(c) \/ Task(c) PROVE BridgeInv'
    BY <2>3, TaskInv
  <2>4. CASE UNCHANGED vars
    BY <2>4, BaseStutterInv DEF vars
  <2> QED
    BY <2>1, <2>2, <2>3, <2>4 DEF Next
<1> QED
  BY <1>1, <1>2, PTL DEF Spec

\* Status, transport, active connection and pending map stay coherent.
THEOREM BrowserCoherent == Spec => []Coherent
<1>1. BridgeInv => Coherent
  BY DEF BridgeInv
<1> QED
  BY <1>1, BrowserBridgeInvariant, PTL

\* The request loop never waits on a oneshot nobody can resolve.
THEOREM BrowserNoLostWaiter == Spec => []NoLostWaiter
<1>1. BridgeInv => NoLostWaiter
  BY DEF BridgeInv
<1> QED
  BY <1>1, BrowserBridgeInvariant, PTL

\* No client is sent the answer to another request.
THEOREM BrowserOwnAnswer == Spec => []OwnAnswer
<1>1. BridgeInv => OwnAnswer
  BY DEF BridgeInv
<1> QED
  BY <1>1, BrowserBridgeInvariant, PTL

\* In browser mode the daemon implements RequestService: serial, in order, each
\* request answered at most once, with its own answer or an error.
THEOREM BrowserImplementsService == Spec => ServiceSpec
<1>1. Init => Service!Init
  BY InitRefines DEF Init
<1>2. BridgeInv /\ [Next]_vars => [Service!Next]_(Service!vars)
  <2> SUFFICES ASSUME BridgeInv, [Next]_vars
               PROVE  Service!Next \/ UNCHANGED Service!vars
    OBVIOUS
  <2>1. ASSUME NEW r \in Request, Receive(r) PROVE Service!Next
    BY <2>1, ReceiveRefines DEF Service!Next
  <2>2. CASE RequestLoop
    BY <2>2, RequestLoopRefines DEF Service!Next
  <2>3. ASSUME NEW c \in Conn, Read(c) PROVE Service!Next \/ UNCHANGED Service!vars
    <3>1. PICK m \in Readable(c) : Consume(c, m)
      BY <2>3 DEF Read
    <3>2. m \in Message /\ UNCHANGED loopVars
      BY <2>3, ReadableFact DEF BridgeInv, Read
    <3> QED
      BY <3>1, <3>2, ConsumeRefines DEF Service!Next
  <2>4. ASSUME NEW c \in Conn, Accept(c) \/ (Task(c) /\ ~Read(c))
        PROVE  UNCHANGED Service!vars
    BY <2>4, PersistRefines DEF Accept, Task, Hello, NoHello, SendOutbound, SendFails,
       OutboundClosed, loopVars, peerVars, Service!vars
  <2>5. CASE UNCHANGED vars
    BY <2>5 DEF vars, baseVars, Service!vars
  <2> QED
    BY <2>1, <2>2, <2>3, <2>4, <2>5 DEF Next, Task
<1> QED
  BY <1>1, <1>2, BrowserBridgeInvariant, PTL DEF Spec, ServiceSpec, Service!Spec

\* A client is answered once, and its request never served again.
THEOREM BrowserAnsweredOnce == Spec => Service!AnsweredOnce
BY BrowserImplementsService, ServiceAnsweredOnce, PTL

\* Clients are answered in the order in which their requests came.
THEOREM BrowserInOrder == Spec => Service!InOrder
BY BrowserImplementsService, ServiceInOrder, PTL

\* Only a step of the active connection's task can take the transport away, and
\* only a connection that says hello can take it over.
THEOREM BrowserOnlyOwnerDetaches == Spec => OnlyOwnerDetaches
<1> DEFINE Kept == \A c \in Conn : bridge.transport = c /\ bridge'.transport # c =>
                      \/ /\ bridge'.transport = NoConn
                         /\ pc[c] = "loop" /\ pc'[c] = "cloning"
                         /\ taken'[c] = bridge.pending
                      \/ \E d \in Conn :
                            bridge'.transport = d /\ pc[d] = "hello" /\ pc'[d] = "cloning"
<1>1. BridgeInv /\ [Next]_vars => [Kept]_vars
  <2> SUFFICES ASSUME BridgeInv, Next, NEW c \in Conn,
                      bridge.transport = c, bridge'.transport # c
               PROVE  \/ /\ bridge'.transport = NoConn
                         /\ pc[c] = "loop" /\ pc'[c] = "cloning"
                         /\ taken'[c] = bridge.pending
                      \/ \E d \in Conn :
                            bridge'.transport = d /\ pc[d] = "hello" /\ pc'[d] = "cloning"
    OBVIOUS
  <2>0. bridge.active = c /\ bridge \in [status : BridgeStatus, browser : Conn \cup {NoConn},
                   transport : Conn \cup {NoConn}, active : Conn \cup {NoConn},
                   pending : SUBSET Request]
         /\ pc \in [Conn -> PC] /\ taken \in [Conn -> SUBSET Request]
    BY DEF BridgeInv, Coherent, BaseTypeOK
  <2>1. ~ \E r \in Request : Receive(r)
    BY DEF Receive, bridgeVars
  <2>2. ~RequestLoop
    BY <2>0 DEF RequestLoop, RejectRequest, EnqueueRequest, RefuseRequest, SendReply, TimeOut,
       bridgeVars
  <2>3. PICK d \in Conn : Accept(d) \/ Task(d)
    BY <2>1, <2>2 DEF Next
  <2>4. CASE Hello(d)
    BY <2>0, <2>4 DEF Hello, Attach
  <2>5. CASE Read(d)
    <3>1. \E status \in {"error", "disconnected"}, last \in BOOLEAN : Mark(d, status, last)
      BY <2>0, <2>5 DEF Read, CompleteResponse, ReturnError
    <3>2. d = c /\ pc[d] = "loop"
      BY <2>0, <2>5, <3>1 DEF Read, Mark
    <3> QED
      BY <2>0, <3>1, <3>2 DEF Mark
  <2>6. ~(Accept(d) \/ NoHello(d) \/ SendOutbound(d) \/ SendFails(d) \/ OutboundClosed(d) \/ Persist(d))
    BY DEF Accept, NoHello, SendOutbound, SendFails, ReturnError, OutboundClosed, Persist,
       CloneSnapshot, WriteSnapshot, bridgeVars
  <2> QED
    BY <2>3, <2>4, <2>5, <2>6 DEF Task
<1> QED
  BY <1>1, BrowserBridgeInvariant, PTL DEF Spec, OnlyOwnerDetaches
=============================================================================
