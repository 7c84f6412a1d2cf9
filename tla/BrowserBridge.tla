---------------------------- MODULE BrowserBridge ----------------------------
(***************************************************************************)
(* The bridge of the apw daemon (struct BrowserBridge, rust/src/daemon.rs) *)
(* and the serial UDP request loop that uses it: everything the browser    *)
(* mode and the native mode of the daemon share.  Each connection to a     *)
(* peer (the Chrome extension or the native host) has a task of its own;   *)
(* BrowserDaemon and NativeDaemon add the two connection handlers.         *)
(*                                                                         *)
(* One action is one critical section of the bridge's mutex or one await   *)
(* point of a task.  persist_snapshot clones the snapshot under the lock   *)
(* and writes config.json after releasing it, so cloning and writing are   *)
(* two steps.                                                              *)
(***************************************************************************)
EXTENDS Naturals, Sequences, FiniteSets

CONSTANTS
    Conn,           \* connections; a connection is used once, as its id is
    Request,        \* datagrams of the clients; each gets a fresh bridge id
    Oversized,      \* requests longer than MAX_HELPER_PAYLOAD
    Malformed,      \* requests that are not JSON
    Unreachable,    \* requests whose client a datagram may fail to reach
    NoConn,
    NoRequest,
    DiskFailures    \* connections whose task may fail to write

ASSUME ConstantsAssumption ==
    /\ NoConn \notin Conn
    /\ NoRequest \notin Request
    /\ Oversized \subseteq Request
    /\ Malformed \subseteq Request
    /\ Unreachable \subseteq Request
    /\ DiskFailures \subseteq Conn

VARIABLES
    bridge,     \* BridgeState: snapshot, transport, active_connection_id, pending
    queue,      \* the UDP socket's buffer; its head is the datagram in service
    serving,    \* where the request loop is
    oneshot,    \* per request, what was sent into its oneshot channel
    reply,      \* per request, the datagram sent back to its client, if send_to worked
    pc,         \* per connection, where its task is
    snap,       \* per connection, the snapshot its task has cloned
    taken,      \* per connection, the pending entries its task took to fail
    ending,     \* per connection, whether its task ends after persisting
    outbound,   \* per connection, its unbounded mpsc channel
    owed,       \* per connection, requests written to it and not answered
    answered,   \* requests for which a peer has sent a helper payload
    disk        \* bridge_status and bridge_browser of config.json

bridgeVars == <<bridge, disk>>
loopVars   == <<queue, serving, reply>>
taskVars   == <<pc, snap, taken, ending, outbound>>
peerVars   == <<owed, answered>>
baseVars   == <<bridge, disk, queue, serving, oneshot, reply,
                pc, snap, taken, ending, outbound, owed, answered>>

BridgeStatus == {"waiting", "attached", "disconnected", "error"}
Snapshot     == [status : BridgeStatus, browser : Conn \cup {NoConn}]
\* What config.json may hold: a snapshot, what the native mode writes before there
\* is one, or nothing, in a file that is gone or that another process made anew.
Metadata     == [status : BridgeStatus \cup {"none"}, browser : Conn \cup {NoConn, "native"}]
NoMetadata   == [status |-> "none", browser |-> NoConn]
\* "Lost" stands for a reply that send_to failed to send: its client gets nothing.
Code         == {"Success", "GenericError", "InvalidParam", "InvalidMessageFormat",
                 "ProcessNotRunning", "CommunicationTimeout", "Lost"}
\* A result of a request; "of" names the request whose answer it carries.
Outcome      == [code : Code, of : Request \cup {NoRequest}]
NoOutcome    == [code |-> "none", of |-> NoRequest]
Failure(code) == [code |-> code, of |-> NoRequest]

\* What a task can read from its connection, "id" being the request_id of a
\* response.  "failed" stands for a response with ok = false, and for one whose
\* payload is missing or has not the helper's shape; "garbage" for what does not
\* parse; "close" for an orderly close and "reset" for a broken connection.
PlainType == {"hello", "attached", "error", "disconnected", "garbage", "close", "reset"}
Message ==
    [type : {"payload", "failed"}, id : Request] \cup
    [type : PlainType, id : {NoRequest}]

PC == {"new", "hello", "loop", "cloning", "refreshing", "writing", "closed"}

InitialSnapshot == [status |-> "waiting", browser |-> NoConn]

BaseTypeOK ==
    /\ bridge \in [status : BridgeStatus, browser : Conn \cup {NoConn},
                   transport : Conn \cup {NoConn}, active : Conn \cup {NoConn},
                   pending : SUBSET Request]
    /\ disk \in Metadata
    /\ queue \in Seq(Request)
    /\ serving \in {"idle", "waiting"}
    /\ oneshot \in [Request -> Outcome \cup {NoOutcome}]
    /\ reply \in [Request -> Outcome \cup {NoOutcome}]
    /\ pc \in [Conn -> PC]
    /\ snap \in [Conn -> Snapshot]
    /\ taken \in [Conn -> SUBSET Request]
    /\ ending \in [Conn -> BOOLEAN]
    /\ outbound \in [Conn -> Seq(Request)]
    /\ owed \in [Conn -> SUBSET Request]
    /\ answered \in SUBSET Request

\* BridgeState::default, before any connection and any request.
BaseInit ==
    /\ bridge = [status |-> "waiting", browser |-> NoConn, transport |-> NoConn,
                 active |-> NoConn, pending |-> {}]
    /\ queue = <<>>
    /\ serving = "idle"
    /\ oneshot = [r \in Request |-> NoOutcome]
    /\ reply = [r \in Request |-> NoOutcome]
    /\ pc = [c \in Conn |-> "new"]
    /\ snap = [c \in Conn |-> InitialSnapshot]
    /\ taken = [c \in Conn |-> {}]
    /\ ending = [c \in Conn |-> FALSE]
    /\ outbound = [c \in Conn |-> <<>>]
    /\ owed = [c \in Conn |-> {}]
    /\ answered = {}

-----------------------------------------------------------------------------
(* The request loop: recv_from, enqueue_request, wait, send_envelope.       *)

\* A datagram reaches the daemon's socket.  It stays at the head of "queue"
\* while it is in service: the loop serves one request at a time.
Receive(r) ==
    /\ reply[r] = NoOutcome
    /\ \A i \in 1..Len(queue) : queue[i] # r
    /\ queue' = Append(queue, r)
    /\ UNCHANGED <<bridgeVars, serving, oneshot, reply, taskVars, peerVars>>

\* Mutant: the datagram is peeked at and never taken off the socket.
AnswerPeeked(r, outcome) ==
    /\ reply' = [reply EXCEPT ![r] = outcome]
    /\ serving' = "idle"
    /\ UNCHANGED queue

\* send_envelope_to_client: the loop ignores that it may fail.
Answer(r, outcome) ==
    /\ \/ reply' = [reply EXCEPT ![r] = outcome]
       \/ r \in Unreachable /\ reply' = [reply EXCEPT ![r] = Failure("Lost")]
    /\ queue' = Tail(queue)
    /\ serving' = "idle"

\* A datagram above MAX_HELPER_PAYLOAD, or one that is not JSON, is answered
\* before the bridge is consulted.
RejectRequest ==
    /\ serving = "idle"
    /\ queue # <<>>
    /\ LET r == Head(queue) IN
        /\ r \in Oversized \cup Malformed
        /\ Answer(r, Failure(IF r \in Oversized THEN "InvalidParam"
                                               ELSE "InvalidMessageFormat"))
    /\ UNCHANGED <<bridgeVars, oneshot, taskVars, peerVars>>

\* The receiving half of a connection's channel lives as long as its task.
ChannelOpen(c) == pc[c] \in {"loop", "cloning", "refreshing", "writing"}

CanForward ==
    /\ bridge.transport # NoConn
    /\ bridge.status = "attached"
    /\ ChannelOpen(bridge.transport)

\* enqueue_request, under the lock: register the oneshot, push to the channel.
EnqueueRequest ==
    /\ serving = "idle"
    /\ queue # <<>>
    /\ LET r == Head(queue) IN
        /\ r \notin Oversized \cup Malformed
        /\ CanForward
        /\ bridge' = [bridge EXCEPT !.pending = @ \cup {r}]
        /\ outbound' = [outbound EXCEPT ![bridge.transport] = Append(@, r)]
    /\ serving' = "waiting"
    /\ UNCHANGED <<disk, queue, oneshot, reply, pc, snap, taken, ending, peerVars>>

\* enqueue_request with no transport, a status other than attached, or a
\* channel whose task is gone (the entry is inserted and removed again).
RefuseRequest ==
    /\ serving = "idle"
    /\ queue # <<>>
    /\ Head(queue) \notin Oversized \cup Malformed
    /\ ~CanForward
    /\ Answer(Head(queue), Failure("ProcessNotRunning"))
    /\ UNCHANGED <<bridgeVars, oneshot, taskVars, peerVars>>

\* The receiver resolved: the loop sends the envelope and takes the next one.
SendReply ==
    /\ serving = "waiting"
    /\ oneshot[Head(queue)] # NoOutcome
    /\ Answer(Head(queue), oneshot[Head(queue)])
    /\ UNCHANGED <<bridgeVars, oneshot, taskVars, peerVars>>

\* Mutant: enqueue_request waits without a timeout.
TimeOutNever == FALSE /\ UNCHANGED baseVars

\* COMMAND_TIMEOUT_MS passed first.  The pending entry is left behind.
TimeOut ==
    /\ serving = "waiting"
    /\ oneshot[Head(queue)] = NoOutcome
    /\ Answer(Head(queue), Failure("CommunicationTimeout"))
    /\ UNCHANGED <<bridgeVars, oneshot, taskVars, peerVars>>

RequestLoop ==
    RejectRequest \/ EnqueueRequest \/ RefuseRequest \/ SendReply \/ TimeOut

-----------------------------------------------------------------------------
(* The bridge's operations, called by the connection tasks.                 *)

\* The oneshots of the requests in R, all sent the same failure.
FailPending(R) ==
    [r \in Request |-> IF r \in R THEN Failure("ProcessNotRunning") ELSE oneshot[r]]

\* Mutant: attach drops the pending senders without sending a failure.
AttachDropsPending(c) ==
    /\ bridge' = [status |-> "attached", browser |-> c, transport |-> c,
                  active |-> c, pending |-> {}]
    /\ pc' = [pc EXCEPT ![c] = "cloning"]
    /\ UNCHANGED <<disk, snap, taken, ending, outbound, oneshot>>

\* attach: the newest connection takes the bridge over, and the requests still
\* pending on the one it replaces fail.  persist_snapshot is the next step.
Attach(c) ==
    /\ oneshot' = FailPending(bridge.pending)
    /\ bridge' = [status |-> "attached", browser |-> c, transport |-> c,
                  active |-> c, pending |-> {}]
    /\ pc' = [pc EXCEPT ![c] = "cloning"]
    /\ UNCHANGED <<disk, snap, taken, ending, outbound>>

\* Mutant: responses are not told apart by id, as in the direct mode.
CompleteAnyResponse(m) ==
    /\ bridge' = [bridge EXCEPT !.pending = {}]
    /\ oneshot' = [r \in Request |->
                     IF r \in bridge.pending
                     THEN [code |-> IF m.type = "payload" THEN "Success" ELSE "GenericError",
                           of |-> m.id]
                     ELSE oneshot[r]]

\* complete_response: the oneshot registered under the response's id, if any.
CompleteResponse(m) ==
    /\ bridge' = [bridge EXCEPT !.pending = @ \ {m.id}]
    /\ oneshot' = IF m.id \in bridge.pending
                  THEN [oneshot EXCEPT ![m.id] =
                          [code |-> IF m.type = "payload" THEN "Success" ELSE "GenericError",
                           of |-> m.id]]
                  ELSE oneshot

\* Mutant: a connection that was replaced may mark the bridge too.
MarkByAnyone(c, status, last) ==
    /\ bridge' = [bridge EXCEPT !.status = status, !.transport = NoConn,
                                !.active = NoConn, !.pending = {}]
    /\ taken' = [taken EXCEPT ![c] = bridge.pending]
    /\ ending' = [ending EXCEPT ![c] = last]
    /\ pc' = [pc EXCEPT ![c] = "cloning"]

\* Mutant: mark_status does not reset the transport.
MarkKeepsTransport(c, status, last) ==
    IF bridge.active = c
    THEN /\ bridge' = [bridge EXCEPT !.status = status, !.active = NoConn, !.pending = {}]
         /\ taken' = [taken EXCEPT ![c] = bridge.pending]
         /\ ending' = [ending EXCEPT ![c] = last]
         /\ pc' = [pc EXCEPT ![c] = "cloning"]
    ELSE /\ pc' = [pc EXCEPT ![c] = IF last THEN "closed" ELSE "loop"]
         /\ UNCHANGED <<bridge, taken, ending>>

\* mark_status for "error" and "disconnected": only the active connection may;
\* the pending entries leave with the task, which fails them once the snapshot
\* is persisted.  "last" tells whether the handler breaks out of its loop.
Mark(c, status, last) ==
    IF bridge.active = c
    THEN /\ bridge' = [bridge EXCEPT !.status = status, !.transport = NoConn,
                                     !.active = NoConn, !.pending = {}]
         /\ taken' = [taken EXCEPT ![c] = bridge.pending]
         /\ ending' = [ending EXCEPT ![c] = last]
         /\ pc' = [pc EXCEPT ![c] = "cloning"]
    ELSE /\ pc' = [pc EXCEPT ![c] = IF last THEN "closed" ELSE "loop"]
         /\ UNCHANGED <<bridge, taken, ending>>

\* persist_snapshot, the part under the lock.
CloneSnapshot(c) ==
    /\ pc[c] \in {"cloning", "refreshing"}
    /\ snap' = [snap EXCEPT ![c] =
                  [status |-> IF pc[c] = "refreshing" THEN "attached" ELSE bridge.status,
                   browser |-> bridge.browser]]
    /\ pc' = [pc EXCEPT ![c] = "writing"]
    /\ UNCHANGED <<bridgeVars, loopVars, oneshot, taken, ending, outbound, peerVars>>

\* Mutant: only an attached bridge is written to config.json.
WriteIfAttached(c) ==
    /\ pc[c] = "writing"
    /\ disk' = IF snap[c].status = "attached" THEN snap[c] ELSE disk
    /\ oneshot' = FailPending(taken[c])
    /\ taken' = [taken EXCEPT ![c] = {}]
    /\ pc' = [pc EXCEPT ![c] = IF ending[c] THEN "closed" ELSE "loop"]
    /\ UNCHANGED <<bridge, loopVars, snap, ending, outbound, peerVars>>

\* persist_snapshot, the write_config after the lock is released; a failed write
\* is only logged.  The task then fails what it took and goes on or ends.
WriteSnapshot(c) ==
    /\ pc[c] = "writing"
    /\ \/ disk' = snap[c]
       \/ c \in DiskFailures /\ UNCHANGED disk
    /\ oneshot' = FailPending(taken[c])
    /\ taken' = [taken EXCEPT ![c] = {}]
    /\ pc' = [pc EXCEPT ![c] = IF ending[c] THEN "closed" ELSE "loop"]
    /\ UNCHANGED <<bridge, loopVars, snap, ending, outbound, peerVars>>

Persist(c) == CloneSnapshot(c) \/ WriteSnapshot(c)

-----------------------------------------------------------------------------
(* The peers: whatever a correct extension or native host, and the network  *)
(* under it, may do.  A message that is on its way cannot be told from one  *)
(* not sent yet, so the peer's choice is made when the daemon reads it.     *)

\* The peer answers what it was sent: each request once, in any order, or never.
Readable(c) ==
    [type : {"payload", "failed"}, id : owed[c]] \cup [type : PlainType, id : {NoRequest}]

\* The daemon takes m off the connection c.
Consume(c, m) ==
    /\ owed' = [owed EXCEPT ![c] = @ \ {m.id}]
    /\ answered' = IF m.type = "payload" THEN answered \cup {m.id} ELSE answered

\* select!, the outbound branch: the request goes out to the peer.
SendOutbound(c) ==
    /\ pc[c] = "loop"
    /\ outbound[c] # <<>>
    /\ outbound' = [outbound EXCEPT ![c] = Tail(@)]
    /\ owed' = [owed EXCEPT ![c] = @ \cup {Head(outbound[c])}]
    /\ UNCHANGED <<bridgeVars, loopVars, oneshot, pc, snap, taken, ending, answered>>

-----------------------------------------------------------------------------
(* Properties both modes share.                                             *)

\* The four fields of BridgeState that attach and mark_status maintain by hand
\* agree: status is "attached" exactly when there is a transport, the transport
\* belongs to the active connection, and nothing is pending without one.
Coherent ==
    /\ bridge.transport = bridge.active
    /\ bridge.status = "attached" <=> bridge.transport # NoConn
    /\ bridge.transport = NoConn => bridge.pending = {}

\* enqueue_request never waits on a oneshot nobody can resolve: its sender is in
\* the pending map, or in the hands of a task that is about to fail it, even when
\* connections are replaced or dropped while their snapshot is being persisted.
NoLostWaiter ==
    serving = "waiting" /\ oneshot[Head(queue)] = NoOutcome =>
        \/ Head(queue) \in bridge.pending
        \/ \E c \in Conn : Head(queue) \in taken[c] /\ pc[c] \in {"cloning", "writing"}

\* A client is never sent the answer to another request, whatever was timed
\* out, replaced or answered late before (complete_response, by request id).
OwnAnswer ==
    \A r \in Request :
        /\ reply[r].of \in {r, NoRequest}
        /\ reply[r].code = "Success" => reply[r].of = r /\ r \in answered

\* What the three rest on: a oneshot carries its own request's result, and the
\* loop waits only for the datagram it took.
OneshotsOwn ==
    \A r \in Request :
        /\ oneshot[r].of \in {r, NoRequest}
        /\ oneshot[r].code = "Success" => oneshot[r].of = r /\ r \in answered

WaitsForHead == serving = "waiting" => queue # <<>>

BridgeInv ==
    BaseTypeOK /\ Coherent /\ NoLostWaiter /\ OwnAnswer /\ OneshotsOwn /\ WaitsForHead

\* What the clients of the daemon may rely on, in either mode.
Service == INSTANCE RequestService
ServiceSpec == Service!Spec
=============================================================================
