---------------------------- MODULE NativeDaemon ----------------------------
(***************************************************************************)
(* The daemon in native mode (start_native_daemon_inner): the native host  *)
(* connects to a Unix socket and run_native_host_accept_loop serves one    *)
(* connection after the other, in a single task.  Requests are taken only  *)
(* once a host has attached; if none does in time the daemon gives up.     *)
(* Names that BrowserDaemon has too are prefixed with Native or Host.      *)
(***************************************************************************)
EXTENDS BrowserBridge

VARIABLES
    startup,    \* "attaching", then "serving" or "aborted"
    frame,      \* per connection, what select! did to the frame being read
    others,     \* a write_config of another apw process: what it read, and whether
                \*   the daemon has written since
    behind      \* whether such a write has put back what the daemon had replaced

fileVars == <<others, behind>>
hostVars == <<startup, frame, fileVars>>
nativeVars == <<baseVars, hostVars>>

NoRewrite == [phase |-> "idle", read |-> NoMetadata]

\* persist_native_waiting names the browser "native"; the snapshot names none.
NativeInit ==
    /\ BaseInit
    /\ disk = [status |-> "waiting", browser |-> "native"]
    /\ startup = "attaching"
    /\ frame = [c \in Conn |-> "whole"]
    /\ others = NoRewrite
    /\ behind = FALSE

\* The startup loop saw the status "attached" in one of its polls.
StartupAttached ==
    /\ startup = "attaching"
    /\ bridge.status = "attached"
    /\ startup' = "serving"
    /\ UNCHANGED <<baseVars, frame, fileVars>>

\* BRIDGE_ATTACH_TIMEOUT_MS passed between two polls: the accept loop is aborted
\* wherever it is, the socket file removed, and the process returns an error.
StartupTimesOut ==
    /\ startup = "attaching"
    /\ startup' = "aborted"
    /\ pc' = [c \in Conn |-> "closed"]
    /\ UNCHANGED <<bridgeVars, loopVars, oneshot, snap, taken, ending, outbound,
                   peerVars, frame, fileVars>>

\* A datagram waits in the socket's buffer until the daemon serves.
ReceiveRequest(r) ==
    /\ startup # "aborted"
    /\ Receive(r)
    /\ UNCHANGED hostVars

ServeRequest ==
    /\ startup = "serving"
    /\ RequestLoop
    /\ UNCHANGED hostVars

\* Mutant: a task per connection, as in the browser mode.
AcceptHostConcurrently(c) ==
    /\ startup # "aborted"
    /\ pc[c] = "new"
    /\ pc' = [pc EXCEPT ![c] = "hello"]
    /\ UNCHANGED <<bridgeVars, loopVars, oneshot, snap, taken, ending, outbound,
                   peerVars, hostVars>>

\* The accept loop comes back to accept only when the last connection is done.
AcceptHost(c) ==
    /\ startup # "aborted"
    /\ pc[c] = "new"
    /\ \A d \in Conn : pc[d] \in {"new", "closed"}
    /\ pc' = [pc EXCEPT ![c] = "hello"]
    /\ UNCHANGED <<bridgeVars, loopVars, oneshot, snap, taken, ending, outbound,
                   peerVars, hostVars>>

HostHello(c) ==
    /\ pc[c] = "hello"
    /\ Attach(c)
    /\ UNCHANGED <<loopVars, peerVars, hostVars>>

\* A bad hello, or none in time: the loop goes back to accept.
NoHostHello(c) ==
    /\ pc[c] = "hello"
    /\ pc' = [pc EXCEPT ![c] = "closed"]
    /\ UNCHANGED <<bridgeVars, loopVars, oneshot, snap, taken, ending, outbound,
                   peerVars, hostVars>>

\* read_exact took part of a frame and select! is still waiting for the rest.
BeginRead(c) ==
    /\ pc[c] = "loop"
    /\ frame[c] = "whole"
    /\ frame' = [frame EXCEPT ![c] = "partial"]
    /\ UNCHANGED <<baseVars, startup, fileVars>>

\* select!, the outbound branch.  It drops the read in progress, and with it the
\* bytes the read had taken: the stream is out of step from then on.
Forward(c) ==
    /\ SendOutbound(c)
    /\ frame' = [frame EXCEPT ![c] = IF @ = "whole" THEN "whole" ELSE "lost"]
    /\ UNCHANGED <<startup, fileVars>>

\* write_native_host_frame failed: the host is gone, or the request with its
\* envelope is above MAX_HELPER_PAYLOAD.
ForwardFails(c) ==
    /\ pc[c] = "loop"
    /\ outbound[c] # <<>>
    /\ outbound' = [outbound EXCEPT ![c] = Tail(@)]
    /\ Mark(c, "disconnected", TRUE)
    /\ UNCHANGED <<disk, loopVars, oneshot, snap, peerVars, hostVars>>

\* select!, the inbound branch, on a stream that is in step.
ReadHostFrame(c) ==
    /\ pc[c] = "loop"
    /\ frame[c] # "lost"
    /\ frame' = [frame EXCEPT ![c] = "whole"]
    /\ \E m \in Readable(c) :
        /\ Consume(c, m)
        /\ \/ /\ m.type \in {"payload", "failed"}
              /\ CompleteResponse(m)
              /\ UNCHANGED <<pc, taken, ending>>
           \/ /\ m.type \in {"error", "garbage"}
              /\ Mark(c, "error", TRUE)
              /\ UNCHANGED oneshot
           \/ /\ m.type \in {"disconnected", "close", "reset"}
              /\ Mark(c, "disconnected", TRUE)
              /\ UNCHANGED oneshot
           \/ /\ m.type \in {"hello", "attached"}
              /\ UNCHANGED <<bridge, oneshot, pc, taken, ending>>
    /\ UNCHANGED <<disk, loopVars, snap, outbound, startup, fileVars>>

\* Mutant: the read error leaves the loop without marking the bridge.
ReadLostFrameUnmarked(c) ==
    /\ pc[c] = "loop"
    /\ frame[c] = "lost"
    /\ pc' = [pc EXCEPT ![c] = "closed"]
    /\ UNCHANGED <<bridgeVars, loopVars, oneshot, snap, taken, ending, outbound,
                   peerVars, hostVars>>

\* The inbound branch on a stream out of step.  Four bytes from the middle of a
\* frame are read as a length: out of range ends the connection; in range, that many
\* bytes are awaited, which the host may never send, and do not parse as JSON.
ReadLostFrame(c) ==
    /\ pc[c] = "loop"
    /\ frame[c] = "lost"
    /\ \E status \in {"disconnected", "error"} : Mark(c, status, TRUE)
    /\ UNCHANGED <<disk, loopVars, oneshot, snap, outbound, peerVars, hostVars>>

\* A write of the daemon's replaces all the bridge fields, and overtakes a write
\* of another process that has read them.
PersistSnapshot(c) ==
    /\ \/ CloneSnapshot(c) /\ UNCHANGED fileVars
       \/ /\ WriteSnapshot(c)
          /\ behind' = (behind /\ disk' # snap[c])
          /\ others' = IF others.phase = "holding" /\ disk' = snap[c]
                       THEN [others EXCEPT !.phase = "overtaken"] ELSE others
    /\ UNCHANGED <<startup, frame>>

\* Other apw processes: clear_config (a logout, a stale session) removes the file,
\* and write_config (an authentication) composes it anew from what it read before,
\* the bridge fields included.
OtherClears ==
    /\ disk' = NoMetadata
    /\ UNCHANGED <<bridge, loopVars, oneshot, taskVars, peerVars, hostVars>>

OtherReads ==
    /\ others.phase = "idle"
    /\ others' = [phase |-> "holding", read |-> disk]
    /\ UNCHANGED <<baseVars, startup, frame, behind>>

OtherWrites ==
    /\ others.phase # "idle"
    /\ disk' = others.read
    /\ behind' = (behind \/ others.phase = "overtaken")
    /\ others' = NoRewrite
    /\ UNCHANGED <<bridge, loopVars, oneshot, taskVars, peerVars, startup, frame>>

NativeNext ==
    \/ StartupAttached \/ StartupTimesOut
    \/ \E r \in Request : ReceiveRequest(r)
    \/ ServeRequest
    \/ \E c \in Conn :
        \/ AcceptHost(c) \/ HostHello(c) \/ NoHostHello(c)
        \/ BeginRead(c) \/ ReadHostFrame(c) \/ ReadLostFrame(c)
        \/ Forward(c) \/ ForwardFails(c)
        \/ PersistSnapshot(c)
    \/ OtherClears \/ OtherReads \/ OtherWrites

NativeSpec == NativeInit /\ [][NativeNext]_nativeVars

\* Timers fire and the runtime polls the request loop when it can go on;
\* nothing is assumed of the native host.
NativeFairSpec ==
    /\ NativeSpec
    /\ WF_nativeVars(StartupAttached \/ StartupTimesOut)
    /\ WF_nativeVars(ServeRequest)

-----------------------------------------------------------------------------
(* Properties.                                                              *)

NativeTypeOK ==
    /\ BaseTypeOK
    /\ startup \in {"attaching", "serving", "aborted"}
    /\ frame \in [Conn -> {"whole", "partial", "lost"}]
    /\ others \in [phase : {"idle", "holding", "overtaken"}, read : Metadata]
    /\ behind \in BOOLEAN

\* In native mode the transport always has its task behind it: every way out of
\* the connection loop marks the bridge first.
HostTransportIsLive ==
    bridge.transport # NoConn /\ startup # "aborted" => ChannelOpen(bridge.transport)

\* No write can have failed since the bridge last changed: a connection whose writes
\* succeed is up, or none of the others has come yet.
WritesSucceed ==
    \/ \E c \in Conn \ DiskFailures : pc[c] = "loop"
    \/ \A c \in DiskFailures : pc[c] = "new"

\* The snapshot has been written, or cannot be for the moment.
Persisted ==
    /\ WritesSucceed /\ startup # "aborted"
    /\ \A c \in Conn : pc[c] \notin {"cloning", "writing"}

\* The status is the bridge's, and so is the browser once there has been one; or the
\* file says nothing of the bridge.
Agrees(metadata) ==
    metadata.status # "none" =>
        /\ metadata.status = bridge.status
        /\ bridge.browser # NoConn => metadata.browser = bridge.browser

\* Clients decide by the bridge fields of config.json whether to send anything
\* (launch_error_from_config).  One task writes all the snapshots, so that the file
\* cannot fall behind the bridge by the daemon's own doing: it is wrong only if an
\* authentication had read it before the daemon's last write and wrote after it, and
\* then until the next change of the bridge.
RoutingAgrees == Persisted /\ ~behind => Agrees(disk)

\* What these rest on: requests are served only after startup, there is one
\* connection task at a time, and it leaves the bridge before it ends.
IdleUntilServing == startup # "serving" => serving = "idle"

Live(c) == pc[c] \notin {"new", "closed"}
OneTask == \A c, d \in Conn : Live(c) /\ Live(d) => c = d

LeavesBeforeEnding ==
    \A c \in Conn : ending[c] => bridge.transport # c /\ pc[c] \notin {"new", "hello"}

\* A cloned snapshot is the bridge's, as nobody else changes it before the write.
SnapshotIsFresh ==
    /\ \A c \in Conn : pc[c] # "refreshing"
    /\ \A c \in Conn : pc[c] = "writing" =>
          snap[c] = [status |-> bridge.status, browser |-> bridge.browser]

\* What another process holds is what the file would say, until it is overtaken.
HeldAgrees ==
    Persisted /\ ~behind /\ others.phase = "holding" => Agrees(others.read)

NativeInv ==
    /\ NativeTypeOK /\ BridgeInv /\ HostTransportIsLive /\ RoutingAgrees /\ HeldAgrees
    /\ IdleUntilServing /\ OneTask /\ LeavesBeforeEnding /\ SnapshotIsFresh

\* A request that reaches the socket is answered, as far as the reply can be sent,
\* or the daemon gave up on its host before serving anybody.
AnsweredOrAborted ==
    \A r \in Request :
        (\E i \in 1..Len(queue) : queue[i] = r)
            ~> (reply[r] # NoOutcome \/ startup = "aborted")
=============================================================================
