---------------------------- MODULE BrowserDaemon ----------------------------
(***************************************************************************)
(* The daemon in browser mode (start_browser_daemon_inner): a WebSocket    *)
(* listener that spawns one handle_browser_bridge_connection task per      *)
(* connection, any number of them at a time, around the shared bridge.     *)
(* Nothing is claimed of config.json here, so that its other writers, the  *)
(* client processes, are left out; NativeDaemon has them.                  *)
(***************************************************************************)
EXTENDS BrowserBridge

vars == baseVars

\* The config the daemon writes before it listens.
Init == BaseInit /\ disk = InitialSnapshot

\* accept and handshake: the connection gets the next connection id.
Accept(c) ==
    /\ pc[c] = "new"
    /\ pc' = [pc EXCEPT ![c] = "hello"]
    /\ UNCHANGED <<bridgeVars, loopVars, oneshot, snap, taken, ending, outbound, peerVars>>

\* The first message, within BRIDGE_ATTACH_TIMEOUT_MS, is a hello.
Hello(c) ==
    /\ pc[c] = "hello"
    /\ Attach(c)
    /\ UNCHANGED <<loopVars, peerVars>>

\* Anything else first, or nothing in time.  mark_error is called for a message
\* that is not a hello, but the connection is not the active one.
NoHello(c) ==
    /\ pc[c] = "hello"
    /\ pc' = [pc EXCEPT ![c] = "closed"]
    /\ UNCHANGED <<bridgeVars, loopVars, oneshot, snap, taken, ending, outbound, peerVars>>

\* An error inside select! leaves the whole function through "?": the task is
\* gone, and the mark_error that follows the loop is not reached.
ReturnError(c) ==
    /\ pc' = [pc EXCEPT ![c] = "closed"]
    /\ UNCHANGED <<bridge, oneshot, taken, ending>>

\* select!, the outbound branch, to a peer that has gone.
SendFails(c) ==
    /\ pc[c] = "loop"
    /\ outbound[c] # <<>>
    /\ ReturnError(c)
    /\ UNCHANGED <<disk, loopVars, snap, outbound, peerVars>>

\* The bridge has dropped the sender and the channel is drained: the task ends.
OutboundClosed(c) ==
    /\ pc[c] = "loop"
    /\ outbound[c] = <<>>
    /\ bridge.transport # c
    /\ pc' = [pc EXCEPT ![c] = "closed"]
    /\ UNCHANGED <<bridgeVars, loopVars, oneshot, snap, taken, ending, outbound, peerVars>>

\* select!, the inbound branch.
Read(c) ==
    /\ pc[c] = "loop"
    /\ \E m \in Readable(c) :
        /\ Consume(c, m)
        /\ \/ /\ m.type \in {"payload", "failed"}
              /\ CompleteResponse(m)
              /\ UNCHANGED <<pc, taken, ending>>
           \/ /\ m.type = "attached"
              /\ pc' = [pc EXCEPT ![c] = "refreshing"]
              /\ ending' = [ending EXCEPT ![c] = FALSE]
              /\ UNCHANGED <<bridge, oneshot, taken>>
           \/ /\ m.type \in {"error", "disconnected"}
              /\ Mark(c, m.type, FALSE)
              /\ UNCHANGED oneshot
           \/ /\ m.type = "close"
              /\ Mark(c, "disconnected", TRUE)
              /\ UNCHANGED oneshot
           \/ /\ m.type \in {"garbage", "reset"}
              /\ ReturnError(c)
           \/ /\ m.type = "hello"
              /\ UNCHANGED <<bridge, oneshot, pc, taken, ending>>
    /\ UNCHANGED <<disk, loopVars, snap, outbound>>

Task(c) ==
    \/ Hello(c) \/ NoHello(c)
    \/ SendOutbound(c) \/ SendFails(c) \/ OutboundClosed(c)
    \/ Read(c)
    \/ Persist(c)

Next ==
    \/ \E r \in Request : Receive(r)
    \/ RequestLoop
    \/ \E c \in Conn : Accept(c) \/ Task(c)

Spec == Init /\ [][Next]_vars

-----------------------------------------------------------------------------
(* Properties.                                                              *)

\* A connection that was replaced cannot detach the bridge, whatever it reads late:
\* the transport goes only in a step of the task that owns it, which leaves its loop
\* with the pending senders in hand, or to a task that just now said hello.
OnlyOwnerDetaches ==
    [][\A c \in Conn : bridge.transport = c /\ bridge'.transport # c =>
          \/ /\ bridge'.transport = NoConn
             /\ pc[c] = "loop" /\ pc'[c] = "cloning"
             /\ taken'[c] = bridge.pending
          \/ \E d \in Conn :
                bridge'.transport = d /\ pc[d] = "hello" /\ pc'[d] = "cloning"]_vars

\* A bridge that is attached has a connection task behind it.
TransportIsLive ==
    bridge.transport # NoConn => ChannelOpen(bridge.transport)
=============================================================================
