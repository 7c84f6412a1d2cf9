--------------------------- MODULE BridgeExtension ---------------------------
(***************************************************************************)
(* The browser extension between the daemon and Apple's helper             *)
(* (browser-bridge/bridge-controller.js, driven by background.js).  One    *)
(* action is one event handler: they run one at a time, but the events of  *)
(* a WebSocket that was given up still come, and its handlers act on the   *)
(* controller's current socket.  Requests of the daemon are numbered in    *)
(* the order they arrive, and passed to the helper one at a time; its      *)
(* answers carry no request id.                                            *)
(*                                                                         *)
(* Status messages to the daemon are left out: what the daemon may do on   *)
(* one, closing the connection, it may do here at any time.                *)
(***************************************************************************)
EXTENDS Naturals, Sequences

CONSTANTS
    Socket,         \* WebSockets; one that is closed stands for one not created
    None,           \* no WebSocket
    MaxRequest,     \* requests the daemon sends
    MaxDrops        \* connections refused, or lost for an outside reason

ASSUME ExtensionAssumption ==
    /\ None \notin Socket
    /\ MaxRequest \in Nat /\ MaxDrops \in Nat

VARIABLES
    loading,    \* start(): whether the stored settings have been loaded
    saved,      \* whether the popup has saved settings
    websocket,  \* this.websocket
    timer,      \* this.reconnectTimer is set
    shown,      \* this.state.websocket, what the popup shows
    sock,       \* per WebSocket, its readyState
    queue,      \* this.pendingQueue
    current,    \* this.currentRequest; 0 when null
    port,       \* the helper's port; "dead" when its end is not noticed yet
    host,       \* requests the helper has got and not answered
    attached,   \* the connection whose hello the daemon saw last
    issued,     \* requests the daemon has sent
    drops,
    sent        \* responses sent to the daemon

socketVars == <<websocket, timer, shown, sock, attached, drops>>
helperVars == <<queue, current, port, host, sent>>
vars == <<loading, saved, socketVars, helperVars, issued>>

Request == 1..MaxRequest
\* The answer to a request; "of" is the request the helper answered, 0 when the
\* extension made the answer itself.
Response == [re : Request, of : 0..MaxRequest]

TypeOK ==
    /\ loading \in {"loading", "loaded", "failed"} /\ saved \in BOOLEAN
    /\ websocket \in Socket \cup {None} /\ timer \in BOOLEAN
    /\ shown \in {"idle", "connecting", "connected", "disconnected", "error"}
    /\ sock \in [Socket -> {"connecting", "open", "closing", "closed"}]
    /\ queue \in Seq(Request) /\ current \in 0..MaxRequest
    /\ port \in {"none", "up", "dead"} /\ host \in Seq(Request)
    /\ attached \in Socket \cup {None}
    /\ issued \in 0..MaxRequest /\ drops \in 0..MaxDrops
    /\ sent \in Seq(Response)

\* The service worker has called start().
Init ==
    /\ loading = "loading" /\ saved = FALSE
    /\ websocket = None /\ timer = FALSE /\ shown = "idle"
    /\ sock = [s \in Socket |-> "closed"]
    /\ queue = <<>> /\ current = 0
    /\ port = "none" /\ host = <<>>
    /\ attached = None /\ issued = 0 /\ drops = 0 /\ sent = <<>>

-----------------------------------------------------------------------------
(* What the handlers share.                                                 *)

\* sendWebSocket writes to the current socket, whichever called it.
Writable(ws, sockets) == ws # None /\ sockets[ws] = "open"
CanSend == Writable(websocket, sock)

Held(c, q) == IF c = 0 THEN q ELSE <<c>> \o q

\* Mutant: the request with the helper is not taken off.
FailAllButCurrent(requests, canSend, log) ==
    /\ queue' = <<>>
    /\ sent' = IF canSend
               THEN log \o [i \in DOMAIN requests |-> [re |-> requests[i], of |-> 0]]
               ELSE log
    /\ UNCHANGED current

\* Mutant: the requests are cleared before their ids are read.
FailAllCleared(requests, canSend, log) ==
    /\ current' = 0
    /\ queue' = <<>>
    /\ sent' = IF canSend
               THEN log \o [i \in DOMAIN requests |-> [re |-> 0, of |-> 0]]
               ELSE log

\* failCurrentAndQueue; log is what was sent before.  The helper is not told.
FailAll(requests, canSend, log) ==
    /\ current' = 0
    /\ queue' = <<>>
    /\ sent' = IF canSend
               THEN log \o [i \in DOMAIN requests |-> [re |-> requests[i], of |-> 0]]
               ELSE log

\* Mutant: the request with the helper is not waited for.
FlushAtOnce(c, q, pipe, canSend, log) ==
    /\ sent' = log
    /\ IF q = <<>> \/ ~canSend
       THEN current' = c /\ queue' = q /\ host' = pipe /\ UNCHANGED port
       ELSE /\ current' = Head(q)
            /\ queue' = Tail(q)
            /\ port' = IF port = "none" THEN "up" ELSE port
            /\ host' = IF port = "dead" THEN pipe ELSE Append(pipe, Head(q))

\* flushQueue: the next request goes to the helper, whose port is connected first
\* if it has none; either may throw, and every request fails.
Flush(c, q, pipe, canSend, log) ==
    \/ /\ c # 0 \/ q = <<>> \/ ~canSend
       /\ current' = c /\ queue' = q /\ host' = pipe /\ sent' = log
       /\ UNCHANGED port
    \/ /\ c = 0 /\ q # <<>> /\ canSend
       /\ \/ /\ current' = Head(q) /\ queue' = Tail(q) /\ sent' = log
             /\ port' = IF port = "none" THEN "up" ELSE port
             /\ host' = IF port = "dead" THEN pipe ELSE Append(pipe, Head(q))
          \/ /\ FailAll(q, canSend, log)
             /\ port' \in {port, IF port = "none" THEN "up" ELSE port}
             /\ host' = pipe

\* connectWebSocket, when there is no current socket: a new one, or none for a bad
\* address, and another try later.
Connect(sockets, pending) ==
    \/ \E s \in Socket :
        /\ sockets[s] = "closed"
        /\ websocket' = s
        /\ sock' = [sockets EXCEPT ![s] = "connecting"]
        /\ shown' = "connecting"
        /\ timer' = pending
    \/ /\ websocket' = None
       /\ sock' = sockets
       /\ shown' = "error"
       /\ timer' = TRUE

-----------------------------------------------------------------------------
(* start, the reconnect timer and the popup.                                *)

Loaded ==
    /\ loading = "loading"
    /\ loading' = "loaded"
    /\ IF websocket = None THEN Connect(sock, timer) ELSE UNCHANGED <<websocket, timer, shown, sock>>
    /\ UNCHANGED <<saved, attached, drops, helperVars, issued>>

\* start() throws; started stays set, and later calls return at once.
LoadFails ==
    /\ loading = "loading"
    /\ loading' = "failed"
    /\ shown' = "error"
    /\ UNCHANGED <<saved, websocket, timer, sock, attached, drops, helperVars, issued>>

TimerFires ==
    /\ timer
    /\ IF websocket = None
       THEN Connect(sock, FALSE)
       ELSE timer' = FALSE /\ UNCHANGED <<websocket, shown, sock>>
    /\ UNCHANGED <<loading, saved, attached, drops, helperVars, issued>>

\* updateSettings, once the settings have been stored: disconnectWebSocket and
\* connectWebSocket.
UpdateSettings ==
    /\ saved' = TRUE
    /\ Connect([s \in Socket |->
                  IF s = websocket /\ sock[s] \in {"connecting", "open"} THEN "closing"
                  ELSE sock[s]],
               timer)
    /\ UNCHANGED <<loading, attached, drops, helperVars, issued>>

-----------------------------------------------------------------------------
(* Events of WebSockets.                                                    *)

\* Mutant: the daemon is not told who connects before requests are handled.
OpenEventSilent(s) ==
    /\ sock[s] = "connecting"
    /\ sock' = [sock EXCEPT ![s] = "open"]
    /\ timer' = FALSE
    /\ shown' = "connected"
    /\ Flush(current, queue, host, Writable(websocket, sock'), sent)
    /\ UNCHANGED <<loading, saved, websocket, attached, drops, issued>>

\* The hello goes to the current socket, which need not be the one that opened.
OpenEvent(s) ==
    /\ sock[s] = "connecting"
    /\ sock' = [sock EXCEPT ![s] = "open"]
    /\ timer' = FALSE
    /\ shown' = "connected"
    /\ attached' = IF Writable(websocket, sock') THEN websocket ELSE attached
    /\ Flush(current, queue, host, Writable(websocket, sock'), sent)
    /\ UNCHANGED <<loading, saved, websocket, drops, issued>>

\* The daemon closes a connection that sent no hello, or that another replaced;
\* any other may be refused or lost.
Closes(s) ==
    \/ sock[s] = "closing" /\ UNCHANGED drops
    \/ sock[s] = "open" /\ s # attached /\ UNCHANGED drops
    \/ /\ sock[s] \in {"connecting", "open"}
       /\ drops < MaxDrops
       /\ drops' = drops + 1

\* Mutant: the close handler leaves the reconnect to somebody else.
CloseEventForgets(s) ==
    /\ Closes(s)
    /\ sock' = [sock EXCEPT ![s] = "closed"]
    /\ attached' = IF attached = s THEN None ELSE attached
    /\ websocket' = None
    /\ shown' = "disconnected"
    /\ FailAll(Held(current, queue), FALSE, sent)
    /\ UNCHANGED <<loading, saved, timer, port, host, issued>>

\* The close handler drops the current socket, whichever it is, and the requests
\* with it: no response can be sent.  The helper still has its request.
CloseEvent(s) ==
    /\ Closes(s)
    /\ sock' = [sock EXCEPT ![s] = "closed"]
    /\ attached' = IF attached = s THEN None ELSE attached
    /\ websocket' = None
    /\ shown' = "disconnected"
    /\ FailAll(Held(current, queue), FALSE, sent)
    /\ timer' = TRUE
    /\ UNCHANGED <<loading, saved, port, host, issued>>

\* A request of the daemon arrives on the connection it has attached.
MessageEvent ==
    /\ Writable(attached, sock)
    /\ issued < MaxRequest
    /\ issued' = issued + 1
    /\ Flush(current, Append(queue, issued + 1), host, CanSend, sent)
    /\ UNCHANGED <<loading, saved, socketVars>>

-----------------------------------------------------------------------------
(* Events of the helper's port.  The helper answers in order.               *)

\* Mutant: the next request waits for the next message of the daemon.
NativeMessageOnly ==
    /\ port = "up" /\ host # <<>>
    /\ host' = Tail(host)
    /\ current' = 0
    /\ sent' = IF CanSend /\ current # 0
               THEN Append(sent, [re |-> current, of |-> Head(host)]) ELSE sent
    /\ UNCHANGED <<loading, saved, socketVars, queue, port, issued>>

\* An answer with no request waiting for it is reported and dropped.
NativeMessage ==
    /\ port = "up" /\ host # <<>>
    /\ IF current = 0
       THEN host' = Tail(host) /\ UNCHANGED <<queue, current, port, sent>>
       ELSE \E of \in {0, Head(host)} :
              Flush(0, queue, Tail(host), CanSend,
                    IF CanSend THEN Append(sent, [re |-> current, of |-> of]) ELSE sent)
    /\ UNCHANGED <<loading, saved, socketVars, issued>>

HelperEnds ==
    /\ port = "up"
    /\ port' = "dead"
    /\ host' = <<>>
    /\ UNCHANGED <<loading, saved, socketVars, queue, current, sent, issued>>

\* Mutant: the request that the helper had is left waiting.
PortDisconnectsQueueOnly ==
    /\ port = "dead"
    /\ port' = "none"
    /\ queue' = <<>>
    /\ UNCHANGED <<loading, saved, socketVars, current, sent, host, issued>>

\* disconnectNative, from the port's onDisconnect.
PortDisconnects ==
    /\ port = "dead"
    /\ port' = "none"
    /\ FailAll(Held(current, queue), CanSend, sent)
    /\ UNCHANGED <<loading, saved, socketVars, host, issued>>

HelperEvent == NativeMessage \/ PortDisconnects

Next ==
    \/ Loaded \/ LoadFails \/ TimerFires \/ UpdateSettings
    \/ \E s \in Socket : OpenEvent(s) \/ CloseEvent(s)
    \/ MessageEvent
    \/ HelperEvent \/ HelperEnds

Spec == Init /\ [][Next]_vars

\* Timers fire, and do not find a bad address for ever; a connection attempt comes
\* to an end, a closed connection is noticed, and the helper answers or its end is
\* noticed.
FairSpec ==
    /\ Spec
    /\ WF_vars(Loaded \/ LoadFails)
    /\ WF_vars(TimerFires) /\ SF_vars(TimerFires /\ websocket' # None)
    /\ \A s \in Socket : WF_vars(OpenEvent(s)) /\ WF_vars(CloseEvent(s) /\ drops' = drops)
    /\ WF_vars(HelperEvent)

-----------------------------------------------------------------------------
(* Properties.                                                              *)

\* Responses leave in the order of their requests, each at most once, whichever
\* connection they leave on and however often requests fail.
ResponsesInOrder ==
    \A i, j \in 1..Len(sent) : i < j => sent[i].re < sent[j].re

\* A request that is with the helper is the last the helper got: its answer is
\* still to come, or the end of the port is (nothing else takes currentRequest
\* off, there is no timeout).
AnswerToCome ==
    current # 0 =>
        \/ port = "up" /\ host # <<>> /\ host[Len(host)] = current
        \/ port = "dead"

\* Once the settings are loaded or saved, the controller has a socket, a timer, or
\* a socket it has given up on whose close event will set the timer: background.js
\* does not call connectWebSocket again.
NeverStranded ==
    loading = "loaded" \/ saved =>
        \/ websocket # None \/ timer
        \/ \E s \in Socket : sock[s] # "closed" /\ s # attached

\* No response has the helper's answer to another request, as long as the first
\* connection lasts.
OwnAnswerWhileConnected ==
    drops = 0 /\ ~saved =>
        \A i \in 1..Len(sent) : sent[i].of \in {0, sent[i].re}

\* The inductive invariant.  Every response sent is to an earlier request than the one
\* with the helper, which is earlier than those in the queue, in their order.
Ordered(c, q, log, n) ==
    /\ c <= n
    /\ \A i \in 1..Len(q) : c < q[i] /\ q[i] <= n
    /\ \A i, j \in 1..Len(q) : i < j => q[i] < q[j]
    /\ \A i \in 1..Len(log) :
          /\ log[i].re <= n
          /\ c # 0 => log[i].re < c
          /\ \A j \in 1..Len(q) : log[i].re < q[j]
    /\ \A i, j \in 1..Len(log) : i < j => log[i].re < log[j].re

\* The daemon's connection was opened, and its close has not been reported.
AttachedIsUp == attached # None => sock[attached] \in {"open", "closing"}

\* As long as the first connection lasts, it is the only one, and the helper has no
\* request but the current one.
FirstConnection ==
    drops = 0 /\ ~saved =>
        /\ \A s \in Socket : sock[s] # "closed" =>
              /\ s = websocket
              /\ sock[s] = "connecting" \/ (sock[s] = "open" /\ s = attached)
        /\ host = IF current # 0 /\ port = "up" THEN <<current>> ELSE <<>>
        /\ \A i \in 1..Len(sent) : sent[i].of \in {0, sent[i].re}

ExtensionInv ==
    /\ TypeOK
    /\ Ordered(current, queue, sent, issued)
    /\ AnswerToCome
    /\ AttachedIsUp /\ NeverStranded
    /\ FirstConnection

\* When connections are no longer lost, the daemon and the extension come to hold
\* the same connection for good, if the user has not saved settings: the events
\* of two sockets do not mix then.
SettlesUnlessSaved ==
    \/ <>[](attached # None /\ websocket = attached)
    \/ <>(saved \/ loading = "failed")

\* Every request is answered or dropped at last, if the helper answers at all.
RequestsDrain ==
    \A r \in Request :
        (current = r \/ \E i \in 1..Len(queue) : queue[i] = r)
            ~> (current # r /\ \A i \in 1..Len(queue) : queue[i] # r)
=============================================================================
