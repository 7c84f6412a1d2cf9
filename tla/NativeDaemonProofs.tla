-------------------------- MODULE NativeDaemonProofs --------------------------
(***************************************************************************)
(* The invariants of the native mode, for any number of connections and    *)
(* requests, and the refinement of RequestService; the lemmas on what it   *)
(* shares with the browser mode are in BrowserDaemonProofs.                *)
(***************************************************************************)
EXTENDS NativeDaemon, BrowserDaemonProofs

\* The part of NativeInv that is not about the shared bridge.
LocalInv ==
    /\ startup \in {"attaching", "serving", "aborted"}
    /\ frame \in [Conn -> {"whole", "partial", "lost"}]
    /\ others \in [phase : {"idle", "holding", "overtaken"}, read : Metadata]
    /\ behind \in BOOLEAN
    /\ HostTransportIsLive /\ RoutingAgrees /\ HeldAgrees
    /\ IdleUntilServing /\ OneTask /\ LeavesBeforeEnding /\ SnapshotIsFresh

\* NativeInv is BridgeInv and what only concerns native mode.
LEMMA NativeInvParts ==
    /\ NativeInv <=> BridgeInv /\ LocalInv
    /\ NativeInv' <=> BridgeInv' /\ LocalInv'
BY DEF NativeInv, LocalInv, NativeTypeOK, BridgeInv

\* A connection whose task is the only one is marked and its loop broken.
LEMMA LastMark ==
    ASSUME NativeInv, NEW c \in Conn, NEW status \in {"disconnected", "error"},
           pc[c] = "loop", Mark(c, status, TRUE),
           frame' \in [Conn -> {"whole", "partial", "lost"}],
           UNCHANGED <<disk, loopVars, snap, startup, fileVars>>
    PROVE  LocalInv'
<1> USE DEF NativeInv, Mark, loopVars, fileVars, BaseTypeOK, NativeTypeOK
<1>1. \A d \in Conn : d # c => pc[d] \in {"new", "closed"} /\ pc'[d] = pc[d] /\ ending'[d] = ending[d]
  BY DEF OneTask, Live
<1>2. bridge'.transport # c /\ bridge'.transport \in {NoConn, bridge.transport}
  <2>1. CASE bridge.active = c
    <3>1. bridge'.transport = NoConn
      BY <2>1
    <3> QED
      BY <3>1, ConstantsFact
  <2>2. CASE bridge.active # c
    BY <2>2 DEF BridgeInv, Coherent
  <2> QED
    BY <2>1, <2>2
<1>3. pc'[c] \in {"cloning", "closed"}
  OBVIOUS
<1>4. HostTransportIsLive'
  <2>1. \A d \in Conn : bridge.transport = d => d = c \/ startup = "aborted"
    BY <1>1, ConstantsFact DEF HostTransportIsLive, ChannelOpen
  <2> QED
    BY <1>2, <2>1 DEF HostTransportIsLive
<1>5. RoutingAgrees' /\ HeldAgrees'
  <2>1. CASE bridge.active = c
    BY <2>1 DEF RoutingAgrees, HeldAgrees, Persisted, WritesSucceed, Agrees
  <2>2. CASE bridge.active # c
    BY <1>1, <2>2 DEF RoutingAgrees, HeldAgrees, Persisted, WritesSucceed, Agrees
  <2> QED
    BY <2>1, <2>2
<1>6. IdleUntilServing' /\ OneTask'
  BY <1>1, <1>3 DEF IdleUntilServing, OneTask, Live
<1>7. LeavesBeforeEnding'
  <2> SUFFICES ASSUME NEW d \in Conn, ending'[d]
               PROVE  bridge'.transport # d /\ pc'[d] \notin {"new", "hello"}
    BY DEF LeavesBeforeEnding
  <2>1. CASE d = c
    BY <1>2, <1>3, <2>1
  <2>2. CASE d # c
    <3>1. ending[d] /\ pc'[d] = pc[d]
      BY <1>1, <2>2
    <3>2. bridge.transport # d /\ pc[d] \notin {"new", "hello"}
      BY <3>1 DEF LeavesBeforeEnding
    <3> QED
      BY <1>2, <3>1, <3>2, ConstantsFact
  <2> QED
    BY <2>1, <2>2
<1>8. SnapshotIsFresh'
  BY <1>1, <1>3 DEF SnapshotIsFresh
<1> QED
  BY <1>4, <1>5, <1>6, <1>7, <1>8 DEF LocalInv

\* A step that leaves what LocalInv speaks of, except a task's phase.
LEMMA PhaseChange ==
    ASSUME NativeInv, NEW c \in Conn, NEW phase \in PC, pc' = [pc EXCEPT ![c] = phase],
           \/ pc[c] = "new" /\ phase = "hello" /\ \A d \in Conn : pc[d] \in {"new", "closed"}
           \/ pc[c] = "hello" /\ phase = "closed",
           UNCHANGED <<bridge, disk, serving, startup, frame, snap, ending, fileVars>>
    PROVE  LocalInv'
<1> USE DEF NativeInv, fileVars, BaseTypeOK, NativeTypeOK
<1>1. \A d \in Conn : d # c => pc'[d] = pc[d]
  OBVIOUS
<1>2. pc'[c] = phase /\ pc[c] \in {"new", "hello"}
  OBVIOUS
<1>3. HostTransportIsLive'
  BY <1>1, <1>2 DEF HostTransportIsLive, ChannelOpen
<1>4. RoutingAgrees' /\ HeldAgrees' /\ IdleUntilServing' /\ SnapshotIsFresh'
  BY <1>1, <1>2 DEF RoutingAgrees, HeldAgrees, Persisted, WritesSucceed, Agrees, IdleUntilServing, SnapshotIsFresh
<1>5. OneTask'
  BY <1>1, <1>2 DEF OneTask, Live
<1>6. LeavesBeforeEnding'
  BY <1>1, <1>2 DEF LeavesBeforeEnding
<1> QED
  BY <1>3, <1>4, <1>5, <1>6 DEF LocalInv

\* Attaching after the hello keeps what only concerns native mode.
LEMMA HelloLocal ==
    ASSUME NativeInv, NEW c \in Conn, HostHello(c) PROVE LocalInv'
<1> USE DEF NativeInv, BaseTypeOK, NativeTypeOK, HostHello, Attach, hostVars, fileVars, loopVars
<1>1. \A d \in Conn : d # c => pc[d] \in {"new", "closed"} /\ pc'[d] = pc[d]
  BY DEF OneTask, Live
<1>2. pc'[c] = "cloning" /\ bridge'.transport = c /\ ~ending[c]
  BY DEF LeavesBeforeEnding
<1>3. HostTransportIsLive' /\ RoutingAgrees' /\ HeldAgrees' /\ IdleUntilServing' /\ SnapshotIsFresh'
  BY <1>1, <1>2 DEF HostTransportIsLive, ChannelOpen, RoutingAgrees, HeldAgrees, Persisted, WritesSucceed, Agrees, IdleUntilServing, SnapshotIsFresh
<1>4. OneTask'
  BY <1>1, <1>2 DEF OneTask, Live
<1>5. LeavesBeforeEnding'
  BY <1>1, <1>2 DEF LeavesBeforeEnding
<1> QED
  BY <1>3, <1>4, <1>5 DEF LocalInv

\* A copy of the bridge stays the bridge's until it is written: no other task lives.
LEMMA PersistLocal ==
    ASSUME NativeInv, NEW c \in Conn, PersistSnapshot(c) PROVE LocalInv'
<1> USE DEF NativeInv, BaseTypeOK, NativeTypeOK, PersistSnapshot, fileVars, loopVars, bridgeVars
<1>1. pc[c] \in {"cloning", "writing"}
  BY DEF CloneSnapshot, WriteSnapshot, SnapshotIsFresh
<1>2. \A d \in Conn : d # c => pc[d] \in {"new", "closed"} /\ pc'[d] = pc[d]
  BY <1>1 DEF OneTask, Live, CloneSnapshot, WriteSnapshot
<1>3. CASE CloneSnapshot(c)
  <2>1. /\ pc'[c] = "writing"
        /\ snap'[c] = [status |-> bridge.status, browser |-> bridge.browser]
    BY <1>1, <1>3 DEF CloneSnapshot, SnapshotIsFresh
  <2>2. UNCHANGED <<bridge, disk, serving, startup, frame, ending, fileVars>>
    BY <1>1, <1>3 DEF CloneSnapshot, WriteSnapshot
  <2>3. HostTransportIsLive' /\ RoutingAgrees' /\ HeldAgrees' /\ IdleUntilServing'
    BY <1>2, <2>1, <2>2 DEF HostTransportIsLive, ChannelOpen, RoutingAgrees, HeldAgrees, Persisted, WritesSucceed, Agrees, IdleUntilServing
  <2>4. OneTask' /\ LeavesBeforeEnding' /\ SnapshotIsFresh'
    BY <1>2, <2>1, <2>2 DEF OneTask, Live, LeavesBeforeEnding, SnapshotIsFresh
  <2> QED
    BY <2>2, <2>3, <2>4 DEF LocalInv
<1>4. CASE WriteSnapshot(c)
  <2>1. /\ pc[c] = "writing" /\ pc'[c] = IF ending[c] THEN "closed" ELSE "loop"
        /\ c \notin DiskFailures => disk' = snap[c]
    BY <1>4, ConstantsFact DEF WriteSnapshot
  <2>2. /\ UNCHANGED <<bridge, serving, startup, frame, ending, snap>>
        /\ behind' = (behind /\ disk' # snap[c])
        /\ others' = IF others.phase = "holding" /\ disk' = snap[c]
                     THEN [others EXCEPT !.phase = "overtaken"] ELSE others
    BY <1>4 DEF WriteSnapshot, CloneSnapshot
  <2>t. /\ others' \in [phase : {"idle", "holding", "overtaken"}, read : Metadata]
        /\ behind' \in BOOLEAN
    BY <2>2
  <2>3. HostTransportIsLive'
    BY <1>2, <2>1, <2>2 DEF HostTransportIsLive, ChannelOpen, LeavesBeforeEnding
  <2>4. RoutingAgrees' /\ HeldAgrees' /\ IdleUntilServing'
    <3>1. snap[c] = [status |-> bridge.status, browser |-> bridge.browser]
      BY <2>1 DEF SnapshotIsFresh
    <3>2. WritesSucceed' => disk' = snap[c]
      BY <1>2, <2>1, <2>2, ConstantsFact DEF WritesSucceed
    <3>3. RoutingAgrees' /\ HeldAgrees'
      BY <2>2, <3>1, <3>2 DEF RoutingAgrees, HeldAgrees, Persisted, Agrees
    <3>4. IdleUntilServing'
      BY <2>2 DEF IdleUntilServing
    <3> QED
      BY <3>3, <3>4
  <2>5. OneTask' /\ SnapshotIsFresh'
    BY <1>2, <2>1, <2>2 DEF OneTask, Live, SnapshotIsFresh
  <2>6. LeavesBeforeEnding'
    BY <1>2, <2>1, <2>2 DEF LeavesBeforeEnding
  <2> QED
    BY <2>2, <2>t, <2>3, <2>4, <2>5, <2>6 DEF LocalInv
<1> QED
  BY <1>3, <1>4

\* Another process makes the file empty, or what it found there before.
LEMMA RewriteInv ==
    ASSUME NativeInv, OtherClears \/ OtherReads \/ OtherWrites PROVE NativeInv'
<1> USE DEF OtherClears, OtherReads, OtherWrites, hostVars, fileVars
<1>1. /\ UNCHANGED <<bridge, loopVars, oneshot, taskVars, peerVars, startup, frame>>
      /\ disk' \in Metadata
      /\ others' \in [phase : {"idle", "holding", "overtaken"}, read : Metadata]
      /\ behind' \in BOOLEAN
  <2>1. NoMetadata \in Metadata /\ disk \in Metadata
    BY DEF NoMetadata, Metadata, NativeInv, BridgeInv, BaseTypeOK
  <2>2. CASE OtherClears
    BY <2>1, <2>2 DEF NativeInv, NativeTypeOK
  <2>3. CASE OtherReads
    BY <2>1, <2>3 DEF baseVars, loopVars, taskVars, peerVars, NativeInv, NativeTypeOK
  <2>4. CASE OtherWrites
    BY <2>1, <2>4 DEF NativeInv, NativeTypeOK, NoRewrite
  <2> QED
    BY <2>2, <2>3, <2>4
<1>2. BridgeInv'
  <2>1. BaseTypeOK'
    BY <1>1 DEF loopVars, taskVars, peerVars, NativeInv, BridgeInv, BaseTypeOK
  <2>2. Coherent' /\ OwnAnswer' /\ OneshotsOwn' /\ WaitsForHead' /\ NoLostWaiter'
    BY <1>1 DEF loopVars, taskVars, peerVars, NativeInv, BridgeInv, Coherent, OwnAnswer, OneshotsOwn,
       WaitsForHead, NoLostWaiter
  <2> QED
    BY <2>1, <2>2 DEF BridgeInv
<1>3. RoutingAgrees' /\ HeldAgrees'
  <2>1. Persisted' = Persisted /\ \A metadata \in Metadata : Agrees(metadata)' <=> Agrees(metadata)
    BY <1>1 DEF Persisted, WritesSucceed, Agrees, taskVars
  <2>2. Agrees(NoMetadata)'
    BY DEF Agrees, NoMetadata
  <2>3. CASE OtherClears
    BY <2>1, <2>2, <2>3 DEF RoutingAgrees, HeldAgrees, NativeInv, NativeTypeOK, Agrees
  <2>4. CASE OtherReads
    BY <1>1, <2>1, <2>4 DEF RoutingAgrees, HeldAgrees, NativeInv, baseVars, Agrees
  <2>5. CASE OtherWrites
    BY <1>1, <2>1, <2>5 DEF RoutingAgrees, HeldAgrees, NativeInv, NativeTypeOK, NoRewrite, Agrees
  <2> QED
    BY <2>3, <2>4, <2>5
<1>4. HostTransportIsLive' /\ IdleUntilServing' /\ OneTask' /\ LeavesBeforeEnding' /\ SnapshotIsFresh'
  BY <1>1 DEF NativeInv, HostTransportIsLive, ChannelOpen, IdleUntilServing, OneTask, Live,
     LeavesBeforeEnding, SnapshotIsFresh, taskVars, loopVars
<1>5. LocalInv'
  BY <1>1, <1>3, <1>4 DEF LocalInv, NativeInv, NativeTypeOK
<1> QED
  BY <1>2, <1>5, NativeInvParts

\* Steps that touch neither a task's phase nor status and browser.
LEMMA QuietLocal ==
    ASSUME NativeInv, UNCHANGED <<disk, snap, ending, pc, fileVars>>,
           bridge'.transport = bridge.transport, bridge'.status = bridge.status,
           bridge'.browser = bridge.browser,
           startup' = startup \/ (startup = "attaching" /\ startup' = "serving"),
           frame' \in [Conn -> {"whole", "partial", "lost"}],
           startup' # "serving" => serving' = serving
    PROVE  LocalInv'
<1> USE DEF NativeInv, fileVars
<1>1. startup' \in {"attaching", "serving", "aborted"} /\ (startup' = "aborted" <=> startup = "aborted")
  BY DEF NativeTypeOK
<1>2. HostTransportIsLive' /\ RoutingAgrees' /\ HeldAgrees'
  BY <1>1 DEF HostTransportIsLive, RoutingAgrees, HeldAgrees, Persisted, WritesSucceed, Agrees, ChannelOpen
<1>t. /\ others' \in [phase : {"idle", "holding", "overtaken"}, read : Metadata]
      /\ behind' \in BOOLEAN
  BY DEF NativeTypeOK
<1>3. IdleUntilServing'
  BY DEF IdleUntilServing
<1>4. OneTask' /\ LeavesBeforeEnding' /\ SnapshotIsFresh'
  BY DEF OneTask, Live, LeavesBeforeEnding, SnapshotIsFresh
<1> QED
  BY <1>1, <1>2, <1>t, <1>3, <1>4 DEF LocalInv

\* Startup gave up: no task is left, and nobody was being served.
LEMMA AbortInv ==
    ASSUME NativeInv, StartupTimesOut PROVE NativeInv'
<1> USE DEF StartupTimesOut, bridgeVars, loopVars, peerVars, fileVars
<1>1. serving = "idle"
  BY DEF NativeInv, IdleUntilServing
<1>2. pc' \in [Conn -> PC] /\ \A c \in Conn : pc'[c] = "closed"
  BY DEF PC
<1>3. BridgeInv'
  <2>1. BaseTypeOK'
    BY <1>2 DEF NativeInv, BridgeInv, BaseTypeOK
  <2>2. Coherent' /\ OwnAnswer' /\ OneshotsOwn' /\ WaitsForHead' /\ NoLostWaiter'
    BY <1>1 DEF NativeInv, BridgeInv, Coherent, OwnAnswer, OneshotsOwn, WaitsForHead, NoLostWaiter
  <2> QED
    BY <2>1, <2>2 DEF BridgeInv
<1>4. LocalInv'
  <2>1. HostTransportIsLive' /\ RoutingAgrees' /\ HeldAgrees' /\ IdleUntilServing'
    BY <1>1 DEF HostTransportIsLive, RoutingAgrees, HeldAgrees, Persisted, WritesSucceed, Agrees, IdleUntilServing
  <2>2. OneTask' /\ SnapshotIsFresh'
    BY <1>2 DEF OneTask, Live, SnapshotIsFresh
  <2>3. LeavesBeforeEnding'
    BY <1>2 DEF NativeInv, LeavesBeforeEnding
  <2> QED
    BY <2>1, <2>2, <2>3 DEF LocalInv, NativeInv, NativeTypeOK
<1> QED
  BY <1>3, <1>4, NativeInvParts

\* Reading a frame of the host keeps NativeInv.
LEMMA ReadHostFrameInv ==
    ASSUME NativeInv, NEW c \in Conn, ReadHostFrame(c) PROVE NativeInv'
<1>1. PICK m \in Readable(c) :
        /\ Consume(c, m)
        /\ \/ /\ m.type \in {"payload", "failed"}
              /\ CompleteResponse(m)
              /\ UNCHANGED <<pc, taken, ending>>
           \/ /\ m.type \in {"error", "garbage"}
              /\ Mark(c, "error", TRUE)
              /\ UNCHANGED oneshot
           \/ /\ m.type \in {"disconnected", "close", "reset"}
              /\ Mark(c, "disconnected", TRUE)
              /\ UNCHANGED oneshot
           \/ /\ m.type \in {"hello", "attached"}
              /\ UNCHANGED <<bridge, oneshot, pc, taken, ending>>
  BY DEF ReadHostFrame
<1>2. /\ m \in Message /\ pc[c] = "loop" /\ BridgeInv
      /\ m.type \in PlainType => m.id = NoRequest
      /\ UNCHANGED <<disk, loopVars, snap, outbound, startup, fileVars>>
      /\ frame' \in [Conn -> {"whole", "partial", "lost"}]
  BY ReadableFact DEF NativeInv, BridgeInv, NativeTypeOK, ReadHostFrame
<1>3. owed' \in [Conn -> SUBSET Request] /\ outbound' \in [Conn -> Seq(Request)]
  BY <1>1, <1>2 DEF Consume, BridgeInv, BaseTypeOK
<1>4. m.type # "payload" => UNCHANGED answered
  BY <1>1 DEF Consume
<1>5. CASE m.type \in {"payload", "failed"} /\ CompleteResponse(m) /\ UNCHANGED <<pc, taken, ending>>
  <2>1. BridgeInv'
    BY <1>1, <1>2, <1>5, CompleteResponseInv DEF taskVars
  <2>2. /\ bridge'.transport = bridge.transport /\ bridge'.status = bridge.status
        /\ bridge'.browser = bridge.browser
    BY <1>2, <1>5 DEF CompleteResponse, BridgeInv, BaseTypeOK
  <2>3. LocalInv'
    BY <1>2, <1>5, <2>2, QuietLocal DEF loopVars
  <2> QED
    BY <2>1, <2>3, NativeInvParts
<1>6. ASSUME NEW status \in {"error", "disconnected"}, m.type # "payload",
             Mark(c, status, TRUE), UNCHANGED oneshot
      PROVE  NativeInv'
  <2>1. BridgeInv'
    BY <1>2, <1>3, <1>4, <1>6, MarkInv
  <2>2. LocalInv'
    BY <1>2, <1>6, LastMark
  <2> QED
    BY <2>1, <2>2, NativeInvParts
<1>7. CASE m.type \in {"hello", "attached"} /\ UNCHANGED <<bridge, oneshot, pc, taken, ending>>
  <2>1. [pc EXCEPT ![c] = "loop"] = pc /\ ending \in [Conn -> BOOLEAN]
    BY <1>2 DEF BridgeInv, BaseTypeOK
  <2>2. BridgeInv'
    BY <1>2, <1>3, <1>4, <1>7, <2>1, PhaseInv DEF PC, bridgeVars
  <2>3. LocalInv'
    BY <1>2, <1>7, QuietLocal DEF loopVars
  <2> QED
    BY <2>2, <2>3, NativeInvParts
<1> QED
  BY <1>1, <1>5, <1>6, <1>7

\* The steps of the connection task and of the accept loop.
LEMMA ConnectionInv ==
    ASSUME NativeInv, NEW c \in Conn,
           \/ AcceptHost(c) \/ HostHello(c) \/ NoHostHello(c)
           \/ BeginRead(c) \/ ReadHostFrame(c) \/ ReadLostFrame(c)
           \/ Forward(c) \/ ForwardFails(c)
           \/ PersistSnapshot(c)
    PROVE  NativeInv'
<1>0. /\ BridgeInv /\ LocalInv
      /\ outbound \in [Conn -> Seq(Request)] /\ owed \in [Conn -> SUBSET Request]
      /\ ending \in [Conn -> BOOLEAN] /\ pc \in [Conn -> PC]
      /\ frame \in [Conn -> {"whole", "partial", "lost"}]
  BY NativeInvParts DEF NativeInv, BridgeInv, BaseTypeOK, NativeTypeOK
<1>1. CASE AcceptHost(c)
  <2>1. BridgeInv'
    BY <1>0, <1>1, PhaseInv DEF AcceptHost, PC, peerVars
  <2>2. LocalInv'
    BY <1>1, PhaseChange DEF AcceptHost, PC, bridgeVars, loopVars, hostVars
  <2> QED
    BY <2>1, <2>2, NativeInvParts
<1>2. CASE HostHello(c)
  <2>1. BridgeInv'
    BY <1>0, <1>2, AttachInv DEF HostHello
  <2> QED
    BY <1>2, <2>1, HelloLocal, NativeInvParts
<1>3. CASE NoHostHello(c)
  <2>1. BridgeInv'
    BY <1>0, <1>3, PhaseInv DEF NoHostHello, PC, peerVars
  <2>2. LocalInv'
    BY <1>3, PhaseChange DEF NoHostHello, PC, bridgeVars, loopVars, hostVars
  <2> QED
    BY <2>1, <2>2, NativeInvParts
<1>4. CASE BeginRead(c)
  <2>1. BridgeInv'
    BY <1>0, <1>4, BaseStutterInv DEF BeginRead
  <2>2. LocalInv'
    BY <1>0, <1>4, QuietLocal DEF BeginRead, baseVars, fileVars
  <2> QED
    BY <2>1, <2>2, NativeInvParts
<1>5. CASE ReadHostFrame(c)
  BY <1>5, ReadHostFrameInv
<1>6. CASE ReadLostFrame(c)
  <2>0. PICK status \in {"disconnected", "error"} : Mark(c, status, TRUE)
    BY <1>6 DEF ReadLostFrame
  <2>1. BridgeInv'
    BY <1>0, <1>6, <2>0, MarkInv DEF ReadLostFrame, peerVars
  <2>2. LocalInv'
    BY <1>0, <1>6, <2>0, LastMark DEF ReadLostFrame, hostVars
  <2> QED
    BY <2>1, <2>2, NativeInvParts
<1>7. CASE Forward(c)
  <2>1. BridgeInv'
    BY <1>0, <1>7, SendOutboundInv DEF Forward
  <2>2. LocalInv'
    BY <1>0, <1>7, QuietLocal DEF Forward, SendOutbound, bridgeVars, loopVars
  <2> QED
    BY <2>1, <2>2, NativeInvParts
<1>8. CASE ForwardFails(c)
  <2>1. Tail(outbound[c]) \in Seq(Request)
    BY <1>0, <1>8, HeadTailProperties DEF ForwardFails
  <2>2. outbound' \in [Conn -> Seq(Request)]
    BY <1>0, <1>8, <2>1 DEF ForwardFails
  <2>3. BridgeInv'
    BY <1>0, <1>8, <2>2, MarkInv DEF ForwardFails, peerVars
  <2>4. LocalInv'
    BY <1>0, <1>8, LastMark DEF ForwardFails, hostVars
  <2> QED
    BY <2>3, <2>4, NativeInvParts
<1>9. CASE PersistSnapshot(c)
  <2>1. BridgeInv'
    BY <1>0, <1>9, PersistInv DEF PersistSnapshot, Persist
  <2> QED
    BY <1>9, <2>1, PersistLocal, NativeInvParts
<1> QED
  BY <1>1, <1>2, <1>3, <1>4, <1>5, <1>6, <1>7, <1>8, <1>9

\* No task, no request, nothing attached.
LEMMA NativeInitInv == NativeInit => NativeInv
<1> SUFFICES ASSUME NativeInit PROVE NativeInv
  OBVIOUS
<1>1. BridgeInv
  BY BaseInitInv DEF NativeInit, Metadata, BridgeStatus
<1>2. LocalInv
  BY DEF NativeInit, NoRewrite, NoMetadata, Metadata, BaseInit, LocalInv, HostTransportIsLive, RoutingAgrees, HeldAgrees, Persisted, WritesSucceed, Agrees, IdleUntilServing, OneTask,
         Live, LeavesBeforeEnding, SnapshotIsFresh, InitialSnapshot
<1> QED
  BY <1>1, <1>2, NativeInvParts

\* NativeInv is inductive in native mode: hosts attach, are lost and replaced one
\* after the other around one request loop, and startup may give up.
THEOREM NativeInvariant == NativeSpec => []NativeInv
<1>1. NativeInv /\ [NativeNext]_nativeVars => NativeInv'
  <2> SUFFICES ASSUME NativeInv, [NativeNext]_nativeVars PROVE NativeInv'
    OBVIOUS
  <2>0. BridgeInv /\ LocalInv /\ frame \in [Conn -> {"whole", "partial", "lost"}]
    BY NativeInvParts DEF NativeInv, NativeTypeOK
  <2>1. CASE StartupAttached
    <3>1. BridgeInv'
      BY <2>0, <2>1, BaseStutterInv DEF StartupAttached
    <3>2. LocalInv'
      BY <2>0, <2>1, QuietLocal DEF StartupAttached, baseVars
    <3> QED
      BY <3>1, <3>2, NativeInvParts
  <2>2. CASE StartupTimesOut
    BY <2>2, AbortInv
  <2>3. ASSUME NEW r \in Request, ReceiveRequest(r) PROVE NativeInv'
    <3>1. BridgeInv'
      BY <2>0, <2>3, ReceiveInv DEF ReceiveRequest
    <3>2. LocalInv'
      BY <2>0, <2>3, QuietLocal DEF ReceiveRequest, Receive, bridgeVars, taskVars, hostVars
    <3> QED
      BY <3>1, <3>2, NativeInvParts
  <2>4. CASE ServeRequest
    <3>1. BridgeInv'
      BY <2>0, <2>4, RequestLoopInv DEF ServeRequest
    <3>2. /\ bridge'.transport = bridge.transport /\ bridge'.status = bridge.status
          /\ bridge'.browser = bridge.browser
          /\ UNCHANGED <<disk, snap, ending, pc>>
      BY <2>0, <2>4 DEF ServeRequest, RequestLoop, RejectRequest, EnqueueRequest, RefuseRequest,
         SendReply, TimeOut, bridgeVars, taskVars, BridgeInv, BaseTypeOK
    <3>3. LocalInv'
      BY <2>0, <2>4, <3>2, QuietLocal DEF ServeRequest, hostVars
    <3> QED
      BY <3>1, <3>3, NativeInvParts
  <2>5. ASSUME NEW c \in Conn,
               \/ AcceptHost(c) \/ HostHello(c) \/ NoHostHello(c)
               \/ BeginRead(c) \/ ReadHostFrame(c) \/ ReadLostFrame(c)
               \/ Forward(c) \/ ForwardFails(c)
               \/ PersistSnapshot(c)
        PROVE  NativeInv'
    BY <2>5, ConnectionInv
  <2>6. CASE UNCHANGED nativeVars
    <3>1. BridgeInv'
      BY <2>0, <2>6, BaseStutterInv DEF nativeVars
    <3>2. LocalInv'
      BY <2>0, <2>6, QuietLocal DEF nativeVars, baseVars, hostVars
    <3> QED
      BY <3>1, <3>2, NativeInvParts
  <2>7. CASE OtherClears \/ OtherReads \/ OtherWrites
    BY <2>7, RewriteInv
  <2> QED
    BY <2>1, <2>2, <2>3, <2>4, <2>5, <2>6, <2>7 DEF NativeNext
<1> QED
  BY <1>1, NativeInitInv, PTL DEF NativeSpec

\* In native mode an attached bridge always has its connection task.
THEOREM NativeTransportIsLive == NativeSpec => []HostTransportIsLive
<1>1. NativeInv => HostTransportIsLive
  BY DEF NativeInv
<1> QED
  BY <1>1, NativeInvariant, PTL

\* In native mode the bridge fields of config.json follow the bridge, unless a write
\* failed or another process put back what it had read before.
THEOREM NativeRoutingAgrees == NativeSpec => []RoutingAgrees
<1>1. NativeInv => RoutingAgrees
  BY DEF NativeInv
<1> QED
  BY <1>1, NativeInvariant, PTL

\* No client is sent the answer to another request.
THEOREM NativeOwnAnswer == NativeSpec => []OwnAnswer
<1>1. NativeInv => OwnAnswer
  BY DEF NativeInv, BridgeInv
<1> QED
  BY <1>1, NativeInvariant, PTL

\* The request loop never waits on a oneshot nobody can resolve.
THEOREM NativeNoLostWaiter == NativeSpec => []NoLostWaiter
<1>1. NativeInv => NoLostWaiter
  BY DEF NativeInv, BridgeInv
<1> QED
  BY <1>1, NativeInvariant, PTL

\* In native mode the daemon implements RequestService, too.
THEOREM NativeImplementsService == NativeSpec => ServiceSpec
<1>1. NativeInit => Service!Init
  BY InitRefines DEF NativeInit
<1>2. NativeInv /\ [NativeNext]_nativeVars => [Service!Next]_(Service!vars)
  <2> SUFFICES ASSUME NativeInv, [NativeNext]_nativeVars
               PROVE  Service!Next \/ UNCHANGED Service!vars
    OBVIOUS
  <2>0. BridgeInv
    BY DEF NativeInv
  <2>1. ASSUME NEW r \in Request, ReceiveRequest(r) PROVE Service!Next
    BY <2>1, ReceiveRefines DEF ReceiveRequest, Service!Next
  <2>2. CASE ServeRequest
    BY <2>0, <2>2, RequestLoopRefines DEF ServeRequest, Service!Next
  <2>3. ASSUME NEW c \in Conn, ReadHostFrame(c) PROVE Service!Next \/ UNCHANGED Service!vars
    <3>1. PICK m \in Readable(c) : Consume(c, m)
      BY <2>3 DEF ReadHostFrame
    <3>2. m \in Message /\ UNCHANGED loopVars
      BY <2>0, <2>3, ReadableFact DEF BridgeInv, ReadHostFrame
    <3> QED
      BY <3>1, <3>2, ConsumeRefines DEF Service!Next
  <2>4. ASSUME NEW c \in Conn,
               \/ AcceptHost(c) \/ HostHello(c) \/ NoHostHello(c)
               \/ BeginRead(c) \/ ReadLostFrame(c)
               \/ Forward(c) \/ ForwardFails(c)
               \/ PersistSnapshot(c)
        PROVE  UNCHANGED Service!vars
    BY <2>4, PersistRefines DEF AcceptHost, HostHello, NoHostHello, BeginRead, ReadLostFrame, Forward,
       SendOutbound, ForwardFails, PersistSnapshot, Persist, baseVars, loopVars, peerVars, Service!vars
  <2>5. CASE StartupAttached \/ StartupTimesOut \/ OtherClears \/ OtherReads \/ OtherWrites
             \/ UNCHANGED nativeVars
    BY <2>5 DEF StartupAttached, StartupTimesOut, OtherClears, OtherReads, OtherWrites, nativeVars,
       baseVars, loopVars, peerVars, Service!vars
  <2> QED
    BY <2>1, <2>2, <2>3, <2>4, <2>5 DEF NativeNext
<1> QED
  BY <1>1, <1>2, NativeInvariant, PTL DEF NativeSpec, ServiceSpec, Service!Spec

\* A client is answered once, and its request never served again.
THEOREM NativeAnsweredOnce == NativeSpec => Service!AnsweredOnce
BY NativeImplementsService, ServiceAnsweredOnce, PTL

\* Clients are answered in the order in which their requests came.
THEOREM NativeInOrder == NativeSpec => Service!InOrder
BY NativeImplementsService, ServiceInOrder, PTL
=============================================================================
