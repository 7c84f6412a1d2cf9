---------------------------- MODULE HelperDaemon ----------------------------
(***************************************************************************)
(* The daemon in the modes that start Apple's helper themselves (direct,   *)
(* launchd, auto and disabled; start_daemon_inner of rust/src/daemon.rs).  *)
(* Each launch backend is probed in turn; the first helper that answers is *)
(* kept, and the requests of the clients are written to its stdin one at a *)
(* time, each followed by reading one frame from its stdout.  Frames carry *)
(* no id: which request an answer belongs to is a matter of counting.      *)
(***************************************************************************)
EXTENDS Naturals, Sequences, Functions

CONSTANTS
    Request,        \* datagrams of the clients
    Oversized,      \* requests longer than MAX_HELPER_PAYLOAD
    NoRequest,
    Unreachable,    \* requests whose client a datagram may fail to reach
    PipeSize        \* requests the helper's stdin pipe holds

ASSUME HelperAssumption ==
    /\ NoRequest \notin Request
    /\ Oversized \subseteq Request /\ Unreachable \subseteq Request
    /\ PipeSize \in Nat \ {0}

VARIABLES
    mode, dryRun,   \* the options of apw start
    hadSession,     \* whether config.json had a session at the start
    keychain,       \* whether that session's key is in the keychain (macOS)
    badDisk,        \* whether a write_config may fail
    phase,          \* where start_daemon_inner is
    backend,        \* the index of the launch backend being tried
    process,        \* per strategy, the helper process it started
    disk,           \* launch metadata and session of config.json
    queue,          \* the UDP socket's buffer; its head is the datagram in service
    serving,        \* where the request loop is
    stdin,          \* requests in the pipe to the helper
    owed,           \* requests the helper has read and not answered
    stdout,         \* frames in the pipe from the helper
    torn,           \* the daemon has lost the frame boundaries of stdout
    inStep,         \* no read timed out or met a frame too long yet
    reply           \* per request, the datagram sent back to its client

startVars == <<mode, dryRun, hadSession, keychain, badDisk>>
launchVars == <<phase, backend>>
loopVars  == <<queue, serving, reply>>
pipeVars  == <<stdin, owed, stdout, torn, inStep>>
vars == <<startVars, launchVars, process, disk, loopVars, pipeVars>>

Strategy == {"direct", "launchd_compatible"}
Mode     == {"direct", "launchd", "auto", "disabled"}
Phase    == {"launching", "probing", "launched", "unavailable", "settling", "binding",
             "persisting", "serving", "failed", "unchecked", "done"}
Code     == {"Success", "GenericError", "InvalidParam", "ProcessNotRunning",
             "CommunicationTimeout", "ProtoInvalidResponse", "Lost"}
\* A frame: an answer, an error, an error that says ProcessNotRunning, nothing or
\* something that is not a JSON object, or a body longer than MAX_HELPER_PAYLOAD.
\* "Lost" stands for a reply that send_to failed to send: its client gets nothing.
Frame    == [type : {"payload", "failed", "stopped", "garbage", "toolong"}, of : Request]
\* "closed" is a helper that runs but has closed its pipes.
Alive(s) == process[s] \in {"running", "closed"}
NoReply  == [code |-> "none", of |-> NoRequest]

TypeOK ==
    /\ mode \in Mode /\ dryRun \in BOOLEAN /\ badDisk \in BOOLEAN
    /\ hadSession \in BOOLEAN /\ keychain \in BOOLEAN
    /\ phase \in Phase /\ backend \in 1..3
    /\ process \in [Strategy -> {"none", "running", "closed", "exited"}]
    /\ disk \in [launch : {"none", "ok", "failed", "disabled"}, session : BOOLEAN]
    /\ queue \in Seq(Request) /\ serving \in {"idle", "reading"}
    /\ stdin \in Seq(Request) /\ owed \in Seq(Request) /\ stdout \in Seq(Frame)
    /\ torn \in BOOLEAN /\ inStep \in BOOLEAN
    /\ reply \in [Request -> [code : Code \cup {"none"}, of : Request \cup {NoRequest}]]

Init ==
    /\ mode \in Mode /\ dryRun \in BOOLEAN /\ badDisk \in BOOLEAN
    /\ hadSession \in BOOLEAN /\ keychain \in BOOLEAN
    /\ phase = "launching" /\ backend = 1
    /\ process = [s \in Strategy |-> "none"]
    /\ disk = [launch |-> "none", session |-> hadSession]
    /\ queue = <<>> /\ serving = "idle"
    /\ stdin = <<>> /\ owed = <<>> /\ stdout = <<>>
    /\ torn = FALSE /\ inStep = TRUE
    /\ reply = [r \in Request |-> NoReply]

-----------------------------------------------------------------------------
(* probe_helper_launch                                                      *)

\* backend_selection
Backends == CASE mode = "direct"   -> <<"direct">>
              [] mode = "launchd"  -> <<"launchd_compatible">>
              [] mode = "auto"     -> <<"direct", "launchd_compatible">>
              [] mode = "disabled" -> <<>>

Current == Backends[backend]

NextBackend == phase' = "launching" /\ backend' = backend + 1

\* The helper is spawned, or cannot be.
Launch ==
    /\ phase = "launching"
    /\ backend <= Len(Backends)
    /\ \/ /\ process' = [process EXCEPT ![Current] = "running"]
          /\ phase' = "probing"
          /\ UNCHANGED backend
       \/ /\ NextBackend
          /\ UNCHANGED process
    /\ UNCHANGED <<startVars, disk, loopVars, pipeVars>>

\* The helper answered the capabilities probe (it may have gone since).  A dry
\* run ends it.
ProbePasses ==
    /\ phase = "probing"
    /\ phase' = IF dryRun THEN "launched" ELSE "settling"
    /\ process' = IF dryRun THEN [process EXCEPT ![Current] = "exited"] ELSE process
    /\ UNCHANGED <<startVars, backend, disk, loopVars, pipeVars>>

\* Mutant: a helper that failed the probe is left alone.
ProbeFailsAlive ==
    /\ phase = "probing"
    /\ NextBackend
    /\ UNCHANGED <<startVars, process, disk, loopVars, pipeVars>>

\* No answer within LAUNCH_PROBE_RESPONSE_TIMEOUT_MS, or a wrong one: the helper
\* is killed, and waited for, before the next backend is tried.
ProbeFails ==
    /\ phase = "probing"
    /\ process' = [process EXCEPT ![Current] = "exited"]
    /\ NextBackend
    /\ UNCHANGED <<startVars, disk, loopVars, pipeVars>>

NoBackendLeft ==
    /\ phase = "launching"
    /\ backend > Len(Backends)
    /\ phase' = "unavailable"
    /\ UNCHANGED <<startVars, backend, process, disk, loopVars, pipeVars>>

-----------------------------------------------------------------------------
(* start_daemon_inner up to its loop.                                       *)

\* A write_config that fails: by then it may have deleted the key from the keychain.
WriteFailed ==
    /\ badDisk
    /\ \/ UNCHANGED disk
       \/ keychain /\ disk' = [disk EXCEPT !.session = FALSE]

\* The end of a dry run and of a start without a helper: the outcome is written
\* to config.json.  The session there is kept, but a write without a key deletes the
\* one in the keychain.
PersistLaunch ==
    /\ phase \in {"launched", "unavailable"}
    /\ \/ disk' = [launch  |-> CASE phase = "launched" -> "ok"
                                 [] mode = "disabled"  -> "disabled"
                                 [] OTHER              -> "failed",
                    session |-> disk.session /\ ~keychain]
       \/ WriteFailed
    /\ phase' = IF phase = "launched" /\ disk'.launch = "ok" THEN "done" ELSE "failed"
    /\ UNCHANGED <<startVars, backend, process, loopVars, pipeVars>>

\* ensure_helper_stays_alive.  When the check itself fails (try_wait), the start ends
\* there, and the helper is not terminated.
Settle ==
    /\ phase = "settling"
    /\ phase' \in {IF process[Current] = "exited" THEN "failed" ELSE "binding", "unchecked"}
    /\ UNCHANGED <<startVars, backend, process, disk, loopVars, pipeVars>>

TerminateHelper == process' = [process EXCEPT ![Current] = "exited"]

\* Mutant: the start fails without terminating the helper.
BindLeavesHelper ==
    /\ phase = "binding"
    /\ phase' \in {"persisting", "failed"}
    /\ UNCHANGED <<startVars, backend, process, disk, loopVars, pipeVars>>

Bind ==
    /\ phase = "binding"
    /\ \/ phase' = "persisting" /\ UNCHANGED process
       \/ phase' = "failed" /\ TerminateHelper
    /\ UNCHANGED <<startVars, backend, disk, loopVars, pipeVars>>

\* Mutant: the session is cleared first, and a failure found afterwards.
ClearSessionFirst ==
    /\ phase = "persisting"
    /\ disk' = [launch |-> "ok", session |-> FALSE]
    /\ \/ phase' = "serving" /\ UNCHANGED process
       \/ badDisk /\ phase' = "failed" /\ TerminateHelper
    /\ UNCHANGED <<startVars, backend, loopVars, pipeVars>>

\* The session of the last daemon is cleared (clear_auth) once this one listens.
ClearSession ==
    /\ phase = "persisting"
    /\ \/ /\ disk' = [launch |-> "ok", session |-> FALSE]
          /\ phase' = "serving"
          /\ UNCHANGED process
       \/ /\ phase' = "failed"
          /\ TerminateHelper
          /\ WriteFailed
    /\ UNCHANGED <<startVars, backend, loopVars, pipeVars>>

StartUp ==
    \/ Launch \/ ProbePasses \/ ProbeFails \/ NoBackendLeft
    \/ PersistLaunch \/ Settle \/ Bind \/ ClearSession

-----------------------------------------------------------------------------
(* The request loop.                                                        *)

Listening == phase \in {"persisting", "serving"}

Receive(r) ==
    /\ Listening
    /\ reply[r] = NoReply
    /\ \A i \in 1..Len(queue) : queue[i] # r
    /\ queue' = Append(queue, r)
    /\ UNCHANGED <<startVars, launchVars, process, disk, serving, reply, pipeVars>>

Send(code, of) ==
    /\ reply' = [reply EXCEPT ![Head(queue)] = [code |-> code, of |-> of]]
    /\ queue' = Tail(queue)
    /\ serving' = "idle"

\* An error envelope is sent once; whether it could be sent is not looked at.
Answer(code, of) ==
    Send(code, of) \/ (Head(queue) \in Unreachable /\ Send("Lost", NoRequest))

\* Mutant: the client is told before the config is written, or instead of it.
FailUnrecorded(code, of) ==
    /\ Answer(IF process[Current] = "exited" THEN "ProcessNotRunning" ELSE code, of)
    /\ UNCHANGED disk

\* The error branch of the loop: whatever went wrong, a helper that has exited
\* is the cause; a helper that is gone is recorded before the client is told.
Fail(code, of) ==
    LET gone == process[Current] = "exited" \/ code = "ProcessNotRunning" IN
    /\ Answer(IF gone THEN "ProcessNotRunning" ELSE code, IF gone THEN NoRequest ELSE of)
    /\ \/ disk' = IF gone THEN [disk EXCEPT !.launch = "failed"] ELSE disk
       \/ badDisk /\ UNCHANGED disk

\* Mutant: the size is checked once the frame has been written.
RejectWritten ==
    /\ phase = "serving" /\ serving = "idle"
    /\ queue # <<>> /\ Head(queue) \in Oversized
    /\ Len(stdin) < PipeSize
    /\ stdin' = Append(stdin, Head(queue))
    /\ Answer("InvalidParam", NoRequest)
    /\ UNCHANGED <<startVars, launchVars, process, disk, owed, stdout, torn, inStep>>

RejectRequest ==
    /\ phase = "serving" /\ serving = "idle"
    /\ queue # <<>> /\ Head(queue) \in Oversized
    /\ Answer("InvalidParam", NoRequest)
    /\ UNCHANGED <<startVars, launchVars, process, disk, pipeVars>>

\* write_frame has no timeout: with the pipe full it waits for the helper.
CanWrite ==
    /\ phase = "serving" /\ serving = "idle"
    /\ queue # <<>> /\ Head(queue) \notin Oversized

WriteFrame ==
    /\ CanWrite
    /\ process[Current] = "running"
    /\ Len(stdin) < PipeSize
    /\ stdin' = Append(stdin, Head(queue))
    /\ serving' = "reading"
    /\ UNCHANGED <<startVars, launchVars, process, disk, queue, reply, owed, stdout, torn, inStep>>

\* A broken pipe.
WriteFails ==
    /\ CanWrite
    /\ process[Current] # "running"
    /\ Fail("ProcessNotRunning", NoRequest)
    /\ UNCHANGED <<startVars, launchVars, process, pipeVars>>

\* Mutant: the frame stays in the pipe.
ReadFrameAgain ==
    /\ serving = "reading"
    /\ stdout # <<>> /\ ~torn
    /\ LET f == Head(stdout) IN
        \/ f.type = "payload" /\ Send("Success", f.of) /\ UNCHANGED disk
        \/ f.type = "failed"  /\ Fail("GenericError", f.of)
        \/ f.type = "stopped" /\ Fail("ProcessNotRunning", f.of)
        \/ f.type \in {"garbage", "toolong"} /\ Fail("ProtoInvalidResponse", NoRequest)
    /\ UNCHANGED <<startVars, launchVars, process, pipeVars>>

\* read_frame and the two parsers.  A body that is too long is left in the pipe.  An
\* answer that cannot be sent (a datagram may be too long for the socket) becomes an
\* error.
ReadFrame ==
    /\ serving = "reading"
    /\ stdout # <<>> /\ ~torn
    /\ LET f == Head(stdout) IN
        /\ \/ f.type = "payload" /\ Send("Success", f.of) /\ UNCHANGED disk
           \/ f.type = "payload" /\ Fail("GenericError", NoRequest)
           \/ f.type = "failed"  /\ Fail("GenericError", f.of)
           \/ f.type = "stopped" /\ Fail("ProcessNotRunning", f.of)
           \/ f.type \in {"garbage", "toolong"} /\ Fail("ProtoInvalidResponse", NoRequest)
        /\ torn' = (f.type = "toolong")
        /\ inStep' = (inStep /\ f.type # "toolong")
    /\ stdout' = Tail(stdout)
    /\ UNCHANGED <<startVars, launchVars, process, stdin, owed>>

\* Four bytes out of the middle of a frame, read as a length.  Out of range, that is all
\* that is taken; in range, so are the frames in what is taken for a body, or all there
\* is until the timeout.  What is left may begin with a frame again.
ReadTorn ==
    /\ serving = "reading"
    /\ torn
    /\ \E n \in 0..Len(stdout) :
        /\ stdout' = SubSeq(stdout, n + 1, Len(stdout))
        /\ \/ Fail("ProtoInvalidResponse", NoRequest)
           \/ n = Len(stdout) /\ Fail("CommunicationTimeout", NoRequest)
    /\ torn' \in BOOLEAN
    /\ UNCHANGED <<startVars, launchVars, process, stdin, owed, inStep>>

\* The end of the helper's stdout.
ReadEnd ==
    /\ serving = "reading"
    /\ stdout = <<>>
    /\ process[Current] # "running"
    /\ Fail("ProcessNotRunning", NoRequest)
    /\ UNCHANGED <<startVars, launchVars, process, pipeVars>>

\* Mutant: the read has no timeout.
TimeOutNever == FALSE /\ UNCHANGED vars

\* COMMAND_TIMEOUT_MS passed, before the answer or in the middle of it: read_exact
\* is dropped with the bytes it has taken.
TimeOut ==
    /\ serving = "reading"
    /\ stdout = <<>>
    /\ Fail("CommunicationTimeout", NoRequest)
    /\ inStep' = FALSE
    /\ \/ UNCHANGED <<owed, torn>>
       \/ /\ process[Current] = "running" /\ owed # <<>>
          /\ owed' = Tail(owed)
          /\ torn' = TRUE
    /\ UNCHANGED <<startVars, launchVars, process, stdin, stdout>>

RequestLoop ==
    \/ RejectRequest \/ WriteFrame \/ WriteFails
    \/ ReadFrame \/ ReadTorn \/ ReadEnd \/ TimeOut

-----------------------------------------------------------------------------
(* The helper: it reads its stdin in order, answers each request once or    *)
(* never, in order, and may end at any time.                                *)

HelperReads ==
    /\ phase = "serving" /\ process[Current] = "running"
    /\ stdin # <<>>
    /\ stdin' = Tail(stdin)
    /\ owed' = Append(owed, Head(stdin))
    /\ UNCHANGED <<startVars, launchVars, process, disk, loopVars, stdout, torn, inStep>>

HelperAnswers ==
    /\ phase = "serving" /\ process[Current] = "running"
    /\ owed # <<>>
    /\ owed' = Tail(owed)
    /\ \/ \E type \in {"payload", "failed", "stopped", "garbage", "toolong"} :
             stdout' = Append(stdout, [type |-> type, of |-> Head(owed)])
       \/ UNCHANGED stdout
    /\ UNCHANGED <<startVars, launchVars, process, disk, loopVars, stdin, torn, inStep>>

HelperEnds(s) ==
    /\ phase \notin {"failed", "done"}
    /\ \/ Alive(s) /\ process' = [process EXCEPT ![s] = "exited"]
       \/ process[s] = "running" /\ process' = [process EXCEPT ![s] = "closed"]
    /\ UNCHANGED <<startVars, launchVars, disk, loopVars, pipeVars>>

Next ==
    \/ StartUp \/ RequestLoop
    \/ \E r \in Request : Receive(r)
    \/ HelperReads \/ HelperAnswers
    \/ \E s \in Strategy : HelperEnds(s)

Spec == Init /\ [][Next]_vars

\* The daemon's own code goes on when it can, and its timer fires; nothing is
\* assumed of the helper.
FairSpec == Spec /\ WF_vars(StartUp) /\ WF_vars(RequestLoop)

-----------------------------------------------------------------------------
(* Properties.                                                              *)

\* A start that failed, and a dry run, leave no helper behind, unless it was the check
\* for the helper that failed; nor do they lose the session of the daemon that may be
\* running already, where its key is in config.json.
FailedStartUndone ==
    phase \in {"failed", "unchecked", "done"} =>
        /\ phase # "unchecked" => \A s \in Strategy : ~Alive(s)
        /\ keychain \/ disk.session = hadSession

\* Whoever was told that the helper is gone, the config says so too: every later
\* command stops there instead of waiting for the daemon (launch_error_from_config).
GoneIsRecorded ==
    ~badDisk /\ (\E r \in Request : reply[r].code = "ProcessNotRunning") =>
        disk.launch = "failed"

\* At any time, no answer is handed to two clients.
DeliveredOnce ==
    \A r, s \in Request : r # s /\ reply[r].of # NoRequest => reply[r].of # reply[s].of

\* A client's answer is the answer to its request.
OwnAnswer == \A r \in Request : reply[r].of \in {r, NoRequest}

\* The helper's answer goes to the client it is for, as long as no read timed out
\* or met a frame that is too long.
OwnAnswerInStep == inStep => OwnAnswer

\* Apple's helper serves one client: two of them never run at a time, however the
\* backends succeed, hang or fail in turn.  The one that runs is the one the daemon
\* would terminate, and nothing is said to the clients before the start is over.
LaunchInv ==
    /\ phase \in {"probing", "launched", "settling", "binding", "persisting", "serving"} =>
          backend <= Len(Backends)
    /\ \A s \in Strategy : Alive(s) =>
          /\ phase \in {"probing", "settling", "binding", "persisting", "serving", "unchecked"}
          /\ s = Current
    /\ phase # "serving" =>
          /\ keychain \/ disk.session = hadSession
          /\ serving = "idle" /\ reply = [r \in Request |-> NoReply]

\* The requests in the queue wait for their first reply.
QueueInv ==
    /\ IsInjective(queue)
    /\ \A r \in Range(queue) : reply[r] = NoReply
    /\ serving = "reading" => queue # <<>>

\* The requests in the pipes, each in one place, and begun by the daemon.
Of(frames) == {f.of : f \in Range(frames)}
Held       == Range(stdin) \cup Range(owed) \cup Of(stdout)
OneEach(frames) == \A i, j \in DOMAIN frames : frames[i].of = frames[j].of => i = j

HeldOnce ==
    /\ IsInjective(stdin) /\ IsInjective(owed) /\ OneEach(stdout)
    /\ Range(stdin) \cap Range(owed) = {}
    /\ (Range(stdin) \cup Range(owed)) \cap Of(stdout) = {}
    /\ \A r \in Held : reply[r] # NoReply \/ (serving = "reading" /\ r = Head(queue))

\* An answer that was handed out is in no pipe any more.
GivenOnce ==
    \A r \in Request : reply[r].of # NoRequest =>
        reply[reply[r].of] # NoReply /\ reply[r].of \notin Held

\* Nothing is in the pipes between two requests, as long as the daemon is in step;
\* a helper that has closed its end may have left a request there.
StepInv ==
    inStep =>
        /\ ~torn
        /\ serving = "reading" => Held \subseteq {Head(queue)}
        /\ serving = "idle" => stdout = <<>> /\ (Held = {} \/ process[Current] # "running")

HelperInv ==
    /\ TypeOK /\ LaunchInv /\ QueueInv /\ HeldOnce /\ GivenOnce /\ StepInv
    /\ GoneIsRecorded /\ DeliveredOnce /\ OwnAnswerInStep

\* A request that reaches the daemon is answered, unless the helper has stopped
\* reading and write_frame waits on a full pipe.
Stuck == CanWrite /\ process[Current] = "running" /\ Len(stdin) = PipeSize

AnsweredOrStuck ==
    \A r \in Request :
        (\E i \in 1..Len(queue) : queue[i] = r) ~> (reply[r] # NoReply \/ Stuck \/ phase = "failed")

\* The requests that the frames of a pipe answer.
Origins(frames) == [i \in DOMAIN frames |-> frames[i].of]

\* The questions that may still be answered: those in the pipe back, with the helper and
\* in the pipe to it, oldest first.
Asked == Origins(stdout) \o owed \o stdin

\* The daemon implements PipeService: an answer goes to the request in service when it
\* is read, whichever it was meant for, but none is made up, repeated or overtaken by
\* the answer to a later question.
Pipe == INSTANCE PipeService WITH
    waiting <- serving = "reading",
    asked   <- Asked

PipeSpec == Pipe!Spec
=============================================================================
