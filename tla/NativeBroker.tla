---------------------------- MODULE NativeBroker ----------------------------
(***************************************************************************)
(* The app broker: the process that `apw app launch` starts and that       *)
(* answers `apw login` and `apw status` on a Unix socket, one connection   *)
(* at a time, asking the user in a modal alert (native-app/Sources/        *)
(* main.swift); and the commands that use it (rust/src/native_app.rs).     *)
(* Without a broker a command runs the app's executable for one request.   *)
(***************************************************************************)
EXTENDS Naturals, Sequences

CONSTANTS
    Command,        \* processes of the command line client
    Kinds,          \* what each of them may be: functions from Command to Kind
    Broker,         \* the broker processes that may be started
    NoBroker,
    Probe,          \* a connection that socket_running opened and closed
    ConnectRetries,
    Backlog,        \* connections the listening socket holds
    MaxFaults       \* bound: processes killed or suspended from outside

Kind == {"login", "status", "launch", "install"}

ASSUME BrokerAssumption ==
    /\ Kinds \subseteq [Command -> Kind]
    /\ NoBroker \notin Broker
    /\ Probe \notin Command
    /\ ConnectRetries \in Nat \ {0} /\ Backlog \in Nat \ {0} /\ MaxFaults \in Nat

VARIABLES
    kind,       \* what each command does
    name,       \* the broker whose socket the path names
    bundle,     \* the installed app bundle
    broker,     \* per broker, where it is, the connection it serves, its answer
    backlog,    \* per broker, the connections not accepted yet
    pc,         \* where each command is
    tries,      \* failed connection attempts of each command
    sent,       \* commands whose request has been written to a connection
    decided,    \* what the user said to each login
    outcome,    \* how each command ended
    frozen,     \* commands that are suspended with their connection open
    faults,     \* how many processes were killed or suspended
    raced       \* a launch found a broker alive that it could not reach

serverVars  == <<name, broker, backlog>>
commandVars == <<pc, tries, sent, outcome>>
faultVars   == <<frozen, faults>>
vars == <<kind, name, bundle, broker, backlog, pc, tries, sent, decided, outcome,
          frozen, faults, raced>>

Serving == {"idle", "reading", "prompting", "writing"}
Phase   == Serving \cup {"off", "starting", "unlinked", "bound", "dead"}
Answer  == {"none", "status", "password", "denied", "failed"}
Result  == {"none", "status", "password", "denied", "failed", "timeout", "invalid",
            "notRunning", "killed", "running", "launched", "starting", "installed"}

Place   == {"start", "connecting", "connected", "waiting", "oneshot", "asking", "answered",
            "probing", "spawning", "sleeping", "removing", "copying", "copied", "done"}

Of(k)     == {c \in Command : kind[c] = k}
Login     == Of("login")
\* Those that ask the broker for its status: `apw app install` does at its end.
Status    == Of("status") \cup Of("install")
Requester == Login \cup Status

Vacant(phase) == [phase |-> phase, client |-> Probe, answer |-> "none"]
Conn    == Command \cup {Probe}
Alive(b)   == broker[b].phase \notin {"off", "dead"}
Listens(b) == broker[b].phase \in Serving

TypeOK ==
    /\ kind \in Kinds
    /\ name \in Broker \cup {NoBroker}
    /\ bundle \in {"absent", "partial", "complete"}
    /\ broker \in [Broker -> [phase : Phase, client : Conn, answer : Answer]]
    /\ backlog \in [Broker -> Seq(Conn)]
    /\ pc \in [Command -> Place]
    /\ tries \in [Command -> Nat]
    /\ sent \in SUBSET Command
    /\ decided \in [Command -> {"none", "allowed", "denied"}]
    /\ outcome \in [Command -> Result]
    /\ frozen \in SUBSET Command
    /\ faults \in 0..MaxFaults
    /\ raced \in BOOLEAN

Init ==
    /\ kind \in Kinds
    /\ name = NoBroker
    /\ bundle \in {"absent", "complete"}
    /\ broker = [b \in Broker |-> Vacant("off")]
    /\ backlog = [b \in Broker |-> <<>>]
    /\ pc = [c \in Command |-> "start"]
    /\ tries = [c \in Command |-> 0]
    /\ sent = {}
    /\ decided = [c \in Command |-> "none"]
    /\ outcome = [c \in Command |-> "none"]
    /\ frozen = {} /\ faults = 0
    /\ raced = FALSE

At(c, where) == pc[c] = where /\ c \notin frozen

GoTo(c, where) ==
    /\ pc' = [pc EXCEPT ![c] = where]
    /\ UNCHANGED <<tries, sent, outcome>>

\* A connection of c is open at its broker's end too.
Linked(c) ==
    \E b \in Broker :
        \/ broker[b].client = c
        \/ \E i \in DOMAIN backlog[b] : backlog[b][i] = c

\* A connection attempt succeeds while the backlog has room.
Accepts == name # NoBroker /\ Listens(name) /\ Len(backlog[name]) < Backlog

ConnectAs(conn) == backlog' = [backlog EXCEPT ![name] = Append(@, conn)]

\* send_request has returned.  native_app_status drops its error and probes the socket.
Finish(c, result) ==
    /\ pc' = [pc EXCEPT ![c] = IF c \in Status THEN "probing" ELSE "done"]
    /\ outcome' = IF c \in Status THEN outcome ELSE [outcome EXCEPT ![c] = result]
    /\ UNCHANGED <<tries, sent>>

Complete(c, result) ==
    /\ pc' = [pc EXCEPT ![c] = "done"]
    /\ outcome' = [outcome EXCEPT ![c] = result]
    /\ UNCHANGED <<tries, sent>>

-----------------------------------------------------------------------------
(* send_request: `apw login`, `apw status` and the end of `apw app install`. *)

Request(c) ==
    /\ At(c, IF c \in Of("install") THEN "copied" ELSE "start")
    /\ GoTo(c, IF name = NoBroker THEN "oneshot" ELSE "connecting")
    /\ UNCHANGED <<kind, serverVars, bundle, decided, faultVars, raced>>

Connect(c) ==
    /\ At(c, "connecting")
    /\ \/ /\ Accepts
          /\ ConnectAs(c)
          /\ GoTo(c, "connected")
       \/ /\ ~Accepts
          /\ tries' = [tries EXCEPT ![c] = @ + 1]
          /\ pc' = [pc EXCEPT ![c] = IF tries'[c] = ConnectRetries THEN "oneshot" ELSE @]
          /\ UNCHANGED <<backlog, sent, outcome>>
    /\ UNCHANGED <<kind, name, broker, bundle, decided, faultVars, raced>>

\* The request is written and the connection shut down for writing.
Send(c) ==
    /\ At(c, "connected")
    /\ IF Linked(c)
       THEN /\ pc' = [pc EXCEPT ![c] = "waiting"]
            /\ sent' = sent \cup {c}
            /\ UNCHANGED <<tries, outcome>>
       ELSE Finish(c, "timeout")
    /\ UNCHANGED <<kind, serverVars, bundle, decided, faultVars, raced>>

\* Mutant: no timeout was set on the connection.
TimeOutNever(c) ==
    /\ At(c, "waiting")
    /\ ~Linked(c)
    /\ Finish(c, "timeout")
    /\ UNCHANGED <<kind, serverVars, bundle, decided, faultVars, raced>>

\* Mutant: a login that got no answer in time is tried again without the broker.
TimeOutRetries(c) ==
    /\ At(c, "waiting")
    /\ GoTo(c, "oneshot")
    /\ UNCHANGED <<kind, serverVars, bundle, decided, faultVars, raced>>

\* SOCKET_TIMEOUT_MS passed.  Its connection stays in the broker's backlog, or in
\* service.
TimeOut(c) ==
    /\ At(c, "waiting")
    /\ Finish(c, "timeout")
    /\ UNCHANGED <<kind, serverVars, bundle, decided, faultVars, raced>>

\* Mutant: the executable is tried not only when no connection could be made, but also
\* when the broker went away with the request.
BrokenFallsBack(c) ==
    /\ At(c, "waiting")
    /\ ~Linked(c)
    /\ GoTo(c, "oneshot")
    /\ UNCHANGED <<kind, serverVars, bundle, decided, faultVars, raced>>

\* The broker is gone: the read fails, or ends without a response.
Broken(c) ==
    /\ At(c, "waiting")
    /\ ~Linked(c)
    /\ \E result \in {"timeout", "invalid"} : Finish(c, result)
    /\ UNCHANGED <<kind, serverVars, bundle, decided, faultVars, raced>>

\* send_request_via_executable, and `APW request` up to its alert, which does not come
\* up in a process that APW_NATIVE_APP_AUTO_APPROVE is set for.
OneShot(c) ==
    /\ At(c, "oneshot")
    /\ \/ bundle # "complete" /\ Finish(c, "notRunning") /\ UNCHANGED decided
       \/ /\ bundle # "absent"
          /\ \/ \E result \in {"status", "failed", "invalid"} :
                   /\ result = "status" => c \in Status
                   /\ Finish(c, result)
                   /\ UNCHANGED decided
             \/ c \in Login /\ GoTo(c, "asking") /\ UNCHANGED decided
             \/ /\ c \in Login
                /\ GoTo(c, "answered")
                /\ decided' = [decided EXCEPT ![c] = "allowed"]
    /\ UNCHANGED <<kind, serverVars, bundle, faultVars, raced>>

\* The user answers the alert of a one-shot process.
OneShotDecides(c) ==
    /\ At(c, "asking")
    /\ \E d \in {"allowed", "denied"} : decided' = [decided EXCEPT ![c] = d]
    /\ GoTo(c, "answered")
    /\ UNCHANGED <<kind, serverVars, bundle, faultVars, raced>>

OneShotPrints(c) ==
    /\ At(c, "answered")
    /\ Finish(c, IF decided[c] = "allowed" THEN "password" ELSE "denied")
    /\ UNCHANGED <<kind, serverVars, bundle, decided, faultVars, raced>>

\* socket_running, at the end of native_app_status.
ProbeStatus(c) ==
    /\ At(c, "probing")
    /\ IF Accepts THEN ConnectAs(Probe) ELSE UNCHANGED backlog
    /\ Complete(c, IF c \in Of("install") THEN "installed" ELSE "status")
    /\ UNCHANGED <<kind, name, broker, bundle, decided, faultVars, raced>>

RequesterStep(c) ==
    /\ c \in Requester
    /\ \/ Request(c) \/ Connect(c) \/ Send(c) \/ TimeOut(c) \/ Broken(c)
       \/ OneShot(c) \/ OneShotPrints(c) \/ ProbeStatus(c)

-----------------------------------------------------------------------------
(* native_app_launch.                                                       *)

\* A broker is on its way up, or about to be started, or too busy to be reached.
Unreachable ==
    \/ \E b \in Broker : broker[b].phase \in {"starting", "unlinked", "bound"}
    \/ \E b \in Broker : Listens(b) /\ Len(backlog[b]) >= Backlog
    \/ \E c \in Command : pc[c] = "spawning"

\* Mutant: a broker is started without looking for one.
LookNever(c) ==
    /\ At(c, "start")
    /\ bundle # "absent"
    /\ GoTo(c, "spawning")
    /\ raced' = (raced \/ Unreachable)
    /\ UNCHANGED <<kind, serverVars, bundle, decided, faultVars>>

\* The bundle and its executable are looked for, then the socket is probed.
Look(c) ==
    /\ At(c, "start")
    /\ \/ /\ bundle # "complete"
          /\ Complete(c, "notRunning")
          /\ UNCHANGED <<backlog, raced>>
       \/ /\ bundle # "absent"
          /\ Accepts
          /\ ConnectAs(Probe)
          /\ Complete(c, "running")
          /\ UNCHANGED raced
       \/ /\ bundle # "absent"
          /\ ~Accepts
          /\ GoTo(c, "spawning")
          /\ raced' = (raced \/ Unreachable)
          /\ UNCHANGED backlog
    /\ UNCHANGED <<kind, name, broker, bundle, decided, faultVars>>

Unused == {b \in Broker : broker[b].phase = "off"}

Spawn(c) ==
    /\ At(c, "spawning")
    /\ \/ /\ Complete(c, "notRunning")
          /\ UNCHANGED broker
       \/ /\ bundle # "absent"
          /\ Unused # {}
          /\ broker' = [broker EXCEPT ![CHOOSE b \in Unused : TRUE] = Vacant("starting")]
          /\ GoTo(c, "sleeping")
    /\ UNCHANGED <<kind, name, backlog, bundle, decided, faultVars, raced>>

\* 300 ms later.
LookAgain(c) ==
    /\ At(c, "sleeping")
    /\ IF Accepts
       THEN ConnectAs(Probe) /\ Complete(c, "launched")
       ELSE Complete(c, "starting") /\ UNCHANGED backlog
    /\ UNCHANGED <<kind, name, broker, bundle, decided, faultVars, raced>>

LaunchStep(c) == c \in Of("launch") /\ (Look(c) \/ Spawn(c) \/ LookAgain(c))

-----------------------------------------------------------------------------
(* native_app_install: the old bundle is removed, then the new one copied.  *)

Prepare(c) ==
    /\ At(c, "start")
    /\ \/ Complete(c, "failed") /\ UNCHANGED bundle
       \/ bundle = "absent" /\ GoTo(c, "copying") /\ UNCHANGED bundle
       \/ bundle # "absent" /\ GoTo(c, "removing") /\ bundle' = "partial"
    /\ UNCHANGED <<kind, serverVars, decided, faultVars, raced>>

Remove(c) ==
    /\ At(c, "removing")
    /\ \/ GoTo(c, "copying") /\ bundle' = "absent"
       \/ Complete(c, "failed") /\ UNCHANGED bundle
    /\ UNCHANGED <<kind, serverVars, decided, faultVars, raced>>

\* Another install may have removed some of what this one has copied.
Copy(c) ==
    /\ At(c, "copying")
    /\ \/ bundle = "absent" /\ bundle' = "partial" /\ UNCHANGED commandVars
       \/ /\ bundle # "absent"
          /\ bundle' \in IF \A p \in Of("install") \ {c} : pc[p] = "start"
                         THEN {"complete"} ELSE {"partial", "complete"}
          /\ GoTo(c, "copied") \/ Complete(c, "failed")
       \/ Complete(c, "failed") /\ UNCHANGED bundle
    /\ UNCHANGED <<kind, serverVars, decided, faultVars, raced>>

InstallStep(c) == c \in Of("install") /\ (Prepare(c) \/ Remove(c) \/ Copy(c))

-----------------------------------------------------------------------------
(* BrokerServer.run                                                         *)

Becomes(b, phase) == broker' = [broker EXCEPT ![b].phase = phase]

Ends(b) ==
    /\ broker' = [broker EXCEPT ![b] = Vacant("dead")]
    /\ backlog' = [backlog EXCEPT ![b] = <<>>]

\* Whatever the path names is removed (removeStaleSocket).
Unlink(b) ==
    /\ broker[b].phase = "starting"
    /\ name' = NoBroker
    /\ Becomes(b, "unlinked")
    /\ UNCHANGED <<kind, bundle, backlog, commandVars, decided, faultVars, raced>>

\* bind fails if there is a file again.
Bind(b) ==
    /\ broker[b].phase = "unlinked"
    /\ IF name = NoBroker
       THEN name' = b /\ Becomes(b, "bound") /\ UNCHANGED backlog
       ELSE Ends(b) /\ UNCHANGED name
    /\ UNCHANGED <<kind, bundle, commandVars, decided, faultVars, raced>>

Listen(b) ==
    /\ broker[b].phase = "bound"
    /\ Becomes(b, "idle")
    /\ UNCHANGED <<kind, name, bundle, backlog, commandVars, decided, faultVars, raced>>

Accept(b) ==
    /\ broker[b].phase = "idle"
    /\ backlog[b] # <<>>
    /\ broker' = [broker EXCEPT ![b].phase = "reading", ![b].client = Head(backlog[b])]
    /\ backlog' = [backlog EXCEPT ![b] = Tail(@)]
    /\ UNCHANGED <<kind, name, bundle, commandVars, decided, faultVars, raced>>

\* The peer's end of the connection is closed.
Closed(conn) == conn \notin {c \in Command : pc[c] \in {"connected", "waiting"}}

AnswerWith(b, answer) ==
    broker' = [broker EXCEPT ![b].phase = "writing", ![b].answer = answer]

\* handleRequest reads to the end of the connection, then dispatches: a login for a
\* known domain raises an alert unless it is approved automatically, all else is
\* answered at once; a peer that closed without a request is an error.
Read(b) ==
    LET c == broker[b].client IN
    /\ broker[b].phase = "reading"
    /\ \/ c \in sent /\ c \in Status /\ AnswerWith(b, "status") /\ UNCHANGED decided
       \/ c \in sent /\ c \in Login /\ AnswerWith(b, "failed") /\ UNCHANGED decided
       \/ c \notin sent /\ Closed(c) /\ AnswerWith(b, "failed") /\ UNCHANGED decided
       \/ c \in sent /\ c \in Login /\ Becomes(b, "prompting") /\ UNCHANGED decided
       \/ /\ c \in sent /\ c \in Login
          /\ AnswerWith(b, "password")
          /\ decided' = [decided EXCEPT ![c] = "allowed"]
    /\ UNCHANGED <<kind, name, bundle, backlog, commandVars, faultVars, raced>>

\* The user answers the alert; its client may have given up long ago.
Decide(b) ==
    /\ broker[b].phase = "prompting"
    /\ \E d \in {"allowed", "denied"} :
          /\ decided' = [decided EXCEPT ![broker[b].client] = d]
          /\ AnswerWith(b, IF d = "allowed" THEN "password" ELSE "denied")
    /\ UNCHANGED <<kind, name, bundle, backlog, commandVars, faultVars, raced>>

\* Mutant: the answer goes to whoever waits on the broker's socket.
ReplyToAny(b) ==
    LET c == broker[b].client IN
    /\ broker[b].phase = "writing"
    /\ \E w \in Requester :
          /\ pc[w] = "waiting"
          /\ Finish(w, broker[b].answer)
          /\ broker' = [broker EXCEPT ![b] = Vacant("idle")]
          /\ UNCHANGED backlog
    /\ UNCHANGED <<kind, name, bundle, decided, faultVars, raced>>

\* The response is written and the connection closed.  Writing to a connection whose
\* peer is gone fails, or ends the broker with SIGPIPE.
Reply(b) ==
    LET c == broker[b].client IN
    /\ broker[b].phase = "writing"
    /\ \/ /\ ~Closed(c)
          /\ Finish(c, broker[b].answer)
          /\ broker' = [broker EXCEPT ![b] = Vacant("idle")]
          /\ UNCHANGED backlog
       \/ /\ Closed(c)
          /\ \/ broker' = [broker EXCEPT ![b] = Vacant("idle")] /\ UNCHANGED backlog
             \/ Ends(b)
          /\ UNCHANGED commandVars
    /\ UNCHANGED <<kind, name, bundle, decided, faultVars, raced>>

BrokerStep(b) ==
    Unlink(b) \/ Bind(b) \/ Listen(b) \/ Accept(b) \/ Read(b) \/ Reply(b)

-----------------------------------------------------------------------------
(* From outside.                                                            *)

Kill(c) ==
    /\ faults < MaxFaults /\ faults' = faults + 1
    /\ pc[c] \notin {"start", "done"}
    /\ Complete(c, "killed")
    /\ UNCHANGED <<kind, serverVars, bundle, decided, frozen, raced>>

Suspend(c) ==
    /\ faults < MaxFaults /\ faults' = faults + 1
    /\ pc[c] \notin {"start", "done"}
    /\ frozen' = frozen \cup {c}
    /\ UNCHANGED <<kind, serverVars, bundle, commandVars, decided, raced>>

Crash(b) ==
    /\ faults < MaxFaults /\ faults' = faults + 1
    /\ Alive(b)
    /\ Ends(b)
    /\ UNCHANGED <<kind, name, bundle, commandVars, decided, frozen, raced>>

Next ==
    \/ \E c \in Command : RequesterStep(c) \/ LaunchStep(c) \/ InstallStep(c)
    \/ \E b \in Broker : BrokerStep(b)
    \/ \E c \in Command : OneShotDecides(c) \/ Kill(c) \/ Suspend(c)
    \/ \E b \in Broker : Decide(b) \/ Crash(b)

Spec == Init /\ [][Next]_vars

\* Commands that are not suspended go on, their timers fire, and the broker's loop
\* goes round.  Nothing is assumed of the user.
FairSpec ==
    /\ Spec
    /\ \A c \in Command : WF_vars(RequesterStep(c) \/ LaunchStep(c) \/ InstallStep(c))
    /\ \A b \in Broker : WF_vars(BrokerStep(b))

-----------------------------------------------------------------------------
(* Properties.                                                              *)

\* The broker as ApprovalService: what it has shown to the user about each login is
\* the decision, and a login ends as its command does.
Approval == INSTANCE ApprovalService WITH
    Login    <- Command,
    decision <- decided,
    outcome  <- [c \in Command |-> IF c \in Login THEN outcome[c] ELSE "none"]

\* Passwords only for logins that were allowed, no login put to the user twice.
ApprovalSpec == Approval!Spec

\* Unless a launch came upon a broker on its way up, or too busy to be reached, one
\* broker runs at a time, and one that listens can be found under the path.
OneBroker ==
    ~raced =>
        /\ \A b, d \in Broker : Alive(b) /\ Alive(d) => b = d
        /\ \A b \in Broker : Listens(b) => name = b

\* A command whose request is not with a broker: it has not come to one yet (Early), or
\* has turned to the app's executable.
Early == {"start", "removing", "copying", "copied", "connecting"}
Apart == Early \cup {"oneshot", "asking"}

CommandsInv ==
    \A c \in Command :
        /\ pc[c] # "done" => outcome[c] = "none"
        /\ pc[c] \in Early => tries[c] < ConnectRetries
        /\ pc[c] \in Apart => decided[c] = "none" /\ ~Linked(c)
        /\ pc[c] \in {"asking", "answered"} => c \in Login
        /\ pc[c] = "answered" => decided[c] # "none"
        /\ pc[c] = "probing" => c \in Status

\* A connection is held in one place.
HeldOnce ==
    /\ \A b, d \in Broker : broker[b].client = broker[d].client /\ broker[b].client # Probe => b = d
    /\ \A b, d \in Broker : \A i \in DOMAIN backlog[b] :
          backlog[b][i] # Probe => broker[d].client # backlog[b][i]
    /\ \A b, d \in Broker : \A i \in DOMAIN backlog[b], j \in DOMAIN backlog[d] :
          backlog[b][i] = backlog[d][j] /\ backlog[b][i] # Probe => b = d /\ i = j

\* The user has not been asked about what waits to be served; what is about to be
\* written is what the user said.
DecisionsInv ==
    /\ \A b \in Broker : \A i \in DOMAIN backlog[b] :
          backlog[b][i] # Probe => decided[backlog[b][i]] = "none"
    /\ \A b \in Broker :
          LET c == broker[b].client IN
          /\ broker[b].phase \notin {"reading", "prompting", "writing"} => c = Probe
          /\ broker[b].phase \in {"reading", "prompting"} /\ c # Probe => decided[c] = "none"
          /\ broker[b].phase = "prompting" => c \in Login
          /\ broker[b].phase = "writing" =>
                /\ broker[b].answer # "none"
                /\ broker[b].answer = "status"   => c \in Status
                /\ broker[b].answer = "password" => c \in Login /\ decided[c] = "allowed"
                /\ broker[b].answer = "denied"   => c \in Login /\ decided[c] = "denied"

\* Without a race, nothing is alive when a launch goes on to start a broker, and the
\* name is the broker's from its bind on.
StartsInv ==
    ~raced =>
        /\ \A c, d \in Command : pc[c] = "spawning" /\ pc[d] = "spawning" => c = d
        /\ \A c \in Command, b \in Broker : pc[c] = "spawning" => ~Alive(b)
        /\ \A b, d \in Broker : Alive(b) /\ Alive(d) => b = d
        /\ \A b \in Broker : broker[b].phase \in Serving \cup {"bound"} => name = b

BrokerInv == TypeOK /\ CommandsInv /\ HeldOnce /\ DecisionsInv /\ StartsInv

\* Every command ends, whatever the broker, the user and the other commands do; only
\* one that has raised an alert of its own waits for the user.
CommandsEnd ==
    <>[](\A c \in Command : pc[c] \in {"done", "asking"} \/ c \in frozen)
=============================================================================
