------------------------- MODULE NativeBrokerProofs -------------------------
(***************************************************************************)
(* NativeBroker implements ApprovalService, and one broker runs at a time  *)
(* unless two launches raced.                                              *)
(***************************************************************************)
EXTENDS NativeBroker, TLAPS

\* The type invariant holds initially.
LEMMA TypeInit == Init => TypeOK
<1> SUFFICES ASSUME Init PROVE TypeOK
    OBVIOUS
<1>1. Vacant("off") \in [phase : Phase, client : Conn, answer : Answer]
    BY DEF Vacant, Phase, Conn, Answer
<1>2. /\ broker \in [Broker -> [phase : Phase, client : Conn, answer : Answer]]
      /\ backlog \in [Broker -> Seq(Conn)]
    BY <1>1 DEF Init
<1>3. 0 \in 0..MaxFaults
    BY BrokerAssumption
<1> QED BY <1>2, <1>3 DEF Init, TypeOK, Result, Place

\* An attempt to connect keeps the backlogs well typed.
LEMMA ConnectAsType ==
    ASSUME TypeOK, Accepts, NEW conn \in Conn, ConnectAs(conn)
    PROVE  backlog' \in [Broker -> Seq(Conn)]
<1>1. name \in Broker
    BY DEF TypeOK, Accepts
<1>2. Append(backlog[name], conn) \in Seq(Conn)
    BY <1>1 DEF TypeOK
<1> QED BY <1>1, <1>2 DEF TypeOK, ConnectAs

\* What ends a command, or a request of it, keeps the types.
LEMMA FinishType ==
    ASSUME TypeOK, NEW c \in Command, NEW result \in Result,
           Finish(c, result) \/ Complete(c, result)
    PROVE  /\ pc' \in [Command -> Place]
           /\ outcome' \in [Command -> Result]
           /\ UNCHANGED <<tries, sent>>
BY DEF TypeOK, Finish, Complete, Place

\* A step of `apw login` or `apw status` keeps the types.
LEMMA RequesterType ==
    ASSUME TypeOK, NEW c \in Command, RequesterStep(c)
    PROVE  TypeOK'
<1> USE DEF At, GoTo, serverVars, commandVars, faultVars, Place
<1> DEFINE Failed == {"failed", "invalid", "timeout", "notRunning", "status", "password", "denied"}
<1>0. Failed \cup {"installed"} \subseteq Result /\ Probe \in Conn /\ c \in Conn
    BY DEF Result, Conn
<1>1. CASE Request(c)
    BY <1>1 DEF Request, TypeOK
<1>2. CASE Connect(c)
    <2>1. CASE Accepts /\ ConnectAs(c) /\ GoTo(c, "connected")
        <3>1. backlog' \in [Broker -> Seq(Conn)]
            BY <1>0, <2>1, ConnectAsType
        <3> QED BY <1>2, <2>1, <3>1 DEF Connect, TypeOK
    <2>2. CASE ~Accepts
        <3>1. tries' \in [Command -> Nat]
            BY <1>2, <2>2 DEF TypeOK, Connect
        <3> QED BY <1>2, <2>2, <3>1 DEF Connect, TypeOK
    <2> QED BY <1>2, <2>1, <2>2 DEF Connect
<1>3. CASE Send(c)
    <2>1. CASE Finish(c, "timeout")
        BY <1>0, <1>3, <2>1, FinishType DEF Send, TypeOK
    <2>2. CASE Linked(c)
        BY <1>3, <2>2 DEF Send, TypeOK
    <2> QED BY <1>3, <2>1, <2>2 DEF Send
<1>4. CASE TimeOut(c)
    BY <1>0, <1>4, FinishType DEF TimeOut, TypeOK
<1>5. CASE Broken(c)
    BY <1>0, <1>5, FinishType DEF Broken, TypeOK
<1>6. CASE OneShot(c)
    <2>1. ASSUME NEW result \in Failed, Finish(c, result), UNCHANGED decided
          PROVE  TypeOK'
        BY <1>0, <1>6, <2>1, FinishType DEF OneShot, TypeOK
    <2>2. CASE GoTo(c, "asking") /\ UNCHANGED decided
        BY <1>6, <2>2 DEF OneShot, TypeOK
    <2>3. CASE GoTo(c, "answered") /\ decided' = [decided EXCEPT ![c] = "allowed"]
        BY <1>6, <2>3 DEF OneShot, TypeOK
    <2> QED BY <1>6, <2>1, <2>2, <2>3 DEF OneShot
<1>7. CASE OneShotPrints(c)
    BY <1>0, <1>7, FinishType DEF OneShotPrints, TypeOK
<1>8. CASE ProbeStatus(c)
    <2>1. backlog' \in [Broker -> Seq(Conn)]
        <3>1. CASE Accepts
            <4>1. ConnectAs(Probe) /\ Probe \in Conn
                BY <1>0, <1>8, <3>1 DEF ProbeStatus
            <4> QED BY <3>1, <4>1, ConnectAsType
        <3>2. CASE ~Accepts
            BY <1>8, <3>2 DEF ProbeStatus, TypeOK
        <3> QED BY <3>1, <3>2
    <2> QED BY <1>0, <1>8, <2>1, FinishType DEF ProbeStatus, TypeOK
<1> QED BY <1>1, <1>2, <1>3, <1>4, <1>5, <1>6, <1>7, <1>8 DEF RequesterStep

\* A step of `apw app launch` keeps the types.
LEMMA LaunchType ==
    ASSUME TypeOK, NEW c \in Command, LaunchStep(c)
    PROVE  TypeOK'
<1> USE DEF At, GoTo, serverVars, commandVars, faultVars, Place
<1>0. {"notRunning", "running", "launched", "starting"} \subseteq Result /\ Probe \in Conn
    BY DEF Result, Conn
<1>1. CASE Look(c)
    <2>1. backlog' \in [Broker -> Seq(Conn)]
        <3>1. CASE Accepts /\ ConnectAs(Probe)
            BY <1>0, <3>1, ConnectAsType
        <3> QED BY <1>1, <3>1 DEF Look, TypeOK
    <2>2. raced' \in BOOLEAN
        BY <1>1 DEF Look, TypeOK
    <2>3. /\ pc' \in [Command -> Place]
          /\ outcome' \in [Command -> Result]
          /\ UNCHANGED <<tries, sent>>
        BY <1>0, <1>1, FinishType DEF Look, TypeOK
    <2> QED BY <1>1, <2>1, <2>2, <2>3 DEF Look, TypeOK
<1>2. CASE Spawn(c)
    <2>1. CASE Complete(c, "notRunning") /\ UNCHANGED broker
        BY <1>0, <1>2, <2>1, FinishType DEF Spawn, TypeOK
    <2>2. ASSUME Unused # {}, GoTo(c, "sleeping"),
                 broker' = [broker EXCEPT ![CHOOSE b \in Unused : TRUE] = Vacant("starting")]
          PROVE  TypeOK'
        <3>1. Vacant("starting") \in [phase : Phase, client : Conn, answer : Answer]
            BY DEF Vacant, Phase, Conn, Answer
        <3>2. broker' \in [Broker -> [phase : Phase, client : Conn, answer : Answer]]
            BY <2>2, <3>1 DEF TypeOK
        <3> QED BY <1>2, <2>2, <3>2 DEF Spawn, TypeOK
    <2> QED BY <1>2, <2>1, <2>2 DEF Spawn
<1>3. CASE LookAgain(c)
    <2>1. backlog' \in [Broker -> Seq(Conn)]
        <3>1. CASE Accepts
            <4>1. ConnectAs(Probe)
                BY <1>3, <3>1 DEF LookAgain
            <4> QED BY <1>0, <3>1, <4>1, ConnectAsType
        <3> QED BY <1>3, <3>1 DEF LookAgain, TypeOK
    <2>2. Complete(c, "launched") \/ Complete(c, "starting")
        BY <1>3 DEF LookAgain
    <2> QED BY <1>0, <1>3, <2>1, <2>2, FinishType DEF LookAgain, TypeOK
<1> QED BY <1>1, <1>2, <1>3 DEF LaunchStep

\* A step of `apw app install` keeps the types.
LEMMA InstallType ==
    ASSUME TypeOK, NEW c \in Command, InstallStep(c)
    PROVE  TypeOK'
<1> USE DEF At, GoTo, serverVars, commandVars, faultVars, Place
<1>0. {"failed", "installed"} \subseteq Result
    BY DEF Result
<1>1. CASE Prepare(c)
    <2>1. CASE Complete(c, "failed") /\ UNCHANGED bundle
        BY <1>0, <1>1, <2>1, FinishType DEF Prepare, TypeOK
    <2>2. CASE GoTo(c, "copying") /\ UNCHANGED bundle
        BY <1>1, <2>2 DEF Prepare, TypeOK
    <2>3. CASE GoTo(c, "removing") /\ bundle' = "partial"
        BY <1>1, <2>3 DEF Prepare, TypeOK
    <2> QED BY <1>1, <2>1, <2>2, <2>3 DEF Prepare
<1>2. CASE Remove(c)
    <2>1. CASE Complete(c, "failed") /\ UNCHANGED bundle
        BY <1>0, <1>2, <2>1, FinishType DEF Remove, TypeOK
    <2>2. CASE GoTo(c, "copying") /\ bundle' = "absent"
        BY <1>2, <2>2 DEF Remove, TypeOK
    <2> QED BY <1>2, <2>1, <2>2 DEF Remove
<1>3. CASE Copy(c)
    <2>1. bundle' \in {"absent", "partial", "complete"}
        BY <1>3 DEF Copy, TypeOK
    <2>2. /\ pc' \in [Command -> Place]
          /\ outcome' \in [Command -> Result]
          /\ tries' = tries /\ sent' = sent
        BY <1>0, <1>3, FinishType DEF Copy, TypeOK
    <2> QED BY <1>3, <2>1, <2>2 DEF Copy, TypeOK
<1> QED BY <1>1, <1>2, <1>3 DEF InstallStep

\* What the broker serves and answers is well typed.
LEMMA BecomesType ==
    ASSUME TypeOK, NEW b \in Broker
    PROVE  /\ \A phase \in Phase : Becomes(b, phase) =>
                 broker' \in [Broker -> [phase : Phase, client : Conn, answer : Answer]]
           /\ \A answer \in Answer : AnswerWith(b, answer) =>
                 broker' \in [Broker -> [phase : Phase, client : Conn, answer : Answer]]
           /\ \A phase \in Phase : broker' = [broker EXCEPT ![b] = Vacant(phase)] =>
                 broker' \in [Broker -> [phase : Phase, client : Conn, answer : Answer]]
           /\ Ends(b) =>
                 /\ broker' \in [Broker -> [phase : Phase, client : Conn, answer : Answer]]
                 /\ backlog' \in [Broker -> Seq(Conn)]
<1> USE DEF TypeOK, Phase, Serving
<1>1. \A phase \in Phase : Vacant(phase) \in [phase : Phase, client : Conn, answer : Answer]
    BY DEF Vacant, Conn, Answer
<1>2. ASSUME NEW answer \in Answer, AnswerWith(b, answer)
      PROVE  broker' \in [Broker -> [phase : Phase, client : Conn, answer : Answer]]
    BY <1>2 DEF AnswerWith
<1>3. ASSUME NEW phase \in Phase, Becomes(b, phase)
      PROVE  broker' \in [Broker -> [phase : Phase, client : Conn, answer : Answer]]
    BY <1>3 DEF Becomes
<1>4. "dead" \in Phase
    OBVIOUS
<1>5. Ends(b) => backlog' \in [Broker -> Seq(Conn)]
    BY DEF Ends
<1> QED BY <1>1, <1>2, <1>3, <1>4, <1>5 DEF Ends

\* A step of a broker keeps the types.
LEMMA BrokerType ==
    ASSUME TypeOK, NEW b \in Broker, BrokerStep(b) \/ Decide(b)
    PROVE  TypeOK'
<1> DEFINE Typed == broker' \in [Broker -> [phase : Phase, client : Conn, answer : Answer]]
<1> USE DEF serverVars, commandVars, faultVars
<1>0. /\ {"dead", "unlinked", "bound", "idle", "prompting", "writing"} \subseteq Phase
      /\ {"status", "failed", "password", "denied"} \subseteq Answer
    BY DEF Phase, Serving, Answer
<1>1. CASE Unlink(b)
    <2>1. Typed
        BY <1>0, <1>1, BecomesType DEF Unlink
    <2> QED BY <1>1, <2>1 DEF Unlink, TypeOK
<1>2. CASE Bind(b)
    <2>1. Typed /\ backlog' \in [Broker -> Seq(Conn)] /\ name' \in Broker \cup {NoBroker}
        BY <1>0, <1>2, BecomesType DEF Bind, TypeOK
    <2> QED BY <1>2, <2>1 DEF Bind, TypeOK
<1>3. CASE Listen(b)
    <2>1. Typed
        BY <1>0, <1>3, BecomesType DEF Listen
    <2> QED BY <1>3, <2>1 DEF Listen, TypeOK
<1>4. CASE Accept(b)
    <2>1. backlog[b] \in Seq(Conn) /\ backlog[b] # <<>>
        BY <1>4 DEF Accept, TypeOK
    <2>2. Head(backlog[b]) \in Conn /\ Tail(backlog[b]) \in Seq(Conn)
        BY <2>1
    <2>3. Typed
        BY <1>4, <2>2 DEF Accept, TypeOK, Phase, Serving
    <2>4. backlog' \in [Broker -> Seq(Conn)]
        BY <1>4, <2>2 DEF Accept, TypeOK
    <2> QED BY <1>4, <2>3, <2>4 DEF Accept, TypeOK
<1>5. CASE Read(b)
    <2>1. Typed
        BY <1>0, <1>5, BecomesType DEF Read
    <2>2. decided' \in [Command -> {"none", "allowed", "denied"}]
        BY <1>5 DEF Read, TypeOK
    <2> QED BY <1>5, <2>1, <2>2 DEF Read, TypeOK
<1>6. CASE Reply(b)
    <2>1. broker[b].answer \in Result
        BY DEF TypeOK, Answer, Result
    <2>2. CASE ~Closed(broker[b].client)
        <3>1. broker[b].client \in Command
            BY <2>2 DEF Closed
        <3>2. Typed
            BY <1>0, <1>6, <2>2, BecomesType DEF Reply
        <3>3. Finish(broker[b].client, broker[b].answer) /\ UNCHANGED backlog
            BY <1>6, <2>2 DEF Reply
        <3>4. /\ pc' \in [Command -> Place]
              /\ outcome' \in [Command -> Result]
              /\ tries' = tries /\ sent' = sent
            BY <2>1, <3>1, <3>3, FinishType
        <3> QED BY <1>6, <3>2, <3>3, <3>4 DEF Reply, TypeOK
    <2>3. CASE Closed(broker[b].client)
        <3>1. Typed /\ backlog' \in [Broker -> Seq(Conn)]
            BY <1>0, <1>6, <2>3, BecomesType DEF Reply, TypeOK
        <3> QED BY <1>6, <2>3, <3>1 DEF Reply, TypeOK
    <2> QED BY <2>2, <2>3
<1>7. CASE Decide(b)
    <2>1. Typed
        BY <1>0, <1>7, BecomesType DEF Decide
    <2>2. decided' \in [Command -> {"none", "allowed", "denied"}]
        BY <1>7 DEF Decide, TypeOK
    <2> QED BY <1>7, <2>1, <2>2 DEF Decide, TypeOK
<1> QED BY <1>1, <1>2, <1>3, <1>4, <1>5, <1>6, <1>7 DEF BrokerStep

\* The type invariant is kept by every step.
LEMMA TypeStep ==
    ASSUME TypeOK, [Next]_vars
    PROVE  TypeOK'
<1> USE DEF serverVars, commandVars, faultVars
<1>1. ASSUME NEW c \in Command, OneShotDecides(c)
      PROVE  TypeOK'
    <2>1. decided' \in [Command -> {"none", "allowed", "denied"}] /\ pc' \in [Command -> Place]
        BY <1>1 DEF OneShotDecides, TypeOK, GoTo, Place
    <2> QED BY <1>1, <2>1 DEF OneShotDecides, TypeOK, GoTo
<1>2. ASSUME NEW c \in Command, Kill(c)
      PROVE  TypeOK'
    <2>1. faults' \in 0..MaxFaults /\ "killed" \in Result
        BY <1>2, BrokerAssumption DEF Kill, TypeOK, Result
    <2> QED BY <1>2, <2>1, FinishType DEF Kill, TypeOK
<1>3. ASSUME NEW c \in Command, Suspend(c)
      PROVE  TypeOK'
    <2>1. faults' \in 0..MaxFaults
        BY <1>3, BrokerAssumption DEF Suspend, TypeOK
    <2> QED BY <1>3, <2>1 DEF Suspend, TypeOK
<1>4. ASSUME NEW b \in Broker, Crash(b)
      PROVE  TypeOK'
    <2>1. faults' \in 0..MaxFaults
        BY <1>4, BrokerAssumption DEF Crash, TypeOK
    <2> QED BY <1>4, <2>1, BecomesType DEF Crash, TypeOK
<1>5. CASE UNCHANGED vars
    BY <1>5 DEF vars, TypeOK
<1> QED BY <1>1, <1>2, <1>3, <1>4, <1>5, RequesterType, LaunchType, InstallType, BrokerType
        DEF Next

-----------------------------------------------------------------------------
(* Where connections are held.                                              *)

\* A step that brings no command's connection to a new place.
Quiet ==
    \A b \in Broker :
        /\ broker'[b].client \in {broker[b].client, Probe}
        /\ \A i \in DOMAIN backlog'[b] :
              \/ backlog'[b][i] = Probe
              \/ i \in DOMAIN backlog[b] /\ backlog'[b][i] = backlog[b][i]

\* A new connection is at the end of the backlog of the broker the path names.
LEMMA AppendFact ==
    ASSUME TypeOK, Accepts, NEW conn \in Conn, ConnectAs(conn), NEW b \in Broker,
           NEW i \in DOMAIN backlog'[b]
    PROVE  \/ i \in DOMAIN backlog[b] /\ backlog'[b][i] = backlog[b][i]
           \/ b = name /\ i = Len(backlog[b]) + 1 /\ backlog'[b][i] = conn
<1>1. backlog[b] \in Seq(Conn) /\ name \in Broker
    BY DEF TypeOK, Accepts
<1>2. CASE b = name
    BY <1>1, <1>2 DEF ConnectAs, TypeOK
<1>3. CASE b # name
    BY <1>1, <1>3 DEF ConnectAs, TypeOK
<1> QED BY <1>2, <1>3

\* socket_running's connection is nobody's.
LEMMA ProbeQuiet ==
    ASSUME TypeOK, Accepts, ConnectAs(Probe), UNCHANGED broker
    PROVE  Quiet
<1>1. Probe \in Conn
    BY DEF Conn
<1> QED BY <1>1, AppendFact DEF Quiet

\* A broker that changes its phase or its answer, starts or ends brings no connection.
LEMMA BrokerQuiet ==
    ASSUME TypeOK, NEW b \in Broker
    PROVE  /\ \A phase \in Phase : Becomes(b, phase) /\ UNCHANGED backlog => Quiet
           /\ \A answer \in Answer : AnswerWith(b, answer) /\ UNCHANGED backlog => Quiet
           /\ \A phase \in Phase :
                 broker' = [broker EXCEPT ![b] = Vacant(phase)] /\ UNCHANGED backlog => Quiet
           /\ Ends(b) => Quiet
<1>1. ASSUME NEW phase \in Phase, Becomes(b, phase), UNCHANGED backlog
      PROVE  Quiet
    BY <1>1 DEF Becomes, TypeOK, Quiet
<1>2. ASSUME NEW answer \in Answer, AnswerWith(b, answer), UNCHANGED backlog
      PROVE  Quiet
    BY <1>2 DEF AnswerWith, TypeOK, Quiet
<1>3. ASSUME NEW phase \in Phase, broker' = [broker EXCEPT ![b] = Vacant(phase)],
             UNCHANGED backlog
      PROVE  Quiet
    BY <1>3 DEF Vacant, TypeOK, Quiet
<1>4. ASSUME Ends(b)
      PROVE  Quiet
    BY <1>4 DEF Ends, Vacant, TypeOK, Quiet
<1> QED BY <1>1, <1>2, <1>3, <1>4

\* What an accept moves: the head of the backlog comes into service.
LEMMA AcceptFact ==
    ASSUME TypeOK, NEW b \in Broker, Accept(b)
    PROVE  /\ 1 \in DOMAIN backlog[b]
           /\ broker'[b].client = backlog[b][1]
           /\ \A i \in DOMAIN backlog'[b] :
                 /\ i \in Nat \ {0} /\ i + 1 \in DOMAIN backlog[b]
                 /\ backlog'[b][i] = backlog[b][i + 1]
           /\ \A d \in Broker \ {b} : broker'[d] = broker[d] /\ backlog'[d] = backlog[d]
<1>1. backlog[b] \in Seq(Conn) /\ backlog[b] # <<>>
    BY DEF Accept, TypeOK
<1>2. /\ Head(backlog[b]) = backlog[b][1] /\ 1 \in DOMAIN backlog[b]
      /\ \A i \in DOMAIN Tail(backlog[b]) :
            /\ i \in Nat \ {0} /\ i + 1 \in DOMAIN backlog[b]
            /\ Tail(backlog[b])[i] = backlog[b][i + 1]
    BY <1>1
<1>3. /\ broker'[b].client = backlog[b][1]
      /\ backlog'[b] = Tail(backlog[b])
      /\ \A d \in Broker \ {b} : broker'[d] = broker[d] /\ backlog'[d] = backlog[d]
    BY <1>2 DEF Accept, TypeOK
<1> QED BY <1>2, <1>3

\* Only a command that connects, and a broker that accepts, move a connection.
LEMMA MostlyQuiet ==
    ASSUME TypeOK, [Next]_vars
    PROVE  \/ Quiet
           \/ \E c \in Command : Connect(c) /\ Accepts
           \/ \E b \in Broker : Accept(b)
<1> USE DEF serverVars, commandVars, faultVars
<1>0. /\ {"dead", "unlinked", "bound", "idle", "prompting", "writing", "starting"} \subseteq Phase
      /\ {"status", "failed", "password", "denied"} \subseteq Answer
    BY DEF Phase, Serving, Answer
<1>1. broker' = broker /\ backlog' = backlog => Quiet
    BY DEF Quiet
<1>2. ASSUME NEW c \in Command, RequesterStep(c)
      PROVE  Quiet \/ (Connect(c) /\ Accepts)
    <2>1. CASE ProbeStatus(c)
        <3>1. CASE Accepts
            BY <2>1, <3>1, ProbeQuiet DEF ProbeStatus
        <3>2. CASE ~Accepts
            BY <1>1, <2>1, <3>2 DEF ProbeStatus
        <3> QED BY <3>1, <3>2
    <2>2. CASE Connect(c) /\ ~Accepts
        BY <1>1, <2>2 DEF Connect
    <2>3. CASE Request(c) \/ Send(c) \/ TimeOut(c) \/ Broken(c) \/ OneShot(c) \/ OneShotPrints(c)
        BY <1>1, <2>3 DEF Request, Send, TimeOut, Broken, OneShot, OneShotPrints
    <2> QED BY <1>2, <2>1, <2>2, <2>3 DEF RequesterStep
<1>3. ASSUME NEW c \in Command, LaunchStep(c)
      PROVE  Quiet
    <2>1. CASE Look(c)
        BY <1>1, <2>1, ProbeQuiet DEF Look
    <2>2. CASE Spawn(c)
        <3>1. CASE UNCHANGED broker
            BY <1>1, <2>2, <3>1 DEF Spawn
        <3>2. ASSUME Unused # {},
                     broker' = [broker EXCEPT ![CHOOSE b \in Unused : TRUE] = Vacant("starting")]
              PROVE  Quiet
            <4>1. (CHOOSE b \in Unused : TRUE) \in Broker
                BY <3>2 DEF Unused
            <4> QED BY <1>0, <2>2, <3>2, <4>1, BrokerQuiet DEF Spawn
        <3> QED BY <2>2, <3>1, <3>2 DEF Spawn
    <2>3. CASE LookAgain(c)
        <3>1. CASE Accepts
            BY <2>3, <3>1, ProbeQuiet DEF LookAgain
        <3>2. CASE ~Accepts
            BY <1>1, <2>3, <3>2 DEF LookAgain
        <3> QED BY <3>1, <3>2
    <2> QED BY <1>3, <2>1, <2>2, <2>3 DEF LaunchStep
<1>4. ASSUME NEW c \in Command, InstallStep(c)
      PROVE  Quiet
    BY <1>1, <1>4 DEF InstallStep, Prepare, Remove, Copy
<1>5. ASSUME NEW b \in Broker, BrokerStep(b)
      PROVE  Quiet \/ Accept(b)
    <2>1. CASE Unlink(b)
        BY <1>0, <2>1, BrokerQuiet DEF Unlink
    <2>2. CASE Bind(b)
        BY <1>0, <2>2, BrokerQuiet DEF Bind
    <2>3. CASE Listen(b)
        BY <1>0, <2>3, BrokerQuiet DEF Listen
    <2>4. CASE Read(b)
        BY <1>0, <2>4, BrokerQuiet DEF Read
    <2>5. CASE Reply(b)
        BY <1>0, <2>5, BrokerQuiet DEF Reply
    <2> QED BY <1>5, <2>1, <2>2, <2>3, <2>4, <2>5 DEF BrokerStep
<1>6. ASSUME NEW b \in Broker, Decide(b)
      PROVE  Quiet
    BY <1>0, <1>6, BrokerQuiet DEF Decide
<1>7. ASSUME NEW b \in Broker, Crash(b)
      PROVE  Quiet
    BY <1>7, BrokerQuiet DEF Crash
<1>8. ASSUME NEW c \in Command, OneShotDecides(c) \/ Kill(c) \/ Suspend(c)
      PROVE  Quiet
    BY <1>1, <1>8 DEF OneShotDecides, Kill, Suspend
<1> QED BY <1>1, <1>2, <1>3, <1>4, <1>5, <1>6, <1>7, <1>8 DEF Next, vars

\* A command whose connection was at no broker is at one only if it has just connected.
LEMMA LinkStep ==
    ASSUME TypeOK, [Next]_vars, NEW c \in Command, ~Linked(c), Linked(c)'
    PROVE  Connect(c) /\ Accepts
<1>1. Probe \notin Command
    BY BrokerAssumption
<1>2. CASE Quiet
    BY <1>1, <1>2 DEF Quiet, Linked
<1>3. ASSUME NEW d \in Command, Connect(d), Accepts
      PROVE  c = d
    <2>1. d \in Conn /\ ConnectAs(d) /\ UNCHANGED broker
        BY <1>3 DEF Conn, Connect
    <2> QED BY <1>3, <2>1, AppendFact DEF Linked
<1>4. ASSUME NEW b \in Broker, Accept(b)
      PROVE  FALSE
    <2> QED BY <1>4, AcceptFact DEF Linked
<1> QED BY <1>2, <1>3, <1>4, MostlyQuiet

\* A connection stays in one place.
LEMMA HeldOnceStep ==
    ASSUME TypeOK, CommandsInv, HeldOnce, [Next]_vars
    PROVE  HeldOnce'
<1>1. Probe \notin Command
    BY BrokerAssumption
<1>2. CASE Quiet
    BY <1>2 DEF Quiet, HeldOnce
<1>3. ASSUME NEW c \in Command, Connect(c), Accepts
      PROVE  HeldOnce'
    <2>1. ~Linked(c) /\ ConnectAs(c) /\ UNCHANGED broker
        BY <1>3 DEF CommandsInv, Apart, Early, Connect, At
    <2>2. \A b \in Broker : \A i \in DOMAIN backlog'[b] :
              \/ i \in DOMAIN backlog[b] /\ backlog'[b][i] = backlog[b][i]
              \/ b = name /\ i = Len(backlog[b]) + 1 /\ backlog'[b][i] = c
        BY <1>3, <2>1, AppendFact DEF Conn
    <2> QED BY <2>1, <2>2 DEF HeldOnce, Linked
<1>4. ASSUME NEW b \in Broker, Accept(b)
      PROVE  HeldOnce'
    <2>2. /\ 1 \in DOMAIN backlog[b]
          /\ broker'[b].client = backlog[b][1]
          /\ \A i \in DOMAIN backlog'[b] :
                /\ i \in Nat \ {0} /\ i + 1 \in DOMAIN backlog[b]
                /\ backlog'[b][i] = backlog[b][i + 1]
        BY <1>4, AcceptFact
    <2>3. \A d \in Broker \ {b} : broker'[d] = broker[d] /\ backlog'[d] = backlog[d]
        BY <1>4, AcceptFact
    <2>4. ASSUME NEW d \in Broker, NEW e \in Broker,
                 broker'[d].client = broker'[e].client, broker'[d].client # Probe
          PROVE  d = e
        BY <2>2, <2>3, <2>4 DEF HeldOnce
    <2>5. ASSUME NEW d \in Broker, NEW e \in Broker, NEW i \in DOMAIN backlog'[d],
                 backlog'[d][i] # Probe
          PROVE  broker'[e].client # backlog'[d][i]
        <3>1. CASE e = b /\ d = b
            <4>1. backlog[b][i + 1] # backlog[b][1]
                BY <2>2, <2>5, <3>1 DEF HeldOnce
            <4> QED BY <2>2, <2>3, <3>1, <4>1
        <3>2. CASE e = b /\ d # b
            BY <2>2, <2>3, <2>5, <3>2 DEF HeldOnce
        <3>3. CASE e # b
            BY <2>2, <2>3, <2>5, <3>3 DEF HeldOnce
        <3> QED BY <3>1, <3>2, <3>3
    <2>6. ASSUME NEW d \in Broker, NEW e \in Broker, NEW i \in DOMAIN backlog'[d],
                 NEW j \in DOMAIN backlog'[e],
                 backlog'[d][i] = backlog'[e][j], backlog'[d][i] # Probe
          PROVE  d = e /\ i = j
        <3>1. CASE d = b /\ e = b
            BY <2>2, <2>3, <2>6, <3>1 DEF HeldOnce
        <3>2. CASE d = b /\ e # b
            BY <2>2, <2>3, <2>6, <3>2 DEF HeldOnce
        <3>3. CASE d # b /\ e = b
            BY <2>2, <2>3, <2>6, <3>3 DEF HeldOnce
        <3>4. CASE d # b /\ e # b
            BY <2>3, <2>6, <3>4 DEF HeldOnce
        <3> QED BY <3>1, <3>2, <3>3, <3>4
    <2> QED BY <2>4, <2>5, <2>6 DEF HeldOnce
<1> QED BY <1>2, <1>3, <1>4, MostlyQuiet

-----------------------------------------------------------------------------
(* Commands and decisions.                                                  *)

\* kind is chosen once.
LEMMA KindKept ==
    ASSUME [Next]_vars
    PROVE  kind' = kind /\ Login' = Login /\ Status' = Status
BY DEF Next, vars, Login, Status, Of, RequesterStep, LaunchStep, InstallStep, BrokerStep,
       Request, Connect, Send, TimeOut, Broken, OneShot, OneShotPrints, ProbeStatus,
       OneShotDecides, Look, Spawn, LookAgain, Prepare, Remove, Copy, Unlink, Bind,
       Listen, Accept, Read, Reply, Decide, Kill, Suspend, Crash

\* Where the two ends of a request lead.
LEMMA FinishFact ==
    ASSUME TypeOK, NEW c \in Command, NEW result, Finish(c, result) \/ Complete(c, result)
    PROVE  /\ \A d \in Command \ {c} : pc'[d] = pc[d] /\ outcome'[d] = outcome[d]
           /\ \/ pc'[c] = "done" /\ outcome'[c] = result
              \/ pc'[c] = "probing" /\ c \in Status /\ outcome'[c] = outcome[c]
           /\ tries' = tries
BY DEF Finish, Complete, TypeOK

\* What one step may do to a command.
LEMMA CommandStep ==
    ASSUME TypeOK, CommandsInv, [Next]_vars, NEW c \in Command
    PROVE  /\ pc'[c] \in Apart => pc[c] \in Apart
           /\ pc'[c] # "done" => pc[c] # "done" /\ outcome'[c] = outcome[c]
           /\ pc'[c] \in Early => tries'[c] < ConnectRetries
           /\ pc'[c] \in {"asking", "answered"} => c \in Login
           /\ pc'[c] = "answered" => pc[c] = "answered" \/ decided'[c] # "none"
           /\ pc'[c] = "probing" => c \in Status
<1> DEFINE Goal == /\ pc'[c] \in Apart => pc[c] \in Apart
                   /\ pc'[c] # "done" => pc[c] # "done" /\ outcome'[c] = outcome[c]
                   /\ pc'[c] \in Early => tries'[c] < ConnectRetries
                   /\ pc'[c] \in {"asking", "answered"} => c \in Login
                   /\ pc'[c] = "answered" => pc[c] = "answered" \/ decided'[c] # "none"
                   /\ pc'[c] = "probing" => c \in Status
<1> USE DEF At, GoTo, Apart, Early, serverVars, commandVars, faultVars
<1>0. ASSUME pc' = pc, outcome' = outcome, tries' = tries
      PROVE  Goal
    BY <1>0 DEF CommandsInv
<1>F. ASSUME NEW d \in Command, NEW result, Finish(d, result) \/ Complete(d, result),
             pc[d] # "done"
      PROVE  Goal
    BY <1>F, FinishFact DEF CommandsInv
<1>1. ASSUME NEW d \in Command, RequesterStep(d)
      PROVE  Goal
    <2>1. CASE Request(d)
        BY <2>1 DEF Request, TypeOK, CommandsInv
    <2>2. CASE Connect(d)
        <3>1. CASE GoTo(d, "connected")
            BY <2>2, <3>1 DEF Connect, TypeOK, CommandsInv
        <3>2. CASE ~Accepts
            <4>1. /\ tries' = [tries EXCEPT ![d] = @ + 1]
                  /\ pc' = [pc EXCEPT ![d] = IF tries'[d] = ConnectRetries THEN "oneshot" ELSE @]
                  /\ outcome' = outcome /\ pc[d] = "connecting"
                BY <2>2, <3>2 DEF Connect
            <4>2. tries[d] \in Nat /\ tries[d] < ConnectRetries /\ ConnectRetries \in Nat
                BY <4>1, BrokerAssumption DEF TypeOK, CommandsInv
            <4>3. tries'[d] = tries[d] + 1
                BY <4>1 DEF TypeOK
            <4>4. pc'[d] = "connecting" => tries'[d] < ConnectRetries
                BY <4>1, <4>2, <4>3 DEF TypeOK
            <4> QED BY <4>1, <4>4 DEF TypeOK, CommandsInv
        <3> QED BY <2>2, <3>1, <3>2 DEF Connect
    <2>3. CASE Send(d)
        <3>1. CASE Linked(d)
            BY <2>3, <3>1 DEF Send, TypeOK, CommandsInv
        <3>2. CASE ~Linked(d)
            BY <1>F, <2>3, <3>2 DEF Send
        <3> QED BY <3>1, <3>2
    <2>4. CASE TimeOut(d)
        BY <1>F, <2>4 DEF TimeOut
    <2>5. CASE Broken(d)
        BY <1>F, <2>5 DEF Broken
    <2>6. CASE OneShot(d)
        <3>1. ASSUME NEW result, Finish(d, result)
              PROVE  Goal
            BY <1>F, <2>6, <3>1 DEF OneShot
        <3>2. CASE GoTo(d, "asking") /\ d \in Login
            BY <2>6, <3>2 DEF OneShot, TypeOK, CommandsInv
        <3>3. CASE /\ GoTo(d, "answered") /\ d \in Login
                   /\ decided' = [decided EXCEPT ![d] = "allowed"]
            BY <2>6, <3>3 DEF OneShot, TypeOK, CommandsInv
        <3> QED BY <2>6, <3>1, <3>2, <3>3 DEF OneShot
    <2>7. CASE OneShotPrints(d)
        BY <1>F, <2>7 DEF OneShotPrints
    <2>8. CASE ProbeStatus(d)
        BY <1>F, <2>8 DEF ProbeStatus
    <2> QED BY <1>1, <2>1, <2>2, <2>3, <2>4, <2>5, <2>6, <2>7, <2>8 DEF RequesterStep
<1>2. ASSUME NEW d \in Command, LaunchStep(d)
      PROVE  Goal
    <2>1. CASE GoTo(d, "spawning") \/ GoTo(d, "sleeping")
        BY <1>2, <2>1 DEF LaunchStep, Look, Spawn, LookAgain, TypeOK, CommandsInv
    <2>2. ASSUME NEW result, Complete(d, result)
          PROVE  Goal
        BY <1>2, <1>F, <2>2 DEF LaunchStep, Look, Spawn, LookAgain
    <2> QED BY <1>2, <2>1, <2>2 DEF LaunchStep, Look, Spawn, LookAgain
<1>3. ASSUME NEW d \in Command, InstallStep(d)
      PROVE  Goal
    <2>1. CASE GoTo(d, "copying") \/ GoTo(d, "removing") \/ GoTo(d, "copied")
        BY <1>3, <2>1 DEF InstallStep, Prepare, Remove, Copy, TypeOK, CommandsInv
    <2>2. ASSUME NEW result, Complete(d, result)
          PROVE  Goal
        BY <1>3, <1>F, <2>2 DEF InstallStep, Prepare, Remove, Copy
    <2>3. CASE Copy(d) /\ UNCHANGED commandVars
        BY <1>0, <2>3
    <2> QED BY <1>3, <2>1, <2>2, <2>3 DEF InstallStep, Prepare, Remove, Copy
<1>4. ASSUME NEW b \in Broker, BrokerStep(b)
      PROVE  Goal
    <2>1. CASE Unlink(b) \/ Bind(b) \/ Listen(b) \/ Accept(b) \/ Read(b)
        BY <1>0, <2>1 DEF Unlink, Bind, Listen, Accept, Read
    <2>2. CASE Reply(b)
        <3>1. CASE Closed(broker[b].client)
            BY <1>0, <2>2, <3>1 DEF Reply
        <3>2. CASE ~Closed(broker[b].client)
            <4>1. broker[b].client \in Command /\ pc[broker[b].client] # "done"
                BY <3>2 DEF Closed
            <4> QED BY <1>F, <2>2, <3>2, <4>1 DEF Reply
        <3> QED BY <3>1, <3>2
    <2> QED BY <1>4, <2>1, <2>2 DEF BrokerStep
<1>5. ASSUME NEW d \in Command, OneShotDecides(d)
      PROVE  Goal
    BY <1>5 DEF OneShotDecides, TypeOK, CommandsInv
<1>6. ASSUME NEW d \in Command, Kill(d)
      PROVE  Goal
    BY <1>6, <1>F DEF Kill
<1>7. ASSUME NEW d \in Command, Suspend(d)
      PROVE  Goal
    BY <1>7, <1>0 DEF Suspend
<1>8. ASSUME NEW b \in Broker, Decide(b) \/ Crash(b)
      PROVE  Goal
    BY <1>8, <1>0 DEF Decide, Crash
<1>9. CASE UNCHANGED vars
    BY <1>9, <1>0 DEF vars
<1> QED BY <1>1, <1>2, <1>3, <1>4, <1>5, <1>6, <1>7, <1>8, <1>9 DEF Next

\* A decision is made about one login, for the first time, by a process of its own
\* that was asking, or by the broker that serves it.
LEMMA DecidedStep ==
    ASSUME TypeOK, CommandsInv, DecisionsInv, [Next]_vars, decided' # decided
    PROVE  \E c \in Login, d \in {"allowed", "denied"} :
              /\ decided[c] = "none"
              /\ decided' = [decided EXCEPT ![c] = d]
              /\ outcome' = outcome
              /\ \/ pc[c] \in {"oneshot", "asking"} /\ pc' = [pc EXCEPT ![c] = "answered"]
                    /\ UNCHANGED <<broker, backlog>>
                 \/ \E b \in Broker :
                       /\ broker[b].client = c
                       /\ broker[b].phase \in {"reading", "prompting"}
                       /\ broker'[b].phase = "writing" /\ broker'[b].client = c
                       /\ \A e \in Broker \ {b} : broker'[e] = broker[e]
                       /\ UNCHANGED <<pc, backlog>>
<1> USE DEF serverVars, commandVars, faultVars
<1>0. Login \subseteq Command
    BY DEF Login, Of
<1>1. ASSUME NEW c \in Command, RequesterStep(c)
      PROVE  OneShot(c) /\ c \in Login /\ GoTo(c, "answered")
             /\ decided' = [decided EXCEPT ![c] = "allowed"]
    BY <1>1 DEF RequesterStep, Request, Connect, Send, TimeOut, Broken, OneShot,
                OneShotPrints, ProbeStatus
<1>2. ASSUME NEW c \in Command, LaunchStep(c) \/ InstallStep(c)
      PROVE  FALSE
    BY <1>2 DEF LaunchStep, InstallStep, Look, Spawn, LookAgain, Prepare, Remove, Copy
<1>3. ASSUME NEW b \in Broker, BrokerStep(b)
      PROVE  /\ Read(b) /\ broker[b].client \in Login /\ AnswerWith(b, "password")
             /\ decided' = [decided EXCEPT ![broker[b].client] = "allowed"]
    BY <1>3 DEF BrokerStep, Unlink, Bind, Listen, Accept, Read, Reply
<1>4. ASSUME NEW c \in Command, RequesterStep(c)
      PROVE  decided[c] = "none" /\ pc[c] = "oneshot"
             /\ pc' = [pc EXCEPT ![c] = "answered"] /\ outcome' = outcome
             /\ UNCHANGED <<broker, backlog>>
    BY <1>1, <1>4 DEF OneShot, At, GoTo, CommandsInv, Apart, Early
<1>5. ASSUME NEW c \in Command, OneShotDecides(c)
      PROVE  /\ decided[c] = "none" /\ c \in Login /\ pc[c] = "asking"
             /\ pc' = [pc EXCEPT ![c] = "answered"] /\ outcome' = outcome
             /\ UNCHANGED <<broker, backlog>>
             /\ \E d \in {"allowed", "denied"} : decided' = [decided EXCEPT ![c] = d]
    BY <1>5 DEF OneShotDecides, At, GoTo, CommandsInv, Apart, Early
<1>6. ASSUME NEW b \in Broker, NEW answer \in {"password", "denied"}, AnswerWith(b, answer),
             broker[b].client \in Login, broker[b].phase \in {"reading", "prompting"}
      PROVE  /\ decided[broker[b].client] = "none"
             /\ broker'[b].phase = "writing" /\ broker'[b].client = broker[b].client
             /\ \A e \in Broker \ {b} : broker'[e] = broker[e]
    <2>1. broker[b].client # Probe
        BY <1>0, <1>6, BrokerAssumption
    <2> QED BY <1>6, <2>1 DEF AnswerWith, DecisionsInv, TypeOK
<1>7. ASSUME NEW b \in Broker, Decide(b)
      PROVE  /\ broker[b].client \in Login
             /\ \E d \in {"allowed", "denied"}, answer \in {"password", "denied"} :
                   AnswerWith(b, answer) /\ decided' = [decided EXCEPT ![broker[b].client] = d]
    BY <1>7 DEF Decide, DecisionsInv
<1>8. ASSUME NEW c \in Command, Kill(c) \/ Suspend(c)
      PROVE  FALSE
    BY <1>8 DEF Kill, Suspend
<1>9. ASSUME NEW b \in Broker, Crash(b)
      PROVE  FALSE
    BY <1>9 DEF Crash
<1>10. ASSUME NEW b \in Broker, BrokerStep(b)
       PROVE  pc' = pc /\ outcome' = outcome /\ backlog' = backlog
              /\ broker[b].phase = "reading"
    BY <1>3, <1>10 DEF Read
<1>11. ASSUME NEW b \in Broker, Decide(b)
       PROVE  pc' = pc /\ outcome' = outcome /\ backlog' = backlog
              /\ broker[b].phase = "prompting"
    BY <1>11 DEF Decide
<1>12. ~UNCHANGED vars
    BY DEF vars
<1>13. ASSUME NEW c \in Command, RequesterStep(c) \/ OneShotDecides(c)
       PROVE  \E e \in Login, d \in {"allowed", "denied"} :
                 /\ decided[e] = "none" /\ decided' = [decided EXCEPT ![e] = d]
                 /\ outcome' = outcome
                 /\ pc[e] \in {"oneshot", "asking"} /\ pc' = [pc EXCEPT ![e] = "answered"]
                 /\ UNCHANGED <<broker, backlog>>
    BY <1>1, <1>4, <1>5, <1>13
<1>14. ASSUME NEW b \in Broker, BrokerStep(b) \/ Decide(b)
       PROVE  \E d \in {"allowed", "denied"} :
                 /\ broker[b].client \in Login
                 /\ decided[broker[b].client] = "none"
                 /\ decided' = [decided EXCEPT ![broker[b].client] = d]
                 /\ outcome' = outcome
                 /\ broker[b].phase \in {"reading", "prompting"}
                 /\ broker'[b].phase = "writing" /\ broker'[b].client = broker[b].client
                 /\ \A e \in Broker \ {b} : broker'[e] = broker[e]
                 /\ UNCHANGED <<pc, backlog>>
    BY <1>3, <1>6, <1>7, <1>10, <1>11, <1>14
<1>15. (\E c \in Command : RequesterStep(c) \/ OneShotDecides(c))
       \/ (\E b \in Broker : BrokerStep(b) \/ Decide(b))
    BY <1>2, <1>8, <1>9, <1>12 DEF Next
<1>16. CASE \E c \in Command : RequesterStep(c) \/ OneShotDecides(c)
    BY <1>13, <1>16
<1>17. CASE \E b \in Broker : BrokerStep(b) \/ Decide(b)
    BY <1>14, <1>17
<1> QED BY <1>15, <1>16, <1>17

\* CommandsInv is kept: a command that has not come to a broker yet, or has turned to
\* the executable, has not been decided about.
LEMMA CommandsInvStep ==
    ASSUME TypeOK, CommandsInv, DecisionsInv, [Next]_vars
    PROVE  CommandsInv'
<1> SUFFICES ASSUME NEW c \in Command
             PROVE  /\ pc'[c] # "done" => outcome'[c] = "none"
                    /\ pc'[c] \in Early => tries'[c] < ConnectRetries
                    /\ pc'[c] \in Apart => decided'[c] = "none" /\ ~Linked(c)'
                    /\ pc'[c] \in {"asking", "answered"} => c \in Login'
                    /\ pc'[c] = "answered" => decided'[c] # "none"
                    /\ pc'[c] = "probing" => c \in Status'
    BY DEF CommandsInv
<1>1. Login' = Login /\ Status' = Status
    BY KindKept
<1>2. pc'[c] # "done" => outcome'[c] = "none"
    BY CommandStep DEF CommandsInv
<1>3. ASSUME pc'[c] \in Apart
      PROVE  decided'[c] = "none" /\ ~Linked(c)'
    <2>1. pc[c] \in Apart /\ decided[c] = "none" /\ ~Linked(c)
        BY <1>3, CommandStep DEF CommandsInv
    <2>2. ~Linked(c)'
        BY <1>3, <2>1, LinkStep DEF Connect, GoTo, Apart, Early, TypeOK
    <2>3. decided'[c] = "none"
        BY <1>3, <2>1, DecidedStep DEF Linked, Apart, Early, TypeOK
    <2> QED BY <2>2, <2>3
<1>4. pc'[c] = "answered" => decided'[c] # "none"
    BY CommandStep, DecidedStep DEF CommandsInv, TypeOK
<1> QED BY <1>1, <1>2, <1>3, <1>4, CommandStep

\* What the second part of DecisionsInv says of one broker.
Said(b, c) ==
    /\ broker[b].phase \notin {"reading", "prompting", "writing"} => c = Probe
    /\ broker[b].phase \in {"reading", "prompting"} /\ c # Probe => decided[c] = "none"
    /\ broker[b].phase = "prompting" => c \in Login
    /\ broker[b].phase = "writing" =>
          /\ broker[b].answer # "none"
          /\ broker[b].answer = "status"   => c \in Status
          /\ broker[b].answer = "password" => c \in Login /\ decided[c] = "allowed"
          /\ broker[b].answer = "denied"   => c \in Login /\ decided[c] = "denied"

\* The user has not been asked about a connection that waits in a backlog.
LEMMA BacklogUndecided ==
    ASSUME TypeOK, CommandsInv, HeldOnce, DecisionsInv, [Next]_vars,
           NEW b \in Broker, NEW i \in DOMAIN backlog'[b], backlog'[b][i] # Probe
    PROVE  decided'[backlog'[b][i]] = "none"
<1>1. CASE Quiet
    <2>1. /\ i \in DOMAIN backlog[b] /\ backlog'[b][i] = backlog[b][i]
          /\ decided[backlog[b][i]] = "none"
        BY <1>1 DEF Quiet, DecisionsInv
    <2>2. Linked(backlog[b][i]) /\ \A d \in Broker : broker[d].client # backlog[b][i]
        BY <1>1, <2>1 DEF Linked, HeldOnce
    <2>3. ASSUME decided' # decided
          PROVE  decided'[backlog[b][i]] = decided[backlog[b][i]]
        <3>1. PICK c \in Login, d \in {"allowed", "denied"} :
                  /\ decided' = [decided EXCEPT ![c] = d]
                  /\ \/ pc[c] \in {"oneshot", "asking"}
                     \/ \E e \in Broker : broker[e].client = c
            BY <2>3, DecidedStep
        <3>2. c # backlog[b][i]
            BY <2>2, <3>1 DEF CommandsInv, Apart, Early, Login, Of
        <3> QED BY <3>1, <3>2 DEF TypeOK
    <2> QED BY <2>1, <2>3
<1>2. ASSUME NEW c \in Command, Connect(c), Accepts
      PROVE  decided'[backlog'[b][i]] = "none"
    <2>1. decided[c] = "none" /\ ConnectAs(c) /\ decided' = decided /\ c \in Conn
        BY <1>2 DEF Connect, At, CommandsInv, Apart, Early, Conn
    <2>2. \/ i \in DOMAIN backlog[b] /\ backlog'[b][i] = backlog[b][i]
          \/ backlog'[b][i] = c
        BY <1>2, <2>1, AppendFact
    <2> QED BY <2>1, <2>2 DEF DecisionsInv
<1>3. ASSUME NEW d \in Broker, Accept(d)
      PROVE  decided'[backlog'[b][i]] = "none"
    <2>1. decided' = decided
        BY <1>3 DEF Accept
    <2>2. \E j \in DOMAIN backlog[b] : backlog'[b][i] = backlog[b][j]
        BY <1>3, AcceptFact
    <2> QED BY <2>1, <2>2 DEF DecisionsInv
<1> QED BY <1>1, <1>2, <1>3, MostlyQuiet

\* What a broker that a step does not touch is about to write stays true.
LEMMA SaidKept ==
    ASSUME TypeOK, CommandsInv, HeldOnce, DecisionsInv, [Next]_vars,
           NEW b \in Broker, broker'[b] = broker[b]
    PROVE  Said(b, broker[b].client)'
<1> DEFINE c == broker[b].client
<1>1. Said(b, c)
    BY DEF DecisionsInv, Said
<1>2. CASE decided' = decided
    BY <1>1, <1>2, KindKept DEF Said
<1>3. ASSUME decided' # decided
      PROVE  Said(b, c)'
    <2>1. PICK l \in Login, d \in {"allowed", "denied"} :
              /\ decided[l] = "none"
              /\ decided' = [decided EXCEPT ![l] = d]
              /\ \/ pc[l] \in {"oneshot", "asking"}
                 \/ \E e \in Broker : /\ broker[e].client = l
                                      /\ broker'[e].phase = "writing"
                                      /\ broker[e].phase \in {"reading", "prompting"}
        BY <1>3, DecidedStep
    <2>2. l \in Command /\ l # Probe
        BY BrokerAssumption DEF Login, Of
    <2>3. c # l
        <3>1. CASE pc[l] \in {"oneshot", "asking"}
            BY <2>2, <3>1 DEF CommandsInv, Apart, Early, Linked
        <3>2. ASSUME NEW e \in Broker, broker[e].client = l, broker'[e].phase = "writing",
                     broker[e].phase \in {"reading", "prompting"}
              PROVE  c # l
            BY <2>2, <3>2 DEF HeldOnce
        <3> QED BY <2>1, <3>1, <3>2
    <2>4. decided'[c] = decided[c] \/ c \notin Command
        BY <2>1, <2>3 DEF TypeOK
    <2>5. c = Probe \/ c \in Command
        BY DEF TypeOK, Conn
    <2> QED BY <1>1, <2>4, <2>5, KindKept, BrokerAssumption DEF Said, Login, Of
<1> QED BY <1>2, <1>3

\* A broker with nothing in service says nothing.
LEMMA VacantSaid ==
    ASSUME NEW b \in Broker, broker'[b].client = Probe,
           broker'[b].phase \notin {"reading", "prompting", "writing"}
    PROVE  Said(b, broker[b].client)'
BY DEF Said

\* DecisionsInv is kept: what is about to be written is what the user said.
LEMMA DecisionsStep ==
    ASSUME TypeOK, CommandsInv, HeldOnce, DecisionsInv, [Next]_vars
    PROVE  DecisionsInv'
<1> SUFFICES ASSUME NEW b \in Broker
             PROVE  Said(b, broker[b].client)'
    BY BacklogUndecided DEF DecisionsInv, Said
<1> USE DEF serverVars, commandVars, faultVars
<1>0. Said(b, broker[b].client) /\ (broker'[b] = broker[b] => Said(b, broker[b].client)')
    BY SaidKept DEF DecisionsInv, Said
<1>1. ASSUME NEW c \in Command, RequesterStep(c) \/ InstallStep(c)
      PROVE  Said(b, broker[b].client)'
    BY <1>0, <1>1 DEF RequesterStep, Request, Connect, Send, TimeOut, Broken, OneShot,
            OneShotPrints, ProbeStatus, InstallStep, Prepare, Remove, Copy
<1>2. ASSUME NEW c \in Command, LaunchStep(c)
      PROVE  Said(b, broker[b].client)'
    <2>1. CASE Look(c) \/ LookAgain(c)
        BY <1>0, <2>1 DEF Look, LookAgain
    <2>2. CASE Spawn(c)
        <3>1. CASE broker' = [broker EXCEPT ![CHOOSE d \in Unused : TRUE] = Vacant("starting")]
            BY <1>0, <3>1, VacantSaid DEF Vacant, TypeOK
        <3> QED BY <1>0, <2>2, <3>1 DEF Spawn
    <2> QED BY <1>2, <2>1, <2>2 DEF LaunchStep
<1>3. ASSUME NEW d \in Broker, BrokerStep(d)
      PROVE  Said(b, broker[b].client)'
    <2>0. CASE b # d
        <3>1. broker'[b] = broker[b]
            BY <1>3, <2>0 DEF BrokerStep, Unlink, Bind, Listen, Accept, Read, Reply,
                              Becomes, AnswerWith, Ends, TypeOK
        <3> QED BY <1>0, <3>1
    <2>1. CASE b = d /\ (Unlink(b) \/ Bind(b) \/ Listen(b))
        <3>1. broker'[b].client = Probe
              /\ broker'[b].phase \notin {"reading", "prompting", "writing"}
            BY <1>0, <2>1 DEF Unlink, Bind, Listen, Becomes, Ends, Vacant, TypeOK, Said
        <3> QED BY <3>1, VacantSaid
    <2>2. CASE b = d /\ Accept(b)
        <3>1. broker'[b].client = backlog[b][1] /\ 1 \in DOMAIN backlog[b]
            BY <2>2, AcceptFact
        <3>2. decided' = decided /\ broker'[b].phase = "reading"
            BY <2>2 DEF Accept, TypeOK
        <3> QED BY <3>1, <3>2 DEF Said, DecisionsInv
    <2>3. CASE b = d /\ Read(b)
        <3>1. broker[b].phase = "reading" /\ sent \subseteq Command
            BY <2>3 DEF Read, TypeOK
        <3>2. CASE broker[b].client \in sent /\ broker[b].client \in Status
                   /\ AnswerWith(b, "status")
            BY <3>2, KindKept DEF AnswerWith, TypeOK, Said
        <3>3. CASE AnswerWith(b, "failed")
            BY <3>3 DEF AnswerWith, TypeOK, Said
        <3>4. CASE /\ broker[b].client \in sent /\ broker[b].client \in Login
                   /\ Becomes(b, "prompting") /\ decided' = decided
            <4>1. broker[b].client # Probe
                BY <3>1, <3>4, BrokerAssumption
            <4> QED BY <1>0, <3>1, <3>4, <4>1, KindKept DEF Becomes, TypeOK, Said
        <3>5. CASE /\ broker[b].client \in sent /\ broker[b].client \in Login
                   /\ AnswerWith(b, "password")
                   /\ decided' = [decided EXCEPT ![broker[b].client] = "allowed"]
            BY <3>1, <3>5, KindKept DEF AnswerWith, TypeOK, Said
        <3> QED BY <2>3, <3>2, <3>3, <3>4, <3>5 DEF Read
    <2>4. CASE b = d /\ Reply(b)
        <3>1. broker' = [broker EXCEPT ![b] = Vacant("idle")] \/ Ends(b)
            BY <2>4 DEF Reply
        <3>2. broker'[b].client = Probe
              /\ broker'[b].phase \notin {"reading", "prompting", "writing"}
            BY <3>1 DEF Vacant, Ends, TypeOK
        <3> QED BY <3>2, VacantSaid
    <2> QED BY <1>3, <2>0, <2>1, <2>2, <2>3, <2>4 DEF BrokerStep
<1>4. ASSUME NEW d \in Broker, Decide(d)
      PROVE  Said(b, broker[b].client)'
    <2>0. CASE b # d
        BY <1>0, <1>4, <2>0 DEF Decide, AnswerWith, TypeOK
    <2>1. CASE b = d
        <3>1. broker[b].client \in Login /\ broker[b].client \in Command
            BY <1>4, <2>1 DEF Decide, DecisionsInv, Login, Of
        <3> QED BY <1>4, <2>1, <3>1, KindKept DEF Decide, AnswerWith, TypeOK, Said
    <2> QED BY <2>0, <2>1
<1>5. ASSUME NEW d \in Broker, Crash(d)
      PROVE  Said(b, broker[b].client)'
    BY <1>0, <1>5, VacantSaid DEF Crash, Ends, Vacant, TypeOK
<1>6. ASSUME NEW c \in Command, OneShotDecides(c) \/ Kill(c) \/ Suspend(c)
      PROVE  Said(b, broker[b].client)'
    BY <1>0, <1>6 DEF OneShotDecides, Kill, Suspend
<1>7. CASE UNCHANGED vars
    BY <1>0, <1>7 DEF vars
<1> QED BY <1>1, <1>2, <1>3, <1>4, <1>5, <1>6, <1>7 DEF Next

-----------------------------------------------------------------------------
(* Brokers that start.                                                      *)

\* A step that starts no broker, ends none and leaves the name.
Still ==
    /\ \A b \in Broker : broker'[b].phase = broker[b].phase
    /\ name' = name
    /\ \A c \in Command : pc'[c] = "spawning" => pc[c] = "spawning"
    /\ raced => raced'

\* A launch found no broker.
FindsNone(c) ==
    /\ ~Accepts /\ raced' = (raced \/ Unreachable)
    /\ pc[c] # "spawning" /\ pc' = [pc EXCEPT ![c] = "spawning"]
    /\ UNCHANGED <<broker, name>>

\* A launch starts a broker.
Starts(c, b) ==
    /\ pc[c] = "spawning" /\ pc' = [pc EXCEPT ![c] = "sleeping"]
    /\ broker[b].phase = "off" /\ broker' = [broker EXCEPT ![b] = Vacant("starting")]
    /\ UNCHANGED <<name, raced>>

\* A broker moves on, or ends.
Moves(b) ==
    /\ Alive(b)
    /\ \A d \in Broker \ {b} : broker'[d] = broker[d]
    /\ \A c \in Command : pc'[c] = "spawning" => pc[c] = "spawning"
    /\ raced' = raced
    /\ \/ broker'[b].phase \in {"unlinked", "dead"} /\ name' \in {name, NoBroker}
          /\ (broker'[b].phase = "dead" => name' = name)
       \/ broker'[b].phase = "bound" /\ name' = b
       \/ /\ broker[b].phase \in Serving \cup {"bound"}
          /\ broker'[b].phase \in Serving /\ name' = name

\* What a step does to phases, the name and the launches that are about to start one.
LEMMA PhaseStep ==
    ASSUME TypeOK, [Next]_vars
    PROVE  \/ Still
           \/ \E c \in Command : FindsNone(c) \/ (\E b \in Broker : Starts(c, b))
           \/ \E b \in Broker : Moves(b)
<1> USE DEF Still, Moves
<1> USE DEF serverVars, commandVars, faultVars
<1>1. ASSUME NEW c \in Command, NEW result, Finish(c, result) \/ Complete(c, result)
      PROVE  \A d \in Command : pc'[d] = "spawning" => pc[d] = "spawning"
    BY <1>1 DEF Finish, Complete, TypeOK
<1>2. ASSUME NEW c \in Command, RequesterStep(c)
      PROVE  Still
    <2>1. \A d \in Command : pc'[d] = "spawning" => pc[d] = "spawning"
        <3>1. CASE Request(c) \/ (\E where \in Place \ {"spawning"} : GoTo(c, where))
            BY <3>1 DEF Request, GoTo, TypeOK
        <3>2. CASE Connect(c) \/ Send(c)
            BY <1>1, <3>2 DEF Connect, Send, GoTo, TypeOK, At
        <3>3. CASE OneShot(c)
            BY <1>1, <3>3 DEF OneShot, GoTo, TypeOK
        <3> QED BY <1>1, <1>2, <3>1, <3>2, <3>3
                DEF RequesterStep, TimeOut, Broken, OneShotPrints, ProbeStatus
    <2>2. UNCHANGED <<broker, name, raced>>
        BY <1>2 DEF RequesterStep, Request, Connect, Send, TimeOut, Broken, OneShot,
            OneShotPrints, ProbeStatus
    <2> QED BY <2>1, <2>2
<1>3. ASSUME NEW c \in Command, InstallStep(c)
      PROVE  Still
    <2>1. \A d \in Command : pc'[d] = "spawning" => pc[d] = "spawning"
        BY <1>1, <1>3 DEF InstallStep, Prepare, Remove, Copy, GoTo, TypeOK
    <2>2. UNCHANGED <<broker, name, raced>>
        BY <1>3 DEF InstallStep, Prepare, Remove, Copy
    <2> QED BY <2>1, <2>2
<1>4. ASSUME NEW c \in Command, OneShotDecides(c) \/ Kill(c) \/ Suspend(c)
      PROVE  Still
    <2>1. \A d \in Command : pc'[d] = "spawning" => pc[d] = "spawning"
        BY <1>1, <1>4 DEF OneShotDecides, Kill, Suspend, GoTo, TypeOK
    <2>2. UNCHANGED <<broker, name, raced>>
        BY <1>4 DEF OneShotDecides, Kill, Suspend
    <2> QED BY <2>1, <2>2
<1>5. ASSUME NEW b \in Broker, BrokerStep(b)
      PROVE  Moves(b)
    <2>1. \A d \in Command : pc'[d] = "spawning" => pc[d] = "spawning"
        <3>1. CASE Reply(b)
            <4>1. CASE Closed(broker[b].client)
                BY <3>1, <4>1 DEF Reply
            <4>2. CASE ~Closed(broker[b].client)
                BY <1>1, <3>1, <4>2 DEF Reply, Closed
            <4> QED BY <4>1, <4>2
        <3> QED BY <1>5, <3>1 DEF BrokerStep, Unlink, Bind, Listen, Accept, Read
    <2>2. /\ Alive(b) /\ raced' = raced
          /\ \A d \in Broker \ {b} : broker'[d] = broker[d]
        BY <1>5 DEF BrokerStep, Unlink, Bind, Listen, Accept, Read, Reply, Becomes,
                    AnswerWith, Ends, Alive, TypeOK
    <2>3. CASE Unlink(b) \/ Bind(b) \/ Listen(b)
        BY <2>1, <2>2, <2>3 DEF Unlink, Bind, Listen, Becomes, Ends, Vacant, TypeOK, Serving
    <2>4. CASE Accept(b)
        BY <2>1, <2>2, <2>4 DEF Accept, TypeOK, Serving
    <2>5. CASE Read(b)
        BY <2>1, <2>2, <2>5 DEF Read, Becomes, AnswerWith, TypeOK, Serving
    <2>6. CASE Reply(b)
        BY <2>1, <2>2, <2>6 DEF Reply, Ends, Vacant, TypeOK, Serving
    <2> QED BY <1>5, <2>3, <2>4, <2>5, <2>6 DEF BrokerStep
<1>6. ASSUME NEW b \in Broker, Decide(b) \/ Crash(b)
      PROVE  Moves(b)
    BY <1>6 DEF Decide, Crash, AnswerWith, Ends, Vacant, Alive, TypeOK, Serving
<1>7. CASE UNCHANGED vars
    BY <1>7 DEF vars
<1>8. ASSUME NEW c \in Command, Look(c)
      PROVE  Still \/ FindsNone(c)
    BY <1>1, <1>8 DEF Look, GoTo, At, FindsNone
<1>9. ASSUME NEW c \in Command, Spawn(c)
      PROVE  Still \/ \E b \in Broker : Starts(c, b)
    <2>1. CASE UNCHANGED broker /\ Complete(c, "notRunning")
        BY <1>1, <1>9, <2>1 DEF Spawn
    <2>2. ASSUME Unused # {}, GoTo(c, "sleeping"),
                 broker' = [broker EXCEPT ![CHOOSE b \in Unused : TRUE] = Vacant("starting")]
          PROVE  \E b \in Broker : Starts(c, b)
        <3>1. (CHOOSE b \in Unused : TRUE) \in Unused
            BY <2>2
        <3> QED BY <1>9, <2>2, <3>1 DEF Spawn, GoTo, At, Unused, Starts
    <2> QED BY <1>9, <2>1, <2>2 DEF Spawn
<1>10. ASSUME NEW c \in Command, LookAgain(c)
       PROVE  Still
    BY <1>1, <1>10 DEF LookAgain
<1> HIDE DEF Still, Moves
<1> QED BY <1>2, <1>3, <1>4, <1>5, <1>6, <1>7, <1>8, <1>9, <1>10 DEF Next, LaunchStep

\* StartsInv is kept.
LEMMA StartsStep ==
    ASSUME TypeOK, StartsInv, [Next]_vars
    PROVE  StartsInv'
<1> SUFFICES ASSUME ~raced'
             PROVE  StartsInv'
    BY DEF StartsInv
<1> USE DEF StartsInv, Alive, Serving
<1>1. CASE Still
    BY <1>1 DEF Still
<1>2. ASSUME NEW c \in Command, FindsNone(c)
      PROVE  StartsInv'
    <2>1. ~raced /\ ~Accepts /\ ~Unreachable
        BY <1>2 DEF FindsNone
    <2>2. \A b \in Broker : ~Alive(b)
        <3> SUFFICES ASSUME NEW b \in Broker, Alive(b) PROVE FALSE
            OBVIOUS
        <3>1. Listens(b) /\ ~(Len(backlog[b]) >= Backlog)
            BY <2>1 DEF Unreachable, Listens, TypeOK, Phase
        <3>2. name = b
            BY <2>1, <3>1 DEF Listens
        <3>3. Len(backlog[b]) \in Nat
            BY DEF TypeOK
        <3>4. name # NoBroker
            BY <3>2, BrokerAssumption
        <3> QED BY <2>1, <3>1, <3>2, <3>3, <3>4, BrokerAssumption DEF Accepts
    <2>3. \A d \in Command : pc[d] # "spawning"
        BY <2>1 DEF Unreachable
    <2> QED BY <1>2, <2>2, <2>3 DEF FindsNone, TypeOK
<1>3. ASSUME NEW c \in Command, NEW b \in Broker, Starts(c, b)
      PROVE  StartsInv'
    <2>1. ~raced /\ \A d \in Broker : ~Alive(d)
        BY <1>3 DEF Starts
    <2>2. \A d \in Command : pc'[d] # "spawning"
        BY <1>3, <2>1 DEF Starts, TypeOK
    <2>3. broker'[b].phase = "starting" /\ \A d \in Broker \ {b} : broker'[d] = broker[d]
        BY <1>3 DEF Starts, Vacant, TypeOK
    <2> QED BY <2>1, <2>2, <2>3
<1>4. ASSUME NEW b \in Broker, Moves(b)
      PROVE  StartsInv'
    <2>1. /\ ~raced /\ \A d \in Broker \ {b} : ~Alive(d)
          /\ \A c \in Command : pc'[c] # "spawning"
        BY <1>4 DEF Moves
    <2> QED BY <1>4, <2>1 DEF Moves
<1> QED BY <1>1, <1>2, <1>3, <1>4, PhaseStep

\* BrokerInv holds of every reachable state: a request is held in one place, the user
\* has not been asked about what waits, and what is written is what the user said.
THEOREM NativeBrokerInvariant == Spec => []BrokerInv
<1>1. Init => BrokerInv
    <2> SUFFICES ASSUME Init PROVE BrokerInv
        OBVIOUS
    <2>1. TypeOK
        BY TypeInit
    <2>2. \A b \in Broker : broker[b].phase = "off" /\ broker[b].client = Probe
                            /\ backlog[b] = <<>>
        BY DEF Init, Vacant
    <2>3. CommandsInv
        <3>1. \A c \in Command : ~Linked(c)
            BY <2>2, BrokerAssumption DEF Linked
        <3>2. 0 < ConnectRetries
            BY BrokerAssumption
        <3> QED BY <3>1, <3>2 DEF Init, CommandsInv, Apart, Early
    <2>4. HeldOnce /\ DecisionsInv
        BY <2>2 DEF HeldOnce, DecisionsInv
    <2>5. StartsInv
        BY <2>2 DEF Init, StartsInv, Alive, Serving
    <2> QED BY <2>1, <2>3, <2>4, <2>5 DEF BrokerInv
<1>2. BrokerInv /\ [Next]_vars => BrokerInv'
    BY TypeStep, CommandsInvStep, HeldOnceStep, DecisionsStep, StartsStep DEF BrokerInv
<1> QED BY <1>1, <1>2, PTL DEF Spec

\* Unless a launch came upon a broker it could not reach, one broker runs, and a broker
\* that listens is the one the path names (native_app_launch, BrokerServer.run).
THEOREM NativeBrokerOne == Spec => []OneBroker
<1>1. BrokerInv => OneBroker
    BY DEF BrokerInv, StartsInv, OneBroker, Listens
<1> QED BY <1>1, NativeBrokerInvariant, PTL

-----------------------------------------------------------------------------
(* The refinement.                                                          *)

\* How the logins of this module ended.
LoginOutcome == [c \in Command |-> IF c \in Login THEN outcome[c] ELSE "none"]

\* A step that ends no login and decides nothing is a stutter of ApprovalService, and
\* one that ends a login is a step of it if the end agrees with the decision.
LEMMA EndStep ==
    ASSUME TypeOK, CommandsInv, NEW c \in Command, NEW result \in Result,
           pc[c] # "done", Finish(c, result) \/ Complete(c, result),
           UNCHANGED <<kind, decided>>,
           c \in Login => \/ result \in Approval!Failure
                          \/ result = "password" /\ decided[c] = "allowed"
                          \/ result = "denied" /\ decided[c] = "denied"
    PROVE  [Approval!Next]_(Approval!vars)
<1>0. Login' = Login
    BY DEF Login, Of
<1>1. CASE c \in Login
    <2>1. c \notin Status
        BY <1>1 DEF Login, Status, Of
    <2>2. outcome' = [outcome EXCEPT ![c] = result] /\ outcome[c] = "none"
        BY <2>1 DEF Finish, Complete, CommandsInv
    <2>3. LoginOutcome' = [LoginOutcome EXCEPT ![c] = result] /\ LoginOutcome[c] = "none"
        BY <1>0, <1>1, <2>2 DEF LoginOutcome, TypeOK
    <2>4. Approval!Release(c) \/ Approval!Refuse(c) \/ Approval!Fail(c)
        BY <1>1, <2>3 DEF LoginOutcome, Approval!Release, Approval!Refuse, Approval!Fail
    <2> QED BY <2>4 DEF Approval!Next
<1>2. CASE c \notin Login
    <2>1. LoginOutcome' = LoginOutcome
        BY <1>0, <1>2 DEF LoginOutcome, Finish, Complete, TypeOK
    <2> QED BY <2>1 DEF LoginOutcome, Approval!vars
<1> QED BY <1>1, <1>2

\* A step that ends no command is a stutter of ApprovalService unless it decides.
LEMMA StutterStep ==
    ASSUME UNCHANGED <<kind, decided, outcome>>
    PROVE  UNCHANGED Approval!vars
BY DEF Approval!vars, Login, Of

\* Every step is a step of ApprovalService, or a stutter.
LEMMA ApprovalStep ==
    ASSUME TypeOK, CommandsInv, DecisionsInv, [Next]_vars
    PROVE  [Approval!Next]_(Approval!vars)
<1> USE DEF serverVars, commandVars, faultVars
<1>0. {"failed", "timeout", "invalid", "notRunning", "killed"} \subseteq Approval!Failure
      /\ {"failed", "timeout", "invalid", "notRunning", "killed", "status", "password",
          "denied", "running", "launched", "starting", "installed"} \subseteq Result
    BY DEF Approval!Failure, Result
<1>1. CASE decided' # decided
    <2>1. PICK c \in Login, d \in {"allowed", "denied"} :
              decided[c] = "none" /\ decided' = [decided EXCEPT ![c] = d] /\ outcome' = outcome
        BY <1>1, DecidedStep
    <2>2. c \in Command /\ LoginOutcome' = LoginOutcome
        BY <2>1, KindKept DEF LoginOutcome, Login, Of
    <2>3. Approval!Decide(c)
        BY <2>1, <2>2 DEF Approval!Decide, LoginOutcome
    <2> QED BY <2>2, <2>3 DEF Approval!Next
<1>2. CASE decided' = decided /\ outcome' = outcome
    BY <1>2, KindKept, StutterStep
<1>3. CASE decided' = decided /\ outcome' # outcome
    <2> USE <1>3
    <2>0. kind' = kind
        BY KindKept
    <2>1. ASSUME NEW c \in Command, RequesterStep(c)
          PROVE  [Approval!Next]_(Approval!vars)
        <3>1. CASE Send(c)
            BY <1>0, <2>0, <3>1, EndStep DEF Send, At
        <3>2. CASE TimeOut(c)
            BY <1>0, <2>0, <3>2, EndStep DEF TimeOut, At
        <3>3. CASE Broken(c)
            BY <1>0, <2>0, <3>3, EndStep DEF Broken, At
        <3>4. CASE OneShot(c)
            <4>1. pc[c] # "done"
                BY <3>4 DEF OneShot, At
            <4>2. PICK result \in {"status", "failed", "invalid", "notRunning"} :
                      Finish(c, result) /\ (result = "status" => c \in Status)
                BY <3>4 DEF OneShot, GoTo
            <4>3. c \in Status => c \notin Login
                BY DEF Status, Login, Of
            <4> QED BY <1>0, <2>0, <4>1, <4>2, <4>3, EndStep
        <3>5. CASE OneShotPrints(c)
            <4>1. pc[c] = "answered" /\ decided[c] # "none"
                BY <3>5 DEF OneShotPrints, At, CommandsInv
            <4>2. decided[c] \in {"allowed", "denied"}
                BY <4>1 DEF TypeOK
            <4>3. CASE decided[c] = "allowed"
                <5>1. Finish(c, "password")
                    BY <3>5, <4>3 DEF OneShotPrints
                <5> QED BY <1>0, <2>0, <4>1, <4>3, <5>1, EndStep
            <4>4. CASE decided[c] = "denied"
                <5>1. Finish(c, "denied")
                    BY <3>5, <4>4 DEF OneShotPrints
                <5> QED BY <1>0, <2>0, <4>1, <4>4, <5>1, EndStep
            <4> QED BY <4>2, <4>3, <4>4
        <3>6. CASE ProbeStatus(c)
            <4>1. c \notin Login
                BY <3>6 DEF ProbeStatus, At, CommandsInv, Status, Login, Of
            <4> QED BY <1>0, <2>0, <3>6, <4>1, EndStep DEF ProbeStatus, At
        <3> QED BY <2>1, <3>1, <3>2, <3>3, <3>4, <3>5, <3>6
                DEF RequesterStep, Request, Connect, GoTo
    <2>2. ASSUME NEW c \in Command, LaunchStep(c) \/ InstallStep(c)
          PROVE  [Approval!Next]_(Approval!vars)
        <3>1. c \notin Login
            BY <2>2 DEF LaunchStep, InstallStep, Login, Of
        <3>2. PICK result \in {"notRunning", "running", "launched", "starting", "failed",
                               "installed"} : Complete(c, result)
            BY <2>2 DEF LaunchStep, InstallStep, Look, Spawn, LookAgain, Prepare, Remove,
                        Copy, GoTo
        <3>3. pc[c] # "done"
            BY <2>2 DEF LaunchStep, InstallStep, Look, Spawn, LookAgain, Prepare, Remove,
                        Copy, At
        <3> QED BY <1>0, <2>0, <3>1, <3>2, <3>3, EndStep
    <2>3. ASSUME NEW b \in Broker, BrokerStep(b) \/ Decide(b) \/ Crash(b)
          PROVE  [Approval!Next]_(Approval!vars)
        <3> DEFINE c == broker[b].client
        <3>1. /\ broker[b].phase = "writing" /\ ~Closed(c) /\ Finish(c, broker[b].answer)
            BY <2>3 DEF BrokerStep, Unlink, Bind, Listen, Accept, Read, Reply, Decide, Crash
        <3>2. c \in Command /\ pc[c] # "done"
            BY <3>1 DEF Closed
        <3>3. /\ broker[b].answer \in {"status", "password", "denied", "failed"}
              /\ broker[b].answer = "status"   => c \in Status
              /\ broker[b].answer = "password" => decided[c] = "allowed"
              /\ broker[b].answer = "denied"   => decided[c] = "denied"
            BY <3>1 DEF DecisionsInv, TypeOK, Answer
        <3>4. c \in Status => c \notin Login
            BY DEF Status, Login, Of
        <3> HIDE DEF c
        <3> QED BY <1>0, <2>0, <3>1, <3>2, <3>3, <3>4, EndStep
    <2>4. ASSUME NEW c \in Command, Kill(c)
          PROVE  [Approval!Next]_(Approval!vars)
        BY <1>0, <2>0, <2>4, EndStep DEF Kill
    <2>5. ASSUME NEW c \in Command, OneShotDecides(c) \/ Suspend(c)
          PROVE  [Approval!Next]_(Approval!vars)
        BY <2>5 DEF OneShotDecides, Suspend, GoTo
    <2>6. CASE UNCHANGED vars
        BY <2>6 DEF vars
    <2> QED BY <2>1, <2>2, <2>3, <2>4, <2>5, <2>6 DEF Next
<1> QED BY <1>1, <1>2, <1>3

\* The broker and its clients implement ApprovalService: a password for a login the
\* user allowed, each asked about at most once (dispatch, send_request).
THEOREM NativeBrokerApproves == Spec => ApprovalSpec
<1>1. Init => Approval!Init
    BY DEF Init, Approval!Init
<1>2. BrokerInv /\ [Next]_vars => [Approval!Next]_(Approval!vars)
    BY ApprovalStep DEF BrokerInv
<1> QED BY <1>1, <1>2, NativeBrokerInvariant, PTL DEF Spec, ApprovalSpec, Approval!Spec

\* What ApprovalService promises of a state holds of the broker's: a password that was
\* handed out was allowed, a refusal was the user's (loginResponse).
THEOREM NativeBrokerConsent == Spec => []Approval!Consent
<1> DEFINE Promise == Approval!TypeOK /\ Approval!Consent
<1> USE DEF Approval!TypeOK, Approval!Consent, Approval!Decision, Approval!Outcome
<1>1. Approval!Init => Promise
    BY DEF Approval!Init
<1>2. Promise /\ [Approval!Next]_(Approval!vars) => Promise'
    <2> SUFFICES ASSUME Promise, [Approval!Next]_(Approval!vars)
                 PROVE  Promise'
        OBVIOUS
    <2>1. ASSUME NEW l \in Command, Approval!Decide(l)
          PROVE  Promise'
        BY <2>1 DEF Approval!Decide
    <2>2. ASSUME NEW l \in Command, Approval!Release(l) \/ Approval!Refuse(l)
          PROVE  Promise'
        BY <2>2 DEF Approval!Release, Approval!Refuse
    <2>3. ASSUME NEW l \in Command, Approval!Fail(l)
          PROVE  Promise'
        BY <2>3 DEF Approval!Fail, Approval!Failure
    <2>4. CASE UNCHANGED Approval!vars
        BY <2>4 DEF Approval!vars
    <2> QED BY <2>1, <2>2, <2>3, <2>4 DEF Approval!Next
<1>3. Promise => Approval!Consent
    OBVIOUS
<1> HIDE DEF Promise
<1> QED BY <1>1, <1>2, <1>3, NativeBrokerApproves, PTL DEF ApprovalSpec, Approval!Spec

\* No login is put to the user twice, by a broker, by the one that took its place or by
\* the command's own process, and what a command ended with is never replaced by a later
\* answer (send_request, send_request_via_executable, BrokerServer.handleRequest).
THEOREM NativeBrokerFinal == Spec => Approval!Final
<1> DEFINE Kept == \A l \in Command :
                      /\ decided[l] # "none" => decided'[l] = decided[l]
                      /\ LoginOutcome[l] # "none" => LoginOutcome'[l] = LoginOutcome[l]
<1>1. ASSUME TypeOK, Approval!Next
      PROVE  Kept
    <2>1. ASSUME NEW l \in Command, Approval!Decide(l)
          PROVE  Kept
        BY <1>1, <2>1 DEF Approval!Decide, LoginOutcome, TypeOK
    <2>2. ASSUME NEW l \in Command,
                 Approval!Release(l) \/ Approval!Refuse(l) \/ Approval!Fail(l)
          PROVE  Kept
        <3>1. PICK o : LoginOutcome' = [LoginOutcome EXCEPT ![l] = o]
            BY <2>2 DEF Approval!Release, Approval!Refuse, Approval!Fail, LoginOutcome
        <3>2. LoginOutcome[l] = "none" /\ decided' = decided
            BY <2>2 DEF Approval!Release, Approval!Refuse, Approval!Fail, LoginOutcome
        <3> QED BY <3>1, <3>2 DEF LoginOutcome
    <2> QED BY <1>1, <2>1, <2>2 DEF Approval!Next
<1>2. BrokerInv /\ [Next]_vars => [Kept]_(Approval!vars)
    BY <1>1, ApprovalStep DEF BrokerInv
<1> QED BY <1>2, NativeBrokerInvariant, PTL DEF Spec, Approval!Final, LoginOutcome
=============================================================================
