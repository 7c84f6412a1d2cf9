----------------------------- MODULE AuthClient -----------------------------
(***************************************************************************)
(* The commands of apw as clients of the daemon (client.rs, with the       *)
(* session states of srp.rs and run_auth of cli.rs): the two exchanges of  *)
(* an authentication, in one process or split over two, the queries and    *)
(* the logout.  Each command is a process; each message goes out on a UDP  *)
(* socket of its own, closed when the answer or the timeout comes.         *)
(*                                                                         *)
(* The daemon is in one of the helper modes and reduced to what a client   *)
(* can tell: it serves one datagram at a time, gives an answer that comes  *)
(* after its own timeout to the next client, and may be started anew on    *)
(* another port.  config.json is read and replaced in one step here;       *)
(* ConfigStore has the steps within.  A read of a file past its age (30    *)
(* days) removes the file, whoever reads.                                  *)
(*                                                                         *)
(* A key stands for what it is computed from: the user name, the client's  *)
(* and the helper's public keys, and whether the PIN was the one shown.    *)
(* A proof (M, HAMK) stands for its key.                                   *)
(***************************************************************************)
EXTENDS Naturals, Sequences

CONSTANTS
    Process,        \* commands; each runs once
    Earlier,        \* the user of a session stored before
    None,
    Port, DefaultPort,
    MaxChallenges,  \* key exchanges the helpers answer
    MaxStarts       \* times the daemon is started anew

ASSUME ClientAssumption ==
    /\ DefaultPort \in Port
    /\ MaxChallenges \in Nat /\ MaxStarts \in Nat

VARIABLES
    config,     \* config.json: the daemon's port, its launch status, the session
    pc,         \* where each command is
    cmd,        \* what each command does
    session,    \* its SRPSession
    remote,     \* its remote_port
    answer,     \* the datagram its socket has received
    shown,      \* the query whose answer it printed
    printed,    \* outputs of `apw auth request`
    daemon,     \* the port of the daemon that runs
    inbox,      \* datagrams it has not read
    serving,    \* the request it waits on an answer to
    helper,     \* Apple's helper
    asked,      \* requests the helper has not answered
    replies,    \* answers the daemon has not read
    challenges, \* key exchanges answered so far
    base,       \* those of them answered by earlier helpers
    starts,
    inStep,     \* no daemon has timed out so far
    agreed      \* keys whose proof a helper has accepted

clientVars == <<pc, cmd, session, remote, shown, printed>>
pipeVars   == <<asked, replies>>
countVars  == <<challenges, base, starts, agreed>>
vars == <<config, clientVars, answer, daemon, inbox, serving, helper, pipeVars, inStep,
          countVars>>

User == Process \cup {Earlier}
Dialogue == 1 .. MaxChallenges + 1
Key == [tid : User, a : User, b : Dialogue, pin : {"right", "wrong"}]
Session == [username : User, a : User, b : Dialogue \cup {0}, key : Key \cup {None}]
Config == [port : Port, launch : {"none", "ok", "failed"}, key : Key \cup {None}]
Message ==
    [type : {"challenge"}, by : Process, tid : User, a : User]
        \cup [type : {"verify", "query"}, by : Process, key : Key]
\* "other" is every answer no command can use: an error, a payload of another
\* type or protocol, or one that does not parse.
Answer ==
    [type : {"serverKey"}, tid : User, b : Dialogue]
        \cup [type : {"verified", "incorrect"}, key : Key]
        \cup [type : {"data"}, key : Key, of : Process]
        \cup [type : {"other"}]
Other == [type |-> "other"]

\* None is none of the values it stands beside.
ASSUME NoneAssumption ==
    /\ None \notin Process /\ None \notin Key
    /\ None \notin Message /\ None \notin Answer

TypeOK ==
    /\ config \in Config
    /\ pc \in [Process -> {"new", "started", "challenging", "challenged", "verifying",
                           "verified", "authenticated", "querying", "done"}]
    /\ cmd \in [Process -> {"none", "auth", "request", "response", "query", "logout"}]
    /\ session \in [Process -> Session] /\ remote \in [Process -> Port]
    /\ answer \in [Process -> Answer \cup {None}]
    /\ shown \in [Process -> Process \cup {None}]
    /\ printed \subseteq [username : User, a : User, b : Dialogue, key : {None}]
    /\ daemon \in Port /\ inbox \in Seq(Message) /\ serving \in Message \cup {None}
    /\ helper \in [up : BOOLEAN, dialogue : Session \cup {None}]
    /\ asked \in Seq(Message) /\ replies \in Seq(Answer)
    /\ challenges \in Dialogue /\ base \in 0 .. MaxChallenges + 1
    /\ starts \in 0..MaxStarts
    /\ inStep \in BOOLEAN /\ agreed \subseteq Key

\* A session with its username, and no shared key.
NewSession(user, a) == [username |-> user, a |-> a, b |-> 0, key |-> None]
EarlierKey == [tid |-> Earlier, a |-> Earlier, b |-> 1, pin |-> "right"]

\* A daemon runs, with or without a session agreed with its helper.
Init ==
    /\ \E key \in {None, EarlierKey} :
        config = [port |-> DefaultPort, launch |-> "ok", key |-> key]
    /\ pc = [p \in Process |-> "new"] /\ cmd = [p \in Process |-> "none"]
    /\ session = [p \in Process |-> NewSession(p, p)]
    /\ remote = [p \in Process |-> DefaultPort]
    /\ answer = [p \in Process |-> None] /\ shown = [p \in Process |-> None]
    /\ printed = {}
    /\ daemon = DefaultPort /\ inbox = <<>> /\ serving = None
    /\ helper = [up |-> TRUE, dialogue |-> None]
    /\ asked = <<>> /\ replies = <<>>
    /\ challenges = 1 /\ base = 0 /\ starts = 0
    /\ inStep = TRUE /\ agreed = {EarlierKey}

-----------------------------------------------------------------------------
(* Helpers                                                                  *)

\* What read_config gives when there is no file.
NoFile == [port |-> DefaultPort, launch |-> "none", key |-> None]

\* read_config: it removes a stale file, and returns its address and launch status
\* without the session.  Any read may be the first for SESSION_MAX_AGE_MS, or find the
\* clock set back.
ReadConfig(stale) == config' = IF stale THEN NoFile ELSE config
KeyRead(stale) == IF stale THEN None ELSE config.key

\* ApplePasswordManager::new: a session of its own, with the user name and the
\* key of the stored one.
Loaded(p, stale) == IF KeyRead(stale) = None THEN NewSession(p, p)
                    ELSE [NewSession(config.key.tid, p) EXCEPT !.key = config.key]

\* launch_error_from_config
Refused == config.launch = "failed"

\* The question a command is waiting on, by the socket the answer comes to.
Awaited(p) == CASE pc[p] = "challenging" -> "challenge"
                [] pc[p] = "verifying"   -> "verify"
                [] pc[p] = "querying"    -> "query"
                [] OTHER                 -> None

Waits(m) == Awaited(m.by) = m.type /\ answer[m.by] = None

\* Sent to the port in config.json, where the daemon may not be any more.
SendTo(port, m) ==
    inbox' = IF port = daemon THEN Append(inbox, m) ELSE inbox

\* send_message_once up to send_to.  It reads the file once more, for the address to
\* send to.  A client that finds the launch failed ends.
Send(p, m, next) ==
    /\ IF Refused
       THEN pc' = [pc EXCEPT ![p] = "done"] /\ UNCHANGED inbox
       ELSE pc' = [pc EXCEPT ![p] = next] /\ SendTo(config.port, m)
    /\ \E stale \in BOOLEAN : ReadConfig(stale)
    /\ UNCHANGED <<cmd, remote, shown, printed, answer, daemon, serving, helper,
                   pipeVars, inStep, countVars>>

\* The command prints an error and exits, its socket with it.
Exit(p) ==
    /\ pc' = [pc EXCEPT ![p] = "done"]
    /\ answer' = [answer EXCEPT ![p] = None]

-----------------------------------------------------------------------------
(* The commands                                                             *)

\* Mutant: only an error of the socket ends the wait.
GiveUpOnError(p) ==
    /\ Awaited(p) # None /\ answer[p] = None /\ ~helper.up
    /\ Exit(p)
    /\ UNCHANGED <<config, cmd, session, remote, shown, printed, daemon, inbox, serving,
                   helper, pipeVars, inStep, countVars>>

\* A command is started, and reads config.json.  `apw auth` then asks for the PIN.
Start(p) ==
    /\ pc[p] = "new"
    /\ pc' = [pc EXCEPT ![p] = "started"]
    /\ \E c \in {"auth", "request", "query"} : cmd' = [cmd EXCEPT ![p] = c]
    /\ \E stale \in BOOLEAN :
        /\ ReadConfig(stale)
        /\ session' = [session EXCEPT ![p] = Loaded(p, stale)]
    /\ remote' = [remote EXCEPT ![p] = config.port]
    /\ UNCHANGED <<shown, printed, answer, daemon, inbox, serving, helper,
                   pipeVars, inStep, countVars>>

\* `apw auth response`: the first exchange was made by another process, and its
\* values are passed as options.  An option overrides what the file held.
StartResponse(p) ==
    /\ pc[p] = "new"
    /\ pc' = [pc EXCEPT ![p] = "challenged"]
    /\ cmd' = [cmd EXCEPT ![p] = "response"]
    /\ \E v \in printed, stale \in BOOLEAN :
        /\ ReadConfig(stale)
        /\ session' = [session EXCEPT ![p] = [v EXCEPT !.key = KeyRead(stale)]]
    /\ remote' = [remote EXCEPT ![p] = config.port]
    /\ UNCHANGED <<shown, printed, answer, daemon, inbox, serving, helper,
                   pipeVars, inStep, countVars>>

\* `apw auth logout` (clear_config): the file is removed, and the address of the
\* daemon with it.
Logout(p) ==
    /\ pc[p] = "new"
    /\ pc' = [pc EXCEPT ![p] = "done"] /\ cmd' = [cmd EXCEPT ![p] = "logout"]
    /\ config' = NoFile
    /\ UNCHANGED <<session, remote, shown, printed, answer, daemon, inbox, serving, helper,
                   pipeVars, inStep, countVars>>

\* request_challenge, until its datagram is sent.
RequestChallenge(p) ==
    /\ pc[p] = "started" /\ cmd[p] \in {"auth", "request"}
    /\ Send(p, [type |-> "challenge", by |-> p, tid |-> session[p].username,
                a |-> session[p].a], "challenging")
    /\ UNCHANGED session

\* Mutant: the helper's public key is not kept.
ReceiveChallengeOnly(p) ==
    /\ pc[p] = "challenging" /\ answer[p] # None
    /\ LET m == answer[p]
           accepted == m.type = "serverKey" /\ m.tid = session[p].username
           known == session[p]
       IN  IF accepted
           THEN /\ session' = [session EXCEPT ![p] = known]
                /\ pc' = [pc EXCEPT ![p] = IF cmd[p] = "auth" THEN "challenged" ELSE "done"]
                /\ printed' = IF cmd[p] = "auth" THEN printed
                              ELSE printed \cup {[known EXCEPT !.key = None]}
                /\ answer' = [answer EXCEPT ![p] = None]
           ELSE Exit(p) /\ UNCHANGED <<session, printed>>
    /\ UNCHANGED <<config, cmd, remote, shown, daemon, inbox, serving, helper, pipeVars,
                   inStep, countVars>>

\* request_challenge, from its answer on.  `apw auth request` prints the session.
ReceiveChallenge(p) ==
    /\ pc[p] = "challenging" /\ answer[p] # None
    /\ LET m == answer[p]
           accepted == m.type = "serverKey" /\ m.tid = session[p].username
           known == [session[p] EXCEPT !.b = m.b]
       IN  IF accepted
           THEN /\ session' = [session EXCEPT ![p] = known]
                /\ pc' = [pc EXCEPT ![p] = IF cmd[p] = "auth" THEN "challenged" ELSE "done"]
                /\ printed' = IF cmd[p] = "auth" THEN printed
                              ELSE printed \cup {[known EXCEPT !.key = None]}
                /\ answer' = [answer EXCEPT ![p] = None]
           ELSE Exit(p) /\ UNCHANGED <<session, printed>>
    /\ UNCHANGED <<config, cmd, remote, shown, daemon, inbox, serving, helper, pipeVars,
                   inStep, countVars>>

\* verify_challenge: the key is computed from the PIN typed and kept in the
\* session before the helper has seen its proof.
SendProof(p) ==
    /\ pc[p] = "challenged"
    /\ \E pin \in {"right", "wrong"} :
        LET key == [tid |-> session[p].username, a |-> session[p].a, b |-> session[p].b,
                    pin |-> pin]
        IN  /\ session' = [session EXCEPT ![p].key = key]
            /\ Send(p, [type |-> "verify", by |-> p, key |-> key], "verifying")

\* Mutant: the helper's proof is not compared with the session's.
ReceiveUnproved(p) ==
    /\ pc[p] = "verifying" /\ answer[p] # None
    /\ IF answer[p].type = "verified" /\ answer[p].key.tid = session[p].username
       THEN /\ pc' = [pc EXCEPT ![p] = "verified"]
            /\ answer' = [answer EXCEPT ![p] = None]
       ELSE Exit(p)
    /\ UNCHANGED <<config, cmd, session, remote, shown, printed, daemon, inbox, serving,
                   helper, pipeVars, inStep, countVars>>

\* verify_challenge, from its answer on: the session of the answer must be this
\* one, and its proof (HAMK) must be made with this key.
ReceiveVerification(p) ==
    /\ pc[p] = "verifying" /\ answer[p] # None
    /\ IF answer[p].type = "verified" /\ answer[p].key.tid = session[p].username
            /\ answer[p].key = session[p].key
       THEN /\ pc' = [pc EXCEPT ![p] = "verified"]
            /\ answer' = [answer EXCEPT ![p] = None]
       ELSE Exit(p)
    /\ UNCHANGED <<config, cmd, session, remote, shown, printed, daemon, inbox, serving,
                   helper, pipeVars, inStep, countVars>>

\* The write_config that ends verify_challenge: the key, and the address this
\* command read when it was started.
StoreSession(p) ==
    /\ pc[p] = "verified"
    /\ pc' = [pc EXCEPT ![p] = "done"]
    /\ config' = [config EXCEPT !.key = session[p].key, !.port = remote[p]]
    /\ UNCHANGED <<cmd, session, remote, shown, printed, answer, daemon, inbox, serving,
                   helper, pipeVars, inStep, countVars>>

\* ensure_authenticated: the session becomes the stored one, read anew.
EnsureAuthenticated(p) ==
    /\ pc[p] = "started" /\ cmd[p] = "query"
    /\ remote' = [remote EXCEPT ![p] = config.port]
    /\ \E stale \in BOOLEAN :
        /\ ReadConfig(stale)
        /\ IF Refused \/ KeyRead(stale) = None
           THEN pc' = [pc EXCEPT ![p] = "done"] /\ UNCHANGED session
           ELSE /\ pc' = [pc EXCEPT ![p] = "authenticated"]
                /\ session' = [session EXCEPT ![p].username = config.key.tid,
                                             ![p].key = config.key]
    /\ UNCHANGED <<cmd, shown, printed, answer, daemon, inbox, serving, helper,
                   pipeVars, inStep, countVars>>

\* The four lookups, until the datagram is sent.  By now the daemon may be another.
SendQuery(p) ==
    /\ pc[p] = "authenticated"
    /\ Send(p, [type |-> "query", by |-> p, key |-> session[p].key], "querying")
    /\ UNCHANGED session

\* decrypt_payload, and the output.  An answer made with another key does not
\* decrypt.
ReceiveData(p) ==
    /\ pc[p] = "querying" /\ answer[p] # None
    /\ IF answer[p].type = "data" /\ answer[p].key = session[p].key
       THEN shown' = [shown EXCEPT ![p] = answer[p].of]
       ELSE UNCHANGED shown
    /\ Exit(p)
    /\ UNCHANGED <<config, cmd, session, remote, printed, daemon, inbox, serving, helper,
                   pipeVars, inStep, countVars>>

\* No answer within DEFAULT_TIMEOUT_MS; no command asks for a retry.
GiveUp(p) ==
    /\ Awaited(p) # None /\ answer[p] = None
    /\ Exit(p)
    /\ UNCHANGED <<config, cmd, session, remote, shown, printed, daemon, inbox, serving,
                   helper, pipeVars, inStep, countVars>>

-----------------------------------------------------------------------------
(* The daemon                                                               *)

\* Mutant: every client uses the same local port.
DeliverToAny(m, a) ==
    answer' = IF \E p \in Process : Awaited(p) = m.type /\ answer[p] = None
              THEN [answer EXCEPT ![CHOOSE p \in Process : Awaited(p) = m.type
                                                            /\ answer[p] = None] = a]
              ELSE answer

\* An answer goes to the socket the request came from; it is lost when the
\* client has closed it.
Deliver(m, a) == answer' = IF Waits(m) THEN [answer EXCEPT ![m.by] = a] ELSE answer

\* The next datagram is written to the helper.
Forward ==
    /\ serving = None /\ inbox # <<>> /\ helper.up
    /\ serving' = Head(inbox) /\ inbox' = Tail(inbox)
    /\ asked' = Append(asked, Head(inbox))
    /\ UNCHANGED <<config, clientVars, answer, daemon, helper, replies, inStep, countVars>>

\* The end of the helper is recorded with the daemon's address, in a new file if there
\* is none.  In a keychain this write does not keep the secret (see ConfigStore).
RecordFailure ==
    \E key \in {config.key, None} :
        config' = [port |-> daemon, launch |-> "failed", key |-> key]

\* The helper has ended: that is recorded, then the client told.
ForwardFails ==
    /\ serving = None /\ inbox # <<>> /\ ~helper.up
    /\ inbox' = Tail(inbox)
    /\ RecordFailure
    /\ Deliver(Head(inbox), Other)
    /\ UNCHANGED <<clientVars, daemon, serving, helper, pipeVars, inStep, countVars>>

\* The next answer of the helper is taken for the answer to this request.
Reply ==
    /\ serving # None /\ replies # <<>>
    /\ Deliver(serving, Head(replies))
    /\ serving' = None /\ replies' = Tail(replies)
    /\ UNCHANGED <<config, clientVars, daemon, inbox, helper, asked, inStep, countVars>>

\* The helper ends while a request is with it; what it had not read is lost.
ReplyFails ==
    /\ serving # None /\ replies = <<>> /\ ~helper.up
    /\ RecordFailure
    /\ Deliver(serving, Other)
    /\ serving' = None
    /\ UNCHANGED <<clientVars, daemon, inbox, helper, pipeVars, inStep, countVars>>

\* No answer within 30 s, when the client has long given up.
ReadTimesOut ==
    /\ serving # None /\ replies = <<>> /\ helper.up /\ ~Waits(serving)
    /\ serving' = None /\ inStep' = FALSE
    /\ UNCHANGED <<config, clientVars, answer, daemon, inbox, helper, pipeVars, countVars>>

\* Mutant: the daemon keeps the session it finds.
StartDaemonKeeps(port) ==
    /\ starts < MaxStarts /\ starts' = starts + 1
    /\ daemon' = port /\ inbox' = <<>> /\ serving' = None
    /\ helper' = [up |-> TRUE, dialogue |-> None] /\ asked' = <<>> /\ replies' = <<>>
    /\ base' = challenges
    /\ config' = [port |-> port, launch |-> "ok", key |-> config.key]
    /\ UNCHANGED <<clientVars, answer, inStep, challenges, agreed>>

\* Mutant: the daemon does not write the port it is bound to.
StartDaemonUnrecorded(port) ==
    /\ starts < MaxStarts /\ starts' = starts + 1
    /\ daemon' = port /\ inbox' = <<>> /\ serving' = None
    /\ helper' = [up |-> TRUE, dialogue |-> None] /\ asked' = <<>> /\ replies' = <<>>
    /\ base' = challenges
    /\ config' = [port |-> config.port, launch |-> "ok", key |-> None]
    /\ UNCHANGED <<clientVars, answer, inStep, challenges, agreed>>

\* The daemon is ended and started again with a new helper, perhaps on another
\* port.  It writes its address and clears the session.
StartDaemon(port) ==
    /\ starts < MaxStarts /\ starts' = starts + 1
    /\ daemon' = port /\ inbox' = <<>> /\ serving' = None
    /\ helper' = [up |-> TRUE, dialogue |-> None] /\ asked' = <<>> /\ replies' = <<>>
    /\ base' = challenges
    /\ config' = [port |-> port, launch |-> "ok", key |-> None]
    /\ UNCHANGED <<clientVars, answer, inStep, challenges, agreed>>

-----------------------------------------------------------------------------
(* Apple's helper, as the client uses it                                    *)

HelperAnswers(a) ==
    /\ helper.up /\ asked # <<>>
    /\ asked' = Tail(asked) /\ replies' = Append(replies, a)
    /\ UNCHANGED <<config, clientVars, answer, daemon, inbox, serving, base, starts, inStep>>

\* A key exchange replaces the one before it, and shows a new PIN.
HelperChallenges ==
    /\ asked # <<>> /\ Head(asked).type = "challenge" /\ challenges <= MaxChallenges
    /\ challenges' = challenges + 1
    /\ helper' = [helper EXCEPT !.dialogue =
                     [NewSession(Head(asked).tid, Head(asked).a) EXCEPT !.b = challenges + 1]]
    /\ HelperAnswers([type |-> "serverKey", tid |-> Head(asked).tid, b |-> challenges + 1])
    /\ UNCHANGED agreed

\* The key the helper computes for its dialogue with the PIN it shows.
HelperKey == [tid |-> helper.dialogue.username, a |-> helper.dialogue.a,
              b |-> helper.dialogue.b, pin |-> "right"]

\* It accepts a proof made with that key, and makes its own.
HelperVerifies ==
    /\ asked # <<>> /\ Head(asked).type = "verify"
    /\ LET key == Head(asked).key
           right == helper.dialogue # None /\ key = HelperKey
       IN  /\ agreed' = IF right THEN agreed \cup {key} ELSE agreed
           /\ HelperAnswers([type |-> IF right THEN "verified" ELSE "incorrect", key |-> key])
    /\ UNCHANGED <<helper, challenges>>

\* It looks up what is asked with a key it has agreed to.
HelperLooksUp ==
    /\ asked # <<>> /\ Head(asked).type = "query"
    /\ LET m == Head(asked)
       IN  /\ m.key \in agreed /\ m.key.b > base
           /\ HelperAnswers([type |-> "data", key |-> m.key, of |-> m.by])
    /\ UNCHANGED <<helper, challenges, agreed>>

\* It answers with an error.
HelperRefuses ==
    /\ HelperAnswers(Other)
    /\ UNCHANGED <<helper, challenges, agreed>>

HelperEnds ==
    /\ helper.up
    /\ helper' = [helper EXCEPT !.up = FALSE] /\ asked' = <<>>
    /\ UNCHANGED <<config, clientVars, answer, daemon, inbox, serving, replies, inStep,
                   countVars>>

-----------------------------------------------------------------------------
\* What a command does by itself, without its user.
ClientStep(p) ==
    \/ ReceiveChallenge(p) \/ SendProof(p) \/ ReceiveVerification(p) \/ StoreSession(p)
    \/ SendQuery(p) \/ ReceiveData(p) \/ GiveUp(p)

Client(p) ==
    \/ Start(p) \/ StartResponse(p) \/ Logout(p) \/ RequestChallenge(p)
    \/ EnsureAuthenticated(p)
    \/ ClientStep(p)

Daemon ==
    \/ Forward \/ ForwardFails \/ Reply \/ ReplyFails \/ ReadTimesOut
    \/ \E port \in Port : StartDaemon(port)

Helper ==
    \/ HelperChallenges \/ HelperVerifies \/ HelperLooksUp \/ HelperRefuses \/ HelperEnds

Next == (\E p \in Process : Client(p)) \/ Daemon \/ Helper

Spec == Init /\ [][Next]_vars

\* A timeout of a socket expires.  Nothing is assumed of the daemon or the helper.
FairSpec == Spec /\ \A p \in Process : WF_vars(ClientStep(p))

-----------------------------------------------------------------------------
(* Properties                                                               *)

\* The parts of the inductive invariant.
ChallengeKnown == \A p \in Process : pc[p] = "challenged" => session[p].b \in Dialogue
SessionAgreed ==
    \A p \in Process : pc[p] \in {"verified", "authenticated"} => session[p].key \in agreed
AnswersAgreed ==
    \A p \in Process :
        answer[p] # None => (answer[p].type = "verified" => answer[p].key \in agreed)
RepliesAgreed ==
    \A i \in 1..Len(replies) : replies[i].type = "verified" => replies[i].key \in agreed

\* A stored key is one the helper agreed to: whatever answer comes, to whatever
\* dialogue it belongs, verify_challenge stores nothing else.
KeyAgreed == config.key # None => config.key \in agreed

\* The inductive invariant: no command proves a key without the helper's public key,
\* or asks with a key no helper agreed to, and every acceptance on its way to a
\* command is of a key the helper agreed to.
ClientInv ==
    /\ TypeOK /\ ChallengeKnown
    /\ SessionAgreed /\ AnswersAgreed /\ RepliesAgreed /\ KeyAgreed

\* A daemon that has started leaves no session of an earlier helper behind; only
\* a client whose verification was already over may write one after that.
NoOldSession ==
    [][LET old(c, n) == c.key # None /\ c.key.b <= n
       IN  old(config', base') =>
               \/ old(config, base)
               \/ \E p \in Process : pc[p] = "verified" /\ pc'[p] = "done"]_vars

\* Clients keep finding the daemon: its address in config.json goes wrong only by a
\* logout, by an authentication that had read another address when it was begun, or by
\* a command whose read finds the whole file stale, and removes it.
AddressKept ==
    [][config.port = daemon /\ config'.port # daemon' =>
           \E p \in Process :
               \/ pc'[p] # pc[p] /\ config' = NoFile
               \/ pc[p] = "verified" /\ pc'[p] = "done" /\ remote[p] # daemon]_vars

\* Up to then the pipes hold no more than the request in service or its answer.
Answers(a, m) == a.type = "data" => a.of = m.by
LockStep ==
    /\ ~helper.up => asked = <<>>
    /\ inStep =>
        /\ serving = None => asked = <<>> /\ replies = <<>>
        /\ serving # None =>
              \/ asked \in {<<>>, <<serving>>} /\ replies = <<>>
              \/ asked = <<>> /\ Len(replies) = 1 /\ Answers(replies[1], serving)
        /\ \A p \in Process :
              answer[p] # None => (answer[p].type = "data" => answer[p].of = p)

\* Up to the daemon's first timeout, what a command prints answers its own question,
\* though commands before it may have given up with theirs still unanswered.
OwnAnswerInStep == inStep => \A p \in Process : shown[p] \in {None, p}

\* A command that has sent its first datagram ends, whatever becomes of the daemon.
CommandsEnd ==
    \A p \in Process : pc[p] \notin {"new", "started"} ~> pc[p] = "done"
=============================================================================
