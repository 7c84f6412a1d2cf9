-------------------------- MODULE AuthClientProofs --------------------------
(***************************************************************************)
(* Proofs about AuthClient: whatever commands run, and whatever answers    *)
(* reach them, a stored key is one a helper agreed to; and a command       *)
(* prints the answer to its own question as long as no daemon has timed    *)
(* out.                                                                    *)
(***************************************************************************)
EXTENDS AuthClient, TLAPS, SequenceTheorems

\* The first states satisfy the inductive invariant (Init).
LEMMA InitInv == Init => ClientInv
  <1> SUFFICES ASSUME Init PROVE ClientInv
    OBVIOUS
  <1> USE ClientAssumption, NoneAssumption
  <1>1. EarlierKey \in Key /\ 1 \in Dialogue
    BY DEF EarlierKey, Key, User, Dialogue
  <1>2. \A p \in Process : NewSession(p, p) \in Session
    BY DEF NewSession, Session, User
  <1>3. TypeOK
    BY <1>1, <1>2 DEF Init, TypeOK, Config
  <1>4. ChallengeKnown /\ SessionAgreed /\ AnswersAgreed /\ RepliesAgreed /\ KeyAgreed
    BY DEF Init, ChallengeKnown, SessionAgreed, AnswersAgreed, RepliesAgreed, KeyAgreed
  <1> QED
    BY <1>3, <1>4 DEF ClientInv

\* What a read returns and leaves of config.json (read_config).
LEMMA ReadFact ==
    ASSUME TypeOK, NEW stale \in BOOLEAN
    PROVE  /\ KeyRead(stale) \in {config.key, None} /\ KeyRead(stale) \in Key \cup {None}
           /\ ReadConfig(stale) => config' \in {config, NoFile} /\ config' \in Config
  BY ClientAssumption DEF TypeOK, Config, KeyRead, ReadConfig, NoFile

\* What the commands have in common: a datagram sent keeps the queue a queue.
LEMMA SendFact ==
    ASSUME TypeOK, NEW p \in Process, NEW m \in Message,
           NEW next \in {"challenging", "verifying", "querying"}, Send(p, m, next)
    PROVE  /\ inbox' \in Seq(Message)
           /\ pc' \in {[pc EXCEPT ![p] = "done"], [pc EXCEPT ![p] = next]}
           /\ config' \in {config, NoFile} /\ config' \in Config
  <1>4. config' \in {config, NoFile} /\ config' \in Config
    BY ReadFact DEF Send
  <1>1. Append(inbox, m) \in Seq(Message)
    BY DEF TypeOK
  <1>2. inbox' \in {inbox, Append(inbox, m)}
    BY DEF Send, SendTo
  <1>3. pc' \in {[pc EXCEPT ![p] = "done"], [pc EXCEPT ![p] = next]}
    BY DEF Send
  <1> QED
    BY <1>1, <1>2, <1>3, <1>4 DEF TypeOK

\* The session a command starts with (ApplePasswordManager::new).
LEMMA LoadedFact ==
    ASSUME TypeOK, NEW p \in Process, NEW stale \in BOOLEAN
    PROVE  Loaded(p, stale) \in Session
  BY DEF TypeOK, Loaded, KeyRead, NewSession, Session, Config, Key, User

\* A session with another key is a session (update_with_values, set_shared_key).
LEMMA KeyFact ==
    ASSUME NEW s \in Session, NEW key \in Key \cup {None}
    PROVE  /\ [s EXCEPT !.key = key] \in Session
           /\ \A user \in User : [s EXCEPT !.username = user, !.key = key] \in Session
  BY DEF Session

\* A session that has received the helper's public key, and what is printed of it
\* (set_server_public_key).
LEMMA ServerKeyFact ==
    ASSUME NEW s \in Session, NEW b \in Dialogue
    PROVE  /\ [s EXCEPT !.b = b] \in Session
           /\ [[s EXCEPT !.b = b] EXCEPT !.key = None]
                  \in [username : User, a : User, b : Dialogue, key : {None}]
  BY DEF Session

\* The steps of a command keep the types.
LEMMA ClientTypes ==
    ASSUME ClientInv, NEW p \in Process, Client(p)
    PROVE  TypeOK'
  <1> USE ClientAssumption, NoneAssumption
  <1>0. TypeOK /\ ChallengeKnown /\ SessionAgreed
    BY DEF ClientInv
  <1>1. CASE Start(p)
    <2>1. PICK stale \in BOOLEAN :
            ReadConfig(stale) /\ session' = [session EXCEPT ![p] = Loaded(p, stale)]
      BY <1>1 DEF Start
    <2>2. config' \in Config /\ Loaded(p, stale) \in Session
      BY <1>0, <2>1, ReadFact, LoadedFact
    <2> QED
      BY <1>0, <1>1, <2>1, <2>2 DEF TypeOK, Start, Config, pipeVars, countVars
  <1>2. CASE StartResponse(p)
    <2>1. PICK v \in printed, stale \in BOOLEAN :
            ReadConfig(stale) /\ session' = [session EXCEPT ![p] = [v EXCEPT !.key = KeyRead(stale)]]
      BY <1>2 DEF StartResponse
    <2>2. v \in Session
      BY <1>0, <2>1 DEF TypeOK, Session
    <2>3. KeyRead(stale) \in Key \cup {None} /\ config' \in Config
      BY <1>0, <2>1, ReadFact
    <2>4. [v EXCEPT !.key = KeyRead(stale)] \in Session
      BY <2>2, <2>3, KeyFact
    <2> QED
      BY <1>0, <1>2, <2>1, <2>3, <2>4 DEF TypeOK, StartResponse, Config, pipeVars, countVars
  <1>3. CASE Logout(p)
    BY <1>0, <1>3 DEF TypeOK, Logout, NoFile, Config, pipeVars, countVars
  <1>4. CASE RequestChallenge(p)
    <2> DEFINE m == [type |-> "challenge", by |-> p, tid |-> session[p].username,
                     a |-> session[p].a]
    <2>1. m \in Message
      BY <1>0 DEF TypeOK, Message, Session
    <2>2. Send(p, m, "challenging")
      BY <1>4 DEF RequestChallenge
    <2> HIDE DEF m
    <2> QED
      BY <1>0, <1>4, <2>1, <2>2, SendFact
      DEF TypeOK, RequestChallenge, Send, pipeVars, countVars
  <1>5. CASE ReceiveChallenge(p)
    <2>1. answer[p] \in Answer
      BY <1>0, <1>5 DEF TypeOK, ReceiveChallenge
    <2> DEFINE known == [session[p] EXCEPT !.b = answer[p].b]
    <2>2. CASE answer[p].type = "serverKey" /\ answer[p].tid = session[p].username
      <3>1. answer[p].b \in Dialogue
        BY <2>1, <2>2 DEF Answer
      <3>0. session[p] \in Session
        BY <1>0 DEF TypeOK
      <3>2. known \in Session
        BY <3>0, <3>1, ServerKeyFact
      <3>3. [known EXCEPT !.key = None] \in [username : User, a : User, b : Dialogue, key : {None}]
        BY <3>0, <3>1, ServerKeyFact
      <3>4. /\ session' = [session EXCEPT ![p] = known]
            /\ pc' = [pc EXCEPT ![p] = IF cmd[p] = "auth" THEN "challenged" ELSE "done"]
            /\ printed' = IF cmd[p] = "auth" THEN printed
                          ELSE printed \cup {[known EXCEPT !.key = None]}
            /\ answer' = [answer EXCEPT ![p] = None]
        BY <1>5, <2>2 DEF ReceiveChallenge
      <3> HIDE DEF known
      <3> QED
        BY <1>0, <1>5, <3>2, <3>3, <3>4 DEF TypeOK, ReceiveChallenge, pipeVars, countVars
    <2>3. CASE ~(answer[p].type = "serverKey" /\ answer[p].tid = session[p].username)
      BY <1>0, <1>5, <2>3 DEF TypeOK, ReceiveChallenge, Exit, pipeVars, countVars
    <2> QED
      BY <2>2, <2>3
  <1>6. CASE SendProof(p)
    <2>1. PICK pin \in {"right", "wrong"} :
            LET key == [tid |-> session[p].username, a |-> session[p].a,
                        b |-> session[p].b, pin |-> pin]
            IN  /\ session' = [session EXCEPT ![p].key = key]
                /\ Send(p, [type |-> "verify", by |-> p, key |-> key], "verifying")
      BY <1>6 DEF SendProof
    <2> DEFINE key == [tid |-> session[p].username, a |-> session[p].a,
                       b |-> session[p].b, pin |-> pin]
               m   == [type |-> "verify", by |-> p, key |-> key]
    <2>2. key \in Key
      BY <1>0, <1>6 DEF TypeOK, SendProof, ChallengeKnown, Key, Session
    <2>3. m \in Message
      BY <2>2 DEF Message
    <2>4. session' = [session EXCEPT ![p].key = key] /\ Send(p, m, "verifying")
      BY <2>1
    <2>5. session' \in [Process -> Session]
      <3> HIDE DEF key
      <3>1. [session[p] EXCEPT !.key = key] \in Session
        BY <1>0, <2>2, KeyFact DEF TypeOK
      <3> QED
        BY <1>0, <2>4, <3>1 DEF TypeOK
    <2> HIDE DEF key, m
    <2> QED
      BY <1>0, <2>3, <2>4, <2>5, SendFact DEF TypeOK, Send, pipeVars, countVars
  <1>7. CASE ReceiveVerification(p)
    BY <1>0, <1>7 DEF TypeOK, ReceiveVerification, Exit, pipeVars, countVars
  <1>8. CASE StoreSession(p)
    <2>1. session[p].key \in Key
      BY <1>0, <1>8 DEF TypeOK, StoreSession, SessionAgreed
    <2> QED
      BY <1>0, <1>8, <2>1 DEF TypeOK, StoreSession, Config, pipeVars, countVars
  <1>9. CASE EnsureAuthenticated(p)
    <2>0. PICK stale \in BOOLEAN :
            /\ ReadConfig(stale)
            /\ IF Refused \/ KeyRead(stale) = None
               THEN pc' = [pc EXCEPT ![p] = "done"] /\ UNCHANGED session
               ELSE /\ pc' = [pc EXCEPT ![p] = "authenticated"]
                    /\ session' = [session EXCEPT ![p].username = config.key.tid,
                                                 ![p].key = config.key]
      BY <1>9 DEF EnsureAuthenticated
    <2>a. config' \in Config
      BY <1>0, <2>0, ReadFact
    <2>1. CASE Refused \/ KeyRead(stale) = None
      BY <1>0, <1>9, <2>0, <2>a, <2>1
      DEF TypeOK, Config, EnsureAuthenticated, pipeVars, countVars
    <2>2. CASE ~Refused /\ KeyRead(stale) # None
      <3>0. config.key # None
        BY <2>2 DEF KeyRead
      <3>1. config.key \in Key /\ config.key.tid \in User
        BY <1>0, <3>0 DEF TypeOK, Config, Key
      <3>2. [session[p] EXCEPT !.username = config.key.tid, !.key = config.key] \in Session
        BY <1>0, <3>1, KeyFact DEF TypeOK
      <3>3. session' = [session EXCEPT ![p] =
                [session[p] EXCEPT !.username = config.key.tid, !.key = config.key]]
        BY <1>0, <2>0, <2>2 DEF TypeOK
      <3>4. session' \in [Process -> Session]
        BY <1>0, <3>2, <3>3 DEF TypeOK
      <3> QED
        BY <1>0, <1>9, <2>0, <2>a, <2>2, <3>4
        DEF TypeOK, Config, EnsureAuthenticated, pipeVars, countVars
    <2> QED
      BY <2>1, <2>2
  <1>12. CASE SendQuery(p)
    <2> DEFINE m == [type |-> "query", by |-> p, key |-> session[p].key]
    <2>1. m \in Message
      BY <1>0, <1>12 DEF TypeOK, SendQuery, SessionAgreed, Message
    <2>2. Send(p, m, "querying") /\ UNCHANGED session
      BY <1>12 DEF SendQuery
    <2> HIDE DEF m
    <2> QED
      BY <1>0, <2>1, <2>2, SendFact DEF TypeOK, Send, pipeVars, countVars
  <1>10. CASE ReceiveData(p)
    <2>1. answer[p] \in Answer
      BY <1>0, <1>10 DEF TypeOK, ReceiveData
    <2>2. shown' \in [Process -> Process \cup {None}]
      BY <1>0, <1>10, <2>1 DEF TypeOK, ReceiveData, Answer
    <2> QED
      BY <1>0, <1>10, <2>2 DEF TypeOK, ReceiveData, Exit, pipeVars, countVars
  <1>11. CASE GiveUp(p)
    BY <1>0, <1>11 DEF TypeOK, GiveUp, Exit, pipeVars, countVars
  <1> QED
    BY <1>1, <1>2, <1>3, <1>4, <1>5, <1>6, <1>7, <1>8, <1>9, <1>10, <1>11, <1>12
    DEF Client, ClientStep

\* An answer given to a socket is an answer (Deliver).
LEMMA DeliverFact ==
    ASSUME TypeOK, NEW m \in Message, NEW a \in Answer, Deliver(m, a)
    PROVE  /\ answer' \in [Process -> Answer \cup {None}]
           /\ \A p \in Process : answer'[p] \in {answer[p], a}
           /\ \A p \in Process : answer'[p] # answer[p] => m.by = p /\ answer[p] = None
  BY DEF TypeOK, Deliver, Waits, Message

\* The record of a failure is a configuration, with the session or without it
\* (write_config with persistence_for_launch_error).
LEMMA FailureFact ==
    ASSUME TypeOK, RecordFailure
    PROVE  config' \in Config /\ config'.port = daemon /\ config'.key \in {config.key, None}
  BY DEF TypeOK, RecordFailure, Config

\* The steps of the daemon and the helper keep the types.
LEMMA ServerTypes ==
    ASSUME ClientInv, Daemon \/ Helper
    PROVE  TypeOK'
  <1> USE ClientAssumption, NoneAssumption
  <1>0. TypeOK
    BY DEF ClientInv
  <1>a. Other \in Answer
    BY DEF Other, Answer
  <1>b. inbox # <<>> => Head(inbox) \in Message /\ Tail(inbox) \in Seq(Message)
    BY <1>0 DEF TypeOK
  <1>c. asked # <<>> => Head(asked) \in Message /\ Tail(asked) \in Seq(Message)
    BY <1>0 DEF TypeOK
  <1>d. replies # <<>> => Head(replies) \in Answer /\ Tail(replies) \in Seq(Answer)
    BY <1>0 DEF TypeOK
  <1>e. \A a \in Answer : Append(replies, a) \in Seq(Answer)
    BY <1>0 DEF TypeOK
  <1>1. CASE Forward
    <2>1. Append(asked, Head(inbox)) \in Seq(Message)
      BY <1>0, <1>1, <1>b DEF TypeOK, Forward
    <2> QED
      BY <1>0, <1>1, <1>b, <2>1 DEF TypeOK, Forward, clientVars, countVars
  <1>2. CASE ForwardFails
    BY <1>0, <1>2, <1>a, <1>b, DeliverFact, FailureFact
    DEF TypeOK, ForwardFails, clientVars, pipeVars, countVars
  <1>3. CASE Reply
    BY <1>0, <1>3, <1>d, DeliverFact DEF TypeOK, Reply, clientVars, countVars
  <1>4. CASE ReplyFails
    BY <1>0, <1>4, <1>a, DeliverFact, FailureFact
    DEF TypeOK, ReplyFails, clientVars, pipeVars, countVars
  <1>5. CASE ReadTimesOut
    BY <1>0, <1>5 DEF TypeOK, ReadTimesOut, clientVars, pipeVars, countVars
  <1>6. ASSUME NEW port \in Port, StartDaemon(port) PROVE TypeOK'
    <2>1. starts' \in 0..MaxStarts /\ base' \in 0 .. MaxChallenges + 1
      BY <1>0, <1>6 DEF TypeOK, StartDaemon, Dialogue
    <2>2. <<>> \in Seq(Message) /\ <<>> \in Seq(Answer)
      OBVIOUS
    <2> QED
      BY <1>0, <1>6, <2>1, <2>2 DEF TypeOK, StartDaemon, Config, clientVars
  <1>7. CASE HelperChallenges
    <2>1. /\ Head(asked) \in Message /\ Head(asked).type = "challenge"
          /\ Head(asked).tid \in User /\ Head(asked).a \in User
      BY <1>7, <1>c DEF HelperChallenges, Message
    <2>2. challenges + 1 \in Dialogue
      BY <1>0, <1>7 DEF TypeOK, HelperChallenges, Dialogue
    <2> DEFINE s == NewSession(Head(asked).tid, Head(asked).a)
               a == [type |-> "serverKey", tid |-> Head(asked).tid, b |-> challenges + 1]
    <2>3. s \in Session
      BY <2>1 DEF NewSession, Session
    <2>4. [s EXCEPT !.b = challenges + 1] \in Session
      BY <2>2, <2>3, ServerKeyFact
    <2>5. a \in Answer
      BY <2>1, <2>2 DEF Answer
    <2>6. /\ helper' = [helper EXCEPT !.dialogue = [s EXCEPT !.b = challenges + 1]]
          /\ HelperAnswers(a) /\ challenges' = challenges + 1 /\ UNCHANGED agreed
      BY <1>7 DEF HelperChallenges
    <2> HIDE DEF s, a
    <2> QED
      BY <1>0, <1>c, <1>e, <2>2, <2>4, <2>5, <2>6 DEF TypeOK, HelperAnswers, clientVars
  <1>8. CASE HelperVerifies
    <2>1. Head(asked) \in Message /\ Head(asked).key \in Key
      BY <1>8, <1>c DEF HelperVerifies, Message
    <2>2. /\ \A t \in {"verified", "incorrect"} : [type |-> t, key |-> Head(asked).key] \in Answer
          /\ agreed' \subseteq agreed \cup {Head(asked).key}
          /\ \E t \in {"verified", "incorrect"} :
                HelperAnswers([type |-> t, key |-> Head(asked).key])
          /\ UNCHANGED <<helper, challenges>>
      BY <1>8, <2>1 DEF HelperVerifies, Answer
    <2>3. PICK a \in Answer : HelperAnswers(a)
      BY <2>2
    <2> QED
      BY <1>0, <1>c, <1>e, <2>1, <2>2, <2>3 DEF TypeOK, HelperAnswers, clientVars
  <1>9. CASE HelperLooksUp
    <2>1. Head(asked) \in Message /\ Head(asked).key \in Key /\ Head(asked).by \in Process
      BY <1>9, <1>c DEF HelperLooksUp, Message
    <2>2. PICK a \in Answer : HelperAnswers(a)
      BY <1>9, <2>1 DEF HelperLooksUp, Answer
    <2> QED
      BY <1>0, <1>9, <1>c, <1>e, <2>2 DEF TypeOK, HelperLooksUp, HelperAnswers, clientVars
  <1>10. CASE HelperRefuses
    BY <1>0, <1>10, <1>a, <1>c, <1>e DEF TypeOK, HelperRefuses, HelperAnswers, clientVars
  <1>11. CASE HelperEnds
    <2>1. <<>> \in Seq(Message)
      OBVIOUS
    <2> QED
      BY <1>0, <1>11, <2>1 DEF TypeOK, HelperEnds, clientVars, countVars
  <1> QED
    BY <1>1, <1>2, <1>3, <1>4, <1>5, <1>6, <1>7, <1>8, <1>9, <1>10, <1>11 DEF Daemon, Helper

\* What the answers and the commands carry of an agreement stays agreed, and so does
\* the stored key.
Carried == ChallengeKnown /\ SessionAgreed /\ AnswersAgreed /\ RepliesAgreed /\ KeyAgreed

\* The steps of a command carry no key that no helper agreed to.
LEMMA ClientCarries ==
    ASSUME ClientInv, NEW p \in Process, Client(p)
    PROVE  Carried'
  <1> USE NoneAssumption
  <1>0. TypeOK /\ Carried
    BY DEF ClientInv, Carried
  <1>a. /\ pc \in [Process -> {"new", "started", "challenging", "challenged", "verifying",
                               "verified", "authenticated", "querying", "done"}]
        /\ session \in [Process -> Session] /\ answer \in [Process -> Answer \cup {None}]
    BY <1>0 DEF TypeOK
  <1>1. UNCHANGED <<agreed, replies>>
    BY DEF Client, ClientStep, Start, StartResponse, Logout, RequestChallenge, Send,
           ReceiveChallenge, SendProof, ReceiveVerification, StoreSession,
           EnsureAuthenticated, SendQuery,
           ReceiveData, GiveUp, pipeVars, countVars
  <1>2. RepliesAgreed'
    BY <1>0, <1>1 DEF Carried, RepliesAgreed
  <1>3. AnswersAgreed'
    <2>1. answer' \in {answer, [answer EXCEPT ![p] = None]}
      BY DEF Client, ClientStep, Start, StartResponse, Logout, RequestChallenge, Send,
             ReceiveChallenge, SendProof, ReceiveVerification, StoreSession,
             EnsureAuthenticated, SendQuery,
             ReceiveData, GiveUp, Exit
    <2> QED
      BY <1>0, <1>a, <1>1, <2>1 DEF Carried, AnswersAgreed
  <1>4. KeyAgreed'
    <2>1. CASE StoreSession(p)
      BY <1>0, <1>1, <2>1 DEF TypeOK, Config, StoreSession, Carried, SessionAgreed, KeyAgreed
    <2>2. CASE Logout(p)
      BY <2>2 DEF Logout, NoFile, KeyAgreed
    <2>3. CASE config' \in {config, NoFile}
      BY <1>0, <1>1, <2>3 DEF Carried, NoFile, KeyAgreed
    <2> QED
      BY <1>0, <2>1, <2>2, <2>3, ReadFact
      DEF Client, ClientStep, Start, StartResponse, RequestChallenge, Send,
          ReceiveChallenge, SendProof, ReceiveVerification,
          EnsureAuthenticated, SendQuery, ReceiveData, GiveUp
  <1>5. \A q \in Process : q # p => pc'[q] = pc[q] /\ session'[q] = session[q]
    BY <1>a DEF Client, ClientStep, Start, StartResponse, Logout, RequestChallenge, Send,
                ReceiveChallenge, SendProof, ReceiveVerification, StoreSession,
                EnsureAuthenticated, SendQuery,
                ReceiveData, GiveUp, Exit
  <1>6. ChallengeKnown'
    <2>1. CASE StartResponse(p)
      <3>1. PICK v \in printed, stale \in BOOLEAN :
              session' = [session EXCEPT ![p] = [v EXCEPT !.key = KeyRead(stale)]]
        BY <2>1 DEF StartResponse
      <3>2. v \in [username : User, a : User, b : Dialogue, key : {None}]
        BY <1>0, <3>1 DEF TypeOK
      <3>3. session'[p].b \in Dialogue
        BY <1>a, <3>1, <3>2
      <3> QED
        BY <1>0, <1>5, <3>3 DEF Carried, ChallengeKnown
    <2>2. CASE ReceiveChallenge(p)
      <3>1. answer[p] \in Answer
        BY <1>a, <2>2 DEF ReceiveChallenge
      <3>2. pc'[p] = "challenged" => session'[p].b = answer[p].b /\ answer[p].type = "serverKey"
        BY <1>a, <2>2 DEF ReceiveChallenge, Exit, Session
      <3>3. pc'[p] = "challenged" => session'[p].b \in Dialogue
        BY <3>1, <3>2 DEF Answer
      <3> QED
        BY <1>0, <1>5, <3>3 DEF Carried, ChallengeKnown
    <2>3. CASE ~StartResponse(p) /\ ~ReceiveChallenge(p)
      <3>1. pc'[p] # "challenged"
        BY <1>a, <2>3
        DEF Client, ClientStep, Start, Logout, RequestChallenge, Send, SendProof,
            ReceiveVerification, StoreSession,
            EnsureAuthenticated, SendQuery, ReceiveData, GiveUp, Exit
      <3> QED
        BY <1>0, <1>5, <3>1 DEF Carried, ChallengeKnown
    <2> QED
      BY <2>1, <2>2, <2>3
  <1>7. SessionAgreed'
    <2>1. CASE ReceiveVerification(p)
      <3>1. pc'[p] \in {"verified", "authenticated"} =>
               /\ session'[p].key = answer[p].key
               /\ answer[p].type = "verified" /\ answer[p] # None
        BY <1>a, <2>1 DEF ReceiveVerification, Exit
      <3>2. pc'[p] \in {"verified", "authenticated"} => session'[p].key \in agreed'
        BY <1>0, <1>1, <3>1 DEF Carried, AnswersAgreed
      <3> QED
        BY <1>0, <1>1, <1>5, <3>2 DEF Carried, SessionAgreed
    <2>3. CASE EnsureAuthenticated(p)
      <3>1. pc'[p] \in {"verified", "authenticated"} =>
               config.key # None /\ session'[p].key = config.key
        BY <1>a, <2>3 DEF EnsureAuthenticated, KeyRead, Session
      <3> QED
        BY <1>0, <1>1, <1>5, <3>1 DEF Carried, SessionAgreed, KeyAgreed
    <2>2. CASE ~ReceiveVerification(p) /\ ~EnsureAuthenticated(p)
      <3>1. pc'[p] \notin {"verified", "authenticated"}
        BY <1>a, <2>2
        DEF Client, ClientStep, Start, StartResponse, Logout, RequestChallenge, Send,
            ReceiveChallenge, SendProof, StoreSession,
            EnsureAuthenticated, SendQuery, ReceiveData, GiveUp, Exit
      <3> QED
        BY <1>0, <1>1, <1>5, <3>1 DEF Carried, SessionAgreed
    <2> QED
      BY <2>1, <2>2, <2>3
  <1> QED
    BY <1>2, <1>3, <1>4, <1>6, <1>7 DEF Carried

\* The daemon moves the helper's answers unchanged; only an acceptance by the helper
\* makes a new one that says so, and then the key is agreed.
LEMMA ServerCarries ==
    ASSUME ClientInv, Daemon \/ Helper
    PROVE  Carried'
  <1> USE NoneAssumption
  <1>0. TypeOK /\ Carried
    BY DEF ClientInv, Carried
  <1>a. inbox # <<>> => Head(inbox) \in Message
    BY <1>0 DEF TypeOK
  <1>b. Other \in Answer /\ Other.type # "verified"
    BY DEF Other, Answer
  <1>c. asked # <<>> => Head(asked) \in Message
    BY <1>0 DEF TypeOK
  <1>1. /\ UNCHANGED <<pc, session>> /\ agreed \subseteq agreed'
        /\ config'.key \in {config.key, None}
    BY <1>0, FailureFact
    DEF Daemon, Helper, Forward, ForwardFails, Reply, ReplyFails, ReadTimesOut, StartDaemon,
        HelperChallenges, HelperVerifies, HelperLooksUp, HelperRefuses, HelperEnds,
        HelperAnswers, clientVars, countVars, TypeOK, Config
  <1>2. ChallengeKnown' /\ SessionAgreed' /\ KeyAgreed'
    BY <1>0, <1>1 DEF Carried, ChallengeKnown, SessionAgreed, KeyAgreed
  <1>3. AnswersAgreed'
    <2>1. ASSUME NEW m \in Message, NEW a \in Answer, Deliver(m, a),
                 a.type = "verified" => a.key \in agreed
          PROVE  AnswersAgreed'
      BY <1>0, <1>1, <2>1, DeliverFact DEF Carried, AnswersAgreed
    <2>2. CASE ForwardFails
      BY <1>a, <1>b, <2>1, <2>2 DEF ForwardFails
    <2>3. CASE Reply
      <3>1. /\ Head(replies) \in Answer
            /\ Head(replies).type = "verified" => Head(replies).key \in agreed
        BY <1>0, <2>3 DEF TypeOK, Reply, Carried, RepliesAgreed
      <3>2. serving \in Message /\ Deliver(serving, Head(replies))
        BY <1>0, <2>3 DEF TypeOK, Reply
      <3> QED
        BY <2>1, <3>1, <3>2
    <2>4. CASE ReplyFails
      BY <1>0, <1>b, <2>1, <2>4 DEF ReplyFails, TypeOK
    <2>5. CASE UNCHANGED answer
      BY <1>0, <1>1, <2>5 DEF Carried, AnswersAgreed
    <2> QED
      BY <2>2, <2>3, <2>4, <2>5
      DEF Daemon, Helper, Forward, ReadTimesOut, StartDaemon, HelperChallenges,
          HelperVerifies, HelperLooksUp, HelperRefuses, HelperEnds, HelperAnswers
  <1>4. RepliesAgreed'
    <2>1. ASSUME NEW a, HelperAnswers(a), a.type = "verified" => a.key \in agreed'
          PROVE  RepliesAgreed'
      <3>1. /\ replies' = Append(replies, a) /\ replies \in Seq(Answer)
        BY <1>0, <2>1 DEF HelperAnswers, TypeOK
      <3>2. \A i \in 1..Len(replies') :
               IF i <= Len(replies) THEN replies'[i] = replies[i] /\ i \in 1..Len(replies)
               ELSE replies'[i] = a
        BY <3>1
      <3> QED
        BY <1>0, <1>1, <2>1, <3>2 DEF Carried, RepliesAgreed
    <2>2. CASE HelperChallenges
      BY <2>1, <2>2 DEF HelperChallenges
    <2>3. CASE HelperVerifies
      BY <2>1, <2>3 DEF HelperVerifies
    <2>4. CASE HelperLooksUp
      BY <2>1, <2>4 DEF HelperLooksUp
    <2>5. CASE HelperRefuses
      BY <1>b, <2>1, <2>5 DEF HelperRefuses
    <2>6. CASE Reply
      <3>1. /\ replies \in Seq(Answer) /\ replies # <<>> /\ replies' = Tail(replies)
        BY <1>0, <2>6 DEF TypeOK, Reply
      <3>2. \A i \in 1..Len(replies') : i + 1 \in 1..Len(replies) /\ replies'[i] = replies[i + 1]
        BY <3>1
      <3> QED
        BY <1>0, <1>1, <3>2 DEF Carried, RepliesAgreed
    <2>7. CASE replies' = <<>> \/ UNCHANGED replies
      BY <1>0, <1>1, <2>7 DEF Carried, RepliesAgreed
    <2> QED
      BY <2>2, <2>3, <2>4, <2>5, <2>6, <2>7
      DEF Daemon, Helper, Forward, ForwardFails, ReplyFails, ReadTimesOut, StartDaemon,
          HelperEnds, pipeVars
  <1> QED
    BY <1>2, <1>3, <1>4 DEF Carried

\* The inductive invariant holds of every behaviour of the commands, the daemon and
\* the helper.
THEOREM ClientInvariant == Spec => []ClientInv
  <1>1. ClientInv /\ [Next]_vars => ClientInv'
    <2> SUFFICES ASSUME ClientInv, [Next]_vars PROVE ClientInv'
      OBVIOUS
    <2>1. ASSUME NEW p \in Process, Client(p) PROVE ClientInv'
      BY <2>1, ClientTypes, ClientCarries DEF ClientInv, Carried
    <2>2. CASE Daemon \/ Helper
      BY <2>2, ServerTypes, ServerCarries DEF ClientInv, Carried
    <2>3. CASE UNCHANGED vars
      BY <2>3 DEF vars, clientVars, pipeVars, countVars, ClientInv, TypeOK, ChallengeKnown,
                  SessionAgreed, AnswersAgreed, RepliesAgreed, KeyAgreed
    <2> QED
      BY <2>1, <2>2, <2>3 DEF Next
  <1> QED
    BY <1>1, InitInv, PTL DEF Spec

\* Every key in config.json is one a helper agreed to (verify_challenge).
THEOREM StoredKeyAgreed == Spec => []KeyAgreed
  BY ClientInvariant, PTL DEF ClientInv

-----------------------------------------------------------------------------
\* While no daemon has timed out, a command's step leaves the pipes as they are, and
\* prints only what its own question was answered with.
LEMMA ClientInStep ==
    ASSUME ClientInv, LockStep, OwnAnswerInStep, NEW p \in Process, Client(p)
    PROVE  LockStep' /\ OwnAnswerInStep'
  <1> USE NoneAssumption
  <1>0. TypeOK
    BY DEF ClientInv
  <1>1. UNCHANGED <<helper, serving, asked, replies, inStep>>
    BY DEF Client, ClientStep, Start, StartResponse, Logout, RequestChallenge, Send,
           ReceiveChallenge, SendProof, ReceiveVerification, StoreSession,
           EnsureAuthenticated, SendQuery,
           ReceiveData, GiveUp, pipeVars
  <1>2. answer' \in {answer, [answer EXCEPT ![p] = None]}
    BY DEF Client, ClientStep, Start, StartResponse, Logout, RequestChallenge, Send,
           ReceiveChallenge, SendProof, ReceiveVerification, StoreSession,
           EnsureAuthenticated, SendQuery,
           ReceiveData, GiveUp, Exit
  <1>3. LockStep'
    BY <1>0, <1>1, <1>2 DEF TypeOK, LockStep, Answers
  <1>4. OwnAnswerInStep'
    <2>1. CASE ReceiveData(p)
      <3>1. inStep => shown' = shown \/ shown' = [shown EXCEPT ![p] = p]
        BY <2>1 DEF ReceiveData, LockStep
      <3> QED
        BY <1>0, <1>1, <3>1 DEF TypeOK, OwnAnswerInStep
    <2>2. CASE UNCHANGED shown
      BY <1>1, <2>2 DEF OwnAnswerInStep
    <2> QED
      BY <2>1, <2>2
      DEF Client, ClientStep, Start, StartResponse, Logout, RequestChallenge, Send,
          ReceiveChallenge, SendProof, ReceiveVerification, StoreSession,
          EnsureAuthenticated, SendQuery, GiveUp
  <1> QED
    BY <1>3, <1>4

\* Up to its first timeout the daemon has at most one request with the helper, and
\* reads the answer to that one.
LEMMA ServerInStep ==
    ASSUME ClientInv, LockStep, OwnAnswerInStep, Daemon \/ Helper
    PROVE  LockStep' /\ OwnAnswerInStep'
  <1> USE NoneAssumption
  <1>0. TypeOK
    BY DEF ClientInv
  <1>a. Other \in Answer /\ Other.type # "data"
    BY DEF Other, Answer
  <1>b. inbox # <<>> => Head(inbox) \in Message
    BY <1>0 DEF TypeOK
  <1>1. OwnAnswerInStep'
    <2>1. UNCHANGED shown /\ (inStep' => inStep)
      BY DEF Daemon, Helper, Forward, ForwardFails, Reply, ReplyFails, ReadTimesOut,
             StartDaemon, HelperChallenges, HelperVerifies, HelperLooksUp, HelperRefuses,
             HelperEnds, HelperAnswers, clientVars
    <2> QED
      BY <2>1 DEF OwnAnswerInStep
  <1>2. CASE Forward
    <2>1. Append(<<>>, Head(inbox)) = <<Head(inbox)>>
      OBVIOUS
    <2> QED
      BY <1>1, <1>2, <1>b, <2>1 DEF Forward, LockStep
  <1>3. CASE ForwardFails
    <2>1. Deliver(Head(inbox), Other) /\ Head(inbox) \in Message
      BY <1>3, <1>b DEF ForwardFails
    <2>2. \A p \in Process : answer'[p] \in {answer[p], Other}
      BY <1>0, <1>a, <2>1, DeliverFact
    <2> QED
      BY <1>1, <1>3, <1>a, <2>2 DEF ForwardFails, LockStep, pipeVars
  <1>4. CASE Reply
    <2>1. /\ serving \in Message /\ Head(replies) \in Answer
          /\ Deliver(serving, Head(replies))
      BY <1>0, <1>4 DEF TypeOK, Reply
    <2>2. inStep => asked = <<>> /\ Tail(replies) = <<>> /\ Answers(Head(replies), serving)
      BY <1>0, <1>4 DEF TypeOK, Reply, LockStep
    <2>3. \A p \in Process : answer'[p] # answer[p] =>
             serving.by = p /\ answer'[p] = Head(replies)
      BY <1>0, <2>1, DeliverFact
    <2> QED
      BY <1>1, <1>4, <2>2, <2>3 DEF Reply, LockStep, Answers
  <1>5. CASE ReplyFails
    <2>1. serving \in Message /\ Deliver(serving, Other)
      BY <1>0, <1>5 DEF TypeOK, ReplyFails
    <2>2. \A p \in Process : answer'[p] \in {answer[p], Other}
      BY <1>0, <1>a, <2>1, DeliverFact
    <2> QED
      BY <1>1, <1>5, <1>a, <2>2 DEF ReplyFails, LockStep, pipeVars
  <1>6. CASE ReadTimesOut
    BY <1>1, <1>6 DEF ReadTimesOut, LockStep, pipeVars
  <1>7. CASE \E port \in Port : StartDaemon(port)
    BY <1>1, <1>7 DEF StartDaemon, LockStep
  <1>8. ASSUME NEW a, HelperAnswers(a), asked # <<>> => Answers(a, Head(asked)),
               helper'.up = helper.up
        PROVE  LockStep'
    <2>1. inStep => /\ serving # None /\ asked = <<serving>> /\ replies = <<>>
                    /\ asked' = <<>> /\ replies' = <<a>> /\ Answers(a, serving)
      <3>1. \A m : Head(<<m>>) = m /\ Tail(<<m>>) = <<>> /\ <<m>> # <<>>
        OBVIOUS
      <3>2. Append(<<>>, a) = <<a>>
        OBVIOUS
      <3>3. inStep => serving # None /\ asked = <<serving>> /\ replies = <<>>
        BY <1>8 DEF HelperAnswers, LockStep
      <3> QED
        BY <1>8, <3>1, <3>2, <3>3 DEF HelperAnswers
    <2>2. Len(<<a>>) = 1 /\ <<a>>[1] = a
      OBVIOUS
    <2>3. UNCHANGED <<serving, inStep, answer>> /\ helper.up
      BY <1>8 DEF HelperAnswers
    <2> QED
      BY <1>8, <2>1, <2>2, <2>3 DEF LockStep
  <1>9. CASE HelperChallenges
    BY <1>0, <1>1, <1>8, <1>9 DEF TypeOK, HelperChallenges, Answers
  <1>10. CASE HelperVerifies
    BY <1>1, <1>8, <1>10 DEF HelperVerifies, Answers
  <1>11. CASE HelperLooksUp
    BY <1>1, <1>8, <1>11 DEF HelperLooksUp, Answers
  <1>12. CASE HelperRefuses
    BY <1>1, <1>a, <1>8, <1>12 DEF HelperRefuses, Answers
  <1>13. CASE HelperEnds
    BY <1>1, <1>13 DEF HelperEnds, LockStep, Answers
  <1> QED
    BY <1>1, <1>2, <1>3, <1>4, <1>5, <1>6, <1>7, <1>9, <1>10, <1>11, <1>12, <1>13
    DEF Daemon, Helper

\* Until a daemon has timed out, a command prints the answer to its own question, and
\* no answer to one that gave up before it (send_message_once).
THEOREM OwnAnswers == Spec => []OwnAnswerInStep
  <1>1. Init => LockStep /\ OwnAnswerInStep
    BY DEF Init, LockStep, OwnAnswerInStep
  <1>2. ClientInv /\ LockStep /\ OwnAnswerInStep /\ [Next]_vars
            => LockStep' /\ OwnAnswerInStep'
    <2> SUFFICES ASSUME ClientInv, LockStep, OwnAnswerInStep, [Next]_vars
                 PROVE  LockStep' /\ OwnAnswerInStep'
      OBVIOUS
    <2>1. CASE UNCHANGED vars
      BY <2>1 DEF vars, clientVars, pipeVars, LockStep, Answers, OwnAnswerInStep
    <2> QED
      BY <2>1, ClientInStep, ServerInStep DEF Next
  <1> QED
    BY <1>1, <1>2, ClientInvariant, PTL DEF Spec

-----------------------------------------------------------------------------
\* Only a start of the daemon makes the stored session one of an earlier helper, and a
\* start clears it: later such a session is written by a command whose verification
\* was over (StoreSession).
THEOREM OldSessions == Spec => NoOldSession
  <1> DEFINE Old == config.key # None /\ config.key.b <= base
             Written == \E p \in Process : pc[p] = "verified" /\ pc'[p] = "done"
  <1>1. ClientInv /\ [Next]_vars => (Old' => Old \/ Written)
    <2> SUFFICES ASSUME ClientInv, [Next]_vars PROVE Old' => Old \/ Written
      OBVIOUS
    <2>1. TypeOK
      BY DEF ClientInv
    <2>2. ASSUME NEW p \in Process, Client(p) PROVE Old' => Old \/ Written
      <3>1. CASE StoreSession(p)
        BY <2>1, <3>1 DEF TypeOK, StoreSession
      <3>2. CASE Logout(p)
        BY <3>2 DEF Logout, NoFile
      <3>3. CASE config' \in {config, NoFile} /\ UNCHANGED base
        BY <3>3 DEF NoFile
      <3> QED
        BY <2>1, <2>2, <3>1, <3>2, <3>3, ReadFact
        DEF Client, ClientStep, Start, StartResponse, RequestChallenge, Send,
            ReceiveChallenge, SendProof, ReceiveVerification,
            EnsureAuthenticated, SendQuery, ReceiveData,
            GiveUp, countVars
    <2>3. ASSUME NEW port \in Port, StartDaemon(port) PROVE Old' => Old \/ Written
      BY <2>3 DEF StartDaemon
    <2>4. ASSUME UNCHANGED base, config'.key \in {config.key, None} PROVE Old' => Old \/ Written
      BY <2>4
    <2>5. CASE Daemon \/ Helper
      BY <2>1, <2>3, <2>4, <2>5, FailureFact
      DEF Daemon, Helper, Forward, ForwardFails, Reply, ReplyFails, ReadTimesOut,
          HelperChallenges, HelperVerifies, HelperLooksUp, HelperRefuses, HelperEnds,
          HelperAnswers, countVars, TypeOK, Config
    <2> QED
      BY <2>2, <2>4, <2>5 DEF Next, vars, countVars
  <1>2. ClientInv /\ [Next]_vars =>
          [LET old(c, n) == c.key # None /\ c.key.b <= n
           IN  old(config', base') =>
                   \/ old(config, base)
                   \/ \E p \in Process : pc[p] = "verified" /\ pc'[p] = "done"]_vars
    BY <1>1
  <1> QED
    BY <1>2, ClientInvariant, PTL DEF Spec, NoOldSession

\* The daemon's address is lost only to a command that removes the whole file, by a
\* logout or because it is stale, or that had read another address (write_config in
\* verify_challenge).
THEOREM AddressStays == Spec => AddressKept
  <1> DEFINE Lost == config.port = daemon /\ config'.port # daemon' =>
                        \E p \in Process :
                            \/ pc'[p] # pc[p] /\ config' = NoFile
                            \/ pc[p] = "verified" /\ pc'[p] = "done" /\ remote[p] # daemon
  <1>1. ClientInv /\ [Next]_vars => Lost
    <2> SUFFICES ASSUME ClientInv, [Next]_vars PROVE Lost
      OBVIOUS
    <2>1. TypeOK
      BY DEF ClientInv
    <2>2. ASSUME NEW p \in Process, Client(p) PROVE Lost
      <3>1. CASE StoreSession(p)
        BY <2>1, <3>1 DEF TypeOK, Config, StoreSession
      <3>2. CASE Logout(p)
        BY <2>1, <3>2 DEF TypeOK, Logout
      <3>3. CASE UNCHANGED <<config, daemon>>
        BY <3>3
      <3>4. CASE config' = NoFile /\ pc'[p] # pc[p]
        BY <3>4
      <3>5. CASE pc'[p] # pc[p] /\ config' \in {config, NoFile} /\ UNCHANGED daemon
        BY <3>3, <3>4, <3>5
      <3>6. CASE \/ Start(p) \/ StartResponse(p) \/ RequestChallenge(p) \/ SendProof(p)
                 \/ EnsureAuthenticated(p) \/ SendQuery(p)
        BY <2>1, <3>5, <3>6, ReadFact
        DEF TypeOK, Start, StartResponse, RequestChallenge, SendProof, EnsureAuthenticated,
            SendQuery, Send
      <3> QED
        BY <2>2, <3>1, <3>2, <3>3, <3>6
        DEF Client, ClientStep, ReceiveChallenge, ReceiveVerification, ReceiveData, GiveUp
    <2>3. CASE Daemon \/ Helper
      <3>1. config'.port = daemon' \/ (config'.port = config.port /\ UNCHANGED daemon)
        BY <2>1, <2>3, FailureFact
        DEF Daemon, Helper, Forward, ForwardFails, Reply, ReplyFails, ReadTimesOut,
            StartDaemon, HelperChallenges, HelperVerifies, HelperLooksUp, HelperRefuses,
            HelperEnds, HelperAnswers, TypeOK, Config
      <3> QED
        BY <3>1
    <2> QED
      BY <2>2, <2>3 DEF Next, vars
  <1> QED
    BY <1>1, ClientInvariant, PTL DEF Spec, AddressKept
=============================================================================
