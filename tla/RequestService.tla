--------------------------- MODULE RequestService ---------------------------
(***************************************************************************)
(* What the daemon promises its clients, whatever transport is behind it:  *)
(* requests are answered one at a time in the order they arrived, each     *)
(* once, with the answer the peer produced for that very request or with   *)
(* an error of the daemon's own.                                           *)
(***************************************************************************)
EXTENDS Naturals, Sequences

CONSTANTS Request, NoRequest, Code

VARIABLES
    queue,      \* requests received and not answered
    reply,      \* per request, what its client was sent
    answered    \* requests for which the peer produced an answer

vars == <<queue, reply, answered>>

NoReply == [code |-> "none", of |-> NoRequest]

Init ==
    /\ queue = <<>>
    /\ reply = [r \in Request |-> NoReply]
    /\ answered = {}

Receive(r) ==
    /\ reply[r] = NoReply
    /\ \A i \in 1..Len(queue) : queue[i] # r
    /\ queue' = Append(queue, r)
    /\ UNCHANGED <<reply, answered>>

\* The peer answers only what it was asked, and only once.
Produce(r) ==
    /\ r \notin answered
    /\ answered' = answered \cup {r}
    /\ UNCHANGED <<queue, reply>>

Reply ==
    /\ queue # <<>>
    /\ \/ /\ Head(queue) \in answered
          /\ reply' = [reply EXCEPT ![Head(queue)] = [code |-> "Success", of |-> Head(queue)]]
       \/ \E code \in Code \ {"Success"}, of \in {Head(queue), NoRequest} :
             reply' = [reply EXCEPT ![Head(queue)] = [code |-> code, of |-> of]]
    /\ queue' = Tail(queue)
    /\ UNCHANGED answered

Next == Reply \/ \E r \in Request : Receive(r) \/ Produce(r)

Spec == Init /\ [][Next]_vars
-----------------------------------------------------------------------------
TypeOK ==
    /\ queue \in Seq(Request)
    /\ reply \in [Request -> [code : Code \cup {"none"}, of : Request \cup {NoRequest}]]
    /\ answered \in SUBSET Request

\* A request that was answered is not answered again, nor is it ever put back in
\* the queue: its client may have read the reply already.
AnsweredOnce ==
    [][\A r \in Request : reply[r] # NoReply =>
          reply'[r] = reply[r] /\ \A i \in 1..Len(queue') : queue'[i] # r]_vars

\* Requests are answered in the order they came in.
InOrder ==
    [][\A i, j \in 1..Len(queue) :
          i < j /\ reply'[queue[j]] # NoReply => reply'[queue[i]] # NoReply]_vars
=============================================================================
