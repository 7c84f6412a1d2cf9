----------------------------- MODULE PipeService -----------------------------
(***************************************************************************)
(* What the daemon promises its clients in the modes that talk to Apple's  *)
(* helper over a pipe without request ids.  As in RequestService, requests *)
(* are answered one at a time in the order they arrived, each once; but    *)
(* an answer is to the oldest question that may still have one, and this   *)
(* need not be the request in service.                                     *)
(***************************************************************************)
EXTENDS Naturals, Sequences

CONSTANTS Request, NoRequest, Code

VARIABLES
    queue,      \* requests received and not answered
    waiting,    \* the head of the queue was put to the helper
    reply,      \* per request, what its client was sent
    asked       \* the questions that may still have an answer, oldest first

vars == <<queue, waiting, reply, asked>>

NoReply == [code |-> "none", of |-> NoRequest]

Init ==
    /\ queue = <<>>
    /\ waiting = FALSE
    /\ reply = [r \in Request |-> NoReply]
    /\ asked = <<>>

Receive(r) ==
    /\ reply[r] = NoReply
    /\ \A i \in 1..Len(queue) : queue[i] # r
    /\ queue' = Append(queue, r)
    /\ UNCHANGED <<waiting, reply, asked>>

Ask ==
    /\ queue # <<>> /\ ~waiting
    /\ waiting' = TRUE
    /\ asked' = Append(asked, Head(queue))
    /\ UNCHANGED <<queue, reply>>

Answer(code, of) ==
    /\ queue # <<>>
    /\ reply' = [reply EXCEPT ![Head(queue)] = [code |-> code, of |-> of]]
    /\ queue' = Tail(queue)
    /\ waiting' = FALSE

\* An answer or an error of the helper's is handed out: that of the oldest question, even
\* where it is not the one in service.
Deliver ==
    /\ waiting /\ asked # <<>>
    /\ \E code \in {"Success", "GenericError"} : Answer(code, Head(asked))
    /\ asked' = Tail(asked)

\* An error of the daemon's own; it may have taken answers off the pipe.
Fail ==
    /\ \E code \in Code \ {"Success"} : Answer(code, NoRequest)
    /\ \/ UNCHANGED asked
       \/ waiting /\ \E n \in 1..Len(asked) : asked' = SubSeq(asked, n + 1, Len(asked))

\* The helper leaves a question without an answer.
Lose ==
    /\ \E i \in 1..Len(asked) :
          asked' = SubSeq(asked, 1, i - 1) \o SubSeq(asked, i + 1, Len(asked))
    /\ UNCHANGED <<queue, waiting, reply>>

Next == Ask \/ Deliver \/ Fail \/ Lose \/ \E r \in Request : Receive(r)

Spec == Init /\ [][Next]_vars
-----------------------------------------------------------------------------
\* A request that was answered is not answered again, nor put back in the queue.
AnsweredOnce ==
    [][\A r \in Request : reply[r] # NoReply =>
          reply'[r] = reply[r] /\ \A i \in 1..Len(queue') : queue'[i] # r]_vars

\* Requests are answered in the order they came in.
InOrder ==
    [][\A i, j \in 1..Len(queue) :
          i < j /\ reply'[queue[j]] # NoReply => reply'[queue[i]] # NoReply]_vars
=============================================================================
