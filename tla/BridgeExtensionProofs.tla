------------------------ MODULE BridgeExtensionProofs ------------------------
(***************************************************************************)
(* The invariants of the browser extension, for any number of sockets,     *)
(* requests, lost connections and saved settings.                          *)
(***************************************************************************)
EXTENDS BridgeExtension, SequenceTheorems, TLAPS

\* The constants, as the lemmas use them.
LEMMA ConstantsFact ==
    /\ None \notin Socket
    /\ MaxRequest \in Nat /\ MaxDrops \in Nat
BY ExtensionAssumption

-----------------------------------------------------------------------------
(* Sequences of requests and of responses.                                  *)

\* What failCurrentAndQueue sends: one error for each request, in their order.
LEMMA ErrorsFact ==
    ASSUME NEW requests \in Seq(Request),
           NEW errors, errors = [i \in DOMAIN requests |-> [re |-> requests[i], of |-> 0]]
    PROVE  /\ errors \in Seq(Response)
           /\ Len(errors) = Len(requests)
           /\ \A i \in 1..Len(errors) : errors[i] = [re |-> requests[i], of |-> 0]
<1>1. DOMAIN requests = 1..Len(requests) /\ Len(requests) \in Nat
  OBVIOUS
<1>2. \A i \in 1..Len(requests) : [re |-> requests[i], of |-> 0] \in Response
  BY ConstantsFact DEF Response
<1>3. errors \in [1..Len(requests) -> Response]
  BY <1>1, <1>2
<1>4. errors \in Seq(Response) /\ Len(errors) = Len(requests)
  BY <1>1, <1>3, SeqDef, LenProperties
<1> QED
  BY <1>1, <1>4

\* The request with the helper and the queue behind it, as one sequence.
LEMMA HeldFact ==
    ASSUME NEW c \in 0..MaxRequest, NEW q \in Seq(Request), NEW log, NEW n \in Nat,
           Ordered(c, q, log, n)
    PROVE  Held(c, q) \in Seq(Request) /\ Ordered(0, Held(c, q), log, n)
<1>1. CASE c = 0
  BY <1>1 DEF Held, Ordered
<1>2. CASE c # 0
  <2>1. Held(c, q) = <<c>> \o q /\ <<c>> \in Seq(Request)
    BY <1>2, ConstantsFact DEF Held, Request
  <2>2. /\ Held(c, q) \in Seq(Request) /\ Len(Held(c, q)) = Len(q) + 1
        /\ \A i \in 1..Len(Held(c, q)) : Held(c, q)[i] = IF i = 1 THEN c ELSE q[i - 1]
    BY <2>1, ConcatProperties
  <2> DEFINE h == Held(c, q)
  <2>3. \A i \in 1..Len(h) : 0 < h[i] /\ h[i] <= n
    <3> SUFFICES ASSUME NEW i \in 1..Len(h) PROVE 0 < h[i] /\ h[i] <= n
      OBVIOUS
    <3>1. CASE i = 1
      BY <1>2, <2>2, <3>1, ConstantsFact DEF Ordered
    <3>2. CASE i # 1
      <4>1. i - 1 \in 1..Len(q) /\ h[i] = q[i - 1]
        BY <2>2, <3>2
      <4>2. c < q[i - 1] /\ q[i - 1] <= n /\ q[i - 1] \in Nat
        BY <4>1, ConstantsFact DEF Ordered, Request
      <4> QED
        BY <4>1, <4>2, ConstantsFact
    <3> QED
      BY <3>1, <3>2
  <2>4. \A i, j \in 1..Len(h) : i < j => h[i] < h[j]
    <3> SUFFICES ASSUME NEW i \in 1..Len(h), NEW j \in 1..Len(h), i < j PROVE h[i] < h[j]
      OBVIOUS
    <3>1. j - 1 \in 1..Len(q) /\ h[j] = q[j - 1]
      BY <2>2
    <3>2. CASE i = 1
      BY <2>2, <3>1, <3>2 DEF Ordered
    <3>3. CASE i # 1
      <4>1. i - 1 \in 1..Len(q) /\ h[i] = q[i - 1] /\ i - 1 < j - 1
        BY <2>2, <3>3
      <4> QED
        BY <3>1, <4>1 DEF Ordered
    <3> QED
      BY <3>2, <3>3
  <2>5. \A i \in 1..Len(log), j \in 1..Len(h) : log[i].re < h[j]
    <3> SUFFICES ASSUME NEW i \in 1..Len(log), NEW j \in 1..Len(h) PROVE log[i].re < h[j]
      OBVIOUS
    <3>1. CASE j = 1
      BY <1>2, <2>2, <3>1 DEF Ordered
    <3>2. CASE j # 1
      <4>1. j - 1 \in 1..Len(q) /\ h[j] = q[j - 1]
        BY <2>2, <3>2
      <4> QED
        BY <4>1 DEF Ordered
    <3> QED
      BY <3>1, <3>2
  <2> QED
    BY <2>2, <2>3, <2>4, <2>5 DEF Ordered
<1> QED
  BY <1>1, <1>2

\* Failing every request keeps the order of the responses.
LEMMA FailAllFact ==
    ASSUME NEW requests \in Seq(Request), NEW canSend \in BOOLEAN, NEW log \in Seq(Response),
           NEW n \in Nat, Ordered(0, requests, log, n),
           FailAll(requests, canSend, log)
    PROVE  /\ current' = 0 /\ queue' = <<>> /\ sent' \in Seq(Response)
           /\ Ordered(current', queue', sent', n)
           /\ \A i \in 1..Len(sent') : sent'[i].of = 0
                 \/ \E k \in 1..Len(log) : sent'[i] = log[k]
<1>1. current' = 0 /\ queue' = <<>>
  BY DEF FailAll
<1>2. CASE ~canSend
  <2>1. sent' = log
    BY <1>2 DEF FailAll
  <2> QED
    BY <1>1, <2>1 DEF Ordered
<1>3. CASE canSend
  <2> DEFINE errors == [i \in DOMAIN requests |-> [re |-> requests[i], of |-> 0]]
  <2>1. sent' = log \o errors
    BY <1>3 DEF FailAll
  <2>2. /\ errors \in Seq(Response) /\ Len(errors) = Len(requests)
        /\ \A i \in 1..Len(errors) : errors[i] = [re |-> requests[i], of |-> 0]
    BY ErrorsFact
  <2> HIDE DEF errors
  <2>3. /\ sent' \in Seq(Response) /\ Len(sent') = Len(log) + Len(requests)
        /\ \A i \in 1..Len(sent') :
              sent'[i] = IF i <= Len(log) THEN log[i] ELSE errors[i - Len(log)]
    <3>1. /\ log \o errors \in Seq(Response)
          /\ Len(log \o errors) = Len(log) + Len(errors)
          /\ \A i \in 1..(Len(log) + Len(errors)) :
                (log \o errors)[i] = IF i <= Len(log) THEN log[i] ELSE errors[i - Len(log)]
      <4>1. errors \in Seq(Response)
        BY <2>2
      <4> QED
        BY <4>1, ConcatProperties
    <3> QED
      BY <2>1, <2>2, <3>1
  <2>4. \A i \in 1..Len(sent') :
           \/ i \in 1..Len(log) /\ sent'[i] = log[i]
           \/ /\ i - Len(log) \in 1..Len(requests)
              /\ sent'[i] = [re |-> requests[i - Len(log)], of |-> 0]
    <3> SUFFICES ASSUME NEW i \in 1..Len(sent')
                 PROVE  \/ i \in 1..Len(log) /\ sent'[i] = log[i]
                        \/ /\ i - Len(log) \in 1..Len(requests)
                           /\ sent'[i] = [re |-> requests[i - Len(log)], of |-> 0]
      OBVIOUS
    <3>1. CASE i <= Len(log)
      BY <2>3, <3>1
    <3>2. CASE ~(i <= Len(log))
      <4>1. i - Len(log) \in 1..Len(requests) /\ sent'[i] = errors[i - Len(log)]
        BY <2>3, <3>2
      <4> QED
        BY <2>2, <4>1
    <3> QED
      BY <3>1, <3>2
  <2>5. \A i \in 1..Len(sent') : sent'[i].re <= n
    <3> SUFFICES ASSUME NEW i \in 1..Len(sent') PROVE sent'[i].re <= n
      OBVIOUS
    <3>1. CASE i \in 1..Len(log) /\ sent'[i] = log[i]
      BY <3>1 DEF Ordered
    <3>2. CASE /\ i - Len(log) \in 1..Len(requests)
               /\ sent'[i] = [re |-> requests[i - Len(log)], of |-> 0]
      BY <3>2 DEF Ordered
    <3> QED
      BY <2>4, <3>1, <3>2
  <2>6. \A i, j \in 1..Len(sent') : i < j => sent'[i].re < sent'[j].re
    <3> SUFFICES ASSUME NEW i \in 1..Len(sent'), NEW j \in 1..Len(sent'), i < j
                 PROVE  sent'[i].re < sent'[j].re
      OBVIOUS
    <3>0. i \in Nat /\ j \in Nat /\ Len(log) \in Nat
      BY <2>3
    <3>1. CASE j \in 1..Len(log)
      <4>1. i \in 1..Len(log)
        BY <3>0, <3>1
      <4>2. sent'[i] = log[i] /\ sent'[j] = log[j]
        BY <2>3, <3>0, <3>1, <4>1
      <4> QED
        BY <3>1, <4>1, <4>2 DEF Ordered
    <3>2. CASE i \in 1..Len(log) /\ j \notin 1..Len(log)
      <4>1. /\ sent'[i] = log[i]
            /\ j - Len(log) \in 1..Len(requests) /\ sent'[j].re = requests[j - Len(log)]
        BY <2>3, <2>4, <3>2
      <4> QED
        BY <3>2, <4>1 DEF Ordered
    <3>3. CASE i \notin 1..Len(log)
      <4>1. /\ i - Len(log) \in 1..Len(requests) /\ sent'[i].re = requests[i - Len(log)]
            /\ j - Len(log) \in 1..Len(requests) /\ sent'[j].re = requests[j - Len(log)]
            /\ i - Len(log) < j - Len(log)
        BY <2>3, <2>4, <3>0, <3>3
      <4> QED
        BY <4>1 DEF Ordered
    <3> QED
      BY <3>1, <3>2, <3>3
  <2>7. Ordered(current', queue', sent', n)
    BY <1>1, <2>5, <2>6 DEF Ordered
  <2> QED
    BY <1>1, <2>3, <2>4, <2>7
<1> QED
  BY <1>2, <1>3

-----------------------------------------------------------------------------
(* flushQueue, from whichever handler.                                      *)

\* It keeps the order of requests and responses.
LEMMA FlushOrdered ==
    ASSUME NEW c \in 0..MaxRequest, NEW q \in Seq(Request), NEW pipe \in Seq(Request),
           NEW canSend \in BOOLEAN, NEW log \in Seq(Response), NEW n \in Nat,
           port \in {"none", "up", "dead"},
           Ordered(c, q, log, n), Flush(c, q, pipe, canSend, log)
    PROVE  /\ current' \in 0..MaxRequest /\ queue' \in Seq(Request)
           /\ host' \in Seq(Request) /\ port' \in {"none", "up", "dead"}
           /\ sent' \in Seq(Response)
           /\ Ordered(current', queue', sent', n)
<1>1. CASE /\ c # 0 \/ q = <<>> \/ ~canSend
           /\ current' = c /\ queue' = q /\ host' = pipe /\ sent' = log
           /\ UNCHANGED port
  BY <1>1
<1>2. CASE /\ c = 0 /\ q # <<>>
           /\ current' = Head(q) /\ queue' = Tail(q) /\ sent' = log
           /\ port' = IF port = "none" THEN "up" ELSE port
           /\ host' = IF port = "dead" THEN pipe ELSE Append(pipe, Head(q))
  <2>1. /\ Head(q) \in Request /\ Head(q) = q[1] /\ 1 \in 1..Len(q)
        /\ Tail(q) \in Seq(Request) /\ Len(Tail(q)) = Len(q) - 1
        /\ \A i \in 1..Len(Tail(q)) : Tail(q)[i] = q[i + 1] /\ i + 1 \in 1..Len(q)
    BY <1>2, HeadTailProperties
  <2>2. Append(pipe, Head(q)) \in Seq(Request)
    BY <2>1, AppendProperties
  <2>3. Head(q) \in 0..MaxRequest
    BY <2>1, ConstantsFact DEF Request
  <2>4. Ordered(Head(q), Tail(q), log, n)
    <3>1. Head(q) <= n
      BY <2>1 DEF Ordered
    <3>2. \A i \in 1..Len(Tail(q)) : Head(q) < Tail(q)[i] /\ Tail(q)[i] <= n
      <4> SUFFICES ASSUME NEW i \in 1..Len(Tail(q)) PROVE Head(q) < Tail(q)[i] /\ Tail(q)[i] <= n
        OBVIOUS
      <4>1. Tail(q)[i] = q[i + 1] /\ i + 1 \in 1..Len(q) /\ 1 < i + 1
        BY <2>1
      <4> QED
        BY <2>1, <4>1 DEF Ordered
    <3>3. \A i, j \in 1..Len(Tail(q)) : i < j => Tail(q)[i] < Tail(q)[j]
      <4> SUFFICES ASSUME NEW i \in 1..Len(Tail(q)), NEW j \in 1..Len(Tail(q)), i < j
                   PROVE  Tail(q)[i] < Tail(q)[j]
        OBVIOUS
      <4>1. /\ Tail(q)[i] = q[i + 1] /\ i + 1 \in 1..Len(q)
            /\ Tail(q)[j] = q[j + 1] /\ j + 1 \in 1..Len(q) /\ i + 1 < j + 1
        BY <2>1
      <4> QED
        BY <4>1 DEF Ordered
    <3>4. \A i \in 1..Len(log) :
             /\ log[i].re <= n
             /\ log[i].re < Head(q)
             /\ \A j \in 1..Len(Tail(q)) : log[i].re < Tail(q)[j]
      BY <2>1 DEF Ordered
    <3> QED
      BY <3>1, <3>2, <3>3, <3>4 DEF Ordered
  <2> QED
    BY <1>2, <2>1, <2>2, <2>3, <2>4
<1>3. CASE /\ c = 0 /\ FailAll(q, canSend, log)
           /\ port' \in {port, IF port = "none" THEN "up" ELSE port}
           /\ host' = pipe
  <2>1. /\ current' = 0 /\ queue' = <<>> /\ sent' \in Seq(Response)
        /\ Ordered(current', queue', sent', n)
    BY <1>3, FailAllFact
  <2> QED
    BY <1>3, <2>1, ConstantsFact
<1> QED
  BY <1>1, <1>2, <1>3 DEF Flush

\* AnswerToCome, of any request, pipe and port.
WithHelper(c, pipe, end) ==
    c # 0 => \/ end = "up" /\ pipe # <<>> /\ pipe[Len(pipe)] = c
             \/ end = "dead"

\* A request that flushQueue posts is the last one the helper has; if posting fails, no
\* request is left waiting.
LEMMA FlushWithHelper ==
    ASSUME NEW c \in 0..MaxRequest, NEW q \in Seq(Request), NEW pipe \in Seq(Request),
           NEW canSend \in BOOLEAN, NEW log \in Seq(Response),
           port \in {"none", "up", "dead"},
           WithHelper(c, pipe, port), Flush(c, q, pipe, canSend, log)
    PROVE  WithHelper(current', host', port')
<1>1. CASE current' = c /\ host' = pipe /\ UNCHANGED port
  BY <1>1 DEF WithHelper
<1>2. CASE /\ q # <<>>
           /\ current' = Head(q)
           /\ port' = IF port = "none" THEN "up" ELSE port
           /\ host' = IF port = "dead" THEN pipe ELSE Append(pipe, Head(q))
  <2>1. Head(q) \in Request
    BY <1>2, HeadTailProperties
  <2>2. /\ Append(pipe, Head(q)) # <<>>
        /\ Append(pipe, Head(q))[Len(Append(pipe, Head(q)))] = Head(q)
    BY <2>1, AppendProperties
  <2> QED
    BY <1>2, <2>2 DEF WithHelper
<1>3. CASE current' = 0
  BY <1>3 DEF WithHelper
<1> QED
  BY <1>1, <1>2, <1>3 DEF Flush, FailAll

\* The helper has the current request and no other, and every response so far has
\* the answer to its own request or an error.
OwnPipe(c, pipe, end, log) ==
    /\ pipe = IF c # 0 /\ end = "up" THEN <<c>> ELSE <<>>
    /\ \A i \in 1..Len(log) : log[i].of \in {0, log[i].re}

\* flushQueue keeps the helper's only request the current one.
LEMMA FlushOwnPipe ==
    ASSUME NEW c \in 0..MaxRequest, NEW q \in Seq(Request), NEW pipe \in Seq(Request),
           NEW canSend \in BOOLEAN, NEW log \in Seq(Response), NEW n \in Nat,
           port \in {"none", "up", "dead"}, Ordered(c, q, log, n),
           OwnPipe(c, pipe, port, log), Flush(c, q, pipe, canSend, log)
    PROVE  OwnPipe(current', host', port', sent')
<1>1. CASE current' = c /\ host' = pipe /\ sent' = log /\ UNCHANGED port
  BY <1>1 DEF OwnPipe
<1>2. CASE /\ c = 0 /\ q # <<>> /\ sent' = log
           /\ current' = Head(q)
           /\ port' = IF port = "none" THEN "up" ELSE port
           /\ host' = IF port = "dead" THEN pipe ELSE Append(pipe, Head(q))
  <2>1. Head(q) \in Request /\ Head(q) # 0
    BY <1>2, HeadTailProperties, ConstantsFact DEF Request
  <2>2. pipe = <<>> /\ Append(<<>>, Head(q)) = <<Head(q)>>
    BY <1>2 DEF OwnPipe
  <2> QED
    BY <1>2, <2>1, <2>2 DEF OwnPipe
<1>3. CASE c = 0 /\ FailAll(q, canSend, log) /\ host' = pipe
  <2>1. /\ current' = 0
        /\ \A i \in 1..Len(sent') : sent'[i].of = 0
              \/ \E k \in 1..Len(log) : sent'[i] = log[k]
    BY <1>3, FailAllFact
  <2>2. host' = <<>>
    BY <1>3 DEF OwnPipe
  <2> QED
    BY <2>1, <2>2 DEF OwnPipe
<1> QED
  BY <1>1, <1>2, <1>3 DEF Flush

-----------------------------------------------------------------------------
(* The invariant in two halves, and what relates them.                      *)

HelperType ==
    /\ queue \in Seq(Request) /\ current \in 0..MaxRequest
    /\ port \in {"none", "up", "dead"} /\ host \in Seq(Request)
    /\ issued \in 0..MaxRequest /\ sent \in Seq(Response)

HelperPart ==
    /\ HelperType
    /\ Ordered(current, queue, sent, issued)
    /\ WithHelper(current, host, port)

SocketType ==
    /\ loading \in {"loading", "loaded", "failed"} /\ saved \in BOOLEAN
    /\ websocket \in Socket \cup {None} /\ timer \in BOOLEAN
    /\ shown \in {"idle", "connecting", "connected", "disconnected", "error"}
    /\ sock \in [Socket -> {"connecting", "open", "closing", "closed"}]
    /\ attached \in Socket \cup {None}
    /\ drops \in 0..MaxDrops

SocketPart == SocketType /\ AttachedIsUp /\ NeverStranded

\* No socket is in use but the current one.
OneSocket ==
    \A s \in Socket : sock[s] # "closed" =>
        /\ s = websocket
        /\ sock[s] = "connecting" \/ (sock[s] = "open" /\ s = attached)

First ==
    drops = 0 /\ ~saved => OneSocket /\ OwnPipe(current, host, port, sent)

\* ExtensionInv is what concerns the helper, what concerns the sockets, and First.
LEMMA Parts ==
    /\ ExtensionInv <=> HelperPart /\ SocketPart /\ First
    /\ ExtensionInv' <=> HelperPart' /\ SocketPart' /\ First'
BY DEF ExtensionInv, HelperPart, HelperType, SocketPart, SocketType, First, OneSocket,
       OwnPipe, WithHelper, TypeOK, AnswerToCome, FirstConnection

\* A new controller has no socket, no port and no request.
LEMMA InitInv == Init => ExtensionInv
<1> SUFFICES ASSUME Init PROVE ExtensionInv
  OBVIOUS
<1> USE ConstantsFact DEF Init
<1>1. HelperPart
  BY DEF HelperPart, HelperType, Ordered, WithHelper
<1>2. SocketPart
  <2>1. SocketType
    <3>1. drops \in 0..MaxDrops
      OBVIOUS
    <3>2. sock \in [Socket -> {"connecting", "open", "closing", "closed"}]
      OBVIOUS
    <3> QED
      BY <3>1, <3>2 DEF SocketType
  <2>2. AttachedIsUp /\ NeverStranded
    BY DEF AttachedIsUp, NeverStranded
  <2> QED
    BY <2>1, <2>2 DEF SocketPart
<1>3. First
  BY DEF First, OneSocket, OwnPipe
<1> QED
  BY <1>1, <1>2, <1>3, Parts

\* Each half holds on after a step that leaves its variables alone.
LEMMA HelperKept ==
    ASSUME HelperPart, UNCHANGED <<helperVars, issued>> PROVE HelperPart'
BY DEF HelperPart, HelperType, WithHelper, helperVars

\* The sockets' half holds on after a step of the helper, and First with it.
LEMMA SocketKept ==
    ASSUME SocketPart, UNCHANGED <<loading, saved, socketVars>>
    PROVE  SocketPart' /\ (First /\ OwnPipe(current', host', port', sent') => First')
BY DEF SocketPart, SocketType, AttachedIsUp, NeverStranded, socketVars, First, OneSocket

-----------------------------------------------------------------------------
(* Steps on sockets.                                                        *)

\* connectWebSocket leaves a socket or a timer, and takes no socket that is in use.
LEMMA ConnectFact ==
    ASSUME NEW sockets \in [Socket -> {"connecting", "open", "closing", "closed"}],
           NEW pending \in BOOLEAN, SocketType, Connect(sockets, pending),
           attached # None => sockets[attached] \in {"open", "closing"},
           UNCHANGED attached
    PROVE  /\ websocket' \in Socket \cup {None} /\ timer' \in BOOLEAN
           /\ shown' \in {"idle", "connecting", "connected", "disconnected", "error"}
           /\ sock' \in [Socket -> {"connecting", "open", "closing", "closed"}]
           /\ AttachedIsUp'
           /\ websocket' # None \/ timer'
           /\ (\A s \in Socket : sockets[s] = "closed") => OneSocket'
<1>1. ASSUME NEW t \in Socket, sockets[t] = "closed", websocket' = t,
             sock' = [sockets EXCEPT ![t] = "connecting"],
             shown' = "connecting", timer' = pending
      PROVE  /\ websocket' \in Socket \cup {None} /\ timer' \in BOOLEAN
             /\ shown' \in {"idle", "connecting", "connected", "disconnected", "error"}
             /\ sock' \in [Socket -> {"connecting", "open", "closing", "closed"}]
             /\ AttachedIsUp'
             /\ websocket' # None \/ timer'
             /\ (\A s \in Socket : sockets[s] = "closed") => OneSocket'
  BY <1>1, ConstantsFact DEF AttachedIsUp, OneSocket, SocketType
<1>2. CASE websocket' = None /\ sock' = sockets /\ shown' = "error" /\ timer' = TRUE
  BY <1>2 DEF AttachedIsUp, OneSocket, SocketType
<1> QED
  BY <1>1, <1>2 DEF Connect

\* What a handler that only connects has to show.
LEMMA ConnectInv ==
    ASSUME ExtensionInv, NEW sockets \in [Socket -> {"connecting", "open", "closing", "closed"}],
           NEW pending \in BOOLEAN, Connect(sockets, pending),
           \A s \in Socket : sock[s] = sockets[s]
               \/ (sock[s] \in {"connecting", "open"} /\ sockets[s] = "closing"),
           loading' \in {"loading", "loaded", "failed"}, saved' \in BOOLEAN,
           saved' \/ (websocket = None /\ saved' = saved /\ sockets = sock),
           UNCHANGED <<attached, drops, helperVars, issued>>
    PROVE  ExtensionInv'
<1>1. HelperPart /\ SocketPart /\ SocketType /\ First /\ AttachedIsUp
  BY Parts DEF SocketPart
<1>2. attached # None => sockets[attached] \in {"open", "closing"}
  BY <1>1 DEF AttachedIsUp, SocketType
<1>3. /\ websocket' \in Socket \cup {None} /\ timer' \in BOOLEAN
      /\ shown' \in {"idle", "connecting", "connected", "disconnected", "error"}
      /\ sock' \in [Socket -> {"connecting", "open", "closing", "closed"}]
      /\ AttachedIsUp'
      /\ websocket' # None \/ timer'
      /\ (\A s \in Socket : sockets[s] = "closed") => OneSocket'
  BY <1>1, <1>2, ConnectFact
<1>4. SocketPart'
  BY <1>1, <1>3 DEF SocketPart, SocketType, NeverStranded
<1>5. First'
  <2> SUFFICES ASSUME drops' = 0, ~saved' PROVE OneSocket' /\ OwnPipe(current', host', port', sent')
    BY DEF First
  <2>1. drops = 0 /\ ~saved /\ websocket = None /\ sockets = sock
    OBVIOUS
  <2>2. OneSocket /\ OwnPipe(current, host, port, sent)
    BY <1>1, <2>1 DEF First
  <2>3. \A s \in Socket : sockets[s] = "closed"
    BY <2>1, <2>2, ConstantsFact DEF OneSocket
  <2>4. OwnPipe(current', host', port', sent')
    BY <2>2 DEF OwnPipe, helperVars
  <2> QED
    BY <1>3, <2>3, <2>4
<1> QED
  BY <1>1, <1>4, <1>5, HelperKept, Parts

\* settingsStore.load succeeds or fails.
LEMMA StartInv == ASSUME ExtensionInv, Loaded \/ LoadFails PROVE ExtensionInv'
<1>1. HelperPart /\ SocketPart /\ SocketType /\ First
  BY Parts DEF SocketPart
<1>2. CASE Loaded /\ websocket = None
  BY <1>1, <1>2, ConnectInv DEF Loaded, SocketType
<1>3. CASE \/ Loaded /\ websocket # None
           \/ LoadFails
  <2>1. UNCHANGED <<saved, websocket, timer, sock, attached, drops, helperVars, issued>>
    BY <1>3 DEF Loaded, LoadFails
  <2>2. SocketPart'
    BY <1>1, <1>3, <2>1 DEF Loaded, LoadFails, SocketPart, SocketType, AttachedIsUp, NeverStranded
  <2>3. First'
    BY <1>1, <2>1 DEF First, OneSocket, OwnPipe, helperVars
  <2> QED
    BY <1>1, <2>1, <2>2, <2>3, HelperKept, Parts
<1> QED
  BY <1>2, <1>3

\* The reconnect timer fires.
LEMMA TimerInv == ASSUME ExtensionInv, TimerFires PROVE ExtensionInv'
<1>1. HelperPart /\ SocketPart /\ SocketType /\ First
  BY Parts DEF SocketPart
<1>2. CASE websocket = None
  BY <1>1, <1>2, ConnectInv DEF TimerFires, SocketType
<1>3. CASE websocket # None
  <2>1. /\ timer' = FALSE
        /\ UNCHANGED <<loading, saved, websocket, shown, sock, attached, drops, helperVars, issued>>
    BY <1>3 DEF TimerFires
  <2>2. SocketPart'
    BY <1>1, <1>3, <2>1 DEF SocketPart, SocketType, AttachedIsUp, NeverStranded
  <2>3. First'
    BY <1>1, <2>1 DEF First, OneSocket, OwnPipe, helperVars
  <2> QED
    BY <1>1, <2>1, <2>2, <2>3, HelperKept, Parts
<1> QED
  BY <1>2, <1>3

\* updateSettings gives up the current socket and connects again.
LEMMA SettingsInv == ASSUME ExtensionInv, UpdateSettings PROVE ExtensionInv'
<1> DEFINE sockets == [s \in Socket |->
                          IF s = websocket /\ sock[s] \in {"connecting", "open"} THEN "closing"
                          ELSE sock[s]]
<1>1. SocketType
  BY Parts DEF SocketPart
<1>2. sockets \in [Socket -> {"connecting", "open", "closing", "closed"}]
  BY <1>1 DEF SocketType
<1>3. \A s \in Socket : sock[s] = sockets[s]
               \/ (sock[s] \in {"connecting", "open"} /\ sockets[s] = "closing")
  BY <1>1 DEF SocketType
<1>4. /\ Connect(sockets, timer) /\ saved' = TRUE
      /\ UNCHANGED <<loading, attached, drops, helperVars, issued>>
  BY DEF UpdateSettings
<1> HIDE DEF sockets
<1> QED
  BY <1>1, <1>2, <1>3, <1>4, ConnectInv DEF SocketType

\* A socket opens, the current one or not.
LEMMA OpenInv == ASSUME ExtensionInv, NEW s \in Socket, OpenEvent(s) PROVE ExtensionInv'
<1>1. HelperPart /\ HelperType /\ SocketPart /\ SocketType /\ First
  BY Parts DEF HelperPart, SocketPart
<1>2. /\ sock[s] = "connecting" /\ sock' = [sock EXCEPT ![s] = "open"]
      /\ attached' = IF Writable(websocket, sock') THEN websocket ELSE attached
      /\ Flush(current, queue, host, Writable(websocket, sock'), sent)
      /\ UNCHANGED <<loading, saved, websocket, drops, issued>>
  BY DEF OpenEvent
<1>3. Writable(websocket, sock') \in BOOLEAN /\ issued \in Nat
  BY <1>1, ConstantsFact DEF Writable, HelperType
<1>4. HelperPart'
  <2>1. /\ current' \in 0..MaxRequest /\ queue' \in Seq(Request)
        /\ host' \in Seq(Request) /\ port' \in {"none", "up", "dead"}
        /\ sent' \in Seq(Response)
        /\ Ordered(current', queue', sent', issued)
    BY <1>1, <1>2, <1>3, FlushOrdered DEF HelperPart, HelperType
  <2>2. WithHelper(current', host', port')
    BY <1>1, <1>2, <1>3, FlushWithHelper DEF HelperPart, HelperType
  <2> QED
    BY <1>1, <1>2, <2>1, <2>2 DEF HelperPart, HelperType
<1>5. sock'[s] = "open" /\ \A t \in Socket : t # s => sock'[t] = sock[t]
  BY <1>1, <1>2 DEF SocketType
<1>6. SocketType'
  BY <1>1, <1>2 DEF SocketType, OpenEvent
<1>7. AttachedIsUp'
  <2>1. CASE Writable(websocket, sock')
    BY <1>2, <2>1 DEF AttachedIsUp, Writable
  <2>2. CASE ~Writable(websocket, sock')
    BY <1>1, <1>2, <1>5, <2>2 DEF AttachedIsUp, SocketPart, SocketType
  <2> QED
    BY <2>1, <2>2
<1>8. NeverStranded'
  <2>1. CASE websocket # None
    BY <1>2, <2>1 DEF NeverStranded
  <2>2. CASE websocket = None
    <3>1. attached' = attached /\ attached # s
      BY <1>1, <1>2, <2>2, ConstantsFact DEF AttachedIsUp, SocketPart, Writable
    <3> QED
      BY <1>5, <3>1 DEF NeverStranded
  <2> QED
    BY <2>1, <2>2
<1>9. First'
  <2> SUFFICES ASSUME drops' = 0, ~saved' PROVE OneSocket' /\ OwnPipe(current', host', port', sent')
    BY DEF First
  <2>1. OneSocket /\ OwnPipe(current, host, port, sent)
    BY <1>1, <1>2 DEF First
  <2>2. s = websocket /\ s # None
    BY <1>2, <2>1, ConstantsFact DEF OneSocket
  <2>3. attached' = s
    BY <1>2, <1>5, <2>2 DEF Writable
  <2>4. OneSocket'
    BY <1>2, <1>5, <2>1, <2>2, <2>3 DEF OneSocket
  <2>5. OwnPipe(current', host', port', sent')
    BY <1>1, <1>2, <1>3, <2>1, FlushOwnPipe DEF HelperPart, HelperType
  <2> QED
    BY <2>4, <2>5
<1> QED
  BY <1>4, <1>6, <1>7, <1>8, <1>9, Parts DEF SocketPart

\* The close of a socket is reported, the current one or not.
LEMMA CloseInv == ASSUME ExtensionInv, NEW s \in Socket, CloseEvent(s) PROVE ExtensionInv'
<1>1. HelperPart /\ HelperType /\ SocketPart /\ SocketType /\ First
  BY Parts DEF HelperPart, SocketPart
<1>2. /\ Closes(s) /\ sock' = [sock EXCEPT ![s] = "closed"]
      /\ attached' = IF attached = s THEN None ELSE attached
      /\ FailAll(Held(current, queue), FALSE, sent)
      /\ websocket' = None /\ shown' = "disconnected" /\ timer' = TRUE
      /\ UNCHANGED <<loading, saved, port, host, issued>>
  BY DEF CloseEvent
<1>3. HelperPart'
  <2>1. Held(current, queue) \in Seq(Request) /\ Ordered(0, Held(current, queue), sent, issued)
    BY <1>1, HeldFact, ConstantsFact DEF HelperPart, HelperType
  <2>2. /\ current' = 0 /\ queue' = <<>> /\ sent' \in Seq(Response)
        /\ Ordered(current', queue', sent', issued)
    <3>1. issued \in Nat /\ sent \in Seq(Response) /\ FALSE \in BOOLEAN
      BY <1>1, ConstantsFact DEF HelperType
    <3>2. FailAll(Held(current, queue), FALSE, sent)
      BY <1>2
    <3> HIDE DEF FailAll
    <3> QED
      BY <2>1, <3>1, <3>2, FailAllFact
  <2> QED
    BY <1>1, <1>2, <2>2, ConstantsFact DEF HelperPart, HelperType, WithHelper
<1>4. SocketPart'
  <2>1. drops' \in 0..MaxDrops
    BY <1>1, <1>2, ConstantsFact DEF Closes, SocketType
  <2>2. SocketType'
    BY <1>1, <1>2, <2>1 DEF SocketType
  <2>3. AttachedIsUp'
    BY <1>1, <1>2 DEF AttachedIsUp, SocketPart, SocketType
  <2> QED
    BY <1>2, <2>2, <2>3 DEF SocketPart, NeverStranded
<1>5. First'
  <2> SUFFICES ASSUME drops' = 0, ~saved' PROVE FALSE
    BY DEF First
  <2>1. drops = 0 /\ ~saved /\ drops' = drops
    BY <1>1, <1>2, ConstantsFact DEF Closes, SocketType
  <2>2. sock[s] = "closing" \/ (sock[s] = "open" /\ s # attached)
    BY <1>2, <2>1 DEF Closes, SocketType
  <2> QED
    BY <1>1, <2>1, <2>2 DEF First, OneSocket
<1> QED
  BY <1>3, <1>4, <1>5, Parts

-----------------------------------------------------------------------------
(* Steps on requests and answers.                                           *)

\* CanSend is a Boolean.
LEMMA CanSendFact == CanSend \in BOOLEAN
BY DEF CanSend, Writable

\* A request of the daemon arrives (handleWebSocketMessage, flushQueue).
LEMMA MessageInv == ASSUME ExtensionInv, MessageEvent PROVE ExtensionInv'
<1>1. HelperPart /\ HelperType /\ SocketPart /\ First
  BY Parts DEF HelperPart
<1> DEFINE q == Append(queue, issued + 1)
<1>2. /\ issued < MaxRequest /\ issued' = issued + 1
      /\ Flush(current, q, host, CanSend, sent)
      /\ UNCHANGED <<loading, saved, socketVars>>
  BY DEF MessageEvent
<1>3. issued \in Nat /\ issued' \in Nat /\ issued' \in 1..MaxRequest
  BY <1>1, <1>2, ConstantsFact DEF HelperType
<1>4. /\ q \in Seq(Request) /\ Len(q) = Len(queue) + 1 /\ Len(queue) \in Nat
      /\ \A i \in 1..Len(queue) : q[i] = queue[i]
      /\ q[Len(queue) + 1] = issued'
  BY <1>1, <1>2, <1>3, AppendProperties DEF HelperType, Request
<1> HIDE DEF q
<1>5. \A i \in 1..Len(q) : \/ i \in 1..Len(queue) /\ q[i] = queue[i]
                           \/ i = Len(queue) + 1 /\ q[i] = issued'
  BY <1>4
<1>6. Ordered(current, q, sent, issued')
  <2>0. /\ current \in Nat /\ \A i \in 1..Len(queue) : queue[i] \in Nat
        /\ \A i \in 1..Len(sent) : sent[i].re \in Nat
    <3>1. \A i \in 1..Len(sent) : sent[i] \in Response
      BY <1>1 DEF HelperType
    <3>2. \A i \in 1..Len(queue) : queue[i] \in Request
      BY <1>1 DEF HelperType
    <3>3. \A i \in 1..Len(sent) : sent[i].re \in Request
      BY <3>1 DEF Response
    <3>4. Request \subseteq Nat /\ 0..MaxRequest \subseteq Nat
      BY ConstantsFact DEF Request
    <3> QED
      BY <1>1, <3>2, <3>3, <3>4 DEF HelperType
  <2>1. current <= issued'
    BY <1>1, <1>2, <1>3, <2>0 DEF HelperPart, Ordered
  <2>2. \A i \in 1..Len(q) : current < q[i] /\ q[i] <= issued'
    <3> SUFFICES ASSUME NEW i \in 1..Len(q) PROVE current < q[i] /\ q[i] <= issued'
      OBVIOUS
    <3>1. CASE i \in 1..Len(queue) /\ q[i] = queue[i]
      <4>1. current < queue[i] /\ queue[i] <= issued
        BY <1>1, <3>1 DEF HelperPart, Ordered
      <4> QED
        BY <1>2, <1>3, <2>0, <3>1, <4>1
    <3>2. CASE q[i] = issued'
      BY <1>1, <1>2, <1>3, <2>0, <3>2 DEF HelperPart, Ordered
    <3> QED
      BY <1>5, <3>1, <3>2
  <2>3. \A i, j \in 1..Len(q) : i < j => q[i] < q[j]
    <3> SUFFICES ASSUME NEW i \in 1..Len(q), NEW j \in 1..Len(q), i < j PROVE q[i] < q[j]
      OBVIOUS
    <3>1. i \in 1..Len(queue) /\ q[i] = queue[i]
      BY <1>4, <1>5
    <3>2. CASE j \in 1..Len(queue) /\ q[j] = queue[j]
      BY <1>1, <3>1, <3>2 DEF HelperPart, Ordered
    <3>3. CASE q[j] = issued'
      <4>1. queue[i] <= issued
        BY <1>1, <3>1 DEF HelperPart, Ordered
      <4> QED
        BY <1>2, <1>3, <2>0, <3>1, <3>3, <4>1
    <3> QED
      BY <1>5, <3>2, <3>3
  <2>4. \A i \in 1..Len(sent) :
           /\ sent[i].re <= issued'
           /\ current # 0 => sent[i].re < current
           /\ \A j \in 1..Len(q) : sent[i].re < q[j]
    <3> SUFFICES ASSUME NEW i \in 1..Len(sent)
                 PROVE  /\ sent[i].re <= issued'
                        /\ current # 0 => sent[i].re < current
                        /\ \A j \in 1..Len(q) : sent[i].re < q[j]
      OBVIOUS
    <3>1. /\ sent[i].re <= issued
          /\ current # 0 => sent[i].re < current
          /\ \A j \in 1..Len(queue) : sent[i].re < queue[j]
      BY <1>1 DEF HelperPart, Ordered
    <3>2. sent[i].re < issued'
      BY <1>2, <1>3, <2>0, <3>1
    <3> QED
      BY <1>3, <1>5, <2>0, <3>1, <3>2
  <2> QED
    BY <1>1, <2>1, <2>2, <2>3, <2>4 DEF HelperPart, Ordered
<1>7. HelperPart'
  <2>1. /\ current' \in 0..MaxRequest /\ queue' \in Seq(Request)
        /\ host' \in Seq(Request) /\ port' \in {"none", "up", "dead"}
        /\ sent' \in Seq(Response)
        /\ Ordered(current', queue', sent', issued')
    BY <1>1, <1>2, <1>3, <1>4, <1>6, FlushOrdered, CanSendFact DEF HelperType
  <2>2. WithHelper(current', host', port')
    BY <1>1, <1>2, <1>4, FlushWithHelper, CanSendFact DEF HelperPart, HelperType
  <2> QED
    BY <1>3, <2>1, <2>2 DEF HelperPart, HelperType
<1>8. First /\ drops = 0 /\ ~saved => OwnPipe(current', host', port', sent')
  BY <1>1, <1>2, <1>3, <1>4, <1>6, FlushOwnPipe, CanSendFact DEF First, HelperType
<1>9. SocketPart' /\ First'
  BY <1>1, <1>2, <1>8, SocketKept DEF First, socketVars
<1> QED
  BY <1>7, <1>9, Parts

\* The helper ends, and what it had is lost; its request waits for onDisconnect.
LEMMA HelperEndsInv == ASSUME ExtensionInv, HelperEnds PROVE ExtensionInv'
<1>1. HelperPart /\ SocketPart /\ First
  BY Parts
<1>2. HelperPart'
  BY <1>1 DEF HelperEnds, HelperPart, HelperType, WithHelper
<1>3. OwnPipe(current, host, port, sent) => OwnPipe(current', host', port', sent')
  BY DEF HelperEnds, OwnPipe
<1>4. SocketPart' /\ First'
  BY <1>1, <1>3, SocketKept DEF HelperEnds, First, socketVars
<1> QED
  BY <1>2, <1>4, Parts

\* disconnectNative fails the current request and the queue.
LEMMA PortDisconnectsInv == ASSUME ExtensionInv, PortDisconnects PROVE ExtensionInv'
<1>1. HelperPart /\ HelperType /\ SocketPart /\ First
  BY Parts DEF HelperPart
<1>2. /\ port = "dead" /\ port' = "none"
      /\ FailAll(Held(current, queue), CanSend, sent)
      /\ UNCHANGED <<loading, saved, socketVars, host, issued>>
  BY DEF PortDisconnects
<1>3. Held(current, queue) \in Seq(Request) /\ Ordered(0, Held(current, queue), sent, issued)
  BY <1>1, HeldFact, ConstantsFact DEF HelperPart, HelperType
<1>4. /\ current' = 0 /\ queue' = <<>> /\ sent' \in Seq(Response)
      /\ Ordered(current', queue', sent', issued)
      /\ \A i \in 1..Len(sent') : sent'[i].of = 0
            \/ \E k \in 1..Len(sent) : sent'[i] = sent[k]
  BY <1>1, <1>2, <1>3, FailAllFact, CanSendFact, ConstantsFact DEF HelperType
<1>5. HelperPart'
  BY <1>1, <1>2, <1>4, ConstantsFact DEF HelperPart, HelperType, WithHelper
<1>6. OwnPipe(current, host, port, sent) => OwnPipe(current', host', port', sent')
  BY <1>2, <1>4 DEF OwnPipe
<1>7. SocketPart' /\ First'
  BY <1>1, <1>2, <1>6, SocketKept DEF First, socketVars
<1> QED
  BY <1>5, <1>7, Parts

\* The response to the current request comes after all that were sent, and before
\* those of the queue.
LEMMA RespondFact ==
    ASSUME HelperPart, current # 0, NEW response \in Response, response.re = current
    PROVE  /\ Append(sent, response) \in Seq(Response)
           /\ Ordered(0, queue, Append(sent, response), issued)
<1>1. HelperType /\ Ordered(current, queue, sent, issued)
  BY DEF HelperPart
<1> DEFINE log == Append(sent, response)
<1>2. /\ log \in Seq(Response) /\ Len(log) = Len(sent) + 1 /\ Len(sent) \in Nat
      /\ \A i \in 1..Len(sent) : log[i] = sent[i]
      /\ log[Len(sent) + 1] = response
  BY <1>1, AppendProperties DEF HelperType
<1> HIDE DEF log
<1>3. \A i \in 1..Len(log) : \/ i \in 1..Len(sent) /\ log[i] = sent[i]
                             \/ i = Len(sent) + 1 /\ log[i] = response
  BY <1>2
<1>4. /\ issued \in Nat /\ current \in Nat /\ current <= issued
      /\ \A j \in 1..Len(queue) : queue[j] \in Nat
  <2>1. \A j \in 1..Len(queue) : queue[j] \in Request
    BY <1>1 DEF HelperType
  <2> QED
    BY <1>1, <2>1, ConstantsFact DEF HelperType, Ordered, Request
<1>5. \A j \in 1..Len(queue) : 0 < queue[j] /\ queue[j] <= issued
  BY <1>1, <1>4 DEF Ordered
<1>6. \A i \in 1..Len(log) :
         log[i].re <= issued /\ \A j \in 1..Len(queue) : log[i].re < queue[j]
  <2> SUFFICES ASSUME NEW i \in 1..Len(log)
               PROVE  log[i].re <= issued /\ \A j \in 1..Len(queue) : log[i].re < queue[j]
    OBVIOUS
  <2>1. CASE i \in 1..Len(sent) /\ log[i] = sent[i]
    BY <1>1, <2>1 DEF Ordered
  <2>2. CASE log[i] = response
    BY <1>1, <1>4, <2>2 DEF Ordered
  <2> QED
    BY <1>3, <2>1, <2>2
<1>7. \A i, j \in 1..Len(log) : i < j => log[i].re < log[j].re
  <2> SUFFICES ASSUME NEW i \in 1..Len(log), NEW j \in 1..Len(log), i < j
               PROVE  log[i].re < log[j].re
    OBVIOUS
  <2>1. i \in 1..Len(sent) /\ log[i] = sent[i]
    BY <1>2, <1>3
  <2>2. CASE j \in 1..Len(sent) /\ log[j] = sent[j]
    BY <1>1, <2>1, <2>2 DEF Ordered
  <2>3. CASE log[j] = response
    BY <1>1, <2>1, <2>3 DEF Ordered
  <2> QED
    BY <1>3, <2>2, <2>3
<1>8. Ordered(0, queue, log, issued)
  BY <1>1, <1>4, <1>5, <1>6, <1>7 DEF Ordered
<1> QED
  BY <1>2, <1>8 DEF log

\* An answer of the helper is the current request's, and the next request is posted.
LEMMA NativeMessageInv == ASSUME ExtensionInv, NativeMessage PROVE ExtensionInv'
<1>1. HelperPart /\ HelperType /\ SocketPart /\ First
  BY Parts DEF HelperPart
<1>2. /\ port = "up" /\ host # <<>>
      /\ UNCHANGED <<loading, saved, socketVars, issued>>
  BY DEF NativeMessage
<1>3. /\ Head(host) \in Request /\ Tail(host) \in Seq(Request)
      /\ current \in 0..MaxRequest /\ queue \in Seq(Request) /\ sent \in Seq(Response)
      /\ issued \in Nat /\ CanSend \in BOOLEAN
  BY <1>1, <1>2, HeadTailProperties, CanSendFact, ConstantsFact DEF HelperType
<1>4. CASE current = 0
  <2>1. host' = Tail(host) /\ UNCHANGED <<queue, current, port, sent>>
    BY <1>4 DEF NativeMessage
  <2>2. HelperPart'
    BY <1>1, <1>2, <1>3, <1>4, <2>1 DEF HelperPart, HelperType, WithHelper
  <2>3. ~OwnPipe(current, host, port, sent)
    BY <1>2, <1>4 DEF OwnPipe
  <2>4. SocketPart' /\ First'
    BY <1>1, <1>2, <2>3, SocketKept DEF First, socketVars
  <2> QED
    BY <2>2, <2>4, Parts
<1>5. CASE current # 0
  <2>1. PICK of \in {0, Head(host)} :
           Flush(0, queue, Tail(host), CanSend,
                 IF CanSend THEN Append(sent, [re |-> current, of |-> of]) ELSE sent)
    BY <1>5 DEF NativeMessage
  <2> DEFINE response == [re |-> current, of |-> of]
             log == IF CanSend THEN Append(sent, response) ELSE sent
  <2>2. response \in Response /\ response.re = current /\ response.of = of
    BY <1>3, <1>5, ConstantsFact DEF Response, Request
  <2>3. Append(sent, response) \in Seq(Response) /\ Ordered(0, queue, Append(sent, response), issued)
    BY <1>1, <1>5, <2>2, RespondFact
  <2>4. Ordered(0, queue, sent, issued)
    <3>1. Ordered(current, queue, sent, issued)
      BY <1>1 DEF HelperPart
    <3>2. \A j \in 1..Len(queue) : queue[j] \in Request
      BY <1>3
    <3> QED
      BY <1>3, <3>1, <3>2, ConstantsFact DEF Ordered, Request
  <2>5. log \in Seq(Response) /\ Ordered(0, queue, log, issued)
    BY <1>3, <2>3, <2>4
  <2>6. Flush(0, queue, Tail(host), CanSend, log)
    BY <2>1
  <2>7. 0 \in 0..MaxRequest /\ port \in {"none", "up", "dead"}
    BY <1>2, ConstantsFact
  <2>8. HelperPart'
    <3>1. /\ current' \in 0..MaxRequest /\ queue' \in Seq(Request)
          /\ host' \in Seq(Request) /\ port' \in {"none", "up", "dead"}
          /\ sent' \in Seq(Response)
          /\ Ordered(current', queue', sent', issued)
      BY <1>3, <2>5, <2>6, <2>7, FlushOrdered
    <3>2. WithHelper(0, Tail(host), port)
      BY DEF WithHelper
    <3>3. WithHelper(current', host', port')
      BY <1>3, <2>5, <2>6, <2>7, <3>2, FlushWithHelper
    <3> QED
      BY <1>1, <1>2, <3>1, <3>3 DEF HelperPart, HelperType
  <2>9. OwnPipe(current, host, port, sent) => OwnPipe(current', host', port', sent')
    <3> SUFFICES ASSUME OwnPipe(current, host, port, sent)
                 PROVE  OwnPipe(current', host', port', sent')
      OBVIOUS
    <3>1. host = <<current>>
      BY <1>2, <1>5 DEF OwnPipe
    <3>2. Tail(host) = <<>> /\ Head(host) = current
      BY <3>1
    <3>3. \A i \in 1..Len(Append(sent, response)) :
             Append(sent, response)[i].of \in {0, Append(sent, response)[i].re}
      <4>1. /\ Len(Append(sent, response)) = Len(sent) + 1 /\ Len(sent) \in Nat
            /\ \A i \in 1..Len(sent) : Append(sent, response)[i] = sent[i]
            /\ Append(sent, response)[Len(sent) + 1] = response
        BY <1>3, <2>2, AppendProperties
      <4>2. response.of \in {0, response.re}
        BY <2>2, <3>2
      <4> HIDE DEF response
      <4>3. \A i \in 1..Len(Append(sent, response)) :
               i \in 1..Len(sent) \/ Append(sent, response)[i] = response
        BY <4>1
      <4> QED
        BY <4>1, <4>2, <4>3 DEF OwnPipe
    <3>4. OwnPipe(0, Tail(host), port, log)
      BY <3>2, <3>3 DEF OwnPipe
    <3> HIDE DEF log
    <3> QED
      BY <1>3, <2>5, <2>6, <2>7, <3>4, FlushOwnPipe
  <2>10. SocketPart' /\ First'
    BY <1>1, <1>2, <2>9, SocketKept DEF First, socketVars
  <2> QED
    BY <2>8, <2>10, Parts
<1> QED
  BY <1>4, <1>5

-----------------------------------------------------------------------------
(* The theorems.                                                            *)

\* ExtensionInv is inductive: handlers of any number of sockets, the timer, the popup
\* and the helper's port run in any order.
THEOREM ExtensionInvariant == Spec => []ExtensionInv
<1>1. ExtensionInv /\ [Next]_vars => ExtensionInv'
  <2> SUFFICES ASSUME ExtensionInv, [Next]_vars PROVE ExtensionInv'
    OBVIOUS
  <2>1. CASE Loaded \/ LoadFails
    BY <2>1, StartInv
  <2>2. CASE TimerFires
    BY <2>2, TimerInv
  <2>3. CASE UpdateSettings
    BY <2>3, SettingsInv
  <2>4. ASSUME NEW s \in Socket, OpenEvent(s) PROVE ExtensionInv'
    BY <2>4, OpenInv
  <2>5. ASSUME NEW s \in Socket, CloseEvent(s) PROVE ExtensionInv'
    BY <2>5, CloseInv
  <2>6. CASE MessageEvent
    BY <2>6, MessageInv
  <2>7. CASE NativeMessage
    BY <2>7, NativeMessageInv
  <2>8. CASE PortDisconnects
    BY <2>8, PortDisconnectsInv
  <2>9. CASE HelperEnds
    BY <2>9, HelperEndsInv
  <2>10. CASE UNCHANGED vars
    <3>1. HelperPart /\ SocketPart /\ First
      BY Parts
    <3>2. HelperPart'
      BY <2>10, <3>1, HelperKept DEF vars
    <3>3. OwnPipe(current, host, port, sent) => OwnPipe(current', host', port', sent')
      BY <2>10 DEF vars, helperVars
    <3>4. SocketPart' /\ First'
      BY <2>10, <3>1, <3>3, SocketKept DEF vars, First, socketVars
    <3> QED
      BY <3>2, <3>4, Parts
  <2> QED
    BY <2>1, <2>2, <2>3, <2>4, <2>5, <2>6, <2>7, <2>8, <2>9, <2>10 DEF Next, HelperEvent
<1> QED
  BY <1>1, InitInv, PTL DEF Spec

\* Responses leave in the order of their requests, each at most once.
THEOREM ExtensionResponsesInOrder == Spec => []ResponsesInOrder
<1>1. ExtensionInv => ResponsesInOrder
  BY DEF ExtensionInv, Ordered, ResponsesInOrder
<1> QED
  BY <1>1, ExtensionInvariant, PTL

\* The extension never waits for an answer that cannot come.
THEOREM ExtensionAnswerToCome == Spec => []AnswerToCome
<1>1. ExtensionInv => AnswerToCome
  BY DEF ExtensionInv
<1> QED
  BY <1>1, ExtensionInvariant, PTL

\* There is always a socket, a timer, or a close event that will set the timer.
THEOREM ExtensionNeverStranded == Spec => []NeverStranded
<1>1. ExtensionInv => NeverStranded
  BY DEF ExtensionInv
<1> QED
  BY <1>1, ExtensionInvariant, PTL

\* No response has the answer to another request while the first connection lasts.
THEOREM ExtensionOwnAnswer == Spec => []OwnAnswerWhileConnected
<1>1. ExtensionInv => OwnAnswerWhileConnected
  BY DEF ExtensionInv, FirstConnection, OwnAnswerWhileConnected
<1> QED
  BY <1>1, ExtensionInvariant, PTL
=============================================================================
