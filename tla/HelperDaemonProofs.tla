------------------------- MODULE HelperDaemonProofs -------------------------
(***************************************************************************)
(* HelperInv is an invariant of HelperDaemon, and with it what the start   *)
(* of a daemon and the framed request loop promise; and HelperDaemon       *)
(* implements PipeService.                                                 *)
(***************************************************************************)
EXTENDS HelperDaemon, SequenceTheorems, TLAPS

-----------------------------------------------------------------------------
(* Sequences of requests and of frames.                                     *)

\* The elements of a sequence with one more.
LEMMA AppendRange ==
    ASSUME NEW S, NEW seq \in Seq(S), NEW x \in S
    PROVE  /\ Append(seq, x) \in Seq(S)
           /\ Range(Append(seq, x)) = Range(seq) \cup {x}
<1>1. DOMAIN Append(seq, x) = DOMAIN seq \cup {Len(seq) + 1}
    OBVIOUS
<1>2. /\ \A i \in DOMAIN seq : Append(seq, x)[i] = seq[i]
      /\ Append(seq, x)[Len(seq) + 1] = x
    OBVIOUS
<1> QED BY <1>1, <1>2 DEF Range

\* A new element at the end of a sequence without repetition.
LEMMA AppendDistinct ==
    ASSUME NEW S, NEW seq \in Seq(S), NEW x \in S, IsInjective(seq), x \notin Range(seq)
    PROVE  IsInjective(Append(seq, x))
<1>1. DOMAIN Append(seq, x) = DOMAIN seq \cup {Len(seq) + 1} /\ Len(seq) + 1 \notin DOMAIN seq
    OBVIOUS
<1>2. /\ \A i \in DOMAIN seq : Append(seq, x)[i] = seq[i]
      /\ Append(seq, x)[Len(seq) + 1] = x
    OBVIOUS
<1> QED BY <1>1, <1>2 DEF Range, IsInjective

\* What is left without the first element.
LEMMA TailRange ==
    ASSUME NEW S, NEW seq \in Seq(S), seq # <<>>
    PROVE  /\ Head(seq) \in S /\ Tail(seq) \in Seq(S)
           /\ Range(seq) = Range(Tail(seq)) \cup {Head(seq)}
           /\ IsInjective(seq) => IsInjective(Tail(seq)) /\ Head(seq) \notin Range(Tail(seq))
<1>1. /\ Len(seq) \in Nat /\ Len(seq) >= 1 /\ DOMAIN seq = 1..Len(seq)
      /\ DOMAIN Tail(seq) = 1..(Len(seq) - 1)
      /\ Head(seq) = seq[1]
      /\ \A i \in 1..(Len(seq) - 1) : Tail(seq)[i] = seq[i + 1]
    OBVIOUS
<1>2. Head(seq) \in S /\ Tail(seq) \in Seq(S)
    OBVIOUS
<1>3. Range(seq) = Range(Tail(seq)) \cup {Head(seq)}
    <2>1. ASSUME NEW i \in 1..Len(seq)
          PROVE  seq[i] \in Range(Tail(seq)) \cup {Head(seq)}
        <3>1. CASE i = 1
            BY <1>1, <3>1
        <3>2. CASE i # 1
            <4>1. i - 1 \in 1..(Len(seq) - 1) /\ (i - 1) + 1 = i
                BY <1>1, <3>2
            <4>2. Tail(seq)[i - 1] = seq[i]
                BY <1>1, <4>1
            <4> QED BY <1>1, <4>1, <4>2 DEF Range
        <3> QED BY <3>1, <3>2
    <2>2. ASSUME NEW i \in 1..(Len(seq) - 1)
          PROVE  Tail(seq)[i] \in Range(seq)
        <3>1. i + 1 \in 1..Len(seq)
            BY <1>1
        <3> QED BY <1>1, <3>1 DEF Range
    <2>3. Head(seq) \in Range(seq)
        BY <1>1 DEF Range
    <2>4. Range(seq) \subseteq Range(Tail(seq)) \cup {Head(seq)}
        BY <1>1, <2>1 DEF Range
    <2>5. Range(Tail(seq)) \subseteq Range(seq)
        BY <1>1, <2>2 DEF Range
    <2> QED BY <2>3, <2>4, <2>5
<1>4. IsInjective(seq) => IsInjective(Tail(seq)) /\ Head(seq) \notin Range(Tail(seq))
    BY <1>1 DEF IsInjective, Range
<1> QED BY <1>2, <1>3, <1>4

\* The same of frames, which count by the request they answer.
LEMMA AppendFrame ==
    ASSUME NEW frames \in Seq(Frame), NEW f \in Frame
    PROVE  /\ Append(frames, f) \in Seq(Frame)
           /\ Of(Append(frames, f)) = Of(frames) \cup {f.of}
           /\ OneEach(frames) /\ f.of \notin Of(frames) => OneEach(Append(frames, f))
<1>1. Append(frames, f) \in Seq(Frame) /\ Range(Append(frames, f)) = Range(frames) \cup {f}
    BY AppendRange
<1>2. Of(Append(frames, f)) = Of(frames) \cup {f.of}
    BY <1>1 DEF Of
<1>3. DOMAIN Append(frames, f) = DOMAIN frames \cup {Len(frames) + 1}
    OBVIOUS
<1>4. /\ \A i \in DOMAIN frames : Append(frames, f)[i] = frames[i]
      /\ Append(frames, f)[Len(frames) + 1] = f
    OBVIOUS
<1>5. \A i \in DOMAIN frames : frames[i].of \in Of(frames)
    BY DEF Of, Range
<1> QED BY <1>1, <1>2, <1>3, <1>4, <1>5 DEF OneEach

\* Taking a frame from a pipe takes exactly its request from those in the pipe.
LEMMA TailFrame ==
    ASSUME NEW frames \in Seq(Frame), frames # <<>>
    PROVE  /\ Head(frames) \in Frame /\ Tail(frames) \in Seq(Frame)
           /\ Of(frames) = Of(Tail(frames)) \cup {Head(frames).of}
           /\ OneEach(frames) => OneEach(Tail(frames)) /\ Head(frames).of \notin Of(Tail(frames))
<1>1. /\ Head(frames) \in Frame /\ Tail(frames) \in Seq(Frame)
      /\ Range(frames) = Range(Tail(frames)) \cup {Head(frames)}
    BY TailRange
<1>2. Of(frames) = Of(Tail(frames)) \cup {Head(frames).of}
    BY <1>1 DEF Of
<1>3. /\ Len(frames) \in Nat /\ Len(frames) >= 1 /\ DOMAIN frames = 1..Len(frames)
      /\ DOMAIN Tail(frames) = 1..(Len(frames) - 1)
      /\ Head(frames) = frames[1]
      /\ \A i \in 1..(Len(frames) - 1) : Tail(frames)[i] = frames[i + 1]
    OBVIOUS
<1>4. OneEach(frames) => OneEach(Tail(frames))
    BY <1>3 DEF OneEach
<1>5. OneEach(frames) => Head(frames).of \notin Of(Tail(frames))
    BY <1>3 DEF OneEach, Of, Range
<1> QED BY <1>1, <1>2, <1>4, <1>5

\* What is left of a sequence without its first n elements.
Suffix(seq, n) == SubSeq(seq, n + 1, Len(seq))

\* The elements of a suffix are those that many places further on.
LEMMA SuffixFact ==
    ASSUME NEW S, NEW seq \in Seq(S), NEW n \in 0..Len(seq)
    PROVE  /\ Suffix(seq, n) \in Seq(S) /\ Len(Suffix(seq, n)) = Len(seq) - n
           /\ DOMAIN Suffix(seq, n) = 1..(Len(seq) - n)
           /\ \A i \in 1..(Len(seq) - n) : Suffix(seq, n)[i] = seq[n + i]
<1>1. Len(seq) \in Nat /\ n \in Nat /\ \A i \in (n + 1)..Len(seq) : seq[i] \in S
    BY LenProperties, ElementOfSeq
<1>2. /\ Suffix(seq, n) \in Seq(S)
      /\ Len(Suffix(seq, n)) = IF n + 1 <= Len(seq) THEN Len(seq) - (n + 1) + 1 ELSE 0
      /\ \A i \in 1..(Len(seq) - (n + 1) + 1) : Suffix(seq, n)[i] = seq[(n + 1) + i - 1]
    BY <1>1, SubSeqProperties DEF Suffix
<1>3. Len(Suffix(seq, n)) = Len(seq) - n /\ Len(seq) - (n + 1) + 1 = Len(seq) - n
    BY <1>1, <1>2
<1>4. \A i \in 1..(Len(seq) - n) : (n + 1) + i - 1 = n + i
    BY <1>1
<1> HIDE DEF Suffix
<1>5. DOMAIN Suffix(seq, n) = 1..(Len(seq) - n)
    BY <1>2, <1>3, LenProperties
<1> QED BY <1>2, <1>3, <1>4, <1>5

\* Frames that are dropped take their requests from those in the pipe.
LEMMA SuffixFrame ==
    ASSUME NEW frames \in Seq(Frame), NEW n \in 0..Len(frames)
    PROVE  /\ Suffix(frames, n) \in Seq(Frame)
           /\ Of(Suffix(frames, n)) \subseteq Of(frames)
           /\ OneEach(frames) => OneEach(Suffix(frames, n))
<1>1. /\ Suffix(frames, n) \in Seq(Frame)
      /\ DOMAIN Suffix(frames, n) = 1..(Len(frames) - n)
      /\ \A i \in 1..(Len(frames) - n) : Suffix(frames, n)[i] = frames[n + i]
    BY SuffixFact
<1>2. /\ DOMAIN frames = 1..Len(frames) /\ Len(frames) \in Nat
      /\ \A i \in 1..(Len(frames) - n) : n + i \in 1..Len(frames)
      /\ \A i, j \in 1..(Len(frames) - n) : n + i = n + j => i = j
    BY LenProperties
<1>3. ASSUME NEW g, g \in Of(Suffix(frames, n))
      PROVE  g \in Of(frames)
    <2>1. PICK i \in 1..(Len(frames) - n) : g = Suffix(frames, n)[i].of
        BY <1>1, <1>3 DEF Of, Range
    <2>2. n + i \in DOMAIN frames /\ g = frames[n + i].of
        BY <1>1, <1>2, <2>1
    <2> QED BY <2>2 DEF Of, Range
<1>4. ASSUME OneEach(frames),
             NEW i \in 1..(Len(frames) - n), NEW j \in 1..(Len(frames) - n),
             Suffix(frames, n)[i].of = Suffix(frames, n)[j].of
      PROVE  i = j
    <2>1. frames[n + i].of = frames[n + j].of /\ n + i \in DOMAIN frames /\ n + j \in DOMAIN frames
        BY <1>1, <1>2, <1>4
    <2>2. n + i = n + j
        BY <1>4, <2>1 DEF OneEach
    <2> QED BY <1>2, <2>2
<1>5. OneEach(frames) => OneEach(Suffix(frames, n))
    BY <1>1, <1>4 DEF OneEach
<1> QED BY <1>1, <1>3, <1>5

-----------------------------------------------------------------------------
(* The start.                                                               *)

\* There are at most two backends, each with a strategy.
LEMMA BackendsFact ==
    ASSUME mode \in Mode
    PROVE  /\ Len(Backends) \in 0..2
           /\ \A i \in 1..Len(Backends) : Backends[i] \in Strategy
<1>1. CASE mode = "direct"
    BY <1>1 DEF Backends, Strategy
<1>2. CASE mode = "launchd"
    BY <1>2 DEF Backends, Strategy
<1>3. CASE mode = "auto"
    BY <1>3 DEF Backends, Strategy
<1>4. CASE mode = "disabled"
    BY <1>4 DEF Backends, Strategy
<1> QED BY <1>1, <1>2, <1>3, <1>4 DEF Mode

\* The strategy being tried, or in use.
LEMMA CurrentFact ==
    ASSUME TypeOK, backend <= Len(Backends)
    PROVE  Current \in Strategy /\ backend + 1 \in 1..3
<1>1. Len(Backends) \in 0..2 /\ \A i \in 1..Len(Backends) : Backends[i] \in Strategy
    BY BackendsFact DEF TypeOK
<1>2. backend \in 1..Len(Backends)
    BY <1>1 DEF TypeOK
<1> QED BY <1>1, <1>2 DEF Current

\* A step of the start keeps the types and LaunchInv.
LEMMA StartUpInv ==
    ASSUME TypeOK, LaunchInv, StartUp
    PROVE  TypeOK' /\ LaunchInv'
<1> DEFINE Started == {"probing", "launched", "settling", "binding", "persisting", "serving"}
<1>1. UNCHANGED <<startVars, loopVars, pipeVars>> /\ Backends' = Backends
    BY DEF StartUp, Launch, ProbePasses, ProbeFails, NoBackendLeft, PersistLaunch, Settle, Bind,
           ClearSession, startVars, Backends
<1>2. Len(Backends) \in 0..2 /\ phase # "serving"
    BY BackendsFact DEF TypeOK, StartUp, Launch, ProbePasses, ProbeFails, NoBackendLeft,
           PersistLaunch, Settle, Bind, ClearSession
<1>3. \A s \in Strategy : Alive(s) => s = Current
    BY DEF LaunchInv
<1>4. SUFFICES /\ phase' \in Phase /\ backend' \in 1..3
               /\ process' \in [Strategy -> {"none", "running", "closed", "exited"}]
               /\ disk' \in [launch : {"none", "ok", "failed", "disabled"}, session : BOOLEAN]
               /\ phase' \in Started => backend' <= Len(Backends)
               /\ \A s \in Strategy : process'[s] \in {"running", "closed"} =>
                     /\ phase' \in (Started \ {"launched"}) \cup {"unchecked"}
                     /\ s = Backends[backend']
               /\ phase' # "serving" => keychain \/ disk'.session = hadSession
    BY <1>1, <1>2 DEF TypeOK, LaunchInv, startVars, loopVars, pipeVars, Alive, Current, NoReply
<1> USE DEF TypeOK, LaunchInv, Phase, Alive, Current
<1>5. CASE Launch
    <2>1. /\ phase = "launching" /\ backend <= Len(Backends) /\ disk' = disk
          /\ Current \in Strategy /\ backend + 1 \in 1..3
          /\ \A s \in Strategy : ~Alive(s)
        BY <1>5, CurrentFact DEF Launch
    <2>2. CASE /\ process' = [process EXCEPT ![Current] = "running"]
               /\ phase' = "probing" /\ backend' = backend
        BY <2>1, <2>2
    <2>3. CASE process' = process /\ phase' = "launching" /\ backend' = backend + 1
        BY <2>1, <2>3
    <2> QED BY <1>5, <2>2, <2>3 DEF Launch, NextBackend
<1>6. CASE ProbePasses
    BY <1>2, <1>6, CurrentFact DEF ProbePasses
<1>7. CASE ProbeFails
    BY <1>2, <1>7, CurrentFact DEF ProbeFails, NextBackend
<1>8. CASE NoBackendLeft
    BY <1>2, <1>8 DEF NoBackendLeft
<1>9. CASE PersistLaunch
    <2>1. /\ phase \in {"launched", "unavailable"} /\ UNCHANGED <<backend, process>>
          /\ phase' \in {"done", "failed"}
        BY <1>9 DEF PersistLaunch
    <2>2. /\ disk' \in [launch : {"none", "ok", "failed", "disabled"}, session : BOOLEAN]
          /\ keychain \/ disk'.session = disk.session
        <3>1. CASE WriteFailed
            BY <3>1 DEF WriteFailed
        <3>2. ASSUME NEW l \in {"none", "ok", "failed", "disabled"},
                     disk' = [launch |-> l, session |-> disk.session /\ ~keychain]
              PROVE  /\ disk' \in [launch : {"none", "ok", "failed", "disabled"}, session : BOOLEAN]
                     /\ keychain \/ disk'.session = disk.session
            BY <3>2
        <3> QED BY <1>9, <3>1, <3>2 DEF PersistLaunch
    <2>3. \A s \in Strategy : ~Alive(s)
        BY <2>1
    <2> QED BY <2>1, <2>2, <2>3
<1>10. CASE Settle
    BY <1>2, <1>10, CurrentFact DEF Settle
<1>11. CASE Bind
    BY <1>2, <1>11, CurrentFact DEF Bind, TerminateHelper
<1>12. CASE ClearSession
    <2>1. backend' = backend /\ backend <= Len(Backends) /\ Current \in Strategy
        BY <1>12, CurrentFact DEF ClearSession
    <2>2. CASE disk' = [launch |-> "ok", session |-> FALSE] /\ phase' = "serving" /\ UNCHANGED process
        BY <1>3, <1>12, <2>1, <2>2 DEF ClearSession
    <2>3. CASE phase' = "failed" /\ TerminateHelper /\ WriteFailed
        BY <1>3, <1>12, <2>1, <2>3 DEF ClearSession, TerminateHelper, WriteFailed
    <2> QED BY <1>12, <2>2, <2>3 DEF ClearSession
<1> QED BY <1>5, <1>6, <1>7, <1>8, <1>9, <1>10, <1>11, <1>12 DEF StartUp

-----------------------------------------------------------------------------
(* The request loop.                                                        *)

\* A reply to the head of the queue, with the answer to some request or with none;
\* what it says of the helper is recorded.
Answers(of) ==
    \E code \in Code :
        /\ \E o \in {of, NoRequest} : Send(code, o)
        /\ disk' = disk \/ disk' = [disk EXCEPT !.launch = "failed"]
        /\ code = "ProcessNotRunning" /\ ~badDisk => disk' = [disk EXCEPT !.launch = "failed"]

\* What Fail does of its answer and of the record in config.json.
LEMMA FailAnswers ==
    ASSUME NEW code \in Code, NEW of, Fail(code, of)
    PROVE  Answers(of)
BY DEF Fail, Answer, Answers, Code

\* Only requests are in the pipes, and none before the start is over.
LEMMA HeldFact ==
    ASSUME TypeOK
    PROVE  /\ Held \subseteq Request
           /\ LaunchInv /\ HeldOnce /\ phase # "serving" => Held = {}
<1>1. Range(stdin) \subseteq Request /\ Range(owed) \subseteq Request
    BY DEF TypeOK, Range
<1>2. Of(stdout) \subseteq Request
    <2>1. \A i \in DOMAIN stdout : stdout[i] \in Frame
        BY DEF TypeOK
    <2>2. \A f \in Frame : f.of \in Request
        BY DEF Frame
    <2> QED BY <2>1, <2>2 DEF Of, Range
<1>3. Held \subseteq Request
    BY <1>1, <1>2 DEF Held
<1>4. ASSUME LaunchInv, HeldOnce, phase # "serving"
      PROVE  Held = {}
    <2>1. serving = "idle" /\ \A r \in Request : reply[r] = NoReply
        BY <1>4 DEF LaunchInv
    <2>2. \A r \in Held : reply[r] # NoReply
        BY <1>4, <2>1 DEF HeldOnce
    <2> QED BY <1>3, <2>1, <2>2
<1> QED BY <1>3, <1>4

\* A reply keeps what is known of the queue and of the replies.
LEMMA AnswerInv ==
    ASSUME TypeOK, QueueInv, HeldOnce, GivenOnce, DeliveredOnce, GoneIsRecorded,
           queue # <<>>, NEW of \in Request \cup {NoRequest}, Answers(of),
           Held' \subseteq Held,
           of # NoRequest => of \in Held \ Held',
           UNCHANGED badDisk
    PROVE  /\ queue' \in Seq(Request) /\ serving' = "idle"
           /\ reply' \in [Request -> [code : Code \cup {"none"}, of : Request \cup {NoRequest}]]
           /\ disk' \in [launch : {"none", "ok", "failed", "disabled"}, session : BOOLEAN]
           /\ disk'.session = disk.session
           /\ \A r \in Held' : reply'[r] # NoReply
           /\ QueueInv' /\ GivenOnce' /\ DeliveredOnce' /\ GoneIsRecorded'
<1> DEFINE h == Head(queue)
<1>1. PICK code \in Code, o \in {of, NoRequest} :
          /\ Send(code, o)
          /\ disk' = disk \/ disk' = [disk EXCEPT !.launch = "failed"]
          /\ code = "ProcessNotRunning" /\ ~badDisk => disk' = [disk EXCEPT !.launch = "failed"]
    BY DEF Answers
<1>2. /\ h \in Request /\ Tail(queue) \in Seq(Request)
      /\ Range(queue) = Range(Tail(queue)) \cup {h}
      /\ IsInjective(Tail(queue)) /\ h \notin Range(Tail(queue))
    BY TailRange DEF TypeOK, QueueInv
<1>3. reply[h] = NoReply /\ (serving = "reading" \/ serving = "idle")
    BY <1>2 DEF QueueInv, TypeOK
<1>4. /\ reply' = [reply EXCEPT ![h] = [code |-> code, of |-> o]]
      /\ queue' = Tail(queue) /\ serving' = "idle"
    BY <1>1 DEF Send
<1>5. reply'[h] = [code |-> code, of |-> o] /\ \A r \in Request \ {h} : reply'[r] = reply[r]
    BY <1>2, <1>4 DEF TypeOK
<1>6. reply'[h] # NoReply /\ NoReply.of = NoRequest
    BY <1>5 DEF NoReply, Code
<1>7. Held \subseteq Request /\ NoRequest \notin Request
    BY HeldFact, HelperAssumption
<1>8. \A r \in Held : reply'[r] # NoReply
    BY <1>3, <1>5, <1>6, <1>7 DEF HeldOnce
<1>9. \A r \in Request : reply[r] # NoReply => reply'[r] # NoReply
    BY <1>3, <1>5
<1>10. QueueInv'
    BY <1>2, <1>4, <1>5, TailRange DEF QueueInv, TypeOK, Range, NoReply
<1>11. GivenOnce'
    <2> SUFFICES ASSUME NEW r \in Request, reply'[r].of # NoRequest
                 PROVE  reply'[reply'[r].of] # NoReply /\ reply'[r].of \notin Held'
        BY DEF GivenOnce, NoReply
    <2>1. CASE r = h
        BY <1>5, <1>8, <2>1
    <2>2. CASE r # h
        BY <1>5, <1>9, <2>2 DEF GivenOnce, TypeOK
    <2> QED BY <2>1, <2>2
<1>12. DeliveredOnce'
    BY <1>1, <1>3, <1>5, <1>6 DEF DeliveredOnce, GivenOnce
<1>13. GoneIsRecorded'
    BY <1>1, <1>5 DEF GoneIsRecorded, TypeOK
<1>14. reply' \in [Request -> [code : Code \cup {"none"}, of : Request \cup {NoRequest}]]
    BY <1>1, <1>2, <1>4 DEF TypeOK
<1>15. /\ disk' \in [launch : {"none", "ok", "failed", "disabled"}, session : BOOLEAN]
       /\ disk'.session = disk.session
    BY <1>1 DEF TypeOK
<1> QED BY <1>2, <1>4, <1>8, <1>10, <1>11, <1>12, <1>13, <1>14, <1>15

\* A step of the loop leaves the start and its helper as they are.
LEMMA LoopFrame ==
    ASSUME TypeOK, LaunchInv, RequestLoop
    PROVE  /\ phase = "serving"
           /\ UNCHANGED <<startVars, launchVars, process>>
           /\ LaunchInv' /\ Current' = Current /\ Current \in Strategy
<1>1. UNCHANGED <<startVars, launchVars, process>>
    BY DEF RequestLoop, RejectRequest, WriteFrame, WriteFails, ReadFrame, ReadTorn, ReadEnd, TimeOut
<1>2. phase = "serving"
    BY DEF RequestLoop, RejectRequest, WriteFrame, WriteFails, ReadFrame, ReadTorn, ReadEnd, TimeOut,
           CanWrite, LaunchInv, TypeOK
<1>3. LaunchInv' /\ Current' = Current
    BY <1>1, <1>2 DEF LaunchInv, startVars, launchVars, Alive, Current, Backends
<1>4. Current \in Strategy
    BY <1>2, CurrentFact DEF LaunchInv
<1> QED BY <1>1, <1>2, <1>3, <1>4

\* Replies without an answer of the helper: the pipes keep what they have, or lose
\* what the read had begun to take.
LEMMA NoAnswerInv ==
    ASSUME HelperInv, RejectRequest \/ WriteFails \/ ReadTorn \/ ReadEnd \/ TimeOut
    PROVE  HelperInv'
<1>0. /\ TypeOK /\ LaunchInv /\ QueueInv /\ HeldOnce /\ GivenOnce /\ StepInv
      /\ GoneIsRecorded /\ DeliveredOnce /\ OwnAnswerInStep
    BY DEF HelperInv
<1>1. /\ phase = "serving"
      /\ UNCHANGED <<startVars, launchVars, process>>
      /\ LaunchInv' /\ Current' = Current
    BY <1>0, LoopFrame DEF RequestLoop
<1>2. queue # <<>>
    BY <1>0 DEF RejectRequest, WriteFails, CanWrite, ReadTorn, ReadEnd, TimeOut, QueueInv
<1>3. Answers(NoRequest)
    BY FailAnswers DEF RejectRequest, WriteFails, ReadTorn, ReadEnd, TimeOut, Answer, Answers, Code,
                       pipeVars
<1>4. /\ stdin' = stdin
      /\ stdout' = stdout \/ \E n \in 0..Len(stdout) : stdout' = Suffix(stdout, n)
      /\ owed' = owed \/ (owed # <<>> /\ owed' = Tail(owed))
      /\ torn' \in BOOLEAN /\ inStep' \in BOOLEAN
    BY <1>0 DEF RejectRequest, WriteFails, ReadTorn, ReadEnd, TimeOut, pipeVars, TypeOK, Suffix
<1>5. owed' \in Seq(Request) /\ Range(owed') \subseteq Range(owed) /\ IsInjective(owed')
    <2>1. owed \in Seq(Request) /\ IsInjective(owed)
        BY <1>0 DEF TypeOK, HeldOnce
    <2>2. CASE owed' = owed
        BY <2>1, <2>2
    <2>3. CASE owed # <<>> /\ owed' = Tail(owed)
        <3>1. Tail(owed) \in Seq(Request) /\ Range(Tail(owed)) \subseteq Range(owed) /\ IsInjective(Tail(owed))
            BY <2>1, <2>3, TailRange
        <3> QED BY <2>3, <3>1
    <2> QED BY <1>4, <2>2, <2>3
<1>6. stdout' \in Seq(Frame) /\ Of(stdout') \subseteq Of(stdout) /\ OneEach(stdout')
    BY <1>0, <1>4, SuffixFrame DEF TypeOK, HeldOnce
<1>7. Held' \subseteq Held
    BY <1>4, <1>5, <1>6 DEF Held
<1>8. /\ queue' \in Seq(Request) /\ serving' = "idle"
      /\ reply' \in [Request -> [code : Code \cup {"none"}, of : Request \cup {NoRequest}]]
      /\ disk' \in [launch : {"none", "ok", "failed", "disabled"}, session : BOOLEAN]
      /\ \A r \in Held' : reply'[r] # NoReply
      /\ QueueInv' /\ GivenOnce' /\ DeliveredOnce' /\ GoneIsRecorded'
    BY <1>0, <1>1, <1>2, <1>3, <1>7, AnswerInv DEF startVars
<1>9. TypeOK'
    BY <1>0, <1>1, <1>4, <1>5, <1>6, <1>8 DEF TypeOK, startVars, launchVars
<1>10. HeldOnce'
    BY <1>0, <1>4, <1>5, <1>6, <1>8 DEF HeldOnce, NoReply
<1>11. inStep' => inStep /\ UNCHANGED pipeVars
    BY <1>0 DEF RejectRequest, WriteFails, ReadTorn, ReadEnd, TimeOut, pipeVars, StepInv
<1>12. StepInv' /\ OwnAnswerInStep'
    <2> SUFFICES ASSUME inStep' PROVE StepInv' /\ OwnAnswerInStep'
        BY DEF StepInv, OwnAnswerInStep
    <2>1. inStep /\ UNCHANGED pipeVars /\ Held' = Held
        BY <1>11 DEF pipeVars, Held
    <2>2. ~torn /\ OwnAnswer
        BY <1>0, <2>1 DEF StepInv, OwnAnswerInStep
    <2>3. stdout = <<>> /\ (Held = {} \/ process[Current] # "running")
        BY <1>0, <2>1, <2>2 DEF StepInv, RejectRequest, WriteFails, CanWrite, ReadTorn, ReadEnd, TimeOut
    <2>4. StepInv'
        BY <1>1, <1>8, <2>1, <2>2, <2>3 DEF StepInv, pipeVars
    <2>5. OwnAnswer'
        BY <1>0, <1>3, <2>2 DEF OwnAnswer, Answers, Send, TypeOK
    <2> QED BY <2>4, <2>5 DEF OwnAnswerInStep
<1> QED BY <1>1, <1>8, <1>9, <1>10, <1>12 DEF HelperInv

\* A frame that is read is the answer to the request it is for, and is gone.
LEMMA ReadFrameInv ==
    ASSUME HelperInv, ReadFrame
    PROVE  HelperInv'
<1>0. /\ TypeOK /\ LaunchInv /\ QueueInv /\ HeldOnce /\ GivenOnce /\ StepInv
      /\ GoneIsRecorded /\ DeliveredOnce /\ OwnAnswerInStep
    BY DEF HelperInv
<1> DEFINE f == Head(stdout)
<1>1. /\ phase = "serving"
      /\ UNCHANGED <<startVars, launchVars, process>>
      /\ LaunchInv' /\ Current' = Current
    BY <1>0, LoopFrame DEF RequestLoop
<1>2. /\ stdin' = stdin /\ owed' = owed /\ stdout' = Tail(stdout) /\ stdout # <<>>
      /\ torn' \in BOOLEAN /\ inStep' \in BOOLEAN /\ serving = "reading"
      /\ inStep' => inStep /\ ~torn'
      /\ queue # <<>>
    BY <1>0 DEF ReadFrame, TypeOK, QueueInv
<1>3. /\ f \in Frame /\ stdout' \in Seq(Frame)
      /\ Of(stdout) = Of(stdout') \cup {f.of}
      /\ OneEach(stdout') /\ f.of \notin Of(stdout')
    BY <1>0, <1>2, TailFrame DEF TypeOK, HeldOnce
<1>4. Held' \subseteq Held /\ f.of \in Held /\ f.of \notin Held' /\ f.of \in Request
    BY <1>0, <1>2, <1>3 DEF Held, HeldOnce, Frame
<1>5. Answers(f.of) \/ Answers(NoRequest)
    <2>1. CASE f.type = "payload"
        <3>1. (Send("Success", f.of) /\ disk' = disk) \/ Fail("GenericError", NoRequest)
            BY <2>1 DEF ReadFrame
        <3> QED BY <3>1, FailAnswers DEF Answers, Code
    <2>2. CASE f.type # "payload"
        BY <2>2, FailAnswers DEF ReadFrame, Code
    <2> QED BY <2>1, <2>2
<1>6. PICK of \in {f.of, NoRequest} : Answers(of)
    BY <1>5
<1>7. /\ queue' \in Seq(Request) /\ serving' = "idle"
      /\ reply' \in [Request -> [code : Code \cup {"none"}, of : Request \cup {NoRequest}]]
      /\ disk' \in [launch : {"none", "ok", "failed", "disabled"}, session : BOOLEAN]
      /\ \A r \in Held' : reply'[r] # NoReply
      /\ QueueInv' /\ GivenOnce' /\ DeliveredOnce' /\ GoneIsRecorded'
    BY <1>0, <1>1, <1>2, <1>4, <1>6, AnswerInv DEF startVars
<1>8. TypeOK'
    BY <1>0, <1>1, <1>2, <1>3, <1>7 DEF TypeOK, startVars, launchVars
<1>9. HeldOnce'
    BY <1>0, <1>2, <1>3, <1>7 DEF HeldOnce, NoReply
<1>10. StepInv' /\ OwnAnswerInStep'
    <2> SUFFICES ASSUME inStep' PROVE StepInv' /\ OwnAnswerInStep'
        BY DEF StepInv, OwnAnswerInStep
    <2>1. Held \subseteq {Head(queue)} /\ OwnAnswer
        BY <1>0, <1>2 DEF StepInv, OwnAnswerInStep
    <2>2. Held' = {} /\ f.of = Head(queue)
        BY <1>4, <2>1
    <2>3. stdout' = <<>>
        <3>1. \A i \in DOMAIN stdout' : stdout'[i].of \in Held'
            BY DEF Held, Of, Range
        <3>2. DOMAIN stdout' = 1..Len(stdout') /\ Len(stdout') \in Nat
            BY <1>3
        <3>3. 1 \notin DOMAIN stdout'
            BY <2>2, <3>1
        <3>4. Len(stdout') = 0
            BY <3>2, <3>3
        <3> QED BY <1>3, <3>4
    <2>4. StepInv'
        BY <1>2, <1>7, <2>2, <2>3 DEF StepInv
    <2>5. OwnAnswer'
        BY <1>0, <1>6, <2>1, <2>2 DEF OwnAnswer, Answers, Send, TypeOK
    <2> QED BY <2>4, <2>5 DEF OwnAnswerInStep
<1> QED BY <1>1, <1>7, <1>8, <1>9, <1>10 DEF HelperInv

\* The request that is written is in none of the pipes.
LEMMA WriteFrameInv ==
    ASSUME HelperInv, WriteFrame
    PROVE  HelperInv'
<1>0. /\ TypeOK /\ LaunchInv /\ QueueInv /\ HeldOnce /\ GivenOnce /\ StepInv
      /\ GoneIsRecorded /\ DeliveredOnce /\ OwnAnswerInStep
    BY DEF HelperInv
<1> DEFINE h == Head(queue)
<1>1. /\ phase = "serving"
      /\ UNCHANGED <<startVars, launchVars, process, disk, queue, reply, owed, stdout, torn, inStep>>
      /\ LaunchInv' /\ Current' = Current
    BY <1>0, LoopFrame DEF RequestLoop, WriteFrame
<1>2. /\ serving = "idle" /\ serving' = "reading" /\ queue # <<>>
      /\ process[Current] = "running"
      /\ stdin' = Append(stdin, h)
    BY DEF WriteFrame, CanWrite
<1>3. h \in Request /\ h \in Range(queue)
    BY <1>0, <1>2, TailRange DEF TypeOK
<1>4. reply[h] = NoReply /\ h \notin Held
    BY <1>0, <1>2, <1>3 DEF QueueInv, HeldOnce
<1>5. /\ stdin' \in Seq(Request) /\ Range(stdin') = Range(stdin) \cup {h}
      /\ IsInjective(stdin')
    BY <1>0, <1>2, <1>3, <1>4, AppendRange, AppendDistinct DEF TypeOK, HeldOnce, Held
<1>6. Held' = Held \cup {h}
    BY <1>1, <1>5 DEF Held
<1>7. TypeOK'
    BY <1>0, <1>1, <1>2, <1>5 DEF TypeOK, startVars, launchVars
<1>8. QueueInv'
    BY <1>0, <1>1, <1>2 DEF QueueInv, NoReply
<1>9. HeldOnce'
    <2>1. \A r \in Held' : reply'[r] # NoReply' \/ (serving' = "reading" /\ r = Head(queue'))
        BY <1>0, <1>1, <1>2, <1>6 DEF HeldOnce, NoReply
    <2>2. /\ IsInjective(stdin') /\ IsInjective(owed') /\ OneEach(stdout')
          /\ Range(stdin') \cap Range(owed') = {}
          /\ (Range(stdin') \cup Range(owed')) \cap Of(stdout') = {}
        BY <1>0, <1>1, <1>4, <1>5 DEF HeldOnce, Held
    <2> QED BY <2>1, <2>2 DEF HeldOnce
<1>10. GivenOnce'
    BY <1>0, <1>1, <1>4, <1>6 DEF GivenOnce, NoReply
<1>11. StepInv'
    BY <1>0, <1>1, <1>2, <1>6 DEF StepInv
<1>12. GoneIsRecorded' /\ DeliveredOnce' /\ OwnAnswerInStep'
    BY <1>0, <1>1 DEF GoneIsRecorded, DeliveredOnce, OwnAnswerInStep, OwnAnswer, startVars
<1> QED BY <1>1, <1>7, <1>8, <1>9, <1>10, <1>11, <1>12 DEF HelperInv

-----------------------------------------------------------------------------
(* The clients and the helper.                                              *)

\* A datagram that comes in has no reply yet.
LEMMA ReceiveInv ==
    ASSUME HelperInv, NEW r \in Request, Receive(r)
    PROVE  HelperInv'
<1>0. /\ TypeOK /\ LaunchInv /\ QueueInv /\ HeldOnce /\ GivenOnce /\ StepInv
      /\ GoneIsRecorded /\ DeliveredOnce /\ OwnAnswerInStep
    BY DEF HelperInv
<1>1. /\ queue' = Append(queue, r) /\ reply[r] = NoReply
      /\ UNCHANGED <<startVars, launchVars, process, disk, serving, reply, pipeVars>>
    BY DEF Receive
<1>2. r \notin Range(queue)
    BY <1>0 DEF Receive, Range, TypeOK
<1>3. /\ queue' \in Seq(Request) /\ Range(queue') = Range(queue) \cup {r}
      /\ IsInjective(queue')
    BY <1>0, <1>1, <1>2, AppendRange, AppendDistinct DEF TypeOK, QueueInv
<1>4. queue' # <<>> /\ (queue # <<>> => Head(queue') = Head(queue))
    <2>1. Len(queue') = Len(queue) + 1 /\ Len(queue) \in Nat /\ Head(queue') = queue'[1]
        BY <1>0, <1>1 DEF TypeOK
    <2>2. queue # <<>> => Len(queue) >= 1 /\ Head(queue) = queue[1] /\ queue'[1] = queue[1]
        BY <1>0, <1>1 DEF TypeOK
    <2> QED BY <2>1, <2>2
<1>5. QueueInv'
    BY <1>0, <1>1, <1>3, <1>4 DEF QueueInv, NoReply
<1>6. Held' = Held /\ (serving = "reading" => Head(queue') = Head(queue))
    BY <1>0, <1>1, <1>4 DEF Held, pipeVars, QueueInv
<1>7. HeldOnce'
    BY <1>0, <1>1, <1>6 DEF HeldOnce, pipeVars, NoReply
<1>8. StepInv'
    BY <1>0, <1>1, <1>6 DEF StepInv, pipeVars, launchVars, startVars, Current, Backends
<1>9. TypeOK'
    BY <1>0, <1>1, <1>3 DEF TypeOK, startVars, launchVars, pipeVars
<1>10. LaunchInv'
    BY <1>0, <1>1 DEF LaunchInv, startVars, launchVars, Alive, Current, Backends, NoReply
<1>11. GivenOnce'
    BY <1>0, <1>1, <1>6 DEF GivenOnce, NoReply
<1>12. GoneIsRecorded' /\ DeliveredOnce' /\ OwnAnswerInStep'
    BY <1>0, <1>1 DEF GoneIsRecorded, DeliveredOnce, OwnAnswerInStep, OwnAnswer, startVars, pipeVars
<1> QED BY <1>5, <1>7, <1>8, <1>9, <1>10, <1>11, <1>12 DEF HelperInv

\* What the helper does moves a request along the pipes, or drops it.
LEMMA HelperMovesInv ==
    ASSUME HelperInv, HelperReads \/ HelperAnswers
    PROVE  HelperInv'
<1>0. /\ TypeOK /\ LaunchInv /\ QueueInv /\ HeldOnce /\ GivenOnce /\ StepInv
      /\ GoneIsRecorded /\ DeliveredOnce /\ OwnAnswerInStep
    BY DEF HelperInv
<1>1. /\ UNCHANGED <<startVars, launchVars, process, disk, loopVars, torn, inStep>>
      /\ phase = "serving" /\ process[Current] = "running"
    BY DEF HelperReads, HelperAnswers
<1> DEFINE Moved == /\ stdin' \in Seq(Request) /\ owed' \in Seq(Request) /\ stdout' \in Seq(Frame)
                    /\ Held' \subseteq Held
                    /\ IsInjective(stdin') /\ IsInjective(owed') /\ OneEach(stdout')
                    /\ Range(stdin') \cap Range(owed') = {}
                    /\ (Range(stdin') \cup Range(owed')) \cap Of(stdout') = {}
<1>2. ASSUME HelperReads
      PROVE  Moved /\ (inStep => serving # "idle")
    <2> DEFINE x == Head(stdin)
    <2>1. stdin # <<>> /\ stdin' = Tail(stdin) /\ owed' = Append(owed, x) /\ stdout' = stdout
        BY <1>2 DEF HelperReads
    <2>2. /\ x \in Request /\ stdin' \in Seq(Request) /\ IsInjective(stdin')
          /\ Range(stdin) = Range(stdin') \cup {x} /\ x \notin Range(stdin')
        BY <1>0, <2>1, TailRange DEF TypeOK, HeldOnce
    <2>3. /\ owed' \in Seq(Request) /\ Range(owed') = Range(owed) \cup {x} /\ IsInjective(owed')
        BY <1>0, <2>1, <2>2, AppendRange, AppendDistinct DEF TypeOK, HeldOnce
    <2>4. Moved
        BY <1>0, <2>1, <2>2, <2>3 DEF TypeOK, HeldOnce, Held
    <2>5. inStep => serving # "idle"
        BY <1>0, <1>1, <2>2 DEF StepInv, Held
    <2> QED BY <2>4, <2>5
<1>3. ASSUME HelperAnswers
      PROVE  Moved /\ (inStep => serving # "idle")
    <2> DEFINE x == Head(owed)
    <2>1. owed # <<>> /\ owed' = Tail(owed) /\ stdin' = stdin
        BY <1>3 DEF HelperAnswers
    <2>2. /\ x \in Request /\ owed' \in Seq(Request) /\ IsInjective(owed')
          /\ Range(owed) = Range(owed') \cup {x} /\ x \notin Range(owed')
        BY <1>0, <2>1, TailRange DEF TypeOK, HeldOnce
    <2>3. /\ stdout' \in Seq(Frame) /\ OneEach(stdout')
          /\ Of(stdout) \subseteq Of(stdout') /\ Of(stdout') \subseteq Of(stdout) \cup {x}
        <3>1. CASE stdout' = stdout
            BY <1>0, <3>1 DEF TypeOK, HeldOnce
        <3>2. ASSUME NEW type \in {"payload", "failed", "stopped", "garbage", "toolong"},
                     stdout' = Append(stdout, [type |-> type, of |-> x])
              PROVE  /\ stdout' \in Seq(Frame) /\ OneEach(stdout')
                     /\ Of(stdout) \subseteq Of(stdout') /\ Of(stdout') \subseteq Of(stdout) \cup {x}
            <4> DEFINE f == [type |-> type, of |-> x]
            <4>1. f \in Frame /\ f.of = x /\ x \notin Of(stdout)
                BY <1>0, <2>2 DEF Frame, HeldOnce
            <4> HIDE DEF f
            <4>2. stdout' = Append(stdout, f)
                BY <3>2 DEF f
            <4> QED BY <1>0, <4>1, <4>2, AppendFrame DEF TypeOK, HeldOnce
        <3> QED BY <1>3, <3>1, <3>2 DEF HelperAnswers
    <2>4. Moved
        BY <1>0, <2>1, <2>2, <2>3 DEF TypeOK, HeldOnce, Held
    <2>5. inStep => serving # "idle"
        BY <1>0, <1>1, <2>2 DEF StepInv, Held
    <2> QED BY <2>4, <2>5
<1>4. Moved /\ (inStep => serving # "idle")
    BY <1>2, <1>3
<1> HIDE DEF Moved
<1>5. TypeOK'
    BY <1>0, <1>1, <1>4 DEF TypeOK, Moved, startVars, launchVars, loopVars
<1>6. LaunchInv' /\ QueueInv'
    BY <1>0, <1>1 DEF LaunchInv, QueueInv, startVars, launchVars, loopVars, Alive, Current, Backends, NoReply
<1>7. HeldOnce' /\ GivenOnce'
    BY <1>0, <1>1, <1>4 DEF HeldOnce, GivenOnce, Moved, loopVars, NoReply
<1>8. StepInv'
    BY <1>0, <1>1, <1>4 DEF StepInv, Moved, loopVars
<1>9. GoneIsRecorded' /\ DeliveredOnce' /\ OwnAnswerInStep'
    BY <1>0, <1>1 DEF GoneIsRecorded, DeliveredOnce, OwnAnswerInStep, OwnAnswer, startVars, loopVars
<1> QED BY <1>5, <1>6, <1>7, <1>8, <1>9 DEF HelperInv

\* A helper that ends, or closes its pipes, leaves them as they are.
LEMMA HelperEndsInv ==
    ASSUME HelperInv, NEW s \in Strategy, HelperEnds(s)
    PROVE  HelperInv'
<1>0. /\ TypeOK /\ LaunchInv /\ QueueInv /\ HeldOnce /\ GivenOnce /\ StepInv
      /\ GoneIsRecorded /\ DeliveredOnce /\ OwnAnswerInStep
    BY DEF HelperInv
<1>1. UNCHANGED <<startVars, launchVars, disk, loopVars, pipeVars>>
    BY DEF HelperEnds
<1>2. /\ process' \in [Strategy -> {"none", "running", "closed", "exited"}]
      /\ \A t \in Strategy : Alive(t)' => Alive(t)
      /\ \A t \in Strategy : process'[t] = "running" => process[t] = "running"
    BY <1>0 DEF HelperEnds, TypeOK, Alive
<1>3. TypeOK'
    BY <1>0, <1>1, <1>2 DEF TypeOK, startVars, launchVars, loopVars, pipeVars
<1>4. LaunchInv' /\ QueueInv'
    BY <1>0, <1>1, <1>2 DEF LaunchInv, QueueInv, startVars, launchVars, loopVars, Current, Backends, NoReply
<1>5. HeldOnce' /\ GivenOnce'
    BY <1>0, <1>1 DEF HeldOnce, GivenOnce, Held, loopVars, pipeVars, NoReply
<1>6. StepInv'
    <2>1. CASE phase = "serving"
        <3>1. Current \in Strategy /\ Current' = Current /\ Held' = Held
            BY <1>0, <1>1, <2>1, CurrentFact
            DEF LaunchInv, startVars, launchVars, pipeVars, Current, Backends, Held
        <3> QED BY <1>0, <1>1, <1>2, <3>1 DEF StepInv, loopVars, pipeVars
    <2>2. CASE phase # "serving"
        <3>1. Held' = {} /\ serving' = "idle"
            BY <1>0, <1>1, <2>2, HeldFact DEF LaunchInv, Held, loopVars, pipeVars
        <3> QED BY <1>0, <1>1, <3>1 DEF StepInv, loopVars, pipeVars
    <2> QED BY <2>1, <2>2
<1>7. GoneIsRecorded' /\ DeliveredOnce' /\ OwnAnswerInStep'
    BY <1>0, <1>1 DEF GoneIsRecorded, DeliveredOnce, OwnAnswerInStep, OwnAnswer, startVars, loopVars, pipeVars
<1> QED BY <1>3, <1>4, <1>5, <1>6, <1>7 DEF HelperInv

\* During the start the pipes are empty and nobody has been answered.
LEMMA StartUpKeeps ==
    ASSUME HelperInv, StartUp
    PROVE  HelperInv'
<1>0. /\ TypeOK /\ LaunchInv /\ QueueInv /\ HeldOnce /\ GivenOnce /\ StepInv
      /\ GoneIsRecorded /\ DeliveredOnce /\ OwnAnswerInStep
    BY DEF HelperInv
<1>1. UNCHANGED <<startVars, loopVars, pipeVars>> /\ phase # "serving"
    BY DEF StartUp, Launch, ProbePasses, ProbeFails, NoBackendLeft, PersistLaunch, Settle, Bind,
           ClearSession
<1>2. TypeOK' /\ LaunchInv'
    BY <1>0, StartUpInv
<1>3. serving = "idle" /\ reply = [r \in Request |-> NoReply]
    BY <1>0, <1>1 DEF LaunchInv
<1>4. Held = {}
    BY <1>0, <1>1, HeldFact
<1>5. QueueInv' /\ HeldOnce' /\ GivenOnce'
    BY <1>0, <1>1 DEF QueueInv, HeldOnce, GivenOnce, Held, loopVars, pipeVars, NoReply
<1>6. StepInv'
    BY <1>0, <1>1, <1>3, <1>4 DEF StepInv, Held, loopVars, pipeVars
<1>7. \A r \in Request : reply'[r].code = "none" /\ reply'[r].of = NoRequest
    BY <1>1, <1>3 DEF loopVars, NoReply
<1>8. GoneIsRecorded' /\ DeliveredOnce' /\ OwnAnswerInStep'
    BY <1>7 DEF GoneIsRecorded, DeliveredOnce, OwnAnswerInStep, OwnAnswer
<1> QED BY <1>2, <1>5, <1>6, <1>8 DEF HelperInv

\* The invariant holds initially.
LEMMA HelperInit == Init => HelperInv
<1> SUFFICES ASSUME Init PROVE HelperInv
    OBVIOUS
<1>1. TypeOK
    <2>1. disk \in [launch : {"none", "ok", "failed", "disabled"}, session : BOOLEAN]
        BY DEF Init
    <2>2. reply \in [Request -> [code : Code \cup {"none"}, of : Request \cup {NoRequest}]]
        BY DEF Init, NoReply
    <2>3. queue \in Seq(Request) /\ stdin \in Seq(Request) /\ owed \in Seq(Request) /\ stdout \in Seq(Frame)
        BY DEF Init
    <2>4. process \in [Strategy -> {"none", "running", "closed", "exited"}] /\ backend \in 1..3
        BY DEF Init
    <2> QED BY <2>1, <2>2, <2>3, <2>4 DEF Init, TypeOK, Phase
<1>2. LaunchInv
    BY DEF Init, LaunchInv, Alive
<1>3. Range(queue) = {} /\ Held = {}
    BY DEF Init, Range, Of, Held
<1>4. QueueInv /\ HeldOnce /\ StepInv
    BY <1>3 DEF Init, QueueInv, HeldOnce, StepInv, IsInjective, OneEach, Held
<1>5. \A r \in Request : reply[r].code = "none" /\ reply[r].of = NoRequest
    BY DEF Init, NoReply
<1>6. GivenOnce /\ GoneIsRecorded /\ DeliveredOnce /\ OwnAnswerInStep
    BY <1>5 DEF GivenOnce, GoneIsRecorded, DeliveredOnce, OwnAnswerInStep, OwnAnswer
<1> QED BY <1>1, <1>2, <1>4, <1>6 DEF HelperInv

-----------------------------------------------------------------------------
(* The theorems.                                                            *)

\* HelperInv holds for any number of requests and any pipe: at most one helper runs,
\* and every request is in one place.
THEOREM HelperInvariant == Spec => []HelperInv
<1>1. HelperInv /\ [Next]_vars => HelperInv'
    <2> SUFFICES ASSUME HelperInv, [Next]_vars PROVE HelperInv'
        OBVIOUS
    <2>1. CASE UNCHANGED vars
        <3>1. /\ UNCHANGED <<mode, dryRun, hadSession, keychain, badDisk, phase, backend, process, disk, queue,
                           serving, reply, stdin, owed, stdout, torn, inStep>>
              /\ Held' = Held /\ Current' = Current /\ Len(Backends)' = Len(Backends)
            BY <2>1 DEF vars, startVars, launchVars, loopVars, pipeVars, Held, Current, Backends
        <3>2. TypeOK' /\ LaunchInv'
            BY <3>1 DEF HelperInv, TypeOK, LaunchInv, Alive, NoReply
        <3>3. QueueInv' /\ HeldOnce' /\ GivenOnce' /\ StepInv'
            BY <3>1 DEF HelperInv, QueueInv, HeldOnce, GivenOnce, StepInv, NoReply
        <3>4. GoneIsRecorded' /\ DeliveredOnce' /\ OwnAnswerInStep'
            BY <3>1 DEF HelperInv, GoneIsRecorded, DeliveredOnce, OwnAnswerInStep, OwnAnswer
        <3> QED BY <3>2, <3>3, <3>4 DEF HelperInv
    <2>2. CASE RequestLoop
        BY <2>2, NoAnswerInv, WriteFrameInv, ReadFrameInv DEF RequestLoop
    <2> QED BY <2>1, <2>2, StartUpKeeps, ReceiveInv, HelperMovesInv, HelperEndsInv DEF Next
<1> QED BY <1>1, HelperInit, PTL DEF Spec

\* A start that failed leaves no helper behind, unless checking for it failed, and does
\* not clear the session of a config.json that holds its key.
THEOREM HelperFailedStart == Spec => []FailedStartUndone
<1>1. HelperInv => FailedStartUndone
    BY DEF HelperInv, LaunchInv, FailedStartUndone
<1> QED BY <1>1, HelperInvariant, PTL

\* Whoever was told that the helper is gone, config.json says so too.
THEOREM HelperGoneIsRecorded == Spec => []GoneIsRecorded
<1>1. HelperInv => GoneIsRecorded
    BY DEF HelperInv
<1> QED BY <1>1, HelperInvariant, PTL

\* No answer of the helper is handed out twice.
THEOREM HelperDeliveredOnce == Spec => []DeliveredOnce
<1>1. HelperInv => DeliveredOnce
    BY DEF HelperInv
<1> QED BY <1>1, HelperInvariant, PTL

\* Up to the first timeout or bad frame size, answers go where they belong.
THEOREM HelperOwnAnswer == Spec => []OwnAnswerInStep
<1>1. HelperInv => OwnAnswerInStep
    BY DEF HelperInv
<1> QED BY <1>1, HelperInvariant, PTL

-----------------------------------------------------------------------------
(* The refinement of PipeService.                                           *)

\* What is appended to the second of two sequences is appended to both.
LEMMA AppendMiddle ==
    ASSUME NEW S, NEW a \in Seq(S), NEW b \in Seq(S), NEW x \in S
    PROVE  a \o Append(b, x) = Append(a \o b, x)
<1>1. Append(b, x) = b \o <<x>> /\ Append(a \o b, x) = (a \o b) \o <<x>>
    BY AppendIsConcat, ConcatProperties
<1>2. <<x>> \in Seq(S)
    OBVIOUS
<1> QED BY <1>1, <1>2, ConcatAssociative

\* An element may go from the front of a sequence to the end of the one before it.
LEMMA PassOn ==
    ASSUME NEW S, NEW b \in Seq(S), NEW c \in Seq(S), c # <<>>
    PROVE  Append(b, Head(c)) \o Tail(c) = b \o c
<1>1. /\ Head(c) \in S /\ Head(c) = c[1] /\ Tail(c) \in Seq(S) /\ Len(Tail(c)) = Len(c) - 1
      /\ Len(c) \in Nat \ {0} /\ Len(b) \in Nat
      /\ \A i \in 1..(Len(c) - 1) : Tail(c)[i] = c[i + 1]
    BY HeadTailProperties, EmptySeq, LenProperties
<1>2. /\ Append(b, Head(c)) \in Seq(S) /\ Len(Append(b, Head(c))) = Len(b) + 1
      /\ \A i \in 1..Len(b) : Append(b, Head(c))[i] = b[i]
      /\ Append(b, Head(c))[Len(b) + 1] = Head(c)
    BY <1>1, AppendProperties
<1> DEFINE s == Append(b, Head(c)) \o Tail(c)
           t == b \o c
<1>3. /\ s \in Seq(S) /\ Len(s) = Len(b) + Len(c)
      /\ \A i \in 1..Len(b) + Len(c) :
            s[i] = IF i <= Len(b) + 1 THEN Append(b, Head(c))[i] ELSE Tail(c)[i - (Len(b) + 1)]
    BY <1>1, <1>2, ConcatProperties
<1>4. /\ t \in Seq(S) /\ Len(t) = Len(b) + Len(c)
      /\ \A i \in 1..Len(b) + Len(c) : t[i] = IF i <= Len(b) THEN b[i] ELSE c[i - Len(b)]
    BY ConcatProperties
<1>5. ASSUME NEW i \in 1..Len(s) PROVE s[i] = t[i]
    <2>1. CASE i <= Len(b)
        BY <1>1, <1>2, <1>3, <1>4, <2>1
    <2>2. CASE i = Len(b) + 1
        BY <1>1, <1>2, <1>3, <1>4, <2>2
    <2>3. CASE i > Len(b) + 1
        <3>1. i - (Len(b) + 1) \in 1..(Len(c) - 1) /\ (i - (Len(b) + 1)) + 1 = i - Len(b)
            BY <1>1, <1>3, <2>3
        <3> QED BY <1>1, <1>3, <1>4, <2>3, <3>1
    <2> QED BY <1>1, <1>3, <2>1, <2>2, <2>3
<1>6. s = t
    <2> HIDE DEF s, t
    <2> QED BY <1>3, <1>4, <1>5, SeqEqual
<1> QED BY <1>6

\* The first of the first sequence is the first of all.
LEMMA HeadConcat ==
    ASSUME NEW S, NEW s \in Seq(S), NEW t \in Seq(S), s # <<>>
    PROVE  s \o t # <<>> /\ Head(s \o t) = Head(s) /\ Tail(s \o t) = Tail(s) \o t
<1>1. /\ Len(s) \in Nat \ {0} /\ Len(t) \in Nat /\ Head(s) = s[1]
      /\ Tail(s) \in Seq(S) /\ Len(Tail(s)) = Len(s) - 1
      /\ \A i \in 1..(Len(s) - 1) : Tail(s)[i] = s[i + 1]
    BY HeadTailProperties, EmptySeq, LenProperties
<1> DEFINE u == s \o t
           v == Tail(s) \o t
<1>2. /\ u \in Seq(S) /\ Len(u) = Len(s) + Len(t)
      /\ \A i \in 1..Len(s) + Len(t) : u[i] = IF i <= Len(s) THEN s[i] ELSE t[i - Len(s)]
    BY ConcatProperties
<1>3. /\ v \in Seq(S) /\ Len(v) = (Len(s) - 1) + Len(t)
      /\ \A i \in 1..(Len(s) - 1) + Len(t) :
            v[i] = IF i <= Len(s) - 1 THEN Tail(s)[i] ELSE t[i - (Len(s) - 1)]
    BY <1>1, ConcatProperties
<1> HIDE DEF u, v
<1>4. /\ u # <<>> /\ Head(u) = u[1] /\ Tail(u) \in Seq(S) /\ Len(Tail(u)) = Len(u) - 1
      /\ \A i \in 1..(Len(u) - 1) : Tail(u)[i] = u[i + 1]
    <2>1. u # <<>>
        BY <1>1, <1>2, EmptySeq
    <2> QED BY <1>2, <2>1, HeadTailProperties
<1>5. Head(u) = Head(s)
    BY <1>1, <1>2, <1>4
<1>6. ASSUME NEW i \in 1..Len(v) PROVE v[i] = Tail(u)[i]
    <2>1. i + 1 \in 1..Len(s) + Len(t) /\ i \in 1..(Len(u) - 1) /\ (i + 1) - Len(s) = i - (Len(s) - 1)
        BY <1>1, <1>2, <1>3
    <2>2. Tail(u)[i] = u[i + 1]
        BY <1>4, <2>1
    <2>3. CASE i <= Len(s) - 1
        BY <1>1, <1>2, <1>3, <2>1, <2>2, <2>3
    <2>4. CASE ~(i <= Len(s) - 1)
        BY <1>1, <1>2, <1>3, <2>1, <2>2, <2>4
    <2> QED BY <2>3, <2>4
<1>7. v = Tail(u)
    BY <1>1, <1>2, <1>3, <1>4, <1>6, SeqEqual
<1> QED BY <1>4, <1>5, <1>7 DEF u, v

\* Taking the first of the middle sequence away takes one away from the whole.
LEMMA DropMiddle ==
    ASSUME NEW S, NEW a \in Seq(S), NEW b \in Seq(S), b # <<>>
    PROVE  /\ Len(a) + 1 \in 1..Len(a \o b)
           /\ SubSeq(a \o b, 1, Len(a)) = a
           /\ SubSeq(a \o b, Len(a) + 2, Len(a \o b)) = Tail(b)
<1> DEFINE u == a \o b
           w == SubSeq(u, Len(a) + 2, Len(u))
<1>1. /\ Len(b) \in Nat \ {0} /\ Len(a) \in Nat
      /\ Tail(b) \in Seq(S) /\ Len(Tail(b)) = Len(b) - 1
      /\ \A i \in 1..(Len(b) - 1) : Tail(b)[i] = b[i + 1]
    BY HeadTailProperties, EmptySeq, LenProperties
<1>2. /\ u \in Seq(S) /\ Len(u) = Len(a) + Len(b)
      /\ \A i \in 1..Len(a) + Len(b) : u[i] = IF i <= Len(a) THEN a[i] ELSE b[i - Len(a)]
    BY ConcatProperties
<1>3. \A i \in 1..Len(u) : u[i] \in S
    BY <1>2, ElementOfSeq
<1> HIDE DEF u
<1>4. SubSeq(u, 1, Len(a)) = a
    <2>1. /\ SubSeq(u, 1, Len(a)) \in Seq(S) /\ Len(SubSeq(u, 1, Len(a))) = Len(a)
          /\ \A i \in 1..Len(a) : SubSeq(u, 1, Len(a))[i] = u[i]
        <3>1. \A i \in 1..Len(a) : u[i] \in S /\ u[i] = a[i]
            BY <1>1, <1>2, <1>3
        <3>2. /\ SubSeq(u, 1, Len(a)) \in Seq(S)
              /\ Len(SubSeq(u, 1, Len(a))) = IF 1 <= Len(a) THEN Len(a) - 1 + 1 ELSE 0
              /\ \A i \in 1..(Len(a) - 1 + 1) : SubSeq(u, 1, Len(a))[i] = u[1 + i - 1]
            BY <1>1, <3>1, SubSeqProperties
        <3> QED BY <1>1, <3>2
    <2> QED BY <1>1, <1>2, <2>1, SeqEqual
<1>5. /\ w \in Seq(S) /\ Len(w) = Len(b) - 1
      /\ \A i \in 1..(Len(b) - 1) : w[i] = b[i + 1]
    <2>1. \A i \in (Len(a) + 2)..Len(u) : u[i] \in S
        BY <1>1, <1>3
    <2>2. /\ w \in Seq(S)
          /\ Len(w) = IF Len(a) + 2 <= Len(u) THEN Len(u) - (Len(a) + 2) + 1 ELSE 0
          /\ \A i \in 1..(Len(u) - (Len(a) + 2) + 1) : w[i] = u[(Len(a) + 2) + i - 1]
        BY <1>1, <1>2, <2>1, SubSeqProperties
    <2>3. Len(w) = Len(b) - 1
        BY <1>1, <1>2, <2>2
    <2>4. ASSUME NEW i \in 1..(Len(b) - 1) PROVE w[i] = b[i + 1]
        <3>1. i \in 1..(Len(u) - (Len(a) + 2) + 1) /\ (Len(a) + 2) + i - 1 = Len(a) + (i + 1)
            BY <1>1, <1>2
        <3>2. w[i] = u[Len(a) + (i + 1)]
            BY <2>2, <3>1
        <3>3. /\ Len(a) + (i + 1) \in 1..Len(a) + Len(b) /\ ~(Len(a) + (i + 1) <= Len(a))
              /\ (Len(a) + (i + 1)) - Len(a) = i + 1
            BY <1>1
        <3> QED BY <1>2, <3>2, <3>3
    <2> QED BY <2>2, <2>3, <2>4
<1> HIDE DEF w
<1>6. w = Tail(b)
    BY <1>1, <1>5, SeqEqual
<1> QED BY <1>1, <1>2, <1>4, <1>6 DEF u, w

\* A sequence of which nothing is dropped is as it was.
LEMMA SuffixNone ==
    ASSUME NEW S, NEW seq \in Seq(S)
    PROVE  Suffix(seq, 0) = seq
<1>1. /\ 0 \in 0..Len(seq) /\ Len(seq) - 0 = Len(seq)
      /\ \A i \in 1..Len(seq) : 0 + i = i
    BY LenProperties
<1>2. /\ Suffix(seq, 0) \in Seq(S) /\ Len(Suffix(seq, 0)) = Len(seq) - 0
      /\ \A i \in 1..(Len(seq) - 0) : Suffix(seq, 0)[i] = seq[0 + i]
    BY <1>1, SuffixFact
<1> QED BY <1>1, <1>2, SeqEqual

\* Without its first element, a sequence is its suffix from the second on.
LEMMA TailIsSuffix ==
    ASSUME NEW S, NEW seq \in Seq(S), seq # <<>>
    PROVE  1 \in 1..Len(seq) /\ Tail(seq) = Suffix(seq, 1)
<1>1. /\ Len(seq) \in Nat \ {0} /\ Tail(seq) \in Seq(S) /\ Len(Tail(seq)) = Len(seq) - 1
      /\ \A i \in 1..(Len(seq) - 1) : Tail(seq)[i] = seq[i + 1]
    BY HeadTailProperties, EmptySeq, LenProperties
<1>2. /\ 1 \in 0..Len(seq) /\ 1 \in 1..Len(seq)
      /\ \A i \in 1..(Len(seq) - 1) : 1 + i = i + 1
    BY <1>1
<1>3. /\ Suffix(seq, 1) \in Seq(S) /\ Len(Suffix(seq, 1)) = Len(seq) - 1
      /\ \A i \in 1..(Len(seq) - 1) : Suffix(seq, 1)[i] = seq[1 + i]
    BY <1>2, SuffixFact
<1> QED BY <1>1, <1>2, <1>3, SeqEqual

\* Dropping within the first of two sequences.
LEMMA SuffixConcat ==
    ASSUME NEW S, NEW s \in Seq(S), NEW t \in Seq(S), NEW n \in 0..Len(s)
    PROVE  n \in 0..Len(s \o t) /\ Suffix(s, n) \o t = Suffix(s \o t, n)
<1> DEFINE u == s \o t
           v == Suffix(s, n) \o t
<1>1. Len(s) \in Nat /\ Len(t) \in Nat /\ n \in Nat
    BY LenProperties
<1>2. /\ Suffix(s, n) \in Seq(S) /\ Len(Suffix(s, n)) = Len(s) - n
      /\ \A i \in 1..(Len(s) - n) : Suffix(s, n)[i] = s[n + i]
    BY SuffixFact
<1>3. /\ u \in Seq(S) /\ Len(u) = Len(s) + Len(t)
      /\ \A i \in 1..Len(s) + Len(t) : u[i] = IF i <= Len(s) THEN s[i] ELSE t[i - Len(s)]
    BY ConcatProperties
<1>4. /\ v \in Seq(S) /\ Len(v) = (Len(s) - n) + Len(t)
      /\ \A i \in 1..(Len(s) - n) + Len(t) :
            v[i] = IF i <= Len(s) - n THEN Suffix(s, n)[i] ELSE t[i - (Len(s) - n)]
    <2>1. ASSUME NEW w \in Seq(S), Len(w) = Len(s) - n
          PROVE  /\ w \o t \in Seq(S) /\ Len(w \o t) = (Len(s) - n) + Len(t)
                 /\ \A i \in 1..(Len(s) - n) + Len(t) :
                       (w \o t)[i] = IF i <= Len(s) - n THEN w[i] ELSE t[i - (Len(s) - n)]
        <3>1. /\ w \o t \in Seq(S) /\ Len(w \o t) = Len(w) + Len(t)
              /\ \A i \in 1..Len(w) + Len(t) :
                    (w \o t)[i] = IF i <= Len(w) THEN w[i] ELSE t[i - Len(w)]
            BY ConcatProperties
        <3> QED BY <2>1, <3>1
    <2> QED BY <1>2, <2>1
<1> HIDE DEF u, v
<1>5. n \in 0..Len(u)
    BY <1>1, <1>3
<1>6. /\ Suffix(u, n) \in Seq(S) /\ Len(Suffix(u, n)) = Len(u) - n
      /\ \A i \in 1..(Len(u) - n) : Suffix(u, n)[i] = u[n + i]
    BY <1>3, <1>5, SuffixFact
<1>7. Len(v) = Len(u) - n
    BY <1>1, <1>3, <1>4
<1>8. ASSUME NEW i \in 1..Len(v) PROVE v[i] = Suffix(u, n)[i]
    <2>1. /\ i \in 1..(Len(s) - n) + Len(t) /\ i \in 1..(Len(u) - n)
          /\ n + i \in 1..Len(s) + Len(t) /\ (n + i) - Len(s) = i - (Len(s) - n)
        BY <1>1, <1>3, <1>4
    <2>2. Suffix(u, n)[i] = u[n + i]
        BY <1>6, <2>1
    <2>3. CASE i <= Len(s) - n
        <3>1. i \in 1..(Len(s) - n) /\ n + i <= Len(s)
            BY <1>1, <2>1, <2>3
        <3> QED BY <1>2, <1>3, <1>4, <2>1, <2>2, <2>3, <3>1
    <2>4. CASE ~(i <= Len(s) - n)
        <3>1. ~(n + i <= Len(s))
            BY <1>1, <2>1, <2>4
        <3> QED BY <1>3, <1>4, <2>1, <2>2, <2>4, <3>1
    <2> QED BY <2>3, <2>4
<1>9. v = Suffix(u, n)
    BY <1>4, <1>6, <1>7, <1>8, SeqEqual
<1> QED BY <1>5, <1>9 DEF u, v

\* The questions behind the frames of a pipe are as many, in the same order.
LEMMA OriginsFact ==
    ASSUME NEW frames \in Seq(Frame)
    PROVE  Origins(frames) \in Seq(Request) /\ Len(Origins(frames)) = Len(frames)
           /\ DOMAIN Origins(frames) = 1..Len(frames)
           /\ \A i \in 1..Len(frames) : Origins(frames)[i] = frames[i].of
<1>1. DOMAIN frames = 1..Len(frames) /\ Len(frames) \in Nat
    BY LenProperties
<1>2. ASSUME NEW i \in 1..Len(frames) PROVE frames[i].of \in Request
    <2>1. frames[i] \in Frame
        BY ElementOfSeq
    <2> QED BY <2>1 DEF Frame
<1>3. Origins(frames) \in [1..Len(frames) -> Request]
    BY <1>1, <1>2 DEF Origins
<1>4. Origins(frames) \in Seq(Request)
    BY <1>1, <1>3, SeqDef
<1>5. Len(Origins(frames)) = Len(frames)
    BY <1>1, <1>3, <1>4, LenProperties
<1> QED BY <1>1, <1>3, <1>4, <1>5 DEF Origins

\* A new frame is a new question at the end.
LEMMA OriginsAppend ==
    ASSUME NEW frames \in Seq(Frame), NEW f \in Frame
    PROVE  Origins(Append(frames, f)) = Append(Origins(frames), f.of)
<1>1. Append(frames, f) \in Seq(Frame) /\ f.of \in Request
    BY AppendProperties DEF Frame
<1>2. /\ Len(Append(frames, f)) = Len(frames) + 1 /\ Len(frames) \in Nat
      /\ \A i \in 1..Len(frames) : Append(frames, f)[i] = frames[i]
      /\ Append(frames, f)[Len(frames) + 1] = f
    BY AppendProperties, LenProperties
<1>3. /\ Origins(frames) \in Seq(Request) /\ Len(Origins(frames)) = Len(frames)
      /\ \A i \in 1..Len(frames) : Origins(frames)[i] = frames[i].of
    BY OriginsFact
<1>4. /\ Append(Origins(frames), f.of) \in Seq(Request)
      /\ Len(Append(Origins(frames), f.of)) = Len(frames) + 1
      /\ \A i \in 1..Len(frames) : Append(Origins(frames), f.of)[i] = Origins(frames)[i]
      /\ Append(Origins(frames), f.of)[Len(frames) + 1] = f.of
    BY <1>1, <1>3, AppendProperties
<1>5. /\ Origins(Append(frames, f)) \in Seq(Request)
      /\ Len(Origins(Append(frames, f))) = Len(frames) + 1
      /\ \A i \in 1..Len(frames) + 1 : Origins(Append(frames, f))[i] = Append(frames, f)[i].of
    BY <1>1, <1>2, OriginsFact
<1>6. \A i \in 1..Len(frames) + 1 :
         Origins(Append(frames, f))[i] = Append(Origins(frames), f.of)[i]
    BY <1>2, <1>3, <1>4, <1>5
<1> QED BY <1>4, <1>5, <1>6, SeqEqual

\* Taking a frame takes its question.
LEMMA OriginsTail ==
    ASSUME NEW frames \in Seq(Frame), frames # <<>>
    PROVE  /\ Origins(frames) # <<>>
           /\ Head(Origins(frames)) = Head(frames).of
           /\ Origins(Tail(frames)) = Tail(Origins(frames))
<1>1. /\ Tail(frames) \in Seq(Frame) /\ Len(Tail(frames)) = Len(frames) - 1
      /\ Len(frames) \in Nat \ {0} /\ Head(frames) = frames[1]
      /\ \A i \in 1..(Len(frames) - 1) : Tail(frames)[i] = frames[i + 1]
    BY HeadTailProperties, EmptySeq, LenProperties
<1>2. /\ Origins(frames) \in Seq(Request) /\ Len(Origins(frames)) = Len(frames)
      /\ \A i \in 1..Len(frames) : Origins(frames)[i] = frames[i].of
    BY OriginsFact
<1>3. Origins(frames) # <<>>
    BY <1>1, <1>2, EmptySeq
<1>4. /\ Head(Origins(frames)) = Origins(frames)[1]
      /\ Tail(Origins(frames)) \in Seq(Request)
      /\ Len(Tail(Origins(frames))) = Len(frames) - 1
      /\ \A i \in 1..(Len(frames) - 1) : Tail(Origins(frames))[i] = Origins(frames)[i + 1]
    BY <1>2, <1>3, HeadTailProperties
<1>5. /\ Origins(Tail(frames)) \in Seq(Request)
      /\ Len(Origins(Tail(frames))) = Len(frames) - 1
      /\ \A i \in 1..(Len(frames) - 1) : Origins(Tail(frames))[i] = Tail(frames)[i].of
    BY <1>1, OriginsFact
<1>6. ASSUME NEW i \in 1..(Len(frames) - 1)
      PROVE  Origins(Tail(frames))[i] = Tail(Origins(frames))[i]
    <2>1. i + 1 \in 1..Len(frames)
        BY <1>1
    <2> QED BY <1>1, <1>2, <1>4, <1>5, <2>1
<1>7. Origins(Tail(frames)) = Tail(Origins(frames))
    BY <1>4, <1>5, <1>6, SeqEqual
<1> QED BY <1>1, <1>2, <1>3, <1>4, <1>7

\* Dropping frames drops their questions.
LEMMA OriginsSuffix ==
    ASSUME NEW frames \in Seq(Frame), NEW n \in 0..Len(frames)
    PROVE  Origins(Suffix(frames, n)) = Suffix(Origins(frames), n)
<1>1. /\ Origins(frames) \in Seq(Request) /\ Len(Origins(frames)) = Len(frames)
      /\ \A i \in 1..Len(frames) : Origins(frames)[i] = frames[i].of
    BY OriginsFact
<1>2. /\ Suffix(frames, n) \in Seq(Frame) /\ Len(Suffix(frames, n)) = Len(frames) - n
      /\ \A i \in 1..(Len(frames) - n) : Suffix(frames, n)[i] = frames[n + i]
    BY SuffixFact
<1>3. /\ Suffix(Origins(frames), n) \in Seq(Request)
      /\ Len(Suffix(Origins(frames), n)) = Len(frames) - n
      /\ \A i \in 1..(Len(frames) - n) : Suffix(Origins(frames), n)[i] = Origins(frames)[n + i]
    BY <1>1, SuffixFact
<1>4. /\ Origins(Suffix(frames, n)) \in Seq(Request)
      /\ Len(Origins(Suffix(frames, n))) = Len(frames) - n
      /\ \A i \in 1..(Len(frames) - n) : Origins(Suffix(frames, n))[i] = Suffix(frames, n)[i].of
    BY <1>2, OriginsFact
<1>5. Len(frames) \in Nat /\ \A i \in 1..(Len(frames) - n) : n + i \in 1..Len(frames)
    BY LenProperties
<1>6. \A i \in 1..(Len(frames) - n) :
         Origins(Suffix(frames, n))[i] = Suffix(Origins(frames), n)[i]
    BY <1>1, <1>2, <1>3, <1>4, <1>5
<1> QED BY <1>3, <1>4, <1>6, SeqEqual

\* The three parts of the pipe are sequences of requests, and so are they together.
LEMMA AskedType ==
    ASSUME TypeOK
    PROVE  /\ Origins(stdout) \in Seq(Request) /\ owed \in Seq(Request) /\ stdin \in Seq(Request)
           /\ Origins(stdout) \o owed \in Seq(Request) /\ Asked \in Seq(Request)
<1>1. Origins(stdout) \in Seq(Request) /\ owed \in Seq(Request) /\ stdin \in Seq(Request)
    BY OriginsFact DEF TypeOK
<1> QED BY <1>1, ConcatProperties DEF Asked

\* WriteFrame puts the question at the end.
LEMMA AskedLast ==
    ASSUME TypeOK, NEW r \in Request, stdin' = Append(stdin, r), UNCHANGED <<owed, stdout>>
    PROVE  Asked' = Append(Asked, r)
BY AskedType, AppendMiddle DEF Asked

\* Taking a frame off stdout takes the oldest question.
LEMMA AskedFirst ==
    ASSUME TypeOK, stdout # <<>>, stdout' = Tail(stdout), UNCHANGED <<owed, stdin>>
    PROVE  Asked # <<>> /\ Head(Asked) = Head(stdout).of /\ Asked' = Tail(Asked)
<1> DEFINE o == Origins(stdout)
<1>1. o # <<>> /\ Head(o) = Head(stdout).of /\ Origins(stdout') = Tail(o)
    BY OriginsTail DEF TypeOK
<1>2. o \o owed # <<>> /\ Head(o \o owed) = Head(o) /\ Tail(o \o owed) = Tail(o) \o owed
    BY <1>1, AskedType, HeadConcat
<1>3. /\ Asked # <<>> /\ Head(Asked) = Head(o \o owed)
      /\ Tail(Asked) = Tail(o \o owed) \o stdin
    BY <1>2, AskedType, HeadConcat DEF Asked
<1> QED BY <1>1, <1>2, <1>3 DEF Asked

\* What a dropped read had taken of a frame was of the oldest question.
LEMMA AskedTorn ==
    ASSUME TypeOK, stdout = <<>>, owed # <<>>, owed' = Tail(owed), UNCHANGED <<stdout, stdin>>
    PROVE  Asked # <<>> /\ Asked' = Tail(Asked)
<1>1. Origins(stdout) = <<>>
    BY OriginsFact, EmptySeq DEF TypeOK
<1>2. Asked = owed \o stdin /\ Asked' = Tail(owed) \o stdin
    <2>1. Tail(owed) \in Seq(Request)
        BY AskedType, HeadTailProperties
    <2> QED BY <1>1, <2>1, AskedType, ConcatEmptySeq DEF Asked
<1> QED BY <1>2, AskedType, HeadConcat

\* Dropping frames off stdout drops the oldest questions.
LEMMA AskedRest ==
    ASSUME TypeOK, NEW n \in 0..Len(stdout), stdout' = Suffix(stdout, n), UNCHANGED <<owed, stdin>>
    PROVE  Asked' = Asked \/ \E k \in 1..Len(Asked) : Asked' = Suffix(Asked, k)
<1> DEFINE o == Origins(stdout)
<1>1. /\ o \in Seq(Request) /\ Len(o) = Len(stdout) /\ owed \in Seq(Request)
      /\ stdin \in Seq(Request) /\ owed \o stdin \in Seq(Request)
    BY OriginsFact, AskedType, ConcatProperties DEF TypeOK
<1>2. Origins(stdout') = Suffix(o, n) /\ Suffix(o, n) \in Seq(Request)
    BY <1>1, OriginsSuffix, SuffixFact DEF TypeOK
<1> HIDE DEF o
<1>3. Asked' = Suffix(o, n) \o (owed \o stdin)
    BY <1>1, <1>2, ConcatAssociative DEF Asked
<1>4. Asked = o \o (owed \o stdin)
    BY <1>1, ConcatAssociative DEF Asked, o
<1>5. /\ Asked' = Suffix(Asked, n) /\ n \in 0..Len(Asked)
      /\ Suffix(Asked, 0) = Asked
    <2>1. n \in 0..Len(o)
        BY <1>1
    <2>2. n \in 0..Len(Asked) /\ Suffix(o, n) \o (owed \o stdin) = Suffix(Asked, n)
        BY <1>1, <1>4, <2>1, SuffixConcat
    <2>3. Suffix(Asked, 0) = Asked
        BY AskedType, SuffixNone
    <2> QED BY <1>3, <2>2, <2>3
<1> QED BY <1>5, AskedType, LenProperties

\* The helper passes questions on from its stdin to its stdout.
LEMMA AskedPassed ==
    ASSUME TypeOK, HelperReads \/ HelperAnswers
    PROVE  Asked' = Asked \/ Pipe!Lose
<1> DEFINE o == Origins(stdout)
<1>1. CASE HelperReads
    <2>1. stdin # <<>> /\ stdin' = Tail(stdin) /\ owed' = Append(owed, Head(stdin))
          /\ stdout' = stdout /\ Head(stdin) \in Request
        BY <1>1, AskedType, HeadTailProperties DEF HelperReads
    <2>2. o \o owed' = Append(o \o owed, Head(stdin))
        BY <2>1, AskedType, AppendMiddle
    <2>3. Append(o \o owed, Head(stdin)) \o Tail(stdin) = (o \o owed) \o stdin
        BY <2>1, AskedType, PassOn
    <2> QED BY <2>1, <2>2, <2>3 DEF Asked
<1>2. ASSUME NEW type \in {"payload", "failed", "stopped", "garbage", "toolong"},
             owed # <<>>, owed' = Tail(owed), stdin' = stdin,
             stdout' = Append(stdout, [type |-> type, of |-> Head(owed)])
      PROVE  Asked' = Asked
    <2>1. Head(owed) \in Request
        BY <1>2, AskedType, HeadTailProperties
    <2>2. Origins(stdout') = Append(o, Head(owed))
        <3> DEFINE f == [type |-> type, of |-> Head(owed)]
        <3>1. f \in Frame /\ f.of = Head(owed)
            BY <2>1 DEF Frame
        <3> HIDE DEF f
        <3>2. Origins(Append(stdout, f)) = Append(o, f.of)
            BY <3>1, OriginsAppend DEF TypeOK
        <3> QED BY <1>2, <3>1, <3>2 DEF f
    <2>3. Append(o, Head(owed)) \o Tail(owed) = o \o owed
        BY <1>2, AskedType, PassOn
    <2> QED BY <1>2, <2>2, <2>3 DEF Asked
<1>3. ASSUME HelperAnswers, stdout' = stdout
      PROVE  Pipe!Lose
    <2>1. owed # <<>> /\ owed' = Tail(owed) /\ UNCHANGED <<stdin, loopVars>>
        BY <1>3 DEF HelperAnswers
    <2>2. owed \o stdin \in Seq(Request) /\ owed \o stdin # <<>>
          /\ Tail(owed \o stdin) = Tail(owed) \o stdin /\ Tail(owed) \in Seq(Request)
        BY <2>1, AskedType, HeadConcat, ConcatProperties, HeadTailProperties
    <2>3. Asked = o \o (owed \o stdin) /\ Asked' = o \o Tail(owed \o stdin)
        <3>1. Asked = (o \o owed) \o stdin /\ Asked' = (o \o Tail(owed)) \o stdin
            BY <1>3, <2>1 DEF Asked
        <3>2. \A x \in Seq(Request) : (o \o x) \o stdin = o \o (x \o stdin)
            BY AskedType, ConcatAssociative
        <3>3. owed \in Seq(Request) /\ Tail(owed) \in Seq(Request)
            BY <2>2, AskedType
        <3> QED BY <2>2, <3>1, <3>2, <3>3
    <2>4. /\ Len(o) + 1 \in 1..Len(Asked)
          /\ SubSeq(Asked, 1, Len(o)) = o
          /\ SubSeq(Asked, Len(o) + 2, Len(Asked)) = Tail(owed \o stdin)
        BY <2>2, <2>3, AskedType, DropMiddle
    <2>5. (Len(o) + 1) - 1 = Len(o) /\ (Len(o) + 1) + 1 = Len(o) + 2
        BY AskedType, LenProperties
    <2> HIDE DEF o
    <2>6. \E i \in 1..Len(Asked) :
             Asked' = SubSeq(Asked, 1, i - 1) \o SubSeq(Asked, i + 1, Len(Asked))
        BY <2>3, <2>4, <2>5
    <2> QED BY <2>1, <2>6 DEF Pipe!Lose, loopVars
<1> QED BY <1>1, <1>2, <1>3 DEF HelperAnswers

\* What the daemon sends is a reply of PipeService's; an error goes out as it is, with
\* no answer of the helper's, or is lost.
LEMMA SendRefines ==
    ASSUME queue # <<>>
    PROVE  /\ \A code \in Code, of \in Request \cup {NoRequest} :
                 Send(code, of) => Pipe!Answer(code, of)
           /\ \A code \in Code \ {"Success"} : Answer(code, NoRequest) =>
                 \E c \in Code \ {"Success"} : Pipe!Answer(c, NoRequest)
           /\ \A code \in Code \ {"Success"}, of \in Request \cup {NoRequest} : Fail(code, of) =>
                 \/ Pipe!Answer(code, of)
                 \/ \E c \in Code \ {"Success"} : Pipe!Answer(c, NoRequest)
<1>1. ASSUME NEW code, NEW of, Send(code, of)
      PROVE  Pipe!Answer(code, of)
    BY <1>1 DEF Send, Pipe!Answer
<1>2. "Lost" \in Code \ {"Success"} /\ "ProcessNotRunning" \in Code \ {"Success"}
    BY DEF Code
<1>3. ASSUME NEW code, NEW of, Answer(code, of)
      PROVE  Pipe!Answer(code, of) \/ Pipe!Answer("Lost", NoRequest)
    BY <1>1, <1>3 DEF Answer
<1>4. ASSUME NEW code \in Code \ {"Success"}, NEW of, Fail(code, of)
      PROVE  Answer(code, of) \/ Answer("ProcessNotRunning", NoRequest)
    BY <1>4 DEF Fail
<1> QED BY <1>1, <1>2, <1>3, <1>4

\* An error of the daemon's own leaves the pipe as it is, or takes the oldest answers.
LEMMA FailRefines ==
    ASSUME QueueInv, serving = "reading" \/ queue # <<>>, NEW code \in Code \ {"Success"},
           Fail(code, NoRequest),
           \/ Asked' = Asked
           \/ serving = "reading" /\ \E n \in 1..Len(Asked) : Asked' = Suffix(Asked, n)
    PROVE  Pipe!Fail
<1>1. queue # <<>> /\ NoRequest \in Request \cup {NoRequest}
    BY DEF QueueInv
<1>2. \E c \in Code \ {"Success"} : Pipe!Answer(c, NoRequest)
    BY <1>1, SendRefines
<1> QED BY <1>2 DEF Pipe!Fail, Suffix

\* Reading a frame is the delivery of the oldest answer, or an error in its place.
LEMMA ReadFrameRefines ==
    ASSUME TypeOK, QueueInv, ReadFrame
    PROVE  Pipe!Deliver \/ Pipe!Fail
<1> DEFINE f == Head(stdout)
<1>1. /\ serving = "reading" /\ stdout # <<>> /\ stdout' = Tail(stdout)
      /\ UNCHANGED <<stdin, owed>> /\ queue # <<>>
    BY DEF ReadFrame, QueueInv
<1>2. /\ Asked # <<>> /\ Head(Asked) = f.of /\ Asked' = Tail(Asked)
      /\ 1 \in 1..Len(Asked) /\ Tail(Asked) = Suffix(Asked, 1)
    BY <1>1, AskedFirst, AskedType, TailIsSuffix
<1>3. \/ f.type = "payload" /\ Send("Success", f.of)
      \/ f.type = "payload" /\ Fail("GenericError", NoRequest)
      \/ f.type = "failed"  /\ Fail("GenericError", f.of)
      \/ f.type = "stopped" /\ Fail("ProcessNotRunning", f.of)
      \/ f.type \in {"garbage", "toolong"} /\ Fail("ProtoInvalidResponse", NoRequest)
    BY DEF ReadFrame
<1>4. f.of \in Request
    BY <1>1, TailFrame DEF TypeOK, Frame
<1> HIDE DEF f
<1>5. ASSUME NEW code \in {"Success", "GenericError"}, Pipe!Answer(code, f.of)
      PROVE  Pipe!Deliver
    BY <1>1, <1>2, <1>5 DEF Pipe!Deliver
<1>6. ASSUME NEW code \in Code \ {"Success"}, Fail(code, NoRequest)
      PROVE  Pipe!Fail
    BY <1>1, <1>2, <1>6, FailRefines
<1>7. ASSUME NEW c \in Code \ {"Success"}, Pipe!Answer(c, NoRequest)
      PROVE  Pipe!Fail
    BY <1>1, <1>2, <1>7 DEF Pipe!Fail, Suffix
<1>8. {"GenericError", "ProcessNotRunning", "ProtoInvalidResponse"} \subseteq Code \ {"Success"}
      /\ "Success" \in Code
    BY DEF Code
<1>9. CASE Send("Success", f.of)
    BY <1>1, <1>4, <1>5, <1>8, <1>9, SendRefines
<1>10. CASE Fail("GenericError", f.of)
    BY <1>1, <1>4, <1>5, <1>7, <1>8, <1>10, SendRefines
<1>11. CASE Fail("ProcessNotRunning", f.of)
    <2>1. Answer("ProcessNotRunning", NoRequest)
        BY <1>11 DEF Fail
    <2> QED BY <1>1, <1>7, <1>8, <2>1, SendRefines
<1> QED BY <1>3, <1>6, <1>8, <1>9, <1>10, <1>11

\* Every step is a step of PipeService, or a stutter.
LEMMA PipeStep ==
    ASSUME TypeOK, QueueInv, [Next]_vars
    PROVE  [Pipe!Next]_(Pipe!vars)
<1>0. {"ProcessNotRunning", "ProtoInvalidResponse", "CommunicationTimeout", "InvalidParam"}
          \subseteq Code \ {"Success"}
    BY DEF Code
<1> USE DEF loopVars, pipeVars
<1>1. ASSUME UNCHANGED <<loopVars, pipeVars>>
      PROVE  UNCHANGED Pipe!vars
    BY <1>1 DEF Pipe!vars, Asked
<1>2. ASSUME UNCHANGED pipeVars
      PROVE  Asked' = Asked
    BY <1>2 DEF Asked
<1>3. CASE StartUp \/ (\E s \in Strategy : HelperEnds(s)) \/ UNCHANGED vars
    <2>1. UNCHANGED <<loopVars, pipeVars>>
        BY <1>3 DEF StartUp, Launch, ProbePasses, ProbeFails, NoBackendLeft, PersistLaunch,
                    Settle, Bind, ClearSession, HelperEnds, vars
    <2> QED BY <1>1, <2>1
<1>4. ASSUME NEW r \in Request, Receive(r)
      PROVE  Pipe!Receive(r)
    BY <1>2, <1>4 DEF Receive, Pipe!Receive, Pipe!NoReply, NoReply
<1>5. CASE RejectRequest
    <2>1. queue # <<>> /\ Answer("InvalidParam", NoRequest) /\ Asked' = Asked
        BY <1>2, <1>5 DEF RejectRequest
    <2>2. \E c \in Code \ {"Success"} : Pipe!Answer(c, NoRequest)
        BY <1>0, <2>1, SendRefines
    <2>3. Pipe!Fail
        BY <2>1, <2>2 DEF Pipe!Fail
    <2> QED BY <2>3 DEF Pipe!Next
<1>6. CASE WriteFrame
    <2>1. /\ serving = "idle" /\ queue # <<>> /\ serving' = "reading"
          /\ stdin' = Append(stdin, Head(queue)) /\ UNCHANGED <<queue, reply, owed, stdout>>
        BY <1>6 DEF WriteFrame, CanWrite
    <2>2. Head(queue) \in Request
        BY <2>1, HeadTailProperties DEF TypeOK
    <2>3. Asked' = Append(Asked, Head(queue))
        BY <2>1, <2>2, AskedLast
    <2>4. Pipe!Ask
        BY <2>1, <2>3 DEF Pipe!Ask
    <2> QED BY <2>4 DEF Pipe!Next
<1>7. CASE WriteFails
    <2>1. Pipe!Fail
        BY <1>0, <1>2, <1>7, FailRefines DEF WriteFails, CanWrite
    <2> QED BY <2>1 DEF Pipe!Next
<1>8. CASE ReadFrame
    BY <1>8, ReadFrameRefines DEF Pipe!Next
<1>9. CASE ReadTorn
    <2>1. PICK n \in 0..Len(stdout) :
              /\ stdout' = Suffix(stdout, n)
              /\ \/ Fail("ProtoInvalidResponse", NoRequest)
                 \/ Fail("CommunicationTimeout", NoRequest)
        BY <1>9 DEF ReadTorn, Suffix
    <2>2. serving = "reading" /\ UNCHANGED <<owed, stdin>>
        BY <1>9 DEF ReadTorn
    <2>3. Asked' = Asked \/ \E k \in 1..Len(Asked) : Asked' = Suffix(Asked, k)
        BY <2>1, <2>2, AskedRest
    <2>4. Pipe!Fail
        BY <1>0, <2>1, <2>2, <2>3, FailRefines
    <2> QED BY <2>4 DEF Pipe!Next
<1>10. CASE ReadEnd
    <2>1. Pipe!Fail
        BY <1>0, <1>2, <1>10, FailRefines DEF ReadEnd
    <2> QED BY <2>1 DEF Pipe!Next
<1>11. CASE TimeOut
    <2>1. /\ serving = "reading" /\ stdout = <<>> /\ Fail("CommunicationTimeout", NoRequest)
          /\ UNCHANGED <<stdin, stdout>>
          /\ owed' = owed \/ (owed # <<>> /\ owed' = Tail(owed))
        BY <1>11 DEF TimeOut
    <2>2. Asked' = Asked \/ \E n \in 1..Len(Asked) : Asked' = Suffix(Asked, n)
        BY <2>1, AskedTorn, AskedType, TailIsSuffix DEF Asked
    <2>3. Pipe!Fail
        BY <1>0, <2>1, <2>2, FailRefines
    <2> QED BY <2>3 DEF Pipe!Next
<1>12. CASE HelperReads \/ HelperAnswers
    <2>1. UNCHANGED loopVars
        BY <1>12 DEF HelperReads, HelperAnswers
    <2>2. CASE Asked' = Asked
        BY <2>1, <2>2 DEF Pipe!vars
    <2>3. CASE Pipe!Lose
        BY <2>3 DEF Pipe!Next
    <2> QED BY <1>12, <2>2, <2>3, AskedPassed
<1> QED BY <1>3, <1>4, <1>5, <1>6, <1>7, <1>8, <1>9, <1>10, <1>11, <1>12
        DEF Next, RequestLoop, Pipe!Next

\* The framed request loop implements PipeService: however answers are delayed, lost or
\* torn, the helper's answers are handed out in the order of the questions, none twice.
THEOREM HelperImplementsPipe == Spec => PipeSpec
<1>1. Init => Pipe!Init
    <2>1. ASSUME Init PROVE Asked = <<>>
        <3>1. stdout = <<>> /\ owed = <<>> /\ stdin = <<>> /\ stdout \in Seq(Frame)
            BY <2>1 DEF Init
        <3>2. Origins(stdout) = <<>>
            BY <3>1, OriginsFact, EmptySeq
        <3>3. <<>> \o <<>> = <<>>
            BY ConcatEmptySeq, EmptySeq
        <3> QED BY <3>1, <3>2, <3>3 DEF Asked
    <2> QED BY <2>1 DEF Init, Pipe!Init, Pipe!NoReply, NoReply
<1>2. HelperInv /\ [Next]_vars => [Pipe!Next]_(Pipe!vars)
    BY PipeStep DEF HelperInv
<1> QED BY <1>1, <1>2, HelperInvariant, PTL DEF Spec, PipeSpec, Pipe!Spec

\* A reply is given to the head of the queue.
LEMMA RepliesToHead ==
    ASSUME QueueInv, Pipe!Next, NEW r, reply'[r] # reply[r]
    PROVE  queue # <<>> /\ r = Head(queue) /\ queue' = Tail(queue)
<1>1. CASE \E s \in Request : Pipe!Receive(s)
    BY <1>1 DEF Pipe!Receive
<1>2. CASE Pipe!Ask \/ Pipe!Lose
    BY <1>2 DEF Pipe!Ask, Pipe!Lose
<1>3. ASSUME NEW code, NEW of, Pipe!Answer(code, of)
      PROVE  queue # <<>> /\ r = Head(queue) /\ queue' = Tail(queue)
    BY <1>3 DEF Pipe!Answer
<1>4. CASE Pipe!Deliver \/ Pipe!Fail
    BY <1>3, <1>4 DEF Pipe!Deliver, Pipe!Fail
<1> QED BY <1>1, <1>2, <1>4 DEF Pipe!Next

\* No client of the helper modes is answered twice, and what it was sent stands.
THEOREM HelperAnsweredOnce == Spec => Pipe!AnsweredOnce
<1> DEFINE Once == \A r \in Request : reply[r] # NoReply =>
                      reply'[r] = reply[r] /\ \A i \in 1..Len(queue') : queue'[i] # r
<1>1. ASSUME HelperInv, HelperInv', Pipe!Next
      PROVE  Once
    <2> SUFFICES ASSUME NEW r \in Request, reply[r] # NoReply
                 PROVE  reply'[r] = reply[r] /\ \A i \in 1..Len(queue') : queue'[i] # r
        OBVIOUS
    <2>1. /\ queue \in Seq(Request) /\ queue' \in Seq(Request)
          /\ QueueInv /\ \A s \in Range(queue') : reply'[s] = NoReply
        BY <1>1 DEF HelperInv, TypeOK, QueueInv, NoReply
    <2>2. ASSUME reply'[r] # reply[r] PROVE FALSE
        <3>1. queue # <<>> /\ r = Head(queue)
            BY <1>1, <2>1, <2>2, RepliesToHead
        <3>2. r \in Range(queue)
            BY <2>1, <3>1, TailRange
        <3> QED BY <2>1, <3>2 DEF QueueInv
    <2>3. ASSUME NEW i \in 1..Len(queue') PROVE queue'[i] # r
        <3>1. queue'[i] \in Range(queue')
            BY <2>1, LenProperties DEF Range
        <3> QED BY <2>1, <2>2, <3>1
    <2> QED BY <2>2, <2>3
<1>2. HelperInv /\ HelperInv' /\ [Next]_vars => [Once]_(Pipe!vars)
    BY <1>1, PipeStep DEF HelperInv
<1> QED BY <1>2, HelperInvariant, PTL DEF Spec, Pipe!AnsweredOnce, Pipe!NoReply, NoReply

\* In the helper modes requests are answered in the order they came in.
THEOREM HelperInOrder == Spec => Pipe!InOrder
<1> DEFINE Ordered == \A i, j \in 1..Len(queue) :
                         i < j /\ reply'[queue[j]] # NoReply => reply'[queue[i]] # NoReply
<1>1. ASSUME HelperInv, Pipe!Next
      PROVE  Ordered
    <2> SUFFICES ASSUME NEW i \in 1..Len(queue), NEW j \in 1..Len(queue), i < j,
                        reply'[queue[j]] # NoReply
                 PROVE  FALSE
        OBVIOUS
    <2>1. queue \in Seq(Request) /\ QueueInv /\ DOMAIN queue = 1..Len(queue)
        BY <1>1, LenProperties DEF HelperInv, TypeOK
    <2>2. reply[queue[j]] = NoReply
        BY <2>1 DEF QueueInv, Range
    <2>3. queue # <<>> /\ queue[j] = Head(queue)
        BY <1>1, <2>1, <2>2, RepliesToHead
    <2>4. Len(queue) \in Nat /\ 1 \in 1..Len(queue) /\ Head(queue) = queue[1]
        BY <2>1, <2>3, EmptySeq, HeadTailProperties
    <2>5. j = 1
        BY <2>1, <2>3, <2>4 DEF QueueInv, IsInjective
    <2> QED BY <2>4, <2>5
<1>2. HelperInv /\ [Next]_vars => [Ordered]_(Pipe!vars)
    BY <1>1, PipeStep DEF HelperInv
<1> QED BY <1>2, HelperInvariant, PTL DEF Spec, Pipe!InOrder, Pipe!NoReply, NoReply
=============================================================================
