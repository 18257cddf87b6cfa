------------------------ MODULE OfficeSession_proofs ------------------------
(***************************************************************************)
(* Proofs about OfficeSession, for any requests, threads, units, warnings, *)
(* capacity of the pipes, faults and forks.                                *)
(*                                                                         *)
(* Inv is the inductive invariant.  Locked says who holds a lock, Kept and *)
(* Alive which session a process keeps, and that no other worker of it is  *)
(* alive.  Talk is the core: at every place of a conversation the frames   *)
(* in the two pipes, and the one in the hands of the I/O thread, are what  *)
(* the request has said and the worker not yet heard, and what the worker  *)
(* has answered and the request not yet accepted.                          *)
(***************************************************************************)
EXTENDS OfficeSession, SequenceTheorems, TLAPS

Names == Requests \cup {NIL}

TypeOK ==
  /\ pc \in [Requests -> {"idle", "suspended"} \cup Busy \cup Ended]
  /\ doing \in [Requests -> Steps]
  /\ sent \in [Requests -> Nat]
  /\ got \in [Requests -> Seq(FrameTypes)]
  /\ thread \in [Requests -> Threads \cup {ChildThread, NIL}]
  /\ session \in [Requests -> Names]
  /\ cancelled \in [Requests -> BOOLEAN]
  /\ inherited \in [Requests -> BOOLEAN]
  /\ lock \in [Processes -> Names]
  /\ persistent \in [Processes -> Names]
  /\ worker \in [Requests -> {"none", "running", "dead"}]
  /\ inq \in [Requests -> Seq(Frames)]
  /\ outq \in [Requests -> Seq(Frames)]
  /\ job \in [Requests -> [state : JobStates, id : Requests, n : Nat]]
  /\ io \in [Requests -> IOCalls]
  /\ running \in [Processes -> BOOLEAN]
  /\ forks \in 0..1

\* r's code is between acquiring the lock and releasing it
Holds(r) == pc[r] \in {"choose", "ready", "io", "suspended"} /\ ~inherited[r]
Converses(r) == pc[r] \in {"ready", "io", "suspended"} /\ ~inherited[r]

-----------------------------------------------------------------------------
(* What each side says, and how much of it it has said.                    *)

AskLen(r) == IF Starting(r) \/ Kind[r] = "extract" THEN 1 ELSE Units + 2
AskType(r, i) ==
  IF Starting(r) THEN "hello"
  ELSE IF i = 1 THEN Kind[r]
  ELSE IF i = Units + 2 THEN "translation_end" ELSE "translation_unit"
ReplyLen(r) == IF Starting(r) THEN 1 ELSE Len(Answer(r))
ReplyType(r, i) == IF Starting(r) THEN "ready" ELSE Answer(r)[i]

InHand(r, op) == IF io[session[r]].state = "ok" /\ io[session[r]].op = op THEN 1 ELSE 0
Begun(r) ==
  CASE doing[r] \in {"hello", "request"} -> 0
    [] doing[r] = "translate" -> 1 + sent[r]
    [] OTHER -> AskLen(r)
Told(r) == Begun(r) + InHand(r, "write")
Consumed(r) == Told(r) - Len(inq[session[r]])

Heard(r) == IF Starting(r) THEN 0 ELSE Len(got[r])
Near(r) == Heard(r) + InHand(r, "read")
Answered(r) == Near(r) + Len(outq[session[r]])

-----------------------------------------------------------------------------
(* The conversation of a request r with its session.                       *)

\* where the client is
AtClient(r) ==
  LET c == io[session[r]] IN
  /\ pc[r] \in {"ready", "suspended"} => c = NoIO
  /\ pc[r] = "io" => c.state # "none" /\ c.op = IF NextWrite(r) = NIL THEN "read" ELSE "write"
  /\ c.op = "write" => c.frame = NextWrite(r)
  /\ doing[r] = "translate" => Kind[r] = "reinsert" /\ sent[r] <= Units
  /\ doing[r] \in {"hello", "expect_ready", "request"} => sent[r] = 0
  /\ doing[r] # "answer" => got[r] = <<>>
  /\ pc[r] = "suspended" => doing[r] = "answer"

\* the frames on their way to the worker
Asks(r) ==
  LET q == inq[session[r]] IN
  worker[session[r]] = "running" =>
    /\ Len(q) <= Told(r)
    /\ \A i \in 1..Len(q) : q[i] = Frame(AskType(r, Consumed(r) + i), r)

\* the frames on their way back
Replies(r) ==
  LET q == outq[session[r]] IN
  /\ Answered(r) <= ReplyLen(r)
  /\ InHand(r, "read") = 1 => io[session[r]].frame = Frame(ReplyType(r, Heard(r) + 1), r)
  /\ \A i \in 1..Len(q) : q[i] = Frame(ReplyType(r, Near(r) + i), r)

\* where the worker is
AtWorker(r) ==
  LET j == job[session[r]]
      c == Consumed(r)
      a == Answered(r) IN
  worker[session[r]] = "running" =>
    IF Starting(r)
      THEN \/ c = 0 /\ a = 0 /\ j.state = "boot"
           \/ c = 1 /\ a = 1 /\ j.state = "command"
      ELSE \/ c = 0 /\ a = 0 /\ j.state = "command"
           \/ 0 < c /\ c < AskLen(r) /\ a = 0 /\ j.state = "collect" /\ j.id = r
           \/ c = AskLen(r) /\ a < ReplyLen(r) /\ j = Job("answer", r, a)
           \/ c = AskLen(r) /\ a = ReplyLen(r) /\ j.state = "command"

Talk(r) == Converses(r) => AtClient(r) /\ Asks(r) /\ Replies(r) /\ AtWorker(r)

Quiet(s) ==
  /\ io[s] = NoIO /\ inq[s] = <<>> /\ outq[s] = <<>>
  /\ worker[s] = "running" => job[s].state = "command"

-----------------------------------------------------------------------------
(* Requests, locks and sessions.                                           *)

\* what a request is, by the place of its code
Place(r) ==
  /\ pc[r] = "idle" => Home(r) = "parent"
  /\ pc[r] \in {"idle", "acquire", "choose"} =>
       /\ session[r] = NIL /\ doing[r] = "hello" /\ sent[r] = 0 /\ got[r] = <<>>
       /\ worker[r] = "none" /\ ~inherited[r]
  /\ pc[r] \in Busy \cup {"suspended"} => running[Home(r)]
  /\ inherited[r] => worker[r] = "none" /\ session[r] # NIL
  /\ session[r] # NIL => worker[session[r]] # "none" /\ (~inherited[r] => Owner(session[r]) = Home(r))
  /\ pc[r] = "failed" /\ ~inherited[r] /\ session[r] # NIL => worker[session[r]] = "dead"

\* what a request has accepted
Accepted(r) ==
  /\ Len(got[r]) <= Len(Answer(r))
  /\ \A i \in 1..Len(got[r]) : got[r][i] = Answer(r)[i]
  /\ pc[r] = "done" => Len(got[r]) = Len(Answer(r))

\* a session that was never started or has ended
Rests(s) ==
  /\ worker[s] = "none" => io[s] = NoIO /\ inq[s] = <<>> /\ outq[s] = <<>> /\ job[s].state = "boot"
  /\ worker[s] = "dead" => inq[s] = <<>>
  /\ io[s].op = "write" => io[s].frame \in Frames
  /\ job[s].state = "answer" => job[s].n < Len(Answer(job[s].id))

\* every frame of a session is of a request that uses it
Uses(r, s) == session[r] = s /\ ~inherited[r]
Own(s) ==
  /\ io[s].op = "write" => Uses(io[s].frame.id, s)
  /\ worker[s] = "running" =>
       /\ \A i \in 1..Len(inq[s]) : Uses(inq[s][i].id, s)
       /\ job[s].state \in {"collect", "answer"} => Uses(job[s].id, s)

\* the lock of a process is that of the request inside it
Locks(r) == Holds(r) => lock[Home(r)] = r
Locked(p) == running[p] /\ lock[p] # NIL => Holds(lock[p]) /\ Home(lock[p]) = p

\* the session of a process, and of the request that uses it
Kept(p) ==
  running[p] /\ persistent[p] # NIL =>
    /\ Owner(persistent[p]) = p /\ worker[persistent[p]] # "none"
    /\ lock[p] = NIL \/ pc[lock[p]] = "choose" => Quiet(persistent[p])
InUse(r) ==
  Converses(r) =>
    /\ session[r] # NIL
    /\ Starting(r) => session[r] = r
    /\ persistent[Home(r)] = IF Starting(r) THEN NIL ELSE session[r]
Alive(s) ==
  worker[s] = "running" /\ running[Owner(s)] =>
    persistent[Owner(s)] = s \/ (Converses(s) /\ Starting(s))

\* before a fork there is no child
Unforked ==
  forks = 0 => /\ ~running["child"] /\ lock["child"] = NIL /\ persistent["child"] = NIL
               /\ \A r \in Requests : Home(r) = "parent"

OfRequest(r) == Place(r) /\ Accepted(r) /\ Locks(r) /\ InUse(r) /\ Talk(r)
OfSession(s) == Rests(s) /\ Own(s) /\ Alive(s)
OfProcess(p) == Locked(p) /\ Kept(p)

Inv ==
  /\ TypeOK /\ Unforked
  /\ \A r \in Requests : OfRequest(r) /\ OfSession(r)
  /\ \A p \in Processes : OfProcess(p)

-----------------------------------------------------------------------------
(* The answer of a worker.                                                 *)

LEMMA AnswerIs ==
  ASSUME NEW r \in Requests
  PROVE  /\ Answer(r) \in Seq(FrameTypes) /\ Len(Answer(r)) \in Nat /\ Len(Answer(r)) >= 2
         /\ \A i \in 1..Len(Answer(r)) : Answer(r)[i] \in FrameTypes
         /\ \A i \in 1..Len(Answer(r)) : Answer(r)[i] = "done" => i = Len(Answer(r))
         /\ \A i \in 1..Len(Answer(r)) : Answer(r)[i] = "unit" => Kind[r] = "extract"
<1> DEFINE U == [i \in 1..Units |-> "unit"]
<1> USE UnitsAssumption
<1>1. Warned \in Seq(FrameTypes) /\ Len(Warned) = Warnings /\ \A i \in 1..Warnings : Warned[i] = "warning"
  BY DEF Warned, FrameTypes
<1>2. U \in Seq(FrameTypes) /\ Len(U) = Units /\ \A i \in 1..Units : U[i] = "unit"
  BY DEF FrameTypes
<1>3. CASE Kind[r] = "extract"
  <2> DEFINE A == <<"document_start">> \o Warned
             B == A \o U
  <2> HIDE DEF U
  <2>1. A \in Seq(FrameTypes) /\ Len(A) = Warnings + 1 /\ A[1] = "document_start"
        /\ \A i \in 2..Warnings + 1 : A[i] = "warning"
    BY <1>1 DEF FrameTypes
  <2> HIDE DEF A
  <2>2. B \in Seq(FrameTypes) /\ Len(B) = Warnings + Units + 1 /\ \A i \in 1..Len(B) : B[i] # "done"
    BY <1>2, <2>1
  <2> HIDE DEF B
  <2>3. Answer(r) = B \o <<"done">>
    BY <1>3 DEF Answer, A, B, U
  <2> QED BY <1>3, <2>2, <2>3 DEF FrameTypes
<1>4. CASE Kind[r] # "extract"
  <2>1. Answer(r) = Warned \o <<"result", "done">>
    BY <1>4 DEF Answer
  <2> QED BY <1>1, <2>1 DEF FrameTypes
<1> QED BY <1>3, <1>4

-----------------------------------------------------------------------------
(* Types.                                                                  *)

LEMMA TypeInit == Init => TypeOK
  BY NamesAssumption DEF Init, TypeOK, Busy, Ended, Steps, Names, Processes, Job, JobStates, NoIO, IOCalls, Frames

LEMMA FrameIs == \A type \in FrameTypes, id \in Requests : Frame(type, id) \in Frames
  BY DEF Frame, Frames

LEMMA HomeIs == \A r \in Requests : Home(r) \in Processes
  BY DEF Home, ProcessOf, Processes

LEMMA NoIOIs == NoIO \in IOCalls /\ <<>> \in Seq(Frames)
  BY DEF NoIO, IOCalls

LEMMA ReleaseType == ASSUME TypeOK, NEW r \in Requests, Release(r) PROVE lock' \in [Processes -> Names]
  BY HomeIs DEF TypeOK, Release, Names

LEMMA TerminateType ==
  ASSUME TypeOK, NEW s \in Requests, Terminate(s)
  PROVE  /\ worker' \in [Requests -> {"none", "running", "dead"}]
         /\ inq' \in [Requests -> Seq(Frames)] /\ outq' \in [Requests -> Seq(Frames)]
         /\ job' \in [Requests -> [state : JobStates, id : Requests, n : Nat]]
         /\ io' \in [Requests -> IOCalls]
  BY NoIOIs DEF TypeOK, Terminate

LEMMA TypeFail ==
  ASSUME TypeOK, NEW r \in Requests, Fail(r), UNCHANGED <<got, running, forks>>
  PROVE  TypeOK'
<1>1. pc' \in [Requests -> {"idle", "suspended"} \cup Busy \cup Ended]
  BY DEF TypeOK, Fail, Ended
<1>2. lock' \in [Processes -> Names]
  BY ReleaseType DEF Fail, Leave
<1>3. CASE session[r] # NIL /\ ~inherited[r]
  <2>1. session[r] \in Requests
    BY <1>3 DEF TypeOK, Names
  <2>2. Terminate(session[r])
    BY <1>3 DEF Fail, Leave
  <2>3. persistent' \in [Processes -> Names]
    BY <1>3, HomeIs DEF Fail, Leave, TypeOK, Names
  <2> QED BY <1>1, <1>2, <2>1, <2>2, <2>3, TerminateType DEF TypeOK, Fail
<1>4. CASE ~(session[r] # NIL /\ ~inherited[r])
  BY <1>1, <1>2, <1>4 DEF TypeOK, Fail, Leave, workerVars
<1> QED BY <1>3, <1>4

LEMMA TypeEasy ==
  ASSUME TypeOK, NEW r \in Requests,
         \/ Acquire(r) \/ CancelAcquire(r) \/ Reuse(r) \/ Cancel(r)
         \/ \E t \in Threads \cup {ChildThread} : Call(r, t) \/ ResumeGenerator(r, t)
  PROVE  TypeOK'
<1> USE HomeIs DEF TypeOK, Busy, Ended, Steps, Names, workerVars
<1>1. CASE Acquire(r)
  BY <1>1 DEF Acquire
<1>2. CASE CancelAcquire(r)
  BY <1>2 DEF CancelAcquire
<1>3. CASE Reuse(r)
  BY <1>3 DEF Reuse
<1>4. CASE Cancel(r)
  BY <1>4 DEF Cancel
<1>5. CASE \E t \in Threads \cup {ChildThread} : Call(r, t)
  BY <1>5 DEF Call
<1>6. CASE \E t \in Threads \cup {ChildThread} : ResumeGenerator(r, t)
  BY <1>6 DEF ResumeGenerator
<1> QED BY <1>1, <1>2, <1>3, <1>4, <1>5, <1>6

LEMMA TypeStart == ASSUME TypeOK, NEW r \in Requests, StartWorker(r) PROVE TypeOK'
  BY HomeIs, NoIOIs DEF TypeOK, StartWorker, Names, Busy

LEMMA TypeCannot == ASSUME TypeOK, NEW r \in Requests, CannotStart(r) PROVE TypeOK'
<1>1. pc' \in [Requests -> {"idle", "suspended"} \cup Busy \cup Ended]
  BY DEF TypeOK, CannotStart, Ended
<1>2. lock' \in [Processes -> Names]
  BY ReleaseType DEF CannotStart
<1>3. CASE UNCHANGED <<persistent, workerVars, io>>
  BY <1>1, <1>2, <1>3 DEF TypeOK, CannotStart, workerVars
<1>4. CASE persistent[Home(r)] # NIL /\ Terminate(persistent[Home(r)]) /\ persistent' = [persistent EXCEPT ![Home(r)] = NIL]
  <2>1. persistent[Home(r)] \in Requests /\ persistent' \in [Processes -> Names]
    BY <1>4, HomeIs DEF TypeOK, Names
  <2> QED BY <1>1, <1>2, <1>4, <2>1, TerminateType DEF TypeOK, CannotStart
<1> QED BY <1>3, <1>4 DEF CannotStart

LEMMA NextWriteType == ASSUME NEW r \in Requests PROVE NextWrite(r) \in Frames \cup {NIL}
  BY KindAssumption, FrameIs DEF NextWrite, FrameTypes

LEMMA TypeIssue == ASSUME TypeOK, NEW r \in Requests, Issue(r) PROVE TypeOK'
<1>1. pc' \in [Requests -> {"idle", "suspended"} \cup Busy \cup Ended]
  BY DEF TypeOK, Issue, Submit, Busy
<1>2. \A f \in Frames \cup {NIL}, op \in {"write", "read"} : [state |-> "pending", op |-> op, frame |-> f] \in IOCalls
  BY DEF IOCalls
<1>3. io' \in [Requests -> IOCalls]
  <2> DEFINE Request(op, f) == [state |-> "pending", op |-> op, frame |-> f]
  <2>1. CASE io' = io
    BY <2>1 DEF TypeOK
  <2>2. CASE io' = [io EXCEPT ![session[r]] = Request("write", NextWrite(r))]
    <3>1. Request("write", NextWrite(r)) \in IOCalls
      BY <1>2, NextWriteType
    <3> QED BY <2>2, <3>1 DEF TypeOK
  <2>3. CASE io' = [io EXCEPT ![session[r]] = Request("read", NIL)]
    <3>1. Request("read", NIL) \in IOCalls
      BY <1>2
    <3> QED BY <2>3, <3>1 DEF TypeOK
  <2> QED BY <2>1, <2>2, <2>3 DEF Issue, Submit
<1> QED BY <1>1, <1>3 DEF TypeOK, Issue, workerVars

LEMMA TypeWritten == ASSUME TypeOK, NEW r \in Requests, Written(r) PROVE TypeOK'
<1>1. io' \in [Requests -> IOCalls]
  BY NoIOIs DEF TypeOK, Written
<1>2. sent' \in [Requests -> Nat] /\ pc' \in [Requests -> {"idle", "suspended"} \cup Busy \cup Ended]
  BY DEF TypeOK, Written, Busy
<1>3. doing' \in [Requests -> Steps]
  BY DEF TypeOK, Written, Steps
<1> QED BY <1>1, <1>2, <1>3 DEF TypeOK, Written, workerVars

LEMMA TypeHandshaken == ASSUME TypeOK, NEW r \in Requests, Handshaken(r) PROVE TypeOK'
<1>1. io' \in [Requests -> IOCalls]
  BY NoIOIs DEF TypeOK, Handshaken
<1> QED BY <1>1, HomeIs DEF TypeOK, Handshaken, workerVars, Busy, Steps, Names

LEMMA TypeReceive == ASSUME TypeOK, NEW r \in Requests, Receive(r) PROVE TypeOK'
<1>1. io[session[r]].frame.type \in FrameTypes
  BY KindAssumption DEF Receive, Accepts, FrameTypes
<1>2. got' \in [Requests -> Seq(FrameTypes)]
  BY <1>1 DEF Receive, TypeOK
<1>3. lock' \in [Processes -> Names]
  BY ReleaseType DEF Receive, TypeOK
<1>4. io' \in [Requests -> IOCalls]
  BY NoIOIs DEF TypeOK, Receive
<1>5. pc' \in [Requests -> {"idle", "suspended"} \cup Busy \cup Ended]
  BY DEF TypeOK, Receive, Busy, Ended
<1> QED BY <1>2, <1>3, <1>4, <1>5 DEF TypeOK, Receive, workerVars

LEMMA TypePerform == ASSUME TypeOK, NEW s \in Requests, Rests(s), Perform(s) PROVE TypeOK'
<1>1. io[s] \in IOCalls /\ inq[s] \in Seq(Frames) /\ outq[s] \in Seq(Frames)
  BY DEF TypeOK
<1>2. CASE /\ inq' = [inq EXCEPT ![s] = Append(@, io[s].frame)] /\ io[s].frame \in Frames
           /\ io' = [io EXCEPT ![s].state = "ok"] /\ UNCHANGED outq
  <2>1. [io[s] EXCEPT !.state = "ok"] \in IOCalls /\ Append(inq[s], io[s].frame) \in Seq(Frames)
    BY <1>1, <1>2 DEF IOCalls
  <2> QED BY <1>2, <2>1 DEF TypeOK, Perform, clientVars
<1>3. CASE /\ outq[s] # <<>> /\ outq' = [outq EXCEPT ![s] = Tail(@)]
           /\ io' = [io EXCEPT ![s].state = "ok", ![s].frame = Head(outq[s])] /\ UNCHANGED inq
  <2>1. [io[s] EXCEPT !.state = "ok", !.frame = Head(outq[s])] \in IOCalls /\ Tail(outq[s]) \in Seq(Frames)
    <3>1. Head(outq[s]) \in Frames /\ Tail(outq[s]) \in Seq(Frames)
      BY <1>1, <1>3
    <3> QED BY <1>1, <3>1 DEF IOCalls
  <2>2. io' = [io EXCEPT ![s] = [io[s] EXCEPT !.state = "ok", !.frame = Head(outq[s])]]
    BY <1>1, <1>3 DEF IOCalls, TypeOK
  <2> QED BY <1>3, <2>1, <2>2 DEF TypeOK, Perform, clientVars
<1>4. CASE io' = [io EXCEPT ![s].state = "error"] /\ UNCHANGED <<inq, outq>>
  <2>1. [io[s] EXCEPT !.state = "error"] \in IOCalls
    BY <1>1 DEF IOCalls
  <2> QED BY <1>4, <2>1 DEF TypeOK, Perform, clientVars
<1> QED BY <1>2, <1>3, <1>4 DEF Perform, Rests

LEMMA SendType ==
  ASSUME TypeOK, NEW s \in Requests, NEW type \in FrameTypes, NEW id \in Requests, Send(s, type, id)
  PROVE  outq' \in [Requests -> Seq(Frames)]
  BY FrameIs DEF TypeOK, Send

LEMMA TakesType ==
  ASSUME TypeOK, NEW s \in Requests, NEW type, Takes(s, type)
  PROVE  inq' \in [Requests -> Seq(Frames)] /\ Head(inq[s]) \in Frames /\ Head(inq[s]).id \in Requests
<1>1. inq[s] \in Seq(Frames) /\ inq[s] # <<>>
  BY DEF TypeOK, Takes
<1>2. Head(inq[s]) \in Frames /\ Tail(inq[s]) \in Seq(Frames)
  BY <1>1
<1> QED BY <1>2 DEF TypeOK, Takes, Frames

LEMMA GoesType ==
  ASSUME TypeOK, NEW s \in Requests, NEW state \in JobStates, NEW id \in Requests, NEW n \in Nat, Goes(s, state, id, n)
  PROVE  job' \in [Requests -> [state : JobStates, id : Requests, n : Nat]]
  BY DEF TypeOK, Goes, Job

LEMMA TypeWorker ==
  ASSUME TypeOK, NEW s \in Requests, Rests(s), Worker(s)
  PROVE  TypeOK'
<1> USE DEF WorkerStep, clientVars
<1>1. CASE WorkerHello(s)
  <2>1. /\ inq' \in [Requests -> Seq(Frames)] /\ outq' \in [Requests -> Seq(Frames)]
        /\ job' \in [Requests -> [state : JobStates, id : Requests, n : Nat]]
    BY <1>1, TakesType, SendType, GoesType DEF WorkerHello, JobStates, FrameTypes
  <2> QED BY <1>1, <2>1 DEF WorkerHello, TypeOK
<1>2. CASE WorkerCommand(s)
  <2>1. inq' \in [Requests -> Seq(Frames)] /\ job' \in [Requests -> [state : JobStates, id : Requests, n : Nat]]
    BY <1>2, TakesType, GoesType DEF WorkerCommand, JobStates
  <2> QED BY <1>2, <2>1 DEF WorkerCommand, TypeOK
<1>3. CASE WorkerCollect(s)
  <2>1. job[s].id \in Requests
    BY DEF TypeOK
  <2>2. inq' \in [Requests -> Seq(Frames)] /\ job' \in [Requests -> [state : JobStates, id : Requests, n : Nat]]
    BY <1>3, <2>1, TakesType, GoesType DEF WorkerCollect, JobStates, TypeOK
  <2> QED BY <1>3, <2>2 DEF WorkerCollect, TypeOK
<1>4. CASE WorkerAnswer(s)
  <2>1. job[s].id \in Requests /\ job[s].n \in Nat /\ job[s].n + 1 \in 1..Len(Answer(job[s].id))
    BY <1>4, AnswerIs DEF TypeOK, Rests, WorkerAnswer
  <2>2. outq' \in [Requests -> Seq(Frames)]
    BY <1>4, <2>1, AnswerIs, SendType DEF WorkerAnswer
  <2>3. job' \in [Requests -> [state : JobStates, id : Requests, n : Nat]]
    BY <1>4, <2>1, GoesType DEF WorkerAnswer, JobStates
  <2> QED BY <1>4, <2>2, <2>3 DEF WorkerAnswer, TypeOK
<1>5. CASE WorkerCrash(s) \/ WorkerEndOfInput(s)
  <2>1. WorkerExits(s) /\ UNCHANGED <<clientVars, lock, persistent, holders, io, running, forks>>
    BY <1>5 DEF WorkerCrash, WorkerEndOfInput
  <2>2. inq' \in [Requests -> Seq(Frames)] /\ worker' \in [Requests -> {"none", "running", "dead"}]
    BY <2>1, NoIOIs DEF WorkerExits, TypeOK
  <2> QED BY <2>1, <2>2 DEF WorkerExits, TypeOK
<1> QED BY <1>1, <1>2, <1>3, <1>4, <1>5 DEF Worker

LEMMA TypeFork == ASSUME TypeOK, NEW t \in Threads, Fork(t) PROVE TypeOK'
<1>1. running' \in [Processes -> BOOLEAN] /\ lock' \in [Processes -> Names] /\ forks' \in 0..1
  <2>1. /\ running' = [running EXCEPT !["child"] = TRUE] /\ lock' = [lock EXCEPT !["child"] = NIL]
        /\ forks < MaxForks /\ forks' = forks + 1
    BY DEF Fork, ChildLock
  <2>2. running' \in [Processes -> BOOLEAN]
    BY <2>1 DEF TypeOK
  <2>3. lock' \in [Processes -> Names]
    BY <2>1 DEF TypeOK, Names
  <2>4. forks \in 0..1
    BY DEF TypeOK
  <2>5. forks' \in 0..1
    BY <2>1, <2>4, BoundsAssumption
  <2> QED BY <2>2, <2>3, <2>5
<1>2. CASE UNCHANGED clientVars
  BY <1>1, <1>2 DEF TypeOK, Fork, clientVars
<1>3. CASE \E r, g \in Requests :
          /\ pc' = [pc EXCEPT ![g] = "suspended"]
          /\ doing' = [doing EXCEPT ![g] = doing[r]]
          /\ got' = [got EXCEPT ![g] = got[r]]
          /\ thread' = [thread EXCEPT ![g] = ChildThread]
          /\ session' = [session EXCEPT ![g] = session[r]]
          /\ inherited' = [inherited EXCEPT ![g] = TRUE]
          /\ UNCHANGED <<sent, cancelled>>
  <2>1. UNCHANGED <<persistent, worker, inq, outq, job, io>>
    BY DEF Fork
  <2> QED BY <1>1, <1>3, <2>1 DEF TypeOK
<1> QED BY <1>2, <1>3 DEF Fork

LEMMA TypeProcess == ASSUME TypeOK, NEW p \in Processes, Exit(p) \/ Die(p) PROVE TypeOK'
<1>1. running' \in [Processes -> BOOLEAN] /\ persistent' \in [Processes -> Names]
  BY DEF TypeOK, Exit, Die, Names
<1>2. pc' \in [Requests -> {"idle", "suspended"} \cup Busy \cup Ended]
  BY DEF TypeOK, Exit, Die, Ended
<1>3. worker' \in [Requests -> {"none", "running", "dead"}] /\ inq' \in [Requests -> Seq(Frames)]
  <2>1. /\ worker' = worker \/ worker' = [worker EXCEPT ![persistent[p]] = "dead"]
        /\ inq' = inq \/ inq' = [inq EXCEPT ![persistent[p]] = <<>>]
    BY DEF Exit, Die
  <2>2. worker' \in [Requests -> {"none", "running", "dead"}]
    BY <2>1 DEF TypeOK
  <2>3. inq' \in [Requests -> Seq(Frames)]
    BY <2>1, NoIOIs DEF TypeOK
  <2> QED BY <2>2, <2>3
<1> QED BY <1>1, <1>2, <1>3 DEF TypeOK, Exit, Die

LEMMA TypeStep ==
  ASSUME TypeOK, \A s \in Requests : Rests(s), [Next]_vars
  PROVE  TypeOK'
<1>1. CASE UNCHANGED vars
  BY <1>1 DEF TypeOK, vars, clientVars, workerVars
<1>2. CASE \E r \in Requests : Client(r)
  <2>1. PICK r \in Requests : Client(r)
    BY <1>2
  <2>2. CASE CancelIO(r) \/ Expire(r) \/ CallerFails(r) \/ ConversationFails(r)
    BY <2>2, TypeFail DEF CancelIO, Expire, CallerFails, ConversationFails
  <2> QED BY <2>1, <2>2, TypeEasy, TypeStart, TypeCannot, TypeIssue, TypeWritten, TypeHandshaken, TypeReceive DEF Client
<1>3. CASE \E r \in Requests : Caller(r)
  <2>1. PICK r \in Requests : Caller(r)
    BY <1>3
  <2>2. CASE \E t \in Threads \cup {ChildThread} : CloseGenerator(r, t)
    BY <2>2, TypeFail DEF CloseGenerator
  <2> QED BY <2>1, <2>2, TypeEasy DEF Caller
<1>4. CASE \E s \in Requests : Perform(s) \/ Worker(s)
  BY <1>4, TypePerform, TypeWorker
<1>5. CASE (\E t \in Threads : Fork(t)) \/ (\E p \in Processes : Exit(p) \/ Die(p))
  BY <1>5, TypeFork, TypeProcess
<1> QED BY <1>1, <1>2, <1>3, <1>4, <1>5 DEF Next

-----------------------------------------------------------------------------
(* What the invariant says of two requests, and of what a step leaves alone. *)

Facts ==
  /\ TypeOK /\ Unforked
  /\ \A r \in Requests : Place(r) /\ Accepted(r) /\ Locks(r) /\ InUse(r) /\ Talk(r)
  /\ \A s \in Requests : Rests(s) /\ Own(s) /\ Alive(s)
  /\ \A p \in Processes : Locked(p) /\ Kept(p)

LEMMA FactsAre == Inv <=> Facts
  BY DEF Inv, Facts, OfRequest, OfSession, OfProcess

LEMMA OneHolder ==
  ASSUME Facts, NEW r \in Requests, NEW q \in Requests, Holds(r), Holds(q), Home(r) = Home(q)
  PROVE  r = q
  BY DEF Facts, Locks

LEMMA OneConverser ==
  ASSUME Facts, NEW r \in Requests, NEW q \in Requests, Converses(r), Converses(q), session[r] = session[q]
  PROVE  r = q
<1>1. Holds(r) /\ Holds(q)
  BY DEF Holds, Converses
<1>2. Home(r) = Home(q)
  BY DEF Facts, InUse, Place, Converses
<1> QED BY <1>1, <1>2, OneHolder

LEMMA SessionIs == ASSUME Facts, NEW r \in Requests, Converses(r) PROVE session[r] \in Requests
  BY DEF Facts, InUse, TypeOK, Names

LEMMA SidesKept ==
  ASSUME NEW q \in Requests,
         Starting(q)' = Starting(q), Told(q)' = Told(q), Heard(q)' = Heard(q), session'[q] = session[q],
         InHand(q, "read")' = InHand(q, "read"),
         InHand(q, "read") = 1 => io'[session[q]].frame = io[session[q]].frame,
         job'[session[q]] = job[session[q]], worker'[session[q]] = worker[session[q]],
         inq'[session[q]] = inq[session[q]], outq'[session[q]] = outq[session[q]]
  PROVE  /\ Asks(q) => Asks(q)'
         /\ Replies(q) => Replies(q)'
         /\ AtWorker(q) => AtWorker(q)'
<1>1. AskLen(q)' = AskLen(q) /\ ReplyLen(q)' = ReplyLen(q)
  BY DEF AskLen, ReplyLen
<1>2. \A i : AskType(q, i)' = AskType(q, i) /\ ReplyType(q, i)' = ReplyType(q, i)
  BY DEF AskType, ReplyType
<1>3. Consumed(q)' = Consumed(q) /\ Near(q)' = Near(q) /\ Answered(q)' = Answered(q)
  BY DEF Consumed, Near, Answered
<1>4. Asks(q) => Asks(q)'
  BY <1>2, <1>3 DEF Asks
<1>5. Replies(q) => Replies(q)'
  BY <1>1, <1>2, <1>3 DEF Replies
<1>6. AtWorker(q) => AtWorker(q)'
  BY <1>1, <1>3 DEF AtWorker
<1> QED BY <1>4, <1>5, <1>6

LEMMA SidesSame ==
  ASSUME NEW q \in Requests,
         doing'[q] = doing[q], sent'[q] = sent[q], got'[q] = got[q], session'[q] = session[q],
         io'[session[q]] = io[session[q]], job'[session[q]] = job[session[q]],
         inq'[session[q]] = inq[session[q]], outq'[session[q]] = outq[session[q]],
         worker'[session[q]] = worker[session[q]]
  PROVE  /\ NextWrite(q)' = NextWrite(q)
         /\ Asks(q) => Asks(q)'
         /\ Replies(q) => Replies(q)'
         /\ AtWorker(q) => AtWorker(q)'
<1>1. Starting(q)' = Starting(q) /\ NextWrite(q)' = NextWrite(q)
  BY DEF Starting, NextWrite
<1>2. \A op : InHand(q, op)' = InHand(q, op)
  BY DEF InHand
<1>3. Told(q)' = Told(q) /\ Heard(q)' = Heard(q)
  BY <1>1, <1>2 DEF Told, Begun, AskLen, Heard
<1> QED BY <1>1, <1>2, <1>3, SidesKept

LEMMA TalkSame ==
  ASSUME NEW q \in Requests, Talk(q),
         Converses(q)' => Converses(q) /\ pc'[q] = pc[q],
         doing'[q] = doing[q], sent'[q] = sent[q], got'[q] = got[q], session'[q] = session[q],
         Converses(q)' =>
           /\ io'[session[q]] = io[session[q]] /\ job'[session[q]] = job[session[q]]
           /\ inq'[session[q]] = inq[session[q]] /\ outq'[session[q]] = outq[session[q]]
           /\ worker'[session[q]] = worker[session[q]]
  PROVE  Talk(q)'
<1> SUFFICES ASSUME Converses(q)' PROVE (AtClient(q) /\ Asks(q) /\ Replies(q) /\ AtWorker(q))'
  BY DEF Talk
<1>1. AtClient(q) /\ Asks(q) /\ Replies(q) /\ AtWorker(q)
  BY DEF Talk
<1>2. NextWrite(q)' = NextWrite(q)
  BY SidesSame
<1>3. AtClient(q)'
  BY <1>1, <1>2 DEF AtClient
<1> QED BY <1>1, <1>3, SidesSame

Domains ==
  /\ DOMAIN pc = Requests /\ DOMAIN doing = Requests /\ DOMAIN sent = Requests /\ DOMAIN got = Requests
  /\ DOMAIN thread = Requests /\ DOMAIN session = Requests /\ DOMAIN cancelled = Requests /\ DOMAIN inherited = Requests
  /\ DOMAIN lock = Processes /\ DOMAIN persistent = Processes /\ DOMAIN running = Processes
  /\ DOMAIN worker = Requests /\ DOMAIN inq = Requests /\ DOMAIN outq = Requests
  /\ DOMAIN job = Requests /\ DOMAIN io = Requests
  /\ \A r \in Requests : session[r] = NIL \/ session[r] \in Requests
  /\ \A p \in Processes : lock[p] = NIL \/ lock[p] \in Requests
  /\ \A p \in Processes : persistent[p] = NIL \/ persistent[p] \in Requests

LEMMA DomainsAre == ASSUME Facts PROVE Domains
  BY DEF Facts, TypeOK, Domains, Names

\* the counters of a conversation are natural numbers
LEMMA Counters ==
  ASSUME Facts, NEW r \in Requests, Converses(r)
  PROVE  /\ session[r] \in Requests /\ inq[session[r]] \in Seq(Frames) /\ outq[session[r]] \in Seq(Frames)
         /\ io[session[r]] \in IOCalls /\ sent[r] \in Nat /\ got[r] \in Seq(FrameTypes) /\ doing[r] \in Steps
         /\ AskLen(r) \in Nat /\ ReplyLen(r) \in Nat /\ Begun(r) \in Nat /\ Told(r) \in Nat /\ Consumed(r) \in Int
         /\ Heard(r) \in Nat /\ Near(r) \in Nat /\ Answered(r) \in Nat
         /\ InHand(r, "read") \in {0, 1} /\ InHand(r, "write") \in {0, 1}
         /\ AtClient(r) /\ Asks(r) /\ Replies(r) /\ AtWorker(r)
         /\ worker[session[r]] # "none" /\ running[Home(r)] /\ Owner(session[r]) = Home(r) /\ lock[Home(r)] = r
<1>1. session[r] \in Requests
  BY SessionIs
<1>2. /\ inq[session[r]] \in Seq(Frames) /\ outq[session[r]] \in Seq(Frames)
      /\ io[session[r]] \in IOCalls /\ sent[r] \in Nat /\ got[r] \in Seq(FrameTypes) /\ doing[r] \in Steps
  BY <1>1 DEF Facts, TypeOK
<1>3. InHand(r, "read") \in {0, 1} /\ InHand(r, "write") \in {0, 1}
  BY DEF InHand
<1>4. AskLen(r) \in Nat /\ ReplyLen(r) \in Nat
  BY UnitsAssumption, AnswerIs DEF AskLen, ReplyLen
<1>5. Begun(r) \in Nat /\ Heard(r) \in Nat
  BY <1>2, <1>4 DEF Begun, Heard
<1>6. Told(r) \in Nat /\ Near(r) \in Nat
  BY <1>3, <1>5 DEF Told, Near
<1>7. Consumed(r) \in Int /\ Answered(r) \in Nat
  <2>1. Len(inq[session[r]]) \in Nat /\ Len(outq[session[r]]) \in Nat
    BY <1>2
  <2> QED BY <1>6, <2>1 DEF Consumed, Answered
<1>8. AtClient(r) /\ Asks(r) /\ Replies(r) /\ AtWorker(r)
  BY DEF Facts, Talk
<1>9. worker[session[r]] # "none" /\ running[Home(r)] /\ Owner(session[r]) = Home(r)
  BY <1>1, NamesAssumption DEF Facts, Place, Converses, Busy
<1>10. lock[Home(r)] = r
  BY DEF Facts, Locks, Holds, Converses
<1> QED BY <1>1, <1>2, <1>3, <1>4, <1>5, <1>6, <1>7, <1>8, <1>9, <1>10

\* nothing is told that is not asked, and writes and reads alternate
LEMMA Phases ==
  ASSUME Facts, NEW r \in Requests, Converses(r)
  PROVE  /\ Told(r) <= AskLen(r)
         /\ NextWrite(r) = NIL <=> doing[r] \in {"expect_ready", "answer"}
         /\ InHand(r, "write") = 1 => NextWrite(r) # NIL /\ pc[r] = "io"
         /\ InHand(r, "read") = 1 => NextWrite(r) = NIL /\ pc[r] = "io"
         /\ NextWrite(r) = NIL => Told(r) = AskLen(r)
<1>c. /\ sent[r] \in Nat /\ doing[r] \in Steps /\ AtClient(r) /\ InHand(r, "write") \in {0, 1}
  BY Counters
<1>1. NextWrite(r) = NIL <=> doing[r] \in {"expect_ready", "answer"}
  <2>1. \A type \in FrameTypes : Frame(type, r) # NIL
    BY FrameIs, FramesAssumption, KindAssumption DEF FrameTypes
  <2> QED BY <1>c, <2>1, KindAssumption DEF NextWrite, Steps, FrameTypes
<1>2. InHand(r, "write") = 1 => NextWrite(r) # NIL /\ pc[r] = "io"
  BY <1>c DEF InHand, AtClient, NoIO, Converses
<1>3. InHand(r, "read") = 1 => NextWrite(r) = NIL /\ pc[r] = "io"
  BY <1>c DEF InHand, AtClient, NoIO, Converses
<1>4. NextWrite(r) = NIL => Told(r) = AskLen(r)
  <2>1. AskLen(r) \in Nat
    BY Counters
  <2> QED BY <1>c, <1>1, <1>2, <2>1 DEF Told, Begun
<1>5. Told(r) <= AskLen(r)
  <2>1. AskLen(r) \in Nat
    BY Counters
  <2>2. CASE doing[r] \in {"hello", "request"}
    BY <1>c, <2>2, UnitsAssumption DEF Told, Begun, AskLen
  <2>3. CASE doing[r] = "translate"
    <3>1. Kind[r] = "reinsert" /\ sent[r] <= Units
      BY <1>c, <2>3 DEF AtClient
    <3>2. AskLen(r) = Units + 2 /\ Begun(r) = 1 + sent[r]
      BY <2>3, <3>1 DEF AskLen, Starting, Begun
    <3> QED BY <1>c, <3>1, <3>2, UnitsAssumption DEF Told
  <2>4. CASE NextWrite(r) = NIL
    BY <1>4, <2>1, <2>4
  <2> QED BY <1>1, <1>c, <2>2, <2>3, <2>4 DEF Steps
<1> QED BY <1>1, <1>2, <1>3, <1>4, <1>5

LEMMA BeginTalk ==
  ASSUME NEW r \in Requests, NEW s \in Requests,
         session'[r] = s, doing'[r] = "request", pc'[r] = "ready", sent'[r] = 0, got'[r] = <<>>,
         io'[s] = NoIO, inq'[s] = <<>>, outq'[s] = <<>>, worker'[s] = "running" => job'[s].state = "command"
  PROVE  Talk(r)'
<1>1. InHand(r, "read")' = 0 /\ InHand(r, "write")' = 0
  BY DEF InHand, NoIO
<1>2. Told(r)' = 0 /\ Consumed(r)' = 0 /\ Heard(r)' = 0 /\ Near(r)' = 0 /\ Answered(r)' = 0 /\ ~Starting(r)'
  BY <1>1 DEF Told, Begun, Consumed, Heard, Near, Answered, Starting
<1>3. ReplyLen(r)' \in Nat /\ 0 <= ReplyLen(r)'
  BY <1>2, AnswerIs DEF ReplyLen
<1>4. AtClient(r)'
  BY DEF AtClient, NoIO
<1>5. inq'[session'[r]] = <<>> /\ outq'[session'[r]] = <<>> /\ Len(<<>>) = 0 /\ \A i : i \notin 1..0
  OBVIOUS
<1>6. Asks(r)' /\ Replies(r)'
  BY <1>1, <1>2, <1>3, <1>5 DEF Asks, Replies
<1>7. AtWorker(r)'
  BY <1>2 DEF AtWorker
<1> QED BY <1>4, <1>6, <1>7 DEF Talk

-----------------------------------------------------------------------------
(* Steps of a request that leave the sessions alone.                       *)

LEMMA CallKeeps ==
  ASSUME Facts, TypeOK', NEW r \in Requests, NEW t \in Threads \cup {ChildThread}, Call(r, t)
  PROVE  Facts'
<1> USE DEF Facts, Domains
<1>d. Domains
  BY DomainsAre
<1>i. /\ pc[r] = "idle" /\ session[r] = NIL /\ worker[r] = "none" /\ ~inherited[r] /\ Home(r) = "parent"
      /\ pc' = [pc EXCEPT ![r] = "acquire"] /\ thread' = [thread EXCEPT ![r] = t]
      /\ running[ProcessOf(t)]
  BY DEF Call, Place, Free
<1>h. Home(r)' = ProcessOf(t) /\ \A q \in Requests \ {r} : Home(q)' = Home(q)
  BY <1>d, <1>i DEF Home
<1>j. \A q \in Requests : session[q] # NIL => session[q] # r
  BY <1>i DEF Place
<1>k. \A p \in Processes : running[p] => persistent[p] # r
  BY <1>d, <1>i, NamesAssumption DEF Kept
<1>a. Unforked'
  <2>1. forks = 0 => ProcessOf(t) = "parent"
    BY <1>i DEF Unforked, ProcessOf
  <2> QED BY <2>1, <1>d, <1>h DEF Unforked, Call
<1>b. ASSUME NEW q \in Requests
      PROVE  /\ Place(q)'
             /\ Accepted(q)'
             /\ Locks(q)'
             /\ InUse(q)'
             /\ Talk(q)'
             /\ Rests(q)'
             /\ Own(q)'
             /\ Alive(q)'
  <2>1. Place(q)'
    BY <1>d, <1>h, <1>i, <1>j DEF Place, Owner, Busy, Call, workerVars
  <2>2. Accepted(q)'
    BY <1>d, HomeIs DEF Accepted, Call, workerVars
  <2>3. Locks(q)'
    BY <1>d, <1>h, <1>i DEF Locks, Holds, Call
  <2>4. InUse(q)'
    BY <1>d, <1>h, <1>i DEF InUse, Converses, Starting, Call
  <2>5. Talk(q)'
    BY <1>d, HomeIs, TalkSame DEF Converses, Call, workerVars
  <2>6. Rests(q)'
    BY <1>d, HomeIs DEF Rests, Call, workerVars
  <2>7. Own(q)'
    BY <1>d, HomeIs DEF Own, Uses, Call, workerVars
  <2>8. Alive(q)'
    BY <1>d, <1>h, <1>i DEF Alive, Owner, Converses, Starting, Call, workerVars
  <2> QED BY <2>1, <2>2, <2>3, <2>4, <2>5, <2>6, <2>7, <2>8
<1>c. ASSUME NEW p \in Processes PROVE Locked(p)' /\ Kept(p)'
  <2>1. Locked(p)'
    BY <1>d, <1>h, <1>i DEF Locked, Holds, Call
  <2>2. Kept(p)'
    BY <1>d, <1>h, <1>i, <1>k DEF Kept, Owner, Quiet, Locked, Holds, Call, workerVars
  <2> QED BY <2>1, <2>2
<1> QED BY <1>a, <1>b, <1>c

LEMMA CancelKeeps ==
  ASSUME Facts, TypeOK', NEW r \in Requests, Cancel(r)
  PROVE  Facts'
<1> USE DEF Facts, Domains
<1>d. Domains
  BY DomainsAre
<1>h. \A q : Home(q)' = Home(q)
  BY DEF Home, Cancel, workerVars
<1>a. Unforked'
  BY <1>d, HomeIs, <1>h DEF Unforked, Cancel, workerVars
<1>b. ASSUME NEW q \in Requests
      PROVE  /\ Place(q)'
             /\ Accepted(q)'
             /\ Locks(q)'
             /\ InUse(q)'
             /\ Talk(q)'
             /\ Rests(q)'
             /\ Own(q)'
             /\ Alive(q)'
  <2>1. Place(q)'
    BY <1>d, HomeIs, <1>h DEF Place, Owner, Busy, Cancel, workerVars
  <2>2. Accepted(q)'
    BY <1>d, HomeIs, <1>h DEF Accepted, Cancel, workerVars
  <2>3. Locks(q)'
    BY <1>d, HomeIs, <1>h DEF Locks, Holds, Cancel, workerVars
  <2>4. InUse(q)'
    BY <1>d, HomeIs, <1>h DEF InUse, Converses, Starting, Cancel, workerVars
  <2>5. Talk(q)'
    BY <1>d, HomeIs, <1>h, TalkSame DEF Converses, Cancel, workerVars
  <2>6. Rests(q)'
    BY <1>d, HomeIs, <1>h DEF Rests, Cancel, workerVars
  <2>7. Own(q)'
    BY <1>d, HomeIs, <1>h DEF Own, Uses, Cancel, workerVars
  <2>8. Alive(q)'
    BY <1>d, HomeIs, <1>h DEF Alive, Owner, Converses, Starting, Cancel, workerVars
  <2> QED BY <2>1, <2>2, <2>3, <2>4, <2>5, <2>6, <2>7, <2>8
<1>c. ASSUME NEW p \in Processes PROVE Locked(p)' /\ Kept(p)'
  <2>1. Locked(p)'
    BY <1>d, HomeIs, <1>h DEF Locked, Holds, Cancel, workerVars
  <2>2. Kept(p)'
    BY <1>d, HomeIs, <1>h DEF Kept, Quiet, Owner, Cancel, workerVars
  <2> QED BY <2>1, <2>2
<1> QED BY <1>a, <1>b, <1>c

LEMMA AcquireKeeps ==
  ASSUME Facts, TypeOK', NEW r \in Requests, Acquire(r)
  PROVE  Facts'
<1> USE DEF Facts, Domains
<1>d. Domains
  BY DomainsAre
<1>i. /\ pc[r] = "acquire" /\ ~inherited[r] /\ running[Home(r)] /\ lock[Home(r)] = NIL
      /\ lock' = [lock EXCEPT ![Home(r)] = r] /\ pc' = [pc EXCEPT ![r] = "choose"]
      /\ UNCHANGED <<inherited, running, persistent, thread, worker, io, inq, outq, job>>
  BY DEF Acquire, Place, Busy, workerVars
<1>h. \A q : Home(q)' = Home(q)
  BY DEF Home, Acquire, workerVars
<1>a. Unforked'
  BY <1>d, HomeIs, <1>h DEF Unforked, Acquire, workerVars
<1>b. ASSUME NEW q \in Requests
      PROVE  /\ Place(q)'
             /\ Accepted(q)'
             /\ Locks(q)'
             /\ InUse(q)'
             /\ Talk(q)'
             /\ Rests(q)'
             /\ Own(q)'
             /\ Alive(q)'
  <2>1. Place(q)'
    BY <1>d, HomeIs, <1>h DEF Place, Owner, Busy, Acquire, workerVars
  <2>2. Accepted(q)'
    BY <1>d, HomeIs, <1>h DEF Accepted, Acquire, workerVars
  <2>3. Locks(q)'
    BY <1>d, <1>h, <1>i, HomeIs, NamesAssumption DEF Locks, Holds
  <2>4. InUse(q)'
    BY <1>d, HomeIs, <1>h DEF InUse, Converses, Starting, Acquire, workerVars
  <2>5. Talk(q)'
    BY <1>d, HomeIs, <1>h, TalkSame DEF Converses, Acquire, workerVars
  <2>6. Rests(q)'
    BY <1>d, HomeIs, <1>h DEF Rests, Acquire, workerVars
  <2>7. Own(q)'
    BY <1>d, HomeIs, <1>h DEF Own, Uses, Acquire, workerVars
  <2>8. Alive(q)'
    BY <1>d, HomeIs, <1>h DEF Alive, Owner, Converses, Starting, Acquire, workerVars
  <2> QED BY <2>1, <2>2, <2>3, <2>4, <2>5, <2>6, <2>7, <2>8
<1>c. ASSUME NEW p \in Processes PROVE Locked(p)' /\ Kept(p)'
  <2>1. Locked(p)'
    BY <1>d, <1>h, <1>i, HomeIs DEF Locked, Holds
  <2>2. Kept(p)'
    BY <1>d, <1>h, <1>i, HomeIs DEF Locked, Holds, Kept, Quiet, Owner
  <2> QED BY <2>1, <2>2
<1> QED BY <1>a, <1>b, <1>c

LEMMA CancelAcquireKeeps ==
  ASSUME Facts, TypeOK', NEW r \in Requests, CancelAcquire(r)
  PROVE  Facts'
<1> USE DEF Facts, Domains
<1>d. Domains
  BY DomainsAre
<1>h. \A q : Home(q)' = Home(q)
  BY DEF Home, CancelAcquire, workerVars
<1>a. Unforked'
  BY <1>d, HomeIs, <1>h DEF Unforked, CancelAcquire, workerVars
<1>b. ASSUME NEW q \in Requests
      PROVE  /\ Place(q)'
             /\ Accepted(q)'
             /\ Locks(q)'
             /\ InUse(q)'
             /\ Talk(q)'
             /\ Rests(q)'
             /\ Own(q)'
             /\ Alive(q)'
  <2>1. Place(q)'
    BY <1>d, HomeIs, <1>h DEF Place, Owner, Busy, CancelAcquire, workerVars
  <2>2. Accepted(q)'
    BY <1>d, HomeIs, <1>h DEF Accepted, CancelAcquire, workerVars
  <2>3. Locks(q)'
    BY <1>d, HomeIs, <1>h DEF Locks, Holds, CancelAcquire, workerVars
  <2>4. InUse(q)'
    BY <1>d, HomeIs, <1>h DEF InUse, Converses, Starting, CancelAcquire, workerVars
  <2>5. Talk(q)'
    BY <1>d, HomeIs, <1>h, TalkSame DEF Converses, CancelAcquire, workerVars
  <2>6. Rests(q)'
    BY <1>d, HomeIs, <1>h DEF Rests, CancelAcquire, workerVars
  <2>7. Own(q)'
    BY <1>d, HomeIs, <1>h DEF Own, Uses, CancelAcquire, workerVars
  <2>8. Alive(q)'
    BY <1>d, HomeIs, <1>h DEF Alive, Owner, Converses, Starting, CancelAcquire, workerVars
  <2> QED BY <2>1, <2>2, <2>3, <2>4, <2>5, <2>6, <2>7, <2>8
<1>c. ASSUME NEW p \in Processes PROVE Locked(p)' /\ Kept(p)'
  <2>1. Locked(p)'
    BY <1>d, HomeIs, <1>h DEF Locked, Holds, CancelAcquire, workerVars
  <2>2. Kept(p)'
    BY <1>d, HomeIs, <1>h DEF Kept, Quiet, Owner, CancelAcquire, workerVars
  <2> QED BY <2>1, <2>2
<1> QED BY <1>a, <1>b, <1>c

LEMMA ReuseKeeps ==
  ASSUME Facts, TypeOK', NEW r \in Requests, Reuse(r)
  PROVE  Facts'
<1> USE DEF Facts, Domains
<1>d. Domains
  BY DomainsAre
<1> DEFINE s == persistent[Home(r)]
<1>i. /\ pc[r] = "choose" /\ ~inherited[r] /\ session[r] = NIL /\ doing[r] = "hello" /\ sent[r] = 0 /\ got[r] = <<>>
      /\ running[Home(r)] /\ lock[Home(r)] = r
      /\ s # NIL /\ s \in Requests /\ Owner(s) = Home(r) /\ worker[s] = "running" /\ Quiet(s)
  BY <1>d, HomeIs DEF Reuse, Reusable, Place, Busy, Locks, Holds, Kept
<1>u. /\ session' = [session EXCEPT ![r] = s] /\ doing' = [doing EXCEPT ![r] = "request"]
      /\ pc' = [pc EXCEPT ![r] = "ready"]
      /\ UNCHANGED <<sent, got, thread, inherited, lock, persistent, worker, inq, outq, job, io, running>>
  BY DEF Reuse, workerVars
<1> HIDE DEF s
<1>h. \A q : Home(q)' = Home(q)
  BY DEF Home, Reuse, workerVars
<1>a. Unforked'
  BY <1>d, HomeIs, <1>h DEF Unforked, Reuse, workerVars
<1>b. ASSUME NEW q \in Requests
      PROVE  /\ Place(q)'
             /\ Accepted(q)'
             /\ Locks(q)'
             /\ InUse(q)'
             /\ Talk(q)'
             /\ Rests(q)'
             /\ Own(q)'
             /\ Alive(q)'
  <2>1. Place(q)'
    BY <1>d, <1>h, <1>i, <1>u DEF Place, Owner, Busy
  <2>2. Accepted(q)'
    BY <1>d, HomeIs, <1>h DEF Accepted, Reuse, workerVars
  <2>3. Locks(q)'
    BY <1>d, HomeIs, <1>h DEF Locks, Holds, Reuse, workerVars
  <2>4. InUse(q)'
    <3>1. CASE q = r
      BY <3>1, <1>d, <1>h, <1>i, <1>u DEF InUse, Starting, s
    <3>2. CASE q # r
      BY <3>2, <1>d, <1>h, <1>u DEF InUse, Converses, Starting
    <3> QED BY <3>1, <3>2
  <2>5. Talk(q)'
    <3>1. CASE q = r
      <4>1. session'[r] = s /\ doing'[r] = "request" /\ pc'[r] = "ready" /\ sent'[r] = 0 /\ got'[r] = <<>>
        BY <1>d, <1>i, <1>u
      <4>2. io'[s] = NoIO /\ inq'[s] = <<>> /\ outq'[s] = <<>> /\ worker'[s] = "running" /\ job'[s].state = "command"
        BY <1>i, <1>u DEF Quiet
      <4> QED BY <3>1, <4>1, <4>2, <1>i, BeginTalk
    <3>2. CASE q # r
      BY <3>2, <1>d, <1>u, TalkSame DEF Converses
    <3> QED BY <3>1, <3>2
  <2>6. Rests(q)'
    BY <1>d, HomeIs, <1>h DEF Rests, Reuse, workerVars
  <2>7. Own(q)'
    BY <1>d, <1>i, <1>u, NamesAssumption DEF Own, Uses
  <2>8. Alive(q)'
    BY <1>d, HomeIs, <1>h DEF Alive, Owner, Converses, Starting, Reuse, workerVars
  <2> QED BY <2>1, <2>2, <2>3, <2>4, <2>5, <2>6, <2>7, <2>8
<1>c. ASSUME NEW p \in Processes PROVE Locked(p)' /\ Kept(p)'
  <2>1. Locked(p)'
    BY <1>d, HomeIs, <1>h DEF Locked, Holds, Reuse, workerVars
  <2>2. Kept(p)'
    BY <1>d, HomeIs, <1>h DEF Kept, Quiet, Owner, Reuse, workerVars
  <2> QED BY <2>1, <2>2
<1> QED BY <1>a, <1>b, <1>c

LEMMA ResumeKeeps ==
  ASSUME Facts, TypeOK', NEW r \in Requests, NEW t \in Threads \cup {ChildThread}, ResumeGenerator(r, t)
  PROVE  Facts'
<1> USE DEF Facts, Domains
<1>d. Domains
  BY DomainsAre
<1>u. /\ pc[r] = "suspended" /\ pc' = [pc EXCEPT ![r] = "ready"] /\ thread' = [thread EXCEPT ![r] = t] /\ ProcessOf(t) = Home(r)
  BY DEF ResumeGenerator
<1>h. \A q \in Requests : Home(q)' = Home(q)
  BY <1>d DEF Home, ResumeGenerator, workerVars
<1>a. Unforked'
  BY <1>d, HomeIs, <1>h DEF Unforked, ResumeGenerator, workerVars
<1>b. ASSUME NEW q \in Requests
      PROVE  /\ Place(q)'
             /\ Accepted(q)'
             /\ Locks(q)'
             /\ InUse(q)'
             /\ Talk(q)'
             /\ Rests(q)'
             /\ Own(q)'
             /\ Alive(q)'
  <2>1. Place(q)'
    BY <1>d, HomeIs, <1>h DEF Place, Owner, Busy, ResumeGenerator, workerVars
  <2>2. Accepted(q)'
    BY <1>d, HomeIs, <1>h DEF Accepted, ResumeGenerator, workerVars
  <2>3. Locks(q)'
    BY <1>d, HomeIs, <1>h DEF Locks, Holds, ResumeGenerator, workerVars
  <2>4. InUse(q)'
    BY <1>d, HomeIs, <1>h DEF InUse, Converses, Starting, ResumeGenerator, workerVars
  <2>5. Talk(q)'
    <3>1. CASE q = r
      <4>1. Talk(r)
        BY DEF Facts
      <4>2. NextWrite(r)' = NextWrite(r) /\ (Asks(r) => Asks(r)') /\ (Replies(r) => Replies(r)') /\ (AtWorker(r) => AtWorker(r)')
        BY SidesSame DEF ResumeGenerator, workerVars
      <4>3. AtClient(r) => AtClient(r)'
        BY <1>d, <1>u, <4>2 DEF AtClient, ResumeGenerator
      <4> QED BY <3>1, <4>1, <4>2, <4>3, <1>d, <1>u DEF Talk, Converses, ResumeGenerator
    <3>2. CASE q # r
      BY <3>2, <1>d, TalkSame DEF Converses, ResumeGenerator, workerVars
    <3> QED BY <3>1, <3>2
  <2>6. Rests(q)'
    BY <1>d, HomeIs, <1>h DEF Rests, ResumeGenerator, workerVars
  <2>7. Own(q)'
    BY <1>d, HomeIs, <1>h DEF Own, Uses, ResumeGenerator, workerVars
  <2>8. Alive(q)'
    BY <1>d, HomeIs, <1>h DEF Alive, Owner, Converses, Starting, ResumeGenerator, workerVars
  <2> QED BY <2>1, <2>2, <2>3, <2>4, <2>5, <2>6, <2>7, <2>8
<1>c. ASSUME NEW p \in Processes PROVE Locked(p)' /\ Kept(p)'
  <2>1. Locked(p)'
    BY <1>d, HomeIs, <1>h DEF Locked, Holds, ResumeGenerator, workerVars
  <2>2. Kept(p)'
    BY <1>d, HomeIs, <1>h DEF Kept, Quiet, Owner, ResumeGenerator, workerVars
  <2> QED BY <2>1, <2>2
<1> QED BY <1>a, <1>b, <1>c

-----------------------------------------------------------------------------
(* The end of a request.                                                   *)

LEMMA FailIs ==
  ASSUME Facts, NEW r \in Requests, Fail(r), pc[r] \in {"ready", "io", "suspended"}
  PROVE  /\ pc' = [pc EXCEPT ![r] = "failed"]
         /\ UNCHANGED <<doing, sent, thread, session, inherited, job>>
         /\ inherited[r] => UNCHANGED <<lock, persistent, worker, inq, outq, io>>
         /\ ~inherited[r] =>
              /\ session[r] \in Requests /\ lock[Home(r)] = r
              /\ lock' = [lock EXCEPT ![Home(r)] = NIL]
              /\ persistent' = [persistent EXCEPT ![Home(r)] = NIL]
              /\ worker' = [worker EXCEPT ![session[r]] = "dead"]
              /\ inq' = [inq EXCEPT ![session[r]] = <<>>]
              /\ outq' = [outq EXCEPT ![session[r]] = <<>>]
              /\ io' = [io EXCEPT ![session[r]] = NoIO]
<1>d. Domains
  BY DomainsAre
<1>1. running[Home(r)]
  BY DEF Facts, Place, Busy
<1>2. CASE inherited[r]
  <2>1. lock[Home(r)] # r
    BY <1>1, <1>2, HomeIs, NamesAssumption DEF Facts, Locked, Holds
  <2> QED BY <1>2, <2>1 DEF Fail, Leave, Release, HoldsLock, workerVars
<1>3. CASE ~inherited[r]
  <2>1. session[r] # NIL /\ session[r] \in Requests /\ lock[Home(r)] = r
        /\ (persistent[Home(r)] = session[r] \/ persistent[Home(r)] = NIL)
    <3>1. InUse(r) /\ Locks(r)
      BY DEF Facts
    <3>2. Converses(r) /\ Holds(r)
      BY <1>3 DEF Converses, Holds
    <3> QED BY <3>1, <3>2, <1>d DEF InUse, Locks, Domains
  <2>2. Terminate(session[r]) /\ lock' = [lock EXCEPT ![Home(r)] = NIL]
    BY <1>3, <2>1 DEF Fail, Leave, Release, HoldsLock
  <2>3. persistent' = [persistent EXCEPT ![Home(r)] = NIL]
    <3>1. persistent \in [Processes -> Names]
      BY DEF Facts, TypeOK
    <3>2. persistent[Home(r)] = NIL => persistent = [persistent EXCEPT ![Home(r)] = NIL]
      BY <3>1, HomeIs
    <3> QED BY <1>3, <2>1, <3>2 DEF Fail, Leave
  <2> QED BY <1>3, <2>1, <2>2, <2>3 DEF Fail, Terminate
<1> QED BY <1>2, <1>3

LEMMA FailInheritedKeeps ==
  ASSUME Facts, TypeOK', NEW r \in Requests, Fail(r), pc[r] \in {"ready", "io", "suspended"},
         UNCHANGED <<got, running, forks>>, inherited[r]
  PROVE  Facts'
<1> USE DEF Facts, Domains
<1>d. Domains
  BY DomainsAre
<1>u. /\ pc' = [pc EXCEPT ![r] = "failed"] /\ inherited[r]
      /\ UNCHANGED <<doing, sent, got, thread, session, inherited, job, lock, persistent, worker, inq, outq, io,
                     running, forks>>
  BY FailIs
<1>h. \A q : Home(q)' = Home(q)
  BY <1>u DEF Home
<1>a. Unforked'
  BY <1>d, HomeIs, <1>u, <1>h DEF Unforked
<1>b. ASSUME NEW q \in Requests
      PROVE  /\ Place(q)'
             /\ Accepted(q)'
             /\ Locks(q)'
             /\ InUse(q)'
             /\ Talk(q)'
             /\ Rests(q)'
             /\ Own(q)'
             /\ Alive(q)'
  <2>1. Place(q)'
    BY <1>d, HomeIs, <1>u, <1>h DEF Place, Owner, Busy
  <2>2. Accepted(q)'
    BY <1>d, HomeIs, <1>u, <1>h DEF Accepted
  <2>3. Locks(q)'
    BY <1>d, HomeIs, <1>u, <1>h DEF Locks, Holds
  <2>4. InUse(q)'
    BY <1>d, HomeIs, <1>u, <1>h DEF InUse, Converses, Starting
  <2>5. Talk(q)'
    BY <1>d, HomeIs, <1>u, <1>h, TalkSame DEF Converses
  <2>6. Rests(q)'
    BY <1>d, HomeIs, <1>u, <1>h DEF Rests
  <2>7. Own(q)'
    BY <1>d, HomeIs, <1>u, <1>h DEF Own, Uses
  <2>8. Alive(q)'
    BY <1>d, HomeIs, <1>u, <1>h DEF Alive, Owner, Converses, Starting
  <2> QED BY <2>1, <2>2, <2>3, <2>4, <2>5, <2>6, <2>7, <2>8
<1>c. ASSUME NEW p \in Processes PROVE Locked(p)' /\ Kept(p)'
  <2>1. Locked(p)'
    BY <1>d, HomeIs, <1>u, <1>h DEF Locked, Holds
  <2>2. Kept(p)'
    BY <1>d, HomeIs, <1>u, <1>h DEF Kept, Quiet, Owner
  <2> QED BY <2>1, <2>2
<1> QED BY <1>a, <1>b, <1>c

LEMMA FailKeeps ==
  ASSUME Facts, TypeOK', NEW r \in Requests, Fail(r), pc[r] \in {"ready", "io", "suspended"},
         UNCHANGED <<got, running, forks>>, ~inherited[r]
  PROVE  Facts'
<1> USE DEF Facts, Domains
<1>d. Domains
  BY DomainsAre
<1> DEFINE s == session[r]
           p0 == Home(r)
<1>i. /\ pc[r] \in {"ready", "io", "suspended"} /\ ~inherited[r] /\ Holds(r) /\ Converses(r)
      /\ s \in Requests /\ Owner(s) = p0 /\ worker[s] # "none" /\ p0 \in Processes /\ NIL \notin Requests
      /\ persistent[p0] = IF Starting(r) THEN NIL ELSE s
      /\ Starting(r) => s = r
  BY FailIs, HomeIs, NamesAssumption DEF Holds, Converses, Place, InUse
<1>n. \A q \in Requests : (Holds(q) /\ Home(q) = p0) \/ (Converses(q) /\ session[q] = s) => q = r
  BY <1>i, OneHolder, OneConverser
<1>u. /\ pc' = [pc EXCEPT ![r] = "failed"] /\ lock' = [lock EXCEPT ![p0] = NIL]
      /\ persistent' = [persistent EXCEPT ![p0] = NIL] /\ worker' = [worker EXCEPT ![s] = "dead"]
      /\ inq' = [inq EXCEPT ![s] = <<>>] /\ outq' = [outq EXCEPT ![s] = <<>>] /\ io' = [io EXCEPT ![s] = NoIO]
      /\ UNCHANGED <<doing, sent, got, thread, session, inherited, job, running, forks>>
  BY FailIs
<1>h. \A q : Home(q)' = Home(q)
  BY <1>u DEF Home
<1>p. p0 = Home(r) /\ s = session[r]
  OBVIOUS
<1> HIDE DEF s, p0
<1>a. Unforked'
  BY <1>d, HomeIs, <1>u, <1>h, <1>i, <1>n DEF Unforked
<1>b. ASSUME NEW q \in Requests
      PROVE  /\ Place(q)'
             /\ Accepted(q)'
             /\ Locks(q)'
             /\ InUse(q)'
             /\ Talk(q)'
             /\ Rests(q)'
             /\ Own(q)'
             /\ Alive(q)'
  <2>1. Place(q)'
    <3>1. Place(q) /\ (session[q] = NIL \/ session[q] \in Requests)
      BY <1>d
    <3>2. \A x \in Requests : worker'[x] = IF x = s THEN "dead" ELSE worker[x]
      BY <1>u, <1>d
    <3>3. pc'[q] = (IF q = r THEN "failed" ELSE pc[q]) /\ s = session[r]
      BY <1>u, <1>d, <1>p
    <3>4. CASE q = r
      BY <3>1, <3>2, <3>3, <3>4, <1>u, <1>h, <1>i DEF Place, Owner, Busy
    <3>5. CASE q # r
      BY <3>1, <3>2, <3>3, <3>5, <1>u, <1>h, <1>i DEF Place, Owner, Busy
    <3> QED BY <3>4, <3>5
  <2>2. Accepted(q)'
    BY <1>d, HomeIs, <1>u, <1>h, <1>i, <1>n DEF Accepted
  <2>3. Locks(q)'
    BY <1>d, HomeIs, <1>u, <1>h, <1>i, <1>n DEF Locks, Holds
  <2>4. InUse(q)'
    BY <1>d, HomeIs, <1>u, <1>h, <1>i, <1>n DEF InUse, Converses, Starting
  <2>5. Talk(q)'
    <3>1. CASE Converses(q)'
      <4>1. q # r /\ Converses(q) /\ session[q] # s /\ pc'[q] = pc[q]
        BY <3>1, <1>d, <1>i, <1>n, <1>u DEF Converses
      <4>2. session[q] \in Requests
        BY <4>1, SessionIs
      <4>3. /\ io'[session[q]] = io[session[q]] /\ job'[session[q]] = job[session[q]]
            /\ inq'[session[q]] = inq[session[q]] /\ outq'[session[q]] = outq[session[q]]
            /\ worker'[session[q]] = worker[session[q]]
        BY <4>1, <4>2, <1>d, <1>u
      <4> QED BY <4>1, <4>3, <1>u, TalkSame
    <3>2. CASE ~Converses(q)'
      BY <3>2 DEF Talk
    <3> QED BY <3>1, <3>2
  <2>6. Rests(q)'
    BY <1>d, <1>u, <1>i DEF Rests, NoIO
  <2>7. Own(q)'
    <3>1. CASE q = s
      BY <3>1, <1>d, <1>u, <1>i DEF Own, NoIO
    <3>2. CASE q # s
      BY <3>2, <1>d, <1>u DEF Own, Uses
    <3> QED BY <3>1, <3>2
  <2>8. Alive(q)'
    <3> SUFFICES ASSUME worker'[q] = "running", running[Owner(q)] PROVE persistent'[Owner(q)] = q \/ (Converses(q)' /\ Starting(q)')
      BY <1>h, <1>u DEF Alive, Owner
    <3>1. q # s /\ worker[q] = "running" /\ (persistent[Owner(q)] = q \/ (Converses(q) /\ Starting(q)))
      BY <1>d, <1>u, <1>i DEF Alive
    <3>2. q # r \/ ~Starting(q)
      BY <3>1, <1>i
    <3>3. CASE Converses(q) /\ Starting(q)
      BY <3>2, <3>3, <1>u, <1>d DEF Converses, Starting
    <3>4. CASE persistent[Owner(q)] = q
      <4>1. Owner(q) # p0
        BY <3>1, <3>4, <1>i
      <4> QED BY <3>4, <4>1, <1>u, <1>d, HomeIs DEF Owner
    <3> QED BY <3>1, <3>3, <3>4
  <2> QED BY <2>1, <2>2, <2>3, <2>4, <2>5, <2>6, <2>7, <2>8
<1>c. ASSUME NEW p \in Processes PROVE Locked(p)' /\ Kept(p)'
  <2>1. Locked(p)'
    <3>1. CASE p = p0
      BY <3>1, <1>d, <1>u, <1>i DEF Locked
    <3>2. CASE p # p0
      BY <3>2, <1>d, <1>u, <1>h, <1>p DEF Locked, Holds
    <3> QED BY <3>1, <3>2
  <2>2. Kept(p)'
    <3>1. CASE p = p0
      BY <3>1, <1>d, <1>u, <1>i DEF Kept
    <3>2. CASE p # p0
      BY <3>2, <1>d, <1>u, <1>h, <1>p, <1>i DEF Kept, Locked, Quiet, Owner
    <3> QED BY <3>1, <3>2
  <2> QED BY <2>1, <2>2
<1> QED BY <1>a, <1>b, <1>c

-----------------------------------------------------------------------------
(* The choice of a session: nothing is started, or a worker is.            *)

LEMMA CannotStartKeeps ==
  ASSUME Facts, TypeOK', NEW r \in Requests, CannotStart(r),
         UNCHANGED <<persistent, workerVars, io>>
  PROVE  Facts'
<1> USE DEF Facts, Domains
<1>d. Domains
  BY DomainsAre
<1> DEFINE s == persistent[Home(r)]
           p0 == Home(r)
<1>i. /\ pc[r] = "choose" /\ ~inherited[r] /\ Holds(r) /\ session[r] = NIL /\ doing[r] = "hello" /\ sent[r] = 0
      /\ got[r] = <<>> /\ worker[r] = "none" /\ running[p0] /\ lock[p0] = r /\ p0 \in Processes /\ NIL \notin Requests
      /\ s # NIL => s \in Requests /\ Owner(s) = p0 /\ worker[s] # "none" /\ Quiet(s) /\ s # r
  <2>1. pc[r] = "choose"
    BY DEF CannotStart
  <2>2. /\ ~inherited[r] /\ session[r] = NIL /\ doing[r] = "hello" /\ sent[r] = 0 /\ got[r] = <<>>
        /\ worker[r] = "none" /\ running[p0]
    BY <2>1 DEF Place, Busy
  <2>3. Holds(r) /\ lock[p0] = r /\ p0 \in Processes /\ NIL \notin Requests
    BY <2>1, <2>2, HomeIs, NamesAssumption DEF Holds, Locks
  <2>4. s # NIL => s \in Requests /\ Owner(s) = p0 /\ worker[s] # "none" /\ Quiet(s)
    BY <1>d, <2>1, <2>2, <2>3 DEF Kept
  <2> QED BY <2>1, <2>2, <2>3, <2>4
<1>n. \A q \in Requests : Holds(q) /\ Home(q) = p0 => q = r
  BY <1>i, OneHolder
<1>m. \A q \in Requests : Converses(q) => q # r /\ session[q] \in Requests /\ session[q] # s /\ session[q] # r
  <2> SUFFICES ASSUME NEW q \in Requests, Converses(q) PROVE q # r /\ session[q] \in Requests /\ session[q] # s /\ session[q] # r
    OBVIOUS
  <2>1. session[q] \in Requests /\ q # r /\ Holds(q)
    BY <1>i, SessionIs DEF Converses, Holds
  <2>2. worker[session[q]] # "none" /\ Owner(session[q]) = Home(q)
    BY <2>1, <1>i DEF Place, Converses
  <2> QED BY <2>1, <2>2, <1>n, <1>i
<1>u. /\ pc' = [pc EXCEPT ![r] = "failed"] /\ lock' = [lock EXCEPT ![p0] = NIL]
      /\ UNCHANGED <<doing, sent, got, thread, session, inherited, job, running, forks, persistent, worker, inq, outq, io>>
  BY <1>i DEF CannotStart, Release, HoldsLock, workerVars
<1>h. \A q : Home(q)' = Home(q)
  BY <1>u DEF Home
<1> HIDE DEF s, p0
<1>a. Unforked'
  BY <1>d, HomeIs, <1>u, <1>h, <1>i, <1>n DEF Unforked
<1>b. ASSUME NEW q \in Requests
      PROVE  /\ Place(q)'
             /\ Accepted(q)'
             /\ Locks(q)'
             /\ InUse(q)'
             /\ Talk(q)'
             /\ Rests(q)'
             /\ Own(q)'
             /\ Alive(q)'
  <2>1. Place(q)'
    BY <1>d, HomeIs, <1>u, <1>h, <1>i, <1>n DEF Place, Owner, Busy
  <2>2. Accepted(q)'
    BY <1>d, HomeIs, <1>u, <1>h, <1>i, <1>n DEF Accepted
  <2>3. Locks(q)'
    BY <1>d, HomeIs, <1>u, <1>h, <1>i, <1>n DEF Locks, Holds
  <2>4. InUse(q)'
    BY <1>d, HomeIs, <1>u, <1>h, <1>i, <1>n DEF InUse, Converses, Starting
  <2>5. Talk(q)'
    BY <1>d, HomeIs, <1>u, <1>h, <1>i, <1>n, TalkSame DEF Converses
  <2>6. Rests(q)'
    BY <1>d, HomeIs, <1>u, <1>h, <1>i, <1>n DEF Rests
  <2>7. Own(q)'
    BY <1>d, HomeIs, <1>u, <1>h, <1>i, <1>n DEF Own, Uses
  <2>8. Alive(q)'
    BY <1>d, HomeIs, <1>u, <1>h, <1>i, <1>n DEF Alive, Owner, Converses, Starting
  <2> QED BY <2>1, <2>2, <2>3, <2>4, <2>5, <2>6, <2>7, <2>8
<1>c. ASSUME NEW p \in Processes PROVE Locked(p)' /\ Kept(p)'
  <2>1. Locked(p)'
    BY <1>d, HomeIs, <1>u, <1>h, <1>i, <1>n DEF Locked, Holds
  <2>2. Kept(p)'
    <3>1. CASE p = p0
      BY <3>1, <1>d, <1>u, <1>h, <1>i DEF Kept, Quiet, Owner, s, p0
    <3>2. CASE p # p0
      BY <3>2, <1>d, <1>u, <1>h, <1>i DEF Kept, Locked, Quiet, Owner, p0
    <3> QED BY <3>1, <3>2
  <2> QED BY <2>1, <2>2
<1> QED BY <1>a, <1>b, <1>c

LEMMA CannotStartDiscardingKeeps ==
  ASSUME Facts, TypeOK', NEW r \in Requests, CannotStart(r),
         persistent[Home(r)] # NIL, Terminate(persistent[Home(r)]), persistent' = [persistent EXCEPT ![Home(r)] = NIL]
  PROVE  Facts'
<1> USE DEF Facts, Domains
<1>d. Domains
  BY DomainsAre
<1> DEFINE s == persistent[Home(r)]
           p0 == Home(r)
<1>i. /\ pc[r] = "choose" /\ ~inherited[r] /\ Holds(r) /\ session[r] = NIL /\ doing[r] = "hello" /\ sent[r] = 0
      /\ got[r] = <<>> /\ worker[r] = "none" /\ running[p0] /\ lock[p0] = r /\ p0 \in Processes /\ NIL \notin Requests
      /\ s # NIL => s \in Requests /\ Owner(s) = p0 /\ worker[s] # "none" /\ Quiet(s) /\ s # r
  <2>1. pc[r] = "choose"
    BY DEF CannotStart
  <2>2. /\ ~inherited[r] /\ session[r] = NIL /\ doing[r] = "hello" /\ sent[r] = 0 /\ got[r] = <<>>
        /\ worker[r] = "none" /\ running[p0]
    BY <2>1 DEF Place, Busy
  <2>3. Holds(r) /\ lock[p0] = r /\ p0 \in Processes /\ NIL \notin Requests
    BY <2>1, <2>2, HomeIs, NamesAssumption DEF Holds, Locks
  <2>4. s # NIL => s \in Requests /\ Owner(s) = p0 /\ worker[s] # "none" /\ Quiet(s)
    BY <1>d, <2>1, <2>2, <2>3 DEF Kept
  <2> QED BY <2>1, <2>2, <2>3, <2>4
<1>n. \A q \in Requests : Holds(q) /\ Home(q) = p0 => q = r
  BY <1>i, OneHolder
<1>m. \A q \in Requests : Converses(q) => q # r /\ session[q] \in Requests /\ session[q] # s /\ session[q] # r
  <2> SUFFICES ASSUME NEW q \in Requests, Converses(q) PROVE q # r /\ session[q] \in Requests /\ session[q] # s /\ session[q] # r
    OBVIOUS
  <2>1. session[q] \in Requests /\ q # r /\ Holds(q)
    BY <1>i, SessionIs DEF Converses, Holds
  <2>2. worker[session[q]] # "none" /\ Owner(session[q]) = Home(q)
    BY <2>1, <1>i DEF Place, Converses
  <2> QED BY <2>1, <2>2, <1>n, <1>i
<1>u. /\ pc' = [pc EXCEPT ![r] = "failed"] /\ lock' = [lock EXCEPT ![p0] = NIL]
      /\ persistent' = [persistent EXCEPT ![p0] = NIL] /\ worker' = [worker EXCEPT ![s] = "dead"]
      /\ inq' = [inq EXCEPT ![s] = <<>>] /\ outq' = [outq EXCEPT ![s] = <<>>] /\ io' = [io EXCEPT ![s] = NoIO]
      /\ UNCHANGED <<doing, sent, got, thread, session, inherited, job, running, forks>> /\ s # NIL
  BY <1>i DEF CannotStart, Release, HoldsLock, Terminate
<1>h. \A q : Home(q)' = Home(q)
  BY <1>u DEF Home
<1>p. p0 = Home(r) /\ s = persistent[p0]
  OBVIOUS
<1> HIDE DEF s, p0
<1>a. Unforked'
  BY <1>d, HomeIs, <1>u, <1>h, <1>i, <1>n DEF Unforked
<1>b. ASSUME NEW q \in Requests
      PROVE  /\ Place(q)'
             /\ Accepted(q)'
             /\ Locks(q)'
             /\ InUse(q)'
             /\ Talk(q)'
             /\ Rests(q)'
             /\ Own(q)'
             /\ Alive(q)'
  <2>1. Place(q)'
    <3>1. Place(q) /\ (session[q] = NIL \/ session[q] \in Requests)
      BY <1>d
    <3>2. \A x \in Requests : worker'[x] = IF x = s THEN "dead" ELSE worker[x]
      BY <1>u, <1>d
    <3>3. pc'[q] = IF q = r THEN "failed" ELSE pc[q]
      BY <1>u, <1>d
    <3>4. CASE q = r
      BY <3>1, <3>2, <3>3, <3>4, <1>u, <1>h, <1>i DEF Place, Owner, Busy
    <3>5. CASE q # r
      BY <3>1, <3>2, <3>3, <3>5, <1>u, <1>h, <1>i DEF Place, Owner, Busy
    <3> QED BY <3>4, <3>5
  <2>2. Accepted(q)'
    BY <1>d, HomeIs, <1>u, <1>h, <1>i, <1>n DEF Accepted
  <2>3. Locks(q)'
    BY <1>d, HomeIs, <1>u, <1>h, <1>i, <1>n DEF Locks, Holds
  <2>4. InUse(q)'
    <3>1. Converses(q)' => Converses(q) /\ q # r /\ Home(q) # p0
      BY <1>i, <1>u, <1>d, <1>n DEF Converses, Holds
    <3> QED BY <3>1, <1>u, <1>d, <1>h, HomeIs DEF InUse, Starting
  <2>5. Talk(q)'
    <3>1. CASE Converses(q)' /\ q # r
      <4>1. Converses(q) /\ session[q] # s /\ session[q] # r /\ session[q] \in Requests /\ pc'[q] = pc[q]
        BY <3>1, <1>d, <1>m, <1>u DEF Converses
      <4>3. /\ io'[session[q]] = io[session[q]] /\ job'[session[q]] = job[session[q]]
            /\ inq'[session[q]] = inq[session[q]] /\ outq'[session[q]] = outq[session[q]]
            /\ worker'[session[q]] = worker[session[q]]
        BY <4>1, <1>d, <1>u
      <4> QED BY <3>1, <4>1, <4>3, <1>u, <1>d, TalkSame
    <3>2. CASE ~Converses(q)'
      BY <3>2 DEF Talk
    <3>3. CASE q = r
      BY <3>3, <1>u, <1>d DEF Talk, Converses
    <3> QED BY <3>1, <3>2, <3>3
  <2>6. Rests(q)'
    BY <1>d, <1>u, <1>i DEF Rests, NoIO
  <2>7. Own(q)'
    <3>1. CASE q = s
      BY <3>1, <1>d, <1>u, <1>i DEF Own, NoIO
    <3>2. CASE q # s
      BY <3>2, <1>d, <1>u DEF Own, Uses
    <3> QED BY <3>1, <3>2
  <2>8. Alive(q)'
    <3> SUFFICES ASSUME worker'[q] = "running", running[Owner(q)] PROVE persistent'[Owner(q)] = q \/ (Converses(q)' /\ Starting(q)')
      BY <1>h, <1>u DEF Alive, Owner
    <3>1. q # s /\ worker[q] = "running" /\ (persistent[Owner(q)] = q \/ (Converses(q) /\ Starting(q)))
      BY <1>d, <1>u, <1>i DEF Alive
    <3>3. CASE Converses(q) /\ Starting(q)
      BY <1>m, <3>3, <1>u, <1>d DEF Converses, Starting
    <3>4. CASE persistent[Owner(q)] = q
      <4>1. Owner(q) # p0
        BY <3>1, <3>4, <1>p
      <4> QED BY <3>4, <4>1, <1>u, <1>d, HomeIs DEF Owner
    <3> QED BY <3>1, <3>3, <3>4
  <2> QED BY <2>1, <2>2, <2>3, <2>4, <2>5, <2>6, <2>7, <2>8
<1>c. ASSUME NEW p \in Processes PROVE Locked(p)' /\ Kept(p)'
  <2>1. Locked(p)'
    <3>1. CASE p = p0
      BY <3>1, <1>d, <1>u, <1>i DEF Locked
    <3>2. CASE p # p0
      BY <3>2, <1>d, <1>u, <1>h, <1>p DEF Locked, Holds
    <3> QED BY <3>1, <3>2
  <2>2. Kept(p)'
    <3>1. CASE p = p0
      BY <3>1, <1>d, <1>u, <1>i DEF Kept
    <3>2. CASE p # p0
      BY <3>2, <1>d, <1>u, <1>h, <1>p, <1>i DEF Kept, Locked, Quiet, Owner
    <3> QED BY <3>1, <3>2
  <2> QED BY <2>1, <2>2
<1> QED BY <1>a, <1>b, <1>c

LEMMA NewSession ==
  ASSUME NEW r \in Requests, session'[r] = r, doing'[r] = "hello", pc'[r] = "ready", sent'[r] = 0, got'[r] = <<>>,
         io'[r] = NoIO, inq'[r] = <<>>, outq'[r] = <<>>, job'[r].state = "boot"
  PROVE  (AtClient(r) /\ Asks(r) /\ Replies(r) /\ AtWorker(r))'
<1>1. InHand(r, "read")' = 0 /\ InHand(r, "write")' = 0
  BY DEF InHand, NoIO
<1>2. Told(r)' = 0 /\ Consumed(r)' = 0 /\ Heard(r)' = 0 /\ Near(r)' = 0 /\ Answered(r)' = 0 /\ Starting(r)' /\ ReplyLen(r)' = 1
  BY <1>1 DEF Told, Begun, Consumed, Heard, Near, Answered, Starting, ReplyLen
<1>4. AtClient(r)'
  BY DEF AtClient, NoIO
<1>5. inq'[session'[r]] = <<>> /\ outq'[session'[r]] = <<>> /\ Len(<<>>) = 0 /\ \A i : i \notin 1..0
  OBVIOUS
<1>6. Asks(r)' /\ Replies(r)'
  BY <1>1, <1>2, <1>5 DEF Asks, Replies
<1>7. AtWorker(r)'
  BY <1>2 DEF AtWorker
<1> QED BY <1>4, <1>6, <1>7

LEMMA StartWorkerKeeps ==
  ASSUME Facts, TypeOK', NEW r \in Requests, StartWorker(r)
  PROVE  Facts'
<1> USE DEF Facts, Domains
<1>d. Domains
  BY DomainsAre
<1> DEFINE s == persistent[Home(r)]
           p0 == Home(r)
<1>i. /\ pc[r] = "choose" /\ ~inherited[r] /\ Holds(r) /\ session[r] = NIL /\ doing[r] = "hello" /\ sent[r] = 0
      /\ got[r] = <<>> /\ worker[r] = "none" /\ running[p0] /\ lock[p0] = r /\ p0 \in Processes /\ NIL \notin Requests
      /\ s # NIL => s \in Requests /\ Owner(s) = p0 /\ worker[s] # "none" /\ Quiet(s) /\ s # r
  <2>1. pc[r] = "choose"
    BY DEF StartWorker
  <2>2. /\ ~inherited[r] /\ session[r] = NIL /\ doing[r] = "hello" /\ sent[r] = 0 /\ got[r] = <<>>
        /\ worker[r] = "none" /\ running[p0]
    BY <2>1 DEF Place, Busy
  <2>3. Holds(r) /\ lock[p0] = r /\ p0 \in Processes /\ NIL \notin Requests
    BY <2>1, <2>2, HomeIs, NamesAssumption DEF Holds, Locks
  <2>4. s # NIL => s \in Requests /\ Owner(s) = p0 /\ worker[s] # "none" /\ Quiet(s)
    BY <1>d, <2>1, <2>2, <2>3 DEF Kept
  <2> QED BY <2>1, <2>2, <2>3, <2>4
<1>n. \A q \in Requests : Holds(q) /\ Home(q) = p0 => q = r
  BY <1>i, OneHolder
<1>m. \A q \in Requests : Converses(q) => q # r /\ session[q] \in Requests /\ session[q] # s /\ session[q] # r
  <2> SUFFICES ASSUME NEW q \in Requests, Converses(q) PROVE q # r /\ session[q] \in Requests /\ session[q] # s /\ session[q] # r
    OBVIOUS
  <2>1. session[q] \in Requests /\ q # r /\ Holds(q)
    BY <1>i, SessionIs DEF Converses, Holds
  <2>2. worker[session[q]] # "none" /\ Owner(session[q]) = Home(q)
    BY <2>1, <1>i DEF Place, Converses
  <2> QED BY <2>1, <2>2, <1>n, <1>i
<1>u. /\ pc' = [pc EXCEPT ![r] = "ready"] /\ session' = [session EXCEPT ![r] = r]
      /\ persistent' = [persistent EXCEPT ![p0] = NIL]
      /\ worker' = [q \in Requests |-> IF q = r THEN "running" ELSE IF q = s THEN "dead" ELSE worker[q]]
      /\ inq' = [q \in Requests |-> IF q = s THEN <<>> ELSE inq[q]]
      /\ outq' = [q \in Requests |-> IF q = s THEN <<>> ELSE outq[q]]
      /\ io' = [q \in Requests |-> IF q = s THEN NoIO ELSE io[q]]
      /\ UNCHANGED <<doing, sent, got, thread, lock, inherited, job, running, forks>>
  BY DEF StartWorker
<1>h. \A q : Home(q)' = Home(q)
  BY <1>u DEF Home
<1>p. p0 = Home(r) /\ s = persistent[p0] /\ s # r
  BY <1>i
<1> HIDE DEF s, p0
<1>t. (AtClient(r) /\ Asks(r) /\ Replies(r) /\ AtWorker(r))'
  <2>1. io[r] = NoIO /\ inq[r] = <<>> /\ outq[r] = <<>> /\ job[r].state = "boot"
    BY <1>i DEF Rests
  <2>2. io'[r] = NoIO /\ inq'[r] = <<>> /\ outq'[r] = <<>> /\ job'[r].state = "boot"
    BY <2>1, <1>u, <1>p
  <2>3. session'[r] = r /\ doing'[r] = "hello" /\ pc'[r] = "ready" /\ sent'[r] = 0 /\ got'[r] = <<>>
    BY <1>u, <1>i, <1>d
  <2> QED BY <2>2, <2>3, NewSession
<1>a. Unforked'
  BY <1>d, HomeIs, <1>u, <1>h, <1>i, <1>n DEF Unforked
<1>b. ASSUME NEW q \in Requests
      PROVE  /\ Place(q)'
             /\ Accepted(q)'
             /\ Locks(q)'
             /\ InUse(q)'
             /\ Talk(q)'
             /\ Rests(q)'
             /\ Own(q)'
             /\ Alive(q)'
  <2>1. Place(q)'
    <3>1. Place(q) /\ (session[q] = NIL \/ session[q] \in Requests)
      BY <1>d
    <3>2. \A x \in Requests : worker'[x] = IF x = r THEN "running" ELSE IF x = s THEN "dead" ELSE worker[x]
      BY <1>u, <1>d
    <3>3. pc'[q] = (IF q = r THEN "ready" ELSE pc[q]) /\ session'[q] = IF q = r THEN r ELSE session[q]
      BY <1>u, <1>d
    <3>4. CASE q = r
      BY <3>1, <3>2, <3>3, <3>4, <1>u, <1>h, <1>i, <1>p DEF Place, Owner, Busy
    <3>5. CASE q # r
      BY <3>1, <3>2, <3>3, <3>5, <1>u, <1>h, <1>i, <1>p DEF Place, Owner, Busy
    <3> QED BY <3>4, <3>5
  <2>2. Accepted(q)'
    BY <1>d, HomeIs, <1>u, <1>h, <1>i, <1>n DEF Accepted
  <2>3. Locks(q)'
    BY <1>d, <1>u, <1>h, <1>i DEF Locks, Holds
  <2>4. InUse(q)'
    <3>1. CASE q = r
      BY <3>1, <1>d, <1>u, <1>i, <1>h, <1>p DEF InUse, Starting
    <3>2. CASE q # r
      <4>1. Converses(q)' => Converses(q) /\ Home(q) # p0
        BY <3>2, <1>u, <1>d, <1>n DEF Converses, Holds
      <4> QED BY <3>2, <4>1, <1>u, <1>d, <1>h, HomeIs DEF InUse, Starting
    <3> QED BY <3>1, <3>2
  <2>5. Talk(q)'
    <3>1. CASE Converses(q)' /\ q # r
      <4>1. Converses(q) /\ session[q] # s /\ session[q] # r /\ session[q] \in Requests /\ pc'[q] = pc[q]
        BY <3>1, <1>d, <1>m, <1>u DEF Converses
      <4>3. /\ io'[session[q]] = io[session[q]] /\ job'[session[q]] = job[session[q]]
            /\ inq'[session[q]] = inq[session[q]] /\ outq'[session[q]] = outq[session[q]]
            /\ worker'[session[q]] = worker[session[q]]
        BY <4>1, <1>d, <1>u
      <4> QED BY <3>1, <4>1, <4>3, <1>u, <1>d, TalkSame
    <3>2. CASE ~Converses(q)'
      BY <3>2 DEF Talk
    <3>3. CASE q = r
      BY <3>3, <1>t DEF Talk
    <3> QED BY <3>1, <3>2, <3>3
  <2>6. Rests(q)'
    <3>1. CASE q = s
      BY <3>1, <1>d, <1>u, <1>i DEF Rests, NoIO
    <3>2. CASE q # s
      BY <3>2, <1>d, <1>u, <1>i DEF Rests
    <3> QED BY <3>1, <3>2
  <2>7. Own(q)'
    <3>1. CASE q = s
      BY <3>1, <1>d, <1>u, <1>i DEF Own, NoIO
    <3>2. CASE q = r
      <4>1. io[r] = NoIO /\ inq[r] = <<>> /\ job[r].state = "boot"
        BY <1>i DEF Rests
      <4>2. io'[r] = NoIO /\ inq'[r] = <<>> /\ job'[r].state = "boot"
        BY <4>1, <1>u
      <4> QED BY <3>2, <4>2 DEF Own, NoIO
    <3>3. CASE q # s /\ q # r
      BY <3>3, <1>d, <1>u, <1>i DEF Own, Uses
    <3> QED BY <3>1, <3>2, <3>3
  <2>8. Alive(q)'
    <3> SUFFICES ASSUME worker'[q] = "running", running[Owner(q)] PROVE persistent'[Owner(q)] = q \/ (Converses(q)' /\ Starting(q)')
      BY <1>h, <1>u DEF Alive, Owner
    <3>5. CASE q = r
      BY <3>5, <1>u, <1>d, <1>i DEF Converses, Starting
    <3> SUFFICES ASSUME q # r PROVE persistent'[Owner(q)] = q \/ (Converses(q)' /\ Starting(q)')
      BY <3>5
    <3>1. q # s /\ worker[q] = "running" /\ (persistent[Owner(q)] = q \/ (Converses(q) /\ Starting(q)))
      BY <1>d, <1>u, <1>i DEF Alive
    <3>3. CASE Converses(q) /\ Starting(q)
      BY <1>m, <3>3, <1>u, <1>d DEF Converses, Starting
    <3>4. CASE persistent[Owner(q)] = q
      <4>1. Owner(q) # p0
        BY <3>1, <3>4, <1>p
      <4> QED BY <3>4, <4>1, <1>u, <1>d, HomeIs DEF Owner
    <3> QED BY <3>1, <3>3, <3>4
  <2> QED BY <2>1, <2>2, <2>3, <2>4, <2>5, <2>6, <2>7, <2>8
<1>c. ASSUME NEW p \in Processes PROVE Locked(p)' /\ Kept(p)'
  <2>1. Locked(p)'
    BY <1>d, <1>u, <1>h, <1>i DEF Locked, Holds
  <2>2. Kept(p)'
    <3>1. CASE p = p0
      BY <3>1, <1>d, <1>u, <1>i DEF Kept
    <3>2. CASE p # p0
      BY <3>2, <1>d, <1>u, <1>h, <1>p, <1>i DEF Kept, Locked, Quiet, Owner
    <3> QED BY <3>1, <3>2
  <2> QED BY <2>1, <2>2
<1> QED BY <1>a, <1>b, <1>c

-----------------------------------------------------------------------------
(* The conversation.                                                       *)

LEMMA TalkOfOthers ==
  ASSUME Facts, NEW r \in Requests, NEW q \in Requests, q # r, Converses(r),
         pc'[q] = pc[q], doing'[q] = doing[q], sent'[q] = sent[q], got'[q] = got[q], session'[q] = session[q],
         inherited'[q] = inherited[q],
         \A x \in Requests : x # session[r] =>
           /\ io'[x] = io[x] /\ job'[x] = job[x] /\ inq'[x] = inq[x] /\ outq'[x] = outq[x] /\ worker'[x] = worker[x]
  PROVE  Talk(q)'
<1>1. CASE Converses(q)
  <2>1. session[q] \in Requests /\ session[q] # session[r]
    BY <1>1, SessionIs, OneConverser
  <2>2. Talk(q)
    BY DEF Facts
  <2> QED BY <2>1, <2>2, TalkSame DEF Converses
<1>2. CASE ~Converses(q)
  BY <1>2 DEF Talk, Converses
<1> QED BY <1>1, <1>2


LEMMA IssueInheritedKeeps ==
  ASSUME Facts, TypeOK', NEW r \in Requests, Issue(r), inherited[r]
  PROVE  Facts'
<1> USE DEF Facts, Domains
<1>d. Domains
  BY DomainsAre
<1>u. /\ pc' = [pc EXCEPT ![r] = "io"] /\ inherited[r] /\ pc[r] = "ready"
      /\ UNCHANGED <<doing, sent, got, thread, session, inherited, job, lock, persistent, worker, inq, outq, io,
                     running, forks>>
  BY DEF Issue, workerVars
<1>h. \A q : Home(q)' = Home(q)
  BY <1>u DEF Home
<1>a. Unforked'
  BY <1>d, HomeIs, <1>u, <1>h DEF Unforked
<1>b. ASSUME NEW q \in Requests
      PROVE  /\ Place(q)'
             /\ Accepted(q)'
             /\ Locks(q)'
             /\ InUse(q)'
             /\ Talk(q)'
             /\ Rests(q)'
             /\ Own(q)'
             /\ Alive(q)'
  <2>1. Place(q)'
    BY <1>d, HomeIs, <1>u, <1>h DEF Place, Owner, Busy
  <2>2. Accepted(q)'
    BY <1>d, HomeIs, <1>u, <1>h DEF Accepted
  <2>3. Locks(q)'
    BY <1>d, HomeIs, <1>u, <1>h DEF Locks, Holds
  <2>4. InUse(q)'
    BY <1>d, HomeIs, <1>u, <1>h DEF InUse, Converses, Starting
  <2>5. Talk(q)'
    BY <1>d, HomeIs, <1>u, <1>h, TalkSame DEF Converses
  <2>6. Rests(q)'
    BY <1>d, HomeIs, <1>u, <1>h DEF Rests
  <2>7. Own(q)'
    BY <1>d, HomeIs, <1>u, <1>h DEF Own, Uses
  <2>8. Alive(q)'
    BY <1>d, HomeIs, <1>u, <1>h DEF Alive, Owner, Converses, Starting
  <2> QED BY <2>1, <2>2, <2>3, <2>4, <2>5, <2>6, <2>7, <2>8
<1>c. ASSUME NEW p \in Processes PROVE Locked(p)' /\ Kept(p)'
  <2>1. Locked(p)'
    BY <1>d, HomeIs, <1>u, <1>h DEF Locked, Holds
  <2>2. Kept(p)'
    BY <1>d, HomeIs, <1>u, <1>h DEF Kept, Quiet, Owner
  <2> QED BY <2>1, <2>2
<1> QED BY <1>a, <1>b, <1>c

LEMMA IssueKeeps ==
  ASSUME Facts, TypeOK', NEW r \in Requests, Issue(r), ~inherited[r]
  PROVE  Facts'
<1> USE DEF Facts, Domains
<1>d. Domains
  BY DomainsAre
<1> DEFINE s == session[r]
           p0 == Home(r)
<1>i. /\ pc[r] = "ready" /\ ~inherited[r] /\ Holds(r) /\ Converses(r)
      /\ s \in Requests /\ Owner(s) = p0 /\ worker[s] # "none" /\ p0 \in Processes /\ NIL \notin Requests /\ running[p0]
      /\ lock[p0] = r /\ persistent[p0] = IF Starting(r) THEN NIL ELSE s
      /\ Starting(r) => s = r
  <2>1. pc[r] = "ready" /\ ~inherited[r]
    BY DEF Issue
  <2>2. Holds(r) /\ Converses(r)
    BY <2>1 DEF Holds, Converses
  <2> QED BY <2>1, <2>2, HomeIs, NamesAssumption, Counters DEF InUse
<1>n. \A q \in Requests : Holds(q) /\ Home(q) = p0 => q = r
  BY <1>i, OneHolder
<1>p. p0 = Home(r) /\ s = session[r]
  OBVIOUS
<1>u. /\ pc' = [pc EXCEPT ![r] = "io"] /\ io' = [io EXCEPT ![s] = io'[s]]
      /\ io'[s].state = "pending" /\ io'[s].op = (IF NextWrite(r) = NIL THEN "read" ELSE "write")
      /\ io'[s].op = "write" => io'[s].frame = NextWrite(r) /\ io'[s].frame \in Frames /\ io'[s].frame.id = r
      /\ UNCHANGED <<doing, sent, got, thread, session, inherited, job, lock, persistent, worker, inq, outq,
                     running, forks>>
  <2>1. NextWrite(r) # NIL => NextWrite(r) \in Frames /\ NextWrite(r).id = r
    BY NextWriteType DEF NextWrite, Frame
  <2>2. s \in DOMAIN io
    BY <1>d, <1>i
  <2>3. CASE NextWrite(r) = NIL
    <3>1. io' = [io EXCEPT ![s] = [state |-> "pending", op |-> "read", frame |-> NIL]]
      BY <2>3 DEF Issue, Submit
    <3> QED BY <2>2, <2>3, <3>1 DEF Issue, Submit, workerVars
  <2>4. CASE NextWrite(r) # NIL
    <3>1. io' = [io EXCEPT ![s] = [state |-> "pending", op |-> "write", frame |-> NextWrite(r)]]
      BY <2>4 DEF Issue, Submit
    <3> QED BY <2>1, <2>2, <2>4, <3>1 DEF Issue, Submit, workerVars
  <2> QED BY <2>3, <2>4
<1>h. \A q : Home(q)' = Home(q)
  BY <1>u DEF Home
<1> HIDE DEF s, p0
<1>t. (AtClient(r) /\ Asks(r) /\ Replies(r) /\ AtWorker(r))'
  <2>1. AtClient(r) /\ Asks(r) /\ Replies(r) /\ AtWorker(r) /\ io[s] = NoIO
    BY <1>i, <1>p, Counters DEF AtClient
  <2>2. InHand(r, "read") = 0 /\ InHand(r, "write") = 0 /\ InHand(r, "read")' = 0 /\ InHand(r, "write")' = 0
    BY <2>1, <1>u, <1>p DEF InHand, NoIO
  <2>3. Starting(r)' = Starting(r) /\ NextWrite(r)' = NextWrite(r) /\ Heard(r)' = Heard(r)
    BY <1>u DEF Starting, NextWrite, Heard
  <2>4. Told(r)' = Told(r)
    BY <2>2, <2>3, <1>u DEF Told, Begun, AskLen
  <2>5. AtClient(r)'
    BY <2>1, <2>3, <1>u, <1>p, <1>d DEF AtClient
  <2> QED BY <2>1, <2>2, <2>3, <2>4, <2>5, <1>u, SidesKept
<1>a. Unforked'
  BY <1>d, HomeIs, <1>u, <1>h, <1>i DEF Unforked
<1>b. ASSUME NEW q \in Requests
      PROVE  /\ Place(q)'
             /\ Accepted(q)'
             /\ Locks(q)'
             /\ InUse(q)'
             /\ Talk(q)'
             /\ Rests(q)'
             /\ Own(q)'
             /\ Alive(q)'
  <2>1. Place(q)'
    BY <1>d, HomeIs, <1>u, <1>h, <1>i DEF Place, Owner, Busy
  <2>2. Accepted(q)'
    BY <1>d, HomeIs, <1>u, <1>h, <1>i DEF Accepted
  <2>3. Locks(q)'
    BY <1>d, HomeIs, <1>u, <1>h, <1>i DEF Locks, Holds
  <2>4. InUse(q)'
    BY <1>d, HomeIs, <1>u, <1>h, <1>i DEF InUse, Converses, Starting
  <2>5. Talk(q)'
    <3>1. CASE q = r
      BY <3>1, <1>t DEF Talk
    <3>2. CASE q # r
      BY <3>2, <1>d, <1>u, <1>i, <1>p, TalkOfOthers
    <3> QED BY <3>1, <3>2
  <2>6. Rests(q)'
    <3>1. CASE q = s
      BY <3>1, <1>d, <1>u, <1>i DEF Rests, NoIO
    <3>2. CASE q # s
      BY <3>2, <1>d, <1>u DEF Rests
    <3> QED BY <3>1, <3>2
  <2>7. Own(q)'
    <3>1. CASE q = s
      BY <3>1, <1>d, <1>u, <1>i, <1>p DEF Own, Uses, NoIO
    <3>2. CASE q # s
      BY <3>2, <1>d, <1>u DEF Own, Uses
    <3> QED BY <3>1, <3>2
  <2>8. Alive(q)'
    BY <1>d, HomeIs, <1>u, <1>h, <1>i DEF Alive, Owner, Converses, Starting
  <2> QED BY <2>1, <2>2, <2>3, <2>4, <2>5, <2>6, <2>7, <2>8
<1>c. ASSUME NEW p \in Processes PROVE Locked(p)' /\ Kept(p)'
  <2>1. Locked(p)'
    BY <1>d, HomeIs, <1>u, <1>h, <1>i DEF Locked, Holds
  <2>2. Kept(p)'
    <3>1. CASE p = p0
      BY <3>1, <1>d, <1>u, <1>h, <1>i DEF Kept, Owner
    <3>2. CASE p # p0
      <4>1. running[p] /\ lock[p] # NIL => lock[p] # r
        BY <3>2, <1>p DEF Locked
      <4> QED BY <3>2, <4>1, <1>d, <1>u, <1>h, <1>p, <1>i DEF Kept, Quiet, Owner, Locked
    <3> QED BY <3>1, <3>2
  <2> QED BY <2>1, <2>2
<1> QED BY <1>a, <1>b, <1>c

LEMMA WrittenKeeps ==
  ASSUME Facts, TypeOK', NEW r \in Requests, Written(r)
  PROVE  Facts'
<1> USE DEF Facts, Domains
<1>d. Domains
  BY DomainsAre
<1> DEFINE s == session[r]
           p0 == Home(r)
<1>i. /\ pc[r] = "io" /\ ~inherited[r] /\ Holds(r) /\ Converses(r)
      /\ s \in Requests /\ Owner(s) = p0 /\ worker[s] # "none" /\ p0 \in Processes /\ NIL \notin Requests /\ running[p0]
      /\ lock[p0] = r /\ persistent[p0] = IF Starting(r) THEN NIL ELSE s
      /\ Starting(r) => s = r
  <2>1. pc[r] = "io" /\ ~inherited[r]
    BY DEF Written
  <2>2. Holds(r) /\ Converses(r)
    BY <2>1 DEF Holds, Converses
  <2> QED BY <2>1, <2>2, HomeIs, NamesAssumption, Counters DEF InUse
<1>n. \A q \in Requests : Holds(q) /\ Home(q) = p0 => q = r
  BY <1>i, OneHolder
<1>p. p0 = Home(r) /\ s = session[r]
  OBVIOUS
<1>u. /\ pc' = [pc EXCEPT ![r] = "ready"] /\ io' = [io EXCEPT ![s] = NoIO]
      /\ io[s].state = "ok" /\ io[s].op = "write"
      /\ sent' = (IF doing[r] = "translate" THEN [sent EXCEPT ![r] = @ + 1] ELSE sent)
      /\ doing' = [doing EXCEPT ![r] =
           CASE doing[r] = "hello" -> "expect_ready"
             [] doing[r] = "request" /\ Kind[r] = "reinsert" -> "translate"
             [] doing[r] = "translate" /\ sent[r] < Units -> "translate"
             [] OTHER -> "answer"]
      /\ UNCHANGED <<got, thread, session, inherited, job, lock, persistent, worker, inq, outq, running, forks>>
  BY DEF Written, workerVars
<1>h. \A q : Home(q)' = Home(q)
  BY <1>u DEF Home
<1> HIDE DEF s, p0
<1>k. /\ AtClient(r) /\ Asks(r) /\ Replies(r) /\ AtWorker(r) /\ sent[r] \in Nat
      /\ doing[r] \in {"hello", "request", "translate"}
      /\ InHand(r, "write") = 1 /\ InHand(r, "read") = 0 /\ AskLen(r) \in Nat
      /\ \A q \in Requests : q # r => doing'[q] = doing[q] /\ sent'[q] = sent[q]
  <2>1. InHand(r, "write") = 1 /\ InHand(r, "read") = 0
    BY <1>u, <1>p DEF InHand
  <2>2. doing[r] \in Steps /\ doing[r] \notin {"expect_ready", "answer"}
    BY <1>i, <2>1, Counters, Phases
  <2>3. \A q \in Requests : q # r => doing'[q] = doing[q] /\ sent'[q] = sent[q]
    BY <1>u, <1>d
  <2> QED BY <1>i, <2>1, <2>2, <2>3, Counters DEF Steps
<1>s. /\ Starting(r)' = Starting(r) /\ Told(r)' = Told(r)
      /\ InHand(r, "write")' = 0 /\ InHand(r, "read")' = 0 /\ AtClient(r)'
  <2>1. InHand(r, "write")' = 0 /\ InHand(r, "read")' = 0 /\ session'[r] = s /\ io'[s] = NoIO
        /\ pc'[r] = "ready" /\ got'[r] = got[r]
    BY <1>u, <1>p, <1>d, <1>i DEF InHand, NoIO
  <2>2. CASE doing[r] = "hello"
    <3>1. doing'[r] = "expect_ready" /\ sent'[r] = 0 /\ got[r] = <<>>
      BY <2>2, <1>u, <1>d, <1>k DEF AtClient
    <3>2. Starting(r)' = Starting(r) /\ Begun(r) = 0 /\ Begun(r)' = 1
      BY <2>2, <3>1 DEF Starting, Begun, AskLen
    <3>3. AtClient(r)'
      BY <2>1, <3>1 DEF AtClient, NoIO
    <3> QED BY <2>1, <3>2, <3>3, <1>k DEF Told
  <2>3. CASE doing[r] = "request" /\ Kind[r] = "reinsert"
    <3>1. doing'[r] = "translate" /\ sent'[r] = 0 /\ got[r] = <<>>
      BY <2>3, <1>u, <1>d, <1>k DEF AtClient
    <3>2. Starting(r)' = Starting(r) /\ Begun(r) = 0 /\ Begun(r)' = 1
      BY <2>3, <3>1 DEF Starting, Begun, AskLen
    <3>3. AtClient(r)'
      BY <2>1, <2>3, <3>1, UnitsAssumption DEF AtClient, NoIO
    <3> QED BY <2>1, <3>2, <3>3, <1>k DEF Told
  <2>4. CASE doing[r] = "request" /\ Kind[r] # "reinsert"
    <3>1. doing'[r] = "answer" /\ Kind[r] = "extract"
      BY <2>4, <1>u, <1>d, KindAssumption
    <3>2. Starting(r)' = Starting(r) /\ Begun(r) = 0 /\ Begun(r)' = 1
      BY <2>4, <3>1 DEF Starting, Begun, AskLen
    <3>3. AtClient(r)'
      BY <2>1, <3>1 DEF AtClient, NoIO
    <3> QED BY <2>1, <3>2, <3>3, <1>k DEF Told
  <2>5. CASE doing[r] = "translate" /\ sent[r] < Units
    <3>1. doing'[r] = "translate" /\ sent'[r] = sent[r] + 1 /\ got[r] = <<>> /\ Kind[r] = "reinsert"
      BY <2>5, <1>u, <1>d, <1>k DEF AtClient
    <3>2. Starting(r)' = Starting(r) /\ Begun(r) = 1 + sent[r] /\ Begun(r)' = 2 + sent[r]
      BY <2>5, <3>1, <1>k DEF Starting, Begun, AskLen
    <3>3. AtClient(r)'
      BY <2>1, <2>5, <3>1, UnitsAssumption, <1>k DEF AtClient, NoIO
    <3> QED BY <2>1, <3>2, <3>3, <1>k DEF Told
  <2>6. CASE doing[r] = "translate" /\ ~(sent[r] < Units)
    <3>1. doing'[r] = "answer" /\ Kind[r] = "reinsert" /\ sent[r] = Units
      BY <2>6, <1>u, <1>d, <1>k, UnitsAssumption DEF AtClient
    <3>2. Starting(r)' = Starting(r) /\ Begun(r) = 1 + Units /\ Begun(r)' = 2 + Units
      BY <2>6, <3>1, <1>k, UnitsAssumption DEF Starting, Begun, AskLen
    <3>3. AtClient(r)'
      BY <2>1, <3>1 DEF AtClient, NoIO
    <3> QED BY <2>1, <3>2, <3>3, <1>k, UnitsAssumption DEF Told
  <2> QED BY <1>k, <2>2, <2>3, <2>4, <2>5, <2>6
<1>t. (AtClient(r) /\ Asks(r) /\ Replies(r) /\ AtWorker(r))'
  <2>1. Heard(r)' = Heard(r)
    BY <1>s, <1>u DEF Heard
  <2> QED BY <2>1, <1>k, <1>s, <1>u, <1>p, SidesKept
<1>a. Unforked'
  BY <1>d, HomeIs, <1>u, <1>h, <1>i DEF Unforked
<1>b. ASSUME NEW q \in Requests
      PROVE  /\ Place(q)'
             /\ Accepted(q)'
             /\ Locks(q)'
             /\ InUse(q)'
             /\ Talk(q)'
             /\ Rests(q)'
             /\ Own(q)'
             /\ Alive(q)'
  <2>1. Place(q)'
    BY <1>d, HomeIs, <1>u, <1>h, <1>i, <1>k DEF Place, Owner, Busy
  <2>2. Accepted(q)'
    BY <1>d, HomeIs, <1>u, <1>h, <1>i DEF Accepted
  <2>3. Locks(q)'
    BY <1>d, HomeIs, <1>u, <1>h, <1>i DEF Locks, Holds
  <2>4. InUse(q)'
    BY <1>d, HomeIs, <1>u, <1>h, <1>i, <1>k, <1>s DEF InUse, Converses, Starting
  <2>5. Talk(q)'
    <3>1. CASE q = r
      BY <3>1, <1>t DEF Talk
    <3>2. CASE q # r
      BY <3>2, <1>d, <1>u, <1>i, <1>p, TalkOfOthers
    <3> QED BY <3>1, <3>2
  <2>6. Rests(q)'
    <3>1. CASE q = s
      BY <3>1, <1>d, <1>u, <1>i DEF Rests, NoIO
    <3>2. CASE q # s
      BY <3>2, <1>d, <1>u DEF Rests
    <3> QED BY <3>1, <3>2
  <2>7. Own(q)'
    <3>1. CASE q = s
      BY <3>1, <1>d, <1>u, <1>i, <1>p DEF Own, Uses, NoIO
    <3>2. CASE q # s
      BY <3>2, <1>d, <1>u DEF Own, Uses
    <3> QED BY <3>1, <3>2
  <2>8. Alive(q)'
    BY <1>d, HomeIs, <1>u, <1>h, <1>i, <1>k, <1>s DEF Alive, Owner, Converses, Starting
  <2> QED BY <2>1, <2>2, <2>3, <2>4, <2>5, <2>6, <2>7, <2>8
<1>c. ASSUME NEW p \in Processes PROVE Locked(p)' /\ Kept(p)'
  <2>1. Locked(p)'
    BY <1>d, HomeIs, <1>u, <1>h, <1>i DEF Locked, Holds
  <2>2. Kept(p)'
    <3>1. CASE p = p0
      BY <3>1, <1>d, <1>u, <1>h, <1>i DEF Kept, Owner
    <3>2. CASE p # p0
      <4>1. running[p] /\ lock[p] # NIL => lock[p] # r
        BY <3>2, <1>p DEF Locked
      <4> QED BY <3>2, <4>1, <1>d, <1>u, <1>h, <1>p, <1>i DEF Kept, Quiet, Owner, Locked
    <3> QED BY <3>1, <3>2
  <2> QED BY <2>1, <2>2
<1> QED BY <1>a, <1>b, <1>c

LEMMA HandshakenKeeps ==
  ASSUME Facts, TypeOK', NEW r \in Requests, Handshaken(r)
  PROVE  Facts'
<1> USE DEF Facts, Domains
<1>d. Domains
  BY DomainsAre
<1>p. \E x \in Requests, y \in Processes : session[r] = x /\ Home(r) = y
  <2>1. Converses(r)
    BY DEF Handshaken, Arrived, Converses
  <2> QED BY <2>1, SessionIs, HomeIs
<1> PICK s \in Requests, p0 \in Processes : session[r] = s /\ Home(r) = p0
  BY <1>p
<1>i. /\ pc[r] = "io" /\ ~inherited[r] /\ Holds(r) /\ Converses(r)
      /\ s \in Requests /\ Owner(s) = p0 /\ worker[s] # "none" /\ p0 \in Processes /\ NIL \notin Requests /\ running[p0]
      /\ lock[p0] = r /\ persistent[p0] = IF Starting(r) THEN NIL ELSE s
      /\ Starting(r) => s = r
      /\ session[r] = s /\ Home(r) = p0
  <2>1. pc[r] = "io" /\ ~inherited[r]
    BY DEF Handshaken, Arrived
  <2>2. Holds(r) /\ Converses(r)
    BY <2>1 DEF Holds, Converses
  <2> QED BY <2>1, <2>2, NamesAssumption, Counters DEF InUse
<1>n. \A q \in Requests : Holds(q) /\ Home(q) = p0 => q = r
  BY <1>i, OneHolder
<1>u. /\ pc' = [pc EXCEPT ![r] = "ready"] /\ io' = [io EXCEPT ![s] = NoIO]
      /\ io[s].state = "ok" /\ io[s].op = "read" /\ doing[r] = "expect_ready" /\ s = r
      /\ doing' = [doing EXCEPT ![r] = "request"] /\ persistent' = [persistent EXCEPT ![p0] = r]
      /\ UNCHANGED <<sent, got, thread, session, inherited, job, lock, worker, inq, outq, running, forks>>
  BY <1>i DEF Handshaken, Arrived, Starting, workerVars
<1>h. \A q : Home(q)' = Home(q)
  BY <1>u DEF Home
<1>k. /\ Starting(r) /\ sent[r] = 0 /\ got[r] = <<>> /\ inq[s] = <<>> /\ outq[s] = <<>>
      /\ worker[s] = "running" => job[s].state = "command"
  <2>c. /\ AtClient(r) /\ Replies(r) /\ AtWorker(r) /\ inq[s] \in Seq(Frames) /\ outq[s] \in Seq(Frames)
        /\ worker[s] \in {"running", "dead"}
    <3>1. worker[s] \in {"none", "running", "dead"}
      BY <1>i DEF TypeOK
    <3> QED BY <3>1, <1>i, Counters
  <2>1. Starting(r) /\ InHand(r, "read") = 1 /\ InHand(r, "write") = 0 /\ sent[r] = 0 /\ got[r] = <<>>
    BY <2>c, <1>u DEF Starting, InHand, AtClient
  <2>2. Near(r) = 1 /\ ReplyLen(r) = 1 /\ Told(r) = 1
    BY <2>1, <1>u DEF Near, Heard, ReplyLen, Told, Begun, AskLen
  <2>3. Answered(r) = 1 + Len(outq[s]) /\ Answered(r) <= 1 /\ Consumed(r) = 1 - Len(inq[s]) /\ Len(outq[s]) \in Nat /\ Len(inq[s]) \in Nat
    BY <2>c, <2>2 DEF Answered, Consumed, Replies
  <2>4. outq[s] = <<>>
    BY <2>c, <2>3
  <2>5. CASE worker[s] = "running"
    <3>1. Consumed(r) = 1 /\ job[s].state = "command"
      BY <2>1, <2>3, <2>5, <2>c DEF AtWorker
    <3> QED BY <2>1, <2>3, <2>4, <2>c, <3>1
  <2>6. CASE worker[s] = "dead"
    BY <2>1, <2>4, <2>6, <1>i DEF Rests
  <2> QED BY <2>c, <2>5, <2>6
<1>t. Talk(r)'
  <2>1. /\ session'[r] = s /\ doing'[r] = "request" /\ pc'[r] = "ready" /\ sent'[r] = 0 /\ got'[r] = <<>>
        /\ io'[s] = NoIO /\ inq'[s] = <<>> /\ outq'[s] = <<>>
        /\ worker'[s] = "running" => job'[s].state = "command"
    BY <1>d, <1>i, <1>k, <1>u
  <2> QED BY <2>1, <1>i, BeginTalk
<1>a. Unforked'
  BY <1>d, HomeIs, <1>u, <1>h, <1>i DEF Unforked
<1>b. ASSUME NEW q \in Requests
      PROVE  /\ Place(q)'
             /\ Accepted(q)'
             /\ Locks(q)'
             /\ InUse(q)'
             /\ Talk(q)'
             /\ Rests(q)'
             /\ Own(q)'
             /\ Alive(q)'
  <2>1. Place(q)'
    BY <1>d, HomeIs, <1>u, <1>h, <1>i, <1>k DEF Place, Owner, Busy
  <2>2. Accepted(q)'
    BY <1>d, HomeIs, <1>u, <1>h, <1>i DEF Accepted
  <2>3. Locks(q)'
    BY <1>d, HomeIs, <1>u, <1>h, <1>i DEF Locks, Holds
  <2>4. InUse(q)'
    <3>1. CASE q = r
      BY <3>1, <1>d, <1>u, <1>h, <1>i DEF InUse, Starting
    <3>2. CASE q # r
      <4>1. Converses(q)' => Converses(q) /\ Home(q) # p0
        BY <3>2, <1>u, <1>d, <1>n DEF Converses, Holds
      <4> QED BY <3>2, <4>1, <1>u, <1>d, <1>h, HomeIs DEF InUse, Starting
    <3> QED BY <3>1, <3>2
  <2>5. Talk(q)'
    <3>1. CASE q = r
      BY <3>1, <1>t
    <3>2. CASE q # r
      BY <3>2, <1>d, <1>u, <1>i, TalkOfOthers
    <3> QED BY <3>1, <3>2
  <2>6. Rests(q)'
    <3>1. CASE q = s
      BY <3>1, <1>d, <1>u, <1>i DEF Rests, NoIO
    <3>2. CASE q # s
      BY <3>2, <1>d, <1>u DEF Rests
    <3> QED BY <3>1, <3>2
  <2>7. Own(q)'
    <3>1. CASE q = s
      BY <3>1, <1>d, <1>u, <1>i DEF Own, Uses, NoIO
    <3>2. CASE q # s
      BY <3>2, <1>d, <1>u DEF Own, Uses
    <3> QED BY <3>1, <3>2
  <2>8. Alive(q)'
    <3>1. CASE q = r
      BY <3>1, <1>d, <1>u, <1>i, <1>h DEF Alive, Owner
    <3>2. CASE q # r
      <4>1. Converses(q) => Holds(q)
        BY DEF Converses, Holds
      <4> QED BY <3>2, <4>1, <1>d, HomeIs, <1>u, <1>h, <1>i, <1>k, <1>n DEF Alive, Owner, Converses, Starting
    <3> QED BY <3>1, <3>2
  <2> QED BY <2>1, <2>2, <2>3, <2>4, <2>5, <2>6, <2>7, <2>8
<1>c. ASSUME NEW p \in Processes PROVE Locked(p)' /\ Kept(p)'
  <2>1. Locked(p)'
    BY <1>d, HomeIs, <1>u, <1>h, <1>i DEF Locked, Holds
  <2>2. Kept(p)'
    <3>1. CASE p = p0
      BY <3>1, <1>d, <1>u, <1>h, <1>i DEF Kept, Owner
    <3>2. CASE p # p0
      <4>1. running[p] /\ lock[p] # NIL => lock[p] # r
        BY <3>2 DEF Locked
      <4> QED BY <3>2, <4>1, <1>d, <1>u, <1>h, <1>i DEF Kept, Quiet, Owner, Locked
    <3> QED BY <3>1, <3>2
  <2> QED BY <2>1, <2>2
<1> QED BY <1>a, <1>b, <1>c

LEMMA Sums ==
  /\ \A a, b, c \in Nat : a + b <= c => a <= c
  /\ \A a \in Nat : 1 <= a + 1
  /\ \A a, b \in Nat : a + b <= a => b = 0 /\ a + b = a
  OBVIOUS

LEMMA ReceiveKeeps ==
  ASSUME Facts, TypeOK', NEW r \in Requests, Receive(r)
  PROVE  Facts'
<1> USE DEF Facts, Domains
<1>d. Domains
  BY DomainsAre
<1>p. \E x \in Requests, y \in Processes : session[r] = x /\ Home(r) = y
  <2>1. Converses(r)
    BY DEF Receive, Arrived, Converses
  <2> QED BY <2>1, SessionIs, HomeIs
<1> PICK s \in Requests, p0 \in Processes : session[r] = s /\ Home(r) = p0
  BY <1>p
<1>i. /\ pc[r] = "io" /\ ~inherited[r] /\ Holds(r) /\ Converses(r)
      /\ s \in Requests /\ Owner(s) = p0 /\ worker[s] # "none" /\ p0 \in Processes /\ NIL \notin Requests /\ running[p0]
      /\ lock[p0] = r /\ persistent[p0] = IF Starting(r) THEN NIL ELSE s
      /\ Starting(r) => s = r
      /\ session[r] = s /\ Home(r) = p0
  <2>1. pc[r] = "io" /\ ~inherited[r]
    BY DEF Receive, Arrived
  <2>2. Holds(r) /\ Converses(r)
    BY <2>1 DEF Holds, Converses
  <2> QED BY <2>1, <2>2, NamesAssumption, Counters DEF InUse
<1>n. \A q \in Requests : Holds(q) /\ Home(q) = p0 => q = r
  BY <1>i, OneHolder
<1> PICK f : f = io[s].frame
  OBVIOUS
<1> PICK ended \in BOOLEAN : ended <=> f.type = "done"
  OBVIOUS
<1>f. f = io[s].frame /\ (ended <=> f.type = "done")
  OBVIOUS
<1>u. /\ pc' = [pc EXCEPT ![r] = IF f.type = "unit" THEN "suspended" ELSE IF ended THEN "done" ELSE "ready"]
      /\ io' = [io EXCEPT ![s] = NoIO] /\ got' = [got EXCEPT ![r] = Append(@, f.type)]
      /\ io[s].state = "ok" /\ io[s].op = "read" /\ doing[r] = "answer" /\ ~Starting(r) /\ persistent[p0] = s
      /\ lock' = IF ended THEN [lock EXCEPT ![p0] = NIL] ELSE lock
      /\ UNCHANGED <<doing, sent, thread, session, inherited, job, persistent, worker, inq, outq, running, forks>>
  BY <1>f, <1>i DEF Receive, Arrived, Starting, workerVars, Release, HoldsLock
<1>h. \A q : Home(q)' = Home(q)
  BY <1>u DEF Home
<1>c. /\ AtClient(r) /\ Asks(r) /\ Replies(r) /\ AtWorker(r) /\ inq[s] \in Seq(Frames) /\ outq[s] \in Seq(Frames)
      /\ worker[s] \in {"running", "dead"} /\ got[r] \in Seq(FrameTypes)
  <2>1. worker[s] \in {"none", "running", "dead"}
    BY <1>i DEF TypeOK
  <2> QED BY <2>1, <1>i, Counters
<1>k. /\ InHand(r, "read") = 1 /\ InHand(r, "write") = 0 /\ Heard(r) = Len(got[r]) /\ Near(r) = Len(got[r]) + 1
      /\ ReplyLen(r) = Len(Answer(r)) /\ Told(r) = AskLen(r) /\ Answered(r) = Near(r) + Len(outq[s])
      /\ Near(r) \in 1..Len(Answer(r)) /\ f.type = Answer(r)[Near(r)] /\ Len(outq[s]) \in Nat /\ Len(got[r]) \in Nat
  <2>1. InHand(r, "read") = 1 /\ InHand(r, "write") = 0 /\ Heard(r) = Len(got[r]) /\ Near(r) = Len(got[r]) + 1
        /\ ReplyLen(r) = Len(Answer(r)) /\ Told(r) = AskLen(r) /\ Len(outq[s]) \in Nat /\ Len(got[r]) \in Nat
    <3>1. InHand(r, "read") = 1 /\ InHand(r, "write") = 0
      BY <1>u DEF InHand
    <3>2. Heard(r) = Len(got[r]) /\ ReplyLen(r) = Len(Answer(r))
      BY <1>u DEF Heard, ReplyLen
    <3>3. Told(r) = AskLen(r)
      BY <3>1, <1>i, Phases
    <3> QED BY <3>1, <3>2, <3>3, <1>c DEF Near
  <2>2. Answered(r) = Near(r) + Len(outq[s]) /\ Answered(r) <= Len(Answer(r))
    BY <2>1, <1>c DEF Answered, Replies
  <2>3. Near(r) \in 1..Len(Answer(r))
    <3>1. Near(r) \in Nat /\ Len(Answer(r)) \in Nat /\ Answered(r) \in Nat
      BY <1>i, Counters, AnswerIs
    <3>2. Near(r) >= 1 /\ Near(r) <= Len(Answer(r))
      <4>1. Near(r) + Len(outq[s]) <= Len(Answer(r))
        BY <2>2, Zenon
      <4>2. Near(r) <= Len(Answer(r))
        BY <4>1, <3>1, <2>1, Sums, Zenon
      <4>3. 1 <= Near(r)
        <5>1. Len(got[r]) \in Nat /\ Near(r) = Len(got[r]) + 1
          BY <2>1, Zenon
        <5>2. 1 <= Len(got[r]) + 1
          BY <5>1, Sums, Zenon
        <5> QED BY <5>1, <5>2, Zenon
      <4> QED BY <4>2, <4>3
    <3> QED BY <3>1, <3>2
  <2>4. f = Frame(Answer(r)[Near(r)], r)
    BY <2>1, <1>c, <1>f, <1>u DEF Replies, ReplyType
  <2> QED BY <2>1, <2>2, <2>3, <2>4 DEF Frame
<1>g. /\ got'[r] = Append(got[r], f.type) /\ Len(got'[r]) = Near(r) /\ got'[r][Near(r)] = Answer(r)[Near(r)]
      /\ \A i \in 1..Len(got[r]) : got'[r][i] = got[r][i]
  <2>1. got'[r] = Append(got[r], f.type) /\ f.type \in FrameTypes
    BY <1>u, <1>d, <1>k, AnswerIs
  <2> QED BY <2>1, <1>c, <1>k
<1>e. ended => Near(r) = Len(Answer(r)) /\ Quiet(s)'
  <2> SUFFICES ASSUME ended PROVE Near(r) = Len(Answer(r)) /\ Quiet(s)'
    OBVIOUS
  <2>1. Near(r) = Len(Answer(r))
    BY <1>f, <1>k, AnswerIs
  <2>2. Answered(r) = ReplyLen(r) /\ Len(outq[s]) = 0
    <3>1. Answered(r) <= ReplyLen(r) /\ ReplyLen(r) \in Nat /\ Near(r) \in Nat
      BY <1>c, <1>i, Counters DEF Replies
    <3>2. Near(r) + Len(outq[s]) <= ReplyLen(r) /\ Near(r) = ReplyLen(r)
          /\ Near(r) + Len(outq[s]) <= Near(r) /\ Near(r) \in Nat
      BY <1>k, <2>1, <3>1, Zenon
    <3>3. Len(outq[s]) \in Nat
      BY <1>k, Zenon
    <3>4. Len(outq[s]) = 0 /\ Near(r) + Len(outq[s]) = Near(r)
      BY <3>2, <3>3, Sums, Zenon
    <3> QED BY <3>2, <3>4, <1>k, Zenon
  <2>3. outq[s] = <<>>
    BY <2>2, <1>c
  <2>4. CASE worker[s] = "running"
    <3>1. ReplyLen(r) >= 2 /\ ReplyLen(r) \in Nat
      BY <1>k, AnswerIs
    <3>2. Consumed(r) = AskLen(r) /\ job[s].state = "command"
      BY <2>2, <2>4, <3>1, <1>c, <1>u DEF AtWorker
    <3>3. Len(inq[s]) = 0
      <4>1. Len(inq[s]) \in Nat /\ AskLen(r) \in Nat
        BY <1>c, <1>i, Counters
      <4> QED BY <3>2, <4>1, <1>k DEF Consumed
    <3> QED BY <2>1, <2>3, <3>2, <3>3, <1>c, <1>u, <1>d, <1>i DEF Quiet
  <2>5. CASE worker[s] = "dead"
    <3>1. inq[s] = <<>>
      BY <2>5, <1>i DEF Rests
    <3> QED BY <2>1, <2>3, <3>1, <2>5, <1>u, <1>d, <1>i DEF Quiet
  <2> QED BY <1>c, <2>4, <2>5
<1>t. ~ended => (AtClient(r) /\ Asks(r) /\ Replies(r) /\ AtWorker(r))'
  <2>1. InHand(r, "read")' = 0 /\ InHand(r, "write")' = 0 /\ io'[s] = NoIO /\ session'[r] = s
        /\ (Starting(r)' <=> Starting(r)) /\ ~Starting(r)
    BY <1>u, <1>d, <1>i DEF InHand, NoIO, Starting
  <2>2. AskLen(r)' = AskLen(r) /\ ReplyLen(r)' = ReplyLen(r) /\ \A i : AskType(r, i)' = AskType(r, i) /\ ReplyType(r, i)' = ReplyType(r, i)
    BY <2>1 DEF AskLen, ReplyLen, AskType, ReplyType
  <2>3. Told(r)' = Told(r) /\ Consumed(r)' = Consumed(r)
    <3>1. Begun(r)' = Begun(r)
      BY <2>2, <1>u DEF Begun
    <3>2. Told(r)' = Told(r)
      BY <2>1, <3>1, <1>k DEF Told
    <3> QED BY <3>2, <1>u DEF Consumed
  <2>4. Near(r)' = Near(r) /\ Answered(r)' = Answered(r)
    BY <2>1, <1>g, <1>k, <1>u DEF Near, Heard, Answered
  <2>5. Asks(r)'
    BY <2>2, <2>3, <1>c, <1>u DEF Asks
  <2>6. Replies(r)'
    BY <2>1, <2>2, <2>4, <1>c, <1>u DEF Replies
  <2>7. AtWorker(r)'
    BY <2>1, <2>2, <2>3, <2>4, <1>c, <1>u DEF AtWorker
  <2>8. AtClient(r)'
    BY <2>1, <1>c, <1>u, <1>d DEF AtClient, NoIO
  <2> QED BY <2>5, <2>6, <2>7, <2>8
<1>a. Unforked'
  BY <1>d, HomeIs, <1>u, <1>h, <1>i DEF Unforked
<1>b. ASSUME NEW q \in Requests
      PROVE  /\ Place(q)'
             /\ Accepted(q)'
             /\ Locks(q)'
             /\ InUse(q)'
             /\ Talk(q)'
             /\ Rests(q)'
             /\ Own(q)'
             /\ Alive(q)'
  <2>1. Place(q)'
    BY <1>d, HomeIs, <1>u, <1>h, <1>i DEF Place, Owner, Busy
  <2>2. Accepted(q)'
    <3>1. CASE q = r
      <4>1. Len(got[r]) \in Nat /\ Near(r) = Len(got[r]) + 1 /\ (\A i \in 1..Len(got[r]) : got[r][i] = Answer(r)[i])
        BY <1>k DEF Accepted
      <4>2. \A i \in 1..Near(r) : got'[r][i] = Answer(r)[i]
        BY <4>1, <1>g
      <4>3. pc'[r] = "done" => ended
        BY <1>u, <1>d
      <4> QED BY <3>1, <4>2, <4>3, <1>e, <1>g, <1>k DEF Accepted
    <3>2. CASE q # r
      BY <3>2, <1>u, <1>d DEF Accepted
    <3> QED BY <3>1, <3>2
  <2>3. Locks(q)'
    <3>1. Holds(q)' => Holds(q) /\ (q = r => ~ended)
      BY <1>u, <1>d, <1>f, <1>i DEF Holds
    <3> QED BY <3>1, <1>u, <1>d, <1>h, <1>n, HomeIs DEF Locks
  <2>4. InUse(q)'
    BY <1>d, HomeIs, <1>u, <1>h, <1>i DEF InUse, Converses, Starting
  <2>5. Talk(q)'
    <3>1. CASE q = r
      BY <3>1, <1>t, <1>f, <1>u, <1>d, <1>i DEF Talk, Converses
    <3>2. CASE q # r
      BY <3>2, <1>d, <1>u, <1>i, TalkOfOthers
    <3> QED BY <3>1, <3>2
  <2>6. Rests(q)'
    <3>1. CASE q = s
      BY <3>1, <1>d, <1>u, <1>i DEF Rests, NoIO
    <3>2. CASE q # s
      BY <3>2, <1>d, <1>u DEF Rests
    <3> QED BY <3>1, <3>2
  <2>7. Own(q)'
    <3>1. CASE q = s
      BY <3>1, <1>d, <1>u, <1>i DEF Own, Uses, NoIO
    <3>2. CASE q # s
      BY <3>2, <1>d, <1>u DEF Own, Uses
    <3> QED BY <3>1, <3>2
  <2>8. Alive(q)'
    <3>1. Converses(q) /\ Starting(q) => q # r
      BY <1>u
    <3> QED BY <3>1, <1>d, <1>u, <1>h, <1>i DEF Alive, Owner, Converses, Starting
  <2> QED BY <2>1, <2>2, <2>3, <2>4, <2>5, <2>6, <2>7, <2>8
<1>z. ASSUME NEW p \in Processes PROVE Locked(p)' /\ Kept(p)'
  <2>1. Locked(p)'
    <3>1. CASE p = p0
      BY <3>1, <1>d, <1>u, <1>h, <1>i DEF Locked, Holds
    <3>2. CASE p # p0
      BY <3>2, <1>d, <1>u, <1>h, <1>i DEF Locked, Holds
    <3> QED BY <3>1, <3>2
  <2>2. Kept(p)'
    <3>1. CASE p = p0
      <4>1. persistent'[p] = s /\ Owner(s)' = p /\ worker'[s] # "none"
        BY <3>1, <1>u, <1>h, <1>i DEF Owner
      <4>2. CASE ended
        BY <4>1, <4>2, <1>e DEF Kept
      <4>3. CASE ~ended
        BY <3>1, <4>1, <4>3, <1>u, <1>d, <1>i DEF Kept
      <4> QED BY <4>2, <4>3
    <3>2. CASE p # p0
      <4>1. running[p] /\ lock[p] # NIL => lock[p] # r
        BY <3>2 DEF Locked
      <4> QED BY <3>2, <4>1, <1>d, <1>u, <1>h, <1>i DEF Kept, Quiet, Owner, Locked
    <3> QED BY <3>1, <3>2
  <2> QED BY <2>1, <2>2
<1> QED BY <1>a, <1>b, <1>z

-----------------------------------------------------------------------------
(* Pipes: what a step at one end does to a conversation.                   *)

LEMMA ClientSame ==
  ASSUME NEW q \in Requests, UNCHANGED <<pc, doing, sent, got, session>>, io'[session[q]] = io[session[q]]
  PROVE  /\ AtClient(q) => AtClient(q)'
         /\ Starting(q)' = Starting(q) /\ Told(q)' = Told(q) /\ Heard(q)' = Heard(q) /\ Near(q)' = Near(q)
         /\ AskLen(q)' = AskLen(q) /\ ReplyLen(q)' = ReplyLen(q)
         /\ \A i : AskType(q, i)' = AskType(q, i) /\ ReplyType(q, i)' = ReplyType(q, i)
         /\ \A op : InHand(q, op)' = InHand(q, op)
<1>1. Starting(q)' = Starting(q) /\ NextWrite(q)' = NextWrite(q) /\ Heard(q)' = Heard(q)
  BY DEF Starting, NextWrite, Heard
<1>2. AskLen(q)' = AskLen(q) /\ ReplyLen(q)' = ReplyLen(q)
  BY <1>1 DEF AskLen, ReplyLen
<1>3. \A i : AskType(q, i)' = AskType(q, i) /\ ReplyType(q, i)' = ReplyType(q, i)
  BY <1>1 DEF AskType, ReplyType
<1>4. \A op : InHand(q, op)' = InHand(q, op)
  BY DEF InHand
<1>5. Told(q)' = Told(q) /\ Near(q)' = Near(q)
  BY <1>1, <1>2, <1>4 DEF Told, Begun, Near
<1>6. AtClient(q) => AtClient(q)'
  BY <1>1 DEF AtClient
<1> QED BY <1>1, <1>2, <1>3, <1>4, <1>5, <1>6

\* the frame a request writes is the next one it has to say
LEMMA NextIs ==
  ASSUME Facts, NEW q \in Requests, Converses(q), NextWrite(q) # NIL
  PROVE  NextWrite(q) = Frame(AskType(q, Begun(q) + 1), q)
<1>1. AtClient(q) /\ sent[q] \in Nat /\ doing[q] \in {"hello", "request", "translate"}
  BY Counters, Phases DEF Steps
<1>2. CASE doing[q] = "hello"
  BY <1>2 DEF NextWrite, AskType, Starting
<1>3. CASE doing[q] = "request"
  BY <1>3 DEF NextWrite, AskType, Starting, Begun
<1>4. CASE doing[q] = "translate"
  <2>1. Begun(q) + 1 = sent[q] + 2 /\ ~Starting(q) /\ sent[q] <= Units
    BY <1>1, <1>4 DEF Begun, Starting, AtClient
  <2>2. Begun(q) + 1 # 1 /\ (Begun(q) + 1 = Units + 2 <=> ~(sent[q] < Units))
    BY <2>1, <1>1, UnitsAssumption
  <2>3. NextWrite(q) = Frame(IF sent[q] < Units THEN "translation_unit" ELSE "translation_end", q)
    BY <1>4 DEF NextWrite
  <2> QED BY <2>1, <2>2, <2>3 DEF AskType
<1> QED BY <1>1, <1>2, <1>3, <1>4

\* the next frame of the worker's pipe is the next one of the conversation
LEMMA HeadIs ==
  ASSUME Facts, NEW q \in Requests, Converses(q), worker[session[q]] = "running", inq[session[q]] # <<>>
  PROVE  /\ Head(inq[session[q]]) = Frame(AskType(q, Consumed(q) + 1), q)
         /\ Consumed(q) \in Nat /\ Consumed(q) < AskLen(q)
<1>1. inq[session[q]] \in Seq(Frames) /\ Asks(q) /\ Told(q) \in Nat /\ Told(q) <= AskLen(q) /\ AskLen(q) \in Nat
  BY Counters, Phases
<1>2. Len(inq[session[q]]) \in Nat /\ 1 \in 1..Len(inq[session[q]]) /\ Head(inq[session[q]]) = inq[session[q]][1]
  BY <1>1
<1>3. Len(inq[session[q]]) <= Told(q)
  BY <1>1 DEF Asks
<1>4. Consumed(q) \in Nat /\ Consumed(q) < AskLen(q)
  BY <1>1, <1>2, <1>3 DEF Consumed
<1>5. inq[session[q]][1] = Frame(AskType(q, Consumed(q) + 1), q)
  BY <1>1, <1>2 DEF Asks
<1> QED BY <1>2, <1>4, <1>5

LEMMA Taken ==
  ASSUME Facts, NEW q \in Requests, Converses(q), worker[session[q]] = "running", inq[session[q]] # <<>>,
         UNCHANGED <<pc, doing, sent, got, session, io>>, inq'[session[q]] = Tail(inq[session[q]])
  PROVE  Consumed(q)' = Consumed(q) + 1 /\ Asks(q)'
<1> DEFINE Q == inq[session[q]]
           N == Len(Q)
<1>1. Q \in Seq(Frames) /\ Q # <<>> /\ Told(q) \in Nat /\ Told(q)' = Told(q) /\ N \in Nat /\ N <= Told(q)
      /\ Consumed(q) = Told(q) - N
      /\ \A i \in 1..N : Q[i] = Frame(AskType(q, Consumed(q) + i), q)
  BY Counters, ClientSame DEF Asks, Consumed
<1>2. Len(Tail(Q)) = N - 1 /\ N - 1 \in Nat /\ \A i \in 1..N - 1 : Tail(Q)[i] = Q[i + 1] /\ i + 1 \in 1..N
  BY <1>1
<1>3. Consumed(q)' = Told(q) - (N - 1)
  BY <1>1, <1>2 DEF Consumed
<1>4. Consumed(q)' = Consumed(q) + 1
  <2> HIDE DEF N
  <2> QED BY <1>1, <1>3
<1>5. \A i \in 1..N - 1 : Tail(Q)[i] = Frame(AskType(q, Consumed(q)' + i), q)
  <2> SUFFICES ASSUME NEW i \in 1..N - 1 PROVE Tail(Q)[i] = Frame(AskType(q, Consumed(q)' + i), q)
    OBVIOUS
  <2>1. Tail(Q)[i] = Q[i + 1] /\ i + 1 \in 1..N
    BY <1>2
  <2>2. Q[i + 1] = Frame(AskType(q, Consumed(q) + (i + 1)), q)
    BY <1>1, <2>1
  <2>3. Consumed(q) + (i + 1) = Consumed(q)' + i
    <3>1. Consumed(q) \in Int /\ i \in Int
      BY <1>1, <1>2, Counters
    <3> QED BY <1>4, <3>1
  <2> QED BY <2>1, <2>2, <2>3
<1>6. Len(Tail(Q)) <= Told(q)
  BY <1>1, <1>2
<1>7. Starting(q)' = Starting(q)
  BY ClientSame
<1>8. inq'[session'[q]] = Tail(Q)
  OBVIOUS
<1> HIDE DEF Q, N
<1>9. Asks(q)'
  BY <1>1, <1>2, <1>5, <1>6, <1>7, <1>8 DEF Asks, AskType
<1> QED BY <1>4, <1>9

LEMMA Answering ==
  ASSUME Facts, NEW q \in Requests, Converses(q), Answered(q) < ReplyLen(q),
         UNCHANGED <<pc, doing, sent, got, session, io>>,
         outq'[session[q]] = Append(outq[session[q]], Frame(ReplyType(q, Answered(q) + 1), q))
  PROVE  Answered(q)' = Answered(q) + 1 /\ Replies(q)'
<1> DEFINE Q == outq[session[q]]
           N == Len(Q)
           F == Frame(ReplyType(q, Answered(q) + 1), q)
<1>1. Q \in Seq(Frames) /\ Near(q) \in Nat /\ N \in Nat /\ Answered(q) = Near(q) + N /\ ReplyLen(q) \in Nat
      /\ \A i \in 1..N : Q[i] = Frame(ReplyType(q, Near(q) + i), q)
  BY Counters DEF Replies, Answered
<1>2. Len(Append(Q, F)) = N + 1 /\ Append(Q, F)[N + 1] = F /\ \A i \in 1..N : Append(Q, F)[i] = Q[i]
  BY <1>1
<1>3. /\ Near(q)' = Near(q) /\ ReplyLen(q)' = ReplyLen(q) /\ Heard(q)' = Heard(q) /\ InHand(q, "read")' = InHand(q, "read")
      /\ \A i : ReplyType(q, i)' = ReplyType(q, i)
  BY ClientSame
<1>4. Answered(q)' = Near(q) + (N + 1) /\ outq'[session'[q]] = Append(Q, F)
  BY <1>2, <1>3 DEF Answered
<1>5. Answered(q)' = Answered(q) + 1 /\ Answered(q) + 1 = Near(q) + (N + 1) /\ Answered(q)' <= ReplyLen(q)
  <2> HIDE DEF N
  <2> QED BY <1>1, <1>4
<1>6. \A i \in 1..N + 1 : Append(Q, F)[i] = Frame(ReplyType(q, Near(q) + i), q)
  <2> SUFFICES ASSUME NEW i \in 1..N + 1 PROVE Append(Q, F)[i] = Frame(ReplyType(q, Near(q) + i), q)
    OBVIOUS
  <2>1. CASE i = N + 1
    BY <2>1, <1>2, <1>5
  <2>2. CASE i # N + 1
    <3>1. i \in 1..N
      BY <1>1, <2>2
    <3> QED BY <3>1, <1>1, <1>2
  <2> QED BY <2>1, <2>2
<1>7. InHand(q, "read") = 1 => io[session[q]].frame = Frame(ReplyType(q, Heard(q) + 1), q)
  BY Counters DEF Replies
<1> HIDE DEF Q, N, F
<1>8. Replies(q)'
  BY <1>2, <1>3, <1>4, <1>5, <1>6, <1>7 DEF Replies
<1> QED BY <1>5, <1>8

LEMMA Silent ==
  ASSUME Facts, NEW q \in Requests, Converses(q),
         UNCHANGED <<pc, doing, sent, got, session, io>>, outq'[session[q]] = outq[session[q]]
  PROVE  Answered(q)' = Answered(q) /\ Replies(q)'
<1>1. Replies(q)
  BY Counters
<1> QED BY <1>1, ClientSame DEF Answered, Replies

-----------------------------------------------------------------------------
(* The session's I/O thread.                                               *)

LEMMA TalkElsewhere ==
  ASSUME Facts, NEW s \in Requests, NEW q \in Requests, session[q] # s,
         UNCHANGED <<pc, doing, sent, got, session, inherited>>,
         \A x \in Requests : x # s =>
           /\ io'[x] = io[x] /\ job'[x] = job[x] /\ inq'[x] = inq[x] /\ outq'[x] = outq[x] /\ worker'[x] = worker[x]
  PROVE  Talk(q)'
<1>1. CASE Converses(q)
  <2>1. session[q] \in Requests /\ Talk(q)
    BY <1>1, SessionIs DEF Facts
  <2> QED BY <2>1, TalkSame DEF Converses
<1>2. CASE ~Converses(q)
  BY <1>2 DEF Talk, Converses
<1> QED BY <1>1, <1>2

LEMMA TalkWritten ==
  ASSUME Facts, NEW q \in Requests, Converses(q), io[session[q]].state = "pending", io[session[q]].op = "write",
         UNCHANGED <<pc, doing, sent, got, session, inherited, job, outq, worker>>,
         inq'[session[q]] = Append(inq[session[q]], io[session[q]].frame),
         io'[session[q]].state = "ok", io'[session[q]].op = "write", io'[session[q]].frame = io[session[q]].frame
  PROVE  Talk(q)'
<1> DEFINE Q == inq[session[q]]
           N == Len(Q)
           f == io[session[q]].frame
<1>1. /\ AtClient(q) /\ Replies(q) /\ AtWorker(q) /\ Q \in Seq(Frames) /\ N \in Nat /\ Begun(q) \in Nat /\ session[q] \in Requests
      /\ Asks(q)
  BY Counters
<1>2. /\ InHand(q, "write") = 0 /\ InHand(q, "read") = 0 /\ InHand(q, "write")' = 1 /\ InHand(q, "read")' = 0
  BY DEF InHand
<1>3. /\ Starting(q)' = Starting(q) /\ NextWrite(q)' = NextWrite(q) /\ Heard(q)' = Heard(q)
  BY DEF Starting, NextWrite, Heard
<1>4. /\ AskLen(q)' = AskLen(q) /\ ReplyLen(q)' = ReplyLen(q)
  BY <1>3 DEF AskLen, ReplyLen
<1>5. Begun(q)' = Begun(q) /\ Told(q) = Begun(q) /\ Told(q)' = Begun(q) + 1
  <2>1. Begun(q)' = Begun(q)
    BY <1>4 DEF Begun
  <2> QED BY <2>1, <1>1, <1>2 DEF Told
<1>6. pc[q] = "io" /\ NextWrite(q) # NIL /\ f = Frame(AskType(q, Begun(q) + 1), q)
  <2>1. pc[q] = "io"
    BY <1>1 DEF AtClient, NoIO, Converses
  <2>2. NextWrite(q) # NIL /\ f = NextWrite(q)
    BY <1>1, <2>1 DEF AtClient
  <2> QED BY <2>1, <2>2, NextIs
<1>7. Len(Append(Q, f)) = N + 1 /\ Append(Q, f)[N + 1] = f /\ \A i \in 1..N : Append(Q, f)[i] = Q[i]
  BY <1>1
<1>8. Consumed(q) = Begun(q) - N /\ Consumed(q)' = Consumed(q)
  <2>1. Consumed(q)' = (Begun(q) + 1) - (N + 1)
    BY <1>5, <1>7 DEF Consumed
  <2>2. Consumed(q) = Begun(q) - N
    BY <1>5 DEF Consumed
  <2> HIDE DEF N
  <2> QED BY <2>1, <2>2, <1>1
<1>9. ASSUME worker[session[q]] = "running" PROVE Asks(q)'
  <2>1. N <= Begun(q) /\ \A i \in 1..N : Q[i] = Frame(AskType(q, Consumed(q) + i), q)
    BY <1>1, <1>5, <1>9 DEF Asks
  <2>2. \A i \in 1..N + 1 : Append(Q, f)[i] = Frame(AskType(q, Consumed(q) + i), q)
    <3> SUFFICES ASSUME NEW i \in 1..N + 1 PROVE Append(Q, f)[i] = Frame(AskType(q, Consumed(q) + i), q)
      OBVIOUS
    <3>1. CASE i = N + 1
      <4>1. Consumed(q) + i = Begun(q) + 1
        <5> HIDE DEF N
        <5> QED BY <3>1, <1>1, <1>8
      <4> QED BY <4>1, <3>1, <1>6, <1>7
    <3>2. CASE i # N + 1
      <4>1. i \in 1..N
        BY <1>1, <3>2
      <4> QED BY <4>1, <2>1, <1>7
    <3> QED BY <3>1, <3>2
  <2>3. Len(Append(Q, f)) = N + 1 /\ N + 1 <= Begun(q) + 1
    BY <1>1, <1>7, <2>1
  <2>4. inq'[session'[q]] = Append(Q, f)
    OBVIOUS
  <2> HIDE DEF Q, N, f
  <2> QED BY <2>2, <2>3, <2>4, <1>3, <1>5, <1>8 DEF Asks, AskType
<1>10. Asks(q)'
  <2>1. CASE worker[session[q]] = "running"
    BY <2>1, <1>9
  <2>2. CASE worker[session[q]] # "running"
    BY <2>2 DEF Asks
  <2> QED BY <2>1, <2>2
<1>11. Near(q)' = Near(q) /\ Answered(q)' = Answered(q)
  BY <1>2, <1>3 DEF Near, Answered
<1>12. Replies(q)'
  BY <1>1, <1>2, <1>3, <1>4, <1>11 DEF Replies, ReplyType
<1>13. AtWorker(q)'
  BY <1>1, <1>3, <1>4, <1>8, <1>11 DEF AtWorker
<1>14. AtClient(q)'
  BY <1>1, <1>3, <1>6 DEF AtClient
<1> QED BY <1>10, <1>12, <1>13, <1>14 DEF Talk

LEMMA TalkRead ==
  ASSUME Facts, NEW q \in Requests, Converses(q), io[session[q]].state = "pending", io[session[q]].op = "read",
         UNCHANGED <<pc, doing, sent, got, session, inherited, job, inq, worker>>,
         outq[session[q]] # <<>>, outq'[session[q]] = Tail(outq[session[q]]),
         io'[session[q]].state = "ok", io'[session[q]].op = "read", io'[session[q]].frame = Head(outq[session[q]])
  PROVE  Talk(q)'
<1> DEFINE Q == outq[session[q]]
           N == Len(Q)
<1>1. /\ AtClient(q) /\ Replies(q) /\ AtWorker(q) /\ Asks(q) /\ Q \in Seq(Frames) /\ N \in Nat /\ Heard(q) \in Nat /\ session[q] \in Requests
      /\ Near(q) \in Nat
  BY Counters
<1>2. /\ InHand(q, "write") = 0 /\ InHand(q, "read") = 0 /\ InHand(q, "write")' = 0 /\ InHand(q, "read")' = 1
  BY DEF InHand
<1>3. /\ Starting(q)' = Starting(q) /\ NextWrite(q)' = NextWrite(q) /\ Heard(q)' = Heard(q)
  BY DEF Starting, NextWrite, Heard
<1>4. /\ AskLen(q)' = AskLen(q) /\ ReplyLen(q)' = ReplyLen(q)
  BY <1>3 DEF AskLen, ReplyLen
<1>5. Told(q)' = Told(q) /\ Consumed(q)' = Consumed(q)
  <2>1. Begun(q)' = Begun(q)
    BY <1>4 DEF Begun
  <2>2. Told(q)' = Told(q)
    BY <2>1, <1>2 DEF Told
  <2> QED BY <2>2 DEF Consumed
<1>6. Near(q) = Heard(q) /\ Near(q)' = Heard(q) + 1
  BY <1>1, <1>2, <1>3 DEF Near
<1>7. N - 1 \in Nat /\ Len(Tail(Q)) = N - 1 /\ Head(Q) = Q[1] /\ 1 \in 1..N /\ \A i \in 1..N - 1 : Tail(Q)[i] = Q[i + 1] /\ i + 1 \in 1..N
  BY <1>1
<1>8. \A i \in 1..N : Q[i] = Frame(ReplyType(q, Heard(q) + i), q)
  BY <1>1, <1>6 DEF Replies
<1>9. Answered(q)' = Answered(q) /\ outq'[session'[q]] = Tail(Q)
  <2>1. Answered(q)' = (Heard(q) + 1) + (N - 1) /\ Answered(q) = Heard(q) + N
    BY <1>6, <1>7 DEF Answered
  <2> HIDE DEF N
  <2> QED BY <2>1, <1>1
<1>10. \A i \in 1..N - 1 : Tail(Q)[i] = Frame(ReplyType(q, (Heard(q) + 1) + i), q)
  <2> SUFFICES ASSUME NEW i \in 1..N - 1 PROVE Tail(Q)[i] = Frame(ReplyType(q, (Heard(q) + 1) + i), q)
    OBVIOUS
  <2>1. Tail(Q)[i] = Q[i + 1] /\ i + 1 \in 1..N /\ i \in Int
    BY <1>7
  <2>2. Q[i + 1] = Frame(ReplyType(q, Heard(q) + (i + 1)), q)
    BY <1>8, <2>1
  <2>3. Heard(q) + (i + 1) = (Heard(q) + 1) + i
    BY <2>1, <1>1
  <2> QED BY <2>1, <2>2, <2>3
<1>11. io'[session'[q]].frame = Frame(ReplyType(q, Heard(q) + 1), q)
  BY <1>7, <1>8
<1>12. Replies(q)'
  <2> HIDE DEF Q, N
  <2> QED BY <1>1, <1>2, <1>3, <1>4, <1>6, <1>7, <1>9, <1>10, <1>11 DEF Replies, ReplyType
<1>13. Asks(q)'
  BY <1>1, <1>3, <1>5 DEF Asks, AskType
<1>14. AtWorker(q)'
  BY <1>1, <1>3, <1>4, <1>5, <1>9 DEF AtWorker
<1>15. AtClient(q)'
  <2>1. pc[q] = "io" /\ NextWrite(q) = NIL
    BY <1>1 DEF AtClient, NoIO, Converses
  <2> QED BY <2>1, <1>1, <1>3 DEF AtClient
<1> QED BY <1>12, <1>13, <1>14, <1>15 DEF Talk

LEMMA TalkBroken ==
  ASSUME Facts, NEW q \in Requests, Converses(q), io[session[q]].state = "pending",
         UNCHANGED <<pc, doing, sent, got, session, inherited, job, inq, outq, worker>>,
         io'[session[q]].state = "error", io'[session[q]].op = io[session[q]].op, io'[session[q]].frame = io[session[q]].frame
  PROVE  Talk(q)'
<1>1. AtClient(q) /\ Replies(q) /\ AtWorker(q) /\ Asks(q)
  BY Counters
<1>2. \A op : InHand(q, op)' = InHand(q, op) /\ InHand(q, op) = 0
  BY DEF InHand
<1>3. /\ Starting(q)' = Starting(q) /\ NextWrite(q)' = NextWrite(q) /\ Heard(q)' = Heard(q)
  BY DEF Starting, NextWrite, Heard
<1>4. Told(q)' = Told(q)
  BY <1>2, <1>3 DEF Told, Begun, AskLen
<1>5. AtClient(q)'
  <2>1. pc[q] = "io"
    BY <1>1 DEF AtClient, NoIO, Converses
  <2> QED BY <2>1, <1>1, <1>3 DEF AtClient
<1> QED BY <1>1, <1>2, <1>3, <1>4, <1>5, SidesKept DEF Talk

LEMMA PerformWriteKeeps ==
  ASSUME Facts, TypeOK', NEW s \in Requests, Perform(s), io[s].op = "write", worker[s] = "running",
         inq' = [inq EXCEPT ![s] = Append(@, io[s].frame)], io' = [io EXCEPT ![s].state = "ok"], UNCHANGED outq
  PROVE  Facts'
<1> USE DEF Facts, Domains
<1>d. Domains
  BY DomainsAre
<1>i. io[s].state = "pending" /\ io[s] \in IOCalls /\ inq[s] \in Seq(Frames) /\ worker[s] # "none"
  BY DEF TypeOK, Perform, Rests, NoIO
<1>q. ~Quiet(s)
  BY <1>i DEF Quiet, NoIO
<1>u. /\ io'[s].state = "ok" /\ io'[s].op = "write" /\ io'[s].frame = io[s].frame /\ io[s].op = "write"
      /\ inq' = [inq EXCEPT ![s] = Append(@, io[s].frame)] /\ outq' = outq /\ worker[s] = "running"
      /\ \A x \in Requests : x # s => io'[x] = io[x]
      /\ UNCHANGED <<pc, doing, sent, got, thread, session, inherited, lock, persistent, worker, job, running, forks>>
  BY <1>d, <1>i DEF Perform, clientVars, IOCalls
<1>h. \A q : Home(q)' = Home(q)
  BY <1>u DEF Home
<1>a. Unforked'
  BY <1>d, HomeIs, <1>u, <1>h, <1>i DEF Unforked
<1>b. ASSUME NEW q \in Requests
      PROVE  /\ Place(q)'
             /\ Accepted(q)'
             /\ Locks(q)'
             /\ InUse(q)'
             /\ Talk(q)'
             /\ Rests(q)'
             /\ Own(q)'
             /\ Alive(q)'
  <2>1. Place(q)'
    BY <1>d, HomeIs, <1>u, <1>h, <1>i DEF Place, Owner, Busy
  <2>2. Accepted(q)'
    BY <1>d, HomeIs, <1>u, <1>h, <1>i DEF Accepted
  <2>3. Locks(q)'
    BY <1>d, HomeIs, <1>u, <1>h, <1>i DEF Locks, Holds
  <2>4. InUse(q)'
    BY <1>d, HomeIs, <1>u, <1>h, <1>i DEF InUse, Converses, Starting
  <2>5. Talk(q)'
    <3>1. CASE session[q] = s /\ Converses(q)
      BY <3>1, <1>u, <1>i, <1>d, TalkWritten
    <3>2. CASE session[q] # s
      BY <3>2, <1>u, <1>d, TalkElsewhere
    <3>3. CASE ~Converses(q)
      BY <3>3, <1>u DEF Talk, Converses
    <3> QED BY <3>1, <3>2, <3>3
  <2>6. Rests(q)'
    <3>1. CASE q = s
      BY <3>1, <1>d, <1>u, <1>i DEF Rests, IOCalls
    <3>2. CASE q # s
      BY <3>2, <1>d, <1>u DEF Rests, Uses
    <3> QED BY <3>1, <3>2
  <2>7. Own(q)'
    <3>1. CASE q = s
      <4>1. inq'[s] = Append(inq[s], io[s].frame) /\ io[s].frame \in Frames /\ Uses(io[s].frame.id, s)
        BY <1>u, <1>d DEF Own, Rests
      <4>2. \A i \in 1..Len(inq'[s]) : inq'[s][i] = io[s].frame \/ \E j \in 1..Len(inq[s]) : inq'[s][i] = inq[s][j]
        BY <4>1, <1>i
      <4>3. \A i \in 1..Len(inq[s]) : Uses(inq[s][i].id, s)
        BY <1>u DEF Own
      <4>4. \A x : Uses(x, s)' <=> Uses(x, s)
        BY <1>u DEF Uses
      <4>5. \A i \in 1..Len(inq'[s]) : Uses(inq'[s][i].id, s)
        BY <4>1, <4>2, <4>3
      <4>6. job'[s] = job[s] /\ worker'[s] = worker[s] /\ io'[s].frame = io[s].frame
        BY <1>u
      <4>7. job[s].state \in {"collect", "answer"} => Uses(job[s].id, s)
        BY <1>u DEF Own
      <4> QED BY <3>1, <4>1, <4>5, <4>6, <4>7, <1>u DEF Own, Uses
    <3>2. CASE q # s
      BY <3>2, <1>d, <1>u DEF Own, Uses
    <3> QED BY <3>1, <3>2
  <2>8. Alive(q)'
    BY <1>d, HomeIs, <1>u, <1>h, <1>i DEF Alive, Owner, Converses, Starting
  <2> QED BY <2>1, <2>2, <2>3, <2>4, <2>5, <2>6, <2>7, <2>8
<1>c. ASSUME NEW p \in Processes PROVE Locked(p)' /\ Kept(p)'
  <2>1. Locked(p)'
    BY <1>d, HomeIs, <1>u, <1>h, <1>i DEF Locked, Holds
  <2>2. Kept(p)'
    <3>1. CASE running[p] /\ persistent[p] # NIL /\ (lock[p] = NIL \/ pc[lock[p]] = "choose")
      <4>1. Quiet(persistent[p]) /\ persistent[p] # s
        BY <3>1, <1>q DEF Kept
      <4> QED BY <3>1, <4>1, <1>d, <1>u, <1>h DEF Kept, Quiet, Owner
    <3>2. CASE ~(running[p] /\ persistent[p] # NIL /\ (lock[p] = NIL \/ pc[lock[p]] = "choose"))
      BY <3>2, <1>d, <1>u, <1>h DEF Kept, Owner
    <3> QED BY <3>1, <3>2
  <2> QED BY <2>1, <2>2
<1> QED BY <1>a, <1>b, <1>c

LEMMA PerformReadKeeps ==
  ASSUME Facts, TypeOK', NEW s \in Requests, Perform(s), io[s].op = "read", outq[s] # <<>>,
         outq' = [outq EXCEPT ![s] = Tail(@)], io' = [io EXCEPT ![s].state = "ok", ![s].frame = Head(outq[s])], UNCHANGED inq
  PROVE  Facts'
<1> USE DEF Facts, Domains
<1>d. Domains
  BY DomainsAre
<1>i. io[s].state = "pending" /\ io[s] \in IOCalls /\ inq[s] \in Seq(Frames) /\ worker[s] # "none"
  BY DEF TypeOK, Perform, Rests, NoIO
<1>q. ~Quiet(s)
  BY <1>i DEF Quiet, NoIO
<1>u. /\ io'[s].state = "ok" /\ io'[s].op = "read" /\ io'[s].frame = Head(outq[s]) /\ io[s].op = "read" /\ outq[s] # <<>>
      /\ outq' = [outq EXCEPT ![s] = Tail(@)] /\ inq' = inq
      /\ \A x \in Requests : x # s => io'[x] = io[x]
      /\ UNCHANGED <<pc, doing, sent, got, thread, session, inherited, lock, persistent, worker, job, running, forks>>
  BY <1>d, <1>i DEF Perform, clientVars, IOCalls
<1>h. \A q : Home(q)' = Home(q)
  BY <1>u DEF Home
<1>a. Unforked'
  BY <1>d, HomeIs, <1>u, <1>h, <1>i DEF Unforked
<1>b. ASSUME NEW q \in Requests
      PROVE  /\ Place(q)'
             /\ Accepted(q)'
             /\ Locks(q)'
             /\ InUse(q)'
             /\ Talk(q)'
             /\ Rests(q)'
             /\ Own(q)'
             /\ Alive(q)'
  <2>1. Place(q)'
    BY <1>d, HomeIs, <1>u, <1>h, <1>i DEF Place, Owner, Busy
  <2>2. Accepted(q)'
    BY <1>d, HomeIs, <1>u, <1>h, <1>i DEF Accepted
  <2>3. Locks(q)'
    BY <1>d, HomeIs, <1>u, <1>h, <1>i DEF Locks, Holds
  <2>4. InUse(q)'
    BY <1>d, HomeIs, <1>u, <1>h, <1>i DEF InUse, Converses, Starting
  <2>5. Talk(q)'
    <3>1. CASE session[q] = s /\ Converses(q)
      BY <3>1, <1>u, <1>i, <1>d, TalkRead
    <3>2. CASE session[q] # s
      BY <3>2, <1>u, <1>d, TalkElsewhere
    <3>3. CASE ~Converses(q)
      BY <3>3, <1>u DEF Talk, Converses
    <3> QED BY <3>1, <3>2, <3>3
  <2>6. Rests(q)'
    <3>1. CASE q = s
      BY <3>1, <1>d, <1>u, <1>i DEF Rests, IOCalls
    <3>2. CASE q # s
      BY <3>2, <1>d, <1>u DEF Rests, Uses
    <3> QED BY <3>1, <3>2
  <2>7. Own(q)'
    <3>1. CASE q = s
      BY <3>1, <1>d, <1>u, <1>i DEF Own, Uses
    <3>2. CASE q # s
      BY <3>2, <1>d, <1>u DEF Own, Uses
    <3> QED BY <3>1, <3>2
  <2>8. Alive(q)'
    BY <1>d, HomeIs, <1>u, <1>h, <1>i DEF Alive, Owner, Converses, Starting
  <2> QED BY <2>1, <2>2, <2>3, <2>4, <2>5, <2>6, <2>7, <2>8
<1>c. ASSUME NEW p \in Processes PROVE Locked(p)' /\ Kept(p)'
  <2>1. Locked(p)'
    BY <1>d, HomeIs, <1>u, <1>h, <1>i DEF Locked, Holds
  <2>2. Kept(p)'
    <3>1. CASE running[p] /\ persistent[p] # NIL /\ (lock[p] = NIL \/ pc[lock[p]] = "choose")
      <4>1. Quiet(persistent[p]) /\ persistent[p] # s
        BY <3>1, <1>q DEF Kept
      <4> QED BY <3>1, <4>1, <1>d, <1>u, <1>h DEF Kept, Quiet, Owner
    <3>2. CASE ~(running[p] /\ persistent[p] # NIL /\ (lock[p] = NIL \/ pc[lock[p]] = "choose"))
      BY <3>2, <1>d, <1>u, <1>h DEF Kept, Owner
    <3> QED BY <3>1, <3>2
  <2> QED BY <2>1, <2>2
<1> QED BY <1>a, <1>b, <1>c

LEMMA PerformErrorKeeps ==
  ASSUME Facts, TypeOK', NEW s \in Requests, Perform(s), worker[s] = "dead", io' = [io EXCEPT ![s].state = "error"], UNCHANGED <<inq, outq>>
  PROVE  Facts'
<1> USE DEF Facts, Domains
<1>d. Domains
  BY DomainsAre
<1>i. io[s].state = "pending" /\ io[s] \in IOCalls /\ inq[s] \in Seq(Frames) /\ worker[s] # "none"
  BY DEF TypeOK, Perform, Rests, NoIO
<1>q. ~Quiet(s)
  BY <1>i DEF Quiet, NoIO
<1>u. /\ io'[s].state = "error" /\ io'[s].op = io[s].op /\ io'[s].frame = io[s].frame
      /\ outq' = outq /\ inq' = inq /\ worker[s] = "dead"
      /\ \A x \in Requests : x # s => io'[x] = io[x]
      /\ UNCHANGED <<pc, doing, sent, got, thread, session, inherited, lock, persistent, worker, job, running, forks>>
  BY <1>d, <1>i DEF Perform, clientVars, IOCalls
<1>h. \A q : Home(q)' = Home(q)
  BY <1>u DEF Home
<1>a. Unforked'
  BY <1>d, HomeIs, <1>u, <1>h, <1>i DEF Unforked
<1>b. ASSUME NEW q \in Requests
      PROVE  /\ Place(q)'
             /\ Accepted(q)'
             /\ Locks(q)'
             /\ InUse(q)'
             /\ Talk(q)'
             /\ Rests(q)'
             /\ Own(q)'
             /\ Alive(q)'
  <2>1. Place(q)'
    BY <1>d, HomeIs, <1>u, <1>h, <1>i DEF Place, Owner, Busy
  <2>2. Accepted(q)'
    BY <1>d, HomeIs, <1>u, <1>h, <1>i DEF Accepted
  <2>3. Locks(q)'
    BY <1>d, HomeIs, <1>u, <1>h, <1>i DEF Locks, Holds
  <2>4. InUse(q)'
    BY <1>d, HomeIs, <1>u, <1>h, <1>i DEF InUse, Converses, Starting
  <2>5. Talk(q)'
    <3>1. CASE session[q] = s /\ Converses(q)
      BY <3>1, <1>u, <1>i, <1>d, TalkBroken
    <3>2. CASE session[q] # s
      BY <3>2, <1>u, <1>d, TalkElsewhere
    <3>3. CASE ~Converses(q)
      BY <3>3, <1>u DEF Talk, Converses
    <3> QED BY <3>1, <3>2, <3>3
  <2>6. Rests(q)'
    <3>1. CASE q = s
      BY <3>1, <1>d, <1>u, <1>i DEF Rests, IOCalls
    <3>2. CASE q # s
      BY <3>2, <1>d, <1>u DEF Rests, Uses
    <3> QED BY <3>1, <3>2
  <2>7. Own(q)'
    <3>1. CASE q = s
      BY <3>1, <1>d, <1>u, <1>i DEF Own, Uses
    <3>2. CASE q # s
      BY <3>2, <1>d, <1>u DEF Own, Uses
    <3> QED BY <3>1, <3>2
  <2>8. Alive(q)'
    BY <1>d, HomeIs, <1>u, <1>h, <1>i DEF Alive, Owner, Converses, Starting
  <2> QED BY <2>1, <2>2, <2>3, <2>4, <2>5, <2>6, <2>7, <2>8
<1>c. ASSUME NEW p \in Processes PROVE Locked(p)' /\ Kept(p)'
  <2>1. Locked(p)'
    BY <1>d, HomeIs, <1>u, <1>h, <1>i DEF Locked, Holds
  <2>2. Kept(p)'
    <3>1. CASE running[p] /\ persistent[p] # NIL /\ (lock[p] = NIL \/ pc[lock[p]] = "choose")
      <4>1. Quiet(persistent[p]) /\ persistent[p] # s
        BY <3>1, <1>q DEF Kept
      <4> QED BY <3>1, <4>1, <1>d, <1>u, <1>h DEF Kept, Quiet, Owner
    <3>2. CASE ~(running[p] /\ persistent[p] # NIL /\ (lock[p] = NIL \/ pc[lock[p]] = "choose"))
      BY <3>2, <1>d, <1>u, <1>h DEF Kept, Owner
    <3> QED BY <3>1, <3>2
  <2> QED BY <2>1, <2>2
<1> QED BY <1>a, <1>b, <1>c

LEMMA PerformKeeps == ASSUME Facts, TypeOK', NEW s \in Requests, Perform(s) PROVE Facts'
  BY PerformWriteKeeps, PerformReadKeeps, PerformErrorKeeps DEF Perform

-----------------------------------------------------------------------------
(* The worker.                                                             *)

\* a frame is taken, and the worker's task is that of the frame or stays
LEMMA OwnTaken ==
  ASSUME Facts, NEW s \in Requests, worker[s] = "running", inq[s] # <<>>,
         UNCHANGED <<session, inherited, io, worker>>, inq' = [inq EXCEPT ![s] = Tail(@)],
         \A x \in Requests : x # s => job'[x] = job[x],
         job'[s].state \in {"collect", "answer"} => job'[s].id = Head(inq[s]).id \/ (job'[s].id = job[s].id /\ job[s].state = "collect"),
         NEW q \in Requests
  PROVE  Own(q)'
<1>1. \A x, y : Uses(x, y)' <=> Uses(x, y)
  BY DEF Uses
<1>2. CASE q = s
  <2>1. inq[s] \in Seq(Frames) /\ inq'[s] = Tail(inq[s])
    BY DEF Facts, TypeOK
  <2>2. \A i \in 1..Len(inq[s]) : Uses(inq[s][i].id, s)
    BY DEF Facts, Own
  <2>3. Uses(Head(inq[s]).id, s)
    BY <2>1, <2>2
  <2>4. \A i \in 1..Len(inq'[s]) : Uses(inq'[s][i].id, s)
    BY <2>1, <2>2
  <2>5. job[s].state = "collect" => Uses(job[s].id, s)
    BY DEF Facts, Own
  <2>6. job'[s].state \in {"collect", "answer"} => Uses(job'[s].id, s)
    BY <2>3, <2>5
  <2>7. io[s].op = "write" => Uses(io[s].frame.id, s)
    BY DEF Facts, Own
  <2> QED BY <1>1, <1>2, <2>4, <2>6, <2>7 DEF Own
<1>3. CASE q # s
  <2>1. Own(q) /\ inq'[q] = inq[q] /\ job'[q] = job[q]
    BY <1>3 DEF Facts, TypeOK
  <2> QED BY <1>1, <2>1 DEF Own
<1> QED BY <1>2, <1>3

LEMMA HelloKeeps ==
  ASSUME Facts, TypeOK', NEW s \in Requests, WorkerHello(s)
  PROVE  Facts'
<1> USE DEF Facts, Domains
<1>d. Domains
  BY DomainsAre
<1>i. /\ job[s].state = "boot" /\ worker[s] = "running" /\ inq[s] # <<>> /\ inq[s] \in Seq(Frames)
      /\ Head(inq[s]) \in Frames
  BY TakesType DEF WorkerHello, WorkerStep, Takes, TypeOK
<1>q. ~Quiet(s)
  BY <1>i DEF Quiet
<1>u. /\ inq' = [inq EXCEPT ![s] = Tail(@)] /\ inq'[s] = Tail(inq[s])
      /\ outq'[s] = Append(outq[s], Frame("ready", Head(inq[s]).id)) /\ \A x \in Requests : x # s => outq'[x] = outq[x]
      /\ job'[s].state = "command" /\ \A x \in Requests : x # s => job'[x] = job[x]
      /\ UNCHANGED <<pc, doing, sent, got, thread, session, inherited, lock, persistent, worker, io, running, forks>>
  BY <1>d DEF WorkerHello, WorkerStep, Takes, Send, Goes, Job, clientVars
<1>h. \A q : Home(q)' = Home(q)
  BY <1>u DEF Home
<1>a. Unforked'
  BY <1>d, HomeIs, <1>u, <1>h, <1>i DEF Unforked
<1>b. ASSUME NEW q \in Requests
      PROVE  /\ Place(q)'
             /\ Accepted(q)'
             /\ Locks(q)'
             /\ InUse(q)'
             /\ Talk(q)'
             /\ Rests(q)'
             /\ Own(q)'
             /\ Alive(q)'
  <2>1. Place(q)'
    BY <1>d, HomeIs, <1>u, <1>h, <1>i DEF Place, Owner, Busy
  <2>2. Accepted(q)'
    BY <1>d, HomeIs, <1>u, <1>h, <1>i DEF Accepted
  <2>3. Locks(q)'
    BY <1>d, HomeIs, <1>u, <1>h, <1>i DEF Locks, Holds
  <2>4. InUse(q)'
    BY <1>d, HomeIs, <1>u, <1>h, <1>i DEF InUse, Converses, Starting
  <2>5. Talk(q)'
    <3>1. CASE session[q] = s /\ Converses(q)
      <4>c. AtClient(q) /\ Replies(q) /\ AtWorker(q) /\ AskLen(q) \in Nat /\ ReplyLen(q) \in Nat /\ Answered(q) \in Nat /\ Consumed(q) \in Int
        BY <3>1, Counters
      <4>h. Head(inq[s]) = Frame(AskType(q, Consumed(q) + 1), q) /\ Consumed(q) \in Nat /\ Consumed(q) < AskLen(q)
        BY <3>1, <1>i, <1>u, HeadIs
      <4>t. Consumed(q)' = Consumed(q) + 1 /\ Asks(q)'
        BY <3>1, <1>i, <1>u, Taken
      <4>s. AtClient(q)' /\ Starting(q)' = Starting(q) /\ AskLen(q)' = AskLen(q) /\ ReplyLen(q)' = ReplyLen(q)
        BY <4>c, <1>u, ClientSame
      <4>1. Starting(q) /\ Consumed(q) = 0 /\ Answered(q) = 0 /\ ReplyLen(q) = 1
        BY <3>1, <4>c, <1>i DEF AtWorker, Job, ReplyLen
      <4>2. Frame("ready", Head(inq[s]).id) = Frame(ReplyType(q, Answered(q) + 1), q)
        BY <4>1, <4>h DEF ReplyType, Frame
      <4>3. Answered(q)' = Answered(q) + 1 /\ Replies(q)'
        BY <3>1, <4>1, <4>2, <1>u, Answering
      <4>4. AtWorker(q)'
        BY <3>1, <4>1, <4>3, <4>t, <4>s, <1>u DEF AtWorker
      <4> QED BY <4>3, <4>4, <4>s, <4>t DEF Talk
    <3>2. CASE session[q] # s
      BY <3>2, <1>u, <1>d, TalkElsewhere
    <3>3. CASE ~Converses(q)
      BY <3>3, <1>u DEF Talk, Converses
    <3> QED BY <3>1, <3>2, <3>3
  <2>6. Rests(q)'
    <3>1. CASE q = s
      BY <3>1, <1>u, <1>i DEF Rests
    <3>2. CASE q # s
      BY <3>2, <1>d, <1>u DEF Rests
    <3> QED BY <3>1, <3>2
  <2>7. Own(q)'
    BY <1>u, <1>i, OwnTaken
  <2>8. Alive(q)'
    BY <1>d, HomeIs, <1>u, <1>h, <1>i DEF Alive, Owner, Converses, Starting
  <2> QED BY <2>1, <2>2, <2>3, <2>4, <2>5, <2>6, <2>7, <2>8
<1>c. ASSUME NEW p \in Processes PROVE Locked(p)' /\ Kept(p)'
  <2>1. Locked(p)'
    BY <1>d, HomeIs, <1>u, <1>h, <1>i DEF Locked, Holds
  <2>2. Kept(p)'
    <3>1. CASE running[p] /\ persistent[p] # NIL /\ (lock[p] = NIL \/ pc[lock[p]] = "choose")
      <4>1. Quiet(persistent[p]) /\ persistent[p] # s
        BY <3>1, <1>q DEF Kept
      <4> QED BY <3>1, <4>1, <1>d, <1>u, <1>h DEF Kept, Quiet, Owner
    <3>2. CASE ~(running[p] /\ persistent[p] # NIL /\ (lock[p] = NIL \/ pc[lock[p]] = "choose"))
      BY <3>2, <1>d, <1>u, <1>h DEF Kept, Owner
    <3> QED BY <3>1, <3>2
  <2> QED BY <2>1, <2>2
<1> QED BY <1>a, <1>b, <1>c

LEMMA ExtractKeeps ==
  ASSUME Facts, TypeOK', NEW s \in Requests, WorkerCommand(s), Takes(s, "extract"), Goes(s, "answer", Head(inq[s]).id, 0)
  PROVE  Facts'
<1> USE DEF Facts, Domains
<1>d. Domains
  BY DomainsAre
<1>i. /\ job[s].state = "command" /\ worker[s] = "running" /\ inq[s] # <<>> /\ inq[s] \in Seq(Frames)
      /\ Head(inq[s]).type = "extract" /\ Head(inq[s]).id \in Requests
  BY TakesType DEF WorkerCommand, WorkerStep, Takes, TypeOK
<1>q. ~Quiet(s)
  BY <1>i DEF Quiet
<1>u. /\ inq' = [inq EXCEPT ![s] = Tail(@)] /\ inq'[s] = Tail(inq[s]) /\ outq' = outq
      /\ job'[s] = Job("answer", Head(inq[s]).id, 0) /\ \A x \in Requests : x # s => job'[x] = job[x]
      /\ UNCHANGED <<pc, doing, sent, got, thread, session, inherited, lock, persistent, worker, io, running, forks>>
  BY <1>d DEF WorkerCommand, WorkerStep, Takes, Goes, clientVars
<1>h. \A q : Home(q)' = Home(q)
  BY <1>u DEF Home
<1>a. Unforked'
  BY <1>d, HomeIs, <1>u, <1>h, <1>i DEF Unforked
<1>b. ASSUME NEW q \in Requests
      PROVE  /\ Place(q)'
             /\ Accepted(q)'
             /\ Locks(q)'
             /\ InUse(q)'
             /\ Talk(q)'
             /\ Rests(q)'
             /\ Own(q)'
             /\ Alive(q)'
  <2>1. Place(q)'
    BY <1>d, HomeIs, <1>u, <1>h, <1>i DEF Place, Owner, Busy
  <2>2. Accepted(q)'
    BY <1>d, HomeIs, <1>u, <1>h, <1>i DEF Accepted
  <2>3. Locks(q)'
    BY <1>d, HomeIs, <1>u, <1>h, <1>i DEF Locks, Holds
  <2>4. InUse(q)'
    BY <1>d, HomeIs, <1>u, <1>h, <1>i DEF InUse, Converses, Starting
  <2>5. Talk(q)'
    <3>1. CASE session[q] = s /\ Converses(q)
      <4>c. AtClient(q) /\ Replies(q) /\ AtWorker(q) /\ AskLen(q) \in Nat /\ ReplyLen(q) \in Nat /\ Answered(q) \in Nat /\ Consumed(q) \in Int
        BY <3>1, Counters
      <4>h. Head(inq[s]) = Frame(AskType(q, Consumed(q) + 1), q) /\ Consumed(q) \in Nat /\ Consumed(q) < AskLen(q)
        BY <3>1, <1>i, <1>u, HeadIs
      <4>t. Consumed(q)' = Consumed(q) + 1 /\ Asks(q)'
        BY <3>1, <1>i, <1>u, Taken
      <4>s. AtClient(q)' /\ Starting(q)' = Starting(q) /\ AskLen(q)' = AskLen(q) /\ ReplyLen(q)' = ReplyLen(q)
        BY <4>c, <1>u, ClientSame
      <4>r. Answered(q)' = Answered(q) /\ Replies(q)'
        BY <3>1, <1>u, Silent
      <4>1. ~Starting(q) /\ Consumed(q) = 0 /\ Answered(q) = 0
        <5>1. AskType(q, Consumed(q) + 1) = "extract"
          BY <4>h, <1>i DEF Frame
        <5>2. ~Starting(q)
          BY <5>1 DEF AskType
        <5> QED BY <5>2, <3>1, <4>c, <4>h, <1>i DEF AtWorker, Job
      <4>2. Kind[q] = "extract" /\ Head(inq[s]).id = q /\ ReplyLen(q) > 0
        <5>1. Kind[q] = "extract" /\ Head(inq[s]).id = q
          BY <4>1, <4>h, <1>i DEF AskType, Frame
        <5>2. ReplyLen(q) >= 2
          BY <4>1, AnswerIs DEF ReplyLen
        <5> QED BY <5>1, <5>2, <4>c
      <4>3. AskLen(q) = 1
        BY <4>1, <4>2 DEF AskLen
      <4>4. AtWorker(q)'
        BY <3>1, <4>1, <4>2, <4>3, <4>r, <4>t, <4>s, <1>u DEF AtWorker, Job
      <4> QED BY <4>4, <4>r, <4>s, <4>t DEF Talk
    <3>2. CASE session[q] # s
      BY <3>2, <1>u, <1>d, TalkElsewhere
    <3>3. CASE ~Converses(q)
      BY <3>3, <1>u DEF Talk, Converses
    <3> QED BY <3>1, <3>2, <3>3
  <2>6. Rests(q)'
    <3>1. CASE q = s
      <4>1. Len(Answer(Head(inq[s]).id)) \in Nat /\ Len(Answer(Head(inq[s]).id)) >= 2
        BY <1>i, AnswerIs
      <4>2. 0 < Len(Answer(Head(inq[s]).id))
        BY <4>1
      <4> QED BY <3>1, <4>2, <1>u, <1>i DEF Rests, Job
    <3>2. CASE q # s
      BY <3>2, <1>d, <1>u DEF Rests
    <3> QED BY <3>1, <3>2
  <2>7. Own(q)'
    <3>1. job'[s].id = Head(inq[s]).id
      BY <1>u DEF Job
    <3> QED BY <3>1, <1>u, <1>i, OwnTaken
  <2>8. Alive(q)'
    BY <1>d, HomeIs, <1>u, <1>h, <1>i DEF Alive, Owner, Converses, Starting
  <2> QED BY <2>1, <2>2, <2>3, <2>4, <2>5, <2>6, <2>7, <2>8
<1>c. ASSUME NEW p \in Processes PROVE Locked(p)' /\ Kept(p)'
  <2>1. Locked(p)'
    BY <1>d, HomeIs, <1>u, <1>h, <1>i DEF Locked, Holds
  <2>2. Kept(p)'
    <3>1. CASE running[p] /\ persistent[p] # NIL /\ (lock[p] = NIL \/ pc[lock[p]] = "choose")
      <4>1. Quiet(persistent[p]) /\ persistent[p] # s
        BY <3>1, <1>q DEF Kept
      <4> QED BY <3>1, <4>1, <1>d, <1>u, <1>h DEF Kept, Quiet, Owner
    <3>2. CASE ~(running[p] /\ persistent[p] # NIL /\ (lock[p] = NIL \/ pc[lock[p]] = "choose"))
      BY <3>2, <1>d, <1>u, <1>h DEF Kept, Owner
    <3> QED BY <3>1, <3>2
  <2> QED BY <2>1, <2>2
<1> QED BY <1>a, <1>b, <1>c

LEMMA ReinsertKeeps ==
  ASSUME Facts, TypeOK', NEW s \in Requests, WorkerCommand(s), Takes(s, "reinsert"), Goes(s, "collect", Head(inq[s]).id, 0)
  PROVE  Facts'
<1> USE DEF Facts, Domains
<1>d. Domains
  BY DomainsAre
<1>i. /\ job[s].state = "command" /\ worker[s] = "running" /\ inq[s] # <<>> /\ inq[s] \in Seq(Frames)
      /\ Head(inq[s]).type = "reinsert" /\ Head(inq[s]).id \in Requests
  BY TakesType DEF WorkerCommand, WorkerStep, Takes, TypeOK
<1>q. ~Quiet(s)
  BY <1>i DEF Quiet
<1>u. /\ inq' = [inq EXCEPT ![s] = Tail(@)] /\ inq'[s] = Tail(inq[s]) /\ outq' = outq
      /\ job'[s] = Job("collect", Head(inq[s]).id, 0) /\ \A x \in Requests : x # s => job'[x] = job[x]
      /\ UNCHANGED <<pc, doing, sent, got, thread, session, inherited, lock, persistent, worker, io, running, forks>>
  BY <1>d DEF WorkerCommand, WorkerStep, Takes, Goes, clientVars
<1>h. \A q : Home(q)' = Home(q)
  BY <1>u DEF Home
<1>a. Unforked'
  BY <1>d, HomeIs, <1>u, <1>h, <1>i DEF Unforked
<1>b. ASSUME NEW q \in Requests
      PROVE  /\ Place(q)'
             /\ Accepted(q)'
             /\ Locks(q)'
             /\ InUse(q)'
             /\ Talk(q)'
             /\ Rests(q)'
             /\ Own(q)'
             /\ Alive(q)'
  <2>1. Place(q)'
    BY <1>d, HomeIs, <1>u, <1>h, <1>i DEF Place, Owner, Busy
  <2>2. Accepted(q)'
    BY <1>d, HomeIs, <1>u, <1>h, <1>i DEF Accepted
  <2>3. Locks(q)'
    BY <1>d, HomeIs, <1>u, <1>h, <1>i DEF Locks, Holds
  <2>4. InUse(q)'
    BY <1>d, HomeIs, <1>u, <1>h, <1>i DEF InUse, Converses, Starting
  <2>5. Talk(q)'
    <3>1. CASE session[q] = s /\ Converses(q)
      <4>c. AtClient(q) /\ Replies(q) /\ AtWorker(q) /\ AskLen(q) \in Nat /\ ReplyLen(q) \in Nat /\ Answered(q) \in Nat /\ Consumed(q) \in Int
        BY <3>1, Counters
      <4>h. Head(inq[s]) = Frame(AskType(q, Consumed(q) + 1), q) /\ Consumed(q) \in Nat /\ Consumed(q) < AskLen(q)
        BY <3>1, <1>i, <1>u, HeadIs
      <4>t. Consumed(q)' = Consumed(q) + 1 /\ Asks(q)'
        BY <3>1, <1>i, <1>u, Taken
      <4>s. AtClient(q)' /\ Starting(q)' = Starting(q) /\ AskLen(q)' = AskLen(q) /\ ReplyLen(q)' = ReplyLen(q)
        BY <4>c, <1>u, ClientSame
      <4>r. Answered(q)' = Answered(q) /\ Replies(q)'
        BY <3>1, <1>u, Silent
      <4>1. ~Starting(q) /\ Consumed(q) = 0 /\ Answered(q) = 0
        <5>1. AskType(q, Consumed(q) + 1) = "reinsert"
          BY <4>h, <1>i DEF Frame
        <5>2. ~Starting(q)
          BY <5>1 DEF AskType
        <5> QED BY <5>2, <3>1, <4>c, <4>h, <1>i DEF AtWorker, Job
      <4>2. Kind[q] = "reinsert" /\ Head(inq[s]).id = q /\ ReplyLen(q) > 0
        <5>1. Kind[q] = "reinsert" /\ Head(inq[s]).id = q
          BY <4>1, <4>h, <1>i DEF AskType, Frame
        <5>2. ReplyLen(q) >= 2
          BY <4>1, AnswerIs DEF ReplyLen
        <5> QED BY <5>1, <5>2, <4>c
      <4>3. AskLen(q) = Units + 2 /\ 1 < AskLen(q)
        BY <4>1, <4>2, UnitsAssumption DEF AskLen
      <4>4. AtWorker(q)'
        BY <3>1, <4>1, <4>2, <4>3, <4>r, <4>t, <4>s, <1>u DEF AtWorker, Job
      <4> QED BY <4>4, <4>r, <4>s, <4>t DEF Talk
    <3>2. CASE session[q] # s
      BY <3>2, <1>u, <1>d, TalkElsewhere
    <3>3. CASE ~Converses(q)
      BY <3>3, <1>u DEF Talk, Converses
    <3> QED BY <3>1, <3>2, <3>3
  <2>6. Rests(q)'
    <3>1. CASE q = s
      <4>1. Len(Answer(Head(inq[s]).id)) \in Nat /\ Len(Answer(Head(inq[s]).id)) >= 2
        BY <1>i, AnswerIs
      <4>2. 0 < Len(Answer(Head(inq[s]).id))
        BY <4>1
      <4> QED BY <3>1, <4>2, <1>u, <1>i DEF Rests, Job
    <3>2. CASE q # s
      BY <3>2, <1>d, <1>u DEF Rests
    <3> QED BY <3>1, <3>2
  <2>7. Own(q)'
    <3>1. job'[s].id = Head(inq[s]).id
      BY <1>u DEF Job
    <3> QED BY <3>1, <1>u, <1>i, OwnTaken
  <2>8. Alive(q)'
    BY <1>d, HomeIs, <1>u, <1>h, <1>i DEF Alive, Owner, Converses, Starting
  <2> QED BY <2>1, <2>2, <2>3, <2>4, <2>5, <2>6, <2>7, <2>8
<1>c. ASSUME NEW p \in Processes PROVE Locked(p)' /\ Kept(p)'
  <2>1. Locked(p)'
    BY <1>d, HomeIs, <1>u, <1>h, <1>i DEF Locked, Holds
  <2>2. Kept(p)'
    <3>1. CASE running[p] /\ persistent[p] # NIL /\ (lock[p] = NIL \/ pc[lock[p]] = "choose")
      <4>1. Quiet(persistent[p]) /\ persistent[p] # s
        BY <3>1, <1>q DEF Kept
      <4> QED BY <3>1, <4>1, <1>d, <1>u, <1>h DEF Kept, Quiet, Owner
    <3>2. CASE ~(running[p] /\ persistent[p] # NIL /\ (lock[p] = NIL \/ pc[lock[p]] = "choose"))
      BY <3>2, <1>d, <1>u, <1>h DEF Kept, Owner
    <3> QED BY <3>1, <3>2
  <2> QED BY <2>1, <2>2
<1> QED BY <1>a, <1>b, <1>c

LEMMA CollectUnitKeeps ==
  ASSUME Facts, TypeOK', NEW s \in Requests, WorkerCollect(s), Takes(s, "translation_unit"), UNCHANGED job
  PROVE  Facts'
<1> USE DEF Facts, Domains
<1>d. Domains
  BY DomainsAre
<1>i. /\ job[s].state = "collect" /\ worker[s] = "running" /\ inq[s] # <<>> /\ inq[s] \in Seq(Frames)
      /\ Head(inq[s]).type = "translation_unit" /\ Head(inq[s]).id = job[s].id /\ job[s].id \in Requests
  BY TakesType DEF WorkerCollect, WorkerStep, Takes, TypeOK
<1>q. ~Quiet(s)
  BY <1>i DEF Quiet
<1>u. /\ inq' = [inq EXCEPT ![s] = Tail(@)] /\ inq'[s] = Tail(inq[s]) /\ outq' = outq
      /\ job'[s] = job[s] /\ \A x \in Requests : x # s => job'[x] = job[x]
      /\ UNCHANGED <<pc, doing, sent, got, thread, session, inherited, lock, persistent, worker, io, running, forks>>
  BY <1>d DEF WorkerCollect, WorkerStep, Takes, Goes, clientVars
<1>h. \A q : Home(q)' = Home(q)
  BY <1>u DEF Home
<1>a. Unforked'
  BY <1>d, HomeIs, <1>u, <1>h, <1>i DEF Unforked
<1>b. ASSUME NEW q \in Requests
      PROVE  /\ Place(q)'
             /\ Accepted(q)'
             /\ Locks(q)'
             /\ InUse(q)'
             /\ Talk(q)'
             /\ Rests(q)'
             /\ Own(q)'
             /\ Alive(q)'
  <2>1. Place(q)'
    BY <1>d, HomeIs, <1>u, <1>h, <1>i DEF Place, Owner, Busy
  <2>2. Accepted(q)'
    BY <1>d, HomeIs, <1>u, <1>h, <1>i DEF Accepted
  <2>3. Locks(q)'
    BY <1>d, HomeIs, <1>u, <1>h, <1>i DEF Locks, Holds
  <2>4. InUse(q)'
    BY <1>d, HomeIs, <1>u, <1>h, <1>i DEF InUse, Converses, Starting
  <2>5. Talk(q)'
    <3>1. CASE session[q] = s /\ Converses(q)
      <4>c. AtClient(q) /\ Replies(q) /\ AtWorker(q) /\ AskLen(q) \in Nat /\ ReplyLen(q) \in Nat /\ Answered(q) \in Nat /\ Consumed(q) \in Int
        BY <3>1, Counters
      <4>h. Head(inq[s]) = Frame(AskType(q, Consumed(q) + 1), q) /\ Consumed(q) \in Nat /\ Consumed(q) < AskLen(q)
        BY <3>1, <1>i, <1>u, HeadIs
      <4>t. Consumed(q)' = Consumed(q) + 1 /\ Asks(q)'
        BY <3>1, <1>i, <1>u, Taken
      <4>s. AtClient(q)' /\ Starting(q)' = Starting(q) /\ AskLen(q)' = AskLen(q) /\ ReplyLen(q)' = ReplyLen(q)
        BY <4>c, <1>u, ClientSame
      <4>r. Answered(q)' = Answered(q) /\ Replies(q)'
        BY <3>1, <1>u, Silent
      <4>1. /\ ~Starting(q) /\ 0 < Consumed(q) /\ Consumed(q) < AskLen(q) /\ Answered(q) = 0 /\ job[s].id = q
        BY <3>1, <4>c, <1>i DEF AtWorker, Job
      <4>2. AskLen(q) = Units + 2 /\ Kind[q] # "extract"
        BY <4>1, <4>c DEF AskLen
      <4>3. Consumed(q) + 1 # 1
        BY <4>1, <4>c
      <4>4. Consumed(q) + 1 # Units + 2
        BY <4>1, <4>3, <4>h, <1>i DEF AskType, Frame
      <4>5. 0 < Consumed(q)' /\ Consumed(q)' < AskLen(q)
        BY <4>1, <4>2, <4>4, <4>c, <4>t, UnitsAssumption
      <4>6. AtWorker(q)'
        BY <3>1, <4>1, <4>5, <4>r, <4>s, <1>u, <1>i DEF AtWorker
      <4> QED BY <4>6, <4>r, <4>s, <4>t DEF Talk
    <3>2. CASE session[q] # s
      BY <3>2, <1>u, <1>d, TalkElsewhere
    <3>3. CASE ~Converses(q)
      BY <3>3, <1>u DEF Talk, Converses
    <3> QED BY <3>1, <3>2, <3>3
  <2>6. Rests(q)'
    <3>1. CASE q = s
      BY <3>1, <1>u, <1>i DEF Rests
    <3>2. CASE q # s
      BY <3>2, <1>d, <1>u DEF Rests
    <3> QED BY <3>1, <3>2
  <2>7. Own(q)'
    BY <1>u, <1>i, OwnTaken
  <2>8. Alive(q)'
    BY <1>d, HomeIs, <1>u, <1>h, <1>i DEF Alive, Owner, Converses, Starting
  <2> QED BY <2>1, <2>2, <2>3, <2>4, <2>5, <2>6, <2>7, <2>8
<1>c. ASSUME NEW p \in Processes PROVE Locked(p)' /\ Kept(p)'
  <2>1. Locked(p)'
    BY <1>d, HomeIs, <1>u, <1>h, <1>i DEF Locked, Holds
  <2>2. Kept(p)'
    <3>1. CASE running[p] /\ persistent[p] # NIL /\ (lock[p] = NIL \/ pc[lock[p]] = "choose")
      <4>1. Quiet(persistent[p]) /\ persistent[p] # s
        BY <3>1, <1>q DEF Kept
      <4> QED BY <3>1, <4>1, <1>d, <1>u, <1>h DEF Kept, Quiet, Owner
    <3>2. CASE ~(running[p] /\ persistent[p] # NIL /\ (lock[p] = NIL \/ pc[lock[p]] = "choose"))
      BY <3>2, <1>d, <1>u, <1>h DEF Kept, Owner
    <3> QED BY <3>1, <3>2
  <2> QED BY <2>1, <2>2
<1> QED BY <1>a, <1>b, <1>c

LEMMA CollectEndKeeps ==
  ASSUME Facts, TypeOK', NEW s \in Requests, WorkerCollect(s), Takes(s, "translation_end"), Goes(s, "answer", job[s].id, 0)
  PROVE  Facts'
<1> USE DEF Facts, Domains
<1>d. Domains
  BY DomainsAre
<1>i. /\ job[s].state = "collect" /\ worker[s] = "running" /\ inq[s] # <<>> /\ inq[s] \in Seq(Frames)
      /\ Head(inq[s]).type = "translation_end" /\ Head(inq[s]).id = job[s].id /\ job[s].id \in Requests
  BY TakesType DEF WorkerCollect, WorkerStep, Takes, TypeOK
<1>q. ~Quiet(s)
  BY <1>i DEF Quiet
<1>u. /\ inq' = [inq EXCEPT ![s] = Tail(@)] /\ inq'[s] = Tail(inq[s]) /\ outq' = outq
      /\ job'[s] = Job("answer", job[s].id, 0) /\ \A x \in Requests : x # s => job'[x] = job[x]
      /\ UNCHANGED <<pc, doing, sent, got, thread, session, inherited, lock, persistent, worker, io, running, forks>>
  BY <1>d DEF WorkerCollect, WorkerStep, Takes, Goes, clientVars
<1>h. \A q : Home(q)' = Home(q)
  BY <1>u DEF Home
<1>a. Unforked'
  BY <1>d, HomeIs, <1>u, <1>h, <1>i DEF Unforked
<1>b. ASSUME NEW q \in Requests
      PROVE  /\ Place(q)'
             /\ Accepted(q)'
             /\ Locks(q)'
             /\ InUse(q)'
             /\ Talk(q)'
             /\ Rests(q)'
             /\ Own(q)'
             /\ Alive(q)'
  <2>1. Place(q)'
    BY <1>d, HomeIs, <1>u, <1>h, <1>i DEF Place, Owner, Busy
  <2>2. Accepted(q)'
    BY <1>d, HomeIs, <1>u, <1>h, <1>i DEF Accepted
  <2>3. Locks(q)'
    BY <1>d, HomeIs, <1>u, <1>h, <1>i DEF Locks, Holds
  <2>4. InUse(q)'
    BY <1>d, HomeIs, <1>u, <1>h, <1>i DEF InUse, Converses, Starting
  <2>5. Talk(q)'
    <3>1. CASE session[q] = s /\ Converses(q)
      <4>c. AtClient(q) /\ Replies(q) /\ AtWorker(q) /\ AskLen(q) \in Nat /\ ReplyLen(q) \in Nat /\ Answered(q) \in Nat /\ Consumed(q) \in Int
        BY <3>1, Counters
      <4>h. Head(inq[s]) = Frame(AskType(q, Consumed(q) + 1), q) /\ Consumed(q) \in Nat /\ Consumed(q) < AskLen(q)
        BY <3>1, <1>i, <1>u, HeadIs
      <4>t. Consumed(q)' = Consumed(q) + 1 /\ Asks(q)'
        BY <3>1, <1>i, <1>u, Taken
      <4>s. AtClient(q)' /\ Starting(q)' = Starting(q) /\ AskLen(q)' = AskLen(q) /\ ReplyLen(q)' = ReplyLen(q)
        BY <4>c, <1>u, ClientSame
      <4>r. Answered(q)' = Answered(q) /\ Replies(q)'
        BY <3>1, <1>u, Silent
      <4>1. /\ ~Starting(q) /\ 0 < Consumed(q) /\ Consumed(q) < AskLen(q) /\ Answered(q) = 0 /\ job[s].id = q
        BY <3>1, <4>c, <1>i DEF AtWorker, Job
      <4>2. AskLen(q) = Units + 2 /\ Kind[q] # "extract"
        BY <4>1, <4>c DEF AskLen
      <4>3. Consumed(q) + 1 # 1
        BY <4>1, <4>c
      <4>4. Consumed(q)' = AskLen(q)
        <5>1. AskType(q, Consumed(q) + 1) = "translation_end"
          BY <4>h, <1>i DEF Frame
        <5> QED BY <5>1, <4>1, <4>2, <4>3, <4>t DEF AskType
      <4>5. 0 < ReplyLen(q)
        <5>1. ReplyLen(q) >= 2
          BY <4>1, AnswerIs DEF ReplyLen
        <5> QED BY <5>1, <4>c
      <4>6. AtWorker(q)'
        BY <3>1, <4>1, <4>4, <4>5, <4>r, <4>s, <1>u, <1>i DEF AtWorker, Job
      <4> QED BY <4>6, <4>r, <4>s, <4>t DEF Talk
    <3>2. CASE session[q] # s
      BY <3>2, <1>u, <1>d, TalkElsewhere
    <3>3. CASE ~Converses(q)
      BY <3>3, <1>u DEF Talk, Converses
    <3> QED BY <3>1, <3>2, <3>3
  <2>6. Rests(q)'
    <3>1. CASE q = s
      <4>1. Len(Answer(job[s].id)) \in Nat /\ Len(Answer(job[s].id)) >= 2
        BY <1>i, AnswerIs
      <4>2. 0 < Len(Answer(job[s].id))
        BY <4>1
      <4> QED BY <3>1, <4>2, <1>u, <1>i DEF Rests, Job
    <3>2. CASE q # s
      BY <3>2, <1>d, <1>u DEF Rests
    <3> QED BY <3>1, <3>2
  <2>7. Own(q)'
    <3>1. job'[s].id = job[s].id
      BY <1>u DEF Job
    <3> QED BY <3>1, <1>u, <1>i, OwnTaken
  <2>8. Alive(q)'
    BY <1>d, HomeIs, <1>u, <1>h, <1>i DEF Alive, Owner, Converses, Starting
  <2> QED BY <2>1, <2>2, <2>3, <2>4, <2>5, <2>6, <2>7, <2>8
<1>c. ASSUME NEW p \in Processes PROVE Locked(p)' /\ Kept(p)'
  <2>1. Locked(p)'
    BY <1>d, HomeIs, <1>u, <1>h, <1>i DEF Locked, Holds
  <2>2. Kept(p)'
    <3>1. CASE running[p] /\ persistent[p] # NIL /\ (lock[p] = NIL \/ pc[lock[p]] = "choose")
      <4>1. Quiet(persistent[p]) /\ persistent[p] # s
        BY <3>1, <1>q DEF Kept
      <4> QED BY <3>1, <4>1, <1>d, <1>u, <1>h DEF Kept, Quiet, Owner
    <3>2. CASE ~(running[p] /\ persistent[p] # NIL /\ (lock[p] = NIL \/ pc[lock[p]] = "choose"))
      BY <3>2, <1>d, <1>u, <1>h DEF Kept, Owner
    <3> QED BY <3>1, <3>2
  <2> QED BY <2>1, <2>2
<1> QED BY <1>a, <1>b, <1>c

LEMMA AnswerMoreKeeps ==
  ASSUME Facts, TypeOK', NEW s \in Requests, WorkerAnswer(s), job[s].n + 1 # Len(Answer(job[s].id))
  PROVE  Facts'
<1> USE DEF Facts, Domains
<1>d. Domains
  BY DomainsAre
<1> DEFINE a0 == job[s].n
           r0 == job[s].id
<1>i. /\ job[s].state = "answer" /\ worker[s] = "running" /\ r0 \in Requests /\ a0 \in Nat /\ a0 < Len(Answer(r0))
      /\ Len(Answer(r0)) \in Nat
  BY AnswerIs DEF WorkerAnswer, WorkerStep, TypeOK, Rests
<1>q. ~Quiet(s)
  BY <1>i DEF Quiet
<1>u. /\ outq'[s] = Append(outq[s], Frame(Answer(r0)[a0 + 1], r0)) /\ \A x \in Requests : x # s => outq'[x] = outq[x]
      /\ job'[s] = Job("answer", r0, a0 + 1) /\ \A x \in Requests : x # s => job'[x] = job[x]
      /\ inq' = inq
      /\ UNCHANGED <<pc, doing, sent, got, thread, session, inherited, lock, persistent, worker, io, running, forks>>
  BY <1>d DEF WorkerAnswer, WorkerStep, Send, Goes, clientVars
<1>h. \A q : Home(q)' = Home(q)
  BY <1>u DEF Home
<1>a. Unforked'
  BY <1>d, HomeIs, <1>u, <1>h, <1>i DEF Unforked
<1>b. ASSUME NEW q \in Requests
      PROVE  /\ Place(q)'
             /\ Accepted(q)'
             /\ Locks(q)'
             /\ InUse(q)'
             /\ Talk(q)'
             /\ Rests(q)'
             /\ Own(q)'
             /\ Alive(q)'
  <2>1. Place(q)'
    BY <1>d, HomeIs, <1>u, <1>h, <1>i DEF Place, Owner, Busy
  <2>2. Accepted(q)'
    BY <1>d, HomeIs, <1>u, <1>h, <1>i DEF Accepted
  <2>3. Locks(q)'
    BY <1>d, HomeIs, <1>u, <1>h, <1>i DEF Locks, Holds
  <2>4. InUse(q)'
    BY <1>d, HomeIs, <1>u, <1>h, <1>i DEF InUse, Converses, Starting
  <2>5. Talk(q)'
    <3>1. CASE session[q] = s /\ Converses(q)
      <4>c. AtClient(q) /\ Replies(q) /\ AtWorker(q) /\ AskLen(q) \in Nat /\ ReplyLen(q) \in Nat /\ Answered(q) \in Nat /\ Consumed(q) \in Int
        BY <3>1, Counters
      <4>s. /\ AtClient(q)' /\ Starting(q)' = Starting(q) /\ AskLen(q)' = AskLen(q) /\ ReplyLen(q)' = ReplyLen(q)
            /\ Told(q)' = Told(q)
        BY <4>c, <1>u, ClientSame
      <4>t. Consumed(q)' = Consumed(q) /\ Asks(q)'
        <5>1. Consumed(q)' = Consumed(q)
          BY <4>s, <1>u DEF Consumed
        <5>2. Asks(q)
          BY <3>1, Counters
        <5> QED BY <5>1, <5>2, <4>s, <1>u DEF Asks, AskType
      <4>1. /\ ~Starting(q) /\ Consumed(q) = AskLen(q) /\ Answered(q) < ReplyLen(q) /\ a0 = Answered(q) /\ r0 = q
        BY <3>1, <4>c, <1>i DEF AtWorker, Job
      <4>2. ReplyLen(q) = Len(Answer(q)) /\ Answer(q)[Answered(q) + 1] = ReplyType(q, Answered(q) + 1)
        BY <4>1 DEF ReplyLen, ReplyType
      <4>3. Answered(q)' = Answered(q) + 1 /\ Replies(q)'
        <5>1. outq'[session[q]] = Append(outq[session[q]], Frame(ReplyType(q, Answered(q) + 1), q))
          BY <3>1, <4>1, <4>2, <1>u
        <5> QED BY <3>1, <4>1, <5>1, <1>u, Answering
      <4>4. AtWorker(q)'
        <5>1. Answered(q)' < ReplyLen(q)
          BY <4>1, <4>2, <4>3, <4>c
        <5> QED BY <3>1, <5>1, <4>1, <4>3, <4>s, <4>t, <1>u DEF AtWorker
      <4> QED BY <4>4, <4>3, <4>s, <4>t DEF Talk
    <3>2. CASE session[q] # s
      BY <3>2, <1>u, <1>d, TalkElsewhere
    <3>3. CASE ~Converses(q)
      BY <3>3, <1>u DEF Talk, Converses
    <3> QED BY <3>1, <3>2, <3>3
  <2>6. Rests(q)'
    <3>1. CASE q = s
      BY <3>1, <1>u, <1>i DEF Rests, Job
    <3>2. CASE q # s
      BY <3>2, <1>d, <1>u DEF Rests
    <3> QED BY <3>1, <3>2
  <2>7. Own(q)'
    <3>1. job'[s].state = "answer" => job'[s].id = job[s].id
      BY <1>u DEF Job
    <3>2. job'[s].state # "collect"
      BY <1>u DEF Job
    <3>3. \A x, y : Uses(x, y)' <=> Uses(x, y)
      BY <1>u DEF Uses
    <3>4. CASE q = s
      BY <3>1, <3>2, <3>3, <3>4, <1>u, <1>i DEF Own
    <3>5. CASE q # s
      BY <3>3, <3>5, <1>u DEF Own
    <3> QED BY <3>4, <3>5
  <2>8. Alive(q)'
    BY <1>d, HomeIs, <1>u, <1>h, <1>i DEF Alive, Owner, Converses, Starting
  <2> QED BY <2>1, <2>2, <2>3, <2>4, <2>5, <2>6, <2>7, <2>8
<1>c. ASSUME NEW p \in Processes PROVE Locked(p)' /\ Kept(p)'
  <2>1. Locked(p)'
    BY <1>d, HomeIs, <1>u, <1>h, <1>i DEF Locked, Holds
  <2>2. Kept(p)'
    <3>1. CASE running[p] /\ persistent[p] # NIL /\ (lock[p] = NIL \/ pc[lock[p]] = "choose")
      <4>1. Quiet(persistent[p]) /\ persistent[p] # s
        BY <3>1, <1>q DEF Kept
      <4> QED BY <3>1, <4>1, <1>d, <1>u, <1>h DEF Kept, Quiet, Owner
    <3>2. CASE ~(running[p] /\ persistent[p] # NIL /\ (lock[p] = NIL \/ pc[lock[p]] = "choose"))
      BY <3>2, <1>d, <1>u, <1>h DEF Kept, Owner
    <3> QED BY <3>1, <3>2
  <2> QED BY <2>1, <2>2
<1> QED BY <1>a, <1>b, <1>c

LEMMA AnswerLastKeeps ==
  ASSUME Facts, TypeOK', NEW s \in Requests, WorkerAnswer(s), job[s].n + 1 = Len(Answer(job[s].id))
  PROVE  Facts'
<1> USE DEF Facts, Domains
<1>d. Domains
  BY DomainsAre
<1> DEFINE a0 == job[s].n
           r0 == job[s].id
<1>i. /\ job[s].state = "answer" /\ worker[s] = "running" /\ r0 \in Requests /\ a0 \in Nat /\ a0 < Len(Answer(r0))
      /\ Len(Answer(r0)) \in Nat
  BY AnswerIs DEF WorkerAnswer, WorkerStep, TypeOK, Rests
<1>q. ~Quiet(s)
  BY <1>i DEF Quiet
<1>u. /\ outq'[s] = Append(outq[s], Frame(Answer(r0)[a0 + 1], r0)) /\ \A x \in Requests : x # s => outq'[x] = outq[x]
      /\ job'[s] = Job("command", r0, 0) /\ \A x \in Requests : x # s => job'[x] = job[x]
      /\ inq' = inq
      /\ UNCHANGED <<pc, doing, sent, got, thread, session, inherited, lock, persistent, worker, io, running, forks>>
  BY <1>d DEF WorkerAnswer, WorkerStep, Send, Goes, clientVars
<1>h. \A q : Home(q)' = Home(q)
  BY <1>u DEF Home
<1>a. Unforked'
  BY <1>d, HomeIs, <1>u, <1>h, <1>i DEF Unforked
<1>b. ASSUME NEW q \in Requests
      PROVE  /\ Place(q)'
             /\ Accepted(q)'
             /\ Locks(q)'
             /\ InUse(q)'
             /\ Talk(q)'
             /\ Rests(q)'
             /\ Own(q)'
             /\ Alive(q)'
  <2>1. Place(q)'
    BY <1>d, HomeIs, <1>u, <1>h, <1>i DEF Place, Owner, Busy
  <2>2. Accepted(q)'
    BY <1>d, HomeIs, <1>u, <1>h, <1>i DEF Accepted
  <2>3. Locks(q)'
    BY <1>d, HomeIs, <1>u, <1>h, <1>i DEF Locks, Holds
  <2>4. InUse(q)'
    BY <1>d, HomeIs, <1>u, <1>h, <1>i DEF InUse, Converses, Starting
  <2>5. Talk(q)'
    <3>1. CASE session[q] = s /\ Converses(q)
      <4>c. AtClient(q) /\ Replies(q) /\ AtWorker(q) /\ AskLen(q) \in Nat /\ ReplyLen(q) \in Nat /\ Answered(q) \in Nat /\ Consumed(q) \in Int
        BY <3>1, Counters
      <4>s. /\ AtClient(q)' /\ Starting(q)' = Starting(q) /\ AskLen(q)' = AskLen(q) /\ ReplyLen(q)' = ReplyLen(q)
            /\ Told(q)' = Told(q)
        BY <4>c, <1>u, ClientSame
      <4>t. Consumed(q)' = Consumed(q) /\ Asks(q)'
        <5>1. Consumed(q)' = Consumed(q)
          BY <4>s, <1>u DEF Consumed
        <5>2. Asks(q)
          BY <3>1, Counters
        <5> QED BY <5>1, <5>2, <4>s, <1>u DEF Asks, AskType
      <4>1. /\ ~Starting(q) /\ Consumed(q) = AskLen(q) /\ Answered(q) < ReplyLen(q) /\ a0 = Answered(q) /\ r0 = q
        BY <3>1, <4>c, <1>i DEF AtWorker, Job
      <4>2. ReplyLen(q) = Len(Answer(q)) /\ Answer(q)[Answered(q) + 1] = ReplyType(q, Answered(q) + 1)
        BY <4>1 DEF ReplyLen, ReplyType
      <4>3. Answered(q)' = Answered(q) + 1 /\ Replies(q)'
        <5>1. outq'[session[q]] = Append(outq[session[q]], Frame(ReplyType(q, Answered(q) + 1), q))
          BY <3>1, <4>1, <4>2, <1>u
        <5> QED BY <3>1, <4>1, <5>1, <1>u, Answering
      <4>4. AtWorker(q)'
        BY <3>1, <4>1, <4>2, <4>3, <4>s, <4>t, <1>u DEF AtWorker, Job
      <4> QED BY <4>4, <4>3, <4>s, <4>t DEF Talk
    <3>2. CASE session[q] # s
      BY <3>2, <1>u, <1>d, TalkElsewhere
    <3>3. CASE ~Converses(q)
      BY <3>3, <1>u DEF Talk, Converses
    <3> QED BY <3>1, <3>2, <3>3
  <2>6. Rests(q)'
    <3>1. CASE q = s
      BY <3>1, <1>u, <1>i DEF Rests, Job
    <3>2. CASE q # s
      BY <3>2, <1>d, <1>u DEF Rests
    <3> QED BY <3>1, <3>2
  <2>7. Own(q)'
    <3>1. job'[s].state = "answer" => job'[s].id = job[s].id
      BY <1>u DEF Job
    <3>2. job'[s].state # "collect"
      BY <1>u DEF Job
    <3>3. \A x, y : Uses(x, y)' <=> Uses(x, y)
      BY <1>u DEF Uses
    <3>4. CASE q = s
      BY <3>1, <3>2, <3>3, <3>4, <1>u, <1>i DEF Own
    <3>5. CASE q # s
      BY <3>3, <3>5, <1>u DEF Own
    <3> QED BY <3>4, <3>5
  <2>8. Alive(q)'
    BY <1>d, HomeIs, <1>u, <1>h, <1>i DEF Alive, Owner, Converses, Starting
  <2> QED BY <2>1, <2>2, <2>3, <2>4, <2>5, <2>6, <2>7, <2>8
<1>c. ASSUME NEW p \in Processes PROVE Locked(p)' /\ Kept(p)'
  <2>1. Locked(p)'
    BY <1>d, HomeIs, <1>u, <1>h, <1>i DEF Locked, Holds
  <2>2. Kept(p)'
    <3>1. CASE running[p] /\ persistent[p] # NIL /\ (lock[p] = NIL \/ pc[lock[p]] = "choose")
      <4>1. Quiet(persistent[p]) /\ persistent[p] # s
        BY <3>1, <1>q DEF Kept
      <4> QED BY <3>1, <4>1, <1>d, <1>u, <1>h DEF Kept, Quiet, Owner
    <3>2. CASE ~(running[p] /\ persistent[p] # NIL /\ (lock[p] = NIL \/ pc[lock[p]] = "choose"))
      BY <3>2, <1>d, <1>u, <1>h DEF Kept, Owner
    <3> QED BY <3>1, <3>2
  <2> QED BY <2>1, <2>2
<1> QED BY <1>a, <1>b, <1>c

LEMMA ExitsKeeps ==
  ASSUME Facts, TypeOK', NEW s \in Requests, worker[s] = "running", WorkerExits(s),
         UNCHANGED <<clientVars, lock, persistent, holders, io, running, forks>>
  PROVE  Facts'
<1> USE DEF Facts, Domains
<1>d. Domains
  BY DomainsAre
<1>i. worker[s] = "running"
  OBVIOUS
<1>u. /\ worker' = [worker EXCEPT ![s] = "dead"] /\ inq' = [inq EXCEPT ![s] = <<>>]
      /\ UNCHANGED <<pc, doing, sent, got, thread, session, inherited, lock, persistent, outq, job, io, running, forks>>
  BY DEF WorkerExits, clientVars
<1>h. \A q : Home(q)' = Home(q)
  BY <1>u DEF Home
<1>a. Unforked'
  BY <1>d, HomeIs, <1>u, <1>h, <1>i DEF Unforked
<1>b. ASSUME NEW q \in Requests
      PROVE  /\ Place(q)'
             /\ Accepted(q)'
             /\ Locks(q)'
             /\ InUse(q)'
             /\ Talk(q)'
             /\ Rests(q)'
             /\ Own(q)'
             /\ Alive(q)'
  <2>1. Place(q)'
    BY <1>d, HomeIs, <1>u, <1>h, <1>i DEF Place, Owner, Busy
  <2>2. Accepted(q)'
    BY <1>d, HomeIs, <1>u, <1>h, <1>i DEF Accepted
  <2>3. Locks(q)'
    BY <1>d, HomeIs, <1>u, <1>h, <1>i DEF Locks, Holds
  <2>4. InUse(q)'
    BY <1>d, HomeIs, <1>u, <1>h, <1>i DEF InUse, Converses, Starting
  <2>5. Talk(q)'
    <3>1. CASE session[q] = s /\ Converses(q)
      <4>1. AtClient(q)' /\ Replies(q)'
        BY <3>1, <1>u, Counters, ClientSame, Silent
      <4>2. worker'[session'[q]] = "dead"
        BY <3>1, <1>u, <1>d
      <4> QED BY <4>1, <4>2 DEF Talk, Asks, AtWorker
    <3>2. CASE session[q] # s
      BY <3>2, <1>u, <1>d, TalkElsewhere
    <3>3. CASE ~Converses(q)
      BY <3>3, <1>u DEF Talk, Converses
    <3> QED BY <3>1, <3>2, <3>3
  <2>6. Rests(q)'
    BY <1>d, HomeIs, <1>u, <1>h, <1>i DEF Rests
  <2>7. Own(q)'
    <3>1. CASE q = s
      BY <3>1, <1>u, <1>d DEF Own, Uses
    <3>2. CASE q # s
      BY <3>2, <1>u, <1>d DEF Own, Uses
    <3> QED BY <3>1, <3>2
  <2>8. Alive(q)'
    BY <1>d, HomeIs, <1>u, <1>h, <1>i DEF Alive, Owner, Converses, Starting
  <2> QED BY <2>1, <2>2, <2>3, <2>4, <2>5, <2>6, <2>7, <2>8
<1>c. ASSUME NEW p \in Processes PROVE Locked(p)' /\ Kept(p)'
  <2>1. Locked(p)'
    BY <1>d, HomeIs, <1>u, <1>h, <1>i DEF Locked, Holds
  <2>2. Kept(p)'
    BY <1>d, HomeIs, <1>u, <1>h, <1>i DEF Kept, Quiet, Owner
  <2> QED BY <2>1, <2>2
<1> QED BY <1>a, <1>b, <1>c

LEMMA WorkerKeeps == ASSUME Facts, TypeOK', NEW s \in Requests, Worker(s) PROVE Facts'
<1>1. CASE WorkerHello(s)
  BY <1>1, HelloKeeps
<1>2. CASE WorkerCommand(s)
  BY <1>2, ExtractKeeps, ReinsertKeeps DEF WorkerCommand
<1>3. CASE WorkerCollect(s)
  BY <1>3, CollectUnitKeeps, CollectEndKeeps DEF WorkerCollect
<1>4. CASE WorkerAnswer(s)
  BY <1>4, AnswerMoreKeeps, AnswerLastKeeps
<1>5. CASE WorkerCrash(s)
  BY <1>5, ExitsKeeps DEF WorkerCrash
<1>6. CASE WorkerEndOfInput(s)
  BY <1>6, ExitsKeeps DEF WorkerEndOfInput, WorkerStep
<1> QED BY <1>1, <1>2, <1>3, <1>4, <1>5, <1>6 DEF Worker

-----------------------------------------------------------------------------
(* Processes.                                                              *)

LEMMA BeforeFork ==
  ASSUME Facts, NEW t \in Threads, Fork(t)
  PROVE  /\ forks = 0 /\ forks' = 1 /\ running["parent"] /\ ~running["child"] /\ persistent["child"] = NIL /\ lock["child"] = NIL
         /\ \A q \in Requests : Home(q) = "parent"
         /\ running' = [running EXCEPT !["child"] = TRUE] /\ lock' = [lock EXCEPT !["child"] = NIL]
         /\ UNCHANGED <<persistent, worker, inq, outq, job, io>>
         /\ "parent" \in Processes /\ "child" \in Processes
<1>1. forks < MaxForks /\ forks' = forks + 1 /\ running[ProcessOf(t)] /\ ProcessOf(t) = "parent"
  BY DEF Fork, Free
<1>2. forks = 0 /\ forks' = 1
  <2>1. forks \in 0..1 /\ MaxForks \in 0..1
    BY BoundsAssumption DEF Facts, TypeOK
  <2> QED BY <1>1, <2>1
<1> QED BY <1>1, <1>2 DEF Facts, Unforked, Fork, ChildLock, Processes

LEMMA ForkKeeps ==
  ASSUME Facts, TypeOK', NEW t \in Threads, Fork(t), UNCHANGED clientVars
  PROVE  Facts'
<1> USE DEF Facts, Domains
<1>d. Domains
  BY DomainsAre
<1>i. /\ forks = 0 /\ forks' = 1 /\ running["parent"] /\ ~running["child"] /\ persistent["child"] = NIL /\ lock["child"] = NIL
      /\ \A q \in Requests : Home(q) = "parent"
  BY BeforeFork
<1>u. /\ running' = [running EXCEPT !["child"] = TRUE] /\ lock' = [lock EXCEPT !["child"] = NIL]
      /\ UNCHANGED <<pc, doing, sent, got, thread, session, inherited, persistent, worker, inq, outq, job, io>>
      /\ "parent" \in Processes /\ "child" \in Processes
  BY BeforeFork DEF clientVars
<1>h. \A q : Home(q)' = Home(q)
  BY <1>u DEF Home
<1>a. Unforked'
  BY <1>d, HomeIs, <1>u, <1>h, <1>i DEF Unforked
<1>b. ASSUME NEW q \in Requests
      PROVE  /\ Place(q)'
             /\ Accepted(q)'
             /\ Locks(q)'
             /\ InUse(q)'
             /\ Talk(q)'
             /\ Rests(q)'
             /\ Own(q)'
             /\ Alive(q)'
  <2>1. Place(q)'
    BY <1>d, HomeIs, <1>u, <1>h, <1>i DEF Place, Owner, Busy
  <2>2. Accepted(q)'
    BY <1>d, HomeIs, <1>u, <1>h, <1>i DEF Accepted
  <2>3. Locks(q)'
    BY <1>d, HomeIs, <1>u, <1>h, <1>i DEF Locks, Holds
  <2>4. InUse(q)'
    BY <1>d, HomeIs, <1>u, <1>h, <1>i DEF InUse, Converses, Starting
  <2>5. Talk(q)'
    BY <1>d, HomeIs, <1>u, <1>h, <1>i, TalkSame DEF Converses
  <2>6. Rests(q)'
    BY <1>d, HomeIs, <1>u, <1>h, <1>i DEF Rests
  <2>7. Own(q)'
    BY <1>d, HomeIs, <1>u, <1>h, <1>i DEF Own, Uses
  <2>8. Alive(q)'
    BY <1>d, HomeIs, <1>u, <1>h, <1>i DEF Alive, Owner, Converses, Starting
  <2> QED BY <2>1, <2>2, <2>3, <2>4, <2>5, <2>6, <2>7, <2>8
<1>c. ASSUME NEW p \in Processes PROVE Locked(p)' /\ Kept(p)'
  <2>1. Locked(p)'
    BY <1>d, HomeIs, <1>u, <1>h, <1>i DEF Locked, Holds
  <2>2. Kept(p)'
    BY <1>d, HomeIs, <1>u, <1>h, <1>i DEF Kept, Quiet, Owner
  <2> QED BY <2>1, <2>2
<1> QED BY <1>a, <1>b, <1>c

LEMMA ForkCopyKeeps ==
  ASSUME Facts, TypeOK', NEW t \in Threads, Fork(t), NEW r \in Requests, NEW g \in Requests,
         pc[r] = "suspended", pc[g] = "idle", Kind[g] = Kind[r],
         pc' = [pc EXCEPT ![g] = "suspended"], doing' = [doing EXCEPT ![g] = doing[r]],
         got' = [got EXCEPT ![g] = got[r]], thread' = [thread EXCEPT ![g] = ChildThread],
         session' = [session EXCEPT ![g] = session[r]], inherited' = [inherited EXCEPT ![g] = TRUE], UNCHANGED sent
  PROVE  Facts'
<1> USE DEF Facts, Domains
<1>d. Domains
  BY DomainsAre
<1>i. /\ forks = 0 /\ forks' = 1 /\ running["parent"] /\ ~running["child"] /\ persistent["child"] = NIL /\ lock["child"] = NIL
      /\ \A q \in Requests : Home(q) = "parent"
      /\ pc[r] = "suspended" /\ pc[g] = "idle" /\ g # r /\ g \in Requests /\ session[g] = NIL /\ worker[g] = "none"
      /\ NIL \notin Requests
  BY BeforeFork, NamesAssumption DEF Place
<1>u. /\ running' = [running EXCEPT !["child"] = TRUE] /\ lock' = [lock EXCEPT !["child"] = NIL]
      /\ \A q \in Requests : q # g => /\ pc'[q] = pc[q] /\ doing'[q] = doing[q] /\ got'[q] = got[q] /\ thread'[q] = thread[q]
                                      /\ session'[q] = session[q] /\ inherited'[q] = inherited[q]
      /\ pc'[g] = "suspended" /\ doing'[g] = doing[r] /\ got'[g] = got[r] /\ thread'[g] = ChildThread
      /\ session'[g] = session[r] /\ inherited'[g]
      /\ UNCHANGED <<sent, persistent, worker, inq, outq, job, io>>
      /\ "parent" \in Processes /\ "child" \in Processes
  BY <1>d, BeforeFork
<1>h. Home(g)' = "child" /\ \A q \in Requests : q # g => Home(q)' = "parent"
  BY <1>u, <1>i DEF Home, ProcessOf
<1>j. /\ \A q \in Requests : session[q] # NIL => session[q] \in Requests /\ worker[session[q]] # "none" /\ session[q] # g
      /\ persistent["parent"] # g /\ lock["parent"] # g /\ session[r] # NIL
  <2>1. \A q \in Requests : session[q] # NIL => session[q] \in Requests /\ worker[session[q]] # "none" /\ session[q] # g
    BY <1>d, <1>i DEF Place
  <2>2. persistent["parent"] # g /\ lock["parent"] # g
    BY <1>i, <1>u DEF Kept, Locked, Holds
  <2>3. session[r] # NIL
    BY <1>i DEF Place, InUse, Converses
  <2> QED BY <2>1, <2>2, <2>3
<1>a. Unforked'
  BY <1>i DEF Unforked
<1>b. ASSUME NEW q \in Requests
      PROVE  /\ Place(q)'
             /\ Accepted(q)'
             /\ Locks(q)'
             /\ InUse(q)'
             /\ Talk(q)'
             /\ Rests(q)'
             /\ Own(q)'
             /\ Alive(q)'
  <2>1. Place(q)'
    <3>1. CASE q = g
      <4>1. worker'[session'[g]] # "none" /\ worker'[g] = "none" /\ session'[g] # NIL
        BY <1>u, <1>i, <1>j
      <4>2. running'["child"]
        BY <1>u, <1>d
      <4> QED BY <3>1, <4>1, <4>2, <1>u, <1>h DEF Place, Busy
    <3>2. CASE q # g
      BY <3>2, <1>d, <1>u, <1>h, <1>i, <1>j DEF Place, Owner, Busy
    <3> QED BY <3>1, <3>2
  <2>2. Accepted(q)'
    <3>1. CASE q = g
      <4>1. Answer(g) = Answer(r)
        BY DEF Answer
      <4> QED BY <3>1, <4>1, <1>u, <1>i DEF Accepted
    <3>2. CASE q # g
      BY <3>2, <1>u DEF Accepted
    <3> QED BY <3>1, <3>2
  <2>3. Locks(q)'
    <3>1. CASE q = g
      BY <3>1, <1>u DEF Locks, Holds
    <3>2. CASE q # g
      BY <3>2, <1>d, <1>u, <1>h, <1>i DEF Locks, Holds
    <3> QED BY <3>1, <3>2
  <2>4. InUse(q)'
    <3>1. CASE q = g
      BY <3>1, <1>u DEF InUse, Converses
    <3>2. CASE q # g
      BY <3>2, <1>d, <1>u, <1>h, <1>i DEF InUse, Converses, Starting
    <3> QED BY <3>1, <3>2
  <2>5. Talk(q)'
    <3>1. CASE q = g
      BY <3>1, <1>u DEF Talk, Converses
    <3>2. CASE q # g
      BY <3>2, <1>u, TalkSame DEF Converses
    <3> QED BY <3>1, <3>2
  <2>6. Rests(q)'
    BY <1>d, HomeIs, <1>u, <1>h, <1>i, <1>j DEF Rests
  <2>7. Own(q)'
    <3>1. \A x \in Requests : Uses(x, q) => Uses(x, q)'
      BY <1>u, <1>i, <1>d DEF Uses
    <3>2. io[q].op = "write" => io[q].frame.id \in Requests
      BY DEF Rests, Frames
    <3>3. \A i \in 1..Len(inq[q]) : inq[q][i].id \in Requests
      <4>1. inq[q] \in Seq(Frames)
        BY DEF TypeOK
      <4>2. \A i \in 1..Len(inq[q]) : inq[q][i] \in Frames
        BY <4>1
      <4> QED BY <4>2 DEF Frames
    <3>4. job[q].id \in Requests
      BY DEF TypeOK
    <3> QED BY <3>1, <3>2, <3>3, <3>4, <1>u DEF Own
  <2>8. Alive(q)'
    <3>1. CASE q = g
      BY <3>1, <1>u, <1>i DEF Alive
    <3>2. CASE q # g
      BY <3>2, <1>d, <1>u, <1>h, <1>i DEF Alive, Owner, Converses, Starting
    <3> QED BY <3>1, <3>2
  <2> QED BY <2>1, <2>2, <2>3, <2>4, <2>5, <2>6, <2>7, <2>8
<1>c. ASSUME NEW p \in Processes PROVE Locked(p)' /\ Kept(p)'
  <2>1. Locked(p)'
    <3>1. CASE p = "child"
      BY <3>1, <1>d, <1>u DEF Locked
    <3>2. CASE p = "parent"
      BY <3>2, <1>d, <1>u, <1>h, <1>i, <1>j DEF Locked, Holds
    <3> QED BY <3>1, <3>2 DEF Processes
  <2>2. Kept(p)'
    <3>1. CASE p = "child"
      BY <3>1, <1>d, <1>u, <1>i DEF Kept
    <3>2. CASE p = "parent"
      BY <3>2, <1>d, <1>u, <1>h, <1>i, <1>j DEF Kept, Quiet, Owner, Locked
    <3> QED BY <3>1, <3>2 DEF Processes
  <2> QED BY <2>1, <2>2
<1> QED BY <1>a, <1>b, <1>c

LEMMA ExitOrderlyKeeps ==
  ASSUME Facts, TypeOK', NEW e \in Processes, Exit(e), lock[e] = NIL, persistent[e] # NIL
  PROVE  Facts'
<1> USE DEF Facts, Domains
<1>d. Domains
  BY DomainsAre
<1>u. /\ running' = [running EXCEPT ![e] = FALSE] /\ persistent' = [persistent EXCEPT ![e] = NIL] /\ running[e]
      /\ \A q \in Requests : pc'[q] = IF Home(q) = e /\ pc[q] = "suspended" THEN "gone" ELSE pc[q]
      /\ \A q \in Requests : Home(q) = e => pc[q] \notin Busy
      /\ UNCHANGED <<doing, sent, got, thread, session, inherited, lock, outq, job, io, forks>>
  BY DEF Exit
<1>k. \A x \in Requests : /\ x # persistent[e] => worker'[x] = worker[x] /\ inq'[x] = inq[x]
                          /\ x = persistent[e] => worker'[x] = "dead" /\ inq'[x] = <<>> /\ Owner(x) = e /\ worker[x] # "none"
                          /\ Owner(x) # e => worker'[x] = worker[x] /\ inq'[x] = inq[x]
  <2>1. worker' = [worker EXCEPT ![persistent[e]] = "dead"] /\ inq' = [inq EXCEPT ![persistent[e]] = <<>>]
    BY DEF Exit
  <2>2. persistent[e] \in Requests /\ Owner(persistent[e]) = e /\ worker[persistent[e]] # "none"
    BY <1>u, <1>d DEF Kept
  <2> QED BY <2>1, <2>2, <1>d
<1>h. \A q : Home(q)' = Home(q)
  BY <1>u DEF Home
<1>v. \A q \in Requests :
        /\ pc'[q] = pc[q] \/ pc'[q] = "gone"
        /\ pc'[q] \in Busy \cup {"suspended"} => Home(q) # e
        /\ Converses(q)' => Converses(q) /\ pc'[q] = pc[q] /\ Home(q) # e
        /\ Holds(q)' => Holds(q)
        /\ Home(q) # e => pc'[q] = pc[q] /\ (Converses(q) => Converses(q)')
  BY <1>u DEF Holds, Converses, Busy
<1>w. \A q \in Requests : Home(q) # e /\ Holds(q) => Holds(q)'
  BY <1>u DEF Holds
<1>a. Unforked'
  BY <1>d, <1>u, <1>h DEF Unforked, Processes
<1>b. ASSUME NEW q \in Requests
      PROVE  /\ Place(q)'
             /\ Accepted(q)'
             /\ Locks(q)'
             /\ InUse(q)'
             /\ Talk(q)'
             /\ Rests(q)'
             /\ Own(q)'
             /\ Alive(q)'
  <2>1. Place(q)'
    <3>1. Place(q) /\ (session[q] = NIL \/ session[q] \in Requests)
      BY <1>d
    <3>2. /\ pc'[q] = pc[q] \/ pc'[q] = "gone"
          /\ pc'[q] \in Busy \cup {"suspended"} => Home(q) # e
      BY <1>v
    <3>3. pc'[q] \in Busy \cup {"suspended"} => running'[Home(q)]
      BY <3>1, <3>2, <1>u, <1>d, HomeIs DEF Place, Busy
    <3> QED BY <3>1, <3>2, <3>3, <1>u, <1>h, <1>k DEF Place, Owner, Busy
  <2>2. Accepted(q)'
    <3>1. pc'[q] = "done" => pc[q] = "done"
      BY <1>v
    <3> QED BY <3>1, <1>u DEF Accepted
  <2>3. Locks(q)'
    BY <1>u, <1>h, <1>v DEF Locks
  <2>4. InUse(q)'
    <3>1. Converses(q)' => Converses(q) /\ Home(q) # e
      BY <1>v
    <3> QED BY <3>1, <1>u, <1>d, <1>h, HomeIs DEF InUse, Starting
  <2>5. Talk(q)'
    <3>1. CASE Converses(q)'
      <4>1. Converses(q) /\ pc'[q] = pc[q] /\ session[q] \in Requests /\ session[q] # NIL /\ Home(q) # e
        BY <3>1, <1>v, SessionIs, NamesAssumption
      <4>2. Owner(session[q]) # e
        BY <4>1 DEF Place, Converses
      <4> QED BY <4>1, <4>2, <1>u, <1>k, TalkSame
    <3>2. CASE ~Converses(q)'
      BY <3>2 DEF Talk
    <3> QED BY <3>1, <3>2
  <2>6. Rests(q)'
    BY <1>u, <1>k DEF Rests
  <2>7. Own(q)'
    <3>1. \A x, y : Uses(x, y)' <=> Uses(x, y)
      BY <1>u DEF Uses
    <3> QED BY <3>1, <1>u, <1>k DEF Own
  <2>8. Alive(q)'
    <3> SUFFICES ASSUME worker'[q] = "running", running'[Owner(q)] PROVE persistent'[Owner(q)] = q \/ (Converses(q)' /\ Starting(q)')
      BY <1>h DEF Alive, Owner
    <3>1. worker[q] = "running" /\ Owner(q) # e /\ running[Owner(q)] /\ Owner(q) \in Processes
      BY <1>u, <1>d, <1>k, HomeIs DEF Owner
    <3>2. persistent[Owner(q)] = q \/ (Converses(q) /\ Starting(q))
      BY <3>1 DEF Alive
    <3>3. Converses(q) => Converses(q)'
      BY <3>1, <1>v DEF Owner
    <3> QED BY <3>1, <3>2, <3>3, <1>u, <1>d DEF Starting
  <2> QED BY <2>1, <2>2, <2>3, <2>4, <2>5, <2>6, <2>7, <2>8
<1>c. ASSUME NEW p \in Processes PROVE Locked(p)' /\ Kept(p)'
  <2>1. Locked(p)'
    <3> SUFFICES ASSUME running'[p], lock[p] # NIL PROVE (Holds(lock[p]) /\ Home(lock[p]) = p)'
      BY <1>u DEF Locked
    <3>1. p # e /\ running[p] /\ lock[p] \in Requests
      BY <1>u, <1>d
    <3>2. Holds(lock[p]) /\ Home(lock[p]) = p
      BY <3>1 DEF Locked
    <3>3. Holds(lock[p])'
      BY <3>1, <3>2, <1>u, <1>w
    <3> QED BY <3>2, <3>3, <1>u, <1>h
  <2>2. Kept(p)'
    <3> SUFFICES ASSUME running'[p], persistent'[p] # NIL PROVE Kept(p)'
      BY DEF Kept
    <3>1. p # e /\ running[p] /\ persistent'[p] = persistent[p] /\ persistent[p] \in Requests
      BY <1>u, <1>d
    <3>2. Owner(persistent[p]) = p /\ worker[persistent[p]] # "none"
      BY <3>1, <1>d, NamesAssumption DEF Kept
    <3>3. \A x \in Requests : x = persistent[p] => worker'[x] = worker[x] /\ inq'[x] = inq[x]
      BY <3>1, <3>2, <1>k
    <3>4. lock[p] = NIL \/ lock[p] \in Requests
      BY <1>d
    <3>5. lock[p] # NIL /\ pc'[lock[p]] = "choose" => pc[lock[p]] = "choose"
      BY <3>4, <1>v
    <3> QED BY <3>1, <3>2, <3>3, <3>4, <3>5, <1>u, <1>h DEF Kept, Quiet, Owner
  <2> QED BY <2>1, <2>2
<1> QED BY <1>a, <1>b, <1>c

LEMMA ExitKeeps ==
  ASSUME Facts, TypeOK', NEW e \in Processes, Exit(e), ~(lock[e] = NIL /\ persistent[e] # NIL)
  PROVE  Facts'
<1> USE DEF Facts, Domains
<1>d. Domains
  BY DomainsAre
<1>u. /\ running' = [running EXCEPT ![e] = FALSE] /\ persistent' = [persistent EXCEPT ![e] = NIL] /\ running[e]
      /\ \A q \in Requests : pc'[q] = IF Home(q) = e /\ pc[q] = "suspended" THEN "gone" ELSE pc[q]
      /\ \A q \in Requests : Home(q) = e => pc[q] \notin Busy
      /\ UNCHANGED <<doing, sent, got, thread, session, inherited, lock, outq, job, io, forks>>
  BY DEF Exit
<1>k. \A x \in Requests : worker'[x] = worker[x] /\ inq'[x] = inq[x]
  BY DEF Exit
<1>h. \A q : Home(q)' = Home(q)
  BY <1>u DEF Home
<1>v. \A q \in Requests :
        /\ pc'[q] = pc[q] \/ pc'[q] = "gone"
        /\ pc'[q] \in Busy \cup {"suspended"} => Home(q) # e
        /\ Converses(q)' => Converses(q) /\ pc'[q] = pc[q] /\ Home(q) # e
        /\ Holds(q)' => Holds(q)
        /\ Home(q) # e => pc'[q] = pc[q] /\ (Converses(q) => Converses(q)')
  BY <1>u DEF Holds, Converses, Busy
<1>w. \A q \in Requests : Home(q) # e /\ Holds(q) => Holds(q)'
  BY <1>u DEF Holds
<1>a. Unforked'
  BY <1>d, <1>u, <1>h DEF Unforked, Processes
<1>b. ASSUME NEW q \in Requests
      PROVE  /\ Place(q)'
             /\ Accepted(q)'
             /\ Locks(q)'
             /\ InUse(q)'
             /\ Talk(q)'
             /\ Rests(q)'
             /\ Own(q)'
             /\ Alive(q)'
  <2>1. Place(q)'
    <3>1. Place(q) /\ (session[q] = NIL \/ session[q] \in Requests)
      BY <1>d
    <3>2. /\ pc'[q] = pc[q] \/ pc'[q] = "gone"
          /\ pc'[q] \in Busy \cup {"suspended"} => Home(q) # e
      BY <1>v
    <3>3. pc'[q] \in Busy \cup {"suspended"} => running'[Home(q)]
      BY <3>1, <3>2, <1>u, <1>d, HomeIs DEF Place, Busy
    <3> QED BY <3>1, <3>2, <3>3, <1>u, <1>h, <1>k DEF Place, Owner, Busy
  <2>2. Accepted(q)'
    <3>1. pc'[q] = "done" => pc[q] = "done"
      BY <1>v
    <3> QED BY <3>1, <1>u DEF Accepted
  <2>3. Locks(q)'
    BY <1>u, <1>h, <1>v DEF Locks
  <2>4. InUse(q)'
    <3>1. Converses(q)' => Converses(q) /\ Home(q) # e
      BY <1>v
    <3> QED BY <3>1, <1>u, <1>d, <1>h, HomeIs DEF InUse, Starting
  <2>5. Talk(q)'
    <3>1. CASE Converses(q)'
      <4>1. Converses(q) /\ pc'[q] = pc[q] /\ session[q] \in Requests /\ session[q] # NIL /\ Home(q) # e
        BY <3>1, <1>v, SessionIs, NamesAssumption
      <4>2. Owner(session[q]) # e
        BY <4>1 DEF Place, Converses
      <4> QED BY <4>1, <4>2, <1>u, <1>k, TalkSame
    <3>2. CASE ~Converses(q)'
      BY <3>2 DEF Talk
    <3> QED BY <3>1, <3>2
  <2>6. Rests(q)'
    BY <1>u, <1>k DEF Rests
  <2>7. Own(q)'
    <3>1. \A x, y : Uses(x, y)' <=> Uses(x, y)
      BY <1>u DEF Uses
    <3> QED BY <3>1, <1>u, <1>k DEF Own
  <2>8. Alive(q)'
    <3> SUFFICES ASSUME worker'[q] = "running", running'[Owner(q)] PROVE persistent'[Owner(q)] = q \/ (Converses(q)' /\ Starting(q)')
      BY <1>h DEF Alive, Owner
    <3>1. worker[q] = "running" /\ Owner(q) # e /\ running[Owner(q)] /\ Owner(q) \in Processes
      BY <1>u, <1>d, <1>k, HomeIs DEF Owner
    <3>2. persistent[Owner(q)] = q \/ (Converses(q) /\ Starting(q))
      BY <3>1 DEF Alive
    <3>3. Converses(q) => Converses(q)'
      BY <3>1, <1>v DEF Owner
    <3> QED BY <3>1, <3>2, <3>3, <1>u, <1>d DEF Starting
  <2> QED BY <2>1, <2>2, <2>3, <2>4, <2>5, <2>6, <2>7, <2>8
<1>c. ASSUME NEW p \in Processes PROVE Locked(p)' /\ Kept(p)'
  <2>1. Locked(p)'
    <3> SUFFICES ASSUME running'[p], lock[p] # NIL PROVE (Holds(lock[p]) /\ Home(lock[p]) = p)'
      BY <1>u DEF Locked
    <3>1. p # e /\ running[p] /\ lock[p] \in Requests
      BY <1>u, <1>d
    <3>2. Holds(lock[p]) /\ Home(lock[p]) = p
      BY <3>1 DEF Locked
    <3>3. Holds(lock[p])'
      BY <3>1, <3>2, <1>u, <1>w
    <3> QED BY <3>2, <3>3, <1>u, <1>h
  <2>2. Kept(p)'
    <3> SUFFICES ASSUME running'[p], persistent'[p] # NIL PROVE Kept(p)'
      BY DEF Kept
    <3>1. p # e /\ running[p] /\ persistent'[p] = persistent[p] /\ persistent[p] \in Requests
      BY <1>u, <1>d
    <3>2. Owner(persistent[p]) = p /\ worker[persistent[p]] # "none"
      BY <3>1, <1>d, NamesAssumption DEF Kept
    <3>3. \A x \in Requests : x = persistent[p] => worker'[x] = worker[x] /\ inq'[x] = inq[x]
      BY <3>1, <3>2, <1>k
    <3>4. lock[p] = NIL \/ lock[p] \in Requests
      BY <1>d
    <3>5. lock[p] # NIL /\ pc'[lock[p]] = "choose" => pc[lock[p]] = "choose"
      BY <3>4, <1>v
    <3> QED BY <3>1, <3>2, <3>3, <3>4, <3>5, <1>u, <1>h DEF Kept, Quiet, Owner
  <2> QED BY <2>1, <2>2
<1> QED BY <1>a, <1>b, <1>c

LEMMA DieKeeps ==
  ASSUME Facts, TypeOK', NEW e \in Processes, Die(e)
  PROVE  Facts'
<1> USE DEF Facts, Domains
<1>d. Domains
  BY DomainsAre
<1>u. /\ running' = [running EXCEPT ![e] = FALSE] /\ running[e]
      /\ \A q \in Requests : pc'[q] = IF Home(q) = e /\ pc[q] \in Busy \cup {"suspended"} THEN "gone" ELSE pc[q]
      /\ UNCHANGED <<doing, sent, got, thread, session, inherited, lock, persistent, outq, job, io, forks>>
  BY DEF Die
<1>k. \A x \in Requests : worker'[x] = worker[x] /\ inq'[x] = inq[x]
  BY DEF Die
<1>h. \A q : Home(q)' = Home(q)
  BY <1>u DEF Home
<1>v. \A q \in Requests :
        /\ pc'[q] = pc[q] \/ pc'[q] = "gone"
        /\ pc'[q] \in Busy \cup {"suspended"} => Home(q) # e
        /\ Converses(q)' => Converses(q) /\ pc'[q] = pc[q] /\ Home(q) # e
        /\ Holds(q)' => Holds(q)
        /\ Home(q) # e => pc'[q] = pc[q] /\ (Converses(q) => Converses(q)')
  BY <1>u DEF Holds, Converses, Busy
<1>w. \A q \in Requests : Home(q) # e /\ Holds(q) => Holds(q)'
  BY <1>u DEF Holds
<1>a. Unforked'
  BY <1>d, <1>u, <1>h DEF Unforked, Processes
<1>b. ASSUME NEW q \in Requests
      PROVE  /\ Place(q)'
             /\ Accepted(q)'
             /\ Locks(q)'
             /\ InUse(q)'
             /\ Talk(q)'
             /\ Rests(q)'
             /\ Own(q)'
             /\ Alive(q)'
  <2>1. Place(q)'
    <3>1. Place(q) /\ (session[q] = NIL \/ session[q] \in Requests)
      BY <1>d
    <3>2. /\ pc'[q] = pc[q] \/ pc'[q] = "gone"
          /\ pc'[q] \in Busy \cup {"suspended"} => Home(q) # e
      BY <1>v
    <3>3. pc'[q] \in Busy \cup {"suspended"} => running'[Home(q)]
      BY <3>1, <3>2, <1>u, <1>d, HomeIs DEF Place, Busy
    <3> QED BY <3>1, <3>2, <3>3, <1>u, <1>h, <1>k DEF Place, Owner, Busy
  <2>2. Accepted(q)'
    <3>1. pc'[q] = "done" => pc[q] = "done"
      BY <1>v
    <3> QED BY <3>1, <1>u DEF Accepted
  <2>3. Locks(q)'
    BY <1>u, <1>h, <1>v DEF Locks
  <2>4. InUse(q)'
    <3>1. Converses(q)' => Converses(q) /\ Home(q) # e
      BY <1>v
    <3> QED BY <3>1, <1>u, <1>d, <1>h, HomeIs DEF InUse, Starting
  <2>5. Talk(q)'
    <3>1. CASE Converses(q)'
      <4>1. Converses(q) /\ pc'[q] = pc[q] /\ session[q] \in Requests /\ session[q] # NIL /\ Home(q) # e
        BY <3>1, <1>v, SessionIs, NamesAssumption
      <4>2. Owner(session[q]) # e
        BY <4>1 DEF Place, Converses
      <4> QED BY <4>1, <4>2, <1>u, <1>k, TalkSame
    <3>2. CASE ~Converses(q)'
      BY <3>2 DEF Talk
    <3> QED BY <3>1, <3>2
  <2>6. Rests(q)'
    BY <1>u, <1>k DEF Rests
  <2>7. Own(q)'
    <3>1. \A x, y : Uses(x, y)' <=> Uses(x, y)
      BY <1>u DEF Uses
    <3> QED BY <3>1, <1>u, <1>k DEF Own
  <2>8. Alive(q)'
    <3> SUFFICES ASSUME worker'[q] = "running", running'[Owner(q)] PROVE persistent'[Owner(q)] = q \/ (Converses(q)' /\ Starting(q)')
      BY <1>h DEF Alive, Owner
    <3>1. worker[q] = "running" /\ Owner(q) # e /\ running[Owner(q)] /\ Owner(q) \in Processes
      BY <1>u, <1>d, <1>k, HomeIs DEF Owner
    <3>2. persistent[Owner(q)] = q \/ (Converses(q) /\ Starting(q))
      BY <3>1 DEF Alive
    <3>3. Converses(q) => Converses(q)'
      BY <3>1, <1>v DEF Owner
    <3> QED BY <3>1, <3>2, <3>3, <1>u, <1>d DEF Starting
  <2> QED BY <2>1, <2>2, <2>3, <2>4, <2>5, <2>6, <2>7, <2>8
<1>c. ASSUME NEW p \in Processes PROVE Locked(p)' /\ Kept(p)'
  <2>1. Locked(p)'
    <3> SUFFICES ASSUME running'[p], lock[p] # NIL PROVE (Holds(lock[p]) /\ Home(lock[p]) = p)'
      BY <1>u DEF Locked
    <3>1. p # e /\ running[p] /\ lock[p] \in Requests
      BY <1>u, <1>d
    <3>2. Holds(lock[p]) /\ Home(lock[p]) = p
      BY <3>1 DEF Locked
    <3>3. Holds(lock[p])'
      BY <3>1, <3>2, <1>u, <1>w
    <3> QED BY <3>2, <3>3, <1>u, <1>h
  <2>2. Kept(p)'
    <3> SUFFICES ASSUME running'[p], persistent'[p] # NIL PROVE Kept(p)'
      BY DEF Kept
    <3>1. p # e /\ running[p] /\ persistent'[p] = persistent[p] /\ persistent[p] \in Requests
      BY <1>u, <1>d
    <3>2. Owner(persistent[p]) = p /\ worker[persistent[p]] # "none"
      BY <3>1, <1>d, NamesAssumption DEF Kept
    <3>3. \A x \in Requests : x = persistent[p] => worker'[x] = worker[x] /\ inq'[x] = inq[x]
      BY <3>1, <3>2, <1>k
    <3>4. lock[p] = NIL \/ lock[p] \in Requests
      BY <1>d
    <3>5. lock[p] # NIL /\ pc'[lock[p]] = "choose" => pc[lock[p]] = "choose"
      BY <3>4, <1>v
    <3> QED BY <3>1, <3>2, <3>3, <3>4, <3>5, <1>u, <1>h DEF Kept, Quiet, Owner
  <2> QED BY <2>1, <2>2
<1> QED BY <1>a, <1>b, <1>c

-----------------------------------------------------------------------------
(* The invariant and the properties.                                       *)

LEMMA InvInit == Init => Inv
<1> SUFFICES ASSUME Init PROVE Inv
  OBVIOUS
<1>1. TypeOK
  BY TypeInit
<1>2. \A r \in Requests : Home(r) = "parent"
  BY NamesAssumption DEF Init, Home, ProcessOf
<1>3. Unforked
  BY <1>2, NamesAssumption DEF Init, Unforked, Processes
<1>4. ASSUME NEW r \in Requests PROVE OfRequest(r) /\ OfSession(r)
  <2>1. /\ pc[r] = "idle" /\ doing[r] = "hello" /\ sent[r] = 0 /\ got[r] = <<>> /\ session[r] = NIL /\ ~inherited[r]
        /\ worker[r] = "none" /\ io[r] = NoIO /\ inq[r] = <<>> /\ outq[r] = <<>> /\ job[r].state = "boot"
    BY DEF Init, Job
  <2>2. Place(r) /\ Locks(r) /\ InUse(r) /\ Talk(r)
    BY <2>1, <1>2 DEF Place, Locks, Holds, InUse, Converses, Talk, Busy
  <2>3. Accepted(r)
    <3>1. Len(Answer(r)) \in Nat /\ Len(got[r]) = 0
      BY <2>1, AnswerIs
    <3> QED BY <2>1, <3>1 DEF Accepted
  <2>4. Rests(r) /\ Own(r) /\ Alive(r)
    BY <2>1 DEF Rests, Own, Alive, NoIO
  <2> QED BY <2>2, <2>3, <2>4 DEF OfRequest, OfSession
<1>5. ASSUME NEW p \in Processes PROVE OfProcess(p)
  BY DEF OfProcess, Locked, Kept, Init
<1> QED BY <1>1, <1>3, <1>4, <1>5 DEF Inv

LEMMA ClientKeeps == ASSUME Facts, TypeOK', NEW r \in Requests, Client(r) PROVE Facts'
<1>1. CASE CancelIO(r) \/ Expire(r) \/ CallerFails(r) \/ ConversationFails(r)
  <2>1. Fail(r) /\ UNCHANGED <<got, running, forks>> /\ pc[r] \in {"ready", "io", "suspended"}
    BY <1>1 DEF CancelIO, Expire, CallerFails, ConversationFails
  <2> QED BY <2>1, FailKeeps, FailInheritedKeeps
<1>2. CASE Issue(r)
  BY <1>2, IssueKeeps, IssueInheritedKeeps
<1>3. CASE CannotStart(r)
  BY <1>3, CannotStartKeeps, CannotStartDiscardingKeeps DEF CannotStart
<1> QED BY <1>1, <1>2, <1>3, AcquireKeeps, CancelAcquireKeeps, ReuseKeeps, StartWorkerKeeps, WrittenKeeps,
           HandshakenKeeps, ReceiveKeeps DEF Client

LEMMA CallerKeeps == ASSUME Facts, TypeOK', NEW r \in Requests, Caller(r) PROVE Facts'
<1>1. CASE \E t \in Threads \cup {ChildThread} : CloseGenerator(r, t)
  <2>1. Fail(r) /\ UNCHANGED <<got, running, forks>> /\ pc[r] \in {"ready", "io", "suspended"}
    BY <1>1 DEF CloseGenerator
  <2> QED BY <2>1, FailKeeps, FailInheritedKeeps
<1> QED BY <1>1, CancelKeeps, CallKeeps, ResumeKeeps DEF Caller

LEMMA ProcessKeeps ==
  ASSUME Facts, TypeOK', (\E t \in Threads : Fork(t)) \/ (\E p \in Processes : Exit(p) \/ Die(p))
  PROVE  Facts'
<1>1. ASSUME NEW t \in Threads, Fork(t) PROVE Facts'
  <2>1. CASE UNCHANGED clientVars
    BY <1>1, <2>1, ForkKeeps
  <2>2. CASE \E r, g \in Requests :
          /\ pc[r] = "suspended" /\ pc[g] = "idle" /\ Kind[g] = Kind[r]
          /\ pc' = [pc EXCEPT ![g] = "suspended"]
          /\ doing' = [doing EXCEPT ![g] = doing[r]]
          /\ got' = [got EXCEPT ![g] = got[r]]
          /\ thread' = [thread EXCEPT ![g] = ChildThread]
          /\ session' = [session EXCEPT ![g] = session[r]]
          /\ inherited' = [inherited EXCEPT ![g] = TRUE]
          /\ UNCHANGED <<sent, cancelled>>
    BY <1>1, <2>2, ForkCopyKeeps
  <2> QED BY <1>1, <2>1, <2>2 DEF Fork
<1>2. ASSUME NEW p \in Processes, Exit(p) PROVE Facts'
  BY <1>2, ExitOrderlyKeeps, ExitKeeps
<1> QED BY <1>1, <1>2, DieKeeps

LEMMA IdleKeeps == ASSUME Facts, TypeOK', UNCHANGED vars PROVE Facts'
<1>u. UNCHANGED <<pc, doing, sent, got, thread, session, inherited, lock, persistent, worker, inq, outq, job, io, running, forks>>
  BY DEF vars, clientVars, workerVars
<1>h. \A r : Home(r)' = Home(r)
  BY <1>u DEF Home
<1>1. ASSUME NEW r \in Requests PROVE (Place(r) /\ Accepted(r) /\ Locks(r) /\ InUse(r) /\ Talk(r))'
  <2>1. Talk(r)'
    BY <1>u, TalkSame DEF Facts, Converses
  <2> QED BY <2>1, <1>u, <1>h DEF Facts, Place, Accepted, Locks, InUse, Holds, Converses, Starting, Owner
<1>2. ASSUME NEW s \in Requests PROVE (Rests(s) /\ Own(s) /\ Alive(s))'
  BY <1>u, <1>h DEF Facts, Rests, Own, Uses, Alive, Converses, Starting, Owner
<1>3. ASSUME NEW p \in Processes PROVE (Locked(p) /\ Kept(p))'
  BY <1>u, <1>h DEF Facts, Locked, Kept, Quiet, Owner, Holds
<1>4. Unforked'
  BY <1>u, <1>h DEF Facts, Unforked
<1> QED BY <1>1, <1>2, <1>3, <1>4 DEF Facts

LEMMA InvNext == Inv /\ [Next]_vars => Inv'
<1> SUFFICES ASSUME Inv, [Next]_vars PROVE Inv'
  OBVIOUS
<1>1. Facts
  BY FactsAre
<1>2. TypeOK'
  BY <1>1, TypeStep DEF Facts
<1>3. Facts'
  <2>1. CASE \E r \in Requests : Client(r) \/ Caller(r)
    BY <1>1, <1>2, <2>1, ClientKeeps, CallerKeeps
  <2>2. CASE \E s \in Requests : Perform(s) \/ Worker(s)
    BY <1>1, <1>2, <2>2, PerformKeeps, WorkerKeeps
  <2>3. CASE (\E t \in Threads : Fork(t)) \/ (\E p \in Processes : Exit(p) \/ Die(p))
    BY <1>1, <1>2, <2>3, ProcessKeeps
  <2>4. CASE UNCHANGED vars
    BY <1>1, <1>2, <2>4, IdleKeeps
  <2> QED BY <2>1, <2>2, <2>3, <2>4 DEF Next
<1>4. Facts' => Inv'
  BY DEF Facts, Inv, OfRequest, OfSession, OfProcess
<1> QED BY <1>3, <1>4

\* Every reachable state of the client, the pipes and the workers satisfies Inv.
THEOREM Invariant == Spec => []Inv
<1>1. Inv /\ UNCHANGED vars => Inv'
  BY InvNext
<1> QED BY InvInit, InvNext, PTL DEF Spec

\* A request never finds the rest of an abandoned conversation in the session it is
\* given: between two requests the pipes are empty and the worker awaits a command.
THEOREM IdleSessions == Spec => []IdleSessionIsClean
<1>1. Inv => IdleSessionIsClean
  BY DEF Inv, OfProcess, Kept, Quiet, IdleSessionIsClean
<1> QED BY <1>1, Invariant, PTL

\* Whatever timed out, was cancelled or was closed before, a request accepts the frames
\* of its own answer in order, and all of them when it ends normally.
THEOREM CompleteAnswers == Spec => []AnswersAreComplete
<1>1. Inv => AnswersAreComplete
  <2> SUFFICES ASSUME Inv, NEW r \in Requests
               PROVE  /\ Len(got[r]) <= Len(Answer(r))
                      /\ got[r] = SubSeq(Answer(r), 1, Len(got[r]))
                      /\ pc[r] = "done" => got[r] = Answer(r)
    BY DEF AnswersAreComplete
  <2>1. /\ Len(got[r]) <= Len(Answer(r)) /\ got[r] \in Seq(FrameTypes)
        /\ \A i \in 1..Len(got[r]) : got[r][i] = Answer(r)[i]
        /\ pc[r] = "done" => Len(got[r]) = Len(Answer(r))
    BY DEF Inv, OfRequest, Accepted, TypeOK
  <2>2. Answer(r) \in Seq(FrameTypes)
    BY AnswerIs
  <2> DEFINE G == got[r]
             A == Answer(r)
  <2> HIDE DEF G, A
  <2>3. /\ G \in Seq(FrameTypes) /\ A \in Seq(FrameTypes) /\ Len(G) <= Len(A) /\ Len(G) \in Nat /\ Len(A) \in Nat
        /\ \A i \in 1..Len(G) : G[i] = A[i]
    BY <2>1, <2>2 DEF G, A
  <2>4. G = SubSeq(A, 1, Len(G))
    BY <2>3
  <2>5. Len(G) = Len(A) => G = A
    BY <2>3
  <2> QED BY <2>1, <2>4, <2>5 DEF G, A
<1> QED BY <1>1, Invariant, PTL

\* No failure leaves a worker at work for a request its caller has been told has failed,
\* and a process never has two live workers.
THEOREM NoStrayWorkers == Spec => []NoStrayWorker
<1>1. Inv => NoStrayWorker
  <2> SUFFICES ASSUME Inv PROVE NoStrayWorker
    OBVIOUS
  <2>f. Facts
    BY FactsAre
  <2>1. ASSUME NEW r \in Requests, NEW s \in Requests, pc[r] = "failed", ~inherited[r], worker[s] = "running"
        PROVE  /\ job[s].state \in {"collect", "answer"} => job[s].id # r
               /\ \A i \in 1..Len(inq[s]) : inq[s][i].id # r
    <3>1. ~Uses(r, s)
      BY <2>f, <2>1, NamesAssumption DEF Facts, Uses, Place
    <3> QED BY <2>f, <2>1, <3>1 DEF Facts, Own
  <2>2. ASSUME NEW s \in Requests, NEW q \in Requests, worker[s] = "running", worker[q] = "running",
               Owner(s) = Owner(q), running[Owner(s)]
        PROVE  s = q
    <3> DEFINE Begins(x) == Converses(x) /\ Starting(x)
    <3>1. \A x \in {s, q} : persistent[Owner(x)] = x \/ Begins(x)
      BY <2>f, <2>2 DEF Facts, Alive
    <3>2. \A x \in {s, q} : Begins(x) => persistent[Owner(x)] = NIL /\ Holds(x) /\ Home(x) = Owner(x)
      BY <2>f DEF Facts, InUse, Owner, Holds, Converses
    <3>3. NIL \notin Requests
      BY NamesAssumption
    <3>4. CASE Begins(s) /\ Begins(q)
      BY <2>f, <2>2, <3>2, <3>4, OneHolder
    <3> QED BY <2>2, <3>1, <3>2, <3>3, <3>4
  <2> QED BY <2>1, <2>2 DEF NoStrayWorker
<1> QED BY <1>1, Invariant, PTL
=============================================================================
