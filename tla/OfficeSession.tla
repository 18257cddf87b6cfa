---------------------------- MODULE OfficeSession ----------------------------
(***************************************************************************)
(* The persistent Office worker and the requests that share it             *)
(* (src/lokit/office/process.py and the command loop of                    *)
(* src/office/Lokit.Office.Worker/Program.cs).                             *)
(*                                                                         *)
(* Threads of a Python process run requests.  A request takes the module's *)
(* lock, reuses or starts a worker session, converses with it in framed    *)
(* messages, and releases the lock.  An extraction is a generator: it is   *)
(* suspended at every unit, with the lock held, until some thread resumes  *)
(* or closes it.  A fork gives a child process with a lock and a session   *)
(* variable of its own.                                                    *)
(*                                                                         *)
(* A session is named by the request that started it; the UUID of a        *)
(* request's frames is the request itself.  A frame is one step of a pipe. *)
(***************************************************************************)
EXTENDS Naturals, Sequences

CONSTANTS
  Requests,      \* the requests of a run
  Threads,       \* threads of the process that may fork
  ChildThread,   \* the one thread of the forked process
  Kind,          \* [Requests -> {"extract", "reinsert"}]
  Units,         \* translation units of a document
  Warnings,      \* warnings the worker has about a document
  PipeCapacity,  \* frames that fit in a pipe
  MaxFaults,     \* bound: crashes of a worker and workers that cannot start
  MaxForks,      \* bound: forks
  NIL

ASSUME KindAssumption == Kind \in [Requests -> {"extract", "reinsert"}]
ASSUME UnitsAssumption == Units \in Nat /\ Warnings \in Nat /\ PipeCapacity \in Nat \ {0}
ASSUME NamesAssumption ==
  /\ NIL \notin Requests /\ ChildThread \notin Threads /\ NIL \notin Threads \cup {ChildThread}
ASSUME BoundsAssumption == MaxFaults \in Nat /\ MaxForks \in 0..1

Processes == {"parent", "child"}
ProcessOf(t) == IF t = ChildThread THEN "child" ELSE "parent"

Warned == [i \in 1..Warnings |-> "warning"]

\* What the worker answers, and what the client accepts in the right order.
Answer(r) ==
  IF Kind[r] = "extract"
    THEN <<"document_start">> \o Warned \o [i \in 1..Units |-> "unit"] \o <<"done">>
    ELSE Warned \o <<"result", "done">>

Frame(type, id) == [type |-> type, id |-> id]
FrameTypes == {"hello", "ready", "extract", "reinsert", "translation_unit",
               "translation_end", "document_start", "warning", "unit", "result", "done"}
Frames == [type : FrameTypes, id : Requests]
ASSUME FramesAssumption == NIL \notin Frames

NoIO    == [state |-> "none", op |-> "none", frame |-> NIL]
IOCalls == [state : {"none", "pending", "ok", "error"}, op : {"none", "write", "read"},
            frame : Frames \cup {NIL}]
Job(state, id, n) == [state |-> state, id |-> id, n |-> n]
JobStates == {"boot", "command", "collect", "answer"}

VARIABLES
  pc,         \* where a request's code is
  doing,      \* the protocol step of the request
  sent,       \* translation units written by a reinsertion
  got,        \* types of the frames a request has accepted
  thread,     \* the thread that runs the request, or ran it last
  session,    \* the session the request uses
  cancelled,  \* the request's cancellation event
  inherited,  \* the request's generator was copied by a fork
  lock,       \* _WORKER_LOCK of each process: its holder or NIL
  persistent, \* _PERSISTENT_WORKER of each process
  worker,     \* the operating system process behind each session
  holders,    \* processes with open ends of the session's pipes
  inq, outq,  \* the pipes to and from the worker
  job,        \* the worker's command loop
  io,         \* the call in hand of the session's I/O thread
  running,    \* the Python processes
  faults, forks

clientVars == <<pc, doing, sent, got, thread, session, cancelled, inherited>>
workerVars == <<worker, holders, inq, outq, job>>
vars == <<clientVars, lock, persistent, workerVars, io, running, faults, forks>>

Busy  == {"acquire", "choose", "ready", "io"}
Ended == {"done", "failed", "gone"}
Steps == {"hello", "expect_ready", "request", "translate", "answer"}

Init ==
  /\ pc = [r \in Requests |-> "idle"]
  /\ doing = [r \in Requests |-> "hello"]
  /\ sent = [r \in Requests |-> 0]
  /\ got = [r \in Requests |-> <<>>]
  /\ thread = [r \in Requests |-> NIL]
  /\ session = [r \in Requests |-> NIL]
  /\ cancelled = [r \in Requests |-> FALSE]
  /\ inherited = [r \in Requests |-> FALSE]
  /\ lock = [p \in Processes |-> NIL]
  /\ persistent = [p \in Processes |-> NIL]
  /\ worker = [s \in Requests |-> "none"]
  /\ holders = [s \in Requests |-> {}]
  /\ inq = [s \in Requests |-> <<>>]
  /\ outq = [s \in Requests |-> <<>>]
  /\ job = [s \in Requests |-> Job("boot", s, 0)]
  /\ io = [s \in Requests |-> NoIO]
  /\ running = [p \in Processes |-> p = "parent"]
  /\ faults = 0
  /\ forks = 0

-----------------------------------------------------------------------------
(* State functions.                                                        *)

Home(r) == ProcessOf(thread[r])
Owner(s) == Home(s)                    \* a session belongs to its starter's process
Free(t) == running[ProcessOf(t)] /\ \A r \in Requests : ~(thread[r] = t /\ pc[r] \in Busy)
HoldsLock(r) == lock[Home(r)] = r
Starting(r) == doing[r] \in {"hello", "expect_ready"}

-----------------------------------------------------------------------------
(* Ending a request.                                                       *)

\* mutant: the signal is sent and its effect not awaited
TerminateUnawaited(s) ==
  /\ io' = [io EXCEPT ![s] = NoIO]
  /\ UNCHANGED workerVars

\* session.terminate(): the process is killed and reaped, which ends the call the
\* I/O thread may be in, and both helper threads are joined
Terminate(s) ==
  /\ worker' = [worker EXCEPT ![s] = "dead"]
  /\ inq' = [inq EXCEPT ![s] = <<>>]
  /\ outq' = [outq EXCEPT ![s] = <<>>]
  /\ io' = [io EXCEPT ![s] = NoIO]
  /\ UNCHANGED <<holders, job>>

Release(r) ==
  lock' = IF HoldsLock(r) THEN [lock EXCEPT ![Home(r)] = NIL] ELSE lock

\* mutant: the session is kept after a failure
LeaveKeepingSession(r) ==
  /\ Release(r)
  /\ UNCHANGED <<workerVars, io, persistent>>

\* except BaseException ... finally of _worker_request: a session this process
\* owns is discarded, and the lock that was acquired is released
Leave(r) ==
  LET s == session[r] IN
  /\ Release(r)
  /\ IF s # NIL /\ ~inherited[r]
       THEN /\ Terminate(s)
            /\ persistent' = IF persistent[Home(r)] = s
                               THEN [persistent EXCEPT ![Home(r)] = NIL] ELSE persistent
       ELSE UNCHANGED <<workerVars, io, persistent>>

Fail(r) ==
  /\ pc' = [pc EXCEPT ![r] = "failed"]
  /\ Leave(r)
  /\ UNCHANGED <<doing, sent, thread, session, cancelled, inherited>>

-----------------------------------------------------------------------------
(* _worker_request: the lock and the session.                              *)

\* a caller enters extract_with_worker_iter (the first next) or reinsert_with_worker
Call(r, t) ==
  /\ pc[r] = "idle" /\ Free(t)
  /\ pc' = [pc EXCEPT ![r] = "acquire"]
  /\ thread' = [thread EXCEPT ![r] = t]
  /\ UNCHANGED <<doing, sent, got, session, cancelled, inherited, lock, persistent,
                 workerVars, io, running, faults, forks>>

\* another thread sets the event an export was given; an extraction has none
Cancel(r) ==
  /\ Kind[r] = "reinsert" /\ pc[r] \in Busy /\ ~cancelled[r]
  /\ cancelled' = [cancelled EXCEPT ![r] = TRUE]
  /\ UNCHANGED <<pc, doing, sent, got, thread, session, inherited, lock, persistent,
                 workerVars, io, running, faults, forks>>

Acquire(r) ==
  /\ pc[r] = "acquire"
  /\ lock[Home(r)] = NIL /\ ~cancelled[r]
  /\ lock' = [lock EXCEPT ![Home(r)] = r]
  /\ pc' = [pc EXCEPT ![r] = "choose"]
  /\ UNCHANGED <<doing, sent, got, thread, session, cancelled, inherited, persistent,
                 workerVars, io, running, faults, forks>>

\* the polls of the lock see the cancellation, also right after acquiring
CancelAcquire(r) ==
  /\ pc[r] = "acquire" /\ cancelled[r]
  /\ pc' = [pc EXCEPT ![r] = "failed"]
  /\ UNCHANGED <<doing, sent, got, thread, session, cancelled, inherited, lock,
                 persistent, workerVars, io, running, faults, forks>>

Reusable(r) ==
  LET s == persistent[Home(r)] IN s # NIL /\ Owner(s) = Home(r) /\ worker[s] = "running"

\* an idle session of this process with a live worker is used as it is
Reuse(r) ==
  /\ pc[r] = "choose" /\ Reusable(r)
  /\ session' = [session EXCEPT ![r] = persistent[Home(r)]]
  /\ doing' = [doing EXCEPT ![r] = "request"]
  /\ pc' = [pc EXCEPT ![r] = "ready"]
  /\ UNCHANGED <<sent, got, thread, cancelled, inherited, lock, persistent, workerVars,
                 io, running, faults, forks>>

\* otherwise, or when the executable has changed, the session is discarded and a
\* worker started: two helper threads, three pipes, then the handshake
StartWorker(r) ==
  LET s == persistent[Home(r)] IN
  /\ pc[r] = "choose"
  /\ Reusable(r) => faults < MaxFaults     \* the executable's identity changed
  /\ faults' = IF Reusable(r) THEN faults + 1 ELSE faults
  /\ persistent' = [persistent EXCEPT ![Home(r)] = NIL]
  /\ worker' = [q \in Requests |-> IF q = r THEN "running"
                                   ELSE IF q = s THEN "dead" ELSE worker[q]]
  /\ inq' = [q \in Requests |-> IF q = s THEN <<>> ELSE inq[q]]
  /\ outq' = [q \in Requests |-> IF q = s THEN <<>> ELSE outq[q]]
  /\ io' = [q \in Requests |-> IF q = s THEN NoIO ELSE io[q]]
  /\ holders' = [holders EXCEPT ![r] = {Home(r)}]
  /\ session' = [session EXCEPT ![r] = r]
  /\ pc' = [pc EXCEPT ![r] = "ready"]
  /\ UNCHANGED <<doing, sent, got, thread, cancelled, inherited, lock, job, running, forks>>

\* nothing is started: the runtime cannot be read, and a session is kept as it is,
\* or the digest of the executable is wrong, once its session has been discarded
CannotStart(r) ==
  LET s == persistent[Home(r)] IN
  /\ pc[r] = "choose" /\ faults < MaxFaults
  /\ faults' = faults + 1
  /\ pc' = [pc EXCEPT ![r] = "failed"]
  /\ Release(r)
  /\ \/ UNCHANGED <<persistent, workerVars, io>>
     \/ /\ s # NIL /\ Terminate(s)
        /\ persistent' = [persistent EXCEPT ![Home(r)] = NIL]
  /\ UNCHANGED <<doing, sent, got, thread, session, cancelled, inherited, running, forks>>

-----------------------------------------------------------------------------
(* The conversation.                                                       *)

Submit(r, op, frame) ==
  /\ io' = [io EXCEPT ![session[r]] = [state |-> "pending", op |-> op, frame |-> frame]]
  /\ pc' = [pc EXCEPT ![r] = "io"]

\* the frame the request writes next; NIL when it reads
NextWrite(r) ==
  CASE doing[r] = "hello"     -> Frame("hello", r)
    [] doing[r] = "request"   -> Frame(Kind[r], r)
    [] doing[r] = "translate" ->
         Frame(IF sent[r] < Units THEN "translation_unit" ELSE "translation_end", r)
    [] OTHER                  -> NIL

\* runner.execute: the call is queued for the session's I/O thread, unless the
\* export was cancelled.  In a forked child that thread does not exist.
Issue(r) ==
  /\ pc[r] = "ready" /\ ~cancelled[r]
  /\ IF inherited[r]
       THEN pc' = [pc EXCEPT ![r] = "io"] /\ UNCHANGED io
       ELSE IF NextWrite(r) # NIL
              THEN Submit(r, "write", NextWrite(r))
              ELSE Submit(r, "read", NIL)
  /\ UNCHANGED <<doing, sent, got, thread, session, cancelled, inherited, lock,
                 persistent, workerVars, running, faults, forks>>

\* raise_if_cancelled before a call and in the polls for its result
CancelIO(r) ==
  /\ pc[r] \in {"ready", "io"} /\ cancelled[r]
  /\ Fail(r)
  /\ UNCHANGED <<got, running, faults, forks>>

\* mutant: an expired read is tried again on the same session
ExpireRetry(r) ==
  /\ pc[r] = "io"
  /\ pc' = [pc EXCEPT ![r] = "ready"]
  /\ io' = [io EXCEPT ![session[r]] = NoIO]
  /\ UNCHANGED <<doing, sent, got, thread, session, cancelled, inherited, lock,
                 persistent, workerVars, running, faults, forks>>

\* the deadline of a call passes, even when its result is already there:
\* OfficeTimeoutError, with the worker terminated
Expire(r) ==
  /\ pc[r] \in {"ready", "io"}
  /\ Fail(r)
  /\ UNCHANGED <<got, running, faults, forks>>

\* a write came through: on to the next step of the request
Written(r) ==
  LET s == session[r] IN
  /\ pc[r] = "io" /\ ~inherited[r] /\ io[s].state = "ok" /\ io[s].op = "write"
  /\ io' = [io EXCEPT ![s] = NoIO]
  /\ pc' = [pc EXCEPT ![r] = "ready"]
  /\ sent' = IF doing[r] = "translate" THEN [sent EXCEPT ![r] = @ + 1] ELSE sent
  /\ doing' = [doing EXCEPT ![r] =
       CASE doing[r] = "hello" -> "expect_ready"
         [] doing[r] = "request" /\ Kind[r] = "reinsert" -> "translate"
         [] doing[r] = "translate" /\ sent[r] < Units -> "translate"
         [] OTHER -> "answer"]
  /\ UNCHANGED <<got, thread, session, cancelled, inherited, lock, persistent,
                 workerVars, running, faults, forks>>

\* the caller's translations raise, or exceed a limit of the options
CallerFails(r) ==
  /\ pc[r] = "ready" /\ doing[r] = "translate" /\ sent[r] < Units
  /\ Fail(r)
  /\ UNCHANGED <<got, running, faults, forks>>

Arrived(r) ==
  LET s == session[r] IN
  pc[r] = "io" /\ ~inherited[r] /\ io[s].state = "ok" /\ io[s].op = "read"

\* READY of the handshake: the session becomes the persistent one
Handshaken(r) ==
  /\ Arrived(r) /\ doing[r] = "expect_ready"
  /\ LET f == io[r].frame IN f.id = r /\ f.type = "ready"
  /\ persistent' = [persistent EXCEPT ![Home(r)] = r]
  /\ io' = [io EXCEPT ![r] = NoIO]
  /\ doing' = [doing EXCEPT ![r] = "request"]
  /\ pc' = [pc EXCEPT ![r] = "ready"]
  /\ UNCHANGED <<sent, got, thread, session, cancelled, inherited, lock, workerVars,
                 running, faults, forks>>

Accepts(r, f) ==
  /\ f.id = r
  /\ f.type \in (IF Kind[r] = "extract" THEN {"document_start", "warning", "unit", "done"}
                                         ELSE {"warning", "result", "done"})
  /\ f.type = "done" /\ Kind[r] = "reinsert" => \E i \in 1..Len(got[r]) : got[r][i] = "result"

\* a frame of the answer: a unit suspends the generator, "done" ends the request
\* and leaves the session for the next one, the others are noted
Receive(r) ==
  LET s == session[r]
      f == io[s].frame IN
  /\ Arrived(r) /\ doing[r] = "answer" /\ Accepts(r, f)
  /\ got' = [got EXCEPT ![r] = Append(@, f.type)]
  /\ io' = [io EXCEPT ![s] = NoIO]
  /\ pc' = [pc EXCEPT ![r] = CASE f.type = "unit" -> "suspended"
                               [] f.type = "done" -> "done"
                               [] OTHER -> "ready"]
  /\ IF f.type = "done" THEN Release(r) ELSE UNCHANGED lock
  /\ UNCHANGED <<doing, sent, thread, session, cancelled, inherited, persistent,
                 workerVars, running, faults, forks>>

\* a broken pipe, a foreign request id or an unexpected frame
ConversationFails(r) ==
  LET s == session[r] IN
  /\ pc[r] = "io" /\ ~inherited[r]
  /\ \/ io[s].state = "error"
     \/ Arrived(r) /\ doing[r] = "expect_ready" /\ io[s].frame # Frame("ready", r)
     \/ Arrived(r) /\ doing[r] = "answer" /\ ~Accepts(r, io[s].frame)
  /\ Fail(r)
  /\ UNCHANGED <<got, running, faults, forks>>

\* a thread asks the suspended generator for the next unit
ResumeGenerator(r, t) ==
  /\ pc[r] = "suspended" /\ Free(t) /\ ProcessOf(t) = Home(r)
  /\ pc' = [pc EXCEPT ![r] = "ready"]
  /\ thread' = [thread EXCEPT ![r] = t]
  /\ UNCHANGED <<doing, sent, got, session, cancelled, inherited, lock, persistent,
                 workerVars, io, running, faults, forks>>

\* a thread closes or drops it: GeneratorExit is raised at the yield
CloseGenerator(r, t) ==
  /\ pc[r] = "suspended" /\ Free(t) /\ ProcessOf(t) = Home(r)
  /\ Fail(r)
  /\ UNCHANGED <<got, running, faults, forks>>

-----------------------------------------------------------------------------
(* The session's I/O thread: _write_frame and _read_frame.                 *)

Perform(s) ==
  /\ io[s].state = "pending" /\ running[Owner(s)]
  /\ \/ /\ io[s].op = "write" /\ worker[s] = "running" /\ Len(inq[s]) < PipeCapacity
        /\ inq' = [inq EXCEPT ![s] = Append(@, io[s].frame)]
        /\ io' = [io EXCEPT ![s].state = "ok"]
        /\ UNCHANGED outq
     \/ /\ io[s].op = "read" /\ outq[s] # <<>>
        /\ io' = [io EXCEPT ![s].state = "ok", ![s].frame = Head(outq[s])]
        /\ outq' = [outq EXCEPT ![s] = Tail(@)]
        /\ UNCHANGED inq
     \/ /\ worker[s] = "dead" /\ (io[s].op = "read" => outq[s] = <<>>)
        /\ io' = [io EXCEPT ![s].state = "error"]
        /\ UNCHANGED <<inq, outq>>
  /\ UNCHANGED <<clientVars, lock, persistent, worker, holders, job, running, faults, forks>>

-----------------------------------------------------------------------------
(* WorkerCommandLoop.RunAsync in the worker.                               *)

WorkerStep(s) ==
  /\ worker[s] = "running"
  /\ UNCHANGED <<clientVars, lock, persistent, holders, io, running, faults, forks>>

Goes(s, state, id, n) == job' = [job EXCEPT ![s] = Job(state, id, n)]

Send(s, type, id) ==
  /\ Len(outq[s]) < PipeCapacity
  /\ outq' = [outq EXCEPT ![s] = Append(@, Frame(type, id))]

Takes(s, type) ==
  /\ inq[s] # <<>> /\ Head(inq[s]).type = type
  /\ inq' = [inq EXCEPT ![s] = Tail(@)]

\* an exception of any kind: RunAsync returns 1
WorkerExits(s) ==
  /\ worker' = [worker EXCEPT ![s] = "dead"]
  /\ inq' = [inq EXCEPT ![s] = <<>>]
  /\ UNCHANGED <<outq, job>>

WorkerHello(s) ==
  /\ WorkerStep(s) /\ job[s].state = "boot"
  /\ Takes(s, "hello") /\ Send(s, "ready", Head(inq[s]).id)
  /\ Goes(s, "command", Head(inq[s]).id, 0)
  /\ UNCHANGED worker

WorkerCommand(s) ==
  /\ WorkerStep(s) /\ job[s].state = "command"
  /\ \/ Takes(s, "extract") /\ Goes(s, "answer", Head(inq[s]).id, 0)
     \/ Takes(s, "reinsert") /\ Goes(s, "collect", Head(inq[s]).id, 0)
  /\ UNCHANGED <<worker, outq>>

\* HandleReinsertAsync reads translations of its own request up to the end marker
WorkerCollect(s) ==
  /\ WorkerStep(s) /\ job[s].state = "collect" /\ inq[s] # <<>>
  /\ Head(inq[s]).id = job[s].id
  /\ \/ Takes(s, "translation_unit") /\ UNCHANGED job
     \/ Takes(s, "translation_end") /\ Goes(s, "answer", job[s].id, 0)
  /\ UNCHANGED <<worker, outq>>

\* HandleExtractAsync, or the end of HandleReinsertAsync, writes its answer
WorkerAnswer(s) ==
  LET r == job[s].id
      k == job[s].n + 1 IN
  /\ WorkerStep(s) /\ job[s].state = "answer"
  /\ Send(s, Answer(r)[k], r)
  /\ IF k = Len(Answer(r)) THEN Goes(s, "command", r, 0) ELSE Goes(s, "answer", r, k)
  /\ UNCHANGED <<worker, inq>>

\* a document the worker cannot read, a crash, a kill from outside
WorkerCrash(s) ==
  /\ worker[s] = "running" /\ faults < MaxFaults
  /\ faults' = faults + 1
  /\ WorkerExits(s)
  /\ UNCHANGED <<clientVars, lock, persistent, holders, io, running, forks>>

\* mutant: only the command loop notices the end of its input
WorkerEndOfInputAtCommand(s) ==
  /\ WorkerStep(s) /\ holders[s] = {} /\ job[s].state = "command"
  /\ WorkerExits(s)

\* no process has the other ends of its pipes: end of input, or a broken pipe
WorkerEndOfInput(s) ==
  /\ WorkerStep(s) /\ holders[s] = {}
  /\ WorkerExits(s)

-----------------------------------------------------------------------------
(* Processes.                                                              *)

\* mutant: the child keeps the lock as the parent left it
ChildLockInherited == lock["parent"]

\* _WORKER_LOCK = threading.Lock() in the child
ChildLock == NIL

\* A thread forks.  _reset_worker_after_fork gives the child a new lock and no
\* session, and closes its copies of the persistent session's pipes; a copy of a
\* suspended generator, here an unused request, keeps the old lock instance.
Fork(t) ==
  /\ forks < MaxForks /\ forks' = forks + 1
  /\ Free(t) /\ ProcessOf(t) = "parent"
  /\ running' = [running EXCEPT !["child"] = TRUE]
  /\ holders' = [s \in Requests |->
       IF "parent" \in holders[s] /\ s # persistent["parent"]
         THEN holders[s] \cup {"child"} ELSE holders[s]]
  /\ \/ \E r, g \in Requests :
          /\ pc[r] = "suspended" /\ pc[g] = "idle" /\ Kind[g] = Kind[r]
          /\ pc' = [pc EXCEPT ![g] = "suspended"]
          /\ doing' = [doing EXCEPT ![g] = doing[r]]
          /\ got' = [got EXCEPT ![g] = got[r]]
          /\ thread' = [thread EXCEPT ![g] = ChildThread]
          /\ session' = [session EXCEPT ![g] = session[r]]
          /\ inherited' = [inherited EXCEPT ![g] = TRUE]
          /\ UNCHANGED <<sent, cancelled>>
     \/ UNCHANGED clientVars       \* the child never touches its copies
  /\ lock' = [lock EXCEPT !["child"] = ChildLock]
  /\ UNCHANGED <<persistent, worker, inq, outq, job, io, faults>>

\* The interpreter ends.  _shutdown_worker closes the idle session; when the lock
\* stays taken for a second, by a suspended generator, it gives up.
Exit(p) ==
  LET s == persistent[p] IN
  /\ running[p]
  /\ \A r \in Requests : Home(r) = p => pc[r] \notin Busy
  /\ running' = [running EXCEPT ![p] = FALSE]
  /\ pc' = [r \in Requests |-> IF Home(r) = p /\ pc[r] = "suspended" THEN "gone" ELSE pc[r]]
  /\ persistent' = [persistent EXCEPT ![p] = NIL]
  /\ worker' = IF lock[p] = NIL /\ s # NIL THEN [worker EXCEPT ![s] = "dead"] ELSE worker
  /\ inq' = IF lock[p] = NIL /\ s # NIL THEN [inq EXCEPT ![s] = <<>>] ELSE inq
  /\ holders' = [q \in Requests |-> holders[q] \ {p}]
  /\ UNCHANGED <<doing, sent, got, thread, session, cancelled, inherited, lock, outq, job,
                 io, faults, forks>>

\* the process is killed, its requests with it
Die(p) ==
  /\ running[p] /\ faults < MaxFaults /\ faults' = faults + 1
  /\ running' = [running EXCEPT ![p] = FALSE]
  /\ pc' = [r \in Requests |-> IF Home(r) = p /\ pc[r] \in Busy \cup {"suspended"}
                                THEN "gone" ELSE pc[r]]
  /\ holders' = [q \in Requests |-> holders[q] \ {p}]
  /\ UNCHANGED <<doing, sent, got, thread, session, cancelled, inherited, lock, persistent,
                 worker, inq, outq, job, io, forks>>

-----------------------------------------------------------------------------
Client(r) ==
  \/ Acquire(r) \/ CancelAcquire(r) \/ Reuse(r) \/ StartWorker(r) \/ CannotStart(r)
  \/ Issue(r) \/ CancelIO(r) \/ Expire(r) \/ Written(r) \/ CallerFails(r)
  \/ Handshaken(r) \/ Receive(r) \/ ConversationFails(r)

Caller(r) ==
  \/ Cancel(r)
  \/ \E t \in Threads \cup {ChildThread} :
       Call(r, t) \/ ResumeGenerator(r, t) \/ CloseGenerator(r, t)

Worker(s) ==
  \/ WorkerHello(s) \/ WorkerCommand(s) \/ WorkerCollect(s) \/ WorkerAnswer(s)
  \/ WorkerCrash(s) \/ WorkerEndOfInput(s)

Next ==
  \/ \E r \in Requests : Client(r) \/ Caller(r)
  \/ \E s \in Requests : Perform(s) \/ Worker(s)
  \/ \E t \in Threads : Fork(t)
  \/ \E p \in Processes : Exit(p) \/ Die(p)

Spec == Init /\ [][Next]_vars

\* Threads run, deadlines pass, and a worker notices that its pipes are closed.
\* Nothing is assumed of a worker at work, which may stall, nor of callers, which
\* may leave a generator suspended.
FairSpec ==
  /\ Spec
  /\ \A r \in Requests : WF_vars(Client(r))
  /\ \A s \in Requests : WF_vars(WorkerEndOfInput(s))

-----------------------------------------------------------------------------
(* Properties.                                                             *)

\* Between requests the persistent session is idle: no call in hand of its I/O
\* thread, no frame in its pipes, and its worker, if alive, awaits a command.  So
\* a request never finds the rest of an abandoned conversation.
IdleSessionIsClean ==
  \A p \in Processes :
    LET s == persistent[p] IN
    running[p] /\ lock[p] = NIL /\ s # NIL =>
      /\ io[s] = NoIO /\ inq[s] = <<>> /\ outq[s] = <<>>
      /\ worker[s] = "running" => job[s].state = "command"

\* A request accepts the frames of its own answer, in order and without a gap,
\* whatever timed out, was cancelled or was closed before it; one that ends
\* normally has accepted them all.
AnswersAreComplete ==
  \A r \in Requests :
    /\ Len(got[r]) <= Len(Answer(r))
    /\ got[r] = SubSeq(Answer(r), 1, Len(got[r]))
    /\ pc[r] = "done" => got[r] = Answer(r)

\* A request that failed has no worker left at work for it, so its caller may remove
\* the files they shared; and a process never has two live workers: whatever fails
\* in a request or in a handshake, no worker is forgotten alive.
NoStrayWorker ==
  /\ \A r, s \in Requests :
       pc[r] = "failed" /\ ~inherited[r] /\ worker[s] = "running" =>
         /\ job[s].state \in {"collect", "answer"} => job[s].id # r
         /\ \A i \in 1..Len(inq[s]) : inq[s][i].id # r
  /\ \A s, q \in Requests :
       /\ worker[s] = "running" /\ worker[q] = "running"
       /\ Owner(s) = Owner(q) /\ running[Owner(s)]
       => s = q

\* A request ends, or hands a unit to its caller, even if its worker stalls or dies:
\* the deadlines see to it.  It waits for the lock only while some caller of its own
\* process leaves a generator suspended; a forked child never waits for the parent's.
RequestEnds ==
  \A r \in Requests :
    pc[r] \in Busy ~>
      \/ pc[r] \in Ended \cup {"suspended"}
      \/ /\ pc[r] = "acquire"
         /\ \E u \in Requests : pc[u] = "suspended" /\ HoldsLock(u) /\ Home(u) = Home(r)

\* When the processes have ended no worker survives them, even one that a
\* suspended generator kept from the orderly shutdown.
WorkersExit ==
  \A s \in Requests :
    worker[s] = "running" /\ (\A p \in Processes : ~running[p]) ~> worker[s] = "dead"
=============================================================================
