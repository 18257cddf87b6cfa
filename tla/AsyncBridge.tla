----------------------------- MODULE AsyncBridge -----------------------------
(***************************************************************************)
(* AsyncExtractionBridge (src/lokit/parsers/async_bridge.py): an async     *)
(* iterator over a synchronous one.                                        *)
(*                                                                         *)
(* A producer thread pulls a window of batches from the iterator and puts  *)
(* them, through coroutines on the event loop, into a bounded queue; the   *)
(* consumer's __anext__ takes them out and starts the next window when it  *)
(* has drained the last.  __anext__ can be cancelled wherever it awaits    *)
(* and called again; the bridge can be closed by the consumer or, while    *)
(* the consumer awaits, by another task.                                   *)
(*                                                                         *)
(* The code between two awaits of the event loop is one step.  Items are   *)
(* numbered in the iterator's order.                                       *)
(***************************************************************************)
EXTENDS Naturals, Sequences

CONSTANTS
  Items,           \* items of the iterator before it ends or raises
  MaxSize,         \* maxsize of the queue
  BatchSize,       \* batch_size
  MaxCancels,      \* bound: cancellations of the consumer
  MaxEmpty,        \* bound: empty batches of a native iterator
  ConcurrentClose  \* whether another task may call aclose

ASSUME SizesAssumption ==
  Items \in Nat /\ MaxSize \in Nat \ {0} /\ BatchSize \in Nat \ {0}
ASSUME EnvironmentAssumption == MaxCancels \in Nat /\ MaxEmpty \in Nat /\ ConcurrentClose \in BOOLEAN

VARIABLES
  ending,       \* how the iterator ends: "end" or "error"
  native,       \* whether the bridge was made by from_batches
  consumer,     \* where the consumer is in __anext__ or aclose
  cancelReq,    \* the consumer's task was cancelled where it awaits
  current,      \* what is left of _current_batch
  pendingError, doneAfter, \* _pending_error, _done_after_batch
  closed, stop, \* _closed, _stop
  queue,
  producer,     \* the asyncio task _producer
  thread,       \* the producer thread: [pc, puts, batch, msg]
  putting,      \* whether a coroutine is in queue.put with thread.msg
  closer,       \* the close task
  pulled,       \* items taken from the iterator
  empties,      \* empty batches it has returned
  delivered,    \* history: items returned by __anext__
  report,       \* history: how the iteration ended for the consumer
  userClosed,   \* history: aclose was called from outside
  cancels

bufferVars == <<current, pendingError, doneAfter>>
threadVars == <<thread, putting, pulled, empties>>
historyVars == <<delivered, report, userClosed, cancels>>
vars == <<ending, native, consumer, cancelReq, bufferVars, closed, stop, queue, producer,
          threadVars, closer, historyVars>>

Message(items, error, done, window) ==
  [items |-> items, error |-> error, done |-> done, window |-> window]
Final(items) == Message(items, ending = "error", ending = "end", FALSE)
Batch(items) == Message(items, FALSE, FALSE, FALSE)
WindowDone   == Message(<<>>, FALSE, FALSE, TRUE)

Thread(pc, puts, batch, msg) == [pc |-> pc, puts |-> puts, batch |-> batch, msg |-> msg]
NoThread == Thread("none", 0, <<>>, WindowDone)

\* mutant: a window as large as the queue, its end marker excluded
WindowFillsQueue == MaxSize

\* self._window_batches = max(1, maxsize - 1)
WindowBatches == IF MaxSize = 1 THEN 1 ELSE MaxSize - 1

Awaiting == {"get", "settle", "close_error", "close_end", "close_call"}

Init ==
  /\ ending \in {"end", "error"} /\ native \in BOOLEAN
  /\ consumer = "idle" /\ cancelReq = FALSE
  /\ current = <<>> /\ pendingError = FALSE /\ doneAfter = FALSE
  /\ closed = FALSE /\ stop = FALSE
  /\ queue = <<>>
  /\ producer = "none" /\ thread = NoThread /\ putting = FALSE
  /\ closer = "none"
  /\ pulled = 0 /\ empties = 0
  /\ delivered = <<>> /\ report = "none" /\ userClosed = FALSE /\ cancels = 0

-----------------------------------------------------------------------------
(* __anext__ and aclose, up to the next await.                             *)

\* aclose: the first call marks the bridge closed and creates the close task
StartClose ==
  IF closer = "none"
    THEN closed' = TRUE /\ stop' = TRUE /\ closer' = "wait"
    ELSE UNCHANGED <<closed, stop, closer>>

CallNext ==
  /\ consumer = "idle" /\ report = "none"
  /\ IF closed
       THEN report' = "end" /\ UNCHANGED consumer
       ELSE consumer' = "loop" /\ UNCHANGED report
  /\ UNCHANGED <<ending, native, cancelReq, bufferVars, closed, stop, queue, producer,
                 threadVars, closer, delivered, userClosed, cancels>>

\* an item of the current batch is returned
Deliver ==
  /\ consumer = "loop" /\ current # <<>>
  /\ delivered' = Append(delivered, Head(current))
  /\ current' = Tail(current)
  /\ consumer' = "idle"
  /\ UNCHANGED <<ending, native, cancelReq, pendingError, doneAfter, closed, stop, queue,
                 producer, threadVars, closer, report, userClosed, cancels>>

\* the batch is used up and the iterator has ended with it
FinishBatch ==
  /\ consumer = "loop" /\ current = <<>>
  /\ \/ pendingError /\ consumer' = "close_error"
     \/ ~pendingError /\ doneAfter /\ consumer' = "close_end"
  /\ pendingError' = FALSE
  /\ StartClose
  /\ UNCHANGED <<ending, native, cancelReq, current, doneAfter, queue, producer,
                 threadVars, historyVars>>

\* _ensure_prefetch and _start
EnsurePrefetch ==
  IF queue # <<>> \/ closed \/ stop \/ pendingError \/ doneAfter \/ producer = "running"
    THEN UNCHANGED <<producer, thread>>
    ELSE producer' = "running" /\ thread' = Thread("pull", 0, <<>>, WindowDone)

AwaitQueue ==
  /\ consumer = "loop" /\ current = <<>> /\ ~pendingError /\ ~doneAfter
  /\ EnsurePrefetch
  /\ consumer' = "get"
  /\ UNCHANGED <<ending, native, cancelReq, bufferVars, closed, stop, queue, putting,
                 pulled, empties, closer, historyVars>>

\* await self._queue.get() returns, and the loop goes on to its next await
Get ==
  LET m == Head(queue) IN
  /\ consumer = "get" /\ ~cancelReq /\ queue # <<>>
  /\ queue' = Tail(queue)
  /\ \/ /\ m.window
        /\ consumer' = IF producer = "none" THEN "loop" ELSE "settle"
        /\ UNCHANGED <<bufferVars, closed, stop, closer>>
     \/ /\ ~m.window /\ m.items # <<>>
        /\ current' = m.items /\ pendingError' = m.error /\ doneAfter' = m.done
        /\ consumer' = "loop"
        /\ UNCHANGED <<closed, stop, closer>>
     \/ /\ ~m.window /\ m.items = <<>>
        /\ consumer' = IF m.error THEN "close_error" ELSE "close_end"
        /\ StartClose
        /\ UNCHANGED bufferVars
  /\ UNCHANGED <<ending, native, cancelReq, producer, threadVars, historyVars>>

\* await asyncio.shield(producer) returns
Settle ==
  /\ consumer = "settle" /\ ~cancelReq /\ producer # "running"
  /\ producer' = "none"
  /\ consumer' = "loop"
  /\ UNCHANGED <<ending, native, cancelReq, bufferVars, closed, stop, queue, threadVars,
                 closer, historyVars>>

\* aclose returns: the iteration is reported as ended, or the error is raised
Closed ==
  /\ consumer \in {"close_error", "close_end", "close_call"}
  /\ closer = "done" /\ ~cancelReq
  /\ consumer' = "idle"
  /\ report' = CASE consumer = "close_error" -> "error"
                 [] consumer = "close_end"   -> "end"
                 [] OTHER                    -> report
  /\ UNCHANGED <<ending, native, cancelReq, bufferVars, closed, stop, queue, producer,
                 threadVars, closer, delivered, userClosed, cancels>>

\* mutant: the message the consumer was woken for is lost with the cancellation
CancelledLosesMessage ==
  /\ consumer \in Awaiting /\ cancelReq
  /\ cancelReq' = FALSE
  /\ consumer' = "idle"
  /\ queue' = IF consumer = "get" /\ queue # <<>> THEN Tail(queue) ELSE queue
  /\ UNCHANGED <<ending, native, bufferVars, closed, stop, producer, threadVars,
                 closer, historyVars>>

\* mutant: aclose awaits the close task without asyncio.shield
CancelledUnshielded ==
  /\ consumer \in Awaiting /\ cancelReq
  /\ cancelReq' = FALSE
  /\ consumer' = "idle"
  /\ closer' = IF consumer \in {"close_error", "close_end", "close_call"}
                 THEN "none" ELSE closer
  /\ UNCHANGED <<ending, native, bufferVars, closed, stop, queue, producer, threadVars,
                 historyVars>>

\* CancelledError is thrown where the consumer awaits and leaves __anext__ or
\* aclose; the consumer may come back
Cancelled ==
  /\ consumer \in Awaiting /\ cancelReq
  /\ cancelReq' = FALSE
  /\ consumer' = "idle"
  /\ UNCHANGED <<ending, native, bufferVars, closed, stop, queue, producer, threadVars,
                 closer, historyVars>>

-----------------------------------------------------------------------------
(* The consumer's caller and other tasks.                                  *)

Cancel ==
  /\ consumer \in Awaiting /\ ~cancelReq /\ cancels < MaxCancels
  /\ cancelReq' = TRUE
  /\ cancels' = cancels + 1
  /\ UNCHANGED <<ending, native, consumer, bufferVars, closed, stop, queue, producer,
                 threadVars, closer, delivered, report, userClosed>>

CallClose ==
  /\ consumer = "idle"
  /\ consumer' = "close_call"
  /\ userClosed' = TRUE
  /\ StartClose
  /\ UNCHANGED <<ending, native, cancelReq, bufferVars, queue, producer, threadVars,
                 delivered, report, cancels>>

CloseFromOutside ==
  /\ ConcurrentClose /\ consumer \in Awaiting /\ closer = "none"
  /\ userClosed' = TRUE
  /\ StartClose
  /\ UNCHANGED <<ending, native, consumer, cancelReq, bufferVars, queue, producer,
                 threadVars, delivered, report, cancels>>

\* __del__, once no thread holds the bridge any more
Drop ==
  /\ consumer = "idle" /\ thread.pc = "none" /\ closer \in {"none", "done"}
  /\ consumer' = "dropped"
  /\ stop' = TRUE
  /\ UNCHANGED <<ending, native, cancelReq, bufferVars, closed, queue, producer,
                 threadVars, closer, historyVars>>

-----------------------------------------------------------------------------
(* produce() in its thread.                                                *)

ThreadStep ==
  UNCHANGED <<ending, native, consumer, cancelReq, bufferVars, closed, stop, queue,
              producer, closer, historyVars>>

\* _put: nothing once stopped, else a coroutine on the loop, and wait for it
Put(msg, puts) ==
  IF stop
    THEN thread' = [thread EXCEPT !.pc = "finished"] /\ UNCHANGED putting
    ELSE thread' = Thread("put", puts, <<>>, msg) /\ putting' = TRUE

Stopped ==
  /\ thread.pc = "pull" /\ stop
  /\ thread' = [thread EXCEPT !.pc = "finished"]
  /\ UNCHANGED <<putting, pulled, empties>>
  /\ ThreadStep

\* item = next(iterator)
PullItem ==
  /\ thread.pc = "pull" /\ ~native /\ ~stop
  /\ pulled < Items /\ Len(thread.batch) < BatchSize
  /\ pulled' = pulled + 1
  /\ thread' = [thread EXCEPT !.batch = Append(@, pulled + 1)]
  /\ UNCHANGED <<putting, empties>>
  /\ ThreadStep

\* mutant: the last, partial batch is not put
PullEndLosesBatch ==
  /\ thread.pc = "pull" /\ ~native /\ ~stop
  /\ pulled = Items /\ Len(thread.batch) < BatchSize
  /\ Put(Final(<<>>), thread.puts)
  /\ UNCHANGED <<pulled, empties>>
  /\ ThreadStep

\* StopIteration or an exception: what the batch has goes with it
PullEnd ==
  /\ thread.pc = "pull" /\ ~native /\ ~stop
  /\ pulled = Items /\ Len(thread.batch) < BatchSize
  /\ Put(Final(thread.batch), thread.puts)
  /\ UNCHANGED <<pulled, empties>>
  /\ ThreadStep

PutBatch ==
  /\ thread.pc = "pull" /\ ~native /\ Len(thread.batch) = BatchSize
  /\ Put(Batch(thread.batch), thread.puts)
  /\ UNCHANGED <<pulled, empties>>
  /\ ThreadStep

\* from_batches: the native iterator returns batches of any size; an empty one
\* counts for the window and is not put
PullNative ==
  /\ thread.pc = "pull" /\ native /\ ~stop
  /\ \/ /\ pulled = Items
        /\ Put(Final(<<>>), thread.puts)
        /\ UNCHANGED <<pulled, empties>>
     \/ \E k \in 1..BatchSize :
          /\ pulled + k <= Items
          /\ pulled' = pulled + k
          /\ Put(Batch([i \in 1..k |-> pulled + i]), thread.puts)
          /\ UNCHANGED empties
     \/ /\ pulled < Items /\ empties < MaxEmpty
        /\ empties' = empties + 1
        /\ IF thread.puts + 1 = WindowBatches
             THEN Put(WindowDone, thread.puts)
             ELSE thread' = [thread EXCEPT !.puts = @ + 1] /\ UNCHANGED putting
        /\ UNCHANGED pulled
  /\ ThreadStep

\* future.result() returns: on to the next batch, or to the end of the window
PutReturns ==
  LET m == thread.msg IN
  /\ thread.pc = "put" /\ ~putting
  /\ IF m.window \/ m.error \/ m.done
       THEN thread' = [thread EXCEPT !.pc = "finished"] /\ UNCHANGED putting
       ELSE IF thread.puts + 1 = WindowBatches
              THEN Put(WindowDone, thread.puts + 1)
              ELSE /\ thread' = Thread("pull", thread.puts + 1, <<>>, m)
                   /\ UNCHANGED putting
  /\ UNCHANGED <<pulled, empties>>
  /\ ThreadStep

\* a poll of 0.05 s finds the bridge stopped: the coroutine is cancelled
PutGivesUp ==
  /\ thread.pc = "put" /\ putting /\ stop
  /\ putting' = FALSE
  /\ thread' = [thread EXCEPT !.pc = "finished"]
  /\ UNCHANGED <<pulled, empties>>
  /\ ThreadStep

ProducerThread ==
  Stopped \/ PullItem \/ PullEnd \/ PutBatch \/ PullNative \/ PutReturns \/ PutGivesUp

-----------------------------------------------------------------------------
(* Other tasks of the event loop.                                          *)

\* queue.put of the coroutine goes through when there is room
PutThrough ==
  /\ putting /\ Len(queue) < MaxSize
  /\ queue' = Append(queue, thread.msg)
  /\ putting' = FALSE
  /\ UNCHANGED <<ending, native, consumer, cancelReq, bufferVars, closed, stop, producer,
                 thread, pulled, empties, closer, historyVars>>

ProducerDone ==
  /\ producer = "running" /\ thread.pc = "finished"
  /\ producer' = "done"
  /\ thread' = NoThread
  /\ UNCHANGED <<ending, native, consumer, cancelReq, bufferVars, closed, stop, queue,
                 putting, pulled, empties, closer, historyVars>>

\* mutant: the iterator is closed without awaiting the producer
CloseWithoutProducer ==
  /\ closer = "wait"
  /\ closer' = "iterator"
  /\ UNCHANGED <<ending, native, consumer, cancelReq, bufferVars, closed, stop, queue,
                 producer, threadVars, historyVars>>

\* _close: await the producer, then close the iterator on a thread
CloseAwaitsProducer ==
  /\ closer = "wait" /\ producer # "running"
  /\ producer' = "none"
  /\ closer' = "iterator"
  /\ UNCHANGED <<ending, native, consumer, cancelReq, bufferVars, closed, stop, queue,
                 threadVars, historyVars>>

CloseIterator ==
  /\ closer = "iterator"
  /\ closer' = "finish"
  /\ UNCHANGED <<ending, native, consumer, cancelReq, bufferVars, closed, stop, queue,
                 producer, threadVars, historyVars>>

CloseFinishes ==
  /\ closer = "finish"
  /\ closer' = "done"
  /\ current' = <<>> /\ pendingError' = FALSE /\ doneAfter' = TRUE
  /\ queue' = <<>>
  /\ UNCHANGED <<ending, native, consumer, cancelReq, closed, stop, producer, threadVars,
                 historyVars>>

Loop == PutThrough \/ ProducerDone \/ CloseAwaitsProducer \/ CloseIterator \/ CloseFinishes

Awaited == Deliver \/ FinishBatch \/ AwaitQueue \/ Get \/ Settle \/ Closed \/ Cancelled

Next ==
  \/ Awaited \/ ProducerThread \/ Loop
  \/ CallNext \/ Cancel \/ CallClose \/ CloseFromOutside \/ Drop

Spec == Init /\ [][Next]_vars

\* The event loop and the producer's thread run; the consumer may stop asking.
FairSpec ==
  /\ Spec
  /\ WF_vars(Awaited) /\ WF_vars(ProducerThread)
  /\ WF_vars(PutThrough) /\ WF_vars(ProducerDone)
  /\ WF_vars(CloseAwaitsProducer \/ CloseIterator \/ CloseFinishes)

\* Moreover a consumer that has not seen the end asks again.
PatientSpec == FairSpec /\ WF_vars(CallNext)

-----------------------------------------------------------------------------
(* Properties.                                                             *)

\* The items reach the caller in order, once and without a gap; the producer runs
\* ahead of it by one window at most, so memory is bounded by the window and not by
\* the document.
InOrder ==
  /\ \A i \in 1..Len(delivered) : delivered[i] = i
  /\ pulled - Len(delivered) <= WindowBatches * BatchSize

\* The iterator is never closed while the producer thread may be inside it.
IteratorExclusive ==
  closer \in {"iterator", "finish", "done"} => thread.pc \notin {"pull", "put"}

\* Without a cancellation or a close from outside, the end is reported only when
\* every item was delivered, and then as the iterator ended.
ReportIsHonest ==
  cancels = 0 /\ ~userClosed /\ report # "none" =>
    report = ending /\ Len(delivered) = Items

\* A producer thread never stays blocked, even if the consumer stops asking.
ProducerNeverStuck == thread.pc = "put" ~> thread.pc # "put"

\* aclose returns, or is cancelled, whenever and by whomever it is called.
CloseCompletes == closer # "none" ~> closer = "done"

\* Unless it is closed, the iteration can be resumed after any cancellation: a
\* consumer that keeps asking receives everything and learns how it ended.
Resumable == <>(userClosed \/ consumer = "dropped" \/ report # "none")

\* A cancellation does not turn an error of the iterator into a normal end.
ErrorSurvivesCancel == report = "end" => userClosed \/ ending = "end"
=============================================================================
