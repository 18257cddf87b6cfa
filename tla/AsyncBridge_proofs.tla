------------------------- MODULE AsyncBridge_proofs -------------------------
(***************************************************************************)
(* Proofs about AsyncBridge, for any number of items, any size of queue    *)
(* and batch, any number of cancellations and either kind of iterator.     *)
(*                                                                         *)
(* Inv is the inductive invariant.  Control relates the task, the thread,  *)
(* the coroutine and the close task.  Linked is the core: what was         *)
(* delivered, the current batch, the queued messages and what the thread   *)
(* holds are one gapless run of items up to the last one pulled.  Window   *)
(* counts how far that run may reach, and Honest ties the ends of the      *)
(* iterator to the ends that the consumer is told of.                      *)
(***************************************************************************)
EXTENDS AsyncBridge, SequenceTheorems, TLAPS

Messages == [items : Seq(Nat), error : BOOLEAN, done : BOOLEAN, window : BOOLEAN]
Threads == [pc : {"none", "pull", "put", "finished"}, puts : Nat, batch : Seq(Nat), msg : Messages]

TypeOK ==
  /\ ending \in {"end", "error"} /\ native \in BOOLEAN
  /\ consumer \in {"idle", "loop", "dropped"} \cup Awaiting /\ cancelReq \in BOOLEAN
  /\ current \in Seq(Nat) /\ pendingError \in BOOLEAN /\ doneAfter \in BOOLEAN
  /\ closed \in BOOLEAN /\ stop \in BOOLEAN
  /\ queue \in Seq(Messages)
  /\ producer \in {"none", "running", "done"}
  /\ thread \in Threads
  /\ putting \in BOOLEAN
  /\ closer \in {"none", "wait", "iterator", "finish", "done"}
  /\ pulled \in Nat /\ empties \in Nat
  /\ delivered \in Seq(Nat) /\ report \in {"none", "end", "error"}
  /\ userClosed \in BOOLEAN /\ cancels \in Nat

Control ==
  /\ producer # "running" <=> thread.pc = "none"
  /\ putting => thread.pc = "put"
  /\ closer = "none" <=> ~closed
  /\ closed => stop
  /\ closer \in {"iterator", "finish", "done"} => producer # "running"
  /\ consumer \in {"get", "settle"} => current = <<>>

\* s holds the items that follow the n-th
Run(s, n) == \A i \in 1..Len(s) : s[i] = n + i

\* what a message may say, if n items come before its end
Ends(m, n) ==
  /\ m.window => m.items = <<>>
  /\ m.items = <<>> => m.window \/ m.error \/ m.done
  /\ m.error => ending = "error" /\ n = Items
  /\ m.done => ending = "end" /\ n = Items

\* off[k] items come before the k-th message
Chain(off) ==
  /\ off[1] = Len(delivered) + Len(current)
  /\ \A k \in 1..Len(queue) :
       /\ off[k + 1] = off[k] + Len(queue[k].items)
       /\ Run(queue[k].items, off[k])
       /\ Ends(queue[k], off[k + 1])

\* the thread, with n items before what it holds
Rear(n) ==
  /\ n <= pulled
  /\ putting =>
       /\ Run(thread.msg.items, n) /\ n + Len(thread.msg.items) = pulled
       /\ Ends(thread.msg, pulled)
  /\ thread.pc = "put" /\ ~putting => n = pulled
  /\ thread.pc = "pull" => Run(thread.batch, n) /\ n + Len(thread.batch) = pulled
  /\ thread.pc \in {"none", "finished"} /\ ~stop => n = pulled

Offsets == [1..Len(queue) + 1 -> 0..pulled]

Linked ==
  /\ Run(delivered, 0) /\ Run(current, Len(delivered))
  /\ \E off \in Offsets : Chain(off) /\ Rear(off[Len(queue) + 1])

\* items of p batches
Reach(p) == p * BatchSize

Window ==
  /\ pulled <= Items
  /\ pulled <= Len(delivered) + Reach(WindowBatches)
  /\ thread.pc = "pull" =>
       /\ thread.puts < WindowBatches /\ Len(thread.batch) <= BatchSize
       /\ native => thread.batch = <<>>
       /\ pulled <= Len(delivered) + Reach(thread.puts) + Len(thread.batch)
  /\ thread.pc = "put" /\ ~thread.msg.window /\ ~thread.msg.error /\ ~thread.msg.done =>
       /\ thread.puts < WindowBatches
       /\ pulled <= Len(delivered) + Reach(thread.puts) + BatchSize

Undisturbed == cancels = 0 /\ ~userClosed

Honest ==
  /\ cancelReq => cancels > 0
  /\ consumer = "close_call" => userClosed
  /\ Undisturbed =>
       /\ closed => consumer \notin {"loop", "get", "settle"}
       /\ closed /\ consumer = "idle" => report # "none"
       /\ pendingError => ending = "error" /\ Len(delivered) + Len(current) = Items
       /\ doneAfter /\ closer # "done" => ending = "end" /\ Len(delivered) + Len(current) = Items
       /\ consumer = "close_error" => ending = "error" /\ Len(delivered) = Items
       /\ consumer = "close_end" => ending = "end" /\ Len(delivered) = Items
       /\ report # "none" => report = ending /\ Len(delivered) = Items
       /\ consumer \in {"loop", "get", "settle", "close_error", "close_end"} => report = "none"

Inv == TypeOK /\ Control /\ Linked /\ Window /\ Honest

-----------------------------------------------------------------------------
(* Facts about batches, messages and the numbers of a window.              *)

LEMMA WindowBatchesPositive == WindowBatches \in Nat /\ WindowBatches >= 1
  BY SizesAssumption DEF WindowBatches

LEMMA ProductMonotonic ==
  ASSUME NEW a \in Nat, NEW b \in Nat, NEW c \in Nat, a <= b
  PROVE  a * c <= b * c
<1>1. PICK d \in Nat : b = a + d
  <2>1. b - a \in Nat /\ b = a + (b - a)
    OBVIOUS
  <2> QED
    BY <2>1
<1>2. b * c = a * c + d * c
  BY <1>1
<1>3. d * c \in Nat /\ a * c \in Nat
  OBVIOUS
<1> QED
  BY <1>2, <1>3

\* One more batch still fits a window that is not full.
LEMMA OneMoreBatch ==
  ASSUME NEW p \in Nat, p < WindowBatches
  PROVE  /\ Reach(p) \in Nat
         /\ Reach(p + 1) = Reach(p) + BatchSize
         /\ Reach(p) + BatchSize <= Reach(WindowBatches)
<1>1. (p + 1) * BatchSize = p * BatchSize + BatchSize /\ p * BatchSize \in Nat
  BY SizesAssumption
<1>2. (p + 1) * BatchSize <= WindowBatches * BatchSize
  BY ProductMonotonic, WindowBatchesPositive, SizesAssumption
<1> QED
  BY <1>1, <1>2 DEF Reach

LEMMA ReachType == Reach(WindowBatches) \in Nat
  BY WindowBatchesPositive, SizesAssumption DEF Reach

LEMMA MessagesAre ==
  ASSUME TypeOK, NEW items \in Seq(Nat)
  PROVE  /\ Final(items) \in Messages /\ Batch(items) \in Messages /\ WindowDone \in Messages
         /\ Final(items) = [items |-> items, error |-> (ending = "error"), done |-> (ending = "end"), window |-> FALSE]
         /\ Batch(items) = [items |-> items, error |-> FALSE, done |-> FALSE, window |-> FALSE]
         /\ WindowDone = [items |-> <<>>, error |-> FALSE, done |-> FALSE, window |-> TRUE]
  BY DEF TypeOK, Messages, Final, Batch, WindowDone, Message

LEMMA FinalEnds ==
  ASSUME TypeOK, NEW items \in Seq(Nat)
  PROVE  /\ Final(items) \in Messages /\ Final(items).items = items
         /\ Final(items).error \/ Final(items).done
         /\ Ends(Final(items), Items)
<1>1. Final(items) = [items |-> items, error |-> (ending = "error"), done |-> (ending = "end"), window |-> FALSE]
  BY MessagesAre
<1>2. Final(items).items = items /\ ~Final(items).window
  BY <1>1
<1>3. Final(items).error = (ending = "error") /\ Final(items).done = (ending = "end")
  BY <1>1
<1>4. ending = "end" \/ ending = "error"
  BY DEF TypeOK
<1>5. Ends(Final(items), Items)
  BY <1>2, <1>3, <1>4 DEF Ends
<1> QED
  BY <1>2, <1>3, <1>4, <1>5, MessagesAre

LEMMA BatchEnds ==
  ASSUME TypeOK, NEW items \in Seq(Nat), items # <<>>, NEW n
  PROVE  /\ Batch(items) \in Messages /\ Batch(items).items = items
         /\ Ends(Batch(items), n)
<1>1. Batch(items) = [items |-> items, error |-> FALSE, done |-> FALSE, window |-> FALSE]
  BY MessagesAre
<1>2. Batch(items).items = items /\ ~Batch(items).window /\ ~Batch(items).error /\ ~Batch(items).done
  BY <1>1
<1> QED
  BY <1>2, MessagesAre DEF Ends

LEMMA WindowEnds ==
  ASSUME TypeOK, NEW n
  PROVE  /\ WindowDone \in Messages /\ WindowDone.items = <<>> /\ WindowDone.window
         /\ Ends(WindowDone, n)
<1>1. WindowDone = [items |-> <<>>, error |-> FALSE, done |-> FALSE, window |-> TRUE]
  BY DEF WindowDone, Message
<1>2. WindowDone.items = <<>> /\ WindowDone.window /\ ~WindowDone.error /\ ~WindowDone.done
  BY <1>1
<1> QED
  BY <1>1, <1>2 DEF Ends, Messages

\* One item more at the end of a run, one less at its front.
LEMMA RunAppend ==
  ASSUME NEW s \in Seq(Nat), NEW n \in Nat, Run(s, n)
  PROVE  /\ Append(s, n + Len(s) + 1) \in Seq(Nat)
         /\ Len(Append(s, n + Len(s) + 1)) = Len(s) + 1
         /\ Run(Append(s, n + Len(s) + 1), n)
  BY DEF Run

LEMMA RunTail ==
  ASSUME NEW s \in Seq(Nat), NEW n \in Nat, s # <<>>, Run(s, n)
  PROVE  /\ Head(s) = n + 1
         /\ Tail(s) \in Seq(Nat) /\ Len(Tail(s)) = Len(s) - 1
         /\ Run(Tail(s), n + 1)
  BY DEF Run

LEMMA RunEmpty == \A n : Run(<<>>, n)
  BY DEF Run

-----------------------------------------------------------------------------
(* Type correctness.                                                       *)

LEMMA TypeInit == Init => TypeOK
<1> SUFFICES ASSUME Init PROVE TypeOK
  OBVIOUS
<1>1. NoThread \in Threads
  BY DEF Threads, NoThread, Thread, WindowDone, Message, Messages
<1>2. current \in Seq(Nat) /\ queue \in Seq(Messages) /\ delivered \in Seq(Nat)
  BY DEF Init
<1>3. thread \in Threads
  BY <1>1 DEF Init
<1> QED
  BY <1>2, <1>3 DEF Init, TypeOK

LEMMA ThreadIs ==
  ASSUME TypeOK
  PROVE  /\ thread.puts \in Nat /\ thread.puts + 1 \in Nat /\ thread.batch \in Seq(Nat) /\ thread.msg \in Messages
         /\ <<>> \in Seq(Nat)
         /\ [thread EXCEPT !.pc = "finished"] \in Threads
         /\ \A p \in Nat : [thread EXCEPT !.puts = p] \in Threads
         /\ \A b \in Seq(Nat) : [thread EXCEPT !.batch = b] \in Threads
<1>1. thread \in Threads
  BY DEF TypeOK
<1>2. thread.puts \in Nat /\ thread.puts + 1 \in Nat /\ thread.batch \in Seq(Nat) /\ thread.msg \in Messages
  BY <1>1 DEF Threads
<1>3. <<>> \in Seq(Nat)
  OBVIOUS
<1>4. [thread EXCEPT !.pc = "finished"] \in Threads
  BY <1>1 DEF Threads
<1>5. ASSUME NEW p \in Nat PROVE [thread EXCEPT !.puts = p] \in Threads
  BY <1>1 DEF Threads
<1>6. ASSUME NEW b \in Seq(Nat) PROVE [thread EXCEPT !.batch = b] \in Threads
  BY <1>1 DEF Threads
<1> QED
  BY <1>2, <1>3, <1>4, <1>5, <1>6

LEMMA ThreadsAre ==
  ASSUME NEW p \in Nat, NEW m \in Messages
  PROVE  Thread("pull", p, <<>>, m) \in Threads /\ Thread("put", p, <<>>, m) \in Threads
  BY DEF Threads, Thread

\* A put leaves the thread with a message, or finished.
LEMMA PutType ==
  ASSUME TypeOK, NEW msg \in Messages, NEW puts \in Nat, Put(msg, puts)
  PROVE  /\ thread' \in Threads
         /\ putting' \in BOOLEAN
  BY ThreadIs, ThreadsAre DEF TypeOK, Put

LEMMA ThreadType == TypeOK /\ ProducerThread => TypeOK'
<1> SUFFICES ASSUME TypeOK, ProducerThread PROVE TypeOK'
  OBVIOUS
<1>1. ThreadStep
  BY DEF ProducerThread, Stopped, PullItem, PullEnd, PutBatch, PullNative, PutReturns, PutGivesUp
<1>2. /\ thread' \in Threads
      /\ putting' \in BOOLEAN /\ pulled' \in Nat /\ empties' \in Nat
  <2> DEFINE Typed == /\ thread' \in Threads
                      /\ putting' \in BOOLEAN /\ pulled' \in Nat /\ empties' \in Nat
  <2> SUFFICES Typed
    OBVIOUS
  <2>0. thread \in Threads /\ putting \in BOOLEAN /\ pulled \in Nat /\ empties \in Nat
    BY DEF TypeOK
  <2>1. CASE Stopped \/ PutGivesUp
    BY <2>0, <2>1, ThreadIs DEF Stopped, PutGivesUp
  <2>2. CASE PullItem
    <3> DEFINE b == Append(thread.batch, pulled + 1)
    <3>1. b \in Seq(Nat)
      BY <2>0, ThreadIs
    <3>2. [thread EXCEPT !.batch = b] \in Threads
      <4> HIDE DEF b
      <4> QED
        BY <3>1, ThreadIs
    <3> QED
      BY <2>0, <2>2, <3>2 DEF PullItem
  <2>3. CASE PullEnd
    BY <2>0, <2>3, ThreadIs, MessagesAre, PutType DEF PullEnd
  <2>4. CASE PutBatch
    BY <2>0, <2>4, ThreadIs, MessagesAre, PutType DEF PutBatch
  <2>5. CASE PullNative
    <3>1. CASE Put(Final(<<>>), thread.puts) /\ UNCHANGED <<pulled, empties>>
      BY <2>0, <3>1, ThreadIs, MessagesAre, PutType
    <3>2. CASE \E k \in 1..BatchSize : /\ pulled' = pulled + k /\ UNCHANGED empties
                                       /\ Put(Batch([i \in 1..k |-> pulled + i]), thread.puts)
      <4>1. PICK k \in 1..BatchSize : /\ pulled' = pulled + k /\ UNCHANGED empties
                                     /\ Put(Batch([i \in 1..k |-> pulled + i]), thread.puts)
        BY <3>2
      <4>2. [i \in 1..k |-> pulled + i] \in Seq(Nat) /\ pulled + k \in Nat
        BY <2>0, SizesAssumption
      <4> QED
        BY <2>0, <4>1, <4>2, ThreadIs, MessagesAre, PutType
    <3>3. CASE /\ empties' = empties + 1 /\ UNCHANGED pulled
               /\ IF thread.puts + 1 = WindowBatches
                    THEN Put(WindowDone, thread.puts)
                    ELSE thread' = [thread EXCEPT !.puts = @ + 1] /\ UNCHANGED putting
      <4>1. CASE Put(WindowDone, thread.puts)
        BY <2>0, <3>3, <4>1, ThreadIs, MessagesAre, PutType
      <4>2. CASE thread' = [thread EXCEPT !.puts = @ + 1] /\ UNCHANGED putting
        BY <2>0, <3>3, <4>2, ThreadIs
      <4> QED
        BY <3>3, <4>1, <4>2
    <3> QED
      BY <2>5, <3>1, <3>2, <3>3 DEF PullNative
  <2>6. CASE PutReturns
    <3>1. CASE thread' = [thread EXCEPT !.pc = "finished"] /\ UNCHANGED putting
      BY <2>0, <2>6, <3>1, ThreadIs DEF PutReturns
    <3>2. CASE Put(WindowDone, thread.puts + 1)
      BY <2>0, <2>6, <3>2, ThreadIs, MessagesAre, PutType DEF PutReturns
    <3>3. CASE thread' = Thread("pull", thread.puts + 1, <<>>, thread.msg) /\ UNCHANGED putting
      BY <2>0, <2>6, <3>3, ThreadIs, ThreadsAre DEF PutReturns
    <3> QED
      BY <2>6, <3>1, <3>2, <3>3 DEF PutReturns
  <2> QED
    BY <2>1, <2>2, <2>3, <2>4, <2>5, <2>6 DEF ProducerThread
<1> QED
  BY <1>1, <1>2 DEF ThreadStep, TypeOK, bufferVars, historyVars

LEMMA QueueHead ==
  ASSUME TypeOK, queue # <<>>
  PROVE  /\ Head(queue) \in Messages /\ Tail(queue) \in Seq(Messages)
         /\ Head(queue).items \in Seq(Nat)
         /\ Head(queue).error \in BOOLEAN /\ Head(queue).done \in BOOLEAN /\ Head(queue).window \in BOOLEAN
<1>1. Head(queue) \in Messages /\ Tail(queue) \in Seq(Messages)
  BY DEF TypeOK
<1> QED
  BY <1>1 DEF Messages

LEMMA StartCloseType ==
  ASSUME TypeOK, StartClose
  PROVE  /\ closed' \in BOOLEAN /\ stop' \in BOOLEAN
         /\ closer' \in {"none", "wait", "iterator", "finish", "done"}
  BY DEF TypeOK, StartClose

LEMMA TypeStep == TypeOK /\ [Next]_vars => TypeOK'
<1> SUFFICES ASSUME TypeOK, [Next]_vars PROVE TypeOK'
  OBVIOUS
<1>1. CASE ProducerThread
  BY <1>1, ThreadType
<1>2. CASE CallNext
  BY <1>2 DEF TypeOK, CallNext, bufferVars, threadVars
<1>3. CASE Deliver
  <2>1. Head(current) \in Nat /\ Tail(current) \in Seq(Nat) /\ Append(delivered, Head(current)) \in Seq(Nat)
    BY <1>3 DEF TypeOK, Deliver
  <2> QED
    BY <1>3, <2>1 DEF TypeOK, Deliver, threadVars
<1>4. CASE FinishBatch
  BY <1>4, StartCloseType DEF TypeOK, FinishBatch, Awaiting, threadVars, historyVars
<1>5. CASE AwaitQueue
  <2>1. Thread("pull", 0, <<>>, WindowDone) \in Threads
    BY MessagesAre, ThreadIs, ThreadsAre
  <2>2. EnsurePrefetch
    BY <1>5 DEF AwaitQueue
  <2>3. producer' \in {"none", "running", "done"} /\ thread' \in Threads
    BY <2>1, <2>2 DEF TypeOK, EnsurePrefetch
  <2> QED
    BY <1>5, <2>3 DEF TypeOK, AwaitQueue, Awaiting, bufferVars, historyVars
<1>6. CASE Get
  <2>1. /\ queue' \in Seq(Messages) /\ current' \in Seq(Nat)
        /\ pendingError' \in BOOLEAN /\ doneAfter' \in BOOLEAN
        /\ consumer' \in {"idle", "loop", "dropped"} \cup Awaiting
        /\ closed' \in BOOLEAN /\ stop' \in BOOLEAN
        /\ closer' \in {"none", "wait", "iterator", "finish", "done"}
    <3>1. queue' = Tail(queue) /\ queue # <<>>
      BY <1>6 DEF Get
    <3> HIDE DEF TypeOK
    <3>2. CASE Head(queue).window
      BY <1>6, <3>1, <3>2, QueueHead DEF Get, Awaiting, bufferVars, TypeOK
    <3>3. CASE ~Head(queue).window /\ Head(queue).items # <<>>
      BY <1>6, <3>1, <3>3, QueueHead DEF Get, TypeOK
    <3>4. CASE ~Head(queue).window /\ Head(queue).items = <<>>
      BY <1>6, <3>1, <3>4, QueueHead, StartCloseType DEF Get, Awaiting, bufferVars, TypeOK
    <3> QED
      BY <3>2, <3>3, <3>4
  <2>2. UNCHANGED <<ending, native, cancelReq, producer, threadVars, historyVars>>
    BY <1>6 DEF Get
  <2> QED
    BY <2>1, <2>2 DEF TypeOK, threadVars, historyVars
<1>7. CASE Settle \/ Closed \/ Cancelled
  <2>1. CASE Settle
    BY <2>1 DEF TypeOK, Settle, bufferVars, threadVars, historyVars
  <2>3. CASE Cancelled
    <3>1. /\ cancelReq' \in BOOLEAN /\ consumer' = "idle"
          /\ UNCHANGED <<ending, native, bufferVars, closed, stop, queue, producer, threadVars, closer, historyVars>>
      BY <2>3 DEF Cancelled
    <3> QED
      BY <3>1 DEF TypeOK, bufferVars, threadVars, historyVars
  <2>2. CASE Closed
    <3>1. report' \in {"none", "end", "error"}
      BY <2>2 DEF Closed, TypeOK
    <3> QED
      BY <2>2, <3>1 DEF TypeOK, Closed, bufferVars, threadVars
  <2> QED
    BY <1>7, <2>1, <2>2, <2>3
<1>8. CASE PutThrough
  <2>1. Append(queue, thread.msg) \in Seq(Messages)
    BY ThreadIs DEF TypeOK
  <2>2. /\ queue' \in Seq(Messages) /\ putting' \in BOOLEAN
        /\ UNCHANGED <<ending, native, consumer, cancelReq, bufferVars, closed, stop, producer,
                       thread, pulled, empties, closer, historyVars>>
    BY <1>8, <2>1 DEF PutThrough
  <2> QED
    BY <2>2 DEF TypeOK, bufferVars, historyVars
<1>9. CASE ProducerDone
  <2>1. NoThread \in Threads
    BY MessagesAre, ThreadIs DEF NoThread, Thread, Threads
  <2> QED
    BY <1>9, <2>1 DEF TypeOK, ProducerDone, bufferVars, historyVars
<1>10. CASE CloseAwaitsProducer \/ CloseIterator
  BY <1>10 DEF TypeOK, CloseAwaitsProducer, CloseIterator, bufferVars, threadVars, historyVars
<1>11. CASE CloseFinishes
  <2>0. <<>> \in Seq(Nat) /\ <<>> \in Seq(Messages)
    OBVIOUS
  <2>1. /\ current' \in Seq(Nat) /\ queue' \in Seq(Messages)
        /\ pendingError' \in BOOLEAN /\ doneAfter' \in BOOLEAN
        /\ closer' \in {"none", "wait", "iterator", "finish", "done"}
        /\ UNCHANGED <<ending, native, consumer, cancelReq, closed, stop, producer, threadVars, historyVars>>
    BY <1>11, <2>0 DEF CloseFinishes
  <2> QED
    BY <2>1 DEF TypeOK, threadVars, historyVars
<1>12. CASE Cancel
  BY <1>12 DEF TypeOK, Cancel, bufferVars, threadVars
<1>13. CASE CallClose
  BY <1>13, StartCloseType DEF TypeOK, CallClose, Awaiting, bufferVars, threadVars
<1>14. CASE CloseFromOutside
  BY <1>14, StartCloseType DEF TypeOK, CloseFromOutside, bufferVars, threadVars
<1>15. CASE Drop
  BY <1>15 DEF TypeOK, Drop, bufferVars, threadVars, historyVars
<1>16. CASE UNCHANGED vars
  BY <1>16 DEF TypeOK, vars, bufferVars, threadVars, historyVars
<1> QED
  BY <1>1, <1>2, <1>3, <1>4, <1>5, <1>6, <1>7, <1>8, <1>9, <1>10, <1>11, <1>12, <1>13, <1>14, <1>15, <1>16
     DEF Next, Awaited, Loop

-----------------------------------------------------------------------------
(* The task, the thread, the coroutine and the close task.                 *)

\* A put, while no coroutine is putting, leaves the thread with it or finished.
LEMMA PutMoves ==
  ASSUME TypeOK, ~putting, NEW msg \in Messages, NEW puts \in Nat, Put(msg, puts)
  PROVE  \/ /\ stop /\ thread' = [thread EXCEPT !.pc = "finished"] /\ thread'.pc = "finished"
            /\ thread'.msg = thread.msg /\ ~putting'
         \/ /\ ~stop /\ thread'.pc = "put" /\ thread'.puts = puts
            /\ thread'.msg = msg /\ putting'
<1>1. thread \in Threads
  BY DEF TypeOK
<1>2. CASE stop
  <2>1. thread' = [thread EXCEPT !.pc = "finished"] /\ ~putting'
    BY <1>2 DEF Put
  <2>2. thread'.pc = "finished" /\ thread'.msg = thread.msg
    BY <1>1, <2>1 DEF Threads
  <2> QED
    BY <1>2, <2>1, <2>2
<1>3. CASE ~stop
  BY <1>3 DEF Put, Thread
<1> QED
  BY <1>2, <1>3

\* What a step of the thread does to the thread and its coroutine.
LEMMA ThreadMoves ==
  ASSUME TypeOK, Control, ProducerThread
  PROVE  /\ thread.pc \in {"pull", "put"} /\ thread'.pc \in {"pull", "put", "finished"}
         /\ putting' => thread'.pc = "put"
         /\ ThreadStep
<1> DEFINE Moves == /\ thread.pc \in {"pull", "put"} /\ thread'.pc \in {"pull", "put", "finished"}
                    /\ putting' => thread'.pc = "put"
<1>0. ThreadStep
  BY DEF ProducerThread, Stopped, PullItem, PullEnd, PutBatch, PullNative, PutReturns, PutGivesUp
<1> SUFFICES Moves
  BY <1>0
<1>1. thread \in Threads /\ (putting => thread.pc = "put")
  BY DEF TypeOK, Control
<1>3. CASE Stopped
  <2>1. thread' = [thread EXCEPT !.pc = "finished"] /\ putting' = putting /\ thread.pc = "pull"
    BY <1>3 DEF Stopped
  <2>2. thread'.pc = "finished"
    BY <1>1, <2>1 DEF Threads
  <2> QED
    BY <1>1, <2>1, <2>2
<1>4. CASE PullItem
  <2>1. thread' = [thread EXCEPT !.batch = Append(@, pulled + 1)] /\ putting' = putting /\ thread.pc = "pull"
    BY <1>4 DEF PullItem
  <2>2. thread'.pc = "pull"
    BY <1>1, <2>1 DEF Threads
  <2> QED
    BY <1>1, <2>1, <2>2
<1>5. CASE PullEnd
  <2>1. Put(Final(thread.batch), thread.puts) /\ thread.pc = "pull" /\ ~putting
    BY <1>1, <1>5 DEF PullEnd
  <2> QED
    BY <2>1, PutMoves, ThreadIs, MessagesAre
<1>6. CASE PutBatch
  <2>1. Put(Batch(thread.batch), thread.puts) /\ thread.pc = "pull" /\ ~putting
    BY <1>1, <1>6 DEF PutBatch
  <2> QED
    BY <2>1, PutMoves, ThreadIs, MessagesAre
<1>7. CASE PullNative
  <2>0. thread.pc = "pull" /\ ~putting
    BY <1>1, <1>7 DEF PullNative
  <2>1. CASE thread' = [thread EXCEPT !.puts = @ + 1] /\ UNCHANGED putting
    <3>1. thread'.pc = "pull"
      BY <1>1, <2>0, <2>1 DEF Threads
    <3> QED
      BY <2>0, <2>1, <3>1
  <2>2. CASE Put(Final(<<>>), thread.puts)
    BY <2>0, <2>2, PutMoves, ThreadIs, MessagesAre
  <2>3. CASE Put(WindowDone, thread.puts)
    BY <2>0, <2>3, PutMoves, ThreadIs, MessagesAre
  <2>4. CASE \E k \in 1..BatchSize : Put(Batch([i \in 1..k |-> pulled + i]), thread.puts)
    <3>1. PICK k \in 1..BatchSize : Put(Batch([i \in 1..k |-> pulled + i]), thread.puts)
      BY <2>4
    <3>2. [i \in 1..k |-> pulled + i] \in Seq(Nat)
      BY SizesAssumption DEF TypeOK
    <3>3. Batch([i \in 1..k |-> pulled + i]) \in Messages
      BY <3>2, MessagesAre
    <3> QED
      BY <2>0, <3>1, <3>3, PutMoves, ThreadIs
  <2> QED
    BY <1>7, <2>1, <2>2, <2>3, <2>4 DEF PullNative
<1>8. CASE PutReturns
  <2>0. thread.pc = "put" /\ ~putting
    BY <1>8 DEF PutReturns
  <2>1. CASE thread' = [thread EXCEPT !.pc = "finished"] /\ UNCHANGED putting
    <3>1. thread'.pc = "finished"
      BY <1>1, <2>1 DEF Threads
    <3> QED
      BY <2>0, <2>1, <3>1
  <2>2. CASE Put(WindowDone, thread.puts + 1)
    BY <2>0, <2>2, PutMoves, ThreadIs, MessagesAre
  <2>3. CASE thread' = Thread("pull", thread.puts + 1, <<>>, thread.msg) /\ UNCHANGED putting
    <3>1. thread'.pc = "pull"
      BY <2>3 DEF Thread
    <3> QED
      BY <2>0, <2>3, <3>1
  <2> QED
    BY <1>8, <2>1, <2>2, <2>3 DEF PutReturns
<1>9. CASE PutGivesUp
  <2>1. thread' = [thread EXCEPT !.pc = "finished"] /\ putting' = FALSE /\ thread.pc = "put"
    BY <1>9 DEF PutGivesUp
  <2>2. thread'.pc = "finished"
    BY <1>1, <2>1 DEF Threads
  <2> QED
    BY <2>1, <2>2
<1> QED
  BY <1>3, <1>4, <1>5, <1>6, <1>7, <1>8, <1>9 DEF ProducerThread

LEMMA ControlStep == TypeOK /\ Control /\ [Next]_vars => Control'
<1> SUFFICES ASSUME TypeOK, Control, [Next]_vars PROVE Control'
  OBVIOUS
<1>1. CASE ProducerThread
  BY <1>1, ThreadMoves DEF Control, TypeOK, ThreadStep, bufferVars
<1>2. CASE CallNext \/ Cancel
  BY <1>2 DEF Control, CallNext, Cancel, bufferVars, threadVars
<1>3. CASE Deliver \/ Settle \/ Closed \/ Cancelled
  BY <1>3 DEF Control, Deliver, Settle, Closed, Cancelled, bufferVars, threadVars
<1>4. CASE FinishBatch \/ CallClose \/ CloseFromOutside
  BY <1>4 DEF Control, FinishBatch, CallClose, CloseFromOutside, StartClose, bufferVars, threadVars
<1>5. CASE AwaitQueue
  BY <1>5 DEF Control, AwaitQueue, EnsurePrefetch, Thread, bufferVars
<1>6. CASE Get
  BY <1>6 DEF Control, Get, StartClose, bufferVars, threadVars
<1>7. CASE PutThrough
  BY <1>7 DEF Control, PutThrough, bufferVars
<1>8. CASE ProducerDone
  BY <1>8 DEF Control, ProducerDone, NoThread, Thread, bufferVars
<1>9. CASE CloseAwaitsProducer \/ CloseIterator \/ CloseFinishes
  BY <1>9 DEF Control, CloseAwaitsProducer, CloseIterator, CloseFinishes, bufferVars, threadVars
<1>10. CASE Drop
  BY <1>10 DEF Control, Drop, bufferVars, threadVars
<1>11. CASE UNCHANGED vars
  BY <1>11 DEF Control, vars, bufferVars, threadVars
<1> QED
  BY <1>1, <1>2, <1>3, <1>4, <1>5, <1>6, <1>7, <1>8, <1>9, <1>10, <1>11 DEF Next, Awaited, Loop

-----------------------------------------------------------------------------
(* The thread keeps the run it is the rear of, within the window.          *)

\* A put of what follows the n-th item keeps the thread the rear of the run.
LEMMA PutKeeps ==
  ASSUME TypeOK, ~putting, ThreadStep,
         NEW msg \in Messages, NEW puts \in Nat, Put(msg, puts),
         NEW n \in Nat, pulled' \in Nat, n + Len(msg.items) = pulled',
         Run(msg.items, n), Ends(msg, pulled'),
         pulled' <= Items, pulled' <= Len(delivered) + Reach(WindowBatches),
         ~msg.window /\ ~msg.error /\ ~msg.done =>
           puts < WindowBatches /\ pulled' <= Len(delivered) + Reach(puts) + BatchSize
  PROVE  Rear(n)' /\ Window'
<1>0. msg.items \in Seq(Nat) /\ Len(msg.items) \in Nat
  BY DEF Messages
<1>1. n <= pulled'
  BY <1>0
<1>2. ending' = ending /\ stop' = stop /\ delivered' = delivered /\ native' = native
  BY DEF ThreadStep, historyVars
<1>3. CASE stop /\ thread'.pc = "finished" /\ ~putting'
  <2>1. Rear(n)'
    BY <1>1, <1>2, <1>3 DEF Rear
  <2>2. Window'
    BY <1>2, <1>3 DEF Window
  <2> QED
    BY <2>1, <2>2
<1>4. CASE /\ ~stop /\ thread'.pc = "put" /\ thread'.puts = puts /\ thread'.msg = msg /\ putting'
  <2>1. Ends(thread.msg, pulled)'
    BY <1>2, <1>4 DEF Ends
  <2>2. Rear(n)'
    BY <1>1, <1>2, <1>4, <2>1 DEF Rear, Run
  <2>3. Window'
    BY <1>2, <1>4 DEF Window
  <2> QED
    BY <2>2, <2>3
<1> QED
  BY <1>3, <1>4, PutMoves

LEMMA ThreadKeeps ==
  ASSUME TypeOK, Control, Window, ProducerThread, NEW n \in Nat, Rear(n)
  PROVE  Rear(n)' /\ Window'
<1> DEFINE Kept == Rear(n)' /\ Window'
<1> SUFFICES Kept
  OBVIOUS
<1>0. ThreadStep /\ ending' = ending /\ stop' = stop /\ delivered' = delivered /\ native' = native
  BY ThreadMoves DEF ThreadStep, historyVars
<1>1. /\ thread \in Threads /\ pulled \in Nat /\ ending \in {"end", "error"} /\ delivered \in Seq(Nat)
      /\ thread.puts \in Nat /\ thread.batch \in Seq(Nat) /\ thread.msg \in Messages
      /\ <<>> \in Seq(Nat) /\ Len(<<>>) = 0
  BY ThreadIs DEF TypeOK
<1>n. /\ Len(thread.batch) \in Nat /\ Len(delivered) \in Nat /\ thread.puts \in Nat /\ pulled \in Nat
      /\ BatchSize \in Nat /\ BatchSize > 0 /\ WindowBatches \in Nat /\ WindowBatches > 0
      /\ Reach(WindowBatches) \in Nat /\ Items \in Nat
  BY <1>1, WindowBatchesPositive, ReachType, SizesAssumption
<1>2. putting => thread.pc = "put"
  BY DEF Control
<1>3. /\ pulled <= Items /\ pulled <= Len(delivered) + Reach(WindowBatches)
  BY DEF Window
<1>4. CASE Stopped
  <2>1. thread' = [thread EXCEPT !.pc = "finished"] /\ stop /\ ~putting' /\ ~putting /\ pulled' = pulled
    BY <1>2, <1>4 DEF Stopped
  <2>2. thread'.pc = "finished"
    BY <1>1, <2>1 DEF Threads
  <2>3. Rear(n)'
    BY <1>0, <2>1, <2>2 DEF Rear
  <2> QED
    BY <1>0, <1>3, <2>1, <2>2, <2>3 DEF Window
<1>5. CASE PutGivesUp
  <2>1. thread' = [thread EXCEPT !.pc = "finished"] /\ stop /\ ~putting' /\ pulled' = pulled
    BY <1>5 DEF PutGivesUp
  <2>2. thread'.pc = "finished"
    BY <1>1, <2>1 DEF Threads
  <2>3. Rear(n)'
    BY <1>0, <2>1, <2>2 DEF Rear
  <2> QED
    BY <1>0, <1>3, <2>1, <2>2, <2>3 DEF Window
<1>6. CASE thread.pc = "pull" /\ ~(Stopped \/ PutGivesUp)
  <2>1. /\ Run(thread.batch, n) /\ n + Len(thread.batch) = pulled /\ ~putting
        /\ (native => thread.batch = <<>>)
    BY <1>2, <1>6 DEF Rear, Window
  <2>n. /\ thread.puts < WindowBatches /\ Len(thread.batch) <= BatchSize
        /\ pulled <= Len(delivered) + Reach(thread.puts) + Len(thread.batch)
    BY <1>6 DEF Window
  <2>2. /\ Reach(thread.puts) \in Nat
        /\ Reach(thread.puts + 1) = Reach(thread.puts) + BatchSize
        /\ Reach(thread.puts) + BatchSize <= Reach(WindowBatches)
    BY <1>n, <2>n, OneMoreBatch
  <2>3. CASE PullItem
    <3>1. /\ thread' = [thread EXCEPT !.batch = Append(@, pulled + 1)] /\ pulled' = pulled + 1
          /\ pulled < Items /\ Len(thread.batch) < BatchSize /\ ~native /\ putting' = putting
      BY <2>3 DEF PullItem
    <3>2. /\ Append(thread.batch, pulled + 1) \in Seq(Nat)
          /\ Len(Append(thread.batch, pulled + 1)) = Len(thread.batch) + 1
          /\ Run(Append(thread.batch, pulled + 1), n)
      BY <1>1, <2>1, RunAppend
    <3> DEFINE b == Append(thread.batch, pulled + 1)
    <3>3. thread'.pc = "pull" /\ thread'.batch = b /\ thread'.puts = thread.puts
      BY <1>1, <1>6, <3>1 DEF Threads
    <3> HIDE DEF b
    <3>4. b \in Seq(Nat) /\ Len(b) = Len(thread.batch) + 1 /\ Run(b, n)
      BY <3>2 DEF b
    <3>n. pulled' = pulled + 1 /\ pulled < Items /\ Len(thread.batch) < BatchSize /\ ~putting' /\ ~native
      BY <2>1, <3>1
    <3>5. Rear(n)'
      <4>1. n <= pulled' /\ n + Len(b) = pulled'
        BY <1>n, <2>1, <3>n, <3>4
      <4>2. Run(thread.batch, n)'
        BY <3>3, <3>4 DEF Run
      <4> QED
        BY <3>n, <3>3, <4>1, <4>2 DEF Rear
    <3>6. Window'
      <4>1. pulled' <= Items
        BY <1>n, <3>n
      <4>2. pulled' <= Len(delivered) + Reach(thread.puts) + (Len(thread.batch) + 1)
        BY <1>n, <2>n, <2>2, <3>n
      <4>3. Len(thread.batch) + 1 <= BatchSize
        BY <1>n, <3>n
      <4>4. pulled' <= Len(delivered) + Reach(WindowBatches)
        BY <1>n, <2>2, <3>n, <4>2, <4>3
      <4> QED
        BY <1>0, <2>n, <3>n, <3>3, <3>4, <4>1, <4>2, <4>3, <4>4 DEF Window
    <3> QED
      BY <3>5, <3>6
  <2>4. CASE PullEnd
    <3> DEFINE msg == Final(thread.batch)
    <3>1. Put(msg, thread.puts) /\ pulled' = pulled /\ pulled = Items
      BY <2>4 DEF PullEnd
    <3>2. msg \in Messages /\ msg.items = thread.batch /\ (msg.error \/ msg.done) /\ Ends(msg, Items)
      BY <1>1, FinalEnds
    <3> HIDE DEF msg
    <3>3. Ends(msg, pulled') /\ Run(msg.items, n) /\ n + Len(msg.items) = pulled'
      BY <2>1, <3>1, <3>2
    <3> QED
      BY <1>0, <1>n, <1>3, <2>1, <3>1, <3>2, <3>3, PutKeeps
  <2>5. CASE PutBatch
    <3> DEFINE msg == Batch(thread.batch)
    <3>1. Put(msg, thread.puts) /\ Len(thread.batch) = BatchSize /\ pulled' = pulled
      BY <2>5 DEF PutBatch
    <3>2. thread.batch # <<>>
      BY <1>1, <1>n, <3>1
    <3>3. msg \in Messages /\ msg.items = thread.batch /\ Ends(msg, pulled')
      BY <1>1, <3>2, BatchEnds
    <3> HIDE DEF msg
    <3>4. Run(msg.items, n) /\ n + Len(msg.items) = pulled'
      BY <2>1, <3>1, <3>3
    <3>5. pulled' <= Len(delivered) + Reach(thread.puts) + BatchSize
      BY <2>n, <3>1
    <3> QED
      BY <1>0, <1>n, <1>3, <2>1, <2>n, <3>1, <3>3, <3>4, <3>5, PutKeeps
  <2>6. CASE PullNative
    <3>0. thread.batch = <<>> /\ pulled = n
      <4>1. thread.batch = <<>>
        BY <2>1, <2>6 DEF PullNative
      <4> QED
        BY <1>1, <2>1, <4>1
    <3>1. CASE pulled = Items /\ Put(Final(<<>>), thread.puts) /\ pulled' = pulled
      <4> DEFINE msg == Final(<<>>)
      <4>1. msg \in Messages /\ msg.items = <<>> /\ (msg.error \/ msg.done) /\ Ends(msg, Items)
        BY <1>1, FinalEnds
      <4>2. Put(msg, thread.puts)
        BY <3>1
      <4> HIDE DEF msg
      <4>3. Ends(msg, pulled') /\ Run(msg.items, n) /\ n + Len(msg.items) = pulled'
        BY <1>1, <3>0, <3>1, <4>1, RunEmpty
      <4> QED
        BY <1>0, <1>n, <1>3, <2>1, <3>1, <4>1, <4>2, <4>3, PutKeeps
    <3>2. CASE \E k \in 1..BatchSize : /\ pulled + k <= Items /\ pulled' = pulled + k
                                       /\ Put(Batch([i \in 1..k |-> pulled + i]), thread.puts)
      <4>1. PICK k \in 1..BatchSize : /\ pulled + k <= Items /\ pulled' = pulled + k
                                      /\ Put(Batch([i \in 1..k |-> pulled + i]), thread.puts)
        BY <3>2
      <4> DEFINE s == [i \in 1..k |-> pulled + i]
                 msg == Batch(s)
      <4>2. s \in Seq(Nat) /\ Len(s) = k /\ Run(s, n) /\ s # <<>>
        <5>1. k \in Nat /\ k > 0 /\ n \in Nat /\ pulled = n
          BY <1>n, <3>0, <4>1
        <5>2. s \in Seq(Nat) /\ Len(s) = k
          BY <5>1
        <5>3. \A i \in 1..k : s[i] = n + i
          BY <5>1
        <5> QED
          BY <5>1, <5>2, <5>3 DEF Run
      <4>3. Put(msg, thread.puts)
        BY <4>1
      <4> HIDE DEF s
      <4>4. msg \in Messages /\ msg.items = s /\ Ends(msg, pulled')
        BY <4>2, BatchEnds
      <4> HIDE DEF msg
      <4>5. Run(msg.items, n) /\ n + Len(msg.items) = pulled'
        BY <3>0, <4>1, <4>2, <4>4
      <4>6. /\ pulled' \in Nat /\ pulled' <= Items
            /\ pulled' <= Len(delivered) + Reach(thread.puts) + BatchSize
            /\ pulled' <= Len(delivered) + Reach(WindowBatches)
        <5>1. pulled' = pulled + k /\ k \in Nat /\ k <= BatchSize /\ pulled + k <= Items
          BY <1>n, <4>1
        <5>0. Len(thread.batch) = 0
          BY <1>1, <3>0
        <5>2. pulled <= Len(delivered) + Reach(thread.puts)
          BY <1>n, <2>n, <2>2, <5>0
        <5> QED
          BY <1>n, <2>2, <5>1, <5>2
      <4> QED
        BY <1>0, <1>n, <2>1, <2>n, <4>3, <4>4, <4>5, <4>6, PutKeeps
    <3>3. CASE /\ pulled' = pulled
               /\ IF thread.puts + 1 = WindowBatches
                    THEN Put(WindowDone, thread.puts)
                    ELSE thread' = [thread EXCEPT !.puts = @ + 1] /\ UNCHANGED putting
      <4>1. CASE thread.puts + 1 = WindowBatches
        <5> DEFINE msg == WindowDone
        <5>1. /\ msg \in Messages /\ msg.items = <<>> /\ msg.window /\ Ends(msg, pulled')
          BY WindowEnds
        <5>2. Put(msg, thread.puts)
          BY <3>3, <4>1
        <5> HIDE DEF msg
        <5>3. Run(msg.items, n) /\ n + Len(msg.items) = pulled'
          BY <1>1, <3>0, <3>3, <5>1, RunEmpty
        <5> QED
          BY <1>0, <1>n, <1>3, <2>1, <3>3, <5>1, <5>2, <5>3, PutKeeps
      <4>2. CASE thread.puts + 1 # WindowBatches
        <5>1. thread' = [thread EXCEPT !.puts = @ + 1] /\ putting' = putting
          BY <3>3, <4>2
        <5>2. thread'.pc = "pull" /\ thread'.batch = thread.batch /\ thread'.puts = thread.puts + 1
          BY <1>1, <1>6, <5>1 DEF Threads
        <5>3. Rear(n)'
          <6>1. Run(thread.batch, n)'
            BY <2>1, <5>2 DEF Run
          <6> QED
            BY <1>n, <2>1, <3>3, <5>1, <5>2, <6>1 DEF Rear
        <5>4. /\ thread.puts + 1 < WindowBatches
              /\ pulled <= Len(delivered) + Reach(thread.puts + 1) + Len(thread.batch)
          <6>1. thread.puts + 1 < WindowBatches
            BY <1>n, <2>n, <4>2
          <6>2. pulled <= Len(delivered) + (Reach(thread.puts) + BatchSize) + Len(thread.batch)
            BY <1>n, <2>n, <2>2
          <6> QED
            BY <2>2, <6>1, <6>2
        <5> QED
          BY <1>0, <1>3, <2>1, <2>n, <3>3, <5>1, <5>2, <5>3, <5>4 DEF Window
      <4> QED
        BY <4>1, <4>2
    <3> QED
      BY <2>6, <3>1, <3>2, <3>3 DEF PullNative
  <2> QED
    BY <1>6, <2>3, <2>4, <2>5, <2>6 DEF ProducerThread, PutReturns
<1>7. CASE PutReturns
  <2>1. /\ thread.pc = "put" /\ ~putting /\ pulled' = pulled /\ n = pulled
    BY <1>7 DEF PutReturns, Rear
  <2>2. CASE /\ thread.msg.window \/ thread.msg.error \/ thread.msg.done
             /\ thread' = [thread EXCEPT !.pc = "finished"] /\ UNCHANGED putting
    <3>1. thread'.pc = "finished"
      BY <1>1, <2>2 DEF Threads
    <3>2. Rear(n)'
      BY <1>0, <1>1, <2>1, <2>2, <3>1 DEF Rear
    <3> QED
      BY <1>0, <1>3, <2>1, <2>2, <3>1, <3>2 DEF Window
  <2>3. CASE Put(WindowDone, thread.puts + 1)
    <3> DEFINE msg == WindowDone
    <3>1. /\ msg \in Messages /\ msg.items = <<>> /\ msg.window /\ Ends(msg, pulled')
      BY WindowEnds
    <3>2. Put(msg, thread.puts + 1)
      BY <2>3
    <3> HIDE DEF msg
    <3>3. Run(msg.items, n) /\ n + Len(msg.items) = pulled'
      BY <1>1, <2>1, <3>1, RunEmpty
    <3>4. thread.puts + 1 \in Nat
      BY <1>n
    <3> QED
      BY <1>0, <1>n, <1>3, <2>1, <3>1, <3>2, <3>3, <3>4, PutKeeps
  <2>4. CASE /\ ~(thread.msg.window \/ thread.msg.error \/ thread.msg.done)
             /\ thread.puts + 1 # WindowBatches
             /\ thread' = Thread("pull", thread.puts + 1, <<>>, thread.msg) /\ UNCHANGED putting
    <3>1. thread'.pc = "pull" /\ thread'.batch = <<>> /\ thread'.puts = thread.puts + 1
      BY <2>4 DEF Thread
    <3>2. Rear(n)'
      <4>1. Run(thread.batch, n)' /\ n + Len(thread'.batch) = pulled'
        BY <1>1, <2>1, <3>1, RunEmpty DEF Run
      <4> QED
        BY <1>n, <2>1, <2>4, <3>1, <4>1 DEF Rear
    <3>3. thread.puts < WindowBatches /\ pulled <= Len(delivered) + Reach(thread.puts) + BatchSize
      BY <2>1, <2>4 DEF Window
    <3>4. Reach(thread.puts + 1) = Reach(thread.puts) + BatchSize /\ Reach(thread.puts) \in Nat
      BY <1>n, <3>3, OneMoreBatch
    <3>5. /\ thread.puts + 1 < WindowBatches
          /\ pulled <= Len(delivered) + Reach(thread.puts + 1) + 0
      BY <1>n, <2>4, <3>3, <3>4
    <3> QED
      BY <1>0, <1>1, <1>n, <1>3, <2>1, <2>4, <3>1, <3>2, <3>5 DEF Window
  <2> QED
    BY <1>7, <2>2, <2>3, <2>4 DEF PutReturns
<1> QED
  BY <1>4, <1>5, <1>6, <1>7, ThreadMoves DEF ProducerThread, PutReturns, PullItem, PullEnd, PutBatch, PullNative, Stopped

-----------------------------------------------------------------------------
(* One gapless run from the first item to the last one pulled.             *)

LEMMA PulledGrows == TypeOK /\ ProducerThread => pulled' \in Nat /\ pulled <= pulled'
<1> SUFFICES ASSUME TypeOK, ProducerThread PROVE pulled <= pulled'
  BY ThreadType DEF TypeOK
<1>1. pulled \in Nat
  BY DEF TypeOK
<1>2. pulled' = pulled \/ pulled' = pulled + 1 \/ \E k \in 1..BatchSize : pulled' = pulled + k
  BY DEF ProducerThread, Stopped, PullItem, PullEnd, PutBatch, PullNative, PutReturns, PutGivesUp
<1> QED
  BY <1>1, <1>2, SizesAssumption

\* A step that leaves the run where it is, and at most stops the bridge.
LEMMA LinkedSame ==
  ASSUME Linked, UNCHANGED <<queue, thread, putting, pulled, delivered, current, ending>>, stop => stop'
  PROVE  Linked'
<1>1. PICK off \in Offsets : Chain(off) /\ Rear(off[Len(queue) + 1])
  BY DEF Linked
<1>2. off \in Offsets' /\ Chain(off)'
  BY <1>1 DEF Offsets, Chain, Ends
<1>3. ASSUME NEW n, Rear(n) PROVE Rear(n)'
  BY <1>3 DEF Rear, Ends
<1>4. Rear(off[Len(queue) + 1])'
  BY <1>1, <1>3
<1> QED
  BY <1>2, <1>4 DEF Linked

LEMMA LinkedThread ==
  ASSUME TypeOK, Control, Linked, Window, ProducerThread
  PROVE  Linked' /\ Window'
<1>1. PICK off \in Offsets : Chain(off) /\ Rear(off[Len(queue) + 1])
  BY DEF Linked
<1>2. UNCHANGED <<queue, delivered, current, ending>>
  BY ThreadMoves DEF ThreadStep, bufferVars, historyVars
<1>3. queue \in Seq(Messages) /\ Len(queue) \in Nat
  BY DEF TypeOK
<1>4. pulled \in Nat /\ pulled' \in Nat /\ pulled <= pulled'
  BY PulledGrows DEF TypeOK
<1>5. off \in [1..Len(queue) + 1 -> 0..pulled']
  <2>1. \A i \in 0..pulled : i \in 0..pulled'
    BY <1>4
  <2> QED
    BY <1>1, <2>1 DEF Offsets
<1>6. off \in Offsets'
  BY <1>2, <1>5 DEF Offsets
<1>7. Chain(off)'
  BY <1>1, <1>2 DEF Chain, Ends
<1> DEFINE n == off[Len(queue) + 1]
<1>8. n \in Nat
  BY <1>1, <1>3, <1>4 DEF Offsets
<1>9. Rear(n)
  BY <1>1
<1>a. n' = n
  BY <1>2
<1> HIDE DEF n
<1>10. Rear(n)' /\ Window'
  <2>1. ASSUME NEW j \in Nat, Rear(j) PROVE Rear(j)' /\ Window'
    BY <2>1, ThreadKeeps
  <2>2. \A j \in Nat : Rear(j) => Rear(j)'
    BY <2>1
  <2>3. Window'
    BY <1>8, <1>9, <2>1
  <2>4. PICK j \in Nat : j = n
    BY <1>8
  <2>5. Rear(j)'
    BY <1>9, <2>2, <2>4
  <2> QED
    BY <1>a, <2>3, <2>4, <2>5 DEF Rear
<1>11. Linked'
  BY <1>2, <1>6, <1>7, <1>10 DEF Linked, n, Run
<1> QED
  BY <1>10, <1>11

LEMMA LinkedDeliver == TypeOK /\ Linked /\ Deliver => Linked'
<1> SUFFICES ASSUME TypeOK, Linked, Deliver PROVE Linked'
  OBVIOUS
<1>1. PICK off \in Offsets : Chain(off) /\ Rear(off[Len(queue) + 1])
  BY DEF Linked
<1>2. /\ current # <<>> /\ delivered' = Append(delivered, Head(current)) /\ current' = Tail(current)
      /\ UNCHANGED <<ending, queue, stop, threadVars>>
  BY DEF Deliver
<1>3. delivered \in Seq(Nat) /\ current \in Seq(Nat) /\ Len(delivered) \in Nat /\ Len(current) \in Nat
  BY DEF TypeOK
<1>4. Run(delivered, 0) /\ Run(current, Len(delivered))
  BY DEF Linked
<1>5. Head(current) = Len(delivered) + 1 /\ Len(Tail(current)) = Len(current) - 1
      /\ Run(Tail(current), Len(delivered) + 1)
  BY <1>2, <1>3, <1>4, RunTail
<1>6. /\ Len(Append(delivered, Head(current))) = Len(delivered) + 1
      /\ Run(Append(delivered, Head(current)), 0)
  <2>1. Head(current) = 0 + Len(delivered) + 1
    BY <1>3, <1>5
  <2> QED
    BY <1>3, <1>4, <2>1, RunAppend
<1>7. Len(delivered') = Len(delivered) + 1 /\ Len(current') = Len(current) - 1
  BY <1>2, <1>5, <1>6
<1>8. Run(delivered, 0)' /\ Run(current, Len(delivered))'
  BY <1>2, <1>5, <1>6, <1>7 DEF Run
<1>9. off \in Offsets'
  BY <1>1, <1>2 DEF Offsets, threadVars
<1>10. Chain(off)'
  <2>1. off[1] = Len(delivered') + Len(current')
    BY <1>1, <1>3, <1>7 DEF Chain
  <2> QED
    BY <1>1, <1>2, <2>1 DEF Chain, Ends
<1>11. Rear(off[Len(queue) + 1])'
  BY <1>1, <1>2 DEF Rear, Ends, threadVars
<1> QED
  BY <1>8, <1>9, <1>10, <1>11 DEF Linked

\* A window is started when everything pulled has been taken out and used up.
LEMMA LinkedStart == TypeOK /\ Control /\ Linked /\ Window /\ AwaitQueue => Linked' /\ Window'
<1> SUFFICES ASSUME TypeOK, Control, Linked, Window, AwaitQueue PROVE Linked' /\ Window'
  OBVIOUS
<1>1. /\ current = <<>> /\ EnsurePrefetch
      /\ UNCHANGED <<ending, native, current, stop, queue, putting, pulled, delivered>>
  BY DEF AwaitQueue, bufferVars, historyVars
<1>2. CASE UNCHANGED thread
  BY <1>1, <1>2, LinkedSame DEF Window
<1>3. CASE /\ queue = <<>> /\ ~stop /\ producer # "running"
           /\ thread' = Thread("pull", 0, <<>>, WindowDone)
  <2>1. PICK off \in Offsets : Chain(off) /\ Rear(off[Len(queue) + 1])
    BY DEF Linked
  <2>2. thread.pc = "none" /\ ~putting
    BY <1>3 DEF Control
  <2>3. Len(queue) = 0 /\ Len(current) = 0 /\ Len(delivered) \in Nat /\ pulled \in Nat /\ Items \in Nat
    BY <1>1, <1>3, SizesAssumption DEF TypeOK
  <2>4. off[1] = Len(delivered) /\ off[1] = pulled
    BY <1>3, <2>1, <2>2, <2>3 DEF Chain, Rear
  <2>5. /\ thread'.pc = "pull" /\ thread'.puts = 0 /\ thread'.batch = <<>> /\ Len(thread'.batch) = 0
    BY <1>3 DEF Thread
  <2>6. off \in Offsets' /\ Chain(off)'
    BY <1>1, <2>1 DEF Offsets, Chain, Ends
  <2>7. Rear(off[Len(queue) + 1])'
    <3>1. Run(thread.batch, off[Len(queue) + 1])'
      BY <2>5, RunEmpty DEF Run
    <3>2. (off[Len(queue) + 1])' = pulled /\ pulled' = pulled /\ ~putting'
      BY <1>1, <2>2, <2>3, <2>4
    <3>3. (off[Len(queue) + 1])' + Len(thread'.batch) = pulled' /\ (off[Len(queue) + 1])' <= pulled'
      BY <2>3, <2>5, <3>2
    <3> QED
      BY <2>5, <3>1, <3>2, <3>3 DEF Rear
  <2>8. Linked'
    BY <1>1, <2>6, <2>7 DEF Linked, Run
  <2>9. Window'
    <3>1. Reach(0) = 0 /\ 0 < WindowBatches /\ BatchSize >= 0
      BY SizesAssumption, WindowBatchesPositive DEF Reach
    <3>2. pulled <= Len(delivered) + Reach(0) + 0
      BY <2>3, <2>4, <3>1
    <3> QED
      BY <1>1, <2>5, <3>1, <3>2 DEF Window
  <2> QED
    BY <2>8, <2>9
<1> QED
  BY <1>1, <1>2, <1>3 DEF EnsurePrefetch

\* A message taken out becomes the current batch: the first link of the rest.
LEMMA LinkedGet == TypeOK /\ Control /\ Linked /\ Get => Linked'
<1> SUFFICES ASSUME TypeOK, Control, Linked, Get PROVE Linked'
  OBVIOUS
<1>1. PICK off \in Offsets : Chain(off) /\ Rear(off[Len(queue) + 1])
  BY DEF Linked
<1> DEFINE m == Head(queue)
           rest == Tail(queue)
<1>2. queue # <<>> /\ queue' = rest /\ UNCHANGED <<ending, threadVars, delivered>>
  BY DEF Get, historyVars
<1>3. /\ queue \in Seq(Messages) /\ Len(queue) \in Nat /\ Len(queue) >= 1 /\ m = queue[1]
      /\ Len(rest) = Len(queue) - 1 /\ \A k \in 1..Len(rest) : rest[k] = queue[k + 1]
  <2>1. queue \in Seq(Messages)
    BY DEF TypeOK
  <2>2. Len(queue) \in Nat /\ Len(queue) >= 1
    BY <1>2, <2>1
  <2>3. m = queue[1]
    BY <1>2, <2>1
  <2>4. Len(rest) = Len(queue) - 1 /\ \A k \in 1..Len(rest) : rest[k] = queue[k + 1]
    BY <1>2, <2>1
  <2> QED
    BY <2>1, <2>2, <2>3, <2>4
<1>4. m.items \in Seq(Nat) /\ delivered \in Seq(Nat) /\ Len(delivered) \in Nat /\ Len(m.items) \in Nat /\ Len(<<>>) = 0
  BY <1>2, QueueHead DEF TypeOK
<1>5. /\ off[1] = Len(delivered) + Len(current) /\ off[2] = off[1] + Len(m.items)
      /\ Run(m.items, off[1]) /\ Ends(m, off[2])
  <2>1. 1 \in 1..Len(queue) /\ 1 + 1 = 2
    BY <1>3
  <2>2. /\ off[1 + 1] = off[1] + Len(queue[1].items) /\ Run(queue[1].items, off[1])
        /\ Ends(queue[1], off[1 + 1])
    BY <1>1, <2>1 DEF Chain
  <2> HIDE DEF m
  <2>3. off[1] = Len(delivered) + Len(current)
    BY <1>1 DEF Chain
  <2> QED
    BY <1>3, <2>1, <2>2, <2>3
<1>6. current = <<>> /\ off[1] = Len(delivered)
  <2>1. current = <<>>
    BY DEF Get, Control
  <2> QED
    BY <1>4, <1>5, <2>1
<1>7. current' = m.items
  <2>1. m.window => m.items = <<>>
    BY <1>5 DEF Ends
  <2>2. current' = m.items \/ (m.items = <<>> /\ current' = current)
    BY <2>1 DEF Get, bufferVars
  <2> QED
    BY <1>6, <2>2
<1>8. stop => stop'
  BY DEF Get, StartClose
<1>9. Len(queue') + 1 = Len(queue) /\ Len(queue') \in Nat
  BY <1>2, <1>3
<1>10. PICK new \in [1..Len(queue) -> 0..pulled] : \A k \in 1..Len(queue) : new[k] = off[k + 1]
  <2>1. [k \in 1..Len(queue) |-> off[k + 1]] \in [1..Len(queue) -> 0..pulled]
    BY <1>1, <1>3 DEF Offsets
  <2> QED
    BY <2>1
<1> HIDE DEF m, rest
<1>11. new \in Offsets'
  BY <1>2, <1>9, <1>10 DEF Offsets, threadVars
<1>12. Chain(new)'
  <2>1. new[1] = Len(delivered') + Len(current')
    BY <1>2, <1>3, <1>5, <1>6, <1>7, <1>10
  <2>2. ASSUME NEW k \in 1..Len(queue')
        PROVE  /\ new[k + 1] = new[k] + Len(queue'[k].items)
               /\ Run(queue'[k].items, new[k])
               /\ Ends(queue'[k], new[k + 1])
    <3>1. /\ k \in 1..Len(queue) /\ k + 1 \in 1..Len(queue) /\ (k + 1) + 1 = k + 2 /\ k \in 1..Len(rest)
          /\ queue'[k] = queue[k + 1]
      BY <1>2, <1>3, <1>9
    <3>2. new[k] = off[k + 1] /\ new[k + 1] = off[(k + 1) + 1]
      BY <1>10, <3>1
    <3>3. /\ off[(k + 1) + 1] = off[k + 1] + Len(queue[k + 1].items)
          /\ Run(queue[k + 1].items, off[k + 1])
          /\ Ends(queue[k + 1], off[(k + 1) + 1])
      BY <1>1, <3>1 DEF Chain
    <3>4. (k + 1) + 1 = k + 2
      BY <3>1
    <3>5. new[k + 1] = new[k] + Len(queue'[k].items)
      BY <3>1, <3>2, <3>3
    <3>6. Run(queue'[k].items, new[k])
      BY <3>1, <3>2, <3>3
    <3>7. Ends(queue'[k], new[k + 1])
      BY <3>1, <3>2, <3>3
    <3> QED
      BY <3>5, <3>6, <3>7
  <2>3. \A k \in 1..Len(queue') : Ends(queue[k], new[k + 1])'
    BY <1>2, <2>2 DEF Ends
  <2> QED
    BY <2>1, <2>2, <2>3 DEF Chain, Run
<1>13. Rear(new[Len(queue) + 1])'
  <2>1. new[Len(queue') + 1] = off[Len(queue) + 1]
    BY <1>3, <1>9, <1>10
  <2>2. ASSUME NEW n, Rear(n) PROVE Rear(n)'
    BY <1>2, <1>8, <2>2 DEF Rear, Ends, threadVars
  <2> QED
    BY <1>1, <2>1, <2>2
<1>14. Run(delivered, 0)' /\ Run(current, Len(delivered))'
  BY <1>2, <1>5, <1>6, <1>7 DEF Linked, Run
<1> QED
  BY <1>11, <1>12, <1>13, <1>14 DEF Linked

LEMMA LinkedPut == TypeOK /\ Control /\ Linked /\ PutThrough => Linked'
<1> SUFFICES ASSUME TypeOK, Control, Linked, PutThrough PROVE Linked'
  OBVIOUS
<1>1. PICK off \in Offsets : Chain(off) /\ Rear(off[Len(queue) + 1])
  BY DEF Linked
<1> DEFINE L == Len(queue)
           msg == thread.msg
<1>2. /\ putting /\ queue' = Append(queue, msg) /\ ~putting'
      /\ UNCHANGED <<ending, current, thread, stop, pulled, delivered>>
  BY DEF PutThrough, bufferVars, historyVars
<1>3. /\ queue \in Seq(Messages) /\ L \in Nat /\ pulled \in Nat /\ msg \in Messages
  BY ThreadIs DEF TypeOK
<1>4. Len(queue') = L + 1 /\ queue'[L + 1] = msg /\ \A k \in 1..L : queue'[k] = queue[k]
  BY <1>2, <1>3
<1>5. thread.pc = "put"
  BY <1>2 DEF Control
<1>6. /\ Run(msg.items, off[L + 1]) /\ off[L + 1] + Len(msg.items) = pulled
      /\ Ends(msg, pulled)
  BY <1>1, <1>2 DEF Rear
<1>7. PICK new \in [1..L + 2 -> 0..pulled] :
        new[L + 2] = pulled /\ \A k \in 1..L + 1 : new[k] = off[k]
  <2> DEFINE f == [k \in 1..L + 2 |-> IF k = L + 2 THEN pulled ELSE off[k]]
  <2>1. f[L + 2] = pulled /\ \A k \in 1..L + 1 : f[k] = off[k]
    BY <1>3
  <2>2. f \in [1..L + 2 -> 0..pulled]
    BY <1>1, <1>3 DEF Offsets
  <2> QED
    BY <2>1, <2>2
<1> HIDE DEF L, msg
<1>8. new \in Offsets'
  <2>1. Len(queue') + 1 = L + 2
    BY <1>3, <1>4
  <2> QED
    BY <1>2, <2>1 DEF Offsets
<1>9. Chain(new)'
  <2>1. new[1] = Len(delivered') + Len(current')
    <3>1. 1 \in 1..L + 1
      BY <1>3
    <3> QED
      BY <1>1, <1>2, <1>7, <3>1 DEF Chain
  <2>2. ASSUME NEW k \in 1..Len(queue')
        PROVE  /\ new[k + 1] = new[k] + Len(queue'[k].items)
               /\ Run(queue'[k].items, new[k])
               /\ Ends(queue'[k], new[k + 1])
    <3>0. k \in 1..L + 1 /\ new[k] = off[k]
      BY <1>4, <1>7
    <3>1. CASE k = L + 1
      <4>1. new[k + 1] = pulled /\ queue'[k] = msg
        <5>1. k + 1 = L + 2
          BY <1>3, <3>1
        <5> QED
          BY <1>4, <1>7, <3>1, <5>1
      <4> QED
        BY <1>6, <3>0, <3>1, <4>1
    <3>2. CASE k \in 1..L
      <4>1. queue'[k] = queue[k] /\ k + 1 \in 1..L + 1
        BY <1>3, <1>4, <3>2
      <4>2. new[k + 1] = off[k + 1]
        BY <1>7, <4>1
      <4>3. /\ off[k + 1] = off[k] + Len(queue[k].items)
            /\ Run(queue[k].items, off[k])
            /\ Ends(queue[k], off[k + 1])
        BY <1>1, <3>2 DEF Chain, L
      <4> QED
        BY <3>0, <4>1, <4>2, <4>3
    <3> QED
      BY <1>3, <3>0, <3>1, <3>2
  <2>3. \A k \in 1..Len(queue') : Ends(queue[k], new[k + 1])'
    BY <1>2, <2>2 DEF Ends
  <2> QED
    BY <2>1, <2>2, <2>3 DEF Chain, Run
<1>10. Rear(new[Len(queue) + 1])'
  <2>1. new[Len(queue') + 1] = pulled'
    <3>1. Len(queue') + 1 = L + 2
      BY <1>3, <1>4
    <3> QED
      BY <1>2, <1>7, <3>1
  <2> QED
    BY <1>2, <1>3, <1>5, <2>1 DEF Rear
<1> QED
  BY <1>2, <1>8, <1>9, <1>10 DEF Linked, Run

LEMMA LinkedProducerDone == TypeOK /\ Control /\ Linked /\ ProducerDone => Linked'
<1> SUFFICES ASSUME TypeOK, Control, Linked, ProducerDone PROVE Linked'
  OBVIOUS
<1>1. PICK off \in Offsets : Chain(off) /\ Rear(off[Len(queue) + 1])
  BY DEF Linked
<1>2. /\ thread.pc = "finished" /\ thread' = NoThread
      /\ UNCHANGED <<ending, current, stop, queue, putting, pulled, delivered>>
  BY DEF ProducerDone, bufferVars, historyVars
<1>3. thread'.pc = "none" /\ ~putting
  BY <1>2 DEF NoThread, Thread, Control
<1>4. off \in Offsets' /\ Chain(off)'
  BY <1>1, <1>2 DEF Offsets, Chain, Ends
<1>5. Rear(off[Len(queue) + 1])'
  BY <1>1, <1>2, <1>3 DEF Rear
<1> QED
  BY <1>2, <1>4, <1>5 DEF Linked, Run

\* Closing drops what was not delivered; the bridge is stopped by then.
LEMMA LinkedClose == TypeOK /\ Control /\ Linked /\ CloseFinishes => Linked'
<1> SUFFICES ASSUME TypeOK, Control, Linked, CloseFinishes PROVE Linked'
  OBVIOUS
<1>1. PICK off \in Offsets : Chain(off) /\ Rear(off[Len(queue) + 1])
  BY DEF Linked
<1>2. /\ closer = "finish" /\ current' = <<>> /\ queue' = <<>>
      /\ UNCHANGED <<ending, stop, thread, putting, pulled, delivered>>
  BY DEF CloseFinishes, threadVars, historyVars
<1>3. thread.pc = "none" /\ ~putting /\ stop
  BY <1>2 DEF Control, TypeOK
<1>4. /\ Len(delivered) \in Nat /\ Len(current) \in Nat /\ pulled \in Nat /\ Len(queue) \in Nat
      /\ Len(<<>>) = 0
  BY DEF TypeOK
<1>5. Len(delivered) <= pulled
  <2>1. off[1] \in 0..pulled /\ off[1] = Len(delivered) + Len(current)
    BY <1>1, <1>4 DEF Offsets, Chain
  <2> QED
    BY <1>4, <2>1
<1>6. PICK new \in [1..1 -> 0..pulled] : new[1] = Len(delivered)
  <2> DEFINE f == [k \in 1..1 |-> Len(delivered)]
  <2>1. f \in [1..1 -> 0..pulled] /\ f[1] = Len(delivered)
    BY <1>4, <1>5
  <2> QED
    BY <2>1
<1>7. Len(queue') = 0 /\ Len(current') = 0
  BY <1>2, <1>4
<1>8. new \in Offsets'
  BY <1>2, <1>6, <1>7 DEF Offsets
<1>9. Chain(new)'
  <2>1. new[1] = Len(delivered') + Len(current')
    BY <1>2, <1>4, <1>6, <1>7
  <2>2. 1..Len(queue') = {}
    BY <1>7
  <2> QED
    BY <2>1, <2>2 DEF Chain
<1>10. Rear(new[Len(queue) + 1])'
  <2>1. new[Len(queue') + 1] = Len(delivered)
    BY <1>6, <1>7
  <2> QED
    BY <1>2, <1>3, <1>5, <2>1 DEF Rear
<1>11. Run(current, Len(delivered))' /\ Run(delivered, 0)'
  BY <1>2, RunEmpty DEF Linked, Run
<1> QED
  BY <1>8, <1>9, <1>10, <1>11 DEF Linked

LEMMA LinkedStep == TypeOK /\ Control /\ Linked /\ Window /\ [Next]_vars => Linked'
<1> SUFFICES ASSUME TypeOK, Control, Linked, Window, [Next]_vars PROVE Linked'
  OBVIOUS
<1>1. CASE ProducerThread
  BY <1>1, LinkedThread
<1>2. CASE Deliver
  BY <1>2, LinkedDeliver
<1>3. CASE AwaitQueue
  BY <1>3, LinkedStart
<1>4. CASE Get
  BY <1>4, LinkedGet
<1>5. CASE PutThrough
  BY <1>5, LinkedPut
<1>6. CASE ProducerDone
  BY <1>6, LinkedProducerDone
<1>7. CASE CloseFinishes
  BY <1>7, LinkedClose
<1>8. CASE FinishBatch \/ CallClose \/ CloseFromOutside \/ Drop
  <2>1. /\ UNCHANGED <<queue, thread, putting, pulled, delivered, current, ending>>
        /\ stop => stop'
    BY <1>8 DEF FinishBatch, CallClose, CloseFromOutside, Drop, StartClose, bufferVars, threadVars, historyVars
  <2> QED
    BY <2>1, LinkedSame
<1>9. CASE CallNext \/ Settle \/ Closed \/ Cancelled \/ Cancel \/ CloseAwaitsProducer \/ CloseIterator \/ UNCHANGED vars
  <2>1. UNCHANGED <<queue, thread, putting, pulled, delivered, current, ending, stop>>
    BY <1>9 DEF CallNext, Settle, Closed, Cancelled, Cancel, CloseAwaitsProducer, CloseIterator, vars,
                bufferVars, threadVars, historyVars
  <2> QED
    BY <2>1, LinkedSame
<1> QED
  BY <1>1, <1>2, <1>3, <1>4, <1>5, <1>6, <1>7, <1>8, <1>9 DEF Next, Awaited, Loop

LEMMA WindowStep == TypeOK /\ Control /\ Linked /\ Window /\ [Next]_vars => Window'
<1> SUFFICES ASSUME TypeOK, Control, Linked, Window, [Next]_vars PROVE Window'
  OBVIOUS
<1>1. CASE ProducerThread
  BY <1>1, LinkedThread
<1>2. CASE AwaitQueue
  BY <1>2, LinkedStart
<1>3. CASE ProducerDone
  <2>1. thread'.pc = "none"
    BY <1>3 DEF ProducerDone, NoThread, Thread
  <2>2. UNCHANGED <<pulled, delivered>>
    BY <1>3 DEF ProducerDone, historyVars
  <2> QED
    BY <2>1, <2>2 DEF Window
<1>4. CASE Deliver
  <2>1. UNCHANGED <<native, thread, pulled>> /\ delivered' = Append(delivered, Head(current)) /\ current # <<>>
    BY <1>4 DEF Deliver, threadVars
  <2>2. delivered \in Seq(Nat) /\ current \in Seq(Nat) /\ Len(delivered) \in Nat /\ pulled \in Nat
    BY DEF TypeOK
  <2>3. Len(delivered') = Len(delivered) + 1
    BY <2>1, <2>2
  <2>4. /\ Reach(WindowBatches) \in Nat
        /\ thread.puts \in Nat /\ Len(thread.batch) \in Nat /\ BatchSize \in Nat
    BY ThreadIs, ReachType, SizesAssumption
  <2>5. Reach(thread.puts) \in Nat
    BY <2>4 DEF Reach
  <2>6. ASSUME NEW x \in Nat, pulled <= Len(delivered) + x PROVE pulled <= Len(delivered') + x
    BY <2>2, <2>3, <2>6
  <2>7. pulled' <= Len(delivered') + Reach(WindowBatches)
    BY <2>1, <2>4, <2>6 DEF Window
  <2>8. pulled <= Len(delivered) + Reach(thread.puts) + Len(thread.batch)
        => pulled <= Len(delivered') + Reach(thread.puts) + Len(thread.batch)
    BY <2>2, <2>3, <2>4, <2>5
  <2>9. pulled <= Len(delivered) + Reach(thread.puts) + BatchSize
        => pulled <= Len(delivered') + Reach(thread.puts) + BatchSize
    BY <2>2, <2>3, <2>4, <2>5
  <2> QED
    BY <2>1, <2>7, <2>8, <2>9 DEF Window
<1>5. CASE /\ ~(ProducerThread \/ AwaitQueue \/ ProducerDone \/ Deliver)
  <2>1. UNCHANGED <<native, thread, pulled, delivered>>
    BY <1>5 DEF Next, Awaited, Loop, CallNext, FinishBatch, Get, Settle, Closed, Cancelled, Cancel, CallClose,
                CloseFromOutside, Drop, PutThrough, CloseAwaitsProducer, CloseIterator, CloseFinishes, vars,
                threadVars, historyVars
  <2> QED
    BY <2>1 DEF Window
<1> QED
  BY <1>1, <1>2, <1>3, <1>4, <1>5

-----------------------------------------------------------------------------
(* What the consumer is told.                                              *)

\* The message the consumer takes out says the truth about what was delivered.
LEMMA HeadIsHonest ==
  ASSUME TypeOK, Control, Linked, consumer = "get", queue # <<>>
  PROVE  /\ current = <<>>
         /\ Ends(Head(queue), Len(delivered) + Len(Head(queue).items))
<1>1. PICK off \in Offsets : Chain(off)
  BY DEF Linked
<1>2. queue \in Seq(Messages) /\ 1 \in 1..Len(queue) /\ Head(queue) = queue[1] /\ 1 + 1 = 2
  BY DEF TypeOK
<1>3. current = <<>> /\ Len(current) = 0 /\ Len(delivered) \in Nat
  BY DEF Control, TypeOK
<1>4. off[1] = Len(delivered) + Len(current)
  BY <1>1 DEF Chain
<1>5. off[1 + 1] = off[1] + Len(queue[1].items) /\ Ends(queue[1], off[1 + 1])
  BY <1>1, <1>2 DEF Chain
<1>6. off[1] = Len(delivered)
  BY <1>3, <1>4
<1> QED
  BY <1>2, <1>3, <1>5, <1>6

\* Steps after which no undisturbed consumer is left, or that leave alone what it is told.
LEMMA HonestElsewhere ==
  ASSUME TypeOK, Control, Honest,
         ProducerThread \/ PutThrough \/ ProducerDone \/ CloseAwaitsProducer \/ CloseIterator \/ CloseFinishes
         \/ Cancelled \/ Cancel \/ CallClose \/ CloseFromOutside \/ Drop \/ UNCHANGED vars
  PROVE  Honest'
<1>1. CASE ProducerThread \/ PutThrough \/ ProducerDone \/ UNCHANGED vars
  <2>1. UNCHANGED <<cancelReq, cancels, consumer, userClosed, closed, report, pendingError, doneAfter, closer, ending,
                    delivered, current>>
    BY <1>1, ThreadMoves DEF ThreadStep, PutThrough, ProducerDone, vars, bufferVars, historyVars
  <2> QED
    BY <2>1 DEF Honest, Undisturbed
<1>2. CASE CloseAwaitsProducer \/ CloseIterator
  <2>1. /\ UNCHANGED <<cancelReq, cancels, consumer, userClosed, closed, report, pendingError, doneAfter, ending,
                       delivered, current>>
        /\ closer # "done"
    BY <1>2 DEF CloseAwaitsProducer, CloseIterator, bufferVars, historyVars
  <2> QED
    BY <2>1 DEF Honest, Undisturbed
<1>3. CASE CloseFinishes
  <2>1. /\ UNCHANGED <<cancelReq, cancels, consumer, userClosed, closed, report, ending, delivered>>
        /\ closer' = "done" /\ pendingError' = FALSE
    BY <1>3 DEF CloseFinishes, historyVars
  <2> QED
    BY <2>1 DEF Honest, Undisturbed
<1>4. CASE Cancelled
  <2>1. cancels' = cancels /\ cancelReq /\ ~cancelReq' /\ consumer' = "idle"
    BY <1>4 DEF Cancelled, historyVars
  <2>2. ~Undisturbed'
    BY <2>1 DEF Honest, Undisturbed, TypeOK
  <2> QED
    BY <2>1, <2>2 DEF Honest
<1>5. CASE Cancel
  <2>1. cancels' = cancels + 1 /\ UNCHANGED <<consumer, userClosed>>
    BY <1>5 DEF Cancel
  <2>2. cancels' > 0 /\ ~Undisturbed'
    BY <2>1 DEF Undisturbed, TypeOK
  <2> QED
    BY <2>1, <2>2 DEF Honest
<1>6. CASE CallClose \/ CloseFromOutside
  <2>1. userClosed' = TRUE /\ UNCHANGED <<cancels, cancelReq>>
    BY <1>6 DEF CallClose, CloseFromOutside
  <2> QED
    BY <2>1 DEF Honest, Undisturbed
<1>7. CASE Drop
  <2>1. /\ UNCHANGED <<cancelReq, cancels, userClosed, closed, report, pendingError, doneAfter, closer, ending,
                       delivered, current>>
        /\ consumer' = "dropped"
    BY <1>7 DEF Drop, bufferVars, historyVars
  <2> QED
    BY <2>1 DEF Honest, Undisturbed
<1> QED
  BY <1>1, <1>2, <1>3, <1>4, <1>5, <1>6, <1>7

LEMMA HonestStep == TypeOK /\ Control /\ Linked /\ Honest /\ [Next]_vars => Honest'
<1> SUFFICES ASSUME TypeOK, Control, Linked, Honest, [Next]_vars PROVE Honest'
  OBVIOUS
<1>0. /\ delivered \in Seq(Nat) /\ current \in Seq(Nat) /\ Len(delivered) \in Nat /\ Len(current) \in Nat
      /\ Len(<<>>) = 0 /\ Items \in Nat
  BY SizesAssumption DEF TypeOK
<1>1. CASE CallNext
  <2>1. /\ consumer = "idle" /\ report = "none"
        /\ (closed /\ report' = "end" /\ consumer' = consumer) \/ (~closed /\ consumer' = "loop" /\ report' = report)
        /\ UNCHANGED <<cancelReq, cancels, userClosed, closed, pendingError, doneAfter, closer, ending, delivered, current>>
    BY <1>1 DEF CallNext, bufferVars
  <2> QED
    BY <2>1 DEF Honest, Undisturbed
<1>2. CASE Deliver
  <2>1. /\ consumer = "loop" /\ consumer' = "idle" /\ current # <<>>
        /\ delivered' = Append(delivered, Head(current)) /\ current' = Tail(current)
        /\ UNCHANGED <<cancelReq, cancels, userClosed, closed, report, pendingError, doneAfter, closer, ending>>
    BY <1>2 DEF Deliver
  <2>2. Len(delivered') + Len(current') = Len(delivered) + Len(current)
    BY <1>0, <2>1
  <2> QED
    BY <2>1, <2>2 DEF Honest, Undisturbed
<1>3. CASE FinishBatch
  <2>1. /\ consumer = "loop" /\ current = <<>> /\ pendingError' = FALSE
        /\ (pendingError /\ consumer' = "close_error") \/ (~pendingError /\ doneAfter /\ consumer' = "close_end")
        /\ StartClose
        /\ UNCHANGED <<cancelReq, cancels, userClosed, report, doneAfter, ending, delivered, current>>
    BY <1>3 DEF FinishBatch, historyVars
  <2>2. Len(delivered) + Len(current) = Len(delivered)
    BY <1>0, <2>1
  <2>3. (closer' # "done" => closer # "done") /\ (~closed => closer # "done")
    BY <2>1 DEF StartClose, Control
  <2> QED
    BY <2>1, <2>2, <2>3 DEF Honest, Undisturbed
<1>4. CASE AwaitQueue
  <2>1. /\ consumer = "loop" /\ consumer' = "get"
        /\ UNCHANGED <<cancelReq, cancels, userClosed, closed, report, pendingError, doneAfter, closer, ending, delivered, current>>
    BY <1>4 DEF AwaitQueue, bufferVars, historyVars
  <2> QED
    BY <2>1 DEF Honest, Undisturbed
<1>5. CASE Get
  <2> DEFINE m == Head(queue)
  <2>1. /\ consumer = "get" /\ queue # <<>>
        /\ UNCHANGED <<cancelReq, cancels, userClosed, report, ending, delivered>>
    BY <1>5 DEF Get, historyVars
  <2>2. /\ current = <<>> /\ Ends(m, Len(delivered) + Len(m.items))
        /\ m.items \in Seq(Nat) /\ m.window \in BOOLEAN /\ m.error \in BOOLEAN /\ m.done \in BOOLEAN
    BY <2>1, HeadIsHonest, QueueHead
  <2>3. \/ /\ consumer' \in {"loop", "settle"}
           /\ UNCHANGED <<closed, closer, pendingError, doneAfter, current>>
        \/ /\ current' = m.items /\ pendingError' = m.error /\ doneAfter' = m.done /\ consumer' = "loop"
           /\ UNCHANGED <<closed, closer>>
        \/ /\ ~m.window /\ m.items = <<>> /\ consumer' = IF m.error THEN "close_error" ELSE "close_end"
           /\ StartClose
           /\ UNCHANGED <<pendingError, doneAfter, current>>
    BY <1>5 DEF Get, bufferVars
  <2> HIDE DEF m
  <2>4. CASE /\ consumer' \in {"loop", "settle"}
             /\ UNCHANGED <<closed, closer, pendingError, doneAfter, current>>
    BY <2>1, <2>4 DEF Honest, Undisturbed
  <2>5. CASE /\ current' = m.items /\ pendingError' = m.error /\ doneAfter' = m.done /\ consumer' = "loop"
             /\ UNCHANGED <<closed, closer>>
    <3>1. /\ pendingError' => ending = "error" /\ Len(delivered) + Len(current') = Items
          /\ doneAfter' => ending = "end" /\ Len(delivered) + Len(current') = Items
      BY <2>2, <2>5 DEF Ends
    <3> QED
      BY <2>1, <2>5, <3>1 DEF Honest, Undisturbed
  <2>6. CASE /\ ~m.window /\ m.items = <<>> /\ consumer' = IF m.error THEN "close_error" ELSE "close_end"
             /\ StartClose
             /\ UNCHANGED <<pendingError, doneAfter, current>>
    <3>1. Len(delivered) + Len(m.items) = Len(delivered)
      BY <1>0, <2>6
    <3>2. /\ consumer' \in {"close_error", "close_end"}
          /\ consumer' = "close_error" => ending = "error" /\ Len(delivered) = Items
          /\ consumer' = "close_end" => ending = "end" /\ Len(delivered) = Items
      BY <2>2, <2>6, <3>1 DEF Ends
    <3>3. (closer' # "done" => closer # "done")
      BY <2>6 DEF StartClose
    <3> QED
      BY <2>1, <2>6, <3>2, <3>3 DEF Honest, Undisturbed
  <2> QED
    BY <2>3, <2>4, <2>5, <2>6
<1>6. CASE Settle
  <2>1. /\ consumer = "settle" /\ consumer' = "loop"
        /\ UNCHANGED <<cancelReq, cancels, userClosed, closed, report, pendingError, doneAfter, closer, ending, delivered, current>>
    BY <1>6 DEF Settle, bufferVars, historyVars
  <2> QED
    BY <2>1 DEF Honest, Undisturbed
<1>7. CASE Closed
  <2>1. /\ consumer \in {"close_error", "close_end", "close_call"} /\ consumer' = "idle"
        /\ consumer = "close_error" => report' = "error"
        /\ consumer = "close_end" => report' = "end"
        /\ UNCHANGED <<cancelReq, cancels, userClosed, closed, pendingError, doneAfter, closer, ending, delivered, current>>
    BY <1>7 DEF Closed, bufferVars
  <2> QED
    BY <2>1 DEF Honest, Undisturbed
<1>8. CASE ~(CallNext \/ Deliver \/ FinishBatch \/ AwaitQueue \/ Get \/ Settle \/ Closed)
  BY <1>8, HonestElsewhere DEF Next, Awaited, Loop
<1> QED
  BY <1>1, <1>2, <1>3, <1>4, <1>5, <1>6, <1>7, <1>8

-----------------------------------------------------------------------------
(* The theorems.                                                           *)

LEMMA InvInit == Init => Inv
<1> SUFFICES ASSUME Init PROVE Inv
  OBVIOUS
<1>1. TypeOK
  BY TypeInit
<1>2. /\ thread = NoThread /\ thread.pc = "none" /\ ~putting /\ queue = <<>> /\ current = <<>> /\ delivered = <<>>
      /\ pulled = 0 /\ Len(<<>>) = 0
  BY DEF Init, NoThread, Thread
<1>3. Control
  BY <1>2 DEF Init, Control
<1>4. Linked
  <2> DEFINE off == [k \in 1..1 |-> 0]
  <2>1. off \in Offsets /\ off[1] = 0
    BY <1>2 DEF Offsets
  <2> HIDE DEF off
  <2>2. Chain(off)
    BY <1>2, <2>1 DEF Chain
  <2>3. Rear(off[Len(queue) + 1])
    BY <1>2, <2>1 DEF Rear
  <2> QED
    BY <1>2, <2>1, <2>2, <2>3, RunEmpty DEF Linked
<1>5. Window
  <2>1. 0 <= Items /\ 0 <= 0 + Reach(WindowBatches)
    BY SizesAssumption, ReachType
  <2> QED
    BY <1>2, <2>1 DEF Window
<1>6. Honest
  BY DEF Init, Honest
<1> QED
  BY <1>1, <1>3, <1>4, <1>5, <1>6 DEF Inv

LEMMA InvNext == Inv /\ [Next]_vars => Inv'
  BY TypeStep, ControlStep, LinkedStep, WindowStep, HonestStep DEF Inv

\* Inv holds in every reachable state of the bridge.
THEOREM Invariant == Spec => []Inv
  BY InvInit, InvNext, PTL DEF Spec

\* The items reach the caller in order, once and without a gap, and the producer runs
\* ahead by one window at most: for every size of the queue and of the batches.
THEOREM ItemsInOrder == Spec => []InOrder
<1>1. Inv => InOrder
  <2> SUFFICES ASSUME Inv PROVE InOrder
    OBVIOUS
  <2>1. TypeOK /\ Linked /\ Window
    BY DEF Inv
  <2>2. Len(delivered) \in Nat /\ pulled \in Nat
    BY <2>1 DEF TypeOK
  <2>3. Reach(WindowBatches) \in Nat /\ Reach(WindowBatches) = WindowBatches * BatchSize
    BY ReachType DEF Reach
  <2>4. pulled - Len(delivered) <= Reach(WindowBatches)
    BY <2>1, <2>2, <2>3 DEF Window
  <2>5. \A i \in 1..Len(delivered) : delivered[i] = i
    BY <2>1, <2>2 DEF Linked, Run
  <2> QED
    BY <2>3, <2>4, <2>5 DEF InOrder
<1> QED
  BY <1>1, Invariant, PTL

\* aclose never closes the iterator under the thread that may be inside it.
THEOREM IteratorIsExclusive == Spec => []IteratorExclusive
<1>1. Inv => IteratorExclusive
  BY DEF Inv, Control, IteratorExclusive
<1> QED
  BY <1>1, Invariant, PTL

\* An undisturbed consumer is told of the end the iterator had, after all its items.
THEOREM ReportsAreHonest == Spec => []ReportIsHonest
<1>1. Inv => ReportIsHonest
  BY DEF Inv, Honest, Undisturbed, ReportIsHonest
<1> QED
  BY <1>1, Invariant, PTL
=============================================================================
