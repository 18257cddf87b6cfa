----------------------------- MODULE TmxParallel ----------------------------
(***************************************************************************)
(* extract_tmx_parallel (parsers/tmx/parallel.py): the units of a TMX file *)
(* are read on the caller's thread and projected in batches by a pool of   *)
(* threads; the results are given to the caller in the order of the file.  *)
(* The caller may stop at any unit.  "input" is the file and the options.  *)
(***************************************************************************)
EXTENDS Naturals, Sequences, FiniteSetsExt

CONSTANTS
  Inputs,        \* [units, failAt, workers, maxPending, batchUnits, batchBytes]: a unit is [bytes, work, bad];
                 \* failAt is the unit the reader fails at (0: none), workers 0 is automatic
  Cpus,          \* cpu_count(), at most the four of automatic mode
  SampleUnits,   \* units looked at before threads are started
  WorkPerUnit    \* work of one unit that is worth a thread

VARIABLES input, job
vars == <<input, job>>

\* What a file and the options are; the options are checked before the first unit is read.
IsInput(i) ==
  /\ i.units \in Seq([bytes : Nat, work : Nat, bad : BOOLEAN])
  /\ i.failAt \in 0..Len(i.units) + 1
  /\ i.workers \in Nat
  /\ i.maxPending \in Nat \ {0} /\ i.batchUnits \in Nat \ {0} /\ i.batchBytes \in Nat \ {0}

InputsAssumption ==
  /\ \A i \in Inputs : IsInput(i)
  /\ SampleUnits \in Nat /\ Cpus \in Nat \ {0}

Last == IF input.failAt = 0 THEN Len(input.units) ELSE input.failAt - 1
Workers == IF input.workers > 0 THEN input.workers ELSE Cpus
Bytes(first, last) == MapThenSumSet(LAMBDA i : input.units[i].bytes, first..last)

Idle == [pc |-> "new", caller |-> "holds", reader |-> "none", taken |-> 0, pending |-> <<>>, ready |-> <<>>,
         out |-> <<>>, outcome |-> "none"]
Init == input \in Inputs /\ job = Idle

-----------------------------------------------------------------------------
\* _iter_batches: a batch ends when it is full, or the next unit would not fit
Full(first, last) == last - first + 1 >= input.batchUnits \/ Bytes(first, last) >= input.batchBytes
BatchEnd(first) ==
  Min({e \in first..Last : e = Last \/ Full(first, e) \/ Bytes(first, e + 1) > input.batchBytes})
Batch(first) == [units |-> [i \in 1..(BatchEnd(first) - first + 1) |-> first + i - 1], state |-> "queued"]
\* reading goes on past the batch, and fails there
FailsIn(first) == input.failAt > 0 /\ (first > Last \/ (BatchEnd(first) = Last /\ ~Full(first, Last)))

\* _sample_items
Sampled == Min({Last} \cup {s \in 1..Last : s >= Min({SampleUnits, input.batchUnits}) \/ Bytes(1, s) >= input.batchBytes})
SampleFails ==
  /\ input.failAt > 0 /\ Sampled = Last
  /\ Last < Min({SampleUnits, input.batchUnits}) /\ Bytes(1, Last) < input.batchBytes
WarrantsThreads == Sampled > 0 /\ MapThenSumSet(LAMBDA i : input.units[i].work, 1..Sampled) >= WorkPerUnit * Sampled

\* the finally of the generator is next
Leave(j, outcome) == [j EXCEPT !.pc = "closing", !.outcome = outcome, !.ready = <<>>]

\* The first pull opens the reader and chooses between one thread and many
Start ==
  /\ job.pc = "new"
  /\ LET opened == [job EXCEPT !.reader = "open", !.caller = "waits"]
     IN job' = IF Workers = 1 \/ input.maxPending = 1 THEN [opened EXCEPT !.pc = "serial"]
               ELSE IF SampleFails THEN Leave(opened, "error")
               ELSE IF input.workers = 0 /\ ~WarrantsThreads THEN [opened EXCEPT !.pc = "serial"]
               ELSE [opened EXCEPT !.pc = "read"]
  /\ UNCHANGED input

SerialNext ==
  /\ job.pc = "serial" /\ job.caller = "waits"
  /\ LET unit == job.taken + 1
     IN job' = IF job.taken = Last THEN Leave(job, IF input.failAt > 0 THEN "error" ELSE "end")
               ELSE IF input.units[unit].bad THEN Leave(job, "error")
               ELSE [job EXCEPT !.taken = unit, !.out = Append(@, unit), !.caller = "holds"]
  /\ UNCHANGED input

SubmitPast ==   \* mutant: one batch too many is submitted before a result is taken
  /\ job.pc = "read" /\ job.caller = "waits" /\ job.ready = <<>> /\ Len(job.pending) <= input.maxPending
  /\ job' = IF FailsIn(job.taken + 1) THEN Leave(job, "error")
            ELSE IF job.taken = Last THEN [job EXCEPT !.pc = "drain"]
            ELSE [job EXCEPT !.taken = BatchEnd(job.taken + 1), !.pending = Append(@, Batch(job.taken + 1))]
  /\ UNCHANGED input

\* The next batch is read and handed to the pool
Submit ==
  /\ job.pc = "read" /\ job.caller = "waits" /\ job.ready = <<>> /\ Len(job.pending) < input.maxPending
  /\ job' = IF FailsIn(job.taken + 1) THEN Leave(job, "error")
            ELSE IF job.taken = Last THEN [job EXCEPT !.pc = "drain"]
            ELSE [job EXCEPT !.taken = BatchEnd(job.taken + 1), !.pending = Append(@, Batch(job.taken + 1))]
  /\ UNCHANGED input

\* The oldest batch is waited for, when no more may be pending or all are read
Take ==
  /\ job.pc \in {"read", "drain"} /\ job.caller = "waits" /\ job.ready = <<>> /\ job.pending # <<>>
  /\ job.pc = "drain" \/ Len(job.pending) >= input.maxPending
  /\ LET batch == Head(job.pending)
         rest == [job EXCEPT !.pending = Tail(@)]
     IN \/ batch.state = "failed" /\ job' = Leave(rest, "error")
        \/ batch.state = "done" /\ job' = [rest EXCEPT !.ready = batch.units]
  /\ UNCHANGED input
Deliver ==
  /\ job.caller = "waits" /\ job.ready # <<>>
  /\ job' = [job EXCEPT !.out = Append(@, Head(job.ready)), !.ready = Tail(@), !.caller = "holds"]
  /\ UNCHANGED input
Drained ==
  /\ job.pc = "drain" /\ job.caller = "waits" /\ job.pending = <<>> /\ job.ready = <<>>
  /\ job' = Leave(job, "end")
  /\ UNCHANGED input

\* The caller asks for another unit, or closes the generator: before the first pull nothing is open
Ask ==
  /\ job.pc \in {"serial", "read", "drain"} /\ job.caller = "holds"
  /\ job' = [job EXCEPT !.caller = "waits"]
  /\ UNCHANGED input
Drop ==
  /\ job.pc \in {"new", "serial", "read", "drain"} /\ job.caller = "holds"
  /\ job' = IF job.pc = "new" THEN [job EXCEPT !.pc = "done", !.outcome = "closed"] ELSE Leave(job, "closed")
  /\ UNCHANGED input

-----------------------------------------------------------------------------
\* ThreadPoolExecutor: a free thread takes the oldest batch, and projects all of it or fails
In(state) == {i \in DOMAIN job.pending : job.pending[i].state = state}
StartBatch ==
  /\ In("queued") # {} /\ Cardinality(In("running")) < Workers
  /\ job' = [job EXCEPT !.pending[Min(In("queued"))].state = "running"]
  /\ UNCHANGED input
EndBatch ==
  /\ \E i \in In("running") :
       LET bad == \E n \in DOMAIN job.pending[i].units : input.units[job.pending[i].units[n]].bad
       IN job' = [job EXCEPT !.pending[i].state = IF bad THEN "failed" ELSE "done"]
  /\ UNCHANGED input

\* finally: the reader is closed, what no thread has begun is cancelled ...
Close ==
  /\ job.pc = "closing"
  /\ job' = [job EXCEPT !.pc = "joining", !.reader = "closed",
               !.pending = [i \in DOMAIN @ |-> IF @[i].state = "queued" THEN [@[i] EXCEPT !.state = "cancelled"] ELSE @[i]]]
  /\ UNCHANGED input
\* ... and the threads that run are waited for
Join ==
  /\ job.pc = "joining" /\ In("running") = {}
  /\ job' = [job EXCEPT !.pc = "done"]
  /\ UNCHANGED input

Next ==
  \/ Start \/ SerialNext \/ Submit \/ Take \/ Deliver \/ Drained \/ Ask \/ Drop
  \/ StartBatch \/ EndBatch \/ Close \/ Join
Spec == Init /\ [][Next]_vars

-----------------------------------------------------------------------------
\* The units come in the order of the file, however the threads are scheduled; a normal end
\* has given all of them; an error costs no more than the units that may be pending.
Failures == {i \in DOMAIN input.units : input.units[i].bad} \cup (IF input.failAt = 0 THEN {} ELSE {input.failAt})
OrderedAndComplete ==
  /\ job.out = [i \in 1..Len(job.out) |-> i]
  /\ job.outcome = "end" => Failures = {} /\ Len(job.out) = Len(input.units)
  /\ job.outcome = "error" =>
       /\ Failures # {} /\ Len(job.out) < Min(Failures)
       /\ Len(job.out) + input.maxPending * input.batchUnits >= Min(Failures)

\* No more results are held than max_pending_batches allows ("bounds all submitted batches,
\* including running work and completed results waiting for their deterministic output
\* turn"), and no batch is larger than batch_bytes but one of a single unit.
ProjectionIsBounded ==
  /\ Len(job.pending) + (IF job.ready = <<>> THEN 0 ELSE 1) <= input.maxPending
  /\ \A i \in DOMAIN job.pending :
       LET units == job.pending[i].units
       IN Len(units) = 1 \/ Bytes(units[1], units[Len(units)]) <= input.batchBytes

\* When the caller has its end, error or close, the file is closed and no thread is left.
ThreadsJoined == job.pc = "done" => job.reader # "open" /\ In("running") \cup In("queued") = {}

\* A caller is never left waiting for a batch that no thread will project: the oldest one,
\* which has its next unit, is with a thread or has been, or a thread is free to take it.
ResultWillCome ==
  job.pc \in {"read", "drain"} /\ job.pending # <<>> =>
    \/ Head(job.pending).state \in {"running", "done", "failed"}
    \/ Head(job.pending).state = "queued" /\ Cardinality(In("running")) < Workers
=============================================================================
