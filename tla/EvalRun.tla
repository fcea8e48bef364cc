------------------------------ MODULE EvalRun -------------------------------
(***************************************************************************)
(* One run of a built-in (no-code) benchmark, from `qt run' through any    *)
(* number of crashes and `qt resume's: execute_builtin, the batches of     *)
(* DatasetRunner, run_timed_step for each row, the aggregates, and the     *)
(* flush of the metrics.                                                   *)
(*                                                                         *)
(* A process evaluates the rows of a batch concurrently, up to MaxWorkers  *)
(* at a time, in one task: rows interleave at their awaits, and the first  *)
(* error drops every row still in flight where it stands.  Between two     *)
(* awaits of one process, the others and the system may do anything.       *)
(***************************************************************************)
EXTENDS DurableSteps, MetricsStore

CONSTANTS
    Limit,        \* rows asked for
    Available,    \* rows the dataset has
    BatchSize,    \* DatasetRunner's batch_size
    MaxWorkers    \* rows in flight at once

ASSUME SizesAssumption ==
    /\ Limit \in Nat /\ Available \in Nat /\ MaxWorkers \in Nat
    /\ BatchSize \in Nat \ {0}

(* Proc: the attempts at the run, one `qt run' and any number of `qt resume's.
   Key: a row's step key is its index.  Hash: versions of the configuration, as the
   rows' input hashes show it.  Value: a row's output is told by the attempt whose
   model call returned it. *)
Row == 1..Limit
ASSUME RowsAssumption == Key = Row /\ Value = Proc
ASSUME NullAssumption == NULL \notin Hash /\ NULL \notin Proc

(* Metric points: two for each row that is evaluated, and aggregates that say how
   many rows they stand for. *)
SamplePoint == [metric: {"latency", "score"}, row: Row]
AggregatePoint == [metric: {"accuracy", "mean_latency"}, rows: 0..(2 * Limit)]
Point == SamplePoint \cup AggregatePoint

VARIABLES
    output,        \* samples_completed of the run's output, or NULL
    pc,            \* [Proc -> where execute_builtin stands]
    config,        \* [Proc -> the configuration the process has read]
    processed,     \* [Proc -> rows of the finished batches]
    batch,         \* [Proc -> rows of the current batch, 0 between batches]
    task           \* [Proc -> [Row -> where the evaluation of the row stands]]

vars == <<run, step, buffer, file, output, pc, config, processed, batch, task>>

Alive(p) == pc[p] \notin {"idle", "exited", "crashed"}

TaskState == {"waiting", "working", "completed", "timed", "done", "dropped"}
InFlight(p) == {i \in Row : task[p][i] \in {"working", "completed", "timed"}}
Results(p) == {i \in Row : task[p][i] = "done"}
InBatch(p) == processed[p]+1 .. processed[p]+batch[p]

Least(a, b) == IF a <= b THEN a ELSE b

TypeOK ==
    /\ DurableType
    /\ MetricsType(Point)
    /\ output \in 0..Limit \cup {NULL}
    /\ pc \in [Proc -> {"idle", "resuming", "loop", "accuracy", "latencies", "output",
                        "completing", "failing", "flushing", "writing", "exited", "crashed"}]
    /\ config \in [Proc -> Hash \cup {NULL}]
    /\ processed \in [Proc -> 0..Least(Limit, Available)]
    /\ batch \in [Proc -> 0..BatchSize]
    /\ task \in [Proc -> [Row -> TaskState]]

Init ==
    /\ DurableInit
    /\ MetricsInit
    /\ output = NULL
    /\ pc = [p \in Proc |-> "idle"]
    /\ config = [p \in Proc |-> NULL]
    /\ processed = [p \in Proc |-> 0]
    /\ batch = [p \in Proc |-> 0]
    /\ task = [p \in Proc |-> [i \in Row |-> "waiting"]]

Goto(p, label) == pc' = [pc EXCEPT ![p] = label]
Advance(p, i, state) == task' = [task EXCEPT ![p][i] = state]

-----------------------------------------------------------------------------
(* Starting: `qt run' creates the run; `qt resume' reads it, refuses a completed
   one, and only then marks it running. *)

Run(p) ==
    /\ pc[p] = "idle"
    /\ StartRun
    /\ Goto(p, "loop")
    /\ \E h \in Hash : config' = [config EXCEPT ![p] = h]
    /\ UNCHANGED <<metrics, output, processed, batch, task>>

ReadRun(p) ==
    /\ pc[p] = "idle"
    /\ run \in {"running", "failed"}
    /\ Goto(p, "resuming")
    /\ \E h \in Hash : config' = [config EXCEPT ![p] = h]
    /\ UNCHANGED <<durable, metrics, output, processed, batch, task>>

Resume(p) ==
    /\ pc[p] = "resuming"
    /\ RestartRun
    /\ Goto(p, "loop")
    /\ UNCHANGED <<metrics, output, config, processed, batch, task>>

-----------------------------------------------------------------------------
(* The batches of for_each_concurrent. *)

FetchBatch(p) ==
    /\ pc[p] = "loop" /\ batch[p] = 0
    /\ processed[p] < Limit /\ processed[p] < Available
    /\ batch' = [batch EXCEPT ![p] =
                    Least(BatchSize, Least(Limit, Available) - processed[p])]
    /\ UNCHANGED <<durable, metrics, output, pc, config, processed, task>>

(* Everything asked for has been processed, or the batch fetched is empty. *)
EndLoop(p) ==
    /\ pc[p] = "loop" /\ batch[p] = 0
    /\ processed[p] >= Limit \/ processed[p] >= Available
    /\ Goto(p, "accuracy")
    /\ UNCHANGED <<durable, metrics, output, config, processed, batch, task>>

EndBatch(p) ==
    /\ pc[p] = "loop" /\ batch[p] > 0
    /\ InBatch(p) \subseteq Results(p)
    /\ processed' = [processed EXCEPT ![p] = @ + batch[p]]
    /\ batch' = [batch EXCEPT ![p] = 0]
    /\ UNCHANGED <<durable, metrics, output, pc, config, task>>

(* buffer_unordered takes rows in order while a worker is free. *)
IsNext(p, i) ==
    /\ pc[p] = "loop"
    /\ i \in InBatch(p) /\ task[p][i] = "waiting"
    /\ \A j \in InBatch(p) : j < i => task[p][j] # "waiting"
    /\ Cardinality(InFlight(p)) < MaxWorkers

(* An error drops the stream, and with it every row in flight.  Mutants: the run is
   aggregated without them; or the error is swallowed and the loop waits for them. *)
DropRowsQuietly(p) ==
    /\ task' = [task EXCEPT ![p] = [i \in Row |->
                    IF i \in InFlight(p) THEN "dropped" ELSE task[p][i]]]
    /\ Goto(p, "accuracy")
DropRowsAndWait(p) ==
    /\ task' = [task EXCEPT ![p] = [i \in Row |->
                    IF i \in InFlight(p) THEN "dropped" ELSE task[p][i]]]
    /\ UNCHANGED pc

DropRows(p) ==
    /\ task' = [task EXCEPT ![p] = [i \in Row |->
                    IF i \in InFlight(p) THEN "dropped" ELSE task[p][i]]]
    /\ Goto(p, "failing")

-----------------------------------------------------------------------------
(* run_timed_step and evaluate_row, for row i. *)

BeginRow(p, i) ==
    /\ IsNext(p, i)
    /\ \/ NewWork(i, config[p])
       \/ JoinWork(i, config[p])
       \/ RetryWork(i, config[p])
    /\ Advance(p, i, "working")
    /\ UNCHANGED <<metrics, output, pc, config, processed, batch>>

(* A cached output is a result, and emits no metrics. *)
ReuseRow(p, i) ==
    /\ IsNext(p, i)
    /\ ReuseWork(i, config[p])
    /\ Advance(p, i, "done")
    /\ UNCHANGED <<metrics, output, pc, config, processed, batch>>

(* The work is done and complete_step commits; its metrics are still to come. *)
CompleteRow(p, i) ==
    /\ pc[p] = "loop"
    /\ task[p][i] = "working"
    /\ FinishWork(i, p)
    /\ Advance(p, i, "completed")
    /\ UNCHANGED <<metrics, output, pc, config, processed, batch>>

(* Mutant: the latency is emitted as soon as the work is done. *)
EmitLatencyEarly(p, i) ==
    /\ pc[p] = "loop"
    /\ task[p][i] \in {"working", "completed"}
    /\ Emit(p, [metric |-> "latency", row |-> i])
    /\ Advance(p, i, IF task[p][i] = "working" THEN "working" ELSE "timed")
    /\ UNCHANGED <<durable, output, pc, config, processed, batch>>

EmitLatency(p, i) ==
    /\ pc[p] = "loop"
    /\ task[p][i] = "completed"
    /\ Emit(p, [metric |-> "latency", row |-> i])
    /\ Advance(p, i, "timed")
    /\ UNCHANGED <<durable, output, pc, config, processed, batch>>

EmitScore(p, i) ==
    /\ pc[p] = "loop"
    /\ task[p][i] = "timed"
    /\ Emit(p, [metric |-> "score", row |-> i])
    /\ Advance(p, i, "done")
    /\ UNCHANGED <<durable, output, pc, config, processed, batch>>

(* A row fails before its step is completed: the template does not render,
   begin_step finds another hash or a locked database, the model or complete_step
   fails.  A row that fails while working leaves its step running. *)
RowFails(p, i) ==
    /\ IsNext(p, i) \/ (pc[p] = "loop" /\ task[p][i] = "working")
    /\ DropRows(p)
    /\ UNCHANGED <<durable, metrics, output, config, processed, batch>>

-----------------------------------------------------------------------------
(* emit_default_aggregate_metrics and set_builtin_run_output. *)

EmitAccuracy(p) ==
    /\ pc[p] = "accuracy"
    /\ IF Results(p) = {}
       THEN Goto(p, "output") /\ UNCHANGED metrics
       ELSE /\ Emit(p, [metric |-> "accuracy", rows |-> Cardinality(Results(p))])
            /\ Goto(p, "latencies")
    /\ UNCHANGED <<durable, output, config, processed, batch, task>>

Latencies(p) == CountPoints(p, [metric: {"latency"}, row: Row])

(* The latencies of every attempt are wanted, so the file is read too. *)
EmitLatencies(p) ==
    /\ pc[p] = "latencies"
    /\ Readable
    /\ IF Latencies(p) = 0
       THEN UNCHANGED metrics
       ELSE Emit(p, [metric |-> "mean_latency", rows |-> Latencies(p)])
    /\ Goto(p, "output")
    /\ UNCHANGED <<durable, output, config, processed, batch, task>>

SetOutput(p) ==
    /\ pc[p] = "output"
    /\ output' = Cardinality(Results(p))
    /\ Goto(p, "completing")
    /\ UNCHANGED <<durable, metrics, config, processed, batch, task>>

(* The errors of execute outside of a row: before the loop or at a fetch, at an
   unreadable metrics file, and at the update of the output. *)
ExecuteFails(p) ==
    /\ \/ pc[p] = "loop" /\ batch[p] = 0 /\ (processed[p] < Limit \/ processed[p] = 0)
       \/ pc[p] = "latencies" /\ ~Readable
       \/ pc[p] = "output"
    /\ Goto(p, "failing")
    /\ UNCHANGED <<durable, metrics, output, config, processed, batch, task>>

-----------------------------------------------------------------------------
(* complete_run and fail_run: commit first, then flush. *)

Complete(p) ==
    /\ pc[p] = "completing"
    /\ FinishRun
    /\ Goto(p, "flushing")
    /\ UNCHANGED <<metrics, output, config, processed, batch, task>>

(* Mutant: the error is printed and the metrics flushed, but the run not failed. *)
FailUnrecorded(p) ==
    /\ pc[p] = "failing"
    /\ Goto(p, "flushing")
    /\ UNCHANGED <<durable, metrics, output, config, processed, batch, task>>

Fail(p) ==
    /\ pc[p] = "failing"
    /\ AbandonRun
    /\ Goto(p, "flushing")
    /\ UNCHANGED <<metrics, output, config, processed, batch, task>>

Flush(p) ==
    /\ \/ pc[p] = "flushing" /\ FlushNothing(p) /\ Goto(p, "exited")
       \/ pc[p] = "flushing" /\ FlushCreate(p) /\ Goto(p, "writing")
       \/ pc[p] = "writing" /\ FlushWrite(p) /\ Goto(p, "exited")
    /\ UNCHANGED <<durable, output, config, processed, batch, task>>

(* The process dies, or exits at an error past execute: nothing is rolled forward. *)
Crash(p) ==
    /\ Alive(p)
    /\ LoseBuffer(p)
    /\ task' = [task EXCEPT ![p] = [i \in Row |->
                    IF i \in InFlight(p) THEN "dropped" ELSE task[p][i]]]
    /\ Goto(p, "crashed")
    /\ UNCHANGED <<durable, output, config, processed, batch>>

-----------------------------------------------------------------------------
(* What a process does by itself, once it has started. *)
Proceed(p) ==
    \/ Resume(p) \/ FetchBatch(p) \/ EndLoop(p) \/ EndBatch(p)
    \/ \E i \in Row : \/ BeginRow(p, i) \/ ReuseRow(p, i) \/ CompleteRow(p, i)
                      \/ EmitLatency(p, i) \/ EmitScore(p, i) \/ RowFails(p, i)
    \/ EmitAccuracy(p) \/ EmitLatencies(p) \/ SetOutput(p) \/ ExecuteFails(p)
    \/ Complete(p) \/ Fail(p) \/ Flush(p)

(* `qt resume' takes any run that is not completed, running in another process or
   not. *)
Next == \E p \in Proc : Run(p) \/ ReadRun(p) \/ Proceed(p) \/ Crash(p)
Spec == Init /\ [][Next]_vars

(* The use the documentation has in mind: nobody resumes a run that is running. *)
SoloNext ==
    \E p \in Proc :
        \/ (\A q \in Proc : ~Alive(q)) /\ (Run(p) \/ ReadRun(p))
        \/ Proceed(p)
        \/ Crash(p)
SoloSpec == Init /\ [][SoloNext]_vars

(* A started process is scheduled until it is over: its futures are polled, its
   requests are answered, with a result or an error. *)
FairSpec == Spec /\ \A p \in Proc : WF_vars(Proceed(p))

-----------------------------------------------------------------------------
(* Properties. *)

Evaluated == 1..Least(Limit, Available)

(* A completed run is whole, whatever crashed, failed or overlapped before: every
   row of the dataset that was asked for has a completed step, and the run's output
   reports exactly them. *)
CompletedRunIsWhole ==
    run = "completed" =>
        /\ \A i \in Evaluated : step[i].status = "completed"
        /\ output = Cardinality(Evaluated)

(* A completed run never mixes rows of two configurations, although every attempt
   reads the configuration anew. *)
CompletedRunIsUniform ==
    run = "completed" => \A i, j \in Evaluated : step[i].hash = step[j].hash

(* The types are kept, and a point about a row, in memory or on disk, is about a row
   whose step is completed: the metrics never run ahead of the database. *)
MetricsOfCompletedRowsOnly ==
    /\ TypeOK
    /\ \A x \in file.points \cup UNION {buffer[p] : p \in Proc} :
          x \in SamplePoint => step[x.row].status = "completed"

(* No row's latency is at once in the file and in a live buffer, so that the
   aggregates, taken over both, count each row once.  Aggregates on disk stand for the
   rows they are printed for: the accuracy for all of them, the latency for at least
   those whose latencies are beside it and for at most all. *)
LatencyCountedOnce ==
    \A p \in Proc : file.points \cap buffer[p] \cap SamplePoint = {}
AggregatesAreHonest ==
    /\ LatencyCountedOnce
    /\ \A x \in file.points \cap AggregatePoint :
          IF x.metric = "accuracy"
          THEN x.rows = Cardinality(Evaluated)
          ELSE /\ x.rows <= Cardinality(Evaluated)
               /\ x.rows >= Cardinality({y \in file.points \cap SamplePoint : y.metric = "latency"})

(* The output of a completed row is never computed again: no attempt repeats work
   that an earlier one has finished. *)
CompletedOutputIsFinal ==
    [][\A i \in Row : step[i].status = "completed" => step'[i] = step[i]]_vars

(* Every process that starts comes to an end. *)
EveryAttemptEnds == \A p \in Proc : Alive(p) ~> ~Alive(p)

(* A run does not stay "running" unless a process has crashed on it. *)
RunSettles == run = "running" ~> (run # "running" \/ \E p \in Proc : pc[p] = "crashed")

(* When a run is completed and every process has exited in order, each row's
   latency and score are in the metrics file.  They are not if an earlier attempt
   evaluated the row: the flush of the last attempt overwrites its file. *)
CompletedRunHasItsMetrics ==
    run = "completed" /\ (\A p \in Proc : pc[p] \in {"idle", "exited"}) =>
        \A i \in Evaluated : \A m \in {"latency", "score"} :
            [metric |-> m, row |-> i] \in file.points

=============================================================================
