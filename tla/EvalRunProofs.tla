--------------------------- MODULE EvalRunProofs ----------------------------
(***************************************************************************)
(* Proofs about EvalRun, for any number of attempts, configurations and    *)
(* rows: first what holds even though attempts may overlap (Spec), then    *)
(* what needs them to follow one another (SoloSpec).                       *)
(***************************************************************************)
EXTENDS EvalRun, FiniteSetTheorems, TLAPS

(* The inductive invariant.  A row an attempt works on, or has worked on, has a record
   with the hash of the attempt's configuration. *)
WorkIsRecorded ==
    \A p \in Proc, i \in Row :
        task[p][i] \in {"working", "completed", "timed", "done"} =>
            step[i].status # "absent" /\ step[i].hash = config[p]

(* Past complete_step, and at a reuse, the record is a completed one. *)
ResultsAreRecorded ==
    \A p \in Proc, i \in Row :
        task[p][i] \in {"completed", "timed", "done"} => step[i].status = "completed"

(* The batches of an attempt cover the rows in order: those before the current batch
   are done, and those after it are not begun. *)
BatchesInOrder ==
    \A p \in Proc :
        /\ processed[p] + batch[p] <= Least(Limit, Available)
        /\ \A i \in 1..processed[p] : task[p][i] = "done"
        /\ \A i \in Row : task[p][i] # "waiting" => i <= processed[p] + batch[p]
        /\ pc[p] \in {"idle", "resuming"} => processed[p] = 0 /\ batch[p] = 0

(* An attempt that has left the loop without an error is through with all batches. *)
Aggregating(p) == pc[p] \in {"accuracy", "latencies", "output", "completing"}
LoopIsOver ==
    \A p \in Proc :
        Aggregating(p) => processed[p] = Least(Limit, Available) /\ batch[p] = 0

(* A process that has started has read the configuration. *)
ConfigIsRead == \A p \in Proc : pc[p] # "idle" => config[p] \in Hash

(* set_builtin_run_output comes before complete_run. *)
OutputIsSet == (\E p \in Proc : pc[p] = "completing") => output = Cardinality(Evaluated)

RunInv ==
    /\ TypeOK
    /\ ConfigIsRead
    /\ WorkIsRecorded
    /\ ResultsAreRecorded
    /\ BatchesInOrder
    /\ LoopIsOver
    /\ OutputIsSet
    /\ CompletedRunIsWhole
    /\ CompletedRunIsUniform
    /\ MetricsOfCompletedRowsOnly

-----------------------------------------------------------------------------
(* Rows and points are finite, and there are at most Limit of a kind. *)

LEMMA RowsAreFinite ==
    /\ IsFiniteSet(Row) /\ Cardinality(Row) = Limit
    /\ Evaluated \subseteq Row
    /\ \A S \in SUBSET Row : IsFiniteSet(S) /\ Cardinality(S) \in 0..Limit
  <1>1. IsFiniteSet(Row) /\ Cardinality(Row) = Limit
    BY SizesAssumption, FS_Interval DEF Row
  <1>2. \A S \in SUBSET Row : IsFiniteSet(S) /\ Cardinality(S) \in 0..Limit
    BY <1>1, FS_Subset, FS_CardinalityType, SizesAssumption
  <1>3. QED
    BY <1>1, <1>2, SizesAssumption DEF Evaluated, Row, Least

LEMMA PointsAreFinite ==
    ASSUME NEW S \in SUBSET Row, NEW m, NEW T \in SUBSET [metric: {m}, row: S]
    PROVE  IsFiniteSet(T) /\ Cardinality(T) \in 0..Cardinality(S)
  <1> DEFINE f == [x \in T |-> x.row]
  <1>1. f \in Injection(T, S)
    BY DEF Injection, IsInjective
  <1>2. IsFiniteSet(S) /\ Cardinality(S) \in Nat
    BY RowsAreFinite
  <1>3. IsFiniteSet(T) /\ Cardinality(T) <= Cardinality(S)
    BY <1>1, <1>2, FS_Injection
  <1>4. QED
    BY <1>2, <1>3, FS_CardinalityType

(* At most one latency of each row in the file, and one in the buffer. *)
LEMMA LatenciesAreBounded ==
    ASSUME TypeOK, NEW p \in Proc
    PROVE  Latencies(p) \in 0..(2 * Limit)
  <1> DEFINE L == [metric: {"latency"}, row: Row]
  <1>1. Cardinality(file.points \cap L) \in 0..Limit
    BY PointsAreFinite, RowsAreFinite
  <1>2. Cardinality(buffer[p] \cap L) \in 0..Limit
    BY PointsAreFinite, RowsAreFinite
  <1>3. QED
    BY <1>1, <1>2, SizesAssumption DEF Latencies, CountPoints

-----------------------------------------------------------------------------
(* Type correctness. *)

(* Each action on the shared record of the run and its steps keeps its type. *)
LEMMA DurableKeepsType ==
    ASSUME DurableType, DurableNext
    PROVE  DurableType'
  <1>1. CASE StartRun \/ RestartRun \/ FinishRun
    BY <1>1 DEF StartRun, RestartRun, FinishRun, DurableType, Status
  <1>2. CASE AbandonRun
    <2>1. ASSUME NEW k \in Key PROVE [step[k] EXCEPT !.status = "failed"] \in Record
      BY DEF DurableType, Record, Status
    <2>2. QED
      BY <1>2, <2>1 DEF AbandonRun, DurableType, Status
  <1>3. ASSUME NEW k \in Key, NEW h \in Hash,
               NewWork(k, h) \/ JoinWork(k, h) \/ RetryWork(k, h) \/ ReuseWork(k, h)
        PROVE  DurableType'
    BY <1>3 DEF NewWork, JoinWork, RetryWork, ReuseWork, DurableType, Record, Status,
                NoRecord, durable
  <1>4. ASSUME NEW k \in Key, NEW v \in Value, FinishWork(k, v)
        PROVE  DurableType'
    BY <1>4 DEF FinishWork, DurableType, Record, Status
  <1>5. ASSUME NEW k \in Key, AbandonWork(k)
        PROVE  DurableType'
    BY <1>5 DEF AbandonWork, DurableType, Record, Status
  <1>6. QED
    BY <1>1, <1>2, <1>3, <1>4, <1>5 DEF DurableNext

ActionOf(p) == Run(p) \/ ReadRun(p) \/ Proceed(p) \/ Crash(p)

(* Where a process stands, its batches and its rows keep their types. *)
ControlType ==
    /\ output \in 0..Limit \cup {NULL}
    /\ pc \in [Proc -> {"idle", "resuming", "loop", "accuracy", "latencies", "output",
                        "completing", "failing", "flushing", "writing", "exited", "crashed"}]
    /\ config \in [Proc -> Hash \cup {NULL}]
    /\ processed \in [Proc -> 0..Least(Limit, Available)]
    /\ batch \in [Proc -> 0..BatchSize]
    /\ task \in [Proc -> [Row -> TaskState]]

LEMMA ControlKeepsType ==
    ASSUME ControlType, BatchesInOrder, NEW p \in Proc, ActionOf(p)
    PROVE  ControlType'
  <1> USE DEF ControlType, Goto, Advance, TaskState
  <1>1. CASE Run(p) \/ ReadRun(p)
    BY <1>1 DEF Run, ReadRun
  <1>2. CASE Resume(p) \/ EndLoop(p)
    BY <1>2 DEF Resume, EndLoop
  <1>3. CASE FetchBatch(p)
    BY <1>3, SizesAssumption DEF FetchBatch, Least
  <1>4. CASE EndBatch(p)
    BY <1>4, SizesAssumption DEF EndBatch, BatchesInOrder, Least
  <1>5. ASSUME NEW i \in Row,
               \/ BeginRow(p, i) \/ ReuseRow(p, i) \/ CompleteRow(p, i)
               \/ EmitLatency(p, i) \/ EmitScore(p, i)
        PROVE  ControlType'
    <2>1. /\ \E state \in TaskState : Advance(p, i, state)
          /\ UNCHANGED <<output, pc, config, processed, batch>>
      BY <1>5 DEF BeginRow, ReuseRow, CompleteRow, EmitLatency, EmitScore
    <2>2. QED
      BY <2>1
  <1>6. ASSUME NEW i \in Row, RowFails(p, i)
        PROVE  ControlType'
    BY <1>6 DEF RowFails, DropRows
  <1>7. CASE EmitAccuracy(p) \/ EmitLatencies(p)
    BY <1>7 DEF EmitAccuracy, EmitLatencies
  <1>8. CASE SetOutput(p)
    BY <1>8, RowsAreFinite DEF SetOutput, Results
  <1>9. CASE ExecuteFails(p) \/ Complete(p) \/ Fail(p) \/ Flush(p)
    BY <1>9 DEF ExecuteFails, Complete, Fail, Flush
  <1>10. CASE Crash(p)
    BY <1>10 DEF Crash
  <1>11. QED
    BY <1>1, <1>2, <1>3, <1>4, <1>5, <1>6, <1>7, <1>8, <1>9, <1>10
    DEF ActionOf, Proceed

(* The points of a process, and those of the file, are points about rows. *)
LEMMA MetricsKeepType ==
    ASSUME TypeOK, NEW p \in Proc, ActionOf(p)
    PROVE  MetricsType(Point)'
  <1> USE DEF MetricsType, metrics
  <1>0. MetricsType(Point)
    BY DEF TypeOK
  <1>1. ASSUME NEW x \in Point, Emit(p, x)
        PROVE  MetricsType(Point)'
    BY <1>0, <1>1 DEF Emit
  <1>2. CASE UNCHANGED metrics
    BY <1>0, <1>2
  <1>3. ASSUME NEW i \in Row, EmitLatency(p, i) \/ EmitScore(p, i)
        PROVE  MetricsType(Point)'
    <2>1. \A m \in {"latency", "score"} : [metric |-> m, row |-> i] \in Point
      BY DEF Point, SamplePoint
    <2>2. QED
      BY <1>1, <1>3, <2>1 DEF EmitLatency, EmitScore
  <1>4. CASE EmitAccuracy(p)
    <2>1. [metric |-> "accuracy", rows |-> Cardinality(Results(p))] \in Point
      BY RowsAreFinite, SizesAssumption DEF Point, AggregatePoint, Results
    <2>2. QED
      BY <1>1, <1>2, <1>4, <2>1 DEF EmitAccuracy
  <1>5. CASE EmitLatencies(p)
    <2>1. [metric |-> "mean_latency", rows |-> Latencies(p)] \in Point
      BY LatenciesAreBounded DEF Point, AggregatePoint
    <2>2. QED
      BY <1>1, <1>2, <1>5, <2>1 DEF EmitLatencies
  <1>6. CASE Flush(p)
    BY <1>0, <1>6 DEF Flush, FlushNothing, FlushCreate, FlushWrite, TornFile, Written
  <1>7. CASE Crash(p)
    BY <1>0, <1>7 DEF Crash, LoseBuffer
  <1>8. QED
    BY <1>2, <1>3, <1>4, <1>5, <1>6, <1>7
    DEF ActionOf, Proceed, Run, ReadRun, Resume, FetchBatch, EndLoop, EndBatch, BeginRow, ReuseRow,
        CompleteRow, RowFails, SetOutput, ExecuteFails, Complete, Fail

(* Every step is one of the database's operations, or leaves the database alone. *)
LEMMA StepsAreDurable ==
    ASSUME TypeOK, ConfigIsRead, NEW p \in Proc, ActionOf(p)
    PROVE  DurableNext \/ UNCHANGED durable
  <1>1. ASSUME NEW i \in Row, BeginRow(p, i) \/ ReuseRow(p, i)
        PROVE  DurableNext
    <2>1. i \in Key /\ config[p] \in Hash
      BY <1>1, RowsAssumption DEF BeginRow, ReuseRow, IsNext, ConfigIsRead
    <2>2. QED
      BY <1>1, <2>1 DEF BeginRow, ReuseRow, DurableNext
  <1>2. ASSUME NEW i \in Row, CompleteRow(p, i)
        PROVE  DurableNext
    BY <1>2, RowsAssumption DEF CompleteRow, DurableNext
  <1>3. CASE Run(p) \/ Resume(p) \/ Complete(p) \/ Fail(p)
    BY <1>3 DEF Run, Resume, Complete, Fail, DurableNext
  <1>4. QED
    BY <1>1, <1>2, <1>3
    DEF ActionOf, Proceed, ReadRun, FetchBatch, EndLoop, EndBatch, EmitLatency, EmitScore, RowFails,
        EmitAccuracy, EmitLatencies, SetOutput, ExecuteFails, Flush, Crash

LEMMA TypeOKNext ==
    ASSUME TypeOK, ConfigIsRead, BatchesInOrder, NEW p \in Proc, ActionOf(p)
    PROVE  TypeOK'
  <1>1. DurableType'
    BY StepsAreDurable, DurableKeepsType DEF TypeOK, DurableType, durable
  <1>2. MetricsType(Point)'
    BY MetricsKeepType
  <1>3. ControlType'
    BY ControlKeepsType DEF TypeOK, ControlType
  <1>4. QED
    BY <1>1, <1>2, <1>3 DEF TypeOK, ControlType

-----------------------------------------------------------------------------
(* Where a process stands: its configuration, its batches, and its rows. *)

LEMMA ConfigIsReadNext ==
    ASSUME TypeOK, ConfigIsRead, NEW p \in Proc, ActionOf(p)
    PROVE  ConfigIsRead'
  <1> USE DEF TypeOK, ConfigIsRead, Goto
  <1>1. CASE Run(p) \/ ReadRun(p)
    BY <1>1 DEF Run, ReadRun
  <1>2. CASE Crash(p)
    BY <1>2 DEF Crash, Alive
  <1>3. CASE Proceed(p)
    <2>1. UNCHANGED config /\ \E l : pc' = [pc EXCEPT ![p] = l] /\ pc[p] # "idle"
      BY <1>3 DEF Proceed, Resume, FetchBatch, EndLoop, EndBatch, BeginRow, ReuseRow,
                  IsNext, CompleteRow, EmitLatency, EmitScore, RowFails, DropRows,
                  EmitAccuracy, EmitLatencies, SetOutput, ExecuteFails, Complete, Fail, Flush
    <2>2. QED
      BY <2>1
  <1>4. QED
    BY <1>1, <1>2, <1>3 DEF ActionOf

(* How an action of a process moves its rows: each stays where it is, is dropped, or
   takes the step of the row that the action is. *)
Moves(p, i, from, to) == task[p][i] = from /\ task'[p][i] = to

LEMMA TaskOfNext ==
    ASSUME TypeOK, NEW p \in Proc, ActionOf(p), NEW i \in Row
    PROVE  \/ task'[p][i] = task[p][i]
           \/ i \in InFlight(p) /\ task'[p][i] = "dropped"
           \/ BeginRow(p, i) /\ Moves(p, i, "waiting", "working")
           \/ ReuseRow(p, i) /\ Moves(p, i, "waiting", "done")
           \/ CompleteRow(p, i) /\ Moves(p, i, "working", "completed")
           \/ EmitLatency(p, i) /\ Moves(p, i, "completed", "timed")
           \/ EmitScore(p, i) /\ Moves(p, i, "timed", "done")
  <1>0. task \in [Proc -> [Row -> TaskState]]
    BY DEF TypeOK
  <1>1. ASSUME NEW j \in Row, NEW state, Advance(p, j, state)
        PROVE  IF i = j THEN task'[p][i] = state ELSE task'[p][i] = task[p][i]
    BY <1>0, <1>1 DEF Advance
  <1>2. ASSUME NEW j \in Row, BeginRow(p, j) \/ ReuseRow(p, j)
        PROVE  \/ task'[p][i] = task[p][i]
               \/ BeginRow(p, i) /\ Moves(p, i, "waiting", "working")
               \/ ReuseRow(p, i) /\ Moves(p, i, "waiting", "done")
    BY <1>1, <1>2 DEF BeginRow, ReuseRow, IsNext, Moves
  <1>3. ASSUME NEW j \in Row, CompleteRow(p, j) \/ EmitLatency(p, j) \/ EmitScore(p, j)
        PROVE  \/ task'[p][i] = task[p][i]
               \/ CompleteRow(p, i) /\ Moves(p, i, "working", "completed")
               \/ EmitLatency(p, i) /\ Moves(p, i, "completed", "timed")
               \/ EmitScore(p, i) /\ Moves(p, i, "timed", "done")
    BY <1>1, <1>3 DEF CompleteRow, EmitLatency, EmitScore, Moves
  <1>4. ASSUME task' = [task EXCEPT ![p] = [j \in Row |->
                            IF j \in InFlight(p) THEN "dropped" ELSE task[p][j]]]
        PROVE  task'[p][i] = task[p][i] \/ (i \in InFlight(p) /\ task'[p][i] = "dropped")
    BY <1>0, <1>4
  <1>5. QED
    BY <1>2, <1>3, <1>4
    DEF ActionOf, Proceed, Run, ReadRun, Resume, FetchBatch, EndLoop, EndBatch, RowFails,
        DropRows, EmitAccuracy, EmitLatencies, SetOutput, ExecuteFails, Complete, Fail, Flush,
        Crash

(* An action of a process moves only its own rows, and those forward: a result stays
   one, and a row that is not begun is begun in the current batch only. *)
LEMMA RowsOfNext ==
    ASSUME TypeOK, NEW p \in Proc, ActionOf(p)
    PROVE  /\ \A q \in Proc \ {p} :
                  /\ task'[q] = task[q] /\ pc'[q] = pc[q] /\ config'[q] = config[q]
                  /\ processed'[q] = processed[q] /\ batch'[q] = batch[q]
           /\ \A i \in Row :
                  /\ task[p][i] = "done" => task'[p][i] = "done"
                  /\ task[p][i] = "waiting" /\ task'[p][i] # "waiting" =>
                        pc[p] = "loop" /\ i \in InBatch(p) /\ UNCHANGED <<processed, batch>>
           /\ processed'[p] + batch'[p] # processed[p] + batch[p] \/ processed'[p] # processed[p] =>
                  FetchBatch(p) \/ EndBatch(p)
           /\ pc'[p] \in {"idle", "resuming"} => pc[p] \in {"idle", "resuming"}
  <1> USE DEF TypeOK, Goto, Advance, IsNext, InFlight
  <1>1. CASE Run(p) \/ ReadRun(p) \/ Resume(p) \/ EndLoop(p) \/ EmitAccuracy(p)
             \/ EmitLatencies(p) \/ SetOutput(p) \/ ExecuteFails(p) \/ Complete(p)
             \/ Fail(p) \/ Flush(p)
    BY <1>1 DEF Run, ReadRun, Resume, EndLoop, EmitAccuracy, EmitLatencies, SetOutput,
                ExecuteFails, Complete, Fail, Flush
  <1>2. CASE FetchBatch(p)
    BY <1>2 DEF FetchBatch
  <1>3. CASE EndBatch(p)
    BY <1>3 DEF EndBatch
  <1>4. ASSUME NEW i \in Row, BeginRow(p, i) \/ ReuseRow(p, i)
        PROVE  task'[p][i] # "waiting" /\ pc[p] = "loop" /\ i \in InBatch(p)
               /\ task[p][i] = "waiting"
               /\ \E state : task' = [task EXCEPT ![p][i] = state]
               /\ UNCHANGED <<pc, config, processed, batch>>
    BY <1>4 DEF BeginRow, ReuseRow
  <1>5. ASSUME NEW i \in Row, CompleteRow(p, i) \/ EmitLatency(p, i) \/ EmitScore(p, i)
        PROVE  /\ task[p][i] \notin {"waiting", "done"}
               /\ \E state : task' = [task EXCEPT ![p][i] = state]
               /\ UNCHANGED <<pc, config, processed, batch>>
    BY <1>5 DEF CompleteRow, EmitLatency, EmitScore
  <1>6. ASSUME NEW i \in Row, RowFails(p, i)
        PROVE  /\ task' = [task EXCEPT ![p] = [j \in Row |->
                               IF j \in InFlight(p) THEN "dropped" ELSE task[p][j]]]
               /\ pc' = [pc EXCEPT ![p] = "failing"]
               /\ UNCHANGED <<config, processed, batch>>
    BY <1>6 DEF RowFails, DropRows
  <1>7. CASE Crash(p)
    BY <1>7 DEF Crash
  <1>8. QED
    BY <1>1, <1>2, <1>3, <1>4, <1>5, <1>6, <1>7 DEF ActionOf, Proceed
LEMMA BatchesInOrderNext ==
    ASSUME TypeOK, BatchesInOrder, NEW p \in Proc, ActionOf(p)
    PROVE  BatchesInOrder'
  <1> DEFINE Ordered(q) ==
          /\ processed[q] + batch[q] <= Least(Limit, Available)
          /\ \A i \in 1..processed[q] : task[q][i] = "done"
          /\ \A i \in Row : task[q][i] # "waiting" => i <= processed[q] + batch[q]
          /\ pc[q] \in {"idle", "resuming"} => processed[q] = 0 /\ batch[q] = 0
  <1>0. /\ Ordered(p) /\ 1..processed[p] \subseteq Row /\ Least(Limit, Available) <= Limit
        /\ processed[p] \in Nat /\ batch[p] \in Nat
        /\ processed'[p] \in Nat /\ batch'[p] \in Nat
    <2>1. ControlType /\ ControlType'
      BY ControlKeepsType DEF TypeOK, ControlType
    <2>2. QED
      BY <2>1, SizesAssumption DEF BatchesInOrder, ControlType, Least, Row
  <1>1. ASSUME NEW q \in Proc, q # p PROVE Ordered(q)'
    BY <1>1, RowsOfNext DEF BatchesInOrder
  <1>2. ASSUME FetchBatch(p) PROVE Ordered(p)'
    <2>1. /\ processed' = processed /\ pc'[p] = "loop" /\ task' = task /\ batch[p] = 0
          /\ processed[p] + batch'[p] <= Least(Limit, Available)
      BY <1>0, <1>2, SizesAssumption DEF TypeOK, FetchBatch, Least
    <2>2. ASSUME NEW i \in Row, task[p][i] # "waiting" PROVE i <= processed[p] + batch'[p]
      BY <1>0, <2>1, <2>2 DEF Row
    <2>3. QED
      BY <1>0, <2>1, <2>2
  <1>3. ASSUME EndBatch(p) PROVE Ordered(p)'
    <2>1. /\ processed'[p] = processed[p] + batch[p] /\ batch'[p] = 0
          /\ pc'[p] = "loop" /\ task' = task
      BY <1>3 DEF EndBatch, TypeOK
    <2>2. \A i \in 1..processed'[p] : task[p][i] = "done"
      BY <1>0, <1>3, <2>1 DEF EndBatch, Results, InBatch
    <2>3. QED
      BY <1>0, <2>1, <2>2
  <1>4. ASSUME ~FetchBatch(p), ~EndBatch(p) PROVE Ordered(p)'
    <2>1. processed'[p] = processed[p] /\ batch'[p] = batch[p]
      BY <1>0, <1>4, RowsOfNext
    <2>2. \A i \in 1..processed[p] : task'[p][i] = "done"
      BY <1>0, RowsOfNext
    <2>3. ASSUME NEW i \in Row, task'[p][i] # "waiting" PROVE i <= processed[p] + batch[p]
      BY <1>0, <2>3, RowsOfNext DEF InBatch
    <2>4. QED
      BY <1>0, <2>1, <2>2, <2>3, RowsOfNext
  <1>5. QED
    BY <1>1, <1>2, <1>3, <1>4 DEF BatchesInOrder

LEMMA LoopIsOverNext ==
    ASSUME TypeOK, BatchesInOrder, LoopIsOver, NEW p \in Proc, ActionOf(p)
    PROVE  LoopIsOver'
  <1>1. ASSUME NEW q \in Proc \ {p}, Aggregating(q)'
        PROVE  processed'[q] = Least(Limit, Available) /\ batch'[q] = 0
    BY <1>1, RowsOfNext DEF LoopIsOver, Aggregating
  <1>2. CASE EndLoop(p)
    BY <1>1, <1>2, SizesAssumption DEF EndLoop, BatchesInOrder, LoopIsOver, Goto, TypeOK, Least
  <1>3. ASSUME ~EndLoop(p), Aggregating(p)'
        PROVE  Aggregating(p) /\ UNCHANGED <<processed, batch>>
    BY <1>3
    DEF ActionOf, Proceed, Aggregating, TypeOK, Goto, Run, ReadRun, Resume, FetchBatch, EndBatch,
        BeginRow, ReuseRow, IsNext, CompleteRow, EmitLatency, EmitScore, RowFails, DropRows,
        EmitAccuracy, EmitLatencies, SetOutput, ExecuteFails, Complete, Fail, Flush, Crash
  <1>4. QED
    BY <1>1, <1>2, <1>3 DEF LoopIsOver

(* An attempt that has left the loop without an error has all rows as results. *)
LEMMA AllResults ==
    ASSUME TypeOK, BatchesInOrder, LoopIsOver, NEW p \in Proc, Aggregating(p)
    PROVE  Results(p) = Evaluated
  <1>1. processed[p] = Least(Limit, Available) /\ batch[p] = 0
    BY DEF LoopIsOver
  <1>2. ASSUME NEW i \in Row PROVE i \in Evaluated <=> task[p][i] = "done"
    BY <1>1, SizesAssumption DEF BatchesInOrder, Evaluated, Row, Least
  <1>3. QED
    BY <1>2, RowsAreFinite DEF Results

LEMMA OutputIsSetNext ==
    ASSUME TypeOK, BatchesInOrder, LoopIsOver, OutputIsSet, NEW p \in Proc, ActionOf(p)
    PROVE  OutputIsSet'
  <1>1. CASE SetOutput(p)
    BY <1>1, AllResults DEF SetOutput, Aggregating, OutputIsSet, Evaluated
  <1>2. CASE ~SetOutput(p)
    <2>1. output' = output /\ (pc'[p] = "completing" => pc[p] = "completing")
      BY <1>2
      DEF ActionOf, Proceed, TypeOK, Goto, Run, ReadRun, Resume, FetchBatch, EndLoop, EndBatch,
          BeginRow, ReuseRow, IsNext, CompleteRow, EmitLatency, EmitScore, RowFails, DropRows,
          EmitAccuracy, EmitLatencies, ExecuteFails, Complete, Fail, Flush, Crash
    <2>2. QED
      BY <2>1, RowsOfNext DEF OutputIsSet, Evaluated
  <1>3. QED
    BY <1>1, <1>2

-----------------------------------------------------------------------------
(* The records of the rows. *)

(* A record keeps its hash, and once completed it stays completed. *)
LEMMA RecordsLast ==
    ASSUME TypeOK, NEW p \in Proc, ActionOf(p), NEW i \in Row, step[i].status # "absent"
    PROVE  /\ step'[i].status # "absent" /\ step'[i].hash = step[i].hash
           /\ step[i].status = "completed" => step'[i].status = "completed"
  <1>0. step \in [Row -> Record]
    BY RowsAssumption DEF TypeOK, DurableType
  <1>1. CASE Fail(p)
    BY <1>0, <1>1, RowsAssumption DEF Fail, AbandonRun, Record
  <1>2. ASSUME NEW j \in Row, BeginRow(p, j)
        PROVE  /\ step' \in {step} \cup
                      {[step EXCEPT ![j] = [NoRecord EXCEPT !.status = "running", !.hash = config[p]]],
                       [step EXCEPT ![j].status = "running"]}
               /\ step' # step => step[j].status \in {"absent", "failed"}
               /\ step' # step /\ step[j].status # "absent" => step' = [step EXCEPT ![j].status = "running"]
    BY <1>2 DEF BeginRow, NewWork, JoinWork, RetryWork, durable
  <1>3. ASSUME NEW j \in Row, BeginRow(p, j) PROVE
          /\ step'[i].status # "absent" /\ step'[i].hash = step[i].hash
          /\ step[i].status = "completed" => step'[i].status = "completed"
    BY <1>0, <1>2, <1>3 DEF Record
  <1>4. ASSUME NEW j \in Row, CompleteRow(p, j) PROVE
          /\ step'[i].status # "absent" /\ step'[i].hash = step[i].hash
          /\ step[i].status = "completed" => step'[i].status = "completed"
    BY <1>0, <1>4 DEF CompleteRow, FinishWork, Record
  <1>5. (\A j \in Row : ~BeginRow(p, j) /\ ~CompleteRow(p, j)) /\ ~Fail(p) => step' = step
    BY DEF ActionOf, Proceed, Run, ReadRun, Resume, FetchBatch, EndLoop, EndBatch, ReuseRow,
           EmitLatency, EmitScore, RowFails, EmitAccuracy, EmitLatencies, SetOutput,
           ExecuteFails, Complete, Flush, Crash, StartRun, RestartRun, FinishRun, ReuseWork,
           durable
  <1>6. QED
    BY <1>1, <1>3, <1>4, <1>5

LEMMA WorkIsRecordedNext ==
    ASSUME TypeOK, ConfigIsRead, BatchesInOrder, WorkIsRecorded, NEW p \in Proc, ActionOf(p)
    PROVE  WorkIsRecorded'
  <1> DEFINE Begun(state) == state \in {"working", "completed", "timed", "done"}
  <1>0. step \in [Row -> Record]
    BY RowsAssumption DEF TypeOK, DurableType
  <1>1. ASSUME NEW q \in Proc, NEW i \in Row, Begun(task[q][i]), config'[q] = config[q]
        PROVE  step'[i].status # "absent" /\ step'[i].hash = config'[q]
    BY <1>1, RecordsLast DEF WorkIsRecorded
  <1>2. ASSUME NEW i \in Row, Begun(task'[p][i]), ~Begun(task[p][i])
        PROVE  BeginRow(p, i) \/ ReuseRow(p, i)
    BY <1>2, TaskOfNext DEF Moves
  <1>3. ASSUME NEW i \in Row, BeginRow(p, i) \/ ReuseRow(p, i)
        PROVE  step'[i].status # "absent" /\ step'[i].hash = config'[p]
    <2>1. UNCHANGED config
      BY <1>3 DEF BeginRow, ReuseRow
    <2>2. CASE NewWork(i, config[p])
      BY <1>0, <2>1, <2>2 DEF NewWork, NoRecord
    <2>3. CASE RetryWork(i, config[p])
      BY <1>0, <2>1, <2>3 DEF RetryWork, Record
    <2>4. CASE JoinWork(i, config[p]) \/ ReuseWork(i, config[p])
      BY <2>1, <2>4 DEF JoinWork, ReuseWork, durable
    <2>5. QED
      BY <1>3, <2>2, <2>3, <2>4 DEF BeginRow, ReuseRow
  <1>4. ASSUME NEW i \in Row, Begun(task[p][i]), config'[p] # config[p]
        PROVE  FALSE
    <2>1. pc[p] = "idle"
      BY <1>4
      DEF ActionOf, Proceed, Run, ReadRun, Resume, FetchBatch, EndLoop, EndBatch,
          BeginRow, ReuseRow, CompleteRow, EmitLatency, EmitScore, RowFails,
          EmitAccuracy, EmitLatencies, SetOutput, ExecuteFails, Complete, Fail, Flush, Crash
    <2>2. i <= 0 /\ i > 0
      BY <1>4, <2>1, SizesAssumption DEF BatchesInOrder, Row
    <2>3. QED
      BY <2>2, SizesAssumption DEF Row
  <1>5. QED
    BY <1>1, <1>2, <1>3, <1>4, RowsOfNext DEF WorkIsRecorded

LEMMA ResultsAreRecordedNext ==
    ASSUME TypeOK, WorkIsRecorded, ResultsAreRecorded, NEW p \in Proc, ActionOf(p)
    PROVE  ResultsAreRecorded'
  <1> DEFINE Ready(state) == state \in {"completed", "timed", "done"}
  <1>0. step \in [Row -> Record]
    BY RowsAssumption DEF TypeOK, DurableType
  <1>1. ASSUME NEW q \in Proc, NEW i \in Row, Ready(task[q][i])
        PROVE  step'[i].status = "completed"
    BY <1>1, RecordsLast DEF ResultsAreRecorded
  <1>2. ASSUME NEW i \in Row, Ready(task'[p][i]), ~Ready(task[p][i])
        PROVE  ReuseRow(p, i) \/ CompleteRow(p, i)
    BY <1>2, TaskOfNext DEF Moves
  <1>3. ASSUME NEW i \in Row, ReuseRow(p, i) \/ CompleteRow(p, i)
        PROVE  step'[i].status = "completed"
    BY <1>0, <1>3 DEF ReuseRow, CompleteRow, ReuseWork, FinishWork, Record, durable
  <1>4. QED
    BY <1>1, <1>2, <1>3, RowsOfNext DEF ResultsAreRecorded

-----------------------------------------------------------------------------
(* The run. *)

(* A run becomes completed only by complete_run, and its output is set only before. *)
LEMMA RunOfNext ==
    ASSUME TypeOK, NEW p \in Proc, ActionOf(p), run' = "completed"
    PROVE  Complete(p) \/ (run = "completed" /\ ~Complete(p))
  BY DEF ActionOf, Proceed, Run, ReadRun, Resume, FetchBatch, EndLoop, EndBatch, BeginRow,
         ReuseRow, NewWork, JoinWork, RetryWork, ReuseWork, CompleteRow, FinishWork,
         EmitLatency, EmitScore, RowFails, EmitAccuracy, EmitLatencies, SetOutput,
         ExecuteFails, Fail, Flush, Crash, StartRun, RestartRun, AbandonRun, durable

LEMMA OutputOfNext ==
    ASSUME TypeOK, BatchesInOrder, LoopIsOver, NEW p \in Proc, ActionOf(p)
    PROVE  output' \in {output, Cardinality(Evaluated)}
  <1>1. CASE SetOutput(p)
    BY <1>1, AllResults DEF SetOutput, Aggregating
  <1>2. CASE ~SetOutput(p)
    BY <1>2
    DEF ActionOf, Proceed, Run, ReadRun, Resume, FetchBatch, EndLoop, EndBatch, BeginRow,
        ReuseRow, CompleteRow, EmitLatency, EmitScore, RowFails, EmitAccuracy, EmitLatencies,
        ExecuteFails, Complete, Fail, Flush, Crash
  <1>3. QED
    BY <1>1, <1>2

(* complete_run finds every row done by its own attempt, under one configuration; other
   attempts can change neither the status nor the hash of a completed record. *)
LEMMA CompletedRunNext ==
    ASSUME TypeOK, WorkIsRecorded, ResultsAreRecorded, BatchesInOrder, LoopIsOver,
           OutputIsSet, CompletedRunIsWhole, CompletedRunIsUniform,
           NEW p \in Proc, ActionOf(p), run' = "completed"
    PROVE  /\ \A i \in Evaluated : step'[i].status = "completed"
           /\ output' = Cardinality(Evaluated)
           /\ \A i, j \in Evaluated : step'[i].hash = step'[j].hash
  <1>0. Evaluated \subseteq Row
    BY RowsAreFinite
  <1>1. /\ \A i \in Evaluated : step[i].status = "completed"
        /\ output = Cardinality(Evaluated)
        /\ \A i, j \in Evaluated : step[i].hash = step[j].hash
    <2>1. CASE run = "completed"
      BY <2>1 DEF CompletedRunIsWhole, CompletedRunIsUniform
    <2>2. CASE Complete(p)
      <3>1. pc[p] = "completing" /\ Results(p) = Evaluated
        BY <2>2, AllResults DEF Complete, Aggregating
      <3>2. \A i \in Evaluated : step[i].status = "completed" /\ step[i].hash = config[p]
        BY <1>0, <3>1 DEF Results, WorkIsRecorded, ResultsAreRecorded
      <3>3. QED
        BY <3>1, <3>2 DEF OutputIsSet
    <2>3. QED
      BY <2>1, <2>2, RunOfNext
  <1>2. \A i \in Evaluated : step'[i].status = "completed" /\ step'[i].hash = step[i].hash
    BY <1>0, <1>1, RecordsLast
  <1>3. QED
    BY <1>1, <1>2, OutputOfNext

-----------------------------------------------------------------------------
(* The metrics. *)

(* A point about a row is new only if the row's step is completed; points move from
   the buffers to the file, and nowhere else. *)
LEMMA PointsOfNext ==
    ASSUME TypeOK, ResultsAreRecorded, NEW p \in Proc, ActionOf(p)
    PROVE  /\ file'.points \in {file.points, {}, buffer[p]}
           /\ \A q \in Proc \ {p} : buffer'[q] = buffer[q]
           /\ \A x \in buffer'[p] \cap SamplePoint :
                  x \in buffer[p] \/ step[x.row].status = "completed"
  <1> USE DEF TypeOK, MetricsType, metrics
  <1>1. ASSUME NEW i \in Row, EmitLatency(p, i) \/ EmitScore(p, i)
        PROVE  /\ step[i].status = "completed" /\ file' = file
               /\ \E m : buffer' = [buffer EXCEPT ![p] = @ \cup {[metric |-> m, row |-> i]}]
    BY <1>1 DEF EmitLatency, EmitScore, Emit, ResultsAreRecorded
  <1>2. CASE EmitAccuracy(p) \/ EmitLatencies(p)
    <2>1. \A n : /\ [metric |-> "accuracy", rows |-> n] \notin SamplePoint
                 /\ [metric |-> "mean_latency", rows |-> n] \notin SamplePoint
      BY DEF SamplePoint
    <2>2. /\ file' = file
          /\ \/ buffer' = buffer
             \/ \E y : y \notin SamplePoint /\ buffer' = [buffer EXCEPT ![p] = @ \cup {y}]
      BY <1>2, <2>1 DEF EmitAccuracy, EmitLatencies, Emit
    <2>3. QED
      BY <2>2
  <1>3. CASE Flush(p)
    BY <1>3 DEF Flush, FlushNothing, FlushCreate, FlushWrite, Written, TornFile
  <1>4. CASE Crash(p)
    BY <1>4 DEF Crash, LoseBuffer
  <1>5. (~\E i \in Row : EmitLatency(p, i) \/ EmitScore(p, i)) /\ ~EmitAccuracy(p)
           /\ ~EmitLatencies(p) /\ ~Flush(p) /\ ~Crash(p) => UNCHANGED <<buffer, file>>
    BY DEF ActionOf, Proceed, Run, ReadRun, Resume, FetchBatch, EndLoop, EndBatch, BeginRow,
           ReuseRow, CompleteRow, RowFails, SetOutput, ExecuteFails, Complete, Fail
  <1>6. ASSUME NEW i \in Row, EmitLatency(p, i) \/ EmitScore(p, i)
        PROVE  /\ file'.points = file.points
               /\ \A q \in Proc \ {p} : buffer'[q] = buffer[q]
               /\ \A x \in buffer'[p] : x \in buffer[p] \/ step[x.row].status = "completed"
    BY <1>1, <1>6
  <1>7. QED
    BY <1>2, <1>3, <1>4, <1>5, <1>6

Told == file.points \cup UNION {buffer[p] : p \in Proc}

LEMMA MetricsOfCompletedRowsNext ==
    ASSUME TypeOK, TypeOK', ResultsAreRecorded, MetricsOfCompletedRowsOnly,
           NEW p \in Proc, ActionOf(p)
    PROVE  MetricsOfCompletedRowsOnly'
  <1>1. ASSUME NEW x \in Told', x \in SamplePoint
        PROVE  step[x.row].status = "completed"
    <2>1. x \in Told \/ step[x.row].status = "completed"
      BY <1>1, PointsOfNext DEF Told
    <2>2. QED
      BY <1>1, <2>1 DEF MetricsOfCompletedRowsOnly, Told
  <1>2. ASSUME NEW x \in Told', x \in SamplePoint
        PROVE  step'[x.row].status = "completed"
    <2>1. x.row \in Row
      BY <1>2 DEF SamplePoint
    <2>2. QED
      BY <1>1, <1>2, <2>1, RecordsLast
  <1>3. QED
    BY <1>2 DEF MetricsOfCompletedRowsOnly, Told, SamplePoint, Row

-----------------------------------------------------------------------------
LEMMA RunInvInit ==
    ASSUME Init
    PROVE  RunInv
  <1> USE DEF Init, DurableInit, MetricsInit
  <1>1. TypeOK
    BY RowsAssumption, SizesAssumption
    DEF TypeOK, DurableType, Status, Record, NoRecord, MetricsType, NoFile, TaskState, Least
  <1>2. BatchesInOrder
    BY SizesAssumption DEF BatchesInOrder, Least, Row
  <1>3. QED
    BY <1>1, <1>2
    DEF RunInv, ConfigIsRead, WorkIsRecorded, ResultsAreRecorded, LoopIsOver, Aggregating,
        OutputIsSet, CompletedRunIsWhole, CompletedRunIsUniform, MetricsOfCompletedRowsOnly,
        NoFile

LEMMA RunInvNext ==
    ASSUME RunInv, [Next]_vars
    PROVE  RunInv'
  <1> USE DEF RunInv
  <1>1. ASSUME NEW p \in Proc, ActionOf(p)
        PROVE  RunInv'
    <2>1. TypeOK' /\ ConfigIsRead'
      BY <1>1, TypeOKNext, ConfigIsReadNext
    <2>2. BatchesInOrder' /\ LoopIsOver' /\ OutputIsSet'
      BY <1>1, BatchesInOrderNext, LoopIsOverNext, OutputIsSetNext
    <2>3. WorkIsRecorded' /\ ResultsAreRecorded'
      BY <1>1, WorkIsRecordedNext, ResultsAreRecordedNext
    <2>4. CompletedRunIsWhole' /\ CompletedRunIsUniform'
      BY <1>1, CompletedRunNext DEF CompletedRunIsWhole, CompletedRunIsUniform, Evaluated
    <2>5. MetricsOfCompletedRowsOnly'
      BY <1>1, <2>1, MetricsOfCompletedRowsNext
    <2>6. QED
      BY <2>1, <2>2, <2>3, <2>4, <2>5
  <1>2. CASE UNCHANGED vars
    <2>1. TypeOK' /\ ConfigIsRead' /\ WorkIsRecorded' /\ ResultsAreRecorded'
      BY <1>2 DEF vars, TypeOK, DurableType, MetricsType, ConfigIsRead, WorkIsRecorded,
                  ResultsAreRecorded
    <2>2. BatchesInOrder' /\ LoopIsOver' /\ OutputIsSet'
      BY <1>2 DEF vars, BatchesInOrder, LoopIsOver, Aggregating, OutputIsSet, Evaluated
    <2>3. CompletedRunIsWhole' /\ CompletedRunIsUniform'
      BY <1>2 DEF vars, CompletedRunIsWhole, CompletedRunIsUniform, Evaluated
    <2>4. MetricsOfCompletedRowsOnly'
      BY <1>2, <2>1 DEF vars, MetricsOfCompletedRowsOnly
    <2>5. QED
      BY <2>1, <2>2, <2>3, <2>4
  <1>3. QED
    BY <1>1, <1>2 DEF Next, ActionOf

(* Types, metrics that follow the database, and records behind all work hold in every
   behaviour, whether or not attempts overlap. *)
THEOREM RunInvariance == Spec => []RunInv
  BY RunInvInit, RunInvNext, PTL DEF Spec

(* A completed run is whole: however often the run crashed, failed or was resumed before,
   and whatever attempts overlap, each row of the dataset that was asked for has a
   completed step, and the output of the run counts exactly them. *)
THEOREM CompletedRunsAreWhole == Spec => []CompletedRunIsWhole
  BY RunInvariance, PTL DEF RunInv

(* A completed run is made of rows of one configuration, although each attempt reads the
   configuration anew. *)
THEOREM CompletedRunsAreUniform == Spec => []CompletedRunIsUniform
  BY RunInvariance, PTL DEF RunInv

(* Types are kept, and no metric of a row is in memory or on disk before complete_step has
   committed the row's step. *)
THEOREM MetricsFollowTheDatabase == Spec => []MetricsOfCompletedRowsOnly
  BY RunInvariance, PTL DEF RunInv

(* Whatever the processes of a run do, the database sees a sequence of the operations of
   DurableSteps, which RunStore implements. *)
THEOREM RunsUseDurableSteps == Spec => DurableSpec
  <1>1. Init => DurableInit
    BY DEF Init
  <1>2. RunInv /\ [Next]_vars => [DurableNext]_durable
    BY StepsAreDurable DEF RunInv, Next, ActionOf, vars, durable
  <1>3. QED
    BY <1>1, <1>2, RunInvariance, PTL DEF Spec, DurableSpec

-----------------------------------------------------------------------------
(* Attempts that follow one another (SoloSpec).  The invariant adds that one process is
   alive at a time, so that what it knows of the database stays true while it works. *)

OneAtATime == \A p, q \in Proc : Alive(p) /\ Alive(q) => p = q

(* Rows are in flight in the loop only, and a row that is worked on is running. *)
RowsInFlight ==
    \A p \in Proc : /\ InFlight(p) # {} => pc[p] = "loop"
                    /\ \A i \in Row : task[p][i] = "working" => step[i].status = "running"

(* Only a process that has started its work and is not over has points in memory, and an
   aggregate among them says that its rows are over. *)
BuffersInUse ==
    \A p \in Proc :
        /\ buffer[p] # {} => Alive(p) /\ pc[p] # "resuming"
        /\ buffer[p] \cap AggregatePoint # {} => pc[p] # "loop"

(* Points are about rows of the dataset, and those a row has yet to emit are nowhere. *)
PointsOfRows ==
    /\ \A x \in Told \cap SamplePoint : x.row \in Evaluated
    /\ \A p \in Proc, i \in Row :
          /\ task[p][i] = "completed" => \A m \in {"latency", "score"} :
                                            [metric |-> m, row |-> i] \notin Told
          /\ task[p][i] = "timed" => [metric |-> "score", row |-> i] \notin Told

(* The aggregates of a set of points stand for the rows they are printed for. *)
Honest(points) ==
    \A x \in points \cap AggregatePoint :
        IF x.metric = "accuracy"
        THEN x.rows = Cardinality(Evaluated)
        ELSE /\ x.rows <= Cardinality(Evaluated)
             /\ x.rows >= Cardinality({y \in points \cap SamplePoint : y.metric = "latency"})

SoloInv ==
    /\ RunInv
    /\ OneAtATime
    /\ RowsInFlight
    /\ BuffersInUse
    /\ PointsOfRows
    /\ LatencyCountedOnce
    /\ Honest(file.points)
    /\ \A p \in Proc : Honest(buffer[p])
(* What an action can rely on: nobody else is alive. *)
Alone(p) == \A q \in Proc \ {p} : ~Alive(q)

LEMMA ProceedsAlive ==
    ASSUME NEW p \in Proc, Proceed(p)
    PROVE  Alive(p)
  BY DEF Proceed, Alive, Resume, FetchBatch, EndLoop, EndBatch, BeginRow, ReuseRow, IsNext,
         CompleteRow, EmitLatency, EmitScore, RowFails, EmitAccuracy, EmitLatencies,
         SetOutput, ExecuteFails, Complete, Fail, Flush

LEMMA ActsAlone ==
    ASSUME OneAtATime, SoloNext
    PROVE  \E p \in Proc : ActionOf(p) /\ Alone(p)
  BY ProceedsAlive DEF SoloNext, ActionOf, Alone, OneAtATime, Crash

LEMMA OneAtATimeNext ==
    ASSUME TypeOK, NEW p \in Proc, ActionOf(p), Alone(p)
    PROVE  OneAtATime'
  BY RowsOfNext DEF OneAtATime, Alone, Alive

LEMMA RowsInFlightNext ==
    ASSUME TypeOK, BatchesInOrder, OneAtATime, RowsInFlight,
           NEW p \in Proc, ActionOf(p), Alone(p)
    PROVE  RowsInFlight'
  <1>0. /\ step \in [Row -> Record] /\ pc = [q \in Proc |-> pc[q]]
        /\ task \in [Proc -> [Row -> TaskState]]
    BY RowsAssumption DEF TypeOK, DurableType
  <1>1. ASSUME NEW q \in Proc \ {p}
        PROVE  /\ InFlight(q) = {}
               /\ InFlight(q)' = {}
    BY RowsOfNext DEF RowsInFlight, Alone, Alive, InFlight
  <1>2. ASSUME NEW i \in Row, task'[p][i] = "working"
        PROVE  step'[i].status = "running"
    <2>1. CASE task[p][i] = "working"
      <3>1. pc[p] = "loop" /\ step[i].status = "running"
        BY <2>1 DEF RowsInFlight, InFlight
      <3>2. ASSUME NEW j \in Row, CompleteRow(p, j) PROVE step'[i] = step[i]
        <4>1. j # i
          BY <1>0, <1>2, <2>1, <3>2 DEF CompleteRow, Advance
        <4>2. QED
          BY <1>0, <3>2, <4>1 DEF CompleteRow, FinishWork
      <3>3. ASSUME NEW j \in Row, BeginRow(p, j) PROVE step'[i].status = "running"
        BY <1>0, <3>1, <3>3
        DEF BeginRow, NewWork, JoinWork, RetryWork, durable, NoRecord, Record
      <3>4. (\A j \in Row : ~CompleteRow(p, j) /\ ~BeginRow(p, j)) => step' = step
        BY <3>1
        DEF ActionOf, Proceed, Run, ReadRun, Resume, FetchBatch, EndLoop, EndBatch, ReuseRow,
            EmitLatency, EmitScore, RowFails, EmitAccuracy, EmitLatencies, SetOutput,
            ExecuteFails, Complete, Fail, Flush, Crash, StartRun, RestartRun, FinishRun,
            ReuseWork, durable
      <3>5. QED
        BY <3>1, <3>2, <3>3, <3>4
    <2>2. CASE task[p][i] # "working"
      <3>1. BeginRow(p, i)
        BY <1>2, <2>2, TaskOfNext DEF Moves
      <3>2. QED
        BY <1>0, <3>1 DEF BeginRow, NewWork, JoinWork, RetryWork, durable, NoRecord, Record
    <2>3. QED
      BY <2>1, <2>2
  <1>3. ASSUME pc'[p] # "loop"
        PROVE  InFlight(p)' = {}
    <2>1. CASE pc[p] # "loop"
      <3>1. \A i \in Row : task'[p][i] \in {task[p][i], "dropped"}
        BY <2>1, TaskOfNext
        DEF BeginRow, ReuseRow, IsNext, CompleteRow, EmitLatency, EmitScore
      <3>2. QED
        BY <2>1, <3>1 DEF RowsInFlight, InFlight
    <2>2. CASE pc[p] = "loop"
      <3>1. EndLoop(p) \/ ExecuteFails(p) \/ Crash(p) \/ \E i \in Row : RowFails(p, i)
        BY <1>0, <1>3, <2>2
        DEF ActionOf, Proceed, Goto, Run, ReadRun, Resume, FetchBatch, EndBatch, BeginRow,
            ReuseRow, CompleteRow, EmitLatency, EmitScore, EmitAccuracy, EmitLatencies,
            SetOutput, Complete, Fail, Flush
      <3>2. CASE Crash(p) \/ \E i \in Row : RowFails(p, i)
        BY <1>0, <3>2 DEF Crash, RowFails, DropRows, InFlight
      <3>3. CASE EndLoop(p) \/ ExecuteFails(p)
        <4>1. batch[p] = 0 /\ task' = task
          BY <2>2, <3>3 DEF EndLoop, ExecuteFails
        <4>2. \A i \in Row : task[p][i] \in {"waiting", "done"}
          BY <4>1, SizesAssumption DEF BatchesInOrder, TypeOK, Row
        <4>3. QED
          BY <4>1, <4>2 DEF InFlight
      <3>4. QED
        BY <3>1, <3>2, <3>3
    <2>3. QED
      BY <2>1, <2>2
  <1>4. QED
    BY <1>1, <1>2, <1>3 DEF RowsInFlight, InFlight
(* Points enter a buffer in the loop, as samples, and after it, as aggregates. *)
LEMMA BufferOfNext ==
    ASSUME TypeOK, NEW p \in Proc, ActionOf(p), NEW x \in buffer'[p] \ buffer[p]
    PROVE  \/ \E i \in Row : EmitLatency(p, i) /\ x = [metric |-> "latency", row |-> i]
           \/ \E i \in Row : EmitScore(p, i) /\ x = [metric |-> "score", row |-> i]
           \/ EmitAccuracy(p) /\ x = [metric |-> "accuracy", rows |-> Cardinality(Results(p))]
           \/ EmitLatencies(p) /\ x = [metric |-> "mean_latency", rows |-> Latencies(p)]
  <1> USE DEF TypeOK, MetricsType
  <1>1. ASSUME NEW y, Emit(p, y) PROVE x = y
    BY <1>1 DEF Emit
  <1>2. CASE Flush(p) \/ Crash(p)
    BY <1>2 DEF Flush, FlushNothing, FlushCreate, FlushWrite, Crash, LoseBuffer, metrics
  <1>3. QED
    BY <1>1, <1>2
    DEF ActionOf, Proceed, Run, ReadRun, Resume, FetchBatch, EndLoop, EndBatch, BeginRow,
        ReuseRow, CompleteRow, EmitLatency, EmitScore, RowFails, EmitAccuracy, EmitLatencies,
        SetOutput, ExecuteFails, Complete, Fail, metrics

(* Samples and aggregates are different points. *)
LEMMA KindsOfPoints ==
    /\ \A m \in {"latency", "score"}, i \in Row :
          /\ [metric |-> m, row |-> i] \in SamplePoint
          /\ [metric |-> m, row |-> i] \notin AggregatePoint
    /\ \A m \in {"accuracy", "mean_latency"} : \A n : [metric |-> m, rows |-> n] \notin SamplePoint
  BY DEF SamplePoint, AggregatePoint

LEMMA BuffersInUseNext ==
    ASSUME TypeOK, ResultsAreRecorded, BuffersInUse, NEW p \in Proc, ActionOf(p), Alone(p)
    PROVE  BuffersInUse'
  <1> USE DEF TypeOK, MetricsType
  <1>1. ASSUME NEW q \in Proc \ {p} PROVE buffer'[q] = {}
    BY PointsOfNext DEF BuffersInUse, Alone
  <1>2. ASSUME buffer'[p] # {} PROVE Alive(p)' /\ pc'[p] # "resuming"
    <2>1. CASE buffer[p] = {}
      BY <1>2, <2>1, BufferOfNext
      DEF Goto, EmitLatency, EmitScore, EmitAccuracy, EmitLatencies, Alive
    <2>2. CASE buffer[p] # {}
      <3>1. Alive(p) /\ pc[p] # "resuming"
        BY <2>2 DEF BuffersInUse
      <3>2. ~Crash(p)
        BY <1>2 DEF Crash, LoseBuffer
      <3>3. CASE Flush(p)
        BY <1>2, <2>2, <3>3 DEF Flush, FlushNothing, FlushCreate, FlushWrite, Goto, Alive
      <3>4. CASE ~Flush(p)
        BY <3>1, <3>2, <3>4
        DEF ActionOf, Proceed, Goto, Alive, Run, ReadRun, Resume, FetchBatch, EndLoop, EndBatch,
            BeginRow, ReuseRow, CompleteRow, EmitLatency, EmitScore, RowFails, DropRows,
            EmitAccuracy, EmitLatencies, SetOutput, ExecuteFails, Complete, Fail
      <3>5. QED
        BY <3>3, <3>4
    <2>3. QED
      BY <2>1, <2>2
  <1>3. ASSUME buffer'[p] \cap AggregatePoint # {} PROVE pc'[p] # "loop"
    <2>1. PICK x \in buffer'[p] : x \in AggregatePoint
      BY <1>3
    <2>2. CASE x \in buffer[p]
      <3>1. pc[p] # "loop" /\ Alive(p) /\ pc[p] # "resuming"
        BY <2>1, <2>2 DEF BuffersInUse
      <3>2. QED
        BY <3>1
        DEF ActionOf, Proceed, Goto, Alive, Run, ReadRun, Resume, FetchBatch, EndLoop, EndBatch,
            BeginRow, ReuseRow, IsNext, CompleteRow, EmitLatency, EmitScore, RowFails, DropRows,
            EmitAccuracy, EmitLatencies, SetOutput, ExecuteFails, Complete, Fail, Flush, Crash
    <2>3. CASE x \notin buffer[p]
      <3>1. EmitAccuracy(p) \/ EmitLatencies(p)
        BY <2>1, <2>3, BufferOfNext, KindsOfPoints
      <3>2. QED
        BY <3>1 DEF Goto, EmitAccuracy, EmitLatencies
    <2>4. QED
      BY <2>2, <2>3
  <1>4. QED
    BY <1>1, <1>2, <1>3 DEF BuffersInUse

LEMMA PointsOfRowsNext ==
    ASSUME RunInv, OneAtATime, RowsInFlight, PointsOfRows, NEW p \in Proc, ActionOf(p), Alone(p)
    PROVE  PointsOfRows'
  <1> USE DEF RunInv
  <1>0. /\ \A q \in Proc : buffer[q] \subseteq Point
        /\ task \in [Proc -> [Row -> TaskState]]
    BY DEF TypeOK, MetricsType
  <1>1. ASSUME NEW x \in Told', x \notin Told PROVE x \in buffer'[p] \ buffer[p]
    BY <1>1, PointsOfNext DEF Told
  <1>2. ASSUME NEW i \in Row, task[p][i] # "waiting" PROVE i \in Evaluated
    BY <1>2, SizesAssumption DEF BatchesInOrder, TypeOK, Evaluated, Row, Least
  <1>3. ASSUME NEW x \in Told' \cap SamplePoint PROVE x.row \in Evaluated
    <2>1. CASE x \in Told
      BY <2>1 DEF PointsOfRows
    <2>2. CASE x \notin Told
      <3>1. PICK i \in Row : (EmitLatency(p, i) \/ EmitScore(p, i)) /\ x.row = i
        BY <1>1, <2>2, BufferOfNext, KindsOfPoints
      <3>2. task[p][i] # "waiting"
        BY <3>1 DEF EmitLatency, EmitScore
      <3>3. QED
        BY <1>2, <3>1, <3>2
    <2>3. QED
      BY <2>1, <2>2
  <1>4. ASSUME NEW i \in Row, task'[p][i] = "completed", NEW m \in {"latency", "score"}
        PROVE  [metric |-> m, row |-> i] \notin Told'
    <2> DEFINE x == [metric |-> m, row |-> i]
    <2>1. x \notin Told
      <3>1. CASE task[p][i] = "completed"
        BY <3>1 DEF PointsOfRows
      <3>2. CASE task[p][i] # "completed"
        <4>1. task[p][i] = "working"
          BY <1>4, <3>2, TaskOfNext DEF Moves
        <4>2. step[i].status # "completed"
          BY <4>1 DEF RowsInFlight
        <4>3. QED
          BY <4>2, KindsOfPoints DEF MetricsOfCompletedRowsOnly, Told
      <3>3. QED
        BY <3>1, <3>2
    <2>2. ~EmitLatency(p, i) /\ ~EmitScore(p, i)
      BY <1>0, <1>4 DEF EmitLatency, EmitScore, Advance
    <2>3. x \notin buffer'[p] \ buffer[p]
      BY <2>2, BufferOfNext, KindsOfPoints
    <2>4. QED
      BY <1>1, <2>1, <2>3
  <1>5. ASSUME NEW i \in Row, task'[p][i] = "timed"
        PROVE  [metric |-> "score", row |-> i] \notin Told'
    <2> DEFINE x == [metric |-> "score", row |-> i]
    <2>1. x \notin Told
      <3>1. task[p][i] \in {"completed", "timed"}
        BY <1>5, TaskOfNext DEF Moves
      <3>2. QED
        BY <3>1 DEF PointsOfRows
    <2>2. ~EmitScore(p, i)
      BY <1>0, <1>5 DEF EmitScore, Advance
    <2>3. x \notin buffer'[p] \ buffer[p]
      BY <2>2, BufferOfNext, KindsOfPoints
    <2>4. QED
      BY <1>1, <2>1, <2>3
  <1>6. ASSUME NEW q \in Proc \ {p}, NEW i \in Row
        PROVE  task'[q][i] \notin {"completed", "timed"}
    BY RowsOfNext DEF RowsInFlight, InFlight, Alone, Alive
  <1>7. QED
    BY <1>3, <1>4, <1>5, <1>6 DEF PointsOfRows, Evaluated
LEMMA LatencyCountedOnceNext ==
    ASSUME RunInv, BuffersInUse, PointsOfRows, LatencyCountedOnce,
           NEW p \in Proc, ActionOf(p), Alone(p)
    PROVE  LatencyCountedOnce'
  <1> USE DEF RunInv
  <1>0. file \in [state: {"none", "torn", "written"}, points: SUBSET Point]
        /\ buffer = [q \in Proc |-> buffer[q]]
    BY DEF TypeOK, MetricsType
  <1>1. ASSUME NEW q \in Proc \ {p} PROVE buffer'[q] = {}
    BY PointsOfNext DEF BuffersInUse, Alone
  <1>2. CASE Flush(p)
    BY <1>0, <1>1, <1>2
    DEF Flush, FlushNothing, FlushCreate, FlushWrite, Written, TornFile, metrics,
        LatencyCountedOnce
  <1>3. CASE ~Flush(p)
    <2>1. file' = file
      BY <1>3
      DEF ActionOf, Proceed, Run, ReadRun, Resume, FetchBatch, EndLoop, EndBatch, BeginRow,
          ReuseRow, CompleteRow, EmitLatency, EmitScore, Emit, RowFails, EmitAccuracy,
          EmitLatencies, SetOutput, ExecuteFails, Complete, Fail, Crash, LoseBuffer, metrics
    <2>2. ASSUME NEW x \in buffer'[p] \cap SamplePoint PROVE x \notin file.points
      <3>1. CASE x \in buffer[p]
        BY <2>2, <3>1 DEF LatencyCountedOnce
      <3>2. CASE x \notin buffer[p]
        <4>1. x \notin Told
          <5>1. CASE \E i \in Row : EmitLatency(p, i) /\ x = [metric |-> "latency", row |-> i]
            BY <5>1 DEF EmitLatency, PointsOfRows
          <5>2. CASE \E i \in Row : EmitScore(p, i) /\ x = [metric |-> "score", row |-> i]
            BY <5>2 DEF EmitScore, PointsOfRows
          <5>3. QED
            BY <2>2, <3>2, <5>1, <5>2, BufferOfNext, KindsOfPoints
        <4>2. QED
          BY <4>1 DEF Told
      <3>3. QED
        BY <3>1, <3>2
    <2>3. QED
      BY <1>1, <2>1, <2>2 DEF LatencyCountedOnce
  <1>4. QED
    BY <1>2, <1>3

(* The latencies an attempt averages: at least its own, at most one for each row. *)
LEMMA LatenciesCountRows ==
    ASSUME TypeOK, PointsOfRows, LatencyCountedOnce, NEW p \in Proc
    PROVE  /\ Latencies(p) <= Cardinality(Evaluated)
           /\ Latencies(p) >= Cardinality({y \in buffer[p] \cap SamplePoint : y.metric = "latency"})
  <1> DEFINE L == [metric: {"latency"}, row: Row]
             A == file.points \cap L
             B == buffer[p] \cap L
  <1>1. {y \in buffer[p] \cap SamplePoint : y.metric = "latency"} = B
    BY DEF SamplePoint
  <1>2. /\ IsFiniteSet(A) /\ Cardinality(A) \in Nat
        /\ IsFiniteSet(B) /\ Cardinality(B) \in Nat
    BY PointsAreFinite, RowsAreFinite
  <1>3. A \cap B = {}
    BY DEF LatencyCountedOnce, SamplePoint
  <1>4. Cardinality(A \cup B) = Cardinality(A) + Cardinality(B)
    <2>1. Cardinality(A \cap B) = 0
      BY <1>3, FS_EmptySet
    <2>2. Cardinality(A \cup B) = Cardinality(A) + Cardinality(B) - Cardinality(A \cap B)
      BY <1>2, FS_Union
    <2>3. QED
      BY <1>2, <2>1, <2>2
  <1>5. Cardinality(A \cup B) <= Cardinality(Evaluated)
    <2>1. A \cup B \in SUBSET [metric: {"latency"}, row: Evaluated]
      BY DEF PointsOfRows, Told, SamplePoint
    <2>2. Evaluated \in SUBSET Row
      BY RowsAreFinite
    <2>3. Cardinality(A \cup B) \in 0..Cardinality(Evaluated)
      BY <2>1, <2>2, PointsAreFinite
    <2>4. QED
      BY <2>2, <2>3, RowsAreFinite
  <1>6. Latencies(p) = Cardinality(A) + Cardinality(B)
    BY DEF Latencies, CountPoints
  <1> HIDE DEF A, B
  <1>7. Cardinality(Evaluated) \in Nat
    BY RowsAreFinite
  <1>8. Latencies(p) <= Cardinality(Evaluated) /\ Latencies(p) >= Cardinality(B)
    BY <1>2, <1>4, <1>5, <1>6, <1>7
  <1>9. QED
    BY <1>1, <1>8

LEMMA HonestNext ==
    ASSUME RunInv, BuffersInUse, PointsOfRows, LatencyCountedOnce,
           Honest(file.points), \A q \in Proc : Honest(buffer[q]),
           NEW p \in Proc, ActionOf(p)
    PROVE  Honest(file.points)' /\ \A q \in Proc : Honest(buffer[q])'
  <1> USE DEF RunInv
  <1>1. Honest(file.points)'
    BY PointsOfNext DEF Honest, Evaluated
  <1>2. ASSUME NEW q \in Proc \ {p} PROVE Honest(buffer[q])'
    BY PointsOfNext DEF Honest, Evaluated
  <1>3. CASE \E i \in Row : EmitLatency(p, i) \/ EmitScore(p, i)
    <2>1. pc[p] = "loop"
      BY <1>3 DEF EmitLatency, EmitScore
    <2>2. buffer'[p] \cap AggregatePoint = {}
      <3>1. ~EmitAccuracy(p) /\ ~EmitLatencies(p)
        BY <2>1 DEF EmitAccuracy, EmitLatencies
      <3>2. QED
        BY <2>1, <3>1, BufferOfNext, KindsOfPoints DEF BuffersInUse
    <2>3. QED
      BY <1>1, <1>2, <2>2 DEF Honest
  <1>4. ASSUME NEW n, NEW m \in {"accuracy", "mean_latency"},
               buffer'[p] = buffer[p] \cup {[metric |-> m, rows |-> n]},
               IF m = "accuracy"
               THEN n = Cardinality(Evaluated)
               ELSE /\ n <= Cardinality(Evaluated)
                    /\ n >= Cardinality({y \in buffer[p] \cap SamplePoint : y.metric = "latency"})
        PROVE  Honest(buffer[p])'
    <2>1. buffer'[p] \cap SamplePoint = buffer[p] \cap SamplePoint
      BY <1>4, KindsOfPoints
    <2>2. ASSUME NEW x \in buffer'[p] \cap AggregatePoint,
                 x = [metric |-> m, rows |-> n] \/ x \in buffer[p]
          PROVE  IF x.metric = "accuracy"
                 THEN x.rows = Cardinality(Evaluated)
                 ELSE /\ x.rows <= Cardinality(Evaluated)
                      /\ x.rows >= Cardinality({y \in buffer[p] \cap SamplePoint :
                                                  y.metric = "latency"})
      BY <1>4, <2>2 DEF Honest
    <2>3. QED
      BY <1>4, <2>1, <2>2 DEF Honest, Evaluated
  <1>5. CASE (EmitAccuracy(p) \/ EmitLatencies(p)) /\ UNCHANGED buffer
    BY <1>1, <1>2, <1>5 DEF Honest, Evaluated
  <1>6. ASSUME EmitAccuracy(p), buffer' # buffer PROVE Honest(buffer[p])'
    <2>1. buffer'[p] = buffer[p] \cup {[metric |-> "accuracy", rows |-> Cardinality(Results(p))]}
      BY <1>6 DEF EmitAccuracy, Emit, TypeOK, MetricsType, metrics
    <2>2. Results(p) = Evaluated
      BY <1>6, AllResults DEF EmitAccuracy, Aggregating
    <2>3. QED
      BY <1>4, <2>1, <2>2
  <1>7. ASSUME EmitLatencies(p), buffer' # buffer PROVE Honest(buffer[p])'
    <2>1. buffer'[p] = buffer[p] \cup {[metric |-> "mean_latency", rows |-> Latencies(p)]}
      BY <1>7 DEF EmitLatencies, Emit, TypeOK, MetricsType, metrics
    <2>2. QED
      BY <1>4, <2>1, LatenciesCountRows
  <1>8. CASE ~EmitAccuracy(p) /\ ~EmitLatencies(p) /\ \A i \in Row : ~EmitLatency(p, i) /\ ~EmitScore(p, i)
    <2>1. buffer'[p] \in {buffer[p], {}}
      BY <1>8
      DEF ActionOf, Proceed, TypeOK, MetricsType, metrics, Run, ReadRun, Resume, FetchBatch,
          EndLoop, EndBatch, BeginRow, ReuseRow, CompleteRow, RowFails, SetOutput,
          ExecuteFails, Complete, Fail, Crash, LoseBuffer, Flush, FlushNothing, FlushCreate,
          FlushWrite
    <2>2. QED
      BY <1>1, <1>2, <2>1 DEF Honest, Evaluated
  <1>9. QED
    BY <1>1, <1>2, <1>3, <1>5, <1>6, <1>7, <1>8

-----------------------------------------------------------------------------
LEMMA SoloInvNext ==
    ASSUME SoloInv, [SoloNext]_vars
    PROVE  SoloInv'
  <1> USE DEF SoloInv
  <1>1. CASE SoloNext
    <2>1. PICK p \in Proc : ActionOf(p) /\ Alone(p)
      BY <1>1, ActsAlone
    <2>2. TypeOK /\ ResultsAreRecorded /\ BatchesInOrder
      BY DEF RunInv
    <2>3. RunInv'
      BY <2>1, RunInvNext DEF Next, ActionOf
    <2>4. OneAtATime' /\ RowsInFlight' /\ BuffersInUse'
      BY <2>1, <2>2, OneAtATimeNext, RowsInFlightNext, BuffersInUseNext
    <2>5. PointsOfRows' /\ LatencyCountedOnce'
      BY <2>1, PointsOfRowsNext, LatencyCountedOnceNext
    <2>6. Honest(file.points)' /\ \A q \in Proc : Honest(buffer[q])'
      BY <2>1, HonestNext
    <2>7. QED
      BY <2>3, <2>4, <2>5, <2>6
  <1>2. CASE UNCHANGED vars
    <2>1. RunInv'
      BY <1>2, RunInvNext
    <2>2. OneAtATime' /\ RowsInFlight'
      BY <1>2 DEF vars, OneAtATime, Alive, RowsInFlight, InFlight
    <2>3. BuffersInUse'
      BY <1>2 DEF vars, BuffersInUse, Alive
    <2>4. PointsOfRows' /\ LatencyCountedOnce'
      BY <1>2 DEF vars, PointsOfRows, Told, Evaluated, LatencyCountedOnce
    <2>5. Honest(file.points)' /\ \A p \in Proc : Honest(buffer[p])'
      BY <1>2 DEF vars, Honest, Evaluated
    <2>6. QED
      BY <2>1, <2>2, <2>3, <2>4, <2>5
  <1>3. QED
    BY <1>1, <1>2

(* When attempts do not overlap, the records of a run also belong to the one attempt that is
   alive, and each point of a metric is in one place. *)
THEOREM SoloInvariance == SoloSpec => []SoloInv
  <1>1. Init => SoloInv
    <2>1. Init => RunInv
      BY RunInvInit
    <2>2. QED
      BY <2>1
      DEF Init, DurableInit, MetricsInit, NoFile, SoloInv, OneAtATime, Alive, RowsInFlight,
          InFlight, BuffersInUse, PointsOfRows, Told, LatencyCountedOnce, Honest
  <1>2. QED
    BY <1>1, SoloInvNext, PTL DEF SoloSpec

(* When attempts do not overlap, no row's latency is both in the file and in a live
   buffer, so each row counts once, and an aggregate on disk stands for the rows it was
   printed for: the accuracy for all, the mean latency for at least those beside it. *)
THEOREM AggregatesStayHonest == SoloSpec => []AggregatesAreHonest
  <1>1. SoloInv => AggregatesAreHonest
    BY DEF SoloInv, AggregatesAreHonest, Honest
  <1>2. QED
    BY <1>1, SoloInvariance, PTL

(* When attempts do not overlap, no attempt changes the record of a completed row: work
   that is finished is never paid for again. *)
THEOREM CompletedOutputsAreFinal == SoloSpec => CompletedOutputIsFinal
  <1>1. ASSUME SoloInv, [SoloNext]_vars, NEW i \in Row, step[i].status = "completed"
        PROVE  step'[i] = step[i]
    <2>0. step \in [Row -> Record]
      BY <1>1, RowsAssumption DEF SoloInv, RunInv, TypeOK, DurableType
    <2>1. ASSUME NEW p \in Proc, ActionOf(p) PROVE step'[i] = step[i]
      <3>1. ASSUME NEW j \in Row, BeginRow(p, j) PROVE step'[i] = step[i]
        BY <1>1, <2>0, <3>1 DEF BeginRow, NewWork, JoinWork, RetryWork, durable
      <3>2. ASSUME NEW j \in Row, CompleteRow(p, j) PROVE step'[i] = step[i]
        BY <1>1, <2>0, <3>2 DEF CompleteRow, FinishWork, SoloInv, RowsInFlight
      <3>3. CASE Fail(p)
        BY <1>1, <3>3, RowsAssumption DEF Fail, AbandonRun
      <3>4. (\A j \in Row : ~BeginRow(p, j) /\ ~CompleteRow(p, j)) /\ ~Fail(p) => step' = step
        BY <2>1
        DEF ActionOf, Proceed, Run, ReadRun, Resume, FetchBatch, EndLoop, EndBatch, ReuseRow,
            EmitLatency, EmitScore, RowFails, EmitAccuracy, EmitLatencies, SetOutput,
            ExecuteFails, Complete, Flush, Crash, StartRun, RestartRun, FinishRun, ReuseWork,
            durable
      <3>5. QED
        BY <3>1, <3>2, <3>3, <3>4
    <2>2. CASE UNCHANGED vars
      BY <2>2 DEF vars
    <2>3. SoloNext => \E p \in Proc : ActionOf(p)
      BY DEF SoloNext, ActionOf
    <2>4. QED
      BY <1>1, <2>1, <2>2, <2>3
  <1>2. SoloInv /\ [SoloNext]_vars =>
            [\A i \in Row : step[i].status = "completed" => step'[i] = step[i]]_vars
    BY <1>1
  <1>3. QED
    BY <1>2, SoloInvariance, PTL DEF SoloSpec, CompletedOutputIsFinal
=============================================================================
