---------------------------- MODULE SdkRunProofs ----------------------------
(***************************************************************************)
(* Proofs about SdkRun, for any dataset, plan of the handler, number of    *)
(* tasks at once, and any attempts and faults.                             *)
(***************************************************************************)
EXTENDS SdkRun, FiniteSetTheorems, SequenceTheorems, TLAPS

(* What load_batch returns for the rows from first on. *)
BatchAt(first) ==
    SubSeq([i \in Row |-> i], first + 1,
           IF first + BatchSize < Rows THEN first + BatchSize ELSE Rows)

Outcome == Row \X Row \X (Output \cup {NULL})

(* The types of what TypeOK leaves out. *)
IteratorType ==
    /\ buffer \in Seq(Row)
    /\ DOMAIN ready \subseteq Row /\ \A c \in DOMAIN ready : ready[c] \in Outcome
    /\ expected \in Nat \ {0}
    /\ dry \in BOOLEAN
    /\ out \in Seq(Outcome)
    /\ pc # "off" => attempt # 0

(* The buffer goes on where the rows that were popped end; the rows handed to tasks are
   some of those, in order. *)
RowsInOrder ==
    /\ offset + Len(buffer) <= Rows
    /\ \A j \in 1..Len(buffer) : buffer[j] = offset + j
    /\ yielded <= offset /\ Len(item) <= yielded
    /\ \A i \in 1..Len(item) : item[i] <= offset
    /\ \A i, j \in 1..Len(item) : i < j => item[i] < item[j]

(* A task is in a call about its own row, the handler in one about the dataset. *)
CallsHaveKeys ==
    /\ call[0].at # "idle" =>
          call[0].key \in {<<"dataset-init", 0>>} \cup ({"dataset-batch"} \X (0..Rows))
    /\ \A c \in Row : call[c].at # "idle" =>
          c <= Len(item) /\ call[c].key = <<"row", item[c]>>
    /\ at = "load" /\ pc = "map" =>
          buffer = <<>> /\ call[0].at # "idle" /\ call[0].key = <<"dataset-batch", offset>>

(* A call that has begun is at work on an open step; one that has returned, on a step
   that stays completed with the output it has returned. *)
CallsHaveSteps ==
    \A c \in Caller :
        /\ call[c].at \in {"execute", "complete"} =>
              step[call[c].key].status \in {"running", "failed"}
        /\ call[c].at = "returned" =>
              /\ step[call[c].key].status = "completed"
              /\ step[call[c].key].output = call[c].output

(* Batches are those of the dataset, also when an earlier attempt has stored them. *)
BatchesAreTrue ==
    \A first \in 0..Rows :
        LET key == <<"dataset-batch", first>> IN
        /\ step[key].status = "completed" => step[key].output = BatchAt(first)
        /\ call[0].at = "complete" /\ call[0].key = key => call[0].output = BatchAt(first)

(* A result is in one place at a time: pending, done, and then kept or yielded. *)
ResultsInOnePlace ==
    /\ pending \subseteq 1..Len(item) /\ done \subseteq 1..Len(item)
    /\ DOMAIN ready \subseteq 1..Len(item)
    /\ pending \cap done = {}
    /\ DOMAIN ready \cap (pending \cup done) = {}
    /\ \A i \in 1..Len(out) : out[i][1] \notin pending \cup done
    /\ \A c \in DOMAIN ready : ready[c][1] = c
    /\ \A i, j \in 1..Len(out) : out[i][1] = out[j][1] => i = j
    /\ plan.order = "input" => /\ \A i \in 1..Len(out) : out[i][1] = i
                               /\ expected = Len(out) + 1
    /\ plan.order = "completion" => DOMAIN ready = {}

(* What tasks have returned is what the iterator has. *)
ResultsAreReturned ==
    Running =>
        /\ \A c \in done : Finished(c)
        /\ \A c \in DOMAIN ready : call[c].at = "returned" /\ ready[c] = Result(c)
        /\ \A i \in 1..Len(out) :
              call[out[i][1]].at = "returned" /\ out[i] = Result(out[i][1])

(* Only pending tasks are at work, and there is room for no more. *)
WorkIsPending ==
    /\ \A c \in Row : Working(c) => c \in pending
    /\ Cardinality(pending) <= MaxConcurrency
    /\ at = "finished" => pending = {}
    /\ at = "raised" => \A c \in Row : ~Working(c)

(* The inductive invariant. *)
SdkInv ==
    /\ TypeOK
    /\ IteratorType
    /\ RowsInOrder
    /\ CallsHaveKeys
    /\ CallsHaveSteps
    /\ BatchesAreTrue
    /\ ResultsInOnePlace
    /\ ResultsAreReturned
    /\ WorkIsPending

(* Why an attempt ends in an error.  This needs the source to be named by the workflow,
   so that the input of a batch is the same in all attempts. *)
StepsKeepTheirHash == \A k \in Key : step[k].status # "absent" => step[k].hash = HashOf(k)
ErrorsHurt ==
    /\ \A c \in Caller : call[c].at \in {"fail", "raised"} => hurt
    /\ at \in {"cancel", "raised"} => hurt
    /\ pc \in {"except", "refused"} => hurt

-----------------------------------------------------------------------------
(* Calls and records, updated one at a time. *)

CallState == {"idle", "begin", "execute", "complete", "fail", "returned", "raised"}
CallRecord == [at: CallState, key: Key \cup {NULL}, output: Output \cup {NULL}]

(* Only the call of c changes, and to this. *)
CallBecomes(c, where, key, output) ==
    /\ call' \in [Caller -> CallRecord]
    /\ call'[c].at = where /\ call'[c].key = key /\ call'[c].output = output
    /\ \A d \in Caller : d # c => call'[d] = call[d]

LEMMA MoveUpdates ==
    ASSUME call \in [Caller -> CallRecord], NEW c \in Caller, NEW where \in CallState,
           Move(c, where)
    PROVE  CallBecomes(c, where, call[c].key, call[c].output)
<1> DEFINE new == [call[c] EXCEPT !.at = where]
<1>1. /\ new \in CallRecord
      /\ new.at = where /\ new.key = call[c].key /\ new.output = call[c].output
  BY DEF CallRecord
<1>2. call' = [call EXCEPT ![c] = new]
  BY DEF Move
<1> HIDE DEF new
<1> QED BY <1>1, <1>2 DEF CallBecomes

LEMMA OutputUpdates ==
    ASSUME call \in [Caller -> CallRecord], NEW c \in Caller, NEW where \in CallState,
           NEW output \in Output \cup {NULL},
           call' = [call EXCEPT ![c].at = where, ![c].output = output]
    PROVE  CallBecomes(c, where, call[c].key, output)
<1> DEFINE new == [call[c] EXCEPT !.at = where, !.output = output]
<1>1. /\ new \in CallRecord
      /\ new.at = where /\ new.key = call[c].key /\ new.output = output
  BY DEF CallRecord
<1>2. call' = [call EXCEPT ![c] = new]
  OBVIOUS
<1> HIDE DEF new
<1> QED BY <1>1, <1>2 DEF CallBecomes

LEMMA EnterUpdates ==
    ASSUME call \in [Caller -> CallRecord], NEW c \in Caller, NEW key \in Key,
           Enter(c, key)
    PROVE  CallBecomes(c, "begin", key, NULL)
<1> DEFINE new == [NoCall EXCEPT !.at = "begin", !.key = key]
<1>1. new \in CallRecord /\ new.at = "begin" /\ new.key = key /\ new.output = NULL
  BY DEF CallRecord, CallState, NoCall
<1>2. call' = [call EXCEPT ![c] = new]
  BY DEF Enter
<1> HIDE DEF new
<1> QED BY <1>1, <1>2 DEF CallBecomes

LEMMA ResetUpdates ==
    ASSUME call \in [Caller -> CallRecord], NEW c \in Caller,
           call' = [call EXCEPT ![c] = NoCall]
    PROVE  CallBecomes(c, "idle", NULL, NULL)
<1>1. NoCall \in CallRecord /\ NoCall.at = "idle" /\ NoCall.key = NULL /\ NoCall.output = NULL
  BY DEF CallRecord, CallState, NoCall
<1> QED BY <1>1 DEF CallBecomes

(* What a request does to the record of its key: that of no other key, and completed
   work stays as it is unless it is given up. *)
RecordBecomes(k, status, hash, output) ==
    /\ step' \in [Key -> Record]
    /\ step'[k].status = status /\ step'[k].hash = hash /\ step'[k].output = output
    /\ \A j \in Key : j # k => step'[j] = step[j]
    /\ run' = run

LEMMA NewWorkUpdates ==
    ASSUME DurableType, NEW k \in Key, NEW h \in Source, NewWork(k, h)
    PROVE  step[k].status = "absent" /\ RecordBecomes(k, "running", h, NULL)
<1> DEFINE new == [NoRecord EXCEPT !.status = "running", !.hash = h]
<1>1. new \in Record /\ new.status = "running" /\ new.hash = h /\ new.output = NULL
  BY DEF Record, Status, NoRecord
<1>2. step' = [step EXCEPT ![k] = new] /\ step[k].status = "absent" /\ run' = run
  BY DEF NewWork
<1> HIDE DEF new
<1> QED BY <1>1, <1>2 DEF RecordBecomes, DurableType

LEMMA RetryWorkUpdates ==
    ASSUME DurableType, NEW k \in Key, NEW h, RetryWork(k, h)
    PROVE  /\ step[k].status = "failed"
           /\ RecordBecomes(k, "running", step[k].hash, step[k].output)
<1> DEFINE new == [step[k] EXCEPT !.status = "running"]
<1>1. /\ new \in Record
      /\ new.status = "running" /\ new.hash = step[k].hash /\ new.output = step[k].output
  BY DEF Record, Status, DurableType
<1>2. step' = [step EXCEPT ![k] = new] /\ step[k].status = "failed" /\ run' = run
  BY DEF RetryWork
<1> HIDE DEF new
<1> QED BY <1>1, <1>2 DEF RecordBecomes, DurableType

LEMMA FinishWorkUpdates ==
    ASSUME DurableType, NEW k \in Key, NEW v \in Output \cup {NULL}, FinishWork(k, v)
    PROVE  step[k].status # "absent" /\ RecordBecomes(k, "completed", step[k].hash, v)
<1> DEFINE new == [step[k] EXCEPT !.status = "completed", !.output = v]
<1>1. /\ new \in Record
      /\ new.status = "completed" /\ new.hash = step[k].hash /\ new.output = v
  BY DEF Record, Status, DurableType
<1>2. step' = [step EXCEPT ![k] = new] /\ step[k].status # "absent" /\ run' = run
  BY DEF FinishWork
<1> HIDE DEF new
<1> QED BY <1>1, <1>2 DEF RecordBecomes, DurableType

LEMMA AbandonWorkUpdates ==
    ASSUME DurableType, NEW k \in Key, AbandonWork(k)
    PROVE  /\ step[k].status # "absent"
           /\ RecordBecomes(k, "failed", step[k].hash, step[k].output)
<1> DEFINE new == [step[k] EXCEPT !.status = "failed"]
<1>1. /\ new \in Record
      /\ new.status = "failed" /\ new.hash = step[k].hash /\ new.output = step[k].output
  BY DEF Record, Status, DurableType
<1>2. step' = [step EXCEPT ![k] = new] /\ step[k].status # "absent" /\ run' = run
  BY DEF AbandonWork
<1> HIDE DEF new
<1> QED BY <1>1, <1>2 DEF RecordBecomes, DurableType

(* A batch lies within the dataset and follows on the rows before it. *)
LEMMA BatchIsNext ==
    ASSUME NEW first \in 0..Rows
    PROVE  /\ BatchAt(first) \in Seq(Row) /\ BatchAt(first) \in Output
           /\ first + Len(BatchAt(first)) <= Rows
           /\ \A j \in 1..Len(BatchAt(first)) : BatchAt(first)[j] = first + j
<1> DEFINE last == IF first + BatchSize < Rows THEN first + BatchSize ELSE Rows
           all == [i \in Row |-> i]
<1>1. /\ Rows \in Nat /\ BatchSize \in Nat \ {0}
      /\ last \in Int /\ last <= Rows /\ first <= last /\ last <= first + BatchSize
  BY SizesAssumption
<1>2. \A i \in first + 1 .. last : all[i] \in Row /\ all[i] = i
  BY <1>1 DEF Row
<1>3. BatchAt(first) = SubSeq(all, first + 1, last)
  BY DEF BatchAt
<1> HIDE DEF last, all
<1>4. /\ BatchAt(first) \in Seq(Row)
      /\ Len(BatchAt(first)) = IF first + 1 <= last THEN last - (first + 1) + 1 ELSE 0
      /\ \A i \in 1 .. last - (first + 1) + 1 : BatchAt(first)[i] = all[(first + 1) + i - 1]
  BY <1>1, <1>2, <1>3, SubSeqProperties
<1>5. Len(BatchAt(first)) = last - first
  BY <1>1, <1>4
<1>6. \A j \in 1..Len(BatchAt(first)) : BatchAt(first)[j] = first + j
  BY <1>1, <1>2, <1>4, <1>5
<1>7. BatchAt(first) \in Output
  <2>1. CASE last = first
    BY <1>1, <1>4, <1>5, <2>1 DEF Output
  <2>2. CASE last # first
    <3>1. last - first \in 1..BatchSize
      BY <1>1, <2>2
    <3>2. BatchAt(first) \in [1..last - first -> Row]
      BY <1>1, <1>4, <1>5
    <3> QED BY <3>1, <3>2 DEF Output
  <2> QED BY <2>1, <2>2
<1> QED BY <1>1, <1>4, <1>5, <1>6, <1>7

-----------------------------------------------------------------------------
(* One step of a call of run_step. *)

StaysOutside ==
    /\ attempt' = attempt /\ viaQt' = viaQt /\ plan' = plan /\ pc' = pc
    /\ buffer' = buffer /\ offset' = offset /\ yielded' = yielded /\ exhausted' = exhausted
    /\ at' = at /\ item' = item /\ pending' = pending /\ done' = done
    /\ ready' = ready /\ expected' = expected /\ dry' = dry /\ out' = out

TroubleTyped == faults' \in 0..MaxFaults /\ hurt' \in BOOLEAN /\ (hurt => hurt')

(* The call of c and the record of its key. *)
CallStep(c, k) ==
    /\ Working(c)
    /\ call' \in [Caller -> CallRecord]
    /\ call'[c].key = k /\ call'[c].at \notin {"idle", "begin"}
    /\ \A d \in Caller : d # c => call'[d] = call[d]
    /\ run' = run /\ step' \in [Key -> Record]
    /\ \A j \in Key : j # k => step'[j] = step[j]

(* What it says and what it does to completed work. *)
CallSound(c, k) ==
    /\ call'[c].at \in {"execute", "complete"} => step'[k].status \in {"running", "failed"}
    /\ call'[c].at = "returned" =>
          step'[k].status = "completed" /\ step'[k].output = call'[c].output
    /\ \A first \in 0..Rows : k = <<"dataset-batch", first>> =>
          /\ step'[k].status = "completed" => step'[k].output = BatchAt(first)
          /\ call'[c].at = "complete" => call'[c].output = BatchAt(first)
    /\ step[k].status = "completed" =>
          /\ step'[k].output = step[k].output
          /\ \/ step'[k].status = "completed"
             \/ call[c].at = "fail" /\ step'[k].status = "failed"

(* Its record keeps or gets the hash of its key; it goes wrong only by a fault, if the
   server does not refuse it. *)
CallExplained(c, k) ==
    /\ step'[k].status # "absent" =>
          \/ step[k].status # "absent" /\ step'[k].hash = step[k].hash
          \/ step'[k].hash = HashOf(k)
    /\ Pinned /\ StepsKeepTheirHash /\ ErrorsHurt =>
          (call'[c].at \in {"fail", "raised"} => hurt')

LEMMA FaultTypes ==
    ASSUME TypeOK, Fault \/ UNCHANGED trouble
    PROVE  TroubleTyped
<1>1. CASE Fault
  <2>1. faults' \in 0..MaxFaults
    BY <1>1, SizesAssumption DEF TypeOK, Fault
  <2>2. hurt' = TRUE
    BY <1>1 DEF Fault
  <2> QED BY <2>1, <2>2 DEF TroubleTyped
<1>2. CASE UNCHANGED trouble
  BY <1>2 DEF TypeOK, trouble, TroubleTyped
<1> QED BY <1>1, <1>2

LEMMA KeyOfCall ==
    ASSUME SdkInv, NEW c \in Caller, call[c].at # "idle"
    PROVE  /\ call[c].key \in Key
           /\ \A first \in 0..Rows : call[c].key = <<"dataset-batch", first>> => c = 0
           /\ call[c].key[1] = "dataset-batch" =>
                 \E first \in 0..Rows : call[c].key = <<"dataset-batch", first>>
<1>1. CASE c = 0
  BY <1>1 DEF SdkInv, CallsHaveKeys, Key
<1>2. CASE c # 0
  <2>1. c \in Row
    BY <1>2, SizesAssumption DEF Caller, Row
  <2>2. c \in 1..Len(item) /\ call[c].key = <<"row", item[c]>>
    BY <2>1 DEF SdkInv, CallsHaveKeys, Row
  <2>3. item[c] \in Row
    BY <2>2 DEF SdkInv, TypeOK
  <2> QED BY <2>2, <2>3 DEF Key
<1> QED BY <1>1, <1>2

LEMMA CallsAreRecords == TypeOK => call \in [Caller -> CallRecord]
BY DEF TypeOK, CallRecord, CallState

LEMMA BeginEffect ==
    ASSUME SdkInv, NEW c \in Caller, NEW k \in Key, k = call[c].key, Begin(c)
    PROVE  CallStep(c, k) /\ CallSound(c, k) /\ CallExplained(c, k)
<1>1. /\ call[c].at = "begin" /\ call \in [Caller -> CallRecord] /\ DurableType
      /\ step[k].output \in Output \cup {NULL} /\ step \in [Key -> Record]
  BY CallsAreRecords DEF SdkInv, Begin, TypeOK, DurableType, Record
<1>2. Working(c)
  BY <1>1 DEF Working
<1>3. HashOf(k) \in Source
  BY DEF HashOf, SourceId, Source
<1>4. \A first \in 0..Rows : k = <<"dataset-batch", first>> =>
          (step[k].status = "completed" => step[k].output = BatchAt(first))
  BY DEF SdkInv, BatchesAreTrue
<1>5. CASE /\ BeginWork(k)
           /\ (Move(c, "execute") /\ UNCHANGED trouble) \/ (Move(c, "raised") /\ Fault)
  <2>1. PICK where \in {"execute", "raised"} :
            CallBecomes(c, where, k, call[c].output) /\ (where = "raised" => hurt')
    BY <1>1, <1>5, MoveUpdates DEF CallState, Fault
  <2>2. CASE NewWork(k, HashOf(k))
    <3>1. step[k].status = "absent" /\ RecordBecomes(k, "running", HashOf(k), NULL)
      BY <1>1, <1>3, <2>2, NewWorkUpdates
    <3> QED BY <1>2, <2>1, <3>1 DEF CallStep, CallSound, CallExplained, CallBecomes, RecordBecomes
  <2>3. CASE RetryWork(k, HashOf(k))
    <3>1. /\ step[k].status = "failed"
          /\ RecordBecomes(k, "running", step[k].hash, step[k].output)
      BY <1>1, <2>3, RetryWorkUpdates
    <3> QED BY <1>2, <2>1, <3>1 DEF CallStep, CallSound, CallExplained, CallBecomes, RecordBecomes
  <2>4. CASE JoinWork(k, HashOf(k))
    <3>1. step[k].status = "running" /\ step' = step /\ run' = run
      BY <2>4 DEF JoinWork, durable
    <3> QED BY <1>1, <1>2, <2>1, <3>1 DEF CallStep, CallSound, CallExplained, CallBecomes
  <2> QED BY <1>5, <2>2, <2>3, <2>4 DEF BeginWork
<1>6. CASE /\ ReuseWork(k, HashOf(k))
           /\ (Return(c, step[k].output) /\ UNCHANGED trouble) \/ (Move(c, "raised") /\ Fault)
  <2>1. step[k].status = "completed" /\ step' = step /\ run' = run
    BY <1>6 DEF ReuseWork, durable
  <2>2. CASE Return(c, step[k].output)
    <3>1. CallBecomes(c, "returned", k, step[k].output)
      BY <1>1, <2>2, OutputUpdates DEF Return, CallState
    <3> QED BY <1>1, <1>2, <1>4, <2>1, <3>1 DEF CallStep, CallSound, CallExplained, CallBecomes
  <2>3. CASE Move(c, "raised") /\ Fault
    <3>1. CallBecomes(c, "raised", k, call[c].output) /\ hurt'
      BY <1>1, <2>3, MoveUpdates DEF CallState, Fault
    <3> QED BY <1>1, <1>2, <1>4, <2>1, <3>1 DEF CallStep, CallSound, CallExplained, CallBecomes
  <2> QED BY <1>6, <2>2, <2>3
<1>7. CASE /\ Move(c, "raised") /\ UNCHANGED server
           /\ Fault \/ (step[k].status # "absent" /\ step[k].hash # HashOf(k))
  <2>1. CallBecomes(c, "raised", k, call[c].output) /\ step' = step /\ run' = run
    BY <1>1, <1>7, MoveUpdates DEF CallState, server
  <2>2. hurt' \/ ~StepsKeepTheirHash
    BY <1>7 DEF Fault, StepsKeepTheirHash
  <2> QED BY <1>1, <1>2, <1>4, <2>1, <2>2 DEF CallStep, CallSound, CallExplained, CallBecomes
<1> QED BY <1>5, <1>6, <1>7 DEF Begin

LEMMA ExecuteEffect ==
    ASSUME SdkInv, NEW c \in Caller, NEW k \in Key, k = call[c].key,
           Initialize(c) \/ LoadBatch(c) \/ ExecuteRow(c), attempt # 0
    PROVE  CallStep(c, k) /\ CallSound(c, k) /\ CallExplained(c, k)
<1>1. /\ call[c].at = "execute" /\ call \in [Caller -> CallRecord] /\ step \in [Key -> Record]
      /\ step' = step /\ run' = run /\ Working(c)
  BY CallsAreRecords
     DEF SdkInv, Initialize, LoadBatch, ExecuteRow, TypeOK, DurableType, server, Working
<1>2. step[k].status \in {"running", "failed"}
  BY <1>1 DEF SdkInv, CallsHaveSteps
<1>3. CASE Move(c, "fail") /\ (Fault \/ ~Pinned)
  <2>1. CallBecomes(c, "fail", k, call[c].output) /\ (hurt' \/ ~Pinned)
    BY <1>1, <1>3, MoveUpdates DEF CallState, Fault
  <2> QED BY <1>1, <1>2, <2>1 DEF CallStep, CallSound, CallExplained, CallBecomes
<1>4. ASSUME NEW output \in Output,
             call' = [call EXCEPT ![c].at = "complete", ![c].output = output],
             \A first \in 0..Rows : k = <<"dataset-batch", first>> => output = BatchAt(first)
      PROVE  CallStep(c, k) /\ CallSound(c, k) /\ CallExplained(c, k)
  <2>1. CallBecomes(c, "complete", k, output)
    BY <1>1, <1>4, OutputUpdates DEF CallState
  <2> QED BY <1>1, <1>2, <1>4, <2>1 DEF CallStep, CallSound, CallExplained, CallBecomes
<1>5. CASE Initialize(c)
  <2>1. <<>> \in Output /\ k[1] # "dataset-batch"
    BY <1>5 DEF Output, Initialize
  <2> QED BY <1>3, <1>4, <1>5, <2>1 DEF Initialize
<1>6. CASE LoadBatch(c)
  <2>1. PICK first \in 0..Rows : k = <<"dataset-batch", first>>
    BY <1>1, <1>6, KeyOfCall DEF LoadBatch
  <2>2. BatchAt(first) \in Output
    BY BatchIsNext
  <2>3. \/ Move(c, "fail") /\ (Fault \/ ~Pinned)
        \/ call' = [call EXCEPT ![c].at = "complete", ![c].output = BatchAt(first)]
    <3>1. call[c].key[2] = first
      BY <2>1
    <3> QED BY <1>6, <3>1, Zenon DEF LoadBatch, BatchAt
  <2> QED BY <1>3, <1>4, <2>1, <2>2, <2>3
<1>7. CASE ExecuteRow(c)
  <2>1. <<attempt>> \in Output
    <3>1. attempt \in Attempt
      BY SizesAssumption DEF SdkInv, TypeOK, Attempt
    <3>2. <<attempt>> \in [1..1 -> Attempt]
      BY <3>1
    <3> QED BY <3>2 DEF Output
  <2>2. k[1] # "dataset-batch"
    BY <1>7 DEF ExecuteRow
  <2> QED BY <1>3, <1>4, <1>7, <2>1, <2>2 DEF ExecuteRow
<1> QED BY <1>5, <1>6, <1>7

LEMMA EndEffect ==
    ASSUME SdkInv, NEW c \in Caller, NEW k \in Key, k = call[c].key, Complete(c) \/ Fail(c)
    PROVE  CallStep(c, k) /\ CallSound(c, k) /\ CallExplained(c, k)
<1>1. /\ call \in [Caller -> CallRecord] /\ DurableType /\ step \in [Key -> Record]
      /\ Working(c) /\ call[c].output \in Output \cup {NULL}
  BY CallsAreRecords DEF SdkInv, TypeOK, DurableType, Complete, Fail, Working
<1>2. \A first \in 0..Rows : k = <<"dataset-batch", first>> =>
          /\ step[k].status = "completed" => step[k].output = BatchAt(first)
          /\ call[c].at = "complete" => call[c].output = BatchAt(first)
  BY KeyOfCall DEF SdkInv, BatchesAreTrue, Working
<1>3. CASE Complete(c)
  <2>1. call[c].at = "complete" /\ step[k].status \in {"running", "failed"}
    BY <1>3 DEF Complete, SdkInv, CallsHaveSteps
  <2>2. PICK where \in {"returned", "fail"} :
            /\ CallBecomes(c, where, k, call[c].output)
            /\ where = "fail" => hurt'
            /\ FinishWork(k, call[c].output) \/ (where = "fail" /\ UNCHANGED server)
    BY <1>1, <1>3, MoveUpdates DEF Complete, CallState, Fault
  <2>3. CASE FinishWork(k, call[c].output)
    <3>1. RecordBecomes(k, "completed", step[k].hash, call[c].output)
      BY <1>1, <2>3, FinishWorkUpdates
    <3> QED
      BY <1>1, <1>2, <2>1, <2>2, <3>1
         DEF CallStep, CallSound, CallExplained, CallBecomes, RecordBecomes
  <2>4. CASE where = "fail" /\ UNCHANGED server
    <3>1. step' = step /\ run' = run
      BY <2>4 DEF server
    <3> QED
      BY <1>1, <1>2, <2>1, <2>2, <2>4, <3>1
         DEF CallStep, CallSound, CallExplained, CallBecomes
  <2> QED BY <2>2, <2>3, <2>4
<1>4. CASE Fail(c)
  <2>1. /\ call[c].at = "fail" /\ CallBecomes(c, "raised", k, call[c].output)
        /\ (AbandonWork(k) /\ UNCHANGED trouble) \/ (Fault /\ UNCHANGED server)
    BY <1>1, <1>4, MoveUpdates DEF Fail, CallState
  <2>2. ErrorsHurt => hurt'
    BY <2>1 DEF ErrorsHurt, trouble, Fault
  <2>3. CASE AbandonWork(k)
    <3>1. /\ step[k].status # "absent"
          /\ RecordBecomes(k, "failed", step[k].hash, step[k].output)
      BY <1>1, <2>3, AbandonWorkUpdates
    <3> QED
      BY <1>1, <1>2, <2>1, <2>2, <3>1
         DEF CallStep, CallSound, CallExplained, CallBecomes, RecordBecomes
  <2>4. CASE UNCHANGED server
    <3>1. step' = step /\ run' = run
      BY <2>4 DEF server
    <3> QED
      BY <1>1, <1>2, <2>1, <2>2, <3>1
         DEF CallStep, CallSound, CallExplained, CallBecomes
  <2> QED BY <2>1, <2>3, <2>4
<1> QED BY <1>3, <1>4

LEMMA RunStepEffect ==
    ASSUME SdkInv, NEW c \in Caller, RunStep(c), Running
    PROVE  /\ call[c].key \in Key
           /\ CallStep(c, call[c].key) /\ CallSound(c, call[c].key)
           /\ CallExplained(c, call[c].key)
           /\ StaysOutside /\ TroubleTyped /\ resolved' \in BOOLEAN
<1>1. call[c].at # "idle" /\ (Fault \/ UNCHANGED trouble)
  BY DEF RunStep, Begin, Initialize, LoadBatch, ExecuteRow, Complete, Fail
<1>2. StaysOutside
  BY DEF RunStep, Begin, Initialize, LoadBatch, ExecuteRow, Complete, Fail, StaysOutside, origin,
         dataset, iterator
<1>3. resolved' \in BOOLEAN
  BY DEF SdkInv, TypeOK, RunStep, Begin, Initialize, LoadBatch, ExecuteRow, Complete, Fail
<1>4. attempt # 0
  BY DEF SdkInv, IteratorType, Running
<1>5. call[c].key \in Key
  BY <1>1, KeyOfCall
<1>6. TroubleTyped
  BY <1>1, FaultTypes DEF SdkInv
<1> QED
  BY <1>2, <1>3, <1>4, <1>5, <1>6, BeginEffect, ExecuteEffect, EndEffect DEF RunStep

(* No two calls are about the same step. *)
LEMMA KeysDiffer ==
    ASSUME SdkInv, NEW c \in Caller, NEW d \in Caller, c # d,
           call[c].at # "idle", call[d].at # "idle"
    PROVE  call[c].key # call[d].key
<1>1. Caller = {0} \cup Row
  BY SizesAssumption DEF Caller, Row
<1>2. CASE c = 0 \/ d = 0
  <2>1. \A e \in Row : call[e].at # "idle" => call[e].key[1] = "row"
    BY DEF SdkInv, CallsHaveKeys
  <2>2. call[0].at # "idle" => call[0].key[1] \in {"dataset-init", "dataset-batch"}
    BY DEF SdkInv, CallsHaveKeys
  <2> QED BY <1>1, <1>2, <2>1, <2>2
<1>3. CASE c \in Row /\ d \in Row
  <2>1. /\ c \in 1..Len(item) /\ call[c].key = <<"row", item[c]>>
        /\ d \in 1..Len(item) /\ call[d].key = <<"row", item[d]>>
    BY <1>3 DEF SdkInv, CallsHaveKeys, Row
  <2>2. item[c] \in Row /\ item[d] \in Row /\ (c < d \/ d < c)
    BY <2>1 DEF SdkInv, TypeOK
  <2>3. item[c] # item[d]
    BY <2>1, <2>2 DEF SdkInv, RowsInOrder, Row
  <2> QED BY <2>1, <2>3
<1> QED BY <1>1, <1>2, <1>3

LEMMA CallStepKeeps ==
    ASSUME SdkInv, NEW c \in Caller, NEW k \in Key, k = call[c].key,
           CallStep(c, k), CallSound(c, k),
           StaysOutside, TroubleTyped, resolved' \in BOOLEAN, Running
    PROVE  SdkInv'
<1>1. /\ call' \in [Caller -> CallRecord] /\ call[c].at # "idle" /\ call'[c].at # "idle"
      /\ call'[c].key = call[c].key
      /\ \A d \in Caller : d # c => call'[d] = call[d]
      /\ \A j \in Key : j # k => step'[j] = step[j]
  BY DEF CallStep, Working
<1>2. TypeOK'
  <2>1. DurableType'
    BY DEF SdkInv, TypeOK, DurableType, CallStep
  <2>2. faults' \in 0..MaxFaults /\ hurt' \in BOOLEAN
    BY DEF TroubleTyped
  <2>3. call' \in [Caller -> [at: {"idle", "begin", "execute", "complete", "fail", "returned",
                                   "raised"},
                              key: Key \cup {NULL}, output: Output \cup {NULL}]]
    BY <1>1 DEF CallRecord, CallState
  <2> QED BY <2>1, <2>2, <2>3 DEF SdkInv, TypeOK, StaysOutside
<1>3. IteratorType' /\ RowsInOrder'
  BY DEF SdkInv, IteratorType, RowsInOrder, StaysOutside
<1>4. \A d \in Caller : (call'[d].at # "idle" <=> call[d].at # "idle") /\ call'[d].key = call[d].key
  BY <1>1
<1>5. CallsHaveKeys'
  <2>1. 0 \in Caller /\ Row \subseteq Caller
    BY SizesAssumption DEF Caller, Row
  <2> QED BY <1>4, <2>1 DEF SdkInv, CallsHaveKeys, StaysOutside
<1>6. CallsHaveSteps'
  <2> SUFFICES ASSUME NEW d \in Caller
               PROVE  /\ call'[d].at \in {"execute", "complete"} =>
                            step'[call'[d].key].status \in {"running", "failed"}
                      /\ call'[d].at = "returned" =>
                            /\ step'[call'[d].key].status = "completed"
                            /\ step'[call'[d].key].output = call'[d].output
    BY DEF CallsHaveSteps
  <2>1. CASE d = c
    BY <1>1, <2>1 DEF CallSound
  <2>2. CASE d # c /\ call[d].at = "idle"
    BY <1>1, <2>2
  <2>3. CASE d # c /\ call[d].at # "idle"
    <3>1. call[d].key \in Key /\ call[d].key # k
      BY <1>1, <2>3, KeyOfCall, KeysDiffer
    <3> QED BY <1>1, <2>3, <3>1 DEF SdkInv, CallsHaveSteps
  <2> QED BY <2>1, <2>2, <2>3
<1>7. BatchesAreTrue'
  <2> SUFFICES ASSUME NEW first \in 0..Rows, NEW key, key = <<"dataset-batch", first>>
               PROVE  /\ step'[key].status = "completed" => step'[key].output = BatchAt(first)
                      /\ call'[0].at = "complete" /\ call'[0].key = key =>
                            call'[0].output = BatchAt(first)
    BY DEF BatchesAreTrue, BatchAt
  <2>1. key \in Key /\ 0 \in Caller
    BY SizesAssumption DEF Key, Caller
  <2>2. /\ step[key].status = "completed" => step[key].output = BatchAt(first)
        /\ call[0].at = "complete" /\ call[0].key = key => call[0].output = BatchAt(first)
    BY DEF SdkInv, BatchesAreTrue
  <2>3. CASE key = k
    <3>1. c = 0
      BY <1>1, <2>3, KeyOfCall
    <3> QED BY <2>3, <3>1 DEF CallSound
  <2>4. CASE key # k
    <3>1. step'[key] = step[key]
      BY <1>1, <2>1, <2>4
    <3>2. call'[0].key = key => call'[0] = call[0]
      BY <1>1, <2>1, <2>4
    <3> QED BY <2>2, <3>1, <3>2
  <2> QED BY <2>3, <2>4
<1>8. ResultsInOnePlace'
  BY DEF SdkInv, ResultsInOnePlace, StaysOutside
<1>9. Working(c) /\ \A d \in Caller : Finished(d) => call'[d] = call[d]
  BY <1>1 DEF CallStep, Working, Finished
<1>10. ResultsAreReturned'
  <2>1. \A d \in 1..Len(item) : d \in Caller
    BY SizesAssumption DEF SdkInv, RowsInOrder, TypeOK, Caller
  <2>2. \A d \in Caller : call[d].at = "returned" => call'[d] = call[d]
    BY <1>9 DEF Finished
  <2>3. \A d \in Caller : call[d].at = "returned" => Result(d)' = Result(d)
    BY <2>2 DEF Result, StaysOutside
  <2>4. \A d \in done : Finished(d)'
    BY <1>9, <2>1 DEF SdkInv, ResultsAreReturned, ResultsInOnePlace, Finished
  <2>5. \A d \in DOMAIN ready : call'[d].at = "returned" /\ ready[d] = Result(d)'
    BY <2>1, <2>2, <2>3 DEF SdkInv, ResultsAreReturned, ResultsInOnePlace
  <2>6. \A i \in 1..Len(out) :
            call'[out[i][1]].at = "returned" /\ out[i] = Result(out[i][1])'
    <3> SUFFICES ASSUME NEW i \in 1..Len(out)
                 PROVE  call'[out[i][1]].at = "returned" /\ out[i] = Result(out[i][1])'
      OBVIOUS
    <3>1. out[i][1] \in Caller
      BY SizesAssumption DEF SdkInv, IteratorType, Outcome, Row, Caller
    <3>2. call[out[i][1]].at = "returned" /\ out[i] = Result(out[i][1])
      BY DEF SdkInv, ResultsAreReturned
    <3> QED BY <2>2, <3>1, <3>2 DEF Result, StaysOutside
  <2> QED BY <2>4, <2>5, <2>6 DEF ResultsAreReturned, StaysOutside
<1>11. WorkIsPending'
  <2>1. \A d \in Row : Working(d)' => Working(d)
    <3>1. Row \subseteq Caller
      BY SizesAssumption DEF Caller, Row
    <3> QED BY <1>1, <1>9, <3>1 DEF Working
  <2> QED BY <2>1 DEF SdkInv, WorkIsPending, StaysOutside
<1> QED
  BY <1>2, <1>3, <1>5, <1>6, <1>7, <1>8, <1>10, <1>11 DEF SdkInv

(* What all steps do to the records: completed work is given up by its own call at
   most, and a hash, once there, stays. *)
WorkIsKept ==
    \A k \in Key : step[k].status = "completed" =>
        /\ step'[k].output = step[k].output
        /\ \/ step'[k].status = "completed"
           \/ step'[k].status = "failed" /\ \E c \in Caller : call[c].at = "fail" /\ call[c].key = k
HashesAreKept ==
    \A k \in Key : step'[k].status # "absent" =>
        \/ step[k].status # "absent" /\ step'[k].hash = step[k].hash
        \/ step'[k].hash = HashOf(k)
RecordsGoOn == WorkIsKept /\ HashesAreKept

LEMMA RunStepKeeps ==
    ASSUME SdkInv, NEW c \in Caller, RunStep(c), Running
    PROVE  SdkInv' /\ RecordsGoOn
<1>1. /\ call[c].key \in Key
      /\ CallStep(c, call[c].key) /\ CallSound(c, call[c].key) /\ CallExplained(c, call[c].key)
      /\ StaysOutside /\ TroubleTyped /\ resolved' \in BOOLEAN
  BY RunStepEffect
<1>2. SdkInv'
  BY <1>1, CallStepKeeps
<1>3. WorkIsKept
  BY <1>1 DEF WorkIsKept, CallStep, CallSound
<1>4. HashesAreKept
  BY <1>1 DEF HashesAreKept, CallStep, CallExplained
<1> QED BY <1>2, <1>3, <1>4 DEF RecordsGoOn

LEMMA UnchangedRecords == step' = step => RecordsGoOn
BY DEF RecordsGoOn, WorkIsKept, HashesAreKept

-----------------------------------------------------------------------------
(* Calls that are cut off. *)

LEMMA CutOffEffect ==
    ASSUME SdkInv, NEW callers \in SUBSET Caller, CutOff(callers)
    PROVE  /\ call' \in [Caller -> CallRecord]
           /\ \A d \in Caller : call'[d] = IF d \in callers THEN NoCall ELSE call[d]
           /\ step' \in [Key -> Record]
           /\ \A k \in Key :
                 \/ step'[k] = step[k]
                 \/ \E c \in callers :
                       /\ call[c].at = "complete" /\ call[c].key = k
                       /\ step'[k].status = "completed" /\ step'[k].output = call[c].output
                       /\ step'[k].hash = step[k].hash
<1>1. call \in [Caller -> CallRecord] /\ step \in [Key -> Record]
  BY CallsAreRecords DEF SdkInv, TypeOK, DurableType
<1>2. /\ call' \in [Caller -> CallRecord]
      /\ \A d \in Caller : call'[d] = IF d \in callers THEN NoCall ELSE call[d]
  <2>1. NoCall \in CallRecord
    BY DEF CallRecord, CallState, NoCall
  <2> QED BY <1>1, <2>1 DEF CutOff
<1>3. PICK arriving \in SUBSET {c \in callers : call[c].at = "complete"} :
          step' = [k \in Key |->
                     IF \E c \in arriving : call[c].key = k
                     THEN [step[k] EXCEPT !.status = "completed",
                              !.output = call[CHOOSE c \in arriving : call[c].key = k].output]
                     ELSE step[k]]
  BY DEF CutOff
<1>4. ASSUME NEW k \in Key
      PROVE  /\ step'[k] \in Record
             /\ \/ step'[k] = step[k]
                \/ \E c \in callers :
                      /\ call[c].at = "complete" /\ call[c].key = k
                      /\ step'[k].status = "completed" /\ step'[k].output = call[c].output
                      /\ step'[k].hash = step[k].hash
  <2>1. CASE ~ \E c \in arriving : call[c].key = k
    BY <1>1, <1>3, <2>1
  <2>2. CASE \E c \in arriving : call[c].key = k
    <3> DEFINE c == CHOOSE c \in arriving : call[c].key = k
               new == [step[k] EXCEPT !.status = "completed", !.output = call[c].output]
    <3>1. c \in callers /\ call[c].at = "complete" /\ call[c].key = k
      BY <2>2
    <3>2. step'[k] = new
      BY <1>3, <2>2
    <3>3. call[c].output \in Output \cup {NULL} /\ step[k] \in Record
      BY <1>1, <3>1 DEF CallRecord
    <3> HIDE DEF c
    <3>4. /\ new \in Record /\ new.status = "completed" /\ new.output = call[c].output
          /\ new.hash = step[k].hash
      BY <3>3 DEF Record, Status
    <3> HIDE DEF new
    <3> QED BY <3>1, <3>2, <3>4
  <2> QED BY <2>1, <2>2
<1>5. step' \in [Key -> Record]
  <2>1. DOMAIN step' = Key /\ step' = [k \in Key |-> step'[k]]
    BY <1>3
  <2> QED BY <1>4, <2>1
<1> QED BY <1>2, <1>4, <1>5

(* All calls of a script that ends, or those of the pending tasks. *)
LEMMA CutOffKeeps ==
    ASSUME SdkInv, NEW callers \in SUBSET Caller, CutOff(callers),
           run' = run, attempt' = attempt, viaQt' = viaQt, plan' = plan, resolved' = resolved,
           UNCHANGED <<dataset, item, pending, done, ready, expected, dry, out>>,
           TroubleTyped, pc # "off",
           \/ callers = Caller /\ at' = at /\ pc' \in {"off", "reaped", "refused"}
           \/ callers = pending /\ at' = "raised" /\ pc' = pc
    PROVE  SdkInv' /\ RecordsGoOn
<1>1. /\ call' \in [Caller -> CallRecord]
      /\ \A d \in Caller : d \in callers => call'[d].at = "idle"
      /\ \A d \in Caller : d \notin callers => call'[d] = call[d]
      /\ step' \in [Key -> Record]
      /\ \A k \in Key :
            \/ step'[k] = step[k]
            \/ \E c \in callers :
                  /\ call[c].at = "complete" /\ call[c].key = k
                  /\ step'[k].status = "completed" /\ step'[k].output = call[c].output
                  /\ step'[k].hash = step[k].hash
  BY CutOffEffect DEF NoCall
<1>2. /\ buffer' = buffer /\ offset' = offset /\ yielded' = yielded /\ exhausted' = exhausted
      /\ item' = item /\ pending' = pending /\ done' = done /\ ready' = ready
      /\ expected' = expected /\ dry' = dry /\ out' = out
  BY DEF dataset
<1>3. 0 \in Caller /\ Row \subseteq Caller /\ \A d \in Row : d # 0
  BY SizesAssumption DEF Caller, Row
<1>4. TypeOK'
  <2>1. DurableType' /\ faults' \in 0..MaxFaults /\ hurt' \in BOOLEAN
    BY <1>1 DEF SdkInv, TypeOK, DurableType, TroubleTyped
  <2>2. call' \in [Caller -> [at: {"idle", "begin", "execute", "complete", "fail", "returned",
                                   "raised"},
                              key: Key \cup {NULL}, output: Output \cup {NULL}]]
    BY <1>1 DEF CallRecord, CallState
  <2>3. /\ at' \in {"unstarted", "fill", "load", "wait", "drain", "yield", "cancel", "raised",
                    "finished", "abandoned"}
        /\ pc' \in {"off", "health", "open", "map", "output", "complete", "except", "leave",
                    "reaped", "refused"}
    BY DEF SdkInv, TypeOK
  <2> QED BY <1>2, <2>1, <2>2, <2>3 DEF SdkInv, TypeOK
<1>5. IteratorType' /\ RowsInOrder'
  BY <1>2 DEF SdkInv, IteratorType, RowsInOrder
<1>6. CallsHaveKeys'
  BY <1>1, <1>2, <1>3 DEF SdkInv, CallsHaveKeys
<1>7. CallsHaveSteps'
  <2> SUFFICES ASSUME NEW d \in Caller, call'[d].at # "idle"
               PROVE  /\ call'[d].at \in {"execute", "complete"} =>
                            step'[call'[d].key].status \in {"running", "failed"}
                      /\ call'[d].at = "returned" =>
                            /\ step'[call'[d].key].status = "completed"
                            /\ step'[call'[d].key].output = call'[d].output
    BY DEF CallsHaveSteps
  <2>1. d \notin callers /\ call'[d] = call[d] /\ call[d].at # "idle"
    BY <1>1
  <2>2. call[d].key \in Key
    BY <2>1, KeyOfCall
  <2>3. \A c \in callers : call[c].at = "complete" => call[c].key # call[d].key
    BY <2>1, KeysDiffer
  <2>4. step'[call[d].key] = step[call[d].key]
    BY <1>1, <2>2, <2>3
  <2> QED BY <2>1, <2>4 DEF SdkInv, CallsHaveSteps
<1>8. BatchesAreTrue'
  <2> SUFFICES ASSUME NEW first \in 0..Rows, NEW key, key = <<"dataset-batch", first>>
               PROVE  /\ step'[key].status = "completed" => step'[key].output = BatchAt(first)
                      /\ call'[0].at = "complete" /\ call'[0].key = key =>
                            call'[0].output = BatchAt(first)
    BY DEF BatchesAreTrue, BatchAt
  <2>1. key \in Key
    BY DEF Key
  <2>2. /\ step[key].status = "completed" => step[key].output = BatchAt(first)
        /\ call[0].at = "complete" /\ call[0].key = key => call[0].output = BatchAt(first)
    BY DEF SdkInv, BatchesAreTrue
  <2>3. \A c \in Caller : call[c].at = "complete" /\ call[c].key = key => c = 0
    BY KeyOfCall
  <2> QED BY <1>1, <1>3, <2>1, <2>2, <2>3
<1>9. ResultsInOnePlace'
  BY <1>2 DEF SdkInv, ResultsInOnePlace
<1>10. ResultsAreReturned'
  <2>1. CASE pc' \in {"off", "reaped", "refused"}
    BY <2>1 DEF ResultsAreReturned, Running
  <2>2. CASE callers = pending /\ pc' = pc /\ pc \notin {"off", "reaped", "refused"}
    <3>1. /\ \A d \in done : d \in Caller \ pending
          /\ \A d \in DOMAIN ready : d \in Caller \ pending
          /\ \A i \in 1..Len(out) : out[i][1] \in Caller \ pending
      <4>1. done \subseteq Row /\ DOMAIN ready \subseteq Row
        BY DEF SdkInv, TypeOK, IteratorType
      <4>2. \A i \in 1..Len(out) : out[i][1] \in Row
        BY DEF SdkInv, IteratorType, Outcome
      <4>3. /\ pending \cap done = {} /\ DOMAIN ready \cap (pending \cup done) = {}
            /\ \A i \in 1..Len(out) : out[i][1] \notin pending \cup done
        BY DEF SdkInv, ResultsInOnePlace
      <4> QED BY <1>3, <4>1, <4>2, <4>3
    <3>2. \A d \in Caller \ pending :
              /\ call'[d] = call[d] /\ Finished(d)' = Finished(d) /\ Result(d)' = Result(d)
      BY <1>1, <1>2, <2>2 DEF Finished, Result
    <3>3. Running
      BY <2>2 DEF Running
    <3> QED BY <1>2, <3>1, <3>2, <3>3 DEF SdkInv, ResultsAreReturned
  <2> QED BY <2>1, <2>2
<1>11. WorkIsPending'
  <2>1. \A d \in Row : Working(d)' => Working(d) /\ d \notin callers
    BY <1>1, <1>3 DEF Working
  <2> QED BY <1>2, <2>1 DEF SdkInv, WorkIsPending
<1>12. RecordsGoOn
  <2>1. \A c \in Caller : call[c].at = "complete" =>
            step[call[c].key].status \in {"running", "failed"}
    BY DEF SdkInv, CallsHaveSteps
  <2>2. \A k \in Key : step'[k] # step[k] => step[k].status \in {"running", "failed"}
    BY <1>1, <2>1
  <2> QED BY <1>1, <2>2 DEF RecordsGoOn, WorkIsKept, HashesAreKept
<1> QED
  BY <1>4, <1>5, <1>6, <1>7, <1>8, <1>9, <1>10, <1>11, <1>12 DEF SdkInv

-----------------------------------------------------------------------------
(* The workflow wrapper. *)

PcType == {"off", "health", "open", "map", "output", "complete", "except", "leave", "reaped",
           "refused"}
AtType == {"unstarted", "fill", "load", "wait", "drain", "yield", "cancel", "raised",
           "finished", "abandoned"}

(* A process that has just started, or none at all, with the records of earlier ones. *)
FreshState ==
    /\ call = [c \in Caller |-> NoCall]
    /\ buffer = <<>> /\ offset = 0 /\ yielded = 0 /\ exhausted = FALSE /\ resolved = FALSE
    /\ at = "unstarted" /\ item = <<>> /\ pending = {} /\ done = {}
    /\ ready = <<>> /\ expected = 1 /\ dry = FALSE /\ out = <<>>
    /\ DurableType /\ plan \in Plan /\ viaQt \in BOOLEAN /\ attempt \in 0..MaxAttempts
    /\ faults \in 0..MaxFaults /\ hurt \in BOOLEAN /\ pc \in PcType
    /\ pc # "off" => attempt # 0
    /\ \A first \in 0..Rows : step[<<"dataset-batch", first>>].status = "completed" =>
           step[<<"dataset-batch", first>>].output = BatchAt(first)

(* It has nothing of what the invariant speaks about. *)
LEMMA FreshIsGood == FreshState => SdkInv
<1> SUFFICES ASSUME FreshState PROVE SdkInv
  OBVIOUS
<1>1. /\ NoCall \in CallRecord
      /\ \A c \in Caller : call[c].at = "idle"
      /\ 0 \in Caller /\ Row \subseteq Caller /\ Rows \in Nat
  BY SizesAssumption DEF FreshState, CallRecord, CallState, NoCall, Caller, Row
<1>2. TypeOK
  <2>1. call \in [Caller -> [at: {"idle", "begin", "execute", "complete", "fail", "returned",
                                  "raised"},
                             key: Key \cup {NULL}, output: Output \cup {NULL}]]
    BY <1>1 DEF FreshState, CallRecord, CallState
  <2>2. item \in Seq(Row) /\ pending \subseteq Row /\ done \subseteq Row
    BY DEF FreshState
  <2>3. resolved \in BOOLEAN /\ exhausted \in BOOLEAN
    BY Zenon DEF FreshState
  <2>4. offset \in 0..Rows /\ yielded \in 0..Rows
    BY <1>1 DEF FreshState
  <2>5. at = "unstarted" /\ pc \in PcType
    BY DEF FreshState
  <2> QED BY <2>1, <2>2, <2>3, <2>4, <2>5 DEF FreshState, TypeOK, PcType
<1>3. DOMAIN ready = {} /\ Len(out) = 0 /\ Len(item) = 0 /\ Len(buffer) = 0
  BY DEF FreshState
<1>4. IteratorType
  <2>1. buffer \in Seq(Row)
    BY DEF FreshState
  <2>2. out \in Seq(Outcome)
    BY DEF FreshState
  <2>3. expected \in Nat \ {0}
    BY DEF FreshState
  <2>4. dry \in BOOLEAN
    BY DEF FreshState
  <2> QED BY <1>3, <2>1, <2>2, <2>3, <2>4 DEF FreshState, IteratorType
<1>5. RowsInOrder
  BY <1>1, <1>3 DEF FreshState, RowsInOrder
<1>6. CallsHaveKeys /\ CallsHaveSteps /\ BatchesAreTrue
  BY <1>1 DEF FreshState, CallsHaveKeys, CallsHaveSteps, BatchesAreTrue
<1>7. ResultsInOnePlace /\ ResultsAreReturned
  BY <1>3 DEF FreshState, ResultsInOnePlace, ResultsAreReturned
<1>8. WorkIsPending
  <2>1. Cardinality(pending) <= MaxConcurrency
    BY FS_EmptySet, SizesAssumption DEF FreshState
  <2> QED BY <1>1, <2>1 DEF FreshState, WorkIsPending, Working
<1> QED BY <1>2, <1>4, <1>5, <1>6, <1>7, <1>8 DEF SdkInv

LEMMA InitIsFresh == Init => FreshState
<1> SUFFICES ASSUME Init PROVE FreshState
  OBVIOUS
<1>1. NoRecord \in Record
  BY DEF NoRecord, Record, Status
<1>2. DurableType /\ \A k \in Key : step[k].status = "absent"
  BY <1>1 DEF Init, DurableInit, DurableType, NoRecord, Status
<1>3. \A first \in 0..Rows : <<"dataset-batch", first>> \in Key
  BY DEF Key
<1>4. 0 \in 0..MaxAttempts /\ 0 \in 0..MaxFaults
  BY SizesAssumption
<1>5. /\ plan \in Plan /\ viaQt \in BOOLEAN /\ attempt \in 0..MaxAttempts
      /\ faults \in 0..MaxFaults /\ hurt \in BOOLEAN /\ pc \in PcType /\ pc = "off"
  BY <1>4, PlansAssumption DEF Init, PcType
<1> QED BY <1>2, <1>3, <1>5 DEF Init, FreshState

LEMMA InitIsGood == Init => SdkInv
BY InitIsFresh, FreshIsGood

LEMMA StartIsFresh ==
    ASSUME SdkInv, \E qt \in BOOLEAN : Start(qt)
    PROVE  /\ FreshState' /\ run' = "running" /\ pc' = "health"
           /\ step' = step /\ plan' = plan
<1>1. PICK qt \in BOOLEAN : Start(qt)
  OBVIOUS
<1>2. run' = "running" /\ step' = step
  BY <1>1 DEF Start, StartRun, RestartRun
<1>3. attempt' \in 0..MaxAttempts /\ attempt' # 0 /\ faults' = faults /\ plan' = plan
  BY <1>1, SizesAssumption DEF SdkInv, TypeOK, Start
<1>4. DurableType'
  BY <1>2 DEF SdkInv, TypeOK, DurableType, Status
<1>5. pc' = "health" /\ hurt' = FALSE /\ viaQt' = qt /\ StartAfresh
  BY <1>1 DEF Start
<1>6. FreshState'
  <2>1. \A first \in 0..Rows : step'[<<"dataset-batch", first>>].status = "completed" =>
            step'[<<"dataset-batch", first>>].output = BatchAt(first)
    BY <1>2 DEF SdkInv, BatchesAreTrue
  <2> QED
    BY <1>3, <1>4, <1>5, <2>1 DEF FreshState, StartAfresh, SdkInv, TypeOK, PcType, BatchAt
<1> QED BY <1>2, <1>3, <1>5, <1>6

LEMMA StartKeeps ==
    ASSUME SdkInv, \E qt \in BOOLEAN : Start(qt)
    PROVE  SdkInv' /\ RecordsGoOn
<1>1. FreshState' /\ step' = step
  BY StartIsFresh
<1>2. (FreshState => SdkInv)'
  BY FreshIsGood, PTL
<1> QED BY <1>1, <1>2, UnchangedRecords

(* Steps that leave calls and results alone, and of the records fail the open ones. *)
LEMMA WrapperMoves ==
    ASSUME SdkInv, call' = call, resolved' = resolved, UNCHANGED <<origin, dataset>>,
           UNCHANGED <<item, pending, done, ready, expected, dry, out>>,
           TroubleTyped, at' \in {at, "abandoned"}, pc' \in PcType \ {"map"}, pc # "off",
           Running' => Running,
           run' \in Status,
           step' = step \/ step' = [k \in Key |-> IF step[k].status = "running"
                                                THEN [step[k] EXCEPT !.status = "failed"]
                                                ELSE step[k]]
    PROVE  SdkInv' /\ RecordsGoOn
<1>1. /\ attempt' = attempt /\ viaQt' = viaQt /\ plan' = plan
      /\ buffer' = buffer /\ offset' = offset /\ yielded' = yielded /\ exhausted' = exhausted
      /\ item' = item /\ pending' = pending /\ done' = done /\ ready' = ready
      /\ expected' = expected /\ dry' = dry /\ out' = out
  BY DEF origin, dataset
<1>2. /\ step' \in [Key -> Record]
      /\ \A k \in Key : \/ step'[k] = step[k]
                        \/ /\ step[k].status = "running" /\ step'[k].status = "failed"
                           /\ step'[k].hash = step[k].hash
  <2>1. step \in [Key -> Record]
    BY DEF SdkInv, TypeOK, DurableType
  <2>2. \A k \in Key : LET new == [step[k] EXCEPT !.status = "failed"] IN
            new \in Record /\ new.status = "failed" /\ new.hash = step[k].hash
    BY <2>1 DEF Record, Status
  <2> QED BY <2>1, <2>2
<1>3. TypeOK'
  <2>1. DurableType' /\ faults' \in 0..MaxFaults /\ hurt' \in BOOLEAN
    BY <1>2 DEF DurableType, TroubleTyped
  <2> QED BY <1>1, <2>1 DEF SdkInv, TypeOK, PcType
<1>4. IteratorType' /\ RowsInOrder' /\ ResultsInOnePlace'
  BY <1>1 DEF SdkInv, IteratorType, RowsInOrder, ResultsInOnePlace
<1>5. CallsHaveKeys'
  BY <1>1 DEF SdkInv, CallsHaveKeys
<1>6. CallsHaveSteps'
  <2>1. \A c \in Caller : call[c].at # "idle" => call[c].key \in Key
    BY KeyOfCall
  <2> QED BY <1>2, <2>1 DEF SdkInv, CallsHaveSteps
<1>7. BatchesAreTrue'
  <2>1. \A first \in 0..Rows : <<"dataset-batch", first>> \in Key
    BY DEF Key
  <2> QED BY <1>2, <2>1 DEF SdkInv, BatchesAreTrue, BatchAt
<1>8. ResultsAreReturned'
  BY <1>1 DEF SdkInv, ResultsAreReturned, Finished, Result
<1>9. WorkIsPending'
  BY <1>1 DEF SdkInv, WorkIsPending, Working
<1>10. RecordsGoOn
  BY <1>2 DEF RecordsGoOn, WorkIsKept, HashesAreKept
<1> QED BY <1>3, <1>4, <1>5, <1>6, <1>7, <1>8, <1>9, <1>10 DEF SdkInv

LEMMA RunEndsKeep ==
    ASSUME SdkInv, Handled \/ SetOutput \/ CompleteRun \/ FailRun \/ Reap \/ Abandon
    PROVE  SdkInv' /\ RecordsGoOn
<1>1. TypeOK /\ run \in Status /\ (UNCHANGED trouble => TroubleTyped) /\ (Fault => TroubleTyped)
  BY FaultTypes DEF SdkInv, TypeOK, DurableType
<1>2. CASE Handled
  BY <1>1, <1>2, WrapperMoves DEF Handled, iterator, PcType, Running, server
<1>3. CASE SetOutput
  BY <1>1, <1>3, WrapperMoves DEF SetOutput, iterator, PcType, Running, server
<1>4. CASE CompleteRun
  <2>1. run' \in Status /\ step' = step
    BY <1>1, <1>4 DEF CompleteRun, FinishRun, server, Status
  <2> QED BY <1>1, <1>4, <2>1, WrapperMoves DEF CompleteRun, iterator, PcType, Running
<1>5. CASE FailRun
  <2>1. /\ run' \in Status
        /\ step' = step \/ step' = [k \in Key |-> IF step[k].status = "running"
                                                 THEN [step[k] EXCEPT !.status = "failed"]
                                                 ELSE step[k]]
    BY <1>1, <1>5 DEF FailRun, AbandonRun, server, Status
  <2> QED BY <1>1, <1>5, <2>1, WrapperMoves DEF FailRun, iterator, PcType, Running
<1>6. CASE Reap
  <2>1. /\ run' \in Status
        /\ step' = step \/ step' = [k \in Key |-> IF step[k].status = "running"
                                                 THEN [step[k] EXCEPT !.status = "failed"]
                                                 ELSE step[k]]
    BY <1>1, <1>6 DEF Reap, FinishRun, AbandonRun, Status
  <2> QED BY <1>1, <1>6, <2>1, WrapperMoves DEF Reap, iterator, PcType, Running
<1>7. CASE Abandon
  BY <1>1, <1>7, WrapperMoves DEF Abandon, PcType, Running, server
<1> QED BY <1>2, <1>3, <1>4, <1>5, <1>6, <1>7

LEMMA LeavesKeep ==
    ASSUME SdkInv, Leave \/ Kill
    PROVE  SdkInv' /\ RecordsGoOn
<1>1. TroubleTyped
  BY FaultTypes DEF SdkInv, Leave, Kill
<1>2. /\ CutOff(Caller) /\ run' = run /\ resolved' = resolved
      /\ UNCHANGED <<origin, dataset, iterator>> /\ pc # "off"
      /\ pc' \in {"off", "reaped", "refused"}
  BY DEF Leave, Kill, Running
<1>3. /\ attempt' = attempt /\ viaQt' = viaQt /\ plan' = plan /\ at' = at
      /\ UNCHANGED <<dataset, item, pending, done, ready, expected, dry, out>>
  BY <1>2 DEF origin, iterator
<1> QED BY <1>1, <1>2, <1>3, CutOffKeeps

-----------------------------------------------------------------------------
(* The handler's own calls, and the rows of the dataset. *)

(* Caller 0 enters a call about the dataset, or is through with one; tasks and their
   results stay as they are. *)
LEMMA HandlerKeeps ==
    ASSUME SdkInv, NEW where \in {"idle", "begin"}, NEW key \in Key \cup {NULL},
           NEW output \in Output \cup {NULL}, CallBecomes(0, where, key, output),
           where = "begin" => key \in {<<"dataset-init", 0>>} \cup ({"dataset-batch"} \X (0..Rows)),
           UNCHANGED <<server, origin, item, pending, done, ready, expected, out>>,
           TroubleTyped, resolved' = resolved, dry' \in BOOLEAN,
           offset' = offset, yielded' = yielded, exhausted' \in BOOLEAN,
           buffer' \in Seq(Row), offset + Len(buffer') <= Rows,
           \A j \in 1..Len(buffer') : buffer'[j] = offset + j,
           at' \in AtType, at' \in {"finished", "raised"} => at' = at,
           pc' \in PcType, pc # "off", Running' => Running,
           at' = "load" /\ pc' = "map" =>
               buffer' = <<>> /\ where = "begin" /\ key = <<"dataset-batch", offset>>
    PROVE  SdkInv' /\ RecordsGoOn
<1>1. /\ run' = run /\ step' = step /\ attempt' = attempt /\ viaQt' = viaQt /\ plan' = plan
      /\ item' = item /\ pending' = pending /\ done' = done /\ ready' = ready
      /\ expected' = expected /\ out' = out
  BY DEF server, origin
<1>2. /\ call' \in [Caller -> CallRecord] /\ call'[0].at = where /\ call'[0].key = key
      /\ \A d \in Caller : d # 0 => call'[d] = call[d]
  BY DEF CallBecomes
<1>3. 0 \in Caller /\ Row \subseteq Caller /\ \A d \in Row : d # 0
  BY SizesAssumption DEF Caller, Row
<1>4. TypeOK'
  <2>1. DurableType'
    BY <1>1 DEF SdkInv, TypeOK, DurableType
  <2>2. call' \in [Caller -> [at: {"idle", "begin", "execute", "complete", "fail", "returned",
                                   "raised"},
                              key: Key \cup {NULL}, output: Output \cup {NULL}]]
    BY <1>2 DEF CallRecord, CallState
  <2> QED BY <1>1, <2>1, <2>2 DEF SdkInv, TypeOK, TroubleTyped, AtType, PcType
<1>5. IteratorType' /\ RowsInOrder'
  BY <1>1 DEF SdkInv, IteratorType, RowsInOrder
<1>6. CallsHaveKeys'
  BY <1>1, <1>2, <1>3 DEF SdkInv, CallsHaveKeys
<1>7. CallsHaveSteps' /\ BatchesAreTrue'
  BY <1>1, <1>2 DEF SdkInv, CallsHaveSteps, BatchesAreTrue, BatchAt
<1>8. ResultsInOnePlace'
  BY <1>1 DEF SdkInv, ResultsInOnePlace
<1>9. ResultsAreReturned'
  <2>1. /\ done \subseteq Row /\ DOMAIN ready \subseteq Row
        /\ \A i \in 1..Len(out) : out[i][1] \in Row
    BY DEF SdkInv, TypeOK, IteratorType, Outcome
  <2>2. \A d \in Row : call'[d] = call[d] /\ Finished(d)' = Finished(d) /\ Result(d)' = Result(d)
    BY <1>1, <1>2, <1>3 DEF Finished, Result
  <2> QED BY <1>1, <2>1, <2>2 DEF SdkInv, ResultsAreReturned
<1>10. WorkIsPending'
  <2>1. \A d \in Row : Working(d)' = Working(d)
    BY <1>2, <1>3 DEF Working
  <2> QED BY <1>1, <2>1 DEF SdkInv, WorkIsPending
<1> QED
  BY <1>1, <1>4, <1>5, <1>6, <1>7, <1>8, <1>9, <1>10, UnchangedRecords DEF SdkInv

LEMMA HandlerCallsKeep ==
    ASSUME SdkInv, Health \/ Open \/ (pc = "map" /\ (AskBatch \/ GetBatch))
    PROVE  SdkInv' /\ RecordsGoOn
<1>1. /\ TypeOK /\ call \in [Caller -> CallRecord] /\ 0 \in Caller
      /\ (UNCHANGED trouble => TroubleTyped) /\ (Fault => TroubleTyped)
      /\ buffer \in Seq(Row) /\ offset + Len(buffer) <= Rows /\ offset \in 0..Rows
      /\ \A j \in 1..Len(buffer) : buffer[j] = offset + j
      /\ exhausted \in BOOLEAN /\ dry \in BOOLEAN /\ at \in AtType
  BY CallsAreRecords, FaultTypes, SizesAssumption
     DEF SdkInv, TypeOK, IteratorType, RowsInOrder, Caller, AtType
<1>2. NULL \in Key \cup {NULL} /\ NULL \in Output \cup {NULL}
  OBVIOUS
<1>3. CASE Health /\ pc' = "open"
  <2>1. <<"dataset-init", 0>> \in Key
    BY DEF Key
  <2>2. CallBecomes(0, "begin", <<"dataset-init", 0>>, NULL)
    BY <1>1, <1>3, <2>1, EnterUpdates DEF Health
  <2>3. UNCHANGED <<server, origin, item, pending, done, ready, expected, out>>
        /\ resolved' = resolved /\ UNCHANGED dataset /\ at' = at /\ dry' = dry /\ TroubleTyped
    BY <1>1, <1>3 DEF Health, iterator
  <2> QED BY <1>1, <1>2, <1>3, <2>1, <2>2, <2>3, HandlerKeeps DEF Health, dataset, PcType, Running
<1>4. CASE Health /\ pc' # "open"
  BY <1>1, <1>4, WrapperMoves DEF Health, iterator, server, PcType, Running, SdkInv, TypeOK,
                                  DurableType
<1>5. CASE Open
  <2>1. CallBecomes(0, "idle", NULL, NULL)
    BY <1>1, <1>5, ResetUpdates DEF Open
  <2>2. UNCHANGED <<server, origin, item, pending, done, ready, expected, out>>
        /\ resolved' = resolved /\ UNCHANGED dataset /\ dry' = dry /\ TroubleTyped
    BY <1>1, <1>5 DEF Open
  <2>3. \/ pc' = "except" /\ at' = at
        \/ pc' = "map" /\ at' = "fill"
    BY <1>5 DEF Open
  <2> QED
    BY <1>1, <1>2, <1>5, <2>1, <2>2, <2>3, HandlerKeeps
       DEF Open, dataset, PcType, Running, AtType
<1>6. CASE pc = "map" /\ AskBatch
  <2>1. <<"dataset-batch", offset>> \in Key
    BY <1>1 DEF Key
  <2>2. CallBecomes(0, "begin", <<"dataset-batch", offset>>, NULL)
    BY <1>1, <1>6, <2>1, EnterUpdates DEF AskBatch
  <2>3. UNCHANGED <<server, origin, item, pending, done, ready, expected, out>>
        /\ resolved' = resolved /\ UNCHANGED dataset /\ dry' = dry /\ TroubleTyped
        /\ buffer = <<>> /\ at' = "load" /\ pc' = pc
    BY <1>1, <1>6 DEF AskBatch
  <2> QED
    BY <1>1, <1>2, <1>6, <2>1, <2>2, <2>3, HandlerKeeps DEF dataset, PcType, Running, AtType
<1>7. CASE pc = "map" /\ GetBatch
  <2>1. CallBecomes(0, "idle", NULL, NULL)
    BY <1>1, <1>7, ResetUpdates DEF GetBatch
  <2>2. UNCHANGED <<server, origin, item, pending, done, ready, expected, out>>
        /\ resolved' = resolved /\ TroubleTyped /\ pc' = pc
    BY <1>1, <1>7 DEF GetBatch
  <2>3. /\ offset' = offset /\ yielded' = yielded
        /\ exhausted' \in BOOLEAN /\ dry' \in BOOLEAN
        /\ at' \in {"cancel", "yield", "fill"}
        /\ \/ buffer' = buffer
           \/ call[0].at = "returned" /\ buffer' = buffer \o call[0].output
    BY <1>1, <1>7 DEF GetBatch, Raise, Ended, dataset, Finished
  <2>4. buffer = <<>> /\ call[0].key = <<"dataset-batch", offset>>
    BY <1>7 DEF SdkInv, CallsHaveKeys, GetBatch
  <2>5. call[0].at = "returned" => call[0].output = BatchAt(offset)
    BY <1>1, <2>4 DEF SdkInv, CallsHaveSteps, BatchesAreTrue
  <2>6. buffer' = <<>> \/ buffer' = BatchAt(offset)
    <3>1. BatchAt(offset) \in Seq(Row)
      BY <1>1, BatchIsNext
    <3> QED BY <2>3, <2>4, <2>5, <3>1
  <2>7. /\ buffer' \in Seq(Row) /\ offset + Len(buffer') <= Rows
        /\ \A j \in 1..Len(buffer') : buffer'[j] = offset + j
    BY <1>1, <2>4, <2>6, BatchIsNext
  <2> QED
    BY <1>1, <1>2, <1>7, <2>1, <2>2, <2>3, <2>7, HandlerKeeps DEF PcType, Running, AtType
<1> QED BY <1>3, <1>4, <1>5, <1>6, <1>7

-----------------------------------------------------------------------------
(* The concurrent iterator. *)

LEMMA InFlight ==
    SdkInv => /\ IsFiniteSet(pending) /\ Cardinality(pending) \in Nat
              /\ Row \subseteq Caller /\ \A d \in Row : d # 0
              /\ call \in [Caller -> CallRecord]
              /\ Len(item) \in 0..Rows
<1> SUFFICES ASSUME SdkInv PROVE /\ IsFiniteSet(pending) /\ Cardinality(pending) \in Nat
                                 /\ Row \subseteq Caller /\ \A d \in Row : d # 0
                                 /\ call \in [Caller -> CallRecord]
                                 /\ Len(item) \in 0..Rows
  OBVIOUS
<1>1. Len(item) \in 0..Rows
  BY SizesAssumption DEF SdkInv, TypeOK, RowsInOrder
<1>2. IsFiniteSet(1..Len(item))
  BY <1>1, FS_Interval
<1>3. IsFiniteSet(pending)
  BY <1>2, FS_Subset DEF SdkInv, ResultsInOnePlace
<1>4. Cardinality(pending) \in Nat
  BY <1>3, FS_CardinalityType
<1> QED BY <1>1, <1>3, <1>4, CallsAreRecords, SizesAssumption DEF SdkInv, Caller, Row

(* Steps of the iterator that leave calls and records alone. *)
LEMMA IteratorMoves ==
    ASSUME SdkInv, pc = "map",
           UNCHANGED <<server, origin, pc, call, resolved, item>>, TroubleTyped,
           buffer' \in Seq(Row), offset' \in 0..Rows, yielded' \in 0..Rows,
           exhausted' \in BOOLEAN, RowsInOrder',
           at' \in AtType \ {"load"}, dry' \in BOOLEAN, pending' \subseteq Row, done' \subseteq Row,
           DOMAIN ready' \subseteq Row, \A c \in DOMAIN ready' : ready'[c] \in Outcome,
           expected' \in Nat \ {0}, out' \in Seq(Outcome),
           ResultsInOnePlace', ResultsAreReturned', WorkIsPending'
    PROVE  SdkInv' /\ RecordsGoOn
<1>1. /\ run' = run /\ step' = step /\ attempt' = attempt /\ viaQt' = viaQt /\ plan' = plan
      /\ pc' = pc /\ call' = call /\ resolved' = resolved /\ item' = item
  BY DEF server, origin
<1>2. TypeOK'
  BY <1>1 DEF SdkInv, TypeOK, DurableType, TroubleTyped, AtType
<1>3. IteratorType'
  BY <1>1 DEF SdkInv, IteratorType
<1>4. CallsHaveKeys' /\ CallsHaveSteps'
  BY <1>1 DEF SdkInv, CallsHaveKeys, CallsHaveSteps
<1>5. BatchesAreTrue'
  BY <1>1 DEF SdkInv, BatchesAreTrue, BatchAt
<1> QED BY <1>1, <1>2, <1>3, <1>4, <1>5, UnchangedRecords DEF SdkInv

LEMMA FillKeeps ==
    ASSUME SdkInv, pc = "map", FillDone \/ FillLimit
    PROVE  SdkInv' /\ RecordsGoOn
<1>1. /\ UNCHANGED <<server, origin, trouble, pc, call, resolved, dataset, item, pending, done,
                     ready, expected, out>>
      /\ at' = "yield" /\ dry' \in BOOLEAN
  BY DEF FillDone, FillLimit, Ended, SdkInv, IteratorType
<1>2. /\ buffer' = buffer /\ offset' = offset /\ yielded' = yielded /\ exhausted' = exhausted
      /\ plan' = plan /\ TroubleTyped
  BY <1>1, FaultTypes DEF dataset, origin, SdkInv
<1>3. RowsInOrder' /\ ResultsInOnePlace'
  BY <1>1, <1>2 DEF SdkInv, RowsInOrder, ResultsInOnePlace
<1>4. ResultsAreReturned' /\ WorkIsPending'
  BY <1>1 DEF SdkInv, ResultsAreReturned, WorkIsPending, Running, Finished, Working, Result
<1>5. /\ buffer' \in Seq(Row) /\ offset' \in 0..Rows /\ yielded' \in 0..Rows
      /\ exhausted' \in BOOLEAN /\ at' \in AtType \ {"load"}
      /\ pending' \subseteq Row /\ done' \subseteq Row
      /\ DOMAIN ready' \subseteq Row /\ \A c \in DOMAIN ready' : ready'[c] \in Outcome
      /\ expected' \in Nat \ {0} /\ out' \in Seq(Outcome)
  BY <1>1, <1>2 DEF SdkInv, TypeOK, IteratorType, AtType
<1> QED BY <1>1, <1>2, <1>3, <1>4, <1>5, IteratorMoves

LEMMA WaitKeeps ==
    ASSUME SdkInv, pc = "map", Wait
    PROVE  SdkInv' /\ RecordsGoOn
<1>1. /\ UNCHANGED <<server, origin, trouble, pc, call, resolved, dataset, item, ready,
                     expected, dry, out>>
      /\ at' \in {"finished", "drain"}
      /\ at' = "finished" => pending = {}
      /\ pending' \subseteq pending /\ done' \subseteq pending \cup done
      /\ pending' \cap done' = {}
      /\ \A c \in done' : c \in done \/ Finished(c)
      /\ \A c \in pending \ pending' : Finished(c)
  BY DEF Wait, SdkInv, ResultsInOnePlace
<1>2. /\ buffer' = buffer /\ offset' = offset /\ yielded' = yielded /\ exhausted' = exhausted
      /\ plan' = plan /\ TroubleTyped
  BY <1>1, FaultTypes DEF dataset, origin, SdkInv
<1>3. RowsInOrder' /\ ResultsInOnePlace'
  BY <1>1, <1>2 DEF SdkInv, RowsInOrder, ResultsInOnePlace
<1>4. ResultsAreReturned'
  BY <1>1 DEF SdkInv, ResultsAreReturned, Running, Finished, Result
<1>5. WorkIsPending'
  <2>1. Cardinality(pending') <= MaxConcurrency
    <3>1. Cardinality(pending') <= Cardinality(pending) /\ Cardinality(pending') \in Nat
      BY <1>1, InFlight, FS_Subset, FS_CardinalityType
    <3> QED BY <3>1, InFlight, SizesAssumption DEF SdkInv, WorkIsPending
  <2>2. \A c \in Row : Working(c)' => c \in pending'
    BY <1>1 DEF SdkInv, WorkIsPending, Working, Finished
  <2> QED BY <1>1, <2>1, <2>2 DEF WorkIsPending
<1>6. /\ buffer' \in Seq(Row) /\ offset' \in 0..Rows /\ yielded' \in 0..Rows
      /\ exhausted' \in BOOLEAN /\ at' \in AtType \ {"load"} /\ dry' \in BOOLEAN
      /\ pending' \subseteq Row /\ done' \subseteq Row
      /\ DOMAIN ready' \subseteq Row /\ \A c \in DOMAIN ready' : ready'[c] \in Outcome
      /\ expected' \in Nat \ {0} /\ out' \in Seq(Outcome)
  BY <1>1, <1>2 DEF SdkInv, TypeOK, IteratorType, AtType
<1> QED BY <1>1, <1>2, <1>3, <1>4, <1>5, <1>6, IteratorMoves

(* The consumer gets one more result, next in its order and of no task in flight. *)
LEMMA OutGrows ==
    ASSUME SdkInv, Running, NEW c \in Row, call[c].at = "returned", c \notin pending,
           Result(c) \in Outcome, out' = Append(out, Result(c)),
           \A i \in 1..Len(out) : out[i][1] # c
    PROVE  /\ out' \in Seq(Outcome) /\ Len(out') = Len(out) + 1
           /\ \A i \in 1..Len(out) : out'[i] = out[i]
           /\ out'[Len(out) + 1][1] = c
           /\ \A i, j \in 1..Len(out') : out'[i][1] = out'[j][1] => i = j
           /\ \A i \in 1..Len(out') :
                 call[out'[i][1]].at = "returned" /\ out'[i] = Result(out'[i][1])
<1>1. out \in Seq(Outcome) /\ Result(c)[1] = c
  BY DEF SdkInv, IteratorType, Result
<1>2. /\ out' \in Seq(Outcome) /\ Len(out') = Len(out) + 1
      /\ \A i \in 1..Len(out) : out'[i] = out[i]
      /\ out'[Len(out) + 1] = Result(c)
  BY <1>1
<1>3. \A i \in 1..Len(out') : i \in 1..Len(out) \/ i = Len(out) + 1
  BY <1>1, <1>2
<1>4. \A i, j \in 1..Len(out) : out[i][1] = out[j][1] => i = j
  BY DEF SdkInv, ResultsInOnePlace
<1>5. \A i, j \in 1..Len(out') : out'[i][1] = out'[j][1] => i = j
  BY <1>1, <1>2, <1>3, <1>4
<1>6. \A i \in 1..Len(out) : call[out[i][1]].at = "returned" /\ out[i] = Result(out[i][1])
  BY DEF SdkInv, ResultsAreReturned
<1>7. ASSUME NEW i \in 1..Len(out')
      PROVE  call[out'[i][1]].at = "returned" /\ out'[i] = Result(out'[i][1])
  <2>1. CASE i \in 1..Len(out)
    BY <1>2, <1>6, <2>1
  <2>2. CASE i = Len(out) + 1
    BY <1>1, <1>2, <2>2
  <2> QED BY <1>3, <2>1, <2>2
<1> QED BY <1>1, <1>2, <1>5, <1>7

LEMMA DrainKeeps ==
    ASSUME SdkInv, pc = "map", Drain
    PROVE  SdkInv' /\ RecordsGoOn
<1>1. /\ UNCHANGED <<server, origin, trouble, pc, call, resolved, dataset, item, pending,
                     expected, dry>>
      /\ at' \in {"fill", "drain", "cancel"}
      /\ done' \subseteq done
  BY DEF Drain, Raise
<1>2. /\ buffer' = buffer /\ offset' = offset /\ yielded' = yielded /\ exhausted' = exhausted
      /\ plan' = plan /\ TroubleTyped /\ Running
  BY <1>1, FaultTypes DEF dataset, origin, SdkInv, Running
<1>3. RowsInOrder'
  BY <1>1, <1>2 DEF SdkInv, RowsInOrder
<1>4. WorkIsPending'
  BY <1>1 DEF SdkInv, WorkIsPending, Working
<1>5. /\ buffer' \in Seq(Row) /\ offset' \in 0..Rows /\ yielded' \in 0..Rows
      /\ exhausted' \in BOOLEAN /\ at' \in AtType \ {"load"} /\ dry' \in BOOLEAN
      /\ pending' \subseteq Row /\ done' \subseteq Row /\ expected' \in Nat \ {0}
  BY <1>1, <1>2 DEF SdkInv, TypeOK, IteratorType, AtType
<1>6. CASE UNCHANGED <<ready, out>>
  <2>1. ResultsInOnePlace' /\ ResultsAreReturned'
    BY <1>1, <1>2, <1>6
       DEF SdkInv, ResultsInOnePlace, ResultsAreReturned, Running, Finished, Result
  <2>2. /\ DOMAIN ready' \subseteq Row /\ \A c \in DOMAIN ready' : ready'[c] \in Outcome
        /\ out' \in Seq(Outcome)
    BY <1>6 DEF SdkInv, IteratorType
  <2> QED BY <1>1, <1>2, <1>3, <1>4, <1>5, <2>1, <2>2, IteratorMoves
<1>7. ASSUME NEW c \in done, done' = done \ {c}, call[c].at # "raised", Keep(c)
      PROVE  SdkInv' /\ RecordsGoOn
  <2>1. c \in Row /\ c \in 1..Len(item) /\ c \notin pending /\ c \notin DOMAIN ready
    BY DEF SdkInv, TypeOK, ResultsInOnePlace
  <2>2. call[c].at = "returned"
    BY <1>2, <1>7 DEF SdkInv, ResultsAreReturned, Finished
  <2>3. Result(c) \in Outcome /\ Result(c)[1] = c
    <3>1. item[c] \in Row
      BY <2>1 DEF SdkInv, TypeOK
    <3>2. call[c].output \in Output \cup {NULL}
      BY <2>1, InFlight DEF CallRecord
    <3> QED BY <2>1, <3>1, <3>2 DEF Result, Outcome
  <2>4. \A i \in 1..Len(out) : out[i][1] # c
    BY DEF SdkInv, ResultsInOnePlace
  <2>5. \A d : Result(d)' = Result(d) /\ Finished(d)' = Finished(d)
    BY <1>1 DEF Result, Finished
  <2>6. CASE plan.order = "completion"
    <3>1. out' = Append(out, Result(c)) /\ ready' = ready
      BY <1>7, <2>6 DEF Keep
    <3>2. /\ out' \in Seq(Outcome) /\ Len(out') = Len(out) + 1
          /\ \A i \in 1..Len(out) : out'[i] = out[i]
          /\ out'[Len(out) + 1][1] = c
          /\ \A i, j \in 1..Len(out') : out'[i][1] = out'[j][1] => i = j
          /\ \A i \in 1..Len(out') :
                call[out'[i][1]].at = "returned" /\ out'[i] = Result(out'[i][1])
      BY <1>1, <1>2, <2>1, <2>2, <2>3, <2>4, <3>1, OutGrows
    <3>3. \A i \in 1..Len(out') : i \in 1..Len(out) \/ i = Len(out) + 1
      BY <3>2 DEF SdkInv, IteratorType
    <3>4. \A i \in 1..Len(out') : out'[i][1] \notin pending \cup done'
      BY <1>7, <2>1, <3>2, <3>3 DEF SdkInv, ResultsInOnePlace
    <3>5. ResultsInOnePlace'
      BY <1>1, <1>2, <2>6, <3>1, <3>2, <3>4 DEF SdkInv, ResultsInOnePlace
    <3>6. ResultsAreReturned'
      <4>1. /\ \A d \in done' : Finished(d)'
            /\ \A d \in DOMAIN ready : call'[d].at = "returned" /\ ready'[d] = Result(d)'
        BY <1>1, <1>2, <2>5, <3>1 DEF SdkInv, ResultsAreReturned
      <4>2. \A i \in 1..Len(out') :
                call'[out'[i][1]].at = "returned" /\ out'[i] = Result(out'[i][1])
        BY <1>1, <3>2
      <4> QED BY <1>1, <3>1, <4>1, <4>2 DEF ResultsAreReturned, Result
    <3>7. DOMAIN ready' \subseteq Row /\ \A d \in DOMAIN ready' : ready'[d] \in Outcome
      BY <3>1 DEF SdkInv, IteratorType
    <3> QED BY <1>1, <1>2, <1>3, <1>4, <1>5, <3>2, <3>5, <3>6, <3>7, IteratorMoves
  <2>7. CASE plan.order # "completion"
    <3>1. ready' = [d \in DOMAIN ready \cup {c} |-> IF d = c THEN Result(c) ELSE ready[d]]
          /\ out' = out
      BY <1>7, <2>7 DEF Keep
    <3>2. /\ DOMAIN ready' = DOMAIN ready \cup {c}
          /\ \A d \in DOMAIN ready : ready'[d] = ready[d]
          /\ ready'[c] = Result(c)
      BY <2>1, <3>1
    <3>3. ResultsInOnePlace'
      BY <1>1, <1>2, <1>7, <2>1, <2>3, <2>7, <3>1, <3>2 DEF SdkInv, ResultsInOnePlace
    <3>4. ResultsAreReturned'
      BY <1>1, <1>2, <2>2, <2>5, <3>1, <3>2 DEF SdkInv, ResultsAreReturned
    <3>5. /\ DOMAIN ready' \subseteq Row /\ \A d \in DOMAIN ready' : ready'[d] \in Outcome
          /\ out' \in Seq(Outcome)
      BY <2>1, <2>3, <3>1, <3>2 DEF SdkInv, IteratorType
    <3> QED BY <1>1, <1>2, <1>3, <1>4, <1>5, <3>3, <3>4, <3>5, IteratorMoves
  <2> QED BY <2>6, <2>7
<1> QED BY <1>6, <1>7 DEF Drain

LEMMA YieldKeeps ==
    ASSUME SdkInv, pc = "map", Yield
    PROVE  SdkInv' /\ RecordsGoOn
<1>1. /\ UNCHANGED <<server, origin, trouble, pc, call, resolved, dataset, item, pending, done,
                     ready, dry>>
      /\ at' \in {"yield", "wait"} /\ at = "yield"
  BY DEF Yield
<1>2. /\ buffer' = buffer /\ offset' = offset /\ yielded' = yielded /\ exhausted' = exhausted
      /\ plan' = plan /\ TroubleTyped /\ Running
  BY <1>1, FaultTypes DEF dataset, origin, SdkInv, Running
<1>3. RowsInOrder' /\ WorkIsPending'
  BY <1>1, <1>2 DEF SdkInv, RowsInOrder, WorkIsPending, Working
<1>4. /\ buffer' \in Seq(Row) /\ offset' \in 0..Rows /\ yielded' \in 0..Rows
      /\ exhausted' \in BOOLEAN /\ at' \in AtType \ {"load"} /\ dry' \in BOOLEAN
      /\ pending' \subseteq Row /\ done' \subseteq Row
      /\ DOMAIN ready' \subseteq Row /\ \A d \in DOMAIN ready' : ready'[d] \in Outcome
  BY <1>1, <1>2 DEF SdkInv, TypeOK, IteratorType, AtType
<1>5. CASE UNCHANGED <<out, expected>>
  <2>1. ResultsInOnePlace' /\ ResultsAreReturned'
    BY <1>1, <1>2, <1>5
       DEF SdkInv, ResultsInOnePlace, ResultsAreReturned, Running, Finished, Result
  <2>2. expected' \in Nat \ {0} /\ out' \in Seq(Outcome)
    BY <1>5 DEF SdkInv, IteratorType
  <2> QED BY <1>1, <1>2, <1>3, <1>4, <2>1, <2>2, IteratorMoves
<1>6. CASE expected \in DOMAIN ready
  <2>1. out' = Append(out, ready[expected]) /\ expected' = expected + 1
    BY <1>6 DEF Yield
  <2>2. /\ plan.order = "input" /\ expected = Len(out) + 1 /\ expected \in Row
        /\ \A i \in 1..Len(out) : out[i][1] = i
    <3>1. plan.order \in {"input", "completion"}
      BY DEF SdkInv, TypeOK, Plan
    <3> QED BY <1>6, <3>1 DEF SdkInv, ResultsInOnePlace, IteratorType
  <2>3. call[expected].at = "returned" /\ ready[expected] = Result(expected)
    BY <1>2, <1>6 DEF SdkInv, ResultsAreReturned
  <2>4. Result(expected) \in Outcome /\ expected \notin pending \cup done
    BY <1>6, <2>3 DEF SdkInv, IteratorType, ResultsInOnePlace
  <2>5. out \in Seq(Outcome) /\ \A i \in 1..Len(out) : out[i][1] # expected
    BY <2>2 DEF SdkInv, IteratorType
  <2>6. /\ out' \in Seq(Outcome) /\ Len(out') = Len(out) + 1
        /\ \A i \in 1..Len(out) : out'[i] = out[i]
        /\ out'[Len(out) + 1][1] = expected
        /\ \A i, j \in 1..Len(out') : out'[i][1] = out'[j][1] => i = j
        /\ \A i \in 1..Len(out') :
              call[out'[i][1]].at = "returned" /\ out'[i] = Result(out'[i][1])
    BY <1>1, <1>2, <2>1, <2>2, <2>3, <2>4, <2>5, OutGrows
  <2>7. \A i \in 1..Len(out') : i \in 1..Len(out) \/ i = Len(out) + 1
    BY <2>5, <2>6
  <2>8. /\ \A i \in 1..Len(out') : out'[i][1] \notin pending \cup done
        /\ \A i \in 1..Len(out') : out'[i][1] = i
        /\ expected' = Len(out') + 1
    <3>1. \A i \in 1..Len(out) : out[i][1] \notin pending \cup done
      BY DEF SdkInv, ResultsInOnePlace
    <3>2. \A i \in 1..Len(out') : out'[i][1] \notin pending \cup done
      BY <2>4, <2>6, <2>7, <3>1
    <3>3. \A i \in 1..Len(out') : out'[i][1] = i
      BY <2>2, <2>6, <2>7
    <3> QED BY <2>1, <2>2, <2>6, <3>2, <3>3
  <2>9. ResultsInOnePlace'
    BY <1>1, <1>2, <2>2, <2>6, <2>8 DEF SdkInv, ResultsInOnePlace
  <2>10. ResultsAreReturned'
    <3>1. \A d : Result(d)' = Result(d) /\ Finished(d)' = Finished(d)
      BY <1>1 DEF Result, Finished
    <3>2. /\ \A d \in done' : Finished(d)'
          /\ \A d \in DOMAIN ready' : call'[d].at = "returned" /\ ready'[d] = Result(d)'
      BY <1>1, <1>2, <3>1 DEF SdkInv, ResultsAreReturned
    <3>3. \A i \in 1..Len(out') :
              call'[out'[i][1]].at = "returned" /\ out'[i] = Result(out'[i][1])
      BY <1>1, <2>6
    <3> QED BY <1>1, <3>2, <3>3 DEF ResultsAreReturned, Result
  <2>11. expected' \in Nat \ {0}
    BY <2>1 DEF SdkInv, IteratorType
  <2> QED BY <1>1, <1>2, <1>3, <1>4, <2>6, <2>9, <2>10, <2>11, IteratorMoves
<1> QED BY <1>5, <1>6 DEF Yield

LEMMA CancelKeeps ==
    ASSUME SdkInv, pc = "map", Cancel
    PROVE  SdkInv' /\ RecordsGoOn
<1>1. /\ CutOff(pending) /\ at' = "raised" /\ run' = run /\ pc' = pc /\ resolved' = resolved
      /\ UNCHANGED <<dataset, item, pending, done, ready, expected, dry, out>>
      /\ UNCHANGED <<origin, trouble>>
  BY DEF Cancel
<1>2. attempt' = attempt /\ viaQt' = viaQt /\ plan' = plan /\ TroubleTyped
  BY <1>1, FaultTypes DEF origin, SdkInv
<1>3. pending \in SUBSET Caller
  BY InFlight DEF SdkInv, TypeOK
<1> QED BY <1>1, <1>2, <1>3, CutOffKeeps

(* The row popped next. *)
LEMMA PopEffect ==
    ASSUME SdkInv, buffer # <<>>, buffer' = Tail(buffer), offset' = offset + 1
    PROVE  /\ buffer' \in Seq(Row) /\ offset' \in 0..Rows
           /\ Head(buffer) = offset + 1
           /\ offset' + Len(buffer') <= Rows
           /\ \A j \in 1..Len(buffer') : buffer'[j] = offset' + j
<1>1. /\ buffer \in Seq(Row) /\ offset \in 0..Rows /\ offset + Len(buffer) <= Rows
      /\ \A j \in 1..Len(buffer) : buffer[j] = offset + j
      /\ Rows \in Nat
  BY SizesAssumption DEF SdkInv, TypeOK, IteratorType, RowsInOrder
<1>2. Len(buffer) \in Nat \ {0} /\ Head(buffer) = buffer[1]
  BY <1>1
<1>3. /\ buffer' \in Seq(Row) /\ Len(buffer') = Len(buffer) - 1
      /\ \A j \in 1..Len(buffer') : buffer'[j] = buffer[j + 1]
  BY <1>1
<1> QED BY <1>1, <1>2, <1>3

LEMMA TakeRowKeeps ==
    ASSUME SdkInv, pc = "map", TakeRow
    PROVE  SdkInv' /\ RecordsGoOn
<1> DEFINE row == Head(buffer)
           c == Len(item) + 1
<1>1. /\ UNCHANGED <<server, origin, faults, pc, resolved, done, ready, expected, out>>
      /\ at = "fill" /\ Room /\ buffer # <<>> /\ hurt' \in {hurt, TRUE}
      /\ buffer' = Tail(buffer) /\ offset' = offset + 1
  BY DEF TakeRow, NextOffset, Asking
<1>2. /\ run' = run /\ step' = step /\ attempt' = attempt /\ viaQt' = viaQt /\ plan' = plan
      /\ pc' = pc /\ resolved' = resolved /\ done' = done /\ ready' = ready
      /\ expected' = expected /\ out' = out /\ TroubleTyped /\ Running
  <2>1. TroubleTyped
    <3>1. faults' = faults
      BY <1>1
    <3>2. hurt' = hurt \/ hurt' = TRUE
      BY <1>1
    <3> QED BY <3>1, <3>2, Zenon DEF SdkInv, TypeOK, TroubleTyped
  <2> QED BY <1>1, <2>1 DEF server, origin, Running
<1>3. /\ buffer' \in Seq(Row) /\ offset' \in 0..Rows /\ row = offset + 1
      /\ offset' + Len(buffer') <= Rows
      /\ \A j \in 1..Len(buffer') : buffer'[j] = offset' + j
  BY <1>1, PopEffect
<1>4. /\ offset \in 0..Rows /\ yielded \in 0..Rows /\ yielded <= offset /\ Rows \in Nat
      /\ Len(item) \in 0..Rows /\ Len(item) <= yielded /\ item \in Seq(Row)
      /\ \A i \in 1..Len(item) : item[i] \in Row /\ item[i] <= offset
      /\ \A i, j \in 1..Len(item) : i < j => item[i] < item[j]
  BY InFlight, SizesAssumption DEF SdkInv, TypeOK, RowsInOrder
<1>5. ASSUME UNCHANGED <<call, item, pending>>, yielded' \in {yielded, yielded + 1},
             exhausted' \in BOOLEAN, dry' \in BOOLEAN, at' \in {"fill", "yield", "cancel"}
      PROVE  SdkInv' /\ RecordsGoOn
  <2>1. RowsInOrder' /\ yielded' \in 0..Rows
    <3>1. yielded' \in 0..Rows /\ yielded' <= offset' /\ Len(item') <= yielded'
      BY <1>1, <1>3, <1>4, <1>5
    <3>2. \A i \in 1..Len(item') : item'[i] <= offset'
      BY <1>1, <1>4, <1>5 DEF Row
    <3>3. \A i, j \in 1..Len(item') : i < j => item'[i] < item'[j]
      BY <1>4, <1>5
    <3> QED BY <1>3, <3>1, <3>2, <3>3 DEF RowsInOrder
  <2>2. ResultsInOnePlace'
    BY <1>2, <1>5 DEF SdkInv, ResultsInOnePlace
  <2>3. ResultsAreReturned' /\ WorkIsPending'
    BY <1>2, <1>5 DEF SdkInv, ResultsAreReturned, WorkIsPending, Running, Finished, Working, Result
  <2>4. /\ pending' \subseteq Row /\ done' \subseteq Row
        /\ DOMAIN ready' \subseteq Row /\ \A d \in DOMAIN ready' : ready'[d] \in Outcome
        /\ expected' \in Nat \ {0} /\ out' \in Seq(Outcome) /\ at' \in AtType \ {"load"}
    BY <1>2, <1>5 DEF SdkInv, TypeOK, IteratorType, AtType
  <2> QED BY <1>1, <1>2, <1>3, <1>5, <2>1, <2>2, <2>3, <2>4, IteratorMoves
<1>6. ASSUME yielded' = yielded + 1, item' = Append(item, row), pending' = pending \cup {c},
             Enter(c, <<"row", row>>), UNCHANGED <<at, exhausted, dry>>
      PROVE  SdkInv' /\ RecordsGoOn
  <2>1. row \in Row /\ c \in Row /\ c \in 1..c /\ c \notin 1..Len(item)
    BY <1>1, <1>3, <1>4 DEF Row
  <2>2. CallBecomes(c, "begin", <<"row", row>>, NULL)
    <3>1. <<"row", row>> \in Key
      BY <2>1 DEF Key
    <3>2. c \in Caller /\ call \in [Caller -> CallRecord]
      BY <2>1, InFlight
    <3> QED BY <1>6, <3>1, <3>2, EnterUpdates
  <2>3. /\ call' \in [Caller -> CallRecord]
        /\ call'[c].at = "begin" /\ call'[c].key = <<"row", row>>
        /\ \A d \in Caller : d # c => call'[d] = call[d]
    BY <2>2 DEF CallBecomes
  <2>4. /\ item' \in Seq(Row) /\ Len(item') = c /\ item'[c] = row
        /\ \A i \in 1..Len(item) : item'[i] = item[i]
        /\ \A i \in 1..Len(item') : i \in 1..Len(item) \/ i = c
    BY <1>4, <1>6, <2>1
  <2> HIDE DEF row, c
  <2>5. \A d \in Row : d # 0
    BY InFlight
  <2>6. 0 \in Caller /\ Row \subseteq Caller
    BY SizesAssumption DEF Caller, Row
  <2>7. TypeOK'
    <3>1. call' \in [Caller -> [at: {"idle", "begin", "execute", "complete", "fail", "returned",
                                     "raised"},
                                key: Key \cup {NULL}, output: Output \cup {NULL}]]
      BY <2>3 DEF CallRecord, CallState
    <3>2. DurableType' /\ faults' \in 0..MaxFaults /\ hurt' \in BOOLEAN
      BY <1>2 DEF SdkInv, TypeOK, DurableType, TroubleTyped
    <3>3. yielded' \in 0..Rows
      BY <1>3, <1>4, <1>6, <1>1
    <3>4. pending' \subseteq Row
      BY <1>6, <2>1 DEF SdkInv, TypeOK
    <3> QED
      BY <1>2, <1>3, <1>6, <2>4, <3>1, <3>2, <3>3, <3>4 DEF SdkInv, TypeOK
  <2>8. IteratorType'
    BY <1>2, <1>3, <1>6 DEF SdkInv, IteratorType
  <2>9. RowsInOrder'
    <3>1. yielded' <= offset' /\ Len(item') <= yielded'
      BY <1>1, <1>4, <1>6, <2>4 DEF c
    <3>2. ASSUME NEW i \in 1..Len(item') PROVE item'[i] <= offset'
      <4>1. CASE i \in 1..Len(item)
        <5>1. item'[i] = item[i]
          BY <2>4, <4>1
        <5>2. item[i] \in Int /\ item[i] <= offset
          BY <1>4, <4>1 DEF Row
        <5> QED BY <1>1, <1>4, <5>1, <5>2
      <4>2. CASE i = c
        BY <1>1, <1>3, <1>4, <2>4, <4>2
      <4> QED BY <2>4, <4>1, <4>2
    <3>3. \A i, j \in 1..Len(item') : i < j => item'[i] < item'[j]
      <4> SUFFICES ASSUME NEW i \in 1..Len(item'), NEW j \in 1..Len(item'), i < j
                   PROVE  item'[i] < item'[j]
        OBVIOUS
      <4>1. i \in 1..Len(item) /\ item'[i] = item[i]
        BY <1>4, <2>4 DEF c
      <4>2. CASE j = c
        BY <1>3, <1>4, <2>4, <4>1, <4>2 DEF Row
      <4>3. CASE j \in 1..Len(item)
        BY <1>4, <2>4, <4>1, <4>3 DEF Row
      <4> QED BY <2>4, <4>2, <4>3
    <3> QED BY <1>3, <3>1, <3>2, <3>3 DEF RowsInOrder
  <2>10. call[c].at = "idle" /\ c \notin pending \cup done \cup DOMAIN ready
    BY <1>4, <2>1 DEF c, SdkInv, CallsHaveKeys, ResultsInOnePlace
  <2>11. CallsHaveKeys'
    <3>1. \A d \in Row : d # c /\ call'[d].at # "idle" =>
              d <= Len(item') /\ call'[d].key = <<"row", item'[d]>>
      <4> SUFFICES ASSUME NEW d \in Row, d # c, call'[d].at # "idle"
                   PROVE  d <= Len(item') /\ call'[d].key = <<"row", item'[d]>>
        OBVIOUS
      <4>1. call'[d] = call[d]
        BY <2>3, <2>6
      <4>2. d <= Len(item) /\ call[d].key = <<"row", item[d]>>
        BY <4>1 DEF SdkInv, CallsHaveKeys
      <4> QED BY <1>4, <2>4, <4>1, <4>2 DEF Row, c
    <3>2. call'[0] = call[0]
      BY <2>1, <2>3, <2>5, <2>6
    <3>3. c <= Len(item') /\ call'[c].key = <<"row", item'[c]>>
      BY <1>4, <2>3, <2>4 DEF c
    <3>4. \A d \in Row : call'[d].at # "idle" =>
              d <= Len(item') /\ call'[d].key = <<"row", item'[d]>>
      BY <3>1, <3>3
    <3>5. at' # "load"
      BY <1>1, <1>6
    <3> QED BY <3>2, <3>4, <3>5 DEF SdkInv, CallsHaveKeys
  <2>12. CallsHaveSteps'
    BY <1>2, <2>3 DEF SdkInv, CallsHaveSteps
  <2>13. BatchesAreTrue'
    <3>1. call'[0] = call[0]
      BY <2>1, <2>3, <2>5, <2>6
    <3> QED BY <1>2, <3>1 DEF SdkInv, BatchesAreTrue, BatchAt
  <2>14. \A i \in 1..Len(out) : out[i][1] \in 1..Len(item)
    <3> SUFFICES ASSUME NEW i \in 1..Len(out) PROVE out[i][1] \in 1..Len(item)
      OBVIOUS
    <3>1. out[i][1] \in Row /\ call[out[i][1]].at = "returned"
      BY <1>2 DEF SdkInv, IteratorType, Outcome, ResultsAreReturned
    <3> QED BY <1>4, <3>1 DEF SdkInv, CallsHaveKeys, Row
  <2>15. ResultsInOnePlace'
    <3>1. 1..Len(item) \subseteq 1..Len(item') /\ c \in 1..Len(item')
      BY <1>4, <2>4 DEF c
    <3>2. /\ pending' \subseteq 1..Len(item') /\ done' \subseteq 1..Len(item')
          /\ DOMAIN ready' \subseteq 1..Len(item')
      BY <1>2, <1>6, <3>1 DEF SdkInv, ResultsInOnePlace
    <3>3. \A i \in 1..Len(out) : out[i][1] # c
      BY <1>4, <2>14 DEF c
    <3> QED BY <1>2, <1>6, <2>10, <3>2, <3>3 DEF SdkInv, ResultsInOnePlace
  <2>16. ResultsAreReturned'
    <3>1. \A d \in 1..Len(item) : d # c /\ d \in Caller
      BY <1>4 DEF c, Caller
    <3>2. \A d \in 1..Len(item) :
              call'[d] = call[d] /\ Finished(d)' = Finished(d) /\ Result(d)' = Result(d)
      BY <2>3, <2>4, <3>1 DEF Finished, Result
    <3>3. done \subseteq 1..Len(item) /\ DOMAIN ready \subseteq 1..Len(item)
      BY DEF SdkInv, ResultsInOnePlace
    <3> QED BY <1>2, <2>14, <3>2, <3>3 DEF SdkInv, ResultsAreReturned
  <2>17. WorkIsPending'
    <3>1. Cardinality(pending') <= MaxConcurrency
      <4>1. Cardinality(pending') = Cardinality(pending) + 1
        BY <1>6, <2>10, InFlight, FS_AddElement
      <4> QED BY <1>1, <4>1, InFlight, SizesAssumption DEF Room
    <3>2. \A d \in Row : Working(d)' => d \in pending'
      BY <1>6, <2>3, <2>6 DEF SdkInv, WorkIsPending, Working
    <3>3. at' = "fill"
      BY <1>1, <1>6
    <3> QED BY <3>1, <3>2, <3>3 DEF WorkIsPending
  <2> QED
    BY <1>2, <2>7, <2>8, <2>9, <2>11, <2>12, <2>13, <2>15, <2>16, <2>17, UnchangedRecords
       DEF SdkInv
<1> HIDE DEF row, c
<1>7. exhausted \in BOOLEAN /\ dry \in BOOLEAN
  BY DEF SdkInv, TypeOK, IteratorType
<1>8. CASE LimitReached
  BY <1>1, <1>5, <1>7, <1>8 DEF TakeRow, Ended
<1>9. CASE ~LimitReached /\ row \notin Invalid
  BY <1>6, <1>9 DEF TakeRow, row, c
<1>10. CASE ~LimitReached /\ row \in Invalid
  BY <1>1, <1>5, <1>7, <1>10 DEF TakeRow, Raise, row
<1> QED BY <1>8, <1>9, <1>10

-----------------------------------------------------------------------------
(* All steps together. *)

LEMMA IterateKeeps ==
    ASSUME SdkInv, Iterate
    PROVE  SdkInv' /\ RecordsGoOn
BY FillKeeps, WaitKeeps, DrainKeeps, YieldKeeps, CancelKeeps, TakeRowKeeps, HandlerCallsKeep
   DEF Iterate, Iterator

LEMMA WrapperKeeps ==
    ASSUME SdkInv, Wrapper \/ Abandon
    PROVE  SdkInv' /\ RecordsGoOn
BY HandlerCallsKeep, RunEndsKeep, LeavesKeep DEF Wrapper

LEMMA StutterKeeps ==
    ASSUME SdkInv, UNCHANGED vars
    PROVE  SdkInv' /\ RecordsGoOn
<1>1. /\ UNCHANGED <<server, origin, trouble, pc, call, resolved, dataset, iterator>>
      /\ run' = run /\ step' = step /\ plan' = plan
      /\ attempt' = attempt /\ viaQt' = viaQt /\ faults' = faults /\ hurt' = hurt
      /\ buffer' = buffer /\ offset' = offset /\ yielded' = yielded /\ exhausted' = exhausted
      /\ at' = at /\ item' = item /\ pending' = pending /\ done' = done
      /\ ready' = ready /\ expected' = expected /\ dry' = dry /\ out' = out
  BY DEF vars, server, origin, trouble, dataset, iterator
<1>2. TypeOK' /\ IteratorType'
  BY <1>1 DEF SdkInv, TypeOK, DurableType, IteratorType
<1>3. RowsInOrder' /\ CallsHaveKeys' /\ CallsHaveSteps'
  BY <1>1 DEF SdkInv, RowsInOrder, CallsHaveKeys, CallsHaveSteps
<1>4. BatchesAreTrue' /\ ResultsInOnePlace'
  BY <1>1 DEF SdkInv, BatchesAreTrue, BatchAt, ResultsInOnePlace
<1>5. ResultsAreReturned' /\ WorkIsPending'
  BY <1>1
     DEF SdkInv, ResultsAreReturned, WorkIsPending, Running, Finished, Working, Result
<1> QED BY <1>1, <1>2, <1>3, <1>4, <1>5, UnchangedRecords DEF SdkInv

LEMMA NextKeeps ==
    ASSUME SdkInv, [Next]_vars
    PROVE  SdkInv' /\ RecordsGoOn
<1>1. CASE \E qt \in BOOLEAN : Start(qt)
  BY <1>1, StartKeeps
<1>2. CASE Wrapper \/ Abandon
  BY <1>2, WrapperKeeps
<1>3. CASE Running /\ \E c \in Caller : RunStep(c)
  BY <1>3, RunStepKeeps
<1>4. CASE Iterate
  BY <1>4, IterateKeeps
<1>5. CASE Kill
  BY <1>5, LeavesKeep
<1>6. CASE UNCHANGED vars
  BY <1>6, StutterKeeps
<1> QED BY <1>1, <1>2, <1>3, <1>4, <1>5, <1>6 DEF Next

(* What the workflow wrapper, the iterator, the dataset and the calls know of each other
   agrees in every state: the invariant holds in all behaviours. *)
THEOREM SdkInvariance == Spec => []SdkInv
<1>1. Init => SdkInv
  BY InitIsGood
<1>2. SdkInv /\ [Next]_vars => SdkInv'
  BY NextKeeps
<1> QED BY <1>1, <1>2, PTL DEF Spec

(* No result comes twice, and results asked for in input order come in that order and
   without gaps, however the tasks of iter_async_with_concurrency finish. *)
THEOREM ResultsComeInOrder == Spec => []YieldsInOrder
<1>1. SdkInv => YieldsInOrder
  <2> SUFFICES ASSUME SdkInv PROVE YieldsInOrder
    OBVIOUS
  <2>1. DOMAIN out = 1..Len(out)
    BY DEF SdkInv, IteratorType
  <2> QED BY <2>1 DEF SdkInv, ResultsInOnePlace, YieldsInOrder
<1> QED BY <1>1, SdkInvariance, PTL

(* Never more than MaxConcurrency row steps are in work, and none after the iterator
   has ended or raised. *)
THEOREM ConcurrencyIsBounded == Spec => []BoundedConcurrency
<1>1. SdkInv => BoundedConcurrency
  <2> SUFFICES ASSUME SdkInv PROVE BoundedConcurrency
    OBVIOUS
  <2> DEFINE working == {c \in Row : Working(c)}
  <2>1. working \subseteq pending
    BY DEF SdkInv, WorkIsPending
  <2>2. Cardinality(working) <= Cardinality(pending) /\ Cardinality(working) \in Nat
    BY <2>1, InFlight, FS_Subset, FS_CardinalityType
  <2>3. Cardinality(pending) <= MaxConcurrency
    BY DEF SdkInv, WorkIsPending
  <2>4. at \in {"finished", "raised"} => working = {}
    BY <2>1 DEF SdkInv, WorkIsPending
  <2>5. at \in {"finished", "raised"} => Cardinality(working) = 0
    BY <2>4, FS_EmptySet
  <2> HIDE DEF working
  <2>6. Cardinality(working) <= MaxConcurrency
    BY <2>2, <2>3, InFlight, SizesAssumption
  <2>7. Cardinality(working) <= IF at \in {"finished", "raised"} THEN 0 ELSE MaxConcurrency
    BY <2>5, <2>6
  <2> QED BY <2>7 DEF BoundedConcurrency, working
<1> QED BY <1>1, SdkInvariance, PTL

(* What the consumer has seen is what the server keeps, across attempts. *)
THEOREM ResultsStayDurable == Spec => []ResultsAreDurable
<1>1. SdkInv => ResultsAreDurable
  <2> SUFFICES ASSUME SdkInv, Running, NEW i \in DOMAIN out
               PROVE  /\ step[<<"row", out[i][2]>>].status = "completed"
                      /\ step[<<"row", out[i][2]>>].output = out[i][3]
    BY DEF SdkInv, ResultsAreDurable
  <2> DEFINE c == out[i][1]
  <2>1. i \in 1..Len(out) /\ c \in Row
    BY DEF SdkInv, IteratorType, Outcome
  <2>2. call[c].at = "returned" /\ out[i] = Result(c)
    BY <2>1 DEF SdkInv, ResultsAreReturned
  <2>3. out[i][2] = item[c] /\ out[i][3] = call[c].output
    BY <2>2 DEF Result
  <2> HIDE DEF c
  <2>4. c \in Caller /\ call[c].key = <<"row", item[c]>>
    BY <2>1, <2>2, InFlight DEF SdkInv, CallsHaveKeys
  <2> QED BY <2>2, <2>3, <2>4 DEF SdkInv, CallsHaveSteps
<1> QED BY <1>1, SdkInvariance, PTL

(* Completed work keeps its output; only the client whose completion was not
   acknowledged takes it back. *)
THEOREM CompletedWorkStays == Spec => CompletedWorkIsKept
<1>1. SdkInv /\ [Next]_vars => [WorkIsKept]_vars
  BY NextKeeps DEF RecordsGoOn
<1>2. [WorkIsKept]_vars =>
        [\A k \in Key : step[k].status = "completed" =>
            /\ step'[k].output = step[k].output
            /\ \/ step'[k].status = "completed"
               \/ step'[k].status = "failed" /\ \E c \in Caller : call[c].at = "fail" /\ call[c].key = k]_vars
  BY DEF WorkIsKept
<1> QED BY <1>1, <1>2, SdkInvariance, PTL DEF Spec, CompletedWorkIsKept

-----------------------------------------------------------------------------
(* Why attempts end in an error. *)

(* The source names itself the same in all attempts. *)
LEMMA SameHashes == Pinned => \A k : HashOf(k)' = HashOf(k)
BY DEF HashOf, SourceId

LEMMA HashesStay ==
    ASSUME Pinned, RecordsGoOn, StepsKeepTheirHash
    PROVE  StepsKeepTheirHash'
BY SameHashes DEF RecordsGoOn, HashesAreKept, StepsKeepTheirHash

LEMMA ErrorsNext ==
    ASSUME Pinned, SdkInv, StepsKeepTheirHash, ErrorsHurt, [Next]_vars
    PROVE  ErrorsHurt'
<1>1. CASE \E qt \in BOOLEAN : Start(qt)
  <2>1. /\ \A c \in Caller : call'[c].at = "idle"
        /\ at' = "unstarted" /\ pc' = "health"
    BY <1>1 DEF Start, StartAfresh, NoCall
  <2> QED BY <2>1 DEF ErrorsHurt
<1>2. ASSUME NEW c \in Caller, RunStep(c), Running
      PROVE  ErrorsHurt'
  <2>1. /\ CallStep(c, call[c].key) /\ CallExplained(c, call[c].key)
        /\ StaysOutside /\ TroubleTyped
    BY <1>2, RunStepEffect
  <2>2. \A d \in Caller : call'[d].at \in {"fail", "raised"} => hurt'
    BY <2>1 DEF CallStep, CallExplained, TroubleTyped, ErrorsHurt
  <2>3. at' = at /\ pc' = pc /\ (hurt => hurt')
    BY <2>1 DEF StaysOutside, TroubleTyped
  <2> QED BY <2>2, <2>3 DEF ErrorsHurt
<1>3. ASSUME hurt => hurt',
             \A c \in Caller : call'[c].at \in {"fail", "raised"} => call[c].at \in {"fail", "raised"},
             at' \in {"cancel", "raised"} =>
                 hurt' \/ at \in {"cancel", "raised"} \/ \E c \in Caller : call[c].at = "raised",
             pc' \in {"except", "refused"} =>
                 \/ hurt' \/ pc \in {"except", "refused"} \/ at = "raised"
                 \/ \E c \in Caller : call[c].at = "raised"
      PROVE  ErrorsHurt'
  BY <1>3 DEF ErrorsHurt
<1>4. /\ 0 \in Caller /\ Row \subseteq Caller /\ call \in [Caller -> CallRecord]
      /\ done \subseteq Row /\ DOMAIN call = Caller
  BY InFlight, SizesAssumption DEF Caller, SdkInv, TypeOK
<1>5. Fault => hurt'
  BY DEF Fault
<1>6. ASSUME NEW callers \in SUBSET Caller, CutOff(callers)
      PROVE  \A c \in Caller : call'[c].at \in {"fail", "raised"} => call[c].at \in {"fail", "raised"}
  BY <1>6, CutOffEffect DEF NoCall
<1>7. ASSUME NEW c \in Caller, NEW key, Enter(c, key)
      PROVE  \A d \in Caller : call'[d].at \in {"fail", "raised"} => call[d].at \in {"fail", "raised"}
  <2> DEFINE new == [NoCall EXCEPT !.at = "begin", !.key = key]
  <2>1. new.at = "begin" /\ call' = [call EXCEPT ![c] = new]
    BY <1>7 DEF Enter, NoCall
  <2> HIDE DEF new
  <2> QED BY <1>4, <2>1
<1>8. ASSUME call' = [call EXCEPT ![0] = NoCall]
      PROVE  \A d \in Caller : call'[d].at \in {"fail", "raised"} => call[d].at \in {"fail", "raised"}
  BY <1>4, <1>8 DEF NoCall
<1>9. CASE Health
  <2>1. at' = at /\ (hurt => hurt')
    BY <1>9, <1>5 DEF Health, iterator, trouble
  <2>2. pc' \in {"except", "refused"} => hurt'
    BY <1>9, <1>5 DEF Health
  <2>3. \A c \in Caller : call'[c].at \in {"fail", "raised"} => call[c].at \in {"fail", "raised"}
    BY <1>9, <1>4, <1>7 DEF Health
  <2> QED BY <1>3, <2>1, <2>2, <2>3
<1>10. CASE Open
  <2>1. /\ at' \in {at, "fill"} /\ hurt' = hurt
        /\ pc' = "except" => call[0].at = "raised"
        /\ pc' # "refused"
    BY <1>10 DEF Open, trouble
  <2>2. \A c \in Caller : call'[c].at \in {"fail", "raised"} => call[c].at \in {"fail", "raised"}
    BY <1>10, <1>8 DEF Open
  <2> QED BY <1>3, <1>4, <2>1, <2>2
<1>11. CASE Handled \/ SetOutput \/ CompleteRun \/ FailRun \/ Reap \/ Abandon
  <2>1. call' = call /\ at' \in {at, "abandoned"} /\ (hurt => hurt')
    BY <1>5, <1>11
       DEF Handled, SetOutput, CompleteRun, FailRun, Reap, Abandon, iterator, trouble
  <2>2. pc' \in {"except", "refused"} => hurt' \/ at = "raised"
    BY <1>5, <1>11 DEF Handled, SetOutput, CompleteRun, FailRun, Reap, Abandon
  <2> QED BY <1>3, <2>1, <2>2
<1>12. CASE Leave \/ Kill
  <2>1. CutOff(Caller) /\ at' = at /\ (hurt => hurt')
    BY <1>5, <1>12 DEF Leave, Kill, iterator, trouble
  <2>2. pc' \in {"except", "refused"} => hurt' \/ pc \in {"except", "refused"}
    BY <1>5, <1>12 DEF Leave, Kill
  <2>3. \A c \in Caller : call'[c].at \in {"fail", "raised"} => call[c].at \in {"fail", "raised"}
    BY <2>1, <1>6
  <2> QED BY <1>3, <2>1, <2>2, <2>3
<1>13. CASE Iterate
  <2>1. pc' = pc /\ (hurt => hurt')
    BY <1>13
       DEF Iterate, Iterator, FillDone, FillLimit, AskBatch, GetBatch, TakeRow, Wait, Drain, Yield,
           Cancel, trouble
  <2>2. CASE FillDone \/ FillLimit \/ Wait \/ Yield
    <3>1. call' = call /\ at' \notin {"cancel", "raised"}
      BY <2>2 DEF FillDone, FillLimit, Wait, Yield, Ended
    <3> QED BY <1>3, <2>1, <3>1
  <2>3. CASE AskBatch
    <3>1. at' = "load"
      BY <2>3 DEF AskBatch
    <3> QED BY <1>3, <1>4, <1>7, <2>1, <2>3, <3>1 DEF AskBatch
  <2>4. CASE GetBatch
    <3>1. at' \in {"cancel", "raised"} => call[0].at = "raised"
      BY <2>4 DEF GetBatch, Ended
    <3>2. call' = [call EXCEPT ![0] = NoCall]
      BY <2>4 DEF GetBatch
    <3> QED BY <1>3, <1>4, <1>8, <2>1, <3>1, <3>2
  <2>5. CASE TakeRow
    <3>1. at' \in {"cancel", "raised"} => hurt'
      BY <2>5 DEF TakeRow, Ended, Asking
    <3>2. call' = call \/ Enter(Len(item) + 1, <<"row", Head(buffer)>>)
      BY <2>5 DEF TakeRow
    <3>3. \A d \in Caller : call'[d].at \in {"fail", "raised"} => call[d].at \in {"fail", "raised"}
      <4>1. CASE call' = call
        BY <4>1
      <4>2. CASE Enter(Len(item) + 1, <<"row", Head(buffer)>>)
        <5>1. CASE Len(item) + 1 \in Caller
          BY <1>7, <4>2, <5>1
        <5>2. CASE Len(item) + 1 \notin Caller
          BY <1>4, <4>2, <5>2 DEF Enter
        <5> QED BY <5>1, <5>2
      <4> QED BY <3>2, <4>1, <4>2
    <3> QED BY <1>3, <2>1, <3>1, <3>3
  <2>6. CASE Drain
    <3>1. call' = call
      BY <2>6 DEF Drain
    <3>2. at' \in {"cancel", "raised"} => \E c \in Caller : call[c].at = "raised"
      BY <1>4, <2>6 DEF Drain
    <3> QED BY <1>3, <2>1, <3>1, <3>2
  <2>7. CASE Cancel
    <3>1. CutOff(pending) /\ at = "cancel" /\ pending \in SUBSET Caller
      BY <1>4, <2>7 DEF Cancel, SdkInv, TypeOK
    <3> QED BY <1>3, <1>6, <2>1, <3>1
  <2> QED BY <1>13, <2>2, <2>3, <2>4, <2>5, <2>6, <2>7 DEF Iterate, Iterator
<1>14. CASE UNCHANGED vars
  BY <1>3, <1>14 DEF vars, trouble, iterator
<1> QED
  BY <1>1, <1>2, <1>9, <1>10, <1>11, <1>12, <1>13, <1>14 DEF Next, Wrapper

(* With configuration and split named by the workflow itself, an attempt ends in an error
   only if something went wrong in it: what an earlier attempt has stored never refuses
   the work of the next.  (Left to the server, they do: the finding of the run SdkRun_unpinned.) *)
THEOREM AttemptsFailForACause ==
    ASSUME Pinned
    PROVE  Spec => []ErrorsHaveCauses
<1>1. Init => StepsKeepTheirHash /\ ErrorsHurt
  <2> SUFFICES ASSUME Init PROVE StepsKeepTheirHash /\ ErrorsHurt
    OBVIOUS
  <2>1. \A c \in Caller : call[c].at = "idle"
    BY DEF Init, NoCall
  <2>2. \A k \in Key : step[k].status = "absent"
    BY DEF Init, DurableInit, NoRecord
  <2> QED BY <2>1, <2>2 DEF Init, StepsKeepTheirHash, ErrorsHurt
<1>2. SdkInv /\ StepsKeepTheirHash /\ ErrorsHurt /\ [Next]_vars =>
          StepsKeepTheirHash' /\ ErrorsHurt'
  BY ErrorsNext, HashesStay, NextKeeps
<1>3. ErrorsHurt => ErrorsHaveCauses
  BY DEF ErrorsHurt, ErrorsHaveCauses
<1> QED BY <1>1, <1>2, <1>3, SdkInvariance, PTL DEF Spec

-----------------------------------------------------------------------------
(* What a run has done when it is completed.  The steps of an earlier attempt are among
   those that this attempt goes through: what is handed out, and where batches begin,
   depends on the dataset and the plan alone. *)

Going == at \notin {"cancel", "raised", "abandoned"}

(* Where batches begin; the dataset ends at the last boundary. *)
IsBoundary(o) == o = Rows \/ \E n \in 0..Rows : o = n * BatchSize

(* The batches that the plan takes. *)
Needed(o) == IsBoundary(o) /\ o <= plan.maxRows /\ Cardinality(ValidUpTo(o)) < plan.maxItems

Handed == {item[i] : i \in 1..Len(item)}
BatchStatus(o) == step[<<"dataset-batch", o>>].status

HandlerCalls ==
    /\ call[0].at # "idle" =>
          \/ at = "unstarted" /\ pc = "open" /\ call[0].key = <<"dataset-init", 0>>
          \/ /\ at = "load" /\ pc = "map" /\ ~dry
             /\ call[0].key = <<"dataset-batch", offset>> /\ Needed(offset)
    /\ at # "unstarted" => step[<<"dataset-init", 0>>].status # "running"

(* The valid rows up to the last that counted are handed out, within the plan. *)
RowsAreCounted ==
    /\ yielded <= plan.maxRows /\ Len(item) <= plan.maxItems
    /\ Handed \subseteq Wanted
    /\ exhausted => dry
    /\ Going => /\ Handed = ValidUpTo(yielded) /\ Len(item) = Cardinality(ValidUpTo(yielded))
                /\ ~exhausted => offset = yielded

DryIsEverything ==
    dry /\ Going =>
        Handed = Wanted /\ \A o \in 0..Rows : Needed(o) => BatchStatus(o) # "running"

(* No batch is open behind the buffer. *)
BatchesAreBehind ==
    Going =>
        /\ IsBoundary(offset + Len(buffer))
        /\ \A o \in 0..Rows :
              IsBoundary(o) /\ o < offset + Len(buffer) => BatchStatus(o) # "running"

(* No attempt asks for a step that the plan does not take. *)
RecordsAreNeeded ==
    /\ \A r \in Row : step[<<"row", r>>].status # "absent" => r \in Wanted
    /\ \A o \in 0..Rows : BatchStatus(o) # "absent" => Needed(o)

(* No result is lost on its way to the consumer. *)
ResultsAreSomewhere ==
    /\ Going => \A c \in 1..Len(item) :
                   \/ c \in pending \cup done \cup DOMAIN ready
                   \/ \E i \in 1..Len(out) : out[i][1] = c
    /\ Going /\ at # "drain" => done = {}
    /\ at \in {"yield", "wait"} => dry \/ pending # {}
    /\ at \in {"wait", "finished"} => expected \notin DOMAIN ready

FinishedIsWhole ==
    at = "finished" => /\ {out[i][2] : i \in DOMAIN out} = Wanted
                       /\ \A k \in Key : step[k].status # "running"

(* The workflow completes the run only after the iterator has ended. *)
RunFollows ==
    /\ pc \in {"health", "open"} => at = "unstarted"
    /\ pc \in {"output", "complete", "reaped"} => at \in {"finished", "abandoned"}
    /\ run = "completed" => /\ pc \in {"leave", "except", "off"} /\ at \in {"finished", "abandoned"}
                            /\ pc = "off" \/ ~viaQt

WholeInv ==
    /\ HandlerCalls
    /\ RowsAreCounted
    /\ DryIsEverything
    /\ BatchesAreBehind
    /\ RecordsAreNeeded
    /\ ResultsAreSomewhere
    /\ FinishedIsWhole
    /\ RunFollows

-----------------------------------------------------------------------------
(* Counting the rows of the dataset. *)

LEMMA ValidRowsAreFinite ==
    ASSUME NEW n \in 0..Rows
    PROVE  /\ IsFiniteSet(ValidUpTo(n)) /\ Cardinality(ValidUpTo(n)) \in Nat
           /\ ValidUpTo(n) \subseteq 1..n
<1>1. n \in Int /\ IsFiniteSet(1..n)
  BY SizesAssumption, FS_Interval
<1>2. ValidUpTo(n) \subseteq 1..n
  BY DEF ValidUpTo
<1> QED BY <1>1, <1>2, FS_Subset, FS_CardinalityType

LEMMA ValidRowsGrow ==
    ASSUME NEW m \in 0..Rows, NEW n \in 0..Rows, m <= n
    PROVE  /\ ValidUpTo(m) \subseteq ValidUpTo(n)
           /\ Cardinality(ValidUpTo(m)) <= Cardinality(ValidUpTo(n))
<1>1. ValidUpTo(m) \subseteq ValidUpTo(n)
  BY SizesAssumption DEF ValidUpTo
<1> QED BY <1>1, ValidRowsAreFinite, FS_Subset

LEMMA NextRowCounts ==
    ASSUME NEW n \in 0..Rows, n < Rows
    PROVE  /\ n + 1 \in Invalid => ValidUpTo(n + 1) = ValidUpTo(n)
           /\ n + 1 \notin Invalid =>
                 /\ ValidUpTo(n + 1) = ValidUpTo(n) \cup {n + 1}
                 /\ Cardinality(ValidUpTo(n + 1)) = Cardinality(ValidUpTo(n)) + 1
<1>1. n \in Int /\ n + 1 \notin ValidUpTo(n) /\ 1..n+1 = 1..n \cup {n + 1}
  BY SizesAssumption DEF ValidUpTo
<1>2. n + 1 \in Invalid => ValidUpTo(n + 1) = ValidUpTo(n)
  BY <1>1 DEF ValidUpTo
<1>3. n + 1 \notin Invalid => ValidUpTo(n + 1) = ValidUpTo(n) \cup {n + 1}
  BY <1>1 DEF ValidUpTo
<1> QED BY <1>1, <1>2, <1>3, ValidRowsAreFinite, FS_AddElement

(* The rows handed out are wanted, and they are all that is wanted when a limit or the
   end of the dataset is reached. *)
LEMMA HandedIsWanted ==
    ASSUME plan \in Plan, NEW n \in 0..Rows, n <= plan.maxRows,
           Cardinality(ValidUpTo(n)) <= plan.maxItems
    PROVE  /\ ValidUpTo(n) \subseteq Wanted
           /\ (n = Rows \/ n = plan.maxRows \/ Cardinality(ValidUpTo(n)) = plan.maxItems) =>
                 ValidUpTo(n) = Wanted
<1> DEFINE last == LeastOf(plan.maxRows, Rows)
<1>1. Rows \in Nat /\ plan.maxRows \in Nat /\ plan.maxItems \in Nat
  BY SizesAssumption DEF Plan
<1>2. last \in 0..Rows /\ n <= last /\ (n = Rows \/ n = plan.maxRows => last = n)
  BY <1>1 DEF LeastOf
<1>3. Wanted = {r \in ValidUpTo(last) : Cardinality(ValidUpTo(r)) <= plan.maxItems}
  BY DEF Wanted
<1> HIDE DEF last
<1>4. ValidUpTo(n) \subseteq Wanted
  <2> SUFFICES ASSUME NEW r \in ValidUpTo(n) PROVE r \in Wanted
    OBVIOUS
  <2>1. r \in 0..Rows /\ r <= n
    BY <1>1, ValidRowsAreFinite
  <2>2. Cardinality(ValidUpTo(r)) <= Cardinality(ValidUpTo(n))
    BY <2>1, ValidRowsGrow
  <2>3. Cardinality(ValidUpTo(r)) \in Nat /\ Cardinality(ValidUpTo(n)) \in Nat
    BY <2>1, ValidRowsAreFinite
  <2>4. r \in ValidUpTo(last)
    BY <1>2, ValidRowsGrow
  <2> QED BY <1>1, <1>3, <2>2, <2>3, <2>4
<1>5. ASSUME n = Rows \/ n = plan.maxRows
      PROVE  Wanted \subseteq ValidUpTo(n)
  BY <1>2, <1>3, <1>5
<1>6. ASSUME Cardinality(ValidUpTo(n)) = plan.maxItems
      PROVE  Wanted \subseteq ValidUpTo(n)
  <2> SUFFICES ASSUME NEW r \in ValidUpTo(last), Cardinality(ValidUpTo(r)) <= plan.maxItems,
                      r \notin ValidUpTo(n)
               PROVE  FALSE
    BY <1>3
  <2>1. r \in 1..last /\ r \notin Invalid /\ r \in 1..Rows
    BY <1>1, <1>2 DEF ValidUpTo
  <2>2. r > n
    BY <1>1, <2>1 DEF ValidUpTo
  <2>3. r - 1 \in 0..Rows /\ r - 1 < Rows /\ n <= r - 1 /\ (r - 1) + 1 = r
    BY <1>1, <2>1, <2>2
  <2>4. Cardinality(ValidUpTo(r)) = Cardinality(ValidUpTo(r - 1)) + 1
    BY <2>1, <2>3, NextRowCounts
  <2>5. Cardinality(ValidUpTo(n)) <= Cardinality(ValidUpTo(r - 1))
    BY <2>3, ValidRowsGrow
  <2>6. Cardinality(ValidUpTo(r - 1)) \in Nat
    BY <2>3, ValidRowsAreFinite
  <2> QED BY <1>1, <1>6, <2>4, <2>5, <2>6
<1> QED BY <1>4, <1>5, <1>6

(* Batches begin where others end. *)
LEMMA BatchesAdjoin ==
    ASSUME NEW o \in 0..Rows, IsBoundary(o)
    PROVE  /\ BatchAt(o) = <<>> => o = Rows
           /\ IsBoundary(o + Len(BatchAt(o)))
           /\ \A p \in 0..Rows : IsBoundary(p) /\ p < o + Len(BatchAt(o)) => p <= o
<1> DEFINE last == IF o + BatchSize < Rows THEN o + BatchSize ELSE Rows
           all == [i \in Row |-> i]
<1>1. /\ Rows \in Nat /\ BatchSize \in Nat \ {0}
      /\ last \in Int /\ last <= Rows /\ o <= last /\ last <= o + BatchSize
      /\ (last = Rows \/ last = o + BatchSize) /\ (last = o => o = Rows)
  BY SizesAssumption
<1>2. \A i \in o + 1 .. last : all[i] \in Row /\ all[i] = i
  BY <1>1 DEF Row
<1>3. BatchAt(o) = SubSeq(all, o + 1, last)
  BY DEF BatchAt
<1> HIDE DEF last, all
<1>4. Len(BatchAt(o)) = IF o + 1 <= last THEN last - (o + 1) + 1 ELSE 0
  BY <1>1, <1>2, <1>3, SubSeqProperties
<1>5. o + Len(BatchAt(o)) = last
  BY <1>1, <1>4
<1>6. BatchAt(o) = <<>> => o = Rows
  <2>1. Len(<<>>) = 0
    OBVIOUS
  <2> QED BY <1>1, <1>5, <2>1
<1>7. CASE o = Rows
  BY <1>1, <1>5, <1>6, <1>7
<1>8. CASE o # Rows
  <2>1. PICK n \in 0..Rows : o = n * BatchSize
    BY <1>8 DEF IsBoundary
  <2>2. n \in Nat /\ n * BatchSize \in Nat /\ (n + 1) * BatchSize = o + BatchSize
    BY <1>1, <2>1
  <2>3. IsBoundary(last)
    <3>1. CASE last = o + BatchSize
      <4>1. n <= n * BatchSize /\ n < Rows
        BY <1>1, <1>8, <2>1, <2>2
      <4>2. n + 1 \in 0..Rows
        BY <1>1, <2>2, <4>1
      <4> QED BY <2>2, <3>1, <4>2 DEF IsBoundary
    <3> QED BY <1>1, <3>1 DEF IsBoundary
  <2>4. ASSUME NEW p \in 0..Rows, IsBoundary(p), p < last, o < p
        PROVE  FALSE
    <3>. p # Rows
      BY <1>1, <2>4
    <3>1. PICK m \in 0..Rows : p = m * BatchSize
      BY <2>4 DEF IsBoundary
    <3>2. m \in Nat /\ n * BatchSize < m * BatchSize /\ m * BatchSize < (n + 1) * BatchSize
      BY <1>1, <2>1, <2>2, <2>4, <3>1
    <3>3. CASE m <= n
      <4>1. m * BatchSize <= n * BatchSize
        BY <1>1, <2>2, <3>2, <3>3
      <4> QED BY <1>1, <2>2, <3>2, <4>1
    <3>4. CASE n + 1 <= m
      <4>1. (n + 1) * BatchSize <= m * BatchSize
        BY <1>1, <2>2, <3>2, <3>4
      <4> QED BY <1>1, <2>2, <3>2, <4>1
    <3> QED BY <2>2, <3>2, <3>3, <3>4
  <2> QED BY <1>1, <1>5, <1>6, <2>3, <2>4
<1> QED BY <1>7, <1>8

-----------------------------------------------------------------------------
(* Steps that hand out no row. *)

(* Steps of the run are only closed. *)
Settles ==
    \A k \in Key : step'[k].status # step[k].status =>
        step'[k].status \notin {"running", "absent"} /\ step[k].status # "absent"

(* The handler is in no call that it was not in. *)
CallLeft == call'[0].at # "idle" => call'[0] = call[0] /\ at' = at /\ pc' = pc

LEMMA StepKeys ==
    /\ <<"dataset-init", 0>> \in Key
    /\ \A o \in 0..Rows : <<"dataset-batch", o>> \in Key
    /\ \A r \in Row : <<"row", r>> \in Key
BY DEF Key

LEMMA SameRows ==
    plan' = plan => /\ Wanted' = Wanted
                    /\ \A o : Needed(o)' = Needed(o)
BY DEF Wanted, Needed

LEMMA QuietStep ==
    ASSUME WholeInv, plan' = plan, item' = item, yielded' = yielded, offset' = offset,
           buffer' = buffer, exhausted' = exhausted, dry' = dry,
           Going' => Going, Settles, CallLeft, at' # "unstarted" => at # "unstarted"
    PROVE  /\ HandlerCalls' /\ RowsAreCounted' /\ DryIsEverything'
           /\ BatchesAreBehind' /\ RecordsAreNeeded'
<1>1. /\ Wanted' = Wanted /\ \A o : Needed(o)' = Needed(o)
      /\ Handed' = Handed
  BY SameRows DEF Handed
<1>2. \A o \in 0..Rows : BatchStatus(o)' = "running" => BatchStatus(o) = "running"
  BY StepKeys DEF Settles, BatchStatus
<1>3. \A o \in 0..Rows : BatchStatus(o) = "absent" => BatchStatus(o)' = "absent"
  BY StepKeys DEF Settles, BatchStatus
<1>4. \A r \in Row : step[<<"row", r>>].status = "absent" => step'[<<"row", r>>].status = "absent"
  BY StepKeys DEF Settles
<1>5. step'[<<"dataset-init", 0>>].status = "running" => step[<<"dataset-init", 0>>].status = "running"
  BY StepKeys DEF Settles
<1>6. HandlerCalls'
  BY <1>1, <1>5 DEF WholeInv, HandlerCalls, CallLeft
<1>7. RowsAreCounted'
  BY <1>1 DEF WholeInv, RowsAreCounted
<1>8. DryIsEverything'
  BY <1>1, <1>2 DEF WholeInv, DryIsEverything
<1>9. BatchesAreBehind'
  BY <1>2 DEF WholeInv, BatchesAreBehind
<1>10. RecordsAreNeeded'
  BY <1>1, <1>3, <1>4 DEF WholeInv, RecordsAreNeeded
<1> QED BY <1>6, <1>7, <1>8, <1>9, <1>10

(* Nothing opens a step behind an iterator that has finished. *)
LEMMA StaysFinished ==
    ASSUME FinishedIsWhole, plan' = plan, out' = out, at' = "finished" => at = "finished", Settles
    PROVE  FinishedIsWhole'
<1>1. Wanted' = Wanted
  BY SameRows
<1>2. \A k \in Key : step'[k].status = "running" => step[k].status = "running"
  BY DEF Settles
<1> QED BY <1>1, <1>2 DEF FinishedIsWhole

LEMMA CutOffSettles ==
    ASSUME SdkInv, NEW callers \in SUBSET Caller, CutOff(callers)
    PROVE  /\ Settles
           /\ 0 \in callers => call'[0].at = "idle"
           /\ 0 \notin callers => call'[0] = call[0]
<1>1. /\ \A d \in Caller : call'[d] = IF d \in callers THEN NoCall ELSE call[d]
      /\ \A k \in Key :
            \/ step'[k] = step[k]
            \/ \E c \in callers : /\ call[c].at = "complete" /\ call[c].key = k
                                  /\ step'[k].status = "completed"
  BY CutOffEffect
<1>2. \A c \in Caller : call[c].at = "complete" => step[call[c].key].status # "absent"
  BY DEF SdkInv, CallsHaveSteps
<1>3. 0 \in Caller
  BY SizesAssumption DEF Caller
<1> QED BY <1>1, <1>2, <1>3 DEF Settles, NoCall

(* The steps of the workflow wrapper. *)
LEMMA WrapperIsQuiet ==
    ASSUME SdkInv, WholeInv, Handled \/ SetOutput \/ CompleteRun \/ FailRun \/ Leave \/ Reap \/ Kill
    PROVE  WholeInv'
<1>1. /\ plan' = plan /\ viaQt' = viaQt
      /\ UNCHANGED <<dataset, iterator>>
  BY DEF Handled, SetOutput, CompleteRun, FailRun, Leave, Reap, Kill, origin
<1>2. /\ buffer' = buffer /\ offset' = offset /\ yielded' = yielded /\ exhausted' = exhausted
      /\ at' = at /\ item' = item /\ pending' = pending /\ done' = done
      /\ ready' = ready /\ expected' = expected /\ dry' = dry /\ out' = out
  BY <1>1 DEF dataset, iterator
<1>3. AbandonRun => Settles
  <2> SUFFICES ASSUME AbandonRun, NEW k \in Key, step'[k].status # step[k].status
               PROVE  step'[k].status = "failed" /\ step[k].status = "running"
    BY DEF Settles
  <2>1. step'[k] = IF step[k].status = "running" THEN [step[k] EXCEPT !.status = "failed"] ELSE step[k]
    BY DEF AbandonRun
  <2>2. step[k] \in Record
    BY DEF SdkInv, TypeOK, DurableType
  <2> QED BY <2>1, <2>2 DEF Record
<1>4. Settles
  <2>1. CASE Leave \/ Kill
    BY <2>1, CutOffSettles DEF Leave, Kill
  <2>2. CASE ~(Leave \/ Kill)
    <3>1. step' = step \/ AbandonRun
      BY <2>2 DEF Handled, SetOutput, CompleteRun, FailRun, Reap, FinishRun, server
    <3> QED BY <1>3, <3>1 DEF Settles
  <2> QED BY <2>1, <2>2
<1>5. CallLeft
  <2>1. CASE Leave \/ Kill
    BY <2>1, CutOffSettles, SizesAssumption DEF Leave, Kill, Caller, CallLeft
  <2>2. CASE Handled \/ SetOutput \/ CompleteRun \/ FailRun \/ Reap
    <3>1. call' = call /\ pc \in {"map", "output", "complete", "except", "reaped", "refused"}
      BY <2>2 DEF Handled, SetOutput, CompleteRun, FailRun, Reap
    <3>2. pc # "open" /\ (pc = "map" => at # "load")
      BY <2>2 DEF Handled, SetOutput, CompleteRun, FailRun, Reap
    <3>3. call[0].at = "idle"
      BY <3>2 DEF WholeInv, HandlerCalls
    <3> QED BY <3>1, <3>3 DEF CallLeft
  <2> QED BY <2>1, <2>2
<1>6. HandlerCalls' /\ RowsAreCounted' /\ DryIsEverything' /\ BatchesAreBehind' /\ RecordsAreNeeded'
  BY <1>1, <1>2, <1>4, <1>5, QuietStep DEF Going
<1>7. ResultsAreSomewhere'
  BY <1>2 DEF WholeInv, ResultsAreSomewhere, Going
<1>8. FinishedIsWhole'
  BY <1>1, <1>2, <1>4, StaysFinished DEF WholeInv
<1>9. RunFollows'
  <2>1. CASE Handled
    BY <1>1, <1>2, <2>1 DEF WholeInv, RunFollows, Handled, server
  <2>2. CASE SetOutput
    BY <1>1, <1>2, <2>2 DEF WholeInv, RunFollows, SetOutput, server
  <2>3. CASE CompleteRun
    BY <1>1, <1>2, <2>3 DEF WholeInv, RunFollows, CompleteRun, FinishRun, server
  <2>4. CASE FailRun
    BY <1>1, <1>2, <2>4 DEF WholeInv, RunFollows, FailRun, AbandonRun, server
  <2>5. CASE Leave
    BY <1>1, <1>2, <2>5 DEF WholeInv, RunFollows, Leave
  <2>6. CASE Reap
    BY <1>1, <1>2, <2>6 DEF WholeInv, RunFollows, Reap, FinishRun, AbandonRun
  <2>7. CASE Kill
    BY <1>1, <1>2, <2>7 DEF WholeInv, RunFollows, Kill, Running
  <2> QED BY <2>1, <2>2, <2>3, <2>4, <2>5, <2>6, <2>7
<1> QED BY <1>6, <1>7, <1>8, <1>9 DEF WholeInv

(* The handler opens the dataset, and may leave its loop early. *)
LEMMA HandlerIsQuiet ==
    ASSUME SdkInv, WholeInv, Health \/ Open \/ Abandon
    PROVE  WholeInv'
<1>1. /\ plan' = plan /\ viaQt' = viaQt /\ run' = run /\ step' = step
      /\ UNCHANGED <<dataset, item, pending, done, ready, expected, dry, out>>
  BY DEF Health, Open, Abandon, origin, server, iterator
<1>2. /\ buffer' = buffer /\ offset' = offset /\ yielded' = yielded /\ exhausted' = exhausted
      /\ item' = item /\ pending' = pending /\ done' = done
      /\ ready' = ready /\ expected' = expected /\ dry' = dry /\ out' = out
  BY <1>1 DEF dataset
<1>3. at' # "finished" \/ at' = at
  BY DEF Health, Open, Abandon, iterator
<1>4. 0 \in Caller /\ call \in [Caller -> CallRecord]
  BY InFlight, SizesAssumption DEF Caller
<1>5. Settles
  BY <1>1 DEF Settles
<1>6. FinishedIsWhole'
  BY <1>1, <1>2, <1>3, <1>5, StaysFinished DEF WholeInv
<1>7. CASE Health
  <2>1. at' = at /\ at = "unstarted" /\ pc = "health" /\ call[0].at = "idle"
    BY <1>7 DEF Health, iterator, WholeInv, RunFollows, HandlerCalls
  <2>2. CASE pc' = "open" /\ Enter(0, <<"dataset-init", 0>>)
    <3>1. call'[0].key = <<"dataset-init", 0>>
      BY <1>4, <2>2, EnterUpdates, StepKeys DEF CallBecomes
    <3>2. HandlerCalls'
      BY <2>1, <2>2, <3>1 DEF HandlerCalls
    <3>3. RowsAreCounted' /\ DryIsEverything' /\ BatchesAreBehind' /\ RecordsAreNeeded'
      BY <1>1, <1>2, <2>1, SameRows
         DEF WholeInv, RowsAreCounted, DryIsEverything, BatchesAreBehind, RecordsAreNeeded,
             Going, Handed, BatchStatus
    <3>4. ResultsAreSomewhere' /\ RunFollows'
      BY <1>1, <1>2, <2>1, <2>2 DEF WholeInv, ResultsAreSomewhere, Going, RunFollows
    <3> QED BY <1>6, <3>2, <3>3, <3>4 DEF WholeInv
  <2>3. CASE call' = call /\ pc' = (IF viaQt THEN "refused" ELSE "off")
    <3>1. CallLeft
      BY <2>1, <2>3 DEF CallLeft
    <3>2. HandlerCalls' /\ RowsAreCounted' /\ DryIsEverything' /\ BatchesAreBehind' /\ RecordsAreNeeded'
      BY <1>1, <1>2, <1>5, <2>1, <3>1, QuietStep DEF Going
    <3>3. ResultsAreSomewhere' /\ RunFollows'
      BY <1>1, <1>2, <2>1, <2>3 DEF WholeInv, ResultsAreSomewhere, Going, RunFollows
    <3> QED BY <1>6, <3>2, <3>3 DEF WholeInv
  <2> QED BY <1>7, <2>2, <2>3 DEF Health
<1>8. CASE Open
  <2>1. /\ pc = "open" /\ at = "unstarted" /\ call[0].at \in {"returned", "raised"}
        /\ call[0].key = <<"dataset-init", 0>> /\ run # "completed"
    BY <1>8 DEF Open, Finished, WholeInv, RunFollows, HandlerCalls
  <2>2. call' = [call EXCEPT ![0] = NoCall] /\ call'[0].at = "idle"
    BY <1>4, <1>8 DEF Open, NoCall
  <2>3. \/ pc' = "except" /\ at' = at
        \/ pc' = "map" /\ at' = "fill" /\ call[0].at = "returned"
    BY <1>8, <2>1 DEF Open
  <2>4. at' # "unstarted" => step[<<"dataset-init", 0>>].status = "completed"
    BY <1>4, <2>1, <2>3 DEF SdkInv, CallsHaveSteps
  <2>5. HandlerCalls'
    BY <1>1, <2>2, <2>4 DEF HandlerCalls
  <2>6. RowsAreCounted' /\ DryIsEverything' /\ BatchesAreBehind' /\ RecordsAreNeeded'
    BY <1>1, <1>2, <2>1, <2>3, SameRows
       DEF WholeInv, RowsAreCounted, DryIsEverything, BatchesAreBehind, RecordsAreNeeded,
           Going, Handed, BatchStatus
  <2>7. ResultsAreSomewhere' /\ RunFollows'
    BY <1>1, <1>2, <2>1, <2>3 DEF WholeInv, ResultsAreSomewhere, Going, RunFollows
  <2> QED BY <1>6, <2>5, <2>6, <2>7 DEF WholeInv
<1>9. CASE Abandon
  <2>1. /\ pc = "map" /\ at \in {"drain", "yield"} /\ pc' = "output" /\ at' = "abandoned"
        /\ call' = call
    BY <1>9 DEF Abandon
  <2>2. call[0].at = "idle"
    BY <2>1 DEF WholeInv, HandlerCalls
  <2>3. HandlerCalls' /\ RowsAreCounted' /\ DryIsEverything' /\ BatchesAreBehind' /\ RecordsAreNeeded'
    BY <1>1, <1>2, <1>5, <2>1, <2>2, QuietStep DEF Going, CallLeft
  <2>4. ResultsAreSomewhere' /\ RunFollows'
    BY <1>1, <1>2, <2>1 DEF WholeInv, ResultsAreSomewhere, Going, RunFollows
  <2> QED BY <1>6, <2>3, <2>4 DEF WholeInv
<1> QED BY <1>7, <1>8, <1>9

(* A step of run_step. *)
LEMMA RunStepIsNeeded ==
    ASSUME SdkInv, WholeInv, NEW c \in Caller, RunStep(c), Running
    PROVE  WholeInv'
<1> DEFINE k == call[c].key
<1>1. k \in Key /\ CallStep(c, k) /\ StaysOutside
  BY RunStepEffect
<1>2. /\ call[c].at # "idle" /\ call'[c].key = k
      /\ \A d \in Caller : d # c => call'[d] = call[d]
      /\ run' = run /\ \A j \in Key : j # k => step'[j] = step[j]
  BY <1>1 DEF CallStep, Working
<1>3. /\ viaQt' = viaQt /\ plan' = plan /\ pc' = pc
      /\ buffer' = buffer /\ offset' = offset /\ yielded' = yielded /\ exhausted' = exhausted
      /\ at' = at /\ item' = item /\ pending' = pending /\ done' = done
      /\ ready' = ready /\ expected' = expected /\ dry' = dry /\ out' = out
  BY <1>1 DEF StaysOutside
<1>4. /\ Wanted' = Wanted /\ \A o : Needed(o)' = Needed(o)
      /\ Handed' = Handed
  BY <1>3, SameRows DEF Handed
<1>5. Caller = {0} \cup Row /\ 0 \notin Row
  BY SizesAssumption DEF Caller, Row
<1> HIDE DEF k
<1>6. /\ \A r \in Row : k = <<"row", r>> => r \in Wanted
      /\ \A o \in 0..Rows : k = <<"dataset-batch", o>> =>
            o = offset /\ Needed(o) /\ ~dry /\ buffer = <<>>
      /\ k = <<"dataset-init", 0>> => at = "unstarted"
      /\ at # "finished"
  <2>1. CASE c = 0
    <3>1. \/ at = "unstarted" /\ pc = "open" /\ k = <<"dataset-init", 0>>
          \/ /\ at = "load" /\ pc = "map" /\ ~dry
             /\ k = <<"dataset-batch", offset>> /\ Needed(offset)
      BY <1>2, <2>1 DEF WholeInv, HandlerCalls, k
    <3>2. at = "load" /\ pc = "map" => buffer = <<>>
      BY DEF SdkInv, CallsHaveKeys
    <3> QED BY <3>1, <3>2
  <2>2. CASE c \in Row
    <3>1. c <= Len(item) /\ k = <<"row", item[c]>>
      BY <1>2, <2>2 DEF SdkInv, CallsHaveKeys, k
    <3>2. c \in 1..Len(item) /\ item \in Seq(Row)
      BY <2>2, <3>1, InFlight, SizesAssumption DEF Row, SdkInv, TypeOK
    <3>3. item[c] \in Wanted
      BY <3>2 DEF Handed, WholeInv, RowsAreCounted
    <3>4. c \in pending
      BY <1>1, <2>2 DEF CallStep, SdkInv, WorkIsPending
    <3>5. at # "finished"
      BY <3>4 DEF SdkInv, WorkIsPending
    <3> QED BY <3>1, <3>3, <3>5
  <2> QED BY <1>5, <2>1, <2>2
<1>7. HandlerCalls'
  <2>1. call'[0].at # "idle" => call[0].at # "idle" /\ call'[0].key = call[0].key
    <3>1. CASE c = 0
      BY <1>2, <3>1 DEF k
    <3>2. CASE c # 0
      BY <1>2, <1>5, <3>2
    <3> QED BY <3>1, <3>2
  <2>2. at # "unstarted" => step'[<<"dataset-init", 0>>] = step[<<"dataset-init", 0>>]
    BY <1>2, <1>6, StepKeys
  <2> QED BY <1>3, <1>4, <2>1, <2>2 DEF WholeInv, HandlerCalls
<1>8. RowsAreCounted'
  BY <1>3, <1>4 DEF WholeInv, RowsAreCounted, Going
<1>9. \A o \in 0..Rows : \/ o = offset /\ Needed(o) /\ ~dry /\ buffer = <<>>
                         \/ BatchStatus(o)' = BatchStatus(o)
  BY <1>2, <1>6, StepKeys DEF BatchStatus
<1>10. DryIsEverything'
  BY <1>3, <1>4, <1>9 DEF WholeInv, DryIsEverything, Going
<1>11. BatchesAreBehind'
  <2>1. \A o \in 0..Rows : o < offset + Len(buffer) => BatchStatus(o)' = BatchStatus(o)
    <3>1. offset \in Nat /\ Len(<<>>) = 0
      BY SizesAssumption DEF SdkInv, TypeOK
    <3> QED BY <1>9, <3>1
  <2> QED BY <1>3, <2>1 DEF WholeInv, BatchesAreBehind, Going
<1>12. RecordsAreNeeded'
  <2>1. \A r \in Row : r \in Wanted \/ step'[<<"row", r>>] = step[<<"row", r>>]
    BY <1>2, <1>6, StepKeys
  <2> QED BY <1>4, <1>9, <2>1 DEF WholeInv, RecordsAreNeeded
<1>13. ResultsAreSomewhere'
  BY <1>3 DEF WholeInv, ResultsAreSomewhere, Going
<1>14. FinishedIsWhole' /\ RunFollows'
  BY <1>2, <1>3, <1>6 DEF WholeInv, FinishedIsWhole, RunFollows
<1> QED BY <1>7, <1>8, <1>10, <1>11, <1>12, <1>13, <1>14 DEF WholeInv

-----------------------------------------------------------------------------
(* Steps of the iterator. *)

(* What most of them leave alone. *)
RowsStay ==
    /\ run' = run /\ viaQt' = viaQt /\ plan' = plan /\ pc' = pc
    /\ item' = item /\ yielded' = yielded /\ offset' = offset /\ buffer' = buffer
    /\ exhausted' = exhausted

(* The workflow is in its handler all the while. *)
LEMMA MapFollows ==
    ASSUME WholeInv, pc = "map", pc' = pc, run' = run
    PROVE  RunFollows' /\ run # "completed"
BY DEF WholeInv, RunFollows

(* The handler is in a step of its own only while it loads a batch. *)
LEMMA HandlerWaits ==
    ASSUME WholeInv, pc = "map", at # "load"
    PROVE  call[0].at = "idle"
BY DEF WholeInv, HandlerCalls

(* fill_pending stops: nothing more is wanted, or there is no room. *)
LEMMA FillIsQuiet ==
    ASSUME SdkInv, WholeInv, pc = "map", FillDone
    PROVE  WholeInv'
<1>1. /\ RowsStay /\ dry' = dry /\ pending' = pending /\ done' = done /\ ready' = ready
      /\ expected' = expected /\ out' = out /\ call' = call /\ step' = step
      /\ at = "fill" /\ at' = "yield" /\ ~Room
  BY DEF FillDone, RowsStay, server, origin, dataset
<1>2. call[0].at = "idle"
  BY <1>1, HandlerWaits
<1>3. HandlerCalls' /\ RowsAreCounted' /\ DryIsEverything' /\ BatchesAreBehind' /\ RecordsAreNeeded'
  BY <1>1, <1>2, QuietStep DEF Going, Settles, CallLeft, RowsStay
<1>4. ResultsAreSomewhere'
  <2>1. dry \/ pending # {}
    BY <1>1, FS_EmptySet, SizesAssumption DEF Room
  <2> QED BY <1>1, <2>1 DEF WholeInv, ResultsAreSomewhere, Going, RowsStay
<1>5. FinishedIsWhole' /\ RunFollows'
  BY <1>1, MapFollows DEF FinishedIsWhole, RowsStay
<1> QED BY <1>3, <1>4, <1>5 DEF WholeInv

(* Enough items are handed out. *)
LEMMA FillLimitIsWhole ==
    ASSUME SdkInv, WholeInv, pc = "map", FillLimit
    PROVE  WholeInv'
<1>1. /\ RowsStay /\ dry' = TRUE /\ pending' = pending /\ done' = done /\ ready' = ready
      /\ expected' = expected /\ out' = out /\ call' = call /\ step' = step
      /\ at = "fill" /\ at' = "yield" /\ Len(item) >= plan.maxItems
  BY DEF FillLimit, Ended, RowsStay, server, origin, dataset
<1>2. call[0].at = "idle"
  BY <1>1, HandlerWaits
<1>3. /\ Wanted' = Wanted /\ \A o : Needed(o)' = Needed(o)
      /\ Handed' = Handed
  BY <1>1, SameRows DEF Handed, RowsStay
<1>4. HandlerCalls' /\ RowsAreCounted' /\ BatchesAreBehind' /\ RecordsAreNeeded'
  BY <1>1, <1>2, <1>3
     DEF WholeInv, HandlerCalls, RowsAreCounted, BatchesAreBehind, RecordsAreNeeded, Going, RowsStay,
         BatchStatus
<1>5. /\ yielded \in 0..Rows /\ yielded <= plan.maxRows /\ yielded <= offset /\ offset \in Nat
      /\ Len(buffer) \in Nat /\ plan \in Plan /\ plan.maxItems \in Nat
      /\ Handed = ValidUpTo(yielded) /\ Len(item) = Cardinality(ValidUpTo(yielded))
      /\ Len(item) = plan.maxItems
  <2>1. plan \in Plan /\ buffer \in Seq(Row)
    BY DEF SdkInv, TypeOK, IteratorType
  <2>2. plan.maxItems \in Nat
    BY <2>1, SizesAssumption DEF Plan
  <2>3. yielded \in 0..Rows /\ offset \in Nat /\ yielded <= offset /\ Len(item) \in Nat
    BY InFlight, SizesAssumption DEF SdkInv, TypeOK, RowsInOrder
  <2>4. /\ yielded <= plan.maxRows /\ Len(item) <= plan.maxItems
        /\ Handed = ValidUpTo(yielded) /\ Len(item) = Cardinality(ValidUpTo(yielded))
    BY <1>1 DEF WholeInv, RowsAreCounted, Going
  <2> QED BY <1>1, <2>1, <2>2, <2>3, <2>4
<1>6. DryIsEverything'
  <2>1. Handed = Wanted
    <3>1. Cardinality(ValidUpTo(yielded)) = plan.maxItems /\ plan.maxItems <= plan.maxItems
      BY <1>5
    <3>2. ValidUpTo(yielded) = Wanted
      BY <1>5, <3>1, HandedIsWanted
    <3> QED BY <1>5, <3>2
  <2>2. ASSUME NEW o \in 0..Rows, Needed(o)
        PROVE  BatchStatus(o) # "running"
    <3>1. IsBoundary(o) /\ Cardinality(ValidUpTo(o)) < plan.maxItems
      BY <2>2 DEF Needed
    <3>2. o \in Nat /\ Cardinality(ValidUpTo(o)) \in Nat
      BY SizesAssumption, ValidRowsAreFinite
    <3>3. ASSUME yielded <= o PROVE FALSE
      <4>1. Cardinality(ValidUpTo(yielded)) <= Cardinality(ValidUpTo(o))
        BY <1>5, <3>3, ValidRowsGrow
      <4> QED BY <1>5, <3>1, <3>2, <4>1
    <3>4. o < offset + Len(buffer)
      BY <1>5, <3>2, <3>3
    <3> QED BY <1>1, <3>1, <3>4 DEF WholeInv, BatchesAreBehind, Going
  <2> QED BY <1>1, <1>3, <2>1, <2>2 DEF DryIsEverything, BatchStatus
<1>7. ResultsAreSomewhere'
  BY <1>1 DEF WholeInv, ResultsAreSomewhere, Going, RowsStay
<1>8. FinishedIsWhole' /\ RunFollows'
  BY <1>1, MapFollows DEF FinishedIsWhole, RowsStay
<1> QED BY <1>4, <1>6, <1>7, <1>8 DEF WholeInv

(* A batch is asked for where the plan takes one. *)
LEMMA AskBatchIsNeeded ==
    ASSUME SdkInv, WholeInv, pc = "map", AskBatch
    PROVE  WholeInv'
<1>1. /\ RowsStay /\ dry' = dry /\ pending' = pending /\ done' = done /\ ready' = ready
      /\ expected' = expected /\ out' = out /\ step' = step
      /\ at = "fill" /\ at' = "load" /\ buffer = <<>> /\ ~exhausted /\ ~dry
      /\ Len(item) < plan.maxItems
      /\ Enter(0, <<"dataset-batch", offset>>)
  BY DEF AskBatch, Asking, Room, RowsStay, server, origin, dataset
<1>2. call'[0].key = <<"dataset-batch", offset>>
  <2>1. 0 \in Caller /\ offset \in 0..Rows
    BY SizesAssumption DEF Caller, SdkInv, TypeOK
  <2> QED BY <1>1, <2>1, InFlight, EnterUpdates, StepKeys DEF CallBecomes
<1>3. Needed(offset)
  <2>1. offset = yielded /\ Len(item) = Cardinality(ValidUpTo(yielded)) /\ yielded <= plan.maxRows
    BY <1>1 DEF WholeInv, RowsAreCounted, Going
  <2>2. offset + Len(buffer) = offset
    BY <1>1, SizesAssumption DEF SdkInv, TypeOK
  <2>3. IsBoundary(offset)
    BY <1>1, <2>2 DEF WholeInv, BatchesAreBehind, Going
  <2> QED BY <1>1, <2>1, <2>3 DEF Needed
<1>4. /\ Wanted' = Wanted /\ \A o : Needed(o)' = Needed(o)
      /\ Handed' = Handed
  BY <1>1, SameRows DEF Handed, RowsStay
<1>5. HandlerCalls'
  BY <1>1, <1>2, <1>3, <1>4 DEF WholeInv, HandlerCalls, RowsStay
<1>6. RowsAreCounted' /\ DryIsEverything' /\ BatchesAreBehind' /\ RecordsAreNeeded'
  BY <1>1, <1>4
     DEF WholeInv, RowsAreCounted, DryIsEverything, BatchesAreBehind, RecordsAreNeeded, Going,
         RowsStay, BatchStatus
<1>7. ResultsAreSomewhere'
  BY <1>1 DEF WholeInv, ResultsAreSomewhere, Going, RowsStay
<1>8. FinishedIsWhole' /\ RunFollows'
  BY <1>1, MapFollows DEF FinishedIsWhole, RowsStay
<1> QED BY <1>5, <1>6, <1>7, <1>8 DEF WholeInv

(* A batch comes back: it goes into the buffer, or the dataset is at its end. *)
LEMMA GetBatchIsWhole ==
    ASSUME SdkInv, WholeInv, pc = "map", GetBatch
    PROVE  WholeInv'
<1>1. /\ run' = run /\ viaQt' = viaQt /\ plan' = plan /\ pc' = pc /\ step' = step
      /\ item' = item /\ pending' = pending /\ done' = done /\ ready' = ready
      /\ expected' = expected /\ out' = out
      /\ at = "load" /\ call' = [call EXCEPT ![0] = NoCall]
  BY DEF GetBatch, server, origin
<1>2. /\ 0 \in Caller /\ call \in [Caller -> CallRecord] /\ call'[0].at = "idle"
      /\ offset \in 0..Rows /\ Rows \in Nat /\ buffer = <<>>
      /\ call[0].at \in {"returned", "raised"} /\ call[0].key = <<"dataset-batch", offset>>
  BY <1>1, InFlight, SizesAssumption
     DEF GetBatch, Finished, Caller, NoCall, SdkInv, TypeOK, CallsHaveKeys
<1>3. /\ Wanted' = Wanted /\ \A o : Needed(o)' = Needed(o)
      /\ Handed' = Handed
  BY <1>1, SameRows DEF Handed
<1>4. HandlerCalls' /\ RecordsAreNeeded'
  BY <1>1, <1>2, <1>3 DEF WholeInv, HandlerCalls, RecordsAreNeeded, BatchStatus
<1>5. FinishedIsWhole' /\ RunFollows'
  <2>1. at' # "finished"
    BY DEF GetBatch, Ended, Raise
  <2> QED BY <1>1, <2>1, MapFollows DEF FinishedIsWhole
<1>6. CASE call[0].at = "raised"
  <2>1. /\ at' = "cancel" /\ dry' = dry
        /\ buffer' = buffer /\ offset' = offset /\ yielded' = yielded /\ exhausted' = exhausted
    BY <1>6 DEF GetBatch, Raise, dataset
  <2>2. RowsAreCounted' /\ DryIsEverything' /\ BatchesAreBehind' /\ ResultsAreSomewhere'
    BY <1>1, <1>3, <2>1
       DEF WholeInv, RowsAreCounted, DryIsEverything, BatchesAreBehind, ResultsAreSomewhere, Going
  <2> QED BY <1>4, <1>5, <2>2 DEF WholeInv
<1>7. CASE call[0].at = "returned"
  <2> DEFINE batch == call[0].output
  <2>1. batch = BatchAt(offset) /\ BatchStatus(offset) = "completed"
    BY <1>2, <1>7 DEF SdkInv, CallsHaveSteps, BatchesAreTrue, BatchStatus
  <2>2. BatchAt(offset) \in Seq(Row) /\ Len(BatchAt(offset)) \in Nat
    BY <1>2, BatchIsNext
  <2>3. IsBoundary(offset)
    <3>1. offset + Len(buffer) = offset
      BY <1>2
    <3> QED BY <1>1, <3>1 DEF WholeInv, BatchesAreBehind, Going
  <2>4. \A o \in 0..Rows : IsBoundary(o) /\ o <= offset => BatchStatus(o) # "running"
    <3>1. \A o \in 0..Rows : IsBoundary(o) /\ o < offset => BatchStatus(o) # "running"
      <4>1. offset + Len(buffer) = offset
        BY <1>2
      <4> QED BY <1>1, <4>1 DEF WholeInv, BatchesAreBehind, Going
    <3>2. \A o \in 0..Rows : o <= offset => o = offset \/ o < offset
      BY <1>2
    <3> QED BY <2>1, <3>1, <3>2
  <2>5. CASE batch = <<>>
    <3>1. /\ at' = "yield" /\ dry' = TRUE /\ exhausted' = TRUE
          /\ buffer' = buffer /\ offset' = offset /\ yielded' = yielded
      BY <1>7, <2>5 DEF GetBatch, Ended
    <3>2. offset = Rows
      BY <1>2, <2>1, <2>3, <2>5, BatchesAdjoin
    <3>3. ~exhausted /\ yielded = offset
      <4>1. ~dry
        BY <1>2 DEF WholeInv, HandlerCalls
      <4> QED BY <1>1, <4>1 DEF WholeInv, RowsAreCounted, Going
    <3>4. RowsAreCounted'
      BY <1>1, <1>3, <3>1 DEF WholeInv, RowsAreCounted, Going
    <3>5. DryIsEverything'
      <4>1. /\ plan \in Plan /\ yielded <= plan.maxRows /\ Handed = ValidUpTo(yielded)
            /\ Cardinality(ValidUpTo(yielded)) <= plan.maxItems
        BY <1>1 DEF WholeInv, RowsAreCounted, Going, SdkInv, TypeOK
      <4>2. ValidUpTo(yielded) = Wanted
        BY <1>2, <3>2, <3>3, <4>1, HandedIsWanted
      <4>3. \A o \in 0..Rows : Needed(o) => BatchStatus(o) # "running"
        BY <1>2, <2>4, <3>2 DEF Needed
      <4> QED BY <1>1, <1>3, <4>1, <4>2, <4>3 DEF DryIsEverything, BatchStatus
    <3>6. BatchesAreBehind'
      BY <1>1, <3>1 DEF WholeInv, BatchesAreBehind, Going, BatchStatus
    <3>7. ResultsAreSomewhere'
      BY <1>1, <3>1 DEF WholeInv, ResultsAreSomewhere, Going
    <3> QED BY <1>4, <1>5, <3>4, <3>5, <3>6, <3>7 DEF WholeInv
  <2>6. CASE batch # <<>>
    <3>1. /\ at' = "fill" /\ dry' = dry /\ exhausted' = exhausted
          /\ buffer' = buffer \o batch /\ offset' = offset /\ yielded' = yielded
      BY <1>7, <2>6 DEF GetBatch
    <3>2. Len(buffer') = Len(BatchAt(offset))
      BY <1>2, <2>1, <2>2, <3>1
    <3>3. RowsAreCounted'
      BY <1>1, <1>3, <3>1 DEF WholeInv, RowsAreCounted, Going
    <3>4. ~dry
      BY <1>2 DEF WholeInv, HandlerCalls
    <3>5. DryIsEverything'
      BY <3>1, <3>4 DEF DryIsEverything
    <3>6. BatchesAreBehind'
      <4>1. IsBoundary(offset + Len(BatchAt(offset)))
        BY <1>2, <2>3, BatchesAdjoin
      <4>2. \A o \in 0..Rows : IsBoundary(o) /\ o < offset + Len(BatchAt(offset)) =>
                BatchStatus(o) # "running"
        BY <1>2, <2>3, <2>4, BatchesAdjoin
      <4> QED BY <1>1, <3>1, <3>2, <4>1, <4>2 DEF BatchesAreBehind, BatchStatus
    <3>7. ResultsAreSomewhere'
      BY <1>1, <3>1 DEF WholeInv, ResultsAreSomewhere, Going
    <3> QED BY <1>4, <1>5, <3>3, <3>5, <3>6, <3>7 DEF WholeInv
  <2> QED BY <2>5, <2>6
<1> QED BY <1>2, <1>6, <1>7

(* A row is popped: the limit is reached, or it is handed out, passed over, or refused. *)
LEMMA TakeRowIsWanted ==
    ASSUME SdkInv, WholeInv, pc = "map", TakeRow
    PROVE  WholeInv'
<1> DEFINE row == Head(buffer)
           c == Len(item) + 1
<1>1. /\ run' = run /\ viaQt' = viaQt /\ plan' = plan /\ pc' = pc /\ step' = step
      /\ done' = done /\ ready' = ready /\ expected' = expected /\ out' = out
      /\ at = "fill" /\ ~dry /\ ~exhausted /\ buffer # <<>> /\ Len(item) < plan.maxItems
      /\ buffer' = Tail(buffer) /\ offset' = offset + 1
  BY DEF TakeRow, Asking, Room, NextOffset, server, origin
<1>2. /\ offset \in 0..Rows /\ yielded = offset /\ Rows \in Nat /\ plan \in Plan
      /\ buffer \in Seq(Row) /\ item \in Seq(Row) /\ plan.maxRows \in Nat /\ plan.maxItems \in Nat
      /\ Len(buffer) \in Nat \ {0} /\ offset + Len(buffer) <= Rows
      /\ row = offset + 1 /\ row \in Row /\ offset < Rows
      /\ Len(item) \in Nat
  <2>1. /\ offset \in 0..Rows /\ Rows \in Nat /\ plan \in Plan /\ buffer \in Seq(Row)
        /\ item \in Seq(Row)
    BY SizesAssumption DEF SdkInv, TypeOK, IteratorType
  <2>2. plan.maxRows \in Nat /\ plan.maxItems \in Nat
    BY <2>1 DEF Plan
  <2>3. Len(buffer) \in Nat \ {0} /\ row = buffer[1]
    BY <1>1, <2>1
  <2>4. offset + Len(buffer) <= Rows /\ row = offset + 1
    BY <2>3 DEF SdkInv, RowsInOrder
  <2>5. yielded = offset
    BY <1>1 DEF WholeInv, RowsAreCounted, Going
  <2> HIDE DEF row
  <2>6. row \in Row /\ offset < Rows /\ Len(item) \in Nat
    BY <2>1, <2>3, <2>4 DEF Row
  <2> QED BY <2>1, <2>2, <2>3, <2>4, <2>5, <2>6
<1>3. /\ yielded <= plan.maxRows /\ Len(item) <= plan.maxItems /\ Handed \subseteq Wanted
      /\ Handed = ValidUpTo(yielded) /\ Len(item) = Cardinality(ValidUpTo(yielded))
  BY <1>1 DEF WholeInv, RowsAreCounted, Going
<1>4. Wanted' = Wanted /\ \A o : Needed(o)' = Needed(o)
  BY <1>1, SameRows
<1>5. call[0].at = "idle"
  BY <1>1, HandlerWaits
<1>6. call'[0].at = "idle"
  <2>1. CASE call' = call
    BY <1>5, <2>1
  <2>2. CASE Enter(c, <<"row", row>>)
    <3>1. c # 0
      BY <1>2
    <3>2. call'[0] = call[0]
      BY <2>2, <3>1, InFlight, SizesAssumption DEF Enter, Caller
    <3> QED BY <1>5, <3>2
  <2> QED BY <2>1, <2>2 DEF TakeRow
<1>7. HandlerCalls' /\ RecordsAreNeeded'
  BY <1>1, <1>4, <1>6 DEF WholeInv, HandlerCalls, RecordsAreNeeded, BatchStatus
<1>8. at' # "finished"
  BY <1>1 DEF TakeRow, Ended, Raise
<1>9. FinishedIsWhole' /\ RunFollows'
  BY <1>1, <1>8, MapFollows DEF FinishedIsWhole
<1>10. BatchesAreBehind'
  <2>1. Len(buffer') = Len(buffer) - 1
    BY <1>1, <1>2
  <2>2. offset' + Len(buffer') = offset + Len(buffer)
    BY <1>1, <1>2, <2>1
  <2> QED BY <1>1, <2>2 DEF WholeInv, BatchesAreBehind, Going, BatchStatus
<1> HIDE DEF row, c
<1>11. CASE LimitReached
  <2>1. /\ exhausted' = TRUE /\ dry' = TRUE /\ at' = "yield"
        /\ yielded' = yielded /\ item' = item /\ pending' = pending
    BY <1>11 DEF TakeRow, Ended
  <2>2. yielded = plan.maxRows
    BY <1>2, <1>3, <1>11 DEF LimitReached
  <2>3. RowsAreCounted'
    BY <1>1, <1>3, <1>4, <2>1 DEF RowsAreCounted, Handed
  <2>4. DryIsEverything'
    <3>1. ValidUpTo(yielded) = Wanted
      <4>1. yielded \in 0..Rows /\ Cardinality(ValidUpTo(yielded)) <= plan.maxItems
        BY <1>2, <1>3
      <4> QED BY <1>2, <1>3, <2>2, <4>1, HandedIsWanted
    <3>2. ASSUME NEW o \in 0..Rows, Needed(o)
          PROVE  BatchStatus(o) # "running"
      <4>1. IsBoundary(o) /\ o < offset + Len(buffer)
        BY <1>2, <2>2, <3>2 DEF Needed
      <4> QED BY <1>1, <4>1 DEF WholeInv, BatchesAreBehind, Going
    <3>3. Handed' = Handed
      BY <2>1 DEF Handed
    <3> QED BY <1>1, <1>3, <1>4, <3>1, <3>2, <3>3 DEF DryIsEverything, BatchStatus
  <2>5. ResultsAreSomewhere'
    BY <1>1, <2>1 DEF WholeInv, ResultsAreSomewhere, Going
  <2> QED BY <1>7, <1>9, <1>10, <2>3, <2>4, <2>5 DEF WholeInv
<1>12. CASE ~LimitReached /\ row \notin Invalid
  <2>1. /\ exhausted' = exhausted /\ dry' = dry /\ at' = at
        /\ yielded' = yielded + 1 /\ item' = Append(item, row) /\ pending' = pending \cup {c}
    BY <1>12 DEF TakeRow, row, c
  <2>2. yielded + 1 <= plan.maxRows
    BY <1>2, <1>3, <1>12 DEF LimitReached
  <2>3. Len(item') = Len(item) + 1 /\ Len(item) + 1 <= plan.maxItems
    BY <1>1, <1>2, <2>1
  <2>4. Handed' = Handed \cup {row}
    <3>1. /\ \A i \in 1..Len(item) : item'[i] = item[i]
          /\ item'[Len(item) + 1] = row
          /\ 1..Len(item') = 1..Len(item) \cup {Len(item) + 1}
      BY <1>2, <2>1, <2>3
    <3> QED BY <3>1 DEF Handed
  <2>5. /\ ValidUpTo(yielded + 1) = ValidUpTo(yielded) \cup {row}
        /\ Cardinality(ValidUpTo(yielded + 1)) = Cardinality(ValidUpTo(yielded)) + 1
    BY <1>2, <1>12, NextRowCounts
  <2>6. ValidUpTo(yielded + 1) \subseteq Wanted
    <3>1. yielded + 1 \in 0..Rows /\ Cardinality(ValidUpTo(yielded + 1)) <= plan.maxItems
      BY <1>2, <1>3, <2>3, <2>5
    <3> QED BY <1>2, <2>2, <3>1, HandedIsWanted
  <2>7. RowsAreCounted'
    BY <1>1, <1>2, <1>3, <1>4, <2>1, <2>2, <2>3, <2>4, <2>5, <2>6 DEF RowsAreCounted
  <2>8. DryIsEverything'
    BY <1>1, <2>1 DEF DryIsEverything
  <2>9. ResultsAreSomewhere'
    <3>1. \A d \in 1..Len(item') : d \in 1..Len(item) \/ d = c
      BY <1>2, <2>3 DEF c
    <3> QED BY <1>1, <2>1, <3>1 DEF WholeInv, ResultsAreSomewhere, Going
  <2> QED BY <1>7, <1>9, <1>10, <2>7, <2>8, <2>9 DEF WholeInv
<1>13. CASE ~LimitReached /\ row \in Invalid
  <2>1. /\ exhausted' = exhausted /\ dry' = dry /\ item' = item /\ pending' = pending
        /\ \/ at' = at /\ yielded' = yielded + 1
           \/ at' = "cancel" /\ yielded' = yielded
    BY <1>13 DEF TakeRow, row, Raise
  <2>2. yielded + 1 <= plan.maxRows
    BY <1>2, <1>3, <1>13 DEF LimitReached
  <2>3. ValidUpTo(yielded + 1) = ValidUpTo(yielded)
    BY <1>2, <1>13, NextRowCounts
  <2>4. Handed' = Handed
    BY <2>1 DEF Handed
  <2>5. RowsAreCounted'
    BY <1>1, <1>2, <1>3, <1>4, <2>1, <2>2, <2>3, <2>4 DEF RowsAreCounted, Going
  <2>6. DryIsEverything'
    BY <1>1, <2>1 DEF DryIsEverything
  <2>7. ResultsAreSomewhere'
    BY <1>1, <2>1 DEF WholeInv, ResultsAreSomewhere, Going
  <2> QED BY <1>7, <1>9, <1>10, <2>5, <2>6, <2>7 DEF WholeInv
<1> QED BY <1>11, <1>12, <1>13

(* Every result that was handed out has come back and out when nothing is pending. *)
LEMMA NothingIsMissing ==
    ASSUME SdkInv, WholeInv, pc = "map", at = "wait", pending = {}
    PROVE  /\ {out[i][2] : i \in DOMAIN out} = Wanted
           /\ \A k \in Key : step[k].status # "running"
<1>1. /\ dry /\ done = {} /\ Going /\ Running /\ expected \notin DOMAIN ready
  BY DEF WholeInv, ResultsAreSomewhere, Going, Running
<1>2. /\ Handed = Wanted
      /\ \A o \in 0..Rows : Needed(o) => BatchStatus(o) # "running"
  BY <1>1 DEF WholeInv, DryIsEverything
<1>3. /\ out \in Seq(Outcome) /\ DOMAIN out = 1..Len(out) /\ Len(out) \in Nat
      /\ Len(item) \in Nat /\ item \in Seq(Row) /\ expected \in Nat \ {0}
  BY InFlight, SizesAssumption DEF SdkInv, TypeOK, IteratorType
<1>4. \A c \in 1..Len(item) : c \in DOMAIN ready \/ \E i \in 1..Len(out) : out[i][1] = c
  BY <1>1 DEF WholeInv, ResultsAreSomewhere
<1>5. \A c \in 1..Len(item) : \E i \in 1..Len(out) : out[i][1] = c
  <2>1. CASE plan.order = "input"
    <3>1. expected = Len(out) + 1 /\ \A i \in 1..Len(out) : out[i][1] = i
      BY <2>1 DEF SdkInv, ResultsInOnePlace
    <3>2. ~(expected <= Len(item))
      <4> SUFFICES ASSUME expected <= Len(item) PROVE FALSE
        OBVIOUS
      <4>1. expected \in 1..Len(item)
        BY <1>3
      <4>2. PICK i \in 1..Len(out) : out[i][1] = expected
        BY <1>1, <1>4, <4>1
      <4> QED BY <1>3, <3>1, <4>2
    <3>3. ASSUME NEW c \in 1..Len(item)
          PROVE  c \in 1..Len(out)
      BY <1>3, <3>1, <3>2
    <3> QED BY <3>1, <3>3
  <2>2. CASE plan.order = "completion"
    BY <1>4, <2>2 DEF SdkInv, ResultsInOnePlace
  <2> QED BY <2>1, <2>2 DEF SdkInv, TypeOK, Plan
<1>6. ASSUME NEW i \in 1..Len(out)
      PROVE  /\ out[i][1] \in 1..Len(item) /\ out[i][2] = item[out[i][1]]
             /\ step[<<"row", out[i][2]>>].status = "completed"
  <2> DEFINE c == out[i][1]
  <2>1. c \in Row /\ call[c].at = "returned" /\ out[i] = Result(c)
    BY <1>1, <1>3 DEF SdkInv, ResultsAreReturned, Outcome
  <2>2. out[i][2] = item[c]
    BY <2>1 DEF Result
  <2> HIDE DEF c
  <2>3. c <= Len(item) /\ call[c].key = <<"row", item[c]>> /\ c \in Caller
    BY <2>1, InFlight DEF SdkInv, CallsHaveKeys
  <2>4. c \in 1..Len(item)
    BY <1>3, <2>1, <2>3, SizesAssumption DEF Row
  <2>5. step[<<"row", item[c]>>].status = "completed"
    BY <2>1, <2>3 DEF SdkInv, CallsHaveSteps
  <2> QED BY <2>2, <2>4, <2>5 DEF c
<1>7. \A r : r \in Wanted <=> \E i \in 1..Len(out) : out[i][2] = r
  <2>1. \A r \in Wanted : \E c \in 1..Len(item) : item[c] = r
    BY <1>2 DEF Handed
  <2>2. \A c \in 1..Len(item) : item[c] \in Wanted
    BY <1>2 DEF Handed
  <2>3. ASSUME NEW r \in Wanted PROVE \E i \in 1..Len(out) : out[i][2] = r
    <3>1. PICK c \in 1..Len(item) : item[c] = r
      BY <2>1
    <3>2. PICK i \in 1..Len(out) : out[i][1] = c
      BY <1>5
    <3> QED BY <1>6, <3>1, <3>2
  <2>4. ASSUME NEW i \in 1..Len(out) PROVE out[i][2] \in Wanted
    BY <1>6, <2>2
  <2> QED BY <2>3, <2>4
<1>8. {out[i][2] : i \in DOMAIN out} = Wanted
  BY <1>3, <1>7
<1>9. ASSUME NEW r \in Wanted
      PROVE  step[<<"row", r>>].status = "completed"
  <2>1. PICK i \in 1..Len(out) : out[i][2] = r
    BY <1>7
  <2> QED BY <1>6, <2>1
<1>10. ASSUME NEW k \in Key, step[k].status = "running"
       PROVE  FALSE
  <2>1. CASE k = <<"dataset-init", 0>>
    <3>1. step[<<"dataset-init", 0>>].status # "running"
      BY DEF WholeInv, HandlerCalls
    <3> QED BY <1>10, <2>1, <3>1
  <2>2. ASSUME NEW o \in 0..Rows, k = <<"dataset-batch", o>>
        PROVE  FALSE
    <3>1. BatchStatus(o) = "running"
      BY <1>10, <2>2 DEF BatchStatus
    <3> QED BY <1>2, <3>1 DEF WholeInv, RecordsAreNeeded
  <2>3. ASSUME NEW r \in Row, k = <<"row", r>>
        PROVE  FALSE
    <3>1. r \in Wanted
      BY <1>10, <2>3 DEF WholeInv, RecordsAreNeeded
    <3> QED BY <1>9, <1>10, <2>3, <3>1
  <2> QED BY <2>1, <2>2, <2>3 DEF Key
<1> QED BY <1>8, <1>10

LEMMA WaitIsWhole ==
    ASSUME SdkInv, WholeInv, pc = "map", Wait
    PROVE  WholeInv'
<1>1. /\ RowsStay /\ dry' = dry /\ ready' = ready
      /\ expected' = expected /\ out' = out /\ call' = call /\ step' = step
      /\ at = "wait"
  BY DEF Wait, RowsStay, server, origin, dataset
<1>2. call[0].at = "idle"
  BY <1>1, HandlerWaits
<1>3. \/ at' = "finished" /\ pending = {} /\ pending' = pending /\ done' = done
      \/ /\ at' = "drain" /\ \A c \in pending : c \in pending' \cup done'
  BY DEF Wait
<1>4. HandlerCalls' /\ RowsAreCounted' /\ DryIsEverything' /\ BatchesAreBehind' /\ RecordsAreNeeded'
  BY <1>1, <1>2, <1>3, QuietStep DEF Going, Settles, CallLeft, RowsStay
<1>5. ResultsAreSomewhere'
  <2>1. done = {}
    BY <1>1 DEF WholeInv, ResultsAreSomewhere, Going
  <2> QED BY <1>1, <1>3, <2>1 DEF WholeInv, ResultsAreSomewhere, Going, RowsStay
<1>6. RunFollows'
  BY <1>1, MapFollows DEF RowsStay
<1>7. FinishedIsWhole'
  <2>1. Wanted' = Wanted
    BY <1>1, SameRows DEF RowsStay
  <2> QED BY <1>1, <1>3, <2>1, NothingIsMissing DEF FinishedIsWhole
<1> QED BY <1>4, <1>5, <1>6, <1>7 DEF WholeInv

LEMMA DrainIsQuiet ==
    ASSUME SdkInv, WholeInv, pc = "map", Drain
    PROVE  WholeInv'
<1>1. /\ RowsStay /\ dry' = dry /\ pending' = pending
      /\ expected' = expected /\ call' = call /\ step' = step
      /\ at = "drain" /\ at' \in {"fill", "cancel", "drain"}
  BY DEF Drain, RowsStay, Raise, server, origin, dataset
<1>2. call[0].at = "idle"
  BY <1>1, HandlerWaits
<1>3. HandlerCalls' /\ RowsAreCounted' /\ DryIsEverything' /\ BatchesAreBehind' /\ RecordsAreNeeded'
  BY <1>1, <1>2, QuietStep DEF Going, Settles, CallLeft, RowsStay
<1>4. FinishedIsWhole' /\ RunFollows'
  BY <1>1, MapFollows DEF FinishedIsWhole, RowsStay
<1>5. \/ at' = "cancel"
      \/ done = {} /\ at' = "fill" /\ done' = {} /\ ready' = ready /\ out' = out
      \/ at' = "drain" /\ \E c \in done : done' = done \ {c} /\ Keep(c)
  BY <1>1 DEF Drain, Raise
<1>6. ResultsAreSomewhere'
  <2>1. CASE at' = "cancel"
    BY <2>1 DEF ResultsAreSomewhere, Going
  <2>2. CASE done = {} /\ at' = "fill" /\ done' = {} /\ ready' = ready /\ out' = out
    BY <1>1, <2>2 DEF WholeInv, ResultsAreSomewhere, Going, RowsStay
  <2>3. ASSUME at' = "drain", NEW c \in done, done' = done \ {c}, Keep(c)
        PROVE  ResultsAreSomewhere'
    <3>1. out \in Seq(Outcome)
      BY DEF SdkInv, IteratorType
    <3>2. \/ out' = Append(out, Result(c)) /\ ready' = ready
          \/ DOMAIN ready' = DOMAIN ready \cup {c} /\ out' = out
      BY <2>3 DEF Keep
    <3>3. /\ \A i \in 1..Len(out) : i \in 1..Len(out') /\ out'[i] = out[i]
          /\ c \in DOMAIN ready' \/ \E i \in 1..Len(out') : out'[i][1] = c
          /\ DOMAIN ready \subseteq DOMAIN ready'
      <4>1. CASE out' = Append(out, Result(c)) /\ ready' = ready
        <5>1. /\ Len(out') = Len(out) + 1 /\ Len(out) \in Nat
              /\ \A i \in 1..Len(out) : out'[i] = out[i]
              /\ out'[Len(out) + 1] = Result(c)
          BY <3>1, <4>1
        <5>2. Result(c)[1] = c
          BY DEF Result
        <5> QED BY <4>1, <5>1, <5>2
      <4>2. CASE DOMAIN ready' = DOMAIN ready \cup {c} /\ out' = out
        BY <4>2
      <4> QED BY <3>2, <4>1, <4>2
    <3> QED BY <1>1, <2>3, <3>3 DEF WholeInv, ResultsAreSomewhere, Going, RowsStay
  <2> QED BY <1>5, <2>1, <2>2, <2>3
<1> QED BY <1>3, <1>4, <1>6 DEF WholeInv

LEMMA YieldIsQuiet ==
    ASSUME SdkInv, WholeInv, pc = "map", Yield
    PROVE  WholeInv'
<1>1. /\ RowsStay /\ dry' = dry /\ pending' = pending /\ done' = done /\ ready' = ready
      /\ call' = call /\ step' = step
      /\ at = "yield" /\ at' \in {"yield", "wait"}
      /\ \/ out' = Append(out, ready[expected]) /\ at' = "yield"
         \/ out' = out /\ expected' = expected /\ expected \notin DOMAIN ready
  BY DEF Yield, RowsStay, server, origin, dataset
<1>2. call[0].at = "idle"
  BY <1>1, HandlerWaits
<1>3. HandlerCalls' /\ RowsAreCounted' /\ DryIsEverything' /\ BatchesAreBehind' /\ RecordsAreNeeded'
  BY <1>1, <1>2, QuietStep DEF Going, Settles, CallLeft, RowsStay
<1>4. FinishedIsWhole' /\ RunFollows'
  BY <1>1, MapFollows DEF FinishedIsWhole, RowsStay
<1>5. ResultsAreSomewhere'
  <2>1. \A i \in 1..Len(out) : i \in 1..Len(out') /\ out'[i] = out[i]
    <3>1. out \in Seq(Outcome)
      BY DEF SdkInv, IteratorType
    <3>2. CASE out' = Append(out, ready[expected])
      <4>1. /\ Len(out') = Len(out) + 1 /\ Len(out) \in Nat
            /\ \A i \in 1..Len(out) : out'[i] = out[i]
        BY <3>1, <3>2
      <4> QED BY <4>1
    <3> QED BY <1>1, <3>2
  <2> QED BY <1>1, <2>1 DEF WholeInv, ResultsAreSomewhere, Going, RowsStay
<1> QED BY <1>3, <1>4, <1>5 DEF WholeInv

LEMMA CancelIsQuiet ==
    ASSUME SdkInv, WholeInv, pc = "map", Cancel
    PROVE  WholeInv'
<1>1. /\ RowsStay /\ dry' = dry /\ pending' = pending /\ done' = done /\ ready' = ready
      /\ expected' = expected /\ out' = out
      /\ at = "cancel" /\ at' = "raised" /\ CutOff(pending)
  BY DEF Cancel, RowsStay, origin, dataset
<1>2. call[0].at = "idle"
  BY <1>1, HandlerWaits
<1>3. pending \in SUBSET Caller /\ 0 \notin pending
  BY InFlight DEF SdkInv, TypeOK
<1>4. Settles /\ CallLeft
  BY <1>1, <1>2, <1>3, CutOffSettles DEF CallLeft
<1>5. HandlerCalls' /\ RowsAreCounted' /\ DryIsEverything' /\ BatchesAreBehind' /\ RecordsAreNeeded'
  BY <1>1, <1>4, QuietStep DEF Going, RowsStay
<1>6. ResultsAreSomewhere' /\ FinishedIsWhole' /\ RunFollows'
  BY <1>1, MapFollows DEF FinishedIsWhole, ResultsAreSomewhere, Going, RowsStay
<1> QED BY <1>5, <1>6 DEF WholeInv

-----------------------------------------------------------------------------
(* A process that has just started has handed out nothing. *)
LEMMA FreshIsWhole ==
    FreshState /\ RecordsAreNeeded /\ run # "completed" /\ pc \in {"off", "health"} => WholeInv
<1> SUFFICES ASSUME FreshState, RecordsAreNeeded, run # "completed", pc \in {"off", "health"}
             PROVE  WholeInv
  OBVIOUS
<1>1. /\ Rows \in Nat /\ BatchSize \in Nat \ {0} /\ plan.maxRows \in Nat /\ plan.maxItems \in Nat
  BY SizesAssumption DEF FreshState, Plan
<1>2. ValidUpTo(0) = {} /\ Cardinality(ValidUpTo(0)) = 0
  <2>1. ValidUpTo(0) = {}
    BY <1>1 DEF ValidUpTo
  <2> QED BY <2>1, FS_EmptySet
<1>3. HandlerCalls
  <2>1. call[0].at = "idle" /\ at = "unstarted"
    BY <1>1 DEF FreshState, Caller, NoCall
  <2> QED BY <2>1 DEF HandlerCalls
<1>4. RowsAreCounted
  <2>1. Handed = {} /\ Len(item) = 0
    BY DEF FreshState, Handed
  <2> QED BY <1>1, <1>2, <2>1 DEF FreshState, RowsAreCounted
<1>5. DryIsEverything /\ FinishedIsWhole /\ RunFollows
  BY DEF FreshState, DryIsEverything, FinishedIsWhole, RunFollows
<1>6. BatchesAreBehind
  <2>1. offset + Len(buffer) = 0 /\ 0 = 0 * BatchSize /\ 0 \in 0..Rows
    BY <1>1 DEF FreshState
  <2>2. IsBoundary(0)
    BY <2>1 DEF IsBoundary
  <2>3. \A o \in 0..Rows : ~(o < 0)
    BY <1>1
  <2> QED BY <2>1, <2>2, <2>3 DEF BatchesAreBehind
<1>7. ResultsAreSomewhere
  <2>1. Len(item) = 0
    BY DEF FreshState
  <2> QED BY <2>1 DEF FreshState, ResultsAreSomewhere
<1> QED BY <1>3, <1>4, <1>5, <1>6, <1>7 DEF WholeInv

LEMMA StartIsWhole ==
    ASSUME SdkInv, WholeInv, \E qt \in BOOLEAN : Start(qt)
    PROVE  WholeInv'
<1>1. FreshState' /\ run' = "running" /\ pc' = "health" /\ step' = step /\ plan' = plan
  BY StartIsFresh
<1>2. RecordsAreNeeded'
  BY <1>1, SameRows DEF WholeInv, RecordsAreNeeded, BatchStatus
<1>3. (FreshState /\ RecordsAreNeeded /\ run # "completed" /\ pc \in {"off", "health"} => WholeInv)'
  BY FreshIsWhole, PTL
<1> QED BY <1>1, <1>2, <1>3

LEMMA InitIsWhole == Init => WholeInv
<1> SUFFICES ASSUME Init PROVE WholeInv
  OBVIOUS
<1>1. \A k \in Key : step[k].status = "absent"
  BY DEF Init, DurableInit, NoRecord
<1>2. RecordsAreNeeded
  BY <1>1, StepKeys DEF RecordsAreNeeded, BatchStatus
<1>3. run = "absent" /\ pc = "off"
  BY DEF Init, DurableInit
<1> QED BY <1>2, <1>3, InitIsFresh, FreshIsWhole

LEMMA StutterIsWhole ==
    ASSUME WholeInv, UNCHANGED vars
    PROVE  WholeInv'
<1>1. /\ run' = run /\ step' = step /\ plan' = plan /\ viaQt' = viaQt /\ pc' = pc /\ call' = call
      /\ buffer' = buffer /\ offset' = offset /\ yielded' = yielded /\ exhausted' = exhausted
      /\ at' = at /\ item' = item /\ pending' = pending /\ done' = done
      /\ ready' = ready /\ expected' = expected /\ dry' = dry /\ out' = out
  BY DEF vars, server, origin, dataset, iterator
<1>2. HandlerCalls' /\ RowsAreCounted' /\ DryIsEverything' /\ BatchesAreBehind' /\ RecordsAreNeeded'
  BY <1>1, QuietStep DEF Going, Settles, CallLeft
<1>3. FinishedIsWhole'
  BY <1>1, StaysFinished DEF WholeInv, Settles
<1>4. ResultsAreSomewhere' /\ RunFollows'
  BY <1>1 DEF WholeInv, ResultsAreSomewhere, Going, RunFollows
<1> QED BY <1>2, <1>3, <1>4 DEF WholeInv

LEMMA NextIsWhole ==
    ASSUME SdkInv, WholeInv, [Next]_vars
    PROVE  WholeInv'
<1>1. CASE \E qt \in BOOLEAN : Start(qt)
  BY <1>1, StartIsWhole
<1>2. CASE Wrapper \/ Abandon \/ Kill
  BY <1>2, WrapperIsQuiet, HandlerIsQuiet DEF Wrapper
<1>3. CASE Running /\ \E c \in Caller : RunStep(c)
  BY <1>3, RunStepIsNeeded
<1>4. CASE Iterate
  BY <1>4, FillIsQuiet, FillLimitIsWhole, AskBatchIsNeeded, GetBatchIsWhole, TakeRowIsWanted,
     WaitIsWhole, DrainIsQuiet, YieldIsQuiet, CancelIsQuiet
     DEF Iterate, Iterator
<1>5. CASE UNCHANGED vars
  BY <1>5, StutterIsWhole
<1> QED BY <1>1, <1>2, <1>3, <1>4, <1>5 DEF Next

(* A run that its workflow completes, in whatever attempt, has a result for exactly the
   rows that the plan asks for and leaves no step open: nothing of a dead attempt is
   forgotten, for the next goes through the same steps. *)
THEOREM CompletedRunsAreWhole == Spec => []CompletedRunIsWhole
<1>1. SdkInv /\ WholeInv /\ [Next]_vars => WholeInv'
  BY NextIsWhole
<1>2. WholeInv => CompletedRunIsWhole
  BY DEF WholeInv, FinishedIsWhole, RunFollows, CompletedRunIsWhole
<1> QED BY <1>1, <1>2, InitIsWhole, SdkInvariance, PTL DEF Spec

=============================================================================
