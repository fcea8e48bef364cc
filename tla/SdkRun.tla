------------------------------- MODULE SdkRun -------------------------------
(***************************************************************************)
(* A workflow written with the SDK: workflow() around a handler that opens *)
(* a dataset, maps a durable step over its rows with map_dataset, and      *)
(* returns; run as a script of its own or as the command of `qt run' and   *)
(* `qt resume'.                                                            *)
(*                                                                         *)
(* The script is one event loop: the handler (caller 0) and the tasks of   *)
(* iter_async_with_concurrency (caller i for the i-th item) take turns at  *)
(* awaits.  Requests, answers and row computations may fail; the script,   *)
(* or qt with it, may be killed at any moment and the run resumed.         *)
(***************************************************************************)
EXTENDS Integers, Sequences, FiniteSets, TLC

CONSTANTS
    Rows,            \* rows of the dataset, numbered from 1
    Invalid,         \* those that fail validation
    BatchSize, MaxConcurrency,
    Plans,           \* options of the handler to consider
    Pinned,          \* the workflow names configuration and split itself
    MaxAttempts, MaxFaults,     \* bounds
    NULL

ASSUME SizesAssumption ==
    /\ Rows \in Nat /\ Invalid \subseteq 1..Rows
    /\ BatchSize \in Nat \ {0} /\ MaxConcurrency \in Nat \ {0}
    /\ MaxAttempts \in Nat /\ MaxFaults \in Nat

Row == 1..Rows
Caller == 0..Rows

(* Step keys, what their input hashes tell apart, and step outputs.  A row's output
   is told by the attempt that computed it. *)
Key == {<<"dataset-init", 0>>} \cup ({"dataset-batch"} \X (0..Rows)) \cup ({"row"} \X Row)
Source == {"any", "bare", "resolved"}
Attempt == 1..MaxAttempts
Output == {<<>>} \cup [1..1 -> Attempt] \cup UNION {[1..n -> Row] : n \in 1..BatchSize}

VARIABLES run, step          \* the run and its steps, as the server keeps them
INSTANCE DurableSteps WITH Hash <- Source, Value <- Output

VARIABLES
    attempt, viaQt,          \* attempts so far; whether qt started the current one
    faults, hurt,            \* faults so far; whether one befell the current attempt
    pc,                      \* where the workflow wrapper stands
    call,                    \* [Caller -> the run_step call it is in]
    resolved,                \* the source knows configuration and split
    plan,                    \* the handler's options
    buffer, offset, yielded, exhausted,      \* Dataset
    at,                      \* where the concurrent iterator stands
    item,                    \* rows handed to tasks, in order
    pending, done,           \* tasks in flight; tasks that asyncio.wait returned
    ready, expected,         \* completed_by_index, next_expected_index
    dry,                     \* source_exhausted
    out                      \* <<index, row, output>> the consumer got, in order

server == <<run, step>>
dataset == <<buffer, offset, yielded, exhausted>>
iterator == <<at, item, pending, done, ready, expected, dry, out>>
trouble == <<faults, hurt>>
origin == <<attempt, viaQt, plan>>
vars == <<server, origin, trouble, pc, call, resolved, dataset, iterator>>

NoCall == [at |-> "idle", key |-> NULL, output |-> NULL]
Finished(c) == call[c].at \in {"returned", "raised"}
Working(c) == call[c].at \in {"begin", "execute", "complete", "fail"}
Running == pc \notin {"off", "reaped", "refused"}

(* One more thing goes wrong. *)
Fault == /\ faults < MaxFaults
         /\ faults' = faults + 1
         /\ hurt' = TRUE

-----------------------------------------------------------------------------
(* QuantilesClient.run_step.  A request may fail before the server acts on it, or
   its answer may be lost after. *)

(* Mutant: what the workflow names itself is left out. *)
ResolvedSourceId == IF resolved THEN "resolved" ELSE "bare"

SourceId == IF resolved \/ Pinned THEN "resolved" ELSE "bare"

(* What input_hash tells apart: a batch's input names its source. *)
HashOf(key) == IF key[1] = "dataset-batch" THEN SourceId ELSE "any"

Enter(c, key) == call' = [call EXCEPT ![c] = [NoCall EXCEPT !.at = "begin", !.key = key]]
Move(c, where) == call' = [call EXCEPT ![c].at = where]
Return(c, output) == call' = [call EXCEPT ![c].at = "returned", ![c].output = output]

BeginWork(key) == \/ NewWork(key, HashOf(key))
                  \/ JoinWork(key, HashOf(key))
                  \/ RetryWork(key, HashOf(key))

Begin(c) ==
    /\ call[c].at = "begin"
    /\ LET key == call[c].key IN
       \/ /\ BeginWork(key)
          /\ \/ Move(c, "execute") /\ UNCHANGED trouble
             \/ Move(c, "raised") /\ Fault
       \/ /\ ReuseWork(key, HashOf(key))
          /\ \/ Return(c, step[key].output) /\ UNCHANGED trouble
             \/ Move(c, "raised") /\ Fault
       \/ /\ step[key].status # "absent" /\ step[key].hash # HashOf(key)   \* refused
          /\ Move(c, "raised")
          /\ UNCHANGED <<server, trouble>>
       \/ Move(c, "raised") /\ Fault /\ UNCHANGED server
    /\ UNCHANGED <<origin, pc, resolved, dataset, iterator>>

(* initialize(): the server resolves configuration and split. *)
Initialize(c) ==
    /\ call[c].at = "execute" /\ call[c].key[1] = "dataset-init"
    /\ \/ /\ resolved' = TRUE
          /\ call' = [call EXCEPT ![c].at = "complete", ![c].output = <<>>]
          /\ UNCHANGED trouble
       \/ Move(c, "fail") /\ Fault /\ UNCHANGED resolved
    /\ UNCHANGED <<server, origin, pc, dataset, iterator>>

(* load_batch(): a slice of the dataset, if configuration and split are known. *)
LoadBatch(c) ==
    /\ call[c].at = "execute" /\ call[c].key[1] = "dataset-batch"
    /\ \/ /\ resolved \/ Pinned
          /\ LET first == call[c].key[2] IN
             call' = [call EXCEPT ![c].at = "complete",
                                  ![c].output = SubSeq([i \in Row |-> i], first + 1,
                                                       IF first + BatchSize < Rows THEN first + BatchSize ELSE Rows)]
          /\ UNCHANGED trouble
       \/ ~resolved /\ ~Pinned /\ Move(c, "fail") /\ UNCHANGED trouble
       \/ Move(c, "fail") /\ Fault
    /\ UNCHANGED <<server, origin, pc, resolved, dataset, iterator>>

(* The row's own computation. *)
ExecuteRow(c) ==
    /\ call[c].at = "execute" /\ call[c].key[1] = "row"
    /\ \/ call' = [call EXCEPT ![c].at = "complete", ![c].output = <<attempt>>] /\ UNCHANGED trouble
       \/ Move(c, "fail") /\ Fault
    /\ UNCHANGED <<server, origin, pc, resolved, dataset, iterator>>

(* Mutant: a result is returned before it is stored. *)
CompleteLater(c) ==
    /\ call[c].at = "complete"
    /\ \/ FinishWork(call[c].key, call[c].output)
       \/ UNCHANGED server
    /\ Move(c, "returned")
    /\ UNCHANGED <<origin, trouble, pc, resolved, dataset, iterator>>

Complete(c) ==
    /\ call[c].at = "complete"
    /\ \/ FinishWork(call[c].key, call[c].output) /\ Move(c, "returned") /\ UNCHANGED trouble
       \/ FinishWork(call[c].key, call[c].output) /\ Move(c, "fail") /\ Fault
       \/ Move(c, "fail") /\ Fault /\ UNCHANGED server
    /\ UNCHANGED <<origin, pc, resolved, dataset, iterator>>

Fail(c) ==
    /\ call[c].at = "fail"
    /\ Move(c, "raised")
    /\ \/ AbandonWork(call[c].key) /\ UNCHANGED trouble
       \/ Fault /\ UNCHANGED server
    /\ UNCHANGED <<origin, pc, resolved, dataset, iterator>>

(* TypeScript's runStep goes through the same stages. *)
RunStep(c) == Begin(c) \/ Initialize(c) \/ LoadBatch(c) \/ ExecuteRow(c) \/ Complete(c) \/ Fail(c)

(* Callers are cut off in the middle of run_step.  A completion on its way may still
   reach the server. *)
CutOff(callers) ==
    /\ \E arriving \in SUBSET {c \in callers : call[c].at = "complete"} :
          step' = [k \in Key |->
                     IF \E c \in arriving : call[c].key = k
                     THEN [step[k] EXCEPT !.status = "completed",
                              !.output = call[CHOOSE c \in arriving : call[c].key = k].output]
                     ELSE step[k]]
    /\ call' = [c \in Caller |-> IF c \in callers THEN NoCall ELSE call[c]]

-----------------------------------------------------------------------------
(* workflow(): the run, the handler, its output, and the end of the run, which is
   qt's if qt started the script. *)

Plan == [order: {"input", "completion"}, onError: {"skip", "fail"},
         maxRows: 1..Rows+1, maxItems: 0..Rows+1]
ASSUME PlansAssumption == Plans \subseteq Plan

Init ==
    /\ DurableInit
    /\ attempt = 0 /\ viaQt = FALSE /\ plan \in Plans
    /\ faults = 0 /\ hurt = FALSE
    /\ pc = "off"
    /\ call = [c \in Caller |-> NoCall]
    /\ resolved = FALSE
    /\ buffer = <<>> /\ offset = 0 /\ yielded = 0 /\ exhausted = FALSE
    /\ at = "unstarted" /\ item = <<>> /\ pending = {} /\ done = {}
    /\ ready = <<>> /\ expected = 1 /\ dry = FALSE /\ out = <<>>

(* The state of a process that has just started. *)
StartAfresh ==
    /\ call' = [c \in Caller |-> NoCall]
    /\ resolved' = FALSE
    /\ buffer' = <<>> /\ offset' = 0 /\ yielded' = 0 /\ exhausted' = FALSE
    /\ at' = "unstarted" /\ item' = <<>> /\ pending' = {} /\ done' = {}
    /\ ready' = <<>> /\ expected' = 1 /\ dry' = FALSE /\ out' = <<>>

(* A script of its own creates its run; qt creates one, or resumes one that is not
   completed. *)
Start(qt) ==
    /\ pc = "off" /\ attempt < MaxAttempts
    /\ \/ attempt = 0 /\ StartRun
       \/ attempt > 0 /\ qt /\ run \in {"running", "failed"} /\ RestartRun
    /\ attempt' = attempt + 1 /\ viaQt' = qt
    /\ pc' = "health"
    /\ hurt' = FALSE
    /\ StartAfresh
    /\ UNCHANGED <<plan, faults>>

(* Before health() answers nothing catches an error: the run is left as it is. *)
Health ==
    /\ pc = "health"
    /\ \/ pc' = "open" /\ Enter(0, <<"dataset-init", 0>>) /\ UNCHANGED trouble
       \/ pc' = (IF viaQt THEN "refused" ELSE "off") /\ Fault /\ UNCHANGED call
    /\ UNCHANGED <<server, origin, resolved, dataset, iterator>>

(* dataset() is back from its step. *)
Open ==
    /\ pc = "open" /\ Finished(0)
    /\ IF call[0].at = "raised" THEN pc' = "except" /\ UNCHANGED at
       ELSE pc' = "map" /\ at' = "fill"
    /\ call' = [call EXCEPT ![0] = NoCall]
    /\ UNCHANGED <<server, origin, trouble, resolved, dataset, item, pending, done, ready, expected, dry, out>>

(* The consumer leaves its loop early: nothing ends the tasks in flight, for
   GeneratorExit is no Exception. *)
Abandon ==
    /\ pc = "map" /\ at \in {"drain", "yield"} /\ out # <<>>
    /\ pc' = "output" /\ at' = "abandoned"
    /\ UNCHANGED <<server, origin, trouble, call, resolved, dataset, item, pending, done, ready, expected, dry, out>>

Handled ==
    /\ pc = "map" /\ at \in {"finished", "raised"}
    /\ pc' = IF at = "finished" THEN "output" ELSE "except"
    /\ UNCHANGED <<server, origin, trouble, call, resolved, dataset, iterator>>

SetOutput ==
    /\ pc = "output"
    /\ \/ pc' = "complete" /\ UNCHANGED trouble
       \/ pc' = "except" /\ Fault
    /\ UNCHANGED <<server, origin, call, resolved, dataset, iterator>>

(* A script of its own completes its run; if the answer is lost, it fails the run it
   has completed. *)
CompleteRun ==
    /\ pc = "complete" /\ ~viaQt
    /\ \/ FinishRun /\ pc' = "leave" /\ UNCHANGED trouble
       \/ FinishRun /\ pc' = "except" /\ Fault
       \/ pc' = "except" /\ Fault /\ UNCHANGED server
    /\ UNCHANGED <<origin, call, resolved, dataset, iterator>>

FailRun ==
    /\ pc = "except" /\ ~viaQt
    /\ pc' = "leave"
    /\ \/ AbandonRun /\ UNCHANGED trouble
       \/ Fault /\ UNCHANGED server
    /\ UNCHANGED <<origin, call, resolved, dataset, iterator>>

(* The session is closed and the script ends, whatever is still in flight. *)
Leave ==
    /\ \/ pc = "leave" /\ pc' = "off"
       \/ pc = "complete" /\ viaQt /\ pc' = "reaped"
       \/ pc = "except" /\ viaQt /\ pc' = "refused"
    /\ CutOff(Caller)
    /\ UNCHANGED <<run, origin, trouble, resolved, dataset, iterator>>

(* qt ends the run by the exit status. *)
Reap ==
    /\ \/ pc = "reaped" /\ FinishRun
       \/ pc = "refused" /\ AbandonRun
    /\ pc' = "off"
    /\ UNCHANGED <<origin, trouble, call, resolved, dataset, iterator>>

(* The script is killed, and qt ends its run, or qt is killed with it. *)
Kill ==
    /\ Running /\ Fault
    /\ pc' \in {"off"} \cup (IF viaQt THEN {"refused"} ELSE {})
    /\ CutOff(Caller)
    /\ UNCHANGED <<run, origin, resolved, dataset, iterator>>

(* TypeScript's workflow() goes through the same stages. *)
Wrapper == \/ Health \/ Open \/ Handled \/ SetOutput
           \/ CompleteRun \/ FailRun \/ Leave \/ Reap

-----------------------------------------------------------------------------
(* iter_async_with_concurrency over Dataset.iter_rows.  fill_pending asks for rows
   while there is room. *)

Ended == /\ dry' = TRUE
         /\ at' = "yield"
Raise == at' = "cancel"

Room == ~dry /\ Cardinality(pending) < MaxConcurrency

FillDone ==
    /\ at = "fill" /\ ~Room
    /\ at' = "yield"
    /\ UNCHANGED <<server, origin, trouble, pc, call, resolved, dataset, item, pending, done, ready, expected, dry, out>>

FillLimit ==
    /\ at = "fill" /\ Room
    /\ Len(item) >= plan.maxItems
    /\ Ended
    /\ UNCHANGED <<server, origin, trouble, pc, call, resolved, dataset, item, pending, done, ready, expected, out>>

Asking == at = "fill" /\ Room /\ Len(item) < plan.maxItems

(* iter_rows has nothing buffered: a step loads the next batch. *)
AskBatch ==
    /\ Asking /\ ~exhausted /\ buffer = <<>>
    /\ at' = "load"
    /\ Enter(0, <<"dataset-batch", offset>>)
    /\ UNCHANGED <<server, origin, trouble, pc, resolved, dataset, item, pending, done, ready, expected, dry, out>>

(* Mutant: an empty batch does not end the dataset. *)
GetBatchForever ==
    /\ at = "load" /\ Finished(0)
    /\ IF call[0].at = "raised" THEN Raise /\ UNCHANGED buffer
       ELSE buffer' = buffer \o call[0].output /\ at' = "fill"
    /\ call' = [call EXCEPT ![0] = NoCall]
    /\ UNCHANGED <<server, origin, trouble, pc, resolved, offset, yielded, exhausted,
                   item, pending, done, ready, expected, dry, out>>

GetBatch ==
    /\ at = "load" /\ Finished(0)
    /\ LET batch == call[0].output IN
       IF call[0].at = "raised" THEN Raise /\ UNCHANGED <<dataset, dry>>
       ELSE IF batch = <<>> THEN Ended /\ exhausted' = TRUE /\ UNCHANGED <<buffer, offset, yielded>>
       ELSE /\ buffer' = buffer \o batch
            /\ at' = "fill"
            /\ UNCHANGED <<offset, yielded, exhausted, dry>>
    /\ call' = [call EXCEPT ![0] = NoCall]
    /\ UNCHANGED <<server, origin, trouble, pc, resolved, item, pending, done, ready, expected, out>>

(* Mutant: a limit is passed by one. *)
LimitPassed == yielded > plan.maxRows
LimitReached == yielded >= plan.maxRows
NextOffset == offset + 1

(* A row is popped and counted; then the limit is looked at, and the row validated.
   Skipped rows count towards the limit. *)
TakeRow ==
    /\ Asking /\ ~exhausted /\ buffer # <<>>
    /\ buffer' = Tail(buffer) /\ offset' = NextOffset
    /\ LET row == Head(buffer) IN
       IF LimitReached THEN
         /\ exhausted' = TRUE /\ Ended
         /\ UNCHANGED <<yielded, hurt, call, item, pending>>
       ELSE IF row \notin Invalid THEN
         /\ yielded' = yielded + 1
         /\ item' = Append(item, row)
         /\ pending' = pending \cup {Len(item) + 1}
         /\ Enter(Len(item) + 1, <<"row", row>>)
         /\ UNCHANGED <<at, exhausted, dry, hurt>>
       ELSE IF plan.onError = "skip" THEN
         /\ yielded' = yielded + 1
         /\ UNCHANGED <<at, exhausted, dry, hurt, call, item, pending>>
       ELSE
         /\ Raise /\ hurt' = TRUE
         /\ UNCHANGED <<yielded, exhausted, dry, call, item, pending>>
    /\ UNCHANGED <<server, origin, faults, pc, resolved, done, ready, expected, out>>

(* asyncio.wait(FIRST_COMPLETED). *)
Wait ==
    /\ at = "wait"
    /\ IF pending = {} THEN at' = "finished" /\ UNCHANGED <<pending, done>>
       ELSE /\ \E c \in pending : Finished(c)
            /\ done' = {c \in pending : Finished(c)}
            /\ pending' = pending \ done'
            /\ at' = "drain"
    /\ UNCHANGED <<server, origin, trouble, pc, call, resolved, dataset, item, ready, expected, dry, out>>

Result(c) == <<c, item[c], call[c].output>>

(* Mutant: results are yielded as they come. *)
YieldAtOnce(c) ==
    /\ out' = Append(out, Result(c))
    /\ UNCHANGED ready
Keep(c) ==
    IF plan.order = "completion" THEN out' = Append(out, Result(c)) /\ UNCHANGED ready
    ELSE /\ ready' = [d \in DOMAIN ready \cup {c} |-> IF d = c THEN Result(c) ELSE ready[d]]
         /\ UNCHANGED out

(* Results are taken in whatever order the set has; the first error is raised. *)
Drain ==
    /\ at = "drain"
    /\ \/ done = {} /\ at' = "fill" /\ UNCHANGED <<done, ready, out>>
       \/ \E c \in done :
             /\ done' = done \ {c}
             /\ IF call[c].at = "raised" THEN Raise /\ UNCHANGED <<ready, out>>
                ELSE Keep(c) /\ UNCHANGED at
    /\ UNCHANGED <<server, origin, trouble, pc, call, resolved, dataset, item, pending, expected, dry>>

Yield ==
    /\ at = "yield"
    /\ IF expected \in DOMAIN ready
       THEN /\ out' = Append(out, ready[expected])
            /\ expected' = expected + 1
            /\ UNCHANGED at
       ELSE at' = "wait" /\ UNCHANGED <<out, expected>>
    /\ UNCHANGED <<server, origin, trouble, pc, call, resolved, dataset, item, pending, done, ready, dry>>

(* Mutant: the error is passed on at once. *)
CancelNothing ==
    /\ at = "cancel"
    /\ at' = "raised"
    /\ UNCHANGED <<server, origin, trouble, pc, call, resolved, dataset, item, pending, done, ready, expected, dry, out>>

(* The pending tasks are cancelled and waited for: their calls end where they stand. *)
Cancel ==
    /\ at = "cancel"
    /\ CutOff(pending)
    /\ at' = "raised"
    /\ UNCHANGED <<run, origin, trouble, pc, resolved, dataset, item, pending, done, ready, expected, dry, out>>

Iterator == \/ FillDone \/ FillLimit \/ AskBatch \/ GetBatch \/ TakeRow
            \/ Wait \/ Drain \/ Yield \/ Cancel

Iterate == pc = "map" /\ Iterator

-----------------------------------------------------------------------------
Next ==
    \/ \E qt \in BOOLEAN : Start(qt)
    \/ Wrapper \/ Abandon
    \/ Running /\ \E c \in Caller : RunStep(c)
    \/ Iterate
    \/ Kill

(* The event loop serves every task, requests are answered or fail, and qt waits for
   the script. *)
Fairness == WF_vars(Wrapper) /\ WF_vars(Iterate) /\ \A c \in Caller : WF_vars(Running /\ RunStep(c))

Spec == Init /\ [][Next]_vars /\ Fairness

-----------------------------------------------------------------------------
TypeOK ==
    /\ DurableType
    /\ attempt \in 0..MaxAttempts /\ viaQt \in BOOLEAN /\ plan \in Plan
    /\ faults \in 0..MaxFaults /\ hurt \in BOOLEAN
    /\ pc \in {"off", "health", "open", "map", "output", "complete", "except", "leave", "reaped", "refused"}
    /\ call \in [Caller -> [at: {"idle", "begin", "execute", "complete", "fail", "returned", "raised"},
                            key: Key \cup {NULL}, output: Output \cup {NULL}]]
    /\ resolved \in BOOLEAN
    /\ offset \in 0..Rows /\ yielded \in 0..Rows /\ exhausted \in BOOLEAN
    /\ at \in {"unstarted", "fill", "load", "wait", "drain", "yield", "cancel", "raised", "finished", "abandoned"}
    /\ item \in Seq(Row) /\ pending \subseteq Row /\ done \subseteq Row

(* The consumer gets each result once, and in input order if it asked for that: no gap
   and no repetition, whatever order the tasks finish in. *)
YieldsInOrder ==
    /\ \A i, j \in DOMAIN out : out[i][1] = out[j][1] => i = j
    /\ plan.order = "input" => \A i \in DOMAIN out : out[i][1] = i

(* No more than MaxConcurrency row steps are in work at once, also while the iterator
   waits for a batch, is abandoned, or unwinds; and none once it has ended, normally or
   by an error: only a consumer that leaves early lets them run on. *)
BoundedConcurrency ==
    Cardinality({c \in Row : Working(c)}) <=
        IF at \in {"finished", "raised"} THEN 0 ELSE MaxConcurrency

(* The types are kept, and what the consumer has seen is what the server has: a
   completed step with that output, also when it was computed by an earlier attempt. *)
ResultsAreDurable ==
    /\ TypeOK
    /\ Running => \A i \in DOMAIN out :
          LET record == step[<<"row", out[i][2]>>] IN
          record.status = "completed" /\ record.output = out[i][3]

LeastOf(a, b) == IF a < b THEN a ELSE b
ValidUpTo(n) == {r \in 1..n : r \notin Invalid}

(* The rows the handler asked for: max_rows counts rows before validation, max_items
   those that pass. *)
Wanted == {r \in ValidUpTo(LeastOf(plan.maxRows, Rows)) : Cardinality(ValidUpTo(r)) <= plan.maxItems}

(* A run that was completed, and not given up halfway by its handler, has a result for
   exactly the rows asked for, across attempts, and no step left open. *)
CompletedRunIsWhole ==
    run = "completed" /\ at # "abandoned" =>
        /\ {out[i][2] : i \in DOMAIN out} = Wanted
        /\ \A k \in Key : step[k].status # "running"

(* An attempt ends in an error only if something went wrong in it: an attempt that
   resumes the work of another has what it needs. *)
ErrorsHaveCauses == pc \in {"except", "refused"} => hurt

(* Completed work is never done again, and its output never replaced: only a client
   whose completion was not acknowledged takes it back, as failed. *)
CompletedWorkIsKept ==
    [][\A k \in Key : step[k].status = "completed" =>
          /\ step'[k].output = step[k].output
          /\ \/ step'[k].status = "completed"
             \/ step'[k].status = "failed" /\ \E c \in Caller : call[c].at = "fail" /\ call[c].key = k]_vars

(* Every attempt ends, by itself or killed. *)
EveryAttemptEnds == Running ~> ~Running
=============================================================================
