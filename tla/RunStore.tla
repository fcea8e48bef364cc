------------------------------ MODULE RunStore ------------------------------
(***************************************************************************)
(* The workspace database of `qt` (cli/src/db): the tables workflows,      *)
(* workflow_runs (with remote_benchmark_runs), steps and events, and the   *)
(* operations of runs.rs and steps.rs on them.                             *)
(*                                                                         *)
(* Every operation of the code is one SQLite transaction, committed or     *)
(* rolled back as a whole, so each is one action here; a transaction that  *)
(* fails changes nothing and needs no action.  The callers are the         *)
(* executors of steps: the tasks of a built-in benchmark, and the SDK      *)
(* clients behind the HTTP server.  They run concurrently, and what they   *)
(* remember of begin_step's answer lives in `holds'.                       *)
(***************************************************************************)
EXTENDS Integers, Sequences

CONSTANTS
    Run,          \* row ids of workflow_runs
    Step,         \* row ids of steps
    Name,         \* workflow names
    Key,          \* step keys
    Hash,         \* input hashes
    Value,        \* JSON texts: inputs and outputs
    ErrorText,    \* error messages of callers
    Provenance,   \* registry provenance records
    Client,       \* concurrent executors of steps
    NULL,         \* SQL NULL, and "no row"
    MaxEvents     \* bound: events recorded per run

ASSUME NullAssumption ==
    /\ NULL \notin Step /\ NULL \notin Value /\ NULL \notin ErrorText
    /\ NULL # "run failed"
ASSUME MaxEventsAssumption == MaxEvents \in Nat

VARIABLES
    workflows,    \* names registered in the workflows table
    runs,         \* [Run -> row of workflow_runs joined with its provenance]
    steps,        \* [Step -> row of steps]
    events,       \* [Run -> the run's rows of events, in insertion order]
    holds         \* [Client -> the StepDecision it acts on, or NULL]

tables == <<workflows, runs, steps, events>>
vars == <<workflows, runs, steps, events, holds>>

-----------------------------------------------------------------------------
(* Row types.  "absent" marks an id no row has been inserted under yet.
   Timestamps are abstracted to whether finished_at is set. *)

RunStatus == {"running", "completed", "failed"}
StepStatus == {"running", "completed", "failed"}
StoredError == ErrorText \cup {"run failed"}

RunRow == [status: RunStatus \cup {"absent"}, name: Name \cup {NULL},
           input: Value \cup {NULL}, output: Value \cup {NULL},
           error: ErrorText \cup {NULL}, finished: BOOLEAN,
           provenance: Provenance \cup {NULL}]

StepRow == [status: StepStatus \cup {"absent"}, run: Run \cup {NULL},
            key: Key \cup {NULL}, hash: Hash \cup {NULL},
            output: Value \cup {NULL}, error: StoredError \cup {NULL},
            finished: BOOLEAN]

RunEventType == {"run.started", "run.completed", "run.failed", "run.resumed"}
StepEventType == {"step.started", "step.completed", "step.failed"}
Event == [type: RunEventType, step: {NULL}] \cup [type: StepEventType, step: Step]

(* A StepDecision as its receiver remembers it, with the request it answers.
   "unsure": complete_step was sent and no answer came back. *)
Decision == [kind: {"run", "unsure", "reuse"}, run: Run, key: Key, hash: Hash,
             step: Step, output: Value \cup {NULL}]

NoRun == [status |-> "absent", name |-> NULL, input |-> NULL, output |-> NULL,
          error |-> NULL, finished |-> FALSE, provenance |-> NULL]
NoStep == [status |-> "absent", run |-> NULL, key |-> NULL, hash |-> NULL,
           output |-> NULL, error |-> NULL, finished |-> FALSE]

TypeOK ==
    /\ workflows \subseteq Name
    /\ runs \in [Run -> RunRow]
    /\ steps \in [Step -> StepRow]
    /\ events \in [Run -> Seq(Event)]
    /\ holds \in [Client -> Decision \cup {NULL}]

Init ==
    /\ workflows = {}
    /\ runs = [r \in Run |-> NoRun]
    /\ steps = [s \in Step |-> NoStep]
    /\ events = [r \in Run |-> <<>>]
    /\ holds = [c \in Client |-> NULL]

-----------------------------------------------------------------------------
RunExists(r) == runs[r].status # "absent"
StepExists(s) == steps[s].status # "absent"

(* Mutant: the lookup forgets to filter by run. *)
StepsAtAnyRun(r, k) == {s \in Step : StepExists(s) /\ steps[s].key = k}

(* The rows begin_step's lookup by (run_id, step_key) can return. *)
StepsAt(r, k) == {s \in Step : StepExists(s) /\ steps[s].run = r /\ steps[s].key = k}

(* The updates a stopping and a restarting operation make to a row, of either
   table.  Mutant: the error of the last attempt is left behind. *)
Stopped(row, status, error) ==
    [row EXCEPT !.status = status, !.finished = TRUE, !.error = error]
RestartedKeepingError(row) ==
    [row EXCEPT !.status = "running", !.finished = FALSE]
Restarted(row) ==
    [row EXCEPT !.status = "running", !.finished = FALSE, !.error = NULL]

(* Insert one row into events. *)
LogEvent(r, type, s) ==
    /\ Len(events[r]) < MaxEvents
    /\ events' = [events EXCEPT ![r] = Append(@, [type |-> type, step |-> s])]

-----------------------------------------------------------------------------
(* Runs. *)

CreateRun(r, name, input, prov) ==
    /\ ~RunExists(r)
    /\ workflows' = workflows \cup {name}
    /\ runs' = [runs EXCEPT ![r] = [NoRun EXCEPT !.status = "running", !.name = name,
                                                 !.input = input, !.provenance = prov]]
    /\ LogEvent(r, "run.started", NULL)
    /\ UNCHANGED <<steps, holds>>

SetRunOutput(r, v) ==
    /\ RunExists(r)
    /\ runs' = [runs EXCEPT ![r].output = v]
    /\ UNCHANGED <<workflows, steps, events, holds>>

SetRunInput(r, v) ==
    /\ RunExists(r)
    /\ runs' = [runs EXCEPT ![r].input = v]
    /\ UNCHANGED <<workflows, steps, events, holds>>

(* No guard on the status: any run, running or not, is marked completed, and
   its steps are left as they are. *)
CompleteRun(r) ==
    /\ RunExists(r)
    /\ runs' = [runs EXCEPT ![r] = Stopped(@, "completed", NULL)]
    /\ LogEvent(r, "run.completed", NULL)
    /\ UNCHANGED <<workflows, steps, holds>>

(* Mutants of the cascade: status and message swapped, steps of any status. *)
CascadeSwapped(r) ==
    steps' = [s \in Step |->
                IF steps[s].run = r /\ steps[s].status = "running"
                THEN Stopped(steps[s], "run failed", "failed")
                ELSE steps[s]]
CascadeToAllSteps(r) ==
    steps' = [s \in Step |->
                IF steps[s].run = r THEN Stopped(steps[s], "failed", "run failed") ELSE steps[s]]

(* Steps still running fail with their run; no step.failed event is written. *)
CascadeFailure(r) ==
    steps' = [s \in Step |->
                IF steps[s].run = r /\ steps[s].status = "running"
                THEN Stopped(steps[s], "failed", "run failed")
                ELSE steps[s]]

(* Mutant: the event of complete_run, copied. *)
FailRunLoggedAsCompleted(r, e) ==
    /\ RunExists(r)
    /\ runs' = [runs EXCEPT ![r] = Stopped(@, "failed", e)]
    /\ CascadeFailure(r)
    /\ LogEvent(r, "run.completed", NULL)
    /\ UNCHANGED <<workflows, holds>>

FailRun(r, e) ==
    /\ RunExists(r)
    /\ runs' = [runs EXCEPT ![r] = Stopped(@, "failed", e)]
    /\ CascadeFailure(r)
    /\ LogEvent(r, "run.failed", NULL)
    /\ UNCHANGED <<workflows, holds>>

ResumeRun(r) ==
    /\ RunExists(r)
    /\ runs' = [runs EXCEPT ![r] = Restarted(@)]
    /\ LogEvent(r, "run.resumed", NULL)
    /\ UNCHANGED <<workflows, steps, holds>>

-----------------------------------------------------------------------------
(* begin_step: an action per outcome.  The client is idle before it, and keeps
   the decision it is answered with. *)

Receive(c, kind, r, k, h, s, output) ==
    /\ holds[c] = NULL
    /\ holds' = [holds EXCEPT ![c] = [kind |-> kind, run |-> r, key |-> k, hash |-> h,
                                      step |-> s, output |-> output]]

(* Mutant: the row is inserted without the lookup. *)
BeginNewStepBlindly(c, r, k, h, s) ==
    /\ RunExists(r)
    /\ ~StepExists(s)
    /\ steps' = [steps EXCEPT ![s] = [NoStep EXCEPT !.status = "running", !.run = r,
                                                    !.key = k, !.hash = h]]
    /\ LogEvent(r, "step.started", s)
    /\ Receive(c, "run", r, k, h, s, NULL)
    /\ UNCHANGED <<workflows, runs>>

BeginNewStep(c, r, k, h, s) ==
    /\ RunExists(r)
    /\ StepsAt(r, k) = {}
    /\ ~StepExists(s)
    /\ steps' = [steps EXCEPT ![s] = [NoStep EXCEPT !.status = "running", !.run = r,
                                                    !.key = k, !.hash = h]]
    /\ LogEvent(r, "step.started", s)
    /\ Receive(c, "run", r, k, h, s, NULL)
    /\ UNCHANGED <<workflows, runs>>

BeginRunningStep(c, r, k, h, s) ==
    /\ s \in StepsAt(r, k)
    /\ steps[s].hash = h
    /\ steps[s].status = "running"
    /\ Receive(c, "run", r, k, h, s, NULL)
    /\ UNCHANGED tables

(* Mutants: running steps are restarted too; the restart writes no event. *)
RetryUnfinishedStep(c, r, k, h, s) ==
    /\ s \in StepsAt(r, k)
    /\ steps[s].hash = h
    /\ steps[s].status # "completed"
    /\ steps' = [steps EXCEPT ![s] = Restarted(@)]
    /\ LogEvent(r, "step.started", s)
    /\ Receive(c, "run", r, k, h, s, NULL)
    /\ UNCHANGED <<workflows, runs>>
RetryFailedStepSilently(c, r, k, h, s) ==
    /\ s \in StepsAt(r, k)
    /\ steps[s].hash = h
    /\ steps[s].status = "failed"
    /\ steps' = [steps EXCEPT ![s] = Restarted(@)]
    /\ Receive(c, "run", r, k, h, s, NULL)
    /\ UNCHANGED <<workflows, runs, events>>

RetryFailedStep(c, r, k, h, s) ==
    /\ s \in StepsAt(r, k)
    /\ steps[s].hash = h
    /\ steps[s].status = "failed"
    /\ steps' = [steps EXCEPT ![s] = Restarted(@)]
    /\ LogEvent(r, "step.started", s)
    /\ Receive(c, "run", r, k, h, s, NULL)
    /\ UNCHANGED <<workflows, runs>>

ReuseStep(c, r, k, h, s) ==
    /\ s \in StepsAt(r, k)
    /\ steps[s].hash = h
    /\ steps[s].status = "completed"
    /\ steps[s].output # NULL
    /\ Receive(c, "reuse", r, k, h, s, steps[s].output)
    /\ UNCHANGED tables

(* What begin_step can do to the tables and answer for an existing or new row. *)
BeginStep(c, r, k, h, s) ==
    \/ BeginNewStep(c, r, k, h, s)
    \/ BeginRunningStep(c, r, k, h, s)
    \/ RetryFailedStep(c, r, k, h, s)
    \/ ReuseStep(c, r, k, h, s)

Release(c) ==
    /\ holds[c] # NULL
    /\ holds' = [holds EXCEPT ![c] = NULL]
    /\ UNCHANGED tables

(* The answer to complete_step may be lost on its way to the client. *)
Answer(c, lost) ==
    holds' = [holds EXCEPT ![c] = IF lost THEN [@ EXCEPT !.kind = "unsure"] ELSE NULL]

(* complete_step checks that the step exists, not what status it or its run has. *)
CompleteStep(c, v, lost) ==
    /\ holds[c] # NULL /\ holds[c].kind = "run"
    /\ LET s == holds[c].step IN
        /\ StepExists(s)
        /\ steps' = [steps EXCEPT ![s] = [Stopped(@, "completed", NULL) EXCEPT !.output = v]]
        /\ LogEvent(steps[s].run, "step.completed", s)
    /\ Answer(c, lost)
    /\ UNCHANGED <<workflows, runs>>

(* fail_step, like complete_step, overwrites whatever status it finds.  The SDKs
   send it for any error of the step, a failed or unanswered complete_step
   included. *)
FailStep(c, e) ==
    /\ holds[c] # NULL /\ holds[c].kind \in {"run", "unsure"}
    /\ LET s == holds[c].step IN
        /\ StepExists(s)
        /\ steps' = [steps EXCEPT ![s] = Stopped(@, "failed", e)]
        /\ LogEvent(steps[s].run, "step.failed", s)
    /\ holds' = [holds EXCEPT ![c] = NULL]
    /\ UNCHANGED <<workflows, runs>>

-----------------------------------------------------------------------------
RunOperation(r) ==
    \/ \E n \in Name, i \in Value \cup {NULL}, p \in Provenance \cup {NULL} :
            CreateRun(r, n, i, p)
    \/ \E v \in Value : SetRunOutput(r, v) \/ SetRunInput(r, v)
    \/ CompleteRun(r)
    \/ \E e \in ErrorText : FailRun(r, e)
    \/ ResumeRun(r)

StepOperation(c) ==
    \/ \E r \in Run, k \in Key, h \in Hash, s \in Step : BeginStep(c, r, k, h, s)
    \/ \E v \in Value, lost \in BOOLEAN : CompleteStep(c, v, lost)
    \/ \E e \in ErrorText : FailStep(c, e)
    \/ Release(c)

Next ==
    \/ \E r \in Run : RunOperation(r)
    \/ \E c \in Client : StepOperation(c)

Spec == Init /\ [][Next]_vars

-----------------------------------------------------------------------------
(* Properties. *)

(* A run has at most one step per key.  No unique index enforces this: it rests
   on begin_step looking the key up in the transaction that inserts the row. *)
OneStepPerKey ==
    \A s, t \in Step :
        /\ StepExists(s) /\ StepExists(t)
        /\ steps[s].run = steps[t].run /\ steps[s].key = steps[t].key
        => s = t

(* Status, finished_at, error and output of a row agree, whatever order its
   updates came in: only a stopped row is finished, only a failed one carries an
   error, and a completed step has the output begin_step will hand out again. *)
RowsCoherent ==
    /\ \A r \in Run :
        /\ runs[r].finished = TRUE <=> runs[r].status \in {"completed", "failed"}
        /\ runs[r].error # NULL <=> runs[r].status = "failed"
    /\ \A s \in Step :
        /\ steps[s].finished = TRUE <=> steps[s].status \in {"completed", "failed"}
        /\ steps[s].error # NULL <=> steps[s].status = "failed"
        /\ steps[s].status = "completed" => steps[s].output # NULL

(* Steps belong to runs that exist. *)
StepsHaveRuns == \A s \in Step : StepExists(s) => steps[s].run \in Run /\ RunExists(steps[s].run)

(* A journal tells only of steps of its own run. *)
JournalIsLocal ==
    \A r \in Run : \A i \in 1..Len(events[r]) :
        LET s == events[r][i].step IN s # NULL => StepExists(s) /\ steps[s].run = r

(* The status a journal says its run, or its step s, was left in.  A failed run
   fails the steps it finds running without an event for each. *)
StatusOfRunEvent(type) ==
    CASE type = "run.completed" -> "completed"
      [] type = "run.failed"    -> "failed"
      [] OTHER                  -> "running"

StatusOfStepEvent(log, i) ==
    CASE log[i].type = "step.completed" -> "completed"
      [] log[i].type = "step.failed"    -> "failed"
      [] OTHER -> IF \E j \in i+1..Len(log) : log[j].type = "run.failed"
                  THEN "failed" ELSE "running"

IsLastRunEvent(log, i) ==
    /\ log[i].step = NULL
    /\ \A j \in i+1..Len(log) : log[j].step # NULL

IsLastStepEvent(log, s, i) ==
    /\ log[i].step = s
    /\ \A j \in i+1..Len(log) : log[j].step # s

(* The events table is a journal of the other tables: reading only the events of
   a run gives back its status and that of each of its steps.  `qt show' prints
   both and they never contradict each other. *)
JournalExplainsRuns ==
    \A r \in Run : RunExists(r) =>
        \E i \in 1..Len(events[r]) :
            /\ IsLastRunEvent(events[r], i)
            /\ runs[r].status = StatusOfRunEvent(events[r][i].type)

JournalExplainsSteps ==
    \A s \in Step : StepExists(s) =>
        LET log == events[steps[s].run]
        IN  \E i \in 1..Len(log) :
                /\ IsLastStepEvent(log, s, i)
                /\ steps[s].status = StatusOfStepEvent(log, i)

(* Between two starts of a step its journal records a failure, of the step or of
   its run: begin_step restarts nothing that is running or completed. *)
RetryOnlyAfterFailure ==
    \A r \in Run : \A i, j \in 1..Len(events[r]) :
        /\ i < j
        /\ events[r][i].type = "step.started" /\ events[r][j].type = "step.started"
        /\ events[r][i].step = events[r][j].step
        => \E m \in i+1..j-1 :
             \/ events[r][m].type = "run.failed"
             \/ events[r][m].type = "step.failed" /\ events[r][m].step = events[r][i].step

(* Whatever a client was told to run or to reuse is, for as long as it holds the
   decision, a step of the run, key and input hash it asked for. *)
DecisionMatchesRequest ==
    \A c \in Client : holds[c] # NULL =>
        LET d == holds[c]
        IN  /\ StepExists(d.step)
            /\ steps[d.step].run = d.run /\ steps[d.step].key = d.key
            /\ steps[d.step].hash = d.hash

(* No operation changes what a later resume relies on: which runs and steps
   there are, a run's workflow and provenance, a step's run, key and input hash. *)
IdentityIsPermanent ==
    [][/\ \A r \in Run : RunExists(r) =>
            /\ RunExists(r)'
            /\ runs'[r].name = runs[r].name /\ runs'[r].provenance = runs[r].provenance
       /\ \A s \in Step : StepExists(s) =>
            /\ StepExists(s)'
            /\ steps'[s].run = steps[s].run /\ steps'[s].key = steps[s].key
            /\ steps'[s].hash = steps[s].hash]_vars

(* Nothing happens to a step off the record: a transaction that changes a step's
   row appends exactly one event, to the journal of that step's run, and old
   events are never rewritten. *)
EveryStepChangeIsLogged ==
    [][/\ \A s \in Step : steps'[s] # steps[s] =>
            Len(events'[steps'[s].run]) = Len(events[steps'[s].run]) + 1
       /\ \A r \in Run : \A i \in 1..Len(events[r]) : events'[r][i] = events[r][i]
       /\ \A r, q \in Run : events'[r] # events[r] /\ events'[q] # events[q] => r = q]_vars
=============================================================================
