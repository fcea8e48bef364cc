--------------------------- MODULE RunStoreProofs ---------------------------
(***************************************************************************)
(* Proofs about RunStore: type correctness, the safety invariants, what    *)
(* the journal tells, and that any run of it implements DurableSteps, for  *)
(* any number of runs, steps, keys and clients.                            *)
(***************************************************************************)
EXTENDS RunStoreRefinement, TLAPS

USE DEF RunStatus, StepStatus, StoredError

-----------------------------------------------------------------------------
(* Rows: what the updates of a row return. *)

LEMMA RunRowUpdates ==
    ASSUME NEW row \in RunRow
    PROVE  /\ \A st \in RunStatus, e \in ErrorText \cup {NULL} : Stopped(row, st, e) \in RunRow
           /\ Restarted(row) \in RunRow
           /\ \A v \in Value : [row EXCEPT !.output = v] \in RunRow
           /\ \A v \in Value : [row EXCEPT !.input = v] \in RunRow
  BY DEF RunRow, Stopped, Restarted

LEMMA NewRunRow ==
    ASSUME NEW n \in Name, NEW i \in Value \cup {NULL}, NEW p \in Provenance \cup {NULL}
    PROVE  [NoRun EXCEPT !.status = "running", !.name = n, !.input = i, !.provenance = p]
                \in RunRow
  BY DEF RunRow, NoRun

LEMMA StepRowUpdates ==
    ASSUME NEW row \in StepRow
    PROVE  /\ \A st \in StepStatus, e \in StoredError \cup {NULL} : Stopped(row, st, e) \in StepRow
           /\ Restarted(row) \in StepRow
           /\ \A v \in Value : [row EXCEPT !.output = v] \in StepRow
  <1>1. \A st \in StepStatus, e \in StoredError \cup {NULL} : Stopped(row, st, e) \in StepRow
    BY DEF StepRow, Stopped
  <1>2. Restarted(row) \in StepRow
    BY DEF StepRow, Restarted
  <1>3. \A v \in Value : [row EXCEPT !.output = v] \in StepRow
    BY DEF StepRow
  <1>4. QED
    BY <1>1, <1>2, <1>3

LEMMA NewStepRow ==
    ASSUME NEW r \in Run, NEW k \in Key, NEW h \in Hash
    PROVE  [NoStep EXCEPT !.status = "running", !.run = r, !.key = k, !.hash = h] \in StepRow
  BY DEF StepRow, NoStep

(* The fields of an updated row. *)
LEMMA CompletedRowFields ==
    ASSUME NEW row \in StepRow, NEW v
    PROVE  LET new == [Stopped(row, "completed", NULL) EXCEPT !.output = v]
           IN  /\ new.status = "completed" /\ new.finished = TRUE
               /\ new.error = NULL /\ new.output = v
               /\ new.run = row.run /\ new.key = row.key /\ new.hash = row.hash
  BY DEF StepRow, Stopped

LEMMA FailedRowFields ==
    ASSUME NEW row \in StepRow, NEW e
    PROVE  LET new == Stopped(row, "failed", e)
           IN  /\ new.status = "failed"
               /\ new.run = row.run /\ new.key = row.key /\ new.hash = row.hash
  BY DEF StepRow, Stopped

LEMMA NewStepFields ==
    ASSUME NEW r, NEW k, NEW h
    PROVE  LET new == [NoStep EXCEPT !.status = "running", !.run = r, !.key = k, !.hash = h]
           IN  /\ new.status = "running" /\ new.finished = FALSE
               /\ new.error = NULL /\ new.output = NULL
               /\ new.run = r /\ new.key = k /\ new.hash = h
  BY DEF NoStep

(* Appending to one journal keeps all of them sequences of events. *)
LEMMA LogRunEventType ==
    ASSUME NEW r \in Run, NEW type \in RunEventType, TypeOK, LogEvent(r, type, NULL)
    PROVE  events' \in [Run -> Seq(Event)]
  <1>1. [type |-> type, step |-> NULL] \in Event
    BY DEF Event
  <1>2. QED
    BY <1>1 DEF LogEvent, TypeOK

LEMMA LogStepEventType ==
    ASSUME NEW r \in Run, NEW type \in StepEventType, NEW s \in Step, TypeOK,
           LogEvent(r, type, s)
    PROVE  events' \in [Run -> Seq(Event)]
  <1>1. [type |-> type, step |-> s] \in Event
    BY DEF Event
  <1>2. QED
    BY <1>1 DEF LogEvent, TypeOK

-----------------------------------------------------------------------------
(* Type correctness.  That a step's run is a run is part of the induction: the
   journal complete_step writes to is the one of the step's run. *)

TypeInv == TypeOK /\ StepsHaveRuns

(* Each operation of a run keeps every variable in its type. *)
LEMMA RunOperationType ==
    ASSUME TypeOK, NEW r \in Run, RunOperation(r)
    PROVE  TypeOK'
  <1>0. runs[r] \in RunRow
    BY DEF TypeOK
  <1>1. ASSUME NEW n \in Name, NEW i \in Value \cup {NULL}, NEW p \in Provenance \cup {NULL},
               CreateRun(r, n, i, p)
        PROVE  TypeOK'
    <2>1. events' \in [Run -> Seq(Event)]
      BY <1>1, LogRunEventType DEF CreateRun, RunEventType
    <2>2. runs' \in [Run -> RunRow]
      BY <1>1, NewRunRow DEF CreateRun, TypeOK
    <2>3. QED
      BY <1>1, <2>1, <2>2 DEF CreateRun, TypeOK
  <1>2. ASSUME NEW v \in Value, SetRunOutput(r, v) \/ SetRunInput(r, v)
        PROVE  TypeOK'
    <2>1. runs' \in [Run -> RunRow]
      BY <1>0, <1>2, RunRowUpdates DEF SetRunOutput, SetRunInput, TypeOK
    <2>2. QED
      BY <1>2, <2>1 DEF SetRunOutput, SetRunInput, TypeOK
  <1>3. CASE CompleteRun(r)
    <2>1. events' \in [Run -> Seq(Event)]
      BY <1>3, LogRunEventType DEF CompleteRun, RunEventType
    <2>2. runs' \in [Run -> RunRow]
      BY <1>0, <1>3, RunRowUpdates DEF CompleteRun, TypeOK
    <2>3. QED
      BY <1>3, <2>1, <2>2 DEF CompleteRun, TypeOK
  <1>4. ASSUME NEW e \in ErrorText, FailRun(r, e)
        PROVE  TypeOK'
    <2>1. events' \in [Run -> Seq(Event)]
      BY <1>4, LogRunEventType DEF FailRun, RunEventType
    <2>2. steps' \in [Step -> StepRow]
      <3>1. ASSUME NEW s \in Step PROVE Stopped(steps[s], "failed", "run failed") \in StepRow
        BY StepRowUpdates DEF TypeOK
      <3>2. QED
        BY <1>4, <3>1 DEF FailRun, CascadeFailure, TypeOK
    <2>3. runs' \in [Run -> RunRow]
      BY <1>0, <1>4, RunRowUpdates DEF FailRun, TypeOK
    <2>4. QED
      BY <1>4, <2>1, <2>2, <2>3 DEF FailRun, TypeOK
  <1>5. CASE ResumeRun(r)
    <2>1. events' \in [Run -> Seq(Event)]
      BY <1>5, LogRunEventType DEF ResumeRun, RunEventType
    <2>2. runs' \in [Run -> RunRow]
      BY <1>0, <1>5, RunRowUpdates DEF ResumeRun, TypeOK
    <2>3. QED
      BY <1>5, <2>1, <2>2 DEF ResumeRun, TypeOK
  <1>6. QED
    BY <1>1, <1>2, <1>3, <1>4, <1>5 DEF RunOperation

(* A client that gets a decision remembers a well-formed one. *)
LEMMA ReceiveType ==
    ASSUME TypeOK, NEW c \in Client, NEW kind \in {"run", "reuse"}, NEW r \in Run,
           NEW k \in Key, NEW h \in Hash, NEW s \in Step, NEW v \in Value \cup {NULL},
           Receive(c, kind, r, k, h, s, v)
    PROVE  holds' \in [Client -> Decision \cup {NULL}]
  BY DEF TypeOK, Receive, Decision

(* Each operation of a client keeps every variable in its type. *)
LEMMA StepOperationType ==
    ASSUME TypeInv, NEW c \in Client, StepOperation(c)
    PROVE  TypeOK'
  <1> USE DEF TypeInv
  <1>1. ASSUME NEW r \in Run, NEW k \in Key, NEW h \in Hash, NEW s \in Step,
               BeginStep(c, r, k, h, s)
        PROVE  TypeOK'
    <2>0. steps[s] \in StepRow
      BY DEF TypeOK
    <2>1. CASE BeginNewStep(c, r, k, h, s)
      <3>1. events' \in [Run -> Seq(Event)]
        BY <2>1, LogStepEventType DEF BeginNewStep, StepEventType
      <3>2. steps' \in [Step -> StepRow]
        BY <2>1, NewStepRow DEF BeginNewStep, TypeOK
      <3>3. holds' \in [Client -> Decision \cup {NULL}]
        BY <2>1, ReceiveType DEF BeginNewStep
      <3>4. QED
        BY <2>1, <3>1, <3>2, <3>3 DEF BeginNewStep, TypeOK
    <2>2. CASE BeginRunningStep(c, r, k, h, s)
      <3>1. holds' \in [Client -> Decision \cup {NULL}]
        BY <2>2, ReceiveType DEF BeginRunningStep
      <3>2. QED
        BY <2>2, <3>1 DEF BeginRunningStep, tables, TypeOK
    <2>3. CASE RetryFailedStep(c, r, k, h, s)
      <3>1. events' \in [Run -> Seq(Event)]
        BY <2>3, LogStepEventType DEF RetryFailedStep, StepEventType
      <3>2. steps' \in [Step -> StepRow]
        BY <2>0, <2>3, StepRowUpdates DEF RetryFailedStep, TypeOK
      <3>3. holds' \in [Client -> Decision \cup {NULL}]
        BY <2>3, ReceiveType DEF RetryFailedStep
      <3>4. QED
        BY <2>3, <3>1, <3>2, <3>3 DEF RetryFailedStep, TypeOK
    <2>4. CASE ReuseStep(c, r, k, h, s)
      <3>1. steps[s].output \in Value \cup {NULL}
        BY <2>0 DEF StepRow
      <3>2. holds' \in [Client -> Decision \cup {NULL}]
        BY <2>4, <3>1, ReceiveType DEF ReuseStep
      <3>3. QED
        BY <2>4, <3>2 DEF ReuseStep, tables, TypeOK
    <2>5. QED
      BY <1>1, <2>1, <2>2, <2>3, <2>4 DEF BeginStep
  <1>2. ASSUME NEW v \in Value, NEW lost \in BOOLEAN, CompleteStep(c, v, lost)
        PROVE  TypeOK'
    <2> DEFINE s == holds[c].step
    <2>1. /\ s \in Step /\ StepExists(s) /\ steps[s].run \in Run
          /\ steps[s] \in StepRow /\ holds[c] \in Decision
      BY <1>2 DEF CompleteStep, Decision, StepsHaveRuns, TypeOK
    <2>2. holds' \in [Client -> Decision \cup {NULL}]
      <3>1. [holds[c] EXCEPT !.kind = "unsure"] \in Decision
        BY <2>1 DEF Decision
      <3>2. QED
        BY <1>2, <3>1 DEF CompleteStep, Answer, TypeOK
    <2>3. steps' \in [Step -> StepRow]
      <3>1. [Stopped(steps[s], "completed", NULL) EXCEPT !.output = v] \in StepRow
        <4>1. Stopped(steps[s], "completed", NULL) \in StepRow
          BY <2>1, StepRowUpdates
        <4>2. QED
          BY <4>1, StepRowUpdates
      <3>2. QED
        BY <1>2, <2>1, <3>1 DEF CompleteStep, TypeOK
    <2>4. events' \in [Run -> Seq(Event)]
      BY <1>2, <2>1, LogStepEventType DEF CompleteStep, StepEventType
    <2>5. QED
      BY <1>2, <2>2, <2>3, <2>4 DEF CompleteStep, TypeOK
  <1>3. ASSUME NEW e \in ErrorText, FailStep(c, e)
        PROVE  TypeOK'
    <2> DEFINE s == holds[c].step
    <2>1. /\ s \in Step /\ StepExists(s) /\ steps[s].run \in Run
          /\ steps[s] \in StepRow
      BY <1>3 DEF FailStep, Decision, StepsHaveRuns, TypeOK
    <2>2. steps' \in [Step -> StepRow]
      BY <1>3, <2>1, StepRowUpdates DEF FailStep, TypeOK
    <2>3. events' \in [Run -> Seq(Event)]
      BY <1>3, <2>1, LogStepEventType DEF FailStep, StepEventType
    <2>4. holds' \in [Client -> Decision \cup {NULL}]
      BY <1>3 DEF FailStep, TypeOK
    <2>5. QED
      BY <1>3, <2>2, <2>3, <2>4 DEF FailStep, TypeOK
  <1>4. CASE Release(c)
    BY <1>4 DEF Release, tables, TypeOK
  <1>5. QED
    BY <1>1, <1>2, <1>3, <1>4 DEF StepOperation

-----------------------------------------------------------------------------
(* What one step of the system can do to the set of rows and their identity. *)

PermanentRows ==
    /\ \A r \in Run : RunExists(r) =>
         /\ RunExists(r)'
         /\ runs'[r].name = runs[r].name /\ runs'[r].provenance = runs[r].provenance
    /\ \A s \in Step : StepExists(s) =>
         /\ StepExists(s)'
         /\ steps'[s].run = steps[s].run /\ steps'[s].key = steps[s].key
         /\ steps'[s].hash = steps[s].hash

(* The only operation that adds a step, and what it adds. *)
NewStepRowsOnly ==
    \A s \in Step : StepExists(s)' =>
        \/ StepExists(s)
        \/ \E c \in Client, r \in Run, k \in Key, h \in Hash : BeginNewStep(c, r, k, h, s)

(* Rewriting one row of a table so that it keeps its identity. *)
LEMMA OneRunRewritten ==
    ASSUME TypeOK, NEW r \in Run, NEW row, runs' = [runs EXCEPT ![r] = row],
           RunExists(r) => /\ row.status # "absent"
                           /\ row.name = runs[r].name /\ row.provenance = runs[r].provenance
    PROVE  \A q \in Run : RunExists(q) =>
             /\ RunExists(q)'
             /\ runs'[q].name = runs[q].name /\ runs'[q].provenance = runs[q].provenance
  BY DEF TypeOK, RunExists

LEMMA OneStepRewritten ==
    ASSUME TypeOK, NEW s \in Step, NEW row, steps' = [steps EXCEPT ![s] = row],
           row.status # "absent",
           StepExists(s) => /\ row.run = steps[s].run /\ row.key = steps[s].key
                            /\ row.hash = steps[s].hash
    PROVE  /\ \A t \in Step : StepExists(t) =>
                /\ StepExists(t)'
                /\ steps'[t].run = steps[t].run /\ steps'[t].key = steps[t].key
                /\ steps'[t].hash = steps[t].hash
           /\ \A t \in Step : StepExists(t)' => StepExists(t) \/ t = s
  BY DEF TypeOK, StepExists

LEMMA RunOperationRows ==
    ASSUME TypeInv, NEW r \in Run, RunOperation(r)
    PROVE  PermanentRows /\ (\A s \in Step : StepExists(s)' => StepExists(s))
  <1> DEFINE Goal == PermanentRows /\ (\A s \in Step : StepExists(s)' => StepExists(s))
  <1>0. TypeOK /\ runs[r] \in RunRow
    BY DEF TypeInv, TypeOK
  <1>1. ASSUME NEW n \in Name, NEW i \in Value \cup {NULL}, NEW p \in Provenance \cup {NULL},
               CreateRun(r, n, i, p)
        PROVE  Goal
    BY <1>0, <1>1, OneRunRewritten DEF CreateRun, PermanentRows, StepExists
  <1>2. ASSUME NEW v \in Value, SetRunOutput(r, v) \/ SetRunInput(r, v)
        PROVE  Goal
    <2>1. PICK row : /\ runs' = [runs EXCEPT ![r] = row]
                     /\ row = [runs[r] EXCEPT !.output = v] \/ row = [runs[r] EXCEPT !.input = v]
      BY <1>2 DEF SetRunOutput, SetRunInput
    <2>2. /\ row.status = runs[r].status /\ row.name = runs[r].name
          /\ row.provenance = runs[r].provenance
      BY <1>0, <2>1 DEF RunRow
    <2>3. steps' = steps
      BY <1>2 DEF SetRunOutput, SetRunInput
    <2>4. RunExists(r) => row.status # "absent"
      BY <2>2 DEF RunExists
    <2>5. QED
      BY <1>0, <2>1, <2>2, <2>3, <2>4, OneRunRewritten DEF PermanentRows, StepExists
  <1>3. CASE CompleteRun(r)
    <2> DEFINE row == Stopped(runs[r], "completed", NULL)
    <2>1. runs' = [runs EXCEPT ![r] = row] /\ steps' = steps
      BY <1>3 DEF CompleteRun
    <2>2. /\ row.status # "absent" /\ row.name = runs[r].name
          /\ row.provenance = runs[r].provenance
      BY <1>0 DEF Stopped, Restarted, RunRow
    <2> HIDE DEF row
    <2>3. QED
      BY <1>0, <2>1, <2>2, OneRunRewritten DEF PermanentRows, StepExists
  <1>4. ASSUME NEW e \in ErrorText, FailRun(r, e)
        PROVE  Goal
    <2> DEFINE row == Stopped(runs[r], "failed", e)
    <2>1. runs' = [runs EXCEPT ![r] = row]
      BY <1>4 DEF FailRun
    <2>2. \A s \in Step : \/ steps'[s] = steps[s]
                          \/ /\ steps[s].status = "running"
                             /\ steps'[s] = Stopped(steps[s], "failed", "run failed")
      BY <1>4 DEF FailRun, CascadeFailure
    <2>3. \A s \in Step : steps[s] \in StepRow
      BY <1>0 DEF TypeOK
    <2>4. \A s \in Step : /\ StepExists(s)' <=> StepExists(s)
                          /\ steps'[s].run = steps[s].run /\ steps'[s].key = steps[s].key
                          /\ steps'[s].hash = steps[s].hash
      <3> TAKE s \in Step
      <3>1. CASE steps'[s] = steps[s]
        BY <3>1 DEF StepExists
      <3>2. CASE /\ steps[s].status = "running"
                 /\ steps'[s] = Stopped(steps[s], "failed", "run failed")
        BY <2>3, <3>2 DEF StepExists, Stopped, StepRow
      <3>3. QED
        BY <2>2, <3>1, <3>2
    <2>5. /\ row.status # "absent" /\ row.name = runs[r].name
          /\ row.provenance = runs[r].provenance
      BY <1>0 DEF Stopped, Restarted, RunRow
    <2> HIDE DEF row
    <2>6. QED
      BY <1>0, <2>1, <2>4, <2>5, OneRunRewritten DEF PermanentRows
  <1>5. CASE ResumeRun(r)
    <2> DEFINE row == Restarted(runs[r])
    <2>1. runs' = [runs EXCEPT ![r] = row] /\ steps' = steps
      BY <1>5 DEF ResumeRun
    <2>2. /\ row.status # "absent" /\ row.name = runs[r].name
          /\ row.provenance = runs[r].provenance
      BY <1>0 DEF Stopped, Restarted, RunRow
    <2> HIDE DEF row
    <2>3. QED
      BY <1>0, <2>1, <2>2, OneRunRewritten DEF PermanentRows, StepExists
  <1>6. QED
    BY <1>1, <1>2, <1>3, <1>4, <1>5 DEF RunOperation

LEMMA StepOperationRows ==
    ASSUME TypeInv, NEW c \in Client, StepOperation(c)
    PROVE  PermanentRows /\ NewStepRowsOnly
  <1>0. TypeOK /\ \A s \in Step : steps[s] \in StepRow
    BY DEF TypeInv, TypeOK
  <1>1. ASSUME NEW r \in Run, NEW k \in Key, NEW h \in Hash, NEW s \in Step,
               BeginStep(c, r, k, h, s)
        PROVE  PermanentRows /\ NewStepRowsOnly
    <2>1. CASE BeginNewStep(c, r, k, h, s)
      <3>1. ~StepExists(s) /\ runs' = runs
        BY <2>1 DEF BeginNewStep
      <3>2. PICK row : /\ row.status # "absent"
                       /\ steps' = [steps EXCEPT ![s] = row]
        BY <2>1, NewStepFields DEF BeginNewStep
      <3>3. PermanentRows /\ \A t \in Step : StepExists(t)' => StepExists(t) \/ t = s
        BY <1>0, <3>1, <3>2, OneStepRewritten DEF PermanentRows, RunExists
      <3>4. QED
        BY <2>1, <3>3 DEF NewStepRowsOnly
    <2>2. CASE RetryFailedStep(c, r, k, h, s)
      <3> DEFINE row == Restarted(steps[s])
      <3>1. StepExists(s) /\ runs' = runs /\ steps' = [steps EXCEPT ![s] = row]
        BY <2>2 DEF RetryFailedStep, StepsAt
      <3>2. /\ row.status # "absent" /\ row.run = steps[s].run /\ row.key = steps[s].key
            /\ row.hash = steps[s].hash
        BY <1>0 DEF Restarted, StepRow
      <3> HIDE DEF row
      <3>3. QED
        BY <1>0, <3>1, <3>2, OneStepRewritten
           DEF PermanentRows, RunExists, NewStepRowsOnly
    <2>3. CASE BeginRunningStep(c, r, k, h, s) \/ ReuseStep(c, r, k, h, s)
      <3>1. runs' = runs /\ steps' = steps
        BY <2>3 DEF BeginRunningStep, ReuseStep, tables
      <3>2. QED
        BY <3>1 DEF PermanentRows, NewStepRowsOnly, RunExists, StepExists
    <2>4. QED
      BY <1>1, <2>1, <2>2, <2>3 DEF BeginStep
  <1>2. ASSUME NEW v \in Value, NEW lost \in BOOLEAN, CompleteStep(c, v, lost)
        PROVE  PermanentRows /\ NewStepRowsOnly
    <2> DEFINE s == holds[c].step
               new == [Stopped(steps[s], "completed", NULL) EXCEPT !.output = v]
    <2>1. /\ s \in Step /\ StepExists(s) /\ runs' = runs
          /\ steps' = [steps EXCEPT ![s] = new]
      BY <1>0, <1>2 DEF CompleteStep, Decision, TypeOK
    <2>2. /\ new.status # "absent" /\ new.run = steps[s].run /\ new.key = steps[s].key
          /\ new.hash = steps[s].hash
      BY <1>0, <2>1, CompletedRowFields
    <2> HIDE DEF new, s
    <2>3. QED
      BY <1>0, <2>1, <2>2, OneStepRewritten DEF PermanentRows, RunExists, NewStepRowsOnly
  <1>3. ASSUME NEW e \in ErrorText, FailStep(c, e)
        PROVE  PermanentRows /\ NewStepRowsOnly
    <2> DEFINE s == holds[c].step
               row == Stopped(steps[s], "failed", e)
    <2>1. /\ s \in Step /\ StepExists(s) /\ runs' = runs
          /\ steps' = [steps EXCEPT ![s] = row]
      BY <1>0, <1>3 DEF FailStep, Decision, TypeOK
    <2>2. /\ row.status # "absent" /\ row.run = steps[s].run /\ row.key = steps[s].key
          /\ row.hash = steps[s].hash
      BY <1>0, <2>1, FailedRowFields
    <2> HIDE DEF row, s
    <2>3. QED
      BY <1>0, <2>1, <2>2, OneStepRewritten DEF PermanentRows, RunExists, NewStepRowsOnly
  <1>4. CASE Release(c)
    BY <1>4 DEF Release, tables, PermanentRows, NewStepRowsOnly, RunExists, StepExists
  <1>5. QED
    BY <1>1, <1>2, <1>3, <1>4 DEF StepOperation

LEMMA RowsOfNext ==
    ASSUME TypeInv, [Next]_vars
    PROVE  PermanentRows /\ NewStepRowsOnly
  <1>1. CASE UNCHANGED vars
    BY <1>1 DEF vars, PermanentRows, NewStepRowsOnly, RunExists, StepExists
  <1>2. ASSUME NEW r \in Run, RunOperation(r)
        PROVE  PermanentRows /\ NewStepRowsOnly
    BY <1>2, RunOperationRows DEF NewStepRowsOnly
  <1>3. ASSUME NEW c \in Client, StepOperation(c)
        PROVE  PermanentRows /\ NewStepRowsOnly
    BY <1>3, StepOperationRows
  <1>4. QED
    BY <1>1, <1>2, <1>3 DEF Next

-----------------------------------------------------------------------------
LEMMA TypeInvInit == Init => TypeInv
  <1>1. NoRun \in RunRow /\ NoStep \in StepRow
    BY DEF NoRun, NoStep, RunRow, StepRow
  <1>2. NoStep.status = "absent"
    BY DEF NoStep
  <1>3. QED
    BY <1>1, <1>2 DEF Init, TypeInv, TypeOK, StepsHaveRuns, StepExists

LEMMA TypeInvNext == TypeInv /\ [Next]_vars => TypeInv'
  <1> SUFFICES ASSUME TypeInv, [Next]_vars
               PROVE  TypeInv'
    OBVIOUS
  <1>0. TypeOK /\ StepsHaveRuns
    BY DEF TypeInv
  <1>1. TypeOK'
    <2>1. CASE UNCHANGED vars
      <3>1. UNCHANGED workflows /\ UNCHANGED runs /\ UNCHANGED steps /\ UNCHANGED events
            /\ UNCHANGED holds
        BY <2>1 DEF vars
      <3>2. QED
        BY <1>0, <3>1 DEF TypeOK
    <2>2. ASSUME NEW r \in Run, RunOperation(r)
          PROVE  TypeOK'
      BY <1>0, <2>2, RunOperationType
    <2>3. ASSUME NEW c \in Client, StepOperation(c)
          PROVE  TypeOK'
      BY <2>3, StepOperationType
    <2>4. QED
      BY <2>1, <2>2, <2>3 DEF Next
  <1>2. StepsHaveRuns'
    <2> SUFFICES ASSUME NEW s \in Step, StepExists(s)'
                 PROVE  steps'[s].run \in Run /\ runs'[steps'[s].run].status # "absent"
      BY DEF StepsHaveRuns, RunExists, StepExists
    <2>1. CASE StepExists(s)
      <3>1. steps'[s].run = steps[s].run /\ steps[s].run \in Run /\ RunExists(steps[s].run)
        BY <1>0, <2>1, RowsOfNext DEF PermanentRows, StepsHaveRuns
      <3>2. RunExists(steps[s].run)'
        BY <3>1, RowsOfNext DEF PermanentRows
      <3>3. QED
        BY <3>1, <3>2 DEF RunExists
    <2>2. ASSUME NEW c \in Client, NEW r \in Run, NEW k \in Key, NEW h \in Hash,
                 BeginNewStep(c, r, k, h, s)
          PROVE  steps'[s].run \in Run /\ runs'[steps'[s].run].status # "absent"
      <3>1. steps'[s].run = r
        BY <1>0, <2>2, NewStepFields DEF BeginNewStep, TypeOK
      <3>2. RunExists(r)'
        BY <2>2 DEF BeginNewStep, RunExists
      <3>3. QED
        BY <3>1, <3>2 DEF RunExists
    <2>3. QED
      BY <2>1, <2>2, RowsOfNext DEF NewStepRowsOnly
  <1>3. QED
    BY <1>1, <1>2 DEF TypeInv

(* Every table and every client's memory stays well-typed, and every step belongs
   to a run that exists. *)
THEOREM TypeCorrect == Spec => [](TypeOK /\ StepsHaveRuns)
  <1>1. TypeInv <=> TypeOK /\ StepsHaveRuns
    BY DEF TypeInv
  <1>2. QED
    BY <1>1, TypeInvInit, TypeInvNext, PTL DEF Spec

(* Resume can rely on what it reads: a run's workflow and provenance and a step's
   run, key and input hash never change, and no row disappears. *)
THEOREM IdentityPreserved == Spec => IdentityIsPermanent
  <1>1. TypeInv /\ [Next]_vars => [PermanentRows]_vars
    BY RowsOfNext
  <1>2. QED
    BY <1>1, TypeInvInit, TypeInvNext, PTL DEF Spec, IdentityIsPermanent, PermanentRows

-----------------------------------------------------------------------------
(* What becomes of each row in a step: the ways a row of steps is rewritten. *)

StepRowSteps ==
    \A s \in Step :
        \/ steps'[s] = steps[s]
        \/ \E r \in Run, k \in Key, h \in Hash :
             steps'[s] = [NoStep EXCEPT !.status = "running", !.run = r, !.key = k, !.hash = h]
        \/ steps'[s] = Restarted(steps[s])
        \/ \E e \in StoredError : steps'[s] = Stopped(steps[s], "failed", e)
        \/ \E v \in Value :
             steps'[s] = [Stopped(steps[s], "completed", NULL) EXCEPT !.output = v]

LEMMA StepRowsOfNext ==
    ASSUME TypeInv, [Next]_vars
    PROVE  StepRowSteps
  <1>0. TypeOK
    BY DEF TypeInv
  <1>1. CASE UNCHANGED steps
    BY <1>1 DEF StepRowSteps
  <1>2. ASSUME NEW r \in Run, RunOperation(r), ~UNCHANGED steps
        PROVE  StepRowSteps
    <2>1. CascadeFailure(r)
      BY <1>2 DEF RunOperation, CreateRun, SetRunOutput, SetRunInput, CompleteRun, FailRun,
                  ResumeRun
    <2>2. \A s \in Step : \/ steps'[s] = steps[s]
                          \/ steps'[s] = Stopped(steps[s], "failed", "run failed")
      BY <2>1 DEF CascadeFailure
    <2>3. QED
      BY <2>2 DEF StepRowSteps
  <1>3. ASSUME NEW c \in Client, StepOperation(c), ~UNCHANGED steps
        PROVE  StepRowSteps
    <2>1. ASSUME NEW r \in Run, NEW k \in Key, NEW h \in Hash, NEW s \in Step,
                 BeginStep(c, r, k, h, s)
          PROVE  StepRowSteps
      <3>1. CASE BeginNewStep(c, r, k, h, s)
        <4> DEFINE row == [NoStep EXCEPT !.status = "running", !.run = r, !.key = k, !.hash = h]
        <4>1. steps' = [steps EXCEPT ![s] = row]
          BY <3>1 DEF BeginNewStep
        <4>2. \A t \in Step : steps'[t] = steps[t] \/ steps'[t] = row
          BY <1>0, <4>1 DEF TypeOK
        <4>3. QED
          BY <4>2 DEF StepRowSteps
      <3>2. CASE RetryFailedStep(c, r, k, h, s)
        BY <1>0, <3>2 DEF RetryFailedStep, StepRowSteps, TypeOK
      <3>3. CASE BeginRunningStep(c, r, k, h, s) \/ ReuseStep(c, r, k, h, s)
        BY <1>3, <3>3 DEF BeginRunningStep, ReuseStep, tables
      <3>4. QED
        BY <2>1, <3>1, <3>2, <3>3 DEF BeginStep
    <2>2. ASSUME NEW v \in Value, NEW lost \in BOOLEAN, CompleteStep(c, v, lost)
          PROVE  StepRowSteps
      <3>1. PICK s : steps' = [steps EXCEPT
                        ![s] = [Stopped(steps[s], "completed", NULL) EXCEPT !.output = v]]
        BY <2>2 DEF CompleteStep
      <3>2. QED
        BY <1>0, <3>1 DEF StepRowSteps, TypeOK
    <2>3. ASSUME NEW e \in ErrorText, FailStep(c, e)
          PROVE  StepRowSteps
      <3>1. PICK s : steps' = [steps EXCEPT ![s] = Stopped(steps[s], "failed", e)]
        BY <2>3 DEF FailStep
      <3>2. QED
        BY <1>0, <3>1 DEF StepRowSteps, TypeOK
    <2>4. CASE Release(c)
      BY <1>3, <2>4 DEF Release, tables
    <2>5. QED
      BY <1>3, <2>1, <2>2, <2>3, <2>4 DEF StepOperation
  <1>4. QED
    BY <1>1, <1>2, <1>3 DEF Next, vars

RunRowSteps ==
    \A r \in Run :
        \/ runs'[r] = runs[r]
        \/ \E n \in Name, i \in Value \cup {NULL}, p \in Provenance \cup {NULL} :
             runs'[r] = [NoRun EXCEPT !.status = "running", !.name = n, !.input = i,
                                      !.provenance = p]
        \/ \E v \in Value : runs'[r] = [runs[r] EXCEPT !.output = v]
        \/ \E v \in Value : runs'[r] = [runs[r] EXCEPT !.input = v]
        \/ runs'[r] = Stopped(runs[r], "completed", NULL)
        \/ \E e \in ErrorText : runs'[r] = Stopped(runs[r], "failed", e)
        \/ runs'[r] = Restarted(runs[r])

LEMMA RunRowsOfNext ==
    ASSUME TypeInv, [Next]_vars
    PROVE  RunRowSteps
  <1>0. TypeOK
    BY DEF TypeInv
  <1>1. CASE UNCHANGED runs
    BY <1>1 DEF RunRowSteps
  <1>2. ASSUME NEW r \in Run, RunOperation(r)
        PROVE  RunRowSteps
    <2>1. ASSUME NEW n \in Name, NEW i \in Value \cup {NULL}, NEW p \in Provenance \cup {NULL},
                 CreateRun(r, n, i, p)
          PROVE  RunRowSteps
      BY <1>0, <2>1 DEF CreateRun, RunRowSteps, TypeOK
    <2>2. ASSUME NEW v \in Value, SetRunOutput(r, v) \/ SetRunInput(r, v)
          PROVE  RunRowSteps
      <3>1. \/ runs' = [runs EXCEPT ![r] = [runs[r] EXCEPT !.output = v]]
            \/ runs' = [runs EXCEPT ![r] = [runs[r] EXCEPT !.input = v]]
        BY <2>2 DEF SetRunOutput, SetRunInput
      <3>2. QED
        BY <1>0, <3>1 DEF RunRowSteps, TypeOK
    <2>3. CASE CompleteRun(r)
      BY <1>0, <2>3 DEF CompleteRun, RunRowSteps, TypeOK
    <2>4. ASSUME NEW e \in ErrorText, FailRun(r, e)
          PROVE  RunRowSteps
      BY <1>0, <2>4 DEF FailRun, RunRowSteps, TypeOK
    <2>5. CASE ResumeRun(r)
      BY <1>0, <2>5 DEF ResumeRun, RunRowSteps, TypeOK
    <2>6. QED
      BY <1>2, <2>1, <2>2, <2>3, <2>4, <2>5 DEF RunOperation
  <1>3. ASSUME NEW c \in Client, StepOperation(c)
        PROVE  UNCHANGED runs
    <2>1. ASSUME NEW r \in Run, NEW k \in Key, NEW h \in Hash, NEW s \in Step,
                 BeginStep(c, r, k, h, s)
          PROVE  UNCHANGED runs
      BY <2>1 DEF BeginStep, BeginNewStep, BeginRunningStep, RetryFailedStep, ReuseStep,
                  tables
    <2>2. ASSUME NEW v \in Value, NEW lost \in BOOLEAN, CompleteStep(c, v, lost)
          PROVE  UNCHANGED runs
      BY <2>2 DEF CompleteStep
    <2>3. ASSUME NEW e \in ErrorText, FailStep(c, e)
          PROVE  UNCHANGED runs
      BY <2>3 DEF FailStep
    <2>4. CASE Release(c)
      BY <2>4 DEF Release, tables
    <2>5. QED
      BY <1>3, <2>1, <2>2, <2>3, <2>4 DEF StepOperation
  <1>4. QED
    BY <1>1, <1>2, <1>3 DEF Next, vars

-----------------------------------------------------------------------------
(* A run has one step per key: the insert of a row is guarded by the lookup, and
   no other operation adds a row or moves one to another run or key. *)

LEMMA OneStepPerKeyNext ==
    ASSUME TypeInv, OneStepPerKey, [Next]_vars
    PROVE  OneStepPerKey'
  <1> DEFINE Same(s, t) == steps[s].run = steps[t].run /\ steps[s].key = steps[t].key
  <1>0. TypeOK
    BY DEF TypeInv
  <1>1. SUFFICES ASSUME NEW s \in Step, NEW t \in Step,
                        StepExists(s)', StepExists(t)', Same(s, t)'
                 PROVE  s = t
    BY DEF OneStepPerKey, StepExists
  <1>2. CASE StepExists(s) /\ StepExists(t)
    BY <1>1, <1>2, RowsOfNext DEF PermanentRows, OneStepPerKey
  <1>3. ASSUME NEW x \in Step, NEW y \in Step, ~StepExists(x), StepExists(x)', StepExists(y)',
               Same(x, y)'
        PROVE  x = y
    <2>1. PICK c \in Client, r \in Run, k \in Key, h \in Hash : BeginNewStep(c, r, k, h, x)
      BY <1>3, RowsOfNext DEF NewStepRowsOnly
    <2>2. steps'[x].run = r /\ steps'[x].key = k
      BY <1>0, <2>1, NewStepFields DEF BeginNewStep, TypeOK
    <2>3. CASE StepExists(y)
      <3>1. steps[y].run = r /\ steps[y].key = k
        BY <1>3, <2>2, <2>3, RowsOfNext DEF PermanentRows
      <3>2. y \in StepsAt(r, k)
        BY <2>3, <3>1 DEF StepsAt
      <3>3. QED
        BY <2>1, <3>2 DEF BeginNewStep
    <2>4. CASE ~StepExists(y)
      <3>1. SUFFICES ASSUME x # y PROVE FALSE
        OBVIOUS
      <3>2. steps'[y] = steps[y]
        BY <1>0, <2>1, <3>1 DEF BeginNewStep, TypeOK
      <3>3. QED
        BY <1>3, <2>4, <3>2 DEF StepExists
    <2>5. QED
      BY <2>3, <2>4
  <1>4. QED
    BY <1>1, <1>2, <1>3

(* No two rows of steps share a run and a key, though no index of the table says so. *)
THEOREM OneStepPerKeyHolds == Spec => []OneStepPerKey
  <1>1. Init => OneStepPerKey
    <2>1. NoStep.status = "absent"
      BY DEF NoStep
    <2>2. QED
      BY <2>1 DEF Init, OneStepPerKey, StepExists
  <1>2. TypeInv /\ OneStepPerKey /\ [Next]_vars => OneStepPerKey'
    BY OneStepPerKeyNext
  <1>3. QED
    BY <1>1, <1>2, TypeInvInit, TypeInvNext, PTL DEF Spec

-----------------------------------------------------------------------------
(* A row's columns agree whatever order its updates came in. *)

CoherentRun(row) ==
    /\ row.finished = TRUE <=> row.status \in {"completed", "failed"}
    /\ row.error # NULL <=> row.status = "failed"

CoherentStep(row) ==
    /\ row.finished = TRUE <=> row.status \in {"completed", "failed"}
    /\ row.error # NULL <=> row.status = "failed"
    /\ row.status = "completed" => row.output # NULL

LEMMA RowsCoherentNext ==
    ASSUME TypeInv, RowsCoherent, [Next]_vars
    PROVE  RowsCoherent'
  <1>1. TypeOK
    BY DEF TypeInv
  <1>2. ASSUME NEW r \in Run PROVE CoherentRun(runs'[r])
    <2>0. runs[r] \in RunRow /\ CoherentRun(runs[r])
      BY <1>1 DEF TypeOK, RowsCoherent, CoherentRun
    <2>1. CASE runs'[r] = runs[r]
      BY <2>0, <2>1
    <2>2. ASSUME NEW n \in Name, NEW i \in Value \cup {NULL}, NEW p \in Provenance \cup {NULL},
                 runs'[r] = [NoRun EXCEPT !.status = "running", !.name = n, !.input = i,
                                          !.provenance = p]
          PROVE  CoherentRun(runs'[r])
      BY <2>2 DEF CoherentRun, NoRun
    <2>3. ASSUME NEW v \in Value, \/ runs'[r] = [runs[r] EXCEPT !.output = v]
                                  \/ runs'[r] = [runs[r] EXCEPT !.input = v]
          PROVE  CoherentRun(runs'[r])
      BY <2>0, <2>3 DEF CoherentRun, RunRow
    <2>4. CASE runs'[r] = Stopped(runs[r], "completed", NULL)
      BY <2>0, <2>4 DEF CoherentRun, RunRow, Stopped
    <2>5. ASSUME NEW e \in ErrorText, runs'[r] = Stopped(runs[r], "failed", e)
          PROVE  CoherentRun(runs'[r])
      <3>1. /\ runs'[r].status = "failed" /\ runs'[r].finished = TRUE
            /\ runs'[r].error = e
        BY <2>0, <2>5 DEF RunRow, Stopped
      <3>2. e # NULL
        BY NullAssumption
      <3>3. QED
        BY <3>1, <3>2 DEF CoherentRun
    <2>6. CASE runs'[r] = Restarted(runs[r])
      BY <2>0, <2>6 DEF CoherentRun, RunRow, Restarted
    <2>7. QED
      BY <2>1, <2>2, <2>3, <2>4, <2>5, <2>6, RunRowsOfNext DEF RunRowSteps
  <1>3. ASSUME NEW s \in Step PROVE CoherentStep(steps'[s])
    <2>0. steps[s] \in StepRow /\ CoherentStep(steps[s])
      BY <1>1 DEF TypeOK, RowsCoherent, CoherentStep
    <2>1. CASE steps'[s] = steps[s]
      BY <2>0, <2>1
    <2>2. ASSUME NEW r \in Run, NEW k \in Key, NEW h \in Hash,
                 steps'[s] = [NoStep EXCEPT !.status = "running", !.run = r, !.key = k,
                                            !.hash = h]
          PROVE  CoherentStep(steps'[s])
      BY <2>2 DEF CoherentStep, NoStep
    <2>3. CASE steps'[s] = Restarted(steps[s])
      BY <2>0, <2>3 DEF CoherentStep, StepRow, Restarted
    <2>4. ASSUME NEW e \in StoredError, steps'[s] = Stopped(steps[s], "failed", e)
          PROVE  CoherentStep(steps'[s])
      <3>1. /\ steps'[s].status = "failed" /\ steps'[s].finished = TRUE
            /\ steps'[s].error = e
        BY <2>0, <2>4 DEF StepRow, Stopped
      <3>2. e # NULL
        BY NullAssumption DEF StoredError
      <3>3. QED
        BY <3>1, <3>2 DEF CoherentStep
    <2>5. ASSUME NEW v \in Value,
                 steps'[s] = [Stopped(steps[s], "completed", NULL) EXCEPT !.output = v]
          PROVE  CoherentStep(steps'[s])
      <3>1. /\ steps'[s].status = "completed" /\ steps'[s].finished = TRUE
            /\ steps'[s].error = NULL /\ steps'[s].output = v
        BY <2>0, <2>5 DEF StepRow, Stopped
      <3>2. v # NULL
        BY NullAssumption
      <3>3. QED
        BY <3>1, <3>2 DEF CoherentStep
    <2>6. \/ steps'[s] = steps[s]
          \/ \E r \in Run, k \in Key, h \in Hash :
               steps'[s] = [NoStep EXCEPT !.status = "running", !.run = r, !.key = k, !.hash = h]
          \/ steps'[s] = Restarted(steps[s])
          \/ \E e \in StoredError : steps'[s] = Stopped(steps[s], "failed", e)
          \/ \E v \in Value :
               steps'[s] = [Stopped(steps[s], "completed", NULL) EXCEPT !.output = v]
      BY Zenon, StepRowsOfNext DEF StepRowSteps
    <2>7. QED
      BY ZenonT(30), <2>1, <2>2, <2>3, <2>4, <2>5, <2>6
  <1>4. QED
    BY <1>2, <1>3 DEF RowsCoherent, CoherentRun, CoherentStep

(* Status, finished_at, error and output of every row agree at all times. *)
THEOREM RowsCoherentHolds == Spec => []RowsCoherent
  <1>1. Init => RowsCoherent
    BY DEF Init, RowsCoherent, NoRun, NoStep
  <1>2. TypeInv /\ RowsCoherent /\ [Next]_vars => RowsCoherent'
    BY RowsCoherentNext
  <1>3. QED
    BY <1>1, <1>2, TypeInvInit, TypeInvNext, PTL DEF Spec

-----------------------------------------------------------------------------
(* A decision stays a decision about the step its client asked for. *)

Matches(d) ==
    /\ StepExists(d.step)
    /\ steps[d.step].run = d.run /\ steps[d.step].key = d.key /\ steps[d.step].hash = d.hash

LEMMA DecisionMatchesNext ==
    ASSUME TypeInv, DecisionMatchesRequest, [Next]_vars
    PROVE  DecisionMatchesRequest'
  <1>0. TypeOK
    BY DEF TypeInv
  <1>1. \A b \in Client : holds[b] # NULL => Matches(holds[b])
    BY DEF DecisionMatchesRequest, Matches
  (* A decision held before the step, whatever its kind has become, still matches. *)
  <1>2. ASSUME NEW d \in Decision, Matches(d), NEW e,
               e = d \/ e = [d EXCEPT !.kind = "unsure"]
        PROVE  /\ StepExists(e.step)'
               /\ steps'[e.step].run = e.run /\ steps'[e.step].key = e.key
               /\ steps'[e.step].hash = e.hash
    <2>1. /\ e.step = d.step /\ d.step \in Step
          /\ e.run = d.run /\ e.key = d.key /\ e.hash = d.hash
      BY <1>2 DEF Decision
    <2>2. QED
      BY <1>2, <2>1, RowsOfNext DEF PermanentRows, Matches, StepExists
  <1>3. SUFFICES ASSUME NEW b \in Client, holds'[b] # NULL
                 PROVE  /\ steps'[holds'[b].step].status # "absent"
                        /\ steps'[holds'[b].step].run = holds'[b].run
                        /\ steps'[holds'[b].step].key = holds'[b].key
                        /\ steps'[holds'[b].step].hash = holds'[b].hash
    BY DEF DecisionMatchesRequest, StepExists
  <1>4. CASE \/ holds'[b] = holds[b]
             \/ holds[b] # NULL /\ holds'[b] = [holds[b] EXCEPT !.kind = "unsure"]
    <2>1. holds[b] \in Decision /\ Matches(holds[b])
      BY <1>0, <1>1, <1>3, <1>4 DEF TypeOK
    <2>2. QED
      BY <1>2, <1>4, <2>1 DEF StepExists
  <1>5. ASSUME NEW r \in Run, NEW k \in Key, NEW h \in Hash, NEW s \in Step,
               BeginStep(b, r, k, h, s)
        PROVE  /\ steps'[holds'[b].step].status # "absent"
               /\ steps'[holds'[b].step].run = holds'[b].run
               /\ steps'[holds'[b].step].key = holds'[b].key
               /\ steps'[holds'[b].step].hash = holds'[b].hash
    <2>1. /\ holds'[b].step = s /\ holds'[b].run = r /\ holds'[b].key = k
          /\ holds'[b].hash = h
      BY <1>0, <1>5 DEF BeginStep, BeginNewStep, BeginRunningStep, RetryFailedStep, ReuseStep,
                        Receive, TypeOK
    <2>2. CASE BeginNewStep(b, r, k, h, s)
      BY <1>0, <2>1, <2>2, NewStepFields DEF BeginNewStep, TypeOK
    <2>3. CASE ~BeginNewStep(b, r, k, h, s)
      <3>1. s \in StepsAt(r, k) /\ steps[s].hash = h
        BY <1>5, <2>3 DEF BeginStep, BeginRunningStep, RetryFailedStep, ReuseStep
      <3>2. QED
        BY <2>1, <3>1, RowsOfNext DEF StepsAt, PermanentRows, StepExists
    <2>4. QED
      BY <2>2, <2>3
  <1>6. QED
    <2>1. CASE UNCHANGED holds
      BY <1>4, <2>1
    <2>2. CASE \E r \in Run : RunOperation(r)
      BY <2>1, <2>2 DEF RunOperation, CreateRun, SetRunOutput, SetRunInput, CompleteRun,
                        FailRun, ResumeRun
    <2>3. ASSUME NEW c \in Client, StepOperation(c)
          PROVE  \/ holds'[b] = holds[b]
                 \/ holds[b] # NULL /\ holds'[b] = [holds[b] EXCEPT !.kind = "unsure"]
                 \/ \E r \in Run, k \in Key, h \in Hash, s \in Step : BeginStep(b, r, k, h, s)
      <3>1. ASSUME NEW r \in Run, NEW k \in Key, NEW h \in Hash, NEW s \in Step,
                   BeginStep(c, r, k, h, s)
            PROVE  holds'[b] = holds[b] \/ b = c
        BY <1>0, <3>1 DEF BeginStep, BeginNewStep, BeginRunningStep, RetryFailedStep,
                          ReuseStep, Receive, TypeOK
      <3>2. ASSUME NEW v \in Value, NEW lost \in BOOLEAN, CompleteStep(c, v, lost)
            PROVE  \/ holds'[b] = holds[b]
                   \/ holds[b] # NULL /\ holds'[b] = [holds[b] EXCEPT !.kind = "unsure"]
        BY <1>0, <1>3, <3>2 DEF CompleteStep, Answer, TypeOK
      <3>3. ASSUME NEW e \in ErrorText, FailStep(c, e)
            PROVE  holds'[b] = holds[b]
        BY <1>0, <1>3, <3>3 DEF FailStep, TypeOK
      <3>4. CASE Release(c)
        BY <1>0, <1>3, <3>4 DEF Release, TypeOK
      <3>5. QED
        BY <2>3, <3>1, <3>2, <3>3, <3>4 DEF StepOperation
    <2>4. QED
      BY <1>4, <1>5, <2>1, <2>2, <2>3 DEF Next, vars

(* What a client runs or reuses is a step of the run, key and input hash it asked
   for, from the answer until it lets the decision go. *)
THEOREM DecisionMatchesHolds == Spec => []DecisionMatchesRequest
  <1>1. Init => DecisionMatchesRequest
    BY DEF Init, DecisionMatchesRequest
  <1>2. TypeInv /\ DecisionMatchesRequest /\ [Next]_vars => DecisionMatchesRequest'
    BY DecisionMatchesNext
  <1>3. QED
    BY <1>1, <1>2, TypeInvInit, TypeInvNext, PTL DEF Spec
-----------------------------------------------------------------------------
HIDE DEF RunStatus, StepStatus, StoredError

(***************************************************************************)
(* Proofs about the journal of RunStore: what every transaction appends to *)
(* the events table, and what follows for the steps it tells of.           *)
(***************************************************************************)

(* A transaction leaves steps and journals alone, or appends one event to the journal
   of the only run whose steps it changes; an event about a step goes to the journal
   of the run of that step. *)
Appended(r, ev) ==
    /\ events' = [events EXCEPT ![r] = Append(@, ev)]
    /\ \A s \in Step : steps'[s] # steps[s] => steps'[s].run = r
    /\ ev.step # NULL => StepExists(ev.step)' /\ steps'[ev.step].run = r

OneTransaction ==
    \/ events' = events /\ steps' = steps
    \/ \E r \in Run, ev \in Event : Appended(r, ev)

LEMMA RunEventAppended ==
    ASSUME NEW r \in Run, NEW type \in RunEventType, LogEvent(r, type, NULL),
           \A s \in Step : steps'[s] # steps[s] => steps'[s].run = r
    PROVE  OneTransaction
  <1> DEFINE ev == [type |-> type, step |-> NULL]
  <1>1. ev \in Event /\ ev.step = NULL
    BY DEF Event
  <1>2. Appended(r, ev)
    BY <1>1 DEF LogEvent, Appended
  <1>3. QED
    BY <1>1, <1>2 DEF OneTransaction

LEMMA StepEventAppended ==
    ASSUME NEW r \in Run, NEW type \in StepEventType, NEW s \in Step, NEW row,
           TypeOK, LogEvent(r, type, s),
           steps' = [steps EXCEPT ![s] = row], row.status # "absent", row.run = r
    PROVE  OneTransaction
  <1> DEFINE ev == [type |-> type, step |-> s]
  <1>1. ev \in Event /\ ev.step = s
    BY DEF Event
  <1>2. /\ steps'[s] = row
        /\ \A t \in Step : steps'[t] # steps[t] => t = s
    BY DEF TypeOK
  <1>3. Appended(r, ev)
    BY <1>1, <1>2 DEF LogEvent, Appended, StepExists
  <1>4. QED
    BY <1>1, <1>3 DEF OneTransaction

LEMMA RunOperationLogs ==
    ASSUME TypeInv, NEW r \in Run, RunOperation(r)
    PROVE  OneTransaction
  <1>0. \A s \in Step : steps[s] \in StepRow
    BY DEF TypeInv, TypeOK
  <1>1. ASSUME NEW n \in Name, NEW i \in Value \cup {NULL}, NEW p \in Provenance \cup {NULL},
               CreateRun(r, n, i, p)
        PROVE  OneTransaction
    BY <1>1, RunEventAppended DEF CreateRun, RunEventType
  <1>2. ASSUME NEW v \in Value, SetRunOutput(r, v) \/ SetRunInput(r, v)
        PROVE  OneTransaction
    BY <1>2 DEF SetRunOutput, SetRunInput, OneTransaction
  <1>3. CASE CompleteRun(r)
    BY <1>3, RunEventAppended DEF CompleteRun, RunEventType
  <1>4. ASSUME NEW e \in ErrorText, FailRun(r, e)
        PROVE  OneTransaction
    <2>1. ASSUME NEW s \in Step, steps'[s] # steps[s]
          PROVE  steps'[s].run = r
      <3>1. steps[s].run = r /\ steps'[s] = Stopped(steps[s], "failed", "run failed")
        BY <1>4, <2>1 DEF FailRun, CascadeFailure
      <3>2. QED
        BY <1>0, <3>1 DEF Stopped, StepRow
    <2>2. QED
      BY <1>4, <2>1, RunEventAppended DEF FailRun, RunEventType
  <1>5. CASE ResumeRun(r)
    BY <1>5, RunEventAppended DEF ResumeRun, RunEventType
  <1>6. QED
    BY <1>1, <1>2, <1>3, <1>4, <1>5 DEF RunOperation

LEMMA StepOperationLogs ==
    ASSUME TypeInv, NEW c \in Client, StepOperation(c)
    PROVE  OneTransaction
  <1>0. TypeOK /\ \A s \in Step : steps[s] \in StepRow
    BY DEF TypeInv, TypeOK
  <1>1. ASSUME NEW r \in Run, NEW k \in Key, NEW h \in Hash, NEW s \in Step,
               BeginStep(c, r, k, h, s)
        PROVE  OneTransaction
    <2>1. CASE BeginNewStep(c, r, k, h, s)
      <3> DEFINE row == [NoStep EXCEPT !.status = "running", !.run = r, !.key = k, !.hash = h]
      <3>1. steps' = [steps EXCEPT ![s] = row] /\ LogEvent(r, "step.started", s)
        BY <2>1 DEF BeginNewStep
      <3>2. row.status # "absent" /\ row.run = r
        BY NewStepFields
      <3> HIDE DEF row
      <3>3. QED
        BY <1>0, <3>1, <3>2, StepEventAppended DEF StepEventType
    <2>2. CASE RetryFailedStep(c, r, k, h, s)
      <3> DEFINE row == Restarted(steps[s])
      <3>1. /\ steps[s].run = r /\ steps' = [steps EXCEPT ![s] = row]
            /\ LogEvent(r, "step.started", s)
        BY <2>2 DEF RetryFailedStep, StepsAt
      <3>2. row.status # "absent" /\ row.run = r
        BY <1>0, <3>1 DEF Restarted, StepRow
      <3> HIDE DEF row
      <3>3. QED
        BY <1>0, <3>1, <3>2, StepEventAppended DEF StepEventType
    <2>3. CASE BeginRunningStep(c, r, k, h, s) \/ ReuseStep(c, r, k, h, s)
      BY <2>3 DEF BeginRunningStep, ReuseStep, tables, OneTransaction
    <2>4. QED
      BY <1>1, <2>1, <2>2, <2>3 DEF BeginStep
  <1>2. ASSUME NEW v \in Value, NEW lost \in BOOLEAN, CompleteStep(c, v, lost)
        PROVE  OneTransaction
    <2> DEFINE s == holds[c].step
               row == [Stopped(steps[s], "completed", NULL) EXCEPT !.output = v]
    <2>1. /\ s \in Step /\ steps[s].run \in Run
          /\ steps' = [steps EXCEPT ![s] = row]
          /\ LogEvent(steps[s].run, "step.completed", s)
      BY <1>0, <1>2 DEF CompleteStep, Decision, TypeOK, TypeInv, StepsHaveRuns
    <2>2. row.status # "absent" /\ row.run = steps[s].run
      BY <1>0, <2>1, CompletedRowFields
    <2> HIDE DEF row, s
    <2>3. QED
      BY <1>0, <2>1, <2>2, StepEventAppended DEF StepEventType
  <1>3. ASSUME NEW e \in ErrorText, FailStep(c, e)
        PROVE  OneTransaction
    <2> DEFINE s == holds[c].step
               row == Stopped(steps[s], "failed", e)
    <2>1. /\ s \in Step /\ steps[s].run \in Run
          /\ steps' = [steps EXCEPT ![s] = row]
          /\ LogEvent(steps[s].run, "step.failed", s)
      BY <1>0, <1>3 DEF FailStep, Decision, TypeOK, TypeInv, StepsHaveRuns
    <2>2. row.status # "absent" /\ row.run = steps[s].run
      BY <1>0, <2>1, FailedRowFields
    <2> HIDE DEF row, s
    <2>3. QED
      BY <1>0, <2>1, <2>2, StepEventAppended DEF StepEventType
  <1>4. CASE Release(c)
    BY <1>4 DEF Release, tables, OneTransaction
  <1>5. QED
    BY <1>1, <1>2, <1>3, <1>4 DEF StepOperation

LEMMA NextLogs ==
    ASSUME TypeInv, [Next]_vars
    PROVE  OneTransaction
  <1>1. CASE UNCHANGED vars
    BY <1>1 DEF vars, OneTransaction
  <1>2. QED
    BY <1>1, RunOperationLogs, StepOperationLogs DEF Next

-----------------------------------------------------------------------------
(* Every change of a step's row is recorded, once, in the journal of its run, and what
   has been recorded is never rewritten. *)
THEOREM StepChangesAreLogged == Spec => EveryStepChangeIsLogged
  <1>1. TypeInv /\ [Next]_vars =>
            [/\ \A s \in Step : steps'[s] # steps[s] =>
                    Len(events'[steps'[s].run]) = Len(events[steps'[s].run]) + 1
             /\ \A r \in Run : \A i \in 1..Len(events[r]) : events'[r][i] = events[r][i]
             /\ \A r, q \in Run : events'[r] # events[r] /\ events'[q] # events[q] => r = q]_vars
    <2> SUFFICES ASSUME TypeInv, [Next]_vars
                 PROVE  /\ \A s \in Step : steps'[s] # steps[s] =>
                             Len(events'[steps'[s].run]) = Len(events[steps'[s].run]) + 1
                        /\ \A r \in Run : \A i \in 1..Len(events[r]) : events'[r][i] = events[r][i]
                        /\ \A r, q \in Run :
                             events'[r] # events[r] /\ events'[q] # events[q] => r = q
      OBVIOUS
    <2>1. CASE events' = events /\ steps' = steps
      BY <2>1
    <2>2. ASSUME NEW r \in Run, NEW ev \in Event, Appended(r, ev)
          PROVE  /\ \A s \in Step : steps'[s] # steps[s] =>
                      Len(events'[steps'[s].run]) = Len(events[steps'[s].run]) + 1
                 /\ \A p \in Run : \A i \in 1..Len(events[p]) : events'[p][i] = events[p][i]
                 /\ \A p, q \in Run :
                      events'[p] # events[p] /\ events'[q] # events[q] => p = q
      <3>1. /\ events[r] \in Seq(Event)
            /\ events'[r] = Append(events[r], ev)
            /\ \A q \in Run : q # r => events'[q] = events[q]
        BY <2>2 DEF Appended, TypeInv, TypeOK
      <3>2. /\ Len(events'[r]) = Len(events[r]) + 1
            /\ \A i \in 1..Len(events[r]) : events'[r][i] = events[r][i]
        BY <3>1
      <3>3. \A s \in Step : steps'[s] # steps[s] => steps'[s].run = r
        BY <2>2 DEF Appended
      <3>4. QED
        BY <3>1, <3>2, <3>3
    <2>3. QED
      BY <2>1, <2>2, NextLogs DEF OneTransaction
  <1>2. QED
    BY <1>1, TypeInvInit, TypeInvNext, PTL DEF Spec, EveryStepChangeIsLogged

-----------------------------------------------------------------------------
LEMMA JournalIsLocalNext == TypeInv /\ JournalIsLocal /\ [Next]_vars => JournalIsLocal'
  <1> SUFFICES ASSUME TypeInv, JournalIsLocal, [Next]_vars,
                      NEW q \in Run, NEW i \in 1..Len(events'[q]), events'[q][i].step # NULL
               PROVE  /\ steps'[events'[q][i].step].status # "absent"
                      /\ steps'[events'[q][i].step].run = q
    BY DEF JournalIsLocal, StepExists
  <1>1. ASSUME i \in 1..Len(events[q]), events'[q][i] = events[q][i]
        PROVE  /\ steps'[events'[q][i].step].status # "absent"
               /\ steps'[events'[q][i].step].run = q
    <2>1. PICK s \in Step : s = events[q][i].step
      <3>1. events[q][i] \in Event
        BY <1>1 DEF TypeInv, TypeOK
      <3>2. QED
        BY <1>1, <3>1 DEF Event
    <2>2. StepExists(s) /\ steps[s].run = q
      BY <1>1, <2>1 DEF JournalIsLocal
    <2>3. StepExists(s)' /\ steps'[s].run = q
      BY <2>2, RowsOfNext DEF PermanentRows
    <2>4. QED
      BY <1>1, <2>1, <2>3 DEF StepExists
  <1>2. CASE events' = events
    BY <1>1, <1>2
  <1>3. ASSUME NEW r \in Run, NEW ev \in Event, Appended(r, ev)
        PROVE  /\ steps'[events'[q][i].step].status # "absent"
               /\ steps'[events'[q][i].step].run = q
    <2>1. /\ events[q] \in Seq(Event)
          /\ q # r => events'[q] = events[q]
          /\ q = r => events'[q] = Append(events[q], ev)
      BY <1>3 DEF Appended, TypeInv, TypeOK
    <2>2. CASE q # r
      BY <1>1, <2>1, <2>2
    <2>3. CASE q = r /\ i \in 1..Len(events[q])
      BY <1>1, <2>1, <2>3
    <2>4. CASE q = r /\ i = Len(events[q]) + 1
      <3>1. events'[q][i] = ev
        BY <2>1, <2>4
      <3>2. QED
        BY <1>3, <2>4, <3>1 DEF Appended, StepExists
    <2>5. QED
      BY <2>1, <2>2, <2>3, <2>4
  <1>4. QED
    BY <1>2, <1>3, NextLogs DEF OneTransaction

(* The journal of a run tells only of steps that exist and belong to that run. *)
THEOREM JournalIsLocalHolds == Spec => []JournalIsLocal
  <1>1. Init => JournalIsLocal
    BY DEF Init, JournalIsLocal
  <1>2. QED
    BY <1>1, JournalIsLocalNext, TypeInvInit, TypeInvNext, PTL DEF Spec

-----------------------------------------------------------------------------
(* What a transaction does to the statuses that its event tells of. *)

StatusAfter(ev) == IF ev.type = "step.completed" THEN "completed"
                   ELSE IF ev.type = "step.failed" THEN "failed" ELSE "running"

(* An event about a run leaves that run in the status it tells; run.failed alone touches
   steps, and only those it finds running. *)
RunEventTold(r, ev) ==
    /\ ev.step = NULL
    /\ runs'[r].status = StatusOfRunEvent(ev.type)
    /\ \A q \in Run \ {r} : runs'[q].status = runs[q].status
    /\ \A s \in Step :
          steps'[s].status = IF /\ ev.type = "run.failed"
                                /\ steps[s].run = r /\ steps[s].status = "running"
                             THEN "failed" ELSE steps[s].status

(* An event about a step leaves that step, and no other, in the status it tells; a step is
   started when it is new or has failed. *)
StepEventTold(r, ev) ==
    /\ ev.type \in StepEventType
    /\ runs' = runs
    /\ ev.step \in Step
    /\ steps'[ev.step].status = StatusAfter(ev)
    /\ \A s \in Step \ {ev.step} : steps'[s] = steps[s]
    /\ ev.type = "step.started" =>
          ~StepExists(ev.step) \/ (steps[ev.step].run = r /\ steps[ev.step].status = "failed")

Told ==
    \/ /\ events' = events /\ steps' = steps
       /\ \A r \in Run : runs'[r].status = runs[r].status
    \/ \E r \in Run, ev \in Event :
          /\ events' = [events EXCEPT ![r] = Append(@, ev)]
          /\ RunEventTold(r, ev) \/ StepEventTold(r, ev)

LEMMA RunOperationTells ==
    ASSUME TypeInv, NEW r \in Run, RunOperation(r)
    PROVE  Told
  <1>0. /\ TypeOK /\ runs[r] \in RunRow
        /\ \A s \in Step : steps[s] \in StepRow
    BY DEF TypeInv, TypeOK
  <1>1. ASSUME NEW type \in RunEventType, LogEvent(r, type, NULL), NEW row,
               runs' = [runs EXCEPT ![r] = row], row.status = StatusOfRunEvent(type),
               IF type = "run.failed" THEN CascadeFailure(r) ELSE steps' = steps
        PROVE  Told
    <2> DEFINE ev == [type |-> type, step |-> NULL]
    <2>1. ev \in Event /\ ev.step = NULL /\ ev.type = type
      BY DEF Event
    <2>2. events' = [events EXCEPT ![r] = Append(@, ev)]
      BY <1>1 DEF LogEvent
    <2>3. runs'[r].status = StatusOfRunEvent(type) /\ \A q \in Run \ {r} : runs'[q] = runs[q]
      BY <1>0, <1>1 DEF TypeOK
    <2>4. ASSUME NEW s \in Step
          PROVE  steps'[s].status = IF /\ type = "run.failed"
                                       /\ steps[s].run = r /\ steps[s].status = "running"
                                    THEN "failed" ELSE steps[s].status
      <3>1. CASE type = "run.failed" /\ steps[s].run = r /\ steps[s].status = "running"
        <4>1. steps'[s] = Stopped(steps[s], "failed", "run failed")
          BY <1>1, <3>1 DEF CascadeFailure
        <4>2. QED
          BY <1>0, <3>1, <4>1, FailedRowFields
      <3>2. CASE ~(type = "run.failed" /\ steps[s].run = r /\ steps[s].status = "running")
        <4>1. steps'[s] = steps[s]
          BY <1>1, <3>2 DEF CascadeFailure
        <4>2. QED
          BY <3>2, <4>1
      <3>3. QED
        BY <3>1, <3>2
    <2> HIDE DEF ev
    <2>5. RunEventTold(r, ev)
      BY <2>1, <2>3, <2>4 DEF RunEventTold
    <2>6. QED
      BY <2>1, <2>2, <2>5 DEF Told
  <1>2. ASSUME NEW n \in Name, NEW i \in Value \cup {NULL}, NEW p \in Provenance \cup {NULL},
               CreateRun(r, n, i, p)
        PROVE  Told
    <2>1. [NoRun EXCEPT !.status = "running", !.name = n, !.input = i, !.provenance = p].status
            = StatusOfRunEvent("run.started")
      BY DEF NoRun, StatusOfRunEvent
    <2>2. QED
      BY <1>1, <1>2, <2>1 DEF CreateRun, RunEventType
  <1>3. ASSUME NEW v \in Value, SetRunOutput(r, v) \/ SetRunInput(r, v)
        PROVE  Told
    <2>1. /\ \/ runs'[r] = [runs[r] EXCEPT !.output = v]
             \/ runs'[r] = [runs[r] EXCEPT !.input = v]
          /\ \A q \in Run \ {r} : runs'[q] = runs[q]
          /\ events' = events /\ steps' = steps
      BY <1>0, <1>3 DEF SetRunOutput, SetRunInput, TypeOK
    <2>2. runs'[r].status = runs[r].status
      BY <1>0, <2>1 DEF RunRow
    <2>3. QED
      BY <2>1, <2>2 DEF Told
  <1>4. CASE CompleteRun(r)
    <2>1. Stopped(runs[r], "completed", NULL).status = StatusOfRunEvent("run.completed")
      BY <1>0 DEF Stopped, RunRow, StatusOfRunEvent
    <2>2. QED
      BY <1>1, <1>4, <2>1 DEF CompleteRun, RunEventType
  <1>5. ASSUME NEW e \in ErrorText, FailRun(r, e)
        PROVE  Told
    <2>1. Stopped(runs[r], "failed", e).status = StatusOfRunEvent("run.failed")
      BY <1>0 DEF Stopped, RunRow, StatusOfRunEvent
    <2>2. QED
      BY <1>1, <1>5, <2>1 DEF FailRun, RunEventType
  <1>6. CASE ResumeRun(r)
    <2>1. Restarted(runs[r]).status = StatusOfRunEvent("run.resumed")
      BY <1>0 DEF Restarted, RunRow, StatusOfRunEvent
    <2>2. QED
      BY <1>1, <1>6, <2>1 DEF ResumeRun, RunEventType
  <1>7. QED
    BY <1>2, <1>3, <1>4, <1>5, <1>6 DEF RunOperation

LEMMA StepOperationTells ==
    ASSUME TypeInv, NEW c \in Client, StepOperation(c)
    PROVE  Told
  <1>0. TypeOK /\ \A s \in Step : steps[s] \in StepRow
    BY DEF TypeInv, TypeOK
  <1>1. ASSUME NEW r \in Run, NEW type \in StepEventType, NEW s \in Step, LogEvent(r, type, s),
               NEW row, steps' = [steps EXCEPT ![s] = row], runs' = runs,
               row.status = StatusAfter([type |-> type, step |-> s]),
               type = "step.started" =>
                  ~StepExists(s) \/ (steps[s].run = r /\ steps[s].status = "failed")
        PROVE  Told
    <2> DEFINE ev == [type |-> type, step |-> s]
    <2>1. ev \in Event /\ ev.step = s /\ ev.type = type
      BY DEF Event
    <2>2. events' = [events EXCEPT ![r] = Append(@, ev)] /\ row.status = StatusAfter(ev)
      BY <1>1 DEF LogEvent
    <2>3. steps'[s] = row /\ \A t \in Step \ {s} : steps'[t] = steps[t]
      BY <1>0, <1>1 DEF TypeOK
    <2> HIDE DEF ev
    <2>4. StepEventTold(r, ev)
      BY <1>1, <2>1, <2>2, <2>3 DEF StepEventTold
    <2>5. QED
      BY <2>1, <2>2, <2>4 DEF Told
  <1>2. ASSUME UNCHANGED <<runs, steps, events>> PROVE Told
    BY <1>2 DEF Told
  <1>3. ASSUME NEW r \in Run, NEW k \in Key, NEW h \in Hash, NEW s \in Step,
               BeginNewStep(c, r, k, h, s)
        PROVE  Told
    <2>1. [NoStep EXCEPT !.status = "running", !.run = r, !.key = k, !.hash = h].status
            = StatusAfter([type |-> "step.started", step |-> s])
      BY DEF NoStep, StatusAfter
    <2>2. QED
      BY <1>1, <1>3, <2>1 DEF BeginNewStep, StepEventType
  <1>4. ASSUME NEW r \in Run, NEW k \in Key, NEW h \in Hash, NEW s \in Step,
               RetryFailedStep(c, r, k, h, s)
        PROVE  Told
    <2>1. Restarted(steps[s]).status = StatusAfter([type |-> "step.started", step |-> s])
      BY <1>0 DEF Restarted, StepRow, StatusAfter
    <2>2. QED
      BY <1>1, <1>4, <2>1 DEF RetryFailedStep, StepsAt, StepEventType
  <1>5. ASSUME NEW v \in Value, NEW lost \in BOOLEAN, CompleteStep(c, v, lost)
        PROVE  Told
    <2> DEFINE s == holds[c].step
    <2>1. s \in Step /\ steps[s].run \in Run
      BY <1>0, <1>5 DEF CompleteStep, Decision, TypeOK, TypeInv, StepsHaveRuns
    <2>2. [Stopped(steps[s], "completed", NULL) EXCEPT !.output = v].status
            = StatusAfter([type |-> "step.completed", step |-> s])
      <3>1. StatusAfter([type |-> "step.completed", step |-> s]) = "completed"
        BY DEF StatusAfter
      <3>2. [Stopped(steps[s], "completed", NULL) EXCEPT !.output = v].status = "completed"
        <4>1. steps[s] \in StepRow
          BY <1>0, <2>1
        <4> HIDE DEF s
        <4>2. QED
          BY <4>1, CompletedRowFields
      <3>3. QED
        BY <3>1, <3>2
    <2>3. QED
      BY <1>1, <1>5, <2>1, <2>2 DEF CompleteStep, StepEventType
  <1>6. ASSUME NEW e \in ErrorText, FailStep(c, e)
        PROVE  Told
    <2> DEFINE s == holds[c].step
    <2>1. s \in Step /\ steps[s].run \in Run
      BY <1>0, <1>6 DEF FailStep, Decision, TypeOK, TypeInv, StepsHaveRuns
    <2>2. Stopped(steps[s], "failed", e).status
            = StatusAfter([type |-> "step.failed", step |-> s])
      BY <1>0, <2>1, FailedRowFields DEF StatusAfter
    <2>3. QED
      BY <1>1, <1>6, <2>1, <2>2 DEF FailStep, StepEventType
  <1>7. QED
    BY <1>2, <1>3, <1>4, <1>5, <1>6
    DEF StepOperation, BeginStep, BeginRunningStep, ReuseStep, Release, tables

LEMMA NextTells ==
    ASSUME TypeInv, [Next]_vars
    PROVE  Told
  <1>1. CASE UNCHANGED vars
    BY <1>1 DEF vars, Told
  <1>2. QED
    BY <1>1, RunOperationTells, StepOperationTells DEF Next

-----------------------------------------------------------------------------
(* Appending an event: what it leaves of the last events before it. *)

LEMMA AppendedLog ==
    ASSUME NEW log \in Seq(Event), NEW ev \in Event
    PROVE  LET new == Append(log, ev)
           IN  /\ Len(log) \in Nat /\ Len(new) = Len(log) + 1
               /\ new[Len(log) + 1] = ev
               /\ \A i \in 1..Len(log) : new[i] = log[i]
  OBVIOUS

LEMMA EventKinds ==
    /\ NULL \notin Step
    /\ \A ev \in Event : ev.step \in Step \cup {NULL}
    /\ \A ev \in Event : ev.step = NULL <=> ev.type \in RunEventType
    /\ \A ev \in Event : ev.step # NULL <=> ev.type \in StepEventType
  BY NullAssumption DEF Event, RunEventType, StepEventType

LEMMA JournalExplainsRunsNext ==
    ASSUME TypeInv, JournalExplainsRuns, [Next]_vars
    PROVE  JournalExplainsRuns'
  <1> SUFFICES ASSUME NEW q \in Run, runs'[q].status # "absent"
               PROVE  \E i \in 1..Len(events'[q]) :
                         /\ IsLastRunEvent(events'[q], i)
                         /\ runs'[q].status = StatusOfRunEvent(events'[q][i].type)
    BY DEF JournalExplainsRuns, RunExists
  <1> DEFINE log == events[q]
  <1>0. log \in Seq(Event)
    BY DEF TypeInv, TypeOK
  <1>1. ASSUME runs'[q].status = runs[q].status
        PROVE  \E i \in 1..Len(log) :
                  IsLastRunEvent(log, i) /\ runs'[q].status = StatusOfRunEvent(log[i].type)
    BY <1>1 DEF JournalExplainsRuns, RunExists
  <1>2. CASE events'[q] = events[q] /\ runs'[q].status = runs[q].status
    BY <1>1, <1>2
  <1>3. ASSUME NEW ev \in Event, events'[q] = Append(log, ev), RunEventTold(q, ev)
        PROVE  \E i \in 1..Len(events'[q]) :
                  /\ IsLastRunEvent(events'[q], i)
                  /\ runs'[q].status = StatusOfRunEvent(events'[q][i].type)
    <2> DEFINE n == Len(log) + 1
    <2>1. n \in 1..Len(events'[q]) /\ events'[q][n] = ev /\ Len(events'[q]) = n
      BY <1>0, <1>3, AppendedLog
    <2>2. IsLastRunEvent(events'[q], n) /\ runs'[q].status = StatusOfRunEvent(ev.type)
      BY <1>0, <1>3, <2>1 DEF IsLastRunEvent, RunEventTold
    <2>3. QED
      BY <2>1, <2>2
  <1>4. ASSUME NEW ev \in Event, events'[q] = Append(log, ev), ev.step # NULL,
               runs'[q].status = runs[q].status
        PROVE  \E i \in 1..Len(events'[q]) :
                  /\ IsLastRunEvent(events'[q], i)
                  /\ runs'[q].status = StatusOfRunEvent(events'[q][i].type)
    <2>1. PICK i \in 1..Len(log) :
                  IsLastRunEvent(log, i) /\ runs'[q].status = StatusOfRunEvent(log[i].type)
      BY <1>1, <1>4
    <2>2. /\ Len(events'[q]) = Len(log) + 1 /\ events'[q][Len(log) + 1] = ev
          /\ \A j \in 1..Len(log) : events'[q][j] = log[j]
          /\ Len(log) \in Nat
      BY <1>0, <1>4, AppendedLog
    <2>3. IsLastRunEvent(events'[q], i)
      <3>1. ASSUME NEW j \in i+1..Len(events'[q]) PROVE events'[q][j].step # NULL
        <4>1. CASE j \in 1..Len(log)
          BY <2>1, <2>2, <4>1 DEF IsLastRunEvent
        <4>2. CASE j = Len(log) + 1
          BY <1>4, <2>2, <4>2
        <4>3. QED
          BY <2>1, <2>2, <4>1, <4>2
      <3>2. QED
        BY <2>1, <2>2, <3>1 DEF IsLastRunEvent
    <2>4. QED
      BY <2>1, <2>2, <2>3
  <1>5. ASSUME NEW r \in Run, NEW ev \in Event,
               events' = [events EXCEPT ![r] = Append(@, ev)],
               RunEventTold(r, ev) \/ StepEventTold(r, ev)
        PROVE  \E i \in 1..Len(events'[q]) :
                  /\ IsLastRunEvent(events'[q], i)
                  /\ runs'[q].status = StatusOfRunEvent(events'[q][i].type)
    <2>1. IF q = r THEN events'[q] = Append(log, ev) ELSE events'[q] = log
      BY <1>5 DEF TypeInv, TypeOK
    <2>2. CASE q # r
      <3>1. runs'[q].status = runs[q].status
        BY <1>5, <2>2 DEF RunEventTold, StepEventTold
      <3>2. QED
        BY <1>2, <2>1, <2>2, <3>1
    <2>3. CASE q = r /\ RunEventTold(r, ev)
      BY <1>3, <2>1, <2>3
    <2>4. CASE q = r /\ StepEventTold(r, ev)
      <3>1. ev.step # NULL /\ runs'[q].status = runs[q].status
        BY <2>4, EventKinds DEF StepEventTold
      <3>2. QED
        BY <1>4, <2>1, <2>4, <3>1
    <2>5. QED
      BY <1>5, <2>2, <2>3, <2>4
  <1>6. QED
    BY <1>2, <1>5, NextTells DEF Told

(* The status of a run is the one its journal tells: reading only the events of a run, its
   last event about itself gives back the status in the table. *)
THEOREM JournalExplainsRunsHolds == Spec => []JournalExplainsRuns
  <1>1. Init => JournalExplainsRuns
    BY DEF Init, JournalExplainsRuns, RunExists, NoRun
  <1>2. QED
    BY <1>1, JournalExplainsRunsNext, TypeInvInit, TypeInvNext, PTL DEF Spec

-----------------------------------------------------------------------------
(* What an event says of a step, before and after another event is appended. *)

LEMMA StatusTold ==
    ASSUME NEW log \in Seq(Event), NEW i \in 1..Len(log)
    PROVE  StatusOfStepEvent(log, i) =
              IF log[i].type = "step.completed" THEN "completed"
              ELSE IF log[i].type = "step.failed" THEN "failed"
              ELSE IF \E j \in i+1..Len(log) : log[j].type = "run.failed" THEN "failed"
              ELSE "running"
  BY DEF StatusOfStepEvent

LEMMA StatusToldAfterAppend ==
    ASSUME NEW log \in Seq(Event), NEW ev \in Event
    PROVE  LET new == Append(log, ev)
           IN  /\ StatusOfStepEvent(new, Len(log) + 1) = StatusAfter(ev)
               /\ \A i \in 1..Len(log) :
                     StatusOfStepEvent(new, i) =
                        IF ev.type = "run.failed" /\ StatusOfStepEvent(log, i) = "running"
                        THEN "failed" ELSE StatusOfStepEvent(log, i)
  <1> DEFINE new == Append(log, ev)
             n == Len(log)
  <1>0. /\ new \in Seq(Event) /\ n \in Nat /\ Len(new) = n + 1 /\ new[n + 1] = ev
        /\ \A i \in 1..n : new[i] = log[i]
    BY AppendedLog
  <1>1. StatusOfStepEvent(new, n + 1) = StatusAfter(ev)
    <2>1. n + 1 \in 1..Len(new) /\ ~\E j \in (n+1)+1..Len(new) : new[j].type = "run.failed"
      BY <1>0
    <2> HIDE DEF new, n
    <2>2. QED
      BY <1>0, <2>1, StatusTold DEF StatusAfter
  <1>2. ASSUME NEW i \in 1..n
        PROVE  StatusOfStepEvent(new, i) =
                  IF ev.type = "run.failed" /\ StatusOfStepEvent(log, i) = "running"
                  THEN "failed" ELSE StatusOfStepEvent(log, i)
    <2>1. (\E j \in i+1..n+1 : new[j].type = "run.failed")
            <=> (\E j \in i+1..n : log[j].type = "run.failed") \/ ev.type = "run.failed"
      <3>1. \A j \in i+1..n+1 : j = n + 1 \/ j \in i+1..n
        BY <1>0
      <3>2. i+1..n \subseteq 1..n /\ n + 1 \in i+1..n+1 /\ i+1..n \subseteq i+1..n+1
        BY <1>0
      <3> HIDE DEF new, n
      <3>3. QED
        BY <1>0, <3>1, <3>2
    <2>2. i \in 1..Len(log) /\ i \in 1..Len(new) /\ new[i] = log[i]
      BY <1>0
    <2>3. StatusOfStepEvent(new, i) =
              IF log[i].type = "step.completed" THEN "completed"
              ELSE IF log[i].type = "step.failed" THEN "failed"
              ELSE IF \E j \in i+1..n+1 : new[j].type = "run.failed" THEN "failed"
              ELSE "running"
      <3> HIDE DEF new
      <3>1. QED
        BY <1>0, <2>2, StatusTold
    <2>4. StatusOfStepEvent(log, i) =
              IF log[i].type = "step.completed" THEN "completed"
              ELSE IF log[i].type = "step.failed" THEN "failed"
              ELSE IF \E j \in i+1..n : log[j].type = "run.failed" THEN "failed"
              ELSE "running"
      BY StatusTold
    <2> HIDE DEF new, n
    <2>5. QED
      BY <2>1, <2>3, <2>4
  <1>3. QED
    BY <1>1, <1>2

(* The last event about a step stays the last until there is another one about it. *)
LEMMA LastStepEventAfterAppend ==
    ASSUME NEW log \in Seq(Event), NEW ev \in Event, NEW s
    PROVE  LET new == Append(log, ev)
           IN  /\ ev.step = s => IsLastStepEvent(new, s, Len(log) + 1)
               /\ \A i \in 1..Len(log) :
                     IsLastStepEvent(log, s, i) /\ ev.step # s => IsLastStepEvent(new, s, i)
  <1> DEFINE new == Append(log, ev)
             n == Len(log)
  <1>0. /\ n \in Nat /\ Len(new) = n + 1 /\ new[n + 1] = ev
        /\ \A i \in 1..n : new[i] = log[i]
    BY AppendedLog
  <1> HIDE DEF new, n
  <1>1. ev.step = s => IsLastStepEvent(new, s, n + 1)
    BY <1>0 DEF IsLastStepEvent
  <1>2. ASSUME NEW i \in 1..n, IsLastStepEvent(log, s, i), ev.step # s
        PROVE  IsLastStepEvent(new, s, i)
    <2>1. ASSUME NEW j \in i+1..n+1 PROVE new[j].step # s
      <3>1. CASE j = n + 1
        BY <1>0, <1>2, <3>1
      <3>2. CASE j \in i+1..n
        BY <1>0, <1>2, <3>2 DEF IsLastStepEvent, n
      <3>3. QED
        BY <1>0, <3>1, <3>2
    <2>2. QED
      BY <1>0, <1>2, <2>1 DEF IsLastStepEvent
  <1>3. QED
    BY <1>1, <1>2 DEF new, n
LEMMA JournalExplainsStepsNext ==
    ASSUME TypeInv, JournalExplainsSteps, [Next]_vars
    PROVE  JournalExplainsSteps'
  <1> SUFFICES ASSUME NEW s \in Step, steps'[s].status # "absent"
               PROVE  LET log == events'[steps'[s].run]
                      IN  \E i \in 1..Len(log) :
                            IsLastStepEvent(log, s, i) /\ steps'[s].status = StatusOfStepEvent(log, i)
    BY DEF JournalExplainsSteps, StepExists
  <1> DEFINE Explained(log, status) ==
          \E i \in 1..Len(log) : IsLastStepEvent(log, s, i) /\ status = StatusOfStepEvent(log, i)
  <1>0. TypeOK
    BY DEF TypeInv
  <1>1. ASSUME StepExists(s)
        PROVE  /\ steps'[s].run = steps[s].run /\ steps[s].run \in Run
               /\ events[steps[s].run] \in Seq(Event)
               /\ Explained(events[steps[s].run], steps[s].status)
    BY <1>0, <1>1, RowsOfNext DEF PermanentRows, TypeInv, StepsHaveRuns, TypeOK, JournalExplainsSteps
  <1>2. CASE events' = events /\ steps' = steps
    BY <1>1, <1>2 DEF StepExists
  <1>3. ASSUME NEW r \in Run, NEW ev \in Event,
               events' = [events EXCEPT ![r] = Append(@, ev)],
               StepEventTold(r, ev), ev.step = s
        PROVE  Explained(events'[steps'[s].run], steps'[s].status)
    <2>1. steps'[s].run = r
      <3>1. PICK q \in Run, e \in Event : Appended(q, e)
        <4>1. events' # events
          BY <1>0, <1>3, AppendedLog DEF TypeOK
        <4>2. QED
          BY <4>1, NextLogs DEF OneTransaction
      <3>2. q = r /\ e = ev
        <4>1. events[q] \in Seq(Event) /\ events[r] \in Seq(Event)
          BY <1>0 DEF TypeOK
        <4>2. events'[q] = Append(events[q], e) /\ events'[r] = Append(events[r], ev)
          BY <1>0, <1>3, <3>1 DEF Appended, TypeOK
        <4>3. q # r => events'[q] = events[q]
          BY <1>0, <1>3 DEF TypeOK
        <4>4. q = r
          BY <4>1, <4>2, <4>3, AppendedLog
        <4>5. QED
          BY <4>1, <4>2, <4>4, AppendedLog
      <3>3. QED
        BY <1>3, <3>1, <3>2, EventKinds DEF Appended
    <2>2. events[r] \in Seq(Event) /\ events'[r] = Append(events[r], ev)
      BY <1>0, <1>3 DEF TypeOK
    <2>3. /\ Len(events[r]) + 1 \in 1..Len(events'[r])
          /\ IsLastStepEvent(events'[r], s, Len(events[r]) + 1)
          /\ StatusOfStepEvent(events'[r], Len(events[r]) + 1) = StatusAfter(ev)
      BY <1>3, <2>2, AppendedLog, LastStepEventAfterAppend, StatusToldAfterAppend
    <2>4. steps'[s].status = StatusAfter(ev)
      BY <1>3 DEF StepEventTold
    <2>5. QED
      BY <2>1, <2>3, <2>4
  <1>4. ASSUME NEW r \in Run, NEW ev \in Event,
               events' = [events EXCEPT ![r] = Append(@, ev)],
               RunEventTold(r, ev) \/ StepEventTold(r, ev), ev.step # s
        PROVE  Explained(events'[steps'[s].run], steps'[s].status)
    <2>1. steps'[s].status = IF /\ ev.type = "run.failed"
                                /\ steps[s].run = r /\ steps[s].status = "running"
                             THEN "failed" ELSE steps[s].status
      <3>1. CASE RunEventTold(r, ev)
        BY <3>1 DEF RunEventTold
      <3>2. CASE StepEventTold(r, ev)
        BY <1>4, <3>2 DEF StepEventTold, StepEventType
      <3>3. QED
        BY <1>4, <3>1, <3>2
    <2>2. StepExists(s)
      BY <2>1 DEF StepExists
    <2> DEFINE q == steps[s].run
               log == events[q]
    <2>3. /\ q \in Run /\ steps'[s].run = q /\ log \in Seq(Event)
      BY <1>1, <2>2
    <2>4. PICK i \in 1..Len(log) :
             IsLastStepEvent(log, s, i) /\ steps[s].status = StatusOfStepEvent(log, i)
      BY <1>1, <2>2
    <2>5. CASE q # r
      <3>1. events'[q] = log /\ steps'[s].status = steps[s].status
        BY <1>0, <1>4, <2>1, <2>3, <2>5 DEF TypeOK
      <3>2. QED
        BY <2>3, <2>4, <3>1
    <2>6. CASE q = r
      <3>1. events'[q] = Append(log, ev)
        BY <1>0, <1>4, <2>3, <2>6 DEF TypeOK
      <3>2. i \in 1..Len(events'[q]) /\ IsLastStepEvent(events'[q], s, i)
        BY <1>4, <2>3, <2>4, <3>1, AppendedLog, LastStepEventAfterAppend
      <3>3. StatusOfStepEvent(events'[q], i) =
               IF ev.type = "run.failed" /\ steps[s].status = "running"
               THEN "failed" ELSE steps[s].status
        BY <2>3, <2>4, <3>1, StatusToldAfterAppend
      <3>4. steps'[s].status = StatusOfStepEvent(events'[q], i)
        BY <2>1, <2>6, <3>3
      <3>5. QED
        BY <2>3, <3>2, <3>4
    <2>7. QED
      BY <2>5, <2>6
  <1>5. ASSUME NEW r \in Run, NEW ev \in Event, RunEventTold(r, ev), ev.step = s PROVE FALSE
    BY <1>5, EventKinds DEF RunEventTold
  <1>6. QED
    BY <1>2, <1>3, <1>4, <1>5, NextTells DEF Told

(* The status of a step is the one its run's journal tells: its last event, and the failure
   of the run where the step was still running, give back the status in the table. *)
THEOREM JournalExplainsStepsHolds == Spec => []JournalExplainsSteps
  <1>1. Init => JournalExplainsSteps
    BY DEF Init, JournalExplainsSteps, StepExists, NoStep
  <1>2. QED
    BY <1>1, JournalExplainsStepsNext, TypeInvInit, TypeInvNext, PTL DEF Spec

-----------------------------------------------------------------------------
(* Between two starts: a log that is extended keeps its failures, and the new start finds
   the step failed, which its journal explains by a failure after the last start. *)

FailureBetween(log, i, j) ==
    \E m \in i+1..j-1 :
        \/ log[m].type = "run.failed"
        \/ log[m].type = "step.failed" /\ log[m].step = log[i].step

Restarts(log, i, j) ==
    /\ i < j
    /\ log[i].type = "step.started" /\ log[j].type = "step.started"
    /\ log[i].step = log[j].step

(* A step that its journal says has failed has failed after each of its starts. *)
LEMMA FailureAfterStart ==
    ASSUME NEW log \in Seq(Event), NEW s \in Step,
           NEW last \in 1..Len(log), IsLastStepEvent(log, s, last),
           StatusOfStepEvent(log, last) = "failed",
           NEW i \in 1..Len(log), log[i].type = "step.started", log[i].step = s
    PROVE  \E m \in i+1..Len(log) :
             \/ log[m].type = "run.failed"
             \/ log[m].type = "step.failed" /\ log[m].step = s
  <1>0. Len(log) \in Nat /\ i <= last /\ log[last].step = s
    BY DEF IsLastStepEvent
  <1>1. CASE log[last].type = "step.failed"
    <2>1. i # last
      BY <1>1
    <2>2. last \in i+1..Len(log)
      BY <1>0, <2>1
    <2>3. QED
      BY <1>0, <1>1, <2>2
  <1>2. CASE log[last].type # "step.failed"
    <2>1. \E m \in last+1..Len(log) : log[m].type = "run.failed"
      BY <1>2, StatusTold
    <2>2. last+1..Len(log) \subseteq i+1..Len(log)
      BY <1>0
    <2>3. QED
      BY <2>1, <2>2
  <1>3. QED
    BY <1>1, <1>2

LEMMA RetryOnlyAfterFailureNext ==
    ASSUME TypeInv, JournalIsLocal, JournalExplainsSteps, RetryOnlyAfterFailure, [Next]_vars
    PROVE  RetryOnlyAfterFailure'
  <1> SUFFICES ASSUME NEW q \in Run, NEW i \in 1..Len(events'[q]), NEW j \in 1..Len(events'[q]),
                      Restarts(events'[q], i, j)
               PROVE  FailureBetween(events'[q], i, j)
    BY DEF RetryOnlyAfterFailure, Restarts, FailureBetween
  <1> DEFINE log == events[q]
             n == Len(log)
  <1>0. TypeOK /\ log \in Seq(Event) /\ n \in Nat
    BY DEF TypeInv, TypeOK
  <1>1. ASSUME NEW a \in 1..n, NEW b \in 1..n, Restarts(log, a, b)
        PROVE  FailureBetween(log, a, b)
    BY <1>1 DEF RetryOnlyAfterFailure, Restarts, FailureBetween
  <1>2. CASE events'[q] = log
    BY <1>1, <1>2
  <1>3. ASSUME NEW ev \in Event, events'[q] = Append(log, ev),
               RunEventTold(q, ev) \/ StepEventTold(q, ev)
        PROVE  FailureBetween(events'[q], i, j)
    <2>1. /\ Len(events'[q]) = n + 1 /\ events'[q][n + 1] = ev
          /\ \A m \in 1..n : events'[q][m] = log[m]
      BY <1>0, <1>3, AppendedLog
    <2>2. i \in 1..n /\ events'[q][i] = log[i]
      BY <1>0, <2>1 DEF Restarts
    <2>3. ASSUME NEW m \in i+1..n, m \in i+1..j-1,
                 \/ log[m].type = "run.failed"
                 \/ log[m].type = "step.failed" /\ log[m].step = log[i].step
          PROVE  FailureBetween(events'[q], i, j)
      <3>1. m \in 1..n
        BY <1>0, <2>2, <2>3
      <3>2. events'[q][m] = log[m]
        BY <2>1, <3>1
      <3>3. QED
        BY <2>2, <2>3, <3>2 DEF FailureBetween
    <2>4. CASE j \in 1..n
      <3>1. Restarts(log, i, j)
        BY <2>1, <2>2, <2>4 DEF Restarts
      <3>2. PICK m \in i+1..j-1 :
                 \/ log[m].type = "run.failed"
                 \/ log[m].type = "step.failed" /\ log[m].step = log[i].step
        BY <1>1, <2>2, <2>4, <3>1 DEF FailureBetween
      <3>3. m \in i+1..n
        BY <1>0, <2>2, <2>4
      <3>4. QED
        BY <2>3, <3>2, <3>3
    <2>5. CASE j = n + 1
      <3>1. ev.type = "step.started" /\ log[i].type = "step.started" /\ log[i].step = ev.step
        BY <2>1, <2>2, <2>5 DEF Restarts
      <3>2. StepEventTold(q, ev)
        BY <1>3, <3>1, EventKinds DEF RunEventTold, RunEventType
      <3> DEFINE s == ev.step
      <3>3. s \in Step /\ StepExists(s) /\ steps[s].run = q /\ steps[s].status = "failed"
        <4>1. s \in Step /\ s # NULL
          BY <3>2, NullAssumption DEF StepEventTold
        <4>2. StepExists(s) /\ steps[s].run = q
          BY <2>2, <3>1, <4>1 DEF JournalIsLocal
        <4>3. QED
          BY <3>1, <3>2, <4>1, <4>2 DEF StepEventTold
      <3>4. PICK last \in 1..n : IsLastStepEvent(log, s, last) /\ StatusOfStepEvent(log, last) = "failed"
        BY <3>3 DEF JournalExplainsSteps
      <3> HIDE DEF s
      <3>5. PICK m \in i+1..n : \/ log[m].type = "run.failed"
                                \/ log[m].type = "step.failed" /\ log[m].step = s
        BY <1>0, <2>2, <3>1, <3>3, <3>4, FailureAfterStart DEF s
      <3>6. m \in i+1..j-1
        BY <1>0, <2>5
      <3>7. QED
        BY <2>3, <3>1, <3>5, <3>6 DEF s
    <2>6. QED
      BY <1>0, <2>1, <2>4, <2>5
  <1>4. ASSUME NEW r \in Run, NEW ev \in Event,
               events' = [events EXCEPT ![r] = Append(@, ev)],
               RunEventTold(r, ev) \/ StepEventTold(r, ev)
        PROVE  FailureBetween(events'[q], i, j)
    <2>1. IF q = r THEN events'[q] = Append(log, ev) ELSE events'[q] = log
      BY <1>0, <1>4 DEF TypeOK
    <2>2. QED
      BY <1>2, <1>3, <1>4, <2>1
  <1>5. QED
    BY <1>2, <1>4, NextTells DEF Told

(* begin_step restarts nothing that runs or is completed: between two starts of a step its
   journal records a failure, of the step or of its run. *)
THEOREM RetryOnlyAfterFailureHolds == Spec => []RetryOnlyAfterFailure
  <1>1. Init => RetryOnlyAfterFailure
    BY DEF Init, RetryOnlyAfterFailure
  <1>2. QED
    BY <1>1, RetryOnlyAfterFailureNext, JournalIsLocalHolds, JournalExplainsStepsHolds,
       TypeInvInit, TypeInvNext, PTL DEF Spec

-----------------------------------------------------------------------------
(* The refinement: each transaction on the tables is one of the operations promised to
   the executors of the observed run, or invisible to them. *)

USE DEF RunStatus, StepStatus, StoredError

(* A record of work, as the row of a step tells it. *)
RowRecord(row) == [status |-> row.status, hash |-> row.hash, output |-> row.output]

Record == [status: StepStatus \cup {"absent"}, hash: Hash \cup {NULL}, output: Value \cup {NULL}]

LEMMA RecordUpdates ==
    ASSUME NEW a \in Record, NEW st \in StepStatus
    PROVE  /\ \A v \in Value : [a EXCEPT !.status = st, !.output = v]
                                = [status |-> st, hash |-> a.hash, output |-> v]
           /\ \A h \in Hash : [a EXCEPT !.status = st, !.hash = h]
                               = [status |-> st, hash |-> h, output |-> a.output]
  <1> USE DEF Record
  <1>1. ASSUME NEW b \in Record, NEW c \in Record,
               b.status = c.status, b.hash = c.hash, b.output = c.output
        PROVE  b = c
    BY <1>1
  <1>2. ASSUME NEW v \in Value
        PROVE  [a EXCEPT !.status = st, !.output = v]
                = [status |-> st, hash |-> a.hash, output |-> v]
    <2> DEFINE b == [a EXCEPT !.status = st, !.output = v]
               c == [status |-> st, hash |-> a.hash, output |-> v]
    <2>1. b \in Record /\ c \in Record
      OBVIOUS
    <2>2. b.status = c.status /\ b.hash = c.hash /\ b.output = c.output
      OBVIOUS
    <2> HIDE DEF b, c
    <2>3. b = c
      BY <1>1, <2>1, <2>2
    <2>4. QED
      BY <2>3 DEF b, c
  <1>3. ASSUME NEW h \in Hash
        PROVE  [a EXCEPT !.status = st, !.hash = h]
                = [status |-> st, hash |-> h, output |-> a.output]
    <2> DEFINE b == [a EXCEPT !.status = st, !.hash = h]
               c == [status |-> st, hash |-> h, output |-> a.output]
    <2>1. b \in Record /\ c \in Record
      OBVIOUS
    <2>2. b.status = c.status /\ b.hash = c.hash /\ b.output = c.output
      OBVIOUS
    <2> HIDE DEF b, c
    <2>3. b = c
      BY <1>1, <2>1, <2>2
    <2>4. QED
      BY <2>3 DEF b, c
  <1>4. QED
    BY <1>2, <1>3

LEMMA OnlyChoice ==
    ASSUME NEW T, NEW s \in T, \A t \in T : t = s
    PROVE  T # {} /\ (CHOOSE t \in T : TRUE) = s
  OBVIOUS

(* The record of a key is that of the one row with that key, if there is one. *)
LEMMA RecordOfRow ==
    ASSUME OneStepPerKey, NEW k \in Key, NEW s \in StepsAt(Observed, k)
    PROVE  RecordAt(k) = RowRecord(steps[s])
  <1>1. \A t \in StepsAt(Observed, k) : t = s
    BY DEF StepsAt, OneStepPerKey
  <1>2. QED
    BY <1>1, OnlyChoice DEF RecordAt, RowRecord

LEMMA RecordOfRowNext ==
    ASSUME OneStepPerKey', NEW k \in Key, NEW s \in StepsAt(Observed, k)'
    PROVE  RecordAt(k)' = RowRecord(steps'[s])
  <1>1. \A t \in StepsAt(Observed, k)' : t = s
    BY DEF StepsAt, OneStepPerKey, StepExists
  <1>2. QED
    BY <1>1, OnlyChoice DEF RecordAt, RowRecord

(* Rows of other runs, and rows that do not change, leave the records alone. *)
Unseen(k) ==
    \A s \in Step : \/ steps'[s] = steps[s]
                    \/ s \notin StepsAt(Observed, k) /\ s \notin StepsAt(Observed, k)'

LEMMA UnseenRecord ==
    ASSUME OneStepPerKey, OneStepPerKey', NEW k \in Key, Unseen(k)
    PROVE  RecordAt(k)' = RecordAt(k)
  <1>1. StepsAt(Observed, k)' = StepsAt(Observed, k)
    BY DEF Unseen, StepsAt, StepExists
  <1>2. CASE StepsAt(Observed, k) = {}
    BY <1>1, <1>2 DEF RecordAt
  <1>3. ASSUME NEW s \in StepsAt(Observed, k)
        PROVE  RecordAt(k)' = RecordAt(k)
    <2>1. steps'[s] = steps[s]
      BY <1>1 DEF Unseen, StepsAt
    <2>2. QED
      BY <1>1, <2>1, RecordOfRow, RecordOfRowNext
  <1>4. QED
    BY <1>2, <1>3

(* Rewriting the row of key k changes the record of k alone, to what the row tells. *)
LEMMA RewrittenRecord ==
    ASSUME TypeOK, OneStepPerKey, OneStepPerKey', NEW s \in Step, NEW row, NEW k \in Key,
           steps' = [steps EXCEPT ![s] = row], row.status # "absent",
           row.run = Observed, row.key = k,
           StepExists(s) => steps[s].run = Observed /\ steps[s].key = k
    PROVE  /\ RecordAt(k)' = RowRecord(row)
           /\ \A j \in Key \ {k} : RecordAt(j)' = RecordAt(j)
  <1>1. steps'[s] = row /\ \A t \in Step \ {s} : steps'[t] = steps[t]
    BY DEF TypeOK
  <1>2. s \in StepsAt(Observed, k)'
    BY <1>1 DEF StepsAt, StepExists
  <1>3. ASSUME NEW j \in Key \ {k} PROVE Unseen(j)
    BY <1>1 DEF Unseen, StepsAt, StepExists
  <1>4. QED
    BY <1>1, <1>2, <1>3, RecordOfRowNext, UnseenRecord

(* What the executors of the observed run see of a step. *)
Steps == [k \in Key |-> RecordAt(k)]
Seen == <<runs[Observed].status, Steps>>

LEMMA RewrittenSteps ==
    ASSUME NEW k \in Key, \A j \in Key \ {k} : RecordAt(j)' = RecordAt(j)
    PROVE  Steps' = [Steps EXCEPT ![k] = RecordAt(k)']
  BY DEF Steps

LEMMA UnseenSteps ==
    ASSUME OneStepPerKey, OneStepPerKey', \A k \in Key : Unseen(k)
    PROVE  Steps' = Steps
  BY UnseenRecord DEF Steps
-----------------------------------------------------------------------------
(* Each operation, as the executors of the observed run see it. *)

Implemented == Durable!DurableNext \/ UNCHANGED Seen

(* fail_run with its cascade is the promised AbandonRun: the rows it fails are those whose
   records are running. *)
LEMMA FailRunImplements ==
    ASSUME TypeInv, OneStepPerKey, OneStepPerKey', NEW r \in Run, NEW e \in ErrorText, FailRun(r, e)
    PROVE  Implemented
  <1>0. /\ TypeOK /\ Observed \in Run
        /\ \A s \in Step : steps[s] \in StepRow
    BY ObservedAssumption DEF TypeInv, TypeOK
  <1>1. ASSUME NEW s \in Step
        PROVE  /\ steps'[s].run = steps[s].run /\ steps'[s].key = steps[s].key
               /\ StepExists(s)' <=> StepExists(s)
               /\ steps[s].run # r => steps'[s] = steps[s]
               /\ steps[s].run = r => RowRecord(steps'[s]) = IF steps[s].status = "running"
                                                       THEN [RowRecord(steps[s]) EXCEPT !.status = "failed"]
                                                       ELSE RowRecord(steps[s])
    <2>1. CASE steps[s].run = r /\ steps[s].status = "running"
      <3>1. steps'[s] = Stopped(steps[s], "failed", "run failed")
        BY <2>1 DEF FailRun, CascadeFailure
      <3>2. QED
        BY <1>0, <2>1, <3>1 DEF Stopped, StepRow, StepExists, RowRecord
    <2>2. CASE ~(steps[s].run = r /\ steps[s].status = "running")
      <3>1. steps'[s] = steps[s]
        BY <2>2 DEF FailRun, CascadeFailure
      <3>2. QED
        BY <2>2, <3>1 DEF StepExists, RowRecord
    <2>3. QED
      BY <2>1, <2>2
  <1>2. CASE r # Observed
    <2>1. \A k \in Key : Unseen(k)
      BY <1>1, <1>2 DEF Unseen, StepsAt
    <2>2. runs'[Observed] = runs[Observed]
      BY <1>0, <1>2 DEF FailRun, TypeOK
    <2>3. QED
      BY <2>1, <2>2, UnseenSteps DEF Implemented, Seen
  <1>3. CASE r = Observed
    <2>1. runs[Observed].status # "absent" /\ runs'[Observed].status = "failed"
      BY <1>0, <1>3 DEF FailRun, RunExists, Stopped, TypeOK, RunRow
    <2>2. ASSUME NEW k \in Key
          PROVE  RecordAt(k)' = IF RecordAt(k).status = "running"
                                THEN [RecordAt(k) EXCEPT !.status = "failed"]
                                ELSE RecordAt(k)
      <3>1. StepsAt(Observed, k)' = StepsAt(Observed, k)
        BY <1>1 DEF StepsAt
      <3>2. CASE StepsAt(Observed, k) = {}
        BY <3>1, <3>2 DEF RecordAt
      <3>3. ASSUME NEW s \in StepsAt(Observed, k)
            PROVE  RecordAt(k)' = IF RecordAt(k).status = "running"
                                  THEN [RecordAt(k) EXCEPT !.status = "failed"]
                                  ELSE RecordAt(k)
        <4>1. RecordAt(k) = RowRecord(steps[s]) /\ RecordAt(k)' = RowRecord(steps'[s])
          BY <3>1, RecordOfRow, RecordOfRowNext
        <4>2. RowRecord(steps[s]).status = steps[s].status
          BY DEF RowRecord
        <4>3. QED
          BY <1>1, <1>3, <4>1, <4>2 DEF StepsAt
      <3>4. QED
        BY <3>2, <3>3
    <2>3. Durable!AbandonRun
      BY <2>1, <2>2 DEF Durable!AbandonRun
    <2>4. QED
      BY <2>3 DEF Implemented, Durable!DurableNext
  <1>4. QED
    BY <1>2, <1>3

LEMMA RunOperationImplements ==
    ASSUME TypeInv, OneStepPerKey, OneStepPerKey', NEW r \in Run, RunOperation(r)
    PROVE  Implemented
  <1>0. /\ TypeOK /\ Observed \in Run
        /\ \A q \in Run : runs[q] \in RunRow
    BY ObservedAssumption DEF TypeInv, TypeOK
  <1>1. CASE \E e \in ErrorText : FailRun(r, e)
    BY <1>1, FailRunImplements
  <1>2. CASE ~\E e \in ErrorText : FailRun(r, e)
    <2>1. steps' = steps
      BY <1>2 DEF RunOperation, CreateRun, SetRunOutput, SetRunInput, CompleteRun, ResumeRun
    <2>2. Steps' = Steps
      BY <2>1, UnseenSteps DEF Unseen
    <2>3. CASE r # Observed
      <3>1. \E row : runs' = [runs EXCEPT ![r] = row]
        BY <1>2 DEF RunOperation, CreateRun, SetRunOutput, SetRunInput, CompleteRun, ResumeRun
      <3>2. runs'[Observed] = runs[Observed]
        BY <1>0, <2>3, <3>1 DEF TypeOK
      <3>3. QED
        BY <2>2, <3>2 DEF Implemented, Seen
    <2>4. CASE r = Observed
      <3>1. ASSUME NEW n \in Name, NEW i \in Value \cup {NULL},
                   NEW p \in Provenance \cup {NULL}, CreateRun(r, n, i, p)
            PROVE  Durable!StartRun
        BY <1>0, <2>2, <2>4, <3>1
        DEF CreateRun, RunExists, Durable!StartRun, Steps, TypeOK, NoRun
      <3>2. ASSUME NEW v \in Value, SetRunOutput(r, v) \/ SetRunInput(r, v)
            PROVE  UNCHANGED Seen
        <4>1. \/ runs'[Observed] = [runs[Observed] EXCEPT !.output = v]
              \/ runs'[Observed] = [runs[Observed] EXCEPT !.input = v]
          BY <1>0, <2>4, <3>2 DEF SetRunOutput, SetRunInput, TypeOK
        <4>2. QED
          BY <1>0, <2>2, <4>1 DEF Seen, RunRow
      <3>3. ASSUME CompleteRun(r) PROVE Durable!FinishRun
        BY <1>0, <2>2, <2>4, <3>3
        DEF CompleteRun, RunExists, Stopped, RunRow, Durable!FinishRun, Steps, TypeOK
      <3>4. ASSUME ResumeRun(r) PROVE Durable!RestartRun
        BY <1>0, <2>2, <2>4, <3>4
        DEF ResumeRun, RunExists, Restarted, RunRow, Durable!RestartRun, Steps, TypeOK
      <3>5. QED
        BY <1>2, <3>1, <3>2, <3>3, <3>4 DEF RunOperation, Implemented, Durable!DurableNext
    <2>5. QED
      BY <2>3, <2>4
  <1>3. QED
    BY <1>1, <1>2

(* A row that an operation inserts or rewrites is told in the record of its key, when it
   belongs to the observed run, and nowhere else. *)
LEMMA RewrittenRow ==
    ASSUME TypeOK, OneStepPerKey, OneStepPerKey', runs' = runs, NEW s \in Step, NEW row,
           steps' = [steps EXCEPT ![s] = row], row.status # "absent",
           StepExists(s) => steps[s].run = row.run /\ steps[s].key = row.key
    PROVE  \/ UNCHANGED Seen
           \/ /\ row.run = Observed /\ row.key \in Key
              /\ runs'[Observed].status = runs[Observed].status
              /\ Steps' = [Steps EXCEPT ![row.key] = RowRecord(row)]
  <1>1. CASE row.run = Observed /\ row.key \in Key
    <2>1. /\ RecordAt(row.key)' = RowRecord(row)
          /\ \A j \in Key \ {row.key} : RecordAt(j)' = RecordAt(j)
      BY <1>1, RewrittenRecord
    <2>2. QED
      BY <1>1, <2>1, RewrittenSteps
  <1>2. CASE ~(row.run = Observed /\ row.key \in Key)
    <2>1. steps'[s] = row /\ \A t \in Step \ {s} : steps'[t] = steps[t]
      BY DEF TypeOK
    <2>2. \A k \in Key : Unseen(k)
      BY <1>2, <2>1 DEF Unseen, StepsAt
    <2>3. QED
      BY <2>2, UnseenSteps DEF Seen
  <1>3. QED
    BY <1>1, <1>2

LEMMA StepOperationImplements ==
    ASSUME TypeInv, OneStepPerKey, OneStepPerKey', NEW c \in Client, StepOperation(c)
    PROVE  Implemented
  <1>0. /\ TypeOK /\ Observed \in Run /\ NULL \notin Step
        /\ \A s \in Step : steps[s] \in StepRow
    BY ObservedAssumption, NullAssumption DEF TypeInv, TypeOK
  <1>1. ASSUME NEW s \in Step, NEW v \in Value,
               StepExists(s), runs' = runs,
               steps' = [steps EXCEPT ![s] = [Stopped(steps[s], "completed", NULL) EXCEPT !.output = v]]
        PROVE  Implemented
    <2> DEFINE row == [Stopped(steps[s], "completed", NULL) EXCEPT !.output = v]
    <2>1. /\ row.status = "completed" /\ row.output = v
          /\ row.run = steps[s].run /\ row.key = steps[s].key /\ row.hash = steps[s].hash
      <3>1. steps[s] \in StepRow
        BY <1>0
      <3>2. QED
        BY <3>1, CompletedRowFields
    <2>2. steps' = [steps EXCEPT ![s] = row]
      BY <1>1
    <2> HIDE DEF row
    <2>3. CASE /\ row.run = Observed /\ row.key \in Key
               /\ runs'[Observed].status = runs[Observed].status
               /\ Steps' = [Steps EXCEPT ![row.key] = RowRecord(row)]
      <3>0. s \in StepsAt(Observed, row.key)
        BY <1>1, <2>1, <2>3 DEF StepsAt
      <3>1. Steps[row.key] = RowRecord(steps[s]) /\ RowRecord(steps[s]).status # "absent"
        BY <1>1, <2>3, <3>0, RecordOfRow DEF Steps, RowRecord, StepExists
      <3>2. RowRecord(row) = [RowRecord(steps[s]) EXCEPT !.status = "completed", !.output = v]
        <4>1. RowRecord(steps[s]) \in Record /\ RowRecord(steps[s]).hash = steps[s].hash
          BY <1>0 DEF RowRecord, Record, StepRow
        <4>2. [RowRecord(steps[s]) EXCEPT !.status = "completed", !.output = v]
                = [status |-> "completed", hash |-> RowRecord(steps[s]).hash, output |-> v]
          BY <4>1, RecordUpdates
        <4>3. QED
          BY <2>1, <4>1, <4>2 DEF RowRecord
      <3>3. Durable!FinishWork(row.key, v)
        BY <2>3, <3>1, <3>2 DEF Durable!FinishWork, Steps
      <3>4. QED
        BY <2>3, <3>3 DEF Implemented, Durable!DurableNext
    <2>4. QED
      BY <1>0, <1>1, <2>1, <2>2, <2>3, RewrittenRow DEF Implemented
  <1>2. ASSUME NEW s \in Step, NEW e, StepExists(s), runs' = runs,
               steps' = [steps EXCEPT ![s] = Stopped(steps[s], "failed", e)]
        PROVE  Implemented
    <2> DEFINE row == Stopped(steps[s], "failed", e)
    <2>1. /\ row.status = "failed" /\ row.output = steps[s].output
          /\ row.run = steps[s].run /\ row.key = steps[s].key /\ row.hash = steps[s].hash
      BY <1>0 DEF Stopped, StepRow
    <2>2. steps' = [steps EXCEPT ![s] = row]
      BY <1>2
    <2> HIDE DEF row
    <2>3. CASE /\ row.run = Observed /\ row.key \in Key
               /\ runs'[Observed].status = runs[Observed].status
               /\ Steps' = [Steps EXCEPT ![row.key] = RowRecord(row)]
      <3>0. s \in StepsAt(Observed, row.key)
        BY <1>2, <2>1, <2>3 DEF StepsAt
      <3>1. Steps[row.key] = RowRecord(steps[s]) /\ RowRecord(steps[s]).status # "absent"
        BY <1>2, <2>3, <3>0, RecordOfRow DEF Steps, RowRecord, StepExists
      <3>2. RowRecord(row) = [RowRecord(steps[s]) EXCEPT !.status = "failed"]
        BY <2>1 DEF RowRecord
      <3>3. Durable!AbandonWork(row.key)
        BY <2>3, <3>1, <3>2 DEF Durable!AbandonWork, Steps
      <3>4. QED
        BY <2>3, <3>3 DEF Implemented, Durable!DurableNext
    <2>4. QED
      BY <1>0, <1>2, <2>1, <2>2, <2>3, RewrittenRow DEF Implemented
  <1>3. ASSUME NEW r \in Run, NEW k \in Key, NEW h \in Hash, NEW s \in Step,
               BeginNewStep(c, r, k, h, s)
        PROVE  Implemented
    <2> DEFINE row == [NoStep EXCEPT !.status = "running", !.run = r, !.key = k, !.hash = h]
    <2>1. /\ row.status = "running" /\ row.output = NULL
          /\ row.run = r /\ row.key = k /\ row.hash = h
      BY DEF NoStep
    <2>2. /\ steps' = [steps EXCEPT ![s] = row] /\ ~StepExists(s) /\ runs' = runs
          /\ StepsAt(r, k) = {} /\ RunExists(r)
      BY <1>3 DEF BeginNewStep
    <2> HIDE DEF row
    <2>3. CASE /\ row.run = Observed /\ row.key \in Key
               /\ runs'[Observed].status = runs[Observed].status
               /\ Steps' = [Steps EXCEPT ![row.key] = RowRecord(row)]
      <3>1. Steps[k] = Durable!NoRecord
        BY <2>1, <2>2, <2>3 DEF Steps, RecordAt, Durable!NoRecord
      <3>2. RowRecord(row) = [Durable!NoRecord EXCEPT !.status = "running", !.hash = h]
        <4>1. Durable!NoRecord \in Record /\ Durable!NoRecord.output = NULL
          BY DEF Durable!NoRecord, Record
        <4>2. [Durable!NoRecord EXCEPT !.status = "running", !.hash = h]
                = [status |-> "running", hash |-> h, output |-> NULL]
          BY <4>1, RecordUpdates
        <4>3. QED
          BY <2>1, <4>2 DEF RowRecord
      <3>3. Durable!NewWork(k, h)
        BY <2>1, <2>2, <2>3, <3>1, <3>2
        DEF Durable!NewWork, Durable!NoRecord, Steps, RunExists
      <3>4. QED
        BY <3>3 DEF Implemented, Durable!DurableNext
    <2>4. QED
      BY <1>0, <2>1, <2>2, <2>3, RewrittenRow DEF Implemented
  <1>4. ASSUME NEW r \in Run, NEW k \in Key, NEW h \in Hash, NEW s \in Step,
               RetryFailedStep(c, r, k, h, s)
        PROVE  Implemented
    <2> DEFINE row == Restarted(steps[s])
    <2>1. /\ row.status = "running" /\ row.output = steps[s].output
          /\ row.run = steps[s].run /\ row.key = steps[s].key /\ row.hash = steps[s].hash
      BY <1>0 DEF Restarted, StepRow
    <2>2. /\ steps' = [steps EXCEPT ![s] = row] /\ runs' = runs
          /\ s \in StepsAt(r, k) /\ steps[s].hash = h /\ steps[s].status = "failed"
          /\ StepExists(s) /\ steps[s].run = r /\ steps[s].key = k
      BY <1>4 DEF RetryFailedStep, StepsAt
    <2> HIDE DEF row
    <2>3. CASE /\ row.run = Observed /\ row.key \in Key
               /\ runs'[Observed].status = runs[Observed].status
               /\ Steps' = [Steps EXCEPT ![row.key] = RowRecord(row)]
      <3>1. Steps[k] = RowRecord(steps[s])
        BY <2>1, <2>2, <2>3, RecordOfRow DEF Steps
      <3>2. RowRecord(row) = [RowRecord(steps[s]) EXCEPT !.status = "running"]
        BY <2>1 DEF RowRecord
      <3>3. Steps[k].status = "failed" /\ Steps[k].hash = h
        BY <2>2, <3>1 DEF RowRecord
      <3>4. Steps' = [Steps EXCEPT ![k].status = "running"]
        BY <2>1, <2>2, <2>3, <3>1, <3>2
      <3>5. Durable!RetryWork(k, h)
        BY <2>3, <3>3, <3>4 DEF Durable!RetryWork, Steps
      <3>6. QED
        BY <3>5 DEF Implemented, Durable!DurableNext
    <2>4. QED
      BY <1>0, <2>1, <2>2, <2>3, RewrittenRow DEF Implemented
  <1>5. ASSUME UNCHANGED <<runs, steps>>
        PROVE  Implemented
    BY <1>5, UnseenSteps DEF Unseen, Implemented, Seen
  <1>6. ASSUME NEW v \in Value, NEW lost \in BOOLEAN, CompleteStep(c, v, lost)
        PROVE  Implemented
    <2>1. holds[c].step \in Step
      BY <1>0, <1>6 DEF CompleteStep, TypeOK, Decision
    <2>2. QED
      BY <1>1, <1>6, <2>1 DEF CompleteStep
  <1>7. ASSUME NEW e \in ErrorText, FailStep(c, e)
        PROVE  Implemented
    <2>1. holds[c].step \in Step
      BY <1>0, <1>7 DEF FailStep, TypeOK, Decision
    <2>2. QED
      BY <1>2, <1>7, <2>1 DEF FailStep
  <1>8. QED
    BY <1>3, <1>4, <1>5, <1>6, <1>7
    DEF StepOperation, BeginStep, BeginRunningStep, ReuseStep, Release, tables

-----------------------------------------------------------------------------
(* Whatever clients race on it, and with any number of other runs beside it, the tables of
   a run behave as one record of work per step key: created once, bound to the hash it was
   first asked for, retried only after a failure, and completed or failed as a whole. *)
THEOREM RunStoreImplementsDurableSteps == Spec => ImplementsDurableSteps
  <1>1. Init => Durable!DurableInit
    <2>1. NoStep.status = "absent" /\ NoRun.status = "absent"
      BY DEF NoStep, NoRun
    <2>2. QED
      BY <2>1, ObservedAssumption
      DEF Init, Durable!DurableInit, Durable!NoRecord, RecordAt, StepsAt, StepExists
  <1>2. TypeInv /\ OneStepPerKey /\ OneStepPerKey' /\ [Next]_vars
            => [Durable!DurableNext]_(Durable!durable)
    <2> SUFFICES ASSUME TypeInv, OneStepPerKey, OneStepPerKey', [Next]_vars
                 PROVE  Implemented
      BY DEF Implemented, Seen, Steps, Durable!durable
    <2>1. CASE UNCHANGED vars
      BY <2>1, UnseenSteps DEF vars, Unseen, Implemented, Seen
    <2>2. QED
      BY <2>1, RunOperationImplements, StepOperationImplements DEF Next
  <1>3. QED
    BY <1>1, <1>2, TypeInvInit, TypeInvNext, OneStepPerKeyHolds, PTL
    DEF Spec, Durable!DurableSpec, ImplementsDurableSteps
=============================================================================
