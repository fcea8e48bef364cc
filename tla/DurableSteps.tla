---------------------------- MODULE DurableSteps ----------------------------
(***************************************************************************)
(* What the workspace database promises the executors of one run: a status *)
(* for the run, and for every step key at most one record of work, bound   *)
(* to the input hash it was first asked for.  RunStore implements it with  *)
(* rows, ids and transactions; EvalRun is built on it.                     *)
(***************************************************************************)
CONSTANTS
    Key,      \* step keys
    Hash,     \* input hashes
    Value,    \* step outputs
    NULL

VARIABLES
    run,      \* status of the run
    step      \* [Key -> record of work]

durable == <<run, step>>

Status == {"absent", "running", "completed", "failed"}
Record == [status: Status, hash: Hash \cup {NULL}, output: Value \cup {NULL}]
NoRecord == [status |-> "absent", hash |-> NULL, output |-> NULL]

DurableType == run \in Status /\ step \in [Key -> Record]
DurableInit == run = "absent" /\ step = [k \in Key |-> NoRecord]

-----------------------------------------------------------------------------
StartRun ==
    /\ run = "absent"
    /\ run' = "running"
    /\ UNCHANGED step

RestartRun ==
    /\ run # "absent"
    /\ run' = "running"
    /\ UNCHANGED step

FinishRun ==
    /\ run # "absent"
    /\ run' = "completed"
    /\ UNCHANGED step

(* Work in progress fails with its run. *)
AbandonRun ==
    /\ run # "absent"
    /\ run' = "failed"
    /\ step' = [k \in Key |-> IF step[k].status = "running"
                              THEN [step[k] EXCEPT !.status = "failed"]
                              ELSE step[k]]

(* begin_step answers Run: for new work, for work somebody already started, and
   for work that failed. *)
NewWork(k, h) ==
    /\ run # "absent"
    /\ step[k].status = "absent"
    /\ step' = [step EXCEPT ![k] = [NoRecord EXCEPT !.status = "running", !.hash = h]]
    /\ UNCHANGED run

JoinWork(k, h) ==
    /\ step[k].status = "running" /\ step[k].hash = h
    /\ UNCHANGED durable

(* Mutants: a completed record is retried; a record is reused whatever its hash. *)
RetryAnyWork(k, h) ==
    /\ step[k].status \in {"failed", "completed"} /\ step[k].hash = h
    /\ step' = [step EXCEPT ![k].status = "running"]
    /\ UNCHANGED run
ReuseAnyHash(k, h) ==
    /\ step[k].status = "completed"
    /\ UNCHANGED durable

RetryWork(k, h) ==
    /\ step[k].status = "failed" /\ step[k].hash = h
    /\ step' = [step EXCEPT ![k].status = "running"]
    /\ UNCHANGED run

(* begin_step answers Reuse. *)
ReuseWork(k, h) ==
    /\ step[k].status = "completed" /\ step[k].hash = h
    /\ UNCHANGED durable

FinishWork(k, v) ==
    /\ step[k].status # "absent"
    /\ step' = [step EXCEPT ![k].status = "completed", ![k].output = v]
    /\ UNCHANGED run

AbandonWork(k) ==
    /\ step[k].status # "absent"
    /\ step' = [step EXCEPT ![k].status = "failed"]
    /\ UNCHANGED run

DurableNext ==
    \/ StartRun \/ RestartRun \/ FinishRun \/ AbandonRun
    \/ \E k \in Key, h \in Hash :
          NewWork(k, h) \/ JoinWork(k, h) \/ RetryWork(k, h) \/ ReuseWork(k, h)
    \/ \E k \in Key, v \in Value : FinishWork(k, v)
    \/ \E k \in Key : AbandonWork(k)

DurableSpec == DurableInit /\ [][DurableNext]_durable
=============================================================================
