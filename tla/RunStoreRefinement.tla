------------------------- MODULE RunStoreRefinement -------------------------
(***************************************************************************)
(* The tables of RunStore keep the promise of DurableSteps to any run:     *)
(* the rows of steps that carry the run's id are, key by key, its records  *)
(* of work.                                                                *)
(***************************************************************************)
EXTENDS RunStore

CONSTANT Observed    \* the run that is looked at
ASSUME ObservedAssumption == Observed \in Run

RecordAt(k) ==
    IF StepsAt(Observed, k) = {}
    THEN [status |-> "absent", hash |-> NULL, output |-> NULL]
    ELSE LET s == CHOOSE s \in StepsAt(Observed, k) : TRUE
         IN  [status |-> steps[s].status, hash |-> steps[s].hash, output |-> steps[s].output]

Durable ==
    INSTANCE DurableSteps WITH run <- runs[Observed].status,
                               step <- [k \in Key |-> RecordAt(k)]

(* Whatever clients race on them, and although begin_step only looks a key up
   before it inserts a row, the tables of a run behave as one record per key that
   is created, retried after a failure, completed or failed as a whole. *)
ImplementsDurableSteps == Durable!DurableSpec
=============================================================================
