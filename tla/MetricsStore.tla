---------------------------- MODULE MetricsStore ----------------------------
(***************************************************************************)
(* The metrics of one run (cli/src/metrics_store.rs): every `qt' process   *)
(* buffers the points it emits in memory, and flush writes its buffer over *)
(* the run's one Parquet file.                                             *)
(*                                                                         *)
(* A flush is not atomic: File::create truncates the file long before the  *)
(* writer is closed, and in between a reader finds no Parquet footer.      *)
(***************************************************************************)
EXTENDS Integers, FiniteSets

CONSTANT Proc     \* `qt' processes, each with a store of its own

VARIABLES
    buffer,   \* [Proc -> points emitted and not flushed]
    file      \* the run's Parquet file

metrics == <<buffer, file>>

NoFile == [state |-> "none", points |-> {}]
TornFile == [state |-> "torn", points |-> {}]
Written(points) == [state |-> "written", points |-> points]

MetricsType(Point) ==
    /\ buffer \in [Proc -> SUBSET Point]
    /\ file \in [state: {"none", "torn", "written"}, points: SUBSET Point]

MetricsInit ==
    /\ buffer = [p \in Proc |-> {}]
    /\ file = NoFile

Emit(p, point) ==
    /\ buffer' = [buffer EXCEPT ![p] = @ \cup {point}]
    /\ UNCHANGED file

(* flush of a buffer that is empty, or was taken by an earlier flush. *)
FlushNothing(p) ==
    /\ buffer[p] = {}
    /\ UNCHANGED metrics

FlushCreate(p) ==
    /\ buffer[p] # {}
    /\ file' = TornFile
    /\ UNCHANGED buffer

(* The writer fills the file it truncated.  If another process has written the
   same file since, the shorter of the two leaves the end of the longer behind. *)
FlushWrite(p) ==
    /\ \/ file' = Written(buffer[p])
       \/ file.state = "written" /\ file' = TornFile
    /\ buffer' = [buffer EXCEPT ![p] = {}]

(* The buffer dies with its process. *)
LoseBuffer(p) ==
    /\ buffer' = [buffer EXCEPT ![p] = {}]
    /\ UNCHANGED file

(* sample_metric_values: points of both places, each counted where it stands.
   Mutant: what is still buffered is not counted. *)
Readable == file.state # "torn"
CountPersisted(p, wanted) == Cardinality(file.points \cap wanted)
CountPoints(p, wanted) ==
    Cardinality(file.points \cap wanted) + Cardinality(buffer[p] \cap wanted)
=============================================================================
