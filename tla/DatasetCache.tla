---------------------------- MODULE DatasetCache ----------------------------
(***************************************************************************)
(* The on-disk cache of dataset batches (cli/src/dataset/) as the batch    *)
(* loops of runs use it (for_each_concurrent in                            *)
(* cli/src/builtins/dataset_runner.rs).  A batch is a file under its       *)
(* source, offset and limit; it is written in place, with no lock, by      *)
(* whichever loop misses it, and read by every later loop that asks for    *)
(* the same batch.                                                         *)
(*                                                                         *)
(* A row is known by its source and its index; what happens to it in its   *)
(* loop is the subject of EvalRun.                                         *)
(***************************************************************************)
EXTENDS Integers, FiniteSets

CONSTANTS
    Loop,        \* batch loops, one per attempt at a run
    Source,      \* dataset, configuration, split and revision
    Of,          \* [Loop -> its source]
    Size,        \* [Source -> the rows it has]
    Limit,       \* [Loop -> the rows its run asks for]
    BatchSize

ASSUME LoopAssumption == Of \in [Loop -> Source] /\ Limit \in [Loop -> Nat]
ASSUME SizeAssumption == Size \in [Source -> Nat] /\ BatchSize \in Nat \ {0}

VARIABLES
    file,        \* [paths that exist -> what is in the file]
    pc,          \* [Loop -> where the loop, or its call of batch(), stands]
    processed,   \* [Loop -> rows it is through with, also the offset it is at]
    seen,        \* [Loop -> those rows]
    fetched      \* [Loop -> rows of a batch on their way to its file]

vars == <<file, pc, processed, seen, fetched>>
counters == <<processed, seen>>

Least(a, b) == IF a <= b THEN a ELSE b

Row == UNION {[source : {s}, index : 0..Size[s]-1] : s \in Source}
Path == [source : Source, offset : Nat, limit : 1..BatchSize]

(* A Parquet file is cut in two, its footer being in the tail. *)
Part == {"head", "tail"}

Total(l) == Least(Limit[l], Size[Of[l]])

TypeOK ==
    /\ \A k \in DOMAIN file :
        k \in Path /\ file[k].rows \subseteq Row /\ file[k].parts \subseteq Part
    /\ pc \in [Loop -> {"idle", "lookup", "length", "read", "fetch", "create", "head", "tail",
                        "done", "failed", "crashed"}]
    /\ \A l \in Loop : processed[l] \in 0..Total(l)
    /\ seen \in [Loop -> SUBSET Row]
    /\ fetched \in [Loop -> SUBSET Row]

Init ==
    /\ file = [k \in {} |-> {}]
    /\ pc = [l \in Loop |-> "idle"]
    /\ processed = [l \in Loop |-> 0]
    /\ seen = [l \in Loop |-> {}]
    /\ fetched = [l \in Loop |-> {}]

-----------------------------------------------------------------------------
Alive(l) == pc[l] \notin {"idle", "done", "failed", "crashed"}
At(l, label) == pc[l] = label
Goto(l, label) == pc' = [pc EXCEPT ![l] = label]

(* Rows offset .. offset+n-1 of a source, as far as it has them. *)
Slice(s, offset, n) == {r \in Row : r.source = s /\ r.index \in offset..offset+n-1}

(* The n first of some rows. *)
FirstOf(rows, n) == {r \in rows : Cardinality({q \in rows : q.index < r.index}) < n}

Remaining(l) == Limit[l] - processed[l]
BatchLimit(l) == Least(BatchSize, Remaining(l))

(* Mutants: the offset, or the source, is missing in the name of the file. *)
PathWithoutOffset(l) == [source |-> Of[l], offset |-> 0, limit |-> BatchLimit(l)]
PathWithoutSource(l) ==
    [source |-> CHOOSE s \in Source : TRUE, offset |-> processed[l], limit |-> BatchLimit(l)]
BatchPath(l) == [source |-> Of[l], offset |-> processed[l], limit |-> BatchLimit(l)]

Exists(l) == BatchPath(l) \in DOMAIN file
Content(l) == file[BatchPath(l)]
Write(l, content) ==
    file' = [k \in DOMAIN file \cup {BatchPath(l)} |-> IF k = BatchPath(l) THEN content ELSE file[k]]

(* What the loop does with an answer of batch().  Mutant: an empty batch does
   not end the loop. *)
NextBatchForever(l, rows) ==
    LET taken == FirstOf(rows, Remaining(l))
    IN  /\ seen' = [seen EXCEPT ![l] = @ \cup taken]
        /\ processed' = [processed EXCEPT ![l] = @ + Cardinality(taken)]
        /\ Goto(l, IF processed'[l] < Limit[l] THEN "lookup" ELSE "done")
NextBatch(l, rows) ==
    IF rows = {}
    THEN Goto(l, "done") /\ UNCHANGED counters
    ELSE LET taken == FirstOf(rows, Remaining(l))
         IN  /\ seen' = [seen EXCEPT ![l] = @ \cup taken]
             /\ processed' = [processed EXCEPT ![l] = @ + Cardinality(taken)]
             /\ Goto(l, IF processed'[l] < Limit[l] THEN "lookup" ELSE "done")

Start(l) ==
    /\ At(l, "idle")
    /\ Goto(l, IF Limit[l] > 0 THEN "lookup" ELSE "done")
    /\ UNCHANGED <<file, counters, fetched>>

-----------------------------------------------------------------------------
(* batch(): from the file if there is one.  A failed lookup counts as a miss. *)

Lookup(l) ==
    /\ At(l, "lookup")
    /\ \/ Exists(l) /\ Goto(l, "length")
       \/ Goto(l, "fetch")
    /\ UNCHANGED <<file, counters, fetched>>

(* A file of length zero stands for an empty batch. *)
ReadLength(l) ==
    /\ At(l, "length")
    /\ IF Content(l).parts = {}
       THEN NextBatch(l, {})
       ELSE Goto(l, "read") /\ UNCHANGED counters
    /\ UNCHANGED <<file, fetched>>

ReadRows(l) ==
    /\ At(l, "read") /\ Content(l).parts = Part
    /\ NextBatch(l, Content(l).rows)
    /\ UNCHANGED <<file, fetched>>

(* The rows of the source from here on, none beyond its end. *)
Fetch(l) ==
    /\ At(l, "fetch")
    /\ fetched' = [fetched EXCEPT ![l] = Slice(Of[l], processed[l], BatchLimit(l))]
    /\ Goto(l, "create")
    /\ UNCHANGED <<file, counters>>

(* Whatever the file held is gone; an empty batch leaves it at that. *)
Create(l) ==
    /\ At(l, "create")
    /\ Write(l, [rows |-> {}, parts |-> {}])
    /\ IF fetched[l] = {}
       THEN NextBatch(l, {})
       ELSE Goto(l, "head") /\ UNCHANGED counters
    /\ UNCHANGED fetched

(* The writer keeps its own position: after a truncation by somebody else its tail
   leaves a hole where the head was. *)
WriteHead(l) ==
    /\ At(l, "head")
    /\ Write(l, [rows |-> fetched[l], parts |-> Content(l).parts \cup {"head"}])
    /\ Goto(l, "tail")
    /\ UNCHANGED <<counters, fetched>>

WriteTail(l) ==
    /\ At(l, "tail")
    /\ Write(l, [rows |-> fetched[l], parts |-> Content(l).parts \cup {"tail"}])
    /\ NextBatch(l, fetched[l])
    /\ fetched' = [fetched EXCEPT ![l] = {}]

(* The network, the disk or a row fails, or the file is no Parquet file: the error ends
   the loop, and a file it was writing stays as it is. *)
Fail(l) ==
    /\ Alive(l)
    /\ Goto(l, "failed")
    /\ UNCHANGED <<file, counters, fetched>>

Crash(l) ==
    /\ Alive(l)
    /\ Goto(l, "crashed")
    /\ UNCHANGED <<file, counters, fetched>>

-----------------------------------------------------------------------------
Proceed(l) ==
    \/ Lookup(l) \/ ReadLength(l) \/ ReadRows(l)
    \/ Fetch(l) \/ Create(l) \/ WriteHead(l) \/ WriteTail(l) \/ Fail(l)

Next == \E l \in Loop : Start(l) \/ Proceed(l) \/ Crash(l)
Spec == Init /\ [][Next]_vars

(* A loop that has started is polled, and its reads, writes and requests end. *)
FairSpec == Spec /\ \A l \in Loop : WF_vars(Proceed(l))

(* One loop at a time. *)
SoloNext ==
    \E l \in Loop :
        \/ (\A m \in Loop : ~Alive(m)) /\ Start(l)
        \/ Proceed(l)
        \/ Crash(l)
SoloSpec == Init /\ [][SoloNext]_vars

-----------------------------------------------------------------------------
(* Properties. *)

(* The rows a loop has been given are the first rows of its own source, none left out
   and none of another batch or source, whatever raced for the files, failed or
   crashed before. *)
LoopSeesPrefix == \A l \in Loop : seen[l] = Slice(Of[l], 0, processed[l])

(* The types are kept, and a file that can be read holds the batch it is named for,
   although several loops may have written parts of it. *)
ReadableFilesAreTrue ==
    /\ TypeOK
    /\ \A k \in DOMAIN file :
          file[k].parts = Part => file[k].rows = Slice(k.source, k.offset, k.limit)

(* Every loop comes to an end. *)
LoopsEnd == \A l \in Loop : Alive(l) ~> ~Alive(l)

(* A loop that ends without an error has been given every row its run asked for.  The
   empty file of a writer that is not through, or never was, stands for the end of the
   split, so this does not hold, not even with one loop at a time. *)
LoopSeesWholeDataset == \A l \in Loop : At(l, "done") => processed[l] = Total(l)
=============================================================================
