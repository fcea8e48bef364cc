------------------------- MODULE DatasetCacheProofs -------------------------
(***************************************************************************)
(* Proofs about DatasetCache, for any number of loops, sources and rows,   *)
(* and any batch size: whatever raced for the files, a loop is given the   *)
(* first rows of its source in order, and a file that can be read is true. *)
(***************************************************************************)
EXTENDS DatasetCache, FiniteSetTheorems, TLAPS

(* A loop that is neither through nor idle has rows left to ask for, and so its batches
   are not empty by name. *)
RowsAreMissing == \A l \in Loop : Alive(l) => processed[l] < Limit[l]

(* Between the fetch and the last write a loop holds the very batch it will name its
   file for. *)
FetchedIsTheBatch ==
    \A l \in Loop :
        pc[l] \in {"create", "head", "tail"} =>
            fetched[l] = Slice(Of[l], processed[l], BatchLimit(l))

(* No file is ever removed: a loop that has found or created its file finds it. *)
FileIsThere == \A l \in Loop : pc[l] \in {"length", "read", "head", "tail"} => Exists(l)

(* Even a file with a hole has its rows from one that meant the same batch. *)
WrittenFilesAreTrue ==
    \A k \in DOMAIN file :
        file[k].parts # {} => file[k].rows = Slice(k.source, k.offset, k.limit)

(* A loop begins at the beginning. *)
NothingBeforeStart == \A l \in Loop : pc[l] = "idle" => processed[l] = 0

(* The inductive invariant. *)
CacheInv ==
    /\ TypeOK
    /\ processed \in [Loop -> Nat]
    /\ NothingBeforeStart
    /\ RowsAreMissing
    /\ FetchedIsTheBatch
    /\ FileIsThere
    /\ WrittenFilesAreTrue
    /\ LoopSeesPrefix

-----------------------------------------------------------------------------
(* Slices. *)

LEMMA LeastIsLeast ==
    \A a, b \in Int :
        /\ Least(a, b) \in Int /\ Least(a, b) <= a /\ Least(a, b) <= b
        /\ Least(a, b) = a \/ Least(a, b) = b
BY DEF Least

(* A row is a pair of a source and an index below its size. *)
LEMMA RowsOfSource ==
    ASSUME NEW s \in Source
    PROVE  /\ Size[s] \in Nat
           /\ \A r \in Row : r.source = s => r.index \in 0..Size[s]-1
           /\ \A i \in 0..Size[s]-1 : [source |-> s, index |-> i] \in Row
           /\ \A r \in Row : r = [source |-> r.source, index |-> r.index]
BY SizeAssumption DEF Row

(* A slice has the rows it asks for, as far as its source has them. *)
LEMMA SliceSize ==
    ASSUME NEW s \in Source, NEW offset \in Nat, NEW n \in Nat, offset <= Size[s]
    PROVE  /\ IsFiniteSet(Slice(s, offset, n))
           /\ Cardinality(Slice(s, offset, n)) = Least(n, Size[s] - offset)
<1> DEFINE last == offset + Least(n, Size[s] - offset) - 1
           indices == offset..last
           rowAt == [i \in indices |-> [source |-> s, index |-> i]]
<1>1. Size[s] \in Nat /\ last \in Int /\ last < Size[s] /\ last <= offset + n - 1
  BY RowsOfSource DEF Least
<1>2. rowAt \in [indices -> Slice(s, offset, n)]
  <2> SUFFICES ASSUME NEW i \in indices PROVE rowAt[i] \in Slice(s, offset, n)
    OBVIOUS
  <2>1. i \in 0..Size[s]-1 /\ i \in offset..offset+n-1
    BY <1>1
  <2> QED BY <2>1, RowsOfSource DEF Slice
<1>3. \A i, j \in indices : rowAt[i] = rowAt[j] => i = j
  OBVIOUS
<1>4. \A r \in Slice(s, offset, n) : \E i \in indices : rowAt[i] = r
  <2> SUFFICES ASSUME NEW r \in Slice(s, offset, n)
               PROVE  r.index \in indices /\ rowAt[r.index] = r
    OBVIOUS
  <2>1. r \in Row /\ r.source = s /\ r.index \in offset..offset+n-1
    BY DEF Slice
  <2>2. r.index \in 0..Size[s]-1 /\ r = [source |-> s, index |-> r.index]
    BY <2>1, RowsOfSource
  <2>3. r.index \in indices
    BY <1>1, <2>1, <2>2 DEF Least
  <2> QED BY <2>2, <2>3
<1>5. rowAt \in Bijection(indices, Slice(s, offset, n))
  <2> HIDE DEF indices, rowAt
  <2>1. rowAt \in Injection(indices, Slice(s, offset, n))
    BY <1>2, <1>3 DEF Injection, IsInjective
  <2>2. rowAt \in Surjection(indices, Slice(s, offset, n))
    BY <1>2, <1>4 DEF Surjection
  <2> QED BY <2>1, <2>2 DEF Bijection
<1>6. IsFiniteSet(indices) /\ Cardinality(indices) = Least(n, Size[s] - offset)
  <2>1. offset \in Int /\ last \in Int
    BY <1>1
  <2>2. IsFiniteSet(indices)
        /\ Cardinality(indices) = IF offset > last THEN 0 ELSE last - offset + 1
    BY <2>1, FS_Interval
  <2> QED BY <1>1, <2>2 DEF Least
<1> HIDE DEF indices, rowAt
<1> QED BY <1>5, <1>6, FS_Bijection DEF ExistsBijection

(* To take the first n of no more than n rows is to take them all. *)
LEMMA FirstOfFew ==
    ASSUME NEW rows \in SUBSET Row, IsFiniteSet(rows), NEW n \in Nat, Cardinality(rows) <= n
    PROVE  FirstOf(rows, n) = rows
<1> SUFFICES ASSUME NEW r \in rows
             PROVE  Cardinality({q \in rows : q.index < r.index}) < n
  BY DEF FirstOf
<1> DEFINE before == {q \in rows : q.index < r.index}
<1>1. r.index \in Int
  BY SizeAssumption DEF Row
<1>2. before \subseteq rows \ {r}
  BY <1>1
<1>3. /\ IsFiniteSet(rows \ {r})
      /\ Cardinality(rows \ {r}) = Cardinality(rows) - 1
  BY FS_RemoveElement
<1>4. /\ IsFiniteSet(before)
      /\ Cardinality(before) <= Cardinality(rows \ {r})
  BY <1>2, <1>3, FS_Subset
<1>5. Cardinality(before) \in Nat /\ Cardinality(rows) \in Nat
  BY <1>4, FS_CardinalityType
<1> HIDE DEF before
<1>6. Cardinality(before) < n
  BY <1>3, <1>4, <1>5
<1> QED BY <1>6 DEF before

(* A prefix and the slice that follows it make a prefix. *)
LEMMA SlicesJoin ==
    ASSUME NEW s \in Source, NEW p \in Nat, NEW n \in Nat, p <= Size[s]
    PROVE  Slice(s, 0, p) \cup Slice(s, p, n)
               = Slice(s, 0, p + Cardinality(Slice(s, p, n)))
<1>1. Cardinality(Slice(s, p, n)) = Least(n, Size[s] - p)
  BY SliceSize
<1>2. Size[s] \in Nat
  BY RowsOfSource
<1>3. \A r \in Row : r.source = s =>
          (r.index \in 0..0+p-1 \/ r.index \in p..p+n-1
               <=> r.index \in 0..0+(p + Least(n, Size[s] - p))-1)
  BY <1>2, RowsOfSource DEF Least
<1> QED BY <1>1, <1>3 DEF Slice

-----------------------------------------------------------------------------
(* What NextBatch does to the loop that calls it, given the rows of its batch, or none:
   it is through with a longer prefix of its source, and asks for more only if there is
   more to ask for. *)

LEMMA BatchLimitIsPositive ==
    ASSUME CacheInv, NEW l \in Loop, Alive(l)
    PROVE  /\ Of[l] \in Source /\ Limit[l] \in Nat /\ Size[Of[l]] \in Nat
           /\ processed[l] \in Nat /\ processed[l] <= Total(l) /\ processed[l] < Limit[l]
           /\ processed[l] <= Size[Of[l]]
           /\ Remaining(l) \in Nat /\ BatchLimit(l) \in 1..BatchSize
           /\ BatchLimit(l) <= Remaining(l)
           /\ BatchPath(l) \in Path
<1>1. Of[l] \in Source /\ Limit[l] \in Nat /\ Size[Of[l]] \in Nat /\ BatchSize \in Nat \ {0}
  BY LoopAssumption, SizeAssumption
<1>2. processed[l] \in Nat /\ processed[l] \in 0..Total(l) /\ processed[l] < Limit[l]
  BY DEF CacheInv, TypeOK, RowsAreMissing
<1>3. Remaining(l) \in Nat /\ BatchLimit(l) \in 1..BatchSize /\ BatchLimit(l) <= Remaining(l)
  BY <1>1, <1>2 DEF Remaining, BatchLimit, Least
<1>4. processed[l] <= Total(l) /\ processed[l] <= Size[Of[l]]
  BY <1>1, <1>2 DEF Total, Least
<1>5. BatchPath(l) \in Path
  BY <1>1, <1>2, <1>3 DEF BatchPath, Path
<1> QED BY <1>1, <1>2, <1>3, <1>4, <1>5

LEMMA BatchExtendsPrefix ==
    ASSUME CacheInv, NEW l \in Loop, Alive(l), NEW rows,
           rows \in {{}, Slice(Of[l], processed[l], BatchLimit(l))},
           NextBatch(l, rows)
    PROVE  /\ processed' \in [Loop -> Nat]
           /\ \A m \in Loop : processed'[m] \in 0..Total(m)
           /\ seen' \in [Loop -> SUBSET Row]
           /\ LoopSeesPrefix'
           /\ \A m \in Loop : m # l => processed'[m] = processed[m]
           /\ \/ Goto(l, "done")
              \/ Goto(l, "lookup") /\ processed'[l] < Limit[l]
<1>1. CASE rows = {}
  <2>1. Goto(l, "done") /\ UNCHANGED counters
    BY <1>1 DEF NextBatch
  <2>2. seen' = seen /\ processed' = processed
    BY <2>1 DEF counters
  <2> QED BY <2>1, <2>2 DEF CacheInv, TypeOK, LoopSeesPrefix
<1>2. CASE rows # {}
  <2> DEFINE n == Cardinality(rows)
  <2>1. rows = Slice(Of[l], processed[l], BatchLimit(l))
    BY <1>2
  <2>2. /\ Of[l] \in Source /\ Limit[l] \in Nat /\ Size[Of[l]] \in Nat
        /\ processed[l] \in Nat /\ processed[l] <= Size[Of[l]] /\ processed[l] <= Total(l)
        /\ Remaining(l) \in Nat /\ BatchLimit(l) \in Nat /\ BatchLimit(l) <= Remaining(l)
    BY BatchLimitIsPositive
  <2>3. IsFiniteSet(rows) /\ n = Least(BatchLimit(l), Size[Of[l]] - processed[l])
    BY <2>1, <2>2, SliceSize
  <2>4. n \in Nat /\ n <= Remaining(l) /\ processed[l] + n \in 0..Total(l)
    BY <2>2, <2>3 DEF Least, Total, Remaining
  <2>5. rows \subseteq Row
    BY <2>1 DEF Slice
  <2>6. FirstOf(rows, Remaining(l)) = rows
    BY <2>2, <2>3, <2>4, <2>5, FirstOfFew
  <2>7. /\ seen' = [seen EXCEPT ![l] = seen[l] \cup rows]
        /\ processed' = [processed EXCEPT ![l] = processed[l] + n]
        /\ Goto(l, IF processed'[l] < Limit[l] THEN "lookup" ELSE "done")
    BY <1>2, <2>6 DEF NextBatch
  <2>8. processed \in [Loop -> Nat] /\ seen \in [Loop -> SUBSET Row]
    BY DEF CacheInv, TypeOK
  <2>9. /\ processed' \in [Loop -> Nat] /\ processed'[l] = processed[l] + n
        /\ \A m \in Loop : m # l => processed'[m] = processed[m]
    BY <2>4, <2>7, <2>8
  <2>10. /\ seen' \in [Loop -> SUBSET Row] /\ seen'[l] = seen[l] \cup rows
         /\ \A m \in Loop : m # l => seen'[m] = seen[m]
    BY <2>5, <2>7, <2>8
  <2>11. seen'[l] = Slice(Of[l], 0, processed[l] + n)
    <3>1. seen[l] = Slice(Of[l], 0, processed[l])
      BY DEF CacheInv, LoopSeesPrefix
    <3> QED BY <2>1, <2>2, <2>10, <3>1, SlicesJoin
  <2>12. LoopSeesPrefix'
    <3> SUFFICES ASSUME NEW m \in Loop PROVE seen'[m] = Slice(Of[m], 0, processed'[m])
      BY DEF LoopSeesPrefix
    <3>1. CASE m = l
      BY <2>9, <2>11, <3>1
    <3>2. CASE m # l
      BY <2>9, <2>10, <3>2 DEF CacheInv, LoopSeesPrefix
    <3> QED BY <3>1, <3>2
  <2>13. \A m \in Loop : processed'[m] \in 0..Total(m)
    BY <2>4, <2>9 DEF CacheInv, TypeOK
  <2>14. Goto(l, "done") \/ (Goto(l, "lookup") /\ processed'[l] < Limit[l])
    BY <2>7
  <2> QED BY <2>9, <2>10, <2>12, <2>13, <2>14
<1> QED BY <1>1, <1>2

(* A write of true rows under the name of the loop's batch, whatever parts it makes. *)
LEMMA WriteKeepsFilesTrue ==
    ASSUME CacheInv, NEW l \in Loop, Alive(l), NEW content,
           content.rows \subseteq Row, content.parts \subseteq Part,
           content.parts # {} =>
               content.rows = Slice(Of[l], processed[l], BatchLimit(l)),
           Write(l, content)
    PROVE  /\ WrittenFilesAreTrue'
           /\ \A k \in DOMAIN file' :
                  k \in Path /\ file'[k].rows \subseteq Row /\ file'[k].parts \subseteq Part
           /\ DOMAIN file \subseteq DOMAIN file'
           /\ BatchPath(l) \in DOMAIN file'
<1>1. DOMAIN file' = DOMAIN file \cup {BatchPath(l)}
  BY DEF Write
<1>2. file'[BatchPath(l)] = content
  BY DEF Write
<1>3. \A k \in DOMAIN file : k # BatchPath(l) => file'[k] = file[k]
  BY DEF Write
<1>4. BatchPath(l) \in Path
  BY BatchLimitIsPositive
<1>5. /\ BatchPath(l).source = Of[l] /\ BatchPath(l).offset = processed[l]
      /\ BatchPath(l).limit = BatchLimit(l)
  BY DEF BatchPath
<1>6. WrittenFilesAreTrue'
  BY <1>1, <1>2, <1>3, <1>5 DEF CacheInv, WrittenFilesAreTrue, Slice
<1> QED BY <1>1, <1>2, <1>3, <1>4, <1>6 DEF CacheInv, TypeOK

-----------------------------------------------------------------------------
(* One step of one loop, whichever it is. *)

Label == {"idle", "lookup", "length", "read", "fetch", "create", "head", "tail",
          "done", "failed", "crashed"}
Over == {"idle", "done", "failed", "crashed"}

(* What a step may do to the files. *)
FilesKept ==
    /\ WrittenFilesAreTrue'
    /\ \A k \in DOMAIN file' :
          k \in Path /\ file'[k].rows \subseteq Row /\ file'[k].parts \subseteq Part
    /\ DOMAIN file \subseteq DOMAIN file'

(* What a step of l may do to the counters. *)
CountersKept(l) ==
    /\ processed' \in [Loop -> Nat]
    /\ \A m \in Loop : processed'[m] \in 0..Total(m)
    /\ seen' \in [Loop -> SUBSET Row]
    /\ LoopSeesPrefix'
    /\ \A m \in Loop : m # l => processed'[m] = processed[m]

(* What a step of l may do to the rows on their way to a file. *)
FetchedKept(l) ==
    /\ fetched' \in [Loop -> SUBSET Row]
    /\ \A m \in Loop : m # l => fetched'[m] = fetched[m]

LEMMA UnchangedFiles == CacheInv /\ UNCHANGED file => FilesKept
BY DEF CacheInv, TypeOK, WrittenFilesAreTrue, FilesKept

LEMMA UnchangedCounters ==
    ASSUME CacheInv, NEW l \in Loop, UNCHANGED counters
    PROVE  CountersKept(l) /\ processed' = processed
<1>1. processed' = processed /\ seen' = seen
  BY DEF counters
<1>2. LoopSeesPrefix'
  BY <1>1 DEF CacheInv, LoopSeesPrefix
<1> QED BY <1>1, <1>2 DEF CacheInv, TypeOK, CountersKept

LEMMA UnchangedFetched ==
    ASSUME CacheInv, NEW l \in Loop, UNCHANGED fetched
    PROVE  FetchedKept(l)
BY DEF CacheInv, TypeOK, FetchedKept

LEMMA OneLoopSteps ==
    ASSUME CacheInv, NEW l \in Loop, NEW label \in Label \ {"idle"}, Goto(l, label),
           FilesKept, CountersKept(l), FetchedKept(l),
           label \notin Over => processed'[l] < Limit[l],
           label \in {"length", "read", "create", "head", "tail"} =>
               processed'[l] = processed[l],
           label \in {"create", "head", "tail"} =>
               fetched'[l] = Slice(Of[l], processed[l], BatchLimit(l)),
           label \in {"length", "read", "head", "tail"} => BatchPath(l) \in DOMAIN file'
    PROVE  CacheInv'
<1>1. /\ pc \in [Loop -> Label] /\ pc' \in [Loop -> Label] /\ pc'[l] = label
      /\ \A m \in Loop : m # l => pc'[m] = pc[m]
  BY DEF CacheInv, TypeOK, Label, Goto
<1>2. \A m \in Loop : processed'[m] = processed[m] =>
          BatchLimit(m)' = BatchLimit(m) /\ BatchPath(m)' = BatchPath(m)
  BY DEF BatchPath, BatchLimit, Remaining
<1>3. \A m \in Loop : m # l => processed'[m] = processed[m] /\ fetched'[m] = fetched[m]
  BY DEF CountersKept, FetchedKept
<1>4. TypeOK'
  BY <1>1 DEF TypeOK, FilesKept, CountersKept, FetchedKept, Label
<1>8. NothingBeforeStart'
  BY <1>1, <1>3 DEF CacheInv, NothingBeforeStart
<1>5. RowsAreMissing'
  <2> SUFFICES ASSUME NEW m \in Loop, pc'[m] \notin Over PROVE processed'[m] < Limit[m]
    BY DEF RowsAreMissing, Alive, Over
  <2> QED BY <1>1, <1>3 DEF CacheInv, RowsAreMissing, Alive, Over
<1>6. FetchedIsTheBatch'
  <2> SUFFICES ASSUME NEW m \in Loop, pc'[m] \in {"create", "head", "tail"}
               PROVE  fetched'[m] = Slice(Of[m], processed'[m], BatchLimit(m)')
    BY DEF FetchedIsTheBatch, Slice
  <2>1. CASE m = l
    BY <1>1, <1>2, <2>1
  <2>2. CASE m # l
    BY <1>1, <1>2, <1>3, <2>2 DEF CacheInv, FetchedIsTheBatch
  <2> QED BY <2>1, <2>2
<1>7. FileIsThere'
  <2> SUFFICES ASSUME NEW m \in Loop, pc'[m] \in {"length", "read", "head", "tail"}
               PROVE  BatchPath(m)' \in DOMAIN file'
    BY DEF FileIsThere, Exists
  <2>1. CASE m = l
    BY <1>1, <1>2, <2>1
  <2>2. CASE m # l
    BY <1>1, <1>2, <1>3, <2>2 DEF CacheInv, FileIsThere, Exists, FilesKept
  <2> QED BY <2>1, <2>2
<1> QED BY <1>4, <1>5, <1>6, <1>7, <1>8 DEF CacheInv, CountersKept, FilesKept

(* NextBatch ends the batch, so nothing is asked of the files or the fetched rows. *)
LEMMA NextBatchSteps ==
    ASSUME CacheInv, NEW l \in Loop, Alive(l), NEW rows,
           rows \in {{}, Slice(Of[l], processed[l], BatchLimit(l))},
           NextBatch(l, rows), FilesKept, FetchedKept(l)
    PROVE  CacheInv'
<1>1. CountersKept(l) /\ (Goto(l, "done") \/ (Goto(l, "lookup") /\ processed'[l] < Limit[l]))
  BY BatchExtendsPrefix DEF CountersKept
<1>2. CASE Goto(l, "done")
  BY <1>1, <1>2, OneLoopSteps DEF Label, Over
<1>3. CASE Goto(l, "lookup") /\ processed'[l] < Limit[l]
  BY <1>1, <1>3, OneLoopSteps DEF Label, Over
<1> QED BY <1>1, <1>2, <1>3

-----------------------------------------------------------------------------
(* The actions. *)

LEMMA EndsKeep ==
    ASSUME CacheInv, NEW l \in Loop, Start(l) \/ Fail(l) \/ Crash(l)
    PROVE  CacheInv'
<1>1. /\ FilesKept /\ CountersKept(l) /\ FetchedKept(l) /\ processed' = processed
  BY UnchangedFiles, UnchangedCounters, UnchangedFetched DEF Start, Fail, Crash
<1>2. CASE Start(l) /\ Limit[l] > 0
  <2>1. Goto(l, "lookup") /\ processed[l] = 0
    BY <1>2 DEF Start, At, CacheInv, NothingBeforeStart
  <2> QED BY <1>1, <1>2, <2>1, OneLoopSteps DEF Label, Over
<1>3. CASE (Start(l) /\ ~(Limit[l] > 0)) \/ Fail(l) \/ Crash(l)
  <2>1. Goto(l, "done") \/ Goto(l, "failed") \/ Goto(l, "crashed")
    BY <1>3 DEF Start, Fail, Crash
  <2> QED BY <1>1, <2>1, OneLoopSteps DEF Label, Over
<1> QED BY <1>2, <1>3

LEMMA LookupKeeps == ASSUME CacheInv, NEW l \in Loop, Lookup(l) PROVE CacheInv'
<1>1. /\ FilesKept /\ CountersKept(l) /\ FetchedKept(l) /\ processed' = processed
  BY UnchangedFiles, UnchangedCounters, UnchangedFetched DEF Lookup
<1>2. processed[l] < Limit[l]
  BY DEF Lookup, At, Alive, CacheInv, RowsAreMissing
<1>3. CASE Exists(l) /\ Goto(l, "length")
  <2>1. BatchPath(l) \in DOMAIN file'
    BY <1>3 DEF Lookup, Exists
  <2> QED BY <1>1, <1>2, <1>3, <2>1, OneLoopSteps DEF Label
<1>4. CASE Goto(l, "fetch")
  BY <1>1, <1>2, <1>4, OneLoopSteps DEF Label
<1> QED BY <1>3, <1>4 DEF Lookup

LEMMA ReadLengthKeeps == ASSUME CacheInv, NEW l \in Loop, ReadLength(l) PROVE CacheInv'
<1>1. FilesKept /\ FetchedKept(l) /\ Alive(l)
  BY UnchangedFiles, UnchangedFetched DEF ReadLength, At, Alive
<1>2. CASE NextBatch(l, {})
  BY <1>1, <1>2, NextBatchSteps
<1>3. CASE Goto(l, "read") /\ UNCHANGED counters
  <2>1. CountersKept(l) /\ processed' = processed
    BY <1>3, UnchangedCounters
  <2>2. processed[l] < Limit[l]
    BY <1>1 DEF CacheInv, RowsAreMissing
  <2>3. BatchPath(l) \in DOMAIN file'
    BY DEF ReadLength, At, CacheInv, FileIsThere, Exists
  <2> QED BY <1>1, <1>3, <2>1, <2>2, <2>3, OneLoopSteps DEF Label
<1> QED BY <1>2, <1>3 DEF ReadLength

LEMMA ReadRowsKeeps == ASSUME CacheInv, NEW l \in Loop, ReadRows(l) PROVE CacheInv'
<1>1. FilesKept /\ FetchedKept(l) /\ Alive(l) /\ NextBatch(l, Content(l).rows)
  BY UnchangedFiles, UnchangedFetched DEF ReadRows, At, Alive
<1>2. BatchPath(l) \in DOMAIN file /\ Content(l).parts # {}
  BY DEF ReadRows, At, Part, CacheInv, FileIsThere, Exists
<1>3. Content(l).rows = Slice(Of[l], processed[l], BatchLimit(l))
  BY <1>2 DEF CacheInv, WrittenFilesAreTrue, Content, BatchPath
<1> QED BY <1>1, <1>3, NextBatchSteps

LEMMA FetchKeeps == ASSUME CacheInv, NEW l \in Loop, Fetch(l) PROVE CacheInv'
<1>1. /\ FilesKept /\ CountersKept(l) /\ processed' = processed
  BY UnchangedFiles, UnchangedCounters DEF Fetch
<1>2. /\ fetched' = [fetched EXCEPT ![l] = Slice(Of[l], processed[l], BatchLimit(l))]
      /\ Slice(Of[l], processed[l], BatchLimit(l)) \subseteq Row
      /\ fetched \in [Loop -> SUBSET Row]
  BY DEF Fetch, Slice, CacheInv, TypeOK
<1>3. FetchedKept(l) /\ fetched'[l] = Slice(Of[l], processed[l], BatchLimit(l))
  BY <1>2 DEF FetchedKept
<1>4. Goto(l, "create") /\ processed[l] < Limit[l]
  BY DEF Fetch, At, Alive, CacheInv, RowsAreMissing
<1> QED BY <1>1, <1>3, <1>4, OneLoopSteps DEF Label

LEMMA CreateKeeps == ASSUME CacheInv, NEW l \in Loop, Create(l) PROVE CacheInv'
<1>1. FetchedKept(l) /\ Alive(l)
  BY UnchangedFetched DEF Create, At, Alive
<1>2. FilesKept /\ BatchPath(l) \in DOMAIN file'
  <2>1. Write(l, [rows |-> {}, parts |-> {}])
    BY DEF Create
  <2> QED BY <1>1, <2>1, WriteKeepsFilesTrue DEF FilesKept
<1>3. CASE NextBatch(l, {})
  BY <1>1, <1>2, <1>3, NextBatchSteps
<1>4. CASE Goto(l, "head") /\ UNCHANGED counters
  <2>1. CountersKept(l) /\ processed' = processed
    BY <1>4, UnchangedCounters
  <2>2. processed[l] < Limit[l]
    BY <1>1 DEF CacheInv, RowsAreMissing
  <2>3. fetched'[l] = Slice(Of[l], processed[l], BatchLimit(l))
    BY DEF Create, At, CacheInv, FetchedIsTheBatch
  <2> QED BY <1>1, <1>2, <1>4, <2>1, <2>2, <2>3, OneLoopSteps DEF Label
<1> QED BY <1>3, <1>4 DEF Create

(* What both writes have in common. *)
LEMMA WritesAreTrue ==
    ASSUME CacheInv, NEW l \in Loop, pc[l] \in {"head", "tail"}, NEW part \in Part,
           Write(l, [rows |-> fetched[l], parts |-> Content(l).parts \cup {part}])
    PROVE  /\ FilesKept /\ BatchPath(l) \in DOMAIN file' /\ Alive(l)
           /\ fetched[l] = Slice(Of[l], processed[l], BatchLimit(l))
<1>1. Alive(l) /\ fetched[l] = Slice(Of[l], processed[l], BatchLimit(l))
  BY DEF Alive, CacheInv, FetchedIsTheBatch
<1>2. Content(l).parts \subseteq Part /\ fetched[l] \subseteq Row
  BY DEF CacheInv, TypeOK, FileIsThere, Exists, Content
<1> QED BY <1>1, <1>2, WriteKeepsFilesTrue DEF FilesKept

LEMMA WriteHeadKeeps == ASSUME CacheInv, NEW l \in Loop, WriteHead(l) PROVE CacheInv'
<1>1. /\ FilesKept /\ BatchPath(l) \in DOMAIN file' /\ Alive(l)
      /\ fetched[l] = Slice(Of[l], processed[l], BatchLimit(l))
  BY WritesAreTrue DEF WriteHead, At, Part
<1>2. /\ CountersKept(l) /\ FetchedKept(l) /\ processed' = processed
  BY UnchangedCounters, UnchangedFetched DEF WriteHead
<1>3. Goto(l, "tail") /\ fetched' = fetched /\ processed[l] < Limit[l]
  BY <1>1 DEF WriteHead, CacheInv, RowsAreMissing
<1> QED BY <1>1, <1>2, <1>3, OneLoopSteps DEF Label

LEMMA WriteTailKeeps == ASSUME CacheInv, NEW l \in Loop, WriteTail(l) PROVE CacheInv'
<1>1. /\ FilesKept /\ Alive(l)
      /\ fetched[l] = Slice(Of[l], processed[l], BatchLimit(l))
  BY WritesAreTrue DEF WriteTail, At, Part
<1>2. FetchedKept(l)
  BY DEF WriteTail, CacheInv, TypeOK, FetchedKept
<1> QED BY <1>1, <1>2, NextBatchSteps DEF WriteTail

LEMMA CacheInvInit == Init => CacheInv
<1> SUFFICES ASSUME Init PROVE CacheInv
  OBVIOUS
<1>1. \A l \in Loop : Of[l] \in Source /\ Limit[l] \in Nat /\ Size[Of[l]] \in Nat
  BY LoopAssumption, SizeAssumption
<1>2. DOMAIN file = {}
  BY DEF Init
<1>3. TypeOK /\ processed \in [Loop -> Nat]
  BY <1>1, <1>2 DEF Init, TypeOK, Total, Least
<1>4. LoopSeesPrefix
  BY DEF Init, LoopSeesPrefix, Slice
<1>5. NothingBeforeStart /\ RowsAreMissing /\ FetchedIsTheBatch /\ FileIsThere
      /\ WrittenFilesAreTrue
  BY <1>2 DEF Init, NothingBeforeStart, RowsAreMissing, Alive, FetchedIsTheBatch, FileIsThere,
              WrittenFilesAreTrue
<1> QED BY <1>3, <1>4, <1>5 DEF CacheInv

LEMMA CacheInvNext == CacheInv /\ [Next]_vars => CacheInv'
<1> SUFFICES ASSUME CacheInv, [Next]_vars PROVE CacheInv'
  OBVIOUS
<1>1. ASSUME NEW l \in Loop, Start(l) \/ Proceed(l) \/ Crash(l) PROVE CacheInv'
  BY <1>1, EndsKeep, LookupKeeps, ReadLengthKeeps, ReadRowsKeeps, FetchKeeps, CreateKeeps,
     WriteHeadKeeps, WriteTailKeeps DEF Proceed
<1>2. CASE UNCHANGED vars
  <2>1. /\ file' = file /\ pc' = pc /\ processed' = processed /\ seen' = seen
        /\ fetched' = fetched
    BY <1>2 DEF vars
  <2>2. TypeOK' /\ (processed \in [Loop -> Nat])' /\ NothingBeforeStart' /\ RowsAreMissing'
    BY <2>1 DEF CacheInv, TypeOK, NothingBeforeStart, RowsAreMissing, Alive
  <2>3. FetchedIsTheBatch' /\ FileIsThere'
    BY <2>1 DEF CacheInv, FetchedIsTheBatch, FileIsThere, Exists, BatchPath, BatchLimit,
                Remaining, Slice
  <2>4. WrittenFilesAreTrue' /\ LoopSeesPrefix'
    BY <2>1 DEF CacheInv, WrittenFilesAreTrue, LoopSeesPrefix, Slice
  <2> QED BY <2>2, <2>3, <2>4 DEF CacheInv
<1> QED BY <1>1, <1>2 DEF Next

-----------------------------------------------------------------------------
(* The invariant holds whatever the loops, their order, failures and crashes. *)
THEOREM CacheInvariance == Spec => []CacheInv
BY CacheInvInit, CacheInvNext, PTL DEF Spec

(* The rows that for_each_concurrent hands to a run are the first rows of its own
   dataset, in whatever way its batches came from the cache or the source. *)
THEOREM LoopsSeePrefixes == Spec => []LoopSeesPrefix
<1>1. CacheInv => LoopSeesPrefix
  BY DEF CacheInv
<1> QED BY <1>1, CacheInvariance, PTL

(* A cache file that can be read holds the batch it is named for, and the types of the
   cache are kept: racing writers of a file overwrite it with the same rows. *)
THEOREM ReadableFilesStayTrue == Spec => []ReadableFilesAreTrue
<1>1. CacheInv => ReadableFilesAreTrue
  BY DEF CacheInv, WrittenFilesAreTrue, ReadableFilesAreTrue, Part
<1> QED BY <1>1, CacheInvariance, PTL
=============================================================================
