------------------------------- MODULE Compare ------------------------------
(***************************************************************************)
(* qt compare: the report about two runs, made of the rows of their steps  *)
(* and of their metrics.  ScoredRun has the runs it is made about.         *)
(*                                                                         *)
(* A run is a record of its name, input and output, its steps, a function  *)
(* from keys to [hash, status, output], and its metrics, a function from   *)
(* names to sequences of values, which are exact fractions.                *)
(***************************************************************************)
EXTENDS Scoring

ASSUME DeltasAssumption == NULL \notin Int \X Int

(* What two functions give, the first where both do. *)
Joined(f, g) == [x \in DOMAIN f \cup DOMAIN g |-> IF x \in DOMAIN f THEN f[x] ELSE g[x]]

(* The statistics that are stored, of scores and of latencies.  The deviation is
   given by its square, which is the same and moves the same way. *)
ScoreNames == {"mean", "stdev", "variance", "median", "min", "max", "p95", "p99"}
LatencyNames == {"mean", "median", "min", "max", "p95", "p99"}

StatisticValue(s, name) ==
    CASE name = "mean" -> <<s.sum, s.of>>
      [] name \in {"stdev", "variance"} -> <<s.of * s.squares - s.sum * s.sum, s.of * s.of>>
      [] name \in {"min", "max"} -> Whole(s[name])
      [] OTHER -> <<s[name], 100>>

ScoreMetrics(aggregate) ==
    IF "correct" \in DOMAIN aggregate
    THEN [n \in {<<"accuracy", 0>>} |-> <<<<aggregate.correct, aggregate.of>>>>]
    ELSE [n \in {<<name, 0>> : name \in ScoreNames} |-> <<StatisticValue(aggregate, n[1])>>]

(* Latencies are those that are in the file or the memory for the rows of the run. *)
LatencyMetrics(latencies) ==
    IF latencies = <<>> THEN <<>>
    ELSE LET s == Statistics(latencies)
         IN  [n \in {<<"latency", name>> : name \in LatencyNames} |-> <<StatisticValue(s, n[2])>>]

(* The metrics a run has stored at its end. *)
DefaultMetrics(aggregate, latencies) ==
    IF aggregate = <<>> THEN <<>> ELSE Joined(ScoreMetrics(aggregate), LatencyMetrics(latencies))

(* Those that are computed from the stored outputs, one value under each name. *)
F1Values(f1) ==
    [n \in {<<"f1", l>> : l \in DOMAIN f1.labels} \cup {<<"macro_f1", 0>>, <<"weighted_f1", 0>>} |->
        <<CASE n[1] = "f1" -> f1.labels[n[2]] [] n[1] = "macro_f1" -> f1.macro [] OTHER -> f1.weighted>>]

MatrixValues(matrix) ==
    [n \in {<<"confusion", g, p>> : g \in DOMAIN matrix, p \in 1..Len(matrix)+1} |-> <<Whole(matrix[n[2]][n[3]])>>]

DerivedMetrics(metrics) ==
    Joined(IF "f1" \in DOMAIN metrics THEN F1Values(metrics["f1"]) ELSE <<>>,
           IF "confusion" \in DOMAIN metrics THEN MatrixValues(metrics["confusion"]) ELSE <<>>)

(* A run as it is read for the report. *)
RunData(name, config, outputs, aggregate, latencies) ==
    [name |-> name, input |-> Write(config), output |-> Cardinality(DOMAIN outputs),
     steps |-> [i \in DOMAIN outputs |-> [hash |-> outputs[i].hash, status |-> "completed", output |-> outputs[i].output]],
     metrics |-> Joined(DefaultMetrics(aggregate, latencies),
                        DerivedMetrics(OutputMetrics(config, [i \in DOMAIN outputs |-> Decode(outputs[i].output)], TRUE)))]

(* What both runs have under a key, and whether it is the same. *)
StepRows(a, b) ==
    [key \in DOMAIN a \cup DOMAIN b |->
        LET both == key \in DOMAIN a /\ key \in DOMAIN b
            Same(field) == both /\ a[key][field] = b[key][field]
        IN  [present |-> IF both THEN "both" ELSE IF key \in DOMAIN a THEN "only_a" ELSE "only_b",
             input |-> Same("hash"), status |-> Same("status"), output |-> Same("output")]]

(* The top-level fields of two outputs that are not the same.  The kind of a current
   output is the one field of its JSON. *)
FieldDifferences(left, right) ==
    LET Fields(output) == IF "tag" \in DOMAIN output THEN output.tag :> output.content ELSE output
        x == Fields(left)
        y == Fields(right)
    IN  {f \in DOMAIN x \cup DOMAIN y : ~(f \in DOMAIN x /\ f \in DOMAIN y /\ x[f] = y[f])}

OutputDifferences(a, b) ==
    [key \in {k \in DOMAIN a \cap DOMAIN b : a[k].output # b[k].output} |->
        FieldDifferences(a[key].output, b[key].output)]

Deltas(left, right) ==
    [i \in 1..Max({Len(left), Len(right)}) |->
        IF i \in DOMAIN left /\ i \in DOMAIN right THEN Plus(right[i], Times(Whole(-1), left[i])) ELSE NULL]

Direction(deltas) ==
    LET known == {deltas[i] : i \in DOMAIN deltas} \ {NULL}
        up == \E d \in known : d[1] > 0
        down == \E d \in known : d[1] < 0
    IN  CASE up /\ down -> "mixed" [] up /\ ~down -> "up" [] down /\ ~up -> "down" [] OTHER -> "same"

SameRatio(x, y) == x[1] * y[2] = y[1] * x[2]

(* Mutant: the left run is taken for the new one. *)
MetricRowsSwapped(a, b) ==
    LET Values(metrics, name) == IF name \in DOMAIN metrics THEN metrics[name] ELSE <<>> IN
    [name \in DOMAIN a \cup DOMAIN b |->
        LET left == Values(a, name)
            right == Values(b, name)
            deltas == Deltas(right, left)
        IN  [same |-> Len(left) = Len(right) /\ \A i \in DOMAIN left : SameRatio(left[i], right[i]),
             deltas |-> deltas, direction |-> Direction(deltas)]]

MetricRows(a, b) ==
    LET Values(metrics, name) == IF name \in DOMAIN metrics THEN metrics[name] ELSE <<>> IN
    [name \in DOMAIN a \cup DOMAIN b |->
        LET left == Values(a, name)
            right == Values(b, name)
            deltas == Deltas(left, right)
        IN  [same |-> Len(left) = Len(right) /\ \A i \in DOMAIN left : SameRatio(left[i], right[i]),
             deltas |-> deltas, direction |-> Direction(deltas)]]

CompareReport(a, b) ==
    LET steps == StepRows(a.steps, b.steps)
        metrics == MetricRows(a.metrics, b.metrics)
        inputSame == a.input = b.input
        outputSame == a.output = b.output
    IN  [steps |-> steps, metrics |-> metrics, inputSame |-> inputSame, outputSame |-> outputSame,
         outputDifferences |-> OutputDifferences(a.steps, b.steps),
         warning |-> a.name # b.name,
         differs |-> \/ \E k \in DOMAIN steps : ~(steps[k].input /\ steps[k].status /\ steps[k].output)
                     \/ \E m \in DOMAIN metrics : ~metrics[m].same
                     \/ ~inputSame \/ ~outputSame]
=============================================================================
