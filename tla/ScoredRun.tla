------------------------------ MODULE ScoredRun -----------------------------
(***************************************************************************)
(* A run of a no-code benchmark from the settings it is started with to    *)
(* the metrics that are shown for it: rows are prepared, sampled, scored   *)
(* and stored, an attempt may fail and be resumed, and in between the      *)
(* configuration, the environment or the version of qt may change.  EvalRun*)
(* has the steps and their interleavings; here a row is one step, and what *)
(* matters is what is computed.                                            *)
(***************************************************************************)
EXTENDS Compare, CachedRows

CONSTANTS
    Sources,         \* benchmark sections: model, style, metrics, limit
    Envs,            \* environments: account, gateway, key
    Datasets,        \* sequences of rows, of the size of a batch at most
    Responses,       \* what a model may answer
    ScoreOf,         \* [similarity metric -> [response -> its score]]
    Latencies,       \* pairs of what may have been measured of the rows of two runs
    Draws,           \* [hash function -> what the seeds of a shuffle hash to]
    ShowsChoices,    \* the prompt template renders the choices
    MaxChanges       \* bound

(* What a dataset may hold: no text of a double, of a truth value or of a number that is
   no 64-bit integer is an index. *)
IsChoices(value) == value.is = "array" => value.items \in Seq(Elements(value.items))
IsValue(value) ==
    \/ value = Absent
    \/ value.is = "bool" /\ value.text \in Strings /\ NumberOf[value.text] = NULL
    \/ /\ value \in [is: {"number"}, text: Strings \cap DOMAIN FloatText, int: BOOLEAN]
       /\ value.int \/ NumberOf[value.text] = NULL
    \/ value.is = "string" /\ value.text \in Strings /\ (value.json = NULL \/ IsChoices(value.json))
    \/ IsNested(value) /\ IsChoices(value)

ASSUME SettingsAssumption == Sources \subseteq Wire /\ Envs \subseteq Environment
ASSUME DatasetsAssumption ==
    \A rows \in Datasets :
        /\ rows \in Seq(Elements(rows))
        /\ \A i \in DOMAIN rows : \A column \in DOMAIN rows[i] : IsValue(rows[i][column])
ASSUME FloatAssumption ==
    \A text \in DOMAIN FloatText : /\ FloatText[text] \in Strings \cap DOMAIN FloatText
                                  /\ NumberOf[FloatText[text]] = NULL
ASSUME DrawsAssumption ==
    /\ Draws \in [DOMAIN Draws -> [Strings -> Seq(Nat)]] /\ DOMAIN Draws # {}
    /\ \A s \in Sources : s.style.type = "multiple_choice" =>
          \A h \in DOMAIN Draws : \A seed \in Strings : Len(s.style.labels) <= Len(Draws[h][seed])
ASSUME ScoresAssumption ==
    \A metric \in {Levenshtein, Cosine} : \A r \in Responses : ScoreOf[metric.name][r] \in Int
ASSUME LatenciesAssumption == Latencies \subseteq Seq(Nat) \X Seq(Nat)
ASSUME ResponsesAssumption == Responses \subseteq Seq(Strings) /\ MaxChanges \in Nat

VARIABLES
    source,          \* the configuration
    env,             \* the environment
    dataset, hash,   \* the rows, and the hash function of the shuffle
    legacy,          \* qt is of a version that stores outputs without their kind
    changes,         \* how often something has changed
    status,          \* of the run
    cached,          \* the limits with which the dataset's batch is in the cache
    stored,          \* the run's input
    config,          \* the settings it was written from
    seen,            \* the rows as the attempt has got them
    outputs,         \* [completed row -> [hash, output]], as its step stores
                     \* it, with the settings it was scored by
    results,         \* [row -> result of the attempt, or NULL]
    aggregate        \* what was emitted at the end

surroundings == <<source, env, dataset, hash, legacy, changes>>
vars == <<surroundings, status, cached, stored, config, seen, outputs, results, aggregate>>

Rows == DOMAIN seen
Stored == DOMAIN outputs

Init ==
    /\ source \in Sources /\ env \in Envs
    /\ dataset \in Datasets
    /\ hash \in IF source.style.type = "multiple_choice" /\ source.style.seed # NULL
                THEN DOMAIN Draws ELSE {CHOOSE h \in DOMAIN Draws : TRUE}
    /\ legacy \in (IF source.style.type = "similarity" THEN {FALSE} ELSE BOOLEAN)
    /\ changes = 0
    /\ status = "new" /\ stored = NULL /\ config = NULL
    /\ cached = {} /\ seen = <<>> /\ results = <<>>
    /\ outputs = <<>>
    /\ aggregate = NULL

(* The attempt has a sampler and has reached the dataset: it stores its settings, with
   the limit that comes of them, as the run's input, and reads its rows from the cache,
   or fetches and caches them. *)
ReachRows(parsed) ==
    LET limit == IF parsed.limit = NULL THEN Len(dataset) ELSE Min({parsed.limit, Len(dataset)})
        settled == [parsed EXCEPT !.limit = limit]
        batch == SubSeq(dataset, 1, limit)
    IN  /\ parsed.limit # 0 /\ Resolvable(parsed.model, env)
        /\ status' = "running"
        /\ config' = settled /\ stored' = Write(settled)
        /\ seen' = IF limit \in cached THEN ThroughCache(batch) ELSE batch
        /\ cached' = cached \cup {limit}
        /\ results' = [i \in DOMAIN batch |-> NULL]

(* It fails before that.  A new run has its input from the start. *)
MissRows(parsed) ==
    /\ status' = "failed"
    /\ IF stored = NULL THEN config' = parsed /\ stored' = Write(parsed) ELSE UNCHANGED <<config, stored>>
    /\ seen' = <<>> /\ results' = <<>>
    /\ UNCHANGED cached

(* The settings of an attempt are read and validated. *)
Begin(wire) ==
    LET parsed == Parse(wire, env) IN
    /\ parsed # NULL
    /\ ValidateStyle(parsed.style) /\ ValidateMetrics(parsed.metrics, parsed.style)
    /\ ReachRows(parsed) \/ MissRows(parsed)
    /\ UNCHANGED <<surroundings, outputs, aggregate>>

Start == status = "new" /\ Begin(source)

(* A local run is resumed with the configuration, a remote one with its stored input. *)
ResumeLocal == status = "failed" /\ Begin(source)
ResumeRemote == status = "failed" /\ Begin(stored)

Fail ==
    /\ status' = "failed"
    /\ seen' = <<>> /\ results' = <<>>
    /\ UNCHANGED <<surroundings, cached, stored, config, outputs, aggregate>>

(* The dummy sampler of a multiple-choice run draws a label. *)
Samples ==
    IF config.model.provider \in {NULL, "random"} /\ config.style.type = "multiple_choice"
    THEN {<<l>> : l \in Elements(config.style.labels)} ELSE Responses

Prepared(i) == PrepareRow(seen[i], config.style, Draws[hash])

(* The template prints every column: of a scalar its text, of an absent one nothing. *)
Printed(value) == IF IsNested(value) THEN value ELSE [is |-> "text", text |-> value.text]
Rendered(i) == <<[column \in DOMAIN seen[i] |-> Printed(seen[i][column])],
                 IF ShowsChoices THEN Prepared(i).choices ELSE <<>>>>
HashOf(i) == RowInputHash(Rendered(i), Prepared(i), Display(config.model), config.style)

Pending(i) == status = "running" /\ results[i] = NULL

(* Prepare and sample the row, score the response and complete the step. *)
EvaluateRow(i) ==
    /\ Pending(i)
    /\ Prepared(i) # NULL /\ i \notin Stored
    /\ \E response \in Samples :
          LET output == Evaluate(Prepared(i), config.style, response, ScoreOf) IN
          /\ outputs' = [k \in Stored \cup {i} |->
                           IF k # i THEN outputs[k]
                           ELSE [hash |-> HashOf(i), output |-> Encode(output, legacy), by |-> config]]
          /\ results' = [results EXCEPT ![i] = output]
    /\ UNCHANGED <<surroundings, status, cached, stored, config, seen, aggregate>>

(* The step is complete: its output is the result. *)
ReuseRow(i) ==
    /\ Pending(i)
    /\ Prepared(i) # NULL /\ i \in Stored /\ outputs[i].hash = HashOf(i)
    /\ results' = [results EXCEPT ![i] = Decode(outputs[i].output)]
    /\ UNCHANGED <<surroundings, status, cached, stored, config, seen, outputs, aggregate>>

(* A row that cannot be prepared, or a step with another hash, ends the attempt; so
   does an error of the model or an interruption. *)
FailRow(i) == Pending(i) /\ Fail

Complete ==
    /\ status = "running" /\ \A i \in Rows : results[i] # NULL
    /\ IF Aggregate(results) = NULL THEN Fail
       ELSE /\ status' = "completed"
            /\ aggregate' = Aggregate(results)
            /\ UNCHANGED <<surroundings, cached, stored, config, seen, outputs, results>>

(* Between two attempts the configuration or the environment is edited, or qt is
   replaced by a newer version. *)
Change ==
    /\ status = "failed" /\ changes < MaxChanges
    /\ changes' = changes + 1
    /\ \/ source' \in Sources /\ UNCHANGED <<env, legacy>>
       \/ env' \in Envs /\ UNCHANGED <<source, legacy>>
       \/ legacy' = FALSE /\ UNCHANGED <<source, env>>
    /\ UNCHANGED <<dataset, hash, status, cached, stored, config, seen, outputs, results, aggregate>>

Next ==
    \/ Start \/ ResumeLocal \/ ResumeRemote
    \/ \E i \in Rows : EvaluateRow(i) \/ ReuseRow(i) \/ FailRow(i)
    \/ Complete
    \/ Change

Spec == Init /\ [][Next]_vars

-----------------------------------------------------------------------------
TypeOK ==
    /\ status \in {"new", "running", "failed", "completed"}
    /\ changes \in 0..MaxChanges
    /\ \A i \in Stored :
          LET output == Decode(outputs[i].output)
              style == outputs[i].by.style
          IN  /\ output.kind = (IF style.type = "similarity" THEN "similarity" ELSE "classification")
              /\ style.type = "multiple_choice" =>
                    {output.golden, output.parsed} \subseteq Elements(style.labels) \cup {NULL}
    /\ aggregate # NULL <=> status = "completed"

(* Which choice of a row is the correct one, told from the row alone. *)
CorrectText(row, style) ==
    LET texts == ExtractChoices(row, style)
        answer == row[style.answer.column].text
    IN  CASE style.answer.by = "index" -> texts[NumberOf[answer] - style.answer.base + 1]
          [] style.answer.by = "choice" -> answer
          [] style.answer.by = "label" -> texts[CHOOSE i \in DOMAIN texts : Fold[style.labels[i]] = Fold[answer]]

(* No two labels are the same word in another case.  Settings may be valid without it. *)
Apart(labels) == \A i, j \in DOMAIN labels : Fold[labels[i]] = Fold[labels[j]] => i = j

(* The golden label of a row stands at one choice of the prompt only, and that is the
   choice the dataset calls correct, wherever the shuffle has put it; no choice is
   lost.  A dataset that gives the label needs labels that are not the same but for
   their case. *)
GoldenMarksCorrectChoice ==
    status = "running" /\ config.style.type = "multiple_choice" =>
        \A i \in Rows : Prepared(i) # NULL /\ (config.style.answer.by = "label" => Apart(config.style.labels)) =>
            LET choices == Elements(Prepared(i).choices)
                golden == Prepared(i).golden
            IN  /\ {c \in choices : c.label = golden}
                      = {[label |-> golden, text |-> CorrectText(seen[i], config.style)]}
                /\ {c.text : c \in choices} = Elements(ExtractChoices(seen[i], config.style))

(* Labels that are told apart in any case, and have no punctuation at their ends. *)
Recognisable(labels) == Apart(labels) /\ \A i \in DOMAIN labels : Clean[labels[i]] = labels[i]

(* The types are kept, and the answer to a multiple-choice row is correct if and only if
   the last label among its last words is the golden one, in any case and any
   punctuation, given labels for which that can be told. *)
AnswersAreJudgedByTheirLastLabel ==
    /\ TypeOK
    /\ \A i \in Stored : outputs[i].by.style.type = "multiple_choice" /\ Recognisable(outputs[i].by.style.labels) =>
          LET output == Decode(outputs[i].output)
              words == output.response
              Means(k, label) == Fold[Clean[words[k]]] = Fold[label]
              labels == {k \in DOMAIN words : /\ k > Len(words) - LastWords
                                              /\ \E l \in Elements(outputs[i].by.style.labels) : Means(k, l)}
          IN  output.correct <=> \E k \in labels : Means(k, output.golden) /\ \A j \in labels : j <= k

DecodedOutputs == [i \in Stored |-> Decode(outputs[i].output)]

(* What is stored are the rows of the completed attempt, all scored in its style. *)
CompletedAsStored(type) ==
    /\ status = "completed" /\ config.style.type = type /\ results # <<>>
    /\ Stored = Rows /\ \A i \in Rows : outputs[i].by.style = config.style

(* The accuracy emitted at the end of the run agrees with the confusion matrix that is
   computed from the stored outputs when the run is shown: each row is in it once, and
   the correct ones are on its diagonal.  Attempts may have been of two versions. *)
AccuracyMatchesConfusion ==
    CompletedAsStored("multiple_choice") =>
        LET labels == config.style.labels
            matrix == ConfusionMatrix(DecodedOutputs, labels)
        IN  /\ Countable(DecodedOutputs, labels)
            /\ SumOver([l \in DOMAIN labels |-> Support(matrix, l)]) = aggregate.of
            /\ SumOver([l \in DOMAIN labels |-> matrix[l][l]]) = aggregate.correct

(* F1 of a label is twice its true positives over its golden and its predicted rows, and
   is what the Python SDK computes for it from the rows; no average leaves 0..1; labels
   that never occur do no harm. *)
F1MatchesReference ==
    CompletedAsStored("multiple_choice") =>
        LET labels == config.style.labels
            metrics == OutputMetrics(config, DecodedOutputs, TRUE)
        IN  "f1" \in DOMAIN metrics =>
            LET f1 == metrics["f1"] IN
            /\ \A l \in DOMAIN labels :
                  LET actual == [i \in Rows |-> DecodedOutputs[i].golden = labels[l]]
                      predicted == [i \in Rows |-> DecodedOutputs[i].parsed = labels[l]]
                      Count(f) == Cardinality({i \in Rows : f[i]})
                      tp == Cardinality({i \in Rows : actual[i] /\ predicted[i]})
                      of == Count(actual) + Count(predicted)
                  IN  /\ SameRatio(f1.labels[l], IF of = 0 THEN Whole(0) ELSE <<2 * tp, of>>)
                      /\ SameRatio(f1.labels[l], BinaryF1(actual, predicted))
            /\ \A average \in {f1.macro, f1.weighted} : average[1] \in 0..average[2]

(* The statistics of a similarity run are in order, and within the scores. *)
PercentilesAreOrdered ==
    status = "completed" /\ config.style.type = "similarity" /\ results # <<>> =>
        LET a == aggregate
            scores == {results[i].score : i \in Rows}
        IN  /\ {a.min, a.max} \subseteq scores /\ \A s \in scores : a.min <= s /\ s <= a.max
            /\ 100 * a.min <= a.median /\ a.median <= a.p95 /\ a.p95 <= a.p99 /\ a.p99 <= 100 * a.max
            /\ a.sum \in a.min * Len(results)..a.max * Len(results)

(* What a run reports, when it ends and when it is shown, agrees with itself, with the
   stored outputs and with the scores. *)
MetricsMatchOutputs == AccuracyMatchesConfusion /\ F1MatchesReference /\ PercentilesAreOrdered

(* The cache keeps what a column prints: a nested value or a string makes it text, and
   otherwise its values have to be of one kind, integers or doubles if they are numbers.
   A row without the column would get one. *)
Survives(batch, column) ==
    LET values == {Column(batch, column)[i] : i \in DOMAIN batch} \ {Absent} IN
    /\ \A i \in DOMAIN batch : column \in DOMAIN batch[i]
    /\ \/ \E v \in values : v.is \in {"array", "object", "string"}
       \/ \A v \in values : v.is = "bool"
       \/ \A v \in values : v.is = "number" /\ v.int
       \/ \A v \in values : v.is = "number" /\ ~v.int /\ FloatText[v.text] = v.text

(* An attempt that is resumed for the same model and style finds the rows it has already
   paid for: they are prepared and printed as they were, whether they came from the
   dataset or, then or now, from the cache, and whatever their limits were. *)
ResumedRowsAreReused ==
    status = "running" =>
        \A i \in Rows \cap Stored :
            outputs[i].by.style = config.style /\ Display(outputs[i].by.model) = Display(config.model) =>
                \/ Prepared(i) # NULL /\ outputs[i].hash = HashOf(i)
                \/ \E n \in DOMAIN dataset : \E column \in Columns(dataset) : ~Survives(SubSeq(dataset, 1, n), column)

(* The run as it would be had the model answered to row i with response, in a qt of
   today, and had there been n rows only. *)
OutputsWith(i, response, n) ==
    [k \in 1..n |-> IF k # i THEN outputs[k]
                    ELSE [outputs[i] EXCEPT !.output =
                            Encode(Evaluate(Prepared(i), config.style, response, ScoreOf), FALSE)]]

(* A comparison with a run of which one answer is another, or which has fewer rows,
   blames that row and the latencies alone: no other step differs, metrics other than
   those of latencies move only if the verdict on the row has changed, not if it is stored
   in another format, and the accuracy goes the way of the verdict.  Seen from the other
   side the deltas are the opposite. *)
ComparisonBlamesTheRow ==
    CompletedAsStored(config.style.type) =>
        \A pair \in Latencies : \A mine \in {pair[1]}, theirs \in {pair[2]} :
        \A this \in {RunData("run", config, [k \in Rows |-> outputs[k]], aggregate, mine)} :
        \A i, n \in Rows : \A response \in Samples : i <= n =>
        \A others \in {OutputsWith(i, response, n)} : \A decoded \in {[k \in 1..n |-> Decode(others[k].output)]} :
        \A that \in {RunData("run", [config EXCEPT !.limit = n], others, Aggregate(decoded), theirs)} :
        \A report \in {CompareReport(this, that)} : \A mirror \in {MetricRows(that.metrics, this.metrics)} :
            LET changed == {k \in Rows : ~report.steps[k].output}
                moved == {m \in DOMAIN report.metrics : ~report.metrics[m].same}
                measured == {m \in DOMAIN report.metrics : m[1] = "latency"}
                Verdict(output) == IF output.kind = "similarity" THEN <<output.score>>
                                   ELSE <<output.parsed, output.correct>>
            IN  /\ changed \subseteq {i} \cup n + 1..Len(seen)
                /\ DOMAIN report.outputDifferences = changed \cap {i}
                /\ \A k \in Rows : report.steps[k].input = (k <= n)
                /\ report.differs <=> changed # {} \/ moved \cap measured # {}
                /\ mine = theirs => moved \cap measured = {}
                /\ n = Len(seen) /\ Verdict(decoded[i]) = Verdict(DecodedOutputs[i]) => moved \subseteq measured
                /\ n = Len(seen) /\ config.style.type # "similarity" =>
                        report.metrics[<<"accuracy", 0>>].direction =
                            (IF decoded[i].correct = DecodedOutputs[i].correct THEN "same"
                             ELSE IF decoded[i].correct THEN "up" ELSE "down")
                /\ \A m \in DOMAIN report.metrics :
                        mirror[m].direction = (CASE report.metrics[m].direction = "up" -> "down"
                                                 [] report.metrics[m].direction = "down" -> "up"
                                                 [] OTHER -> report.metrics[m].direction)

(* No attempt uses a similarity score of another metric than its own, although the
   steps it finds may be of an attempt with another configuration. *)
ScoresBelongToTheirMetric ==
    status \in {"running", "completed"} /\ config.style.type = "similarity" =>
        \A i \in Rows : results[i] # NULL => results[i].metric = config.style.metric

(* The input a run has stored means the same whenever it is read again, with whatever
   environment: the same model on the same account, the same metric. *)
StoredSettingsSurvive ==
    stored # NULL => \A e \in Envs : Parse(stored, e) = config
=============================================================================
