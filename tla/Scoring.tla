------------------------------- MODULE Scoring ------------------------------
(***************************************************************************)
(* How a row of a no-code benchmark is prepared, how a response to it is   *)
(* scored, and how the scores are aggregated.  The operators are used by   *)
(* ScoredRun.                                                              *)
(*                                                                         *)
(* A response is the sequence of its words.  Fold maps a word to its lower *)
(* case and Clean removes what surrounds its letters; labels are words.    *)
(* A dataset value is a record with its kind in "is".  NULL is an error,   *)
(* or a response without a label.  Scores are integers, percentiles are    *)
(* given in hundredths, and ratios are exact fractions <<n, d>>.           *)
(***************************************************************************)
EXTENDS Settings, Integers, SequencesExt

CONSTANTS
    Fold, Clean,     \* [Word -> Word]
    NumberOf,        \* [Word -> number or NULL]
    LastWords        \* how many words at the end of a response are looked at

(* Case and what surrounds the letters of a word are independent of one another. *)
ASSUME WordsAssumption ==
    /\ Fold \in [Strings -> Strings] /\ Clean \in [Strings -> Strings]
    /\ NumberOf \in [Strings -> Nat \cup {NULL}]
    /\ \A v, w \in Strings : Fold[v] = Fold[w] /\ Clean[v] = v => Clean[w] = w
    /\ LastWords \in Nat \ {0}

-----------------------------------------------------------------------------
IsScalar(value) == value.is \in {"string", "number", "bool"}

RequiredScalar(row, column) ==
    IF column \in DOMAIN row /\ IsScalar(row[column]) THEN row[column].text ELSE NULL

(* A string may hold the choices as JSON. *)
RequiredChoices(row, column) ==
    IF column \notin DOMAIN row THEN NULL
    ELSE LET value == row[column]
             decoded == IF value.is = "string" /\ value.json # NULL THEN value.json ELSE value
         IN  IF decoded.is \in {"array", "object"} /\ \A i \in DOMAIN decoded.items : IsScalar(decoded.items[i])
             THEN decoded ELSE NULL

RequiredIndex(row, column) ==
    IF column \in DOMAIN row /\ (row[column].is = "string" \/ (row[column].is = "number" /\ row[column].int))
    THEN NumberOf[row[column].text] ELSE NULL

(* The texts of the choices, in order. *)
ExtractChoices(row, style) ==
    IF style.columns # NULL
    THEN IF \A i \in DOMAIN style.columns : RequiredScalar(row, style.columns[i]) # NULL
         THEN [i \in DOMAIN style.columns |-> RequiredScalar(row, style.columns[i])] ELSE NULL
    ELSE LET choices == RequiredChoices(row, style.column) IN
         IF choices = NULL THEN NULL
         ELSE IF choices.is = "array" THEN [i \in DOMAIN choices.items |-> choices.items[i].text]
         ELSE IF Elements(style.labels) \subseteq DOMAIN choices.items
         THEN [i \in DOMAIN style.labels |-> choices.items[style.labels[i]].text]
         ELSE NULL

FirstIndex(s, Test(_)) ==
    IF \E i \in DOMAIN s : Test(s[i])
    THEN CHOOSE i \in DOMAIN s : Test(s[i]) /\ \A j \in 1..i-1 : ~Test(s[j]) ELSE NULL

(* The case of a label is ignored. *)
LabelIndex(word, labels) == FirstIndex(labels, LAMBDA l : Fold[l] = Fold[word])

(* The position of the correct choice among n choices, of which labels are the labels. *)
CorrectIndex(row, style, labels, n) ==
    LET answer == style.answer IN
    CASE answer.by = "index" ->
            LET index == RequiredIndex(row, answer.column) IN
            IF index # NULL /\ index >= answer.base /\ index - answer.base < n
            THEN index - answer.base + 1 ELSE NULL
      [] answer.by = "choice" -> FirstIndex(style.columns, LAMBDA c : c = answer.column)
      [] answer.by = "label" ->
            LET golden == RequiredScalar(row, answer.column) IN
            IF golden = NULL THEN NULL ELSE LabelIndex(golden, labels)

(* Fisher-Yates from the top: hash[seed][upper] is the draw for position upper. *)
Swap(s, upper, draw) ==
    LET index == (draw % upper) + 1
    IN  [s EXCEPT ![upper] = s[index], ![index] = s[upper]]

Shuffle(values, seed, hash) ==
    LET n == Len(values)
        after[k \in 0..n-1] ==
            IF k = 0 THEN values ELSE Swap(after[k-1], n - k + 1, hash[seed][n - k + 1])
    IN  after[n-1]

MultipleChoice(choices, golden, responses) ==
    [type |-> "multiple_choice", choices |-> choices, golden |-> golden, responses |-> responses]
Free(type, golden) == [type |-> type, choices |-> <<>>, golden |-> golden, responses |-> NULL]

(* Mutant: the golden label is that of the position before the shuffle. *)
PrepareUnshuffled(row, style, hash) ==
    IF style.type # "multiple_choice"
    THEN IF RequiredScalar(row, style.golden) = NULL THEN NULL ELSE Free(style.type, RequiredScalar(row, style.golden))
    ELSE LET texts == ExtractChoices(row, style) IN
         IF texts = NULL \/ texts = <<>> \/ Len(texts) > Len(style.labels) THEN NULL
         ELSE LET labels == SubSeq(style.labels, 1, Len(texts))
                  correct == CorrectIndex(row, style, labels, Len(texts))
                  shuffled == IF style.seed = NULL THEN texts ELSE Shuffle(texts, RequiredScalar(row, style.seed), hash)
              IN  IF correct = NULL THEN NULL
                  ELSE MultipleChoice([i \in DOMAIN texts |-> [label |-> labels[i], text |-> shuffled[i]]],
                                      labels[correct], style.labels)

PrepareRow(row, style, hash) ==
    IF style.type # "multiple_choice"
    THEN IF RequiredScalar(row, style.golden) = NULL THEN NULL ELSE Free(style.type, RequiredScalar(row, style.golden))
    ELSE LET texts == ExtractChoices(row, style) IN
         IF texts = NULL \/ texts = <<>> \/ Len(texts) > Len(style.labels) THEN NULL
         ELSE LET labels == SubSeq(style.labels, 1, Len(texts))
                  correct == CorrectIndex(row, style, labels, Len(texts))
                  marked == [i \in DOMAIN texts |-> [text |-> texts[i], correct |-> i = correct]]
                  seed == IF style.seed = NULL THEN NULL ELSE RequiredScalar(row, style.seed)
                  shuffled == IF style.seed = NULL THEN marked ELSE Shuffle(marked, seed, hash)
              IN  IF correct = NULL \/ (style.seed # NULL /\ seed = NULL) THEN NULL
                  ELSE MultipleChoice([i \in DOMAIN texts |-> [label |-> labels[i], text |-> shuffled[i].text]],
                                      labels[CHOOSE i \in DOMAIN texts : shuffled[i].correct], style.labels)

-----------------------------------------------------------------------------
LabelOf(word, labels) ==
    LET i == LabelIndex(word, labels) IN IF i = NULL THEN NULL ELSE labels[i]

(* Mutant: the last words are read forwards. *)
ExtractForwards(response, labels) ==
    LET first == IF Len(response) > LastWords THEN Len(response) - LastWords + 1 ELSE 1
        marked == {i \in first..Len(response) : LabelOf(Clean[response[i]], labels) # NULL}
    IN  IF marked = {} THEN NULL
        ELSE LabelOf(Clean[response[CHOOSE i \in marked : \A j \in marked : i <= j]], labels)

(* A response that is a label, or the last label among the last words. *)
ExtractLabel(response, labels) ==
    IF Len(response) = 1 /\ LabelOf(response[1], labels) # NULL THEN LabelOf(response[1], labels)
    ELSE LET first == IF Len(response) > LastWords THEN Len(response) - LastWords + 1 ELSE 1
             marked == {i \in first..Len(response) : LabelOf(Clean[response[i]], labels) # NULL}
         IN  IF marked = {} THEN NULL
             ELSE LabelOf(Clean[response[CHOOSE i \in marked : \A j \in marked : i >= j]], labels)

(* A response of several words, which equals no golden answer. *)
Sentence == "..."

(* The output of a row: the answer read from the response, or a score. *)
Evaluate(prepared, style, response, scoreOf) ==
    IF prepared.type = "similarity"
    THEN [kind |-> "similarity", metric |-> style.metric, response |-> response,
          golden |-> prepared.golden, score |-> scoreOf[style.metric.name][response]]
    ELSE LET parsed == IF prepared.responses # NULL THEN ExtractLabel(response, prepared.responses)
                       ELSE IF Len(response) = 1 THEN response[1] ELSE Sentence
         IN  [kind |-> "classification", response |-> response, parsed |-> parsed,
              golden |-> prepared.golden, correct |-> parsed = prepared.golden]

(* Outputs are stored under their kind; older versions stored the classification
   itself. *)
Encode(output, legacy) == IF legacy THEN output ELSE [tag |-> output.kind, content |-> output]
Decode(stored) == IF "tag" \in DOMAIN stored THEN stored.content ELSE stored

(* Mutant: the scoring is no part of the hash. *)
HashWithoutScoring(rendered, prepared, model, style) == <<rendered, prepared.golden, model>>

(* Only a similarity score depends on more than what is rendered. *)
RowInputHash(rendered, prepared, model, style) ==
    <<rendered, prepared.golden, model, IF prepared.type = "similarity" THEN style ELSE NULL>>

-----------------------------------------------------------------------------
SumOver(f) == FoldFunction(+, 0, f)

(* The values in order: at each place the one that fewer are below, and that enough are not
   above. *)
Sorted(values) ==
    [k \in DOMAIN values |->
        CHOOSE v \in Elements(values) : /\ Cardinality({i \in DOMAIN values : values[i] < v}) < k
                                       /\ k <= Cardinality({i \in DOMAIN values : values[i] <= v})]

(* Hundredths of the value at p percent of the way through a sorted sequence. *)
Percentile(sorted, p) ==
    LET rank == p * (Len(sorted) - 1)
        lower == rank \div 100 + 1
        weight == rank % 100
    IN  IF weight = 0 THEN 100 * sorted[lower]
        ELSE sorted[lower] * (100 - weight) + sorted[lower+1] * weight

Statistics(values) ==
    LET sorted == Sorted(values) IN
    [sum |-> SumOver(values), of |-> Len(values),
     squares |-> SumOver([i \in DOMAIN values |-> values[i] * values[i]]),
     min |-> sorted[1], max |-> sorted[Len(values)],
     median |-> Percentile(sorted, 50), p95 |-> Percentile(sorted, 95), p99 |-> Percentile(sorted, 99)]

(* NULL if classifications and similarities are mixed, nothing if there is no result. *)
Aggregate(results) ==
    IF results = <<>> THEN <<>>
    ELSE IF \A i \in DOMAIN results : results[i].kind = "classification"
    THEN [correct |-> Cardinality({i \in DOMAIN results : results[i].correct}), of |-> Len(results)]
    ELSE IF \A i \in DOMAIN results : results[i].kind = "similarity"
    THEN Statistics([i \in DOMAIN results |-> results[i].score])
    ELSE NULL

(* Rows are golden labels, columns are predicted ones, and one more column counts the
   responses without a label. *)

ConfusionMatrix(outputs, labels) ==
    [golden \in DOMAIN labels |-> [predicted \in 1..Len(labels)+1 |->
        Cardinality({i \in DOMAIN outputs :
            /\ outputs[i].golden = labels[golden]
            /\ outputs[i].parsed = IF predicted > Len(labels) THEN NULL ELSE labels[predicted]})]]

(* Every label of the outputs is one of labels. *)
Countable(outputs, labels) ==
    labels # <<>> /\ \A i \in DOMAIN outputs : outputs[i].golden \in Elements(labels)
                                            /\ outputs[i].parsed \in Elements(labels) \cup {NULL}

Plus(a, b) == <<a[1] * b[2] + b[1] * a[2], a[2] * b[2]>>
Times(a, b) == <<a[1] * b[1], a[2] * b[2]>>
SafeRatio(a, b) == IF b[1] = 0 THEN <<0, 1>> ELSE <<a[1] * b[2], a[2] * b[1]>>
Whole(n) == <<n, 1>>

Support(matrix, l) == SumOver(matrix[l])

(* Mutant: a false positive of a label is any prediction of it. *)
F1OfPredictions(matrix, l) ==
    LET tp == matrix[l][l]
        fp == SumOver([g \in DOMAIN matrix |-> matrix[g][l]])
        precision == SafeRatio(Whole(tp), Whole(tp + fp))
        recall == SafeRatio(Whole(tp), Whole(Support(matrix, l)))
    IN  SafeRatio(Times(Whole(2), Times(precision, recall)), Plus(precision, recall))

F1(matrix, l) ==
    LET tp == matrix[l][l]
        fp == SumOver([g \in DOMAIN matrix \ {l} |-> matrix[g][l]])
        precision == SafeRatio(Whole(tp), Whole(tp + fp))
        recall == SafeRatio(Whole(tp), Whole(Support(matrix, l)))
    IN  SafeRatio(Times(Whole(2), Times(precision, recall)), Plus(precision, recall))

F1Metrics(matrix) ==
    LET f1 == [l \in DOMAIN matrix |-> F1(matrix, l)]
        total == SumOver([l \in DOMAIN matrix |-> Support(matrix, l)])
        Sum(f) == FoldFunction(Plus, Whole(0), f)
        Weighted(l) == Times(f1[l], SafeRatio(Whole(Support(matrix, l)), Whole(total)))
    IN  [labels |-> f1, macro |-> Times(Sum(f1), <<1, Len(matrix)>>),
         weighted |-> Sum([l \in DOMAIN matrix |-> Weighted(l)])]

(* The same for one label, as the Python SDK computes it: actual and predicted say of each
   sample whether it has the label. *)
Precision(actual, predicted) ==
    LET tp == Cardinality({i \in DOMAIN actual : actual[i] /\ predicted[i]})
        fp == Cardinality({i \in DOMAIN actual : ~actual[i] /\ predicted[i]})
    IN  SafeRatio(Whole(tp), Whole(tp + fp))

Recall(actual, predicted) ==
    LET tp == Cardinality({i \in DOMAIN actual : actual[i] /\ predicted[i]})
        fn == Cardinality({i \in DOMAIN actual : actual[i] /\ ~predicted[i]})
    IN  SafeRatio(Whole(tp), Whole(tp + fn))

BinaryF1(actual, predicted) ==
    LET p == Precision(actual, predicted)
        r == Recall(actual, predicted)
    IN  SafeRatio(Times(Whole(2), Times(p, r)), Plus(p, r))

(* What is shown beside the stored metrics: NULL is an error. *)
OutputMetrics(config, outputs, json) ==
    LET requested == {i \in DOMAIN config.metrics : RequestedFor(config.metrics[i], json)}
        names == {config.metrics[i].name : i \in requested}
    IN  IF requested = {} \/ DOMAIN outputs = {} THEN [n \in {} |-> NULL]
        ELSE IF config.style.type # "multiple_choice" \/ ~Countable(outputs, config.style.labels) THEN NULL
        ELSE LET matrix == ConfusionMatrix(outputs, config.style.labels) IN
             [n \in names |-> IF n = "f1" THEN F1Metrics(matrix) ELSE matrix]
=============================================================================
