----------------------------- MODULE MCScoredRun ----------------------------
(* Instances of ScoredRun for TLC. *)
EXTENDS ScoredRun

Words == {"A", "B", "C", "a", "b", "c", "(A)", "B.", "or", "x", "y", "z", "1", "2", "9", "..."}
Doubles == {"1.0", "1.5", "2.0", "9.0"}
Seeds == {"s1", "s2"}
Names == {"", "cloudflare_ai_gateway", "levenshtein", "cosine", "fastembed", "m", "own", "one", "two", "g",
          "f1", "confusion", "all", "choices", "pair", "c1", "c2", "index", "label", "seed", "golden"}
MCStrings == Words \cup Doubles \cup Seeds \cup Names \cup Hosted \cup Dummies
MCFold == [[w \in MCStrings |-> w] EXCEPT !["A"] = "a", !["B"] = "b", !["C"] = "c"]
MCClean == [[w \in MCStrings |-> w] EXCEPT !["(A)"] = "A", !["B."] = "B"]
MCFloatText == ("1" :> "1.0") @@ ("2" :> "2.0") @@ ("9" :> "9.0") @@ [w \in Doubles |-> w]
MCNumberOf == [[w \in MCStrings |-> NULL] EXCEPT !["1"] = 1, !["2"] = 2, !["9"] = 9]

String(text) == [is |-> "string", text |-> text, json |-> NULL]
Number(text) == [is |-> "number", text |-> text, int |-> TRUE]
Float(text) == [is |-> "number", text |-> text, int |-> FALSE]
Bool(text) == [is |-> "bool", text |-> text]
Array == [is |-> "array", items |-> <<String("x"), String("y"), Number("9")>>]
Object == [is |-> "object", items |-> ("A" :> String("y")) @@ ("B" :> String("x"))]

(* Rows that suit every style, in two shapes, and one that suits few. *)
Row1 == [choices |-> Array, pair |-> Object, c1 |-> String("x"), c2 |-> Number("9"),
         index |-> Number("2"), label |-> String("b"), seed |-> String("s1"), golden |-> String("b")]
Row2 == [Row1 EXCEPT !.choices = [String("...") EXCEPT !.json = Array], !.index = String("1"),
                     !.label = String("A"), !.seed = String("s2")]
Row3 == [choices |-> Object, pair |-> Number("1"), c1 |-> String("x"), c2 |-> Number("1"),
         index |-> Number("9"), label |-> String("z"), seed |-> Array, golden |-> Number("9")]
Row(value) == [golden |-> value]

SomeDatasets ==
    { <<>>, <<Row1, Row2>>, <<Row2, Row3>>,
      <<Row(Number("1")), Row(Number("2")), Row(String("b"))>>,
      <<Row(Number("1")), Row(Float("1.5"))>>,
      <<Row(Bool("x")), Row(Float("1.5"))>> }
SomeDraws == [h \in {<<0, 1>>, <<1, 0>>, <<1, 2>>} |-> [s \in MCStrings |-> <<0, h[1], h[2]>>]]
(* The same, and others. *)
SomeLatencies == {<<<<1, 3>>, <<1, 3>>>>, <<<<1, 3>>, <<2>>>>}
SomeResponses == {<<"b">>, <<"or", "B.", "(A)">>, <<"A", "or", "or">>}

(* The scores of a response by its length and its first word. *)
Score(response) == Len(response) + IF response[1] = "or" THEN 4 ELSE 0
MCScoreOf == [levenshtein |-> [r \in SomeResponses |-> Score(r)], cosine |-> [r \in SomeResponses |-> 3 - Len(r)]]

Choice(column, columns, by, answer, base, labels, seed) ==
    [type |-> "multiple_choice", column |-> column, columns |-> columns, labels |-> labels, seed |-> seed,
     answer |-> [by |-> by, column |-> answer, base |-> base]]
Similarity(metric) == [type |-> "similarity", golden |-> "golden", metric |-> metric]
Exact == [type |-> "exact_match", golden |-> "golden"]
Shown(name, show) == [name |-> name, show |-> show]

Limited(limit, model, style, metrics) == [model |-> model, style |-> style, metrics |-> metrics, limit |-> limit]
Source(model, style, metrics) == Limited(NULL, model, style, metrics)
Gateway == Text("cloudflare_ai_gateway", "m")
SomeSources ==
    { Source(NULL, Choice("choices", NULL, "index", "index", 1, <<"A", "B", "C">>, "seed"), <<Shown("f1", NULL)>>),
      Source(Text("openai", "m"), Choice(NULL, <<"c1", "c2">>, "choice", "c2", 0, <<"A", "B">>, NULL),
             <<Shown("confusion", "all"), Shown("f1", NULL)>>),
      Source(Gateway, Choice("pair", NULL, "label", "label", 0, <<"A", "B">>, NULL), <<>>),
      Source(Gateway, Similarity([form |-> "text", name |-> "levenshtein"]), <<>>),
      Limited(2, Table("cloudflare_ai_gateway", "m", "own", NULL),
             Similarity([form |-> "table", type |-> "cosine", embedding |-> "fastembed"]), <<>>),
      Limited(1, Text("anthropic", "m"), Exact, <<>>),
      Limited(2, Text("anthropic", "m"), Exact, <<>>),
      Limited(1, NULL, Choice("choices", NULL, "index", "index", 1, <<"A", "B", "C">>, "seed"), <<Shown("f1", NULL)>>),
      \* refused
      Source(Text("random", NULL), Exact, <<Shown("f1", NULL)>>),
      Limited(0, Text("random", NULL), Exact, <<>>),
      Source(Text("random", NULL), Choice("choices", NULL, "index", "index", 1, <<"A", "B", "A">>, NULL), <<>>),
      Source(Text("openai", ""), Similarity([form |-> "text", name |-> "cosine"]), <<>>) }

SomeEnvs ==
    { [account |-> "one", gateway |-> "g", key |-> TRUE], [account |-> "two", gateway |-> NULL, key |-> FALSE] }
=============================================================================
