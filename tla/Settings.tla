------------------------------ MODULE Settings ------------------------------
(***************************************************************************)
(* The settings of a no-code benchmark: how a sampler, a similarity metric *)
(* and the selection of output metrics are read from the configuration or  *)
(* from a stored run input, how they are written back, and which           *)
(* combinations are refused.  The operators are used by ScoredRun.         *)
(*                                                                         *)
(* Text such as "openai:gpt" is a record of its parts, and NULL is an      *)
(* absent part or an error.                                                *)
(***************************************************************************)
EXTENDS Naturals, Sequences, FiniteSets

CONSTANTS
    Strings,         \* the texts there are
    NULL

Hosted == {"openai", "anthropic", "gemini"}
Dummies == {"random", "random_label"}

SamplerOf(provider, model, account, gateway) ==
    [provider |-> provider, model |-> model, account |-> account, gateway |-> gateway]

Or(a, b) == IF a # NULL THEN a ELSE b

(* The table form of a sampler, with the environment as the second place to look for
   what the Cloudflare gateway needs. *)
ParseTable(table, env) ==
    LET account == Or(table.account, env.account)
        gateway == Or(table.gateway, env.gateway)
    IN  IF table.provider \in Dummies /\ table.model = NULL
        THEN SamplerOf(table.provider, NULL, NULL, NULL)
        ELSE IF table.model \in {NULL, ""} THEN NULL
        ELSE IF table.provider \in Hosted THEN SamplerOf(table.provider, table.model, NULL, NULL)
        ELSE IF table.provider = "cloudflare_ai_gateway" /\ account # NULL /\ gateway # NULL
        THEN SamplerOf(table.provider, table.model, account, gateway)
        ELSE NULL

(* The string form has no place for an account. *)
ParseText(text, env) == ParseTable(SamplerOf(text.provider, text.model, NULL, NULL), env)

Text(provider, model) == [form |-> "text", provider |-> provider, model |-> model]
Table(provider, model, account, gateway) ==
    [form |-> "table", provider |-> provider, model |-> model, account |-> account, gateway |-> gateway]

(* An absent model stays absent. *)
ParseSampler(wire, env) ==
    IF wire = NULL THEN SamplerOf(NULL, NULL, NULL, NULL)
    ELSE IF wire.form = "text" THEN ParseText(wire, env) ELSE ParseTable(wire, env)

(* What is part of a row's hash: no account and no gateway. *)
Display(sampler) ==
    IF sampler.provider = NULL THEN Text("random", NULL) ELSE Text(sampler.provider, sampler.model)

(* Mutant: the string form is written for every sampler. *)
SerializeText(sampler) == IF sampler.provider = NULL THEN NULL ELSE Display(sampler)

Serialize(sampler) ==
    IF sampler.provider = "cloudflare_ai_gateway"
    THEN Table(sampler.provider, sampler.model, sampler.account, sampler.gateway)
    ELSE IF sampler.provider = NULL THEN NULL ELSE Display(sampler)

(* The sampler can be built. *)
Resolvable(sampler, env) == sampler.provider = "cloudflare_ai_gateway" => env.key

-----------------------------------------------------------------------------
(* A similarity metric is "levenshtein" or a table with an embedding model. *)
Levenshtein == [name |-> "levenshtein", embedding |-> NULL]
Cosine == [name |-> "cosine", embedding |-> "fastembed"]

ParseMetric(wire) ==
    IF wire = [form |-> "text", name |-> "levenshtein"] THEN Levenshtein
    ELSE IF wire = [form |-> "table", type |-> "cosine", embedding |-> "fastembed"] THEN Cosine
    ELSE NULL

SerializeMetric(metric) ==
    IF metric = Levenshtein THEN [form |-> "text", name |-> metric.name]
    ELSE [form |-> "table", type |-> metric.name, embedding |-> metric.embedding]

(* Output metrics: a bare name is shown in JSON output only. *)
ShowOf(selection) == IF selection.show = NULL THEN "json" ELSE selection.show
RequestedFor(selection, json) == ShowOf(selection) = "all" \/ json

ValidateMetrics(metrics, style) ==
    /\ \A i, j \in DOMAIN metrics : metrics[i].name = metrics[j].name => i = j
    /\ metrics # <<>> => style.type = "multiple_choice"

-----------------------------------------------------------------------------
Elements(s) == {s[i] : i \in DOMAIN s}

(* choices come from one column or from several, and the answer is a label, an index
   or the name of the column that holds the correct choice. *)
ValidateStyle(style) ==
    style.type = "multiple_choice" =>
        /\ style.labels # <<>>
        /\ Cardinality(Elements(style.labels)) = Len(style.labels)
        /\ style.columns # NULL => /\ style.columns # <<>>
                                   /\ Len(style.labels) = Len(style.columns)
        /\ style.answer.by = "choice" => style.columns # NULL /\ style.answer.column \in Elements(style.columns)

-----------------------------------------------------------------------------
(* A benchmark section or a stored input, read and written. *)
ParseStyle(wire) ==
    IF wire.type = "similarity" THEN [wire EXCEPT !.metric = ParseMetric(wire.metric)] ELSE wire

Parse(wire, env) ==
    LET sampler == ParseSampler(wire.model, env)
        style == ParseStyle(wire.style)
    IN  IF sampler = NULL \/ (style.type = "similarity" /\ style.metric = NULL) THEN NULL
        ELSE [model |-> sampler, style |-> style, metrics |-> wire.metrics, limit |-> wire.limit]

Write(config) ==
    [model |-> Serialize(config.model), metrics |-> config.metrics, limit |-> config.limit,
     style |-> IF config.style.type = "similarity"
               THEN [config.style EXCEPT !.metric = SerializeMetric(config.style.metric)]
               ELSE config.style]
-----------------------------------------------------------------------------
(* What settings may be written, and what an environment may hold. *)
Maybe == Strings \cup {NULL}
SamplerText == [form: {"text"}, provider: Strings, model: Maybe]
SamplerTable == [form: {"table"}, provider: Strings, model: Maybe, account: Maybe, gateway: Maybe]
MetricWire == [form: {"text"}, name: Strings] \cup [form: {"table"}, type: Strings, embedding: Strings]

SamplerRecord == [provider: Maybe, model: Maybe, account: Maybe, gateway: Maybe]
MetricRecord == [name: Strings, embedding: Maybe]

Answer == [by: {"index", "choice", "label"}, column: Strings, base: Nat]
ChoiceStyle == [type: {"multiple_choice"}, column: Maybe, columns: {NULL} \cup Seq(Strings),
                labels: Seq(Strings), seed: Maybe, answer: Answer]
Style(Metric) == [type: {"exact_match"}, golden: Strings]
                     \cup [type: {"similarity"}, golden: Strings, metric: Metric]
                     \cup ChoiceStyle

Wire == [model: {NULL} \cup SamplerText \cup SamplerTable, style: Style(MetricWire),
         metrics: Seq([name: Strings, show: Maybe]), limit: Nat \cup {NULL}]
Environment == [account: Maybe, gateway: Maybe, key: BOOLEAN]

ASSUME StringsAssumption ==
    Hosted \cup Dummies \cup {"", "cloudflare_ai_gateway", "levenshtein", "cosine", "fastembed"} \subseteq Strings
ASSUME NullAssumption ==
    /\ NULL \notin Strings /\ NULL \notin Nat /\ NULL \notin Seq(Strings)
    /\ NULL \notin SamplerText \cup SamplerTable \cup SamplerRecord \cup MetricRecord
    /\ NULL \notin Style({Levenshtein, Cosine})
=============================================================================
