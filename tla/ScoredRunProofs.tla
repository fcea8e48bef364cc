--------------------------- MODULE ScoredRunProofs --------------------------
(***************************************************************************)
(* Proofs about ScoredRun, for any settings, environments, datasets,       *)
(* hashes and responses.                                                   *)
(***************************************************************************)
EXTENDS ScoredRun, FiniteSetTheorems, SequenceTheorems, TLAPS

-----------------------------------------------------------------------------
(* Settings. *)

Name == Strings \ {""}
Sampler ==
    {SamplerOf(NULL, NULL, NULL, NULL)}
        \cup [provider: Dummies, model: {NULL}, account: {NULL}, gateway: {NULL}]
        \cup [provider: Hosted, model: Name, account: {NULL}, gateway: {NULL}]
        \cup [provider: {"cloudflare_ai_gateway"}, model: Name, account: Strings, gateway: Strings]

Setting == [model: Sampler, style: Style({Levenshtein, Cosine}),
            metrics: Seq([name: Strings, show: Maybe]), limit: Nat \cup {NULL}]

LEMMA SamplersAreRecords == Sampler \subseteq SamplerRecord /\ NULL \notin Sampler
  <1>1. Sampler \subseteq SamplerRecord
    <2>1. Dummies \subseteq Maybe /\ Hosted \subseteq Maybe /\ "cloudflare_ai_gateway" \in Maybe
      BY StringsAssumption DEF Maybe
    <2>2. Strings \subseteq Maybe /\ Name \subseteq Maybe /\ NULL \in Maybe
      BY DEF Maybe, Name
    <2>3. SamplerOf(NULL, NULL, NULL, NULL) \in SamplerRecord
      BY <2>2 DEF SamplerOf, SamplerRecord
    <2>4. [provider: Dummies, model: {NULL}, account: {NULL}, gateway: {NULL}] \subseteq SamplerRecord
      BY <2>1, <2>2 DEF SamplerRecord
    <2>5. [provider: Hosted, model: Name, account: {NULL}, gateway: {NULL}] \subseteq SamplerRecord
      BY <2>1, <2>2 DEF SamplerRecord
    <2>6. [provider: {"cloudflare_ai_gateway"}, model: Name, account: Strings, gateway: Strings]
              \subseteq SamplerRecord
      BY <2>1, <2>2 DEF SamplerRecord
    <2>7. QED
      BY <2>3, <2>4, <2>5, <2>6 DEF Sampler
  <1>2. QED
    BY <1>1, NullAssumption

LEMMA TablesAreRead ==
    ASSUME NEW w \in [provider: Strings, model: Maybe, account: Maybe, gateway: Maybe],
           NEW t, t.provider = w.provider, t.model = w.model, t.account = w.account, t.gateway = w.gateway,
           NEW e \in Environment, ParseTable(t, e) # NULL
    PROVE  ParseTable(t, e) \in Sampler
  <1> DEFINE account == Or(t.account, e.account)
             gateway == Or(t.gateway, e.gateway)
  <1>1. /\ t.provider \in Strings /\ t.model \in Maybe
        /\ account \in Maybe /\ gateway \in Maybe
    BY DEF Or, Environment, Maybe
  <1> HIDE DEF account, gateway
  <1>2. CASE t.provider \in Dummies /\ t.model = NULL
    BY <1>2, <1>1 DEF ParseTable, Sampler, SamplerOf
  <1>3. CASE ~(t.provider \in Dummies /\ t.model = NULL)
    <2>1. t.model \in Name
      BY <1>3, <1>1 DEF ParseTable, Maybe, Name
    <2>2. CASE t.provider \in Hosted
      BY <1>3, <2>1, <2>2 DEF ParseTable, Sampler, SamplerOf, Name
    <2>3. CASE t.provider \notin Hosted
      <3>1. /\ t.provider = "cloudflare_ai_gateway" /\ account # NULL /\ gateway # NULL
            /\ ParseTable(t, e) = SamplerOf(t.provider, t.model, account, gateway)
        BY <1>3, <2>1, <2>3 DEF ParseTable, account, gateway, Name
      <3>2. QED
        BY <1>1, <2>1, <3>1 DEF Sampler, SamplerOf, Maybe
    <2>4. QED
      BY <2>2, <2>3
  <1>4. QED
    BY <1>2, <1>3

LEMMA SamplersAreRead ==
    ASSUME NEW w \in {NULL} \cup SamplerText \cup SamplerTable, NEW e \in Environment,
           ParseSampler(w, e) # NULL
    PROVE  ParseSampler(w, e) \in Sampler
  <1>1. CASE w = NULL
    BY <1>1 DEF ParseSampler, Sampler
  <1>2. CASE w # NULL /\ w \in SamplerText
    <2> DEFINE t == SamplerOf(w.provider, w.model, NULL, NULL)
    <2>1. t \in [provider: Strings, model: Maybe, account: Maybe, gateway: Maybe]
      BY <1>2 DEF SamplerText, SamplerOf, Maybe
    <2>2. ParseSampler(w, e) = ParseTable(t, e)
      BY <1>2 DEF ParseSampler, ParseText, SamplerText
    <2> HIDE DEF t
    <2>3. QED
      BY <2>1, <2>2, TablesAreRead
  <1>3. CASE w # NULL /\ w \in SamplerTable
    <2> DEFINE t == SamplerOf(w.provider, w.model, w.account, w.gateway)
    <2>1. /\ t \in [provider: Strings, model: Maybe, account: Maybe, gateway: Maybe]
          /\ w.provider = t.provider /\ w.model = t.model /\ w.account = t.account /\ w.gateway = t.gateway
      BY <1>3 DEF SamplerTable, SamplerOf
    <2>2. ParseSampler(w, e) = ParseTable(w, e)
      BY <1>3 DEF ParseSampler, SamplerTable
    <2> HIDE DEF t
    <2>3. QED
      BY <2>1, <2>2, TablesAreRead
  <1>4. QED
    BY <1>1, <1>2, <1>3

(* A sampler that is written is read as it was, whatever the environment. *)
LEMMA SamplersSurvive ==
    ASSUME NEW s \in Sampler, NEW e \in Environment
    PROVE  /\ Serialize(s) \in {NULL} \cup SamplerText \cup SamplerTable
           /\ ParseSampler(Serialize(s), e) = s
  <1>1. CASE s = SamplerOf(NULL, NULL, NULL, NULL)
    <2>1. s.provider = NULL /\ NULL # "cloudflare_ai_gateway"
      BY <1>1, NullAssumption, StringsAssumption DEF SamplerOf
    <2>2. Serialize(s) = NULL
      BY <2>1 DEF Serialize
    <2>3. QED
      BY <1>1, <2>2 DEF ParseSampler
  <1>2. CASE s \in [provider: Dummies, model: {NULL}, account: {NULL}, gateway: {NULL}]
    <2>1. PICK p \in Dummies : s = SamplerOf(p, NULL, NULL, NULL)
      BY <1>2 DEF SamplerOf
    <2>2. p \in Strings /\ p # NULL /\ p # "cloudflare_ai_gateway"
      BY <2>1, NullAssumption, StringsAssumption DEF Dummies
    <2> DEFINE t == [form |-> "text", provider |-> p, model |-> NULL]
    <2>3. Serialize(s) = t
      BY <2>1, <2>2 DEF Serialize, Display, Text, SamplerOf
    <2>4. t \in SamplerText
      BY <2>2 DEF SamplerText, Maybe
    <2>5. t # NULL /\ t.form = "text" /\ t.provider = p /\ t.model = NULL
      BY <2>4, NullAssumption
    <2> HIDE DEF t
    <2>6. ParseSampler(t, e) = ParseTable(SamplerOf(p, NULL, NULL, NULL), e)
      BY <2>5 DEF ParseSampler, ParseText
    <2>7. ParseTable(SamplerOf(p, NULL, NULL, NULL), e) = SamplerOf(p, NULL, NULL, NULL)
      BY <2>1 DEF ParseTable, SamplerOf
    <2>8. QED
      BY <2>1, <2>3, <2>4, <2>6, <2>7
  <1>3. CASE s \in [provider: Hosted, model: Name, account: {NULL}, gateway: {NULL}]
    <2>1. PICK p \in Hosted, m \in Name : s = SamplerOf(p, m, NULL, NULL)
      BY <1>3 DEF SamplerOf
    <2>2. /\ p \in Strings /\ p # NULL /\ p # "cloudflare_ai_gateway" /\ p \notin Dummies
          /\ m \in Strings /\ m # NULL /\ m # ""
      BY <2>1, NullAssumption, StringsAssumption DEF Hosted, Dummies, Name
    <2> DEFINE t == [form |-> "text", provider |-> p, model |-> m]
    <2>3. Serialize(s) = t
      BY <2>1, <2>2 DEF Serialize, Display, Text, SamplerOf
    <2>4. t \in SamplerText
      BY <2>2 DEF SamplerText, Maybe
    <2>5. t # NULL /\ t.form = "text" /\ t.provider = p /\ t.model = m
      BY <2>4, NullAssumption
    <2> HIDE DEF t
    <2>6. ParseSampler(t, e) = ParseTable(SamplerOf(p, m, NULL, NULL), e)
      BY <2>5 DEF ParseSampler, ParseText
    <2>7. ParseTable(SamplerOf(p, m, NULL, NULL), e) = SamplerOf(p, m, NULL, NULL)
      BY <2>1, <2>2 DEF ParseTable, SamplerOf
    <2>8. QED
      BY <2>1, <2>3, <2>4, <2>6, <2>7
  <1>4. CASE s \in [provider: {"cloudflare_ai_gateway"}, model: Name, account: Strings, gateway: Strings]
    <2> DEFINE p == "cloudflare_ai_gateway"
    <2>1. PICK m \in Name, a \in Strings, g \in Strings : s = SamplerOf(p, m, a, g)
      BY <1>4 DEF SamplerOf
    <2>2. /\ p \in Strings /\ p \notin Dummies /\ p \notin Hosted
          /\ m \in Strings /\ m # NULL /\ m # "" /\ a # NULL /\ g # NULL
      BY <2>1, NullAssumption, StringsAssumption DEF Hosted, Dummies, Name
    <2> DEFINE t == [form |-> "table", provider |-> p, model |-> m, account |-> a, gateway |-> g]
    <2>3. Serialize(s) = t
      BY <2>1, <2>2 DEF Serialize, Table, SamplerOf
    <2>4. t \in SamplerTable
      BY <2>2 DEF SamplerTable, Maybe
    <2>5. t # NULL /\ t.form = "table" /\ t.provider = p /\ t.model = m /\ t.account = a /\ t.gateway = g
      BY <2>4, NullAssumption
    <2> HIDE DEF t
    <2>6. ParseSampler(t, e) = ParseTable(t, e)
      BY <2>5 DEF ParseSampler
    <2>7. ParseTable(t, e) = SamplerOf(p, m, a, g)
      BY <2>2, <2>5 DEF ParseTable, Or
    <2>8. QED
      BY <2>1, <2>3, <2>4, <2>6, <2>7
  <1>5. QED
    BY <1>1, <1>2, <1>3, <1>4 DEF Sampler

LEMMA MetricsSurvive ==
    /\ \A w \in MetricWire : ParseMetric(w) # NULL => ParseMetric(w) \in {Levenshtein, Cosine}
    /\ \A m \in {Levenshtein, Cosine} : SerializeMetric(m) \in MetricWire /\ ParseMetric(SerializeMetric(m)) = m
    /\ NULL \notin {Levenshtein, Cosine}
  <1> USE StringsAssumption DEF Levenshtein, Cosine
  <1>1. Levenshtein # Cosine /\ Levenshtein.name = "levenshtein" /\ Cosine.name = "cosine" /\ Cosine.embedding = "fastembed"
    OBVIOUS
  <1>2. {Levenshtein, Cosine} \subseteq MetricRecord
    <2>1. /\ NULL \in Maybe /\ "fastembed" \in Maybe
          /\ "levenshtein" \in Strings /\ "cosine" \in Strings
      BY DEF Maybe
    <2>2. Levenshtein \in MetricRecord
      BY <2>1 DEF MetricRecord
    <2>3. Cosine \in MetricRecord
      BY <2>1 DEF MetricRecord
    <2>4. QED
      BY <2>2, <2>3
  <1>3. NULL \notin {Levenshtein, Cosine}
    BY <1>2, NullAssumption
  <1> HIDE DEF Levenshtein, Cosine
  <1>4. \A w \in MetricWire : ParseMetric(w) # NULL => ParseMetric(w) \in {Levenshtein, Cosine}
    BY DEF ParseMetric
  <1>5. /\ SerializeMetric(Levenshtein) = [form |-> "text", name |-> "levenshtein"]
        /\ SerializeMetric(Cosine) = [form |-> "table", type |-> "cosine", embedding |-> "fastembed"]
    BY <1>1 DEF SerializeMetric
  <1>6. /\ [form |-> "text", name |-> "levenshtein"] \in MetricWire
        /\ [form |-> "table", type |-> "cosine", embedding |-> "fastembed"] \in MetricWire
        /\ ParseMetric([form |-> "text", name |-> "levenshtein"]) = Levenshtein
        /\ ParseMetric([form |-> "table", type |-> "cosine", embedding |-> "fastembed"]) = Cosine
    BY DEF ParseMetric, MetricWire
  <1>7. QED
    BY <1>3, <1>4, <1>5, <1>6

(* What is read from settings, and that it survives being written. *)
LEMMA SettingsAreRead ==
    ASSUME NEW w \in Wire, NEW e \in Environment, Parse(w, e) # NULL
    PROVE  Parse(w, e) \in Setting
  <1>1. ParseSampler(w.model, e) # NULL /\ Parse(w, e).model = ParseSampler(w.model, e)
    BY DEF Parse
  <1>2. ParseSampler(w.model, e) \in Sampler
    BY <1>1, SamplersAreRead DEF Wire
  <1>3. /\ ParseStyle(w.style).type = "similarity" => ParseStyle(w.style).metric # NULL
        /\ Parse(w, e) = [model |-> ParseSampler(w.model, e), style |-> ParseStyle(w.style),
                          metrics |-> w.metrics, limit |-> w.limit]
    BY DEF Parse
  <1>4. ParseStyle(w.style) \in Style({Levenshtein, Cosine})
    <2>1. w.style \in Style(MetricWire)
      BY DEF Wire
    <2>2. CASE w.style.type # "similarity"
      BY <2>1, <2>2 DEF ParseStyle, Style
    <2>3. CASE w.style.type = "similarity"
      <3>1. w.style \in [type: {"similarity"}, golden: Strings, metric: MetricWire]
        BY <2>1, <2>3 DEF Style, ChoiceStyle
      <3>2. ParseStyle(w.style) = [w.style EXCEPT !.metric = ParseMetric(w.style.metric)]
        BY <2>3 DEF ParseStyle
      <3>3. ParseStyle(w.style).type = "similarity" /\ ParseStyle(w.style).metric = ParseMetric(w.style.metric)
        BY <3>1, <3>2
      <3>4. ParseMetric(w.style.metric) \in {Levenshtein, Cosine}
        BY <1>3, <3>1, <3>3, MetricsSurvive
      <3>5. ParseStyle(w.style) \in [type: {"similarity"}, golden: Strings, metric: {Levenshtein, Cosine}]
        BY <3>1, <3>2, <3>4
      <3>6. QED
        BY <3>5 DEF Style
    <2>4. QED
      BY <2>2, <2>3
  <1>5. QED
    BY <1>2, <1>3, <1>4 DEF Setting, Wire

LEMMA StylesSurvive ==
    ASSUME NEW style \in Style({Levenshtein, Cosine}),
           NEW written, written = IF style.type = "similarity"
                                  THEN [style EXCEPT !.metric = SerializeMetric(style.metric)]
                                  ELSE style
    PROVE  written \in Style(MetricWire) /\ ParseStyle(written) = style
  <1>1. CASE style.type # "similarity"
    BY <1>1 DEF ParseStyle, Style
  <1>2. CASE style.type = "similarity"
    <2> DEFINE m == style.metric
    <2>1. style \in [type: {"similarity"}, golden: Strings, metric: {Levenshtein, Cosine}]
      BY <1>2 DEF Style, ChoiceStyle
    <2>2. /\ style = [type |-> "similarity", golden |-> style.golden, metric |-> m]
          /\ m \in {Levenshtein, Cosine} /\ style.golden \in Strings
      BY <2>1
    <2>3. written = [type |-> "similarity", golden |-> style.golden, metric |-> SerializeMetric(m)]
      BY <1>2, <2>2
    <2> HIDE DEF m
    <2>4. SerializeMetric(m) \in MetricWire /\ ParseMetric(SerializeMetric(m)) = m
      BY <2>2, MetricsSurvive
    <2>5. written \in [type: {"similarity"}, golden: Strings, metric: MetricWire]
      BY <2>2, <2>3, <2>4
    <2>6. ParseStyle(written) = [type |-> "similarity", golden |-> style.golden, metric |-> m]
      BY <2>3, <2>4 DEF ParseStyle
    <2>7. QED
      BY <2>2, <2>5, <2>6 DEF Style
  <1>3. QED
    BY <1>1, <1>2

LEMMA SettingsSurvive ==
    ASSUME NEW s \in Setting
    PROVE  /\ Write(s) \in Wire
           /\ \A e \in Environment : Parse(Write(s), e) = s
  <1> DEFINE written == IF s.style.type = "similarity"
                        THEN [s.style EXCEPT !.metric = SerializeMetric(s.style.metric)]
                        ELSE s.style
  <1>1. s.style \in Style({Levenshtein, Cosine}) /\ s.model \in Sampler
    BY DEF Setting
  <1>2. written \in Style(MetricWire) /\ ParseStyle(written) = s.style
    <2> HIDE DEF written
    <2> QED
      BY <1>1, StylesSurvive DEF written
  <1> HIDE DEF written
  <1>3. Write(s) = [model |-> Serialize(s.model), metrics |-> s.metrics, limit |-> s.limit, style |-> written]
    BY DEF Write, written
  <1>4. Write(s) \in Wire
    <2>1. PICK e : e \in Environment
      <3>1. [account |-> NULL, gateway |-> NULL, key |-> TRUE] \in Environment
        BY DEF Environment, Maybe
      <3>2. QED
        BY <3>1
    <2>2. Serialize(s.model) \in {NULL} \cup SamplerText \cup SamplerTable
      BY <1>1, <2>1, SamplersSurvive
    <2>3. QED
      BY <1>2, <1>3, <2>2 DEF Wire, Setting
  <1>5. ASSUME NEW e \in Environment
        PROVE  Parse(Write(s), e) = s
    <2>1. ParseSampler(Serialize(s.model), e) = s.model
      BY <1>1, SamplersSurvive
    <2>2. s.model # NULL
      BY <1>1, SamplersAreRecords
    <2>3. s.style.type = "similarity" => s.style.metric # NULL
      <3>1. s.style.type = "similarity" => s.style.metric \in {Levenshtein, Cosine}
        BY <1>1 DEF Style, ChoiceStyle
      <3>2. QED
        BY <3>1, MetricsSurvive
    <2>4. Parse(Write(s), e) = [model |-> s.model, style |-> s.style, metrics |-> s.metrics, limit |-> s.limit]
      BY <1>2, <1>3, <2>1, <2>2, <2>3 DEF Parse
    <2>5. QED
      BY <2>4 DEF Setting
  <1>6. QED
    BY <1>4, <1>5

-----------------------------------------------------------------------------
(* What a run is configured with. *)

SurroundingsInv ==
    /\ source \in Sources /\ env \in Envs
    /\ dataset \in Datasets /\ hash \in DOMAIN Draws /\ legacy \in BOOLEAN

ConfigInv ==
    /\ config \in Setting /\ stored = Write(config)
    /\ ValidateStyle(config.style)
    /\ \E s \in Sources : config.style.type = "multiple_choice" => s.style = config.style

SettingsInv ==
    /\ SurroundingsInv
    /\ status \in {"new", "running", "failed", "completed"}
    /\ status = "new" => stored = NULL
    /\ status # "new" => ConfigInv

LEMMA Surroundings == Spec => []SurroundingsInv
  <1>1. Init => SurroundingsInv
    BY DrawsAssumption DEF Init, SurroundingsInv
  <1>2. SurroundingsInv /\ [Next]_vars => SurroundingsInv'
    <2>1. [Next]_vars => /\ UNCHANGED <<dataset, hash>>
                         /\ source' = source \/ source' \in Sources
                         /\ env' = env \/ env' \in Envs
                         /\ legacy' = legacy \/ legacy' = FALSE
      BY DEF Next, Start, ResumeLocal, ResumeRemote, Begin, EvaluateRow, ReuseRow, FailRow, Fail, Complete,
             Change, vars, surroundings
    <2>2. QED
      BY <2>1 DEF SurroundingsInv
  <1>3. QED
    BY <1>1, <1>2, PTL DEF Spec

LEMMA LimitsAreNumbers ==
    ASSUME NEW parsed \in Setting, dataset \in Datasets
    PROVE  /\ Len(dataset) \in Nat
           /\ (IF parsed.limit = NULL THEN Len(dataset) ELSE Min({parsed.limit, Len(dataset)})) \in 0..Len(dataset)
  <1>1. Len(dataset) \in Nat
    BY DatasetsAssumption
  <1>2. ASSUME parsed.limit # NULL
        PROVE  Min({parsed.limit, Len(dataset)}) \in 0..Len(dataset)
    <2>1. parsed.limit \in Nat
      BY <1>2 DEF Setting
    <2>2. \E x \in {parsed.limit, Len(dataset)} : \A y \in {parsed.limit, Len(dataset)} : x <= y
      BY <1>1, <2>1
    <2>3. Min({parsed.limit, Len(dataset)}) \in {parsed.limit, Len(dataset)}
          /\ \A y \in {parsed.limit, Len(dataset)} : Min({parsed.limit, Len(dataset)}) <= y
      BY <2>2 DEF Min
    <2>4. QED
      BY <1>1, <2>1, <2>3
  <1>3. QED
    BY <1>1, <1>2

(* Whatever is read of the configuration or of a stored input is a setting again, with
   the limit that comes of the dataset. *)
LEMMA AttemptsAreConfigured ==
    ASSUME NEW w \in Wire, SettingsInv, Begin(w),
           w \in Sources \/ (status # "new" /\ w = stored)
    PROVE  ConfigInv'
  <1> DEFINE parsed == Parse(w, env)
  <1>1. parsed \in Setting
    <2>1. parsed # NULL /\ env \in Environment
      BY SettingsAssumption DEF Begin, SettingsInv, SurroundingsInv
    <2>2. QED
      BY <2>1, SettingsAreRead
  <1>2. \E s \in Sources : parsed.style.type = "multiple_choice" => s.style = parsed.style
    <2>1. CASE w \in Sources
      <3>1. parsed.style = ParseStyle(w.style)
        BY DEF Parse, Begin
      <3>2. parsed.style.type = "multiple_choice" => parsed.style = w.style
        BY <3>1 DEF ParseStyle, Wire, Style, ChoiceStyle
      <3>3. QED
        BY <2>1, <3>2
    <2>2. CASE status # "new" /\ w = stored
      <3>1. config \in Setting /\ w = Write(config) /\ env \in Environment
        BY <2>2, SettingsAssumption DEF SettingsInv, ConfigInv, SurroundingsInv
      <3>2. parsed = config
        BY <3>1, SettingsSurvive
      <3>3. QED
        BY <2>2, <3>2 DEF SettingsInv, ConfigInv
    <2>3. QED
      BY <2>1, <2>2
  <1>3. ValidateStyle(parsed.style)
    BY DEF Begin
  <1>4. CASE ReachRows(parsed)
    <2>1. PICK limit \in Nat : config' = [parsed EXCEPT !.limit = limit]
      BY <1>4, <1>1, LimitsAreNumbers DEF ReachRows, SettingsInv, SurroundingsInv
    <2>2. config' \in Setting /\ config'.style = parsed.style
      BY <1>1, <2>1 DEF Setting
    <2>3. stored' = Write(config')
      BY <1>4 DEF ReachRows
    <2>4. QED
      BY <1>2, <1>3, <2>2, <2>3 DEF ConfigInv
  <1>5. CASE MissRows(parsed)
    <2>1. CASE stored = NULL
      BY <1>1, <1>2, <1>3, <1>5, <2>1 DEF MissRows, ConfigInv
    <2>2. CASE stored # NULL
      <3>1. ConfigInv
        BY <2>2 DEF SettingsInv
      <3>2. config' = config /\ stored' = stored
        BY <1>5, <2>2 DEF MissRows
      <3>3. QED
        BY <3>1, <3>2 DEF ConfigInv
    <2>3. QED
      BY <2>1, <2>2
  <1>6. QED
    BY <1>4, <1>5 DEF Begin

LEMMA Configured == Spec => []SettingsInv
  <1>1. Init => SettingsInv
    BY DrawsAssumption DEF Init, SettingsInv, SurroundingsInv
  <1>2. SettingsInv /\ SurroundingsInv' /\ [Next]_vars => SettingsInv'
    <2> SUFFICES ASSUME SettingsInv, SurroundingsInv', [Next]_vars PROVE SettingsInv'
      OBVIOUS
    <2>1. SurroundingsInv'
      OBVIOUS
    <2>2. ASSUME NEW w, Begin(w), w \in Sources \/ (status = "failed" /\ w = stored)
          PROVE  SettingsInv'
      <3>1. w \in Wire
        <4>1. CASE w \in Sources
          BY <4>1, SettingsAssumption
        <4>2. CASE status = "failed" /\ w = stored
          BY <4>2, SettingsSurvive DEF SettingsInv, ConfigInv
        <4>3. QED
          BY <2>2, <4>1, <4>2
      <3>2. ConfigInv'
        BY <2>2, <3>1, AttemptsAreConfigured
      <3>3. status' \in {"running", "failed"}
        BY <2>2 DEF Begin, ReachRows, MissRows
      <3>4. QED
        BY <2>1, <3>2, <3>3 DEF SettingsInv
    <2>3. CASE Start \/ ResumeLocal \/ ResumeRemote
      <3>1. \/ Begin(source) /\ source \in Sources
            \/ Begin(stored) /\ status = "failed"
        BY <2>3 DEF Start, ResumeLocal, ResumeRemote, SettingsInv, SurroundingsInv
      <3>2. QED
        BY <2>2, <3>1
    <2>4. ASSUME UNCHANGED <<config, stored>>, status' = status \/ (status # "new" /\ status' \in {"failed", "completed"})
          PROVE  SettingsInv'
      BY <2>1, <2>4 DEF SettingsInv, ConfigInv
    <2>5. ASSUME NEW i \in Rows, EvaluateRow(i) \/ ReuseRow(i) \/ FailRow(i)
          PROVE  SettingsInv'
      <3>1. UNCHANGED <<config, stored>> /\ status = "running" /\ status' \in {"running", "failed"}
        BY <2>5 DEF EvaluateRow, ReuseRow, FailRow, Fail, Pending
      <3>2. QED
        BY <2>4, <3>1
    <2>6. CASE Complete
      BY <2>4, <2>6 DEF Complete, Fail
    <2>7. CASE Change
      BY <2>4, <2>7 DEF Change
    <2>8. CASE UNCHANGED vars
      <3>1. UNCHANGED <<config, stored, status>>
        BY <2>8 DEF vars
      <3>2. QED
        BY <2>4, <3>1
    <2>9. QED
      BY <2>3, <2>5, <2>6, <2>7, <2>8 DEF Next
  <1>3. QED
    BY <1>1, <1>2, Surroundings, PTL DEF Spec

(* The input a run has stored means the same whenever it is read again
   (Sampler::serialize, CustomNoCodeParams). *)
THEOREM SettingsAreKept == Spec => []StoredSettingsSurvive
  <1>1. SettingsInv => StoredSettingsSurvive
    BY SettingsAssumption, SettingsSurvive DEF SettingsInv, ConfigInv, StoredSettingsSurvive
  <1>2. QED
    BY <1>1, Configured, PTL

-----------------------------------------------------------------------------
(* What an attempt has got, and what it stores. *)

(* A row as an attempt may get it: of the dataset or through the cache, and with any
   limit that reaches it. *)
Batches == {SubSeq(dataset, 1, n) : n \in 0..Len(dataset)}
Forms(batch) == {batch, ThroughCache(batch)}

AttemptInv ==
    status \in {"running", "completed"} =>
        \E batch \in Batches : seen \in Forms(batch) /\ DOMAIN results = DOMAIN batch

RenderedAs(row, prepared) ==
    <<[column \in DOMAIN row |-> Printed(row[column])], IF ShowsChoices THEN prepared.choices ELSE <<>>>>

StoredAs(row, h, by, response, old) ==
    LET prepared == PrepareRow(row, by.style, Draws[h])
    IN  [hash |-> RowInputHash(RenderedAs(row, prepared), prepared, Display(by.model), by.style),
         output |-> Encode(Evaluate(prepared, by.style, response, ScoreOf), old), by |-> by]

(* Every stored output comes from a row of some attempt, under valid settings. *)
IsOutput(record, i, batch, h) ==
    \E rows \in Forms(batch) : \E response \in Seq(Strings) : \E old \in BOOLEAN :
        LET by == record.by IN
        /\ i \in DOMAIN batch
        /\ by \in Setting /\ ValidateStyle(by.style)
        /\ \E s \in Sources : by.style.type = "multiple_choice" => s.style = by.style
        /\ PrepareRow(rows[i], by.style, Draws[h]) # NULL
        /\ by.style.type # "multiple_choice" => response \in Responses
        /\ record = StoredAs(rows[i], h, by, response, old)

OutputInv(i) == \E batch \in Batches : IsOutput(outputs[i], i, batch, hash)
OutputsInv == \A i \in Stored : OutputInv(i)

(* Every result is that of a stored output, which has the hash of the row. *)
ResultsInv ==
    status \in {"running", "completed"} =>
        \A i \in Rows : results[i] # NULL =>
            /\ i \in Stored /\ results[i] = Decode(outputs[i].output)
            /\ Prepared(i) # NULL /\ outputs[i].hash = HashOf(i)

LEMMA BatchesAreShort ==
    ASSUME SurroundingsInv, NEW batch \in Batches
    PROVE  /\ \E n \in 0..Len(dataset) : batch = SubSeq(dataset, 1, n) /\ DOMAIN batch = 1..n /\ Len(batch) = n
           /\ DOMAIN batch \subseteq DOMAIN dataset
           /\ \A i \in DOMAIN batch : batch[i] = dataset[i]
           /\ \A rows \in Forms(batch) : DOMAIN rows = DOMAIN batch
  <1>1. dataset \in Seq(Elements(dataset))
    BY DatasetsAssumption DEF SurroundingsInv
  <1>2. PICK n \in 0..Len(dataset) : batch = SubSeq(dataset, 1, n)
    BY DEF Batches
  <1>3. DOMAIN batch = 1..n /\ Len(batch) = n /\ \A i \in 1..n : batch[i] = dataset[i]
    BY <1>1, <1>2
  <1>4. DOMAIN batch \subseteq DOMAIN dataset
    BY <1>1, <1>3
  <1>5. \A rows \in Forms(batch) : DOMAIN rows = DOMAIN batch
    BY DEF Forms, ThroughCache
  <1>6. QED
    BY <1>2, <1>3, <1>4, <1>5

LEMMA AttemptsReadBatches == Spec => []AttemptInv
  <1>1. Init => AttemptInv
    BY DEF Init, AttemptInv
  <1>2. AttemptInv /\ SettingsInv /\ [Next]_vars => AttemptInv'
    <2> SUFFICES ASSUME AttemptInv, SettingsInv, [Next]_vars PROVE AttemptInv'
      OBVIOUS
    <2>1. UNCHANGED dataset
      BY DEF Next, Start, ResumeLocal, ResumeRemote, Begin, EvaluateRow, ReuseRow, FailRow, Fail, Complete,
             Change, vars, surroundings
    <2>2. ASSUME NEW w \in Wire, Begin(w)
          PROVE  AttemptInv'
      <3> DEFINE parsed == Parse(w, env)
                 limit == IF parsed.limit = NULL THEN Len(dataset) ELSE Min({parsed.limit, Len(dataset)})
                 batch == SubSeq(dataset, 1, limit)
      <3>1. CASE MissRows(parsed)
        BY <3>1 DEF MissRows, AttemptInv
      <3>2. CASE ReachRows(parsed)
        <4>1. parsed \in Setting
          BY <2>2, SettingsAssumption, SettingsAreRead DEF Begin, SettingsInv, SurroundingsInv
        <4>2. limit \in 0..Len(dataset)
          <5> HIDE DEF parsed
          <5> QED
            BY <4>1, LimitsAreNumbers DEF SettingsInv, SurroundingsInv
        <4>3. seen' \in Forms(batch) /\ DOMAIN results' = DOMAIN batch
          BY <3>2 DEF ReachRows, Forms
        <4> HIDE DEF limit
        <4>4. batch \in Batches
          BY <4>2 DEF Batches
        <4> HIDE DEF batch
        <4>5. QED
          BY <2>1, <4>3, <4>4 DEF AttemptInv, Batches, Forms
      <3>3. QED
        BY <2>2, <3>1, <3>2 DEF Begin
    <2>3. CASE Start \/ ResumeLocal
      BY <2>2, <2>3, SettingsAssumption DEF Start, ResumeLocal, SettingsInv, SurroundingsInv
    <2>4. CASE ResumeRemote
      <3>1. stored \in Wire /\ Begin(stored)
        BY <2>4, SettingsSurvive DEF ResumeRemote, SettingsInv, ConfigInv
      <3>2. QED
        BY <2>2, <3>1
    <2>5. ASSUME NEW i \in Rows, EvaluateRow(i) \/ ReuseRow(i)
          PROVE  AttemptInv'
      <3>1. status = "running" /\ DOMAIN results' = DOMAIN results /\ UNCHANGED seen
        BY <2>5 DEF EvaluateRow, ReuseRow, Pending
      <3>2. QED
        BY <2>1, <3>1 DEF AttemptInv, Batches, Forms
    <2>6. ASSUME NEW i \in Rows, FailRow(i)
          PROVE  AttemptInv'
      BY <2>6 DEF FailRow, Fail, AttemptInv
    <2>7. CASE Complete
      <3>1. \/ status' = "failed"
            \/ status = "running" /\ UNCHANGED <<seen, results>>
        BY <2>7 DEF Complete, Fail
      <3>2. QED
        BY <2>1, <3>1 DEF AttemptInv, Batches, Forms
    <2>8. CASE Change \/ UNCHANGED vars
      <3>1. UNCHANGED <<status, seen, results>>
        BY <2>8 DEF Change, vars
      <3>2. QED
        BY <2>1, <3>1 DEF AttemptInv, Batches, Forms
    <2>9. QED
      BY <2>3, <2>4, <2>5, <2>6, <2>7, <2>8 DEF Next
  <1>3. QED
    BY <1>1, <1>2, Configured, PTL DEF Spec

LEMMA SamplesAreResponses ==
    ASSUME ConfigInv
    PROVE  Samples \subseteq Seq(Strings)
  <1>1. ASSUME config.style.type = "multiple_choice", NEW l \in Elements(config.style.labels)
        PROVE  <<l>> \in Seq(Strings)
    <2>1. config.style.labels \in Seq(Strings)
      BY <1>1 DEF ConfigInv, Setting, Style, ChoiceStyle
    <2>2. l \in Strings
      BY <1>1, <2>1 DEF Elements
    <2>3. QED
      BY <2>2
  <1>2. QED
    BY <1>1, ResponsesAssumption DEF Samples

LEMMA OutputsAreDecoded ==
    ASSUME NEW prepared, NEW style, NEW response, NEW old \in BOOLEAN
    PROVE  Decode(Encode(Evaluate(prepared, style, response, ScoreOf), old))
              = Evaluate(prepared, style, response, ScoreOf)
  <1> DEFINE o == Evaluate(prepared, style, response, ScoreOf)
  <1>1. "tag" \notin DOMAIN o
    BY DEF Evaluate
  <1> HIDE DEF o
  <1>2. Decode(Encode(o, old)) = o
    BY <1>1 DEF Encode, Decode
  <1>3. QED
    BY <1>2 DEF o

LEMMA NewOutputs ==
    ASSUME NEW f, NEW g, NEW i, NEW x, i \notin DOMAIN f,
           g = [k \in DOMAIN f \cup {i} |-> IF k # i THEN f[k] ELSE x]
    PROVE  DOMAIN g = DOMAIN f \cup {i} /\ g[i] = x /\ \A j \in DOMAIN f : g[j] = f[j]
  OBVIOUS

LEMMA OutputsAreKept == Spec => []OutputsInv
  <1>1. Init => OutputsInv
    BY DEF Init, OutputsInv, Stored
  <1>2. OutputsInv /\ AttemptInv /\ SettingsInv /\ [Next]_vars => OutputsInv'
    <2> SUFFICES ASSUME OutputsInv, AttemptInv, SettingsInv, [Next]_vars PROVE OutputsInv'
      OBVIOUS
    <2>1. UNCHANGED <<dataset, hash>>
      BY DEF Next, Start, ResumeLocal, ResumeRemote, Begin, EvaluateRow, ReuseRow, FailRow, Fail, Complete,
             Change, vars, surroundings
    <2>2. ASSUME NEW i, outputs'[i] = outputs[i], OutputInv(i)
          PROVE  OutputInv(i)'
      BY <2>1, <2>2 DEF OutputInv, Batches
    <2>3. CASE UNCHANGED outputs
      BY <2>1, <2>2, <2>3 DEF OutputsInv, Stored
    <2>4. ASSUME NEW i \in Rows, EvaluateRow(i)
          PROVE  OutputsInv'
      <3>1. status = "running" /\ ConfigInv
        BY <2>4 DEF EvaluateRow, Pending, SettingsInv
      <3>2. PICK batch \in Batches : seen \in Forms(batch)
        BY <3>1 DEF AttemptInv
      <3>3. i \in DOMAIN batch
        BY <3>2, BatchesAreShort DEF Rows, SettingsInv
      <3>4. PICK response \in Samples :
               outputs' = [k \in Stored \cup {i} |->
                             IF k # i THEN outputs[k]
                             ELSE [hash |-> HashOf(i),
                                   output |-> Encode(Evaluate(Prepared(i), config.style, response, ScoreOf), legacy),
                                   by |-> config]]
        BY <2>4 DEF EvaluateRow
      <3> DEFINE new == [hash |-> HashOf(i),
                         output |-> Encode(Evaluate(Prepared(i), config.style, response, ScoreOf), legacy),
                         by |-> config]
      <3>a. /\ Stored' = Stored \cup {i} /\ outputs'[i] = new
            /\ \A j \in Stored : outputs'[j] = outputs[j]
        <4>1. outputs' = [k \in DOMAIN outputs \cup {i} |-> IF k # i THEN outputs[k] ELSE new] /\ i \notin Stored
          BY <2>4, <3>4 DEF EvaluateRow, Stored
        <4> HIDE DEF new
        <4>2. QED
          BY <4>1, NewOutputs DEF Stored
      <3>5. response \in Seq(Strings)
        BY <3>1, SamplesAreResponses
      <3>b. config.style.type # "multiple_choice" => response \in Responses
        BY DEF Samples
      <3>6. outputs'[i] = StoredAs(seen[i], hash, config, response, legacy) /\ outputs'[i].by = config
        BY <3>a DEF StoredAs, HashOf, Rendered, RenderedAs, Prepared
      <3>7. PrepareRow(seen[i], config.style, Draws[hash]) # NULL
        BY <2>4 DEF EvaluateRow, Prepared
      <3>8. IsOutput(outputs'[i], i, batch, hash)
        BY <3>1, <3>2, <3>3, <3>5, <3>6, <3>7, <3>b DEF IsOutput, ConfigInv, SettingsInv, SurroundingsInv
      <3>9. OutputInv(i)'
        BY <2>1, <3>8 DEF OutputInv, Batches
      <3>10. ASSUME NEW j \in Stored', j # i
             PROVE  OutputInv(j)'
        <4>1. j \in Stored /\ outputs'[j] = outputs[j]
          BY <3>a, <3>10
        <4>2. QED
          BY <2>2, <4>1 DEF OutputsInv
      <3>11. QED
        BY <3>9, <3>10 DEF OutputsInv
    <2>5. UNCHANGED outputs \/ \E i \in Rows : EvaluateRow(i)
      BY DEF Next, Start, ResumeLocal, ResumeRemote, Begin, ReuseRow, FailRow, Fail, Complete, Change, vars
    <2>6. QED
      BY <2>3, <2>4, <2>5
  <1>3. QED
    BY <1>1, <1>2, Configured, AttemptsReadBatches, PTL DEF Spec

LEMMA ResultsAreStored == Spec => []ResultsInv
  <1>1. Init => ResultsInv
    BY DEF Init, ResultsInv
  <1>2. ResultsInv /\ OutputsInv /\ AttemptInv /\ SettingsInv /\ AttemptInv' /\ SettingsInv' /\ [Next]_vars => ResultsInv'
    <2> SUFFICES ASSUME ResultsInv, OutputsInv, AttemptInv, SettingsInv, AttemptInv', SettingsInv', [Next]_vars
                 PROVE  ResultsInv'
      OBVIOUS
    <2>1. ASSUME UNCHANGED <<seen, config, hash>>
          PROVE  /\ Rows' = Rows
                 /\ \A i \in Rows : (Prepared(i)') = Prepared(i) /\ (HashOf(i)') = HashOf(i)
      BY <2>1 DEF Rows, Prepared, HashOf, Rendered
    <2>2. ASSUME status' = "running", \A i \in DOMAIN results' : results'[i] = NULL
          PROVE  ResultsInv'
      <3>1. Rows' = DOMAIN results'
        BY <2>2, BatchesAreShort DEF AttemptInv, Rows, SettingsInv, SurroundingsInv, Batches, Forms, ThroughCache
      <3>2. QED
        BY <2>2, <3>1 DEF ResultsInv
    <2>3. ASSUME NEW w, Begin(w)
          PROVE  ResultsInv'
      <3>1. CASE ReachRows(Parse(w, env))
        BY <2>2, <3>1 DEF ReachRows
      <3>2. CASE MissRows(Parse(w, env))
        BY <3>2 DEF MissRows, ResultsInv
      <3>3. QED
        BY <2>3, <3>1, <3>2 DEF Begin
    <2>4. CASE Start \/ ResumeLocal \/ ResumeRemote
      BY <2>3, <2>4 DEF Start, ResumeLocal, ResumeRemote
    <2>5. ASSUME NEW i \in Rows, EvaluateRow(i)
          PROVE  ResultsInv'
      <3>1. status = "running" /\ status' = "running" /\ UNCHANGED <<seen, config, hash>> /\ i \notin Stored
        BY <2>5 DEF EvaluateRow, Pending, surroundings
      <3>2. PICK batch \in Batches : seen \in Forms(batch) /\ DOMAIN results = DOMAIN batch
        BY <3>1 DEF AttemptInv
      <3>3. i \in DOMAIN results
        BY <3>2, BatchesAreShort DEF Rows, SettingsInv
      <3>4. PICK response \in Samples :
               LET output == Evaluate(Prepared(i), config.style, response, ScoreOf) IN
               /\ outputs' = [k \in Stored \cup {i} |->
                                IF k # i THEN outputs[k]
                                ELSE [hash |-> HashOf(i), output |-> Encode(output, legacy), by |-> config]]
               /\ results' = [results EXCEPT ![i] = output]
        BY <2>5 DEF EvaluateRow
      <3> DEFINE new == [hash |-> HashOf(i),
                         output |-> Encode(Evaluate(Prepared(i), config.style, response, ScoreOf), legacy),
                         by |-> config]
      <3>a. /\ Stored' = Stored \cup {i} /\ outputs'[i] = new
            /\ \A j \in Stored : outputs'[j] = outputs[j]
        <4>1. outputs' = [k \in DOMAIN outputs \cup {i} |-> IF k # i THEN outputs[k] ELSE new]
          BY <3>4 DEF Stored
        <4> HIDE DEF new
        <4>2. QED
          BY <3>1, <4>1, NewOutputs DEF Stored
      <3>5. /\ i \in Stored' /\ results'[i] = Decode(outputs'[i].output)
            /\ Prepared(i) # NULL /\ outputs'[i].hash = HashOf(i)
        <4>1. Decode(outputs'[i].output) = results'[i]
          BY <3>3, <3>4, <3>a, OutputsAreDecoded DEF SettingsInv, SurroundingsInv
        <4>2. QED
          BY <2>5, <3>a, <4>1 DEF EvaluateRow
      <3>6. ASSUME NEW j \in Rows, j # i, results'[j] # NULL
            PROVE  /\ j \in Stored' /\ results'[j] = Decode(outputs'[j].output)
                   /\ Prepared(j) # NULL /\ outputs'[j].hash = HashOf(j)
        <4>1. results[j] # NULL /\ results'[j] = results[j]
          BY <3>4, <3>6
        <4>2. j \in Stored
          BY <3>1, <4>1 DEF ResultsInv
        <4>3. j \in Stored' /\ outputs'[j] = outputs[j]
          BY <3>a, <4>2
        <4>4. QED
          BY <3>1, <4>1, <4>3 DEF ResultsInv
      <3>7. QED
        BY <2>1, <3>1, <3>5, <3>6 DEF ResultsInv
    <2>6. ASSUME NEW i \in Rows, ReuseRow(i)
          PROVE  ResultsInv'
      <3>1. /\ status = "running" /\ status' = "running" /\ UNCHANGED <<seen, config, hash, outputs>>
            /\ i \in Stored /\ Prepared(i) # NULL /\ outputs[i].hash = HashOf(i)
            /\ results' = [results EXCEPT ![i] = Decode(outputs[i].output)]
        BY <2>6 DEF ReuseRow, Pending, surroundings
      <3>2. PICK batch \in Batches : seen \in Forms(batch) /\ DOMAIN results = DOMAIN batch
        BY <3>1 DEF AttemptInv
      <3>3. i \in DOMAIN results
        BY <3>2, BatchesAreShort DEF Rows, SettingsInv
      <3>4. QED
        BY <2>1, <3>1, <3>3 DEF ResultsInv, Stored
    <2>7. ASSUME NEW i \in Rows, FailRow(i)
          PROVE  ResultsInv'
      BY <2>7 DEF FailRow, Fail, ResultsInv
    <2>8. ASSUME \/ status' \notin {"running", "completed"}
                 \/ /\ UNCHANGED <<seen, config, hash, outputs, results>>
                    /\ status' = status \/ status = "running"
          PROVE  ResultsInv'
      BY <2>1, <2>8 DEF ResultsInv, Stored
    <2>9. CASE Complete
      BY <2>8, <2>9 DEF Complete, Fail, surroundings
    <2>10. CASE Change
      BY <2>8, <2>10 DEF Change
    <2>11. CASE UNCHANGED vars
      BY <2>8, <2>11 DEF vars, surroundings
    <2>12. QED
      BY <2>4, <2>5, <2>6, <2>7, <2>9, <2>10, <2>11 DEF Next
  <1>3. QED
    BY <1>1, <1>2, Configured, AttemptsReadBatches, OutputsAreKept, PTL DEF Spec

-----------------------------------------------------------------------------
(* Scores. *)

PreparedFor(prepared, style) ==
    /\ prepared.type = style.type
    /\ style.type = "multiple_choice" => prepared.responses = style.labels
    /\ style.type # "multiple_choice" => prepared.responses = NULL

LEMMA PreparedTypes ==
    ASSUME NEW row, NEW style \in Style({Levenshtein, Cosine}), NEW h, PrepareRow(row, style, h) # NULL
    PROVE  PreparedFor(PrepareRow(row, style, h), style)
  <1> USE DEF PreparedFor
  <1>1. CASE style.type # "multiple_choice"
    BY <1>1 DEF PrepareRow, Free
  <1>2. CASE style.type = "multiple_choice"
    BY <1>2 DEF PrepareRow, MultipleChoice
  <1>3. QED
    BY <1>1, <1>2

(* A result of a similarity run was scored as the run is now (row_input_hash). *)
LEMMA ResultsAreOfOneStyle ==
    ASSUME SettingsInv, OutputsInv, ResultsInv,
           status \in {"running", "completed"}, config.style.type = "similarity",
           NEW i \in Rows, results[i] # NULL
    PROVE  outputs[i].by.style = config.style
  <1>1. config.style \in Style({Levenshtein, Cosine}) /\ config.style # NULL
    BY NullAssumption DEF SettingsInv, ConfigInv, Setting
  <1>2. /\ i \in Stored /\ results[i] = Decode(outputs[i].output)
        /\ Prepared(i) # NULL /\ outputs[i].hash = HashOf(i)
    BY DEF ResultsInv
  <1> DEFINE by == outputs[i].by
  <1>3. \E row, response : \E old \in BOOLEAN :
          /\ by \in Setting /\ PrepareRow(row, by.style, Draws[hash]) # NULL
          /\ outputs[i] = StoredAs(row, hash, by, response, old)
    BY <1>2 DEF OutputsInv, OutputInv, IsOutput
  <1> HIDE DEF by
  <1>a. PICK row, response : \E old \in BOOLEAN :
          /\ by \in Setting /\ PrepareRow(row, by.style, Draws[hash]) # NULL
          /\ outputs[i] = StoredAs(row, hash, by, response, old)
    BY <1>3
  <1>b. PICK old \in BOOLEAN :
          /\ by \in Setting /\ PrepareRow(row, by.style, Draws[hash]) # NULL
          /\ outputs[i] = StoredAs(row, hash, by, response, old)
    BY <1>a
  <1>4. Prepared(i).type = "similarity"
    BY <1>1, <1>2, PreparedTypes DEF Prepared, PreparedFor
  <1>5. outputs[i].hash[4] = config.style
    BY <1>2, <1>4 DEF HashOf, RowInputHash
  <1> DEFINE prepared == PrepareRow(row, by.style, Draws[hash])
  <1>6. prepared.type = by.style.type
    <2>1. by.style \in Style({Levenshtein, Cosine})
      BY <1>b DEF Setting
    <2>2. QED
      BY <1>b, <2>1, PreparedTypes DEF PreparedFor
  <1>7. outputs[i].hash[4] = IF prepared.type = "similarity" THEN by.style ELSE NULL
    BY <1>b DEF StoredAs, RowInputHash
  <1>8. QED
    BY <1>1, <1>5, <1>7 DEF by

(* No attempt uses a similarity score of another metric than its own (row_input_hash). *)
THEOREM ScoresAreOfOneMetric == Spec => []ScoresBelongToTheirMetric
  <1>1. SettingsInv /\ OutputsInv /\ ResultsInv => ScoresBelongToTheirMetric
    <2> SUFFICES ASSUME SettingsInv, OutputsInv, ResultsInv,
                        status \in {"running", "completed"}, config.style.type = "similarity",
                        NEW i \in Rows, results[i] # NULL
                 PROVE  results[i].metric = config.style.metric
      BY DEF ScoresBelongToTheirMetric
    <2>1. i \in Stored /\ results[i] = Decode(outputs[i].output)
      BY DEF ResultsInv
    <2>2. PICK by, row, response, old :
            /\ by = outputs[i].by /\ by \in Setting /\ old \in BOOLEAN
            /\ PrepareRow(row, by.style, Draws[hash]) # NULL
            /\ outputs[i] = StoredAs(row, hash, by, response, old)
      BY <2>1 DEF OutputsInv, OutputInv, IsOutput
    <2> DEFINE prepared == PrepareRow(row, by.style, Draws[hash])
    <2>3. by.style = config.style /\ by.style \in Style({Levenshtein, Cosine})
      BY <2>2, ResultsAreOfOneStyle DEF Setting
    <2>4. prepared.type = "similarity"
      BY <2>2, <2>3, PreparedTypes DEF PreparedFor
    <2>5. results[i] = Evaluate(prepared, by.style, response, ScoreOf)
      BY <2>1, <2>2, OutputsAreDecoded DEF StoredAs
    <2>6. QED
      BY <2>3, <2>4, <2>5 DEF Evaluate
  <1>2. QED
    BY <1>1, Configured, OutputsAreKept, ResultsAreStored, PTL

-----------------------------------------------------------------------------
(* Rows in the cache. *)

IndexIn(value) ==
    IF value.is = "string" \/ (value.is = "number" /\ value.int) THEN NumberOf[value.text] ELSE NULL
ChoicesIn(value) ==
    LET decoded == IF value.is = "string" /\ value.json # NULL THEN value.json ELSE value
    IN  IF decoded.is \in {"array", "object"} /\ \A i \in DOMAIN decoded.items : IsScalar(decoded.items[i])
        THEN decoded ELSE NULL

(* Two values are the same to what reads them, and so are two rows. *)
SameValue(v, w) ==
    /\ Printed(v) = Printed(w)
    /\ IsScalar(v) <=> IsScalar(w)
    /\ IsScalar(v) => v.text = w.text
    /\ IndexIn(v) = IndexIn(w) /\ ChoicesIn(v) = ChoicesIn(w)

SameRow(a, b) == DOMAIN a = DOMAIN b /\ \A c \in DOMAIN a : SameValue(a[c], b[c])

(* What a row is prepared of. *)
CorrectFrom(index, golden, style, labels, n) ==
    LET answer == style.answer IN
    CASE answer.by = "index" ->
            IF index # NULL /\ index >= answer.base /\ index - answer.base < n
            THEN index - answer.base + 1 ELSE NULL
      [] answer.by = "choice" -> FirstIndex(style.columns, LAMBDA c : c = answer.column)
      [] answer.by = "label" ->
            IF golden = NULL THEN NULL ELSE LabelIndex(golden, labels)

MarkedFrom(texts, correct, seed, style, h) ==
    LET labels == SubSeq(style.labels, 1, Len(texts))
        marked == [i \in DOMAIN texts |-> [text |-> texts[i], correct |-> i = correct]]
        shuffled == IF style.seed = NULL THEN marked ELSE Shuffle(marked, seed, h)
    IN  IF correct = NULL \/ (style.seed # NULL /\ seed = NULL) THEN NULL
        ELSE MultipleChoice([i \in DOMAIN texts |-> [label |-> labels[i], text |-> shuffled[i].text]],
                            labels[CHOOSE i \in DOMAIN texts : shuffled[i].correct], style.labels)

LEMMA PreparedFrom ==
    ASSUME NEW row, NEW style, NEW h
    PROVE  /\ style.type # "multiple_choice" =>
                PrepareRow(row, style, h) = IF RequiredScalar(row, style.golden) = NULL THEN NULL
                                            ELSE Free(style.type, RequiredScalar(row, style.golden))
           /\ style.type = "multiple_choice" =>
                LET texts == ExtractChoices(row, style)
                    correct == CorrectFrom(RequiredIndex(row, style.answer.column),
                                           RequiredScalar(row, style.answer.column), style,
                                           SubSeq(style.labels, 1, Len(texts)), Len(texts))
                    seed == IF style.seed = NULL THEN NULL ELSE RequiredScalar(row, style.seed)
                IN  PrepareRow(row, style, h) =
                        IF texts = NULL \/ texts = <<>> \/ Len(texts) > Len(style.labels) THEN NULL
                        ELSE MarkedFrom(texts, correct, seed, style, h)
  BY Zenon DEF PrepareRow, CorrectIndex, CorrectFrom, MarkedFrom

LEMMA SameRowsPrepareAlike ==
    ASSUME NEW a, NEW b, SameRow(a, b), NEW style, NEW h
    PROVE  /\ PrepareRow(a, style, h) = PrepareRow(b, style, h)
           /\ \A prepared : RenderedAs(a, prepared) = RenderedAs(b, prepared)
  <1>1. /\ \A c : RequiredScalar(a, c) = RequiredScalar(b, c)
        /\ \A c : RequiredIndex(a, c) = RequiredIndex(b, c)
        /\ \A c : RequiredChoices(a, c) = RequiredChoices(b, c)
    <2>1. \A c : RequiredScalar(a, c) = RequiredScalar(b, c)
      BY DEF SameRow, SameValue, RequiredScalar
    <2>2. ASSUME NEW row
          PROVE  /\ \A c : RequiredIndex(row, c) = IF c \in DOMAIN row THEN IndexIn(row[c]) ELSE NULL
                 /\ \A c : RequiredChoices(row, c) = IF c \in DOMAIN row THEN ChoicesIn(row[c]) ELSE NULL
      BY DEF RequiredIndex, RequiredChoices, IndexIn, ChoicesIn
    <2>3. QED
      BY <2>1, <2>2 DEF SameRow, SameValue
  <1>2. ExtractChoices(a, style) = ExtractChoices(b, style)
    BY <1>1 DEF ExtractChoices
  <1>3. PrepareRow(a, style, h) = PrepareRow(b, style, h)
    <2>1. CASE style.type # "multiple_choice"
      BY <1>1, <2>1, PreparedFrom
    <2>2. CASE style.type = "multiple_choice"
      <3> DEFINE texts == ExtractChoices(a, style)
                 correct == CorrectFrom(RequiredIndex(a, style.answer.column),
                                        RequiredScalar(a, style.answer.column), style,
                                        SubSeq(style.labels, 1, Len(texts)), Len(texts))
                 seed == IF style.seed = NULL THEN NULL ELSE RequiredScalar(a, style.seed)
                 value == IF texts = NULL \/ texts = <<>> \/ Len(texts) > Len(style.labels) THEN NULL
                          ELSE MarkedFrom(texts, correct, seed, style, h)
      <3>1. PrepareRow(a, style, h) = value
        BY <2>2, PreparedFrom
      <3>2. /\ texts = ExtractChoices(b, style)
            /\ RequiredIndex(a, style.answer.column) = RequiredIndex(b, style.answer.column)
            /\ RequiredScalar(a, style.answer.column) = RequiredScalar(b, style.answer.column)
            /\ RequiredScalar(a, style.seed) = RequiredScalar(b, style.seed)
        BY <1>1, <1>2
      <3>3. PrepareRow(b, style, h) = value
        BY <2>2, <3>2, PreparedFrom
      <3>4. QED
        BY <3>1, <3>3
    <2>3. QED
      BY <2>1, <2>2
  <1>4. ASSUME NEW prepared
        PROVE  RenderedAs(a, prepared) = RenderedAs(b, prepared)
    BY DEF RenderedAs, SameRow, SameValue
  <1>5. QED
    BY <1>3, <1>4

LEMMA CellsSurvive ==
    ASSUME NEW batch, NEW column, Survives(batch, column),
           \A i \in DOMAIN batch : column \in DOMAIN batch[i] => IsValue(batch[i][column]),
           NEW i \in DOMAIN batch
    PROVE  LET values == Column(batch, column)
           IN  SameValue(batch[i][column], Cell(values[i], InferType(values), JsonEncoded(values)))
  <1> DEFINE values == Column(batch, column)
             v == values[i]
             Kind(x) == IF x.is = "number" /\ ~x.int THEN "float" ELSE x.is
             kinds == {Kind(values[k]) : k \in DOMAIN values} \ {"null"}
             type == InferType(values)
  <1>1. /\ DOMAIN values = DOMAIN batch /\ \A k \in DOMAIN batch : values[k] = batch[k][column]
        /\ \A k \in DOMAIN batch : IsValue(values[k])
    BY DEF Column, Survives
  <1>2. type = CASE kinds \cap {"string", "array", "object"} # {} -> "Utf8"
                 [] kinds = {"bool"} -> "Boolean"
                 [] kinds = {"number"} -> "Int64"
                 [] kinds = {} -> "Utf8"
                 [] OTHER -> "Float64"
    BY DEF InferType
  <1>3. \A k \in DOMAIN batch : values[k] = Absent <=> values[k].is = "null"
    BY <1>1 DEF IsValue, Absent, IsNested
  <1> DEFINE Texts == \E k \in DOMAIN batch : values[k].is \in {"array", "object", "string"}
             Bools == \A k \in DOMAIN batch : values[k].is \in {"null", "bool"}
             Wholes == \A k \in DOMAIN batch : values[k].is = "null" \/ (values[k].is = "number" /\ values[k].int)
             Doubles == \A k \in DOMAIN batch :
                           \/ values[k].is = "null"
                           \/ (/\ values[k].is = "number" /\ ~values[k].int
                               /\ FloatText[values[k].text] = values[k].text)
  <1>4. Texts \/ Bools \/ Wholes \/ Doubles
    BY <1>1, <1>3 DEF Survives, Column
  <1>5. JsonEncoded(values) <=> \E k \in DOMAIN batch : IsNested(values[k])
    BY <1>1 DEF JsonEncoded
  <1> DEFINE cell == Cell(v, type, JsonEncoded(values))
  <1>s. SUFFICES SameValue(v, cell)
    BY <1>1
  <1>t. SUFFICES ASSUME cell # v PROVE SameValue(v, cell)
    BY DEF SameValue
  <1> HIDE DEF values
  <1>6. CASE v.is = "null"
    <2>1. cell = v
      BY <1>1, <1>3, <1>6 DEF Cell
    <2>2. QED
      BY <2>1, <1>t
  <1>7. CASE Texts
    <2>1. type = "Utf8"
      BY <1>1, <1>2, <1>7
    <2> HIDE DEF type
    <2>2. CASE v.is = "null" \/ JsonEncoded(values) \/ v.is = "string"
      <3>1. cell = v \/ v.is = "null"
        BY <2>1, <2>2 DEF Cell
      <3>2. QED
        BY <1>6, <1>t, <3>1
    <2>3. CASE v.is # "null" /\ ~JsonEncoded(values) /\ v.is # "string"
      <3>1. v.is \in {"bool", "number"} /\ v.text \in Strings
        BY <1>1, <1>5, <2>3 DEF IsValue, IsNested, Absent
      <3>2. v.is = "bool" \/ ~v.int => NumberOf[v.text] = NULL
        BY <1>1, <3>1 DEF IsValue, IsNested, Absent
      <3> DEFINE w == [is |-> "string", text |-> v.text, json |-> v]
      <3>3. cell = w
        BY <2>1, <2>3 DEF Cell
      <3> HIDE DEF cell, v
      <3>4. Printed(v) = Printed(w) /\ IsScalar(v) /\ IsScalar(w) /\ v.text = w.text
        BY <3>1 DEF Printed, IsScalar, IsNested
      <3>5. IndexIn(v) = IndexIn(w)
        BY <3>1, <3>2 DEF IndexIn
      <3>6. ChoicesIn(v) = NULL /\ ChoicesIn(w) = NULL
        BY <3>1 DEF ChoicesIn
      <3>7. QED
        BY <3>3, <3>4, <3>5, <3>6 DEF SameValue
    <2>4. QED
      BY <2>2, <2>3
  <1>8. CASE Bools
    <2>1. CASE v.is = "bool"
      <3>1. kinds = {"bool"}
        BY <1>1, <1>8, <2>1
      <3>2. type = "Boolean"
        BY <1>2, <3>1
      <3>3. QED
        BY <1>t, <2>1, <3>2 DEF Cell
    <2>2. QED
      BY <1>6, <1>8, <2>1
  <1>9. CASE Wholes
    <2>1. CASE v.is = "number"
      <3>1. kinds = {"number"}
        BY <1>1, <1>9, <2>1
      <3>2. type = "Int64"
        BY <1>2, <3>1
      <3>3. QED
        BY <1>t, <2>1, <3>2 DEF Cell
    <2>2. QED
      BY <1>6, <1>9, <2>1
  <1>10. CASE Doubles
    <2>1. CASE v.is = "number"
      <3>1. kinds = {"float"}
        BY <1>1, <1>10, <2>1
      <3>2. type = "Float64"
        BY <1>2, <3>1
      <3>3. v = [is |-> "number", text |-> v.text, int |-> FALSE] /\ FloatText[v.text] = v.text
        BY <1>1, <1>10, <2>1 DEF IsValue, IsNested, Absent
      <3>4. QED
        BY <1>t, <2>1, <3>2, <3>3 DEF Cell
    <2>2. QED
      BY <1>6, <1>10, <2>1
  <1> HIDE DEF v, cell, Texts, Bools, Wholes, Doubles
  <1>11. QED
    BY <1>4, <1>7, <1>8, <1>9, <1>10

ColumnsSurvive ==
    \A n \in DOMAIN dataset : \A column \in Columns(dataset) : Survives(SubSeq(dataset, 1, n), column)

LEMMA FormsAreTheSame ==
    ASSUME SurroundingsInv, ColumnsSurvive,
           NEW batch \in Batches, NEW rows \in Forms(batch), NEW i \in DOMAIN batch
    PROVE  SameRow(dataset[i], rows[i])
  <1>1. PICK n \in 0..Len(dataset) : batch = SubSeq(dataset, 1, n) /\ DOMAIN batch = 1..n
    BY BatchesAreShort
  <1>2. /\ DOMAIN batch \subseteq DOMAIN dataset
        /\ \A k \in DOMAIN batch : batch[k] = dataset[k]
    BY BatchesAreShort
  <1>3. n \in DOMAIN dataset
    <2>1. dataset \in Seq(Elements(dataset))
      BY DatasetsAssumption DEF SurroundingsInv
    <2>2. QED
      BY <1>1, <2>1
  <1>4. \A column \in Columns(dataset) : Survives(batch, column)
    BY <1>1, <1>3 DEF ColumnsSurvive
  <1>5. \A k \in DOMAIN batch : DOMAIN dataset[k] = Columns(dataset)
    BY <1>2, <1>4 DEF Survives, Columns
  <1>6. Columns(batch) = Columns(dataset)
    BY <1>2, <1>5 DEF Columns
  <1>7. CASE rows = batch
    BY <1>2, <1>7 DEF SameRow, SameValue
  <1>8. CASE rows = ThroughCache(batch)
    <2> DEFINE Read(key) == Cell(Column(batch, key)[i], InferType(Column(batch, key)), JsonEncoded(Column(batch, key)))
    <2>1. rows[i] = [key \in Columns(dataset) |-> Read(key)]
      BY <1>6, <1>8 DEF ThroughCache
    <2>2. ASSUME NEW key \in Columns(dataset)
          PROVE  SameValue(dataset[i][key], Read(key))
      <3>1. \A k \in DOMAIN batch : key \in DOMAIN batch[k] => IsValue(batch[k][key])
        BY <1>2, DatasetsAssumption DEF SurroundingsInv
      <3>2. SameValue(batch[i][key], Read(key))
        BY <1>4, <3>1, CellsSurvive
      <3>3. QED
        BY <1>2, <3>2
    <2> HIDE DEF Read
    <2>3. QED
      BY <1>5, <2>1, <2>2 DEF SameRow
  <1>9. QED
    BY <1>7, <1>8 DEF Forms

(* A resumed attempt finds the rows that are paid for (evaluate_row, DatasetCache). *)
THEOREM PaidRowsAreReused == Spec => []ResumedRowsAreReused
  <1>1. SettingsInv /\ AttemptInv /\ OutputsInv => ResumedRowsAreReused
    <2> SUFFICES ASSUME SettingsInv, AttemptInv, OutputsInv, ColumnsSurvive,
                        status = "running", NEW i \in Rows \cap Stored,
                        outputs[i].by.style = config.style, Display(outputs[i].by.model) = Display(config.model)
                 PROVE  Prepared(i) # NULL /\ outputs[i].hash = HashOf(i)
      BY DEF ResumedRowsAreReused, ColumnsSurvive
    <2> DEFINE style == config.style
               model == Display(config.model)
    <2>1. PICK batch \in Batches : seen \in Forms(batch)
      BY DEF AttemptInv
    <2>2. PICK other \in Batches : IsOutput(outputs[i], i, other, hash)
      BY DEF OutputsInv, OutputInv
    <2>3. PICK rows \in Forms(other) :
            /\ i \in DOMAIN other
            /\ PrepareRow(rows[i], style, Draws[hash]) # NULL
            /\ \E response, old : outputs[i] = StoredAs(rows[i], hash, outputs[i].by, response, old)
      BY <2>2 DEF IsOutput
    <2>4. i \in DOMAIN batch
      BY <2>1, BatchesAreShort DEF Rows, SettingsInv
    <2>5. SameRow(dataset[i], seen[i]) /\ SameRow(dataset[i], rows[i])
      BY <2>1, <2>3, <2>4, FormsAreTheSame DEF SettingsInv
    <2> DEFINE prepared == Prepared(i)
    <2>6. /\ PrepareRow(rows[i], style, Draws[hash]) = prepared
          /\ RenderedAs(rows[i], prepared) = RenderedAs(seen[i], prepared)
      BY <2>5, SameRowsPrepareAlike DEF Prepared
    <2>7. outputs[i].hash = RowInputHash(RenderedAs(rows[i], prepared), prepared, model, style)
      BY <2>3, <2>6 DEF StoredAs
    <2>8. HashOf(i) = RowInputHash(RenderedAs(seen[i], prepared), prepared, model, style)
      BY DEF HashOf, Rendered, RenderedAs
    <2>9. QED
      BY <2>3, <2>6, <2>7, <2>8
  <1>2. QED
    BY <1>1, Configured, AttemptsReadBatches, OutputsAreKept, PTL

-----------------------------------------------------------------------------
(* Induction over numbers, for a set of them. *)
LEMMA LeastElement ==
    ASSUME NEW S, S \subseteq Nat, S # {}
    PROVE  \E x \in S : \A y \in S : x <= y
  <1> DEFINE Below == {0..x : x \in S}
  <1>1. IsWellFoundedOn(StrictSubsetOrdering(Nat), FiniteSubsetsOf(Nat))
    BY FS_StrictSubsetOrderingWellFounded
  <1>2. Below \subseteq FiniteSubsetsOf(Nat) /\ Below # {}
    <2>1. \A x \in S : 0..x \in SUBSET Nat /\ IsFiniteSet(0..x)
      BY FS_Interval
    <2>2. QED
      BY <2>1 DEF FiniteSubsetsOf
  <1>3. PICK T \in Below : \A U \in Below : ~(<<U, T>> \in StrictSubsetOrdering(Nat))
    <2> HIDE DEF Below
    <2>1. QED
      BY <1>1, <1>2, WFMin
  <1>4. PICK x \in S : T = 0..x
    OBVIOUS
  <1>5. ASSUME NEW y \in S, y < x
        PROVE  FALSE
    <2>1. 0..y \in Below
      OBVIOUS
    <2>2. 0..y \subseteq 0..x /\ 0..y # 0..x
      BY <1>5
    <2>3. <<0..y, 0..x>> \in (SUBSET Nat) \X (SUBSET Nat)
      BY S \subseteq Nat
    <2>4. <<0..y, 0..x>> \in StrictSubsetOrdering(Nat)
      BY <2>2, <2>3 DEF StrictSubsetOrdering
    <2>5. QED
      BY <1>3, <1>4, <2>1, <2>4
  <1>6. QED
    BY <1>5, S \subseteq Nat

LEMMA Induction ==
    ASSUME NEW S, 0 \in S, \A n \in Nat : n \in S => n + 1 \in S
    PROVE  Nat \subseteq S
  <1> DEFINE Missing == {n \in Nat : n \notin S}
  <1>1. SUFFICES ASSUME Missing # {} PROVE FALSE
    OBVIOUS
  <1>2. PICK x \in Missing : \A y \in Missing : x <= y
    BY <1>1, LeastElement
  <1>3. x # 0 /\ x - 1 \in Nat
    BY <1>2
  <1>4. x - 1 \notin Missing
    BY <1>2, <1>3
  <1>5. QED
    BY <1>3, <1>4

(* A shuffle is a reordering: nothing is lost or doubled. *)
Reorderings(n) ==
    {p \in [1..n -> 1..n] : /\ \A i, j \in 1..n : p[i] = p[j] => i = j
                            /\ \A j \in 1..n : \E i \in 1..n : p[i] = j}
Permuted(values) ==
    {[k \in 1..Len(values) |-> values[p[k]]] : p \in Reorderings(Len(values))}

LEMMA SwapsPermute ==
    ASSUME NEW values, Len(values) \in Nat, NEW s \in Permuted(values),
           NEW upper \in 1..Len(values), NEW draw \in Nat
    PROVE  Swap(s, upper, draw) \in Permuted(values)
  <1> DEFINE n == Len(values)
  <1>1. PICK p \in Reorderings(n) : s = [k \in 1..n |-> values[p[k]]]
    BY DEF Permuted
  <1> HIDE DEF n
  <1>2. n \in Nat /\ upper \in 1..n
    BY DEF n
  <1> DEFINE index == (draw % upper) + 1
  <1>3. index \in 1..n
    BY <1>2
  <1>4. Swap(s, upper, draw) = [s EXCEPT ![upper] = s[index], ![index] = s[upper]]
    BY DEF Swap
  <1> HIDE DEF index
  <1> DEFINE q == [k \in 1..n |-> IF k = index THEN p[upper] ELSE IF k = upper THEN p[index] ELSE p[k]]
  <1>5. q \in Reorderings(n)
    <2>1. /\ p \in [1..n -> 1..n]
          /\ \A i, j \in 1..n : p[i] = p[j] => i = j
          /\ \A j \in 1..n : \E i \in 1..n : p[i] = j
      BY <1>1 DEF Reorderings
    <2>2. q \in [1..n -> 1..n]
      BY <1>2, <1>3, <2>1
    <2>3. \A i, j \in 1..n : q[i] = q[j] => i = j
      BY <1>2, <1>3, <2>1
    <2>4. ASSUME NEW j \in 1..n PROVE \E i \in 1..n : q[i] = j
      <3>1. PICK i \in 1..n : p[i] = j
        BY <2>1
      <3>2. q[IF i = index THEN upper ELSE IF i = upper THEN index ELSE i] = j
        BY <1>2, <1>3, <3>1
      <3>3. QED
        BY <1>2, <1>3, <3>2
    <2> HIDE DEF q
    <2>5. QED
      BY <2>2, <2>3, <2>4 DEF Reorderings
  <1>6. Swap(s, upper, draw) = [k \in 1..n |-> values[q[k]]]
    BY <1>1, <1>2, <1>3, <1>4
  <1> HIDE DEF q
  <1>7. QED
    BY <1>5, <1>6 DEF Permuted, n

LEMMA UnshuffledIsPermuted ==
    ASSUME NEW values, Len(values) \in Nat, values = [k \in 1..Len(values) |-> values[k]]
    PROVE  values \in Permuted(values)
  <1> DEFINE n == Len(values)
  <1>1. [k \in 1..n |-> k] \in Reorderings(n)
    BY DEF Reorderings
  <1>2. values = [k \in 1..n |-> values[[j \in 1..n |-> j][k]]]
    OBVIOUS
  <1>3. QED
    BY <1>1, <1>2 DEF Permuted

LEMMA ShufflesPermute ==
    ASSUME NEW values, Len(values) \in Nat \ {0}, DOMAIN values = 1..Len(values),
           values = [k \in 1..Len(values) |-> values[k]],
           NEW seed, NEW h, \A u \in 1..Len(values) : h[seed][u] \in Nat
    PROVE  Shuffle(values, seed, h) \in Permuted(values)
  <1> DEFINE n == Len(values)
             after[k \in 0..n-1] ==
                IF k = 0 THEN values ELSE Swap(after[k-1], n - k + 1, h[seed][n - k + 1])
  <1>1. Shuffle(values, seed, h) = after[n-1]
    BY DEF Shuffle
  <1> DEFINE Draw(k) == h[seed][n - k + 1]
             IsTrace(f, m) == f = [k \in 0..m |-> IF k = 0 THEN values ELSE Swap(f[k-1], n - k + 1, Draw(k))]
             Traced == {m \in Nat : \E f : IsTrace(f, m)}
  <1>2. 0 \in Traced
    <2>1. IsTrace([k \in 0..0 |-> values], 0)
      OBVIOUS
    <2> HIDE DEF IsTrace
    <2>2. QED
      BY <2>1
  <1>3. ASSUME NEW m \in Nat, m \in Traced
        PROVE  m + 1 \in Traced
    <2>1. PICK f : IsTrace(f, m)
      BY <1>3
    <2> DEFINE g == [k \in 0..m+1 |-> IF k <= m THEN f[k] ELSE Swap(f[m], n - (m + 1) + 1, Draw(m + 1))]
    <2> HIDE DEF Draw
    <2>2. /\ \A k \in 0..m : f[k] = IF k = 0 THEN values ELSE Swap(f[k-1], n - k + 1, Draw(k))
      BY <2>1
    <2>3. /\ DOMAIN g = 0..m+1 /\ g = [k \in 0..m+1 |-> g[k]]
          /\ \A k \in 0..m : g[k] = f[k]
          /\ g[m+1] = Swap(g[m], n - (m + 1) + 1, Draw(m + 1))
      OBVIOUS
    <2> HIDE DEF g
    <2>4. \A k \in 0..m+1 : g[k] = IF k = 0 THEN values ELSE Swap(g[k-1], n - k + 1, Draw(k))
      <3>1. ASSUME NEW k \in 0..m PROVE g[k] = IF k = 0 THEN values ELSE Swap(g[k-1], n - k + 1, Draw(k))
        <4>1. k # 0 => k - 1 \in 0..m
          OBVIOUS
        <4>2. QED
          BY <2>2, <2>3, <4>1
      <3>2. g[m+1] = IF m + 1 = 0 THEN values ELSE Swap(g[(m+1)-1], n - (m + 1) + 1, Draw(m + 1))
        <4>1. (m + 1) - 1 = m /\ m + 1 # 0
          OBVIOUS
        <4>2. QED
          BY <2>3, <4>1
      <3>3. QED
        BY <3>1, <3>2
    <2>5. IsTrace(g, m + 1)
      BY <2>3, <2>4
    <2> HIDE DEF IsTrace
    <2>6. QED
      BY <2>5
  <1>4. IsTrace(after, n - 1)
    <2> HIDE DEF Traced
    <2>1. Nat \subseteq Traced
      BY <1>2, <1>3, Induction
    <2>2. n - 1 \in Traced
      BY <2>1
    <2>3. \E f : IsTrace(f, n - 1)
      BY <2>2 DEF Traced
    <2>4. QED
      BY <2>3
  <1> HIDE DEF Draw, Traced
  <1>5. /\ after[0] = values
        /\ \A k \in 1..n-1 : after[k] = Swap(after[k-1], n - k + 1, Draw(k))
    <2> HIDE DEF after
    <2>1. \A k \in 0..n-1 : after[k] = IF k = 0 THEN values ELSE Swap(after[k-1], n - k + 1, Draw(k))
      BY <1>4
    <2>2. 0 \in 0..n-1 /\ \A k \in 1..n-1 : k \in 0..n-1 /\ k # 0
      OBVIOUS
    <2>3. QED
      BY <2>1, <2>2
  <1> HIDE DEF IsTrace, after
  <1>6. values \in Permuted(values)
    BY UnshuffledIsPermuted
  <1> DEFINE Good == {k \in Nat : k > n - 1 \/ after[k] \in Permuted(values)}
  <1>7. 0 \in Good
    BY <1>5, <1>6
  <1>8. ASSUME NEW k \in Nat, k \in Good
        PROVE  k + 1 \in Good
    <2>1. CASE k + 1 <= n - 1
      <3>1. /\ k + 1 \in 1..n-1 /\ (k + 1) - 1 = k
            /\ n - (k + 1) + 1 \in 1..n
        BY <2>1
      <3>2. after[k+1] = Swap(after[k], n - (k + 1) + 1, Draw(k + 1))
        BY <1>5, <3>1
      <3>3. after[k] \in Permuted(values) /\ Draw(k + 1) \in Nat
        BY <1>8, <2>1, <3>1 DEF Draw
      <3>4. after[k+1] \in Permuted(values)
        BY <3>1, <3>2, <3>3, SwapsPermute
      <3>5. QED
        BY <3>4
    <2>2. CASE ~(k + 1 <= n - 1)
      BY <2>2
    <2>3. QED
      BY <2>1, <2>2
  <1>9. n - 1 \in Good
    <2> HIDE DEF Good
    <2>1. Nat \subseteq Good
      BY <1>7, <1>8, Induction
    <2>2. QED
      BY <2>1
  <1>10. QED
    BY <1>1, <1>9

-----------------------------------------------------------------------------
(* Labels. *)

LEMMA LabelsAreDistinct ==
    ASSUME NEW labels \in Seq(Strings), Cardinality(Elements(labels)) = Len(labels)
    PROVE  \A i, j \in DOMAIN labels : labels[i] = labels[j] => i = j
  <1> DEFINE n == Len(labels)
  <1>1. n \in Nat /\ DOMAIN labels = 1..n
    OBVIOUS
  <1>2. labels \in Surjection(1..n, Elements(labels))
    <2>1. labels \in [1..n -> Elements(labels)]
      <3>1. labels \in [1..n -> Strings]
        OBVIOUS
      <3>2. \A k \in 1..n : labels[k] \in Elements(labels)
        BY <1>1 DEF Elements
      <3> HIDE DEF n
      <3>3. QED
        BY <3>1, <3>2
    <2>2. \A t \in Elements(labels) : \E k \in 1..n : labels[k] = t
      BY <1>1 DEF Elements
    <2>3. QED
      BY <2>1, <2>2 DEF Surjection
  <1>3. IsFiniteSet(1..n) /\ Cardinality(1..n) = n
    <2> HIDE DEF n
    <2>1. IsFiniteSet(1..n) /\ Cardinality(1..n) = IF 1 > n THEN 0 ELSE n - 1 + 1
      BY <1>1, FS_Interval
    <2>2. QED
      BY <1>1, <2>1
  <1>4. labels \in Injection(1..n, Elements(labels))
    BY <1>2, <1>3, FS_Surjection
  <1>5. IsInjective(labels)
    BY <1>4 DEF Injection
  <1>6. QED
    BY <1>5 DEF IsInjective

(* The first index at which a set of indices is met. *)
LEMMA FirstIsLeast ==
    ASSUME NEW n \in Nat, NEW S, S \subseteq 1..n, S # {}
    PROVE  \E i \in S : \A j \in 1..i-1 : j \notin S
  <1>1. PICK i \in S : \A j \in S : i <= j
    <2>1. S \subseteq Nat
      OBVIOUS
    <2>2. QED
      BY <2>1, LeastElement
  <1>2. QED
    BY <1>1

LEMMA LastIsGreatest ==
    ASSUME NEW n \in Nat, NEW S, S \subseteq 1..n, S # {}
    PROVE  \E i \in S : \A j \in S : i >= j
  <1> DEFINE Rest == {n - i : i \in S}
  <1>1. Rest \subseteq Nat /\ Rest # {}
    <2>1. \A i \in S : n - i \in Nat
      OBVIOUS
    <2>2. QED
      BY <2>1
  <1>2. PICK r \in Rest : \A x \in Rest : r <= x
    <2> HIDE DEF Rest
    <2>1. QED
      BY <1>1, LeastElement
  <1>3. PICK i \in S : r = n - i
    OBVIOUS
  <1>4. ASSUME NEW j \in S
        PROVE  i >= j
    <2>1. n - j \in Rest
      OBVIOUS
    <2>2. n - i <= n - j
      BY <1>2, <1>3, <2>1
    <2>3. QED
      BY <2>2
  <1>5. QED
    BY <1>4

LEMMA WordsAreMatched ==
    ASSUME NEW labels \in Seq(Strings), NEW word
    PROVE  \/ /\ LabelIndex(word, labels) \in DOMAIN labels /\ LabelIndex(word, labels) # NULL
              /\ Fold[labels[LabelIndex(word, labels)]] = Fold[word]
           \/ /\ LabelIndex(word, labels) = NULL
              /\ \A k \in DOMAIN labels : Fold[labels[k]] # Fold[word]
  <1> DEFINE S == {k \in DOMAIN labels : Fold[labels[k]] = Fold[word]}
  <1>1. CASE S = {}
    BY <1>1 DEF LabelIndex, FirstIndex
  <1>2. CASE S # {}
    <2>1. Len(labels) \in Nat /\ S \subseteq 1..Len(labels)
      OBVIOUS
    <2>2. \E i \in S : \A j \in 1..i-1 : j \notin S
      BY <1>2, <2>1, FirstIsLeast
    <2>3. \E i \in DOMAIN labels : Fold[labels[i]] = Fold[word] /\ \A j \in 1..i-1 : ~(Fold[labels[j]] = Fold[word])
      BY <2>1, <2>2
    <2> DEFINE i == CHOOSE i \in DOMAIN labels :
                        Fold[labels[i]] = Fold[word] /\ \A j \in 1..i-1 : ~(Fold[labels[j]] = Fold[word])
    <2>4. i \in DOMAIN labels /\ Fold[labels[i]] = Fold[word]
      BY <2>3
    <2>5. LabelIndex(word, labels) = i
      BY <1>2 DEF LabelIndex, FirstIndex
    <2> HIDE DEF i
    <2>6. i # NULL
      BY <2>1, <2>4, NullAssumption
    <2>7. QED
      BY <2>4, <2>5, <2>6
  <1>3. QED
    BY <1>1, <1>2

LEMMA LabelsAreFound ==
    ASSUME NEW labels \in Seq(Strings), NEW word
    PROVE  LET label == LabelOf(word, labels)
           IN  /\ (\E k \in DOMAIN labels : Fold[labels[k]] = Fold[word]) =>
                    label \in Elements(labels) /\ Fold[label] = Fold[word] /\ label # NULL
               /\ (\A k \in DOMAIN labels : Fold[labels[k]] # Fold[word]) => label = NULL
  <1> DEFINE i == LabelIndex(word, labels)
  <1>1. LabelOf(word, labels) = IF i = NULL THEN NULL ELSE labels[i]
    BY DEF LabelOf
  <1>2. /\ (\E k \in DOMAIN labels : Fold[labels[k]] = Fold[word]) =>
              i \in DOMAIN labels /\ Fold[labels[i]] = Fold[word] /\ i # NULL
        /\ (\A k \in DOMAIN labels : Fold[labels[k]] # Fold[word]) => i = NULL
    BY WordsAreMatched
  <1> HIDE DEF i
  <1>3. i \in DOMAIN labels => labels[i] \in Strings /\ labels[i] \in Elements(labels) /\ labels[i] # NULL
    BY NullAssumption DEF Elements
  <1>4. QED
    BY <1>1, <1>2, <1>3

-----------------------------------------------------------------------------
(* Rows with choices. *)

IsRow(row) == \A column \in DOMAIN row : IsValue(row[column])

LEMMA CellsAreValues ==
    ASSUME NEW value, IsValue(value), NEW type \in {"Boolean", "Int64", "Float64", "Utf8"},
           NEW encoded, IsNested(value) => encoded
    PROVE  IsValue(Cell(value, type, encoded))
  <1>1. CASE value.is = "null"
    BY <1>1 DEF Cell, IsValue
  <1>2. CASE value.is # "null" /\ Cell(value, type, encoded) = value
    BY <1>2
  <1>3. CASE type = "Float64" /\ value.is = "number"
    <2>1. value.text \in DOMAIN FloatText
      BY <1>3 DEF IsValue, IsNested, Absent
    <2> DEFINE w == [is |-> "number", text |-> FloatText[value.text], int |-> FALSE]
    <2>2. Cell(value, type, encoded) = w
      BY <1>3 DEF Cell
    <2>3. w \in [is: {"number"}, text: Strings \cap DOMAIN FloatText, int: BOOLEAN] /\ NumberOf[w.text] = NULL
      BY <2>1, FloatAssumption
    <2> HIDE DEF w
    <2>4. QED
      BY <2>2, <2>3 DEF IsValue
  <1>4. CASE type = "Float64" /\ value.is \notin {"null", "number"}
    BY <1>4 DEF Cell, IsValue
  <1>5. CASE type = "Utf8" /\ ~encoded /\ value.is \notin {"null", "string"}
    <2>1. value.is \in {"bool", "number"} /\ value.text \in Strings
      BY <1>5 DEF IsValue, IsNested, Absent
    <2> DEFINE w == [is |-> "string", text |-> value.text, json |-> value]
    <2>2. Cell(value, type, encoded) = w
      BY <1>5 DEF Cell
    <2>3. w.is = "string" /\ w.text \in Strings /\ IsChoices(w.json)
      BY <2>1 DEF IsChoices
    <2> HIDE DEF w
    <2>4. QED
      BY <2>2, <2>3 DEF IsValue
  <1>6. QED
    BY <1>1, <1>2, <1>3, <1>4, <1>5 DEF Cell

LEMMA FormsAreRows ==
    ASSUME SurroundingsInv, NEW batch \in Batches, NEW rows \in Forms(batch), NEW i \in DOMAIN batch
    PROVE  IsRow(rows[i])
  <1>1. \A k \in DOMAIN batch : IsRow(batch[k])
    BY BatchesAreShort, DatasetsAssumption DEF SurroundingsInv, IsRow
  <1>2. CASE rows = ThroughCache(batch)
    <2>1. rows[i] = [key \in Columns(batch) |->
                        Cell(Column(batch, key)[i], InferType(Column(batch, key)), JsonEncoded(Column(batch, key)))]
      BY <1>2 DEF ThroughCache
    <2>2. ASSUME NEW key \in Columns(batch)
          PROVE  IsValue(Cell(Column(batch, key)[i], InferType(Column(batch, key)), JsonEncoded(Column(batch, key))))
      <3> DEFINE values == Column(batch, key)
      <3>1. DOMAIN values = DOMAIN batch /\ IsValue(values[i])
        BY <1>1 DEF Column, IsRow, IsValue
      <3> HIDE DEF values
      <3>2. IsNested(values[i]) => JsonEncoded(values)
        BY <3>1 DEF JsonEncoded
      <3>3. InferType(values) \in {"Boolean", "Int64", "Float64", "Utf8"}
        BY DEF InferType
      <3>4. IsValue(Cell(values[i], InferType(values), JsonEncoded(values)))
        BY <3>1, <3>2, <3>3, CellsAreValues
      <3>5. QED
        BY <3>4 DEF values
    <2>3. QED
      BY <2>1, <2>2 DEF IsRow
  <1>3. QED
    BY <1>1, <1>2 DEF Forms

LEMMA TextsAreSequences ==
    ASSUME NEW row, IsRow(row), NEW style \in ChoiceStyle, ExtractChoices(row, style) # NULL
    PROVE  LET texts == ExtractChoices(row, style)
           IN  /\ Len(texts) \in Nat /\ DOMAIN texts = 1..Len(texts)
               /\ texts = [k \in 1..Len(texts) |-> texts[k]]
  <1> DEFINE texts == ExtractChoices(row, style)
  <1>1. ASSUME NEW n \in Nat, texts = [k \in 1..n |-> texts[k]]
        PROVE  /\ Len(texts) \in Nat /\ DOMAIN texts = 1..Len(texts)
               /\ texts = [k \in 1..Len(texts) |-> texts[k]]
    <2> HIDE DEF texts
    <2>1. texts \in [1..n -> {texts[k] : k \in 1..n}]
      BY <1>1
    <2>2. texts \in Seq({texts[k] : k \in 1..n})
      BY <2>1
    <2>3. Len(texts) = n /\ DOMAIN texts = 1..n
      BY <1>1, <2>2
    <2>4. QED
      BY <1>1, <2>3
  <1>2. style.labels \in Seq(Strings) /\ style.columns \in {NULL} \cup Seq(Strings)
    BY DEF ChoiceStyle
  <1>3. CASE style.columns # NULL
    <2>1. Len(style.columns) \in Nat /\ DOMAIN style.columns = 1..Len(style.columns)
      BY <1>2, <1>3
    <2>2. texts = [i \in 1..Len(style.columns) |-> RequiredScalar(row, style.columns[i])]
      BY <1>3, <2>1 DEF ExtractChoices
    <2> HIDE DEF texts
    <2>3. texts = [k \in 1..Len(style.columns) |-> texts[k]]
      BY <2>2
    <2>4. QED
      BY <1>1, <2>1, <2>3 DEF texts
  <1>4. CASE style.columns = NULL
    <2> DEFINE choices == RequiredChoices(row, style.column)
    <2>1. choices # NULL
      BY <1>4 DEF ExtractChoices
    <2>2. CASE choices.is = "array"
      <3>1. choices.items \in Seq(Elements(choices.items))
        <4> DEFINE value == row[style.column]
        <4>1. /\ style.column \in DOMAIN row
              /\ choices = value \/ (value.is = "string" /\ value.json # NULL /\ choices = value.json)
          BY <2>1 DEF RequiredChoices
        <4> HIDE DEF choices
        <4>2. IsValue(value)
          BY <4>1 DEF IsRow
        <4> HIDE DEF value
        <4>3. IsChoices(choices)
          BY <2>2, <4>1, <4>2 DEF IsValue, IsNested, Absent
        <4> QED BY <2>2, <4>3 DEF IsChoices
      <3>2. Len(choices.items) \in Nat /\ DOMAIN choices.items = 1..Len(choices.items)
        BY <3>1
      <3>3. texts = [i \in 1..Len(choices.items) |-> choices.items[i].text]
        BY <1>4, <2>1, <2>2, <3>2 DEF ExtractChoices
      <3> HIDE DEF choices, texts
      <3>4. texts = [k \in 1..Len(choices.items) |-> texts[k]]
        BY <3>3
      <3>5. QED
        BY <1>1, <3>2, <3>4 DEF texts
    <2>3. CASE choices.is # "array"
      <3>1. Len(style.labels) \in Nat /\ DOMAIN style.labels = 1..Len(style.labels)
        BY <1>2
      <3>2. texts = [i \in 1..Len(style.labels) |-> choices.items[style.labels[i]].text]
        BY <1>4, <2>1, <2>3, <3>1 DEF ExtractChoices
      <3> HIDE DEF choices, texts
      <3>3. texts = [k \in 1..Len(style.labels) |-> texts[k]]
        BY <3>2
      <3>4. QED
        BY <1>1, <3>1, <3>3 DEF texts
    <2>4. QED
      BY <2>2, <2>3
  <1>5. QED
    BY <1>3, <1>4

LEMMA CorrectIsAnIndex ==
    ASSUME NEW row, IsRow(row), NEW style \in ChoiceStyle, ValidateStyle(style),
           ExtractChoices(row, style) # NULL,
           Len(ExtractChoices(row, style)) <= Len(style.labels),
           NEW labels, labels = SubSeq(style.labels, 1, Len(ExtractChoices(row, style))),
           NEW correct, correct = CorrectIndex(row, style, labels, Len(ExtractChoices(row, style))), correct # NULL
    PROVE  /\ correct \in DOMAIN ExtractChoices(row, style)
           /\ (style.answer.by = "label" => Apart(style.labels)) =>
                 ExtractChoices(row, style)[correct] = CorrectText(row, style)
  <1> DEFINE texts == ExtractChoices(row, style)
             n == Len(texts)
             column == style.answer.column
  <1>1. n \in Nat /\ DOMAIN texts = 1..n
    BY TextsAreSequences
  <1>2. /\ style.labels \in Seq(Strings) /\ style.columns \in {NULL} \cup Seq(Strings)
        /\ style.answer \in Answer /\ style.type = "multiple_choice"
    BY DEF ChoiceStyle
  <1>3. /\ labels \in Seq(Strings) /\ DOMAIN labels = 1..n
        /\ \A k \in 1..n : labels[k] = style.labels[k]
        /\ DOMAIN style.labels = 1..Len(style.labels)
    BY <1>1, <1>2
  <1>4. style.answer.base \in Nat /\ style.answer.by \in {"index", "choice", "label"}
    BY <1>2 DEF Answer
  <1>5. CASE style.answer.by = "index"
    <2> DEFINE index == RequiredIndex(row, column)
    <2>1. /\ index # NULL /\ index >= style.answer.base /\ index - style.answer.base < n
          /\ correct = index - style.answer.base + 1
      BY <1>5 DEF CorrectIndex
    <2>2. index = NumberOf[row[column].text] /\ row[column].text \in Strings
      <3> DEFINE value == row[column]
      <3>1. column \in DOMAIN row /\ value.is \in {"string", "number"} /\ index = NumberOf[value.text]
        BY <2>1 DEF RequiredIndex
      <3>2. IsValue(value)
        BY <3>1 DEF IsRow
      <3> HIDE DEF value
      <3>3. value.text \in Strings
        BY <3>1, <3>2 DEF IsValue, IsNested, Absent
      <3> QED BY <3>1, <3>3 DEF value
    <2>3. index \in Nat
      BY <2>1, <2>2, WordsAssumption
    <2>4. CorrectText(row, style) = texts[NumberOf[row[column].text] - style.answer.base + 1]
      BY <1>5 DEF CorrectText
    <2> HIDE DEF index, texts, n
    <2>5. correct \in 1..n
      BY <1>1, <1>4, <2>1, <2>3
    <2>6. QED
      BY <1>1, <2>1, <2>2, <2>4, <2>5 DEF texts
  <1>6. CASE style.answer.by = "choice"
    <2>1. style.columns # NULL /\ column \in Elements(style.columns)
      BY <1>2, <1>6 DEF ValidateStyle
    <2>2. style.columns \in Seq(Strings)
      BY <1>2, <2>1
    <2>3. texts = [i \in DOMAIN style.columns |-> RequiredScalar(row, style.columns[i])]
          /\ \A i \in DOMAIN style.columns : RequiredScalar(row, style.columns[i]) # NULL
      BY <2>1 DEF ExtractChoices
    <2>4. correct = FirstIndex(style.columns, LAMBDA c : c = column)
      BY <1>6 DEF CorrectIndex
    <2>5. correct \in DOMAIN style.columns /\ style.columns[correct] = column
      <3> DEFINE S == {k \in DOMAIN style.columns : style.columns[k] = column}
      <3>1. Len(style.columns) \in Nat /\ S \subseteq 1..Len(style.columns) /\ S # {}
        BY <2>1, <2>2 DEF Elements
      <3>2. \E i \in S : \A j \in 1..i-1 : j \notin S
        BY <3>1, FirstIsLeast
      <3>3. \E i \in DOMAIN style.columns :
               style.columns[i] = column /\ \A j \in 1..i-1 : ~(style.columns[j] = column)
        BY <2>2, <3>1, <3>2
      <3>4. correct = CHOOSE i \in DOMAIN style.columns :
                         style.columns[i] = column /\ \A j \in 1..i-1 : ~(style.columns[j] = column)
        BY <2>4, <3>3 DEF FirstIndex
      <3>5. QED
        BY <3>3, <3>4
    <2>6. texts[correct] = row[column].text
      BY <2>3, <2>5 DEF RequiredScalar
    <2>7. CorrectText(row, style) = row[column].text
      BY <1>6 DEF CorrectText
    <2>8. QED
      BY <2>3, <2>5, <2>6, <2>7
  <1>7. CASE style.answer.by = "label"
    <2> DEFINE golden == RequiredScalar(row, column)
    <2>1. golden # NULL /\ correct = LabelIndex(golden, labels)
      BY <1>7 DEF CorrectIndex
    <2>2. golden = row[column].text
      BY <2>1 DEF RequiredScalar
    <2>3. correct \in DOMAIN labels /\ Fold[labels[correct]] = Fold[golden]
      <3> HIDE DEF golden, texts, n
      <3>1. LabelIndex(golden, labels) # NULL
        BY <2>1
      <3>2. labels \in Seq(Strings)
        BY <1>3
      <3>3. QED
        BY <2>1, <3>1, <3>2, WordsAreMatched, Zenon
    <2>4. CorrectText(row, style) = texts[CHOOSE i \in DOMAIN texts : Fold[style.labels[i]] = Fold[golden]]
      BY <1>7, <2>2 DEF CorrectText
    <2> HIDE DEF texts, n, golden
    <2>5. ASSUME Apart(style.labels)
          PROVE  (CHOOSE i \in DOMAIN texts : Fold[style.labels[i]] = Fold[golden]) = correct
      <3>1. correct \in DOMAIN texts /\ Fold[style.labels[correct]] = Fold[golden]
        BY <1>1, <1>3, <2>3
      <3>2. ASSUME NEW i \in DOMAIN texts, Fold[style.labels[i]] = Fold[golden]
            PROVE  i = correct
        <4>1. i \in DOMAIN style.labels /\ correct \in DOMAIN style.labels
          BY <1>1, <1>3, <3>1 DEF texts, n
        <4>2. QED
          BY <2>5, <3>1, <3>2, <4>1 DEF Apart
      <3>3. QED
        BY <3>1, <3>2
    <2>6. correct \in DOMAIN texts
      BY <1>1, <1>3, <2>3
    <2>7. QED
      BY <1>7, <2>4, <2>5, <2>6 DEF texts
  <1>8. QED
    BY <1>4, <1>5, <1>6, <1>7

(* Marked choices, in whatever order and with distinct labels: the golden label is that
   of the marked one alone, and every text has a label. *)
Marking(texts, correct, n) == [i \in 1..n |-> [text |-> texts[i], correct |-> i = correct]]
Labelling(labels, shuffled, n) == {[label |-> labels[i], text |-> shuffled[i].text] : i \in 1..n}
GoldenAmong(labels, shuffled, n) == labels[CHOOSE i \in 1..n : shuffled[i].correct]

MarksOnly(choices, golden, text) == {c \in choices : c.label = golden} = {[label |-> golden, text |-> text]}
Carries(choices, texts, n) == {c.text : c \in choices} = {texts[i] : i \in 1..n}
IsAmong(label, labels, n) == \E i \in 1..n : label = labels[i]

LEMMA ChoicesAreMarked ==
    ASSUME NEW n \in Nat \ {0}, NEW labels, \A i, j \in 1..n : labels[i] = labels[j] => i = j,
           NEW texts, NEW correct \in 1..n,
           NEW shuffled, shuffled \in Permuted(Marking(texts, correct, n)),
           NEW choices, choices = Labelling(labels, shuffled, n),
           NEW golden, golden = GoldenAmong(labels, shuffled, n)
    PROVE  /\ IsAmong(golden, labels, n)
           /\ MarksOnly(choices, golden, texts[correct])
           /\ Carries(choices, texts, n)
  <1> DEFINE marked == [i \in 1..n |-> [text |-> texts[i], correct |-> i = correct]]
  <1> USE DEF Marking, Labelling, GoldenAmong, MarksOnly, Carries, IsAmong
  <1>1. Len(marked) = n
    <2> DEFINE S == {marked[i] : i \in 1..n}
    <2>1. DOMAIN marked = 1..n /\ marked = [i \in 1..n |-> marked[i]] /\ \A i \in 1..n : marked[i] \in S
      OBVIOUS
    <2> HIDE DEF S
    <2>2. marked \in [1..n -> S]
      BY <2>1
    <2>3. marked \in Seq(S)
      BY <2>2
    <2>4. QED
      BY <2>1, <2>3
  <1>2. PICK p \in Reorderings(n) : shuffled = [k \in 1..n |-> marked[p[k]]]
    BY <1>1 DEF Permuted
  <1>3. /\ \A k \in 1..n : p[k] \in 1..n
        /\ \A i, j \in 1..n : p[i] = p[j] => i = j
        /\ \A j \in 1..n : \E i \in 1..n : p[i] = j
    BY DEF Reorderings
  <1>4. \A k \in 1..n : shuffled[k].text = texts[p[k]] /\ (shuffled[k].correct <=> p[k] = correct)
    BY <1>2, <1>3
  <1>5. PICK i \in 1..n : p[i] = correct
    BY <1>3
  <1>6. (CHOOSE k \in 1..n : shuffled[k].correct) = i
    BY <1>3, <1>4, <1>5
  <1>7. golden = labels[i]
    BY <1>6
  <1>8. ASSUME NEW c
        PROVE  c \in choices /\ c.label = golden <=> c = [label |-> golden, text |-> texts[correct]]
    <2>1. ASSUME c \in choices, c.label = golden
          PROVE  c = [label |-> golden, text |-> texts[correct]]
      <3>1. PICK k \in 1..n : c = [label |-> labels[k], text |-> shuffled[k].text]
        BY <2>1
      <3>2. k = i
        BY <1>7, <2>1, <3>1
      <3>3. QED
        BY <1>4, <1>5, <1>7, <3>1, <3>2
    <2>2. [label |-> golden, text |-> texts[correct]] \in choices
      BY <1>4, <1>5, <1>7
    <2>3. [label |-> golden, text |-> texts[correct]].label = golden
      OBVIOUS
    <2>4. CASE c = [label |-> golden, text |-> texts[correct]]
      BY <2>2, <2>3, <2>4
    <2>5. QED
      BY <2>1, <2>4
  <1>9. {c.text : c \in choices} = {texts[k] : k \in 1..n}
    <2>1. ASSUME NEW c \in choices PROVE \E k \in 1..n : c.text = texts[k]
      <3>1. PICK k \in 1..n : c = [label |-> labels[k], text |-> shuffled[k].text]
        OBVIOUS
      <3>2. c.text = texts[p[k]] /\ p[k] \in 1..n
        BY <1>3, <1>4, <3>1
      <3>3. QED
        BY <3>2
    <2>2. ASSUME NEW k \in 1..n PROVE \E c \in choices : c.text = texts[k]
      <3>1. PICK j \in 1..n : p[j] = k
        BY <1>3
      <3>2. [label |-> labels[j], text |-> shuffled[j].text] \in choices
        OBVIOUS
      <3>3. shuffled[j].text = texts[k]
        BY <1>4, <3>1
      <3>4. QED
        BY <3>2, <3>3
    <2>3. QED
      BY ONLY <2>1, <2>2, Zenon
  <1>10. QED
    BY <1>7, <1>8, <1>9

(* What the choices of a prepared row are, and which of them is the golden one. *)
LEMMA GoldenIsMarked ==
    ASSUME NEW row, IsRow(row), NEW style \in ChoiceStyle, ValidateStyle(style),
           NEW h \in [Strings -> Seq(Nat)], \A seed \in Strings : Len(style.labels) <= Len(h[seed]),
           NEW prepared, prepared = PrepareRow(row, style, h), prepared # NULL,
           NEW choices, choices = Elements(prepared.choices)
    PROVE  /\ prepared.golden \in Elements(style.labels)
           /\ (style.answer.by = "label" => Apart(style.labels)) =>
                 {c \in choices : c.label = prepared.golden}
                    = {[label |-> prepared.golden, text |-> CorrectText(row, style)]}
           /\ {c.text : c \in choices} = Elements(ExtractChoices(row, style))
  <1> DEFINE texts == ExtractChoices(row, style)
             n == Len(texts)
             labels == SubSeq(style.labels, 1, n)
             correct == CorrectIndex(row, style, labels, n)
             marked == [i \in DOMAIN texts |-> [text |-> texts[i], correct |-> i = correct]]
             seed == IF style.seed = NULL THEN NULL ELSE RequiredScalar(row, style.seed)
             shuffled == IF style.seed = NULL THEN marked ELSE Shuffle(marked, seed, h)
             golden == labels[CHOOSE i \in DOMAIN texts : shuffled[i].correct]
             laid == [i \in DOMAIN texts |-> [label |-> labels[i], text |-> shuffled[i].text]]
  <1>1. /\ style.type = "multiple_choice" /\ style.labels \in Seq(Strings)
        /\ Cardinality(Elements(style.labels)) = Len(style.labels)
    BY DEF ChoiceStyle, ValidateStyle
  <1>a. /\ texts # NULL /\ texts # <<>> /\ ~(Len(texts) > Len(style.labels))
        /\ correct # NULL /\ ~(style.seed # NULL /\ seed = NULL)
        /\ prepared = MultipleChoice(laid, golden, style.labels)
    BY <1>1, Zenon DEF PrepareRow
  <1>2. /\ texts # NULL /\ texts # <<>> /\ ~(Len(texts) > Len(style.labels))
        /\ correct # NULL /\ ~(style.seed # NULL /\ seed = NULL)
    BY <1>a, Zenon
  <1>3. /\ n \in Nat /\ DOMAIN texts = 1..n /\ texts = [k \in 1..n |-> texts[k]]
    BY <1>2, TextsAreSequences
  <1>4. /\ correct \in DOMAIN texts
        /\ (style.answer.by = "label" => Apart(style.labels)) => texts[correct] = CorrectText(row, style)
    <2>1. Len(texts) <= Len(style.labels)
      <3>1. Len(style.labels) \in Nat /\ n \in Nat /\ ~(n > Len(style.labels))
        BY <1>1, <1>2, <1>3
      <3> HIDE DEF n
      <3>2. n <= Len(style.labels)
        BY <3>1
      <3>3. QED
        BY <3>2 DEF n
    <2>2. labels = SubSeq(style.labels, 1, Len(texts)) /\ correct = CorrectIndex(row, style, labels, Len(texts))
      OBVIOUS
    <2> HIDE DEF labels, correct
    <2>3. QED
      BY <1>2, <2>1, <2>2, CorrectIsAnIndex
  <1>5. seed # NULL => seed \in Strings
    BY NullAssumption DEF RequiredScalar, IsScalar, IsRow, IsValue, IsNested, Absent
  <1> HIDE DEF texts, correct, seed
  <1>6. n \in Nat \ {0} /\ n <= Len(style.labels) /\ correct \in 1..n
    <2>1. n # 0
      <3> DEFINE S == {texts[k] : k \in 1..n}
      <3>1. \A k \in 1..n : texts[k] \in S
        OBVIOUS
      <3> HIDE DEF S
      <3>2. texts \in Seq(S)
        BY <1>3, <3>1
      <3>3. QED
        BY <1>2, <3>2, EmptySeq
    <2>a. Len(style.labels) \in Nat /\ n \in Nat /\ ~(n > Len(style.labels))
      BY <1>1, <1>2, <1>3
    <2>2. n <= Len(style.labels)
      <3> HIDE DEF n
      <3>1. QED
        BY <2>a
    <2> HIDE DEF n
    <2>3. QED
      BY <1>3, <1>4, <2>1, <2>2
  <1>7. /\ \A i \in 1..n : labels[i] = style.labels[i] /\ i \in DOMAIN style.labels
        /\ \A i, j \in 1..n : labels[i] = labels[j] => i = j
    <2>1. \A i \in 1..n : labels[i] = style.labels[i] /\ i \in DOMAIN style.labels
      BY <1>1, <1>6
    <2>2. \A i, j \in DOMAIN style.labels : style.labels[i] = style.labels[j] => i = j
      BY <1>1, LabelsAreDistinct
    <2>3. QED
      BY <2>1, <2>2
  <1>8. marked = Marking(texts, correct, n)
    BY <1>3 DEF Marking
  <1>9. shuffled \in Permuted(marked)
    <2>1. DOMAIN marked = 1..n /\ marked = [k \in 1..n |-> marked[k]]
      BY <1>3
    <2> HIDE DEF marked, n
    <2>2. Len(marked) = n
      <3> DEFINE S == {marked[i] : i \in 1..n}
      <3>1. \A i \in 1..n : marked[i] \in S
        OBVIOUS
      <3> HIDE DEF S
      <3>2. marked \in [1..n -> S]
        BY <2>1, <3>1
      <3>3. marked \in Seq(S)
        BY <1>6, <3>2
      <3>4. QED
        BY <1>6, <2>1, <3>3
    <2>3. marked \in Permuted(marked)
      BY <1>6, <2>1, <2>2, UnshuffledIsPermuted
    <2>4. CASE style.seed # NULL
      <3>1. seed \in Strings
        BY <1>2, <1>5, <2>4
      <3>2. \A u \in 1..n : h[seed][u] \in Nat
        <4>1. h[seed] \in Seq(Nat) /\ Len(style.labels) <= Len(h[seed])
          BY <3>1
        <4>2. Len(h[seed]) \in Nat /\ Len(style.labels) \in Nat /\ \A u \in 1..Len(h[seed]) : h[seed][u] \in Nat
          BY <1>1, <4>1
        <4>3. \A u \in 1..n : u \in 1..Len(h[seed])
          BY <1>6, <4>1, <4>2
        <4>4. QED
          BY <4>2, <4>3
      <3>3. Shuffle(marked, seed, h) \in Permuted(marked)
        BY <1>6, <2>1, <2>2, <3>2, ShufflesPermute
      <3>4. QED
        BY <2>4, <3>3
    <2>5. QED
      BY <2>3, <2>4
  <1>10. choices = Labelling(labels, shuffled, n)
    <2>1. prepared.choices = laid
      <3>1. \A c, g, r : MultipleChoice(c, g, r).choices = c
        BY DEF MultipleChoice
      <3> HIDE DEF laid, golden
      <3>2. QED
        BY <1>a, <3>1
    <2> HIDE DEF labels, shuffled
    <2>2. DOMAIN laid = 1..n
      BY <1>3
    <2>3. QED
      BY <1>3, <2>1, <2>2 DEF Elements, Labelling
  <1>11. prepared.golden = GoldenAmong(labels, shuffled, n)
    <2>1. prepared.golden = golden
      <3> HIDE DEF laid, golden
      <3>1. QED
        BY <1>a DEF MultipleChoice
    <2> HIDE DEF labels, shuffled, n
    <2>2. QED
      BY <1>3, <2>1 DEF GoldenAmong
  <1> HIDE DEF marked, shuffled, n
  <1>12. /\ IsAmong(prepared.golden, labels, n)
         /\ MarksOnly(choices, prepared.golden, texts[correct])
         /\ Carries(choices, texts, n)
    <2> HIDE DEF labels, golden, laid
    <2>1. shuffled \in Permuted(Marking(texts, correct, n))
      BY <1>8, <1>9
    <2>2. \A i, j \in 1..n : labels[i] = labels[j] => i = j
      BY <1>7
    <2>3. QED
      BY <1>6, <1>10, <1>11, <2>1, <2>2, ChoicesAreMarked
  <1>13. prepared.golden \in Elements(style.labels)
    BY <1>7, <1>12 DEF Elements, IsAmong
  <1>14. Elements(texts) = {texts[i] : i \in 1..n}
    BY <1>3 DEF Elements, n
  <1>15. QED
    BY <1>4, <1>12, <1>13, <1>14 DEF texts, MarksOnly, Carries

LEMMA ChoicesAreConfigured ==
    ASSUME SurroundingsInv, NEW by \in Setting, by.style.type = "multiple_choice",
           \E s \in Sources : by.style.type = "multiple_choice" => s.style = by.style
    PROVE  /\ by.style \in ChoiceStyle
           /\ Draws[hash] \in [Strings -> Seq(Nat)]
           /\ \A seed \in Strings : Len(by.style.labels) <= Len(Draws[hash][seed])
  BY DrawsAssumption DEF SurroundingsInv, Setting, Style

(* The golden label marks the choice that the dataset calls correct, however the choices
   are shuffled (prepare_row, shuffle_choices). *)
THEOREM GoldenLabelsAreRight == Spec => []GoldenMarksCorrectChoice
  <1>1. SettingsInv /\ AttemptInv => GoldenMarksCorrectChoice
    <2> SUFFICES ASSUME SettingsInv, AttemptInv, status = "running", config.style.type = "multiple_choice",
                        NEW i \in Rows, Prepared(i) # NULL,
                        config.style.answer.by = "label" => Apart(config.style.labels)
                 PROVE  LET choices == Elements(Prepared(i).choices)
                            golden == Prepared(i).golden
                        IN  /\ {c \in choices : c.label = golden}
                                  = {[label |-> golden, text |-> CorrectText(seen[i], config.style)]}
                            /\ {c.text : c \in choices} = Elements(ExtractChoices(seen[i], config.style))
      BY DEF GoldenMarksCorrectChoice
    <2>1. ConfigInv /\ SurroundingsInv
      BY DEF SettingsInv
    <2>2. /\ config.style \in ChoiceStyle /\ ValidateStyle(config.style)
          /\ Draws[hash] \in [Strings -> Seq(Nat)]
          /\ \A seed \in Strings : Len(config.style.labels) <= Len(Draws[hash][seed])
      BY <2>1, ChoicesAreConfigured DEF ConfigInv
    <2>3. IsRow(seen[i])
      BY <2>1, BatchesAreShort, FormsAreRows DEF AttemptInv, Rows
    <2> DEFINE prepared == Prepared(i)
               choices == Elements(prepared.choices)
    <2>4. prepared = PrepareRow(seen[i], config.style, Draws[hash])
      BY DEF Prepared
    <2> HIDE DEF prepared
    <2>5. prepared # NULL
      BY DEF prepared
    <2> HIDE DEF choices
    <2>6. /\ {c \in choices : c.label = prepared.golden}
                = {[label |-> prepared.golden, text |-> CorrectText(seen[i], config.style)]}
          /\ {c.text : c \in choices} = Elements(ExtractChoices(seen[i], config.style))
      BY <2>2, <2>3, <2>4, <2>5, GoldenIsMarked DEF choices
    <2>7. QED
      BY <2>6 DEF choices, prepared
  <1>2. QED
    BY <1>1, Configured, AttemptsReadBatches, PTL

-----------------------------------------------------------------------------
(* Answers. *)

LEMMA WordsMeanLabels ==
    ASSUME NEW labels \in Seq(Strings), NEW word
    PROVE  /\ LabelOf(word, labels) \in Elements(labels) \cup {NULL}
           /\ LabelOf(word, labels) # NULL <=> \E l \in Elements(labels) : Fold[word] = Fold[l]
           /\ Apart(labels) => \A l \in Elements(labels) : LabelOf(word, labels) = l <=> Fold[word] = Fold[l]
  <1>1. /\ (\E k \in DOMAIN labels : Fold[labels[k]] = Fold[word]) =>
              /\ LabelOf(word, labels) \in Elements(labels)
              /\ Fold[LabelOf(word, labels)] = Fold[word] /\ LabelOf(word, labels) # NULL
        /\ (\A k \in DOMAIN labels : Fold[labels[k]] # Fold[word]) => LabelOf(word, labels) = NULL
    BY LabelsAreFound
  <1>2. (\E k \in DOMAIN labels : Fold[labels[k]] = Fold[word]) <=> \E l \in Elements(labels) : Fold[word] = Fold[l]
    BY DEF Elements
  <1>3. \A l \in Elements(labels) : l # NULL
    BY NullAssumption DEF Elements
  <1>4. Apart(labels) => \A l, m \in Elements(labels) : Fold[l] = Fold[m] => l = m
    BY DEF Apart, Elements
  <1>5. QED
    BY <1>1, <1>2, <1>3, <1>4

Means(word, label) == Fold[Clean[word]] = Fold[label]
LabelWords(words, labels) ==
    {k \in DOMAIN words : k > Len(words) - LastWords /\ \E l \in Elements(labels) : Means(words[k], l)}

(* What is extracted from a response is the last label that is looked at, or nothing. *)
LEMMA LastLabelIsExtracted ==
    ASSUME NEW labels \in Seq(Strings), NEW words \in Seq(Strings)
    PROVE  /\ ExtractLabel(words, labels) \in Elements(labels) \cup {NULL}
           /\ Recognisable(labels) =>
                 \A golden \in Elements(labels) :
                    ExtractLabel(words, labels) = golden <=>
                        \E k \in LabelWords(words, labels) :
                            Means(words[k], golden) /\ \A j \in LabelWords(words, labels) : j <= k
  <1> DEFINE n == Len(words)
             first == IF n > LastWords THEN n - LastWords + 1 ELSE 1
             marked == {i \in first..n : LabelOf(Clean[words[i]], labels) # NULL}
             last == CHOOSE i \in marked : \A j \in marked : i >= j
             whole == n = 1 /\ LabelOf(words[1], labels) # NULL
  <1>1. ExtractLabel(words, labels) = IF whole THEN LabelOf(words[1], labels)
                                      ELSE IF marked = {} THEN NULL
                                      ELSE LabelOf(Clean[words[last]], labels)
    BY DEF ExtractLabel
  <1>2. n \in Nat /\ DOMAIN words = 1..n /\ (\A k \in 1..n : words[k] \in Strings) /\ LastWords \in Nat \ {0}
    BY WordsAssumption
  <1> HIDE DEF n
  <1>3. /\ first \in Nat \ {0} /\ first..n \subseteq 1..n
        /\ \A k \in 1..n : k \in first..n <=> k > n - LastWords
    BY <1>2
  <1> HIDE DEF first
  <1>4. marked \subseteq 1..n
    BY <1>2, <1>3
  <1>5. marked = LabelWords(words, labels)
    <2>1. ASSUME NEW k \in 1..n
          PROVE  LabelOf(Clean[words[k]], labels) # NULL <=> \E l \in Elements(labels) : Means(words[k], l)
      BY WordsMeanLabels DEF Means
    <2>2. \A k : k \in first..n <=> (k \in 1..n /\ k > n - LastWords)
      BY <1>3
    <2>3. \A k : k \in marked <=> k \in LabelWords(words, labels)
      BY <1>2, <2>1, <2>2 DEF LabelWords, n
    <2>4. QED
      BY <2>3
  <1> HIDE DEF marked
  <1>6. marked # {} => last \in marked /\ \A j \in marked : last >= j
    <2>1. marked # {} => \E i \in marked : \A j \in marked : i >= j
      BY <1>2, <1>4, LastIsGreatest
    <2>2. QED
      BY <2>1
  <1> HIDE DEF last
  <1>7. ExtractLabel(words, labels) \in Elements(labels) \cup {NULL}
    BY <1>1, WordsMeanLabels
  <1>8. ASSUME Recognisable(labels), NEW golden \in Elements(labels)
        PROVE  ExtractLabel(words, labels) = golden <=>
                  \E k \in marked : Means(words[k], golden) /\ \A j \in marked : j <= k
    <2>1. Apart(labels) /\ golden \in Strings /\ golden # NULL /\ \A l \in Elements(labels) : Clean[l] = l /\ l \in Strings
      BY <1>8, NullAssumption DEF Recognisable, Elements
    <2>2. CASE whole
      <3>1. PICK l \in Elements(labels) : Fold[words[1]] = Fold[l]
        BY <2>2, WordsMeanLabels
      <3>2. Clean[words[1]] = words[1]
        BY <1>2, <2>1, <2>2, <3>1, WordsAssumption
      <3>3. LabelOf(words[1], labels) = golden <=> Fold[words[1]] = Fold[golden]
        BY <2>1, WordsMeanLabels
      <3>4. marked = {1}
        <4>1. 1 > n - LastWords /\ 1..n = {1}
          BY <1>2, <2>2
        <4>2. 1 \in LabelWords(words, labels)
          BY <1>2, <3>1, <3>2, <4>1 DEF LabelWords, Means, n
        <4>3. QED
          BY <1>4, <1>5, <4>1, <4>2
      <3>5. QED
        BY <1>1, <2>2, <3>2, <3>3, <3>4 DEF Means
    <2>3. CASE ~whole /\ marked = {}
      BY <1>1, <2>1, <2>3
    <2>4. CASE ~whole /\ marked # {}
      <3>1. ExtractLabel(words, labels) = LabelOf(Clean[words[last]], labels)
        BY <1>1, <2>4
      <3>2. ExtractLabel(words, labels) = golden <=> Means(words[last], golden)
        BY <2>1, <3>1, WordsMeanLabels DEF Means
      <3>3. \A k \in marked : (\A j \in marked : j <= k) <=> k = last
        <4>1. last \in marked /\ marked \subseteq Nat /\ \A j \in marked : last >= j
          BY <1>2, <1>4, <1>6, <2>4
        <4>2. \A j \in marked : j <= last
          BY <4>1
        <4>3. ASSUME NEW k \in marked, \A j \in marked : j <= k
              PROVE  k = last
          <5>1. last <= k /\ k <= last /\ k \in Nat /\ last \in Nat
            BY <4>1, <4>2, <4>3
          <5>2. QED
            BY <5>1
        <4>4. QED
          BY <4>2, <4>3
      <3>4. QED
        BY <1>6, <2>4, <3>2, <3>3
    <2>5. QED
      BY <2>2, <2>3, <2>4
  <1>9. QED
    BY <1>5, <1>7, <1>8

ProgressInv == changes \in 0..MaxChanges /\ (aggregate # NULL <=> status = "completed")

LEMMA RunsProgress == Spec => []ProgressInv
  <1>1. Init => ProgressInv
    BY ResponsesAssumption DEF Init, ProgressInv
  <1>2. ProgressInv /\ [Next]_vars => ProgressInv'
    <2> SUFFICES ASSUME ProgressInv, [Next]_vars PROVE ProgressInv'
      OBVIOUS
    <2>1. ASSUME NEW w, Begin(w), status # "completed"
          PROVE  ProgressInv'
      BY <2>1 DEF Begin, ReachRows, MissRows, ProgressInv, surroundings
    <2>2. CASE Start \/ ResumeLocal \/ ResumeRemote
      BY <2>1, <2>2 DEF Start, ResumeLocal, ResumeRemote
    <2>3. ASSUME NEW i \in Rows, EvaluateRow(i) \/ ReuseRow(i) \/ FailRow(i)
          PROVE  ProgressInv'
      BY <2>3 DEF EvaluateRow, ReuseRow, FailRow, Fail, Pending, ProgressInv, surroundings
    <2>4. CASE Complete
      BY <2>4 DEF Complete, Fail, ProgressInv, surroundings
    <2>5. CASE Change
      BY <2>5, ResponsesAssumption DEF Change, ProgressInv
    <2>6. CASE UNCHANGED vars
      BY <2>6 DEF vars, surroundings, ProgressInv
    <2>7. QED
      BY <2>2, <2>3, <2>4, <2>5, <2>6 DEF Next
  <1>3. QED
    BY <1>1, <1>2, PTL DEF Spec

(* What is known of an output that may be stored. *)
LEMMA RecordsAreJudged ==
    ASSUME SettingsInv, NEW i, NEW batch \in Batches, NEW record, IsOutput(record, i, batch, hash),
           NEW output, output = Decode(record.output),
           NEW own, own = record.by.style
    PROVE  /\ output.kind = (IF own.type = "similarity" THEN "similarity" ELSE "classification")
           /\ own.type = "multiple_choice" =>
                 /\ own.labels \in Seq(Strings) /\ output.response \in Seq(Strings)
                 /\ output.golden \in Elements(own.labels)
                 /\ output.parsed = ExtractLabel(output.response, own.labels)
                 /\ output.correct <=> output.parsed = output.golden
           /\ own.type # "similarity" => output.correct \in BOOLEAN /\ output.golden = record.hash[2]
           /\ own.type = "similarity" => output.score \in Int
  <1> DEFINE by == record.by
  <1>2. PICK rows \in Forms(batch), response \in Seq(Strings), old \in BOOLEAN :
          /\ i \in DOMAIN batch
          /\ by \in Setting /\ ValidateStyle(by.style)
          /\ \E s \in Sources : by.style.type = "multiple_choice" => s.style = by.style
          /\ PrepareRow(rows[i], by.style, Draws[hash]) # NULL
          /\ by.style.type # "multiple_choice" => response \in Responses
          /\ record = StoredAs(rows[i], hash, by, response, old)
    BY DEF IsOutput
  <1> HIDE DEF by
  <1> DEFINE prepared == PrepareRow(rows[i], by.style, Draws[hash])
  <1>3. output = Evaluate(prepared, by.style, response, ScoreOf)
    BY <1>2, OutputsAreDecoded DEF StoredAs
  <1>4. own = by.style /\ own \in Style({Levenshtein, Cosine})
    BY <1>2 DEF by, Setting
  <1>5. /\ prepared.type = own.type
        /\ own.type = "multiple_choice" => prepared.responses = own.labels
    <2>1. by.style \in Style({Levenshtein, Cosine}) /\ prepared # NULL
      BY <1>2, <1>4
    <2>2. /\ prepared.type = by.style.type
          /\ by.style.type = "multiple_choice" => prepared.responses = by.style.labels
      <3>1. PreparedFor(prepared, by.style)
        BY <2>1, PreparedTypes
      <3>2. QED
        BY <3>1 DEF PreparedFor
    <2>3. QED
      BY <1>4, <2>2
  <1> DEFINE h == Draws[hash]
  <1> HIDE DEF h
  <1>6. ASSUME own.type = "multiple_choice"
        PROVE  own \in ChoiceStyle /\ prepared.golden \in Elements(own.labels)
    <2>1. /\ by.style \in ChoiceStyle
          /\ h \in [Strings -> Seq(Nat)]
          /\ \A seed \in Strings : Len(by.style.labels) <= Len(h[seed])
      BY <1>2, <1>4, <1>6, ChoicesAreConfigured DEF SettingsInv, h
    <2>2. IsRow(rows[i])
      BY <1>2, FormsAreRows DEF SettingsInv
    <2>3. prepared = PrepareRow(rows[i], by.style, h) /\ prepared # NULL
      BY <1>2 DEF h
    <2> HIDE DEF prepared
    <2>4. prepared.golden \in Elements(by.style.labels)
      BY <1>2, <2>1, <2>2, <2>3, GoldenIsMarked
    <2>5. QED
      BY <1>4, <2>1, <2>4
  <1> HIDE DEF prepared
  <1>7. output.kind = (IF own.type = "similarity" THEN "similarity" ELSE "classification")
    BY <1>3, <1>5 DEF Evaluate
  <1>8. ASSUME own.type = "multiple_choice"
        PROVE  /\ own.labels \in Seq(Strings) /\ output.response \in Seq(Strings)
               /\ output.golden \in Elements(own.labels)
               /\ output.parsed = ExtractLabel(output.response, own.labels)
               /\ output.correct <=> output.parsed = output.golden
    <2>1. own.labels \in Seq(Strings) /\ own.labels # NULL
      BY <1>6, <1>8, NullAssumption DEF ChoiceStyle
    <2> DEFINE parsed == ExtractLabel(response, own.labels)
    <2>2. output = [kind |-> "classification", response |-> response, parsed |-> parsed,
                    golden |-> prepared.golden, correct |-> parsed = prepared.golden]
      BY <1>3, <1>5, <1>8, <2>1 DEF Evaluate
    <2> HIDE DEF parsed
    <2>3. /\ output.response = response /\ output.parsed = parsed /\ output.golden = prepared.golden
          /\ output.correct = (parsed = prepared.golden)
      BY <2>2
    <2>4. QED
      BY <1>2, <1>6, <1>8, <2>1, <2>3 DEF parsed
  <1>9. ASSUME own.type = "similarity"
        PROVE  output.score \in Int
    <2>1. own.metric \in {Levenshtein, Cosine}
      BY <1>4, <1>9 DEF Style, ChoiceStyle
    <2>2. output.score = ScoreOf[own.metric.name][response]
      BY <1>3, <1>4, <1>5, <1>9 DEF Evaluate
    <2>3. response \in Responses
      BY <1>2, <1>4, <1>9
    <2>4. QED
      BY <2>1, <2>2, <2>3, ScoresAssumption
  <1>1. ASSUME own.type # "similarity"
        PROVE  output.correct \in BOOLEAN /\ output.golden = record.hash[2]
    <2> DEFINE parsed == IF prepared.responses # NULL THEN ExtractLabel(response, prepared.responses)
                         ELSE IF Len(response) = 1 THEN response[1] ELSE Sentence
    <2>1. output = [kind |-> "classification", response |-> response, parsed |-> parsed,
                    golden |-> prepared.golden, correct |-> parsed = prepared.golden]
      BY <1>1, <1>3, <1>4, <1>5 DEF Evaluate
    <2> HIDE DEF parsed
    <2>2. output.golden = prepared.golden /\ output.correct = (parsed = prepared.golden)
      BY <2>1
    <2>3. record.hash[2] = prepared.golden
      BY <1>2 DEF StoredAs, RowInputHash, prepared
    <2>4. QED
      BY <2>2, <2>3
  <1>10. QED
    BY <1>1, <1>7, <1>8, <1>9

LEMMA OutputsAreJudged ==
    ASSUME SettingsInv, OutputsInv, NEW i \in Stored,
           NEW output, output = Decode(outputs[i].output),
           NEW own, own = outputs[i].by.style
    PROVE  /\ output.kind = (IF own.type = "similarity" THEN "similarity" ELSE "classification")
           /\ own.type = "multiple_choice" =>
                 /\ own.labels \in Seq(Strings) /\ output.response \in Seq(Strings)
                 /\ output.golden \in Elements(own.labels)
                 /\ output.parsed = ExtractLabel(output.response, own.labels)
                 /\ output.correct <=> output.parsed = output.golden
           /\ own.type # "similarity" => output.correct \in BOOLEAN /\ output.golden = outputs[i].hash[2]
           /\ own.type = "similarity" => output.score \in Int
  <1>1. PICK batch \in Batches : IsOutput(outputs[i], i, batch, hash)
    BY DEF OutputsInv, OutputInv
  <1>2. QED
    BY <1>1, RecordsAreJudged

(* Answers are judged by the last label among their last words (extract_label). *)
THEOREM LastLabelsCount == Spec => []AnswersAreJudgedByTheirLastLabel
  <1>1. SettingsInv /\ OutputsInv /\ ProgressInv => AnswersAreJudgedByTheirLastLabel
    <2> SUFFICES ASSUME SettingsInv, OutputsInv, ProgressInv PROVE AnswersAreJudgedByTheirLastLabel
      OBVIOUS
    <2>1. TypeOK
      <3>1. ASSUME NEW i \in Stored
            PROVE  LET output == Decode(outputs[i].output)
                       style == outputs[i].by.style
                   IN  /\ output.kind = (IF style.type = "similarity" THEN "similarity" ELSE "classification")
                       /\ style.type = "multiple_choice" =>
                             {output.golden, output.parsed} \subseteq Elements(style.labels) \cup {NULL}
        BY OutputsAreJudged, LastLabelIsExtracted
      <3>2. QED
        BY <3>1 DEF TypeOK, SettingsInv, ProgressInv
    <2>2. ASSUME NEW i \in Stored, outputs[i].by.style.type = "multiple_choice",
                 Recognisable(outputs[i].by.style.labels)
          PROVE  LET output == Decode(outputs[i].output)
                     words == output.response
                     labels == LabelWords(words, outputs[i].by.style.labels)
                 IN  output.correct <=> \E k \in labels : Means(words[k], output.golden) /\ \A j \in labels : j <= k
      BY <2>2, OutputsAreJudged, LastLabelIsExtracted
    <2>3. QED
      BY <2>1, <2>2 DEF AnswersAreJudgedByTheirLastLabel, LabelWords, Means
  <1>2. QED
    BY <1>1, Configured, OutputsAreKept, RunsProgress, PTL
=============================================================================
