------------------------- MODULE BenchmarkLifeProofs -------------------------
(***************************************************************************)
(* Proofs about BenchmarkLife, for any registry, configuration, prompts    *)
(* and inputs, and any number of commands, runs and changes.               *)
(*                                                                         *)
(* LifeInv is inductive on its own and shows that prompts are authentic;   *)
(* AddsAreWhole is inductive under it, if no prompt of the registry is     *)
(* empty; PinnedAttempts (remote runs) and LocalAttempts (local ones) are  *)
(* inductive under both, and show that a run keeps its benchmark.          *)
(***************************************************************************)
EXTENDS BenchmarkLife, FiniteSetTheorems, SequenceTheorems, TLAPS

(* The files of a response whose digests are right, and the benchmark made of them: it
   depends on the response alone, whatever was served. *)
Honest(resources) ==
    [path \in {resources[i].path : i \in DOMAIN resources} |->
        resources[CHOOSE i \in DOMAIN resources : resources[i].path = path].sha256]
RemoteOf(response) == Assemble("b", response, Honest(response.resources))
Sound(response) ==
    /\ ValidateResources(response.resources, Plaintext)
    /\ \A i \in DOMAIN response.resources : response.resources[i].sha256 \in DOMAIN SizeOf
Remotes == {RemoteOf(response) : response \in {r \in Responses : Sound(r)}} \ {NULL}

(* The types of what commands and runs keep. *)
AtType == {"idle", "resolve", "download", "prompt", "write", "append", "prepare", "create",
           "restart", "execute", "work"}
Flag == {NULL} \cup BOOLEAN
Assembled == [limit: Limit, prompt: {NULL, "bundle"} \cup PromptFile]
ProcRecord ==
    [cmd: {NULL, "add", "run", "resume"}, at: AtType, id: {NULL} \cup Nat,
     version: {NULL} \cup {r.version : r \in Responses}, section: {NULL} \cup SectionRecord,
     response: {NULL} \cup Responses, remote: {NULL} \cup Remotes,
     input: {NULL} \cup InputRecord \cup Assembled, text: {NULL} \cup Text,
     pin: {NULL} \cup PinRecord, file: {NULL} \cup File, plain: Flag,
     since: {NULL} \cup Nat]
Ran == [text: {NULL} \cup Text, limit: Limit, from: {NULL} \cup {r.sha256 : r \in Responses}]
RunRecord ==
    [status: {"running", "completed", "failed"}, input: Assembled, pin: {NULL} \cup PinRecord,
     ran: SUBSET Ran, plain: Flag, since: {NULL} \cup Nat]

LifeType ==
    /\ registry \in [Version -> {NULL} \cup Responses]
    /\ toml \in [File -> {NULL} \cup Seq(SectionRecord)]
    /\ files \in [PromptFile -> {NULL} \cup Text]
    /\ changes \in 0..MaxChanges
    /\ runs \in Seq(RunRecord)
    /\ proc \in [Proc -> ProcRecord]

(* What a command has in its hands at which point. *)
Remote(P) == P.section = NULL
InHand(P) ==
    /\ P.at = "idle" => P = Idle
    /\ P.at # "idle" => P.cmd # NULL /\ P.since \in 0..changes
    /\ P.at \in {"prompt", "write", "append", "prepare"} => P.remote \in Remotes
    /\ P.at = "download" => P.response \in Responses
                            /\ ValidateResources(P.response.resources, Plaintext)
    /\ P.at \in {"prompt", "write", "append"} => P.cmd = "add"
    /\ P.at = "prepare" => P.cmd \in {"run", "resume"}
    /\ P.at = "create" => P.cmd = "run"
    /\ P.at = "restart" => P.cmd = "resume"
    /\ P.cmd = "add" => P.file \in File /\ P.at \in {"resolve", "download", "prompt", "write", "append"}
    /\ P.cmd # "resume" /\ P.at \notin {"execute", "work"} => P.id = NULL
    /\ P.cmd = "resume" \/ P.at \in {"execute", "work"} => P.id \in 1..Len(runs)

(* Its input: as it was given, then as it was assembled. *)
InputInHand(P) ==
    /\ P.cmd = "run" /\ P.at \in {"resolve", "download", "prepare"} => P.input \in InputRecord
    /\ P.cmd = "resume" \/ P.at \in {"create", "execute"} => P.input \in Assembled
    /\ (P.cmd = "resume" \/ P.at \in {"create", "execute"}) /\ Remote(P) =>
           P.input.prompt \in {"bundle"} \cup PromptFile
    /\ P.at \in {"create", "execute"} /\ ~Remote(P) =>
           (P.section.kind = "nocode" => P.input.prompt \in PromptFile)

(* A remote benchmark and its prompt are what the pin says. *)
Fits(P, pin) ==
    /\ pin \in PinRecord
    /\ P.remote \in Remotes /\ P.remote.sha256 = pin.sha256
    /\ P.text \in Text
    /\ P.text = IF pin.override = NULL THEN P.remote.text ELSE pin.override
PinInHand(P) ==
    /\ P.at \in {"resolve", "download", "prepare"} =>
           Remote(P) /\ (P.cmd = "resume" => runs[P.id].pin # NULL)
    /\ P.at = "create" => IF Remote(P) THEN Fits(P, P.pin) ELSE P.pin = NULL
    /\ P.at \in {"restart", "execute"} =>
           IF Remote(P) THEN Fits(P, runs[P.id].pin) ELSE runs[P.id].pin = NULL

Good(P) == InHand(P) /\ InputInHand(P) /\ PinInHand(P)
CommandsAreInOrder == \A p \in Proc : Good(proc[p])

(* What a run has evaluated is of its origin, and its prompt authentic. *)
Authentic(x, pin) ==
    /\ x.from = IF pin = NULL THEN NULL ELSE pin.sha256
    /\ x.text # NULL => x.limit \in 1..Size
    /\ pin # NULL => IF pin.override = NULL THEN x.text \in Declared ELSE x.text = pin.override
RunIsAuthentic(run) ==
    /\ \A x \in run.ran : Authentic(x, run.pin)
    /\ run.since \in 0..changes
    /\ run.pin # NULL => run.input.prompt \in {"bundle"} \cup PromptFile
RunsAreAuthentic == \A r \in 1..Len(runs) : RunIsAuthentic(runs[r])

(* Every run that will be created has its place. *)
Creating == {p \in Proc : proc[p].cmd = "run" /\ proc[p].id = NULL}
RunsHaveRoom == Len(runs) + Cardinality(Creating) <= MaxRuns

(* The inductive invariant. *)
LifeInv ==
    /\ LifeType
    /\ CommandsAreInOrder
    /\ RunsAreAuthentic
    /\ RunsHaveRoom

-----------------------------------------------------------------------------
(* What is in a remote benchmark: its prompt is a content the registry has declared. *)
LEMMA RemoteFacts ==
    ASSUME NEW m \in Remotes
    PROVE  /\ m # NULL
           /\ m.text \in Declared /\ m.text \in DOMAIN SizeOf /\ m.limit \in Limit
           /\ m.version \in {r.version : r \in Responses}
           /\ m.sha256 \in {r.sha256 : r \in Responses}
<1>1. PICK response \in Responses : Sound(response) /\ m = RemoteOf(response) /\ m # NULL
    BY DEF Remotes
<1> DEFINE rs == response.resources
           down == Honest(rs)
           path == (CHOOSE r \in {rs[i] : i \in DOMAIN rs} : r.kind = "definition").path
           def == DefinitionOf[down[path]]
           prompt == Parent(path) \o def.prompt
<1>2. /\ def # NULL /\ \E i \in DOMAIN rs : rs[i].path = prompt
      /\ m = [limit |-> def.limit, text |-> down[prompt],
              version |-> response.version, sha256 |-> response.sha256]
    BY <1>1 DEF RemoteOf, Assemble
<1>3. /\ \A i \in DOMAIN rs : rs[i].sha256 \in DOMAIN SizeOf
      /\ Cardinality({i \in DOMAIN rs : rs[i].kind = "definition"}) = 1
    BY <1>1 DEF Sound, ValidateResources
<1>4. ASSUME NEW i \in DOMAIN rs
      PROVE  \E j \in DOMAIN rs : down[rs[i].path] = rs[j].sha256
    <2> DEFINE j == CHOOSE k \in DOMAIN rs : rs[k].path = rs[i].path
    <2>1. j \in DOMAIN rs
        OBVIOUS
    <2>2. down[rs[i].path] = rs[j].sha256
        BY DEF Honest
    <2> QED BY <2>1, <2>2
<1>5. \E i \in DOMAIN rs : path = rs[i].path
    <2> DEFINE definitions == {i \in DOMAIN rs : rs[i].kind = "definition"}
    <2>1. Cardinality(definitions) = 1
        BY <1>3
    <2>2. definitions # {}
        <3> HIDE DEF definitions
        <3> QED BY <2>1, FS_EmptySet
    <2>3. \E r \in {rs[i] : i \in DOMAIN rs} : r.kind = "definition"
        BY <2>2
    <2> QED BY <2>3
<1>6. down[path] \in DOMAIN SizeOf
    BY <1>3, <1>4, <1>5
<1>7. m.limit \in Limit
    <2>1. \A c \in DOMAIN SizeOf : DefinitionOf[c] # NULL => DefinitionOf[c].limit \in Limit
        BY DataAssumption
    <2> HIDE DEF path, down
    <2> QED BY <1>2, <1>6, <2>1
<1>8. PICK j \in DOMAIN rs : m.text = rs[j].sha256
    BY <1>2, <1>4
<1>9. m.text \in Declared /\ m.text \in DOMAIN SizeOf
    <2>1. m.text \in {rs[i].sha256 : i \in DOMAIN rs}
        BY <1>8
    <2> QED BY <1>3, <1>8, <2>1 DEF Declared
<1>10. m.version = response.version /\ m.sha256 = response.sha256
    BY <1>2
<1> HIDE DEF def, prompt, down
<1> QED BY <1>1, <1>7, <1>9, <1>10

(* A response whose downloads all pass is assembled to the benchmark of its digests. *)
LEMMA DownloadsAreHonest ==
    ASSUME NEW response \in Responses, ValidateResources(response.resources, Plaintext),
           NEW served \in Served(response.resources),
           \A i \in DOMAIN response.resources : Verify(response.resources[i], served[i]),
           Assemble("b", response, Download(response.resources, served)) # NULL
    PROVE  Assemble("b", response, Download(response.resources, served)) \in Remotes
<1> DEFINE rs == response.resources
<1>1. \A i \in DOMAIN rs : served[i] = rs[i].sha256 /\ served[i] \in DOMAIN SizeOf
    BY DEF Served, Verify
<1>2. \A path \in {rs[i].path : i \in DOMAIN rs} :
          (CHOOSE i \in DOMAIN rs : rs[i].path = path) \in DOMAIN rs
    OBVIOUS
<1>3. Download(rs, served) = Honest(rs)
    <2>1. ASSUME NEW path \in {rs[i].path : i \in DOMAIN rs}
          PROVE  served[CHOOSE i \in DOMAIN rs : rs[i].path = path]
                   = rs[CHOOSE i \in DOMAIN rs : rs[i].path = path].sha256
        BY <1>1, <1>2
    <2> HIDE DEF rs
    <2> QED BY <2>1 DEF Download, Honest
<1>4. Sound(response)
    BY <1>1 DEF Sound
<1> HIDE DEF rs
<1> QED BY <1>3, <1>4 DEF Remotes, RemoteOf, rs

(* What the registry answers is one of its responses. *)
LEMMA AnswersAreResponses ==
    ASSUME LifeType, NEW version, NEW response \in Accepted(version)
    PROVE  response \in Responses /\ ValidateResources(response.resources, Plaintext)
<1>1. PICK v \in Version : registry[v] # NULL /\ response = registry[v]
    BY DEF Accepted, Asked, Published
<1> QED BY <1>1 DEF LifeType, Accepted

(* The section that is loaded stands in a file of the configuration. *)
LEMMA LoadedFacts ==
    ASSUME LifeType, LoadedSection # NULL
    PROVE  /\ LoadedSection \in SectionRecord
           /\ \E f \in ConfigFiles : toml[f] # <<>> /\ LoadedSection = toml[f][1]
<1>1. PICK f \in ConfigFiles : toml[f] # <<>> /\ LoadedSection = toml[f][1]
    BY DEF LoadedSection
<1>2. toml[f] \in Seq(SectionRecord)
    BY DEF LifeType, ConfigFiles
<1> QED BY <1>1, <1>2

-----------------------------------------------------------------------------
(* What is good for a command stays so while runs are added and keep their pins. *)
Grows ==
    /\ Len(runs) <= Len(runs')
    /\ \A r \in 1..Len(runs) : runs'[r].pin = runs[r].pin
    /\ changes <= changes'

LEMMA LengthsAndChanges == LifeType => Len(runs) \in Nat /\ changes \in Nat
  BY BoundsAssumption DEF LifeType

LEMMA GoodStays ==
    ASSUME LifeType, LifeType', Grows, NEW P, Good(P)
    PROVE  Good(P)'
<1>1. Len(runs) \in Nat /\ changes \in Nat /\ Len(runs') \in Nat /\ changes' \in Nat
    BY LengthsAndChanges, BoundsAssumption DEF LifeType
<1>2. InHand(P)'
    BY <1>1 DEF Good, InHand, Grows
<1>3. InputInHand(P)'
    BY DEF Good, InputInHand, Remote
<1>4. PinInHand(P)'
    <2>1. P.cmd = "resume" \/ P.at \in {"execute", "work"} => P.id \in 1..Len(runs)
        BY DEF Good, InHand
    <2>2. P.at = "restart" => P.cmd = "resume"
        BY DEF Good, InHand
    <2>3. P.cmd = "resume" \/ P.at \in {"execute", "work"} => runs'[P.id].pin = runs[P.id].pin
        BY <2>1 DEF Grows
    <2> QED BY <2>2, <2>3 DEF Good, PinInHand, Fits, Remote
<1> QED BY <1>2, <1>3, <1>4 DEF Good

LEMMA RoomIsKept ==
    ASSUME LifeInv, Creating' \subseteq Creating, Len(runs') = Len(runs)
    PROVE  RunsHaveRoom'
<1>1. IsFiniteSet(Creating)
    BY BoundsAssumption, FS_Subset DEF Creating
<1>2. /\ Cardinality(Creating) \in Nat /\ Cardinality(Creating') \in Nat
      /\ Cardinality(Creating') <= Cardinality(Creating)
    BY <1>1, FS_Subset, FS_CardinalityType
<1> QED BY <1>2, LengthsAndChanges, BoundsAssumption DEF LifeInv, RunsHaveRoom

(* A command goes on and leaves the runs alone. *)
LEMMA CommandMoves ==
    ASSUME LifeInv, UNCHANGED <<changes, runs>>,
           registry' = registry, toml' \in [File -> {NULL} \cup Seq(SectionRecord)],
           files' \in [PromptFile -> {NULL} \cup Text],
           NEW p \in Proc, NEW new \in ProcRecord, proc' = [proc EXCEPT ![p] = new],
           Good(new),
           new.cmd = "run" /\ new.id = NULL => p \in Creating \/ RoomForRun
    PROVE  LifeInv'
<1>1. LifeType'
    BY DEF LifeInv, LifeType
<1>2. Grows
    <2>1. Len(runs) \in Nat /\ changes \in Nat
        BY LengthsAndChanges DEF LifeInv
    <2> QED BY <2>1 DEF Grows
<1>3. CommandsAreInOrder'
    <2>1. Good(new)'
        BY <1>1, <1>2, GoodStays DEF LifeInv
    <2> SUFFICES ASSUME NEW q \in Proc PROVE Good(proc[q])'
        BY DEF CommandsAreInOrder
    <2>2. CASE q = p
        <3>1. proc'[q] = new
            BY <2>2 DEF LifeInv, LifeType
        <3> QED BY <2>1, <3>1 DEF Good, InHand, InputInHand, PinInHand, Fits, Remote
    <2>3. CASE q # p
        <3>1. proc'[q] = proc[q] /\ Good(proc[q])
            BY <2>3 DEF LifeInv, LifeType, CommandsAreInOrder
        <3>2. PICK P : P = proc[q]
            OBVIOUS
        <3>3. Good(P)'
            BY <1>1, <1>2, <3>1, <3>2, GoodStays DEF LifeInv
        <3> QED BY <3>1, <3>2, <3>3 DEF Good, InHand, InputInHand, PinInHand, Fits, Remote
    <2> QED BY <2>2, <2>3
<1>4. RunsAreAuthentic'
    BY DEF LifeInv, RunsAreAuthentic, RunIsAuthentic
<1>5. RunsHaveRoom'
    <2>1. \A q \in Proc : q # p => proc'[q] = proc[q]
        BY DEF LifeInv, LifeType
    <2>2. proc'[p] = new
        BY DEF LifeInv, LifeType
    <2>3. CASE p \in Creating \/ ~(new.cmd = "run" /\ new.id = NULL)
        <3>1. Creating' \subseteq Creating
            BY <2>1, <2>2, <2>3 DEF Creating
        <3> QED BY <3>1, RoomIsKept
    <2>4. CASE RoomForRun /\ p \notin Creating
        <3>1. Creating' \subseteq Creating \cup {p}
            BY <2>1, <2>2 DEF Creating
        <3>2. IsFiniteSet(Creating)
            BY BoundsAssumption, FS_Subset DEF Creating
        <3>3. /\ IsFiniteSet(Creating \cup {p})
              /\ Cardinality(Creating \cup {p}) = Cardinality(Creating) + 1
            BY <2>4, <3>2, FS_AddElement
        <3>4. /\ Cardinality(Creating) \in Nat /\ Cardinality(Creating') \in Nat
              /\ Cardinality(Creating') <= Cardinality(Creating) + 1
            BY <3>1, <3>2, <3>3, FS_Subset, FS_CardinalityType
        <3>5. Len(runs) + Cardinality(Creating) < MaxRuns
            BY <2>4 DEF RoomForRun, Creating
        <3> QED BY <3>4, <3>5, LengthsAndChanges, BoundsAssumption DEF LifeInv, RunsHaveRoom
    <2> QED BY <2>3, <2>4
<1> QED BY <1>1, <1>3, <1>4, <1>5 DEF LifeInv

(* A command goes on and writes one run. *)
LEMMA RunMoves ==
    ASSUME LifeInv, UNCHANGED world,
           NEW p \in Proc, NEW new \in ProcRecord, proc' = [proc EXCEPT ![p] = new],
           Good(new), ~(new.cmd = "run" /\ new.id = NULL),
           NEW r \in 1..Len(runs), NEW row \in RunRecord, runs' = [runs EXCEPT ![r] = row],
           row.pin = runs[r].pin, RunIsAuthentic(row)
    PROVE  LifeInv'
<1>1. /\ runs' \in Seq(RunRecord) /\ Len(runs') = Len(runs)
      /\ \A s \in 1..Len(runs) : runs'[s] = IF s = r THEN row ELSE runs[s]
    BY ExceptSeq DEF LifeInv, LifeType
<1>2. LifeType'
    BY <1>1 DEF LifeInv, LifeType, world
<1>3. Grows
    <2>1. Len(runs) \in Nat /\ changes \in Nat
        BY LengthsAndChanges DEF LifeInv
    <2> QED BY <1>1, <2>1 DEF Grows, world
<1>4. CommandsAreInOrder'
    <2>1. Good(new)'
        BY <1>2, <1>3, GoodStays DEF LifeInv
    <2> SUFFICES ASSUME NEW q \in Proc PROVE Good(proc[q])'
        BY DEF CommandsAreInOrder
    <2>2. CASE q = p
        <3>1. proc'[q] = new
            BY <2>2 DEF LifeInv, LifeType
        <3> QED BY <2>1, <3>1 DEF Good, InHand, InputInHand, PinInHand, Fits, Remote
    <2>3. CASE q # p
        <3>1. proc'[q] = proc[q] /\ Good(proc[q])
            BY <2>3 DEF LifeInv, LifeType, CommandsAreInOrder
        <3>2. PICK P : P = proc[q]
            OBVIOUS
        <3>3. Good(P)'
            BY <1>2, <1>3, <3>1, <3>2, GoodStays DEF LifeInv
        <3> QED BY <3>1, <3>2, <3>3 DEF Good, InHand, InputInHand, PinInHand, Fits, Remote
    <2> QED BY <2>2, <2>3
<1>5. RunsAreAuthentic'
    <2> SUFFICES ASSUME NEW s \in 1..Len(runs) PROVE RunIsAuthentic(runs[s])'
        BY <1>1 DEF RunsAreAuthentic
    <2>1. runs'[s] = row \/ runs'[s] = runs[s]
        BY <1>1
    <2>2. RunIsAuthentic(runs[s])
        BY DEF LifeInv, RunsAreAuthentic
    <2> QED BY <2>1, <2>2 DEF RunIsAuthentic, world
<1>6. RunsHaveRoom'
    <2>1. \A q \in Proc : q # p => proc'[q] = proc[q]
        BY DEF LifeInv, LifeType
    <2>2. proc'[p] = new
        BY DEF LifeInv, LifeType
    <2>3. Creating' \subseteq Creating
        BY <2>1, <2>2 DEF Creating
    <2> QED BY <1>1, <2>3, RoomIsKept
<1> QED BY <1>2, <1>4, <1>5, <1>6 DEF LifeInv

LEMMA IdleIsGood == LifeInv => Idle \in ProcRecord /\ Good(Idle) /\ Idle.cmd # "run"
<1> SUFFICES ASSUME LifeInv PROVE Idle \in ProcRecord /\ Good(Idle) /\ Idle.cmd # "run"
    OBVIOUS
<1>1. Idle \in ProcRecord
    BY DEF Idle, ProcRecord, AtType, Flag
<1>2. Idle.cmd # "add" /\ Idle.cmd # "run" /\ Idle.cmd # "resume" /\ Idle.at = "idle" /\ Idle.id = NULL
    BY NullAssumption DEF Idle
<1>3. InHand(Idle)
    BY <1>2 DEF InHand
<1>4. InputInHand(Idle) /\ PinInHand(Idle)
    BY <1>2 DEF InputInHand, PinInHand
<1> QED BY <1>1, <1>2, <1>3, <1>4 DEF Good

(* Whether an input is that of a section, without overrides. *)
FromSection(input, section) ==
    input.limit = section.limit /\ (section.kind = "nocode" => input.prompt = section.prompt)

(* A command goes on and touches neither the configuration nor a run: what it may have in
   its hands then. *)
Moves(p, new) ==
    /\ UNCHANGED <<world, runs>> /\ proc' = [proc EXCEPT ![p] = new]
    /\ Good(new)
    /\ new.cmd = "run" /\ new.id = NULL => p \in Creating \/ RoomForRun
    /\ new.at \notin {"write", "append", "execute", "work"}
    /\ new.id # NULL =>
          \/ /\ new.input = runs[new.id].input
             /\ Remote(new) \/ (Loadable /\ new.section = LoadedSection)
          \/ /\ new.id = proc[p].id /\ new.input = proc[p].input
             /\ Remote(new) /\ proc[p].at \in {"resolve", "download", "prepare"}
    /\ new.at = "create" /\ ~Remote(new) =>
          /\ Loadable /\ new.section = LoadedSection
          /\ new.plain = TRUE => FromSection(new.input, new.section)

LEMMA MovesKeep ==
    ASSUME LifeInv, NEW p \in Proc, NEW new \in ProcRecord, Moves(p, new)
    PROVE  LifeInv'
<1>1. /\ toml' \in [File -> {NULL} \cup Seq(SectionRecord)] /\ files' \in [PromptFile -> {NULL} \cup Text]
      /\ registry' = registry /\ UNCHANGED <<changes, runs>>
    BY DEF LifeInv, LifeType, world, Moves
<1>2. /\ proc' = [proc EXCEPT ![p] = new] /\ Good(new)
      /\ new.cmd = "run" /\ new.id = NULL => p \in Creating \/ RoomForRun
    BY DEF Moves
<1> QED BY <1>1, <1>2, CommandMoves

LEMMA StopMoves ==
    ASSUME LifeInv, NEW p \in Proc, Stop(p), UNCHANGED <<world, runs>>
    PROVE  \E new \in ProcRecord : Moves(p, new)
<1>1. proc' = [proc EXCEPT ![p] = Idle]
    BY DEF Stop
<1>2. Idle.id = NULL /\ Idle.at = "idle"
    BY DEF Idle
<1>3. Moves(p, Idle)
    BY <1>1, <1>2, IdleIsGood DEF Moves
<1> QED BY <1>3, IdleIsGood

-----------------------------------------------------------------------------
(* The actions of this kind. *)
LEMMA CommandsAreNoNull ==
    "add" # NULL /\ "run" # NULL /\ "resume" # NULL /\ NULL \notin Nat /\ NULL \notin Text
  BY NullAssumption

LEMMA BeginFacts ==
    ASSUME LifeInv, NEW cmd \in {"add", "run", "resume"}, NEW at \in AtType
    PROVE  /\ \E begun \in ProcRecord :
                 /\ begun = Begin(cmd, at)
                 /\ begun.cmd = cmd /\ begun.at = at /\ begun.since = changes
                 /\ begun.id = NULL /\ begun.section = NULL /\ begun.pin = NULL
           /\ changes \in 0..changes /\ changes \in Nat
<1>1. changes \in Nat
    BY LengthsAndChanges DEF LifeInv
<1>2. PICK idle \in ProcRecord : idle = Idle /\ idle.id = NULL /\ idle.section = NULL /\ idle.pin = NULL
    BY IdleIsGood DEF Idle
<1>3. PICK begun : begun = [idle EXCEPT !.cmd = cmd, !.at = at, !.since = changes]
    OBVIOUS
<1>4. begun = Begin(cmd, at)
    BY <1>2, <1>3, Zenon DEF Begin
<1>5. begun \in ProcRecord
    <2>1. cmd \in {NULL, "add", "run", "resume"} /\ changes \in {NULL} \cup Nat
        BY <1>1
    <2> QED BY <1>3, <2>1 DEF ProcRecord
<1>6. /\ begun.cmd = cmd /\ begun.at = at /\ begun.since = changes
      /\ begun.id = NULL /\ begun.section = NULL /\ begun.pin = NULL
    BY <1>2, <1>3 DEF ProcRecord
<1> QED BY <1>1, <1>4, <1>5, <1>6

LEMMA StartAddMoves ==
    ASSUME LifeInv, NEW p \in Proc, StartAdd(p)
    PROVE  \E new \in ProcRecord : Moves(p, new)
<1>0. PICK begun \in ProcRecord :
          /\ begun = Begin("add", "resolve")
          /\ begun.cmd = "add" /\ begun.at = "resolve" /\ begun.since = changes
          /\ begun.id = NULL /\ begun.section = NULL /\ begun.pin = NULL
          /\ changes \in 0..changes /\ changes \in Nat
    BY BeginFacts DEF AtType
<1> DEFINE file == IF ConfigFiles = {} THEN "quantiles.toml" ELSE CHOOSE f \in ConfigFiles : TRUE
           new == [begun EXCEPT !.file = file]
<1>1. file \in File
    BY DEF ConfigFiles, File
<1>2. /\ new \in ProcRecord /\ new.cmd = "add" /\ new.at = "resolve" /\ new.id = NULL
      /\ new.since = changes /\ new.file \in File /\ new.section = NULL
    <2> HIDE DEF file
    <2> QED BY <1>1, <1>0 DEF ProcRecord, AtType
<1>3. proc' = [proc EXCEPT ![p] = new] /\ UNCHANGED <<world, runs>>
    BY <1>0 DEF StartAdd
<1> HIDE DEF new
<1>4. Good(new)
    BY <1>2, <1>0, CommandsAreNoNull DEF Good, InHand, InputInHand, PinInHand, Remote, AtType
<1> QED BY <1>2, <1>3, <1>4, CommandsAreNoNull DEF Moves

LEMMA StartRemoteRunMoves ==
    ASSUME LifeInv, NEW p \in Proc, StartRemoteRun(p)
    PROVE  \E new \in ProcRecord : Moves(p, new)
<1>0. PICK begun \in ProcRecord :
          /\ begun = Begin("run", "resolve")
          /\ begun.cmd = "run" /\ begun.at = "resolve" /\ begun.since = changes
          /\ begun.id = NULL /\ begun.section = NULL /\ begun.pin = NULL
          /\ changes \in 0..changes /\ changes \in Nat
    BY BeginFacts DEF AtType
<1>1. PICK input \in Inputs :
          proc' = [proc EXCEPT ![p] = [Begin("run", "resolve") EXCEPT !.input = input]]
    BY DEF StartRemoteRun
<1>2. input \in InputRecord
    BY DataAssumption
<1> DEFINE new == [begun EXCEPT !.input = input]
<1>3. /\ new \in ProcRecord /\ new.cmd = "run" /\ new.at = "resolve" /\ new.id = NULL
      /\ new.since = changes /\ new.input = input /\ new.section = NULL
    BY <1>2, <1>0 DEF ProcRecord, AtType
<1>4. proc' = [proc EXCEPT ![p] = new] /\ UNCHANGED <<world, runs>> /\ RoomForRun
    BY <1>0, <1>1 DEF StartRemoteRun
<1> HIDE DEF new
<1>5. Good(new)
    BY <1>2, <1>3, <1>0, CommandsAreNoNull DEF Good, InHand, InputInHand, PinInHand, Remote, AtType
<1> QED BY <1>3, <1>4, <1>5 DEF Moves

(* What a configured run is given. *)
LEMMA ConfiguredInput ==
    ASSUME NEW section \in SectionRecord, NEW input \in InputRecord
    PROVE  /\ MergeInputs(section, input) \in Assembled
           /\ section.kind # "code" =>
                 /\ section.kind = "nocode" /\ section.prompt \in PromptFile
                 /\ Override(section, input) \in Assembled
                 /\ Override(section, input).prompt \in PromptFile
<1>1. /\ section.limit \in Limit /\ input.limit \in Limit
      /\ input.prompt \in {NULL} \cup PromptFile
    BY DEF SectionRecord, InputRecord
<1>2. section.kind # "code" => section.kind = "nocode" /\ section.prompt \in PromptFile
    BY DEF SectionRecord
<1> QED BY <1>1, <1>2 DEF MergeInputs, Override, Assembled

LEMMA PlainRunRecord ==
    ASSUME NEW P \in ProcRecord, NEW s \in SectionRecord, NEW plain \in Flag, NEW g \in Assembled
    PROVE  [P EXCEPT !.section = s, !.plain = plain, !.input = g] \in ProcRecord
  BY DEF ProcRecord

LEMMA StartConfiguredRunMoves ==
    ASSUME LifeInv, NEW p \in Proc, StartConfiguredRun(p)
    PROVE  \E new \in ProcRecord : Moves(p, new)
<1>0. PICK begun \in ProcRecord :
          /\ begun = Begin("run", "create")
          /\ begun.cmd = "run" /\ begun.at = "create" /\ begun.since = changes
          /\ begun.id = NULL /\ begun.section = NULL /\ begun.pin = NULL
          /\ changes \in 0..changes /\ changes \in Nat
    BY BeginFacts DEF AtType
<1> DEFINE section == LoadedSection
<1>1. section # NULL /\ section \in SectionRecord
    BY LoadedFacts DEF StartConfiguredRun, LifeInv
<1> HIDE DEF section
<1>2. PICK input \in Inputs :
          proc' = [proc EXCEPT ![p] =
                     [Begin("run", "create") EXCEPT
                        !.section = section, !.plain = (input = NoInput),
                        !.input = IF section.kind = "code" THEN MergeInputs(section, input)
                                  ELSE Override(section, input)]]
    BY DEF StartConfiguredRun, section
<1>3. input \in InputRecord
    BY DataAssumption
<1> DEFINE given == IF section.kind = "code" THEN MergeInputs(section, input)
                    ELSE Override(section, input)
           plain == input = NoInput
           new == [begun EXCEPT !.section = section, !.plain = plain, !.input = given]
<1>4. given \in Assembled /\ (section.kind = "nocode" => given.prompt \in PromptFile)
    BY <1>1, <1>3, ConfiguredInput
<1>8. plain = TRUE => FromSection(given, section)
    BY <1>1 DEF FromSection, MergeInputs, Override, NoInput
<1>5. proc' = [proc EXCEPT ![p] = new] /\ UNCHANGED <<world, runs>> /\ RoomForRun /\ Loadable
    BY <1>0, <1>2 DEF StartConfiguredRun
<1> HIDE DEF given
<1>6. /\ new \in ProcRecord /\ new.cmd = "run" /\ new.at = "create" /\ new.id = NULL
      /\ new.since = changes /\ new.input = given /\ new.section = section /\ new.pin = NULL
    <2>1. plain \in Flag
        BY Zenon DEF Flag
    <2>2. new \in ProcRecord
        <3> HIDE DEF plain
        <3> QED BY <1>0, <1>1, <1>4, <2>1, PlainRunRecord, Zenon
    <2> QED BY <2>2, <1>0 DEF ProcRecord
<1> HIDE DEF new
<1>7. Good(new)
    BY <1>1, <1>4, <1>6, <1>0, CommandsAreNoNull DEF Good, InHand, InputInHand, PinInHand, Remote, AtType
<1>9. new.plain = plain
    BY <1>0 DEF ProcRecord, new
<1> HIDE DEF plain
<1> QED BY <1>5, <1>6, <1>7, <1>8, <1>9 DEF Moves, section

LEMMA StartResumeMoves ==
    ASSUME LifeInv, NEW p \in Proc, StartResume(p)
    PROVE  \E new \in ProcRecord : Moves(p, new)
<1>1. PICK r \in DOMAIN runs : PlanResume(p, r)
    BY DEF StartResume
<1>2. r \in 1..Len(runs) /\ r \in Nat /\ runs[r] \in RunRecord /\ RunIsAuthentic(runs[r])
    BY <1>1, LengthsAndChanges DEF LifeInv, LifeType, RunsAreAuthentic
<1>3. runs[r].input \in Assembled /\ runs[r].pin \in {NULL} \cup PinRecord
    BY <1>2 DEF RunRecord
<1>4. UNCHANGED <<world, runs>>
    BY DEF StartResume
<1>5. CASE runs[r].pin # NULL
    <2>0. PICK begun \in ProcRecord :
              /\ begun = Begin("resume", "resolve")
              /\ begun.cmd = "resume" /\ begun.at = "resolve" /\ begun.since = changes
              /\ begun.id = NULL /\ begun.section = NULL /\ begun.pin = NULL
              /\ changes \in 0..changes /\ changes \in Nat
        BY BeginFacts DEF AtType
    <2> DEFINE new == [begun EXCEPT
                         !.id = r, !.version = runs[r].pin.version, !.input = runs[r].input]
    <2>1. proc' = [proc EXCEPT ![p] = new]
        BY <1>1, <1>5, <2>0 DEF PlanResume
    <2>2. runs[r].pin.version \in {x.version : x \in Responses}
        BY <1>3, <1>5 DEF PinRecord
    <2>3. /\ new \in ProcRecord /\ new.cmd = "resume" /\ new.at = "resolve" /\ new.id = r
          /\ new.since = changes /\ new.input = runs[r].input /\ new.section = NULL
        BY <1>2, <1>3, <2>2, <2>0 DEF ProcRecord, AtType
    <2> HIDE DEF new
    <2>4. Good(new)
        BY <1>2, <1>3, <1>5, <2>3, <2>0, CommandsAreNoNull
           DEF Good, InHand, InputInHand, PinInHand, Remote, AtType, RunIsAuthentic
    <2> QED BY <1>4, <2>1, <2>3, <2>4, CommandsAreNoNull DEF Moves, Remote
<1>6. CASE runs[r].pin = NULL
    <2>0. PICK begun \in ProcRecord :
              /\ begun = Begin("resume", "restart")
              /\ begun.cmd = "resume" /\ begun.at = "restart" /\ begun.since = changes
              /\ begun.id = NULL /\ begun.section = NULL /\ begun.pin = NULL
              /\ changes \in 0..changes /\ changes \in Nat
        BY BeginFacts DEF AtType
    <2> DEFINE section == LoadedSection
    <2>9. section # NULL /\ section \in SectionRecord
        BY <1>1, <1>6, LoadedFacts DEF PlanResume, LifeInv
    <2> DEFINE new == [begun EXCEPT
                         !.id = r, !.section = section, !.input = runs[r].input]
    <2>1. proc' = [proc EXCEPT ![p] = new]
        BY <1>1, <1>6, <2>0 DEF PlanResume
    <2> HIDE DEF section
    <2>3. /\ new \in ProcRecord /\ new.cmd = "resume" /\ new.at = "restart" /\ new.id = r
          /\ new.since = changes /\ new.input = runs[r].input /\ new.section = section
        BY <1>2, <1>3, <2>9, <2>0 DEF ProcRecord, AtType
    <2> HIDE DEF new
    <2>4. Good(new)
        BY <1>2, <1>3, <1>6, <2>9, <2>3, <2>0, CommandsAreNoNull
           DEF Good, InHand, InputInHand, PinInHand, Remote, AtType
    <2> QED BY <1>1, <1>4, <1>6, <2>1, <2>3, <2>4, CommandsAreNoNull DEF Moves, PlanResume, section
<1> QED BY <1>5, <1>6

LEMMA InOrder ==
    ASSUME LifeInv, NEW p \in Proc
    PROVE  /\ proc[p] \in ProcRecord /\ Good(proc[p]) /\ proc \in [Proc -> ProcRecord]
           /\ \E P \in ProcRecord : P = proc[p]
  BY DEF LifeInv, LifeType, CommandsAreInOrder

LEMMA ResolveMoves ==
    ASSUME LifeInv, NEW p \in Proc, Resolve(p)
    PROVE  \E new \in ProcRecord : Moves(p, new)
<1>1. UNCHANGED <<world, runs>> /\ proc[p].at = "resolve"
    BY DEF Resolve
<1>2. CASE Stop(p)
    BY <1>1, <1>2, StopMoves
<1>3. ASSUME NEW response \in Accepted(proc[p].version),
             proc' = [proc EXCEPT ![p].at = "download", ![p].response = response]
      PROVE  \E new \in ProcRecord : Moves(p, new)
    <2>1. response \in Responses /\ ValidateResources(response.resources, Plaintext)
        BY AnswersAreResponses DEF LifeInv
    <2>0. PICK P \in ProcRecord : P = proc[p]
        BY InOrder
    <2> DEFINE new == [P EXCEPT !.at = "download", !.response = response]
    <2>2. new \in ProcRecord
        <3>1. "download" \in AtType /\ response \in {NULL} \cup Responses
            BY <2>1 DEF AtType
        <3> QED BY <3>1 DEF ProcRecord
    <2>3. /\ new.at = "download" /\ new.response = response /\ new.cmd = proc[p].cmd
          /\ new.id = proc[p].id /\ new.since = proc[p].since /\ new.file = proc[p].file
          /\ new.section = proc[p].section /\ new.input = proc[p].input
        BY <2>0 DEF ProcRecord
    <2>4. proc' = [proc EXCEPT ![p] = new]
        BY <1>3, <2>0, InOrder
    <2> HIDE DEF new
    <2>5. Good(new)
        BY <1>1, <2>1, <2>3, InOrder DEF Good, InHand, InputInHand, PinInHand, Remote
    <2>6. new.cmd = "run" /\ new.id = NULL => p \in Creating
        BY <2>3 DEF Creating
    <2>7. Remote(proc[p])
        BY <1>1, InOrder DEF Good, PinInHand
    <2> QED BY <1>1, <2>2, <2>3, <2>4, <2>5, <2>6, <2>7 DEF Moves, Remote
<1> QED BY <1>2, <1>3 DEF Resolve

LEMMA DownloadResourcesMoves ==
    ASSUME LifeInv, NEW p \in Proc, DownloadResources(p)
    PROVE  \E new \in ProcRecord : Moves(p, new)
<1>1. UNCHANGED <<world, runs>> /\ proc[p].at = "download"
    BY DEF DownloadResources
<1>2. CASE Stop(p)
    BY <1>1, <1>2, StopMoves
<1>3. CASE ~Stop(p)
    <2> DEFINE response == proc[p].response
               at == IF proc[p].cmd = "add" THEN "prompt" ELSE "prepare"
    <2>1. response \in Responses /\ ValidateResources(response.resources, Plaintext)
        BY <1>1, InOrder DEF Good, InHand
    <2>2. PICK served \in Served(response.resources) :
             LET remote == Assemble("b", response, Download(response.resources, served)) IN
             /\ \A i \in DOMAIN response.resources : Verify(response.resources[i], served[i])
             /\ remote # NULL
             /\ proc' = [proc EXCEPT ![p].remote = remote, ![p].response = NULL, ![p].at = at]
        BY <1>3 DEF DownloadResources
    <2>3. PICK remote \in Remotes :
             proc' = [proc EXCEPT ![p].remote = remote, ![p].response = NULL, ![p].at = at]
        BY <2>1, <2>2, DownloadsAreHonest
    <2>0. PICK P \in ProcRecord : P = proc[p]
        BY InOrder
    <2> DEFINE new == [P EXCEPT !.remote = remote, !.response = NULL, !.at = at]
    <2>4. new \in ProcRecord
        <3>1. at \in AtType /\ NULL \in {NULL} \cup Responses /\ remote \in {NULL} \cup Remotes
            BY DEF AtType
        <3> HIDE DEF at
        <3> QED BY <3>1 DEF ProcRecord
    <2>5. /\ new.at = at /\ new.remote = remote /\ new.cmd = proc[p].cmd
          /\ new.id = proc[p].id /\ new.since = proc[p].since /\ new.file = proc[p].file
          /\ new.section = proc[p].section /\ new.input = proc[p].input
        BY <2>0 DEF ProcRecord
    <2>6. proc' = [proc EXCEPT ![p] = new]
        BY <2>0, <2>3, InOrder
    <2> HIDE DEF new
    <2>7. Good(new)
        <3>1. proc[p].cmd \in {NULL, "add", "run", "resume"}
            BY InOrder DEF ProcRecord
        <3> QED BY <1>1, <2>5, <3>1, InOrder DEF Good, InHand, InputInHand, PinInHand, Remote
    <2>8. new.cmd = "run" /\ new.id = NULL => p \in Creating
        BY <2>5 DEF Creating
    <2>9. Remote(proc[p])
        BY <1>1, InOrder DEF Good, PinInHand
    <2> QED BY <1>1, <2>4, <2>5, <2>6, <2>7, <2>8, <2>9 DEF Moves, Remote
<1> QED BY <1>2, <1>3

(* Commands that go on to another place with what they have. *)
LEMMA AddGoesOn ==
    ASSUME LifeInv, NEW p \in Proc, proc[p].at \in {"prompt", "write"},
           NEW at \in {"write", "append"}, Goto(p, at)
    PROVE  \E new \in ProcRecord :
              /\ proc' = [proc EXCEPT ![p] = new] /\ Good(new)
              /\ new.cmd # "run" /\ new.at = at /\ new.remote = proc[p].remote /\ new.file = proc[p].file
<1> DEFINE new == [proc[p] EXCEPT !.at = at]
<1>1. new \in ProcRecord
    BY InOrder DEF ProcRecord, AtType
<1>2. /\ new.at = at /\ new.remote = proc[p].remote /\ new.cmd = proc[p].cmd
      /\ new.id = proc[p].id /\ new.since = proc[p].since /\ new.file = proc[p].file
      /\ new.section = proc[p].section /\ new.input = proc[p].input
    BY InOrder DEF ProcRecord
<1>3. proc' = [proc EXCEPT ![p] = new]
    BY InOrder DEF Goto
<1> HIDE DEF new
<1>4. Good(new) /\ new.cmd # "run"
    BY <1>2, InOrder DEF Good, InHand, InputInHand, PinInHand, Remote
<1> QED BY <1>1, <1>2, <1>3, <1>4

LEMMA CreatePromptKeeps == ASSUME LifeInv, NEW p \in Proc, CreatePrompt(p) PROVE LifeInv'
<1>1. /\ proc[p].at = "prompt"
      /\ UNCHANGED <<registry, toml, changes, runs>>
      /\ toml' \in [File -> {NULL} \cup Seq(SectionRecord)]
    BY DEF CreatePrompt, LifeInv, LifeType
<1>2. files' \in [PromptFile -> {NULL} \cup Text]
    BY DEF CreatePrompt, LifeInv, LifeType, Text, Empty
<1>3. CASE Goto(p, "write") \/ Goto(p, "append")
    <2>1. PICK new \in ProcRecord : proc' = [proc EXCEPT ![p] = new] /\ Good(new) /\ new.cmd # "run"
        BY <1>1, <1>3, AddGoesOn
    <2> QED BY <1>1, <1>2, <2>1, CommandMoves
<1>4. CASE Stop(p) /\ files' = files
    BY <1>1, <1>4, StopMoves, MovesKeep DEF world
<1> QED BY <1>3, <1>4 DEF CreatePrompt

LEMMA WritePromptKeeps == ASSUME LifeInv, NEW p \in Proc, WritePrompt(p) PROVE LifeInv'
<1>1. /\ proc[p].at = "write" /\ Goto(p, "append")
      /\ UNCHANGED <<registry, toml, changes, runs>>
      /\ toml' \in [File -> {NULL} \cup Seq(SectionRecord)]
    BY DEF WritePrompt, LifeInv, LifeType
<1>2. files' \in [PromptFile -> {NULL} \cup Text]
    <2>1. proc[p].remote \in Remotes
        BY <1>1, InOrder DEF Good, InHand
    <2>2. proc[p].remote.text \in Text
        BY <2>1, RemoteFacts DEF Text
    <2> QED BY <2>2 DEF WritePrompt, LifeInv, LifeType
<1>3. PICK new \in ProcRecord : proc' = [proc EXCEPT ![p] = new] /\ Good(new) /\ new.cmd # "run"
    BY <1>1, AddGoesOn
<1> QED BY <1>1, <1>2, <1>3, CommandMoves

LEMMA RenderedIsASection ==
    ASSUME NEW m \in Remotes
    PROVE  /\ Rendered(m) \in SectionRecord
           /\ Rendered(m).prompt = "added" /\ Rendered(m).text = m.text
<1>1. m.limit \in Limit /\ m.text \in Text
    BY RemoteFacts DEF Text
<1> QED BY <1>1 DEF Rendered, SectionRecord, PromptFile

LEMMA AppendSectionKeeps == ASSUME LifeInv, NEW p \in Proc, AppendSection(p) PROVE LifeInv'
<1> DEFINE file == proc[p].file
           existing == IF toml[file] = NULL THEN <<>> ELSE toml[file]
<1>1. /\ proc[p].at = "append" /\ Stop(p)
      /\ UNCHANGED <<registry, files, changes, runs>>
      /\ files' \in [PromptFile -> {NULL} \cup Text]
      /\ toml' = [toml EXCEPT ![file] = Append(existing, Rendered(proc[p].remote))]
    BY DEF AppendSection, LifeInv, LifeType
<1>2. file \in File /\ proc[p].remote \in Remotes
    BY <1>1, InOrder DEF Good, InHand
<1>3. existing \in Seq(SectionRecord)
    BY <1>2 DEF LifeInv, LifeType
<1>4. Append(existing, Rendered(proc[p].remote)) \in Seq(SectionRecord)
    <2> HIDE DEF existing
    <2> QED BY <1>2, <1>3, RenderedIsASection
<1>5. toml' \in [File -> {NULL} \cup Seq(SectionRecord)]
    BY <1>1, <1>4 DEF LifeInv, LifeType
<1>6. proc' = [proc EXCEPT ![p] = Idle]
    BY <1>1 DEF Stop
<1> QED BY <1>1, <1>5, <1>6, IdleIsGood, CommandMoves

(* The prompt of a remote benchmark, and what is recorded of it. *)
LEMMA EffectivePromptFacts ==
    ASSUME LifeInv, NEW m \in Remotes, NEW input, input.prompt \in {"bundle"} \cup PromptFile
    PROVE  LET prompt == EffectivePrompt(input, m) IN
           /\ prompt.text \in {NULL} \cup Text /\ prompt.override \in {NULL} \cup Text
           /\ prompt.text # NULL =>
                 prompt.text = IF prompt.override = NULL THEN m.text ELSE prompt.override
<1>1. m.text \in Text
    BY RemoteFacts DEF Text
<1>2. CASE input.prompt = "bundle"
    BY <1>1, <1>2 DEF EffectivePrompt
<1>3. CASE input.prompt # "bundle"
    <2>1. files[input.prompt] \in {NULL} \cup Text
        BY <1>3 DEF LifeInv, LifeType
    <2> QED BY <1>3, <2>1 DEF EffectivePrompt
<1> QED BY <1>2, <1>3

LEMMA PreparedRecord ==
    ASSUME NEW P \in ProcRecord, NEW at \in AtType, NEW input \in Assembled,
           NEW text \in {NULL} \cup Text, NEW pin \in PinRecord
    PROVE  [P EXCEPT !.at = at, !.input = input, !.text = text, !.pin = pin] \in ProcRecord
<1>1. [P EXCEPT !.at = at, !.input = input] \in ProcRecord
    BY DEF ProcRecord
<1>2. PICK Q \in ProcRecord : Q = [P EXCEPT !.at = at, !.input = input]
    BY <1>1, Zenon
<1>3. [Q EXCEPT !.text = text] \in ProcRecord
    BY DEF ProcRecord
<1>4. PICK R \in ProcRecord : R = [Q EXCEPT !.text = text]
    BY <1>3, Zenon
<1>5. [R EXCEPT !.pin = pin] \in ProcRecord
    BY DEF ProcRecord
<1> QED BY <1>2, <1>4, <1>5, Zenon

LEMMA PrepareRunMoves ==
    ASSUME LifeInv, NEW p \in Proc, PrepareRun(p)
    PROVE  \E new \in ProcRecord : Moves(p, new)
<1>1. UNCHANGED <<world, runs>> /\ proc[p].at = "prepare" /\ proc[p].cmd = "run"
    BY DEF PrepareRun
<1>2. CASE Stop(p)
    BY <1>1, <1>2, StopMoves
<1>3. CASE ~Stop(p)
    <2>0. PICK P \in ProcRecord : P = proc[p] /\ Good(P)
        BY InOrder
    <2> DEFINE input == Override([limit |-> P.remote.limit, prompt |-> "bundle"], P.input)
               prompt == EffectivePrompt(input, P.remote)
               pin == [version |-> P.remote.version, sha256 |-> P.remote.sha256,
                       override |-> prompt.override]
    <2>1. /\ P.remote \in Remotes /\ P.input \in InputRecord /\ Remote(P)
          /\ P.id = NULL /\ P.since \in 0..changes
        BY <1>1, <2>0 DEF Good, InHand, InputInHand, PinInHand
    <2>2. /\ prompt.text # NULL
          /\ proc' = [proc EXCEPT ![p].at = "create", ![p].input = input,
                                  ![p].text = prompt.text, ![p].pin = pin]
        BY <1>3, <2>0 DEF PrepareRun
    <2>3. input \in Assembled /\ input.prompt \in {"bundle"} \cup PromptFile
        BY <2>1, RemoteFacts DEF Override, InputRecord, Assembled
    <2>4. /\ prompt.text \in {NULL} \cup Text /\ prompt.override \in {NULL} \cup Text
          /\ prompt.text = IF prompt.override = NULL THEN P.remote.text ELSE prompt.override
        BY <2>1, <2>2, <2>3, EffectivePromptFacts
    <2> HIDE DEF input, prompt
    <2>5. pin \in PinRecord /\ pin.sha256 = P.remote.sha256 /\ pin.override = prompt.override
        BY <2>1, <2>4, RemoteFacts DEF PinRecord
    <2> HIDE DEF pin
    <2> DEFINE new == [P EXCEPT !.at = "create", !.input = input, !.text = prompt.text, !.pin = pin]
    <2>6. new \in ProcRecord
        <3>1. "create" \in AtType /\ prompt.text \in {NULL} \cup Text
            BY <2>4 DEF AtType
        <3> QED BY <2>3, <2>5, <3>1, PreparedRecord, Zenon
    <2>7. /\ new.at = "create" /\ new.input = input /\ new.text = prompt.text /\ new.pin = pin
          /\ new.cmd = "run" /\ new.id = NULL /\ new.since = P.since
          /\ new.section = P.section /\ new.remote = P.remote
        BY <1>1, <2>0, <2>1 DEF ProcRecord
    <2>8. proc' = [proc EXCEPT ![p] = new]
        BY <2>0, <2>2, InOrder
    <2> HIDE DEF new
    <2>9. Good(new)
        <3>1. InHand(new)
            BY <2>1, <2>7, CommandsAreNoNull DEF InHand
        <3>2. InputInHand(new)
            BY <2>1, <2>3, <2>7 DEF InputInHand, Remote
        <3>3. PinInHand(new)
            BY <2>1, <2>2, <2>4, <2>5, <2>7 DEF PinInHand, Remote, Fits
        <3> QED BY <3>1, <3>2, <3>3 DEF Good
    <2>10. p \in Creating
        BY <1>1, <2>0, <2>1 DEF Creating
    <2> QED BY <1>1, <2>1, <2>6, <2>7, <2>8, <2>9, <2>10 DEF Moves, Remote
<1> QED BY <1>2, <1>3

LEMMA PrepareResumeMoves ==
    ASSUME LifeInv, NEW p \in Proc, PrepareResume(p)
    PROVE  \E new \in ProcRecord : Moves(p, new)
<1>1. UNCHANGED <<world, runs>> /\ proc[p].at = "prepare" /\ proc[p].cmd = "resume"
    BY DEF PrepareResume
<1>2. CASE Stop(p)
    BY <1>1, <1>2, StopMoves
<1>3. CASE ~Stop(p)
    <2>0. PICK P \in ProcRecord : P = proc[p] /\ Good(P)
        BY InOrder
    <2> DEFINE prompt == EffectivePrompt(P.input, P.remote)
               pin == runs[P.id].pin
    <2>1. /\ P.remote \in Remotes /\ P.input \in Assembled /\ Remote(P)
          /\ P.input.prompt \in {"bundle"} \cup PromptFile
          /\ P.id \in 1..Len(runs) /\ pin # NULL /\ P.since \in 0..changes
        BY <1>1, <2>0 DEF Good, InHand, InputInHand, PinInHand
    <2>2. /\ MatchesPin(pin, P.remote, prompt)
          /\ proc' = [proc EXCEPT ![p].at = "restart", ![p].text = prompt.text]
        BY <1>3, <2>0 DEF PrepareResume
    <2>3. pin \in PinRecord
        <3>1. runs[P.id] \in RunRecord
            BY <2>1 DEF LifeInv, LifeType
        <3> QED BY <2>1, <3>1 DEF RunRecord
    <2>4. /\ prompt.text \in {NULL} \cup Text
          /\ prompt.text # NULL
          /\ prompt.text = IF pin.override = NULL THEN P.remote.text ELSE pin.override
          /\ P.remote.sha256 = pin.sha256
        BY <2>1, <2>2, EffectivePromptFacts DEF MatchesPin
    <2> HIDE DEF prompt, pin
    <2> DEFINE new == [P EXCEPT !.at = "restart", !.text = prompt.text]
    <2>6. new \in ProcRecord
        <3>1. "restart" \in AtType
            BY DEF AtType
        <3> QED BY <2>4, <3>1 DEF ProcRecord
    <2>7. /\ new.at = "restart" /\ new.text = prompt.text /\ new.input = P.input
          /\ new.cmd = "resume" /\ new.id = P.id /\ new.since = P.since
          /\ new.section = P.section /\ new.remote = P.remote
        BY <1>1, <2>0 DEF ProcRecord
    <2>8. proc' = [proc EXCEPT ![p] = new]
        BY <2>0, <2>2, InOrder
    <2> HIDE DEF new
    <2>9. Good(new)
        <3>1. InHand(new)
            BY <2>1, <2>7, CommandsAreNoNull DEF InHand
        <3>2. InputInHand(new)
            BY <2>1, <2>7 DEF InputInHand, Remote
        <3>3. PinInHand(new)
            BY <2>1, <2>3, <2>4, <2>7 DEF PinInHand, Remote, Fits, pin
        <3> QED BY <3>1, <3>2, <3>3 DEF Good
    <2> QED BY <1>1, <2>0, <2>1, <2>6, <2>7, <2>8, <2>9, CommandsAreNoNull DEF Moves, Remote
<1> QED BY <1>2, <1>3

Quiet(p) ==
    \/ StartAdd(p) \/ StartRemoteRun(p) \/ StartConfiguredRun(p) \/ StartResume(p)
    \/ Resolve(p) \/ DownloadResources(p) \/ PrepareRun(p) \/ PrepareResume(p) \/ Kill(p)

LEMMA QuietCommandsMove ==
    ASSUME LifeInv, NEW p \in Proc, Quiet(p)
    PROVE  \E new \in ProcRecord : Moves(p, new)
  BY StartAddMoves, StartRemoteRunMoves, StartConfiguredRunMoves, StartResumeMoves, ResolveMoves,
     DownloadResourcesMoves, PrepareRunMoves, PrepareResumeMoves, StopMoves DEF Quiet, Kill

LEMMA RunFacts ==
    ASSUME LifeInv, NEW r \in 1..Len(runs)
    PROVE  /\ \E run \in RunRecord : run = runs[r]
           /\ RunIsAuthentic(runs[r]) /\ runs \in Seq(RunRecord)
  BY DEF LifeInv, LifeType, RunsAreAuthentic

LEMMA CreateRunFacts ==
    ASSUME LifeInv, NEW p \in Proc, CreateRun(p)
    PROVE  \E run \in RunRecord, new \in ProcRecord, n \in Nat :
              /\ n = Len(runs) + 1
              /\ runs' \in Seq(RunRecord) /\ Len(runs') = n
              /\ \A r \in 1..Len(runs) : runs'[r] = runs[r]
              /\ runs'[n] = run
              /\ run.input = proc[p].input /\ run.pin = proc[p].pin /\ run.ran = {}
              /\ run.plain = proc[p].plain /\ run.since = proc[p].since
              /\ RunIsAuthentic(run)
              /\ proc' = [proc EXCEPT ![p] = new]
              /\ new.at = "execute" /\ new.id = n /\ new.cmd = "run" /\ new.since = proc[p].since
              /\ new.input = proc[p].input /\ new.section = proc[p].section
              /\ new.remote = proc[p].remote /\ new.text = proc[p].text
<1>0. PICK P \in ProcRecord : P = proc[p] /\ Good(P)
    BY InOrder
<1>1. /\ P.at = "create" /\ P.cmd = "run" /\ P.id = NULL /\ P.since \in 0..changes
      /\ P.input \in Assembled /\ UNCHANGED world
    BY <1>0 DEF CreateRun, Good, InHand, InputInHand
<1>2. P.pin \in {NULL} \cup PinRecord
    BY <1>0 DEF ProcRecord
<1> DEFINE run == [status |-> "running", input |-> P.input, pin |-> P.pin,
                   ran |-> {}, plain |-> P.plain, since |-> P.since]
<1>3. run \in RunRecord
    <2>1. P.plain \in Flag /\ P.since \in {NULL} \cup Nat
        BY <1>0 DEF ProcRecord
    <2> QED BY <1>1, <1>2, <2>1 DEF RunRecord
<1>4. RunIsAuthentic(run)
    <2>1. run.ran = {} /\ run.since \in 0..changes
        BY <1>1
    <2>2. P.pin # NULL => P.input.prompt \in {"bundle"} \cup PromptFile
        BY <1>0, <1>1 DEF Good, PinInHand, InputInHand
    <2> QED BY <2>1, <2>2 DEF RunIsAuthentic
<1>5. runs' = Append(runs, run)
    BY <1>0 DEF CreateRun, NewRun
<1>6. PICK n : n = Len(runs) + 1 /\ n \in Nat /\ Len(runs) \in Nat
    BY LengthsAndChanges DEF LifeInv
<1>7. PICK new : new = [P EXCEPT !.at = "execute", !.id = n]
    OBVIOUS
<1>8. new \in ProcRecord
    <2>1. "execute" \in AtType /\ n \in {NULL} \cup Nat
        BY <1>6 DEF AtType
    <2> QED BY <1>7, <2>1 DEF ProcRecord
<1>9. /\ new.at = "execute" /\ new.id = n /\ new.cmd = "run" /\ new.since = P.since
      /\ new.input = P.input /\ new.section = P.section /\ new.remote = P.remote
      /\ new.text = P.text
    BY <1>1, <1>7 DEF ProcRecord
<1>10. proc' = [proc EXCEPT ![p] = new]
    BY <1>0, <1>6, <1>7, InOrder DEF CreateRun
<1> HIDE DEF run
<1>11. /\ runs' \in Seq(RunRecord) /\ Len(runs') = n
       /\ \A r \in 1..Len(runs) : runs'[r] = runs[r]
       /\ runs'[n] = run
    <2>1. runs \in Seq(RunRecord)
        BY DEF LifeInv, LifeType
    <2> QED BY <1>3, <1>5, <1>6, <2>1, AppendProperties
<1>12. /\ run.input = P.input /\ run.pin = P.pin /\ run.ran = {}
       /\ run.plain = P.plain /\ run.since = P.since
    BY DEF run
<1> QED BY <1>0, <1>3, <1>4, <1>6, <1>8, <1>9, <1>10, <1>11, <1>12

LEMMA CreateRunKeeps == ASSUME LifeInv, NEW p \in Proc, CreateRun(p) PROVE LifeInv'
<1>0. PICK P \in ProcRecord : P = proc[p] /\ Good(P)
    BY InOrder
<1>1. /\ P.at = "create" /\ P.cmd = "run" /\ P.id = NULL /\ P.since \in 0..changes
      /\ P.input \in Assembled /\ UNCHANGED world
    BY <1>0 DEF CreateRun, Good, InHand, InputInHand
<1>2. PICK run \in RunRecord, new \in ProcRecord, n \in Nat :
          /\ n = Len(runs) + 1
          /\ runs' \in Seq(RunRecord) /\ Len(runs') = n
          /\ \A r \in 1..Len(runs) : runs'[r] = runs[r]
          /\ runs'[n] = run
          /\ run.pin = P.pin /\ RunIsAuthentic(run)
          /\ proc' = [proc EXCEPT ![p] = new]
          /\ new.at = "execute" /\ new.id = n /\ new.cmd = "run" /\ new.since = P.since
          /\ new.input = P.input /\ new.section = P.section
          /\ new.remote = P.remote /\ new.text = P.text
    BY <1>0, CreateRunFacts
<1>6. Len(runs) \in Nat
    BY LengthsAndChanges DEF LifeInv
<1>12. LifeType'
    BY <1>1, <1>2 DEF LifeInv, LifeType, world
<1>13. Grows
    <2>1. changes \in Nat
        BY LengthsAndChanges DEF LifeInv
    <2> QED BY <1>1, <1>6, <1>2, <2>1 DEF Grows, world
<1>14. Good(new)'
    <2>1. changes' = changes
        BY <1>1 DEF world
    <2>2. InHand(new)'
        BY <1>1, <1>6, <1>2, <2>1, CommandsAreNoNull DEF InHand
    <2>3. InputInHand(new)'
        BY <1>0, <1>1, <1>2 DEF Good, InputInHand, Remote
    <2>4. runs'[n].pin = P.pin
        BY <1>2
    <2>5. PinInHand(new)'
        BY <1>0, <1>1, <1>2, <2>4 DEF Good, PinInHand, Remote, Fits
    <2> QED BY <2>2, <2>3, <2>5 DEF Good
<1>15. CommandsAreInOrder'
    <2> SUFFICES ASSUME NEW q \in Proc PROVE Good(proc[q])'
        BY DEF CommandsAreInOrder
    <2>1. CASE q = p
        <3>1. proc'[q] = new
            BY <1>2, <2>1 DEF LifeInv, LifeType
        <3> QED BY <1>14, <3>1 DEF Good, InHand, InputInHand, PinInHand, Fits, Remote
    <2>2. CASE q # p
        <3>1. proc'[q] = proc[q]
            BY <1>2, <2>2 DEF LifeInv, LifeType
        <3>2. PICK Q : Q = proc[q] /\ Good(Q)
            BY InOrder
        <3>3. Good(Q)'
            BY <1>12, <1>13, <3>2, GoodStays DEF LifeInv
        <3> QED BY <3>1, <3>2, <3>3 DEF Good, InHand, InputInHand, PinInHand, Fits, Remote
    <2> QED BY <2>1, <2>2
<1>16. RunsAreAuthentic'
    <2> SUFFICES ASSUME NEW r \in 1..n PROVE RunIsAuthentic(runs[r])'
        BY <1>2 DEF RunsAreAuthentic
    <2>1. RunIsAuthentic(runs'[r])
        <3>1. CASE r \in 1..Len(runs)
            BY <1>2, <3>1 DEF LifeInv, RunsAreAuthentic
        <3>2. CASE r = n
            BY <1>2, <3>2
        <3> QED BY <1>2, <1>6, <3>1, <3>2
    <2> QED BY <1>1, <2>1 DEF RunIsAuthentic, world
<1>17. RunsHaveRoom'
    <2>1. Creating' = Creating \ {p} /\ p \in Creating
        <3>1. \A q \in Proc : q # p => proc'[q] = proc[q]
            BY <1>2 DEF LifeInv, LifeType
        <3>2. proc'[p] = new /\ new.id # NULL
            BY <1>6, <1>2, CommandsAreNoNull DEF LifeInv, LifeType
        <3> QED BY <1>0, <1>1, <3>1, <3>2 DEF Creating
    <2>2. IsFiniteSet(Creating)
        BY BoundsAssumption, FS_Subset DEF Creating
    <2>3. /\ Cardinality(Creating) \in Nat
          /\ Cardinality(Creating') = Cardinality(Creating) - 1
        BY <2>1, <2>2, FS_RemoveElement, FS_CardinalityType
    <2> QED BY <1>6, <1>2, <2>3, BoundsAssumption DEF LifeInv, RunsHaveRoom
<1> QED BY <1>12, <1>15, <1>16, <1>17 DEF LifeInv

(* The status of a run changes, and nothing else of it. *)
LEMMA StatusRow ==
    ASSUME LifeInv, NEW r \in 1..Len(runs), NEW status \in {"running", "completed", "failed"}
    PROVE  \E row \in RunRecord :
              /\ row.pin = runs[r].pin /\ row.input = runs[r].input /\ row.ran = runs[r].ran
              /\ row.plain = runs[r].plain /\ row.since = runs[r].since
              /\ RunIsAuthentic(row)
              /\ [runs EXCEPT ![r].status = status] = [runs EXCEPT ![r] = row]
<1>1. PICK run \in RunRecord : run = runs[r] /\ RunIsAuthentic(run)
    BY RunFacts
<1> DEFINE row == [run EXCEPT !.status = status]
<1>2. row \in RunRecord
    BY DEF RunRecord
<1>3. /\ row.pin = run.pin /\ row.input = run.input /\ row.ran = run.ran
      /\ row.plain = run.plain /\ row.since = run.since
    BY DEF RunRecord
<1>4. [runs EXCEPT ![r].status = status] = [runs EXCEPT ![r] = row]
    BY <1>1, Zenon
<1> HIDE DEF row
<1>5. RunIsAuthentic(row)
    BY <1>1, <1>3 DEF RunIsAuthentic
<1> QED BY <1>1, <1>2, <1>3, <1>4, <1>5

LEMMA ResumeRunFacts ==
    ASSUME LifeInv, NEW p \in Proc, ResumeRun(p)
    PROVE  \E row \in RunRecord, new \in ProcRecord :
              /\ runs' = [runs EXCEPT ![proc[p].id] = row] /\ proc' = [proc EXCEPT ![p] = new]
              /\ row.pin = runs[proc[p].id].pin /\ row.input = runs[proc[p].id].input
              /\ row.ran = runs[proc[p].id].ran /\ row.plain = runs[proc[p].id].plain
              /\ row.since = runs[proc[p].id].since
              /\ RunIsAuthentic(row) /\ Good(new) /\ new.at = "execute" /\ new.cmd = "resume"
              /\ new.id = proc[p].id /\ new.section = proc[p].section
              /\ new.input = ResumedInput(proc[p].section, proc[p].input)
<1>0. PICK P \in ProcRecord : P = proc[p] /\ Good(P)
    BY InOrder
<1>1. /\ P.at = "restart" /\ P.cmd = "resume" /\ P.id \in 1..Len(runs) /\ P.since \in 0..changes
      /\ P.input \in Assembled /\ UNCHANGED world
    BY <1>0 DEF ResumeRun, Good, InHand, InputInHand
<1> DEFINE input == ResumedInput(P.section, P.input)
<1>2. /\ input \in Assembled
      /\ Remote(P) => input = P.input
      /\ ~Remote(P) /\ P.section.kind = "nocode" => input.prompt \in PromptFile
    <2>1. CASE P.section # NULL /\ P.section.kind = "nocode"
        <3>1. P.section \in SectionRecord
            BY <2>1 DEF ProcRecord
        <3>2. NoInput \in InputRecord
            BY DEF NoInput, InputRecord, Limit
        <3>3. P.section.kind # "code"
            BY <2>1
        <3>4. input = Override(P.section, NoInput)
            BY <2>1 DEF ResumedInput
        <3> QED BY <2>1, <3>1, <3>2, <3>3, <3>4, ConfiguredInput DEF Remote
    <2>2. CASE ~(P.section # NULL /\ P.section.kind = "nocode")
        BY <1>1, <2>2 DEF ResumedInput, Remote
    <2> QED BY <2>1, <2>2
<1> DEFINE new == [P EXCEPT !.at = "execute", !.input = input]
<1>3. new \in ProcRecord
    <2>1. "execute" \in AtType /\ input \in Assembled
        BY <1>2 DEF AtType
    <2> HIDE DEF input
    <2> QED BY <2>1 DEF ProcRecord
<1>4. /\ new.at = "execute" /\ new.id = P.id /\ new.cmd = "resume" /\ new.since = P.since
      /\ new.input = input /\ new.section = P.section /\ new.remote = P.remote
      /\ new.text = P.text
    BY <1>1 DEF ProcRecord
<1>5. proc' = [proc EXCEPT ![p] = new]
    BY <1>0, InOrder DEF ResumeRun
<1>6. PICK row \in RunRecord :
          /\ row.pin = runs[P.id].pin /\ row.input = runs[P.id].input /\ row.ran = runs[P.id].ran
          /\ row.plain = runs[P.id].plain /\ row.since = runs[P.id].since
          /\ RunIsAuthentic(row)
          /\ runs' = [runs EXCEPT ![P.id] = row]
    BY <1>0, <1>1, StatusRow DEF ResumeRun
<1> HIDE DEF new, input
<1>7. Good(new)
    <2>1. InHand(new)
        BY <1>1, <1>4, CommandsAreNoNull DEF InHand
    <2>2. InputInHand(new)
        BY <1>0, <1>1, <1>2, <1>4 DEF Good, InputInHand, Remote
    <2>3. PinInHand(new)
        BY <1>0, <1>1, <1>4 DEF Good, PinInHand, Remote, Fits
    <2> QED BY <2>1, <2>2, <2>3 DEF Good
<1> QED BY <1>0, <1>3, <1>4, <1>5, <1>6, <1>7 DEF input

LEMMA ResumeRunKeeps == ASSUME LifeInv, NEW p \in Proc, ResumeRun(p) PROVE LifeInv'
<1>1. proc[p].id \in 1..Len(runs) /\ UNCHANGED world
    BY InOrder DEF ResumeRun, Good, InHand
<1>2. PICK row \in RunRecord, new \in ProcRecord :
              /\ runs' = [runs EXCEPT ![proc[p].id] = row] /\ proc' = [proc EXCEPT ![p] = new]
              /\ row.pin = runs[proc[p].id].pin
              /\ RunIsAuthentic(row) /\ Good(new) /\ new.cmd = "resume"
    BY ResumeRunFacts
<1> QED BY <1>1, <1>2, RunMoves

(* What an attempt evaluates: at least one row and at most all of them. *)
LEMMA ResolvedLimit ==
    \A limit \in Limit :
        /\ ResolveLimit(limit) \in Nat
        /\ limit # 0 => ResolveLimit(limit) \in 1..Size
        /\ ResolveLimit(ResolveLimit(limit)) = ResolveLimit(limit)
<1> SUFFICES ASSUME NEW limit \in Limit
             PROVE  /\ ResolveLimit(limit) \in Nat
                    /\ limit # 0 => ResolveLimit(limit) \in 1..Size
                    /\ ResolveLimit(ResolveLimit(limit)) = ResolveLimit(limit)
    OBVIOUS
<1>1. Size \in Nat /\ Size > 0 /\ Size # NULL
    BY BoundsAssumption, CommandsAreNoNull
<1>2. CASE limit = NULL
    BY <1>1, <1>2 DEF ResolveLimit
<1>3. CASE limit \in Nat
    <2>1. limit # NULL
        BY <1>3, CommandsAreNoNull
    <2> QED BY <1>1, <1>3, <2>1 DEF ResolveLimit
<1> QED BY <1>2, <1>3 DEF Limit

LEMMA FailRunKeeps ==
    ASSUME LifeInv, NEW p \in Proc, proc[p].at \in {"execute", "work"}, FailRun(p), UNCHANGED world
    PROVE  LifeInv'
<1>1. proc[p].id \in 1..Len(runs)
    BY InOrder DEF Good, InHand
<1>2. PICK row \in RunRecord :
          /\ row.pin = runs[proc[p].id].pin /\ RunIsAuthentic(row)
          /\ runs' = [runs EXCEPT ![proc[p].id] = row]
    BY <1>1, StatusRow DEF FailRun
<1>3. proc' = [proc EXCEPT ![p] = Idle]
    BY DEF FailRun, Stop
<1> QED BY <1>1, <1>2, <1>3, IdleIsGood, RunMoves

LEMMA FinishKeeps == ASSUME LifeInv, NEW p \in Proc, Finish(p) PROVE LifeInv'
<1>1. proc[p].id \in 1..Len(runs) /\ UNCHANGED world
    BY InOrder DEF Good, InHand, Finish
<1>2. PICK status \in {"completed", "failed"} :
          runs' = [runs EXCEPT ![proc[p].id].status = status]
    BY DEF Finish
<1>3. PICK row \in RunRecord :
          /\ row.pin = runs[proc[p].id].pin /\ RunIsAuthentic(row)
          /\ runs' = [runs EXCEPT ![proc[p].id] = row]
    <2>1. status \in {"running", "completed", "failed"}
        OBVIOUS
    <2>2. PICK r \in 1..Len(runs) : r = proc[p].id
        BY <1>1
    <2>3. PICK row \in RunRecord :
              /\ row.pin = runs[r].pin /\ row.input = runs[r].input /\ row.ran = runs[r].ran
              /\ row.plain = runs[r].plain /\ row.since = runs[r].since
              /\ RunIsAuthentic(row)
              /\ [runs EXCEPT ![r].status = status] = [runs EXCEPT ![r] = row]
        BY <2>1, StatusRow, Zenon
    <2> QED BY <1>2, <2>2, <2>3, Zenon
<1>4. proc' = [proc EXCEPT ![p] = Idle]
    BY DEF Finish, Stop
<1> QED BY <1>1, <1>3, <1>4, IdleIsGood, RunMoves

(* What SetUp writes into the run: the input with its limit resolved, and what the attempt
   evaluates. *)
SetUpText(P) ==
    IF P.section # NULL /\ P.section.kind = "code" THEN NULL
    ELSE IF P.section = NULL THEN P.text ELSE files[P.input.prompt]
SetUpLimit(P) ==
    IF P.section # NULL /\ P.section.kind = "code" THEN P.input.limit ELSE ResolveLimit(P.input.limit)
Attempt(P) ==
    [text |-> SetUpText(P), limit |-> SetUpLimit(P),
     from |-> IF P.section = NULL THEN P.remote.sha256 ELSE NULL]

LEMMA SetUpFacts ==
    ASSUME LifeInv, NEW p \in Proc, SetUp(p), ~FailRun(p)
    PROVE  \E row \in RunRecord, new \in ProcRecord :
              /\ runs' = [runs EXCEPT ![proc[p].id] = row] /\ proc' = [proc EXCEPT ![p] = new]
              /\ row.pin = runs[proc[p].id].pin /\ row.plain = runs[proc[p].id].plain
              /\ row.since = runs[proc[p].id].since
              /\ row.input.limit = SetUpLimit(proc[p]) /\ row.input.prompt = proc[p].input.prompt
              /\ row.ran = runs[proc[p].id].ran \cup {Attempt(proc[p])}
              /\ RunIsAuthentic(row) /\ Good(new) /\ new.at = "work" /\ new.id = proc[p].id
<1>0. PICK P \in ProcRecord : P = proc[p] /\ Good(P)
    BY InOrder
<1>1. /\ P.at = "execute" /\ P.id \in 1..Len(runs) /\ P.since \in 0..changes
      /\ P.input \in Assembled /\ P.cmd # NULL
    BY <1>0 DEF SetUp, Good, InHand, InputInHand
<1>2. PICK run \in RunRecord : run = runs[P.id] /\ RunIsAuthentic(run)
    BY <1>1, RunFacts
<1> DEFINE code == P.section # NULL /\ P.section.kind = "code"
           remote == P.section = NULL
           text == SetUpText(P)
           limit == SetUpLimit(P)
           input == [P.input EXCEPT !.limit = limit]
           x == Attempt(P)
           row == [run EXCEPT !.input = input, !.ran = run.ran \cup {x}]
           new == [P EXCEPT !.at = "work"]
<1>3. /\ code \/ (P.input.limit # 0 /\ text # NULL)
      /\ runs' = [runs EXCEPT ![P.id].input = input, ![P.id].ran = @ \cup {x}]
      /\ proc' = [proc EXCEPT ![p].at = "work"]
    BY <1>0 DEF SetUp, SetUpText, SetUpLimit, Attempt, Goto
<1>4. P.input.limit \in Limit /\ P.input.prompt \in {NULL, "bundle"} \cup PromptFile
    BY <1>1 DEF Assembled
<1>5. limit \in Limit /\ (~code => limit \in 1..Size)
    BY <1>3, <1>4, ResolvedLimit DEF SetUpLimit, Limit
<1>6. /\ input \in Assembled
      /\ input.limit = limit /\ input.prompt = P.input.prompt
    <2> HIDE DEF limit
    <2> QED BY <1>1, <1>5 DEF Assembled
<1>7. IF remote THEN Fits(P, run.pin) ELSE run.pin = NULL
    BY <1>0, <1>1, <1>2 DEF Good, PinInHand, Remote
<1>8. /\ text \in {NULL} \cup Text
      /\ x.from \in {NULL} \cup {r.sha256 : r \in Responses}
    <2>1. CASE remote
        BY <1>7, <2>1, RemoteFacts DEF Fits, Attempt, SetUpText
    <2>2. CASE ~remote
        <3>1. P.section \in SectionRecord
            BY <2>2 DEF ProcRecord
        <3>2. ~code => P.section.kind = "nocode"
            BY <2>2, <3>1 DEF SectionRecord
        <3>3. ~code => P.input.prompt \in PromptFile
            BY <1>0, <1>1, <2>2, <3>2 DEF Good, InputInHand, Remote
        <3>4. ~code => files[P.input.prompt] \in {NULL} \cup Text
            BY <3>3 DEF LifeInv, LifeType
        <3> QED BY <2>2, <3>4 DEF SetUpText, Attempt
    <2> QED BY <2>1, <2>2
<1>9. /\ x \in Ran /\ x.text = text /\ x.limit = limit
      /\ x.from = IF remote THEN P.remote.sha256 ELSE NULL
    BY <1>5, <1>8 DEF Attempt, Ran
<1>10. Authentic(x, run.pin)
    <2>1. x.from = IF run.pin = NULL THEN NULL ELSE run.pin.sha256
        <3>1. run.pin \in PinRecord => run.pin # NULL
            BY NullAssumption
        <3> QED BY <1>7, <1>9, <3>1 DEF Fits
    <2>2. x.text # NULL => x.limit \in 1..Size
        BY <1>5, <1>9 DEF SetUpText
    <2>3. run.pin # NULL => IF run.pin.override = NULL THEN x.text \in Declared ELSE x.text = run.pin.override
        <3>1. ASSUME run.pin # NULL
              PROVE  IF run.pin.override = NULL THEN x.text \in Declared ELSE x.text = run.pin.override
            <4>1. remote /\ Fits(P, run.pin) /\ x.text = P.text
                BY <1>7, <1>9, <3>1 DEF SetUpText
            <4> QED BY <4>1, RemoteFacts DEF Fits
        <3> QED BY <3>1
    <2> QED BY <2>1, <2>2, <2>3 DEF Authentic
<1> HIDE DEF input, x
<1>11. row \in RunRecord
    <2>1. run.ran \in SUBSET Ran
        BY DEF RunRecord
    <2>2. run.ran \cup {x} \in SUBSET Ran
        BY <1>9, <2>1
    <2> DEFINE ran == run.ran \cup {x}
    <2> HIDE DEF ran
    <2>3. ran \in SUBSET Ran
        BY <2>2 DEF ran
    <2>4. [run EXCEPT !.input = input, !.ran = ran] \in RunRecord
        BY <1>6, <2>3 DEF RunRecord
    <2> QED BY <2>4 DEF ran
<1>12. /\ row.pin = run.pin /\ row.plain = run.plain /\ row.since = run.since
       /\ row.input = input /\ row.ran = run.ran \cup {x}
    BY DEF RunRecord
<1>13. runs' = [runs EXCEPT ![P.id] = row]
    <2>1. runs \in [1..Len(runs) -> RunRecord]
        BY DEF LifeInv, LifeType
    <2> QED BY <1>1, <1>2, <1>3, <2>1
<1>14. new \in ProcRecord
    BY DEF ProcRecord, AtType
<1>15. /\ new.at = "work" /\ new.id = P.id /\ new.cmd = P.cmd /\ new.since = P.since
       /\ new.input = P.input /\ new.section = P.section
    BY DEF ProcRecord
<1>16. proc' = [proc EXCEPT ![p] = new]
    BY <1>0, <1>3, InOrder
<1> HIDE DEF row, new
<1>17. RunIsAuthentic(row)
    <2>1. \A y \in row.ran : Authentic(y, row.pin)
        BY <1>2, <1>10, <1>12 DEF RunIsAuthentic
    <2>2. row.pin # NULL => row.input.prompt \in {"bundle"} \cup PromptFile
        <3>1. ASSUME row.pin # NULL PROVE row.input.prompt \in {"bundle"} \cup PromptFile
            <4>1. remote
                BY <1>7, <1>12, <3>1
            <4>2. P.input.prompt \in {"bundle"} \cup PromptFile
                BY <1>0, <1>1, <4>1 DEF Good, InputInHand, Remote
            <4> QED BY <1>6, <1>12, <4>2
        <3> QED BY <3>1
    <2> QED BY <1>2, <1>12, <2>1, <2>2 DEF RunIsAuthentic
<1>18. Good(new)
    <2>1. InHand(new)
        BY <1>0, <1>1, <1>15 DEF Good, InHand
    <2>2. InputInHand(new)
        BY <1>0, <1>15 DEF Good, InputInHand, Remote
    <2>3. PinInHand(new)
        BY <1>15 DEF PinInHand
    <2> QED BY <2>1, <2>2, <2>3 DEF Good
<1> QED BY <1>0, <1>2, <1>6, <1>11, <1>12, <1>13, <1>14, <1>15, <1>16, <1>17, <1>18 DEF x

LEMMA SetUpKeeps == ASSUME LifeInv, NEW p \in Proc, SetUp(p) PROVE LifeInv'
<1>1. proc[p].at = "execute" /\ UNCHANGED world
    BY DEF SetUp
<1>2. CASE FailRun(p)
    BY <1>1, <1>2, FailRunKeeps
<1>3. CASE ~FailRun(p)
    <2>1. PICK row \in RunRecord, new \in ProcRecord :
              /\ runs' = [runs EXCEPT ![proc[p].id] = row] /\ proc' = [proc EXCEPT ![p] = new]
              /\ row.pin = runs[proc[p].id].pin /\ RunIsAuthentic(row)
              /\ Good(new) /\ new.id = proc[p].id
        BY <1>3, SetUpFacts
    <2>2. proc[p].id \in 1..Len(runs)
        BY <1>1, InOrder DEF Good, InHand
    <2>3. new.id # NULL
        BY <2>1, <2>2, LengthsAndChanges, CommandsAreNoNull DEF LifeInv
    <2> QED BY <1>1, <2>1, <2>2, <2>3, RunMoves
<1> QED BY <1>2, <1>3

(* What the user may write is text of a configuration. *)
LEMMA SectionTexts == {NULL, <<>>} \cup {<<s>> : s \in Sections} \subseteq {NULL} \cup Seq(SectionRecord)
<1>1. <<>> \in Seq(SectionRecord)
    OBVIOUS
<1>2. ASSUME NEW s \in Sections PROVE <<s>> \in Seq(SectionRecord)
    <2>1. s \in SectionRecord
        BY DataAssumption
    <2> QED BY <2>1
<1> QED BY <1>1, <1>2

LEMMA ChangeKeeps == ASSUME LifeInv, Change PROVE LifeInv'
<1>1. changes \in Nat /\ changes < MaxChanges /\ changes' = changes + 1 /\ UNCHANGED <<runs, proc>>
    BY LengthsAndChanges DEF LifeInv, Change
<1>2. LifeType'
    <2>1. registry' \in [Version -> {NULL} \cup Responses]
        BY DEF Change, LifeInv, LifeType
    <2>2. toml' \in [File -> {NULL} \cup Seq(SectionRecord)]
        <3>1. CASE UNCHANGED toml
            BY <3>1 DEF LifeInv, LifeType
        <3>2. ASSUME NEW f \in File, NEW text \in {NULL, <<>>} \cup {<<s>> : s \in Sections},
                     toml' = [toml EXCEPT ![f] = text]
              PROVE  toml' \in [File -> {NULL} \cup Seq(SectionRecord)]
            <4>1. text \in {NULL} \cup Seq(SectionRecord)
                BY SectionTexts
            <4> QED BY <3>2, <4>1 DEF LifeInv, LifeType
        <3> QED BY <3>1, <3>2 DEF Change
    <2>3. files' \in [PromptFile -> {NULL} \cup Text]
        BY DataAssumption DEF Change, LifeInv, LifeType
    <2> QED BY <1>1, <2>1, <2>2, <2>3, BoundsAssumption DEF LifeInv, LifeType
<1>3. Grows
    BY <1>1, LengthsAndChanges DEF Grows, LifeInv
<1>4. CommandsAreInOrder'
    <2> SUFFICES ASSUME NEW q \in Proc PROVE Good(proc[q])'
        BY DEF CommandsAreInOrder
    <2>1. PICK Q : Q = proc[q] /\ Good(Q)
        BY InOrder
    <2>2. Good(Q)'
        BY <1>2, <1>3, <2>1, GoodStays DEF LifeInv
    <2> QED BY <1>1, <2>1, <2>2 DEF Good, InHand, InputInHand, PinInHand, Fits, Remote
<1>5. RunsAreAuthentic'
    BY <1>1 DEF LifeInv, RunsAreAuthentic, RunIsAuthentic
<1>6. RunsHaveRoom'
    BY <1>1 DEF LifeInv, RunsHaveRoom, Creating
<1> QED BY <1>2, <1>4, <1>5, <1>6 DEF LifeInv

LEMMA LifeInit == Init => LifeInv
<1> SUFFICES ASSUME Init PROVE LifeInv
    OBVIOUS
<1>1. LifeType
    <2>1. registry \in [Version -> {NULL} \cup Responses]
        BY DEF Init
    <2>2. toml \in [File -> {NULL} \cup Seq(SectionRecord)]
        <3>1. PICK text \in {NULL} \cup {<<s>> : s \in Sections} :
                 toml = [f \in File |-> IF f = "quantiles.toml" THEN text ELSE NULL]
            BY DEF Init
        <3>2. text \in {NULL} \cup Seq(SectionRecord)
            BY SectionTexts
        <3> QED BY <3>1, <3>2
    <2>3. files \in [PromptFile -> {NULL} \cup Text]
        <3>1. (CHOOSE c \in Contents : TRUE) \in Text
            BY DataAssumption
        <3> DEFINE chosen == CHOOSE c \in Contents : TRUE
        <3>2. files = [f \in PromptFile |-> IF f = "own" THEN chosen ELSE NULL]
            BY DEF Init
        <3> HIDE DEF chosen
        <3> QED BY <3>1, <3>2 DEF chosen
    <2>4. changes \in 0..MaxChanges
        BY BoundsAssumption DEF Init
    <2>5. runs \in Seq(RunRecord)
        BY DEF Init
    <2>6. proc \in [Proc -> ProcRecord]
        BY DEF Init, Idle, ProcRecord, AtType, Flag
    <2> QED BY <2>1, <2>2, <2>3, <2>4, <2>5, <2>6 DEF LifeType
<1>2. CommandsAreInOrder
    <2>1. \A p \in Proc : proc[p] = Idle
        BY DEF Init
    <2>2. Idle.cmd # "add" /\ Idle.cmd # "run" /\ Idle.cmd # "resume" /\ Idle.at = "idle" /\ Idle.id = NULL
        BY NullAssumption DEF Idle
    <2>3. Good(Idle)
        BY <2>2 DEF Good, InHand, InputInHand, PinInHand
    <2> QED BY <2>1, <2>3 DEF CommandsAreInOrder
<1>3. RunsAreAuthentic
    BY DEF Init, RunsAreAuthentic
<1>4. RunsHaveRoom
    <2>1. Creating = {}
        BY NullAssumption DEF Init, Creating, Idle
    <2>2. Len(runs) = 0
        BY DEF Init
    <2> QED BY <2>1, <2>2, FS_EmptySet, BoundsAssumption DEF RunsHaveRoom
<1> QED BY <1>1, <1>2, <1>3, <1>4 DEF LifeInv

LEMMA LifeNext == LifeInv /\ [Next]_vars => LifeInv'
<1> SUFFICES ASSUME LifeInv, [Next]_vars PROVE LifeInv'
    OBVIOUS
<1>1. CASE UNCHANGED vars
    BY <1>1 DEF vars, LifeInv, LifeType, CommandsAreInOrder, Good, InHand, InputInHand, PinInHand,
                Fits, Remote, RunsAreAuthentic, RunIsAuthentic, RunsHaveRoom, Creating
<1>2. CASE Change
    BY <1>2, ChangeKeeps
<1>3. ASSUME NEW p \in Proc, Command(p) PROVE LifeInv'
    <2>1. CASE Quiet(p)
        BY <2>1, QuietCommandsMove, MovesKeep
    <2> QED BY <1>3, <2>1, CreatePromptKeeps, WritePromptKeeps, AppendSectionKeeps, CreateRunKeeps,
               ResumeRunKeeps, SetUpKeeps, FinishKeeps DEF Command, Quiet
<1> QED BY <1>1, <1>2, <1>3 DEF Next

(* The commands and the runs keep their types, and every command has what its next step
   needs: the inductive invariant of BenchmarkLife. *)
THEOREM LifeInvariance == Spec => []LifeInv
  BY LifeInit, LifeNext, PTL DEF Spec

LEMMA InvariantTypes == LifeInv => TypeOK
<1> SUFFICES ASSUME LifeInv PROVE TypeOK
    OBVIOUS
<1>1. \A v \in Version : registry[v] \in Responses \cup {NULL}
    BY DEF LifeInv, LifeType
<1>2. \A f \in File : toml[f] = NULL \/ \A i \in DOMAIN toml[f] : toml[f][i].kind \in {"code", "nocode"}
    <2> SUFFICES ASSUME NEW f \in File, toml[f] # NULL, NEW i \in DOMAIN toml[f]
                 PROVE  toml[f][i].kind \in {"code", "nocode"}
        OBVIOUS
    <2>1. toml[f] \in Seq(SectionRecord)
        BY DEF LifeInv, LifeType
    <2>2. toml[f][i] \in SectionRecord
        BY <2>1
    <2> QED BY <2>2 DEF SectionRecord
<1>3. \A f \in PromptFile : files[f] \in DOMAIN SizeOf \cup {NULL, Empty}
    BY DEF LifeInv, LifeType, Text
<1>4. changes \in 0..MaxChanges
    BY DEF LifeInv, LifeType
<1>5. ASSUME NEW r \in DOMAIN runs
      PROVE  /\ runs[r].status \in {"running", "completed", "failed"}
             /\ \A x \in runs[r].ran : x.text # NULL => x.limit \in 1..Size
    <2>1. r \in 1..Len(runs) /\ runs[r] \in RunRecord
        BY DEF LifeInv, LifeType
    <2>2. RunIsAuthentic(runs[r])
        BY <2>1 DEF LifeInv, RunsAreAuthentic
    <2> QED BY <2>1, <2>2 DEF RunRecord, RunIsAuthentic, Authentic
<1>6. ASSUME NEW p \in Proc, proc[p].id # NULL PROVE proc[p].id \in 1..MaxRuns
    <2>1. proc[p].id \in 1..Len(runs)
        BY <1>6, InOrder DEF Good, InHand
    <2>2. IsFiniteSet(Creating)
        BY BoundsAssumption, FS_Subset DEF Creating
    <2>3. Cardinality(Creating) \in Nat
        BY <2>2, FS_CardinalityType
    <2>4. Len(runs) <= MaxRuns
        BY <2>3, LengthsAndChanges, BoundsAssumption DEF LifeInv, RunsHaveRoom
    <2> QED BY <2>1, <2>4, LengthsAndChanges, BoundsAssumption DEF LifeInv
<1> QED BY <1>1, <1>2, <1>3, <1>4, <1>5, <1>6 DEF TypeOK

(* The prompt that an attempt of a remote run evaluates has a digest the registry declared,
   whatever its URLs serve, or is the file that --input named. *)
THEOREM PromptsStayAuthentic == Spec => []PromptsAreAuthentic
<1>1. LifeInv => PromptsAreAuthentic
    <2> SUFFICES ASSUME LifeInv, NEW r \in DOMAIN runs, runs[r].pin # NULL, NEW x \in runs[r].ran
                 PROVE  IF runs[r].pin.override = NULL THEN x.text \in Declared
                        ELSE x.text = runs[r].pin.override
        BY DEF PromptsAreAuthentic
    <2>1. RunIsAuthentic(runs[r])
        BY DEF LifeInv, LifeType, RunsAreAuthentic
    <2> QED BY <2>1 DEF RunIsAuthentic, Authentic
<1> QED BY <1>1, LifeInvariance, PTL

-----------------------------------------------------------------------------
(* What `qt add' leaves: sections with their prompt, and one writer of the file. *)
AddsAreWhole ==
    /\ \A f \in ConfigFiles : \A i \in 1..Len(toml[f]) :
          toml[f][i].prompt = "added" =>
              files["added"] = toml[f][i].text /\ toml[f][i].text \in DOMAIN SizeOf
    /\ \A p \in Proc : proc[p].at = "write" =>
          files["added"] = Empty /\ \A q \in Proc : proc[q].at = "write" => p = q
    /\ \A p \in Proc : proc[p].at = "append" => files["added"] = proc[p].remote.text

(* No prompt that the registry can serve is empty, as a prompt file is between its creation
   and the write. *)
PromptsAreNotEmpty == Empty \notin DOMAIN SizeOf

LEMMA AddedPromptsAreThere ==
    ASSUME LifeInv, AddsAreWhole, NEW p \in Proc, proc[p].at \in {"prompt", "write", "append"}
    PROVE  /\ proc[p].remote \in Remotes /\ proc[p].remote.text \in DOMAIN SizeOf
           /\ proc[p].remote.text # NULL
<1>1. proc[p].remote \in Remotes
    BY InOrder DEF Good, InHand
<1> QED BY <1>1, RemoteFacts, CommandsAreNoNull DEF Text

LEMMA AddsAreLeftAlone ==
    ASSUME LifeInv, AddsAreWhole, UNCHANGED <<toml, files>>,
           NEW p \in Proc, NEW new, proc' = [proc EXCEPT ![p] = new],
           new.at \notin {"write", "append"}
    PROVE  AddsAreWhole'
<1>1. \A q \in Proc : proc'[q].at \in {"write", "append"} => proc'[q] = proc[q]
    BY InOrder
<1> QED BY <1>1 DEF AddsAreWhole, ConfigFiles

LEMMA CommandsLeaveAddsAlone ==
    ASSUME LifeInv, AddsAreWhole, NEW p \in Proc,
           Quiet(p) \/ CreateRun(p) \/ ResumeRun(p) \/ SetUp(p) \/ Finish(p)
    PROVE  AddsAreWhole'
<1>1. CASE Quiet(p)
    BY <1>1, QuietCommandsMove, AddsAreLeftAlone DEF Moves, world
<1>2. CASE CreateRun(p)
    <2>1. PICK new : proc' = [proc EXCEPT ![p] = new] /\ new.at = "execute"
        BY <1>2, CreateRunFacts
    <2> QED BY <1>2, <2>1, AddsAreLeftAlone DEF CreateRun, world
<1>3. CASE ResumeRun(p)
    <2>1. PICK new : proc' = [proc EXCEPT ![p] = new] /\ new.at = "execute"
        BY <1>3, ResumeRunFacts
    <2> QED BY <1>3, <2>1, AddsAreLeftAlone DEF ResumeRun, world
<1>4. Idle.at = "idle"
    BY DEF Idle
<1>5. CASE SetUp(p) /\ FailRun(p)
    BY <1>4, <1>5, AddsAreLeftAlone DEF SetUp, FailRun, Stop, world
<1>6. CASE SetUp(p) /\ ~FailRun(p)
    <2>1. PICK new : proc' = [proc EXCEPT ![p] = new] /\ new.at = "work"
        BY <1>6, SetUpFacts
    <2> QED BY <1>6, <2>1, AddsAreLeftAlone DEF SetUp, world
<1>7. CASE Finish(p)
    BY <1>4, <1>7, AddsAreLeftAlone DEF Finish, Stop, world
<1> QED BY <1>1, <1>2, <1>3, <1>5, <1>6, <1>7

(* A file that is created was not there: no section and no other command has its prompt in it. *)
LEMMA CreatePromptLeavesAdds ==
    ASSUME LifeInv, AddsAreWhole, NEW p \in Proc, CreatePrompt(p)
    PROVE  AddsAreWhole'
<1>1. proc[p].at = "prompt" /\ UNCHANGED toml
    BY DEF CreatePrompt
<1>2. \A q \in Proc : q # p => proc'[q] = proc[q]
    BY InOrder DEF CreatePrompt, Goto, Stop
<1>3. CASE files["added"] = NULL
    <2>1. /\ files' = [files EXCEPT !["added"] = Empty]
          /\ Goto(p, "write")
        BY <1>3 DEF CreatePrompt
    <2>2. files'["added"] = Empty
        BY <2>1 DEF LifeInv, LifeType, PromptFile
    <2>3. proc'[p].at = "write"
        BY <2>1, InOrder DEF Goto
    <2>4. \A f \in ConfigFiles : \A i \in 1..Len(toml[f]) : toml[f][i].prompt # "added"
        BY <1>3, CommandsAreNoNull DEF AddsAreWhole, Text
    <2>5. \A q \in Proc : proc[q].at \notin {"write", "append"}
        <3>1. \A q \in Proc : proc[q].at # "write"
            BY <1>3, CommandsAreNoNull DEF AddsAreWhole, Text, Empty
        <3>2. \A q \in Proc : proc[q].at # "append"
            BY <1>3, AddedPromptsAreThere DEF AddsAreWhole
        <3> QED BY <3>1, <3>2
    <2> QED BY <1>1, <1>2, <2>2, <2>3, <2>4, <2>5 DEF AddsAreWhole, ConfigFiles
<1>4. CASE files["added"] # NULL
    <2>1. UNCHANGED files
        BY <1>4 DEF CreatePrompt
    <2>2. \/ proc'[p].at = "idle"
          \/ proc'[p].at = "append" /\ proc'[p].remote = proc[p].remote /\ files["added"] = proc[p].remote.text
        <3>1. CASE Stop(p)
            BY <3>1, InOrder DEF Stop, Idle
        <3>2. CASE Goto(p, "append") /\ files["added"] = proc[p].remote.text
            <4>1. PICK P \in ProcRecord : P = proc[p]
                BY InOrder
            <4>2. proc'[p] = [P EXCEPT !.at = "append"]
                BY <3>2, <4>1, InOrder DEF Goto
            <4> QED BY <3>2, <4>1, <4>2 DEF ProcRecord
        <3> QED BY <1>4, <3>1, <3>2 DEF CreatePrompt
    <2>3. \A q \in Proc : proc'[q].at = "write" => q # p /\ proc[q].at = "write"
        BY <1>2, <2>2
    <2>4. \A q \in Proc : proc'[q].at = "append" => files["added"] = proc'[q].remote.text
        BY <1>2, <2>2 DEF AddsAreWhole
    <2> QED BY <1>1, <2>1, <2>3, <2>4 DEF AddsAreWhole, ConfigFiles
<1> QED BY <1>3, <1>4

(* The file that is written was empty, and no text that a section came with is. *)
LEMMA WritePromptLeavesAdds ==
    ASSUME PromptsAreNotEmpty, LifeInv, AddsAreWhole, NEW p \in Proc, WritePrompt(p)
    PROVE  AddsAreWhole'
<1>1. /\ proc[p].at = "write" /\ UNCHANGED toml /\ files["added"] = Empty
      /\ files' = [files EXCEPT !["added"] = proc[p].remote.text] /\ Goto(p, "append")
    BY DEF WritePrompt, AddsAreWhole
<1>2. files'["added"] = proc[p].remote.text
    BY <1>1 DEF LifeInv, LifeType, PromptFile
<1>3. \A q \in Proc : q # p => proc'[q] = proc[q]
    BY <1>1, InOrder DEF Goto
<1>4. proc'[p].at = "append" /\ proc'[p].remote = proc[p].remote
    <2>1. PICK P \in ProcRecord : P = proc[p]
        BY InOrder
    <2>2. proc'[p] = [P EXCEPT !.at = "append"]
        BY <1>1, <2>1, InOrder DEF Goto
    <2> QED BY <2>1, <2>2 DEF ProcRecord
<1>5. \A f \in ConfigFiles : \A i \in 1..Len(toml[f]) : toml[f][i].prompt # "added"
    BY <1>1 DEF AddsAreWhole, PromptsAreNotEmpty
<1>6. \A q \in Proc : proc[q].at # "append"
    BY <1>1, AddedPromptsAreThere DEF AddsAreWhole, PromptsAreNotEmpty
<1>7. \A q \in Proc : proc'[q].at # "write"
    BY <1>1, <1>3, <1>4 DEF AddsAreWhole
<1>8. \A q \in Proc : proc'[q].at = "append" => q = p
    BY <1>3, <1>6
<1> QED BY <1>1, <1>2, <1>4, <1>5, <1>7, <1>8 DEF AddsAreWhole, ConfigFiles

(* The section that is appended has its text in the file; those before it stay. *)
LEMMA AppendSectionLeavesAdds ==
    ASSUME LifeInv, AddsAreWhole, NEW p \in Proc, AppendSection(p)
    PROVE  AddsAreWhole'
<1> DEFINE file == proc[p].file
           existing == IF toml[file] = NULL THEN <<>> ELSE toml[file]
           m == proc[p].remote
<1>1. /\ proc[p].at = "append" /\ Stop(p) /\ UNCHANGED files
      /\ toml' = [toml EXCEPT ![file] = Append(existing, Rendered(m))]
    BY DEF AppendSection
<1>2. file \in File /\ m \in Remotes /\ m.text \in DOMAIN SizeOf /\ files["added"] = m.text
    BY <1>1, InOrder, AddedPromptsAreThere DEF Good, InHand, AddsAreWhole
<1>3. existing \in Seq(SectionRecord)
    BY <1>2 DEF LifeInv, LifeType
<1>4. /\ Rendered(m) \in SectionRecord /\ Rendered(m).text = m.text
    BY <1>2, RenderedIsASection
<1> HIDE DEF existing
<1>5. /\ Len(toml'[file]) = Len(existing) + 1 /\ Len(existing) \in Nat
      /\ \A i \in 1..Len(existing) : toml'[file][i] = existing[i]
      /\ toml'[file][Len(existing) + 1].text = m.text
    <2>1. toml'[file] = Append(existing, Rendered(m))
        BY <1>1, <1>2 DEF LifeInv, LifeType
    <2> QED BY <1>3, <1>4, <2>1
<1>6. ASSUME NEW f \in File, toml'[f] # NULL, NEW i \in 1..Len(toml'[f]), toml'[f][i].prompt = "added"
      PROVE  files["added"] = toml'[f][i].text /\ toml'[f][i].text \in DOMAIN SizeOf
    <2>1. CASE f # file
        <3>1. toml'[f] = toml[f]
            BY <1>1, <2>1 DEF LifeInv, LifeType
        <3> QED BY <1>6, <3>1 DEF AddsAreWhole, ConfigFiles
    <2>2. CASE f = file /\ i \in 1..Len(existing)
        <3>1. toml[file] # NULL /\ existing = toml[file]
            <4>1. toml[file] = NULL => Len(existing) = 0
                BY DEF existing
            <4> QED BY <1>5, <2>2, <4>1 DEF existing
        <3>2. toml'[f][i] = toml[file][i] /\ file \in ConfigFiles
            BY <1>2, <1>5, <2>2, <3>1 DEF ConfigFiles
        <3> QED BY <1>6, <2>2, <3>1, <3>2 DEF AddsAreWhole
    <2>3. CASE f = file /\ i = Len(existing) + 1
        BY <1>2, <1>5, <2>3
    <2> QED BY <1>5, <1>6, <2>1, <2>2, <2>3
<1>7. \A q \in Proc : proc'[q].at \in {"write", "append"} => proc'[q] = proc[q]
    BY <1>1, InOrder DEF Stop, Idle
<1> QED BY <1>1, <1>6, <1>7 DEF AddsAreWhole, ConfigFiles

LEMMA ChangeLeavesAdds ==
    ASSUME LifeInv, AddsAreWhole, Change
    PROVE  AddsAreWhole'
<1>1. UNCHANGED proc
    BY DEF Change
<1>2. files'["added"] = files["added"]
    BY DEF Change, LifeInv, LifeType, PromptFile
<1>3. ASSUME NEW f \in File, toml'[f] # NULL, NEW i \in 1..Len(toml'[f]), toml'[f][i].prompt = "added"
      PROVE  f \in ConfigFiles /\ toml'[f] = toml[f]
    <2>1. CASE UNCHANGED toml
        BY <1>3, <2>1 DEF ConfigFiles
    <2>2. ASSUME NEW g \in File, NEW text \in {NULL, <<>>} \cup {<<s>> : s \in Sections},
                 toml' = [toml EXCEPT ![g] = text]
          PROVE  f \in ConfigFiles /\ toml'[f] = toml[f]
        <3>1. CASE f # g
            BY <1>3, <2>2, <3>1 DEF LifeInv, LifeType, ConfigFiles
        <3>2. CASE f = g
            <4>1. toml'[f] = text
                BY <2>2, <3>2 DEF LifeInv, LifeType
            <4>2. PICK s \in Sections : text = <<s>>
                BY <1>3, <4>1
            <4>3. i = 1 /\ toml'[f][i] = s
                BY <1>3, <4>1, <4>2
            <4> QED BY <1>3, <4>3, DataAssumption
        <3> QED BY <3>1, <3>2
    <2> QED BY <2>1, <2>2 DEF Change
<1> QED BY <1>1, <1>2, <1>3 DEF AddsAreWhole, ConfigFiles

LEMMA AddsInit == Init => AddsAreWhole
<1> SUFFICES ASSUME Init PROVE AddsAreWhole
    OBVIOUS
<1>1. \A p \in Proc : proc[p].at = "idle"
    BY DEF Init, Idle
<1>2. PICK text \in {NULL} \cup {<<s>> : s \in Sections} :
          toml = [f \in File |-> IF f = "quantiles.toml" THEN text ELSE NULL]
    BY DEF Init
<1>3. ASSUME NEW f \in ConfigFiles, NEW i \in 1..Len(toml[f]) PROVE toml[f][i].prompt # "added"
    <2>1. toml[f] # NULL /\ f \in File
        BY <1>3 DEF ConfigFiles
    <2>2. PICK s \in Sections : toml[f] = <<s>>
        BY <1>2, <2>1
    <2>3. toml[f][i] = s
        BY <1>3, <2>2
    <2> QED BY <2>3, DataAssumption
<1> QED BY <1>1, <1>3 DEF AddsAreWhole

LEMMA AddsNext == PromptsAreNotEmpty /\ LifeInv /\ AddsAreWhole /\ [Next]_vars => AddsAreWhole'
<1> SUFFICES ASSUME PromptsAreNotEmpty, LifeInv, AddsAreWhole, [Next]_vars PROVE AddsAreWhole'
    OBVIOUS
<1>1. CASE UNCHANGED vars
    BY <1>1 DEF vars, AddsAreWhole, ConfigFiles
<1>2. CASE Change
    BY <1>2, ChangeLeavesAdds
<1>3. ASSUME NEW p \in Proc, Command(p) PROVE AddsAreWhole'
    BY <1>3, CommandsLeaveAddsAlone, CreatePromptLeavesAdds, WritePromptLeavesAdds,
       AppendSectionLeavesAdds DEF Command, Quiet
<1> QED BY <1>1, <1>2, <1>3 DEF Next

LEMMA AddsInvariance ==
    ASSUME PromptsAreNotEmpty
    PROVE  Spec => []AddsAreWhole
  BY PromptsAreNotEmpty, AddsInit, AddsNext, LifeInvariance, PTL DEF Spec

(* The types are kept; and whichever `qt add' are killed at any of their steps or overlap,
   a section that one of them has appended stands next to the whole prompt it came with. *)
THEOREM AddedSectionsStayComplete ==
    ASSUME PromptsAreNotEmpty
    PROVE  Spec => []AddedSectionsHaveTheirPrompt
<1>1. LifeInv /\ AddsAreWhole => AddedSectionsHaveTheirPrompt
    <2> SUFFICES ASSUME LifeInv, AddsAreWhole, NEW f \in ConfigFiles, NEW i \in DOMAIN toml[f],
                        toml[f][i].prompt = "added"
                 PROVE  files["added"] = toml[f][i].text
        BY InvariantTypes DEF AddedSectionsHaveTheirPrompt
    <2>1. toml[f] \in Seq(SectionRecord)
        BY DEF LifeInv, LifeType, ConfigFiles
    <2>2. i \in 1..Len(toml[f])
        BY <2>1
    <2> QED BY <2>2 DEF AddsAreWhole
<1> QED BY <1>1, LifeInvariance, AddsInvariance, PTL

-----------------------------------------------------------------------------
(* The attempts of a remote run evaluate one thing. *)
PinnedRun(run) ==
    run.pin # NULL =>
        \A x \in run.ran : \E m \in Remotes :
            /\ m.sha256 = run.pin.sha256
            /\ x = [text |-> IF run.pin.override = NULL THEN m.text ELSE run.pin.override,
                    limit |-> ResolveLimit(run.input.limit), from |-> run.pin.sha256]
PinnedInput(P, run) ==
    run.pin # NULL /\ P.at \in {"resolve", "download", "prepare", "restart", "execute"} =>
        ResolveLimit(P.input.limit) = ResolveLimit(run.input.limit)
PinnedAttempts ==
    \A r \in 1..Len(runs) :
        PinnedRun(runs[r]) /\ \A p \in Proc : proc[p].id = r => PinnedInput(proc[p], runs[r])

(* Two responses of one manifest digest are one, as two manifests of one digest are. *)
DigestsTellApart == \A x, y \in Responses : x.sha256 = y.sha256 => x = y

LEMMA OneRemotePerDigest ==
    ASSUME DigestsTellApart, NEW m \in Remotes, NEW n \in Remotes, m.sha256 = n.sha256
    PROVE  m = n
<1>1. PICK x \in Responses : m = RemoteOf(x) /\ m # NULL
    BY DEF Remotes
<1>2. PICK y \in Responses : n = RemoteOf(y) /\ n # NULL
    BY DEF Remotes
<1>3. m.sha256 = x.sha256
    BY <1>1 DEF RemoteOf, Assemble
<1>4. n.sha256 = y.sha256
    BY <1>2 DEF RemoteOf, Assemble
<1>5. x = y
    BY <1>3, <1>4 DEF DigestsTellApart
<1> QED BY <1>1, <1>2, <1>5

LEMMA PinnedMoves ==
    ASSUME LifeInv, PinnedAttempts, UNCHANGED runs,
           NEW p \in Proc, NEW new, proc' = [proc EXCEPT ![p] = new],
           new.id \in 1..Len(runs) => PinnedInput(new, runs[new.id])
    PROVE  PinnedAttempts'
<1>1. \A q \in Proc : proc'[q] = IF q = p THEN new ELSE proc[q]
    BY InOrder
<1> QED BY <1>1 DEF PinnedAttempts, PinnedRun, PinnedInput

LEMMA QuietCommandsLeavePinned ==
    ASSUME LifeInv, PinnedAttempts, NEW p \in Proc, Quiet(p)
    PROVE  PinnedAttempts'
<1>1. PICK new \in ProcRecord : Moves(p, new)
    BY QuietCommandsMove
<1>2. ASSUME new.id \in 1..Len(runs) PROVE PinnedInput(new, runs[new.id])
    <2>1. new.id # NULL
        BY <1>2, CommandsAreNoNull, LengthsAndChanges DEF LifeInv
    <2>2. CASE new.input = runs[new.id].input
        BY <2>2 DEF PinnedInput
    <2>3. CASE new.id = proc[p].id /\ new.input = proc[p].input
               /\ proc[p].at \in {"resolve", "download", "prepare"}
        BY <1>2, <2>3 DEF PinnedAttempts, PinnedInput
    <2> QED BY <1>1, <2>1, <2>2, <2>3 DEF Moves
<1> QED BY <1>1, <1>2, PinnedMoves DEF Moves

LEMMA IdsInHand ==
    ASSUME LifeInv, NEW p \in Proc, proc[p].id # NULL
    PROVE  proc[p].id \in 1..Len(runs)
<1>1. PICK P : P = proc[p] /\ Good(P)
    BY InOrder
<1> QED BY <1>1 DEF Good, InHand

LEMMA CreateRunLeavesPinned ==
    ASSUME LifeInv, PinnedAttempts, NEW p \in Proc, CreateRun(p)
    PROVE  PinnedAttempts'
<1>1. PICK run \in RunRecord, new \in ProcRecord, n \in Nat :
          /\ n = Len(runs) + 1
          /\ Len(runs') = n /\ \A r \in 1..Len(runs) : runs'[r] = runs[r]
          /\ runs'[n] = run
          /\ run.input = proc[p].input /\ run.ran = {}
          /\ proc' = [proc EXCEPT ![p] = new]
          /\ new.id = n /\ new.input = proc[p].input
    BY CreateRunFacts
<1>2. \A q \in Proc : proc'[q] = IF q = p THEN new ELSE proc[q]
    BY <1>1, InOrder
<1>3. Len(runs) \in Nat
    BY LengthsAndChanges DEF LifeInv
<1>4. PinnedRun(run) /\ PinnedInput(new, run)
    BY <1>1 DEF PinnedRun, PinnedInput
<1>5. \A q \in Proc : proc[q].id # n
    BY <1>1, <1>3, IdsInHand, CommandsAreNoNull
<1>6. ASSUME NEW r \in 1..Len(runs') PROVE r = n \/ r \in 1..Len(runs)
    BY <1>1, <1>3
<1>7. ASSUME NEW r \in 1..Len(runs)
      PROVE  PinnedRun(runs'[r]) /\ \A q \in Proc : proc'[q].id = r => PinnedInput(proc'[q], runs'[r])
    <2>1. runs'[r] = runs[r] /\ r # n
        BY <1>1, <1>3
    <2> QED BY <1>1, <1>2, <2>1 DEF PinnedAttempts
<1>8. PinnedRun(runs'[n]) /\ \A q \in Proc : proc'[q].id = n => PinnedInput(proc'[q], runs'[n])
    BY <1>1, <1>2, <1>4, <1>5
<1>9. \A r \in 1..Len(runs') :
          PinnedRun(runs'[r]) /\ \A q \in Proc : proc'[q].id = r => PinnedInput(proc'[q], runs'[r])
    BY <1>6, <1>7, <1>8
<1> QED BY <1>9 DEF PinnedAttempts, PinnedRun, PinnedInput

LEMMA PinnedRowMoves ==
    ASSUME LifeInv, PinnedAttempts,
           NEW p \in Proc, NEW new, proc' = [proc EXCEPT ![p] = new],
           NEW r \in 1..Len(runs), NEW row \in RunRecord, runs' = [runs EXCEPT ![r] = row],
           row.pin = runs[r].pin, PinnedRun(row),
           row.pin # NULL => ResolveLimit(row.input.limit) = ResolveLimit(runs[r].input.limit),
           new.id = r \/ new.id = NULL, new.id = r => PinnedInput(new, row)
    PROVE  PinnedAttempts'
<1>1. Len(runs') = Len(runs) /\ \A s \in 1..Len(runs) : runs'[s] = IF s = r THEN row ELSE runs[s]
    BY ExceptSeq DEF LifeInv, LifeType
<1>2. \A q \in Proc : proc'[q] = IF q = p THEN new ELSE proc[q]
    BY InOrder
<1>3. ASSUME NEW s \in 1..Len(runs)
      PROVE  PinnedRun(runs'[s]) /\ \A q \in Proc : proc'[q].id = s => PinnedInput(proc'[q], runs'[s])
    <2>1. s # NULL
        BY CommandsAreNoNull, LengthsAndChanges DEF LifeInv
    <2>2. CASE s = r
        <3>1. \A q \in Proc : proc[q].id = r => PinnedInput(proc[q], runs[r])
            BY DEF PinnedAttempts
        <3>2. \A q \in Proc : proc[q].id = r => PinnedInput(proc[q], row)
            BY <3>1 DEF PinnedInput
        <3> QED BY <1>1, <1>2, <2>2, <3>2
    <2>3. CASE s # r
        BY <1>1, <1>2, <2>1, <2>3 DEF PinnedAttempts
    <2> QED BY <2>2, <2>3
<1> QED BY <1>1, <1>3 DEF PinnedAttempts, PinnedRun, PinnedInput

LEMMA ResumeRunLeavesPinned ==
    ASSUME LifeInv, PinnedAttempts, NEW p \in Proc, ResumeRun(p)
    PROVE  PinnedAttempts'
<1>1. PICK P \in ProcRecord : P = proc[p] /\ Good(P)
    BY InOrder
<1>2. P.at = "restart" /\ P.id \in 1..Len(runs)
    BY <1>1 DEF ResumeRun, Good, InHand
<1>3. PICK row \in RunRecord, new \in ProcRecord :
          /\ runs' = [runs EXCEPT ![P.id] = row] /\ proc' = [proc EXCEPT ![p] = new]
          /\ row.pin = runs[P.id].pin /\ row.input = runs[P.id].input
          /\ row.ran = runs[P.id].ran
          /\ new.at = "execute" /\ new.id = P.id
          /\ new.input = ResumedInput(P.section, P.input)
    BY <1>1, ResumeRunFacts
<1>4. PinnedRun(row)
    BY <1>2, <1>3 DEF PinnedAttempts, PinnedRun
<1>5. PinnedInput(new, row)
    <2>1. PinnedInput(P, runs[P.id])
        BY <1>1, <1>2 DEF PinnedAttempts
    <2>2. row.pin # NULL => P.section = NULL
        BY <1>1, <1>2, <1>3 DEF Good, PinInHand, Remote
    <2>3. row.pin # NULL => new.input = P.input
        BY <1>3, <2>2 DEF ResumedInput
    <2> QED BY <1>2, <1>3, <2>1, <2>3 DEF PinnedInput
<1> QED BY <1>2, <1>3, <1>4, <1>5, PinnedRowMoves

(* The attempt of a pinned run is what its pin says. *)
LEMMA SetUpLeavesPinned ==
    ASSUME LifeInv, PinnedAttempts, NEW p \in Proc, SetUp(p), ~FailRun(p)
    PROVE  PinnedAttempts'
<1>1. PICK P \in ProcRecord : P = proc[p] /\ Good(P)
    BY InOrder
<1>2. P.at = "execute" /\ P.id \in 1..Len(runs) /\ P.input \in Assembled
    BY <1>1 DEF SetUp, Good, InHand, InputInHand
<1>3. PICK row \in RunRecord, new \in ProcRecord :
          /\ runs' = [runs EXCEPT ![P.id] = row] /\ proc' = [proc EXCEPT ![p] = new]
          /\ row.pin = runs[P.id].pin
          /\ row.input.limit = SetUpLimit(P)
          /\ row.ran = runs[P.id].ran \cup {Attempt(P)}
          /\ new.at = "work" /\ new.id = P.id
    BY <1>1, SetUpFacts
<1>4. ASSUME row.pin # NULL
      PROVE  /\ ResolveLimit(row.input.limit) = ResolveLimit(runs[P.id].input.limit)
             /\ P.section = NULL /\ Fits(P, row.pin)
             /\ SetUpLimit(P) = ResolveLimit(row.input.limit)
    <2>1. P.section = NULL /\ Fits(P, row.pin)
        BY <1>1, <1>2, <1>3, <1>4 DEF Good, PinInHand, Remote
    <2>2. PinnedInput(P, runs[P.id])
        BY <1>1, <1>2 DEF PinnedAttempts
    <2>3. P.input.limit \in Limit
        BY <1>2 DEF Assembled
    <2>4. row.input.limit = ResolveLimit(P.input.limit) /\ SetUpLimit(P) = ResolveLimit(P.input.limit)
        BY <1>3, <2>1 DEF SetUpLimit
    <2> QED BY <1>2, <1>3, <1>4, <2>1, <2>2, <2>3, <2>4, ResolvedLimit DEF PinnedInput
<1>5. PinnedRun(row)
    <2> DEFINE Fitting(x, m) ==
                  /\ m.sha256 = row.pin.sha256
                  /\ x = [text |-> IF row.pin.override = NULL THEN m.text ELSE row.pin.override,
                          limit |-> ResolveLimit(row.input.limit), from |-> row.pin.sha256]
    <2> SUFFICES ASSUME row.pin # NULL, NEW x \in row.ran PROVE \E m \in Remotes : Fitting(x, m)
        BY DEF PinnedRun
    <2>1. CASE x \in runs[P.id].ran
        <3>1. PinnedRun(runs[P.id])
            BY <1>2 DEF PinnedAttempts
        <3> QED BY <1>3, <1>4, <2>1, <3>1 DEF PinnedRun
    <2>2. CASE x = Attempt(P)
        <3>1. x = [text |-> P.text, limit |-> SetUpLimit(P), from |-> P.remote.sha256]
            BY <1>4, <2>2 DEF Attempt, SetUpText
        <3>2. P.remote \in Remotes /\ Fitting(x, P.remote)
            BY <1>4, <3>1 DEF Fits
        <3> QED BY <3>2
    <2> QED BY <1>3, <2>1, <2>2
<1>6. PinnedInput(new, row)
    BY <1>3 DEF PinnedInput
<1> QED BY <1>2, <1>3, <1>4, <1>5, <1>6, PinnedRowMoves

LEMMA RowOfStatus ==
    ASSUME LifeInv, NEW p \in Proc, proc[p].id \in 1..Len(runs),
           NEW status \in {"running", "completed", "failed"},
           runs' = [runs EXCEPT ![proc[p].id].status = status]
    PROVE  \E row \in RunRecord, r \in 1..Len(runs) :
              /\ r = proc[p].id
              /\ row.pin = runs[r].pin /\ row.input = runs[r].input /\ row.ran = runs[r].ran
              /\ row.plain = runs[r].plain /\ row.since = runs[r].since
              /\ runs' = [runs EXCEPT ![r] = row]
<1>1. PICK r \in 1..Len(runs) : r = proc[p].id
    OBVIOUS
<1>2. PICK row \in RunRecord :
          /\ row.pin = runs[r].pin /\ row.input = runs[r].input /\ row.ran = runs[r].ran
          /\ row.plain = runs[r].plain /\ row.since = runs[r].since
          /\ RunIsAuthentic(row)
          /\ [runs EXCEPT ![r].status = status] = [runs EXCEPT ![r] = row]
    BY StatusRow, Zenon
<1>3. runs' = [runs EXCEPT ![r] = row]
    BY <1>1, <1>2, Zenon
<1> QED BY <1>1, <1>2, <1>3

LEMMA StatusLeavesPinned ==
    ASSUME LifeInv, PinnedAttempts, NEW p \in Proc, proc[p].id \in 1..Len(runs),
           NEW status \in {"running", "completed", "failed"},
           runs' = [runs EXCEPT ![proc[p].id].status = status], Stop(p)
    PROVE  PinnedAttempts'
<1>1. PICK row \in RunRecord, r \in 1..Len(runs) :
          /\ r = proc[p].id
          /\ row.pin = runs[r].pin /\ row.input = runs[r].input /\ row.ran = runs[r].ran
          /\ runs' = [runs EXCEPT ![r] = row]
    <2>1. PICK row \in RunRecord, r \in 1..Len(runs) :
              /\ r = proc[p].id
              /\ row.pin = runs[r].pin /\ row.input = runs[r].input /\ row.ran = runs[r].ran
              /\ row.plain = runs[r].plain /\ row.since = runs[r].since
              /\ runs' = [runs EXCEPT ![r] = row]
        BY RowOfStatus, Zenon
    <2> QED BY <2>1
<1>2. PinnedRun(row)
    BY <1>1 DEF PinnedAttempts, PinnedRun
<1>3. Idle.id = NULL /\ PinnedInput(Idle, row) /\ proc' = [proc EXCEPT ![p] = Idle]
    BY DEF Idle, PinnedInput, Stop
<1> QED BY <1>1, <1>2, <1>3, PinnedRowMoves

LEMMA PinnedNext == LifeInv /\ PinnedAttempts /\ [Next]_vars => PinnedAttempts'
<1> SUFFICES ASSUME LifeInv, PinnedAttempts, [Next]_vars PROVE PinnedAttempts'
    OBVIOUS
<1>1. CASE UNCHANGED vars
    BY <1>1 DEF vars, PinnedAttempts, PinnedRun, PinnedInput
<1>2. CASE Change
    BY <1>2 DEF Change, PinnedAttempts, PinnedRun, PinnedInput
<1>3. ASSUME NEW p \in Proc, Command(p) PROVE PinnedAttempts'
    <2>1. PICK P \in ProcRecord : P = proc[p] /\ Good(P)
        BY InOrder
    <2>2. CASE CreatePrompt(p) \/ WritePrompt(p) \/ AppendSection(p)
        <3>1. P.id = NULL /\ UNCHANGED runs
            BY <2>1, <2>2 DEF CreatePrompt, WritePrompt, AppendSection, Good, InHand
        <3>2. NULL \notin 1..Len(runs)
            BY CommandsAreNoNull, LengthsAndChanges DEF LifeInv
        <3>3. \E at \in AtType : proc' = [proc EXCEPT ![p] = [P EXCEPT !.at = at]] \/ Stop(p)
            BY <2>1, <2>2, InOrder DEF CreatePrompt, WritePrompt, AppendSection, Goto, AtType
        <3>4. \A at \in AtType : [P EXCEPT !.at = at].id = P.id
            BY DEF ProcRecord
        <3>5. Idle.id = NULL
            BY DEF Idle
        <3>6. PICK new : proc' = [proc EXCEPT ![p] = new] /\ new.id = NULL
            BY <3>1, <3>3, <3>4, <3>5 DEF Stop
        <3> QED BY <3>1, <3>2, <3>6, PinnedMoves
    <2>3. CASE SetUp(p) /\ FailRun(p)
        <3>1. P.id \in 1..Len(runs)
            BY <2>1, <2>3 DEF SetUp, Good, InHand
        <3> QED BY <2>1, <2>3, <3>1, StatusLeavesPinned DEF FailRun
    <2>4. CASE Finish(p)
        <3>1. P.id \in 1..Len(runs)
            BY <2>1, <2>4 DEF Finish, Good, InHand
        <3> QED BY <2>1, <2>4, <3>1, StatusLeavesPinned DEF Finish
    <2>5. CASE Quiet(p)
        BY <2>5, QuietCommandsLeavePinned
    <2> QED BY <1>3, <2>2, <2>3, <2>4, <2>5, CreateRunLeavesPinned, ResumeRunLeavesPinned,
               SetUpLeavesPinned DEF Command, Quiet
<1> QED BY <1>1, <1>2, <1>3 DEF Next

LEMMA PinnedInvariance == Spec => []PinnedAttempts
<1>1. Init => PinnedAttempts
    BY DEF Init, PinnedAttempts
<1> QED BY <1>1, PinnedNext, LifeInvariance, PTL DEF Spec


-----------------------------------------------------------------------------
(* So do those of a local run as long as nobody changes anything: the section it was
   started with stands in the configuration. *)
Standing == {toml[f][1] : f \in {g \in ConfigFiles : toml[g] # <<>>}}
Evaluated(s) ==
    IF s.kind = "code" THEN [text |-> NULL, limit |-> s.limit, from |-> NULL]
    ELSE [text |-> files[s.prompt], limit |-> ResolveLimit(s.limit), from |-> NULL]
Lasting(run) == run.pin = NULL /\ run.plain = TRUE /\ run.since = changes
LocalRun(run, s) ==
    (\A x \in run.ran : x = Evaluated(s)) /\ (s.kind = "code" => run.input.limit = s.limit)
LocalCommand(P, s) ==
    P.at \in {"restart", "execute"} =>
        /\ P.section = s
        /\ P.at = "execute" \/ s.kind = "code" => FromSection(P.input, s)
LocalCreation(P) ==
    P.at = "create" /\ ~Remote(P) /\ P.plain = TRUE /\ P.since = changes =>
        P.section \in Standing /\ FromSection(P.input, P.section)
LocalAttempts ==
    /\ \A r \in 1..Len(runs) : Lasting(runs[r]) =>
          \E s \in Standing :
              LocalRun(runs[r], s) /\ \A p \in Proc : proc[p].id = r => LocalCommand(proc[p], s)
    /\ \A p \in Proc : LocalCreation(proc[p])

(* What a step of a command does to it and to its run. *)
KeepsSection(P, new, run, row) ==
    \A s \in Standing : Lasting(run) /\ LocalRun(run, s) /\ LocalCommand(P, s) =>
        LocalRun(row, s) /\ (new.id = P.id => LocalCommand(new, s))

LEMMA StandingFacts ==
    ASSUME LifeInv, NEW s \in Standing
    PROVE  /\ s \in SectionRecord /\ s.kind \in {"code", "nocode"}
           /\ s.kind # "code" => s.prompt \in PromptFile
<1>1. PICK f \in ConfigFiles : toml[f] # <<>> /\ s = toml[f][1]
    BY DEF Standing
<1>2. toml[f] \in Seq(SectionRecord)
    BY DEF LifeInv, LifeType, ConfigFiles
<1>3. s \in SectionRecord
    BY <1>1, <1>2
<1> QED BY <1>3 DEF SectionRecord

(* A configuration that loads has one section at most. *)
LEMMA LoadedStands ==
    ASSUME LifeInv, Loadable, NEW s \in Standing
    PROVE  s = LoadedSection
<1>1. PICK f \in ConfigFiles : toml[f] # <<>> /\ s = toml[f][1]
    BY DEF Standing
<1> DEFINE g == CHOOSE h \in ConfigFiles : toml[h] # <<>>
<1>2. g \in ConfigFiles /\ LoadedSection = toml[g][1]
    BY <1>1 DEF LoadedSection
<1> HIDE DEF g
<1>3. f = g
    <2> SUFFICES ASSUME f # g PROVE FALSE
        OBVIOUS
    <2>1. IsFiniteSet({f}) /\ Cardinality({f}) = 1
        BY FS_Singleton
    <2>2. IsFiniteSet({f} \cup {g}) /\ Cardinality({f} \cup {g}) = 2
        BY <2>1, FS_AddElement
    <2>3. IsFiniteSet(ConfigFiles)
        <3>1. IsFiniteSet({"quantiles.toml"})
            BY FS_Singleton
        <3>2. IsFiniteSet({"quantiles.toml"} \cup {".quantiles.toml"})
            BY <3>1, FS_AddElement
        <3>3. File = {"quantiles.toml"} \cup {".quantiles.toml"} /\ ConfigFiles \subseteq File
            BY DEF File, ConfigFiles
        <3> QED BY <3>2, <3>3, FS_Subset
    <2>4. Cardinality({f} \cup {g}) <= Cardinality(ConfigFiles)
        BY <1>2, <2>3, FS_Subset
    <2> QED BY <2>2, <2>3, <2>4, FS_CardinalityType DEF Loadable
<1> QED BY <1>1, <1>2, <1>3

LEMMA LoadedIsStanding ==
    ASSUME LifeInv, LoadedSection # NULL
    PROVE  LoadedSection \in Standing
  BY LoadedFacts DEF Standing, LifeInv

(* A command goes on and leaves the runs, and what stands in the configuration. *)
LEMMA LocalMoves ==
    ASSUME LifeInv, LocalAttempts, UNCHANGED <<changes, runs>>,
           NEW p \in Proc, NEW new, proc' = [proc EXCEPT ![p] = new],
           Standing \subseteq Standing', \A s \in Standing : Evaluated(s)' = Evaluated(s),
           \A r \in 1..Len(runs), s \in Standing :
               new.id = r /\ Lasting(runs[r]) /\ LocalRun(runs[r], s) => LocalCommand(new, s),
           LocalCreation(new)
    PROVE  LocalAttempts'
<1>1. \A q \in Proc : proc'[q] = IF q = p THEN new ELSE proc[q]
    BY InOrder
<1>2. ASSUME NEW r \in 1..Len(runs), Lasting(runs[r])
      PROVE  \E s \in Standing : LocalRun(runs[r], s)' /\ \A q \in Proc : proc'[q].id = r => LocalCommand(proc'[q], s)
    <2>1. PICK s \in Standing :
              LocalRun(runs[r], s) /\ \A q \in Proc : proc[q].id = r => LocalCommand(proc[q], s)
        BY <1>2 DEF LocalAttempts
    <2>2. LocalRun(runs[r], s)'
        BY <2>1 DEF LocalRun
    <2>3. \A q \in Proc : proc'[q].id = r => LocalCommand(proc'[q], s)
        BY <1>1, <1>2, <2>1
    <2> QED BY <2>2, <2>3
<1>3. \A r \in 1..Len(runs) : Lasting(runs[r])' => Lasting(runs[r])
    BY DEF Lasting
<1>4. ASSUME NEW q \in Proc PROVE LocalCreation(proc[q])'
    BY <1>1 DEF LocalAttempts, LocalCreation, Remote
<1>5. ASSUME NEW r \in 1..Len(runs), Lasting(runs[r])'
      PROVE  \E s \in Standing' : LocalRun(runs[r], s)' /\ \A q \in Proc : (proc[q].id = r => LocalCommand(proc[q], s))'
    <2>1. PICK s \in Standing : LocalRun(runs[r], s)' /\ \A q \in Proc : proc'[q].id = r => LocalCommand(proc'[q], s)
        BY <1>2, <1>3, <1>5
    <2>2. \A q \in Proc : (proc[q].id = r => LocalCommand(proc[q], s))'
        BY <2>1 DEF LocalCommand
    <2> QED BY <2>1, <2>2
<1> QED BY <1>4, <1>5 DEF LocalAttempts

LEMMA PinsAreNoNull ==
    ASSUME LifeInv, NEW P, Good(P), P.at \in {"restart", "execute"}, runs[P.id].pin = NULL
    PROVE  P.section # NULL /\ ~Remote(P)
  BY NullAssumption DEF Good, PinInHand, Fits, Remote

LEMMA QuietCommandsLeaveLocal ==
    ASSUME LifeInv, LocalAttempts, NEW p \in Proc, Quiet(p)
    PROVE  LocalAttempts'
<1>1. PICK new \in ProcRecord : Moves(p, new)
    BY QuietCommandsMove
<1>2. UNCHANGED <<changes, runs, toml, files>> /\ proc' = [proc EXCEPT ![p] = new]
    BY <1>1 DEF Moves, world
<1>3. Standing \subseteq Standing' /\ \A s \in Standing : Evaluated(s)' = Evaluated(s)
    BY <1>2 DEF Standing, ConfigFiles, Evaluated
<1>4. ASSUME NEW r \in 1..Len(runs), NEW s \in Standing, new.id = r, Lasting(runs[r]), LocalRun(runs[r], s)
      PROVE  LocalCommand(new, s)
    <2> SUFFICES ASSUME new.at \in {"restart", "execute"} PROVE LocalCommand(new, s)
        BY DEF LocalCommand
    <2>1. new.at = "restart" /\ Good(new)
        BY <1>1 DEF Moves
    <2>2. new.section # NULL /\ ~Remote(new)
        BY <1>4, <2>1, PinsAreNoNull DEF Lasting
    <2>3. new.id # NULL
        BY <1>4, CommandsAreNoNull, LengthsAndChanges DEF LifeInv
    <2>4. new.input = runs[r].input /\ Loadable /\ new.section = LoadedSection
        BY <1>1, <1>4, <2>2, <2>3 DEF Moves
    <2>5. new.section = s
        BY <2>4, LoadedStands
    <2>6. s.kind = "code" => FromSection(new.input, s)
        BY <1>4, <2>4 DEF LocalRun, FromSection
    <2> QED BY <2>1, <2>5, <2>6 DEF LocalCommand
<1>5. LocalCreation(new)
    <2> SUFFICES ASSUME new.at = "create", ~Remote(new), new.plain = TRUE
                 PROVE  new.section \in Standing /\ FromSection(new.input, new.section)
        BY DEF LocalCreation
    <2>1. Loadable /\ new.section = LoadedSection /\ FromSection(new.input, new.section)
        BY <1>1 DEF Moves
    <2> QED BY <2>1, LoadedIsStanding DEF Remote
<1> QED BY <1>2, <1>3, <1>4, <1>5, LocalMoves

LEMMA CreateRunLeavesLocal ==
    ASSUME LifeInv, LocalAttempts, NEW p \in Proc, CreateRun(p)
    PROVE  LocalAttempts'
<1>0. PICK P \in ProcRecord : P = proc[p] /\ Good(P)
    BY InOrder
<1>1. PICK run \in RunRecord, new \in ProcRecord, n \in Nat :
          /\ n = Len(runs) + 1
          /\ Len(runs') = n /\ \A r \in 1..Len(runs) : runs'[r] = runs[r]
          /\ runs'[n] = run
          /\ run.input = P.input /\ run.pin = P.pin /\ run.ran = {}
          /\ run.plain = P.plain /\ run.since = P.since
          /\ proc' = [proc EXCEPT ![p] = new]
          /\ new.at = "execute" /\ new.id = n
          /\ new.input = P.input /\ new.section = P.section
    BY <1>0, CreateRunFacts
<1>2. \A q \in Proc : proc'[q] = IF q = p THEN new ELSE proc[q]
    BY <1>1, InOrder
<1>3. Len(runs) \in Nat /\ P.at = "create" /\ UNCHANGED <<toml, files, changes>>
    BY <1>0, LengthsAndChanges DEF LifeInv, CreateRun, world
<1>4. \A q \in Proc : proc[q].id # n
    BY <1>1, <1>3, IdsInHand, CommandsAreNoNull
<1>5. ASSUME Lasting(run)
      PROVE  \E s \in Standing :
                LocalRun(run, s) /\ \A q \in Proc : proc'[q].id = n => LocalCommand(proc'[q], s)
    <2>1. ~Remote(P)
        BY <1>0, <1>1, <1>3, <1>5, NullAssumption DEF Lasting, Good, PinInHand, Fits
    <2>2. LocalCreation(P)
        BY <1>0 DEF LocalAttempts
    <2>3. P.section \in Standing /\ FromSection(P.input, P.section)
        BY <1>1, <1>3, <1>5, <2>1, <2>2 DEF LocalCreation, Lasting
    <2>4. LocalRun(run, P.section)
        BY <1>1, <2>3 DEF LocalRun, FromSection
    <2>5. LocalCommand(new, P.section)
        BY <1>1, <2>3 DEF LocalCommand
    <2> QED BY <1>2, <1>4, <2>3, <2>4, <2>5
<1>6. ASSUME NEW r \in 1..Len(runs), Lasting(runs[r])
      PROVE  \E s \in Standing :
                LocalRun(runs'[r], s) /\ \A q \in Proc : proc'[q].id = r => LocalCommand(proc'[q], s)
    <2>1. PICK s \in Standing :
              LocalRun(runs[r], s) /\ \A q \in Proc : proc[q].id = r => LocalCommand(proc[q], s)
        BY <1>6 DEF LocalAttempts
    <2>2. r # n /\ runs'[r] = runs[r]
        BY <1>1, <1>3
    <2> QED BY <1>1, <1>2, <2>1, <2>2
<1>7. ASSUME NEW r \in 1..Len(runs'), Lasting(runs[r])'
      PROVE  (\E s \in Standing :
                LocalRun(runs[r], s) /\ \A q \in Proc : proc[q].id = r => LocalCommand(proc[q], s))'
    <2>1. r = n \/ r \in 1..Len(runs)
        BY <1>1, <1>3
    <2>2. Lasting(runs'[r])
        BY <1>3, <1>7 DEF Lasting
    <2>3. PICK s \in Standing :
              LocalRun(runs'[r], s) /\ \A q \in Proc : proc'[q].id = r => LocalCommand(proc'[q], s)
        <3>1. CASE r = n
            BY <1>1, <1>5, <2>2, <3>1
        <3>2. CASE r \in 1..Len(runs)
            <4>1. Lasting(runs[r])
                BY <1>1, <2>2, <3>2
            <4> QED BY <1>6, <3>2, <4>1
        <3> QED BY <2>1, <3>1, <3>2
    <2>4. s \in Standing' /\ LocalRun(runs[r], s)'
        BY <1>3, <2>3 DEF Standing, ConfigFiles, LocalRun, Evaluated
    <2>5. (\A q \in Proc : proc[q].id = r => LocalCommand(proc[q], s))'
        BY <2>3 DEF LocalCommand
    <2> QED BY <2>4, <2>5
<1>8. ASSUME NEW q \in Proc PROVE LocalCreation(proc[q])'
    <2>1. LocalCreation(new)
        BY <1>1 DEF LocalCreation
    <2>2. LocalCreation(proc'[q])
        BY <1>2, <2>1 DEF LocalAttempts
    <2> QED BY <1>3, <2>2 DEF LocalCreation, Remote, Standing, ConfigFiles
<1> QED BY <1>7, <1>8 DEF LocalAttempts

(* A command writes its run, of which nothing changes but what it has evaluated. *)
LEMMA LocalRowMoves ==
    ASSUME LifeInv, LocalAttempts, UNCHANGED <<toml, files, changes>>,
           NEW p \in Proc, NEW new, proc' = [proc EXCEPT ![p] = new],
           NEW r \in 1..Len(runs), NEW row \in RunRecord, runs' = [runs EXCEPT ![r] = row],
           row.pin = runs[r].pin, row.plain = runs[r].plain, row.since = runs[r].since,
           proc[p].id = r, new.id = r \/ new.id = NULL, new.at # "create",
           KeepsSection(proc[p], new, runs[r], row)
    PROVE  LocalAttempts'
<1>1. Len(runs') = Len(runs) /\ \A s \in 1..Len(runs) : runs'[s] = IF s = r THEN row ELSE runs[s]
    BY ExceptSeq DEF LifeInv, LifeType
<1>2. \A q \in Proc : proc'[q] = IF q = p THEN new ELSE proc[q]
    BY InOrder
<1>3. ASSUME NEW t \in 1..Len(runs), Lasting(runs'[t])
      PROVE  \E s \in Standing :
                LocalRun(runs'[t], s) /\ \A q \in Proc : proc'[q].id = t => LocalCommand(proc'[q], s)
    <2>1. new.id = t => t = r
        BY CommandsAreNoNull, LengthsAndChanges DEF LifeInv
    <2>2. Lasting(runs[t])
        BY <1>1, <1>3 DEF Lasting
    <2>3. PICK s \in Standing :
              LocalRun(runs[t], s) /\ \A q \in Proc : proc[q].id = t => LocalCommand(proc[q], s)
        BY <2>2 DEF LocalAttempts
    <2>4. CASE t = r
        <3>1. LocalCommand(proc[p], s)
            BY <2>3, <2>4
        <3>2. LocalRun(row, s) /\ (new.id = r => LocalCommand(new, s))
            BY <2>2, <2>3, <2>4, <3>1 DEF KeepsSection
        <3> QED BY <1>1, <1>2, <2>3, <2>4, <3>2
    <2>5. CASE t # r
        BY <1>1, <1>2, <2>1, <2>3, <2>5
    <2> QED BY <2>4, <2>5
<1>4. ASSUME NEW t \in 1..Len(runs'), Lasting(runs[t])'
      PROVE  (\E s \in Standing :
                LocalRun(runs[t], s) /\ \A q \in Proc : proc[q].id = t => LocalCommand(proc[q], s))'
    <2>1. Lasting(runs'[t]) /\ t \in 1..Len(runs)
        BY <1>1, <1>4 DEF Lasting
    <2>2. PICK s \in Standing :
              LocalRun(runs'[t], s) /\ \A q \in Proc : proc'[q].id = t => LocalCommand(proc'[q], s)
        BY <1>3, <2>1
    <2>3. s \in Standing' /\ LocalRun(runs[t], s)'
        BY <2>2 DEF Standing, ConfigFiles, LocalRun, Evaluated
    <2>4. (\A q \in Proc : proc[q].id = t => LocalCommand(proc[q], s))'
        BY <2>2 DEF LocalCommand
    <2> QED BY <2>3, <2>4
<1>5. ASSUME NEW q \in Proc PROVE LocalCreation(proc[q])'
    <2>1. LocalCreation(new)
        BY DEF LocalCreation
    <2>2. LocalCreation(proc'[q])
        BY <1>2, <2>1 DEF LocalAttempts
    <2> QED BY <2>2 DEF LocalCreation, Remote, Standing, ConfigFiles
<1> QED BY <1>4, <1>5 DEF LocalAttempts

LEMMA ResumeRunLeavesLocal ==
    ASSUME LifeInv, LocalAttempts, NEW p \in Proc, ResumeRun(p)
    PROVE  LocalAttempts'
<1>1. PICK P \in ProcRecord : P = proc[p] /\ Good(P)
    BY InOrder
<1>2. P.at = "restart" /\ P.id \in 1..Len(runs) /\ UNCHANGED <<toml, files, changes>>
    BY <1>1 DEF ResumeRun, Good, InHand, world
<1>3. PICK row \in RunRecord, new \in ProcRecord :
          /\ runs' = [runs EXCEPT ![P.id] = row] /\ proc' = [proc EXCEPT ![p] = new]
          /\ row.pin = runs[P.id].pin /\ row.input = runs[P.id].input
          /\ row.ran = runs[P.id].ran /\ row.plain = runs[P.id].plain
          /\ row.since = runs[P.id].since
          /\ new.at = "execute" /\ new.id = P.id /\ new.section = P.section
          /\ new.input = ResumedInput(P.section, P.input)
    BY <1>1, ResumeRunFacts
<1>4. ASSUME NEW s \in Standing, Lasting(runs[P.id]), LocalRun(runs[P.id], s), LocalCommand(P, s)
      PROVE  LocalRun(row, s) /\ LocalCommand(new, s)
    <2>1. P.section # NULL /\ P.section = s
        BY <1>1, <1>2, <1>4, PinsAreNoNull DEF Lasting, LocalCommand
    <2>2. s.kind = "code" \/ s.kind = "nocode"
        BY StandingFacts
    <2>3. FromSection(new.input, s)
        <3>1. CASE s.kind = "code"
            BY <1>2, <1>3, <1>4, <2>1, <3>1 DEF LocalCommand, ResumedInput, FromSection
        <3>2. CASE s.kind = "nocode"
            BY <1>3, <2>1, <3>2 DEF ResumedInput, Override, NoInput, FromSection
        <3> QED BY <2>2, <3>1, <3>2
    <2> QED BY <1>3, <1>4, <2>1, <2>3 DEF LocalRun, LocalCommand
<1>5. KeepsSection(proc[p], new, runs[P.id], row)
    BY <1>1, <1>4 DEF KeepsSection
<1> QED BY <1>1, <1>2, <1>3, <1>5, LocalRowMoves

(* The attempt of a local run is what its section says. *)
LEMMA SetUpLeavesLocal ==
    ASSUME LifeInv, LocalAttempts, NEW p \in Proc, SetUp(p), ~FailRun(p)
    PROVE  LocalAttempts'
<1>1. PICK P \in ProcRecord : P = proc[p] /\ Good(P)
    BY InOrder
<1>2. P.at = "execute" /\ P.id \in 1..Len(runs) /\ UNCHANGED <<toml, files, changes>>
    BY <1>1 DEF SetUp, Good, InHand, world
<1>3. PICK row \in RunRecord, new \in ProcRecord :
          /\ runs' = [runs EXCEPT ![P.id] = row] /\ proc' = [proc EXCEPT ![p] = new]
          /\ row.pin = runs[P.id].pin /\ row.plain = runs[P.id].plain
          /\ row.since = runs[P.id].since
          /\ row.input.limit = SetUpLimit(P)
          /\ row.ran = runs[P.id].ran \cup {Attempt(P)}
          /\ new.at = "work" /\ new.id = P.id
    BY <1>1, SetUpFacts
<1>4. ASSUME NEW s \in Standing, Lasting(runs[P.id]), LocalRun(runs[P.id], s), LocalCommand(P, s)
      PROVE  LocalRun(row, s) /\ LocalCommand(new, s)
    <2>1. P.section # NULL /\ P.section = s /\ FromSection(P.input, s)
        BY <1>1, <1>2, <1>4, PinsAreNoNull DEF Lasting, LocalCommand
    <2>2. s.kind = "code" \/ s.kind = "nocode"
        BY StandingFacts
    <2>3. CASE s.kind = "code"
        <3>1. Attempt(P) = Evaluated(s) /\ SetUpLimit(P) = s.limit
            BY <2>1, <2>3 DEF Attempt, SetUpText, SetUpLimit, Evaluated, FromSection
        <3> QED BY <1>3, <1>4, <3>1 DEF LocalRun, LocalCommand
    <2>4. CASE s.kind = "nocode"
        <3>1. Attempt(P) = Evaluated(s)
            BY <2>1, <2>4 DEF Attempt, SetUpText, SetUpLimit, Evaluated, FromSection
        <3> QED BY <1>3, <1>4, <2>4, <3>1 DEF LocalRun, LocalCommand
    <2> QED BY <2>2, <2>3, <2>4
<1>5. KeepsSection(proc[p], new, runs[P.id], row)
    BY <1>1, <1>4 DEF KeepsSection
<1> QED BY <1>1, <1>2, <1>3, <1>5, LocalRowMoves

LEMMA StatusLeavesLocal ==
    ASSUME LifeInv, LocalAttempts, NEW p \in Proc, proc[p].id \in 1..Len(runs), UNCHANGED world,
           NEW status \in {"running", "completed", "failed"},
           runs' = [runs EXCEPT ![proc[p].id].status = status], Stop(p)
    PROVE  LocalAttempts'
<1>1. PICK row \in RunRecord, r \in 1..Len(runs) :
          /\ r = proc[p].id
          /\ row.pin = runs[r].pin /\ row.input = runs[r].input /\ row.ran = runs[r].ran
          /\ row.plain = runs[r].plain /\ row.since = runs[r].since
          /\ runs' = [runs EXCEPT ![r] = row]
    BY RowOfStatus, Zenon
<1>2. PICK new : new = Idle
    OBVIOUS
<1>3. /\ new.id = NULL /\ new.at = "idle" /\ proc' = [proc EXCEPT ![p] = new]
      /\ UNCHANGED <<toml, files, changes>>
    BY <1>2 DEF Idle, Stop, world
<1>4. KeepsSection(proc[p], new, runs[r], row)
    BY <1>1, <1>3 DEF KeepsSection, LocalRun, LocalCommand
<1> QED BY <1>1, <1>3, <1>4, LocalRowMoves

(* `qt add' appends behind what stands, and writes no prompt that a section uses. *)
LEMMA AppendSectionLeavesStanding ==
    ASSUME LifeInv, NEW p \in Proc, AppendSection(p)
    PROVE  Standing \subseteq Standing' /\ \A s \in Standing : Evaluated(s)' = Evaluated(s)
<1> DEFINE file == proc[p].file
           existing == IF toml[file] = NULL THEN <<>> ELSE toml[file]
           m == proc[p].remote
<1>1. /\ UNCHANGED files /\ proc[p].at = "append"
      /\ toml' = [toml EXCEPT ![file] = Append(existing, Rendered(m))]
    BY DEF AppendSection
<1>2. file \in File /\ m \in Remotes
    BY <1>1, InOrder DEF Good, InHand
<1>3. existing \in Seq(SectionRecord) /\ Rendered(m) \in SectionRecord
    BY <1>2, RenderedIsASection DEF LifeInv, LifeType
<1> HIDE DEF existing
<1>4. ASSUME NEW f \in ConfigFiles, toml[f] # <<>>
      PROVE  f \in ConfigFiles' /\ toml'[f] # <<>> /\ toml'[f][1] = toml[f][1]
    <2>1. CASE f # file
        <3>1. toml'[f] = toml[f]
            BY <1>1, <2>1 DEF LifeInv, LifeType, ConfigFiles
        <3> QED BY <1>4, <3>1 DEF ConfigFiles
    <2>2. CASE f = file
        <3>1. existing = toml[file] /\ existing # <<>>
            BY <1>4, <2>2 DEF existing, ConfigFiles
        <3>2. toml'[file] = Append(existing, Rendered(m))
            BY <1>1, <1>2 DEF LifeInv, LifeType
        <3>3. /\ Append(existing, Rendered(m)) # <<>>
              /\ Append(existing, Rendered(m))[1] = existing[1]
            BY <1>3, <3>1
        <3>4. Append(existing, Rendered(m)) # NULL
            <4>1. Append(existing, Rendered(m)) \in Seq(SectionRecord)
                BY <1>3
            <4> QED BY <4>1, NullAssumption
        <3> QED BY <1>2, <2>2, <3>1, <3>2, <3>3, <3>4 DEF ConfigFiles
    <2> QED BY <2>1, <2>2
<1>5. Standing \subseteq Standing'
    BY <1>4 DEF Standing
<1> QED BY <1>1, <1>5 DEF Evaluated

LEMMA PromptsStandStill ==
    ASSUME LifeInv, AddsAreWhole, PromptsAreNotEmpty, NEW p \in Proc, CreatePrompt(p) \/ WritePrompt(p)
    PROVE  Standing \subseteq Standing' /\ \A s \in Standing : Evaluated(s)' = Evaluated(s)
<1>1. UNCHANGED toml
    BY DEF CreatePrompt, WritePrompt
<1>2. UNCHANGED files \/ files["added"] = NULL \/ files["added"] = Empty
    BY DEF CreatePrompt, WritePrompt, AddsAreWhole
<1>3. \A f \in PromptFile \ {"added"} : files'[f] = files[f]
    BY DEF CreatePrompt, WritePrompt, LifeInv, LifeType
<1>4. ASSUME NEW s \in Standing PROVE Evaluated(s)' = Evaluated(s)
    <2>1. CASE UNCHANGED files
        BY <2>1 DEF Evaluated
    <2>2. CASE files["added"] = NULL \/ files["added"] = Empty
        <3>1. PICK f \in ConfigFiles : toml[f] # <<>> /\ s = toml[f][1]
            BY DEF Standing
        <3>2. 1 \in 1..Len(toml[f])
            <4>1. toml[f] \in Seq(SectionRecord)
                BY DEF LifeInv, LifeType, ConfigFiles
            <4> QED BY <3>1, <4>1
        <3>3. s.prompt # "added"
            BY <2>2, <3>1, <3>2, CommandsAreNoNull DEF AddsAreWhole, PromptsAreNotEmpty, Text
        <3>4. s.kind # "code" => files'[s.prompt] = files[s.prompt]
            BY <1>3, <3>3, StandingFacts
        <3> QED BY <3>4 DEF Evaluated
    <2> QED BY <1>2, <2>1, <2>2
<1> QED BY <1>1, <1>4 DEF Standing, ConfigFiles

LEMMA AddLeavesLocal ==
    ASSUME LifeInv, AddsAreWhole, PromptsAreNotEmpty, LocalAttempts, NEW p \in Proc,
           CreatePrompt(p) \/ WritePrompt(p) \/ AppendSection(p)
    PROVE  LocalAttempts'
<1>1. PICK P \in ProcRecord : P = proc[p] /\ Good(P)
    BY InOrder
<1>2. Standing \subseteq Standing' /\ \A s \in Standing : Evaluated(s)' = Evaluated(s)
    BY PromptsStandStill, AppendSectionLeavesStanding
<1>3. UNCHANGED <<changes, runs>>
    BY DEF CreatePrompt, WritePrompt, AppendSection
<1>4. \/ Stop(p)
      \/ \E at \in {"write", "append"} : proc' = [proc EXCEPT ![p] = [P EXCEPT !.at = at]]
    BY <1>1, InOrder DEF CreatePrompt, WritePrompt, AppendSection, Goto
<1>5. \A at \in {"write", "append"} : [P EXCEPT !.at = at].at = at
    BY DEF ProcRecord
<1>6. Idle.at = "idle"
    BY DEF Idle
<1>7. PICK new : proc' = [proc EXCEPT ![p] = new] /\ new.at \in {"idle", "write", "append"}
    BY <1>4, <1>5, <1>6 DEF Stop
<1>8. LocalCreation(new) /\ \A s \in Standing : LocalCommand(new, s)
    BY <1>7 DEF LocalCreation, LocalCommand
<1> QED BY <1>2, <1>3, <1>7, <1>8, LocalMoves

(* A change is later than every run and command. *)
LEMMA ChangeLeavesLocal ==
    ASSUME LifeInv, Change
    PROVE  LocalAttempts'
<1>1. changes' = changes + 1 /\ changes \in Nat /\ UNCHANGED <<runs, proc>>
    BY LengthsAndChanges DEF Change, LifeInv
<1>2. ASSUME NEW r \in 1..Len(runs) PROVE runs[r].since # changes'
    BY <1>1, RunFacts DEF RunIsAuthentic
<1>3. ASSUME NEW q \in Proc, proc[q].at = "create" PROVE proc[q].since # changes'
    <2>1. PICK Q : Q = proc[q] /\ Good(Q)
        BY InOrder
    <2> QED BY <1>1, <1>3, <2>1 DEF Good, InHand
<1> QED BY <1>1, <1>2, <1>3 DEF LocalAttempts, Lasting, LocalCreation

LEMMA LocalNext ==
    PromptsAreNotEmpty /\ LifeInv /\ AddsAreWhole /\ LocalAttempts /\ [Next]_vars => LocalAttempts'
<1> SUFFICES ASSUME PromptsAreNotEmpty, LifeInv, AddsAreWhole, LocalAttempts, [Next]_vars
             PROVE  LocalAttempts'
    OBVIOUS
<1>1. CASE UNCHANGED vars
    BY <1>1 DEF vars, LocalAttempts, Lasting, LocalRun, LocalCommand, LocalCreation, FromSection,
                Standing, ConfigFiles, Evaluated, Remote
<1>2. CASE Change
    BY <1>2, ChangeLeavesLocal
<1>3. ASSUME NEW p \in Proc, Command(p) PROVE LocalAttempts'
    <2>1. CASE SetUp(p) /\ FailRun(p)
        <3>1. proc[p].id \in 1..Len(runs)
            BY <2>1, InOrder DEF SetUp, Good, InHand
        <3> QED BY <2>1, <3>1, StatusLeavesLocal DEF FailRun, SetUp
    <2>2. CASE Finish(p)
        <3>1. proc[p].id \in 1..Len(runs)
            BY <2>2, InOrder DEF Finish, Good, InHand
        <3> QED BY <2>2, <3>1, StatusLeavesLocal DEF Finish
    <2>3. CASE Quiet(p)
        BY <2>3, QuietCommandsLeaveLocal
    <2> QED BY <1>3, <2>1, <2>2, <2>3, AddLeavesLocal, CreateRunLeavesLocal, ResumeRunLeavesLocal,
               SetUpLeavesLocal DEF Command, Quiet
<1> QED BY <1>1, <1>2, <1>3 DEF Next

LEMMA LocalInvariance ==
    ASSUME PromptsAreNotEmpty
    PROVE  Spec => []LocalAttempts
<1>1. Init => LocalAttempts
    <2> SUFFICES ASSUME Init PROVE LocalAttempts
        OBVIOUS
    <2>1. runs = <<>> /\ \A p \in Proc : proc[p].at = "idle"
        BY DEF Init, Idle
    <2> QED BY <2>1 DEF LocalAttempts, LocalCreation
<1> QED BY PromptsAreNotEmpty, <1>1, LocalNext, LifeInvariance, AddsInvariance, PTL DEF Spec

LEMMA AllEqual ==
    ASSUME NEW S, NEW e, \A x \in S : x = e
    PROVE  Cardinality(S) <= 1
<1>1. CASE S = {}
    BY <1>1, FS_EmptySet
<1>2. CASE S = {e}
    BY <1>2, FS_Singleton
<1> QED BY <1>1, <1>2

(* A run evaluates one benchmark, however often it is killed, fails and is resumed: a remote
   one the manifest and prompt of its pin and as many rows, whatever becomes of registry,
   configuration and prompt file; a local one never goes to the registry, and unless the
   configuration changes it evaluates its section each time. *)
THEOREM RunsStayWithTheirBenchmark ==
    ASSUME DigestsTellApart, PromptsAreNotEmpty
    PROVE  Spec => []RunsKeepTheirBenchmark
<1>1. LifeInv /\ PinnedAttempts /\ LocalAttempts => RunsKeepTheirBenchmark
    <2> SUFFICES ASSUME LifeInv, PinnedAttempts, LocalAttempts, NEW r \in DOMAIN runs
                 PROVE  /\ \A x \in runs[r].ran :
                              x.from = (IF runs[r].pin = NULL THEN NULL ELSE runs[r].pin.sha256)
                        /\ runs[r].pin # NULL \/ Lasting(runs[r]) => Cardinality(runs[r].ran) <= 1
        BY DEF RunsKeepTheirBenchmark, Lasting
    <2>1. r \in 1..Len(runs)
        BY DEF LifeInv, LifeType
    <2>2. RunIsAuthentic(runs[r])
        BY <2>1 DEF LifeInv, RunsAreAuthentic
    <2>3. \A x \in runs[r].ran : x.from = (IF runs[r].pin = NULL THEN NULL ELSE runs[r].pin.sha256)
        BY <2>2 DEF RunIsAuthentic, Authentic
    <2>4. ASSUME runs[r].pin # NULL PROVE Cardinality(runs[r].ran) <= 1
        <3>1. PinnedRun(runs[r])
            BY <2>1 DEF PinnedAttempts
        <3>2. \A x, y \in runs[r].ran : x = y
            BY <2>4, <3>1, OneRemotePerDigest DEF PinnedRun
        <3>3. \E e : \A x \in runs[r].ran : x = e
            BY <3>2
        <3> QED BY <3>3, AllEqual
    <2>5. ASSUME Lasting(runs[r]) PROVE Cardinality(runs[r].ran) <= 1
        <3>1. PICK s \in Standing : LocalRun(runs[r], s)
            BY <2>1, <2>5 DEF LocalAttempts
        <3> QED BY <3>1, AllEqual DEF LocalRun
    <2> QED BY <2>3, <2>4, <2>5
<1> QED BY DigestsTellApart, PromptsAreNotEmpty, <1>1, PinnedInvariance, LocalInvariance,
           LifeInvariance, PTL
=============================================================================
