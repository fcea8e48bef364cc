---------------------------- MODULE BenchmarkLife ----------------------------
(***************************************************************************)
(* Where a no-code benchmark comes from: `qt add' copies one from the      *)
(* registry into the local configuration, `qt run' takes it from the       *)
(* configuration or, failing that, from the registry, and `qt resume' has  *)
(* to find again what the run was started with.  Meanwhile the registry    *)
(* publishes, replaces and withdraws versions, the user edits the          *)
(* configuration and a prompt file, and any command may be killed.         *)
(*                                                                         *)
(* One benchmark name; how its rows are evaluated is EvalRun's subject.    *)
(***************************************************************************)
EXTENDS Registry

CONSTANTS
    Proc,            \* commands
    Version,         \* a set of positive numbers
    Responses,       \* what the registry may answer for a version
    Sections,        \* what the user may write into the configuration
    Contents,        \* prompt texts the user may write; 0 is the empty file
    Inputs,          \* what `qt run --input' may be given
    Plaintext,       \* the registry is reached over http
    Size,            \* rows of the dataset
    MaxRuns, MaxChanges      \* bounds

File == {"quantiles.toml", ".quantiles.toml"}
Empty == 0
NoInput == [limit |-> NULL, prompt |-> NULL, known |-> TRUE]

(* Prompt paths: of the section qt add writes, of the user, and of a definition in
   its bundle. *)
PromptFile == {"added", "own"}

(* What the commands handle. *)
Text == DOMAIN SizeOf \cup {Empty}
Limit == {NULL} \cup Nat
SectionRecord ==
    [kind: {"nocode"}, limit: Limit, prompt: PromptFile,
     sound: BOOLEAN, command: BOOLEAN, text: {NULL} \cup Text]
    \cup [kind: {"code"}, limit: Limit, prompt: {NULL},
          sound: BOOLEAN, command: BOOLEAN, text: {NULL} \cup Text]
InputRecord == [limit: Limit, prompt: {NULL} \cup PromptFile, known: BOOLEAN]
PinRecord == [version: {r.version : r \in Responses}, sha256: {r.sha256 : r \in Responses},
              override: {NULL} \cup Text]

ASSUME BoundsAssumption ==
    /\ IsFiniteSet(Proc) /\ 1 \in Version /\ Version \subseteq Nat
    /\ Size \in Nat \ {0} /\ MaxRuns \in Nat /\ MaxChanges \in Nat

(* The user's sections name a prompt of the user's. *)
ASSUME DataAssumption ==
    /\ Sections \subseteq SectionRecord /\ \A s \in Sections : s.prompt # "added"
    /\ Contents \subseteq Text /\ Contents # {} /\ Inputs \subseteq InputRecord
    /\ \A c \in DOMAIN SizeOf : DefinitionOf[c] # NULL => DefinitionOf[c].limit \in Limit

ASSUME NullAssumption ==
    NULL \notin {"add", "run", "resume"} \cup Nat \cup Text \cup PinRecord \cup Seq(SectionRecord)

VARIABLES
    registry,      \* [Version -> response or NULL]
    toml,          \* [File -> sections for the benchmark, or NULL if there is no file]
    files,         \* [PromptFile -> content or NULL]
    changes,       \* how often the registry or the user has changed something
    runs,          \* the runs, with the remote_benchmark_runs row and what they ran
    proc           \* the commands

vars == <<registry, toml, files, changes, runs, proc>>
world == <<registry, toml, files, changes>>

Idle == [cmd |-> NULL, at |-> "idle", id |-> NULL, version |-> NULL, section |-> NULL,
         response |-> NULL, remote |-> NULL, input |-> NULL, text |-> NULL, pin |-> NULL,
         file |-> NULL, plain |-> NULL, since |-> NULL]

Init ==
    /\ \E response \in Responses : registry = [v \in Version |-> IF v = 1 THEN response ELSE NULL]
    /\ \E text \in {NULL} \cup {<<s>> : s \in Sections} :
          toml = [f \in File |-> IF f = "quantiles.toml" THEN text ELSE NULL]
    /\ files = [f \in PromptFile |-> IF f = "own" THEN CHOOSE c \in Contents : TRUE ELSE NULL]
    /\ changes = 0
    /\ runs = <<>>
    /\ proc = [p \in Proc |-> Idle]

Stop(p) == proc' = [proc EXCEPT ![p] = Idle]
Goto(p, label) == proc' = [proc EXCEPT ![p].at = label]

-----------------------------------------------------------------------------
(* The configuration: two files are ambiguous, and a file with two sections for one
   benchmark is no TOML. *)
ConfigFiles == {f \in File : toml[f] # NULL}
Loadable == Cardinality(ConfigFiles) <= 1 /\ \A f \in ConfigFiles : Len(toml[f]) <= 1

LoadedSection ==
    IF \E f \in ConfigFiles : toml[f] # <<>>
    THEN toml[CHOOSE f \in ConfigFiles : toml[f] # <<>>][1] ELSE NULL

Validate(section) ==
    IF section.kind = "code" THEN section.command
    ELSE files[section.prompt] # NULL /\ section.sound

(* assemble_custom_nocode_input: known fields of --input override the configuration. *)
Override(params, input) ==
    [limit |-> IF input.limit # NULL THEN input.limit ELSE params.limit,
     prompt |-> IF input.prompt # NULL THEN input.prompt ELSE params.prompt]

(* merge_inputs: a custom-code benchmark takes any field. *)
MergeInputs(params, input) ==
    [limit |-> IF input.limit # NULL THEN input.limit ELSE params.limit, prompt |-> NULL]

RoomForRun == Len(runs) + Cardinality({p \in Proc : proc[p].cmd = "run" /\ proc[p].id = NULL}) < MaxRuns

Begin(cmd, at) == [Idle EXCEPT !.cmd = cmd, !.at = at, !.since = changes]

StartAdd(p) ==
    /\ proc[p].at = "idle"
    /\ Loadable /\ LoadedSection = NULL
    /\ proc' = [proc EXCEPT ![p] =
                  [Begin("add", "resolve") EXCEPT
                     !.file = IF ConfigFiles = {} THEN "quantiles.toml" ELSE CHOOSE f \in ConfigFiles : TRUE]]
    /\ UNCHANGED <<world, runs>>

(* The input of a remote run is assembled once its configuration is there. *)
StartRemoteRun(p) ==
    /\ proc[p].at = "idle" /\ RoomForRun
    /\ Loadable /\ LoadedSection = NULL
    /\ \E input \in Inputs :
          proc' = [proc EXCEPT ![p] = [Begin("run", "resolve") EXCEPT !.input = input]]
    /\ UNCHANGED <<world, runs>>

StartConfiguredRun(p) ==
    /\ proc[p].at = "idle" /\ RoomForRun
    /\ Loadable /\ LoadedSection # NULL
    /\ LET section == LoadedSection IN
       /\ Validate(section)
       /\ \E input \in Inputs :
             /\ input.known \/ section.kind = "code"
             /\ proc' = [proc EXCEPT ![p] =
                           [Begin("run", "create") EXCEPT
                              !.section = section, !.plain = (input = NoInput),
                              !.input = IF section.kind = "code" THEN MergeInputs(section, input)
                                        ELSE Override(section, input)]]
    /\ UNCHANGED <<world, runs>>

(* A run with a recorded origin goes back to the registry, whatever the configuration
   says; a local one needs the configuration. *)
PlanResume(p, r) ==
    IF runs[r].pin # NULL
    THEN proc' = [proc EXCEPT ![p] = [Begin("resume", "resolve") EXCEPT
                        !.id = r, !.version = runs[r].pin.version, !.input = runs[r].input]]
    ELSE /\ Loadable /\ LoadedSection # NULL /\ Validate(LoadedSection)
         /\ proc' = [proc EXCEPT ![p] = [Begin("resume", "restart") EXCEPT
                        !.id = r, !.section = LoadedSection, !.input = runs[r].input]]

StartResume(p) ==
    /\ proc[p].at = "idle"
    /\ \E r \in DOMAIN runs : runs[r].status # "completed" /\ PlanResume(p, r)
    /\ UNCHANGED <<world, runs>>

-----------------------------------------------------------------------------
(* resolve_and_download. *)

Published == {v \in Version : registry[v] # NULL}

(* The response for a version, or for the latest; none if there is no such version. *)
Asked(version) ==
    {registry[v] : v \in IF version # NULL THEN Published \cap {version}
                         ELSE {v \in Published : \A w \in Published : w <= v}}

Accepted(version) ==
    {response \in Asked(version) : /\ ValidateIdentity("b", version, response)
                                   /\ ValidateResources(response.resources, Plaintext)}

Resolve(p) ==
    /\ proc[p].at = "resolve"
    /\ \/ \E response \in Accepted(proc[p].version) :
             proc' = [proc EXCEPT ![p].at = "download", ![p].response = response]
       \/ Accepted(proc[p].version) = {} /\ Stop(p)
    /\ UNCHANGED <<world, runs>>

(* Every resource is fetched from its URL, which may serve something else. *)
Served(resources) ==
    {s \in [DOMAIN resources -> DOMAIN SizeOf] :
        \A i, j \in DOMAIN resources : s[i] # resources[i].sha256 /\ s[j] # resources[j].sha256 => i = j}

DownloadResources(p) ==
    /\ proc[p].at = "download"
    /\ LET resources == proc[p].response.resources IN
       \E served \in Served(resources) :
          LET remote == Assemble("b", proc[p].response, Download(resources, served)) IN
          IF (\A i \in DOMAIN resources : Verify(resources[i], served[i])) /\ remote # NULL
          THEN proc' = [proc EXCEPT ![p].remote = remote, ![p].response = NULL,
                                    ![p].at = IF proc[p].cmd = "add" THEN "prompt" ELSE "prepare"]
          ELSE Stop(p)
    /\ UNCHANGED <<world, runs>>

-----------------------------------------------------------------------------
(* qt add: the prompt file is created only if it does not exist, then written; the
   section is appended last, to the file that was chosen at the start. *)

(* Mutant: an existing prompt is taken as it is. *)
KeepPrompt(p) ==
    /\ proc[p].at = "prompt"
    /\ IF files["added"] = NULL THEN files' = [files EXCEPT !["added"] = Empty] /\ Goto(p, "write")
       ELSE Goto(p, "append") /\ UNCHANGED files
    /\ UNCHANGED <<registry, toml, changes, runs>>

CreatePrompt(p) ==
    /\ proc[p].at = "prompt"
    /\ IF files["added"] = NULL THEN files' = [files EXCEPT !["added"] = Empty] /\ Goto(p, "write")
       ELSE /\ IF files["added"] = proc[p].remote.text THEN Goto(p, "append") ELSE Stop(p)
            /\ UNCHANGED files
    /\ UNCHANGED <<registry, toml, changes, runs>>

WritePrompt(p) ==
    /\ proc[p].at = "write"
    /\ files' = [files EXCEPT !["added"] = proc[p].remote.text]
    /\ Goto(p, "append")
    /\ UNCHANGED <<registry, toml, changes, runs>>

(* The section as it is rendered; the text it came with is noted beside it. *)
Rendered(remote) ==
    [kind |-> "nocode", limit |-> remote.limit, prompt |-> "added", sound |-> TRUE,
     command |-> TRUE, text |-> remote.text]

AppendSection(p) ==
    /\ proc[p].at = "append"
    /\ LET file == proc[p].file
           existing == IF toml[file] = NULL THEN <<>> ELSE toml[file]
       IN  toml' = [toml EXCEPT ![file] = Append(existing, Rendered(proc[p].remote))]
    /\ Stop(p)
    /\ UNCHANGED <<registry, files, changes, runs>>

-----------------------------------------------------------------------------
(* Runs.  The prompt of a remote run is the bundle's, unless --input names a file,
   whose digest is recorded with the version and the manifest's digest. *)

EffectivePrompt(input, remote) ==
    IF input.prompt = "bundle" THEN [text |-> remote.text, override |-> NULL]
    ELSE [text |-> files[input.prompt], override |-> files[input.prompt]]

PrepareRun(p) ==
    /\ proc[p].at = "prepare" /\ proc[p].cmd = "run"
    /\ LET remote == proc[p].remote
           input == Override([limit |-> remote.limit, prompt |-> "bundle"], proc[p].input)
           prompt == EffectivePrompt(input, remote)
       IN  IF proc[p].input.known /\ prompt.text # NULL
           THEN proc' = [proc EXCEPT ![p].at = "create", ![p].input = input, ![p].text = prompt.text,
                           ![p].pin = [version |-> remote.version, sha256 |-> remote.sha256,
                                       override |-> prompt.override]]
           ELSE Stop(p)
    /\ UNCHANGED <<world, runs>>

(* Mutant: only the local prompt is compared. *)
MatchesPrompt(pin, remote, prompt) == prompt.text # NULL /\ prompt.override = pin.override

(* What a resumed run finds must be what was recorded. *)
MatchesPin(pin, remote, prompt) ==
    /\ remote.sha256 = pin.sha256
    /\ prompt.text # NULL
    /\ prompt.override = pin.override

PrepareResume(p) ==
    /\ proc[p].at = "prepare" /\ proc[p].cmd = "resume"
    /\ LET run == runs[proc[p].id]
           prompt == EffectivePrompt(proc[p].input, proc[p].remote)
       IN  IF MatchesPin(run.pin, proc[p].remote, prompt)
           THEN proc' = [proc EXCEPT ![p].at = "restart", ![p].text = prompt.text]
           ELSE Stop(p)
    /\ UNCHANGED <<world, runs>>

(* ran tells what each attempt evaluated: prompt, limit and origin.  Changes that came
   before the run do not count as changes of it. *)
NewRun(p) == [status |-> "running", input |-> proc[p].input, pin |-> proc[p].pin,
              ran |-> {}, plain |-> proc[p].plain, since |-> proc[p].since]

CreateRun(p) ==
    /\ proc[p].at = "create"
    /\ runs' = Append(runs, NewRun(p))
    /\ proc' = [proc EXCEPT ![p].at = "execute", ![p].id = Len(runs) + 1]
    /\ UNCHANGED world

(* A resumed local no-code run takes its input from the configuration again, without
   the overrides; others take the stored one. *)
ResumedInput(section, stored) ==
    IF section # NULL /\ section.kind = "nocode" THEN Override(section, NoInput) ELSE stored

ResumeRun(p) ==
    /\ proc[p].at = "restart"
    /\ runs' = [runs EXCEPT ![proc[p].id].status = "running"]
    /\ proc' = [proc EXCEPT ![p].at = "execute", ![p].input = ResumedInput(proc[p].section, proc[p].input)]
    /\ UNCHANGED world

ResolveLimit(limit) == IF limit = NULL \/ limit > Size THEN Size ELSE limit

FailRun(p) ==
    /\ runs' = [runs EXCEPT ![proc[p].id].status = "failed"]
    /\ Stop(p)

(* CustomNoCodeBuiltin::execute up to set_run_input: a limit of zero and a missing
   template fail the run; the limit that is stored is the one that is resolved. *)
SetUp(p) ==
    /\ proc[p].at = "execute"
    /\ LET r == proc[p].id
           input == proc[p].input
           code == proc[p].section # NULL /\ proc[p].section.kind = "code"
           remote == proc[p].section = NULL
           text == IF code THEN NULL ELSE IF remote THEN proc[p].text ELSE files[input.prompt]
           limit == IF code THEN input.limit ELSE ResolveLimit(input.limit)
       IN  IF ~code /\ (input.limit = 0 \/ text = NULL) THEN FailRun(p)
           ELSE /\ runs' = [runs EXCEPT ![r].input = [input EXCEPT !.limit = limit],
                              ![r].ran = @ \cup {[text |-> text, limit |-> limit,
                                                  from |-> IF remote THEN proc[p].remote.sha256 ELSE NULL]}]
                /\ Goto(p, "work")
    /\ UNCHANGED world

Finish(p) ==
    /\ proc[p].at = "work"
    /\ \E status \in {"completed", "failed"} :
          runs' = [runs EXCEPT ![proc[p].id].status = status]
    /\ Stop(p)
    /\ UNCHANGED world

Kill(p) ==
    /\ proc[p].at # "idle"
    /\ Stop(p)
    /\ UNCHANGED <<world, runs>>

Command(p) ==
    \/ StartAdd(p) \/ StartRemoteRun(p) \/ StartConfiguredRun(p) \/ StartResume(p)
    \/ Resolve(p) \/ DownloadResources(p)
    \/ CreatePrompt(p) \/ WritePrompt(p) \/ AppendSection(p)
    \/ PrepareRun(p) \/ PrepareResume(p)
    \/ CreateRun(p) \/ ResumeRun(p) \/ SetUp(p) \/ Finish(p)
    \/ Kill(p)

(* The registry publishes, replaces or withdraws; the user edits. *)
Change ==
    /\ changes < MaxChanges
    /\ changes' = changes + 1
    /\ \/ /\ \E v \in Version, response \in Responses \cup {NULL} :
                registry' = [registry EXCEPT ![v] = response]
          /\ UNCHANGED <<toml, files>>
       \/ /\ \E f \in File, text \in {NULL, <<>>} \cup {<<s>> : s \in Sections} :
                toml' = [toml EXCEPT ![f] = text]
          /\ UNCHANGED <<registry, files>>
       \/ /\ \E content \in Contents \cup {NULL} : files' = [files EXCEPT !["own"] = content]
          /\ UNCHANGED <<registry, toml>>
    /\ UNCHANGED <<runs, proc>>

Next == Change \/ \E p \in Proc : Command(p)

Spec == Init /\ [][Next]_vars

-----------------------------------------------------------------------------
TypeOK ==
    /\ \A v \in Version : registry[v] \in Responses \cup {NULL}
    /\ \A f \in File : toml[f] = NULL \/ \A i \in DOMAIN toml[f] : toml[f][i].kind \in {"code", "nocode"}
    /\ \A f \in PromptFile : files[f] \in DOMAIN SizeOf \cup {NULL, Empty}
    /\ changes \in 0..MaxChanges
    /\ \A r \in DOMAIN runs :
          /\ runs[r].status \in {"running", "completed", "failed"}
          /\ \A x \in runs[r].ran : x.text # NULL => x.limit \in 1..Size
    /\ \A p \in Proc : proc[p].id # NULL => proc[p].id \in 1..MaxRuns

(* A run evaluates one thing, however often it is resumed.  If it came from the registry
   that is the manifest and the prompt it was started with, and as many rows, whatever
   registry, configuration and prompt file have become.  If it was local it never goes
   on with a benchmark from the registry; it may change with what is edited, and it
   loses the overrides it was started with. *)
RunsKeepTheirBenchmark ==
    \A r \in DOMAIN runs :
        /\ \A x \in runs[r].ran : x.from = (IF runs[r].pin = NULL THEN NULL ELSE runs[r].pin.sha256)
        /\ runs[r].pin # NULL \/ (runs[r].plain = TRUE /\ runs[r].since = changes) =>
              Cardinality(runs[r].ran) <= 1

(* The prompt a remote attempt evaluates is one whose digest the registry declared,
   whatever was served, or the file named by --input. *)
Declared ==
    UNION {{response.resources[i].sha256 : i \in DOMAIN response.resources} : response \in Responses}
PromptsAreAuthentic ==
    \A r \in DOMAIN runs : runs[r].pin # NULL =>
        \A x \in runs[r].ran :
            IF runs[r].pin.override = NULL THEN x.text \in Declared ELSE x.text = runs[r].pin.override

(* The types are kept, and a section that qt add has written stands next to the whole
   prompt it came with, whichever commands were killed or ran at the same time. *)
AddedSectionsHaveTheirPrompt ==
    /\ TypeOK
    /\ \A f \in ConfigFiles : \A i \in DOMAIN toml[f] :
          toml[f][i].prompt = "added" => files["added"] = toml[f][i].text
=============================================================================
