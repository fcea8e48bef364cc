# Quantiles in TLA+

Models, TLC configurations and TLAPS proofs for `qt` (the Rust command line in
`cli/`) and its SDKs (`python/`, `typescript/`). Paths below are relative to the
repository; `runs.rs:208` means `cli/src/db/runs.rs`, line 208.

## The system

`qt` runs evaluation workflows and keeps what they did in a workspace directory:
a SQLite database with runs, steps and an event log, one Parquet file of metrics
per run, and a cache of dataset batches. Work is *durable*: each unit of work is a
step with a key and an input hash, and a run that failed or was interrupted can be
resumed, reusing the output of the steps that are completed.

| Component | State | Operations | Talks to |
|---|---|---|---|
| Run and step store (`db/`) | tables workflows, workflow_runs, remote_benchmark_runs, steps, events | create, complete, fail, resume a run, set its input and output; begin, complete, fail a step | called by the built-in executor, the commands and the HTTP server, possibly from several processes |
| Metrics store (`metrics_store.rs`) | a buffer per run in memory, a file per run | emit, flush, queries | flushed by complete_run and fail_run |
| Built-in run (`builtins/`, `commands/run.rs`, `commands/resume.rs`) | batch loop, row tasks | run, resume, evaluate rows concurrently, aggregate, complete or fail | stores, dataset manager, model providers |
| HTTP server (`server/`) | the metrics store of its process | handlers that forward to the stores and the dataset manager, shutdown | SDKs |
| Custom-code run (`run.rs:386`) | child process, server | spawn server and child, wait, complete or fail | server, SDK process |
| SDKs (`python/`, `typescript/`) | workflow context, buffered rows, tasks in flight | workflow, run_step, emit, datasets, ordered concurrent iteration | server |
| Dataset manager (`dataset/`) | batch files on disk | init, batch | Hugging Face |
| Row scoring (`builtins/custom_nocode/`) | the stored output of each row | prepare a row, read the answer, score it, aggregate, report | built-in run, step store |
| Configuration (`config/`, `llm/sampler.rs`) | `quantiles.toml`, the stored input of a run | read, validate, write | commands, registry |
| Registry (`benchmark_registry/`) | nothing persistent | resolve, download, verify hashes | registry service |
| Remote run and resume (`run.rs:129`, `resume.rs:132`) | the row that pins a run to its bundle | prepare, create, compare, restart | registry, run store |
| `qt add` (`commands/add.rs`) | configuration and prompt files | add a registry benchmark to the project | registry |
| Compare (`commands/compare/`) | none | report how two runs differ | stores |

What is hard: any number of SDK clients and row tasks race on the steps of a run;
`qt resume` accepts a run that is still running elsewhere; a process can die
between any two awaits, after a commit and before a flush; answers to requests get
lost and are treated as failures of the work; tasks finish in any order and are dropped
at an arbitrary await when another one fails; files are written in place; registry,
configuration, prompt files, environment and the version of `qt` change between the
attempts of one run.

What makes each component correct, and where that is stated:

* Run and step store: one step per key and run; rows whose fields agree; a journal
  that explains the rows; identities that never change; a step is restarted only
  after a failure; answers that match the request (`RunStore`).
* The store as a whole: one record of work per key, bound to its input hash
  (`DurableSteps`, implemented by `RunStore` in `RunStoreRefinement`).
* Built-in run and metrics: a completed run is whole and of one configuration,
  completed work is not repeated, metrics never run ahead of the database and
  aggregates stand for what they say, every attempt ends (`EvalRun`).
* Custom-code runs and server: a run ends where it was created and with the status
  that is reported, points a server has accepted are kept, nobody waits for ever
  (`CustomRun`).
* Dataset cache: a run is given the rows of its own source, in order and all of them
  (`DatasetCache`).
* SDK: results in order, once, within the bound and never ahead of the store; a
  completed run is whole across attempts; an attempt fails only for a cause of its own
  (`SdkRun`).
* Registry, remote runs and `qt add`: a run goes on with the benchmark it was started
  with or not at all; prompts are those the registry has declared; a section stands next
  to its prompt (`BenchmarkLife`).
* Scoring and settings: the golden mark moves with its choice, answers are judged by
  their last label, reports agree with what is stored, stored settings mean the same
  when they are read again; a resumed attempt recognises its rows when they come from
  the cache; a comparison blames the rows that differ and no others (`ScoredRun`).

## The modules

### RunStore

`db/runs.rs` and `db/steps.rs`. A table is a function from row ids to rows; the
status `"absent"` marks an id that no row has yet, timestamps are reduced to whether
`finished_at` is set. `events` keeps the journal of each run in insertion order.
One action stands for one operation, because each operation is one SQLite transaction
(one connection per process, WAL, and a deferred transaction of a second process
that would write on a stale snapshot is refused as busy); a transaction that fails
changes nothing and has no action. `begin_step` is an action per outcome:
`BeginNewStep`, `BeginRunningStep`, `RetryFailedStep`, `ReuseStep`.

`holds` is what the callers remember of begin_step's answer. `complete_step`'s answer
may get lost (`lost`), after which the SDKs send `fail_step`
(`python/src/quantiles/client.py:233`); that is the decision `"unsure"`.

Operations take their guards from the code only: `complete_run`, `fail_run`,
`resume_run`, `complete_step`, `fail_step` look for the row and nothing else.

### DurableSteps, RunStoreRefinement

`DurableSteps` is what an executor of one run may rely on: a status of the run, and a
record `[status, hash, output]` for every key. `RunStoreRefinement` picks any run
(`Observed`) and maps the tables to it: the record of a key is the row of steps
with that run and key. `ImplementsDurableSteps` says that every step of
`RunStore` is a step or a stutter of `DurableSteps`.

### MetricsStore, EvalRun

`MetricsStore` has a buffer per process and the run's file, which is absent,
written, or torn: `File::create` truncates it long before the Parquet footer is
written, so a flush is two steps. `EvalRun` extends it and `DurableSteps` with
`execute_builtin`: `Run`/`ReadRun`/`Resume`, the batch loop of `DatasetRunner`,
one task per row (`waiting`, `working`, `completed`, `timed`, `done`, or `dropped`),
aggregates, output, commit and flush, and a crash at any point. The step operations
are those of `DurableSteps`, which is why the refinement above matters. A row's
output is the attempt that computed it, its hash the version of the configuration
that attempt has read. `Spec` lets attempts overlap; `SoloSpec` starts one only when
no other is alive. `Limit` is the same for all attempts.

### CustomRun

`execute_custom` (`commands/run.rs:386`) of several `qt run` and `qt resume` processes,
the server each may start, and their commands. All processes use the one address
QUANTILES_BASE_URL. `owner` says whose server holds it; that server keeps the metric
`buffer` in memory and writes the workspace of its owner. `thread` follows a background
server (`starting`, `bound`, `up`, `over`), because a connection succeeds from the bind
on, which is all that the probe and `wait_for_health` look at. Requests are one step
each, but for the end of a run, which commits (`ReportEnd`) before it flushes
(`FlushMetrics`); a command may outlive its process, as the code does not kill it.
`Init` leaves open whether `qt serve` is up. `qt resume` takes two steps, as in the code:
`FindRun` reads a run that is not completed (`resume.rs:77`), `ResumeRun` sets it running
whatever it has become since (`runs.rs:312`). So a run may be completed in between, and any
number of processes may be at work on it. The history variable `shared` keeps the runs for
which that was so at some time: `FindRun` adds a run that a live process works on. Nothing
in the model reads it but the two properties that hold of other runs only (below).

### DatasetCache

`DatasetManager::batch` and the loop of `DatasetRunner` that calls it. `file` maps each
path that exists to the rows and the parts, head and tail, it holds: `File::create`
empties a file, the writer fills it later and from its own position, so two writers
may leave a hole. The lookup, the test for length zero and the read are steps of their
own. `EvalRun` takes a batch as right or failed; this module is about when that is so.

### SdkRun

A script written with the Python SDK: `workflow()`, `run_step`, `dataset()` and its rows,
`iter_async_with_concurrency` as `map_dataset` uses it. TypeScript's `runStep` and
`workflow` go through the same stages. The script is one event loop: caller 0 is the
handler, caller i the task of the i-th row handed out; `call` says at which await of
`run_step` each of them is. The server is the abstract promise of `DurableSteps`, which
is the second use of the refinement above. Each request may fail before the server has
acted on it, or its answer may be lost after (`Fault`, bounded by `MaxFaults`), and the
script, or qt with it, may be killed. `CutOff` ends the calls of tasks that are cancelled
or die with the script: a `complete_step` that was on its way may still arrive.
A script run by hand creates and ends its own run; one started by qt leaves both to qt
(`viaQt`, `Reap`). `at` is the position in the concurrent iterator: `fill_pending` asks
for rows (a step of the handler when the buffer is empty), then come results in order,
`asyncio.wait`, the set of tasks it returns in whatever order, and cancellation. `Abandon`
is a consumer that leaves its loop early, after which the tasks run on until the script
ends. `Pinned` says whether the workflow names configuration and split itself.

### Registry, BenchmarkLife

`Registry` holds what `benchmark_registry/` accepts, as operators: the identity of a
response, its resources, their bytes, and the benchmark that is assembled from them. A
content is a number and its own SHA-256. `BenchmarkLife` has the commands around one
benchmark name: `qt add` (resolve, download, create the prompt file, write it, append the
section), `qt run` of the configuration or else of the registry, `qt resume` of either.
`runs` holds a run's input, its pin (`remote_benchmark_runs`) and what each attempt
evaluated. `Change` is the world: the registry publishes, replaces or withdraws a version,
the user edits the configuration or a prompt. What a URL serves is chosen freely for one
resource of a bundle.

### Settings, Scoring, CachedRows, Compare, ScoredRun

`Settings` and `Scoring` are pure: how sampler, metric, style and limit are read,
validated and written (`config/custom_nocode.rs`, `llm/sampler.rs`), and how a row is
prepared, shuffled, answered, stored, hashed and aggregated (`builtins/custom_nocode/`,
`builtins/common.rs`). So is `CachedRows`, the way of a batch into a Parquet file and
back (`dataset/cache.rs`): each column gets one type, values that do not fit it change
or are lost; `DatasetCache` has the files, this module what they do to the rows.
`Compare` is the report of `qt compare` as a function of two runs (`commands/compare/`)
and the metrics they have stored: accuracy or the statistics of the scores, and those of
the latencies (`custom_nocode/metrics.rs:50`). A standard deviation is given by its
square, the variance: of two deviations the larger one has the larger square. Texts are
records of their parts or sequences of words; scores are integers, percentiles
hundredths, and F1 an exact fraction, so rounding is no subject. The shuffle's hash is a
function of seed and position, of which the instances give three: one that leaves three
choices where they are and two that do not. `ScoredRun` puts them together: an attempt
starts with settings, resolves their limit and stores them, reads its rows from the
cache or fetches and caches them (`ReachRows`; the name of the file holds the limit,
hence `cached`), evaluates rows or reuses their stored outputs, fails, and is resumed
with the configuration or, if the run is remote, with its stored input, while
configuration, environment or version of qt have changed. A row is one step here; its
interleavings are `EvalRun`'s. The reference definitions are beside the properties:
which choice the dataset calls correct, which label is the last, which columns survive
the cache, F1 from counts of outputs and as the Python SDK computes it
(`python/src/quantiles/metrics.py`). `ComparisonBlamesTheRow` compares each completed
run with the runs it would be with one other answer, or with fewer rows, and for any
latencies of the two: they belong to no definition of `ScoredRun`, since nothing relates
them to the rows, so the report is made for every pair that the constant `Latencies`
has.

### MC modules

They add symmetry sets and constant functions: rows of every shape, plans of a handler,
bundles of a registry. Symmetry is over ids, clients, commands or attempts that no
definition tells apart, and is not used with liveness.

## The runs

| Run | Bounds | Question |
|---|---|---|
| `RunStore_steps` | 1 run, 2 steps, 2 keys, 2 hashes, 2 clients, 5 events per run | do racing clients keep rows unique and coherent, and does the journal explain them |
| `RunStore_durable` | 2 runs, 2 steps, 1 key, 4 events per run | do operations on one run leave the other alone, and do the tables implement `DurableSteps` |
| `EvalRun_solo` | 3 attempts, 3 rows in batches of 2 | crashes, errors and resumes, one attempt at a time: is work repeated, are metrics honest |
| `EvalRun_overlap` | 2 attempts at once, 2 configurations, fewer rows than asked for | resume of a running run: is a completed run whole and uniform, does every attempt end and the run settle |
| `CustomRun_shared` | 2 processes, 2 runs, 2 points, `qt serve` or servers of their own | with processes that may work on one run: is every running run somebody's, does every process end; of runs that are not shared, are ends recorded, are points kept by a lasting server |
| `DatasetCache_shared` | 3 loops, 2 sources of 3 and 1 rows, batches of 2 | are rows those of the source in spite of races, errors and crashes, does every loop end |
| `SdkRun_resume` | 4 rows, one invalid, batches of 2, 2 tasks at once, 2 attempts, 2 faults, 5 plans | are results in order, durable and complete in spite of lost answers, errors, kills and resumes, does every attempt end |
| `BenchmarkLife_pinned` | 2 commands, 1 run, 2 versions, 3 bundles, 1 change | does a run keep its benchmark, are prompts authentic, does an added section have its prompt |
| `ScoredRun_scores` | 12 settings with limits or none, 2 environments, 6 datasets of up to 3 rows, 3 answers, 3 shuffles, 2 pairs of latencies (the same, others), 1 change | do marks, verdicts, reports and stored settings agree with their reference definitions, does a resumed attempt find its rows, does a comparison tell what differs and nothing else |
| `EvalRun_metrics`, `DatasetCache_torn`, `SdkRun_unpinned` | as small as shows it | statements of the documentation that the code does not keep (below) |

Runs of `RunStore` have their type invariant as a property of its own; in the other modules
`TypeOK` is a conjunct of the safety property named after what it goes with, as their
comments say.

`MaxEvents` is the only artificial bound of `RunStore`: it stops a run's journal, so
runs with it may deadlock and deadlock is not checked. Five events let a step start,
fail, be retried and complete; the properties relate at most two rows and two events,
so two ids of a kind are enough to break them, as the mutants show.
`EvalRun`, `CustomRun` and `DatasetCache` are finite by themselves: a process or loop
runs once (`MaxRun` only says how many runs they may create). When every one of them is
over nothing is left to do, hence no deadlock check. Two processes are enough for one
to lose the server of the other; the third loop of `DatasetCache` shares nothing with
the other two but the directory.
In `SdkRun` two faults let an attempt lose an answer and then the request by which it
reports that, or fail in each of two attempts; three valid rows keep one task waiting
behind two, and batches of two make the last one full and the one after it empty. It stops
when `MaxAttempts` are used up. `BenchmarkLife` bounds runs and changes because both
could go on for ever; one change may come between any two steps of a command, and two
commands are enough for an overlap of any two kinds. Its commands return to idle and may
all be refused, so that nothing is left to do. In `ScoredRun` a completed run is the end;
a change happens between attempts only, when it matters, for an attempt reads its settings
once. One change is enough for an attempt with another limit, which reads another cache
file, and any number of attempts may follow it. Two or three rows give a column two kinds
of values, or nested ones; datasets fit one batch, for `DatasetCache` has several.

Fairness: `FairSpec` assumes that a started process, or loop, which can take a step takes
one, i.e. its tokio runtime polls its futures, its threads are scheduled and the awaited
requests return (with an answer or an error), and, in `CustomRun`, that the user's
command comes to an end. `Fairness` of `SdkRun` is the same for a script: asyncio serves
every task that can go on, weakly for each caller, for the iterator and for the wrapper,
and qt waits for its child. Nothing makes a user run or resume, so no fairness is given to
starting, and none to crashes, kills and faults.

### Where code and documentation differ

Three statements of the documentation are refuted by a run, listed in `PROJECT.json`:

* the flush of a resumed run drops the metrics of the attempt before
  (`EvalRun_metrics`);
* a cache file whose writer stopped after creating it is an empty batch to every later
  run, which then completes without the rows (`DatasetCache_torn`);
* a workflow that leaves configuration and split to the server cannot load a new batch
  once it is resumed, for the step that would have told it is reused without being
  executed (`SdkRun_unpinned`; hence `Pinned` in `SdkRun_resume`).

The models contain more that a reader of the code should know. Properties are
stated so that they leave room for it:

* fail_step, sent when the answer to complete_step is lost, undoes a completed step
  (`CompletedWorkIsKept` names this case and admits no other);
* a configured `max_workers = 0` hangs (`EveryAttemptEnds` of `EvalRun` fails with
  `MaxWorkers = 0`; its runs have two workers);
* a `qt run` that ends takes the server, and the points it has buffered, from another
  `qt run` that uses it (`ServedMetricsAreKept` speaks of a server that lasts);
* of two processes at work on one run of custom code, the second to report truncates the
  points that the first has flushed, although one `qt serve` has answered all of them
  (`ServedMetricsAreKept` excepts the runs in `shared`);
* once the handler has failed a run, `qt resume` may set it running before the first process
  exits, which then reports a failure that the database does not show; the same befalls a
  success if the run was read before it was completed (`ReportedStatusIsRecorded`
  excepts the runs in `shared`);
* a `qt run` that finds the server of another workspace at its address reports the end
  of its run there (the run has one workspace);
* a local run that is resumed takes its input from the configuration anew and
  loses the overrides it was started with, whereas a remote one keeps them
  (`RunsKeepTheirBenchmark`);
* two `qt add` at once may append the same section twice, after which the file does not
  load; `Loadable` refuses it;
* what the dataset cache does to a column depends on its other values: integers beside
  doubles come back as doubles, truth values beside numbers are lost, a row without the
  column gets one. The text that is printed and hashed changes with it, so a run that
  fetched such rows and is resumed when they are cached is refused its own steps
  (`ResumedRowsAreReused` excludes columns by `Survives`);
* the metrics that compare and show derive from outputs count all stored steps, also
  those beyond the limit with which the run was resumed, which the accuracy no longer
  counts (`CompletedAsStored` excludes them);
* labels are required to be unique as they are written (`custom_nocode.rs:324`), but compared
  without regard to case (`evaluation.rs:333`): of two that differ in case only the second is
  never recognised, and a label with punctuation at its ends only if it is the whole answer
  (`Apart`, `Recognisable`).

Some properties hold with one attempt at a time but not with overlapping ones, since
`resume` accepts a running run and `resume_run` (`runs.rs:312`) does not look at the status
again: `CompletedOutputIsFinal` and `AggregatesAreHonest` of `EvalRun` are therefore checked
under `SoloSpec`, and `ServedMetricsAreKept` and `ReportedStatusIsRecorded` of `CustomRun`
speak of runs that are not shared: without that both are violated by overlapping processes.
`RunsAreNotForgotten` and `EveryProcessEnds` hold of all runs.
Likewise `fail_run` cannot fail a step that is begun after it:
`JournalExplainsSteps` says how far a failed run and its steps agree.

## The proofs

Every theorem is about all values of the constants that satisfy the assumptions of its
module, e.g. any number of runs, clients, rows, attempts or faults; the assumptions give
the constants their types and keep `NULL` apart from data. Where a theorem needs a
hypothesis more, which the code does not establish, the hypothesis has a name and is
explained below (`OneWorkspace`, `Pinned`, `PromptsAreNotEmpty`, `DigestsTellApart`). Each invariant in the
table is inductive and was checked by TLC before it was proved.

| Module | Inductive invariant | Shows |
|---|---|---|
| `RunStoreProofs` | `TypeOK` and `StepsHaveRuns`, and each property with it | types, `IdentityIsPermanent`, `OneStepPerKey`, `RowsCoherent`, `DecisionMatchesRequest`; `EveryStepChangeIsLogged`, `JournalIsLocal`, `JournalExplainsRuns`, `JournalExplainsSteps`, `RetryOnlyAfterFailure`; `ImplementsDurableSteps` |
| `EvalRunProofs` | `RunInv`; `SoloInv` under `SoloSpec` | `CompletedRunIsWhole`, `CompletedRunIsUniform`, `MetricsOfCompletedRowsOnly`, `DurableSpec`; `AggregatesAreHonest`, `CompletedOutputIsFinal` |
| `DatasetCacheProofs` | `CacheInv` | `LoopSeesPrefix`, `ReadableFilesAreTrue` |
| `CustomRunProofs` | `CustomInv`, with `Alone` | `RunsAreNotForgotten`; `ServedMetricsAreKept`, `ReportedStatusIsRecorded` |
| `SdkRunProofs` | `SdkInv`, then `WholeInv` | `YieldsInOrder`, `BoundedConcurrency`, `ResultsAreDurable`, `CompletedWorkIsKept`, `ErrorsHaveCauses`; `CompletedRunIsWhole` |
| `BenchmarkLifeProofs` | `LifeInv`, then `AddsAreWhole`, `PinnedAttempts`, `LocalAttempts` | `PromptsAreAuthentic`, `AddedSectionsHaveTheirPrompt`, `RunsKeepTheirBenchmark` |
| `ScoredRunProofs` | `SettingsInv`, `AttemptInv`, `OutputsInv`, `ResultsInv`, `ProgressInv` | `StoredSettingsSurvive`, `ScoresBelongToTheirMetric`, `ResumedRowsAreReused`, `GoldenMarksCorrectChoice`, `AnswersAreJudgedByTheirLastLabel` |
| `ReportProofs` | these without `ProgressInv`, with `CompletedInv` and `ReachedInv` | `MetricsMatchOutputs`, `ComparisonBlamesTheRow` |

### The store

In `RunStoreProofs` the types go together with `StepsHaveRuns`: a step event is appended to
the journal of `steps[s].run`, which is a run only because steps have runs.
`OneStepPerKey`: the only action that adds a row is `BeginNewStep`, whose lookup found
none. `RowsCoherent` goes by form of update (`Stopped`, `Restarted`, a new row), and
`DecisionMatchesRequest` follows from identities that never change.

The journal proofs rest on two lemmas about any step of the system. `NextLogs`: it leaves
steps and journals alone or appends one event to the journal of the only run whose steps
it changes. `Told`: that event, read by itself, gives the status of its run or step after
it, and nothing else changes status, except that run.failed takes the running steps of the
run along. So the last event of a journal is enough to know a run, or a step; and a
`step.started` is appended only where the status, hence the journal, tells of a failure.

`IdentityIsPermanent`, `DecisionMatchesRequest` and `StepsHaveRuns` are in no run's
configuration: they are proved, and the properties that are run would break with them.

### The chain from the store to the run

`RunStoreImplementsDurableSteps`: seen by one run, each transaction is an operation of
`DurableSteps` or a stutter. `OneStepPerKey` makes the mapping a function: the record of a
key is the row of its only step. `RunsUseDurableSteps`: whatever the processes of `EvalRun`
do, the record of a run changes by the operations of `DurableSteps` only. `SdkRun` uses the
same module. So what is proved of a built-in run or a script holds on the tables.

### The built-in run

`RunInv` says what an attempt may rely on although others overlap with it: a row it works
on has a record with the hash of its own configuration (`WorkIsRecorded`), past
complete_step that record is completed (`ResultsAreRecorded`), batches cover the rows in
order (`BatchesInOrder`), and the aggregates begin when all is done (`LoopIsOver`). The hash
check of begin_step is what carries `CompletedRunIsUniform`: two configurations cannot both
have worked on a row. `SoloInv` adds that one process is alive and where each metric point
is (`PointsOfRows`, `LatencyCountedOnce`), which `AggregatesAreHonest` and
`CompletedOutputIsFinal` need; with overlapping attempts both fail.

### Dataset cache, custom-code runs, SDK

`CacheInv`: whatever files are torn or written twice, a writer holds the very batch it names
its file for (`FetchedIsTheBatch`), so that rows of one file never come from two batches
(`WrittenFilesAreTrue`); files are not removed (`FileIsThere`).

`CustomInv` follows a process from its probe to its exit, however many are at work on its
run; `NoRunIsForgotten` needs no more. `Alone` adds what holds of the runs that are not
`shared`: no two live processes have one of them (`OneWorkerPerRun`), so its status
stays as reported until the process exits (`EndsAreRecorded`), a run that succeeded is not
touched again (`SuccessIsFinal`), and its points are in the memory of a lasting server, then
in the file (`PointsAreKept`). A process that sets out to resume a run somebody works on makes it shared,
for good (`BeginKeeps`), and every other step is shown once for both (`ProceedKeeps`). The
three theorems assume `OneWorkspace`: a process that finds the
server of another workspace at its address reports the end of its run there, as said above.

`SdkInv`: where each await of `run_step` stands with respect to its step
(`CallsHaveSteps`), that a result is in one place at a time between its task and the
consumer (`ResultsInOnePlace`), that batches are those of the dataset (`BatchesAreTrue`),
that rows are handed out in order and to no more tasks than allowed (`RowsInOrder`,
`WorkIsPending`). `ErrorsHaveCauses` needs `Pinned`; without it `SdkRun_unpinned` refutes it.

`WholeInv` is a second layer for `CompletedRunIsWhole`. What is handed out
(`RowsAreCounted`) and where batches begin (`BatchesAreBehind`) depends on the dataset and
the plan alone, not on the attempt; so every step that an attempt which died has left
behind is one the next attempt goes through (`RecordsAreNeeded`), and closes: no
batch behind the buffer is running, and when the iterator has run dry none is
(`DryIsEverything`). Each row handed out is pending, done, ready or yielded
(`ResultsAreSomewhere`), so that the iterator ends with all of them (`FinishedIsWhole`),
and the run is completed after it (`RunFollows`).

### Benchmarks

`LifeInv` says what a command has in its hands before each of its steps (`Good`), above all
that a remote benchmark is the one its response declares, whatever was served (`Remotes`),
and fits the pin (`Fits`). The second layer, `AddsAreWhole`, admits one writer of the prompt
file, and wants an added section's text in the file. It assumes `PromptsAreNotEmpty`: with an
empty prompt in the registry, which `validate_resources` lets pass, a second `qt add` takes
the file that the first has just created for its own finished one and appends its section,
after which the first writes another prompt into the file. For a remote run `PinnedAttempts` says that each attempt evaluated the prompt and rows of the
pin; for a local one `LocalAttempts` says that, as long as nobody has changed anything, its
section still stands first in its file and each attempt evaluated that, although `qt add`
may append meanwhile. `RunsKeepTheirBenchmark` assumes `DigestsTellApart` as well: the
registry vouches for the digest of a manifest, nobody computes it, and the pin holds only
that.

### Scoring and settings

The constants of these modules stand for what the code is given, and the assumptions about
them say no more than how it comes by them: trimming punctuation does not depend on the case
of a word (`WordsAssumption`), the text of a double or of a truth value is no index
(`FloatAssumption`, `NumberOf`), the hash that shuffles has a value for every position
(`DrawsAssumption`).

* `SettingsAreKept`: what `Write` stores of valid settings `Parse` reads as the same
  settings, in any environment, model by model and style by style.
* `ScoresAreOfOneMetric`: a result is that of a stored output with the hash of the row
  (`ResultsInv`); the hash of a similarity row holds the style, an output was scored
  by the style its hash was made with (`OutputsInv`), hence by the metric of the attempt.
* `PaidRowsAreReused`: an attempt has a prefix of the dataset, as it is or through the cache
  (`AttemptInv`). A column that survives in every prefix prints the same either way, and
  reads the same as answer, choices and seed, so a row is prepared as it was.
* `GoldenLabelsAreRight`: Fisher-Yates permutes the choices, so that the position the correct
  one is followed to is the only one that gets its label (`ShufflesPermute`). `Shuffle` is a
  recursive function over the positions. The induction theorems of the library are of no
  use, but `LeastElement` follows from its theorem on finite subsets, which are well-founded,
  and with it `Induction`, over a set of numbers rather than a predicate.
* `LastLabelsCount`: the search from the end of the last words stops at the last label
  among them, or the whole response is one label.

Two conditions in the properties are the code's limits: if the dataset names the golden label
(`Apart`), or if answers are to be recognised (`Recognisable`), no two labels may be the
same but for their case, and none may begin or end with punctuation. `ValidateStyle` asks
for labels that are not the very same, no more.

### Reports and comparisons

Scores are integers here (`ScoresAssumption`), ratios exact fractions, and no fraction is
the `NULL` of a missing delta (`DeltasAssumption`). `CompletedInv`: the aggregate of a
completed run is that of its results, which by `ResultsInv` are what its stored outputs
decode to.

* `ReportsAgree`. Sums are the library's `FoldFunction`, about which there is no theorem to
  cite. `FoldInduction` goes through the subsets that a fold visits, by their size, and so
  shows that whatever satisfies the fold's equation is the fold (`SumIs`). With it the sum
  of counts is the count of the union (`SumByName`). The cells of the confusion matrix
  partition the outputs: its rows count golden labels (`SupportCounts`), all of it counts
  the outputs and its diagonal the correct ones (`MatrixAddsUp`), as the accuracy does, and
  F1 from the matrix is F1 from the samples (`F1OfMatrix`, `F1OfSamples`). Averages of F1
  stay in 0..1, each term being at most its part of the total (`TotalIsBounded`). Of scores,
  each place of `Sorted` is taken and they are in order (`Places`, `SortedIsInOrder`), and
  an interpolated percentile lies between its neighbours (`Between`).
* `ComparisonsBlameTheRow`. `StepsAreBlamed`: steps pair by key, and only the row that was
  answered otherwise, or those that are missing, can differ. `MetricsAreBlamed`: metrics of
  latencies are functions of the latencies (`SameLatenciesSameMetrics`), all others of the
  verdicts (`SameVerdictsSameMetrics`), for their names are apart (`MeasuredNames`). They
  have one value each (`RunsHaveValues`), so that a delta has a sign, which the swapped
  comparison reverses
  (`MirrorsAreOpposite`); with one verdict changed one more, or one fewer, row is
  correct (`AccuracyFollowsVerdict`). That the report differs exactly if a step's output or
  a metric of the latencies does needs that equal outputs give all other metrics, inputs and
  numbers of rows the same (`RunsAreCompared`); `ReachedInv` says that an attempt has as many rows as its limit.

### What the proofs found in the models

Each was repaired in the model: tables written with `CASE` whose arms overlapped
(`StatusOfStepEvent` of `RunStore`, `Cell` of `CachedRows`); a digest called malformed that
equalled a content (`Registry`); an output of a step parsed as a union of shapes that were not told apart
(`SdkRun`); answers of the registry chosen where there might be none (`Asked`, `Accepted` of
`BenchmarkLife`); outputs that were a function of all rows, with a value for none;
a run without rows, for which the code emits no aggregate (`custom_nocode/metrics.rs:55`) and
the model had an accuracy (its instance now has a dataset without rows).
`PromptsAreNotEmpty` and `OneWorkspace` were found as goals that could not be proved, for
behaviours that the small instances do not contain.

### Only model-checked

Liveness under fairness (`EveryAttemptEnds`, `RunSettles`, `LoopsEnd`,
`EveryProcessEnds`), which is out of the prover's reach, as is ENABLED.
Every invariant and action property of the passing runs is stated by a theorem.

## Not modelled

Listed with reasons in `PROJECT.json`. In short:

* show and list, and the layout of compare, only print what the others have stored;
* providers' network calls: a call returns any response or an error;
* similarity scores and embeddings: a score is a given number;
* the syntax of TOML, JSON and URLs, and the encoding of Parquet;
* the workspace directory, which is created and opened;
* `emit` from an SDK workflow: `CustomRun` has it as a request of the command.

## Plan

1. `SqliteTx`: statements of two processes in transactions implement the atomic
   operations of `RunStore`.
2. `AddsAreWhole` without `PromptsAreNotEmpty`, for a single `qt add` at a time.
