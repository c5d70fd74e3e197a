# Local AI Bench: verification

TLA+ models of Local AI Bench, checked with TLC and, where it matters most, proved with TLAPS
for every value of the constants. Paths below are relative to `src/scripts/` unless they begin
with `docs/`.

The benchmark runs for hours on machines that crash, are interrupted, or lose an inference
server half way. What makes its results trustworthy is not the arithmetic but the control
around it: which attempt of which case is the measurement, what was measured with what, which
stage is finished, whether an interrupted run can be continued, what is left out and why, and
whether the records that say so agree. That control is spread over three kinds of process (the
window, the parent, one runner per stage), half a dozen threads, an SQLite file, a JSON file,
two caches and the directories of runtimes and models, and is what these modules are about.

## 1. Inventory

### Parts of the system

| part | state it keeps | operations | module |
|---|---|---|---|
| Event store (`results/event_store.py`) | SQLite tables `jobs` and `events` (append-only, digest chain), a projection cache per connection | `create_job`, `append`, `rebuild`, `start_stage`, `prepare_recovery`, `resume_job`, `finish_job`, `verify` | `EventStore` |
| Stage journals (`results/*_event_stage.py`) | nothing of their own: they read the projection | `next_attempt`, `record_*`, `begin_case` / `record_request` / `complete_case`, `finish`, `export` | `EventJournal`, `WorkloadLoop` |
| Result store (`results/result_store.py`) | the result JSON, written to the side and renamed | `start_stage`, `resume_stage`, `complete_stage`, `begin_recovery`, `finish` | `BenchmarkRun` |
| First execution (`app/benchmark.py`, `app/orchestration.py`) | program position, active stage | preflight, one stage after another, final cleanup, exception and signal handlers | `BenchmarkRun` |
| Recovery (`results/recovery_inspector.py`, `recovery_executor.py`) | program position | inspect, resume, retry of picked cases, fork | `BenchmarkRun` |
| Identity (`results/resume_policy.py`, `model_verification.py`) | a digest cache file shared by all processes; identities kept in the journal | take, compare, defer, verify before a model is loaded | `ResumeIdentity` |
| Supervision (`runtime/runner_supervisor.py`, `supervised_stage.py`, `process_tree.py`) | child process, output queue, clock of the last heartbeat, terminal lines | `start`, `run`, `cancel`, `stop_process_tree`, export after each commit | `RunnerSupervisor` |
| Workloads (`workloads/*`, `runtime/shared.py`, `runtime/crash_cache.py`) | position over models and depths; a cache of models that crashed the server | load, warm up, measure, repeat after a crash, record, give up, skip | `WorkloadLoop` |
| Engines (`runtime/engines/*`) | server process, what is loaded, the offload each model needed | start on demand, adopt, request, stop, clean up | `EngineServer` |
| Telemetry (`runtime/telemetry.py`) | a timeline of samples written by two threads, a window, a privileged reader | mark, capture, pause, cut into cases, stop | `CaseTelemetry` |
| Benchmark window (`app/benchmark_gui.py`, `runtime/pause_control.py`) | the process it watches, an output queue, a control file | launch, poll, finish, recover from the history, close | `BenchmarkWindow` |
| Runtime updates (`app/engine_management.py`, `setup/managed_llamacpp.py`, `runtime_update.py`, `directory_transaction.py`) | the directories of the installed runtimes, candidates, backups | stage, validate, swap, roll back, cancel | `RuntimeUpdate` |
| Setup (`setup/setup_check.py` and the installers it calls, `setup_progress.py`) | what the machine lacks, engines, ComfyUI, its list of issues; a status file | ask, choose, install, delete, download, summarise; a progress window | `Setup` |
| Model files (`setup/model_download.py`, `model_inventory.py`, `custom_models.py`, `app/model_import_dialog.py`) | directories of weights, the registry of imported models | import in a thread, cancel, undo, list, delete | `ModelStore` |
| Plan of passes (`app/benchmark.py`, `runtime/mtp.py`, `runtime/model_preflight.py`, `stage_registry.py`) | none: computed once, before anything runs | scopes of engines, passes, refusals, preflight | `PassPlan` |
| Lifecycle (`app/orchestration.py`), content store, reports, dashboard, release tooling | see `PROJECT.json` | | section 5 |

`PROJECT.json` lists every part with its files and says how far it is modelled.

### How they interact

    window --launch, control file--> parent                              runner (one per stage)
      ^                                |  identity: cache, journal          |
      |<------ output, exit status ----|  start_stage | prepare_recovery    |
                                       |  spawn --------------------------->|
                                       |                verify_resume_model |
                                       |          engine: load, request ----|--> server
                                       |                telemetry: windows  |
                                       |     next_attempt -> record_* ------|--> journal
                                       |<-- pipe: event, heartbeat, complete|failed --|
                                       |  rebuild journal -> export -> JSON |
                                       |  exit status, terminal line        x
                                       |  complete_stage -> JSON
                                       |  finish_job -> journal, finish -> JSON

Parent and runner share the journal and nothing else; the JSON is the parent's. The parent
that recovers a run is another process than the one that began it and knows of it only what
the two files say. The window knows of its child what the child prints and its exit status.

### What is hard

* *Crashes between two commits.* A case may be left open in the journal, a job row may exist
  without an event, the JSON may say `running` for ever. Whatever is left must be what the
  recovery code expects.
* *Numbers handed out across processes.* `next_attempt` derives the number of an attempt from
  what earlier processes left; the export trusts the highest number.
* *Two records of one run.* Every error path ends the job and the JSON in two steps, in an
  order that differs between the first execution and the recoveries.
* *A stream and a process that end independently.* The runner may be gone long before its
  terminal line is read, or its pipe open long after; heartbeats wait in the queue behind slow
  exports; a Ctrl-C may land in the middle of cancelling.
* *Caches and statements outside the transaction.* `append` validates on a cached projection
  and reads the last digest before its transaction begins; a digest is cached for a file that
  is replaced while it is read.
* *A server that is not the one that was asked for.* Health is asked of a port. A server that
  crashed still runs for a while; one that is told to end still answers; another process may
  have the port.
* *Failures of models.* Each of ten kinds of workload has its own order of loading, warming up,
  measuring, recording and giving up, and its own idea of what a crash, a timeout and an
  ordinary error leave behind for the next process.
* *Two threads on one timeline.* A sample's time, window and values are taken at three moments.
* *Replacement of what may be in use.* A runtime is replaced by several renames, each of which
  may fail, be cancelled, or be the last thing the process does.
* *Nothing but names.* Whether an engine, a model or ComfyUI is installed is judged from the
  files that are there; what was cut short looks like them.
* *Nested event loops.* A question suspends a handler of the window, not the window.

The complete list, each at its line and with the properties that would notice it going wrong,
is `hazards` in `PROJECT.json`.

### What makes each part correct

| part | promises |
|---|---|
| Event store | events are appended in whole legal batches; the chain verifies; no stale projection |
| Stage journals | attempts are numbered 1, 2, 3, ...; only the last may be open; a complete case has a complete, measured last attempt; every number handed out is accepted; picked cases only |
| Result store with recovery | terminal runs have terminal stages; JSON complete only after the journal; a stopped run can be resumed; completed stages stay |
| Identity | a cached digest is that of the file; what a job measured is what its journal identifies |
| Supervision | it ends, the runner with it; success is not mistaken for failure or silence; the JSON shows every commit when it returns |
| Workloads | deeper cases follow shallower ones; what is not measured is explained; known crashers are left alone; the failure of a model ends nothing else; every process ends |
| Engines | a request is answered by the server it is meant for; no server outlives the run; every call ends |
| Telemetry | samples are in order; energy bridges no marked pause and misses no measured call; the privileged reader goes |
| Window | it lets go of a run only when that has exited, and then does; a saved log is that of its run |
| Runtime updates | all runtimes of the family or none; what was there can be had back at every moment |
| Setup | ready means ready; a window that waits for the end learns of it |
| Model files | a cancelled import leaves no trace; no tag is blocked for good |
| Plan of passes | images once; no test without models; a baseline for every MTP pass; no engine dropped in silence; no two passes with one result file |
| Content store | a digest that can be looked up has its content (not modelled) |

## 2. Modules

| module | role |
|---|---|
| `AtomicLog` | abstract: a log that grows by legal batches (`apply_event`) |
| `EventStore` | `append` and `rebuild` statement by statement, several connections; implements `AtomicLog` |
| `AttemptLedger` | abstract: what a reader of the results relies on |
| `EventJournal` | the projection: job, stages, cases, attempts; one action per append; implements `AttemptLedger` |
| `BenchmarkRun` | EXTENDS `EventJournal` with the JSON and the program of the parent; implements `EventJournal` |
| `ResumeIdentity` | what jobs are measured with: digest cache, journals, first runs and recoveries of several processes |
| `RunnerSupervisor` | one supervised runner, its output and its parent |
| `WorkloadLoop` | the loops of the ten kinds of workload over models and depths, sessions of one job and of the next |
| `EngineServer` | one engine, its servers, and the requests of one call or of a concurrent batch |
| `CaseTelemetry` | the timeline of a stage, its two threads, its cutting into cases, the privileged reader |
| `BenchmarkWindow` | the window: processes, queue, dialogs |
| `RuntimeSet` | abstract: the installed runtimes, replaced all or none |
| `RuntimeUpdate` | an update step by step: staging, renames, rollback, cancellation, kill; implements `RuntimeSet` |
| `ModelStore` | files of models, the registry of imported ones, the import worker and its dialog |
| `Setup` | EXTENDS `ModelStore` with the Setup process, its machine, and the progress window |
| `PassPlan` | pure: from a command line and what is installed to the passes and what each measures |
| `MC*` | the small instances that TLC checks |
| `*Proofs` | the theorems: `BenchmarkRunProofs` of journal, run, plan and window, `SetupProofs` of Setup, stores and runtime updates, the others one module per component |

The layers fit together as follows. `EventStore` justifies that `EventJournal` takes each
append as one step (`StoreIsAtomic`), as long as its writers take turns. `BenchmarkRun` adds
the JSON and the programs of the parents around the actions of `EventJournal`, so that
everything proved of the journal holds of every run; what is not true by construction, that
neither record refuses a call the parents make, is `CallsAreAccepted`.
`RunnerSupervisor` opens up what `BenchmarkRun` takes as one step each, a runner that
succeeds, fails, or is cancelled, and `SupervisionIsOneStep` says that seen from outside it is
one. `WorkloadLoop` opens up what `EventJournal` leaves open, the
order in which a runner visits the cases of a stage and which it leaves out, and takes a call
of the engine as one step with any outcome; `EngineServer` opens up that call. `ResumeIdentity`
takes runner and stages as a few steps each and follows bytes instead.

### EventJournal

The variables are the projection of `EventStore.rebuild`: `jobState` and `jobResumed` (the
retained mark of `resume_job`), `stageState`, `stageScope` and `picked` (`recovery_scope` and
`selected_case_ids` of a stage's payload), `caseState`, `caseRetry` (`recovery = "retry"` in
a case's payload), `attempts[c][n]`, and `valid`, the attempts with a valid sample. `jobRow`
is the row of table `jobs`, which `create_job` commits by itself. `runner` and `done` are the
position of the workload runner.

| action | code |
|---|---|
| `StartStage`, `CrashAfterCreateJob` | `EventStore.start_stage`, the gap after `create_job` |
| `PrepareResume`, `PrepareRetry` | `EventStore.prepare_recovery` with all unfinished, or the picked, cases |
| `FinishJob`, `ResumeJob`, `CrashInResumeJob` | `finish_job`, `resume_job` and the gap between its two appends |
| `RecordCase` | `record_case`, `record_question`, `record_batch`, `record_resolution`, `record_entry` |
| `BeginCase`, `RecordRequest`, `CompleteCase` | the soak test, which records one case in many appends |
| `RecordModelState` | `record_model_state`, cases that have no attempts |
| `FinishStage` | `finish` of the stage journals |
| `RunnerExit` | the runner ends or is killed; nothing is written |

The stage journals are one module because they differ only in data, except where the constants
tell them apart: `Sustained` stages never look at the retry mark, `Retryable` stages know a
selected retry, `ModelStates` are the state cases. The order in which a workload visits its
cases is left open, and `FinishStage` may come before all of them were visited.

### BenchmarkRun

`pc` is the next durable step of the parent, and `mode` the entry point it was started
through: `run` (main and `execute_stages`), `fork`, `resume`, `retry`. `runStatus` and
`stageStatus` are the statuses in the JSON. Each action commits to one of the two records, or
launches or awaits a runner, so that an exception, a signal or a crash can fall between any
two of them. `Fail` leads into the exception handlers, which end job and JSON in the order of
the code: the first execution ends the job first, the recoveries the JSON stage.
`sig_job`, `sig_result`, `sig_exit` are the signal handler `_cleanup`, during which the
runner still works. The constant `Faults` says what may go wrong; see the module for the list.
A crash of the parent takes the runner with it in this model: it is the machine that stops.

### RunnerSupervisor

Four threads of control: the workload (`work`, `commits`, `engine`), the heartbeat thread
(`beatAge`), the reader thread that moves lines from `pipe` to `queue` and adds the sentinel
(`eof`), and the parent's loop (`pc`). `Take` is one line through `accept_line` and
`on_runner_event`, `Export` the JSON export after a commit, `HeartbeatLost` is
`check_heartbeat`, `Signal`, `GraceEnds` and `Reap` are `stop_process_tree`, and `Final` is
the tail of `run_supervised_stage`. `cancels` counts the calls of `cancel`: one in the except
block of `run`, one in the finally block of `run_supervised_stage`.

Time is a `Tick`. `Quiet` says that within a tick the reader has read what there is, a
heartbeat that is due has been sent, and a runner that has written its terminal line has
exited; the parent lets a tick pass only while it waits for a line, exports or waits for the
cancelled runner. Foreign output, log lines and tokens of another job, which `accept_line`
drops, are left out.

### EventStore

`append` in its statements: `Rebuild` (last sequence, cache lookup), `ReadEvents`, `Apply`
(validation, in place, on the cached projection), `ReadDigest`, `Insert` (the transaction),
`Tag` (the cache gets the sequence read after the transaction), and the except branch
(`Drop`). `Overlap` says whether a second writer may append while one is inside `append`;
readers always may. A projection is represented by the events it was built from and the
digest of a row by the row's position, which is to say that digests do not collide. That
`rebuild` raises on a log that is illegal is left out: with turns the log is legal
(`StoreIsAtomic`), and without them only `ChainIsIntact` is asked.

### ResumeIdentity

`file` is what an item (a model's weights, the runtime) holds and its stamp, the size and
modification time that the cache is keyed by; `cache` is `.resume_digest_cache.json`, `copy`
what a process loaded of it; `job` the journals with identity, recovery marks, stages and
samples; `proc` the processes. `Stat`, `Hash` and `Enter` are `cached_file_identity` cut where
the file may be replaced; `IdentifiedRun`, `IdentifiedFork` and `IdentifiedRecovery` what the
three entry points do with the identity; `StartStage`, `TakeModel`, `Load`, `Measure` and
`EndStage` the stages with `verify_resume_model` in front of each model. `Change` is anybody
who installs, replaces or removes a file. `disturbed` are the jobs that were worked on while a
file changed: nothing in the code compares a file a second time within a process.

### WorkloadLoop

One process (`at`: position, model, depth, run, crash retries, why it stops) over the plan of
a stage. `cases` and `marks` are its journal, the second the model-state cases; `known` is the
crash cache file and `cache` the copy this process loaded. A depth is a context, a
conversation checkpoint, a concurrency level, a question, an image resolution, a size of vllm
bench, a row of llama-bench or of llama-batched-bench, or the one soak of a model, which is
opened, fed and closed in separate appends (`SoakBegins`, `SoakEnds`; `MeetStray` is what a
later process does with an open one). `Shown` are the models whose measurements the export of
the stage shows. Actions that the workloads share are shared (`Start`, `Take`,
`KnownCrash`, `Called`, `RetryCall`, `GiveUp`, `Handle`, `Close`, `Finish`), and where they
differ, each has its own (`WarmupFails...`, `TurnCrashes`, `BatchCrashes`, ...). `Kill`,
`Resume`, `RetryCases` and `NewRun` are what happens around the process.

### EngineServer

`server` are the processes, from start to bind, load, health, crash, and the end, which is
later than the signal; 0 is that of another process. `proc`, `loaded` and `offload` are what
the engine believes. `Check`, `LockAndCheck`, `RespawnLlama`, `RespawnVllm`, `AdoptLlama`,
`AdoptVllm`, `LoadFails...`, `LoadTimesOut`, `OffloadMore` and `RefuseServer` are
`_ensure_model` of the two engines; `Send` and `Answer` a request; `Call`, `Again` and
`Settle` the measured calls and batches around them with their crash retries; `Unload`,
`ReleasePort` and `CleanUp` what comes between calls and at the end.

### CaseTelemetry

`Stamp`, `ReadWindow` and `Keep` are `capture`, run by the sampler's thread and by the
workload's inside `mark_window`; `CheckPause`, `MarkPause`, `Hold` and `GoOn` the three ways
in which workloads wait for a pause; `FinishCase`, `Cut`, `CountFailures`, `MoveFailedCursor`
and `MarkIdle` are `finish_case`; `ReaderTests` the shell loop of the privileged RAPL reader.
`Hold` assumes that the sampler's thread does not stay between reading the time and reading
the window for as long as a pause poll takes (0.2 s).

### BenchmarkWindow

A handler that asks a question runs a nested event loop, so it is cut at its questions:
`dialogs` is the stack of those that wait, and only the last can be answered. `child` are the
launched processes, `queue` what their reader threads have put, `win` the variables of
`run_benchmark_gui`. `PollOutput` is one call of `poll_output`: it drains the queue and then
looks whether the process has exited and been quiet. `Drained` is the draining, a function on
the positions of the queue, and `HandleItem` what one item does. `SavedLogIsTheRunsOwn` and
`OnlyItsOwnExitEndsARun` are proved for any number of runs (section 4).

### RuntimeUpdate

`target`, `backup`, `candidate` and `release` are the directories of each runtime that an
update renames, `orphans` the runtimes of which only the backup of a killed update is left,
`job` the worker thread and `tab` the Engine Management tab. Each rename may fail (`faults`), and
`Kill` may come between any two. `Installed` maps this to `RuntimeSet`: while an update
replaces or is rolled back, a runtime of it that has a backup counts as what is in the backup,
the others as what is in their place.

### ModelStore

`held` are the files in each store, a directory per tag for llama.cpp and a cache entry per
repository for vLLM; `Names` and `LooksWhole` are what the code concludes from them, `Whole`
what is true. `registry` is `custom_models.json`; `imp` is the thread that runs `import_model`
with its dialog, from the checks (`Refused`) over each file (`FetchFile`) to the undo and the
registry, which is read (`LoadRegistry`) and written (`WriteRegistry`) in two steps.
`PressCancel` only sets a flag. `stray` remembers, for `NoTagIsStuck`, the directories that a
kill or a failure that was reported has left behind.

### Setup

`su.pc` follows `main` of `setup_check.py` from top to bottom, one action per block: what is
asked first (`PrepareHost`, `AskCuda`, `AskPython`), the choice (`MakePlan`, `Decline`), the
moment after which nothing is asked (`Begin`, `INSTALL_STARTED`), the engines, the disk, the
deletions, the downloads file by file, ComfyUI, and the summary. A block that fails either
leaves an issue (`Report`) or ends Setup (`Exit`), as it does in the code. `Interrupt` and
`KillSetup` may come before any step and leave a step half done (`HalfDone`). `missing` is what
the machine lacks, `runtime` what the engines are, whatever their names suggest. `win` is the
progress window: `ReadStatus` and `AskParent` are the two looks of one `poll`.

### PassPlan

No state and no actions: `main` computes the passes before the first of them runs, and
`BenchmarkRun` is one of them. `LLMModels`, `ConcurrencyModels` and `EmbeddingModels` are the
scope of an engine (`resolve_engine_scopes`), `ScopeTests` the tests that are left in it,
`ScopeError` and `MtpError` the refusals of the command line, `Passes` what `expand_mtp_passes`
returns, and `Static`, `Runnable` and `Given` what the two preflights leave to each test. `whole`
and `sound` stand for the models that pass the static checks and the probe. What it promises is
proved and not run: there is nothing to interleave. `MCBenchmarkRun` instantiates it with a small
registry, for which TLC evaluates `PlanAssumption`, an accepted command line of each mode, and
two examples of what lies outside the conditions of the theorems.

## 3. What is checked

`tlc -config X.cfg MCModule` with the configurations here. Every action fires in a passing run.

| run | instance | shows |
|---|---|---|
| `journal_recoveries` | an ordinary and a soak stage with a measured case each, a failed state case, two attempts | recording, crashes, resumes and selected retries: `NoUnpreparedCase`, `CompleteCaseIsMeasured`, `ImplementsLedger` |
| `run_faults` | two stages, every fault, two recoveries, retries of picked cases | the records agree: `CompleteRunHasCompleteJob`, `WorkIsOnAnOpenJob`, `CompleteStageHidesNothing`, `ResumeKeepsCompleteStages`; and neither refuses a call: `CallsAreAccepted` |
| `run_resume` | the same, outside the moments of `Untimely` | `StoppedRunIsResumable`, `RunGetsAnEnd` |
| `resume_identity` | a model and a runtime, two contents, two jobs, two processes, two stages | first runs, resumes, retries and forks while files are replaced: `CacheEntriesAreTrue`, `MeasuredAsIdentified` |
| `supervisor_loop` | two commits, every fault of runner and export, one Ctrl-C | `RunnerIsGone`, `SuccessIsSeen`, `ReturnedStageIsExported`, `OnlySilenceIsPunished`, `SilenceIsBounded`, `SupervisionEnds` |
| `workload_loop` | the workloads with two models and two depths (a conversation of three checkpoints), two sessions | `MissingIsExplained`, `CrashersAreLeftAlone`, `ResumeOutlivesItsModels`, `StageEnds` |
| `engine_calls` | llama.cpp on a GPU with another server about, and vLLM; two models, two contexts, a batch of two | `ServedAsAsked`, `NoServerOutlivesTheRun`, `CallsEnd` |
| `telemetry_cases` | two cases of two calls; image, sustained and plain stages, each with a pause; a failing sensor | `TimelineIsOrdered`, `MarkedPausesAreNotIntegrated`, `CallsAreCovered`, `ReaderGoes` |
| `window_runs` | two launches, an earlier result and a new one, retries and forks | `SavedLogIsTheRunsOwn`, `OnlyItsOwnExitEndsARun`, `WindowComesBack` |
| `runtime_updates` | two llama.cpp runtimes and vLLM, three updates, two faults | `ReplacesAllOrNothing`, `RuntimeSurvives` |
| `store_turns` | two connections, a log of up to fifteen events | `ChainIsIntact`, `ImplementsAtomicLog` |
| `setup_steps` | four machines, three choices, one model of the catalog and one imported name; two Setups or imports | every step fails, is cancelled or is the last: `ReadyMeansReady`, `CancelLeavesNoTrace`, `NoTagIsStuck`, `WindowLearns` |

Each of these properties has a mutant in `PROJECT.json`: a plausible bug in the operation it
guards, under which TLC finds the property violated. Mutants stand before the definition they
change, with a comment that names the bug. `CacheIsFresh`, `RecordedIsPrefix`,
`OffloadWasEnough`, `ProcessGoesForward`, `ParentGoesForward` and `SupervisionIsOneStep` also hold
on these instances, and are proved (section 4).

### Where the code and its documentation part

These configurations end in a counterexample, each to a sentence of the documentation or of a
comment. They describe what the code does now; when it is changed the model changes and the
configuration becomes a passing one.

| configuration | property | what happens |
|---|---|---|
| `BenchmarkRun_retry` | `CompleteRunIsTotal` | a selected retry that completes its stage completes the run, though later stages never ran (`recovery_executor.py:199`, `docs/how-it-works.md:122`) |
| `EventJournal_soak_resume` | `EveryWorkloadResumes` | `SustainedEventStage.next_attempt` raises for every unfinished case, prepared or not (`sustained_event_stage.py:49`), so an interrupted soak test cannot be resumed in place (`docs/cli-reference.md:132`) |
| `BenchmarkRun_preflight` | `StoppedRunIsTerminal` | the runtime preflight raises outside the try block of `main` (`benchmark.py:1570`): the JSON says `running` for ever (`docs/how-it-works.md:112`) |
| `BenchmarkRun_engine` | `CompleteStageIsCommitted` | a workload that finds its engine gone returns without `finish()` (`llm_prefill_benchmark.py:71`), and the stage is completed in the JSON only |
| `RunnerSupervisor_orphan` | `EngineIsGone` | the engine server of a runner that died by itself is not signalled (`process_tree.py:16`, `docs/how-it-works.md:128`) |
| `EventStore_race` | `ChainIsIntact` | the parent's signal handler appends while the runner does, and both rows chain to the same one (`event_store.py:234`, `docs/how-it-works.md:98`) |
| `EngineServer_counted` | `CrashedAsOftenAsSaid` | one crash whose process takes its time to go is met by every retry of the call (`shared.py:788`), and the model is recorded as having crashed that often (`docs/project-structure.md:75`) |
| `WorkloadLoop_retry` | `FailureIsTheModelsOwn` | in a retry of selected cases a model fails whose mark was not reopened: the journal refuses the mark and the exception ends the process (`docs/workloads.md:31`) |
| `WorkloadLoop_shown` | `CompleteIsShown` | the export of a question, image or embedding stage puts a model's state in place of its results (`accuracy_event_stage.py:327`, `image_event_stage.py:229`, `embedding_event_stage.py:167`): what was measured before the model failed is not shown |
| `Setup_shards` | `ReadyMeansReady` | of a repository whose weights are several files, a download that was cut short before its index came is taken for complete (`vllm_install.py:414`) |
| `CaseTelemetry_pauses` | `NoPauseIsIntegrated` | workloads other than the image test wait for a pause inside the measured window, and its energy is integrated (`docs/workloads.md:360`) |
| `ResumeIdentity_stamps` | `MeasuredAsIdentified` | a file that is replaced and keeps size and modification time is taken for the old one (`resume_policy.py:128`) |

Four times the code leaves the two records of a run apart for good, or the JSON running, when
something befalls the parent or its runner at the wrong moment; `Untimely` of `BenchmarkRun` names
them, and without any one of the four TLC finds a run that cannot be resumed or has no end:

* `RunIsAbandoned`: what is raised before the try block, or a crash, leaves the JSON running;
* `FailsBetweenCommits`: an exception or a signal while one record is ahead of the other;
* `FinishesUnderHandler`: the runner settles its stage while the signal handler ends the job;
* `RetriesSettledStage`: cases are picked from a stage that the journal does not reopen.

`TimelySpec` has every fault at every other moment. That these are all there are is what the run
`run_resume` and the theorem `StoppedRuns` say.

Setup is mistaken in four ways, without learning of it; `Mistaken` of `Setup` names them
(`TrustsNames`, `MissesPrograms`, `CutsClone`, `UndoesBeneath`), and without any one of the four
`ReadyMeansReady` is violated. That these, too, are all there are is the theorem
`ReadyUnlessMistaken`. The first is `Setup_shards`. The others, and two further sentences, need
only a changed constant or property in `Setup_steps.cfg`: with `"clone"` in `Faults`, what a
killed `git clone` left is taken for ComfyUI (`comfyui_install.py:20`), and with `"unseen"`, a
vLLM installed without its command is only warned of (`setup_check.py:1191`), both against
`ReadyMeansReady`; with `Overlap = TRUE`, a cancelled import deletes files that Setup downloaded
into the same cache entry meanwhile (`model_download.py:121`, `docs/setup.md:142`). The invariant
`NothingWasInstalled` fails as it is, because CUDA and an interpreter are installed before the
choice that can be declined (`setup_check.py:691`, `docs/setup.md:63`), and so does
`StoppedMeansStopped`: the window may read the status, Setup write its outcome and end, and
the window then find it gone (`setup_progress.py:133`).

Other divergences that modelling showed and that the modules contain, without a configuration:

* *Recovery.* A fork that fails before its first stage: `_finish_journal_job` finds no job and
  raises in the except block, and the run stays `running` (`FailJobRaises`). After a crash the
  inspector offers a resume that `begin_recovery` refuses, because the JSON says `running`
  (`BeginRecoveryRaises`). A runner that fails after its last append leaves the stage complete
  in the journal and failed in the JSON; `prepare_recovery` refuses it ever after
  (`OpenJournalRaises`). A retry of an unfinished case of a stage the JSON calls complete
  reopens that stage, though `docs/how-it-works.md:112` says "Completed stages are never
  reopened" (`OpenStage`). A crash between `create_job` and the append after it leaves a job
  under which no stage can be started (`StartAccepted`). A soak stage that finishes as failed
  is completed in the JSON, because its runner exits with success.
* *Identity.* A comment (`resume_policy.py:85`) says that installing a model that was missing
  "changes this identity and blocks resume"; a recovery takes the weights from the journal, so
  it goes on and leaves the model out. A first process never verifies what it loads.
* *Plan.* With `--mtp on` an engine is dropped in silence when only concurrency tests are selected
  and its capable model is not downloaded, though `docs/cli-reference.md:158` asks for one "for
  every selected engine" (`ConcurrencyAloneDropsAnEngine`); `both` may for the same reason be a
  baseline alone. When the static checks leave no model, nothing is probed, and the pass runs
  through empty workloads and is complete (`NothingWholeIsNotRefused`; `docs/engines.md:89` speaks
  of the runtime preflight only).
* *Workloads.* Accuracy and conversation warm-ups that fail, an engine that is gone, a model
  that the single-shot tests find not pulled and a missing llama-bench leave no record in a
  stage that is complete (`silent`). A question that meets an ordinary error is complete. The
  early exit for slow models looks at the first context alone, so a resume measures the deeper
  contexts of a slow model (`docs/workloads.md:61`). A conversation records a crash after one
  crash (`docs/project-structure.md:77`), and a recorded crash makes a resume or a retry skip
  the model. After a crash in a cached prefill the repeated call measures a cold cache.
  Retries after a crash are counted over the runs of a case together. The image test has no
  handler around a model (`docs/workloads.md:31`).
  A soak whose model has a mark already gets another one on resume, and one that is open and not
  selected raises outside any handler (`sustained_benchmark.py:143`). A missing llama-batched-bench
  ends its stage without finishing it, and a run of either native tool is complete however many of
  its rows failed. A crash of a soak's request is not remembered in the crash cache.
* *Setup.* Of several image models, those whose download fails leave no item as long as one is
  there (`setup_check.py:1345`).
* *Engines.* A warm-up that fails for any reason puts its model into the crash cache. After a
  crash a reload that fails is an ordinary error and uses up the run. vLLM and llama.cpp
  without a GPU adopt whatever answers on the port (`docs/engines.md:83`). The crash and the
  offload caches are loaded once and rewritten as a whole.
* *Telemetry.* The failure counter is read after the samples were cut, and twice, so that a
  failure may be counted in no case (`telemetry.py:1927`). A conversation marks its window
  once, for all its turns (`docs/how-it-works.md:104`).
* *Window and updates.* Two questions may wait at once, and both answers launch a benchmark
  (`OneBenchmarkAtATime`, not in a run); in the moment between the exit of a process and
  `finish_active_process` the history may start, delete or rename (`docs/cli-reference.md:134`);
  a run may be started during an update, and be under way when its runtimes are swapped
  (`NoChangeUnderARun`); a failed replacement is reported as restored when its rollback failed,
  too (`RestoredIsRestored`, `docs/setup.md:126`).

### Bounds, and why they are enough

All bounds are guards or ranges of constants, named `Max...`.

* Two attempts per case (three in `run_resume`, one for the first execution and one for each
  resume): one attempt that fails or is interrupted and one after it, so numbers are reused or
  skipped if they can be. Two cases: one that is picked and one that is not. Two stages: one
  before and one after the place where something fails. Two recoveries: a recovery of a
  recovered run, with retained marks of the first.
* `resume_identity`: two processes, of which one may hold an old copy of the cache while the
  other enters a digest; two stages, so that a stage which was never started follows one that
  was recovered; each file changes once, and `MaxStarts` of two gives a first run with its
  recovery, a run with its fork, and two runs at once.
* `supervisor_loop`: two commits, so that a second one waits behind the export of the first;
  `BeatPeriod + MaxCommits * ExportTime <= HeartbeatTimeout` (1 + 2 * 1 <= 3), the condition
  under which `OnlySilenceIsPunished` holds (`EnoughPatience`). With the code's 5 and 30 seconds it
  says that the exports that delay a heartbeat take no more than 25 seconds together.
* `workload_loop`: two models, so that one fails and another follows; two depths, so that one
  is measured and a deeper one is not, and three checkpoints, so that one in between is rebuilt
  and not measured; two sessions, one that is killed or fails and one that resumes, retries or
  begins anew; one crash retry: zero and the last.
* `engine_calls`: two servers of this run, one that is not gone yet and one that takes its
  place, beside a stranger; batches of two requests; three faults, which crash every try of a
  call. `Strangers` are limited to the back end that looks at what it adopts.
* `telemetry_cases`: two cases, the second of which begins where the first was cut; one sample
  of the thread, which falls anywhere; one pause in every stage, and one failure in the image
  stage (with one in each stage, 1.4 million states, all properties hold as well).
* `window_runs`: a second launch while lines of the first wait in the queue; one inspection.
* `runtime_updates`: three updates: one that fails, one that works, one after it; two faults:
  one that starts a rollback and one in the rollback.
* `setup_steps`: two turns: one Setup or import that leaves something half done and one that finds
  it. Two parts of weights, so that the second fails after the first; one draft file. A repository
  has one weight file, since `ReadyMeansReady` fails for several (`Setup_shards`). A machine
  lacks what belongs to one of the groups of steps, so that each is taken with each outcome; the
  groups do not meet, as each looks at its own item. Imports and Setup do not overlap
  (`Overlap`): nothing in the code prevents it, and what then happens is said above. Three turns,
  without the window, pass as well (4 million states); and so does `SoundSpec` with a repository in
  two weight files, every fault and imports beside Setup (1.3 million states).
* `store_turns`: no sequence of legal batches of this instance is longer than twelve events, and
  no batch than three, so a bound of fifteen cuts nothing off, refused appends included. Its
  writers take turns; with `Overlap`, `ChainBreaksByOvertaking` holds on it (2.2 million states).

`CHECK_DEADLOCK FALSE` stands where the system really stops: a complete job, a run that has
ended and may not be recovered again, supervision, a stage or a window that is over.

### Fairness

* `FairTimelySpec`: the parent's next step is taken, and a runner ends. The first is a program
  that is not waiting for anybody; the second rests on the timeouts of requests and on the
  heartbeat. No fault, signal or recovery is fair.
* `FairSpec` of `RunnerSupervisor`: threads are scheduled, the clock runs, the runner announces
  what it committed, ends and exits. A runner that stalls (`Freeze`) is exempt: `Thaw` is not
  fair, and `SupervisionEnds` holds because the parent gives it up.
* `WorkloadLoop`: the process takes its next step, which no other process has to grant; a call
  of the engine ends because of its timeout. Which outcome a call has is free, so `StageEnds`
  holds also if every call crashes.
* `EngineServer`: threads run, a server that was started binds and loads or fails, one that is
  told to end or was killed is gone some time, and a call that has ended is looked at. Crashes,
  strangers, interruptions and further calls are not fair.
* `CaseTelemetry`: the reader, a process of its own, runs on. `ReaderGoes` needs nothing of the
  benchmark, which may be dead.
* `Setup`: the timer of the progress window, in its own process. Setup need not go on.
* `BenchmarkWindow`: `poll_output` is called again and again, and a time comes in which the
  queue is empty: root's timer does not depend on handlers, whose dialogs nest event loops.

## 4. What is proved

| theorem | assuming | by |
|---|---|---|
| `TypeCorrect`, `InvariantHolds` and seven consequences; the refinement `JournalIsALedger` (`BenchmarkRunProofs`) | `JournalAssumption` | `IInv` |
| `RunTypeCorrect`, `RunInvHolds`, `EndedRuns`, `CompleteRuns`, `OpenJobs`, `ResumesKeepCompleteStages`, `ParentsGoForward` and two corollaries (`BenchmarkRunProofs`) | `RunAssumption`, `JournalAssumption` | `RunInv` |
| `CallsAreTaken` (`BenchmarkRunProofs`) | as above | `RunInv`, `CallInv` |
| `CompleteStages` (`BenchmarkRunProofs`) | as above | `RunInv`, `StageInv` |
| `StoppedRuns` (`BenchmarkRunProofs`) | as above; of `TimelySpec` | `RunInv`, `ResumableInv` |
| `StoreTypeCorrect`, `OnlyOvertakingBreaksTheChain` (`EventStoreProofs`) | `StoreAssumption` | `HasBatch` |
| `TurnsInvHolds`, `ChainHolds`, `CachesAreFresh`, `StoreIsAtomic` (`EventStoreProofs`) | as above, `~Overlap` | `TurnsInv` |
| `SupervisorTypeCorrect`, `SupInvHolds`, `ReturnedStagesAreExported`, `SuccessesAreSeen`, `SilencesAreBounded`, `RunnerIsGoneAfterwards` (`RunnerSupervisorProofs`) | `SupervisorAssumption`; the last: at most one Ctrl-C so far | `SupInv` |
| `SupervisionIsAStep` (`RunnerSupervisorProofs`) | `SupervisorAssumption`; in the property itself: at most one Ctrl-C so far | `SupInv`, `DoneHasOutcome` |
| `OnlySilencesArePunished` (`RunnerSupervisorProofs`) | `SupervisorAssumption`, `EnoughPatience` | `SupInv`, `PatienceInv` |
| `ImagesRunOnce`, `NoTestWithoutModels`, `MtpPassHasItsBaseline`, `OnDropsNoEngine`, `BothMeasuresMtp`, `PicksLeaveNoTestOut`, `ResultsAreSeparate`, `EmptyPassIsRefused` (`BenchmarkRunProofs`) | `PlanAssumption`, in the theorem where it is needed | cases on tests and models |
| `TelemetryTypeCorrect`, `TimelineStaysOrdered` (`CaseTelemetryProofs`) | `StagesAssumption` | `OrderInv` |
| `MarkedPausesAreNeverIntegrated`, `CallsAreAlwaysCovered` (`CaseTelemetryProofs`) | as above | `PauseInv`, `CoverInv` |
| `EngineTypeCorrect`, `NoServerSurvives` (`EngineServerProofs`) | `EngineAssumption` | `EngineInv` |
| `AnswersAreAsAsked`, `RememberedOffloadsWereEnough` (`EngineServerProofs`) | as above, `StrangersAreTold` | `EngineInv`, the first also `SentToOwn` |
| `LoopTypeCorrect`, `CrashersStayAlone`, `ResumesOutliveTheirModels`, `RecordedArePrefixes`, `MissingAreExplained` (`WorkloadLoopProofs`) | `LoopAssumption` | `LoopInv` |
| `ProcessesGoForward` (`WorkloadLoopProofs`) | `LoopAssumption` | types and places, `CallsAreCounted` |
| `WindowKeepsOrder`, `LogsAreTheRunsOwn`, `RunsEndByTheirOwnExit` (`BenchmarkRunProofs`) | `WindowAssumption` | `WindowInv` |
| `UpdateKeepsOrder`, `RuntimesSurviveUpdates`; the refinement `UpdatesReplaceAllOrNothing` and what follows from it, `LlamaBuildsStayAligned` (`SetupProofs`) | `UpdateAssumption` | `UpdateInv` |
| `SetupTypeCorrect`, `TagsAreNeverStuck` (`SetupProofs`) | the assumptions of `ModelStore` and `Setup` | `NoTagIsBlocked` |
| `CancelsLeaveNoTrace` (`SetupProofs`) | as above, `~Overlap` | `NothingIsWritten`, `ImportFits` |
| `ReadyUnlessMistaken` (`SetupProofs`) | the assumptions of `ModelStore` and `Setup`; of `SoundSpec` | `ReadyInv` |
| its corollary `ReadyIsReady` (`SetupProofs`) | as above, but of `SetupSpec`: `~Overlap`, `OneWeightFile`, `WhatIsThereIsSeen` | `ReadyInv`, `WholeIsGivenBack` |
| `IdentityInvariant`, `TrueEntries`, `TrueSamples` (`ResumeIdentityProofs`) | `IdentityAssumption`, `~KeepStamps` | `CacheInv`, `IInv` |

The assumptions are those on the constants in the modules: plans map cases to stages, the
stage order lists every stage once, timeouts are numbers, a missing file is no content, stages
are of the styles there are (`StagesAssumption`), a configuration has a context, slots and an
offload step (`EngineAssumption`), and a model has one batch of embeddings and one soak
(`LoopAssumption`); runs are numbers and no run or result is "none" (`WindowAssumption`), there are
finitely many runtimes and a version is none of the marks for a directory without one
(`UpdateAssumption`); the names of imported models are not in the catalog, a model has at least one
part, and no weight file is called like a draft or a leftover (`NamesAssumption`,
`FilesAssumption`). Others are conditions under which the code keeps its promise, and not always
fulfilled:

* `StrangersAreTold`: the server of another process can be on the port only where the back end
  looks at what it adopts, which is llama.cpp with a GPU. The other two adopt whatever answers
  (section 3, *Engines*).
* `~Overlap` of `EventStore`: writers take turns, as a parent and its runner do unless a signal
  handler appends beside a working runner (`EventStore_race`). What is left of the chain without it
  is `OnlyOvertakingBreaksTheChain`.
* `~Overlap`, `OneWeightFile` (the names of a repository tell whether it is whole) and
  `WhatIsThereIsSeen` (no `git clone` is cut short, and a vLLM that was installed has its command)
  rule out the four mistakes of Setup; `ReadyUnlessMistaken` does without them.

**`IInv`.** `AttemptsAreSequential` is not inductive: `next_attempt` takes the maximum, and to
know that the next number is free and the previous ones are used takes `NumbersAreDense` (the
used numbers are 1 .. k). That a recovered runner never meets an unprepared case takes
`RunnerIsPrepared`, an invariant over what the runner has *not* gone through yet; and that a
case completes on its own last attempt takes `OnlySoaksStayOpen` and `AttemptsBelongToCases`.
`LastUsed` is a CHOOSE; the lemmas before the step proof show that it is the k of density.

**The ledger.** `ImplementsLedger` maps a case to the sequence of the ends of its attempts. That it
*is* a sequence is density again: a case has ended its attempts 1 .. j, and the next one, if it
exists, is open (`EndsOfACase`). An end written at j + 1 is then an `Append` (`EndsGrow`), which
makes `RecordCase` and `CompleteCase` an `End`, `BeginCase` an `Open`, and `prepare_recovery` an
`Interrupt` of the open attempts among the cases it prepares; no other step changes an end.

**`RunInv`.** The link between the parent's position and the two records: `JobAwaitsStage`
says which state the job has in front of a stage, `OneActiveStage` that no other stage runs in
the JSON, `EndingFitsJob` what the handlers are about to write. The invariants of the journal,
`OfferedAttemptIsAccepted` and `CompleteCaseIsMeasured` among them, carry over by step simulation.

**`CallInv`.** `create_job`, `apply_event`, `resume_stage` and `complete_stage` raise when the
state is not the one they expect, and a parent that meets this fails, or fails once more in the
handler of its failure. `CallsAreAccepted` says where that cannot happen: whatever a parent is
about to commit, the record it goes to takes it, or already has it, or (a first execution that
fails before its first stage) there is no job yet. This takes what a runner and its parent agree
on (`RunnerInv`), what an earlier parent leaves of the stages still to come (`AwaitInv`), and
what a retry was asked for and how it ends (`RetryInv`).

**`StageInv`, `ResumableInv`.** A workload that finds its engine gone returns as if it had worked,
and its stage is complete in the JSON alone (`BenchmarkRun_engine`). `CompleteStageHidesNothing`
says what holds even so: of such a stage, whatever is missing was never tried. To know
that nothing that failed is among it takes how far the parent is with the stage it is at
(`StageInv`). That a stopped run can be continued needs the converse: `ResumableInv` says that
between two parents the two records fit, and that while a parent works they differ only about
the stage it is at. The moments of `Untimely` are where this ends.

**`HasBatch`.** `OnlyOvertakingBreaksTheChain` holds with any number of writers that append at once.
A writer between its two statements has a batch to insert, so the insert of one that was overtaken
always adds a row, and the row names a digest that is no longer the last.

**`TurnsInv`.** A cache entry whose sequence is that of the log is the log (`CachesAreHonest`),
and the writer inside `append` has in hand what its place says (`AppendIsOnTrack`): after the
validation the log and its batch, after the read the last digest. `OneAppends` is where
`~Overlap` enters, and `EventStore_race` shows that it is needed.

**`SupInv`.** `StatusIsOnItsWay` follows the one terminal line of a runner through pipe and
queue (`Pending`): there is none before the runner has ended, then there is exactly one, until
it has been seen. `SentinelIsLast` says that nothing comes after the sentinel, hence that the
loop, which ends only when the sentinel was read, has seen everything. `ParentKnows` is what
each place of the parent implies for the runner. The lemmas on `Append`, `Head`, `Tail` and
concatenation come first.

**`PatienceInv`.** Heartbeats wait in the queue behind the exports of the commits before them, so
the parent may be silent although the runner is not. `BeatsArrive` bounds how long: while no
heartbeat is on its way, the silence is no longer than the last heartbeat is old; while one is,
it is no longer than a period and the exports of all events taken so far, the rest of the one
under way included. Events taken and events on their way are together those announced, at most
one per commit (`Taken`), hence `EnoughPatience`, the condition on the constants: a period and an
export of every commit fit into the timeout. The proof counts events in a sequence (`EventsTail`,
by a bijection) and has one lemma per step that writes, takes or waits.

**`CacheInv` and `IInv` of the identities.** An entry of the cache is true because its stamp was
read before the bytes (`StampsAreBehind`, `CopiesAreTrue`): a file that changed meanwhile has a
later stamp, if changes show in the stamp, which is `~KeepStamps`. `ResumeIdentity_stamps.cfg`
shows that this is needed. On top of it, `Identifies`, `Works` and `Matches` follow a process from
the first file it looks at to its last sample: what it has identified so far is true, is what
the journal holds, and is what it loads. That a recovery may skip verification only of what it
has verified itself takes the marks: whoever recovers has left one in the journal (`Works`),
and each model is verified as long as there is any.

**`OrderInv`, `PauseInv`, `CoverInv`.** A sample gets its time, its window and its values at three
moments, so the order of the timeline takes an invariant on the capture under way: it is
exclusive (`CaptureIsExclusive`), later than every sample (`TimesAreOrdered`), in a window no
older than the last (`EpochsAreOrdered`), and what is labelled with the present epoch is labelled
with its window (`LabelsAgree`). A pause is bridged when the two samples around it are both of
measured windows. The image test marks its pauses, and `HoldsAreMarked` says that between any sample
before one and the moment that it holds the workload, a sample of the pause was taken, whichever
thread took it. The others wait inside the measured window and mark nothing, and theirs is bridged
(`CaseTelemetry_pauses`); `MarkedPausesAreNotIntegrated` says that nobody else's is, whatever the
stage. For coverage, each call in a measured window of the case under way either lies between
two samples of its window or in a window that is still open and whose first sample was before it
(`OwnCallsAreCovered`); `Closed` names the places at which the second is no longer possible because
`mark_window` has just taken a sample. The soak test asks twice whether it is paused, and a
call it makes when the pause is lifted in between falls into the window of the pause: it is not
measured, and the property does not speak of it.

**`EngineInv`, `SentToOwn`.** The engine believes; the servers are. `ServersInv` says what can be true
of the servers at all: one holds the port, and one that the engine does not know of any more is
about to go, which is why none outlives the run, whose last step makes the engine forget the one
it knows (`OverIsOver`). `WaitsForOwn` and `LoadedIsTrue` relate belief and truth: who waits, with
the lock, waits for a server of its own configuration, and what is believed loaded is what the
process was started with. Between the check of a thread and its request stands no lock, and
`SentToOwn` says why the request goes to the right server all the same: the threads of a crew ask
for one configuration, so no other one replaces the server. Crashes may come between any two steps.

**`LoopInv`.** What a workload promises of a whole stage rests on what its loop has behind it.
`ShallowerIsDone` says that nothing shallower than the case at hand is left to do, however the
loop came there: it always goes to the least pending depth, so what is recorded is a prefix. On
top of it, `LeftIsThrough` says that a model is left only when nothing of it is pending, when the
journal has a reason, or when it belongs to those left out without a record; every way
out of a model has to show one of the three, which is what `AfterThrough` and `CloseThrough` do for
each outcome of a call. A case that is not recorded then was never picked, and a stage of picked
cases does not end complete while one is open. `MarksAreOpen` says that a process for the whole
stage meets no settled mark on a model ahead of it: every mark it sets belongs to a model it then
leaves. `CachesAgree` keeps the loaded crash cache equal to the file, so that writing it
as a whole forgets nobody.

**`NoTagIsBlocked`, `NothingIsWritten`.** Only the import at work may have files in a tag's directory
that are no weights and that nobody has reported (`NoTagIsBlocked`); it ends in an undo that leaves
nothing, in weights, or in a report. Setup itself touches only models of the catalog (`QueueFits`)
and the stores it deletes, so this holds with imports and Setups side by side. A cancelled import
is different: `CancelLeavesNoTrace` compares with what was there before, which takes that nobody
else wrote in between (`OneAtATime`), that the registry is written last (`NothingIsWritten`), and
that llama.cpp imports only into an empty directory (`ImportFits`).

**`ReadyInv`.** Setup says "ready" in its last step and looks at nothing again, so each step has to
leave what it promises, or an issue, to all that come after it. `EnginesAreDone`, `ModelsAreDone`
and `ComfyIsDone` say this by the place Setup is at (`FromLlamacpp`, ..., `FromConfig`: a step and
those behind it), and that a step skips what is already there takes `PartsKnown`: of all that an
earlier Setup left half done, only vLLM can look installed without working, and the preflight
asks it. Of the models the ones no longer in the queue are whole; for the one at hand, what is
there and what is still to come make up all but its draft file. Beside Setup or after it, an import
into a chosen model's cache entry only adds to it (`ImportKeepsFiles`) until it is undone. Each of
the four mistakes is where one of these parts gives way, and nothing else is: this is the
theorem. Where they cannot happen, `WholeIsGivenBack` says that what an undone import gives back
is whole.

**`WindowInv`.** `ChildrenFit` and `EndIsTrue` say what the window can rely on (the end of an
output is read after that of its process), `Fits` what it shows and knows, and `LogsAreOwn` what
has been saved. `poll_output` empties its queue in one go, and `Drained` is a function on the
positions of the queue. That there is such a function, and that what one item preserves all of
them do (`DrainedFits`), is shown without induction: were it wrong at some position, it would be at
a least one (`LeastPosition`), before which it is right. An item may end the run and with it save
its log, so `HandleFits` and `FinishFits` follow window, logs and control files together.

**`UpdateInv`.** A rollback can be relied on because everything was staged and works before
anything is touched (`StagedWorks`), because each runtime is moved aside before another takes its
place (`BackedUpFirst`), and because what a rollback has not restored is still aside or counted as
harmed (`UndoneOrHarmed`); `AsideIsKept` carries this past a rollback that failed and a kill. That
two updates do not mix their backups is `OneUpdate`. The simulation of `RuntimeSet` maps the
renames to stutters, the step to `discard` to the replacement of all, and what a failed restore or
a kill leaves to a harm. The attempt to prove it showed that an earlier form of `Installed` was
wrong: it took a runtime that the update had moved and that has no backup for absent, and in
a family of three that is also one which a rollback under way has restored already; TLC's instance
has two. It now looks at the backup where there is one and at the place where there is none.

**Supervision as one step.** `SupervisionIsOneStep` says what lets `BenchmarkRun` take a
supervised runner for a step of the parent: no commit after the outcome, no change of the outcome,
no runner left when it comes, and success in one exactly when in the other. `SupInv` gives all of it
with `DoneHasOutcome`; two Ctrl-C, one in each `cancel`, are the exception.

**Going forward.** What is safety in "it ends" is proved, too. `ProcessGoesForward`: each step of a
workload's process makes its position larger, compared lexicographically (model, part of the work
on it, depth, place, run, crash retry), also when it fails, crashes or is repeated, and
`CallsAreCounted` bounds each count. `ParentGoesForward`: a parent takes the stages one after the
other and never comes back to a step. So neither can go round in a circle, and what
`StageEnds` and `RunGetsAnEnd` add, and TLC checks, is that the next step is taken at all.

**The plan.** The theorems hold of every command line and every registry with `PlanAssumption`.
The three that say what is *not* lost (`OnDropsNoEngine`, `BothMeasuresMtp`, `EmptyPassIsRefused`)
have conditions that the code does not check, and the examples in `MCBenchmarkRun` show what
happens without them. `EmptyPassIsRefused` rests on `DownloadedIsConcurrency`: the tier caps the
models of LLM tests only, so whatever passes the probe is given to some test.

### Only model-checked

* Liveness: `RunGetsAnEnd`, `SupervisionEnds`, `StageEnds`, `CallsEnd`, `ReaderGoes`,
  `WindowComesBack`, `WindowLearns`.
  Liveness under fairness, and ENABLED in it, is out of the prover's reach; of `RunGetsAnEnd` and
  `StageEnds` the safety half is proved (*Going forward*).
* The counterexamples of section 3: that a promise is not kept is one behaviour, and TLC shows it.

## 5. Not modelled, and abstractions

* Of the *export* of a stage, which computes a JSON section from the projection, only which
  models it shows (`Shown`); the properties of the journal state what it may rely on.
* Of *identities*, the plan, the methodology and the environment: they are taken as unchanged
  between a run and its recovery, the case in which `assess_resume` allows it. `BenchmarkRun`
  takes all of them so; `ResumeIdentity` follows weights and runtime.
* The JSON file is written atomically (written to the side and renamed). Its statuses `partial` and
  `pending` are left out: no caller of the modelled code writes the first, and a stage without
  an entry stands for the second (`none`).
* A power failure that loses an SQLite commit or a rename.
* The Windows branch of `stop_process_tree`, and processes that leave the process group.
* What a model answers, scoring, statistics, statistics of samples, and the parsing of the
  output of tools: functions from data to data.
* Reports, dashboard, workspace server, GUI screens other than history and engines, release
  tooling: functions from files to files, with no shared state but the files of finished runs.
* Of the *crash cache*, a write that fails, which is only warned of, and that entries of another
  question bank do not count; of *identities*, that the second look of a process at its files
  loads the cache file anew; of *engines*, the vLLM of another machine (a URL), the launcher mode,
  what `_ensure_model` refuses before it looks at a server, and a foreign server that
  appears within a call.
* Of the *window*, the message of a launch that fails: the window is then as after a "no"
  (`AnswerNo`).
* Hardware detection, sensors, package managers, transfers: pure I/O whose failure is an
  outcome of an action.
* Of *Setup*: screens, preferences, the token and gated models, an outdated Python, the repair of
  ComfyUI's PyTorch; a process id that is used again; whether the window finds a server already
  running. The commands of a step are one program with an outcome. The *download with resume* of
  the runtimes (a part file that is continued although the source has changed).
* Of the *plan*, variants of a model (`--model-variant`), the tool workload's blocked models, the
  plan's digest, and the estimate of its duration.
* The lifecycle's GPU and CPU mode, the content store, the selection of models for conversations.

## 6. Plan

1. The exports as functions of the projection, checked against what a reader expects.
2. `ContentStore`: writers of the same content, write and rename, a reader that verifies.
3. `Lifecycle`: GPU or CPU mode, cleanup whatever failed, the first error kept.
4. Proofs: the composition of `EngineServer` with the calls of `WorkloadLoop`, whose outcomes it
   justifies, and of the supervised runner with `RunnerSucceeds` as one specification.
