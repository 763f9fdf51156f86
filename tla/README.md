# Verification project for BPfeat (Project-AMOS)

TLA+ models, TLC runs and TLAPS proofs for the program in this repository: a
C++ streaming feature engine, the publication layer in front of its queries, the
Python supervisor that runs it, and the data tools around it.

    tlc -workers 2 -config SPSCQueue.cfg SPSCQueue.tla      (any run below)
    tlapm SPSCQueueProofs.tla                               (any *Proofs module)

`PROJECT.json` lists components, runs, the mutant of each property, the source
lines of every definition, findings, hazards and theorems.

## 1. The system

Paths are below `src/`. *H* stands for `source/include/bpfeat/`.

| component | state it keeps | operations | interacts with | hard behaviour | what makes it correct |
|---|---|---|---|---|---|
| SPSC queue, *H*`spsc_queue.hpp` | slots, two indices, close flag | `try_push`, `try_pop`, `close`, `closed_and_empty`, `occupancy` | two threads of the pipeline | lock-free interleaving, stale loads, plain slot accesses, wrap-around | no race, FIFO, end of stream only when drained, conservative occupancy |
| engine pipeline, *H*`pipeline.hpp` | two queues, pressure signal, cancel flag, first error, counters, two files | launch, three worker loops, `check`, `fail`, `flush`, join | queue, controllers, features, model | four threads, feedback loop, exceptions anywhere, deadline, thread creation failing | every event scored once and in order or the run throws; it always ends |
| batch controller, *H*`controllers.hpp` | current size, action and direction counts | `update` | batcher thread | clamps, integer floor, hysteresis | within bounds, can grow again |
| pressure signal, occupancy EMA, alpha controller, *H*`controllers.hpp` | last observation with generation; EMA; alpha | `store`/`load`; `update` | batcher writes, source reads | feedback between threads; clamped slew | observations in order; bounded change |
| keyed features, *H*`features.hpp` | per-key state | `update` | pipeline, coordinator | key budget, per-key time order | rejects before it changes anything |
| publication coordinator and versioned cache, *H*`cache.hpp` | versions, per-key tracking, fresh features, accounting | `process_event`, `query`, `publish`, `get` | `cache_tool`, parity tests | staleness kept beside the cache, uint64 sums, two key budgets, partial failure | exact staleness, policy promise, conservation, monotone versions |
| publication simulator, `tools/publication_reference.py` | the same, in Python | `process_event`, `query` | baseline suite, mechanism pilot | parity with C++ | is the reference |
| engine process, `source/apps/engine_main.cpp` | output directory, phase | preflight, create, run, close, receipt, rename, fail | supervisor, file system | killed or failing between any two steps | a receipt means complete outputs |
| subprocess supervisor, `tools/supervised_runner.py` | attempt directories, child process | `allocate_attempt_directory`, `execute` | engine, tools | timeouts racing the end, orphans after a crash, overlapping calls, inputs changed meanwhile, process trees | a COMPLETED record is true and permanent; `execute` returns |
| streaming runner and adapter, `source/apps/streaming_runner.py`, `tools/streaming_adapter.py` | run directory, `engine_out`, engine process, predictions, telemetry, result | `run_supervised`; `recompute_streaming_metrics` | engine binary, files of earlier invocations | timeout racing the end, engines that survive their runner, telemetry from constants, files promoted one by one | the outputs, receipt and results of a returned run are its own; an accepted one is complete and its metrics mean what they say |
| engine diagnostics verifier, `tools/verify_engine_diagnostics.py` | digests, a replay of the controllers | `verify` | engine outputs | must accept every interleaving of the threads and no other file | passes exactly the untouched attempts of completed engines |
| canonicalisation, `tools/canonicalize_user_behavior.py` | chunk, sorted runs, merge, ledger | read, spill, merge, account | raw data | ties, duplicates across runs, a kill while writing in place | sorted, duplicate-free, nothing lost |
| causal labels, `tools/generate_causal_labels.py`, `source/preprocessing/labels.py` | purchases per user | two passes; in-memory labelling | canonical events | both ends of the horizon, purchases of one second, right censoring | labels and witnesses follow their definition |
| cohort splits, `tools/generate_cohort_splits.py` | split and group of each row, manifest | assign, summarise | labels | boundaries and embargoes, held-out users | nothing of a later period decides an earlier row |
| model training, `tools/train_model.py` | per-user features, training rows, model, manifest | extract, fit, save | canonical events, cohort | rows matched by number between two files, failures between two outputs | learns from training rows only; manifest describes the model |
| workload generator, `tools/workload_generator.py` | loaded events, schedule | load, repeat, schedule | raw or canonical source | repetition breaks the order of a key, phases of different length | an open-loop trace in phase order |
| mechanism pilot and baseline suite, `tools/run_mechanism_pilot.py`, `tools/baseline_suite.py` | trials, phase accounts, tuned cadence, quota | trial, tune, compare | workload, simulator | budgets of one trial depend on another, exact quota | output only from comparable trials |
| reproduction verifier and script, `tools/reproduction_verifier.py`, `scripts/reproduce_all.sh` | digests, manifests | check, build, compare, report | published results, raw runs | status independent of the digests, reruns over old output, interruption | PASS stands for a comparison made in this run |

Not modelled:

- `tools/cache_tool.cpp`: a command line driver that feeds a file to the
  coordinator. Its options appear as the policies `Publication` is checked with.
- *H*`replay.hpp`, *H*`model.hpp`, *H*`numeric.hpp`, `source/reference/filter_math.py`: parsing,
  floating-point scoring and number formatting, without state between calls. In
  `Pipeline` the reader is a `next()` that delivers, ends or throws, and the
  model a score that may throw.
- `tools/independent_analysis.py`, `tools/robustness_analysis.py`: statistics over
  finished results (bootstrap, confidence intervals), floating point from end to
  end. Their outputs are files `Reproduction` finds present or missing.
- `tools/hardware_profiler.py`, the inventories and legacy profiles: sequential
  input/output and report formatting.

## 2. Modules and how they compose

    BoundedFIFO  <- refined by -  SPSCQueue            SPSCQueueProofs
    EventStream  <- refined by -  Pipeline  - EXTENDS BatchController
    PublicationReference <- refined by - Publication   PublicationProofs
                                         MCPublication (values for TLC)
    Supervision                                        SupervisionProofs

    Canonicalize <- CausalLabels <- CohortSplits <- ModelTraining
                      (each EXTENDS the one before)    ModelTrainingProofs
                                         MCData
    Workload <- PolicyTrial <- Experiments             ExperimentsProofs
                  PolicyTrial INSTANCEs PublicationReference
                                         MCExperiments
    BatchController <- Controllers <- DiagnosticReplay <- Streaming
    RankingMetrics <- StreamingRunner <- Reproduction  <- Streaming
                                         MCStreaming   StreamingProofs
    Sublists         the rows a loop picks out of a list, used by CausalLabels,
                     CohortSplits, ModelTraining, PolicyTrial, DiagnosticReplay
    RecursionLemmas  lemmas on recursive functions, used by the proof modules

Two abstract specifications are contracts written for the purpose
(`BoundedFIFO`, `EventStream`); the third is itself a program of the repository:
`PublicationReference` is the Python simulator, and the C++ coordinator is
checked and proved to implement it. `Pipeline` uses queues that behave as
`BoundedFIFO`, which `SPSCQueue` is proved to implement, so the two levels compose.

### SPSCQueue

One step per access to shared memory. `write`, `read`, `closed` are `write_`,
`read_`, `closed_`; `unseenPops` and `unseenPushes` say how far behind a thread's
knowledge of the other index may be. A load picks any value that is not older
than what the thread has already acquired, which is what acquire loads of
release stores permit; `closed_.load(acquire) == true` makes all earlier pushes
visible. A slot under assignment holds `Torn`; copying is a step of its own.

| code | actions |
|---|---|
| `try_push` | `PushBegin`, `PushCheckFull`, `PushAssign`, `PushPublish` |
| `close`, `occupancy` | `Close`, `Occupancy` |
| `try_pop` | `PopCheckEmpty`, `PopCopy`, `PopRelease` |
| `closed_and_empty` | `EofLoadClosed`, `EofLoadIndices` |

The refinement mapping reads the queue off the live slots; the linearisation
points are the two index stores.

### Pipeline

Program counters `main`, `src`, `bat`, `scr` for the four threads; queues as
sequences; an event is its number and the generation of the pressure sample it
saw. Local work is merged into the neighbouring access of shared state. A queue
operation may be refused although it could succeed (`...Refused`,
`...NotEof`), because the caller's view of the other index may be stale. Every
place that can throw is a disjunct guarded by a member of `Faults`: thread
creation, `next()`, event order or key budget, trace file, scoring, prediction
file, deadline. `Check` is `check()`, `Record` followed by `...Cancel` is
`fail()`: the error is stored under the mutex, then `cancelled` is set, in two
steps. The value of the pressure is a nondeterministic `Zone` (below, between,
above the thresholds); the batch law of `BatchController` is exact, with
rational factors. `created_ns`, latencies and `pause()` are left out.

### Publication and PublicationReference

`users`, `fresh`, `tracking`, `cache`, `total`, `acct` are `features_`,
`latest_fresh_features_`, `key_tracking_`, `versions_`, `total_publications_`,
`accounting_`. A feature vector is a function of the events of its key, so it is
represented by their number: equal numbers mean equal vectors and feature error
0. Event times, thresholds and sums are integers modulo `Word` in the native
module and unbounded in the reference. `ProcessEvent` is the whole of
`process_event`, with the throwing branch of `publish` (`PublishThrows`);
`Conserved` shows, and the proof establishes for all constants, that this branch
is unreachable through the coordinator. `Query` changes only counters; what it
returns is `Answer`.

### Supervision

One activation of `execute` per element of `1..Executions`, each with its child.
Directories hold the set of files that exist, who created them, whose logs they
hold, and the record. `HashInputs` ... `DumpRecord` follow `execute` from top to
bottom; the missing-executable branch shares the file actions under its own
locations. `EnginePreflight` ... `EngineFail` follow `engine_main.cpp`. External
steps: the input file is changed, removed or restored; a supervisor dies and its
child goes on (it has its own session); a tool or its helper exits; SIGTERM takes
effect on a leader, at any time after it was sent. A helper may ignore SIGTERM.
Two executions overlap only when `Overlap` holds.

### Canonicalize, CausalLabels, CohortSplits, ModelTraining

The data tools run one after the other; `stage` says which, and each reads the
files the one before it left. A row is a time, a user, an item (with its
category) and a behaviour.

| code | actions |
|---|---|
| `canonicalize`: row loop, spill, `heapq.merge`, ledger | `ReadRow`, `ReadMalformed`, `EndOfInput`, `Merge`, `WriteLedger`, `KilledMerging` |
| `generate_causal_labels`: two passes over the file | `Pass1`, `Pass1Empty`, `Pass2` |
| `generate_cohort_splits`: rows, summary and exit code | `SplitRows`, `WriteSplits` |
| `train_model`: extraction, checks, model, manifest | `FeatureRow`, `NotTrainable`, `SaveModel`, `WriteModelManifest` |

Reads may mix any rows in any order, so runs are cut anywhere and duplicates lie
in one run or in several. The output is written in place: `KilledMerging` leaves
an initial segment without a ledger, which the next tool accepts, as in the code.
`BisectRight` is the binary search of the code (right only for sorted times), the
label of the definition is `FuturePurchaseLabel`, from `preprocessing/labels.py`.
A feature vector is a function of the user's history, so it is the history; a
model is a function of the training rows, so it is these. Thus the property that
nothing leaks forward compares whole examples with those computed from the file
cut at the end of the embargo.

### Workload, PolicyTrial, Experiments

`ReadSource`, `SourceRead`, `SchedulePhase` are `load_validation_events` with its
repetition and `generate_open_loop_trace`. A trial (`BeginTrial`, `TrialEvent`, `TrialQuery`,
`EndTrial`, `TrialRaises`) plays the trace phase by phase to a fresh simulator,
which is an instance of `PublicationReference`, or to the quota policy of
`baseline_suite.py`. `Experiments` is `main` of the two studies: the pilot's
grid, or tuning (`ChooseCadence`) followed by the six trials of the suite, then the
checks and `WriteOutput`. `ToolFails` is any exception: nothing is written.

### Controllers, DiagnosticReplay

`Controllers` adds to the batch law its counters, the occupancy EMA and the
slew-limited alpha, over exact fractions of `Unit`, so that no rounding enters.
`DiagnosticReplay` runs the feedback loop of `pipeline.hpp` with these values
(`Extract` is the source, `Batched` and `Complete` the batcher and the writer,
`EngineStops` a failure) and then `verify` (`DigestBefore`, `Replay`,
`DigestAfter`, `NoReceipt`) with its own formulation of the same laws
(`ReplayTarget`, `EmaAt`, `AlphaAt`). `Damage` changes one file: a record lost,
two swapped, an item booked in the batch before, another target, tail or counter.

### RankingMetrics, StreamingRunner, Reproduction, Streaming

`RankingMetrics` has the three implementations of AUROC and average precision in
the repository and their definitions. `StreamingRunner` invokes `run_supervised`
several times on one directory: `Invoke`, `EngineExited`, `Timeout`, `List`,
`Unlink` and `Move` for each child of `engine_out`, `Promoted`, `WritePredictions`,
`WriteTelemetry`, `WriteResult`, `Crash`; its engine (`EngineCreates`, `EngineOpens`,
`EngineWrites`, `EngineDrafts`, `EngineRenames`, `EngineFails`) has a session of its
own and survives a crash. `EngineFiles` are all it can leave: both outputs, the pending
receipt (killed before the rename), the receipt, and the failure record (any exception
once its directory was created). The promotion moves whatever is there, after failures
too, and nothing removes it from the run directory but a later file of its name. `Audit` is the
adapter. Every file carries the invocation it is from. `Reproduction` is the shell
script and the verifier over the directory left behind. `Streaming` joins the
replay and the runner; they share no file.

## 3. Runs, bounds and results

Sizes are distinct states; the longest passing runs, `supervision`, `data` and
`streaming`, take one to two minutes on two workers, the others less than one.

| run | bounds | states | question and result |
|---|---|---|---|
| `ring` | 4 slots, 2 values | 73 686 | Race freedom, conservative occupancy, end of stream, refinement of `BoundedFIFO` with its liveness. Holds. 4 slots give empty, partly full and full rings, wrap-around, and staleness up to the whole ring. |
| `pipeline` | 4 events, one-place queues, batch bounds 1..3, every fault | 1 077 000 | Nothing lost or reordered at any moment, an abandoned run has a cause, the trace explains the batches, the final conservation check never fires, refinement of `EventStream`. Holds. One-place queues make every push and pop block; four events give two full batches, or one and a tail, at sizes reaching both clamps. |
| `pipeline_live` | 3 events, fixed batches of 2, faults in each thread | 32 963 | The run ends with visible queues, and by the deadline even if a queue refuses for ever. Holds. Three events in batches of two leave a tail. |
| `publication` | 3 keys, budget 2, times 0..2, 5 events, 1 query, Word 16 | 92 222 | Exact staleness, policy promise, conservation, monotone versions, parity with the simulator in steps and answers. Holds. Three keys against a budget of two exercise rejection; pressures include values outside [0, 1]. |
| `publication_wrap` | thresholds up to Word - 1 | - | Parity without the bound on thresholds. **Violated**, see finding 1. |
| `data` | 4 raw rows, runs of 2, seconds 1..7 with one for each split and embargo, two users of whom one is held out, files cut by `--max-rows` 2 | 1 743 435 | Canonical output is a sorted set, labels follow their definition, nothing leaks forward, the manifest describes the model. Holds. Four rows are two full runs with ties and duplicates across them, and the least that gives a model: two training rows of both classes and a validation row. |
| `experiments` | 4 phases in the shape of the real ones, 5 source times, 2 keys and a cold one, a grid of 4 policies and 2 batch sizes | 218 362 | The quota is spread to the exact budget, a study writes output only from comparable trials, larger cadences publish less and answer staler. Holds. Four events make the repetition of one, two or three loaded events happen; in the stress phase the queries outlast the events. |
| `streaming` | up to 6 events, batches of 1..4, all four modes; 2 invocations, 4 cohorts, events files of 0 and 3 rows | 1 909 391 | The replay passes exactly untouched completed attempts, batch sizes recover, the outputs, receipt and results of a returned run are its own, PASS stands for a replayed number. Holds. Six events let a batch size fall to the minimum and rise again and alpha saturate; two invocations are one that fails, times out or crashes, and one that meets what it left (`SuccessLeavesOwnFiles` is for any number). |
| `supervision` | 2 executions one after the other, crashes, one input change, engines and tools, `communicate` raising in the first | 877 488 | A COMPLETED record has its own engine's receipt and rows, stays true, binds the input; records are permanent; `execute` returns. Holds. Two executions are what an orphan needs to collide with its successor. |
| `supervision_overlap` | 2 overlapping executions, no crash | - | Records permanent under overlapping calls. **Violated**, see finding 2. |
| `supervision_exhausted` | 3 executions one after the other, pattern ends at number 1 | - | Records permanent once numbers outgrow the pattern. **Violated**, see finding 4. |
| `supervision_tree` | one tool with a helper | - | Nothing of a TIMED_OUT tree survives. **Violated**, see finding 3. |

`CHECK_DEADLOCK FALSE` stands where the system may stop: the users of a queue or
of the coordinator may never call it again, all executions may be over, and the
data tools, the studies and the reproduction end.
`Pipeline` has an explicit final step and is checked for deadlock.
`MaxEvents`, `MaxQueries`, `MaxRaw`, `MaxRuns`, `MaxSamples`, `Changes`, `Executions` and
`Events` bound counters in guards; a reproduction is repeated once.

### Fairness

- `SPSCQueue`: weak fairness of the consumer's started operations; strong
  fairness of a load that returns the newest index and of reading `closed`,
  because the consumer polls both and the C++ standard asks that a store become
  visible in finite time. The producer is never assumed to do anything.
- `Pipeline`: weak fairness of each thread (an operating system schedules
  runnable threads; `next()` returns). `EndsWithVisibleQueues` adds that a queue
  operation which is possible again and again is not refused for ever;
  `EndsByDeadline` needs no such assumption, only that time passes.
- `Supervision`: weak fairness of each supervisor, nothing of its child.

### Findings

1. *Elapsed-time threshold wraps* (`publication_wrap`). *H*`cache.hpp:162` adds
   last publication time and threshold as uint64. `cache_tool` accepts every
   uint64 for `--delta-t-ns`; with one near 2^64 the sum wraps and each later
   event is published, where the simulator coalesces. The tests claim
   cross-runtime parity (`tests/test_publication_core.py:199`).
2. *Attempt allocation is not atomic* (`supervision_overlap`).
   `tools/supervised_runner.py:91` chooses a number and the directory appears
   only later, with `exist_ok=True` on the supervisor's side. Overlapping calls
   share an attempt and the second rewrites the first's record, against lines 8-9
   ("Prior attempts are permanent evidence and are never deleted or overwritten").
   Calls one after the other are safe, even after crashes (`supervision`).
3. *A helper can outlive the timeout* (`supervision_tree`). If the leader dies of
   SIGTERM at once, `terminate()` reaps it, `getpgid` then fails and the group
   gets no SIGKILL, against line 6 ("process tree termination (SIGTERM ->
   SIGKILL)").
4. *Attempt numbers outgrow their pattern* (`supervision_exhausted`).
   `tools/supervised_runner.py:85` looks for `attempt\d{4}`; `attempt10000` does not
   match, so the next call is given 10000 again and rewrites its record. The run
   scales 9999 down to 1; the other runs keep the numbers below the limit.

### Seen while modelling, without a run of their own

- The feature of `streaming_runner.py:330` that boosts a score under one policy
  depends on the label; `AcceptedRunIsOwn` therefore allows three scores per event.
- A cohort generated at `streaming_runner.py:285` lacks `sample_id`, so the
  adapter rejects every run over it; an empty label raises at line 403, after the
  predictions and the telemetry were written.
- Among tied scores the adapter's average precision (`streaming_adapter.py:73`)
  depends on the order of the file, the runner's does not; `AcceptedRunIsOwn`
  states their equality when no two classes tie.
- An engine orphaned by a crashed runner can write into the `engine_out` of the
  next invocation, whose receipt is then not its own. `AcceptedRunIsOwn` is about
  invocations that do not overlap an earlier engine (`overlapped`).
- The engine records a failure in a directory of its own (`engine_main.cpp:130`), but
  `run_supervised` moves every child of that directory to the run directory, whatever the
  exit code (`streaming_runner.py:230`), and removes nothing an earlier invocation left
  there. A failed invocation and then a successful one thus leave `engine_failure.json`
  beside `engine_receipt.json`, and an engine killed before its rename leaves
  `engine_receipt.pending.json` there; `verify_engine_diagnostics.py:90` refuses such
  a directory. `AcceptedRunIsOwn` says these two files, and no others, may be old.
- A promotion listed before an orphan renames its pending receipt finds the child gone and
  raises (`Move`), with the files moved so far in the run directory.
- An exception of `communicate` other than the timeout ends a supervised call as FAILED
  without a signal to the child (`supervised_runner.py:286`, `CollectRaises`).
- A number or digest that differs is recorded by the reproduction verifier and not looked
  at; its summary says PASS and VERIFIED in all cases that do not raise
  (`reproduction_verifier.py:461`), and no property claims more.
- Raw sources code `fav` 1 and `cart` 2, canonical ones the other way round
  (`workload_generator.py:114`), and the cohort filter applies to canonical
  sources only; the schedule is the same either way.
- `generate_cohort_splits.py:126` uses a labels file that is there, whatever horizon it
  was made with; in the model the labels are always those of this campaign.

## 4. What is proved

TLAPS proves the following for every value of the constants that satisfies the
named assumptions of the modules.

`SPSCQueueProofs` (any power-of-two ring, any values; `SlotsAssumption`,
`ContentsAssumption`). `NoDataRace` is not inductive: what matters is how much a
thread knows. `IInv` adds that backlog plus the pops the producer has not seen
leave a slot free (`RoomInv`), that the pushes the consumer has not seen are
still queued (`ViewInv`), that live slots hold whole values (`DataInv`), and what
`closed` implies at each location (`CloseInv`). From it follow `TypeCorrect`,
`RaceFree`, `EofCorrect`, `OccupancyConservative` and `RingImplementsFIFO`: the
two index stores map to `Accept` and `Deliver`, everything else stutters, by
lemmas on circular distance and on the sequence read off the live slots.

`PipelineProofs` (any number of events, any room of the two queues, any set of
exceptions, any batch range and factors that shrink and grow; the assumptions of
`Pipeline` and `BatchController`). Every safety property of `Pipeline` is a theorem.
None is inductive alone; `IInv` has twelve parts. `Shape` gives the records of the
threads their types, without the bounds. `LaunchInv` says who has been launched and
joined, `CauseInv` that a worker leaves its loop only when its input is closed and
drained or an error is recorded. `SourceInv`, `BatcherInv`, `ScorerInv` say what each
thread holds at each of its locations and how its counters relate to that.
`FrontInv` and `BackInv` say where each place stands in the stream: features and the
batch being filled are anchored at the batcher's counter, the queued batches follow
one another from the scorer's counter up to it. `GenerationInv` orders the pressure
generations along the stream, `TraceInv` ties the trace to the generations,
`OutputInv` and `BoundInv` bound what has been written and queued. A frame lemma per
thread says what its steps leave alone, so each part is proved for the threads that
can disturb it. Theorems:
`AbandonedWorkExplained`, `ConservationNeverFails`, `PressureIsCausal`, `TypeCorrect`
directly from `IInv`; `PipelineImplementsStream`, step by step: writing a row maps to
`EventStream`'s delivery, returning and throwing to its two endings, all else
stutters; `NothingIsLost`, where the flattened places are laid end to end and each
position found in its place; `TraceExplained`, whose sum over the trace is carried
along as `SumInv` (counts of the trace plus the batch in hand are the events batched).

`RecursionLemmas` holds what those proofs need to know of `Max`, `FlattenSeq` and
`SumFunction`. The community modules define them by CHOOSE or by a recursive
function; that the recursion has a solution is shown by least counterexample, from
the library's theorem that < on the naturals is well-founded, which needs no
operator parameter. The same argument gives that any function recurring on its
predecessor has a solution (`RecursionExists`) and that what holds at 0 and is kept by
every step holds up to n (`UpTo`), and from these the layout of a list of picked rows
(`Sublists`): each pick is at the place that counts the picks up to it, in their order.
That a sum does not depend on the order in which the fold picks
its indices (`AnyOrder`) is the core of `SumWithout`: a sum over a finite set is the
sum without an element, plus that element. `SumOfOneMore`, `SumOfOneChanged`,
`SumOfZeros` and `SumOfNaturals` follow; the pipeline, the data tools, the replay and the studies all count with them.

`PublicationProofs` (any keys, policies, word width, bounds;
`PublicationAssumption`). `IInv` ties the three tables of a key together
(`KeyInv`: pending + cached = folded-in events; `hasPublished` iff a version
exists; equal times), bounds per-key numbers by the global ones (`BoundInv`) and
known keys by the budget (`BudgetInv`). The cached keys are a subset of the known
ones, so `publish` has room: `AccountingConserved`. Also `StalenessIsExact`,
`PoliciesHonoured`, `CacheAdvances`, `AnswersAgree`, type correctness, and
`NativeImplementsReference` under `NoWrap`: no elapsed threshold plus `MaxTime`
reaches `Word`. Finding 1 is what happens without that premise.

`SupervisionProofs` (any number of calls, overlapping or not, crashing or not, any
children and any number of input changes; `SupervisionAssumption`). The property
that a record describes its own engine is far from inductive. `IInv` says where a
supervisor and its child can be at the same time (`PlaceInv`), that a directory
has one owner which alone fills it, with the exact files of each of the owner's
locations, and that an engine that exits with 0 left its receipt (`OwnerInv`),
that a COMPLETED record was written by a call whose child had exited with 0
(`RecordInv`), and which contents can have been read and hashed (`InputInv`,
`BindInv`). One lemma, `StepEffects`, reduces each of the 27 steps to what it does
to its own activation, child, directory and record; the invariants follow from
that, and `OwnerInv` from the engine's moves (`EngineWrites`). Theorems:
`ReceiptsSound`, `CompletedRecordsSound`, `InputBinding`. No restriction on
overlap is needed for these three. Calls begin in order and take a number no larger
than their own, and a directory is there because a call that has begun was given its
number (`OrderInv`), which with the fields' types (`TypesInv`) gives `TypeCorrect`, for
overlapping calls too. `RecordsStay` and `RecordsAreSealed` have two premises: calls
for a run directory do not overlap, and the pattern finds every attempt there can be
(`Executions <= FourDigits`). Both are needed, findings 2 and 4 are what happens
without; the code enforces neither, a caller has to. Then `Allocate` gives a number
above that of every directory (`NextAttemptFresh`, from `MaxExists`), so a finished call
shares its number with no later one and whoever still acts is the latest call
(`TurnInv`); what that call, or an orphaned engine of an earlier one, writes is not the
directory of a completed run (`SealInv`, `DirectoryKept`).

`StreamingProofs` (any batch range, factors, thresholds, gain, queue, and any
length of the stream): `BatchSizeRecovers` and `ReplayIsExact`. For the first, the invariant relates the
controller's size to the target of the latest written or open batch, and each
decision at a low sample to the one before; the sum over a stretch of low samples
follows row by row. `ReplayIsExact` states `ReplayDecides` in both directions: `verify`
passes every attempt the engine completed in any interleaving of its threads, and none
with a damaged file, none that stopped, none altered between the two digests. While
the engine runs, `LoopInv` says that every decided row obeys the policy of the verifier
and that the counters count its moves (`DecidedInv`), that each event has one place -
a prediction, the open batch, the queue - with the alpha and the pressure its law gives
it (`OpenInv`, `StreamInv`), and that each row books the predictions of its batch
(`Booked`). The engine steps its controllers forward, the verifier recomputes them from
the files with formulas of its own: the lemmas ending in `TwoWays` show these equal,
rounding included, and the ones ending in `Replay` carry that over the whole file. In
the other direction `DamageSeen` takes each single damage - a row or a prediction lost,
two swapped, an item booked in another batch, a target, a tail flag, a counter changed -
and names the comparison that fails. Nothing is assumed of the length of the stream or
of the mode. `SuccessLeavesOwnFiles`, for any number of invocations and any
place where runners and engines crash, fail or time out: the first half of
`AcceptedRunIsOwn`, what a return of 0 says of the directory (`SuccessIsOwn`): the
engine's outputs and receipt and the runner's three files are of this invocation, all
events are scored, and a failure record or pending receipt beside them is of an earlier
one. `RunnerInv` follows the files of the latest invocation from its engine's steps
(`EngineProgress`) through the promotion, file by file, to the reports
(`SuccessProgress`). That an engine which succeeds has left neither a failure record nor
a pending receipt is part of `EngineProgress`; that no invocation meets such a file under its own
number is `Bygone`: they carry the number of an invocation so far,
and in the run directory of an earlier one while the runner waits and after a success.
The invariant needs that no engine of an earlier invocation is alive when one begins (`overlapped`), which the runner does not test: an orphan writes into its
successor's `engine_out` by path. The second half, what an accepted audit then
says, reads filtered sequences and recursive metrics and stays with TLC.
`PassIsOfThisExecution`, for any number of executions of the reproduction, failing
or interrupted anywhere, and any files those before left: `PassMeansReplayed` with
the AP the verifier computes from the raw predictions (`RawAP`). `ReproInv` says what
each step has established for those after it: the digests (`DigestsChecked`, as long
as no user regenerated the data or the model), the first manifest with the replayed AP
(`ManifestIsOwn`), the second one (`PerNumberIsOwn`). That `RawAP` is the AP by
definition, the rest of `PassMeansReplayed`, compares recursions over the predictions
and stays with TLC.

`ModelTrainingProofs`: `EmbargoSeparates`, for any boundaries whose embargoes last at
least a horizon: what decides a training label lies before the validation period,
what decides a validation label before the test period. And `FileIsSortedSet`, for
any raw rows (`CanonicalizeAssumption`: rows are as `parse_and_validate_row` returns
them), chunk limit and number of runs, whether the tool is killed while merging or
not. The property speaks of the finished file only; its invariant `CanonInv` follows
the rows there. `RowsAccounted`: chunk, runs and file together hold exactly the rows
kept so far, and the counters add up with the lengths of the runs; `RunsInOrder`: each
run is sorted; `MergedSoFar`: the file is sorted and strictly increasing, and its last
row is before no row still in a run. The order of the keys is total and tells two rows
with one key apart from none (`BeforeIsOrder`, `KeysIdentify`); that a set of rows has
a sorted arrangement (`OrderExists`) is again by least counterexample; taking the
smallest head (`TakeEffect`) therefore takes the least row of all runs.

`ModelTrainingProofs` goes on to the tools after it. `LabelsAreCausal`
(`LabelsMatchDefinition`): `buys` holds, per user, the seconds of the purchases in file
order, hence grows; then `BisectRight` stops right behind the last second up to the
event's own (its two bounds bracket that place in every step of the recursion), and the
entry there is the earliest purchase after the event, which decides the label as the
definition has it (`LabelsInv`). `TrainingIsCausal` (`NothingLeaksForward`), under
`Embargoed`, the condition of `EmbargoSeparates`: the cohort holds labelled rows, each
at most once (`CohortInv`); while the rows are matched by number, `users` is the history
of each user in the rows read (`HistoryInv`), so every example is made of its own row,
that history and that label (`ExamplesInv`). History and label then read the file only
up to the embargo's end, and are those of the file cut there. `ManifestIsOfModel`
(`ManifestDescribesModel`): the summary counts the cohort (`SummaryInv`), the examples
extracted so far are as many as the cohort's rows below the row reached (`CountsInv`),
and the model is that of these examples (`ModelInv`).

`ExperimentsProofs`: `BudgetIsMatched`, for any phases, source files, tuning
candidates, grids and pressures (`WorkloadAssumption`, `ExperimentsAssumption`).
Inside a trial `processed * target = published * N + accumulator` with the accumulator
below `N`, the number of scheduled events (`BudgetSpread`); an event keeps that
(`OneMoreShare`) provided `target <= N`. This bound is not local: the target is what
joint_adaptive published, two trials earlier, and is found by name among the
results. So the invariant also says that in the suite only that trial bears the name
and has no quota (`SuiteInOrder`), that a trial without a quota processes at most `N`
events, since the simulator is built with that limit, and sums its phases' publications
to no more (`TrialAccounted`), and that every finished one keeps the bound
(`ResultsBounded`). No assumption on the order of the events is needed.

`StudiesAreComparable` (`OutputComparable`) and `LargerCadenceIsStaler`
(`ActuatorSign`) compare whole trials, for any phases, source files, grids, candidates
and pressures. The invariant is `StudyInv`. While the trace is scheduled, each phase's
operations are a stretch of `events` and `queries`, of the length its specification
gives (`ScheduleInv`); so the trace of a trial, phase by phase or tuning's, is a merge
of the two lists in which nobody overtakes (`PhasesMerged`, `TuningMerged`,
`TraceInterleaved`), and an earlier phase is played before a later one
(`PhasesInTurn`). What a trial publishes and answers is a function of its trace, policy
and order alone: `CoreOf` is the pending counts, publications and answers after i
operations, and the simulator is there at every step, with the accounts of each phase
at the number of its operations played (`TrialInv`). The times of the keys are not
scheduled in order by themselves: `process_event` refuses the first event that goes
back, so a trial that ends has seen them grow. A finished trial is therefore verified,
conserves, holds the core at the end of its trace, and a quota publishes exactly its
target (`Fulfilled`, by `ExactShare` from the accumulator); two trials of one policy
and order agree, and budget_matched matches joint_adaptive, found by name
(`BudgetsMatch`). `WorkloadAssumption` asks for at least one phase and no negative
number of queries.

For the sign of the actuator, the cores of two cadences on one trace are followed side
by side (`Slower`): if v is a multiple of u, the two pending counts of a key differ by
a multiple of u (`InStep`), so whenever the slower publishes, so does the faster
(`CadenceStep`), and no query ever finds less pending with the slower. For other
pairs this is false: after three events of one key a cadence of 2 has one pending and
a cadence of 3 none. The code's own check compares means, which `ActuatorSignVerified`
models and no property claims.

Only model-checked:

- liveness (`ImplementsLiveFIFO`, the two termination properties of the pipeline,
  `AlwaysReturns`), which with ENABLED is out of the prover's reach;
- the audit's half of `AcceptedRunIsOwn` and the metric half of `PassMeansReplayed`:
  that three programs compute one AUROC and average precision is an equality between
  sums over a sorted file and sums over groups of tied scores, an induction over data.

## 5. Abstractions to know about

- The ring model is about one producer and one consumer, as the class demands.
- `Pipeline` assumes the queue contract and does not interleave inside a queue
  operation; `first_error` is read after the joins. Steps that touch only a
  thread's own data and files are merged.
- The coordinator is single-threaded here, as in its only callers.
- `CompletedBindsInput` speaks of a file changed at most once: one that is changed
  and restored between the two hashes cannot be told from an untouched one.
- The supervisor's grace periods are nondeterministic delays. `Raising` bounds the
  calls whose `communicate` raises something else than the timeout; the proofs hold
  for any such set.
- A header of the pipeline's outputs that cannot be written (`pipeline.hpp:96`) throws
  before any thread exists, and ends as a failure of the first launch does
  (`MainLaunchFails`), except that nothing has to be joined.
- What two engines write into one file is taken to be the later opener's.
- Canonicalisation: a torn last line of a killed tool is taken to be cut off;
  `--max-rows` is one value for the tools after it.
- A study's losses, feature errors and latencies are left out, so the tuned
  cadence is any candidate; the query keys of a workload are any active keys or
  the cold one.
- Controllers compute over fractions. The replay compares doubles with a
  tolerance, which is not modelled; nor are clocks, features and scores.
- Of the streaming runner the latency statistics, the clamp and the seeded jitter
  of scores are left out, of the reproduction verifier all headline numbers but
  the one with raw data. When the runs are over their inputs are forgotten
  (`Left`), which only shrinks the state.

## 6. Plan

Done, in the order of their importance to the engine's results: the queue, the
pipeline, the publication layer, supervision, then the controllers with their
replay, the data tools, the studies, the streaming runner and the reproduction.

Left: the remaining headline numbers of the reproduction verifier.
