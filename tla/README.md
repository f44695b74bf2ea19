# Verification of the CPS runtime

TLA+ models, TLC configurations and TLAPS proofs for this repository: a runtime
that executes small JSON programs in which a step may be *performed* by a weak
model, a strong model or a local tool, and in which a failed step *captures a
continuation*, lets a stronger handler "think", and *resumes* with the repaired
value. Around the runtime are a static validator, stores on disk, a model client
with a budget, and an experiment that improves the program by installing patches.

All paths below are relative to the repository root; the crate is in `src/`.

## 1. The system

| Component | State | Operations | Modelled by |
|---|---|---|---|
| Program IR, `src/program.rs`, `src/effects.rs` | none (data) | evaluate expressions and guards, effect permissions | `ProgramIR` |
| Static validator, `src/validator.rs` | none | accept or refuse programs, fragments, patches; apply patches | `Validator` (programs, fragments), `PatchOps` (patches) |
| Runtime, `src/runtime.rs` | frames, fuel, effect/fragment/patch budgets, pending patches, trace | 10 instructions, `resolve_effect`, `handle_captured_think`, resume | `CpsRuntime` |
| Trace and replay, `src/trace.rs` | event list | append, `replay_trace_events` | `TraceReplay`, and the appends of `CpsRuntime` |
| Model client, `src/responses_client.rs` | none of its own | look up cache, reserve, send, cache, record | `ModelCalls` |
| Budget guard, `src/store/budget_store.rs` | reservation table (mutex), `spend.jsonl` | check, reserve, release, record, reset | `ModelCalls` |
| Model cache and call log, `src/model_cache.rs`, `src/store/model_call_store.rs` | files | get, put, append | `ModelCalls` |
| State directory, `src/store/state_dir.rs` | files | read, write (truncate and fill) | `StateDir` |
| Program registry, `src/store/program_registry.rs` | a program and a metadata file per version, `latest` | init, install, list, set latest, baseline | `ProgramRegistry` |
| Patch registry, installer, optimizer, `src/store/patch_registry.rs`, `src/optimizer/` | one file per patch and status | propose, validate, evaluate, install, reject | `ProgramRegistry`, `PatchInstaller`; optimize from a profile in `RunStream` |
| Run coordinator, `src/engine/` | none | run each event of a stream in its own boundary, record the patches it offers, its trace, profile and metrics | `RunStream`; as a phase of an experiment, `Offer` and `Lines` of `Experiment` |
| Trace, profile and metrics stores, `src/store/` | a trace file and a metrics file per run, four profile files | append a trace, count it in the profile, write metrics, list stored events | `RunStream` |
| Experiment runner, `src/experiment/` | `config.lock.yaml`, `run_manifest.json`, phase markers, artifacts, predictions, quality, reports | run phases, resume, gate and install the semantic patch | `Experiment` |
| … its direct variants | a `JoinSet` of tasks, a prediction file | spawn, join, sort, append | `DirectVariant`, on top of `ModelCalls` |
| … its semantic patch | the plan | validate the plan, render it as a patch, answer events with the patched program | `PatchOps`, `SemanticFastPath` |
| Local tools, `src/local_tools/` | none | validate a match, render an answer | `SemanticFastPath`; any tool, as environment of `CpsRuntime` |
| Models, `src/models.rs` | none | answer an effect | environment of `CpsRuntime` and `SemanticFastPath` |
| Pricing, schemas, reports, comparisons | none | arithmetic, formatting | not modelled |

How they interact. The CLI or the experiment runner loads a validated program and
calls `Runtime::run_boundary_*` with one event. The interpreter calls a
`ModelHandler` for every effect and awaits it while holding `&mut ProgramState`,
so inside a boundary everything is sequential; what is hard is the recursion: a
handler's decision may request a further effect, that effect may capture, and the
capture's own handler may request effects again. A handler that is a real model
goes through `ResponsesClient`, which many boundaries share: the experiment's direct
variants run tasks in parallel, and these interleave between any two file operations.
The experiment, the installer commands and the stream runner share a workflow's
registry on disk, and `optimize` reads the traces and the profile that streams wrote, one command after the other, each of which may be killed between
any two file operations; an experiment is written to be started again.

What is hard to test, by component (`PROJECT.json` lists each hazard at its line):

* Runtime: which state a capture snapshots and which it shares with the nested
  effects that run before the resume; unwinding after failures at every depth;
  budgets that are charged in some paths and not in others; fragments supplied
  by a model and installed into the running program.
* Validator and runtime together: the runtime's internal errors (undefined
  variable, missing function) must be unreachable after validation, along every
  path, resume and installed fragment.
* Model calls: a ledger read outside the lock, three log files written one after
  the other, a cache entry truncated before it is written, half a line left in any
  of the logs, errors and crashes between any two of them; tasks that end in any order.
* Patches: inserted instructions shift the targets of branches and jumps, those of
  the base and those an earlier operation of the same patch has put in.
* The semantic fast path: what a model's plan may contain is checked against the
  evidence in one place, rendered as instructions and predicates in a second, and
  evaluated in a third, on whatever the weak model answers.
* Streams: a trace, a profile that counts it and metrics that report on it are files
  written one after the other, each rewritten whole.
* Registry, patches, experiment: multi-file updates without a transaction, files
  torn by a crash, a base that is read again between evaluation and installation,
  phases run twice, experiments that move each other's latest version.

## 2. Modules

    ProgramIR ── Validator ── CpsRuntime ──┬── CpsRuntimeProperties ──┬── MCRuntime ── MCFamily
                                           │     (INSTANCE Boundary)  ├── CpsRuntimeProofs
                              TraceReplay ─┘                          └── CpsSoundnessProofs
    Validator ── PatchOps ── SemanticFastPath ──┬── MCPatchOps
                                                └── PatchOpsProofs
    ModelCalls ── ModelCallsProperties ──┬── DirectVariant ── MCDirect
                                         └── ModelCallsProofs ── DirectVariantProofs  (EXTENDS DirectVariant too)
    StateDir ── ProgramRegistry ── PatchInstaller ──┬── RunStream ── MCStream
                      (INSTANCE ProgramHistory)     ├── InstallerProofs ── StreamProofs  (EXTENDS RunStream too)
                                                    └── Experiment ── ExperimentProperties ──┬── MCExperiment
                                                                                             └── ExperimentProofs  (EXTENDS InstallerProofs too)

**ProgramIR** is `program.rs` with the pure parts of the runtime. Values are an
arbitrary set, a schema is the set of values it accepts, a field path is a partial
function on values. A fragment returned by a model is a value for which `FragmentOf`
gives the code. Function names are pairs `<<k, name>>`: `k = 0` for names as
written, `k > 0` for the k-th fragment installed, which is what `install_fragment`'s
renaming does.

**Validator** is `validate_program` and `validate_fragment`: definite assignment as
the forward pass of the code (the meet over predecessors, one visit per
instruction, since targets are forward only), permissions, arities, static
recursion. Where the code searches the call graph depth first, `NoStaticRecursion` says
that every non-empty set of functions has a member that calls none of the set: a finite
graph has a cycle exactly when this fails. The forward pass is a recursive function over the
places of a body, which `MaxBody` bounds in number. There is no RECURSIVE operator, so that
the runtime's proofs can extend the module.

**CpsRuntime** is one boundary. The Rust call stack of the async recursion
`resolve_effect` is the sequence `calls`, one record per activation, innermost
last; a resolution travels back through `returned`; `cont` is the continuation
`handle_captured_think` holds. The correspondence:

| Code | Actions |
|---|---|
| `step`, one arm per instruction | `ExecLet` … `ExecPerform`, `GuardPass`, `GuardAbort`, `GuardThink`, `FinishProgram`, `ReturnToCaller`, `ReturnToMap` |
| `consume_instruction_fuel`, the `ok_or_else` errors of `step` | `FuelExhausted`, `OperandError`, `PerformRefused`, `ReturnRefused` |
| `resolve_effect`: one handler answer | `DecideValue`, `DecideCode`, `DecidePatch`, `DecideRequest`, `DecisionRefused`, `HandlerFails` |
| nested effect returns, use as value or re-enter | `NestedReturn` |
| the `perform` arm after its effect | `AcceptResult`, `RejectResult` |
| `handle_captured_think` | `StartThink`, `ThinkRefused`, `EncoderFails`, `ResumeContinuation`, `ThinkInvalid` |

One action is everything between two awaits, as `&mut ProgramState` is held across
each. `stack`, `fuel`, `effectsLeft`, `fragments`, `patchAttempts` and `pending` are
the fields of `ProgramState`; `trace` keeps the events replay reads;
`decisions` counts handler calls and is history only.

**TraceReplay** is `replay_trace_events`. **Boundary** is the abstract
specification of a run: continuations are issued one at a time, each is resumed at
most once and never after the run ended. `CpsRuntime` implements it
(`KeepsPromise`).

**ModelCalls** is `create_structured_internal` as run by several workers over
shared files. A worker's `pc` names the file operation or critical section it does
next; each is one step. `DiskFails` is the `?` of each file operation,
`Crash` kills the process and keeps the files. Appending a line is one step. In
each of the three logs, `calls.jsonl`, the file of the run under `by_run` and the ledger, it
may be cut short and leave half a line (`CutShort`); the next append goes behind it, as
`append_jsonl` does not look at what a file ends in, and its record becomes part of a line
that is none (`Behind`, `OwnLine`), although the append succeeds. `read_jsonl` refuses a file
with such a line. For the ledger this means that every later call is refused
(`LedgerUnreadable`) until the operator removes it; the calls that had been let through
before go on (`hidden`). Of the call logs nothing but the
report reads any, those of the runs of its manifest. A phase that is started again has a
new run id and so a new file under `by_run`. `BudgetReset` is the operator's way out: it removes the file, with no
lock, so it may come between any two steps of a call.
Requests are keys, money is counted in units and the price of an answer is chosen
from `AnswerCosts`. A worker cannot see whether a provider that gave no answer has
charged for it, so `NoAnswer` and `Crash` bill anything.

**PatchOps** is `validate_patch`: one action per operation of `apply_patch_op`
(`GrantPermission`, `Replace`, `Insert`, `DefineFunction`, `SetAcceptance`), a refusal
(`Refuse`) wherever the code returns an error, `Conclude` for the validation of the
result. Every instruction slot carries a mark: the slot it was in when it was
written. A branch or jump target is a number; `TargetsKept` says the slot at that
number still has that mark, which is what `reject_insert_that_shifts_control_flow_target`
is there for. `SemanticPatch` is the list of operations `semantic_program_patch`
builds, with its program counters.

**DirectVariant** is `run_direct_variant`: a `JoinSet` of `Cardinality(Worker)` tasks
(`experiment_concurrency`), each of which takes the steps of one `ModelCalls` call.

| Code | Actions |
|---|---|
| the phase begins, its old predictions are removed | `StartVariant` |
| `spawn_direct_variant_tasks` | `SpawnTask`, `NoEventLeft` |
| `run_direct_variant_event` | `TaskStep`: a `Step` of `ModelCalls` |
| `join_next`, push, spawn one more | `JoinTask` |
| sort by index, append each | `AllJoined`, `AppendPrediction`, `VariantDone` |
| the process is killed or an append fails | `ProcessDies`, with `Crash` of `ModelCalls` |
| `budget-reset` while the phase runs | `OperatorResets` |

A call that returns an error becomes a prediction with that error, so the pool sees no
difference. `DirectVariant` only takes steps `ModelCalls` can take
(`PoolMakesModelCalls`), so whatever holds of those calls holds of the phase.

**SemanticFastPath** follows the semantic patch from the plan to an answer.

| Code | Actions and definitions |
|---|---|
| `build_profile_cluster_evidence`, `validate_semantic_patch_plan` | `Evidence`, `ValidPlan`; `ReturnPlan` |
| `semantic_program_patch`, `validate_patch` | `PatchStep`: the steps of `PatchOps` |
| `semantic_patch_validators_value`, `apply_validators`, `predicate_matches` | `Slotted`, `KindMatchesRule`, `OutsideGuard`, `Passes` |
| the patched program on one event | `AskMatcher`, `MatcherFails`, `TakeBranch`, `ApplyValidators`, `EmitTemplate`, `EmitFails`, `ReturnFastAction` |
| it goes on with the base program | `BaseAnswers` |

It executes the instructions `PatchOps` has put into the program, whatever they are, and
not the ones they ought to be; a slot's mark tells whether an instruction is the base's.
A regular expression is the set of texts it matches, and the weak model may answer with
any well-formed or malformed match.

**StateDir** is the disk, a function from paths to contents, and `todo`, the file
operations a command has decided on and not yet performed. `fs::write` truncates
(`Truncate`, the file is `Torn`) and then fills. A command's next decision comes
when `todo` is empty, and whatever is read is read then. **ProgramRegistry** gives
each method of `FileProgramRegistry` and `FilePatchRegistry` as such a list of
operations. A program is the sequence of its base and the patches applied to it:
two programs are equal when these are.

**PatchInstaller** is the commands `init-workflow` and `optimize`:

| Code | Actions |
|---|---|
| `Command::InitWorkflow`, `init_workflow` | `InitWorkflowCommand` |
| `Command::Optimize`, the loop of `optimize_from_profile` | `Optimize`, `NoPatchReturned`, `AttemptFails`, `Installed` |
| `install_fixture_patch`: read base, record proposed | `Propose` |
| … `validate_patch`, `evaluate_candidate` and their rejections | `Validate`, `Evaluate`, `EvaluationFails` |
| … `install_version`, `mark_installed` | `Install` |
| the process is killed, or ends with an error | `Stop` |

**RunStream** adds the commands that make the data `optimize` reads:

| Code | Actions |
|---|---|
| `run_stream_with_options`: load the latest program | `StartStream` |
| … an event: offered patches, then its trace | `StreamEvent` |
| … `update_from_trace` | `UpdateProfile` |
| … the metrics at the end | `StreamEnds` |
| `baseline_strong_direct` | `BaselineStrongDirect` |
| `optimize_from_profile` | `OptimizeFromProfile`, then the loop of `PatchInstaller` |
| `list_stored_events` | `EvaluateOnTraces`, `TracesUnreadable` |

A trace is kept as what tells it from others: run, event, program version and whether a
continuation was captured, which is what makes it a failure for the profile. A profile
is the sequence of traces it has counted; how their statistics add up is abstracted.

**ProgramHistory** is what the registry promises: an append-only history of
versions, each a configured base or its parent with one patch more, and a current
version that moves to the newest or back to a base. `HistoryKept` is the refinement:
a version counts once its metadata file is whole. `exp_shared` checks it.

**Experiment** is `run_experiment`; `job` is what the running command holds in
memory (manifest, phases left, base and patched program).

| Code | Actions |
|---|---|
| `run_experiment` up to the phases | `StartExperiment`, `Estimate`, `EnsureWorkflow` |
| arms of `execute_phase` | `SplitEvents`, `RunDirect`, `RunExactMemo`, `RunProfile`, `RunUnoptimized`, `RunInstalled`, `RunNoSemantic`, `ShadowAudit`, `OptimizePhase`, `EvaluateQuality`, `Report`, `SkipPhase` |
| a phase the manifest had recorded is passed over | `PassCompleted` |
| `run_patch_validation_phase`, `install_semantic_patch_if_gate_accepted` | `ReuseArtifacts`, `MakeArtifacts`, `SelectBase`, `Gate`, `InstallSemantic` |
| marker and manifest after each phase | `MarkerThenManifest`, in `Complete` |
| the minimal report at the end | `Finish` |

Only files that another phase, a resumed run or a report reads are kept. A model
or a missing input file that fails a phase is `Stop`.

The `…Properties` modules state what is claimed, the `…Proofs` modules prove, and
the `MC…` modules give the constants values for TLC. Definitions in a model
that no action uses (`GuardThinkRefundsFuel`, `AppendCallThenSpend`, `KindOfSomeRule`, …) are
plausible mistakes in the code: substituting one must break the property
`PROJECT.json` pairs it with, which shows that the property has teeth.

## 3. What the runs check

| Run | Instance | Question |
|---|---|---|
| `boundary` | five programs, every instruction; handlers that give every decision; 10 instructions, 5 effects, depth 2, 1 re-entry, 2 fragments, 1 patch | All safety and liveness properties of a boundary |
| `family` | some ten thousand generated programs, those the validator accepts | Does validation exclude every internal error? |
| `direct` | 2 tasks at a time, 3 events of which two make the same request, a cap of 2, calls projected at 1 that cost 2, one disk error, crash or reset anywhere, the phase run again | Do reservations, cache, logs and ledger agree, by how much may the cap be passed and how much be lost, and are the predictions whole and in order? |
| `direct_ends` | the same with a cap for one call | Does the pool end when calls are refused, fail, find the ledger torn, or an entry that another call is writing, and places are filled again? |
| `patch_ops` | five base programs; patches of three operations at any coordinates; the semantic patch with 9 plans, 8 events, 108 matches | Do targets keep their meaning, and what may the fast path answer? |
| `stream` | 4 commands, streams of 2 events, 2 patches that share an id, up to 2 attempts | Do traces, profile, metrics, records and versions agree, whatever is cut short? |
| `exp_resume` | one experiment id with two configurations, all phases, 2 events, 2 plans, up to 3 starts | Does a run resume where it stopped, and only its own configuration? |
| `exp_shared` | two experiments and the installer commands, 3 starts in all | Is what is installed what was evaluated, and is the registry a history? |
| `doc_replay`, `calls_cap`, `exp_duplicates`, `exp_unpatched` | as above | Four statements of docs, messages and tests that the code does not keep (section 5) |

Properties of a boundary (`CpsRuntimeProperties`): `CaptureIsolation` (the stack
and fuel stand still while a continuation is held, so overwriting them on resume
neither undoes nor refunds anything), `HeldIsUnresumed` and `ReplayAccepts` (the
trace tells exactly which continuation is held, and every ended run replays),
`RepairedGuardHolds`, `FrameChain` and `CallersSuspended` (return slots name their
call sites; suspended callers never change), `NoReentrantFunction` (also for
fragments that install fragments), `NeverGoesWrong` (validated code meets no
internal error), `OnlyAllowedEffects` (nested requests and fragments cannot exceed
the host's permissions), `HandlerCallsBounded` (twice the effects paid for, though
re-entries are free of charge), `KeepsPromise`, `Termination`.

Properties of model calls (`ModelCallsProperties`): `ReservationsMatch`;
`SpendIsAttributed` (whoever finds a call log that can be read finds in it the call of every
spend record: the ledger is written last, and a lost record leaves a bad line behind; and as
half a line takes one further record along and no more, a log that cannot be read lacks no
more charged calls than there were faults); `LossesBounded` (an answered call that
is over is in the ledger, but for two per disk error, the one it hit and the one behind its half
line, and one per worker and one more per crash); `BilledIsAccounted` (no charge is recorded
twice or invented: what the provider billed is in the ledger, in a worker's hands, or lost. It
says nothing of how much is lost, which `LossesBounded` does); `OverrunBounded` (but for one
call per worker of a scope, whatever these cost, its ledger leaves room for a call, so a scope
with one worker passes the cap with its last call only); `HiddenCallsBounded` (no worker makes a
second call behind a torn ledger). None of them asks what an answer may cost.
`HardCapHolds` is what the guard itself
says (`calls_cap`). Of the pool (`DirectVariant`): `PredictionsInEventOrder`, and
`VariantEnds`: it comes to its end, or is stopped, whatever its calls meet.

Properties of patches (`PatchOps`): `TargetsKept`. Of the fast path
(`SemanticFastPath`): `HardNegativesFallBack` (an event with the text of a hard negative
is never answered by a rule that negative speaks against, whatever the weak model
says), `FastKindIsProfiled` (a fast answer is the event's own and of a kind that
profile_train has for the cluster of the rule), `MissesRunBase` (what the fast path
does not answer enters the base program at its first instruction).

Properties of the registry (`PatchInstaller`): `HistoryKept`, `EvaluatedOnParent` (a
version holds a patch only if it passed evaluation on that version's parent; checked in
`exp_shared`, where others move the latest version between two patches, and proved of all),
`RecordsTellVersions`. Of streams (`RunStream`): `ProfileIsTraced` (the profile counts
only events whose trace was stored, each once), `MetricsTellRuns` (metrics are of runs
whose every event is traced and counted, also after later runs that crashed). Of experiments
(`ExperimentProperties`): `PredictionsComplete` (one prediction per event, all of the
recorded run, though phases are cut short and run again), `InstalledIsEvaluated`,
`StartsFromBaseline`, `ManifestExtended`, `MarkersCoverManifest`, `ProgressInOrder`,
`ReusedPlanIsWhole`, `SemanticPatchFits`.

Bounds and why they are enough. The boundary's budgets are just large enough for
each limit to be hit on some path and passed on another: depth 2 lets a nested
effect of a captured think nest once and be refused once; 10 instructions finish the
longest program and run out when a capture re-executes nothing; 2 fragments
allow one nested install and refuse the third. Every action of `Next` fires. In
`family` the bodies have few instructions, but all combinations of branch, guard,
call and perform with good and bad targets and names occur, and definite
assignment fails on two-armed merges already.

In the runs of the pool three events are one more than it has places, so a task is spawned
when another is joined, and the third repeats the first one's request: it may find the
entry, find it half written, or race it. `MaxFaults = 1` is one disk error, one crash
or one `budget-reset` of a whole ledger at any step (a torn one may be removed as often
as it is torn); the phase may then run again, which is where old predictions and a
stale ledger bite. `MaxCalls = 9` is never reached. In `direct` an answer costs twice what was
projected, as nothing in a request keeps it from doing, and the cap of 2 lets a second call
through beside a reservation and none beside a spend of 2. `calls_cap` gives the code the
opposite benefit, a projection that is always right, and a cap of 1. `direct_ends` has a run of
its own because checking liveness is dearer than an invariant: TLC compares states without
the call logs and the history variables there (`VIEW WithoutHistory`), which no guard and no
other variable depends on, and no invariant is checked with it. The places of the pool are interchangeable, and
`SpawnTask` takes any free one.

Patches have `MaxOps = 3` operations: one to put a jump in, one to shift it, one
to shift back. The plans of `patch_ops` are right, or wrong in one respect each: a guard
that misses the negative, guards the wrong rule, is missing, or does not compile, a
rule omitted, of a wrong kind, or for an ineligible cluster; one right plan has a guard
for each rule. Events have or lack an id and a text; the matches are every combination
of a truth value, a rule, a kind, confidence and shape.

Commands are bounded by `MaxCommands`, 4 in `stream`, 3 in the experiment runs. In
`stream` that is one to make the workflow, two streams or a stream and a baseline, and
an optimize; two events tell a run cut short from a whole one, and a stream in which one
version captured twice gives optimize two attempts. At most one of the offered patches
is proposed per event. In the experiment runs it is one command that is cut short, one
that moves the workflow on (another experiment, a baseline reset, an installed
patch), and one that resumes; two plans tell a reused patch from the one evaluated.
`evaluated` is history only. In `stream` and the experiment runs the
system really stops once the commands are spent, and in `patch_ops` when the event is
answered, so deadlock is not checked there. Base
programs of experiments are straight (`Branching` names the patches that are not), so the
shift check of `PatchOps` accepts the semantic patch exactly once. Commands run one at a
time.

Fairness. `FairSpec` is weak fairness of `Next`: the executor polls the boundary's
future, and every handler call returns or fails. Nothing weaker gives
termination, and the boundary has a single thread, so nothing stronger is needed.
`DirectFairness` is weak fairness of the pool and its tasks taken together: the runtime
polls some task that can go on. It is enough because no task waits for another, and
each takes a bounded number of steps. It assumes that the provider answers every
request or breaks the connection: `ResponsesClient` sets no request timeout, so a
provider that keeps a connection open for ever keeps the pool open with it. That
assumption is about the provider and not about this code. The process may also die,
once in the instance; nobody has to start it again.

## 4. What is proved

TLAPS proves, for all programs, values, replies, budgets, workers, scopes, plans,
events, bases, patches and numbers of commands satisfying the named assumptions:

* `ValueAssumption`, `BudgetAssumption`, `MoneyAssumption`, `WellFormedAssumption`,
  `RegistryAssumption`, `PatchAssumption`, `StreamAssumption`: the types of the constants.
* `ExperimentAssumption`: the types of an experiment's constants; half a file is not a
  plan, a marker, a program, a truth value or a number; and `semantic_patch_v1` is a name.
* `FragmentAssumption`, `ProgramAssumption`, `ReplyAssumption`: what serde has parsed is a
  program, a fragment, a reply (`WellTyped`: an instruction has the fields of its kind, a
  function body is a sequence). Whether a fragment or a program is *valid* is never assumed.
* `EventsAssumption`: there is a place in the pool. `TornAssumption`: a file that was
  truncated and not yet filled does not parse as a program.

| Theorem | Property | Argument |
|---|---|---|
| `Invariance` | `IInv` of the runtime | inductive, below |
| `TypeCorrect` | `TypeOK` | `Counters`, `WellFramed(stack)` |
| `ContinuationsIsolated` | `CaptureIsolation` | `Held` |
| `EffectsConfined` | `OnlyAllowedEffects` | `Nested` |
| `HandlersBounded` | `HandlerCallsBounded` | `Paid`, `Nested` |
| `TraceInvariance`, `HeldIsRecorded`, `TracesReplay` | `HeldIsUnresumed`, `ReplayAccepts` | `Traced`, below |
| `PromiseKept` | `KeepsPromise` | step simulation of `Boundary` |
| `Soundness` | `Sound` | inductive, below |
| `NothingGoesWrong`, `FramesChained`, `NoFunctionReentered` | `NeverGoesWrong`, `FrameChain`, `NoReentrantFunction` | `Sound` |
| `CallersKept`, `RepairsHold` | `CallersSuspended`, `RepairedGuardHolds` | `Sound`, `StackStep` |
| `SpendAttributed` | `SpendIsAttributed` | `AttributionInv`, `LossInv`, below |
| `LossesAreBounded` | `LossesBounded` | `LossInv`, below |
| `ReservationsExact` | `ReservationsMatch` | `ReservationInv` |
| `BilledAccounted` | `BilledIsAccounted` | `AccountInv`, below |
| `CapOverrun`, `HiddenCalls` | `OverrunBounded`, `HiddenCallsBounded` | `CapInv`, below |
| `PoolMakesModelCalls` | `DirectSpec => Spec` | step by step |
| `VariantReservationsExact`, `VariantSpendAttributed`, `VariantLossesAreBounded`, `VariantBilledAccounted`, `VariantCapOverrun`, `VariantHiddenCalls` | the same six, of the pool | through `PoolMakesModelCalls` |
| `PredictionsAreOrdered` | `PredictionsInEventOrder` | the pool's invariant, below |
| `PatchTypeCorrect` | `TypeOK` of `PatchOps` | `Inv`, below |
| `BranchesKeepMeaning` | `TargetsKept` | `Inv`, below |
| `SemanticPatchFallsBack` | `SemanticFallsBack` | `Shape`, below |
| `HardNegativesNeverFast`, `FastAnswersAreProfiled`, `MissesReachTheBase` | `HardNegativesFallBack`, `FastKindIsProfiled`, `MissesRunBase` | `RunInv`, below |
| `RegistryInvariance`, `InstalledWasEvaluated` | `EvaluatedOnParent` | `Registry(P)`, below |
| `HistoryImplemented`, `StreamsKeepHistory` | `HistoryKept` | step simulation of `ProgramHistory` |
| `StreamInvariance`, `ProfilesTraced`, `MetricsTrue` | `ProfileIsTraced`, `MetricsTellRuns` | `Stream`, below |
| `StreamInstallsEvaluated`, `RecordsTrue`, `AskedOfLatest` | `EvaluatedOnParent`, `RecordsTellVersions`, `AskedAboutLatest` | `Registry(P)` with streams |
| `BookInvariance`, `ManifestIsExtended`, `ProgressIsInOrder` | `ManifestExtended`, `ProgressInOrder` | `Book`, below |
| `MarkersCover` | `MarkersCoverManifest`, if `PhasesOnce` | `Book`, below |
| `ExperimentInvariance`, `HistoryOfExperiments` | `HistoryKept` | `Book`, `Choice`, `Registry(Instr)` |
| `ExperimentsInstallEvaluated` | `EvaluatedOnParent`, `RecordsTellVersions` | `Registry(Instr)`, `Choice` |
| `StartsAreBaselines` | `StartsFromBaseline`, if `PhasesOnce` | `Choice`, below |
| `SemanticFits` | `SemanticPatchFits`, if `OwnIds` | `SemanticOnce`, below |
| `PredictionsAreComplete` | `PredictionsComplete`, if `PhasesOnce` and there are events | `Results`, below |
| `EvaluatedIsInstalled` | `InstalledIsEvaluated`, if `PhasesOnce` | `Results` with `Registry(Instr)` |
| `ReusedPlansAreWhole` | `ReusedPlanIsWhole`, if `PhasesOnce` and `OneOptimizer` | `ArtifactsHold`, below |

**The runtime.** `IInv == Counters /\ WellFramed(stack) /\ Held /\ Nested /\ Paid`. None of
the properties is inductive alone. `CaptureIsolation` needs that a held continuation
implies activations or an outstanding think, so that no instruction is fetched
(`Held`). The bound on handler calls needs an account of who has paid: each
activation has paid for one call and one re-entry and has made `1 + reentries` of
them, and depth grows by one from the base, 0 for a perform and 1 for a captured
think (`Nested`, `Paid`).

**Its trace.** `Traced` says that captures are numbered as they come, no two resumes have one
id, each resume follows its capture, and the one capture left open is the continuation
held. Every action writes the trace in one of five ways (`Records`), and `Traced` is kept
by each of these, so the thirty actions are looked at once. `TracesReplay` then compares
the open captures with what `replay_trace_events` computes, and `PromiseKept` maps each
action to a step of `Boundary` or a stutter; `Boundary` has no fairness.

**Soundness of the validator.** The argument is that of a type system. An *analysis* of a
function assigns to each place of its body the set of variables that are bound there
whenever it is reached (`Analysed`). The validator computes one: its forward pass is a
recursive function on a well-founded order of places, and that the result satisfies the
flow equations is proved by a least counterexample instead of an induction. Every function
of the program and of every installed fragment has an analysis (`CodeSound`); a frame lies
where the analysis of its function reaches and binds what it promises (`FrameSound`); each
caller waits behind a call of the frame above it, for a variable that call names
(`Linked`, `Chained`); a held continuation's stack is chained and goes on at the next place
(`HeldSound`). Installing a fragment renames its functions apart, so no older function
reaches them, which with acyclic calls inside a fragment bounds the stack
(`KeptApart`, `NoFunctionReentered`). `CallersKept` is an action property: each step
replaces, pushes or returns from the top frame (`StackStep`).

**Model calls.** `ReservationsMatch` needs that a worker not past `Reserve` holds nothing
(`NoneBeforeReserve`), and `LogsTellSpend`, the first half of `SpendIsAttributed`, that the worker's position says which
log records it has already written, as far as the log has no bad line (`LogsInOrder`), and that
no record is of a later run than the present one (`Dated`). `LossInv` counts: half a line that a
log ends in stands for one record still to be lost (`HalfLine`), so that a fault pays for it
when it leaves the half line and the append behind it comes for free; a crash takes the records
of the calls in flight, one per worker, a disk error that of one call. It gives the second half,
`FewUnattributed`, and `LossesBounded`. `BilledIsAccounted` needs that each record in the ledger was charged once (`ChargedOnce`). Sums over sets are folds of the community
modules; `SumOf` is shown to add up member by member (`AddsUp`), again by a least
counterexample, and everything else about sums follows from adding and removing one member.
`CapOverrun` has no hypothesis on what answers cost. The guard projects the price of 4096
output tokens, but the request sets no such limit (`structured_request_body`), so an answer may be
dearer and no sum of projections bounds a ledger. What the code does bound is the number of
calls: `CapInv` picks for each scope a set of *late* records, those of calls that a view of the
ledger older than themselves has let through, such that the others leave room for one more
call. A worker whose view of the ledger would let it through, or that was let through and has
not come to its end, is `Exposed`, and the late records and the exposed workers together are no
more than the workers of the scope. `HiddenCalls` needs that a worker with a call hidden
behind a torn ledger is not let through again before the ledger is removed (`Concealed`).

**The pool.** The events joined, those in a place and those not yet spawned are
disjoint and together all events, so that when every place is free the joined indices
are a rearrangement of `1 .. N`; sorted, they are `1 .. N` itself
(`IncreasingIsIdentity`), and the file is a prefix of that.

**Patches.** `Inv == TypeOK /\ WellShaped(program) /\ AllMarked /\ TargetsKept`: the
target of an instruction is looked up among the marks, so these must have one mark
per instruction in every function (`AllMarked`). An insertion accepted by
`ShiftsTarget` moves no target; what it, a replacement or a new acceptance policy
does to one function's marks is a lemma each. For the semantic patch, `Shape` says after
each of its eight operations which of its instructions are in place and where the
base's first instruction has moved to; the patch is a constant of eight elements, so
each operation is a step of its own. `RunInv` adds what the program counter knows: past
the second branch the validators have passed (`AtStep`), so a fast answer is one the
plan's guards and kinds let through, and the plan in force is a valid one.

**The registry.** A version is several files, written by operations that were decided on
earlier and of which a crash leaves a prefix. So the invariant is about the disks the queue
of operations leads through. `Leads(d, queue, e, edges)` says that the queue leads from disk
`d` to disk `e` in steps that are all among `edges`; file operations follow it
(`LeadsAway`), queues are joined by `LeadsOn`, and no other lemma looks inside a queue.
`Registry(P)` says that each of these steps goes between disks that have versions 1 to `n`,
each a base or its parent and one patch of `evaluated`, records that tell the truth of them
and a `latest` that names one of them (`Registered`); that each step moves the history the
disk stands for as `ProgramHistory` allows (`HistoryEdge`); and that the last disk is one on
which the command may go on as it knows (`JobOk`), chiefly that at `install` the patch has been
evaluated on the base it was applied to. Stopping drops the queue, and each disk on the
way is a good one. `P` is a parameter: the instructions a program may have, the bases and
the patches. `HistoryImplemented` reads the refinement off the edges.

**Streams.** `Stream` is the same for the files of streams: traces of a run are its events in
order, the profile counts a stored trace once, metrics are of runs that are complete and
counted, and the running stream is where its files say. A stream's queue touches no file
of the registry and a command's queue none of a stream's (`Spares`, `LeadsKeeps`), so both
invariants are carried over each other's actions by one lemma.

**Experiments.** `Book` is about the manifest, the lock and the markers, on each of the
disks the queue of operations goes over (`Goes`). The manifest on the disk has the phases of
the locked configuration in its order (`Reaches`), the running experiment stands behind those it
knows to be done (`Position`), and its memory extends what is saved. A phase writes many files,
but none of these three before its marker and the manifest: what a queue may touch is read off
its parts (`Within`, `Spared`), so the book is carried over a phase's own work by one lemma, and
over all of the installer's actions by another (`InstallerQuiet`). `MarkersCover` has a
hypothesis, `PhasesOnce`: no configuration lists a phase twice. The code does not check it; a
phase listed twice runs twice, and while the second run replaces the marker, that is torn
although the manifest has the phase. The runs that check the property have it too.

`Choice` says what an experiment has chosen for its patch: the plans on the disks ahead are
among `Plans`; from the gate on, the job knows the version it patched and the program it made
(`Chosen`), and once the gate has accepted, that this patch was evaluated on that version; a
new experiment that has yet to validate a patch stands on its configured base (`Starts`). The
registry's invariant is that of commands with other parameters: `Instr` has the bases, the
commands' patches and `Semantic(plan)` for each of `Plans`, so every lemma about the files of
the registry is used again, and only the experiments' own steps are new. `InstallSemantic`
selects its base a second time; that it is the base of the gate follows from the files in
between, none of which is the registry's. `SemanticOnce` adds that a semantic patch was only
evaluated on a version that is not itself semantic, which survives because a whole version
never changes. Its hypothesis `OwnIds`, that no patch of a command has the semantic patch's
id, is not checked by the code: the installer's reading of a base is by id alone. The run
that has patches of commands has it too.

`Results` says, of each disk on the queue's way, that every phase its manifest has completed
has left what it should (`Has`): of each file of predictions it owns one line per event, in
order, all of one run the manifest names for the phase (`OneRun`), and of `patch_validation`
the accepting verdict and a whole version with the program its candidate predictions were made
with (`Delivered`). The running experiment has left the same for what it remembers, and from
the gate on also the predictions of the split. Files stay because they are of one phase
(`FilesApart`) and a phase at work is none of those completed (`PhaseIsNew`), so what it
writes disturbs no other phase's results (`OwnedKept`); versions stay because a whole one
never changes (`KeepsVersions`). Here `PhasesOnce` is needed: a phase that runs a second time
removes its predictions while the manifest has it. That there are events is needed too, since
without any no file of predictions is created.

`ArtifactsHold` is about the three files `patch_validation` takes for granted when they exist.
What tells that they are whole (`Due`) depends on the configurations of the experiment. If
none has `optimize`, it is the memo, which is written last, and since the three are only made
when one is missing and none is ever removed, they are made once to the end. If `optimize` always precedes
`patch_validation`, it is that `optimize` is recorded, and until then nobody looks. The
hypothesis `OneOptimizer` says that the configurations of one id are all of the one kind or
all of the other; those of the repository are of the second, those of `exp_shared` of the
first. Neither hypothesis can be dropped, as TLC finds at once: `optimize` named twice and
cut short the second time leaves a torn plan for `patch_validation` to reuse, and so
does an id that was started twice with `optimize` and then, there still being no manifest
and so no lock to compare, with a configuration without it. The code checks neither.

Only model-checked: `Termination` and `VariantEnds`, which are liveness under fairness and
out of the prover's reach. Only proved: `AskedAboutLatest`, that an optimize asks about a
version that is no longer the latest only after an attempt that installed a version and could
not record it. Every other property of a passing run is stated by a theorem,
for any value of the constants. The properties of the runs that expect a violation are
false and have none.

## 5. Where documents and code disagree

* `docs/runtime.md:59` says handler return values are schema-validated before use.
  A `perform` whose policy leaves `require_schema_valid` off binds any value
  (`accepted_by_policy`, as `CpsRuntime` has it; no run is spent on it).
* `docs/runtime.md:93` says replay checks that strong `return_value` entries are not
  schema-invalid. `replay_trace_events` does not read those events (`doc_replay`).
* `cps_unoptimized_heldout` appends to its predictions without removing what an
  earlier attempt left; every other phase removes the file first. Stopped and resumed,
  it has more than one prediction per event (`exp_duplicates`).
* The installed-patch variant refuses a program that is not patched, by comparing the
  version with `v0001`; a base another experiment installed later passes
  (`exp_unpatched`).
* The budget guard reads the spend ledger before it takes the reservation lock, so
  two workers of one scope can pass the hard cap, although each call costs what was
  projected (`calls_cap`); `OverrunBounded` says by how many calls.

## 6. Not modelled

* Prompts, request bodies, hashing, usage extraction and pricing: a cost is an input.
  The budget configuration an experiment writes, which only `budget-report` reads.
* JSON schema construction: a schema is a set of values. `fast_path_apply` and the
  predicates of local tools that the semantic patch does not use: pure functions; for
  the runtime a tool is a handler.
* The sums in reports, metrics, observability and comparisons (read-only aggregation of
  logs), the commands that only read, and the metrics `init-workflow --task` writes for
  its compile call.
* What the statistics of a profile are, beyond which traces they count; evaluation on
  fewer than all stored events (32 at most are sampled, and the verdict is an input).
  The value store and the parts of a continuation: the encoder of `CpsRuntime` may fail
  (`EncoderMayFail`).
* How `split_events` and the shadow audit choose events.
* A write torn so that the file still parses: a torn file is unreadable, and a torn
  line is a part of its record. The exception is `EvaluateOnTraces`, which takes either
  view of a torn trace file, as a list of lines may end at a line's end.
* Recovery the code does not have: a `run_manifest.json` torn by a crash stops every
  later start (`MayResume`), a torn metadata file every later install (`CanList`), a torn
  profile every later stream (`CanLoadProfile`), a half-written cache entry every later
  call with that key, a bad line in a run's call log every report over that run, and a directory without a program, left by a crash of
  `init-workflow` or by `baseline-strong-direct`, every later `init-workflow`
  (`EnsureLayout`). The models have these states, the properties hold in them, and none
  asks for a way out.
* Two processes at work on one state directory at the same time, `budget-reset` beside
  a direct variant excepted: the code has no lock between them and promises nothing.

## 7. What could follow

`shadow_audit`'s choice of predictions, and two concurrent `optimize` commands on one state
directory, to find out what is lost. Every theorem over experiments has the same
`Experiment.tla` beneath it, so a phase added there is owed its step in each inductive
invariant of `ExperimentProofs`.
