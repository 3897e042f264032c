# A TLA+ verification of DATP-Core

DATP-Core runs a registry of federated-learning experiments on network-intrusion
data: it publishes canonical datasets, trains one detector per *training
coordinate*, scores every client with it, derives anomaly thresholds by many
policies from the same scores, and turns the outcome into tables, figures and a
delivery bundle. The numbers come from deterministic, seeded computations. What
is hard to get right, and what these modules are about, is everything around
them: what is on disk and who may rely on it, what a killed command leaves for
the next one, what threads and processes that share a run do to one another,
and in what order and how often things happen.

Paths below are relative to `src/datp_core/` unless they start with a slash;
`/README.md` is the repository's README.

## 1. Inventory

The package has 254 files. Each part is a component of `PROJECT.json`, which
also says of each whether it is modelled and why not.

| Part | State | Operations | What makes it correct |
| --- | --- | --- | --- |
| Training run (`detector/training/`) | the model, the loss history, the convergence monitor | `run_federated_training`, one round, `should_stop`, result construction | stops where and for the reason the declared criterion says; a reload agrees with the run |
| Training publication and scores (`detector/checkpoints/`, `detector/scoring/`) | the training directory: history, device name, terminal model, score frames, detector identity | write, load, refuse, generate, remove | evidence used is complete and belongs together; nothing kept is altered; overwriting always gets through |
| Campaign execution (`experiments/execution/`) | batches, the runner's workspace, a thread pool, the progress hook, run directories | `execute_campaign`, `execute_experiment`, the pipeline stages | every entry once, evidence computed once, results in plan order, nothing runs on after the end |
| Canonical datasets (`data/materialization.py`, `data/service.py`, `runtime/filesystem.py`) | one directory per dataset, staging directories | publish by staging and replacement, check, read | the dataset is whole after a publication, kept when it should be, recoverable after a kill |
| Seed worker pool (`app/recipes.py`) | seeds pending and running in processes | `_run_seed_loop`, dispatchers, method outcomes | every seed runs, the first failure surfaces, seeds do not disturb one another |
| Experiment evidence (`app/evidence.py`) | artifacts and documents under the output root | inspect, completion, purge | an experiment passes only on complete evidence of its own; a purge removes what is owned and nothing else |
| Programme (`app/research.py`, `app/campaign.py`, `app/planning.py`, `app/anchor.py`) | markers, reports, the anchor gate's verdict | dispatch, campaign, status | nothing runs past a closed gate; markers and status tell the truth |
| Delivery bundle (`app/results.py`) | the results directory, its manifest and summary | collect, compare, remove, copy, validate | a reported bundle is exactly the passed evidence; a current one is kept |
| Populations and splits (`data/populations/`) | published population and split | construct, partition, publish, load | no row is lost or used twice; the parts that must be apart are apart |
| Client preprocessing (`data/preprocessing/`) | a directory per seed | extract, exclude, fit, transform, publish | fitted on training rows only; no client without rows in a role |
| Threshold policies and variants (`thresholds/`) | none | eligibility, cells, shared/family/cluster/local, fallback, quantile, shrinkage, conformal | over the scores that may be used and no others; every client served |
| Matched variants (`detector/training/ditto.py`, `experiments/training_stress/`) | a training directory each | Ditto, FedProx, fine-tuning, their seed runners | like training run and publication |
| Centralized reference | a training directory of its own | train, publish, evaluate | like training publication |
| Anchor reproduction (`experiments/anchor/`, `app/anchor.py`) | documents, package of observations, gate decision, handoff | reproduce, verify, check | the gate is open only over one whole, faithful reproduction that is still there |
| Metrics, mechanisms and inference (`analysis/`) | none | cohorts, evaluation, statistics, Holm correction, sign test | the aggregate is over the clients it claims; numeric |
| Experiment families (`experiments/*/run.py`) | the temporal family: a directory per state and seed | assemble a campaign for one question | the three temporal states share one detector |
| Presentation, command line, core types | none | formatting, parsing | out of scope |

How they interact. A command (`app/cli`) calls `run_experiment` or
`run_campaign` (`app/research.py`). Dispatch checks the anchor gate, purges on
`--overwrite`, skips what has already passed, and calls the experiment's recipe,
whose seed loop hands the seeds to a pool of *processes*. Each seed builds a
campaign and calls `execute_campaign`, whose entries share a training coordinate
per batch and are evaluated by a pool of *threads*. The stages of an entry
publish or reuse the canonical dataset, preprocess, train or load, score or
load, and write a run directory. A report then turns the run directories into
artifacts; `results` gathers the artifacts of the experiments that passed. So
components meet in three ways: calls and callbacks (the progress hook) inside a
process, files between processes of one command, and files between commands.
Nothing locks files, and there is one lock in memory, in the progress hook.

What is hard. In the order of the list under "hazards" in `PROJECT.json`:

- *Kills between and inside file operations.* A publication is several files in
  a fixed order; a removal is many unlinks in no order. The next command must
  recognise what is left for what it is.
- *Reuse.* Trainings, scores, datasets, run directories and bundles are all
  reused when they are found; each has its own test of what counts as found.
- *Processes and threads on shared state.* Seeds that materialize the same
  dataset; pool threads that share a runner's cached evidence without a lock;
  threads that share a callback.
- *Partial failure.* One entry of a batch is blocked or raises; one seed of a
  pool fails.
- *Time of check and time of use.* The bundle's digests are taken, then the
  files copied; a manifest is seen, then the assets are opened.
- *Numeric edges.* The window, the first eligible round and the last round of
  the convergence criterion meet at the same comparisons; rounding a client's
  rows into parts decides whether it has support for a threshold.
- *Two views of one cohort.* Threshold construction and evaluation each decide
  who is eligible, from different partitions and at different times.
- *Evidence bound to evidence.* The anchor's handoff to a decision, the decision
  to documents, the temporal states to one detector: each in a file of its own.

## 2. Modules

| Module | Models | Checked with | Proved in |
| --- | --- | --- | --- |
| `TrainingRun` | the round loop, the convergence monitor, the result and its reconstruction on reload | `MCTrainingRun` | `Training_proofs` |
| `TrainingEvidence` | the training directory across processes, kills, reuse and overwrite | `MCTrainingEvidence` | `Training_proofs` |
| `CampaignContract` | abstract: what callers of `execute_campaign` rely on | (as a property of the next) | (with the next) |
| `CampaignExecution` | `execute_campaign`, its pool, its hook and its stages | `MCCampaignExecution` | `CampaignExecution_proofs` |
| `CanonicalDataset` | the dataset directory under `preprocess` and under a pool of seeds | `MCCanonicalDataset` | `CanonicalDataset_proofs` |
| `DeliveryBundle` | the results directory under `results` and changing outputs | `MCDeliveryBundle` | `DeliveryBundle_proofs` |
| `AnchorContract` | abstract: what the open gate promises dependent experiments | (as a property of the next) | (with the next) |
| `AnchorGate` | the anchor's commands, killed anywhere, and a check that overlaps them | `MCAnchorGate` | `AnchorGate_proofs` |
| `TemporalSeed` | one seed of the one-shot recalibration over three state directories | `MCTemporalSeed` | `TemporalSeed_proofs` |
| `Splits` | the counts of every split protocol, largest-remainder rounding included | (in the next) | `SeedEvaluation_proofs` |
| `SeedEvaluation` | one seed from split to metrics: partitions, eligibility, cells, thresholds, cohorts | `MCSeedEvaluation` | `SeedEvaluation_proofs` |
| `Programme` | the commands over the outputs directory: dispatch, purge, seeds, reports, campaign, smoke, anchor | `MCProgramme` | `Programme_proofs` |

The modules are layers that meet at steps rather than one composed state. What
is one step of `TrainingRun` (`Publish`, `Reuse`, `Overwrite`) is taken apart in
`TrainingEvidence`; what is a free choice in `CampaignExecution` (the outcome of
`EvidenceReady` and `Evaluate`) is what `TrainingEvidence` and `CanonicalDataset`
decide; `StartSeed` of `CanonicalDataset` is the pool that calls
`execute_campaign`, and one seed of `Programme`; the end of a campaign in
`Programme` is the command of `DeliveryBundle`. The one gate variable and the
one step `AnchorExecutes` of `Programme` are `AnchorGate`; the evaluation of one
entry of `CampaignExecution` is `SeedEvaluation`; the training and the scores of
`TemporalSeed` are single entries that `TrainingEvidence` takes apart.
`CampaignExecution` and `AnchorGate` are each composed with an abstract
specification by `INSTANCE ... WITH` a refinement mapping.

### TrainingRun

`RunInit`, `RunNext`, `RunSpec` and `RunTypeOK` have the prefix because
`Training_proofs` extends this module together with `TrainingEvidence`.

State: `lossAt` and `convergence` are the coordinate and its protocol, fixed at
`RunInit` (training is seeded, so the loss of a round is a function of the
coordinate); `round`, `losses` and `convergedRound` are the loop variable of
`run_federated_training` and the fields of `ConvergenceMonitor`; `published` is
the number of rounds of the history on disk, from which
`load_federated_training` derives the reason again; `result` is the
`FederatedTrainingResult` the process holds, `firstResult` a history variable.
`RunMonitoredRound` and `RunBudgetRound` are the two forms of a round, `Publish`
and `Reuse` the two ways to a result, both through the checks of
`FederatedTrainingResult.__post_init__` (`Accepts`). `Exit` and `Overwrite` let
processes follow one another.

The relative change `abs(end - start) / start < threshold` is cross-multiplied;
losses are natural numbers and the threshold a fraction, so that the comparison
at the threshold is exact. Floating-point rounding is not modelled. A start
below `1e-12`, whose change counts as zero, is the loss 0. What a round does to
the model (client optimisation, weighted aggregation) is its loss.

### TrainingEvidence

State: `disk` maps each file of the directory to absent, torn or whole; a whole
file is identified by the version of the detector it belongs to and of the
inputs it was computed from. `RowsOf`, `ShapeOf` and `RoundsOf` say what two
versions have in common as far as the loaders can see: partition rows, clients
and widths, number of rounds. The actions follow the order of the code:
`WriteTrainingFile` in the order of `write_federated_training`, with the device
name staged and renamed; `WriteFrame` and last `WriteManifest` (the detector
identity) in the order of `publish_federated_scores`; `RemoveTrainingEntry` and
the actions after it in any order, as `rmtree` does. `ReuseTraining`,
`RefuseIncomplete` and `Train` are the three outcomes of
`train_global_federated`, `ReuseScores`, `RefuseScores` and `GenerateScores`
those of `publish_federated_scores`. `Stop` is the end of a process or its death
between two operations, `DieWriting` its death inside a write. `InputsChange`
lets the data or code differ from one process to the next.

### CampaignExecution and CampaignContract

State: `batch`, `mode`, `pending` and `workerCount` are where the loop of
`execute_campaign` is; `job`, `step` and `verdict` where each thread is inside
`_execute_campaign_entry`; `shared` the coordinates whose evidence the runner's
workspace holds; `runDirs` the run directories; `lock` and `inHook` the progress
hook. An entry goes through COORDINATE_BEGIN, the check of its run directory,
the stage events, the evidence (reused or computed), the evaluation and
COORDINATE_END; every stage but the last can be blocked
(`ScientificContractError`) or raise. The stage events between two stages are
one visit to the hook, which is enough for the lock: the same thread takes and
releases it in the same way each time.

`CampaignContract` has one status per entry and no threads: entries begin
together only within one coordinate and below a cap, an exception ends the
campaign once nothing runs, and otherwise the results come back in plan order.
The mapping computes the status from `outcome` and `job`, and the answer from
`results`.

### CanonicalDataset

State: directories are numbered and `target` is the one at the dataset's path,
because `rmtree` keeps the directory it has opened while another process may
give the name to a different one. `dirs` has the files of each, with the version
of the raw data they were built from. `pc`, `staging`, `handle`, `listed` and
`unread` are the local state of each seed process; `preprocess` uses that of
seed 1. `found` remembers what a command found at the path: nothing, a whole
dataset, a remainder without a manifest, or a *misleading* remainder, with a
manifest and without some asset. `Replace`, `OpenTarget`, `RemoveEntry`,
`RemoveDirectory` and `Rename` are the steps of `replace_directory` as the
file system sees them; `Fail` is any exception, with the clean-up of
`cleanup_staging_on_failure`. Commands do not overlap; seeds of one command do.

### DeliveryBundle

State: `outputs` are the artifacts of the experiments, which `ChangeOutput` may
change at any time, `bundle` the files of the results directory, `collected` the
records taken. `Collect` is one artifact of `_collect_passed` and
`_bundle_records`, `Compare` is `_bundle_is_current` and what follows from it,
`Copy` one artifact of `_materialize`, then the manifest, the summary and
`_validate_bundle`. `DieCopying` is a kill inside a copy.

### AnchorGate and AnchorContract

State on disk: `docs`, which reproduction wrote the evaluation document of each
entry; `begun`, run directories without one; `package` and `torn`, the package
of observations, which is written in place; `gate` with `decided`, the decision
and the observations it contains; `handoff`, by what its digest is of. The rest
is one anchor command and one check of a dependent experiment. Digests are exact:
a digest is what it was taken of.

`Reproduce` to `PublishEnds` are `reproduce_anchor` in the order of the code:
diagnostics and package removed under `--overwrite`, the entries executed, a
blocked entry making the whole raise, the documents collected and written.
`Load` to `PersistHandoff` are `verify_anchor`, which both commands end in.
`CheckGate`, `CheckHandoff`, `RecheckGate` and `CheckDigest` are the four reads
of `_enforce_anchor_gate`, between which an anchor command may do any step.
`Faithful` says which reproductions lie in the historical interval, whatever the
numbers are; the two passing statuses are one.

`AnchorContract` has a gate and documents. The mapping takes the gate as open
when the decision on disk passes.

### TemporalSeed

State: `disk` has an entry for each thing a seed publishes: population, split,
training and future scores below the frozen state, scores below the static one,
and in each state one entry per threshold method. An entry is absent, torn, or a
record of the version of the data its detector was trained on and of the version
it was computed from. `stage`, `state` and `method` are where the run is.
`ClearEntry` and `Cleared` are `_clear_temporal_seed_outputs`, `ResolvePopulation`
and `ResolveSplit` the reuse in `resolve_execution_context`, `Train`,
`ScoreFuture` and `ScoreStatic` the stages before the methods, `OpenMethod` and
`WriteMethod` the threshold directory and the evaluation of one. `Loads` is what
`load_temporal_seed_result` demands of the disk. Thresholds and evaluation of a
method are one entry, since nothing reads a threshold without its evaluation.

### SeedEvaluation and Splits

State: `supplied` the benign rows of each client, `rows` and `static` its
partitions as counts, `cell` the cell that is evaluated, `eligible`, `assigned`
and `fallback` the threshold as the *set of clients whose scores it was computed
from*, `results` what each client was judged by and the cohort it is counted in.
The stages are those of the code: split, preprocessing, calibration, threshold
construction, evaluation, each with its refusals. Cells are the whole
calibration, a calibration size, an onboarding target with or without rows, an
omission of contributors, and the three temporal states, each with the methods
the registry declares for it. k-means is any division of the eligible clients
into groups; fixed and size-aware shrinkage are one method, over all that are
eligible; pooled, weighted, statistical and sketched shared thresholds are
"shared". A conformal threshold exists only where its rank lies within the
client's scores (`RankExists`). `Splits` computes counts with the ratios of
the code; the integer arithmetic agrees with the code's floats for every total
below 200,000 (by enumeration). The temporal and gap orders matter only to which
rows are in a part, not to how many.

### Programme

State on disk: `runs` says of each experiment and seed whether its run directory
exists and has an evaluation document; `analysis` whether the mandatory analysis
files of an experiment are absent, partial or all valid, which is all that
`inspect_experiment_evidence` looks at for passing; `basis`, a history variable,
which seeds' documents they were made from. `reference`, `smokeRuns`,
`anchorRuns`, `gate` and `marker` are the other trees commands meet on. The rest
is the running command: `todo` the recipes it has left, `pc` where it is.
Commands do not overlap.

`RunExperiment`, `RunCampaign`, `Report`, `ReportAll`, `Smoke`,
`AnchorReproduce` and `AnchorVerify` begin one. `EnforceAnchorGate`,
`SkipPassed`, `Dispatch` and the purge are `_dispatch_experiment`; the seeds run
next to one another as `_run_seed_loop` schedules them (on one worker the loop
stops at the first that raises, which `SeedsOver` allows); `ReportBegins` to
`ReportOver` are the recipe's report and `require_experiment_passed`;
`RequireComplete`, `MarkExecution`, `Publish` and `AllPublished` the end of
`run_campaign`. Any command may be killed at any step, and `End` forgets
everything but the disk.

What differs from recipe to recipe is a constant: whether an experiment has runs
of its own, the experiments whose runs its report reads (`Reads`), in which order
its contract lists what it owns, whose analyses lie inside its own, whether its
report insists on every seed, removes the old analysis first, or needs the
centralized reference, and whether its seed runner can be called.

A report may read runs of experiments that execute on their own. The confirmatory
one loads documents of `family_and_grouped_granularity`,
`shared_construction_sensitivity`, `fixed_shrinkage_curve` and
`size_aware_shrinkage` beside its own (`experiments/confirmatory/run.py:783`,
`:1157`); the FedProx, Ditto and fine-tuning reports load the confirmatory ones
(`:1223`). `Documents` are the seeds with a document of every experiment a report
reads, and `EvidenceMissing` is its error when one is not there (`:1271`).
`MCProgramme` gives the constants the values of three and of two recipes of the
repository. Of the four later experiments of the confirmatory report it has the
first: to the report they are alike.

Abstractions: one plan entry per seed (the entries of a seed are
`CampaignExecution`); the two centralized scopes are one `reference`; the gate's
verdict is a free choice once the historical experiment has run; a smoke run of
one experiment, and the removal of the smoke tree, are one step each.

## 3. Runs

| Run | Distinct states | What it asks |
| --- | --- | --- |
| `training_run` | 218,112 | does every process, training or loading, return the outcome the declared criterion gives |
| `training_evidence` | 97,514 | can any sequence of runs, kills, overwrites and input changes make a run use evidence that does not belong together, or block an overwriting run |
| `campaign_execution` | 53,822 | does `execute_campaign` with its pool implement the contract, share evidence, serialise the hook and leave nothing running |
| `canonical_dataset` | 23,244 | does a publication always restore the dataset, and what may a run of several seeds rely on |
| `canonical_dataset_pool` | violated | is the dataset one seed has published safe from the other seeds |
| `delivery_bundle` | 820,341 | is a reported bundle exact, and does it deliver what has passed, whatever changes meanwhile |
| `programme` | 1,793,863 | may any command disturb the evidence of another experiment, or of one that has passed, and does overwriting get through whatever is left |
| `programme_campaign` | 2,444,650 | what do the campaign's markers, and the answer "completed", certify |
| `anchor_gate` | 14,983 | what does an open gate stand for, and may a check that overlaps an anchor command admit on anything else |
| `seed_evaluation` | 96,388 | do threshold construction and evaluation agree about every client, and whose scores judge whom |
| `temporal_seed` | 2,363,077 | is what a seed returns of one detector, whatever was left behind, and does overwriting repair it |
| `temporal_report` | violated | the same, of what a report loads from disk |

The properties, in words, are in the comments above their definitions. The ones
that carry most:

- `ReturnsDeclaredOutcome` states the stopping rule without a monitor (the first
  eligible round whose window is flat, or else the whole budget) and demands it
  of trained and of reloaded results alike.
- `DetectorIsOnDisk` and `ScoresBelongToDetector` say that a run never works
  with files of two trainings, or with scores of another detector or other rows.
  `RefusedForCause` is the converse, that complete evidence is not refused, and
  `OverwriteRebuilds` and `OverwriteFinishes` that nothing left on disk can
  stand in the way of an overwrite.
- `ImplementsContract`, `SharedEvidenceOnce` and `HookIsSerialized` hold without
  locks around the workspace and without the lock in the main thread's stage
  events; they hold because the first entry of a batch is executed alone, and
  only a *successful* first entry opens the pool.
- `PreprocessRestores` and `SequentialRunRepairs` say what recovers after a kill.
  A misleading remainder stops runs until someone calls `preprocess`. What
  becomes of a whole dataset that `preprocess` finds without `--overwrite`, the
  property does not say: the code replaces it, where a document says that it is
  kept (section 6).
  `SuccessLeavesDataset` is what a parallel run without a dataset still
  guarantees; `PoolKeepsDataset` is what it does not (section 6).
- `ReportedBundleIsExact` survives outputs changing between digest and copy,
  because of the validation after the copy.
- `MarkersCertify` holds although `run_campaign` checks runs and analyses
  separately and a tolerant report may have passed on fewer seeds: such an
  analysis is only ever replaced together with its runs. It holds as long as no
  smoke runs lie under the outputs root, which is why its run leaves them out
  (section 6).
- `OverwriteHeals` says what no remainder can prevent: an overwriting run of an
  experiment ends well if the runs of *other* experiments its report reads are
  there, and a campaign gets to its completeness check if it dispatches before
  each report the experiments the report reads, or finds their runs. No further
  than that, for the check counts what anchor and smoke have left, too. In the
  registry of the repository the hypothesis about other runs fails on fresh
  outputs (section 6).
- `CompletedMeansWhole` is about a report that insists on nothing: only the
  dispatch before it makes the answer of `run experiment` true.
- `ImplementsContract` of `AnchorGate` depends on one order only, that an
  overwrite withdraws decision and handoff before the first document;
  `AdmitsOnStandingEvidence` on the second read of the decision's digest.
- `ThresholdedCellsPublish` and `AggregateIsWhole` say that the two places that
  decide who is eligible agree. In a temporal seed they do only because of
  `_require_common_temporal_eligibility_cohort`.
- `ReturnedSeedIsOneDetector` holds because a method's directory that exists is
  never taken over; a report has no such check (`ReportedRecoveryIsOneDetector`,
  section 6).

The type invariants are proved (section 4). `SeedEvaluation` has none of its own:
the conjuncts of its inductive invariant type what each stage has produced. TLC
checked the type invariants and the inductive ones too, added to a cfg.

Each property of a passing run has a mutant in `PROJECT.json`: a plausible
change of the code's model under which TLC finds the property violated.

### Bounds

- `training_run`: six rounds, eligible from round 4, window 3 (the anchor
  protocol has 150, 40 and 10). The order of the three is the same, and the
  window can be flat before the first eligible round, at it, between, and at the
  last. Four losses, all sequences of them: 0, and three whose pairwise relative
  changes are on both sides of the threshold. The proofs remove this bound.
- `training_evidence`: four versions, two that differ in nothing the loaders
  see, one with other rows, one with other clients. Two frames make a partly
  written and a partly removed scores directory. The number of processes, kills
  and overwrites is not bounded. The proofs are about any versions and frames.
- `campaign_execution`: two batches interleaved in the plan, four entries in the
  one that may use the pool (one first, three for two workers, so that a thread
  takes a second entry), two in the one that may not; four sets of run
  directories left by an earlier campaign. Each campaign is one execution. The
  proofs are about any plan, pool and earlier campaign.
- `canonical_dataset`: two assets and a manifest, three seeds on one or two
  workers, two versions of the raw data. Three seeds are needed: two can only
  take turns, the third meets the removal of one with the rename of another. Six
  directories cover the target, and a staging and an open one per process. The
  proofs are about any number of each.
- `delivery_bundle`: two experiments, one with two artifacts (a table and a
  document), so that a change can fall between two digests or two copies of the
  same experiment; two versions. The proofs remove these bounds.
- `programme`: three recipes, all sequences of the commands the cfg lists: the
  confirmatory experiment, one whose runs its report reads although it is
  dispatched later, and one that only analyses and whose files lie inside the
  confirmatory analysis directory. One seed: what is asked here is about whole
  experiments, and a second seed beside three recipes and a smoke tree is beyond
  TLC. Smoke is given the whole registry, where it stops at the recipe that only
  analyses, or the first experiment alone, where it can end well.
- `programme_campaign`: a tolerant robustness report with an optional experiment,
  and two seeds, enough for an experiment to be partly run. No smoke
  (section 6).
- Of both, the number of commands, kills and repetitions is not bounded. The
  proofs are about any registry, any cohort and any choice of smoke runs.
- `anchor_gate`: three entries, so that a package may mix documents with a gap;
  three reproductions, the second not faithful, so that a faithful one comes
  before and after. Verifications, kills and checks are not bounded. The proofs
  remove both bounds.
- `seed_evaluation`: three clients, two of one family, so that a family may lose
  one member or all; row counts on both sides of the support of 100 in each role
  of each protocol (2, 299, 500, 700, 1000), with at most one row that is not
  finite; the sizes 50, 100 and 250 lie below, at and above the support, and all
  have a conformal rank at the coverage of 95 per cent. The proofs hold for all
  counts, and for all supports, sizes and coverages that have ranks.
- `temporal_seed`: two methods (one evaluated, one not), three versions: two with
  the same rows, which the loaders cannot tell apart, and one with other rows. Of
  two versions that differ in rows, each lacks some of the other's; data that only
  gains rows, which `construct_published_split` accepts with the old assignment,
  are left out. Runs, overwrites and kills are not bounded. The proofs remove
  these bounds.

### Fairness

`TrainingRun`, `TrainingEvidence` and, for `OverwriteReopens`, `AnchorGate`
assume weak fairness of the running process, which is one thread that waits for nothing; kills, ends, starts and
input changes are not forced. `Programme` assumes it, where `OverwriteHeals` is
checked, of the running command, whose seeds take one of finitely many steps
each. `CanonicalDataset` assumes weak fairness of each seed process.
`CampaignExecution` assumes weak fairness of the main loop and strong fairness
of each thread: the lock is a plain `threading` lock, and a thread in a loop of
short critical sections may in principle be overtaken for ever under weak
fairness, although here the work is finite. The hook is taken to return, which
is the caller's part. `DeliveryBundle`, `SeedEvaluation` and `TemporalSeed` state
no liveness and assume no fairness.

Deadlock checking is on in every run but `seed_evaluation`, where a seed ends
with its result. `CampaignExecution` has an explicit
stuttering action `Over` for an execution that has ended.

## 4. Theorems

Proved by TLAPS for all values of the constants that satisfy the assumptions of
the modules. What they assume, and where the code has it:

- `ProtocolAssumption`, `EvaluationAssumption`: the checks the protocol and
  declaration classes make when they are constructed.
- `ConformalAssumption`: the locked sizes and coverage. A size below 19 would
  leave an eligible client without a threshold, and the evaluation would refuse
  the cell.
- `EvidenceAssumption`, `AnchorAssumption`, `TemporalAssumption`,
  `DatasetAssumption`, `BundleAssumption`, `CampaignAssumption`: names differ
  (two score frames lie in different directories or have different file names,
  the manifest is no asset, a version is not the mark of an absent file), there
  is at least one of what is counted, and plans are sequences of what exists.
- `RecipesAssumption` (`DeliveryBundle`): the artifacts of an experiment follow
  one another, which the nested loop of `_collect_passed` sees to, and each
  experiment has a result document, which every contract of `app/evidence.py`
  declares.
- `ProgrammeAssumption`: the registry is a sequence of experiments; every report
  reads the runs of some executing experiments, its own among them if it executes,
  and a tolerant one no others; every contract owns the analysis files it lists;
  only an experiment with runs of its own has a tolerant report; smoke is given
  the registry or one experiment of it.

`Training_proofs`, the run. The invariant `RunIInv` is
`RunTypeOK /\ MonitorFollows /\ LoopEnds /\ OutcomesDeclared /\ NeverRejected`.
`ReturnsDeclaredOutcome` is not inductive: one has to know that the recorded
losses are the first `round` values of `lossAt`, that no eligible round up to
now was flat unless the monitor says so (`MonitorFollows`), that a loop that has
ended did so by the monitor or by its bound (`LoopEnds`), and that what is
published, returned or remembered is the outcome the criterion declares
(`OutcomesDeclared`). The lemma that the declared outcome is unique then gives
reproducibility. Theorems: `RunInvariantHolds`, `RunTypeCorrect`,
`DeclaredOutcomeReturned`, `NeverRejects`, `ResultReproduced`.

`Training_proofs`, the directory. The invariant says, beyond the shapes of the
variables, that whole training files on disk are all of one generation
(`OneGeneration`: an incomplete directory is only ever completed by the process
that began it), that score entries exist only inside the scores directory, how
far a writing process has come (`Positions`, `TrainingWritten`,
`FramesWritten`), and the two properties themselves. `OneGeneration` is the
heart: without it a reload could find the history of one training and the model
of another. Theorems: `InvariantHolds`, `TypeCorrect`, `DetectorPublished`,
`ScoresOfDetector`, `RefusalHasCause`. Two layers stand on it. Nothing lies where
a process is about to write, and only an overwriting one removes
(`NothingAhead`, `RemovesOnRequest`), which gives `EvidenceKept`; and an
overwriting process whose removal is over has found nothing and has computed what
it holds from its own inputs (`Rebuilding`), which gives `Rebuilt`. That names of
frames are distinct matters here: a second frame of one name would be written
over the first.

`CampaignExecution_proofs`. Six conjuncts beside the types: which thread has
which entry, and no two the same (`JobsInv`); which entries of the batch are
pending, and that other batches are over or not begun (`BatchInv`); who holds
the lock (`HookInv`); that evidence held is the batch's and was computed by the
main thread, once (`EvidenceInv`); that an opened pool stands on a first entry
that was successful (`FirstInv`); and how the collected results relate to the
outcomes (`ResultsInv`). `FirstInv` is what makes the workspace safe without a
lock: no pool thread ever comes to compute. The results are sorted by the place
of their entry in the plan, so that `PlanOrderReturned` needs a counting argument:
as many results as entries, no entry twice. Theorems: `Invariant`, `TypeCorrect`,
`EvidenceComputedOnce`, `HookSerialized`, `NothingLeftRunning`,
`PlanOrderReturned`, `EarlierRunsKept`. The refinement is proved step by step:
`RefinesContract` is the safety part, for every plan and pool, and
`EndingImplementsContract` reduces the whole contract to `CampaignEnds`, which
TLC checks.

`CanonicalDataset_proofs`. Directories hold files of one version of the raw data
(`DirsInv`), a staging directory is whole and nobody else's (`StagingInv`). On
these stand what one process at a time relies on between its steps (`SoloInv`,
`PreprocessInv`), that nobody publishes where a whole dataset was found
(`KeepInv`), and for the pool, that a dataset that is not whole while nobody is
publishing never was (`PoolInv`), so that a seed that has read it proves it
whole. Theorems: `Invariant`, `TypeCorrect`, `Restores`, `FoundDatasetKept`,
`SuccessMeansDataset`, `SequentialRepairs`.

`DeliveryBundle_proofs`. A manifest lies in the results directory only beside
artifacts it records (`BundleInv`), which is why a directory left by a kill is
never taken for current; what the command has brought about so far
(`CommandInv`); and, as long as no output changes, that what is collected is what
has passed and what is copied is what is collected (`CollectedInv`, `CopiedInv`).
Theorems: `Invariant`, `TypeCorrect`, `BundleExact`, `PassedDelivered`.

`AnchorGate_proofs`. The refinement is proved, not only checked. The inductive
invariant adds to the type invariant and `ReportedStatusHolds` that a passing
decision is over the package and the documents on disk (`GateStands`), that a
package holds the documents of one reproduction (`PackageStands`), that neither a
package nor a passing decision is left once a document is touched (`Executing`),
that the entries before the position are of the current reproduction unless one
was blocked (`Executed`), and that what is judged is the package (`Judged`). From
these every step maps to `Rewrite`, `Open`, `Close` or a stutter. Theorems:
`TypeCorrect`, `ReportedStatusCorrect`, `AdmissionCorrect`,
`ContractImplemented`.

`SeedEvaluation_proofs`. First the rounding: the residual of the floors is 0 to
3, and as many of the four ranks lie below it, so the segments add up
(`SplitConserves`). Then one conjunct per stage (`Posed`, `Divided`, `Prepared`,
`Chosen`, `Constructed`, `Concluded`), which carries what is known of rows,
eligibility and assignment from stage to stage. Theorems: `ThresholdsServe`,
`InfluenceScoped`, and, with the lower bounds on the support they need stated as
assumptions, `AggregateWhole` (two) and `GapsSeparate` (one hundred).

`TemporalSeed_proofs`. The invariant says that what a run has gone past is whole
and of the detector (`Held`, `Evaluated`), that a method being written had
nothing whole in its place (`Opened`), what an overwriting run has cleared
(`Cleaning`), and that after the clearing everything on disk is its own
(`Clean`). Theorems: `TypeCorrect`, `ReturnedCorrect`, `RepairCorrect`,
`EvidenceKept`.

`Programme_proofs`. A command that deals with an experiment has one at the head of
its list (`Placed`), and seeds run, and reports other than the command `report`
write, only where no valid analysis is, because dispatch skips what has passed
and a purge is not over before the analysis is gone (`Fresh`). With these, what a
command does, it does to the experiment at hand, and to one that has passed only
when asked: `OthersSpared` and `PassedEvidenceKept`. `Ran` follows the seeds into
the report and gives `CompletedIsWhole`. `Based` is the reason the markers can be
trusted: a valid analysis of fewer seeds than there are (a tolerant report makes
them) never lies beside the runs of all, since the missing seeds run only after
the analysis is gone. `MarkersTell` adds that runs are left alone between the
completeness check and the markers (`Certified`), and has the hypothesis that
`smoke` is not among the commands; for TLC finds the property violated when it is
(section 6).

Every property a passing run checks is so stated by a theorem, but for the six
about liveness: `TrainingReturns`, `OverwriteFinishes`, `CampaignEnds`,
`SeedsEnd`, `OverwriteReopens` and `OverwriteHeals`. They stay with TLC: liveness
under fairness and `ENABLED` are outside what the installed provers can do. For
the same reason the liveness half of `CampaignContract` is proved only from
`CampaignEnds`. The two expected violations are TLC's by nature.

## 5. Not modelled

- Numbers: model weights, gradients, statistics, quantiles of real data. A loss
  is a natural number; a file's content is the version it was made from; a
  threshold is the set of clients it comes from. Quantile ranks, shrinkage
  weights, the value at a conformal rank, cluster assignments, Holm's correction and the sign
  test are pure functions of a few lines, tested directly.
- Hand-edited files, symbolic links, two commands at a time on one dataset or
  training directory, a full disk. A write that fails for another reason than a
  kill leaves what a kill leaves.
- The content of raw data and the readers of the three datasets.
- Durability: a completed write is on disk after a kill of the process. A crash
  of the machine, which could reorder writes that are not synced, is left out.
- In `Programme`: the training directories that several experiments share (an
  overwriting run removes them for all, `experiments/execution/engine.py:248`),
  preprocessing at the start of a campaign, and a failing purge other than a
  killed one.
- The matched training variants, whose seed runners cannot be called (section 6),
  and the centralized training's own files, which repeat the pattern of
  `TrainingEvidence`.
- Memberships, controlled partitions and plan expansion: constructions from
  declarations, with no state and one caller.
- Formatting, presentation, command line and validation of declarations; with
  the analyses on real numbers they are most of the package's lines, which is
  why the map covers a small share of it.

Hazards without a property carry a note in `PROJECT.json` saying why. One of
them deserves a word: a training found on disk is not tied to the version of its
data. The code reuses by coordinate, and `TrainingEvidence` lets inputs change so
that this is visible in `OverwriteRebuilds` as opposed to a run without
overwrite.

## 6. Where code and documents disagree

Two runs show a sentence of the repository to be wrong of the code; each is a
finding of `PROJECT.json`.

- `canonical_dataset_pool`: without `--overwrite` "existing artifacts are kept
  by default" (`/README.md:30`). Two seed processes that start without a
  canonical dataset both find no manifest and both publish; the second removes
  what the first has published and may be reading, so its seed fails. With a
  third seed, two removals can leave no dataset at all. A run that starts after
  `preprocess` is not affected (`RunKeepsDataset`).
- `temporal_report`: the check that "static reference and future states must
  share one historical detector" (`experiments/temporal/run.py:826`) compares
  coordinates, which hold no digest of the detector. An overwriting run that is
  killed inside the second state's directory, and a run without overwrite that
  trains again and raises at the first evaluation that exists, leave a static
  reference of the new detector beside a future of the old one; `report` loads
  them as one seed.

Met while modelling, and part of the actions named, but no property checks them:

- `Replace` and `Rename` of `CanonicalDataset`: `preprocess` without
  `--overwrite` publishes all the same, although existing artifacts are "kept by
  default" (`/README.md:30`). `materialize_datasets` (`data/service.py:35`) uses
  the flag only to remove the directory beforehand; the publisher then ends in
  `replace_directory`, which removes the existing dataset and renames the new one
  into place. Killed in between, the command leaves no dataset.
  `PreprocessRestores` takes neither side here. It is the same sentence that
  `canonical_dataset_pool` refutes of a run of several seeds.
- `EvidenceMissing` of `Programme`: the confirmatory recipe is the first of the
  registry (`app/recipes.py:1349`) and executes only its own declaration, but its
  report raises unless the documents of four later experiments are there
  (`experiments/confirmatory/run.py:1271`). On fresh outputs neither
  `run experiment` for it, with or without `--overwrite`, nor a campaign can end
  well: the four have to be run first, one by one. A campaign with `--overwrite`
  then makes the confirmatory analysis from their old runs, which it replaces
  afterwards.
- `ReportReads` of `Programme`: a report of the threshold-robustness family
  passes over the seeds it does not find
  (`experiments/threshold_robustness/run.py:620`) and passing is read from
  analysis files alone. After a killed or failed run, `report` makes the
  experiment pass, and `run experiment` then answers `already_passed` (compare
  `/tests/unit/app/test_evidence_and_results.py:259`). A campaign notices the
  missing runs (`MarkersCertify`), but without `--overwrite` cannot make them.
- `ReferenceRefused` of `Programme`: `run campaign` runs the centralized
  reference each time with `overwrite=False`
  (`experiments/centralized_reference.py:189`), and so refuses what the last
  campaign has left (compare `/README.md:30`).
- `Materialized` of `Programme`: the completeness check collects every evaluation
  document below the outputs root (`experiments/execution/evidence.py:34`), those
  of smoke runs included, so that of a smoke run stands in for a missing run
  (compare `/tests/unit/experiments/test_execution_evidence.py:65`).
- `ExecutionComplete` of `Programme`: the completeness check also collects the
  documents of `anchor reproduce`, which belong to no recipe and make a complete
  campaign fail (compare `/tests/unit/app/test_programme.py:241`).
- `SmokeRefusal` of `Programme`: `/README.md:21` makes the experiment of `smoke`
  optional; without it the first analysis-only recipe ends the command
  (`app/recipes.py:681`).
- `SeedRefusal` of `Programme`: the seed runners of Ditto, FedProx and
  fine-tuning take their seed by keyword only
  (`experiments/training_stress/run.py:464`, `:692`, `:992`) and the seed loop
  passes it by position (`app/recipes.py:536`). As the three are mandatory, no
  campaign over the full registry can end well until this, too, is changed; the
  runs of `Programme` about campaigns use recipes without it.

## 7. Plan

Done, in the order of importance: training evidence and the run that fills it,
campaign execution with its contract, canonical datasets, the delivery bundle,
the programme's commands, the anchor gate with its contract, the temporal seed,
and the evaluation of a seed from its rows to its cohorts; and of each the type
invariant and every safety and action property its passing runs check, proved,
with the safety part of both refinements.

Next, modules: the training directories that experiments share, in `Programme`;
the centralized training's publication; the staged publication of preprocessing,
per seed; the loop over clients inside a round.

Next, proofs: with the first of these, that an overwriting run of one experiment
leaves the analyses of the others true of what is on disk, or which it does not;
the abstract specification of a programme (what each command may do to passed
evidence), with `Programme` shown to implement it.

## 8. Running

    tlc -workers 2 -config MCTrainingEvidence.cfg MCTrainingEvidence.tla
    tlapm TrainingEvidence_proofs.tla

and likewise for the other `MC*.cfg` and `*_proofs.tla` files.
