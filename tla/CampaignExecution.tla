------------------------- MODULE CampaignExecution -------------------------
(***************************************************************************)
(* execute_campaign (experiments/execution/engine.py): the entries of a    *)
(* plan, batched by training coordinate; the first entry of a batch on the *)
(* main thread, which leaves the shared evidence (preprocessing, training, *)
(* scores) in the runner's workspace; the rest on a thread pool when that  *)
(* went well, on the main thread otherwise; one progress hook for all.     *)
(*                                                                         *)
(* A stage that raises ScientificContractError blocks its entry; any other *)
(* exception leaves execute_experiment.  Which of them happens is a free   *)
(* choice: the evidence the stages meet on disk is TrainingEvidence's.     *)
(***************************************************************************)
EXTENDS Integers, Sequences, FiniteSets, SequencesExt

CONSTANTS
    EntryCount,       \* number of entries of the campaign plan
    CoordinateOf,     \* the training coordinate of each entry
    Parallelizable,   \* training coordinates of other than the historical experiment
    MaximumParallel,  \* MAXIMUM_PARALLEL_THRESHOLD_EVALUATIONS
    AvailableCpus,    \* os.cpu_count()
    PreviousRuns      \* the run directories earlier campaigns may have left

Entries == 1..EntryCount
Coordinates == {CoordinateOf[e] : e \in Entries}
Main == 0
Workers == 1..MaximumParallel
Threads == {Main} \cup Workers
Nobody == -1
NoEntry == 0
NoBatch == "none"

ASSUME CampaignAssumption ==
    /\ EntryCount \in Nat \ {0}
    /\ CoordinateOf \in [Entries -> STRING] /\ NoBatch \notin Coordinates
    /\ Parallelizable \subseteq Coordinates
    /\ MaximumParallel \in Nat \ {0} /\ AvailableCpus \in Nat \ {0}
    /\ PreviousRuns \subseteq SUBSET Entries

VARIABLES
    overwrite,    \* the argument of execute_campaign
    phase,        \* execute_campaign is "open", has "returned" or "raised"
    batch,        \* the training coordinate whose entries are executed
    mode,         \* the batch is at its "first" entry, goes on in "main" or in a "pool"
    pending,      \* entries of the batch no thread has taken
    workerCount,  \* max_workers of the pool
    job,          \* the entry each thread executes
    step,         \* where each thread is in _execute_campaign_entry
    verdict,      \* the outcome a thread is about to report
    outcome,      \* how each entry ended
    experiments,  \* entries with a result, in the order they were collected
    results,      \* CampaignExecution.experiments
    shared,       \* training coordinates whose evidence the runner holds
    prepared,     \* history: computations of each coordinate's evidence, failed ones apart
    runDirs,      \* entries whose evaluation run directory exists
    lock,         \* the holder of _SerializedProgressHook._lock
    inHook        \* threads inside the emit of the caller's ProgressHook

threads == <<job, step, verdict>>
hook == <<lock, inHook>>
plan == <<batch, mode, pending, workerCount>>
evidence == <<shared, prepared, runDirs>>
vars == <<overwrite, phase, plan, threads, outcome, experiments, results,
          evidence, hook>>

Init ==
    /\ overwrite \in BOOLEAN
    /\ phase = "open"
    /\ batch = NoBatch
    /\ mode = "first"
    /\ pending = {}
    /\ workerCount = 0
    /\ job = [t \in Threads |-> NoEntry]
    /\ step = [t \in Threads |-> "idle"]
    /\ verdict = [t \in Threads |-> "none"]
    /\ outcome = [e \in Entries |-> "none"]
    /\ experiments = << >>
    /\ results = << >>
    /\ shared = {}
    /\ prepared = [c \in Coordinates |-> 0]
    /\ runDirs \in PreviousRuns
    /\ lock = Nobody
    /\ inHook = {}

----------------------------------------------------------------------------
(* The loop of execute_campaign.                                           *)

Idle(t) == step[t] = "idle"
AllIdle == \A t \in Threads : Idle(t)
Raised == {e \in Entries : outcome[e] = "raised"}
Untouched == {e \in Entries : outcome[e] = "none"}

\* The entries of S in the order of the plan: the i-th has i - 1 before it.
InOrder(S) ==
    [i \in 1..Cardinality(S) |-> CHOOSE e \in S : Cardinality({d \in S : d < e}) = i - 1]

\* Thread t takes the first of the entries left, in the order of the plan.
TakeNext(t, left) ==
    /\ job' = [job EXCEPT ![t] = Min(left)]
    /\ step' = [step EXCEPT ![t] = "begin"]
    /\ pending' = left \ {Min(left)}
    /\ UNCHANGED verdict

\* The next of _training_coordinate_batches, in the order of first entries:
\* its first entry starts on the main thread.
StartBatch ==
    /\ phase = "open"
    /\ batch = NoBatch
    /\ Untouched # {}
    /\ batch' = CoordinateOf[Min(Untouched)]
    /\ mode' = "first"
    /\ TakeNext(Main, {e \in Entries : CoordinateOf[e] = batch'})
    /\ UNCHANGED <<overwrite, phase, workerCount, outcome, experiments, results,
                   evidence, hook>>

\* _resource_aware_worker_cap.
WorkerCap(n) == Max({1, Min({MaximumParallel, AvailableCpus, n})})

\* The result of the first entry not asked for.
MutantMayRunInPool == pending # {} /\ batch \in Parallelizable

\* The successful first entry of a batch lets the others run in a pool.
MayRunInPool ==
    /\ pending # {}
    /\ outcome[Last(experiments)] = "completed"
    /\ batch \in Parallelizable

AfterFirst ==
    /\ mode = "first"
    /\ batch # NoBatch
    /\ AllIdle
    /\ Raised = {}
    /\ IF MayRunInPool
       THEN mode' = "pool" /\ workerCount' = WorkerCap(Cardinality(pending))
       ELSE mode' = "main" /\ UNCHANGED workerCount
    /\ UNCHANGED <<overwrite, phase, batch, pending, threads, outcome,
                   experiments, results, evidence, hook>>

\* The sequential loop, or a free thread of the pool, takes the next entry.
TakeEntry(t) ==
    /\ batch # NoBatch
    /\ pending # {}
    /\ Idle(t)
    /\ \/ mode = "main" /\ t = Main /\ Raised = {}
       \/ mode = "pool" /\ t \in 1..workerCount
    /\ TakeNext(t, pending)
    /\ UNCHANGED <<overwrite, phase, batch, mode, workerCount, outcome,
                   experiments, results, evidence, hook>>

\* The pool left as soon as one future has raised, the others running on.
MutantBatchOver == IF mode = "pool" /\ Raised # {} THEN TRUE ELSE AllIdle /\ pending = {}

\* The batch is over: nothing runs and nothing is left to run.  Leaving the
\* pool waits for every future, also when the first of them has raised.
BatchOver == AllIdle /\ pending = {}

\* The results of a pool are collected in the order of submission; the
\* runner lets go of the evidence of the batch.
FinishBatch ==
    /\ phase = "open"
    /\ batch # NoBatch
    /\ mode # "first"
    /\ BatchOver
    /\ Raised = {}
    /\ experiments' =
         IF mode = "pool"
         THEN experiments \o InOrder({e \in Entries : CoordinateOf[e] = batch}
                                       \ {Last(experiments)})
         ELSE experiments
    /\ batch' = NoBatch
    /\ shared' = {}
    /\ UNCHANGED <<overwrite, phase, mode, pending, workerCount, threads, outcome,
                   results, prepared, runDirs, hook>>

\* An exception of an entry leaves execute_campaign: at once from the main
\* thread, and from the pool once its threads are done.
RaiseFromCampaign ==
    /\ phase = "open"
    /\ Raised # {}
    /\ mode = "pool" => BatchOver
    /\ phase' = "raised"
    /\ UNCHANGED <<overwrite, plan, threads, outcome, experiments, results,
                   evidence, hook>>

\* The results returned in the order in which they were collected.
MutantReturnFromCampaign ==
    /\ phase = "open"
    /\ batch = NoBatch
    /\ Untouched = {}
    /\ phase' = "returned"
    /\ results' = experiments
    /\ UNCHANGED <<overwrite, plan, threads, outcome, experiments, evidence, hook>>

\* What sorting by ordinal gives: at place i, an entry that fewer than i of
\* those collected precede, and that at least i do not follow.
SortedByOrdinal(s) ==
    [i \in DOMAIN s |->
        CHOOSE e \in Entries :
            /\ Cardinality({j \in DOMAIN s : s[j] < e}) < i
            /\ i <= Cardinality({j \in DOMAIN s : s[j] <= e})]

ReturnFromCampaign ==
    /\ phase = "open"
    /\ batch = NoBatch
    /\ Untouched = {}
    /\ phase' = "returned"
    /\ results' = SortedByOrdinal(experiments)
    /\ UNCHANGED <<overwrite, plan, threads, outcome, experiments, evidence, hook>>

----------------------------------------------------------------------------
(* _execute_campaign_entry on thread t: COORDINATE_BEGIN, the run          *)
(* directory, the stages with their events, COORDINATE_END.                *)

MutantUsesLock(t) == step[t] # "stage"

\* The campaign's own events, and all events of the pool's runners, go
\* through the lock; the stage events of the campaign's runner do not.
UsesLock(t) == step[t] # "stage" \/ t # Main

EnterHook(t) ==
    /\ step[t] \in {"begin", "stage", "end"}
    /\ t \notin inHook
    /\ IF UsesLock(t) THEN lock = Nobody /\ lock' = t ELSE UNCHANGED lock
    /\ inHook' = inHook \cup {t}
    /\ UNCHANGED <<overwrite, phase, plan, threads, outcome, experiments, results,
                   evidence>>

StepAfter(s) == IF s = "begin" THEN "check" ELSE "prepare"

\* The lock kept when the hook returns.
MutantLeaveHook(t) ==
    /\ t \in inHook
    /\ step[t] \in {"begin", "stage"}
    /\ inHook' = inHook \ {t}
    /\ step' = [step EXCEPT ![t] = StepAfter(@)]
    /\ UNCHANGED <<overwrite, phase, plan, job, verdict, outcome, experiments,
                   results, evidence, lock>>

\* The hook returns and the lock is released, after the first two events.
LeaveHook(t) ==
    /\ t \in inHook
    /\ step[t] \in {"begin", "stage"}
    /\ inHook' = inHook \ {t}
    /\ lock' = IF lock = t THEN Nobody ELSE lock
    /\ step' = [step EXCEPT ![t] = StepAfter(@)]
    /\ UNCHANGED <<overwrite, phase, plan, job, verdict, outcome, experiments,
                   results, evidence>>

\* The exception of an entry: no COORDINATE_END, no result.
EndByException(t) ==
    /\ outcome' = [outcome EXCEPT ![job[t]] = "raised"]
    /\ job' = [job EXCEPT ![t] = NoEntry]
    /\ step' = [step EXCEPT ![t] = "idle"]
    /\ UNCHANGED verdict

ReportVerdict(t, v) ==
    /\ verdict' = [verdict EXCEPT ![t] = v]
    /\ step' = [step EXCEPT ![t] = "end"]
    /\ UNCHANGED <<job, outcome>>

\* An existing run directory removed without asking for overwrite.
MutantCheckRunDirectory(t) ==
    /\ step[t] = "check"
    /\ runDirs' = runDirs \ {job[t]}
    /\ step' = [step EXCEPT ![t] = "stage"]
    /\ UNCHANGED <<job, verdict, outcome>>
    /\ UNCHANGED <<overwrite, phase, plan, experiments, results, shared, prepared, hook>>

\* An existing run directory: FileExistsError, or removed if overwriting.
CheckRunDirectory(t) ==
    /\ step[t] = "check"
    /\ IF job[t] \in runDirs /\ ~overwrite
       THEN EndByException(t) /\ UNCHANGED runDirs
       ELSE /\ runDirs' = runDirs \ {job[t]}
            /\ step' = [step EXCEPT ![t] = "stage"]
            /\ UNCHANGED <<job, verdict, outcome>>
    /\ UNCHANGED <<overwrite, phase, plan, experiments, results, shared, prepared, hook>>

\* The evidence of the coordinate is cached in the workspace of the batch's
\* first entry, which the campaign's runner keeps until the batch is over and
\* hands to the runners of the pool (with_fixed_evidence).
HoldsEvidence(t) == CoordinateOf[job[t]] \in shared

\* The stages up to GENERATE_SCORES, when their evidence is cached.
ReuseEvidence(t) ==
    /\ step[t] = "prepare"
    /\ HoldsEvidence(t)
    /\ step' = [step EXCEPT ![t] = "evaluate"]
    /\ UNCHANGED <<overwrite, phase, plan, job, verdict, outcome, experiments,
                   results, evidence, hook>>

\* Otherwise they compute it.  A cached_property takes no lock, so a second
\* thread that asks before it is there computes it as well.
ComputeEvidence(t) ==
    /\ step[t] = "prepare"
    /\ ~HoldsEvidence(t)
    /\ step' = [step EXCEPT ![t] = "compute"]
    /\ prepared' = [prepared EXCEPT ![CoordinateOf[job[t]]] = @ + 1]
    /\ UNCHANGED <<overwrite, phase, plan, job, verdict, outcome, experiments,
                   results, shared, runDirs, hook>>

EvidenceReady(t) ==
    /\ step[t] = "compute"
    /\ \/ /\ step' = [step EXCEPT ![t] = "evaluate"]
          /\ shared' = shared \cup {CoordinateOf[job[t]]}
          /\ UNCHANGED <<job, verdict, outcome, prepared>>
       \/ /\ ReportVerdict(t, "blocked") \/ EndByException(t)
          /\ prepared' = [prepared EXCEPT ![CoordinateOf[job[t]]] = @ - 1]
          /\ UNCHANGED shared
    /\ UNCHANGED <<overwrite, phase, plan, experiments, results, runDirs, hook>>

\* The stages from BUILD_CALIBRATION on.  The threshold is the first thing
\* written to the run directory, an unavailable one included, and whatever
\* fails later leaves the directory behind.
Evaluate(t) ==
    /\ step[t] = "evaluate"
    /\ \/ ReportVerdict(t, "completed") /\ runDirs' = runDirs \cup {job[t]}
       \/ /\ ReportVerdict(t, "blocked") \/ EndByException(t)
          /\ runDirs' \in {runDirs, runDirs \cup {job[t]}}
    /\ UNCHANGED <<overwrite, phase, plan, experiments, results, shared, prepared, hook>>

\* COORDINATE_END is out and the result is returned; the main thread
\* collects its own at once.
EndEntry(t) ==
    /\ t \in inHook
    /\ step[t] = "end"
    /\ inHook' = inHook \ {t}
    /\ lock' = Nobody
    /\ outcome' = [outcome EXCEPT ![job[t]] = verdict[t]]
    /\ experiments' = IF t = Main THEN Append(experiments, job[t]) ELSE experiments
    /\ job' = [job EXCEPT ![t] = NoEntry]
    /\ step' = [step EXCEPT ![t] = "idle"]
    /\ verdict' = [verdict EXCEPT ![t] = "none"]
    /\ UNCHANGED <<overwrite, phase, plan, results, evidence>>

ThreadStep(t) ==
    \/ TakeEntry(t)
    \/ EnterHook(t) \/ LeaveHook(t)
    \/ CheckRunDirectory(t)
    \/ ReuseEvidence(t) \/ ComputeEvidence(t) \/ EvidenceReady(t)
    \/ Evaluate(t)
    \/ EndEntry(t)

CampaignStep ==
    \/ StartBatch \/ AfterFirst \/ FinishBatch
    \/ RaiseFromCampaign \/ ReturnFromCampaign

\* execute_campaign has returned or raised.
Over == phase # "open" /\ UNCHANGED vars

Next == (\E t \in Threads : ThreadStep(t)) \/ CampaignStep \/ Over

\* Every thread is scheduled, and a waiting one gets the lock: its holder
\* needs nothing but to return from the hook.
Fairness ==
    /\ WF_vars(CampaignStep)
    /\ \A t \in Threads : SF_vars(ThreadStep(t))

Spec == Init /\ [][Next]_vars /\ Fairness

----------------------------------------------------------------------------
(* Properties.                                                             *)

TypeOK ==
    /\ overwrite \in BOOLEAN
    /\ phase \in {"open", "returned", "raised"}
    /\ batch \in Coordinates \cup {NoBatch}
    /\ mode \in {"first", "main", "pool"}
    /\ pending \subseteq Entries
    /\ workerCount \in 0..MaximumParallel
    /\ job \in [Threads -> Entries \cup {NoEntry}]
    /\ step \in [Threads -> {"idle", "begin", "check", "stage", "prepare", "compute",
                            "evaluate", "end"}]
    /\ verdict \in [Threads -> {"none", "completed", "blocked"}]
    /\ outcome \in [Entries -> {"none", "completed", "blocked", "raised"}]
    /\ experiments \in Seq(Entries)
    /\ results \in Seq(Entries)
    /\ shared \subseteq Coordinates
    /\ prepared \in [Coordinates -> Nat]
    /\ runDirs \subseteq Entries
    /\ lock \in Threads \cup {Nobody}
    /\ inHook \subseteq Threads

Busy == {t \in Threads : ~Idle(t)}

\* The evidence of a training coordinate is computed at most once in a
\* campaign and never by two threads at a time, although nothing locks it,
\* however its entries are spread over threads and whichever of them were
\* blocked; and no entry is evaluated without it (engine.py:157-165, 265-300).
SharedEvidenceOnce ==
    /\ \A c \in Coordinates : prepared[c] <= 1
    /\ \A t \in Busy : step[t] = "evaluate" => prepared[CoordinateOf[job[t]]] = 1

\* The caller's hook is never entered by two threads at a time, although the
\* campaign's runner calls it without the lock (engine.py:99-106, 214).
HookIsSerialized == Cardinality(inHook) <= 1

\* When execute_campaign is left, by return or exception, no thread of it is
\* still executing an entry or inside the hook.
NothingRunsAfterwards == phase # "open" => Busy = {} /\ inHook = {}

\* What is returned holds every entry of the plan exactly once, in the order
\* of the plan, although batches interleave and pools finish in any order;
\* and each has a result, whose run directory exists if it was successful.
ReturnsPlanOrder ==
    phase = "returned" =>
        /\ results = [e \in Entries |-> e]
        /\ \A e \in Entries : outcome[e] \in {"completed", "blocked"}
        /\ \A e \in Entries : outcome[e] = "completed" => e \in runDirs

\* Without overwrite the run directories an earlier campaign left are there
\* to the end, and none of their entries gets a successful result: also the
\* directory of a run that was blocked is in the way (engine.py:77-81).
PreviousRunsKept ==
    \A R \in PreviousRuns :
        runDirs = R /\ ~overwrite =>
            [](R \subseteq runDirs /\ \A e \in R : outcome[e] # "completed")

\* The campaign comes to an end.
CampaignEnds == <>(phase # "open")

----------------------------------------------------------------------------
(* The campaign implements what its callers rely on.                       *)

StatusOf(e) ==
    IF outcome[e] # "none" THEN outcome[e]
    ELSE IF \E t \in Threads : job[t] = e THEN "running" ELSE "pending"

Answer ==
    IF phase # "returned" THEN << >>
    ELSE [i \in DOMAIN results |-> [entry |-> results[i], verdict |-> StatusOf(results[i])]]

Contract == INSTANCE CampaignContract WITH
    Cap <- WorkerCap(EntryCount),
    status <- [e \in Entries |-> StatusOf(e)],
    answer <- Answer

ImplementsContract == Contract!Spec
=============================================================================
