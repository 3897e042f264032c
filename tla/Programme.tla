----------------------------- MODULE Programme -----------------------------
(***************************************************************************)
(* The commands of the programme (app/research.py, app/anchor.py) over the *)
(* outputs directory they share: run experiment, run campaign, report,     *)
(* smoke and anchor, one command after another, each possibly killed.      *)
(*                                                                         *)
(* Per experiment the outputs hold evaluation runs, one per seed here, and *)
(* the analysis files its evidence contract lists.  Whether an experiment  *)
(* has passed is read from these files every time, never remembered, and   *)
(* only from the analysis files.  How a seed comes by its run is           *)
(* CampaignExecution; the bundle that ends a campaign is DeliveryBundle.   *)
(***************************************************************************)
EXTENDS Integers, Sequences, SequencesExt

CONSTANTS
    Recipes,         \* EXPERIMENT_RECIPES, in their order
    Mandatory,       \* those with CampaignRole.MANDATORY
    Executing,       \* those with runs of their own; the others only analyse
    Reads,           \* the experiments whose runs each report reads
    OwnedPaths,      \* "runs" and "analysis" of each contract, in purge order
    Nested,          \* experiments whose analysis lies inside that of another
    Tolerant,        \* reports that aggregate whatever runs they find
    ClearsFirst,     \* reports that remove the analysis before they read
    NeedsReference,  \* reports that need the centralized reference
    KeywordOnly,     \* seed runners that take their seed by keyword only
    SeedCount,       \* size of the seed cohort
    Commands,        \* the commands that are given
    SmokeTargets     \* what smoke is given: all recipes, or one of them

Experiments == ToSet(Recipes)
Seeds == 1..SeedCount
SmokeSeed == 1
Runs == {"none", "begun", "done"}       \* run directory, evaluation document
Analyses == {"absent", "torn", "valid"} \* all mandatory files valid, or not
Markers == {"EXECUTION", "PUBLICATION"}
Refusals == {"gate", "exists", "mode", "type", "missing", "failed",
             "incomplete", "not_passed"}
Outcomes == {"none", "completed", "already_passed", "killed"} \cup Refusals
\* Where a command is: in its report of one experiment, in its dealing with one
\* experiment, anywhere.
Reporting == {"report", "read", "write", "reported"}
Dealing == {"gate", "purge", "seeds"} \cup Reporting
Stages == {"idle", "dispatch", "reference", "reference_seeds", "complete", "mark",
           "publish", "smoke_clear", "smoke_anchor", "smoke", "anchor",
           "anchor_seeds", "verify"} \cup Dealing

\* Of what may differ between recipes: every contract owns the analysis files it
\* lists (app/evidence.py), and only a report of runs of its own is tolerant.
ASSUME ProgrammeAssumption ==
    /\ SeedCount \in Nat \ {0}
    /\ Recipes \in Seq(Experiments)
    /\ Mandatory \subseteq Experiments /\ Executing \subseteq Experiments
    /\ Reads \in [Experiments -> (SUBSET Executing) \ {{}}]
    /\ \A e \in Executing : e \in Reads[e]
    /\ \A e \in Tolerant : Reads[e] = {e}
    /\ Tolerant \subseteq Executing /\ KeywordOnly \subseteq Executing
    /\ Nested \in [Experiments -> SUBSET Experiments]
    /\ OwnedPaths \in [Experiments -> Seq({"runs", "analysis"})]
    /\ \A e \in Experiments : "analysis" \in ToSet(OwnedPaths[e])
    /\ SmokeTargets \subseteq {Recipes} \cup {<<e>> : e \in Experiments}

VARIABLES
    runs,       \* evaluation runs under OUTPUTS_ROOT / experiment
    analysis,   \* the mandatory analysis files of each experiment
    basis,      \* seeds whose documents went into the analysis
    reference,  \* the centralized reference: "absent", "torn" or "done"
    smokeRuns,  \* evaluation runs under OUTPUTS_ROOT / smoke
    anchorRuns, \* where runs of the historical experiment lie: "full", "smoke"
    gate,       \* the verified anchor gate artifact lets experiments through
    marker,     \* the campaign's markers that exist
    kind,       \* the command
    overwrite,  \* its --overwrite
    todo,       \* the experiments it has still to deal with
    pc,         \* where it is
    back,       \* where it goes on after a report
    owned,      \* owned paths it has still to purge
    started,    \* seeds of the current experiment that are under way
    handled,    \* seeds of the current experiment that have ended
    raised,     \* what the seeds of the current experiment raised
    outcome     \* how the last command ended

evidence == <<runs, analysis, basis>>
disk == <<evidence, reference, smokeRuns, anchorRuns, gate, marker>>
seedLoop == <<started, handled, raised>>
command == <<kind, overwrite, todo, pc, back, owned, seedLoop, outcome>>
vars == <<disk, command>>

TypeOK ==
    /\ runs \in [Executing -> [Seeds -> Runs]]
    /\ analysis \in [Experiments -> Analyses]
    /\ basis \in [Experiments -> SUBSET Seeds]
    /\ reference \in {"absent", "torn", "done"}
    /\ smokeRuns \in [Executing -> Runs]
    /\ anchorRuns \subseteq {"full", "smoke"}
    /\ gate \in BOOLEAN
    /\ marker \subseteq Markers
    /\ kind \in Commands \cup {"none"}
    /\ overwrite \in BOOLEAN
    /\ todo \in Seq(Experiments)
    /\ pc \in Stages
    /\ back \in {"none", "dispatch", "publish"}
    /\ owned \in Seq({"runs", "analysis"})
    /\ handled \subseteq Seeds /\ started \subseteq Seeds
    /\ raised \subseteq Refusals
    /\ outcome \in Outcomes

Init ==
    /\ runs = [e \in Executing |-> [s \in Seeds |-> "none"]]
    /\ analysis = [e \in Experiments |-> "absent"]
    /\ basis = [e \in Experiments |-> {}]
    /\ reference = "absent"
    /\ smokeRuns = [e \in Executing |-> "none"]
    /\ anchorRuns = {}
    /\ gate = FALSE
    /\ marker = {}
    /\ kind = "none" /\ overwrite = FALSE /\ todo = << >>
    /\ pc = "idle" /\ back = "none" /\ owned = << >>
    /\ started = {} /\ handled = {} /\ raised = {}
    /\ outcome = "none"

----------------------------------------------------------------------------
(* What the outputs say.                                                   *)

Current == Head(todo)

\* ExperimentEvidence.passed: every mandatory analysis file is valid.
Passed(e) == analysis[e] = "valid"
MandatoryPassed == \A e \in Mandatory : Passed(e)

SeedsDone(e) == {s \in Seeds : runs[e][s] = "done"}

\* The seeds with every evaluation document the report of e reads, those
\* published by the seeds of other experiments included.
Documents(e) == {s \in Seeds : \A x \in Reads[e] : s \in SeedsDone(x)}

\* Every evaluation document anywhere under the outputs root, with the key it
\* carries; the historical experiment is not in the campaign's plan.
Materialized ==
    UNION {{<<e, s>> : s \in SeedsDone(e)} : e \in Executing}
        \cup {<<e, SmokeSeed>> : e \in {x \in Executing : smokeRuns[x] = "done"}}
Duplicated == {e \in Executing : smokeRuns[e] = "done" /\ SmokeSeed \in SeedsDone(e)}
\* Mutant: only unauthorized documents are looked for, not missing ones.
MutantExecutionComplete ==
    /\ Duplicated = {}
    /\ anchorRuns = {}
    /\ Materialized \subseteq Executing \X Seeds
ExecutionComplete ==
    /\ Duplicated = {}
    /\ anchorRuns = {}
    /\ Materialized = Executing \X Seeds

----------------------------------------------------------------------------
(* Beginning and ending a command.                                         *)

Begin(k, o, targets, at) ==
    /\ pc = "idle" /\ k \in Commands
    /\ kind' = k /\ overwrite' = o /\ todo' = targets /\ pc' = at
    /\ outcome' = "none"
    /\ UNCHANGED <<disk, back, owned, seedLoop>>

RunExperiment == \E e \in Experiments, o \in BOOLEAN : Begin("experiment", o, <<e>>, "gate")
RunCampaign == \E o \in BOOLEAN : Begin("campaign", o, Recipes, "reference")
Report == \E e \in Experiments : Begin("report", FALSE, <<e>>, "gate")
ReportAll == Begin("reports", FALSE, Recipes, "publish")
Smoke ==
    \E o \in BOOLEAN, targets \in SmokeTargets : Begin("smoke", o, targets, "smoke_clear")
AnchorReproduce == \E o \in BOOLEAN : Begin("anchor", o, << >>, "anchor")
AnchorVerify == Begin("anchor", FALSE, << >>, "verify")

\* The command ends, with everything but its effect on disk forgotten.
End(how) ==
    /\ pc' = "idle" /\ outcome' = how
    /\ kind' = "none" /\ overwrite' = FALSE /\ todo' = << >>
    /\ back' = "none" /\ owned' = << >>
    /\ started' = {} /\ handled' = {} /\ raised' = {}

GoTo(at) == pc' = at /\ UNCHANGED <<kind, overwrite, outcome>>

\* The process is killed, or its machine stopped.
Kill == pc # "idle" /\ End("killed") /\ UNCHANGED disk

----------------------------------------------------------------------------
(* One experiment: _dispatch_experiment.                                   *)

EnforceAnchorGate ==
    /\ pc = "gate"
    /\ IF ~gate THEN End("gate")
       ELSE /\ GoTo(IF kind = "report" THEN "report" ELSE "dispatch")
            /\ back' = "dispatch"
            /\ UNCHANGED <<todo, owned, seedLoop>>
    /\ UNCHANGED disk

\* A passed experiment is left alone unless --overwrite is given.
\* Mutant: nobody looks.
MutantAlreadyPassed(e) == FALSE
AlreadyPassed(e) == ~overwrite /\ Passed(e)

NextExperiment == todo' = Tail(todo) /\ UNCHANGED <<owned, seedLoop>>

SkipPassed ==
    /\ pc = "dispatch" /\ todo # << >>
    /\ AlreadyPassed(Current)
    /\ IF kind = "experiment" THEN End("already_passed")
       ELSE GoTo("dispatch") /\ NextExperiment /\ UNCHANGED back
    /\ UNCHANGED disk

Dispatch ==
    /\ pc = "dispatch" /\ todo # << >>
    /\ ~AlreadyPassed(Current)
    /\ GoTo(IF overwrite THEN "purge" ELSE "seeds")
    /\ owned' = IF overwrite THEN OwnedPaths[Current] ELSE << >>
    /\ UNCHANGED <<disk, todo, back, seedLoop>>

\* Purging the runs of an experiment, one run directory after another, each
\* of them possibly in two steps.
PurgeRun ==
    /\ pc = "purge" /\ owned # << >> /\ Head(owned) = "runs"
    /\ \E s \in Seeds :
        /\ runs[Current][s] # "none"
        /\ \E left \in {"none", "begun"} \ {runs[Current][s]} :
            runs' = [runs EXCEPT ![Current][s] = left]
    /\ UNCHANGED <<analysis, basis, reference, smokeRuns, anchorRuns, gate,
                   marker, command>>

\* The names of child directories that _purge_retaining passes over.
\* Mutant: it passes over none.
MutantRetainNames(e) == {}
RetainNames(e) == Nested[e]

\* Purging its analysis directory, with what lies inside and is not retained.
PurgeAnalysis ==
    LET gone == {Current} \cup (Nested[Current] \ RetainNames(Current))
    IN  /\ pc = "purge" /\ owned # << >> /\ Head(owned) = "analysis"
        /\ analysis[Current] # "absent"
        /\ \E left \in {"absent", "torn"} \ {analysis[Current]} :
            analysis' = [e \in Experiments |-> IF e \in gone THEN left ELSE analysis[e]]
        /\ basis' = [e \in Experiments |-> IF e \in gone THEN {} ELSE basis[e]]
        /\ UNCHANGED <<runs, reference, smokeRuns, anchorRuns, gate, marker, command>>

Purged(path) ==
    IF path = "runs" THEN \A s \in Seeds : runs[Current][s] = "none"
    ELSE analysis[Current] = "absent"

PurgePathDone ==
    /\ pc = "purge" /\ owned # << >> /\ Purged(Head(owned))
    /\ owned' = Tail(owned)
    /\ GoTo(IF owned' = << >> THEN "seeds" ELSE "purge")
    /\ UNCHANGED <<disk, todo, back, seedLoop>>

----------------------------------------------------------------------------
(* The seeds of one experiment: the recipe's dispatch.                     *)

InSeedLoop == pc = "seeds" /\ Current \in Executing
Left == IF Current \in Executing THEN Seeds \ handled ELSE {}

\* What the rest of the command keeps while its seeds run.
SeedStep == UNCHANGED <<analysis, basis, reference, smokeRuns, anchorRuns, gate,
                        marker, kind, overwrite, todo, pc, back, owned, outcome>>

\* Why a seed cannot begin: runner(seed, ...) with a runner declared as
\* runner(*, training_seed, ...); a run directory that exists, which is removed
\* under --overwrite.
SeedRefusal(s) ==
    IF Current \in KeywordOnly THEN "type"
    ELSE IF ~overwrite /\ runs[Current][s] # "none" THEN "exists"
    ELSE "none"

SeedBegins(s) ==
    /\ s \notin started /\ SeedRefusal(s) = "none"
    /\ started' = started \cup {s}
    /\ runs' = [runs EXCEPT ![Current][s] = "none"]
    /\ UNCHANGED <<handled, raised>> /\ SeedStep

SeedWrites(s) ==
    /\ s \in started /\ runs[Current][s] = "none"
    /\ runs' = [runs EXCEPT ![Current][s] = "begun"]
    /\ UNCHANGED seedLoop /\ SeedStep

SeedEnds(s) ==
    /\ s \in started /\ runs[Current][s] = "begun"
    /\ runs' = [runs EXCEPT ![Current][s] = "done"]
    /\ started' = started \ {s} /\ handled' = handled \cup {s}
    /\ UNCHANGED raised /\ SeedStep

SeedRaises(s, why) ==
    /\ started' = started \ {s} /\ handled' = handled \cup {s}
    /\ raised' = raised \cup {why}
    /\ UNCHANGED runs /\ SeedStep

SeedRefused(s) ==
    s \notin started /\ SeedRefusal(s) # "none" /\ SeedRaises(s, SeedRefusal(s))
SeedFails(s) == s \in started /\ SeedRaises(s, "failed")

Seed ==
    /\ InSeedLoop
    /\ \E s \in Left :
        \/ SeedBegins(s) \/ SeedWrites(s) \/ SeedEnds(s)
        \/ SeedRefused(s) \/ SeedFails(s)

\* A seed that raised ends the command.
\* Mutant: nobody asks the seeds for their results.
MutantDispatchSucceeds == TRUE
DispatchSucceeds == raised = {}

\* The pool has waited for every seed; seeds one after the other stop at the
\* first that raises.
SeedsOver ==
    /\ pc = "seeds" /\ started = {}
    /\ Left = {} \/ raised # {}
    /\ IF DispatchSucceeds
       THEN /\ GoTo("report")
            /\ started' = {} /\ handled' = {} /\ raised' = {}
            /\ UNCHANGED <<todo, back, owned>>
       ELSE \E why \in raised : End(why)
    /\ UNCHANGED disk

----------------------------------------------------------------------------
(* One report: ExperimentRecipe.report, and require_experiment_passed.     *)

ReportBegins ==
    /\ pc = "report"
    /\ GoTo("read")
    /\ analysis' = IF Current \in ClearsFirst
                   THEN [analysis EXCEPT ![Current] = "absent"] ELSE analysis
    /\ basis' = IF Current \in ClearsFirst THEN [basis EXCEPT ![Current] = {}] ELSE basis
    /\ UNCHANGED <<runs, reference, smokeRuns, anchorRuns, gate, marker, todo,
                   back, owned, seedLoop>>

\* Evidence the report insists on is not there.
EvidenceMissing(e) ==
    \/ e \in NeedsReference /\ reference # "done"
    \/ e \notin Tolerant /\ Documents(e) # Seeds

\* The first file, with what was found; a report of nothing is not valid.
ReportReads ==
    /\ pc = "read" /\ ~EvidenceMissing(Current)
    /\ basis' = [basis EXCEPT ![Current] = Documents(Current)]
    /\ analysis' = [analysis EXCEPT ![Current] =
                        IF Documents(Current) # {} /\ @ = "valid" THEN "valid" ELSE "torn"]
    /\ GoTo("write")
    /\ UNCHANGED <<runs, reference, smokeRuns, anchorRuns, gate, marker, todo,
                   back, owned, seedLoop>>

ReportWrites ==
    /\ pc = "write"
    /\ analysis' = IF basis[Current] = {} THEN analysis
                   ELSE [analysis EXCEPT ![Current] = "valid"]
    /\ GoTo("reported")
    /\ UNCHANGED <<runs, basis, reference, smokeRuns, anchorRuns, gate, marker,
                   todo, back, owned, seedLoop>>

\* An optional experiment without its evidence is passed over by the report of
\* the campaign; other errors, and all errors elsewhere, end the command.
PassedOver(why) == back = "publish" /\ Current \notin Mandatory /\ why = "missing"

ReportRaises(why) ==
    /\ IF PassedOver(why)
       THEN GoTo("publish") /\ NextExperiment /\ UNCHANGED back
       ELSE End(why)
    /\ UNCHANGED disk

ReportMisses == pc = "read" /\ EvidenceMissing(Current) /\ ReportRaises("missing")
ReportFails == pc \in {"read", "write"} /\ ReportRaises("failed")

ReportOver ==
    /\ pc = "reported"
    /\ IF back = "dispatch" /\ ~Passed(Current) THEN End("not_passed")
       ELSE GoTo(back) /\ NextExperiment /\ UNCHANGED back
    /\ UNCHANGED disk

----------------------------------------------------------------------------
(* run_campaign, around the experiments.                                   *)

\* --overwrite removes what there is of the reference, seed by seed.
ReferenceClears ==
    /\ pc = "reference" /\ (overwrite \/ reference # "done")
    /\ reference' \in IF overwrite THEN {"absent", reference} \ {"done"} ELSE {reference}
    /\ GoTo("reference_seeds")
    /\ UNCHANGED <<evidence, smokeRuns, anchorRuns, gate, marker, todo, back,
                   owned, seedLoop>>

\* Mutant: --overwrite does not reach the reference.
MutantReferenceRefused ==
    /\ pc = "reference" /\ reference # "absent"
    /\ End("exists") /\ UNCHANGED disk

\* Without it the first threshold directory that exists is refused; a torn
\* reference may have none yet.
ReferenceRefused ==
    /\ pc = "reference" /\ ~overwrite /\ reference # "absent"
    /\ End("exists") /\ UNCHANGED disk

ReferenceWrites ==
    /\ pc = "reference_seeds" /\ reference # "done"
    /\ \E next \in {"torn", "done"} \ {reference} : reference' = next
    /\ UNCHANGED <<evidence, smokeRuns, anchorRuns, gate, marker, command>>

ReferenceFails ==
    /\ pc = "reference_seeds" /\ reference # "done"
    /\ End("failed") /\ UNCHANGED disk

ReferenceDone ==
    /\ pc = "reference_seeds" /\ reference = "done"
    /\ GoTo("dispatch") /\ back' = "dispatch"
    /\ UNCHANGED <<disk, todo, owned, seedLoop>>

AllDispatched ==
    /\ pc = "dispatch" /\ todo = << >>
    /\ IF kind = "campaign"
       THEN GoTo("complete") /\ UNCHANGED <<todo, back, owned, seedLoop>>
       ELSE End("completed")
    /\ UNCHANGED disk

\* require_materialized_execution_completeness and the mandatory experiments.
RequireComplete ==
    /\ pc = "complete"
    /\ IF ~ExecutionComplete THEN End("incomplete")
       ELSE IF ~MandatoryPassed THEN End("not_passed")
       ELSE GoTo("mark") /\ UNCHANGED <<todo, back, owned, seedLoop>>
    /\ UNCHANGED disk

MarkExecution ==
    /\ pc = "mark"
    /\ marker' = marker \cup {"EXECUTION"}
    /\ GoTo("publish") /\ todo' = Recipes /\ back' = "publish"
    /\ UNCHANGED <<evidence, reference, smokeRuns, anchorRuns, gate, owned, seedLoop>>

\* _generate_campaign_report: what has passed is taken as it is.
Publish ==
    /\ pc = "publish" /\ todo # << >>
    /\ IF Passed(Current) THEN GoTo("publish") /\ NextExperiment
       ELSE GoTo("report") /\ UNCHANGED <<todo, owned, seedLoop>>
    /\ back' = "publish"
    /\ UNCHANGED disk

AllPublished ==
    /\ pc = "publish" /\ todo = << >>
    /\ IF kind = "campaign" /\ MandatoryPassed
       THEN marker' = marker \cup {"PUBLICATION"} ELSE UNCHANGED marker
    /\ End(IF kind = "campaign" /\ ~MandatoryPassed THEN "not_passed" ELSE "completed")
    /\ UNCHANGED <<evidence, reference, smokeRuns, anchorRuns, gate>>

----------------------------------------------------------------------------
(* run_smoke, below the outputs root, and the anchor.                      *)

Whole == todo = Recipes

SmokeClears ==
    /\ pc = "smoke_clear"
    /\ smokeRuns' = IF overwrite THEN [e \in Executing |-> "none"] ELSE smokeRuns
    /\ anchorRuns' = IF overwrite THEN anchorRuns \ {"smoke"} ELSE anchorRuns
    /\ GoTo(IF Whole THEN "smoke_anchor" ELSE "smoke")
    /\ UNCHANGED <<evidence, reference, gate, marker, todo, back, owned, seedLoop>>

\* Declared errors of the anchor are noted and passed over, others are not.
SmokeAnchor ==
    /\ pc = "smoke_anchor"
    /\ IF "smoke" \in anchorRuns
       THEN End("exists") /\ UNCHANGED disk
       ELSE /\ anchorRuns' \in {anchorRuns, anchorRuns \cup {"smoke"}}
            /\ \/ GoTo("smoke") /\ UNCHANGED <<todo, back, owned, seedLoop>>
               \/ End("failed")
            /\ UNCHANGED <<evidence, reference, smokeRuns, gate, marker>>

SmokeRefusal ==
    IF Current \notin Executing THEN "mode"
    ELSE IF Current \in KeywordOnly THEN "type"
    ELSE IF smokeRuns[Current] # "none" THEN "exists"
    ELSE "none"

SmokeRefuses ==
    /\ pc = "smoke" /\ todo # << >> /\ SmokeRefusal # "none"
    /\ End(SmokeRefusal) /\ UNCHANGED disk

SmokeDispatches ==
    /\ pc = "smoke" /\ todo # << >> /\ SmokeRefusal = "none"
    /\ \/ /\ GoTo("smoke") /\ NextExperiment /\ UNCHANGED back
          /\ smokeRuns' = [smokeRuns EXCEPT ![Current] = "done"]
       \/ /\ End("failed")
          /\ \E left \in Runs : smokeRuns' = [smokeRuns EXCEPT ![Current] = left]
    /\ UNCHANGED <<evidence, reference, anchorRuns, gate, marker>>

SmokeOver == pc = "smoke" /\ todo = << >> /\ End("completed") /\ UNCHANGED disk

\* reproduce_anchor: --overwrite removes the diagnostics, with the gate.
AnchorClears ==
    /\ pc = "anchor"
    /\ gate' = (gate /\ ~overwrite)
    /\ GoTo("anchor_seeds")
    /\ UNCHANGED <<evidence, reference, smokeRuns, anchorRuns, marker, todo, back,
                   owned, seedLoop>>

AnchorExecutes ==
    /\ pc = "anchor_seeds"
    /\ IF ~overwrite /\ "full" \in anchorRuns
       THEN End("exists") /\ UNCHANGED anchorRuns
       ELSE /\ anchorRuns' = anchorRuns \cup {"full"}
            /\ \/ GoTo("verify") /\ UNCHANGED <<todo, back, owned, seedLoop>>
               \/ End("failed")
    /\ UNCHANGED <<evidence, reference, smokeRuns, gate, marker>>

\* verify_anchor: without observations the gate cannot open.
AnchorDecides ==
    /\ pc = "verify"
    /\ gate' \in {FALSE, "full" \in anchorRuns}
    /\ End("completed")
    /\ UNCHANGED <<evidence, reference, smokeRuns, anchorRuns, marker>>

----------------------------------------------------------------------------
Start == RunExperiment \/ RunCampaign \/ Report \/ ReportAll \/ Smoke
            \/ AnchorReproduce \/ AnchorVerify

Work ==
    \/ EnforceAnchorGate \/ SkipPassed \/ Dispatch
    \/ PurgeRun \/ PurgeAnalysis \/ PurgePathDone
    \/ Seed \/ SeedsOver
    \/ ReportBegins \/ ReportReads \/ ReportWrites \/ ReportMisses \/ ReportFails
    \/ ReportOver
    \/ ReferenceClears \/ ReferenceRefused \/ ReferenceWrites \/ ReferenceFails \/ ReferenceDone
    \/ AllDispatched \/ RequireComplete \/ MarkExecution \/ Publish \/ AllPublished
    \/ SmokeClears \/ SmokeAnchor \/ SmokeRefuses \/ SmokeDispatches \/ SmokeOver
    \/ AnchorClears \/ AnchorExecutes \/ AnchorDecides

Next == Start \/ Work \/ Kill

Spec == Init /\ [][Next]_vars

\* A command goes on as long as it is not killed.
FairSpec == Spec /\ WF_vars(Work)

----------------------------------------------------------------------------
(* Properties.                                                             *)

Executed == \A e \in Executing : SeedsDone(e) = Seeds
WholeEvidence == Executed /\ \A e \in Mandatory : Passed(e) /\ basis[e] = Seeds

\* A marker of the campaign is written only while every planned run is on disk
\* and every mandatory experiment passes on an analysis of all seeds; the
\* publication marker only after the execution marker.  run_campaign checks the
\* runs and the analyses separately, neither against the other.
MarkersCertify ==
    [][(pc = "mark" /\ pc' = "publish") \/ marker' # marker
        => WholeEvidence /\ "EXECUTION" \in marker']_vars

\* What a command does to runs and analyses, it does to the experiment it is
\* dealing with: purging or reporting one never takes evidence of another,
\* although analyses of several lie inside one directory.
OverwriteSparesOthers ==
    [][\A e \in Experiments :
        \/ todo # << >> /\ e = Current
        \/ /\ analysis'[e] = analysis[e] /\ basis'[e] = basis[e]
           /\ e \in Executing => runs'[e] = runs[e]]_vars

\* Without --overwrite no command but its own report touches an experiment that
\* has passed: neither a campaign that fails at another one, nor a smoke run,
\* nor the report of the whole campaign (README: "A passed experiment is not
\* rerun unless --overwrite is given").
PassedKept ==
    [][\A e \in Experiments :
        Passed(e) /\ ~overwrite /\ kind # "report"
            => /\ analysis'[e] = analysis[e] /\ basis'[e] = basis[e]
               /\ e \in Executing => runs'[e] = runs[e]]_vars

\* An experiment reported as completed by run experiment passes on runs and an
\* analysis of its whole cohort, whatever earlier commands have left behind.
CompletedMeansWhole ==
    [][kind = "experiment" /\ pc = "reported" /\ pc' = "dispatch"
        => /\ Passed(Current) /\ basis[Current] = Seeds
           /\ Documents(Current) = Seeds]_vars

\* No state of the outputs is beyond repair: torn purges and half-written
\* analyses notwithstanding, an experiment with --overwrite that meets no failure
\* ends well, if the reference and the runs of other experiments its report needs
\* are there; and a campaign with --overwrite gets as far as its check for
\* completeness, if every report finds the runs it needs of experiments that the
\* campaign dispatches after it.
OverwriteHeals ==
    /\ (/\ overwrite /\ kind = "experiment" /\ pc = "dispatch" /\ todo # << >>
        /\ Current \in Executing \ KeywordOnly
        /\ Current \in NeedsReference => reference = "done"
        /\ \A e \in Reads[Current] \ {Current} : SeedsDone(e) = Seeds)
       ~> outcome \in {"completed", "failed", "killed"}
    /\ (/\ overwrite /\ pc = "reference" /\ KeywordOnly = {}
        /\ \A i \in DOMAIN Recipes : \A e \in Reads[Recipes[i]] :
              SeedsDone(e) = Seeds \/ \E j \in 1..i : Recipes[j] = e)
       ~> outcome \in {"completed", "incomplete", "failed", "killed"}
=============================================================================
