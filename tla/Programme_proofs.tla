-------------------------- MODULE Programme_proofs --------------------------
(***************************************************************************)
(* For every registry of recipes and every sequence of commands, killed    *)
(* anywhere: what a command may touch, and what its answers certify.  The  *)
(* argument has two parts.  A command works on the experiment at the head  *)
(* of its list and on no other; and it never runs seeds of an experiment   *)
(* whose analysis is valid, so that an analysis of fewer seeds than there  *)
(* are can only be replaced together with its runs (Based).                *)
(***************************************************************************)
EXTENDS Programme, TLAPS

\* The kinds of commands that reach each stage, and what a command holds there.
Placed ==
    /\ pc \in Dealing => todo # << >>
    /\ pc # "seeds" => started = {} /\ handled = {} /\ raised = {}
    /\ pc \in {"dispatch", "purge", "seeds"} => back = "dispatch"
    /\ pc \in Reporting => back \in {"dispatch", "publish"}

\* A purge runs under --overwrite, and what it owes the analysis is still before
\* it; seeds run, and reports of other commands than report itself write, only
\* where no valid analysis is.
Fresh ==
    /\ pc = "purge" =>
         /\ overwrite
         /\ analysis[Current] # "absent" => "analysis" \in ToSet(owned)
    /\ pc = "seeds" => ~Passed(Current)
    /\ kind # "report" /\ pc \in {"report", "read", "write"} => ~Passed(Current)

\* A dispatch that reports has all runs of its experiment, and one that has read
\* what its report reads has an analysis of all.
Ran ==
    /\ pc = "seeds" /\ raised = {} /\ Current \in Executing
         => handled \subseteq SeedsDone(Current)
    /\ kind # "report" /\ back = "dispatch" /\ pc \in {"report", "read"}
            /\ Current \in Executing
         => SeedsDone(Current) = Seeds
    /\ kind # "report" /\ back = "dispatch" /\ pc \in {"write", "reported"}
         => basis[Current] = Seeds /\ Documents(Current) = Seeds

\* A valid analysis is of all seeds if all have run, or if its report insists.
Based ==
    /\ \A e \in Executing : Passed(e) /\ SeedsDone(e) = Seeds => basis[e] = Seeds
    /\ \A e \in Experiments \ Tolerant : Passed(e) => basis[e] = Seeds
    /\ pc = "write" =>
         /\ basis[Current] = Documents(Current)
         /\ Current \notin Tolerant => basis[Current] = Seeds

IInv == TypeOK /\ Placed /\ Fresh /\ Ran /\ Based

\* No smoke run lies under the outputs root.
Unsmoked ==
    /\ \A e \in Executing : smokeRuns[e] = "none"
    /\ pc \notin {"smoke_clear", "smoke_anchor", "smoke"}

\* What the completeness check has seen stays true while the campaign publishes.
Certified ==
    /\ pc = "mark" => WholeEvidence
    /\ kind = "campaign" /\ (pc = "publish" \/ (pc \in Reporting /\ back = "publish"))
         => Executed /\ "EXECUTION" \in marker

----------------------------------------------------------------------------
(* Types.                                                                  *)

DiskTypes ==
    /\ runs \in [Executing -> [Seeds -> Runs]]
    /\ analysis \in [Experiments -> Analyses]
    /\ basis \in [Experiments -> SUBSET Seeds]
    /\ reference \in {"absent", "torn", "done"}
    /\ smokeRuns \in [Executing -> Runs]
    /\ anchorRuns \subseteq {"full", "smoke"}
    /\ gate \in BOOLEAN
    /\ marker \subseteq Markers

CommandTypes ==
    /\ kind \in Commands \cup {"none"}
    /\ overwrite \in BOOLEAN
    /\ todo \in Seq(Experiments)
    /\ pc \in Stages
    /\ back \in {"none", "dispatch", "publish"}
    /\ owned \in Seq({"runs", "analysis"})
    /\ handled \subseteq Seeds /\ started \subseteq Seeds
    /\ raised \subseteq Refusals
    /\ outcome \in Outcomes

LEMMA TypesAre ==
    /\ TypeOK <=> DiskTypes /\ CommandTypes
    /\ TypeOK' <=> DiskTypes' /\ CommandTypes'
BY DEF TypeOK, DiskTypes, CommandTypes

LEMMA DiskKept == DiskTypes /\ UNCHANGED disk => DiskTypes'
BY DEF DiskTypes, disk, evidence

\* The experiment at hand is one of the registry, and so are those after it.
LEMMA CurrentIs ==
    ASSUME CommandTypes, todo # << >>
    PROVE  Current \in Experiments /\ Tail(todo) \in Seq(Experiments)
BY DEF CommandTypes, Current

\* A command that ends leaves nothing behind it but the disk.
LEMMA EndTyped ==
    ASSUME NEW how \in Outcomes, End(how)
    PROVE  CommandTypes'
<1>1. << >> \in Seq(Experiments) /\ << >> \in Seq({"runs", "analysis"})
  OBVIOUS
<1> QED BY <1>1 DEF End, CommandTypes, Stages

\* A command that goes on with the experiments it has, or with the next.
LEMMA GoOnTyped ==
    ASSUME CommandTypes, NEW at \in Stages, GoTo(at),
           back' \in {"none", "dispatch", "publish"},
           UNCHANGED owned, UNCHANGED seedLoop,
           todo' = todo \/ (todo # << >> /\ todo' = Tail(todo))
    PROVE  CommandTypes'
<1>1. todo' \in Seq(Experiments)
  BY CurrentIs DEF CommandTypes
<1> QED BY <1>1 DEF GoTo, CommandTypes, seedLoop

LEMMA BeginTyped ==
    ASSUME CommandTypes, NEW k, NEW o \in BOOLEAN, NEW targets \in Seq(Experiments),
           NEW at \in Stages, Begin(k, o, targets, at)
    PROVE  CommandTypes'
BY DEF Begin, CommandTypes, seedLoop, Outcomes

\* Beginning a command.
LEMMA StartTyped == ASSUME TypeOK, Start PROVE TypeOK'
<1> USE TypesAre
<1>0. UNCHANGED disk
  BY DEF Start, RunExperiment, RunCampaign, Report, ReportAll, Smoke,
     AnchorReproduce, AnchorVerify, Begin
<1> SUFFICES CommandTypes'
  BY <1>0, DiskKept
<1>1. /\ Recipes \in Seq(Experiments) /\ << >> \in Seq(Experiments)
      /\ \A e \in Experiments : <<e>> \in Seq(Experiments)
  BY ProgrammeAssumption
<1>2. {"gate", "reference", "publish", "smoke_clear", "anchor", "verify"} \subseteq Stages
  BY DEF Stages, Dealing
<1>3. CASE RunExperiment
  <2> PICK e \in Experiments, o \in BOOLEAN : Begin("experiment", o, <<e>>, "gate")
    BY <1>3 DEF RunExperiment
  <2> QED BY <1>1, <1>2, BeginTyped
<1>4. CASE RunCampaign
  <2> PICK o \in BOOLEAN : Begin("campaign", o, Recipes, "reference")
    BY <1>4 DEF RunCampaign
  <2> QED BY <1>1, <1>2, BeginTyped
<1>5. CASE Report
  <2> PICK e \in Experiments : Begin("report", FALSE, <<e>>, "gate")
    BY <1>5 DEF Report
  <2> QED BY <1>1, <1>2, BeginTyped
<1>6. CASE ReportAll
  BY <1>1, <1>2, <1>6, BeginTyped DEF ReportAll
<1>7. CASE Smoke
  <2> PICK o \in BOOLEAN, targets \in SmokeTargets : Begin("smoke", o, targets, "smoke_clear")
    BY <1>7 DEF Smoke
  <2>1. targets = Recipes \/ \E e \in Experiments : targets = <<e>>
    BY ProgrammeAssumption
  <2>2. targets \in Seq(Experiments)
    BY <1>1, <2>1
  <2> QED BY <1>2, <2>2, BeginTyped
<1>8. CASE AnchorReproduce
  <2> PICK o \in BOOLEAN : Begin("anchor", o, << >>, "anchor")
    BY <1>8 DEF AnchorReproduce
  <2> QED BY <1>1, <1>2, BeginTyped
<1>9. CASE AnchorVerify
  BY <1>1, <1>2, <1>9, BeginTyped DEF AnchorVerify
<1> QED BY <1>3, <1>4, <1>5, <1>6, <1>7, <1>8, <1>9 DEF Start

\* Dispatching an experiment and purging it.
LEMMA DispatchTyped ==
    ASSUME TypeOK, Placed,
           \/ EnforceAnchorGate \/ SkipPassed \/ Dispatch
           \/ PurgeRun \/ PurgeAnalysis \/ PurgePathDone
    PROVE  TypeOK'
<1> USE TypesAre
<1>0. /\ {"gate", "already_passed"} \subseteq Outcomes
      /\ {"report", "dispatch", "purge", "seeds"} \subseteq Stages
  BY DEF Outcomes, Refusals, Stages, Dealing, Reporting
<1>1. CASE EnforceAnchorGate
  BY <1>0, <1>1, DiskKept, EndTyped, GoOnTyped DEF EnforceAnchorGate
<1>2. CASE SkipPassed
  BY <1>0, <1>2, DiskKept, EndTyped, GoOnTyped DEF SkipPassed, NextExperiment, CommandTypes
<1>3. CASE Dispatch
  <2>1. UNCHANGED disk
    BY <1>3 DEF Dispatch
  <2>2. owned' \in Seq({"runs", "analysis"})
    BY <1>3, CurrentIs, ProgrammeAssumption DEF Dispatch
  <2>3. CommandTypes'
    BY <1>0, <1>3, <2>2 DEF Dispatch, CommandTypes, GoTo, seedLoop
  <2> QED BY <2>1, <2>3, DiskKept
<1>4. CASE PurgeRun
  <2>1. UNCHANGED command
    BY <1>4 DEF PurgeRun
  <2>2. PICK s \in Seeds, left \in {"none", "begun"} :
             runs' = [runs EXCEPT ![Current][s] = left]
    BY <1>4 DEF PurgeRun
  <2>3. runs' \in [Executing -> [Seeds -> Runs]]
    BY <2>2 DEF DiskTypes, Runs
  <2> QED BY <1>4, <2>1, <2>3 DEF PurgeRun, DiskTypes, CommandTypes, command, seedLoop
<1>5. CASE PurgeAnalysis
  <2>1. UNCHANGED command
    BY <1>5 DEF PurgeAnalysis
  <2>2. analysis' \in [Experiments -> Analyses] /\ basis' \in [Experiments -> SUBSET Seeds]
    BY <1>5 DEF PurgeAnalysis, DiskTypes, Analyses
  <2> QED BY <1>5, <2>1, <2>2 DEF PurgeAnalysis, DiskTypes, CommandTypes, command, seedLoop
<1>6. CASE PurgePathDone
  <2>1. UNCHANGED disk
    BY <1>6 DEF PurgePathDone
  <2>2. owned' \in Seq({"runs", "analysis"})
    BY <1>6 DEF PurgePathDone, CommandTypes
  <2>3. CommandTypes'
    BY <1>0, <1>6, <2>2 DEF PurgePathDone, CommandTypes, GoTo, seedLoop
  <2> QED BY <2>1, <2>3, DiskKept
<1> QED BY <1>1, <1>2, <1>3, <1>4, <1>5, <1>6

\* The seeds of one experiment.
LEMMA SeedsTyped ==
    ASSUME TypeOK, Placed, Seed \/ SeedsOver
    PROVE  TypeOK'
<1> USE TypesAre
<1>1. CASE Seed
  <2>1. /\ UNCHANGED <<analysis, basis, reference, smokeRuns, anchorRuns, gate, marker>>
        /\ UNCHANGED <<kind, overwrite, todo, pc, back, owned, outcome>>
    BY <1>1 DEF Seed, SeedBegins, SeedWrites, SeedEnds, SeedRefused, SeedFails,
       SeedRaises, SeedStep, seedLoop
  <2>2. PICK s \in Seeds :
             \/ SeedBegins(s) \/ SeedWrites(s) \/ SeedEnds(s)
             \/ SeedRefused(s) \/ SeedFails(s)
    BY <1>1 DEF Seed, Left
  <2>3. \/ UNCHANGED runs
        \/ \E new \in Runs : runs' = [runs EXCEPT ![Current][s] = new]
    BY <2>2 DEF SeedBegins, SeedWrites, SeedEnds, SeedRefused, SeedFails, SeedRaises, Runs
  <2>4. runs' \in [Executing -> [Seeds -> Runs]]
    <3>1. CASE UNCHANGED runs
      BY <3>1 DEF DiskTypes
    <3>2. ASSUME NEW new \in Runs, runs' = [runs EXCEPT ![Current][s] = new]
          PROVE  runs' \in [Executing -> [Seeds -> Runs]]
      BY <3>2 DEF DiskTypes
    <3> QED BY <2>3, <3>1, <3>2
  <2>5. started' \subseteq Seeds /\ handled' \subseteq Seeds
    BY <2>2 DEF CommandTypes, SeedBegins, SeedWrites, SeedEnds, SeedRefused,
       SeedFails, SeedRaises, seedLoop
  <2>6. raised' \subseteq Refusals
    BY <2>2 DEF CommandTypes, SeedBegins, SeedWrites, SeedEnds, SeedRefused,
       SeedFails, SeedRaises, SeedRefusal, Refusals, seedLoop
  <2> QED BY <2>1, <2>4, <2>5, <2>6 DEF DiskTypes, CommandTypes
<1>2. CASE SeedsOver
  <2>1. UNCHANGED disk
    BY <1>2 DEF SeedsOver
  <2>2. ASSUME NEW why \in raised, End(why) PROVE CommandTypes'
    <3>1. why \in Outcomes
      BY <2>2 DEF CommandTypes, Outcomes
    <3> QED BY <2>2, <3>1, EndTyped
  <2>3. ASSUME GoTo("report"), started' = {}, handled' = {}, raised' = {},
               UNCHANGED <<todo, back, owned>>
        PROVE  CommandTypes'
    BY <2>3 DEF GoTo, CommandTypes, Stages, Dealing, Reporting
  <2> QED BY <1>2, <2>1, <2>2, <2>3, DiskKept DEF SeedsOver
<1> QED BY <1>1, <1>2

\* Reporting one experiment.
LEMMA ReportTyped ==
    ASSUME TypeOK, Placed,
           \/ ReportBegins \/ ReportReads \/ ReportWrites \/ ReportMisses
           \/ ReportFails \/ ReportOver
    PROVE  TypeOK'
<1> USE TypesAre
<1>0. /\ {"missing", "failed", "not_passed"} \subseteq Outcomes
      /\ {"read", "write", "reported", "dispatch", "publish"} \subseteq Stages
  BY DEF Outcomes, Refusals, Stages, Dealing, Reporting
<1>1. CASE ReportBegins
  <2>1. analysis' \in [Experiments -> Analyses] /\ basis' \in [Experiments -> SUBSET Seeds]
    BY <1>1 DEF ReportBegins, DiskTypes, Analyses
  <2>2. CommandTypes'
    BY <1>0, <1>1, GoOnTyped DEF ReportBegins, CommandTypes
  <2> QED BY <1>1, <2>1, <2>2 DEF ReportBegins, DiskTypes
<1>2. CASE ReportReads
  <2>1. Documents(Current) \subseteq Seeds
    BY DEF Documents, SeedsDone
  <2>2. analysis' \in [Experiments -> Analyses] /\ basis' \in [Experiments -> SUBSET Seeds]
    BY <1>2, <2>1 DEF ReportReads, DiskTypes, Analyses
  <2>3. CommandTypes'
    BY <1>0, <1>2, GoOnTyped DEF ReportReads, CommandTypes
  <2> QED BY <1>2, <2>2, <2>3 DEF ReportReads, DiskTypes
<1>3. CASE ReportWrites
  <2>1. analysis' \in [Experiments -> Analyses]
    BY <1>3 DEF ReportWrites, DiskTypes, Analyses
  <2>2. CommandTypes'
    BY <1>0, <1>3, GoOnTyped DEF ReportWrites, CommandTypes
  <2> QED BY <1>3, <2>1, <2>2 DEF ReportWrites, DiskTypes
<1>4. ASSUME NEW why \in {"missing", "failed"}, ReportRaises(why), todo # << >>
      PROVE  TypeOK'
  BY <1>0, <1>4, DiskKept, EndTyped, GoOnTyped DEF ReportRaises, NextExperiment, CommandTypes
<1>5. CASE ReportMisses
  BY <1>4, <1>5 DEF ReportMisses, Placed, Dealing, Reporting
<1>6. CASE ReportFails
  BY <1>4, <1>6 DEF ReportFails, Placed, Dealing, Reporting
<1>7. CASE ReportOver
  <2>1. todo # << >> /\ back \in {"dispatch", "publish"}
    BY <1>7 DEF ReportOver, Placed, Dealing, Reporting
  <2> QED BY <1>0, <1>7, <2>1, DiskKept, EndTyped, GoOnTyped
          DEF ReportOver, NextExperiment, CommandTypes
<1> QED BY <1>1, <1>2, <1>3, <1>5, <1>6, <1>7

\* The campaign around its experiments.
LEMMA CampaignTyped ==
    ASSUME TypeOK, Placed,
           \/ ReferenceClears \/ ReferenceRefused \/ ReferenceWrites
           \/ ReferenceFails \/ ReferenceDone
           \/ AllDispatched \/ RequireComplete \/ MarkExecution
           \/ Publish \/ AllPublished
    PROVE  TypeOK'
<1> USE TypesAre
<1>0. /\ {"exists", "failed", "completed", "incomplete", "not_passed"} \subseteq Outcomes
      /\ {"reference_seeds", "dispatch", "complete", "mark", "publish", "report"}
             \subseteq Stages
  BY DEF Outcomes, Refusals, Stages, Dealing, Reporting
<1>1. CASE ReferenceClears
  <2>1. reference' \in {"absent", "torn", "done"}
    BY <1>1 DEF ReferenceClears, DiskTypes
  <2>2. CommandTypes'
    BY <1>0, <1>1, GoOnTyped DEF ReferenceClears, CommandTypes
  <2> QED BY <1>1, <2>1, <2>2 DEF ReferenceClears, DiskTypes, evidence
<1>2. CASE ReferenceRefused
  BY <1>0, <1>2, DiskKept, EndTyped DEF ReferenceRefused
<1>3. CASE ReferenceWrites
  BY <1>3 DEF ReferenceWrites, DiskTypes, CommandTypes, evidence, command, seedLoop
<1>4. CASE ReferenceFails
  BY <1>0, <1>4, DiskKept, EndTyped DEF ReferenceFails
<1>5. CASE ReferenceDone
  BY <1>0, <1>5, DiskKept, GoOnTyped DEF ReferenceDone
<1>6. CASE AllDispatched
  BY <1>0, <1>6, DiskKept, EndTyped, GoOnTyped DEF AllDispatched, CommandTypes
<1>7. CASE RequireComplete
  BY <1>0, <1>7, DiskKept, EndTyped, GoOnTyped DEF RequireComplete, CommandTypes
<1>8. CASE MarkExecution
  <2>1. marker' \subseteq Markers
    BY <1>8 DEF MarkExecution, DiskTypes, Markers
  <2>2. CommandTypes'
    BY <1>0, <1>8, ProgrammeAssumption DEF MarkExecution, GoTo, CommandTypes, seedLoop
  <2> QED BY <1>8, <2>1, <2>2 DEF MarkExecution, DiskTypes, evidence
<1>9. CASE Publish
  BY <1>0, <1>9, DiskKept, GoOnTyped DEF Publish, NextExperiment
<1>10. CASE AllPublished
  <2>1. marker' \subseteq Markers
    BY <1>10 DEF AllPublished, DiskTypes, Markers
  <2>2. CommandTypes'
    BY <1>0, <1>10, EndTyped DEF AllPublished
  <2> QED BY <1>10, <2>1, <2>2 DEF AllPublished, DiskTypes, evidence
<1> QED BY <1>1, <1>2, <1>3, <1>4, <1>5, <1>6, <1>7, <1>8, <1>9, <1>10

\* Smoke runs and the anchor.
LEMMA SmokeTyped ==
    ASSUME TypeOK, Placed,
           \/ SmokeClears \/ SmokeAnchor \/ SmokeRefuses \/ SmokeDispatches \/ SmokeOver
           \/ AnchorClears \/ AnchorExecutes \/ AnchorDecides
    PROVE  TypeOK'
<1> USE TypesAre
<1>0. /\ {"exists", "failed", "completed", "mode", "type"} \subseteq Outcomes
      /\ {"smoke_anchor", "smoke", "anchor_seeds", "verify"} \subseteq Stages
  BY DEF Outcomes, Refusals, Stages
<1>1. CASE SmokeClears
  <2>1. smokeRuns' \in [Executing -> Runs] /\ anchorRuns' \subseteq {"full", "smoke"}
    BY <1>1 DEF SmokeClears, DiskTypes, Runs
  <2>2. CommandTypes'
    BY <1>0, <1>1, GoOnTyped DEF SmokeClears, CommandTypes
  <2> QED BY <1>1, <2>1, <2>2 DEF SmokeClears, DiskTypes, evidence
<1>2. CASE SmokeAnchor
  <2>1. DiskTypes'
    BY <1>2 DEF SmokeAnchor, DiskTypes, disk, evidence
  <2>2. CommandTypes'
    BY <1>0, <1>2, EndTyped, GoOnTyped DEF SmokeAnchor, CommandTypes
  <2> QED BY <2>1, <2>2
<1>3. CASE SmokeRefuses
  <2>1. SmokeRefusal \in Outcomes
    BY <1>0, <1>3 DEF SmokeRefuses, SmokeRefusal
  <2> QED BY <1>3, <2>1, DiskKept, EndTyped DEF SmokeRefuses
<1>4. CASE SmokeDispatches
  <2>1. smokeRuns' \in [Executing -> Runs]
    BY <1>4 DEF SmokeDispatches, DiskTypes, Runs
  <2>2. CommandTypes'
    BY <1>0, <1>4, EndTyped, GoOnTyped DEF SmokeDispatches, NextExperiment, CommandTypes
  <2> QED BY <1>4, <2>1, <2>2 DEF SmokeDispatches, DiskTypes, evidence
<1>5. CASE SmokeOver
  BY <1>0, <1>5, DiskKept, EndTyped DEF SmokeOver
<1>6. CASE AnchorClears
  <2>1. DiskTypes'
    BY <1>6 DEF AnchorClears, DiskTypes, evidence
  <2>2. CommandTypes'
    BY <1>0, <1>6, GoOnTyped DEF AnchorClears, CommandTypes
  <2> QED BY <2>1, <2>2
<1>7. CASE AnchorExecutes
  <2>1. DiskTypes'
    BY <1>7 DEF AnchorExecutes, DiskTypes, evidence
  <2>2. CommandTypes'
    BY <1>0, <1>7, EndTyped, GoOnTyped DEF AnchorExecutes, CommandTypes
  <2> QED BY <2>1, <2>2
<1>8. CASE AnchorDecides
  <2>0. gate' = FALSE \/ gate' = ("full" \in anchorRuns)
    BY <1>8 DEF AnchorDecides
  <2>1. DiskTypes'
    <3>1. gate' \in BOOLEAN
      BY <2>0, ("full" \in anchorRuns) \in BOOLEAN
    <3> QED BY <1>8, <3>1 DEF AnchorDecides, DiskTypes, evidence
  <2>2. CommandTypes'
    BY <1>0, <1>8, EndTyped DEF AnchorDecides
  <2> QED BY <2>1, <2>2
<1> QED BY <1>1, <1>2, <1>3, <1>4, <1>5, <1>6, <1>7, <1>8

----------------------------------------------------------------------------
(* The invariant.                                                          *)

\* What is read from runs and analyses stays while they stay.
LEMMA SameEvidence ==
    ASSUME UNCHANGED evidence
    PROVE  \A e : /\ Passed(e)' = Passed(e)
                  /\ SeedsDone(e)' = SeedsDone(e)
                  /\ Documents(e)' = Documents(e)
                  /\ basis'[e] = basis[e]
BY DEF evidence, Passed, SeedsDone, Documents

\* A step that leaves runs and analyses alone and comes out where no experiment
\* is dealt with.
LEMMA ElsewhereKeeps ==
    ASSUME IInv, TypeOK', UNCHANGED evidence, pc' \notin Dealing,
           started' = {} /\ handled' = {} /\ raised' = {},
           pc' = "dispatch" => back' = "dispatch"
    PROVE  IInv'
<1>1. /\ pc' \notin {"purge", "seeds", "gate"}
      /\ pc' \notin {"report", "read", "write", "reported"}
  BY DEF Dealing, Reporting
<1>2. Placed'
  BY <1>1 DEF Placed, Dealing, Reporting
<1>3. Fresh' /\ Ran'
  BY <1>1 DEF Fresh, Ran
<1>4. Based'
  BY <1>1, SameEvidence DEF IInv, Based
<1> QED BY <1>2, <1>3, <1>4 DEF IInv

LEMMA EndKeeps ==
    ASSUME IInv, TypeOK', UNCHANGED evidence, NEW how, End(how)
    PROVE  IInv'
BY ElsewhereKeeps DEF End, Dealing, Reporting

\* A step that goes on, with the same experiments or the next, to where no
\* experiment is dealt with.
LEMMA GoOnKeeps ==
    ASSUME IInv, TypeOK', UNCHANGED evidence, pc # "seeds", UNCHANGED seedLoop,
           NEW at \in Stages \ Dealing, GoTo(at), at = "dispatch" => back' = "dispatch"
    PROVE  IInv'
<1>1. started' = {} /\ handled' = {} /\ raised' = {}
  BY DEF IInv, Placed, seedLoop
<1> QED BY <1>1, ElsewhereKeeps DEF GoTo

LEMMA StartKeeps == ASSUME IInv, Start PROVE IInv'
<1>1. TypeOK'
  BY StartTyped DEF IInv
<1>2. pc = "idle" /\ UNCHANGED disk /\ UNCHANGED <<back, owned, seedLoop>>
  BY DEF Start, RunExperiment, RunCampaign, Report, ReportAll, Smoke,
     AnchorReproduce, AnchorVerify, Begin
<1>3. started' = {} /\ handled' = {} /\ raised' = {}
  BY <1>2 DEF IInv, Placed, seedLoop
<1>4. UNCHANGED evidence
  BY <1>2 DEF disk
<1>5. CASE RunExperiment \/ Report
  <2>1. pc' = "gate" /\ todo' # << >>
    BY <1>5 DEF RunExperiment, Report, Begin
  <2>2. Placed' /\ Fresh' /\ Ran'
    BY <1>3, <2>1 DEF Placed, Fresh, Ran, Reporting
  <2>3. Based'
    BY <1>4, <2>1, SameEvidence DEF IInv, Based
  <2> QED BY <1>1, <2>2, <2>3 DEF IInv
<1>6. CASE RunCampaign \/ ReportAll \/ Smoke \/ AnchorReproduce \/ AnchorVerify
  <2>1. pc' \in {"reference", "publish", "smoke_clear", "anchor", "verify"}
    BY <1>6 DEF RunCampaign, ReportAll, Smoke, AnchorReproduce, AnchorVerify, Begin
  <2> QED BY <1>1, <1>3, <1>4, <2>1, ElsewhereKeeps DEF Dealing, Reporting
<1> QED BY <1>5, <1>6 DEF Start

\* The smoke and anchor commands stay away from runs and analyses.
LEMMA SmokeKeeps ==
    ASSUME IInv,
           \/ SmokeClears \/ SmokeAnchor \/ SmokeRefuses \/ SmokeDispatches \/ SmokeOver
           \/ AnchorClears \/ AnchorExecutes \/ AnchorDecides
    PROVE  IInv'
<1>1. TypeOK' /\ UNCHANGED evidence
  BY SmokeTyped DEF IInv, SmokeClears, SmokeAnchor, SmokeRefuses, SmokeDispatches,
     SmokeOver, AnchorClears, AnchorExecutes, AnchorDecides, disk
<1>2. pc # "seeds"
  BY DEF SmokeClears, SmokeAnchor, SmokeRefuses, SmokeDispatches,
     SmokeOver, AnchorClears, AnchorExecutes, AnchorDecides
<1>3. \/ \E how \in Outcomes : End(how)
      \/ /\ UNCHANGED seedLoop
         /\ \E at \in {"smoke_anchor", "smoke", "anchor_seeds", "verify"} : GoTo(at)
  BY DEF SmokeClears, SmokeAnchor, SmokeRefuses, SmokeDispatches, SmokeOver,
     AnchorClears, AnchorExecutes, AnchorDecides, NextExperiment, SmokeRefusal,
     Outcomes, Refusals
<1>4. {"smoke_anchor", "smoke", "anchor_seeds", "verify"} \subseteq Stages \ Dealing
  BY DEF Stages, Dealing, Reporting
<1> QED BY <1>1, <1>2, <1>3, <1>4, EndKeeps, GoOnKeeps

LEMMA CampaignKeeps ==
    ASSUME IInv,
           \/ ReferenceClears \/ ReferenceRefused \/ ReferenceWrites
           \/ ReferenceFails \/ ReferenceDone
           \/ AllDispatched \/ RequireComplete \/ MarkExecution
           \/ Publish \/ AllPublished
    PROVE  IInv'
<1>1. TypeOK' /\ UNCHANGED evidence
  BY CampaignTyped DEF IInv, ReferenceClears, ReferenceRefused, ReferenceWrites,
     ReferenceFails, ReferenceDone, AllDispatched, RequireComplete, MarkExecution,
     Publish, AllPublished, disk
<1>2. pc \in {"reference", "reference_seeds", "dispatch", "complete", "mark", "publish"}
  BY DEF ReferenceClears, ReferenceRefused, ReferenceWrites,
     ReferenceFails, ReferenceDone, AllDispatched, RequireComplete, MarkExecution,
     Publish, AllPublished
<1>3. {"reference_seeds", "dispatch", "complete", "mark", "publish"} \subseteq Stages \ Dealing
  BY DEF Stages, Dealing, Reporting
<1>4. CASE \E how \in Outcomes : End(how)
  BY <1>1, <1>4, EndKeeps
<1>5. CASE UNCHANGED seedLoop /\ \E at \in {"reference_seeds", "complete", "mark", "publish"} : GoTo(at)
  BY <1>1, <1>2, <1>3, <1>5, GoOnKeeps
<1>6. CASE ReferenceDone
  BY <1>1, <1>2, <1>3, <1>6, GoOnKeeps DEF ReferenceDone
<1>7. CASE ReferenceWrites
  <2>1. started = {} /\ handled = {} /\ raised = {} /\ pc = "reference_seeds"
    BY <1>7 DEF ReferenceWrites, IInv, Placed
  <2> QED BY <1>1, <1>7, <2>1, ElsewhereKeeps
          DEF ReferenceWrites, command, seedLoop, Dealing, Reporting
<1>8. CASE Publish /\ ~Passed(Current)
  <2>1. /\ pc' = "report" /\ back' = "publish" /\ todo # << >>
        /\ UNCHANGED <<kind, todo, seedLoop>>
    BY <1>8 DEF Publish, GoTo
  <2>2. Placed'
    BY <1>2, <2>1 DEF IInv, Placed, seedLoop, Dealing, Reporting
  <2>3. Fresh' /\ Ran'
    BY <1>1, <1>8, <2>1, SameEvidence DEF Fresh, Ran, Current
  <2>4. Based'
    BY <1>1, <2>1, SameEvidence DEF IInv, Based
  <2> QED BY <1>1, <2>2, <2>3, <2>4 DEF IInv
<1>9. CASE Publish /\ Passed(Current)
  BY <1>5, <1>9 DEF Publish, NextExperiment
<1>10. CASE \/ ReferenceClears \/ ReferenceRefused \/ ReferenceFails \/ AllDispatched
            \/ RequireComplete \/ AllPublished
  BY <1>4, <1>5, <1>10 DEF ReferenceClears, ReferenceRefused, ReferenceFails,
     AllDispatched, RequireComplete, AllPublished, Outcomes, Refusals
<1>11. CASE MarkExecution
  BY <1>1, <1>2, <1>3, <1>11, ElsewhereKeeps
     DEF MarkExecution, IInv, Placed, GoTo, seedLoop
<1> QED BY <1>6, <1>7, <1>8, <1>9, <1>10, <1>11

\* Dispatching and purging: the analysis is gone before the seeds begin.
LEMMA DispatchKeeps ==
    ASSUME IInv,
           \/ EnforceAnchorGate \/ SkipPassed \/ Dispatch
           \/ PurgeRun \/ PurgeAnalysis \/ PurgePathDone
    PROVE  IInv'
<1>1. TypeOK'
  BY DispatchTyped DEF IInv
<1>2. CASE EnforceAnchorGate
  <2>1. UNCHANGED evidence /\ pc = "gate"
    BY <1>2 DEF EnforceAnchorGate, disk
  <2>2. CASE ~gate
    BY <1>1, <1>2, <2>1, <2>2, EndKeeps DEF EnforceAnchorGate
  <2>3. CASE gate /\ kind # "report"
    BY <1>1, <1>2, <2>1, <2>3, GoOnKeeps
       DEF EnforceAnchorGate, Stages, Dealing, Reporting
  <2>4. CASE gate /\ kind = "report"
    <3>1. /\ pc' = "report" /\ kind' = "report" /\ back' = "dispatch"
          /\ UNCHANGED <<todo, seedLoop>>
      BY <1>2, <2>4 DEF EnforceAnchorGate, GoTo
    <3>2. Placed' /\ Fresh' /\ Ran'
      BY <2>1, <3>1 DEF IInv, Placed, Fresh, Ran, seedLoop, Dealing, Reporting
    <3>3. Based'
      BY <2>1, <3>1, SameEvidence DEF IInv, Based
    <3> QED BY <1>1, <3>2, <3>3 DEF IInv
  <2> QED BY <2>2, <2>3, <2>4
<1>3. CASE SkipPassed
  <2>1. UNCHANGED evidence /\ pc = "dispatch" /\ back = "dispatch"
    BY <1>3 DEF SkipPassed, disk, IInv, Placed
  <2>2. CASE kind = "experiment"
    BY <1>1, <1>3, <2>1, <2>2, EndKeeps DEF SkipPassed
  <2>3. CASE kind # "experiment"
    BY <1>1, <1>3, <2>1, <2>3, GoOnKeeps
       DEF SkipPassed, NextExperiment, Stages, Dealing, Reporting
  <2> QED BY <2>2, <2>3
<1>4. CASE Dispatch
  <2>1. /\ UNCHANGED evidence /\ pc = "dispatch" /\ back = "dispatch" /\ todo # << >>
        /\ UNCHANGED <<kind, overwrite, todo, back, seedLoop>>
        /\ ~AlreadyPassed(Current)
        /\ pc' = IF overwrite THEN "purge" ELSE "seeds"
        /\ owned' = IF overwrite THEN OwnedPaths[Current] ELSE << >>
    BY <1>4 DEF Dispatch, GoTo, disk, IInv, Placed
  <2>2. Current' = Current /\ Current \in Experiments
    BY <2>1, TypesAre, CurrentIs DEF IInv, Current
  <2>3. Placed'
    BY <2>1 DEF IInv, Placed, Reporting, seedLoop
  <2>4. Fresh'
    BY <2>1, <2>2, SameEvidence, ProgrammeAssumption
       DEF Fresh, AlreadyPassed, CommandTypes, evidence
  <2>5. Ran'
    BY <2>1 DEF IInv, Placed, Ran, seedLoop
  <2>6. Based'
    BY <2>1, SameEvidence DEF IInv, Based
  <2> QED BY <1>1, <2>3, <2>4, <2>5, <2>6 DEF IInv
<1>5. CASE PurgeRun
  <2>1. /\ pc = "purge" /\ UNCHANGED <<analysis, basis>> /\ UNCHANGED command
        /\ todo # << >> /\ Current' = Current
    BY <1>5 DEF PurgeRun, IInv, Placed, Dealing, Current, command
  <2>2. \A e \in Executing : SeedsDone(e)' = Seeds => SeedsDone(e) = Seeds
    <3>1. PICK s \in Seeds, left \in {"none", "begun"} :
               runs' = [runs EXCEPT ![Current][s] = left]
      BY <1>5 DEF PurgeRun
    <3>2. runs \in [Executing -> [Seeds -> Runs]]
      BY DEF IInv, TypeOK
    <3>3. ASSUME NEW e \in Executing, NEW q \in Seeds, runs'[e][q] = "done"
          PROVE  runs[e][q] = "done"
      BY <3>1, <3>2, <3>3
    <3> QED BY <3>3 DEF SeedsDone
  <2>3. Placed' /\ Fresh' /\ Ran'
    BY <2>1 DEF IInv, Placed, Fresh, Ran, command, seedLoop, Passed
  <2>4. Based'
    BY <2>1, <2>2 DEF IInv, Based, Passed, command
  <2> QED BY <1>1, <2>3, <2>4 DEF IInv
<1>6. CASE PurgeAnalysis
  <2>1. /\ pc = "purge" /\ UNCHANGED runs /\ UNCHANGED command
        /\ todo # << >> /\ Current' = Current
        /\ owned # << >> /\ Head(owned) = "analysis"
    BY <1>6 DEF PurgeAnalysis, IInv, Placed, Dealing, Current, command
  <2>2. "analysis" \in ToSet(owned)
    BY <2>1 DEF ToSet, IInv, TypeOK
  <2>3. \A e \in Experiments :
           \/ analysis'[e] # "valid"
           \/ analysis'[e] = analysis[e] /\ basis'[e] = basis[e]
    BY <1>6 DEF PurgeAnalysis
  <2>4. \A e : SeedsDone(e)' = SeedsDone(e)
    BY <2>1 DEF SeedsDone
  <2>5. Placed' /\ Fresh' /\ Ran'
    BY <2>1, <2>2 DEF IInv, Placed, Fresh, Ran, command, seedLoop
  <2>6. Executing \subseteq Experiments
    BY ProgrammeAssumption
  <2>7. Based'
    BY <2>1, <2>3, <2>4, <2>6 DEF IInv, Based, Passed, command
  <2> QED BY <1>1, <2>5, <2>7 DEF IInv
<1>7. CASE PurgePathDone
  <2>1. /\ UNCHANGED evidence /\ pc = "purge" /\ overwrite /\ back = "dispatch"
        /\ todo # << >> /\ owned # << >> /\ Purged(Head(owned))
        /\ UNCHANGED <<kind, overwrite, todo, back, seedLoop>>
        /\ owned' = Tail(owned)
        /\ pc' = IF owned' = << >> THEN "seeds" ELSE "purge"
    BY <1>7 DEF PurgePathDone, GoTo, disk, IInv, Placed, Fresh, Dealing
  <2>2. Current' = Current
    BY <2>1 DEF Current
  <2>3. analysis[Current] # "absent" => "analysis" \in ToSet(owned')
    <3> SUFFICES ASSUME analysis[Current] # "absent" PROVE "analysis" \in ToSet(owned')
      OBVIOUS
    <3>1. owned \in Seq({"runs", "analysis"})
      BY DEF IInv, TypeOK
    <3>2. PICK i \in 1..Len(owned) : owned[i] = "analysis"
      BY <2>1, <3>1 DEF IInv, Fresh, ToSet
    <3>3. i # 1
      BY <2>1, <3>1, <3>2 DEF Purged
    <3>4. i - 1 \in 1..Len(Tail(owned)) /\ Tail(owned)[i - 1] = "analysis"
      BY <2>1, <3>1, <3>2, <3>3
    <3>5. DOMAIN Tail(owned) = 1..Len(Tail(owned))
      BY <2>1, <3>1
    <3>6. "analysis" \in ToSet(Tail(owned))
      BY <3>4, <3>5 DEF ToSet
    <3> QED BY <2>1, <3>6
  <2>4. owned' = << >> => analysis[Current] = "absent"
    BY <2>3 DEF ToSet
  <2>5. Placed'
    BY <2>1 DEF IInv, Placed, Reporting, seedLoop
  <2>6. Fresh'
    BY <2>1, <2>2, <2>3, <2>4 DEF Fresh, Passed, evidence
  <2>7. Ran'
    BY <2>1 DEF IInv, Placed, Ran, seedLoop
  <2>8. Based'
    BY <2>1, SameEvidence DEF IInv, Based
  <2> QED BY <1>1, <2>5, <2>6, <2>7, <2>8 DEF IInv
<1> QED BY <1>2, <1>3, <1>4, <1>5, <1>6, <1>7

\* Seeds change their own runs; those that have ended without raising have left
\* a document.
LEMMA SeedsKeep == ASSUME IInv, Seed \/ SeedsOver PROVE IInv'
<1>1. TypeOK'
  BY SeedsTyped DEF IInv
<1>2. CASE Seed
  <2>1. /\ pc = "seeds" /\ Current \in Executing /\ todo # << >>
        /\ UNCHANGED <<analysis, basis, kind, overwrite, todo, pc, back, owned>>
        /\ Current' = Current
    BY <1>2 DEF Seed, InSeedLoop, SeedBegins, SeedWrites, SeedEnds, SeedRefused,
       SeedFails, SeedRaises, SeedStep, IInv, Placed, Dealing, Current
  <2>2. PICK s \in Seeds \ handled :
             \/ SeedBegins(s) \/ SeedWrites(s) \/ SeedEnds(s)
             \/ SeedRefused(s) \/ SeedFails(s)
    BY <1>2, <2>1 DEF Seed, Left
  <2>3. runs \in [Executing -> [Seeds -> Runs]]
    BY DEF IInv, TypeOK
  <2>4. \A e \in Executing, q \in Seeds : e # Current \/ q # s => runs'[e][q] = runs[e][q]
    BY <2>2, <2>3 DEF SeedBegins, SeedWrites, SeedEnds, SeedRefused, SeedFails, SeedRaises
  <2>5. \A e \in Executing : e # Current => SeedsDone(e)' = SeedsDone(e)
    BY <2>4 DEF SeedsDone
  <2>6. ~Passed(Current) /\ ~Passed(Current)'
    BY <2>1 DEF IInv, Fresh, Passed
  <2>7. Placed'
    BY <2>1 DEF IInv, Placed, Reporting
  <2>8. Fresh'
    BY <2>1, <2>6 DEF Fresh
  <2>9. raised' = {} => handled' \subseteq SeedsDone(Current)'
    <3>1. raised' = {} => raised = {} /\ handled' \subseteq handled \cup {s}
      BY <2>2 DEF SeedBegins, SeedWrites, SeedEnds, SeedRefused, SeedFails,
         SeedRaises, seedLoop
    <3>2. raised' = {} /\ s \in handled' => runs'[Current][s] = "done"
      BY <2>1, <2>2, <2>3 DEF SeedBegins, SeedWrites, SeedEnds, SeedRefused, SeedFails,
         SeedRaises, seedLoop
    <3>3. \A q \in handled : raised = {} => runs'[Current][q] = "done"
      BY <2>1, <2>2, <2>4 DEF IInv, Ran, SeedsDone
    <3>4. handled \subseteq Seeds
      BY DEF IInv, TypeOK
    <3> QED BY <2>1, <3>1, <3>2, <3>3, <3>4 DEF SeedsDone
  <2>10. Ran'
    BY <2>1, <2>9 DEF Ran
  <2>11. Based'
    BY <2>1, <2>5, <2>6 DEF IInv, Based, Passed
  <2> QED BY <1>1, <2>7, <2>8, <2>10, <2>11 DEF IInv
<1>3. CASE SeedsOver
  <2>1. UNCHANGED evidence /\ pc = "seeds"
    BY <1>3 DEF SeedsOver, disk
  <2>2. CASE raised # {}
    BY <1>1, <1>3, <2>1, <2>2, EndKeeps DEF SeedsOver, DispatchSucceeds
  <2>3. CASE raised = {}
    <3>1. /\ pc' = "report" /\ back = "dispatch" /\ todo # << >>
          /\ started' = {} /\ handled' = {} /\ raised' = {}
          /\ UNCHANGED <<kind, todo, back>>
          /\ Left = {} /\ Current' = Current
      BY <1>3, <2>3 DEF SeedsOver, DispatchSucceeds, GoTo, IInv, Placed, Dealing, Current
    <3>2. Current \in Executing => SeedsDone(Current) = Seeds
      <4> SUFFICES ASSUME Current \in Executing PROVE SeedsDone(Current) = Seeds
        OBVIOUS
      <4>1. Seeds \subseteq handled
        BY <3>1 DEF Left
      <4> QED BY <2>1, <2>3, <4>1 DEF IInv, Ran, SeedsDone
    <3>3. Placed'
      BY <3>1 DEF Placed
    <3>4. Fresh'
      BY <2>1, <3>1, SameEvidence DEF IInv, Fresh
    <3>5. Ran'
      BY <2>1, <3>1, <3>2, SameEvidence DEF Ran
    <3>6. Based'
      BY <2>1, <3>1, SameEvidence DEF IInv, Based
    <3> QED BY <1>1, <3>3, <3>4, <3>5, <3>6 DEF IInv
  <2> QED BY <2>2, <2>3
<1> QED BY <1>2, <1>3

\* A report writes what it has read, of all seeds where it or the dispatch
\* before it insists.
LEMMA ReportKeeps ==
    ASSUME IInv,
           \/ ReportBegins \/ ReportReads \/ ReportWrites \/ ReportMisses
           \/ ReportFails \/ ReportOver
    PROVE  IInv'
<1>1. TypeOK'
  BY ReportTyped DEF IInv
<1>2. pc \in Reporting /\ todo # << >> /\ back \in {"dispatch", "publish"} /\ pc # "seeds"
  BY DEF ReportBegins, ReportReads, ReportWrites, ReportMisses, ReportFails,
     ReportOver, IInv, Placed, Dealing, Reporting
<1>3. /\ Current \in Experiments /\ Executing \subseteq Experiments
      /\ analysis \in [Experiments -> Analyses] /\ basis \in [Experiments -> SUBSET Seeds]
  BY <1>2, TypesAre, CurrentIs, ProgrammeAssumption DEF IInv, TypeOK
<1>4. \A e \in Tolerant : e \in Executing /\ Documents(e) = SeedsDone(e)
  BY ProgrammeAssumption DEF Documents, SeedsDone
<1>5. ASSUME UNCHANGED runs
      PROVE  \A e : SeedsDone(e)' = SeedsDone(e) /\ Documents(e)' = Documents(e)
  BY <1>5 DEF SeedsDone, Documents
<1>6. CASE ReportBegins
  <2>1. /\ pc = "report" /\ pc' = "read" /\ Current' = Current
        /\ UNCHANGED <<runs, kind, todo, back, seedLoop>>
    BY <1>6 DEF ReportBegins, GoTo, Current
  <2>2. \A e \in Experiments :
           \/ analysis'[e] # "valid"
           \/ analysis'[e] = analysis[e] /\ basis'[e] = basis[e]
    BY <1>3, <1>6 DEF ReportBegins
  <2>3. Placed'
    BY <1>2, <2>1 DEF IInv, Placed, seedLoop
  <2>4. Fresh'
    BY <1>3, <2>1, <2>2 DEF IInv, Fresh, Passed
  <2>5. Ran'
    BY <1>5, <2>1 DEF IInv, Ran
  <2>6. Based'
    BY <1>3, <1>5, <2>1, <2>2 DEF IInv, Based, Passed
  <2> QED BY <1>1, <2>3, <2>4, <2>5, <2>6 DEF IInv
<1>7. CASE ReportReads
  <2>1. /\ pc = "read" /\ pc' = "write" /\ Current' = Current
        /\ ~EvidenceMissing(Current)
        /\ UNCHANGED <<runs, kind, todo, back, seedLoop>>
    BY <1>7 DEF ReportReads, GoTo, Current
  <2>2. /\ basis'[Current] = Documents(Current)
        /\ analysis'[Current] = "valid" => analysis[Current] = "valid"
        /\ \A e \in Experiments : e # Current =>
               analysis'[e] = analysis[e] /\ basis'[e] = basis[e]
    BY <1>3, <1>7 DEF ReportReads
  <2>3. Current \notin Tolerant => Documents(Current) = Seeds
    BY <2>1 DEF EvidenceMissing
  <2>4. Placed'
    BY <1>2, <2>1 DEF IInv, Placed, seedLoop, Reporting, Dealing
  <2>5. Fresh'
    BY <2>1, <2>2 DEF IInv, Fresh, Passed
  <2>6. Ran'
    <3> SUFFICES ASSUME kind' # "report", back' = "dispatch"
                 PROVE  basis'[Current] = Seeds /\ Documents(Current)' = Seeds
      BY <2>1 DEF Ran
    <3>1. Documents(Current) = Seeds
      BY <1>4, <2>1, <2>3 DEF IInv, Ran
    <3>2. Documents(Current)' = Documents(Current)
      BY <2>1 DEF Documents, SeedsDone
    <3> QED BY <2>2, <3>1, <3>2
  <2>7. Based'
    <3>1. \A e \in Executing : Passed(e)' /\ SeedsDone(e)' = Seeds => basis'[e] = Seeds
      BY <1>3, <1>4, <1>5, <2>1, <2>2, <2>3 DEF IInv, Based, Passed
    <3>2. \A e \in Experiments \ Tolerant : Passed(e)' => basis'[e] = Seeds
      BY <2>2, <2>3 DEF IInv, Based, Passed
    <3>3. Documents(Current)' = Documents(Current)
      BY <2>1 DEF Documents, SeedsDone
    <3> QED BY <2>1, <2>2, <2>3, <3>1, <3>2, <3>3 DEF Based
  <2> QED BY <1>1, <2>4, <2>5, <2>6, <2>7 DEF IInv
<1>8. CASE ReportWrites
  <2>1. /\ pc = "write" /\ pc' = "reported" /\ Current' = Current
        /\ UNCHANGED <<runs, basis, kind, todo, back, seedLoop>>
    BY <1>8 DEF ReportWrites, GoTo, Current
  <2>2. \A e \in Experiments : e # Current => analysis'[e] = analysis[e]
    BY <1>3, <1>8 DEF ReportWrites
  <2>3. basis[Current] = Documents(Current) /\ (Current \notin Tolerant => basis[Current] = Seeds)
    BY <2>1 DEF IInv, Based
  <2>4. Placed'
    BY <1>2, <2>1 DEF IInv, Placed, seedLoop, Reporting, Dealing
  <2>5. Fresh'
    BY <2>1 DEF Fresh
  <2>6. Ran'
    <3>1. Documents(Current)' = Documents(Current)
      BY <2>1 DEF Documents, SeedsDone
    <3> QED BY <2>1, <3>1 DEF IInv, Ran
  <2>7. Based'
    <3>1. \A e \in Executing : Passed(e)' /\ SeedsDone(e)' = Seeds => basis'[e] = Seeds
      BY <1>3, <1>4, <1>5, <2>1, <2>2, <2>3 DEF IInv, Based, Passed
    <3>2. \A e \in Experiments \ Tolerant : Passed(e)' => basis'[e] = Seeds
      BY <2>1, <2>2, <2>3 DEF IInv, Based, Passed
    <3> QED BY <2>1, <3>1, <3>2 DEF Based
  <2> QED BY <1>1, <2>4, <2>5, <2>6, <2>7 DEF IInv
<1>9. ASSUME NEW why, ReportRaises(why) PROVE IInv'
  <2>1. UNCHANGED evidence
    BY <1>9 DEF ReportRaises, disk
  <2>2. CASE PassedOver(why)
    BY <1>1, <1>2, <1>9, <2>1, <2>2, GoOnKeeps
       DEF ReportRaises, NextExperiment, Stages, Dealing, Reporting
  <2>3. CASE ~PassedOver(why)
    BY <1>1, <1>9, <2>1, <2>3, EndKeeps DEF ReportRaises
  <2> QED BY <2>2, <2>3
<1>10. CASE ReportMisses \/ ReportFails
  BY <1>9, <1>10 DEF ReportMisses, ReportFails
<1>11. CASE ReportOver
  <2>1. UNCHANGED evidence
    BY <1>11 DEF ReportOver, disk
  <2>2. CASE back = "dispatch" /\ ~Passed(Current)
    BY <1>1, <1>11, <2>1, <2>2, EndKeeps DEF ReportOver
  <2>3. CASE ~(back = "dispatch" /\ ~Passed(Current))
    BY <1>1, <1>2, <1>11, <2>1, <2>3, GoOnKeeps
       DEF ReportOver, NextExperiment, Stages, Dealing, Reporting
  <2> QED BY <2>2, <2>3
<1> QED BY <1>6, <1>7, <1>8, <1>10, <1>11

LEMMA InitIInv == Init => IInv
<1> SUFFICES ASSUME Init PROVE IInv
  OBVIOUS
<1>1. << >> \in Seq(Experiments) /\ << >> \in Seq({"runs", "analysis"})
  OBVIOUS
<1>2. TypeOK
  BY <1>1 DEF Init, TypeOK, Runs, Analyses, Stages, Outcomes
<1>3. Executing \subseteq Experiments /\ \A e \in Experiments : ~Passed(e)
  BY ProgrammeAssumption DEF Init, Passed
<1> QED BY <1>2, <1>3
        DEF Init, IInv, Placed, Fresh, Ran, Based, Dealing, Reporting

\* Every step of every command, and every kill, keeps the invariant.
LEMMA NextIInv == IInv /\ [Next]_vars => IInv'
<1> SUFFICES ASSUME IInv, [Next]_vars PROVE IInv'
  OBVIOUS
<1>1. CASE Start
  BY <1>1, StartKeeps
<1>2. CASE Work
  BY <1>2, DispatchKeeps, SeedsKeep, ReportKeeps, CampaignKeeps, SmokeKeeps DEF Work
<1>3. CASE Kill
  <2>1. TypeOK'
    BY <1>3, TypesAre, DiskKept, EndTyped DEF Kill, IInv, Outcomes
  <2> QED BY <1>3, <2>1, EndKeeps DEF Kill, disk
<1>4. CASE UNCHANGED vars
  <2>1. UNCHANGED evidence /\ UNCHANGED disk /\ UNCHANGED command
    BY <1>4 DEF vars, disk
  <2>2. TypeOK' /\ Placed' /\ Fresh' /\ Ran'
    BY <2>1, SameEvidence DEF IInv, TypeOK, Placed, Fresh, Ran, disk, evidence,
       command, seedLoop, Current
  <2>3. Based'
    BY <2>1, SameEvidence DEF IInv, Based, command, Current
  <2> QED BY <2>2, <2>3 DEF IInv
<1> QED BY <1>1, <1>2, <1>3, <1>4 DEF Next

\* The inductive invariant: where each stage of a command may be, that seeds run
\* only where no valid analysis is, and that an analysis of fewer seeds than
\* there are never lies beside the runs of all.
THEOREM Invariant == Spec => []IInv
BY InitIInv, NextIInv, PTL DEF Spec

\* The type invariant, for every registry and seed cohort.
THEOREM TypeCorrect == Spec => []TypeOK
<1>1. IInv => TypeOK
  BY DEF IInv
<1> QED BY <1>1, Invariant, PTL

----------------------------------------------------------------------------
(* What a command may touch.                                               *)

Touching ==
    \/ PurgeRun \/ PurgeAnalysis \/ Seed
    \/ ReportBegins \/ ReportReads \/ ReportWrites

LEMMA OthersKeepEvidence ==
    ASSUME [Next]_vars
    PROVE  Touching \/ UNCHANGED evidence
<1>1. CASE Start
  BY <1>1 DEF Start, RunExperiment, RunCampaign, Report, ReportAll, Smoke,
     AnchorReproduce, AnchorVerify, Begin, disk
<1>2. CASE Work
  BY <1>2 DEF Work, Touching, EnforceAnchorGate, SkipPassed, Dispatch, PurgePathDone,
     SeedsOver, ReportMisses, ReportFails, ReportRaises, ReportOver,
     ReferenceClears, ReferenceRefused, ReferenceWrites, ReferenceFails, ReferenceDone,
     AllDispatched, RequireComplete, MarkExecution, Publish, AllPublished,
     SmokeClears, SmokeAnchor, SmokeRefuses, SmokeDispatches, SmokeOver,
     AnchorClears, AnchorExecutes, AnchorDecides, disk
<1>3. CASE Kill \/ UNCHANGED vars
  BY <1>3 DEF Kill, vars, disk
<1> QED BY <1>1, <1>2, <1>3 DEF Next

\* A step that touches evidence touches that of the experiment at hand, which
\* does not pass then, or is purged on request.
LEMMA TouchesCurrent ==
    ASSUME IInv, Touching
    PROVE  /\ todo # << >>
           /\ \A e \in Experiments : e # Current =>
                 /\ analysis'[e] = analysis[e] /\ basis'[e] = basis[e]
                 /\ e \in Executing => runs'[e] = runs[e]
           /\ ~Passed(Current) \/ overwrite \/ kind = "report"
<1>1. todo # << >>
  BY DEF Touching, PurgeRun, PurgeAnalysis, Seed, InSeedLoop, ReportBegins,
     ReportReads, ReportWrites, IInv, Placed, Dealing, Reporting
<1>2. ~Passed(Current) \/ overwrite \/ kind = "report"
  BY DEF Touching, PurgeRun, PurgeAnalysis, Seed, InSeedLoop, ReportBegins,
     ReportReads, ReportWrites, IInv, Fresh
<1>3. /\ runs \in [Executing -> [Seeds -> Runs]]
      /\ analysis \in [Experiments -> Analyses] /\ basis \in [Experiments -> SUBSET Seeds]
  BY DEF IInv, TypeOK
<1>4. CASE PurgeRun
  BY <1>1, <1>2, <1>3, <1>4 DEF PurgeRun
<1>5. CASE PurgeAnalysis
  <2>1. Nested[Current] \ RetainNames(Current) = {}
    BY DEF RetainNames
  <2> QED BY <1>1, <1>2, <1>5, <2>1 DEF PurgeAnalysis
<1>6. CASE Seed
  BY <1>1, <1>2, <1>3, <1>6 DEF Seed, SeedBegins, SeedWrites, SeedEnds, SeedRefused,
     SeedFails, SeedRaises, SeedStep
<1>7. CASE ReportBegins
  BY <1>1, <1>2, <1>3, <1>7 DEF ReportBegins
<1>8. CASE ReportReads
  BY <1>1, <1>2, <1>3, <1>8 DEF ReportReads
<1>9. CASE ReportWrites
  BY <1>1, <1>2, <1>3, <1>9 DEF ReportWrites
<1> QED BY <1>4, <1>5, <1>6, <1>7, <1>8, <1>9 DEF Touching

\* What a command does to runs and analyses it does to the experiment it deals
\* with, although analyses of several lie inside one directory.
THEOREM OthersSpared == Spec => OverwriteSparesOthers
<1>1. IInv /\ [Next]_vars =>
        [\A e \in Experiments :
            \/ todo # << >> /\ e = Current
            \/ /\ analysis'[e] = analysis[e] /\ basis'[e] = basis[e]
               /\ e \in Executing => runs'[e] = runs[e]]_vars
  BY OthersKeepEvidence, TouchesCurrent DEF evidence
<1> QED BY <1>1, Invariant, PTL DEF Spec, OverwriteSparesOthers

\* Without --overwrite no command but its own report touches the evidence of an
\* experiment that has passed, in any state earlier commands have left.
THEOREM PassedEvidenceKept == Spec => PassedKept
<1>1. IInv /\ [Next]_vars =>
        [\A e \in Experiments :
            Passed(e) /\ ~overwrite /\ kind # "report"
                => /\ analysis'[e] = analysis[e] /\ basis'[e] = basis[e]
                   /\ e \in Executing => runs'[e] = runs[e]]_vars
  BY OthersKeepEvidence, TouchesCurrent DEF evidence
<1> QED BY <1>1, Invariant, PTL DEF Spec, PassedKept

----------------------------------------------------------------------------
(* What an answer certifies.                                               *)

\* An experiment reported as completed by run experiment passes on the runs and
\* an analysis of its whole cohort.
THEOREM CompletedIsWhole == Spec => CompletedMeansWhole
<1>1. IInv /\ [Next]_vars =>
        [kind = "experiment" /\ pc = "reported" /\ pc' = "dispatch"
            => /\ Passed(Current) /\ basis[Current] = Seeds
               /\ Documents(Current) = Seeds]_vars
  <2> SUFFICES ASSUME IInv, Next, kind = "experiment", pc = "reported", pc' = "dispatch"
               PROVE  /\ Passed(Current) /\ basis[Current] = Seeds
                      /\ Documents(Current) = Seeds
    OBVIOUS
  <2>1. ReportOver
    BY DEF Next, Start, Work, Kill, End, RunExperiment, RunCampaign, Report,
       ReportAll, Smoke, AnchorReproduce, AnchorVerify, Begin, EnforceAnchorGate,
       SkipPassed, Dispatch, PurgeRun, PurgeAnalysis, PurgePathDone, Seed, InSeedLoop,
       SeedsOver, ReportBegins, ReportReads, ReportWrites, ReportMisses, ReportFails,
       ReferenceClears, ReferenceRefused, ReferenceWrites, ReferenceFails,
       ReferenceDone, AllDispatched, RequireComplete, MarkExecution, Publish,
       AllPublished, SmokeClears, SmokeAnchor, SmokeRefuses, SmokeDispatches,
       SmokeOver, AnchorClears, AnchorExecutes, AnchorDecides
  <2>2. back = "dispatch" /\ Passed(Current)
    BY <2>1 DEF ReportOver, End, GoTo, IInv, Placed, Reporting
  <2> QED BY <2>2 DEF IInv, Ran
<1> QED BY <1>1, Invariant, PTL DEF Spec, CompletedMeansWhole

\* Without smoke runs under the outputs root, nothing else puts one there.
LEMMA StaysUnsmoked ==
    ASSUME "smoke" \notin Commands, TypeOK, Unsmoked, [Next]_vars
    PROVE  Unsmoked'
<1>1. CASE Start
  BY <1>1 DEF Start, RunExperiment, RunCampaign, Report, ReportAll, Smoke,
     AnchorReproduce, AnchorVerify, Begin, disk, Unsmoked
<1>2. CASE Work
  <2>1. CASE \/ EnforceAnchorGate \/ SkipPassed \/ Dispatch
             \/ PurgeRun \/ PurgeAnalysis \/ PurgePathDone
    BY <2>1 DEF EnforceAnchorGate, SkipPassed, Dispatch, PurgeRun, PurgeAnalysis,
       PurgePathDone, End, GoTo, disk, command, Unsmoked
  <2>2. CASE Seed \/ SeedsOver
    BY <2>2 DEF Seed, SeedBegins, SeedWrites, SeedEnds, SeedRefused, SeedFails,
       SeedRaises, SeedStep, SeedsOver, End, GoTo, disk, Unsmoked
  <2>3. CASE ReportOver
    BY <2>3 DEF ReportOver, End, GoTo, disk, Unsmoked, TypeOK
  <2>4. CASE ReportBegins \/ ReportReads \/ ReportWrites \/ ReportMisses \/ ReportFails
    BY <2>4 DEF ReportBegins, ReportReads, ReportWrites, ReportMisses, ReportFails,
       ReportRaises, End, GoTo, disk, Unsmoked
  <2>5. CASE \/ ReferenceClears \/ ReferenceRefused \/ ReferenceWrites
             \/ ReferenceFails \/ ReferenceDone
    BY <2>5 DEF ReferenceClears, ReferenceRefused, ReferenceWrites, ReferenceFails,
       ReferenceDone, End, GoTo, disk, command, Unsmoked
  <2>6. CASE AllDispatched \/ RequireComplete \/ MarkExecution \/ Publish \/ AllPublished
    BY <2>6 DEF AllDispatched, RequireComplete, MarkExecution, Publish, AllPublished,
       End, GoTo, disk, Unsmoked
  <2>7. CASE SmokeClears \/ SmokeAnchor \/ SmokeRefuses \/ SmokeDispatches \/ SmokeOver
    BY <2>7 DEF SmokeClears, SmokeAnchor, SmokeRefuses, SmokeDispatches, SmokeOver, Unsmoked
  <2>8. CASE AnchorClears \/ AnchorExecutes \/ AnchorDecides
    BY <2>8 DEF AnchorClears, AnchorExecutes, AnchorDecides, End, GoTo, Unsmoked
  <2> QED BY <1>2, <2>1, <2>2, <2>3, <2>4, <2>5, <2>6, <2>7, <2>8 DEF Work
<1>3. CASE Kill
  BY <1>3 DEF Kill, End, disk, Unsmoked
<1>4. CASE UNCHANGED vars
  BY <1>4 DEF vars, disk, command, Unsmoked
<1> QED BY <1>1, <1>2, <1>3, <1>4 DEF Next

\* The completeness check, without smoke runs, sees the runs of every experiment.
LEMMA CompleteIsExecuted ==
    ASSUME Unsmoked, ExecutionComplete
    PROVE  Executed
<1> SUFFICES ASSUME NEW e \in Executing, NEW s \in Seeds PROVE s \in SeedsDone(e)
  BY DEF Executed, SeedsDone
<1>1. <<e, s>> \in Materialized
  BY DEF ExecutionComplete
<1>2. {x \in Executing : smokeRuns[x] = "done"} = {}
  BY DEF Unsmoked
<1>3. <<e, s>> \in UNION {{<<d, q>> : q \in SeedsDone(d)} : d \in Executing}
  BY <1>1, <1>2 DEF Materialized
<1> QED BY <1>3

\* Where every run is there, the mandatory analyses that are valid are of all.
LEMMA PassedIsWhole ==
    ASSUME IInv, Executed, MandatoryPassed
    PROVE  WholeEvidence
<1> SUFFICES ASSUME NEW e \in Mandatory PROVE basis[e] = Seeds
  BY DEF WholeEvidence, MandatoryPassed
<1>1. CASE e \in Executing
  BY <1>1 DEF IInv, Based, Executed, MandatoryPassed
<1>2. CASE e \notin Executing
  BY <1>2, ProgrammeAssumption DEF IInv, Based, MandatoryPassed
<1> QED BY <1>1, <1>2

\* The campaign is in the part that follows its execution marker.
Publishing ==
    kind = "campaign" /\ (pc = "publish" \/ (pc \in Reporting /\ back = "publish"))

\* How the campaign comes to the execution marker, and past it.
LEMMA WaysToPublish ==
    ASSUME IInv, [Next]_vars
    PROVE  /\ pc' = "mark" => \/ UNCHANGED vars
                              \/ UNCHANGED disk /\ ExecutionComplete /\ MandatoryPassed
           /\ Publishing' => \/ UNCHANGED disk /\ Publishing
                             \/ UNCHANGED <<runs, marker>> /\ Publishing
                             \/ MarkExecution
<1>1. CASE Start
  BY <1>1 DEF Start, RunExperiment, RunCampaign, Report, ReportAll, Smoke,
     AnchorReproduce, AnchorVerify, Begin, Publishing, Reporting
<1>2. CASE Work
  <2>1. CASE \/ EnforceAnchorGate \/ SkipPassed \/ Dispatch
             \/ PurgeRun \/ PurgeAnalysis \/ PurgePathDone
    BY <2>1 DEF EnforceAnchorGate, SkipPassed, Dispatch, PurgeRun, PurgeAnalysis,
       PurgePathDone, End, GoTo, command, Publishing, Reporting
  <2>2. CASE Seed \/ SeedsOver
    BY <2>2 DEF Seed, InSeedLoop, SeedBegins, SeedWrites, SeedEnds, SeedRefused, SeedFails,
       SeedRaises, SeedStep, SeedsOver, End, GoTo, IInv, Placed, Publishing, Reporting
  <2>3. CASE ReportOver
    BY <2>3 DEF ReportOver, End, GoTo, IInv, Placed, Publishing, Reporting
  <2>4. CASE ReportBegins \/ ReportReads \/ ReportWrites \/ ReportMisses \/ ReportFails
    BY <2>4 DEF ReportBegins, ReportReads, ReportWrites, ReportMisses, ReportFails,
       ReportRaises, PassedOver, End, GoTo, disk, evidence, Publishing, Reporting
  <2>5. CASE \/ ReferenceClears \/ ReferenceRefused \/ ReferenceWrites
             \/ ReferenceFails \/ ReferenceDone
    BY <2>5 DEF ReferenceClears, ReferenceRefused, ReferenceWrites, ReferenceFails,
       ReferenceDone, End, GoTo, command, Publishing, Reporting
  <2>6. CASE AllDispatched \/ RequireComplete \/ MarkExecution \/ Publish \/ AllPublished
    BY <2>6 DEF AllDispatched, RequireComplete, MarkExecution, Publish, AllPublished,
       End, GoTo, Publishing, Reporting
  <2>7. CASE \/ SmokeClears \/ SmokeAnchor \/ SmokeRefuses \/ SmokeDispatches \/ SmokeOver
             \/ AnchorClears \/ AnchorExecutes \/ AnchorDecides
    BY <2>7 DEF SmokeClears, SmokeAnchor, SmokeRefuses, SmokeDispatches, SmokeOver,
       AnchorClears, AnchorExecutes, AnchorDecides, End, GoTo, Publishing, Reporting
  <2> QED BY <1>2, <2>1, <2>2, <2>3, <2>4, <2>5, <2>6, <2>7 DEF Work
<1>3. CASE Kill
  BY <1>3 DEF Kill, End, Publishing, Reporting
<1>4. CASE UNCHANGED vars
  BY <1>4 DEF vars, command, disk, Publishing
<1> QED BY <1>1, <1>2, <1>3, <1>4 DEF Next

LEMMA StaysCertified ==
    ASSUME IInv, Unsmoked, Certified, [Next]_vars
    PROVE  Certified'
<1>1. ASSUME UNCHANGED runs PROVE Executed' = Executed
  BY <1>1 DEF Executed, SeedsDone
<1>2. ASSUME UNCHANGED disk PROVE WholeEvidence' = WholeEvidence
  BY <1>1, <1>2 DEF disk, evidence, WholeEvidence, Passed
<1>3. pc' = "mark" => WholeEvidence'
  <2>1. ASSUME UNCHANGED vars, pc' = "mark" PROVE WholeEvidence'
    BY <1>2, <2>1 DEF vars, command, Certified
  <2>2. ASSUME UNCHANGED disk, ExecutionComplete, MandatoryPassed PROVE WholeEvidence'
    BY <1>2, <2>2, CompleteIsExecuted, PassedIsWhole
  <2> QED BY <2>1, <2>2, WaysToPublish
<1>4. Publishing' => Executed' /\ "EXECUTION" \in marker'
  <2>1. ASSUME UNCHANGED <<runs, marker>>, Publishing
        PROVE  Executed' /\ "EXECUTION" \in marker'
    BY <1>1, <2>1 DEF Certified, Publishing
  <2>2. UNCHANGED disk => UNCHANGED <<runs, marker>>
    BY DEF disk, evidence
  <2>3. ASSUME MarkExecution PROVE Executed' /\ "EXECUTION" \in marker'
    BY <1>1, <2>3 DEF MarkExecution, evidence, Certified, WholeEvidence
  <2> QED BY <2>1, <2>2, <2>3, WaysToPublish
<1> QED BY <1>3, <1>4 DEF Certified, Publishing

\* A marker is written only while every planned run is on disk and every
\* mandatory experiment passes on an analysis of all seeds, the publication
\* marker only after the execution marker, if no smoke runs lie under the root.
THEOREM MarkersTell ==
    ASSUME "smoke" \notin Commands
    PROVE  Spec => MarkersCertify
<1>1. Init => Unsmoked /\ Certified
  BY DEF Init, Unsmoked, Certified, Reporting
<1>2. IInv /\ Unsmoked /\ Certified /\ [Next]_vars => Unsmoked' /\ Certified'
  BY StaysUnsmoked, StaysCertified DEF IInv
<1>3. IInv /\ Unsmoked /\ Certified /\ [Next]_vars =>
        [(pc = "mark" /\ pc' = "publish") \/ marker' # marker
            => WholeEvidence /\ "EXECUTION" \in marker']_vars
  <2> SUFFICES ASSUME IInv, Unsmoked, Certified, Next,
                      (pc = "mark" /\ pc' = "publish") \/ marker' # marker
               PROVE  WholeEvidence /\ "EXECUTION" \in marker'
    OBVIOUS
  <2>1. MarkExecution \/ (AllPublished /\ kind = "campaign" /\ MandatoryPassed)
    <3>1. CASE Start
      BY <3>1 DEF Start, RunExperiment, RunCampaign, Report, ReportAll, Smoke,
         AnchorReproduce, AnchorVerify, Begin, disk
    <3>2. CASE Work
      BY <3>2 DEF Work, EnforceAnchorGate, SkipPassed, Dispatch, PurgeRun,
         PurgeAnalysis, PurgePathDone, Seed, InSeedLoop, SeedBegins, SeedWrites,
         SeedEnds, SeedRefused, SeedFails, SeedRaises, SeedStep, SeedsOver, ReportBegins,
         ReportReads, ReportWrites, ReportMisses, ReportFails, ReportRaises, ReportOver,
         ReferenceClears, ReferenceRefused, ReferenceWrites, ReferenceFails,
         ReferenceDone, AllDispatched, RequireComplete, Publish, AllPublished,
         SmokeClears, SmokeAnchor, SmokeRefuses, SmokeDispatches, SmokeOver,
         AnchorClears, AnchorExecutes, AnchorDecides, End, GoTo, disk, command
    <3>3. CASE Kill
      BY <3>3 DEF Kill, End, disk
    <3> QED BY <3>1, <3>2, <3>3 DEF Next
  <2>2. CASE MarkExecution
    BY <2>2 DEF MarkExecution, Certified
  <2>3. CASE AllPublished /\ kind = "campaign" /\ MandatoryPassed
    BY <2>3, PassedIsWhole DEF AllPublished, Certified
  <2> QED BY <2>1, <2>2, <2>3
<1> QED BY <1>1, <1>2, <1>3, Invariant, PTL DEF Spec, MarkersCertify
=============================================================================
