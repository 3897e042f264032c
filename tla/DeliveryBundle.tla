--------------------------- MODULE DeliveryBundle ---------------------------
(***************************************************************************)
(* `datp-core results`: generate_delivery_bundle (app/results.py) gathers  *)
(* the artifacts of the passed experiments into the results directory,     *)
(* with a manifest of their digests and a summary.  It takes a digest of   *)
(* an artifact, copies it later and compares the copy at the end, while an *)
(* experiment that is run again may change or remove its artifacts; and it *)
(* may be killed anywhere, in the middle of a copy included.  Manifest and *)
(* summary are renamed into place.                                         *)
(*                                                                         *)
(* A digest is the version of the content.  An artifact is absent when its *)
(* file is missing or does not pass its validator, and an experiment has   *)
(* passed when none of its artifacts is absent (optional ones left out).   *)
(***************************************************************************)
EXTENDS Integers, Sequences

CONSTANTS
    Artifacts,     \* the artifacts, in the order of EXPERIMENT_RECIPES
    ExperimentOf,  \* the experiment each of them belongs to
    Documents,     \* those that are result JSON
    Versions,      \* versions of an artifact's content
    Absent,        \* no file
    Torn           \* a file whose copy was cut short

ArtifactSet == {Artifacts[i] : i \in DOMAIN Artifacts}
Experiments == {ExperimentOf[a] : a \in ArtifactSet}
Manifest == "delivery_manifest"
Summary == "delivery_summary"
BundleFiles == ArtifactSet \cup {Manifest, Summary}

\* The records of a manifest: the digest of each artifact, if it has one.
Records == [ArtifactSet -> Versions \cup {Absent}]
NoRecords == [a \in ArtifactSet |-> Absent]

ASSUME BundleAssumption ==
    /\ Artifacts \in Seq(ArtifactSet)
    /\ Documents \subseteq ArtifactSet
    /\ Manifest \notin ArtifactSet /\ Summary \notin ArtifactSet
    /\ Absent \notin Versions /\ Torn \notin Versions /\ Absent # Torn
    /\ Absent \notin Records

\* What the recipes guarantee: there is something to deliver, the artifacts of
\* an experiment follow one another, and every contract of evidence_contract
\* has a mandatory result document (app/evidence.py:134-228, 456-900).
ASSUME RecipesAssumption ==
    /\ Artifacts # <<>>
    /\ \A i, j, k \in DOMAIN Artifacts :
           /\ i <= j /\ j <= k
           /\ ExperimentOf[Artifacts[i]] = ExperimentOf[Artifacts[k]]
           => ExperimentOf[Artifacts[j]] = ExperimentOf[Artifacts[i]]
    /\ \A e \in Experiments : \E d \in Documents : ExperimentOf[d] = e

VARIABLES
    outputs,    \* the artifacts under outputs/, whole or absent
    exists,     \* the results directory exists
    bundle,     \* its files
    phase,      \* what the command is doing
    overwrite,  \* `results --overwrite`
    next,       \* the artifact or record to look at next
    passed,     \* the experiment at hand was found passed
    collected,  \* the records collected
    disturbed   \* history: outputs has changed since the command started

results == <<exists, bundle>>
local == <<overwrite, next, passed, collected>>
vars == <<outputs, exists, bundle, phase, overwrite, next, passed, collected,
          disturbed>>

EmptyBundle == [f \in BundleFiles |-> Absent]

----------------------------------------------------------------------------

OwnArtifacts(e) == {a \in ArtifactSet : ExperimentOf[a] = e}
Passed(e) == \A a \in OwnArtifacts(e) : outputs[a] # Absent

\* What is to be delivered of the outputs as they are.
Deliverable ==
    [a \in ArtifactSet |-> IF Passed(ExperimentOf[a]) THEN outputs[a] ELSE Absent]

RecordedExperiments(records) == {ExperimentOf[a] : a \in {b \in ArtifactSet : records[b] # Absent}}

\* The manifest and the summary belong to these records.
IsManifestOf(records) ==
    exists /\ bundle[Manifest] = records /\ bundle[Summary] = RecordedExperiments(records)

\* _validate_bundle: every recorded artifact is in the bundle with its digest.
CopiesMatch(records) ==
    \A a \in ArtifactSet : records[a] # Absent => bundle[a] = records[a]

\* _bundle_is_current.
IsCurrent(records) == IsManifestOf(records) /\ CopiesMatch(records)

Init ==
    /\ outputs \in [ArtifactSet -> Versions \cup {Absent}]
    /\ exists = FALSE
    /\ bundle = EmptyBundle
    /\ phase = "idle"
    /\ overwrite = FALSE
    /\ next = 1 /\ passed = FALSE
    /\ collected = NoRecords
    /\ disturbed = FALSE

\* An experiment is run again: an artifact is removed, written or rewritten.
ChangeOutput(a) ==
    /\ outputs' \in {[outputs EXCEPT ![a] = v] : v \in Versions \cup {Absent}}
    /\ outputs' # outputs
    /\ disturbed' = (phase # "idle")
    /\ UNCHANGED <<results, phase, local>>

Start ==
    /\ phase = "idle"
    /\ overwrite' \in BOOLEAN
    /\ phase' = IF overwrite' /\ exists THEN "discarding" ELSE "collecting"
    /\ UNCHANGED <<outputs, results, next, passed, collected, disturbed>>

Goto(p) == phase' = p

\* rmtree of the results directory: for overwrite ("discarding") before the
\* artifacts are collected, otherwise ("removing") after they are.
RemoveFile ==
    /\ phase \in {"discarding", "removing"}
    /\ \E f \in BundleFiles :
         /\ bundle[f] # Absent
         /\ bundle' = [bundle EXCEPT ![f] = Absent]
    /\ UNCHANGED <<outputs, exists, phase, local, disturbed>>

RemoveDirectory ==
    /\ phase \in {"discarding", "removing"}
    /\ bundle = EmptyBundle
    /\ exists' = FALSE
    /\ Goto(IF phase = "discarding" THEN "collecting" ELSE "copying")
    /\ UNCHANGED <<outputs, bundle, local, disturbed>>

\* _collect_passed and _bundle_records, one artifact.  The experiment is
\* inspected at its first artifact; an artifact that has gone since is left
\* out, but not every result document of the experiment may be.
Collect ==
    /\ phase = "collecting"
    /\ next <= Len(Artifacts)
    /\ LET a == Artifacts[next]
           e == ExperimentOf[a]
           isFirst == \A i \in 1..(next - 1) : ExperimentOf[Artifacts[i]] # e
           isLast == \A i \in (next + 1)..Len(Artifacts) : ExperimentOf[Artifacts[i]] # e
       IN /\ passed' = IF isFirst THEN Passed(e) ELSE passed
          /\ collected' = [collected EXCEPT ![a] = IF passed' THEN outputs[a] ELSE Absent]
          /\ next' = next + 1
          /\ Goto(IF /\ isLast /\ passed'
                     /\ \A d \in Documents \cap OwnArtifacts(e) : collected'[d] = Absent
                  THEN "failed" ELSE "collecting")
    /\ UNCHANGED <<outputs, results, overwrite, disturbed>>

\* The old files kept and overwritten.
MutantCompare ==
    /\ phase = "collecting"
    /\ next > Len(Artifacts)
    /\ next' = 1 /\ passed' = FALSE
    /\ Goto(IF IsCurrent(collected) THEN "done" ELSE "copying")
    /\ UNCHANGED <<outputs, results, overwrite, collected, disturbed>>

\* A current bundle is left alone; any other is removed and made again.
Compare ==
    /\ phase = "collecting"
    /\ next > Len(Artifacts)
    /\ next' = 1 /\ passed' = FALSE
    /\ Goto(IF IsCurrent(collected) THEN "done"
            ELSE IF exists THEN "removing" ELSE "copying")
    /\ UNCHANGED <<outputs, results, overwrite, collected, disturbed>>

\* _materialize: the directories, then the recorded artifacts in order, each
\* as it is now.
Copy ==
    /\ phase = "copying"
    /\ next <= Len(Artifacts)
    /\ exists' = TRUE
    /\ LET a == Artifacts[next] IN
         IF collected[a] # Absent /\ outputs[a] = Absent
         THEN Goto("failed") /\ UNCHANGED <<next, bundle>>
         ELSE /\ bundle' = IF collected[a] # Absent
                           THEN [bundle EXCEPT ![a] = outputs[a]] ELSE bundle
              /\ next' = next + 1
              /\ UNCHANGED phase
    /\ UNCHANGED <<outputs, overwrite, passed, collected, disturbed>>

WriteManifest ==
    /\ phase = "copying"
    /\ next > Len(Artifacts)
    /\ bundle' = [bundle EXCEPT ![Manifest] = collected]
    /\ Goto("summarising")
    /\ UNCHANGED <<outputs, exists, local, disturbed>>

WriteSummary ==
    /\ phase = "summarising"
    /\ bundle' = [bundle EXCEPT ![Summary] = RecordedExperiments(collected)]
    /\ Goto("validating")
    /\ UNCHANGED <<outputs, exists, local, disturbed>>

\* No validation of what was just copied.
MutantValidate ==
    /\ phase = "validating"
    /\ Goto("done")
    /\ UNCHANGED <<outputs, results, local, disturbed>>

Validate ==
    /\ phase = "validating"
    /\ Goto(IF CopiesMatch(collected) THEN "done" ELSE "failed")
    /\ UNCHANGED <<outputs, results, local, disturbed>>

Forget ==
    /\ phase' = "idle"
    /\ overwrite' = FALSE
    /\ next' = 1 /\ passed' = FALSE
    /\ collected' = NoRecords
    /\ disturbed' = FALSE

\* The command returns, raises or is killed.
End ==
    /\ phase # "idle"
    /\ Forget
    /\ UNCHANGED <<outputs, results>>

DieCopying ==
    /\ phase = "copying"
    /\ next <= Len(Artifacts)
    /\ collected[Artifacts[next]] # Absent
    /\ exists' = TRUE
    /\ bundle' = [bundle EXCEPT ![Artifacts[next]] = Torn]
    /\ Forget
    /\ UNCHANGED outputs

Proceed ==
    \/ RemoveFile \/ RemoveDirectory
    \/ Collect \/ Compare
    \/ Copy \/ WriteManifest \/ WriteSummary \/ Validate

Next ==
    \/ \E a \in ArtifactSet : ChangeOutput(a)
    \/ Start \/ Proceed \/ End \/ DieCopying

\* No fairness: a command may be killed or left at any step.
Spec == Init /\ [][Next]_vars

----------------------------------------------------------------------------
(* Properties.                                                             *)

TypeOK ==
    /\ outputs \in Records
    /\ exists \in BOOLEAN
    /\ \A a \in ArtifactSet : bundle[a] \in Versions \cup {Absent, Torn}
    /\ bundle[Manifest] = Absent \/ bundle[Manifest] \in Records
    /\ bundle[Summary] = Absent \/ bundle[Summary] \subseteq Experiments
    /\ phase \in {"idle", "discarding", "collecting", "removing", "copying",
                  "summarising", "validating", "done", "failed"}
    /\ overwrite \in BOOLEAN
    /\ next \in 1..(Len(Artifacts) + 1)
    /\ passed \in BOOLEAN
    /\ collected \in Records
    /\ disturbed \in BOOLEAN

\* A bundle reported as generated or as current holds the artifacts of its
\* manifest with the digests of the manifest, a summary of the same
\* experiments, and no file that an earlier bundle left
\* (app/results.py:75-104).
ReportedBundleIsExact ==
    phase = "done" =>
        /\ exists
        /\ bundle[Manifest] = collected
        /\ bundle[Summary] = RecordedExperiments(collected)
        /\ \A a \in ArtifactSet : bundle[a] = collected[a]

\* When nothing changed meanwhile the command succeeds, whatever an earlier
\* one left behind, and delivers exactly the passed experiments, as they are.
DeliversWhatHasPassed ==
    ~disturbed =>
        /\ phase # "failed"
        /\ phase = "done" => bundle = [f \in BundleFiles |->
               IF f = Manifest THEN Deliverable
               ELSE IF f = Summary THEN RecordedExperiments(Deliverable)
               ELSE Deliverable[f]]
=============================================================================
