----------------------- MODULE DeliveryBundle_proofs -----------------------
(***************************************************************************)
(* Theorems about DeliveryBundle, for any number of experiments and of     *)
(* artifacts: a bundle reported as generated or as current is exactly its  *)
(* manifest, and a command nothing disturbs delivers what has passed.      *)
(***************************************************************************)
EXTENDS DeliveryBundle, TLAPS

\* The files of the results directory, left by any command, finished or not:
\* a manifest is only there when nothing it does not record is.
BundleInv ==
    /\ bundle = [f \in BundleFiles |-> bundle[f]]
    /\ ~exists => \A f \in BundleFiles : bundle[f] = Absent
    /\ bundle[Manifest] # Absent =>
           \A a \in ArtifactSet : bundle[Manifest][a] = Absent => bundle[a] = Absent

\* What the command at hand has brought about in the results directory.
CommandInv ==
    /\ phase \in {"idle", "discarding", "removing"} => next = 1
    /\ phase = "copying" =>
           /\ bundle[Manifest] = Absent
           /\ \A a \in ArtifactSet : collected[a] = Absent => bundle[a] = Absent
           /\ next > 1 => exists
    /\ phase \in {"summarising", "validating"} => exists /\ bundle[Manifest] = collected
    /\ phase = "validating" => bundle[Summary] = RecordedExperiments(collected)
    /\ phase = "done" => IsCurrent(collected)

\* What an undisturbed command has collected is what is to be delivered.
CollectedInv ==
    ~disturbed =>
        /\ phase # "failed"
        /\ phase = "collecting" =>
               \A i \in 1..(next - 1) :
                   collected[Artifacts[i]] = Deliverable[Artifacts[i]]
        /\ phase = "collecting" /\ next > 1 =>
               passed = Passed(ExperimentOf[Artifacts[next - 1]])
        /\ phase \in {"removing", "copying", "summarising", "validating", "done"} =>
               collected = Deliverable

\* And what it has copied is what it has collected.
CopiedInv ==
    ~disturbed =>
        /\ phase = "copying" =>
               \A i \in 1..(next - 1) :
                   collected[Artifacts[i]] # Absent =>
                       bundle[Artifacts[i]] = collected[Artifacts[i]]
        /\ phase \in {"summarising", "validating"} => CopiesMatch(collected)

IInv == TypeOK /\ BundleInv /\ CommandInv /\ CollectedInv /\ CopiedInv

----------------------------------------------------------------------------
(* The constants.                                                          *)

\* The artifacts are those at the positions of the sequence.
LEMMA Positions ==
    /\ Len(Artifacts) \in Nat \ {0}
    /\ DOMAIN Artifacts = 1..Len(Artifacts)
    /\ \A i \in 1..Len(Artifacts) : Artifacts[i] \in ArtifactSet
    /\ \A a \in ArtifactSet : \E i \in 1..Len(Artifacts) : Artifacts[i] = a
<1>1. Artifacts \in Seq(ArtifactSet) BY BundleAssumption DEF BundleAssumption
<1>2. Len(Artifacts) \in Nat /\ DOMAIN Artifacts = 1..Len(Artifacts) BY <1>1
<1>3. Len(Artifacts) # 0 BY <1>1, RecipesAssumption DEF RecipesAssumption
<1>4. \A i \in 1..Len(Artifacts) : Artifacts[i] \in ArtifactSet BY <1>2 DEF ArtifactSet
<1>5. \A a \in ArtifactSet : \E i \in 1..Len(Artifacts) : Artifacts[i] = a
    BY <1>2 DEF ArtifactSet
<1> QED BY <1>2, <1>3, <1>4, <1>5

\* Manifest, summary and artifacts are different files, and a manifest is
\* never mistaken for a file that is not there.
LEMMA Files ==
    /\ Manifest \in BundleFiles /\ Summary \in BundleFiles /\ Manifest # Summary
    /\ ArtifactSet \subseteq BundleFiles
    /\ Manifest \notin ArtifactSet /\ Summary \notin ArtifactSet
    /\ Absent \notin Versions /\ Torn \notin Versions /\ Absent # Torn
    /\ Absent \notin Records
BY BundleAssumption DEF BundleAssumption, BundleFiles, Manifest, Summary

\* The experiments of a manifest are experiments.
LEMMA RecordedAreExperiments == \A r : RecordedExperiments(r) \subseteq Experiments
BY DEF RecordedExperiments, Experiments

\* What is to be delivered is a manifest.
LEMMA DeliverableIsRecords == TypeOK => Deliverable \in Records
BY DEF TypeOK, Deliverable, Records

\* The artifact before one that is not the first of its experiment is of the
\* same experiment.
LEMMA Adjacent ==
    ASSUME NEW n \in 1..Len(Artifacts), n > 1,
           NEW i \in 1..(n - 1), ExperimentOf[Artifacts[i]] = ExperimentOf[Artifacts[n]]
    PROVE  ExperimentOf[Artifacts[n - 1]] = ExperimentOf[Artifacts[n]]
<1>1. i \in DOMAIN Artifacts /\ n \in DOMAIN Artifacts /\ n - 1 \in DOMAIN Artifacts
      /\ i <= n - 1 /\ n - 1 <= n
    BY Positions
<1> QED BY <1>1, RecipesAssumption DEF RecipesAssumption

----------------------------------------------------------------------------
(* The invariant holds initially and is kept by every action.              *)

LEMMA InitHolds == Init => IInv
<1> SUFFICES ASSUME Init PROVE IInv OBVIOUS
<1> USE DEF Init
<1>1. TypeOK
  <2>1. \A f \in BundleFiles : bundle[f] = Absent BY DEF EmptyBundle
  <2>2. collected \in Records BY DEF NoRecords, Records
  <2>3. /\ \A a \in ArtifactSet : bundle[a] = Absent
        /\ bundle[Manifest] = Absent /\ bundle[Summary] = Absent
      BY <2>1, Files
  <2>4. next \in 1..(Len(Artifacts) + 1) BY Positions
  <2>5. outputs \in Records BY DEF Records
  <2> QED BY <2>2, <2>3, <2>4, <2>5 DEF TypeOK
<1>2. BundleInv BY Files DEF BundleInv, EmptyBundle
<1>3. CommandInv BY DEF CommandInv
<1>4. CollectedInv BY DEF CollectedInv
<1>5. CopiedInv BY DEF CopiedInv
<1> QED BY <1>1, <1>2, <1>3, <1>4, <1>5 DEF IInv

LEMMA StutterKeeps == IInv /\ UNCHANGED vars => IInv'
<1> SUFFICES ASSUME IInv, UNCHANGED vars PROVE IInv' OBVIOUS
<1> USE DEF vars, results, local
<1>1. TypeOK' BY DEF IInv, TypeOK
<1>2. BundleInv' BY DEF IInv, BundleInv
<1>3. CommandInv' BY DEF IInv, CommandInv, IsCurrent, IsManifestOf, CopiesMatch
<1>4. CollectedInv' BY DEF IInv, CollectedInv, Deliverable, Passed
<1>5. CopiedInv' BY DEF IInv, CopiedInv, CopiesMatch
<1> QED BY <1>1, <1>2, <1>3, <1>4, <1>5 DEF IInv

LEMMA ChangeOutputKeeps ==
    ASSUME IInv, NEW a \in ArtifactSet, ChangeOutput(a) PROVE IInv'
<1> USE DEF ChangeOutput, results, local
<1>1. TypeOK'
  <2>1. outputs' \in Records BY DEF IInv, TypeOK, Records
  <2> QED BY <2>1 DEF IInv, TypeOK
<1>2. BundleInv' BY DEF IInv, BundleInv
<1>3. CommandInv' BY DEF IInv, CommandInv, IsCurrent, IsManifestOf, CopiesMatch
<1>4. ~disturbed' => phase' = "idle" OBVIOUS
<1>5. CollectedInv' BY <1>4 DEF CollectedInv
<1>6. CopiedInv' BY <1>4 DEF CopiedInv
<1> QED BY <1>1, <1>2, <1>3, <1>5, <1>6 DEF IInv

LEMMA StartKeeps == ASSUME IInv, Start PROVE IInv'
<1> USE DEF Start, results
<1>1. TypeOK' BY DEF IInv, TypeOK
<1>2. BundleInv' BY DEF IInv, BundleInv
<1>3. CommandInv' BY DEF IInv, CommandInv
<1>4. CollectedInv' BY DEF IInv, CollectedInv, CommandInv
<1>5. CopiedInv' BY DEF IInv, CopiedInv
<1> QED BY <1>1, <1>2, <1>3, <1>4, <1>5 DEF IInv

LEMMA RemoveFileKeeps == ASSUME IInv, RemoveFile PROVE IInv'
<1> PICK f \in BundleFiles : bundle' = [bundle EXCEPT ![f] = Absent] BY DEF RemoveFile
<1>1. \A g \in BundleFiles : bundle'[g] = IF g = f THEN Absent ELSE bundle[g]
    BY DEF IInv, BundleInv
<1> USE DEF RemoveFile, local
<1>2. TypeOK' BY <1>1, Files DEF IInv, TypeOK
<1>3. BundleInv'
  <2>1. bundle' = [g \in BundleFiles |-> bundle'[g]] BY <1>1 DEF IInv, BundleInv
  <2>2. ~exists' => \A g \in BundleFiles : bundle'[g] = Absent
      BY <1>1 DEF IInv, BundleInv
  <2>3. bundle'[Manifest] # Absent => \A a \in ArtifactSet :
            bundle'[Manifest][a] = Absent => bundle'[a] = Absent
      BY <1>1, Files DEF IInv, BundleInv
  <2> QED BY <2>1, <2>2, <2>3 DEF BundleInv
<1>4. CommandInv' BY DEF IInv, CommandInv
<1>5. CollectedInv' BY DEF IInv, CollectedInv, Deliverable, Passed
<1>6. CopiedInv' BY DEF IInv, CopiedInv
<1> QED BY <1>2, <1>3, <1>4, <1>5, <1>6 DEF IInv

LEMMA RemoveDirectoryKeeps == ASSUME IInv, RemoveDirectory PROVE IInv'
<1>1. \A f \in BundleFiles : bundle[f] = Absent BY DEF RemoveDirectory, EmptyBundle
<1> USE DEF RemoveDirectory, Goto, local
<1>2. TypeOK' BY DEF IInv, TypeOK
<1>3. BundleInv' BY <1>1, Files DEF IInv, BundleInv
<1>4. CommandInv' BY <1>1, Files DEF IInv, CommandInv
<1>5. next = 1 /\ next' = 1 BY DEF IInv, CommandInv
<1>6. CollectedInv' BY <1>5 DEF IInv, CollectedInv, Deliverable, Passed
<1>7. CopiedInv' BY <1>5 DEF IInv, CopiedInv
<1> QED BY <1>2, <1>3, <1>4, <1>6, <1>7 DEF IInv

\* What Collect finds of the experiment at hand, as the invariant has it: the
\* artifact before is of the same experiment, or the experiment is inspected.
LEMMA CollectsWhatHasPassed ==
    ASSUME IInv, Collect, ~disturbed
    PROVE  passed' = Passed(ExperimentOf[Artifacts[next]])
<1> DEFINE e == ExperimentOf[Artifacts[next]]
           isFirst == \A i \in 1..(next - 1) : ExperimentOf[Artifacts[i]] # e
<1>1. passed' = IF isFirst THEN Passed(e) ELSE passed BY DEF Collect
<1>2. CASE isFirst BY <1>1, <1>2
<1>3. CASE ~isFirst
  <2>1. PICK i \in 1..(next - 1) : ExperimentOf[Artifacts[i]] = e BY <1>3
  <2>2. next \in 1..Len(Artifacts) /\ next > 1
      BY Positions, <2>1 DEF IInv, TypeOK, Collect
  <2>3. ExperimentOf[Artifacts[next - 1]] = e BY <2>1, <2>2, Adjacent
  <2>4. passed = Passed(ExperimentOf[Artifacts[next - 1]])
      BY <2>2 DEF IInv, CollectedInv, Collect
  <2> QED BY <1>1, <1>3, <2>3, <2>4
<1> QED BY <1>2, <1>3

LEMMA CollectKeeps == ASSUME IInv, Collect PROVE IInv'
<1> DEFINE a == Artifacts[next]
           e == ExperimentOf[a]
           isLast == \A i \in (next + 1)..Len(Artifacts) : ExperimentOf[Artifacts[i]] # e
<1>1. /\ phase = "collecting" /\ next \in 1..Len(Artifacts) /\ a \in ArtifactSet
      /\ next' = next + 1
      /\ UNCHANGED <<outputs, exists, bundle, overwrite, disturbed>>
    BY Positions DEF IInv, TypeOK, Collect, results
<1>2. passed' \in BOOLEAN BY DEF IInv, TypeOK, Collect, Passed
<1>3. collected' = [collected EXCEPT ![a] = IF passed' THEN outputs[a] ELSE Absent]
    BY DEF Collect
<1>4. \A b \in ArtifactSet :
          collected'[b] = IF b # a THEN collected[b]
                          ELSE IF passed' THEN outputs[a] ELSE Absent
    BY <1>1, <1>3 DEF IInv, TypeOK, Records
<1>5. phase' = IF /\ isLast /\ passed'
                  /\ \A d \in Documents \cap OwnArtifacts(e) : collected'[d] = Absent
               THEN "failed" ELSE "collecting"
    BY DEF Collect, Goto
<1>6. TypeOK'
  <2>1. collected' \in Records BY <1>1, <1>3 DEF IInv, TypeOK, Records
  <2>2. next' \in 1..(Len(Artifacts) + 1) BY <1>1, Positions
  <2> QED BY <1>1, <1>2, <1>5, <2>1, <2>2 DEF IInv, TypeOK
<1>7. BundleInv' BY <1>1 DEF IInv, BundleInv
<1>8. CommandInv' BY <1>1, <1>5 DEF CommandInv
<1>9. CopiedInv' BY <1>5 DEF CopiedInv
<1>10. CollectedInv'
  <2> SUFFICES ASSUME ~disturbed' PROVE
        /\ phase' # "failed"
        /\ \A i \in 1..next : collected'[Artifacts[i]] = Deliverable[Artifacts[i]]
        /\ passed' = Passed(e)
      BY <1>1, <1>5, Positions DEF CollectedInv, Deliverable, Passed
  <2>1. ~disturbed BY <1>1
  <2>2. passed' = Passed(e) BY <2>1, CollectsWhatHasPassed
  <2>3. collected'[a] = Deliverable[a] BY <1>1, <1>4, <2>2 DEF Deliverable
  <2>4. ASSUME NEW i \in 1..(next - 1)
        PROVE  collected'[Artifacts[i]] = Deliverable[Artifacts[i]]
    <3>1. Artifacts[i] \in ArtifactSet BY <1>1, Positions
    <3>2. collected[Artifacts[i]] = Deliverable[Artifacts[i]]
        BY <1>1, <2>1 DEF IInv, CollectedInv
    <3> QED BY <3>1, <3>2, <1>4, <2>3
  <2>5. \A i \in 1..next : collected'[Artifacts[i]] = Deliverable[Artifacts[i]]
    <3>1. \A i \in 1..next : i \in 1..(next - 1) \/ i = next BY <1>1
    <3> QED BY <3>1, <2>3, <2>4
  <2>6. ASSUME isLast, passed'
        PROVE  \E d \in Documents \cap OwnArtifacts(e) : collected'[d] # Absent
    <3>1. e \in Experiments BY <1>1 DEF Experiments
    <3>2. PICK d \in Documents : ExperimentOf[d] = e
        BY <3>1, RecipesAssumption DEF RecipesAssumption
    <3>3. d \in ArtifactSet /\ d \in OwnArtifacts(e)
        BY <3>2, BundleAssumption DEF BundleAssumption, OwnArtifacts
    <3>4. PICK i \in 1..Len(Artifacts) : Artifacts[i] = d BY <3>3, Positions
    <3>5. i \in 1..next BY <3>2, <3>4, <2>6, <1>1, Positions
    <3>6. collected'[d] = Deliverable[d] BY <3>4, <3>5, <2>5
    <3>7. Deliverable[d] = outputs[d] BY <2>2, <2>6, <3>2, <3>3 DEF Deliverable
    <3>8. outputs[d] # Absent BY <2>2, <2>6, <3>3 DEF Passed
    <3> QED BY <3>2, <3>3, <3>6, <3>7, <3>8
  <2>7. phase' # "failed" BY <1>5, <2>6
  <2> QED BY <2>2, <2>5, <2>7
<1> QED BY <1>6, <1>7, <1>8, <1>9, <1>10 DEF IInv

LEMMA CompareKeeps == ASSUME IInv, Compare PROVE IInv'
<1>1. /\ phase = "collecting" /\ next > Len(Artifacts)
      /\ next' = 1 /\ passed' = FALSE
      /\ phase' = IF IsCurrent(collected) THEN "done"
                  ELSE IF exists THEN "removing" ELSE "copying"
      /\ UNCHANGED <<outputs, exists, bundle, overwrite, collected, disturbed>>
    BY DEF Compare, Goto, results
<1>2. TypeOK'
  <2>1. phase' \in {"done", "removing", "copying"} BY <1>1
  <2>2. next' \in 1..(Len(Artifacts) + 1) BY <1>1, Positions
  <2> QED BY <1>1, <2>1, <2>2 DEF IInv, TypeOK
<1>3. BundleInv' BY <1>1 DEF IInv, BundleInv
<1>4. CommandInv'
  <2>1. phase' = "done" => IsCurrent(collected)'
      BY <1>1 DEF IsCurrent, IsManifestOf, CopiesMatch
  <2>2. phase' = "copying" =>
            /\ bundle'[Manifest] = Absent
            /\ \A a \in ArtifactSet : collected'[a] = Absent => bundle'[a] = Absent
      BY <1>1, Files DEF IInv, BundleInv
  <2> QED BY <1>1, <2>1, <2>2 DEF CommandInv
<1>5. CopiedInv' BY <1>1 DEF CopiedInv
<1>6. CollectedInv'
  <2> SUFFICES ASSUME ~disturbed' PROVE phase' # "failed" /\ collected' = Deliverable'
      BY <1>1 DEF CollectedInv
  <2>1. \A i \in 1..Len(Artifacts) : collected[Artifacts[i]] = Deliverable[Artifacts[i]]
      BY <1>1, Positions DEF IInv, TypeOK, CollectedInv
  <2>2. \A a \in ArtifactSet : collected[a] = Deliverable[a] BY <2>1, Positions
  <2>3. collected \in Records /\ Deliverable \in Records
      BY DeliverableIsRecords DEF IInv, TypeOK
  <2>4. collected = Deliverable BY <2>2, <2>3 DEF Records
  <2>5. Deliverable' = Deliverable BY <1>1 DEF Deliverable, Passed
  <2> QED BY <1>1, <2>4, <2>5
<1> QED BY <1>2, <1>3, <1>4, <1>5, <1>6 DEF IInv

LEMMA CopyKeeps == ASSUME IInv, Copy PROVE IInv'
<1> DEFINE a == Artifacts[next]
<1>1. /\ phase = "copying" /\ next \in 1..Len(Artifacts) /\ a \in ArtifactSet
      /\ exists' = TRUE
      /\ UNCHANGED <<outputs, overwrite, passed, collected, disturbed>>
    BY Positions DEF IInv, TypeOK, Copy
<1>2. bundle[Manifest] = Absent BY <1>1 DEF IInv, CommandInv
<1>3. \A b \in ArtifactSet : collected[b] = Absent => bundle[b] = Absent
    BY <1>1 DEF IInv, CommandInv
\* The artifact has gone since it was collected: then something disturbs.
<1>4. CASE collected[a] # Absent /\ outputs[a] = Absent
  <2>1. phase' = "failed" /\ UNCHANGED <<next, bundle>> BY <1>4 DEF Copy, Goto
  <2>2. TypeOK' BY <1>1, <2>1 DEF IInv, TypeOK
  <2>3. BundleInv' BY <1>1, <2>1 DEF IInv, BundleInv
  <2>4. CommandInv' BY <2>1 DEF CommandInv
  <2>5. disturbed'
    <3>1. SUFFICES ASSUME ~disturbed PROVE FALSE BY <1>1 DEF IInv, TypeOK
    <3>2. collected[a] = Deliverable[a] BY <1>1, <3>1 DEF IInv, CollectedInv
    <3>3. Deliverable[a] \in {outputs[a], Absent} BY <1>1 DEF Deliverable
    <3> QED BY <1>4, <3>2, <3>3
  <2>6. CollectedInv' /\ CopiedInv' BY <2>5 DEF CollectedInv, CopiedInv
  <2> QED BY <2>2, <2>3, <2>4, <2>6 DEF IInv
<1>5. CASE ~(collected[a] # Absent /\ outputs[a] = Absent)
  <2>1. /\ next' = next + 1 /\ phase' = phase
        /\ bundle' = IF collected[a] # Absent
                     THEN [bundle EXCEPT ![a] = outputs[a]] ELSE bundle
      BY <1>5 DEF Copy
  <2>2. \A f \in BundleFiles :
            bundle'[f] = IF f = a /\ collected[a] # Absent THEN outputs[a] ELSE bundle[f]
      BY <1>1, <2>1, Files DEF IInv, BundleInv
  <2>3. bundle'[Manifest] = Absent /\ bundle'[Summary] = bundle[Summary]
      BY <1>1, <1>2, <2>2, Files
  <2>4. \A b \in ArtifactSet :
            bundle'[b] = IF b = a /\ collected[a] # Absent THEN outputs[a] ELSE bundle[b]
      BY <2>2, Files
  <2>5. TypeOK'
    <3>1. outputs[a] \in Versions \cup {Absent} BY <1>1 DEF IInv, TypeOK, Records
    <3>2. \A b \in ArtifactSet : bundle'[b] \in Versions \cup {Absent, Torn}
        BY <2>4, <3>1 DEF IInv, TypeOK
    <3>3. next' \in 1..(Len(Artifacts) + 1) BY <1>1, <2>1, Positions
    <3> QED BY <1>1, <2>1, <2>3, <3>2, <3>3 DEF IInv, TypeOK
  <2>6. BundleInv'
    <3>1. bundle' = [f \in BundleFiles |-> bundle'[f]]
        BY <1>1, <2>1 DEF IInv, BundleInv
    <3> QED BY <1>1, <2>3, <3>1 DEF BundleInv
  <2>7. CommandInv'
    <3>1. \A b \in ArtifactSet : collected[b] = Absent => bundle'[b] = Absent
        BY <1>3, <2>4
    <3> QED BY <1>1, <2>1, <2>3, <3>1 DEF CommandInv
  <2>8. CollectedInv' BY <1>1, <2>1 DEF IInv, CollectedInv, Deliverable, Passed
  <2>9. CopiedInv'
    <3> SUFFICES ASSUME ~disturbed', NEW i \in 1..next, collected[Artifacts[i]] # Absent
                 PROVE  bundle'[Artifacts[i]] = collected[Artifacts[i]]
        BY <1>1, <2>1, Positions DEF CopiedInv
    <3>1. Artifacts[i] \in ArtifactSet BY <1>1, Positions
    <3>2. CASE Artifacts[i] = a
      <4>1. collected = Deliverable BY <1>1 DEF IInv, CollectedInv
      <4>2. collected[a] = outputs[a] BY <1>1, <3>2, <4>1 DEF Deliverable
      <4> QED BY <2>4, <3>1, <3>2, <4>2
    <3>3. CASE Artifacts[i] # a
      <4>1. i \in 1..(next - 1) BY <1>1, <3>3, Positions
      <4>2. bundle[Artifacts[i]] = collected[Artifacts[i]]
          BY <1>1, <4>1 DEF IInv, CopiedInv
      <4> QED BY <2>4, <3>1, <3>3, <4>2
    <3> QED BY <3>2, <3>3
  <2> QED BY <2>5, <2>6, <2>7, <2>8, <2>9 DEF IInv
<1> QED BY <1>4, <1>5

LEMMA WriteManifestKeeps == ASSUME IInv, WriteManifest PROVE IInv'
<1>1. /\ phase = "copying" /\ next > Len(Artifacts) /\ phase' = "summarising"
      /\ bundle' = [bundle EXCEPT ![Manifest] = collected]
      /\ UNCHANGED <<outputs, exists, overwrite, next, passed, collected, disturbed>>
    BY DEF WriteManifest, Goto, local
<1>2. /\ bundle'[Manifest] = collected /\ bundle'[Summary] = bundle[Summary]
      /\ \A b \in ArtifactSet : bundle'[b] = bundle[b]
      /\ bundle' = [f \in BundleFiles |-> bundle'[f]]
    BY <1>1, Files DEF IInv, BundleInv
<1>3. exists BY <1>1, Positions DEF IInv, TypeOK, CommandInv
<1>4. \A b \in ArtifactSet : collected[b] = Absent => bundle[b] = Absent
    BY <1>1 DEF IInv, CommandInv
<1>5. TypeOK' BY <1>1, <1>2 DEF IInv, TypeOK
<1>6. BundleInv' BY <1>1, <1>2, <1>3, <1>4 DEF BundleInv
<1>7. CommandInv' BY <1>1, <1>2, <1>3 DEF CommandInv
<1>8. CollectedInv' BY <1>1 DEF IInv, CollectedInv, Deliverable, Passed
<1>9. CopiedInv'
  <2> SUFFICES ASSUME ~disturbed', NEW b \in ArtifactSet, collected[b] # Absent
               PROVE  bundle'[b] = collected[b]
      BY <1>1 DEF CopiedInv, CopiesMatch
  <2>1. PICK i \in 1..Len(Artifacts) : Artifacts[i] = b BY Positions
  <2>2. i \in 1..(next - 1) BY <1>1, Positions DEF IInv, TypeOK
  <2> QED BY <1>1, <1>2, <2>1, <2>2 DEF IInv, CopiedInv
<1> QED BY <1>5, <1>6, <1>7, <1>8, <1>9 DEF IInv

LEMMA WriteSummaryKeeps == ASSUME IInv, WriteSummary PROVE IInv'
<1>1. /\ phase = "summarising" /\ phase' = "validating"
      /\ bundle' = [bundle EXCEPT ![Summary] = RecordedExperiments(collected)]
      /\ UNCHANGED <<outputs, exists, overwrite, next, passed, collected, disturbed>>
    BY DEF WriteSummary, Goto, local
<1>2. /\ bundle'[Manifest] = bundle[Manifest]
      /\ bundle'[Summary] = RecordedExperiments(collected)
      /\ \A b \in ArtifactSet : bundle'[b] = bundle[b]
      /\ bundle' = [f \in BundleFiles |-> bundle'[f]]
    BY <1>1, Files DEF IInv, BundleInv
<1>3. exists /\ bundle[Manifest] = collected BY <1>1 DEF IInv, CommandInv
<1>4. TypeOK' BY <1>1, <1>2, RecordedAreExperiments DEF IInv, TypeOK
<1>5. BundleInv' BY <1>1, <1>2, <1>3 DEF IInv, BundleInv
<1>6. RecordedExperiments(collected)' = RecordedExperiments(collected)
    BY <1>1 DEF RecordedExperiments
<1>7. CommandInv' BY <1>1, <1>2, <1>3, <1>6 DEF CommandInv
<1>8. CollectedInv' BY <1>1 DEF IInv, CollectedInv, Deliverable, Passed
<1>9. CopiedInv' BY <1>1, <1>2 DEF IInv, CopiedInv, CopiesMatch
<1> QED BY <1>4, <1>5, <1>7, <1>8, <1>9 DEF IInv

LEMMA ValidateKeeps == ASSUME IInv, Validate PROVE IInv'
<1>1. /\ phase = "validating"
      /\ phase' = IF CopiesMatch(collected) THEN "done" ELSE "failed"
      /\ UNCHANGED <<outputs, exists, bundle, overwrite, next, passed, collected, disturbed>>
    BY DEF Validate, Goto, results, local
<1>2. TypeOK' BY <1>1 DEF IInv, TypeOK
<1>3. BundleInv' BY <1>1 DEF IInv, BundleInv
<1>4. CommandInv'
  <2>1. IsManifestOf(collected) BY <1>1 DEF IInv, CommandInv, IsManifestOf
  <2>2. phase' = "done" => IsCurrent(collected) BY <1>1, <2>1 DEF IsCurrent
  <2>3. IsCurrent(collected)' = IsCurrent(collected)
      BY <1>1 DEF IsCurrent, IsManifestOf, CopiesMatch, RecordedExperiments
  <2> QED BY <1>1, <2>2, <2>3 DEF CommandInv
<1>5. ~disturbed => CopiesMatch(collected) BY <1>1 DEF IInv, CopiedInv
<1>6. CollectedInv' BY <1>1, <1>5 DEF IInv, CollectedInv, Deliverable, Passed
<1>7. CopiedInv' BY <1>1 DEF CopiedInv
<1> QED BY <1>2, <1>3, <1>4, <1>6, <1>7 DEF IInv

\* What is left of the command when it returns, raises or is killed.
LEMMA ForgetKeeps ==
    ASSUME IInv, Forget, outputs' = outputs, TypeOK', BundleInv' PROVE IInv'
<1>1. CommandInv' BY DEF CommandInv, Forget
<1>2. CollectedInv' BY DEF CollectedInv, Forget
<1>3. CopiedInv' BY DEF CopiedInv, Forget
<1> QED BY <1>1, <1>2, <1>3 DEF IInv

LEMMA EndKeeps == ASSUME IInv, End PROVE IInv'
<1>1. Forget /\ UNCHANGED <<outputs, exists, bundle>> BY DEF End, results
<1>2. TypeOK'
  <2>1. collected' \in Records /\ next' \in 1..(Len(Artifacts) + 1)
      BY <1>1, Positions DEF Forget, NoRecords, Records
  <2> QED BY <1>1, <2>1 DEF IInv, TypeOK, Forget
<1>3. BundleInv' BY <1>1 DEF IInv, BundleInv
<1> QED BY <1>1, <1>2, <1>3, ForgetKeeps

LEMMA DieCopyingKeeps == ASSUME IInv, DieCopying PROVE IInv'
<1> DEFINE a == Artifacts[next]
<1>1. /\ phase = "copying" /\ a \in ArtifactSet /\ exists' = TRUE
      /\ bundle' = [bundle EXCEPT ![a] = Torn]
      /\ Forget /\ outputs' = outputs
    BY Positions DEF IInv, TypeOK, DieCopying
<1>2. bundle[Manifest] = Absent BY <1>1 DEF IInv, CommandInv
<1>3. /\ bundle'[Manifest] = Absent /\ bundle'[Summary] = bundle[Summary]
      /\ \A b \in ArtifactSet : bundle'[b] = IF b = a THEN Torn ELSE bundle[b]
      /\ bundle' = [f \in BundleFiles |-> bundle'[f]]
    BY <1>1, <1>2, Files DEF IInv, BundleInv
<1>4. TypeOK'
  <2>1. collected' \in Records /\ next' \in 1..(Len(Artifacts) + 1)
      BY <1>1, Positions DEF Forget, NoRecords, Records
  <2>2. \A b \in ArtifactSet : bundle'[b] \in Versions \cup {Absent, Torn}
      BY <1>3 DEF IInv, TypeOK
  <2> QED BY <1>1, <1>3, <2>1, <2>2 DEF IInv, TypeOK, Forget
<1>5. BundleInv' BY <1>1, <1>3 DEF BundleInv
<1> QED BY <1>1, <1>4, <1>5, ForgetKeeps

\* The invariant of a delivery: what is in the results directory belongs to
\* its manifest, and an undisturbed command carries the passed artifacts from
\* one stage to the next (app/results.py:75-104).
THEOREM Invariant == Spec => []IInv
<1>1. Init => IInv BY InitHolds
<1>2. IInv /\ [Next]_vars => IInv'
  <2> SUFFICES ASSUME IInv, [Next]_vars PROVE IInv' OBVIOUS
  <2>1. CASE \E a \in ArtifactSet : ChangeOutput(a) BY <2>1, ChangeOutputKeeps
  <2>2. CASE Start BY <2>2, StartKeeps
  <2>3. CASE RemoveFile BY <2>3, RemoveFileKeeps
  <2>4. CASE RemoveDirectory BY <2>4, RemoveDirectoryKeeps
  <2>5. CASE Collect BY <2>5, CollectKeeps
  <2>6. CASE Compare BY <2>6, CompareKeeps
  <2>7. CASE Copy BY <2>7, CopyKeeps
  <2>8. CASE WriteManifest BY <2>8, WriteManifestKeeps
  <2>9. CASE WriteSummary BY <2>9, WriteSummaryKeeps
  <2>10. CASE Validate BY <2>10, ValidateKeeps
  <2>11. CASE End BY <2>11, EndKeeps
  <2>12. CASE DieCopying BY <2>12, DieCopyingKeeps
  <2>13. CASE UNCHANGED vars BY <2>13, StutterKeeps
  <2> QED BY <2>1, <2>2, <2>3, <2>4, <2>5, <2>6, <2>7, <2>8, <2>9, <2>10, <2>11,
             <2>12, <2>13 DEF Next, Proceed
<1> QED BY <1>1, <1>2, PTL DEF Spec

----------------------------------------------------------------------------
(* What follows.                                                           *)

\* Every variable stays in its type: a manifest in the results directory is
\* one of records, never a torn file.
THEOREM TypeCorrect == Spec => []TypeOK
<1>1. IInv => TypeOK BY DEF IInv
<1> QED BY <1>1, Invariant, PTL

\* A bundle reported as generated or as current holds exactly what its
\* manifest records, whatever an earlier command, killed or not, had left and
\* whatever changed under outputs meanwhile (app/results.py:75-104).
THEOREM BundleExact == Spec => []ReportedBundleIsExact
<1>1. IInv => ReportedBundleIsExact
  <2> SUFFICES ASSUME IInv, phase = "done"
               PROVE  /\ exists
                      /\ bundle[Manifest] = collected
                      /\ bundle[Summary] = RecordedExperiments(collected)
                      /\ \A a \in ArtifactSet : bundle[a] = collected[a]
      BY DEF ReportedBundleIsExact
  <2>1. IsManifestOf(collected) /\ CopiesMatch(collected)
      BY DEF IInv, CommandInv, IsCurrent
  <2>2. bundle[Manifest] = collected /\ bundle[Manifest] # Absent
      BY <2>1, Files DEF IInv, TypeOK, IsManifestOf
  <2>3. \A a \in ArtifactSet : bundle[a] = collected[a]
      BY <2>1, <2>2 DEF IInv, BundleInv, CopiesMatch
  <2> QED BY <2>1, <2>3 DEF IsManifestOf
<1> QED BY <1>1, Invariant, PTL

\* An undisturbed command cannot fail, and when it is done the results
\* directory holds the artifacts of the passed experiments as they are, their
\* manifest, their summary and nothing else (app/results.py:75-125).
THEOREM PassedDelivered == Spec => []DeliversWhatHasPassed
<1>1. IInv => DeliversWhatHasPassed
  <2> SUFFICES ASSUME IInv, ~disturbed, phase = "done"
               PROVE  bundle = [f \in BundleFiles |->
                          IF f = Manifest THEN Deliverable
                          ELSE IF f = Summary THEN RecordedExperiments(Deliverable)
                          ELSE Deliverable[f]]
      BY DEF DeliversWhatHasPassed, IInv, CollectedInv
  <2>1. collected = Deliverable BY DEF IInv, CollectedInv
  <2>2. IsManifestOf(collected) /\ CopiesMatch(collected)
      BY DEF IInv, CommandInv, IsCurrent
  <2>3. bundle[Manifest] = collected /\ bundle[Manifest] # Absent
      BY <2>2, Files DEF IInv, TypeOK, IsManifestOf
  <2>4. \A a \in ArtifactSet : bundle[a] = collected[a]
      BY <2>2, <2>3 DEF IInv, BundleInv, CopiesMatch
  <2>5. bundle[Summary] = RecordedExperiments(collected) BY <2>2 DEF IsManifestOf
  <2>6. \A f \in BundleFiles :
            bundle[f] = IF f = Manifest THEN Deliverable
                        ELSE IF f = Summary THEN RecordedExperiments(Deliverable)
                        ELSE Deliverable[f]
      BY <2>1, <2>3, <2>4, <2>5 DEF BundleFiles
  <2>7. bundle = [f \in BundleFiles |-> bundle[f]] BY DEF IInv, BundleInv
  <2> QED BY <2>6, <2>7
<1> QED BY <1>1, Invariant, PTL
=============================================================================
