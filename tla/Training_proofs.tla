-------------------------- MODULE Training_proofs --------------------------
(***************************************************************************)
(* The two modules of training, which share nothing but their subject.     *)
(*                                                                         *)
(* TrainingRun: for every protocol and every loss sequence, a training run *)
(* is typed, and whatever a process returns, trained or reloaded, is the   *)
(* outcome the declared convergence criterion gives.                       *)
(*                                                                         *)
(* TrainingEvidence: the evidence a process works with is that of one      *)
(* training, for every set of versions and score frames.  The argument: a  *)
(* process writes only where nothing was, so all whole files of the        *)
(* directory, training and scores alike, always belong to one detector     *)
(* (OneGeneration); what the loaders check file by file is then enough.    *)
(***************************************************************************)
EXTENDS TrainingRun, TrainingEvidence, TLAPS

----------------------------------------------------------------------------
(* The training run.                                                       *)

\* While the loop runs under a criterion, the monitor holds the losses of the
\* completed rounds, and no eligible round before the last was flat.
MonitorFollows ==
    runPhase \in {"training", "trained"} =>
        /\ Len(losses) = IF convergence THEN round ELSE 0
        /\ \A i \in 1..Len(losses) : losses[i] = lossAt[i]
        /\ convergence =>
             /\ \A r \in EligibleRounds : r < round => ~FlatAt(r)
             /\ convergedRound = NoRound =>
                  \A r \in EligibleRounds : r <= round => ~FlatAt(r)
             /\ convergedRound # NoRound =>
                  convergedRound = round /\ round \in EligibleRounds /\ FlatAt(round)

\* The loop ends where a reason for ending exists.
LoopEnds ==
    /\ runPhase = "training" => convergedRound = NoRound /\ round < MaximumRound
    /\ runPhase = "trained" =>
         \/ round = MaximumRound
         \/ convergence /\ convergedRound # NoRound

\* What is on disk, in memory and in the history variable is the outcome the
\* criterion declares.
OutcomesDeclared ==
    /\ published # 0 =>
         DeclaredOutcome([reason |-> ReasonFromHistory(published), rounds |-> published])
    /\ result # None => DeclaredOutcome(result)
    /\ firstResult # None => DeclaredOutcome(firstResult)
    /\ runPhase = "returned" => result # None /\ firstResult # None

RunIInv ==
    /\ RunTypeOK
    /\ MonitorFollows
    /\ LoopEnds
    /\ OutcomesDeclared
    /\ NeverRejected

----------------------------------------------------------------------------

\* The criterion determines the outcome: two outcomes it declares are equal.
LEMMA OutcomeUnique ==
    ASSUME NEW a \in [reason : Reasons, rounds : Rounds],
           NEW b \in [reason : Reasons, rounds : Rounds],
           DeclaredOutcome(a), DeclaredOutcome(b)
    PROVE  a = b
<1> USE ProtocolAssumption DEF Reasons, Rounds, EligibleRounds
<1>1. CASE ~convergence
  BY <1>1 DEF DeclaredOutcome
<1>2. CASE convergence /\ a.reason = "converged" /\ b.reason = "converged"
  <2>1. a.rounds = b.rounds
    BY <1>2 DEF DeclaredOutcome
  <2> QED BY <1>2, <2>1
<1>3. CASE convergence /\ a.reason # "converged" /\ b.reason # "converged"
  BY <1>3 DEF DeclaredOutcome
<1>4. CASE convergence /\ a.reason = "converged" /\ b.reason # "converged"
  BY <1>4 DEF DeclaredOutcome
<1>5. CASE convergence /\ a.reason # "converged" /\ b.reason = "converged"
  BY <1>5 DEF DeclaredOutcome
<1> QED BY <1>1, <1>2, <1>3, <1>4, <1>5

\* Every declared outcome passes the checks FederatedTrainingResult makes.
LEMMA DeclaredIsAccepted ==
    ASSUME NEW a \in [reason : Reasons, rounds : Rounds], DeclaredOutcome(a)
    PROVE  Accepts(a)
BY ProtocolAssumption DEF DeclaredOutcome, Accepts, EligibleRounds, Rounds, Reasons

\* The reason derived from the number of rounds on disk is the reason of the
\* declared outcome with that many rounds.
LEMMA ReasonRederived ==
    ASSUME RunTypeOK,
           NEW a \in [reason : Reasons, rounds : Rounds], DeclaredOutcome(a)
    PROVE  ReasonFromHistory(a.rounds) = a.reason
BY ProtocolAssumption
   DEF DeclaredOutcome, ReasonFromHistory, EligibleRounds, Rounds, Reasons, RunTypeOK

\* The monitor's window test, on losses that follow the coordinate's, is the
\* criterion at that round.
LEMMA ConvergesIsFlat ==
    ASSUME RunTypeOK, NEW r \in Rounds, NEW recorded \in Seq(Losses),
           Len(recorded) = r, \A i \in 1..r : recorded[i] = lossAt[i]
    PROVE  Converges(r, recorded) <=> r \in EligibleRounds /\ FlatAt(r)
<1>1. ASSUME r >= Window
      PROVE  WindowIsFlat(recorded) <=> Flat(lossAt[r - Window + 1], lossAt[r])
  <2>1. r - Window + 1 \in 1..r /\ r \in 1..r
    BY <1>1, ProtocolAssumption DEF Rounds
  <2> QED BY <2>1 DEF WindowIsFlat
<1> QED BY <1>1, ProtocolAssumption DEF Converges, EligibleRounds, FlatAt, Rounds

----------------------------------------------------------------------------

\* A fresh process, with or without a published history, satisfies the invariant.
LEMMA InitRunIInv == RunInit => RunIInv
BY ProtocolAssumption
   DEF RunInit, RunIInv, RunTypeOK, MonitorFollows, LoopEnds, OutcomesDeclared,
       NeverRejected, None, NoRound, Rounds

\* What the loop hands to Publish is a declared outcome.
LEMMA TrainedIsDeclared ==
    ASSUME RunIInv, runPhase = "trained"
    PROVE  LET res == [reason |-> ReasonFromMonitor(convergedRound), rounds |-> round]
           IN  res \in [reason : Reasons, rounds : Rounds] /\ DeclaredOutcome(res)
<1> DEFINE res == [reason |-> ReasonFromMonitor(convergedRound), rounds |-> round]
<1> USE ProtocolAssumption DEF RunIInv, RunTypeOK, LoopEnds, MonitorFollows, Rounds,
        NoRound, ReasonFromMonitor, Reasons
<1>1. round \in Rounds
  BY DEF EligibleRounds
<1>2. CASE ~convergence
  BY <1>1, <1>2 DEF DeclaredOutcome
<1>3. CASE convergence /\ convergedRound # NoRound
  BY <1>1, <1>3 DEF DeclaredOutcome
<1>4. CASE convergence /\ convergedRound = NoRound
  <2>1. \A r \in EligibleRounds : ~FlatAt(r)
    BY <1>4 DEF EligibleRounds
  <2> QED BY <1>1, <1>4, <2>1 DEF DeclaredOutcome
<1> QED BY <1>2, <1>3, <1>4

----------------------------------------------------------------------------

\* Every round, publication, reload, kill and overwrite keeps the invariant.
LEMMA NextRunIInv == RunIInv /\ [RunNext]_runVars => RunIInv'
<1> SUFFICES ASSUME RunIInv, [RunNext]_runVars PROVE RunIInv'
  OBVIOUS
<1> USE ProtocolAssumption DEF data, monitor, NoRound
<1>1. CASE StartTraining
  BY <1>1 DEF StartTraining, RunIInv, RunTypeOK, MonitorFollows, LoopEnds,
     OutcomesDeclared, NeverRejected, Rounds, EligibleRounds, FlatAt,
     DeclaredOutcome, ReasonFromHistory, Flat
<1>2. CASE Reuse
  <2> DEFINE res == [reason |-> ReasonFromHistory(published), rounds |-> published]
  <2>1. published # 0 /\ published \in Rounds /\ runPhase = "stopped"
    BY <1>2 DEF Reuse, RunIInv, RunTypeOK, Rounds
  <2>2. res \in [reason : Reasons, rounds : Rounds]
    BY <2>1 DEF Reasons, ReasonFromHistory
  <2>3. DeclaredOutcome(res)
    BY <2>1 DEF RunIInv, OutcomesDeclared
  <2>4. Accepts(res)
    BY <2>2, <2>3, DeclaredIsAccepted
  <2>5. runPhase' = "returned" /\ result' = res /\ Remember(res)
    BY <1>2, <2>4 DEF Reuse
  <2>6. UNCHANGED <<lossAt, convergence, round, losses, convergedRound, published>>
    BY <1>2 DEF Reuse
  <2> HIDE DEF res
  <2>7. res # None
    BY <2>2 DEF None, Rounds
  <2>8. RunTypeOK'
    BY <2>2, <2>5, <2>6 DEF RunIInv, RunTypeOK, Remember, Rounds
  <2>9. OutcomesDeclared'
    BY <2>3, <2>5, <2>6, <2>7 DEF RunIInv, OutcomesDeclared, Remember,
       DeclaredOutcome, ReasonFromHistory, FlatAt, Flat, EligibleRounds, Rounds
  <2> QED BY <2>5, <2>6, <2>8, <2>9 DEF RunIInv, MonitorFollows, LoopEnds, NeverRejected
<1>3. CASE RunMonitoredRound
  <2>0. PICK r \in Rounds : r = round + 1
    BY <1>3 DEF RunMonitoredRound, RunIInv, RunTypeOK, Rounds
  <2> DEFINE recorded == Append(losses, lossAt[r])
  <2>1. /\ runPhase = "training" /\ convergence /\ r = round + 1
        /\ round \in Nat /\ Len(losses) = round
    BY <1>3, <2>0 DEF RunMonitoredRound, RunIInv, RunTypeOK, MonitorFollows
  <2>2. /\ recorded \in Seq(Losses)
        /\ Len(recorded) = r
        /\ \A i \in 1..r : recorded[i] = lossAt[i]
    <3>1. losses \in Seq(Losses) /\ lossAt[r] \in Losses
      BY <2>1 DEF RunIInv, RunTypeOK
    <3>2. \A i \in 1..round : losses[i] = lossAt[i]
      BY <2>1 DEF RunIInv, MonitorFollows
    <3> QED BY <2>1, <3>1, <3>2
  <2>3. Converges(r, recorded) <=> r \in EligibleRounds /\ FlatAt(r)
    BY <2>1, <2>2, ConvergesIsFlat DEF RunIInv
  <2>4. /\ round' = r /\ losses' = recorded
        /\ convergedRound' = IF Converges(r, recorded) THEN r ELSE NoRound
        /\ runPhase' = IF Converges(r, recorded) \/ r >= MaximumRound
                    THEN "trained" ELSE "training"
        /\ UNCHANGED <<lossAt, convergence, published, result, firstResult>>
    BY <1>3, <2>0 DEF RunMonitoredRound
  <2>5. \A q \in EligibleRounds : q < r => ~FlatAt(q)
    <3>1. convergedRound = NoRound
      BY <2>1 DEF RunIInv, LoopEnds
    <3> QED BY <2>1, <3>1 DEF RunIInv, MonitorFollows, EligibleRounds, Rounds
  <2> HIDE DEF recorded
  <2>6. RunTypeOK'
    BY <2>1, <2>2, <2>4 DEF RunIInv, RunTypeOK, Rounds
  <2>7. MonitorFollows'
    <3>1. \A q \in Rounds : FlatAt(q)' <=> FlatAt(q)
      BY <2>4 DEF FlatAt, Flat
    <3>2. EligibleRounds' = EligibleRounds
      BY DEF EligibleRounds, Rounds
    <3>3. Len(losses') = r /\ \A i \in 1..Len(losses') : losses'[i] = lossAt'[i]
      BY <2>2, <2>4
    <3>4. \A q \in EligibleRounds : q < r => ~FlatAt(q)'
      BY <2>5, <3>1 DEF EligibleRounds
    <3>5. convergedRound' = NoRound => \A q \in EligibleRounds : q <= r => ~FlatAt(q)'
      BY <2>1, <2>3, <2>4, <2>5, <3>1 DEF EligibleRounds, Rounds
    <3>6. convergedRound' # NoRound =>
            convergedRound' = r /\ r \in EligibleRounds /\ FlatAt(r)'
      BY <2>3, <2>4, <3>1
    <3> QED BY <2>1, <2>4, <3>2, <3>3, <3>4, <3>5, <3>6 DEF MonitorFollows
  <2>8. LoopEnds'
    BY <2>1, <2>4 DEF LoopEnds, Rounds
  <2>9. OutcomesDeclared'
    BY <2>1, <2>4 DEF RunIInv, OutcomesDeclared, DeclaredOutcome, ReasonFromHistory,
       FlatAt, Flat, EligibleRounds, Rounds
  <2> QED BY <2>4, <2>6, <2>7, <2>8, <2>9 DEF RunIInv, NeverRejected
<1>4. CASE RunBudgetRound
  BY <1>4 DEF RunBudgetRound, RunIInv, RunTypeOK, MonitorFollows, LoopEnds,
     OutcomesDeclared, NeverRejected, Rounds, EligibleRounds, FlatAt,
     DeclaredOutcome, ReasonFromHistory, Flat
<1>5. CASE Publish
  <2> DEFINE res == [reason |-> ReasonFromMonitor(convergedRound), rounds |-> round]
  <2>1. runPhase = "trained"
    BY <1>5 DEF Publish
  <2>2. res \in [reason : Reasons, rounds : Rounds] /\ DeclaredOutcome(res)
    BY <2>1, TrainedIsDeclared
  <2>3. Accepts(res)
    BY <2>2, DeclaredIsAccepted
  <2>4. /\ runPhase' = "returned" /\ published' = round /\ result' = res /\ Remember(res)
        /\ UNCHANGED <<lossAt, convergence, round, losses, convergedRound>>
    BY <1>5, <2>3 DEF Publish
  <2>5. res.rounds = round
    OBVIOUS
  <2> HIDE DEF res
  <2>6. res = [reason |-> ReasonFromHistory(round), rounds |-> round]
    <3>1. ReasonFromHistory(round) = res.reason
      BY <2>2, <2>5, ReasonRederived DEF RunIInv
    <3> QED BY <2>2, <2>5, <3>1
  <2>7. res # None
    BY <2>2 DEF None, Rounds
  <2>8. RunTypeOK'
    BY <2>2, <2>4 DEF RunIInv, RunTypeOK, Remember, Rounds
  <2>9. OutcomesDeclared'
    <3>1. \A a : DeclaredOutcome(a)' = DeclaredOutcome(a)
      BY <2>4 DEF DeclaredOutcome, FlatAt, Flat, EligibleRounds, Rounds
    <3>2. ReasonFromHistory(published)' = ReasonFromHistory(round)
      BY <2>4 DEF ReasonFromHistory
    <3> QED BY <2>2, <2>4, <2>6, <2>7, <3>1, <3>2
            DEF RunIInv, OutcomesDeclared, Remember
  <2> QED BY <2>4, <2>8, <2>9 DEF RunIInv, MonitorFollows, LoopEnds, NeverRejected
<1>6. CASE Exit
  BY <1>6 DEF Exit, RunIInv, RunTypeOK, MonitorFollows, LoopEnds,
     OutcomesDeclared, NeverRejected, Rounds, EligibleRounds, FlatAt,
     DeclaredOutcome, ReasonFromHistory, Flat
<1>7. CASE Overwrite
  BY <1>7 DEF Overwrite, RunIInv, RunTypeOK, MonitorFollows, LoopEnds,
     OutcomesDeclared, NeverRejected, Rounds, EligibleRounds, FlatAt,
     DeclaredOutcome, ReasonFromHistory, Flat
<1>8. CASE UNCHANGED runVars
  BY <1>8 DEF runVars, RunIInv, RunTypeOK, MonitorFollows, LoopEnds,
     OutcomesDeclared, NeverRejected, Rounds, EligibleRounds, FlatAt,
     DeclaredOutcome, ReasonFromHistory, Flat
<1> QED BY <1>1, <1>2, <1>3, <1>4, <1>5, <1>6, <1>7, <1>8 DEF RunNext

----------------------------------------------------------------------------

\* The inductive invariant: whatever has been trained, published or returned so
\* far is what the declared criterion gives for the coordinate's losses.
THEOREM RunInvariantHolds == RunSpec => []RunIInv
<1>1. RunInit => RunIInv
  BY InitRunIInv
<1>2. RunIInv /\ [RunNext]_runVars => RunIInv'
  BY NextRunIInv
<1> QED BY <1>1, <1>2, PTL DEF RunSpec

\* The type invariant, for every protocol.
THEOREM RunTypeCorrect == RunSpec => []RunTypeOK
<1>1. RunIInv => RunTypeOK
  BY DEF RunIInv
<1> QED BY <1>1, RunInvariantHolds, PTL

\* Whatever a process returns, trained now or reloaded from disk, is the
\* outcome the declared criterion gives for the coordinate's losses.
THEOREM DeclaredOutcomeReturned == RunSpec => []ReturnsDeclaredOutcome
<1>1. RunIInv => ReturnsDeclaredOutcome
  BY DEF RunIInv, OutcomesDeclared, ReturnsDeclaredOutcome
<1> QED BY <1>1, RunInvariantHolds, PTL

\* No result is refused by the checks made when it is constructed.
THEOREM NeverRejects == RunSpec => []NeverRejected
<1>1. RunIInv => NeverRejected
  BY DEF RunIInv
<1> QED BY <1>1, RunInvariantHolds, PTL

\* Every process returns the result the first one returned.
THEOREM ResultReproduced == RunSpec => []ResultIsReproducible
<1>1. RunIInv => ResultIsReproducible
  <2> SUFFICES ASSUME RunIInv, runPhase = "returned" PROVE result = firstResult
    BY DEF ResultIsReproducible
  <2>1. result # None /\ firstResult # None
    BY DEF RunIInv, OutcomesDeclared
  <2>2. /\ result \in [reason : Reasons, rounds : Rounds]
        /\ firstResult \in [reason : Reasons, rounds : Rounds]
    BY <2>1 DEF RunIInv, RunTypeOK
  <2>3. DeclaredOutcome(result) /\ DeclaredOutcome(firstResult)
    BY <2>1 DEF RunIInv, OutcomesDeclared
  <2> QED BY <2>2, <2>3, OutcomeUnique
<1> QED BY <1>1, RunInvariantHolds, PTL

----------------------------------------------------------------------------
(* The training directory.                                                 *)

Of(f, v) == Whole(f) => disk[f].detector = v

\* All whole files belong to one detector, the one a process holds if it holds one.
OneGeneration == \E v \in Versions : \A f \in Files : Of(f, v)

Shapes ==
    /\ disk \in [Files -> Contents \cup {Absent, Torn}]
    /\ scoresDir \in BOOLEAN
    /\ phase \in Phases
    /\ inputs \in Versions /\ current \in Versions
    /\ overwrite \in BOOLEAN
    /\ detector \in Versions \cup {NoDetector}
    /\ next \in Nat

\* Score files are in the scores directory.
ScoresInside == ~scoresDir => \A f \in ScoreEntries : disk[f] = Absent

\* Positions are used only while writing.
Positions ==
    /\ phase \in {"down", "removing", "removing_scores", "loading", "scoring", "failed"}
         => next = 1
    /\ phase = "writing" => next \in 1..5
    /\ phase \in {"writing_scores", "ready"} => next \in 1..(Len(FrameOrder) + 1)

Trained == phase \in {"writing", "scoring", "writing_scores", "ready"}

\* While the publication is written, nothing else is in the directory and the
\* files before the position are there.
TrainingWritten ==
    phase = "writing" =>
        /\ ~scoresDir
        /\ \A f \in Files : Of(f, detector)
        /\ \A i \in 1..(next - 1) :
             TrainingOrder[i] # "device_tmp" =>
                 disk[TrainingOrder[i]] = [detector |-> detector, inputs |-> detector]

\* While the scores are written, the frames before the position are there.
FramesWritten ==
    phase = "writing_scores" =>
        /\ scoresDir
        /\ \A i \in 1..(next - 1) :
             disk[FrameOrder[i]] = [detector |-> detector, inputs |-> inputs]

IInv ==
    /\ Shapes
    /\ Trained => detector \in Versions
    /\ OneGeneration
    /\ ScoresInside
    /\ Positions
    /\ TrainingWritten
    /\ DetectorIsOnDisk
    /\ FramesWritten
    /\ ScoresBelongToDetector

----------------------------------------------------------------------------

\* The files of the publication, in the order they are written.
LEMMA TrainingOrderIs ==
    /\ Len(TrainingOrder) = 5
    /\ TrainingOrder[1] = "round_summary" /\ TrainingOrder[2] = "client_rounds"
    /\ TrainingOrder[3] = "device_tmp"    /\ TrainingOrder[4] = "device_name"
    /\ TrainingOrder[5] = "terminal_model"
    /\ \A i \in 1..5 : TrainingOrder[i] \in TrainingEntries
BY DEF TrainingOrder, TrainingEntries, TrainingFiles

\* Training files and score files are different files.
LEMMA FilesAreApart ==
    /\ TrainingEntries \subseteq Files /\ ScoreEntries \subseteq Files
    /\ Files = TrainingEntries \cup ScoreEntries
    /\ TrainingEntries \cap ScoreEntries = {}
    /\ TrainingFiles \subseteq TrainingEntries
    /\ FrameSet \subseteq ScoreEntries /\ Manifest \in ScoreEntries
    /\ Manifest \notin FrameSet
    /\ \A i \in 1..Len(FrameOrder) : FrameOrder[i] \in FrameSet
    /\ FrameSet # {}
    /\ Len(FrameOrder) \in Nat \ {0}
<1>1. Manifest \notin TrainingEntries
  BY DEF Manifest, TrainingEntries, TrainingFiles
<1>2. FrameOrder \in Seq(STRING) /\ Len(FrameOrder) > 0
  BY EvidenceAssumption
<1>3. DOMAIN FrameOrder = 1..Len(FrameOrder) /\ Len(FrameOrder) \in Nat
  BY <1>2
<1>4. 1 \in DOMAIN FrameOrder
  BY <1>2, <1>3
<1>5. \A i \in 1..Len(FrameOrder) : FrameOrder[i] \in FrameSet
  BY <1>3 DEF FrameSet
<1>6. FrameSet # {}
  BY <1>3, <1>4, <1>5
<1> QED
  BY <1>1, <1>2, <1>3, <1>5, <1>6, EvidenceAssumption DEF Files, ScoreEntries, TrainingEntries

\* A whole file is neither absent nor torn and belongs to its detector.
LEMMA WrittenIsWhole ==
    ASSUME NEW d \in Versions, NEW i \in Versions
    PROVE  LET content == [detector |-> d, inputs |-> i] IN
             /\ content \in Contents
             /\ content # Absent /\ content # Torn
             /\ content.detector = d /\ content.inputs = i
BY EvidenceAssumption DEF Contents

\* Initially there is nothing.
LEMMA InitIInv == Init => IInv
<1> SUFFICES ASSUME Init PROVE IInv
  OBVIOUS
<1> USE DEF Init
<1>1. Shapes
  BY DEF Shapes, Phases, NoDetector
<1>2. OneGeneration
  BY DEF OneGeneration, Of, Whole
<1>3. ScoresInside
  BY FilesAreApart DEF ScoresInside
<1> QED
  BY <1>1, <1>2, <1>3 DEF IInv, Positions, Trained, TrainingWritten, DetectorIsOnDisk,
     FramesWritten, ScoresBelongToDetector

\* Taking a file away, or leaving all files alone, keeps one generation.
LEMMA FewerFilesOneGeneration ==
    ASSUME OneGeneration, \A f \in Files : disk'[f] \in {disk[f], Absent, Torn}
    PROVE  OneGeneration'
BY DEF OneGeneration, Of, Whole

\* Steps that leave the files alone and end without a detector in use.
LEMMA Idling ==
    ASSUME IInv, disks' = disks, current' \in Versions, inputs' \in Versions,
           overwrite' \in BOOLEAN, next' = 1, phase' \in {"down", "removing", "loading", "failed"},
           detector' \in Versions \cup {NoDetector}
    PROVE  IInv'
<1> USE DEF IInv, disks
<1>1. Shapes'
  BY DEF Shapes, Phases
<1>2. OneGeneration'
  BY DEF OneGeneration, Of, Whole
<1>3. ScoresInside'
  BY DEF ScoresInside
<1>4. (~Trained)' /\ Positions'
  BY DEF Trained, Positions
<1> QED
  BY <1>1, <1>2, <1>3, <1>4 DEF Trained, TrainingWritten, DetectorIsOnDisk,
     FramesWritten, ScoresBelongToDetector

\* Steps that take files away, or tear them, with no detector in use after.
LEMMA Removing ==
    ASSUME IInv, disk' \in [Files -> Contents \cup {Absent, Torn}],
           \A f \in Files : disk'[f] \in {disk[f], Absent, Torn},
           scoresDir' \in BOOLEAN, ScoresInside',
           UNCHANGED <<current, request>>, detector' \in Versions \cup {NoDetector},
           next' = 1, phase' \in {"down", "removing", "removing_scores", "loading"}
    PROVE  IInv'
<1> USE DEF IInv
<1>1. Shapes'
  BY DEF Shapes, Phases, request
<1>2. OneGeneration'
  BY FewerFilesOneGeneration
<1>3. (~Trained)' /\ Positions'
  BY DEF Trained, Positions
<1> QED
  BY <1>1, <1>2, <1>3 DEF Trained, TrainingWritten, DetectorIsOnDisk,
     FramesWritten, ScoresBelongToDetector

\* Every removal of the overwriting run keeps the invariant.
LEMMA RemoveIInv == IInv /\ Remove => IInv'
<1> SUFFICES ASSUME IInv, Remove PROVE IInv'
  OBVIOUS
<1>s. Shapes /\ ScoresInside /\ Positions
  BY DEF IInv
<1>1. ASSUME NEW f \in TrainingEntries, RemoveTrainingEntry(f) PROVE IInv'
  <2>1. disk' \in [Files -> Contents \cup {Absent, Torn}]
    BY <1>1, <1>s, FilesAreApart DEF RemoveTrainingEntry, Shapes
  <2>2. \A g \in Files : disk'[g] \in {disk[g], Absent, Torn}
    BY <1>1, <1>s DEF RemoveTrainingEntry, Shapes
  <2>3. ScoresInside'
    BY <1>1, <1>s, FilesAreApart DEF RemoveTrainingEntry, Shapes, ScoresInside
  <2> QED
    BY <1>1, <1>s, <2>1, <2>2, <2>3, Removing DEF RemoveTrainingEntry, Shapes, Positions
<1>2. CASE EnterScores
  <2>1. ScoresInside'
    BY <1>2, <1>s DEF EnterScores, disks, ScoresInside
  <2> QED
    BY <1>2, <1>s, <2>1, Removing DEF EnterScores, disks, Shapes, Positions
<1>3. ASSUME NEW f \in ScoreEntries, RemoveScoreEntry(f) PROVE IInv'
  <2>1. disk' \in [Files -> Contents \cup {Absent, Torn}]
    BY <1>3, <1>s, FilesAreApart DEF RemoveScoreEntry, Shapes
  <2>2. \A g \in Files : disk'[g] \in {disk[g], Absent, Torn}
    BY <1>3, <1>s DEF RemoveScoreEntry, Shapes
  <2>3. ScoresInside'
    BY <1>3, <1>s, FilesAreApart DEF RemoveScoreEntry, Shapes, ScoresInside
  <2> QED
    BY <1>3, <1>s, <2>1, <2>2, <2>3, Removing DEF RemoveScoreEntry, Shapes, Positions
<1>4. CASE LeaveScores
  <2>1. ScoresInside'
    BY <1>4, <1>s DEF LeaveScores, ScoresInside, Present
  <2> QED
    BY <1>4, <1>s, <2>1, Removing DEF LeaveScores, Shapes, Positions
<1>5. CASE RemovalDone
  <2>1. ScoresInside'
    BY <1>5, <1>s DEF RemovalDone, disks, ScoresInside
  <2> QED
    BY <1>5, <1>s, <2>1, Removing DEF RemovalDone, disks, Shapes, Positions
<1> QED
  BY <1>1, <1>2, <1>3, <1>4, <1>5 DEF Remove

\* Loading an accepted publication: every training file is whole, and so of
\* the one generation, which is the terminal model's.
LEMMA LoadIInv == IInv /\ ReuseTraining => IInv'
<1> SUFFICES ASSUME IInv, ReuseTraining PROVE IInv'
  OBVIOUS
<1> USE DEF IInv, ReuseTraining
<1>1. CASE ~TrainingLoads
  BY <1>1, Idling DEF request, Shapes, Positions
<1>2. CASE TrainingLoads
  <2>1. \A f \in TrainingFiles : Whole(f)
    BY <1>2 DEF TrainingLoads
  <2>2. PICK v \in Versions : \A f \in Files : Of(f, v)
    BY DEF OneGeneration
  <2>3. \A f \in TrainingFiles : disk[f].detector = v
    BY <2>1, <2>2, FilesAreApart DEF Of
  <2>4. phase' = "scoring" /\ detector' = v /\ UNCHANGED <<disks, current, request, next>>
    BY <1>2, <2>3 DEF TrainingFiles
  <2>5. Shapes'
    BY <2>4 DEF Shapes, Phases, disks, request
  <2>6. OneGeneration' /\ ScoresInside' /\ Positions'
    BY <2>4 DEF OneGeneration, Of, Whole, ScoresInside, Positions, disks
  <2>7. DetectorIsOnDisk'
    BY <2>1, <2>3, <2>4 DEF DetectorIsOnDisk, Whole, disks
  <2> QED
    BY <2>4, <2>5, <2>6, <2>7 DEF Trained, TrainingWritten, FramesWritten, ScoresBelongToDetector
<1> QED
  BY <1>1, <1>2

\* Training starts in an empty directory.
LEMMA TrainIInv == IInv /\ Train => IInv'
<1> SUFFICES ASSUME IInv, Train PROVE IInv'
  OBVIOUS
<1> USE DEF IInv, Train
<1>1. \A f \in Files : disk[f] = Absent
  BY FilesAreApart DEF TrainingDirIsEmpty, Present, ScoresInside
<1>2. Shapes'
  BY DEF Shapes, Phases, disks, request
<1>3. OneGeneration' /\ ScoresInside' /\ Positions'
  BY DEF OneGeneration, Of, Whole, ScoresInside, Positions, disks
<1>4. detector' \in Versions /\ next' = 1
  BY DEF Shapes, Positions
<1>5. TrainingWritten'
  BY <1>1, <1>4 DEF TrainingWritten, Of, Whole, disks, TrainingDirIsEmpty
<1> QED
  BY <1>2, <1>3, <1>4, <1>5 DEF Trained, DetectorIsOnDisk, FramesWritten, ScoresBelongToDetector

\* What a step of the publication does: one file of the process's own, and the
\* staging file of the device name gone when it is renamed.
LEMMA TrainingFileWritten ==
    ASSUME IInv, WriteTrainingFile
    PROVE  LET f == TrainingOrder[next]
               content == [detector |-> detector, inputs |-> detector] IN
             /\ /\ phase = "writing" /\ detector \in Versions /\ next \in 1..5 /\ ~scoresDir
                /\ \A g \in Files : Of(g, detector)
                /\ f \in TrainingEntries /\ f \in Files
             /\ /\ disk' \in [Files -> Contents \cup {Absent, Torn}]
                /\ disk'[f] = content
                /\ \A g \in Files \ {f} : disk'[g] = IF g = "device_tmp" /\ f = "device_name"
                                                  THEN Absent ELSE disk[g]
             /\ /\ UNCHANGED <<scoresDir, current, overwrite, inputs, detector>>
                /\ \/ next = 5 /\ phase' = "scoring" /\ next' = 1
                   \/ next # 5 /\ phase' = "writing" /\ next' = next + 1
<1> DEFINE f == TrainingOrder[next]
           content == [detector |-> detector, inputs |-> detector]
<1>1. /\ phase = "writing" /\ detector \in Versions /\ next \in 1..5 /\ ~scoresDir
      /\ \A g \in Files : Of(g, detector)
      /\ disk \in [Files -> Contents \cup {Absent, Torn}]
  BY DEF IInv, WriteTrainingFile, Trained, Positions, TrainingWritten, Shapes
<1>2. /\ content \in Contents /\ content # Absent /\ content # Torn
      /\ content.detector = detector
  BY <1>1, WrittenIsWhole
<1>3. f \in TrainingEntries /\ f \in Files /\ "device_tmp" \in TrainingEntries
  BY <1>1, TrainingOrderIs, FilesAreApart DEF TrainingEntries
<1>4. /\ disk' \in [Files -> Contents \cup {Absent, Torn}]
      /\ disk'[f] = content
      /\ \A g \in Files \ {f} : disk'[g] = IF g = "device_tmp" /\ f = "device_name"
                                        THEN Absent ELSE disk[g]
  <2>1. CASE f = "device_name"
    <3>1. disk' = [disk EXCEPT !["device_tmp"] = Absent, !["device_name"] = content]
      BY <2>1 DEF WriteTrainingFile
    <3> QED
      BY <1>1, <1>2, <1>3, <2>1, <3>1
  <2>2. CASE f # "device_name"
    <3>1. disk' = [disk EXCEPT ![f] = content]
      BY <2>2 DEF WriteTrainingFile
    <3> HIDE DEF f
    <3> QED
      BY <1>1, <1>2, <1>3, <2>2, <3>1
  <2> QED
    BY <2>1, <2>2
<1>5. /\ UNCHANGED <<scoresDir, current, overwrite, inputs, detector>>
      /\ \/ next = 5 /\ phase' = "scoring" /\ next' = 1
         \/ next # 5 /\ phase' = "writing" /\ next' = next + 1
  BY TrainingOrderIs DEF WriteTrainingFile, request
<1> QED
  BY <1>1, <1>3, <1>4, <1>5

\* Each file of the publication is the process's own; after the last all are there.
LEMMA WriteTrainingIInv == IInv /\ WriteTrainingFile => IInv'
<1> SUFFICES ASSUME IInv, WriteTrainingFile PROVE IInv'
  OBVIOUS
<1> DEFINE f == TrainingOrder[next]
           content == [detector |-> detector, inputs |-> detector]
<1>1. /\ phase = "writing" /\ detector \in Versions /\ next \in 1..5 /\ ~scoresDir
      /\ \A g \in Files : Of(g, detector)
  BY TrainingFileWritten
<1>2. /\ content \in Contents /\ content # Absent /\ content # Torn
      /\ content.detector = detector
  BY <1>1, WrittenIsWhole
<1>3. f \in TrainingEntries /\ f \in Files
  BY TrainingFileWritten
<1>4. /\ disk' \in [Files -> Contents \cup {Absent, Torn}]
      /\ disk'[f] = content
      /\ \A g \in Files \ {f} : disk'[g] = IF g = "device_tmp" /\ f = "device_name"
                                        THEN Absent ELSE disk[g]
  BY TrainingFileWritten
<1>5. /\ UNCHANGED <<scoresDir, current, overwrite, inputs, detector>>
      /\ \/ next = 5 /\ phase' = "scoring" /\ next' = 1
         \/ next # 5 /\ phase' = "writing" /\ next' = next + 1
  BY TrainingFileWritten
<1>6. \A g \in Files : Of(g, detector)'
  BY <1>1, <1>2, <1>4, <1>5 DEF Of, Whole
<1>7. \A i \in 1..next : TrainingOrder[i] # "device_tmp" =>
          disk'[TrainingOrder[i]] = content
  <2> SUFFICES ASSUME NEW i \in 1..next, TrainingOrder[i] # "device_tmp"
               PROVE  disk'[TrainingOrder[i]] = content
    OBVIOUS
  <2>1. CASE i = next
    BY <2>1, <1>4
  <2>2. CASE i # next
    <3>1. i \in 1..(next - 1) /\ i \in 1..5
      BY <1>1, <2>2
    <3>2. disk[TrainingOrder[i]] = content
      BY <1>1, <3>1 DEF IInv, TrainingWritten
    <3>3. TrainingOrder[i] \in Files
      BY <3>1, TrainingOrderIs, FilesAreApart
    <3> HIDE DEF content
    <3> QED
      BY <1>4, <3>2, <3>3
  <2> QED
    BY <2>1, <2>2
<1>8. Shapes'
  BY <1>1, <1>4, <1>5 DEF IInv, Shapes, Phases
<1>9. OneGeneration'
  BY <1>1, <1>5, <1>6 DEF OneGeneration
<1>10. ScoresInside'
  <2>1. \A g \in ScoreEntries : disk'[g] = disk[g]
    BY <1>3, <1>4, FilesAreApart DEF TrainingEntries
  <2> QED
    BY <1>5, <2>1 DEF IInv, ScoresInside
<1>11. Positions'
  BY <1>1, <1>5 DEF Positions
<1>12. TrainingWritten'
  <2> SUFFICES ASSUME phase' = "writing" PROVE TrainingWritten'
    BY DEF TrainingWritten
  <2>1. next' - 1 = next
    BY <1>1, <1>5
  <2> QED
    BY <1>1, <1>5, <1>6, <1>7, <2>1 DEF TrainingWritten
<1>13. DetectorIsOnDisk'
  <2>1. CASE next = 5
    <3>1. \A g \in TrainingFiles : disk'[g] = content
      BY <1>7, <2>1, TrainingOrderIs DEF TrainingFiles
    <3> QED
      BY <1>2, <1>5, <3>1 DEF DetectorIsOnDisk, Whole
  <2>2. CASE next # 5
    BY <1>5, <2>2 DEF DetectorIsOnDisk
  <2> QED
    BY <2>1, <2>2
<1>14. FramesWritten' /\ ScoresBelongToDetector'
  BY <1>5 DEF FramesWritten, ScoresBelongToDetector
<1> QED
  BY <1>1, <1>5, <1>8, <1>9, <1>10, <1>11, <1>12, <1>13, <1>14 DEF IInv

\* Scores accepted by file are scores of the detector: there is no other.
LEMMA ReuseScoresIInv == IInv /\ ReuseScores => IInv'
<1> SUFFICES ASSUME IInv, ReuseScores PROVE IInv'
  OBVIOUS
<1> USE DEF IInv, ReuseScores
<1>1. CASE ~(IdentityMatches /\ FramesMatchPartition)
  BY <1>1, Idling DEF request, Shapes, Positions
<1>2. CASE IdentityMatches /\ FramesMatchPartition
  <2>1. phase' = "ready" /\ UNCHANGED <<disks, current, request, detector, next>>
    BY <1>2
  <2>2. PICK v \in Versions : \A f \in Files : Of(f, v)
    BY DEF OneGeneration
  <2>3. v = detector
    BY <1>2, <2>2, FilesAreApart DEF IdentityMatches, Of
  <2>4. \A f \in FrameSet : Whole(f) /\ disk[f].detector = detector
    BY <1>2, <2>2, <2>3, FilesAreApart DEF FramesMatchPartition, Of
  <2>5. ScoresBelongToDetector'
    BY <1>2, <2>1, <2>4 DEF ScoresBelongToDetector, IdentityMatches, FramesMatchPartition,
       Whole, disks, request
  <2>6. Shapes'
    BY <2>1 DEF Shapes, Phases, disks, request
  <2>7. OneGeneration' /\ ScoresInside' /\ Positions'
    BY <2>1, FilesAreApart DEF OneGeneration, Of, Whole, ScoresInside, Positions, disks
  <2>8. DetectorIsOnDisk'
    BY <2>1 DEF DetectorIsOnDisk, Whole, disks
  <2> QED
    BY <2>1, <2>5, <2>6, <2>7, <2>8 DEF Trained, TrainingWritten, FramesWritten
<1> QED
  BY <1>1, <1>2

\* Scoring starts in a fresh scores directory.
LEMMA GenerateIInv == IInv /\ GenerateScores => IInv'
<1> SUFFICES ASSUME IInv, GenerateScores PROVE IInv'
  OBVIOUS
<1> USE DEF IInv, GenerateScores
<1>1. Shapes'
  BY DEF Shapes, Phases, request
<1>2. OneGeneration' /\ ScoresInside' /\ Positions'
  BY FilesAreApart DEF OneGeneration, Of, Whole, ScoresInside, Positions
<1>3. DetectorIsOnDisk'
  BY DEF DetectorIsOnDisk, Whole
<1>4. FramesWritten'
  BY DEF FramesWritten, Positions
<1> QED
  BY <1>1, <1>2, <1>3, <1>4 DEF Trained, TrainingWritten, ScoresBelongToDetector

\* What is written while scoring is of the detector that is on disk already.
LEMMA ScoreFileIInv ==
    ASSUME IInv, phase = "writing_scores",
           NEW g \in ScoreEntries, NEW w \in Versions,
           disk' = [disk EXCEPT ![g] = [detector |-> detector, inputs |-> w]],
           UNCHANGED <<scoresDir, current, request, detector>>,
           phase' \in {"writing_scores", "ready"},
           next' \in 1..(Len(FrameOrder) + 1)
    PROVE  /\ Shapes' /\ OneGeneration' /\ ScoresInside' /\ Positions' /\ DetectorIsOnDisk'
           /\ detector' \in Versions
<1> DEFINE content == [detector |-> detector, inputs |-> w]
<1>1. detector \in Versions /\ scoresDir /\ DetectorIsOnDisk /\ Shapes
  BY DEF IInv, Trained, FramesWritten
<1>2. content \in Contents /\ content # Absent /\ content # Torn /\ content.detector = detector
  BY <1>1, WrittenIsWhole
<1>3. /\ disk' \in [Files -> Contents \cup {Absent, Torn}]
      /\ disk'[g] = content
      /\ \A f \in Files \ {g} : disk'[f] = disk[f]
  <2> HIDE DEF content
  <2>1. disk' = [disk EXCEPT ![g] = content]
    BY DEF content
  <2> QED
    BY <1>1, <1>2, <2>1, FilesAreApart DEF Shapes
<1>4. Shapes'
  BY <1>1, <1>3, FilesAreApart DEF Shapes, Phases, request
<1>5. PICK v \in Versions : \A f \in Files : Of(f, v)
  BY DEF IInv, OneGeneration
<1>6. "terminal_model" \in Files /\ "terminal_model" \in TrainingFiles
  BY FilesAreApart DEF TrainingFiles
<1>7. v = detector
  BY <1>1, <1>5, <1>6 DEF DetectorIsOnDisk, Of
<1>8. \A f \in Files : Of(f, v)'
  <2> SUFFICES ASSUME NEW f \in Files, disk'[f] # Absent, disk'[f] # Torn
               PROVE  disk'[f].detector = v
    BY <1>5 DEF Of, Whole
  <2>1. CASE f = g
    BY <1>2, <1>3, <1>7, <2>1
  <2>2. CASE f # g
    BY <1>3, <1>5, <2>2 DEF Of, Whole
  <2> QED
    BY <2>1, <2>2
<1>9. OneGeneration'
  BY <1>5, <1>8 DEF OneGeneration
<1>10. DetectorIsOnDisk'
  BY <1>1, <1>3, FilesAreApart DEF DetectorIsOnDisk, Whole
<1> QED
  BY <1>1, <1>4, <1>9, <1>10, FilesAreApart DEF ScoresInside, Positions

\* One more frame.
LEMMA WriteFrameIInv == IInv /\ WriteFrame => IInv'
<1> SUFFICES ASSUME IInv, WriteFrame PROVE IInv'
  OBVIOUS
<1> DEFINE content == [detector |-> detector, inputs |-> inputs]
<1>1. /\ next \in 1..(Len(FrameOrder) + 1) /\ next \in 1..Len(FrameOrder)
      /\ next' = next + 1 /\ next' \in 1..(Len(FrameOrder) + 1)
      /\ phase = "writing_scores" /\ phase' = "writing_scores"
      /\ UNCHANGED <<scoresDir, current, request, detector>>
      /\ inputs \in Versions /\ Shapes
      /\ disk' = [disk EXCEPT ![FrameOrder[next]] = content]
  BY FilesAreApart DEF IInv, Positions, WriteFrame, Shapes
<1>2. FrameOrder[next] \in ScoreEntries /\ FrameOrder[next] \in Files
  BY <1>1, FilesAreApart
<1>3. /\ Shapes' /\ OneGeneration' /\ ScoresInside' /\ Positions' /\ DetectorIsOnDisk'
      /\ detector' \in Versions
  BY <1>1, <1>2, ScoreFileIInv
<1>4. \A i \in 1..next : disk'[FrameOrder[i]] = content
  <2> SUFFICES ASSUME NEW i \in 1..next PROVE disk'[FrameOrder[i]] = content
    OBVIOUS
  <2>1. FrameOrder[i] \in Files
    BY <1>1, FilesAreApart
  <2>2. i = next \/ disk[FrameOrder[i]] = content
    BY <1>1 DEF IInv, FramesWritten
  <2> HIDE DEF content
  <2> QED
    BY <1>1, <1>2, <2>1, <2>2 DEF Shapes
<1>5. FramesWritten'
  <2>1. next' - 1 = next /\ scoresDir
    BY <1>1 DEF IInv, FramesWritten
  <2> QED
    BY <1>1, <1>4, <2>1 DEF FramesWritten, request
<1> QED
  BY <1>1, <1>3, <1>5 DEF IInv, TrainingWritten, ScoresBelongToDetector

\* The identity of the detector is written when all frames are there.
LEMMA WriteManifestIInv == IInv /\ WriteManifest => IInv'
<1> SUFFICES ASSUME IInv, WriteManifest PROVE IInv'
  OBVIOUS
<1> DEFINE content == [detector |-> detector, inputs |-> detector]
<1>1. /\ next = Len(FrameOrder) + 1 /\ next' = next
      /\ phase = "writing_scores" /\ phase' = "ready"
      /\ UNCHANGED <<scoresDir, current, request, detector>>
      /\ detector \in Versions /\ inputs \in Versions /\ Shapes
      /\ disk' = [disk EXCEPT ![Manifest] = content]
  BY FilesAreApart DEF IInv, Positions, WriteManifest, Trained, Shapes
<1>2. next' \in 1..(Len(FrameOrder) + 1) /\ Manifest \in ScoreEntries /\ Manifest \in Files
  BY <1>1, FilesAreApart
<1>3. /\ Shapes' /\ OneGeneration' /\ ScoresInside' /\ Positions' /\ DetectorIsOnDisk'
      /\ detector' \in Versions
  BY <1>1, <1>2, ScoreFileIInv
<1>4. \A f \in FrameSet : disk[f] = [detector |-> detector, inputs |-> inputs]
  <2>1. \A i \in 1..Len(FrameOrder) : disk[FrameOrder[i]] = [detector |-> detector, inputs |-> inputs]
    BY <1>1, FilesAreApart DEF IInv, FramesWritten
  <2>2. DOMAIN FrameOrder = 1..Len(FrameOrder)
    BY EvidenceAssumption
  <2> QED
    BY <2>1, <2>2 DEF FrameSet
<1>5. \A f \in FrameSet : disk'[f] = [detector |-> detector, inputs |-> inputs]
  BY <1>1, <1>4, FilesAreApart DEF Shapes
<1>6. /\ content # Absent /\ content # Torn /\ content.detector = detector
      /\ disk'[Manifest] = content
  <2>1. content # Absent /\ content # Torn /\ content.detector = detector
    BY <1>1, WrittenIsWhole
  <2> HIDE DEF content
  <2> QED
    BY <1>1, <1>2, <2>1 DEF Shapes
<1>7. ScoresBelongToDetector'
  <2>1. \A f \in FrameSet : /\ disk'[f] # Absent /\ disk'[f] # Torn
                            /\ disk'[f].detector = detector /\ disk'[f].inputs = inputs
    BY <1>1, <1>5, WrittenIsWhole
  <2> QED
    BY <1>1, <1>6, <2>1 DEF ScoresBelongToDetector, Whole, request
<1> QED
  BY <1>1, <1>3, <1>7 DEF IInv, TrainingWritten, FramesWritten

\* A write cut short leaves no detector in use.
LEMMA DieWritingIInv == IInv /\ DieWriting => IInv'
<1> SUFFICES ASSUME IInv, DieWriting PROVE IInv'
  OBVIOUS
<1>1. PICK f \in Files : /\ disk' = [disk EXCEPT ![f] = Torn]
                         /\ f \in ScoreEntries => scoresDir
  <2>1. CASE phase = "writing" /\ disk' = [disk EXCEPT ![TrainingOrder[next]] = Torn]
    <3>1. TrainingOrder[next] \in TrainingEntries
      BY <2>1, TrainingOrderIs DEF IInv, Positions
    <3> QED
      BY <2>1, <3>1, FilesAreApart
  <2>2. CASE phase = "writing_scores" /\ next <= Len(FrameOrder)
             /\ disk' = [disk EXCEPT ![FrameOrder[next]] = Torn]
    <3>1. FrameOrder[next] \in ScoreEntries /\ scoresDir
      BY <2>2, FilesAreApart DEF IInv, Positions, FramesWritten
    <3> QED
      BY <2>2, <3>1, FilesAreApart
  <2>3. CASE phase = "writing_scores" /\ disk' = [disk EXCEPT ![Manifest] = Torn]
    BY <2>3, FilesAreApart DEF IInv, FramesWritten
  <2> QED
    BY <2>1, <2>2, <2>3 DEF DieWriting
<1>2. /\ disk' \in [Files -> Contents \cup {Absent, Torn}]
      /\ \A g \in Files : disk'[g] \in {disk[g], Absent, Torn}
      /\ \A g \in Files \ {f} : disk'[g] = disk[g]
  <2>1. disk \in [Files -> Contents \cup {Absent, Torn}]
    BY DEF IInv, Shapes
  <2>2. disk' = [disk EXCEPT ![f] = Torn]
    BY <1>1
  <2> QED
    BY <2>1, <2>2
<1>3. UNCHANGED <<scoresDir, current, request>> /\ detector' = NoDetector
      /\ next' = 1 /\ phase' = "down"
  BY DEF DieWriting
<1>4. ScoresInside' /\ scoresDir' \in BOOLEAN
  BY <1>1, <1>2, <1>3, FilesAreApart DEF IInv, Shapes, ScoresInside
<1> QED
  BY <1>2, <1>3, <1>4, Removing

\* Every step keeps the invariant.
LEMMA NextIInv == IInv /\ [Next]_vars => IInv'
<1> SUFFICES ASSUME IInv, [Next]_vars PROVE IInv'
  OBVIOUS
<1>s. Shapes /\ Positions
  BY DEF IInv
<1>1. CASE InputsChange
  BY <1>1, <1>s, Idling DEF InputsChange, request, Shapes, Positions
<1>2. ASSUME NEW requested \in BOOLEAN, Start(requested) PROVE IInv'
  BY <1>2, <1>s, Idling DEF Start, Shapes, Positions
<1>3. CASE Proceed
  <2>1. CASE RefuseIncomplete
    BY <2>1, <1>s, Idling DEF RefuseIncomplete, request, Shapes, Positions
  <2>2. CASE RefuseScores
    BY <2>2, <1>s, Idling DEF RefuseScores, request, Shapes, Positions
  <2> QED
    BY <1>3, <2>1, <2>2, RemoveIInv, LoadIInv, TrainIInv, WriteTrainingIInv,
       ReuseScoresIInv, GenerateIInv, WriteFrameIInv, WriteManifestIInv DEF Proceed
<1>4. CASE Stop
  BY <1>4, <1>s, Idling DEF Stop, request, Shapes, Positions
<1>5. CASE DieWriting
  BY <1>5, DieWritingIInv
<1>6. CASE UNCHANGED vars
  BY <1>6 DEF vars, disks, request, IInv, Shapes, Trained, OneGeneration, Of, Whole,
     ScoresInside, Positions, TrainingWritten, DetectorIsOnDisk, FramesWritten,
     ScoresBelongToDetector
<1> QED
  BY <1>1, <1>2, <1>3, <1>4, <1>5, <1>6 DEF Next

----------------------------------------------------------------------------

\* The strengthened invariant holds in every reachable state.
THEOREM InvariantHolds == Spec => []IInv
<1>1. IInv /\ [Next]_vars => IInv'
  BY NextIInv
<1> QED
  BY InitIInv, <1>1, PTL DEF Spec

\* A process that holds a detector has its whole publication on disk, of that
\* detector (publication.py:28-108).
THEOREM DetectorPublished == Spec => []DetectorIsOnDisk
<1>1. IInv => DetectorIsOnDisk
  BY DEF IInv
<1> QED
  BY InvariantHolds, <1>1, PTL

\* The scores a process goes on with are whole, of the detector it holds and
\* over the rows it holds (scoring/federated.py:76-220).
THEOREM ScoresOfDetector == Spec => []ScoresBelongToDetector
<1>1. IInv => ScoresBelongToDetector
  BY DEF IInv
<1> QED
  BY InvariantHolds, <1>1, PTL

----------------------------------------------------------------------------
(* Evidence is kept, rebuilt and refused for a cause.                      *)

\* What a process has still to write is not there yet.
NothingAhead ==
    /\ phase = "writing" =>
           \A i \in next..5 :
               TrainingOrder[i] # "device_tmp" => disk[TrainingOrder[i]] = Absent
    /\ phase = "writing_scores" =>
           /\ disk[Manifest] = Absent
           /\ \A i \in next..Len(FrameOrder) : disk[FrameOrder[i]] = Absent

\* Only an overwriting process removes anything.
RemovesOnRequest == phase \in {"removing", "removing_scores"} => overwrite

\* An overwriting process finds nothing, and works with its own detector.
Rebuilding ==
    overwrite =>
        /\ phase = "loading" => TrainingDirIsEmpty
        /\ Trained => detector = inputs
        /\ phase = "scoring" => ~scoresDir

KeepInv == NothingAhead /\ RemovesOnRequest
RebuildInv == Rebuilding /\ OverwriteRebuilds

\* An empty directory holds none of the files.
LEMMA EmptyDirectory ==
    ASSUME IInv, TrainingDirIsEmpty PROVE \A f \in Files : disk[f] = Absent
BY FilesAreApart DEF IInv, TrainingDirIsEmpty, Present, ScoresInside

\* The score frames are those at the positions of the sequence, each once.
LEMMA FramePositions ==
    /\ DOMAIN FrameOrder = 1..Len(FrameOrder)
    /\ \A f \in FrameSet : \E i \in 1..Len(FrameOrder) : FrameOrder[i] = f
    /\ \A i, j \in 1..Len(FrameOrder) : i # j => FrameOrder[i] # FrameOrder[j]
<1>1. FrameOrder \in Seq(STRING) BY EvidenceAssumption
<1>2. DOMAIN FrameOrder = 1..Len(FrameOrder) BY <1>1
<1> QED BY <1>2, EvidenceAssumption DEF FrameSet

\* A whole directory belongs to one detector.
LEMMA WholeDirectory ==
    ASSUME IInv, \A f \in Files \ {"device_tmp"} : Whole(f)
    PROVE  \E v \in Versions : \A f \in Files \ {"device_tmp"} : disk[f].detector = v
<1>1. PICK v \in Versions : \A f \in Files : Of(f, v) BY DEF IInv, OneGeneration
<1> QED BY <1>1 DEF Of

\* A frame is written where nothing was.
LEMMA FrameWritten ==
    ASSUME IInv, WriteFrame
    PROVE  /\ phase = "writing_scores" /\ phase' = "writing_scores"
           /\ next \in 1..Len(FrameOrder) /\ next' = next + 1
           /\ FrameOrder[next] \in FrameSet
           /\ \A f \in Files \ {FrameOrder[next]} : disk'[f] = disk[f]
           /\ UNCHANGED <<scoresDir, overwrite, inputs, detector>>
<1>1. next \in 1..Len(FrameOrder) BY FilesAreApart DEF IInv, Positions, WriteFrame
<1>2. FrameOrder[next] \in FrameSet /\ FrameOrder[next] \in Files BY <1>1, FilesAreApart
<1> QED BY <1>1, <1>2 DEF WriteFrame, IInv, Shapes, request

LEMMA NothingAheadKept == IInv /\ NothingAhead /\ [Next]_vars => NothingAhead'
<1> SUFFICES ASSUME IInv, NothingAhead, [Next]_vars PROVE NothingAhead' OBVIOUS
<1>1. CASE Train
  <2>1. \A f \in Files : disk[f] = Absent BY <1>1, EmptyDirectory DEF Train
  <2>2. phase' = "writing" /\ disk' = disk /\ next' = 1
      BY <1>1 DEF Train, disks, IInv, Positions
  <2> QED BY <2>1, <2>2, TrainingOrderIs, FilesAreApart DEF NothingAhead
<1>2. CASE WriteTrainingFile
  <2>1. CASE phase' # "writing"
    BY <1>2, <2>1, TrainingFileWritten DEF NothingAhead
  <2>2. CASE phase' = "writing"
    <3>1. phase = "writing" /\ next \in 1..5 /\ next' = next + 1
        BY <1>2, <2>2, TrainingFileWritten
    <3> SUFFICES ASSUME NEW i \in (next + 1)..5, TrainingOrder[i] # "device_tmp"
                 PROVE  disk'[TrainingOrder[i]] = Absent
        BY <2>2, <3>1 DEF NothingAhead
    <3>2. TrainingOrder[i] # TrainingOrder[next] /\ TrainingOrder[i] \in Files
        BY <3>1, TrainingOrderIs, FilesAreApart
    <3>3. disk'[TrainingOrder[i]] \in {disk[TrainingOrder[i]], Absent}
        BY <1>2, <3>2, TrainingFileWritten
    <3>4. disk[TrainingOrder[i]] = Absent BY <3>1 DEF NothingAhead
    <3> QED BY <3>3, <3>4
  <2> QED BY <2>1, <2>2
<1>3. CASE GenerateScores
  <2>1. \A f \in ScoreEntries : disk[f] = Absent
      BY <1>3 DEF GenerateScores, IInv, ScoresInside
  <2>2. phase' = "writing_scores" /\ disk' = disk /\ next' = 1
      BY <1>3 DEF GenerateScores, IInv, Positions
  <2> QED BY <2>1, <2>2, FilesAreApart DEF NothingAhead
<1>4. CASE WriteFrame
  <2>1. \A i \in (next + 1)..Len(FrameOrder) :
            i \in 1..Len(FrameOrder) /\ i # next /\ i \in next..Len(FrameOrder)
      BY <1>4, FrameWritten
  <2>2. \A i \in (next + 1)..Len(FrameOrder) : disk'[FrameOrder[i]] = Absent
    <3> SUFFICES ASSUME NEW i \in (next + 1)..Len(FrameOrder)
                 PROVE  disk'[FrameOrder[i]] = Absent
        OBVIOUS
    <3>1. FrameOrder[i] # FrameOrder[next] /\ FrameOrder[i] \in Files
        BY <1>4, <2>1, FrameWritten, FramePositions, FilesAreApart
    <3> QED BY <1>4, <2>1, <3>1, FrameWritten DEF NothingAhead
  <2>3. disk'[Manifest] = Absent
      BY <1>4, FrameWritten, FilesAreApart DEF NothingAhead
  <2> QED BY <1>4, <2>2, <2>3, FrameWritten DEF NothingAhead
<1>5. CASE phase' \notin {"writing", "writing_scores"} BY <1>5 DEF NothingAhead
<1>6. CASE UNCHANGED vars BY <1>6 DEF vars, disks, NothingAhead
<1>7. ASSUME Next, ~Train, ~WriteTrainingFile, ~GenerateScores, ~WriteFrame
      PROVE  phase' \notin {"writing", "writing_scores"}
    BY <1>7 DEF Next, InputsChange, Start, Proceed, Remove, RemoveTrainingEntry,
       EnterScores, RemoveScoreEntry, LeaveScores, RemovalDone, ReuseTraining,
       RefuseIncomplete, ReuseScores, RefuseScores, WriteManifest, Stop, DieWriting
<1> QED BY <1>1, <1>2, <1>3, <1>4, <1>5, <1>6, <1>7

LEMMA RemovesOnRequestKept == RemovesOnRequest /\ [Next]_vars => RemovesOnRequest'
BY DEF RemovesOnRequest, vars, Next, InputsChange, Start, Proceed, Remove,
   RemoveTrainingEntry, EnterScores, RemoveScoreEntry, LeaveScores, RemovalDone,
   ReuseTraining, RefuseIncomplete, Train, WriteTrainingFile, ReuseScores, RefuseScores,
   GenerateScores, WriteFrame, WriteManifest, Stop, DieWriting, request

\* A write, whole or cut short, never meets a file that is there.
LEMMA WritesWhereNothingWas ==
    ASSUME IInv, KeepInv, Next, ~overwrite', NEW f \in Files \ {"device_tmp"}, Present(f)
    PROVE  disk'[f] = disk[f]
<1>1. CASE WriteTrainingFile
  <2>1. f # TrainingOrder[next]
    <3>1. next \in next..5 BY <1>1, TrainingFileWritten
    <3> QED BY <1>1, <3>1, TrainingFileWritten DEF KeepInv, NothingAhead, Present
  <2> QED BY <1>1, <2>1, TrainingFileWritten
<1>2. CASE WriteFrame
  <2>1. f # FrameOrder[next]
    <3>1. next \in next..Len(FrameOrder) BY <1>2, FrameWritten
    <3> QED BY <1>2, <3>1, FrameWritten DEF KeepInv, NothingAhead, Present
  <2> QED BY <1>2, <2>1, FrameWritten
<1>3. CASE WriteManifest
  BY <1>3 DEF WriteManifest, KeepInv, NothingAhead, Present, IInv, Shapes
<1>4. CASE DieWriting
  <2>1. CASE /\ phase = "writing"
             /\ TrainingOrder[next] # "device_name"
             /\ disk' = [disk EXCEPT ![TrainingOrder[next]] = Torn]
    <3>1. next \in next..5 /\ next \in 1..5 BY <2>1 DEF IInv, Positions
    <3>2. f # TrainingOrder[next] BY <2>1, <3>1 DEF KeepInv, NothingAhead, Present
    <3> QED BY <2>1, <3>2 DEF IInv, Shapes
  <2>2. CASE /\ phase = "writing_scores"
             /\ next <= Len(FrameOrder)
             /\ disk' = [disk EXCEPT ![FrameOrder[next]] = Torn]
    <3>1. next \in next..Len(FrameOrder) BY <2>2, FilesAreApart DEF IInv, Positions
    <3>2. f # FrameOrder[next] BY <2>2, <3>1 DEF KeepInv, NothingAhead, Present
    <3> QED BY <2>2, <3>2 DEF IInv, Shapes
  <2>3. CASE /\ phase = "writing_scores"
             /\ disk' = [disk EXCEPT ![Manifest] = Torn]
    BY <2>3 DEF KeepInv, NothingAhead, Present, IInv, Shapes
  <2> QED BY <1>4, <2>1, <2>2, <2>3 DEF DieWriting
<1>5. ASSUME NEW g \in Files, RemoveTrainingEntry(g) \/ RemoveScoreEntry(g) PROVE FALSE
  BY <1>5 DEF RemoveTrainingEntry, RemoveScoreEntry, request, KeepInv, RemovesOnRequest
<1>6. CASE EnterScores \/ LeaveScores \/ RemovalDone
  BY <1>6 DEF EnterScores, LeaveScores, RemovalDone, disks
<1>7. CASE ReuseTraining \/ RefuseIncomplete \/ Train \/ ReuseScores \/ RefuseScores
           \/ GenerateScores
  BY <1>7 DEF ReuseTraining, RefuseIncomplete, Train, ReuseScores, RefuseScores,
     GenerateScores, disks
<1>8. CASE InputsChange \/ Stop \/ \E requested \in BOOLEAN : Start(requested)
  BY <1>8 DEF InputsChange, Stop, Start, disks
<1> QED BY <1>1, <1>2, <1>3, <1>4, <1>5, <1>6, <1>7, <1>8, FilesAreApart
        DEF Next, Proceed, Remove

\* The overwriting process: from the emptied directory it trains, publishes
\* and scores; there is nothing to reuse and nothing to refuse.
LEMMA RebuildKept == IInv /\ RebuildInv /\ [Next]_vars => RebuildInv'
<1> SUFFICES ASSUME IInv, RebuildInv, [Next]_vars, overwrite'
             PROVE  /\ phase' = "loading" => TrainingDirIsEmpty'
                    /\ Trained' => detector' = inputs'
                    /\ phase' = "scoring" => ~scoresDir'
                    /\ phase' # "failed"
                    /\ phase' = "ready" => \A f \in FrameSet :
                           disk'[f] = [detector |-> inputs', inputs |-> inputs']
    BY DEF RebuildInv, Rebuilding, OverwriteRebuilds, Trained
<1>1. CASE phase' \in {"down", "removing", "removing_scores"}
  BY <1>1 DEF Trained
<1>2. CASE RemovalDone
  BY <1>2 DEF RemovalDone, disks, TrainingDirIsEmpty, Present, Trained
\* Nothing is there to be loaded, and nothing is in the way.
<1>3. ASSUME ReuseTraining \/ RefuseIncomplete PROVE FALSE
  <2>1. overwrite /\ phase = "loading" BY <1>3 DEF ReuseTraining, RefuseIncomplete, request
  <2>2. TrainingDirIsEmpty BY <2>1 DEF RebuildInv, Rebuilding
  <2>3. \A f \in Files : disk[f] = Absent BY <2>2, EmptyDirectory
  <2>4. "terminal_model" \in Files BY FilesAreApart DEF TrainingFiles
  <2> QED BY <1>3, <2>2, <2>3, <2>4 DEF ReuseTraining, RefuseIncomplete, Present
<1>4. CASE Train
  BY <1>4 DEF Train, request, Trained
<1>5. CASE WriteTrainingFile
  <2>1. /\ phase = "writing" /\ phase' \in {"writing", "scoring"} /\ ~scoresDir
        /\ UNCHANGED <<scoresDir, overwrite, inputs, detector>>
      BY <1>5, TrainingFileWritten
  <2> QED BY <2>1 DEF RebuildInv, Rebuilding, Trained
<1>6. ASSUME ReuseScores \/ RefuseScores PROVE FALSE
  <2>1. overwrite /\ phase = "scoring" BY <1>6 DEF ReuseScores, RefuseScores, request
  <2>2. ~scoresDir BY <2>1 DEF RebuildInv, Rebuilding
  <2>3. ~SomeFrame BY <2>2, FilesAreApart DEF SomeFrame, Present, IInv, ScoresInside
  <2> QED BY <1>6, <2>2, <2>3 DEF ReuseScores, RefuseScores
<1>7. CASE GenerateScores
  BY <1>7 DEF GenerateScores, request, RebuildInv, Rebuilding, Trained
<1>8. CASE WriteFrame
  BY <1>8, FrameWritten DEF RebuildInv, Rebuilding, Trained
<1>9. CASE WriteManifest
  <2>1. /\ overwrite /\ phase = "writing_scores" /\ phase' = "ready"
        /\ next \in 1..(Len(FrameOrder) + 1) /\ next > Len(FrameOrder)
        /\ detector' = detector /\ inputs' = inputs
      BY <1>9 DEF WriteManifest, request, IInv, Positions
  <2>2. detector = inputs BY <2>1 DEF RebuildInv, Rebuilding, Trained
  <2>3. \A f \in FrameSet : disk[f] = [detector |-> detector, inputs |-> inputs]
    <3> SUFFICES ASSUME NEW f \in FrameSet
                 PROVE  disk[f] = [detector |-> detector, inputs |-> inputs]
        OBVIOUS
    <3>1. PICK i \in 1..Len(FrameOrder) : FrameOrder[i] = f BY FramePositions
    <3>2. i \in 1..(next - 1) BY <2>1, FilesAreApart
    <3> QED BY <2>1, <3>1, <3>2 DEF IInv, FramesWritten
  <2>4. \A f \in FrameSet : disk'[f] = disk[f]
      BY <1>9, FilesAreApart DEF WriteManifest, IInv, Shapes
  <2> QED BY <2>1, <2>2, <2>3, <2>4
<1>10. CASE UNCHANGED vars
  BY <1>10 DEF vars, disks, request, RebuildInv, Rebuilding, OverwriteRebuilds, Trained,
     TrainingDirIsEmpty, Present
<1>11. ASSUME NEW requested \in BOOLEAN, Start(requested)
       PROVE  phase' \in {"down", "removing", "removing_scores"}
  BY <1>11 DEF Start
<1>12. ASSUME InputsChange \/ Stop \/ DieWriting
       PROVE  phase' \in {"down", "removing", "removing_scores"}
  BY <1>12 DEF InputsChange, Stop, DieWriting
<1>13. ASSUME Remove, ~RemovalDone PROVE phase' \in {"down", "removing", "removing_scores"}
  BY <1>13 DEF Remove, RemoveTrainingEntry, EnterScores, RemoveScoreEntry, LeaveScores
<1> QED BY <1>1, <1>2, <1>3, <1>4, <1>5, <1>6, <1>7, <1>8, <1>9, <1>10, <1>11, <1>12,
           <1>13 DEF Next, Proceed

\* Complete evidence of one generation fails a loader only by its clients, its
\* widths or its rows.
LEMMA RefusedKept == IInv /\ RefusedForCause /\ [Next]_vars => RefusedForCause'
<1> DEFINE Cause == \/ \E f \in Files \ {"device_tmp"} : ~Whole(f)
                    \/ ShapeOf[disk["terminal_model"].detector] # ShapeOf[inputs]
                    \/ \E f \in FrameSet : RowsOf[disk[f].inputs] # RowsOf[inputs]
<1> SUFFICES ASSUME IInv, RefusedForCause, [Next]_vars, phase' = "failed"
             PROVE  Cause'
    BY DEF RefusedForCause
<1>1. CASE UNCHANGED vars
  BY <1>1 DEF vars, disks, request, RefusedForCause, Whole
<1>2. CASE ReuseTraining
  <2>1. ~TrainingLoads BY <1>2 DEF ReuseTraining
  <2>2. disk' = disk /\ inputs' = inputs BY <1>2 DEF ReuseTraining, disks, request
  <2>3. CASE \A f \in Files \ {"device_tmp"} : Whole(f)
    <3>1. PICK v \in Versions : \A f \in Files \ {"device_tmp"} : disk[f].detector = v
        BY <2>3, WholeDirectory
    <3>2. TrainingFiles \subseteq Files \ {"device_tmp"}
        BY FilesAreApart DEF TrainingFiles
    <3>3. /\ disk["round_summary"].detector = v /\ disk["client_rounds"].detector = v
          /\ disk["terminal_model"].detector = v
        BY <3>1, <3>2 DEF TrainingFiles
    <3>4. ShapeOf[v] # ShapeOf[inputs] BY <2>1, <2>3, <3>2, <3>3 DEF TrainingLoads
    <3> QED BY <2>2, <3>3, <3>4
  <2>4. CASE \E f \in Files \ {"device_tmp"} : ~Whole(f) BY <2>2, <2>4 DEF Whole
  <2> QED BY <2>3, <2>4
<1>3. CASE RefuseIncomplete
  <2>1. "terminal_model" \in Files \ {"device_tmp"} BY FilesAreApart DEF TrainingFiles
  <2> QED BY <1>3, <2>1 DEF RefuseIncomplete, Present, Whole, disks
<1>4. CASE ReuseScores
  <2>1. ~(IdentityMatches /\ FramesMatchPartition) BY <1>4 DEF ReuseScores
  <2>2. disk' = disk /\ inputs' = inputs BY <1>4 DEF ReuseScores, disks, request
  <2>3. CASE \A f \in Files \ {"device_tmp"} : Whole(f)
    <3>1. PICK v \in Versions : \A f \in Files \ {"device_tmp"} : disk[f].detector = v
        BY <2>3, WholeDirectory
    <3>2. /\ "terminal_model" \in TrainingFiles
          /\ "terminal_model" \in Files \ {"device_tmp"}
          /\ Manifest \in Files \ {"device_tmp"} /\ FrameSet \subseteq Files \ {"device_tmp"}
        BY FilesAreApart DEF TrainingEntries, TrainingFiles
    <3>3. v = detector BY <1>4, <3>1, <3>2 DEF ReuseScores, IInv, DetectorIsOnDisk
    <3>4. IdentityMatches BY <2>3, <3>1, <3>2, <3>3 DEF IdentityMatches
    <3>5. \E f \in FrameSet : RowsOf[disk[f].inputs] # RowsOf[inputs]
        BY <2>1, <2>3, <3>2, <3>4 DEF FramesMatchPartition
    <3> QED BY <2>2, <3>5
  <2>4. CASE \E f \in Files \ {"device_tmp"} : ~Whole(f) BY <2>2, <2>4 DEF Whole
  <2> QED BY <2>3, <2>4
<1>5. CASE RefuseScores
  <2>1. PICK f \in FrameSet : TRUE BY FilesAreApart
  <2>2. f \in Files \ {"device_tmp"} BY FilesAreApart DEF TrainingEntries
  <2>3. ~Whole(f) BY <1>5, <2>1 DEF RefuseScores, SomeFrame, Present, Whole
  <2> QED BY <1>5, <2>2, <2>3 DEF RefuseScores, Whole, disks
<1>6. ASSUME Next, ~ReuseTraining, ~RefuseIncomplete, ~ReuseScores, ~RefuseScores
      PROVE  FALSE
  BY <1>6 DEF Next, InputsChange, Start, Proceed, Remove, RemoveTrainingEntry,
     EnterScores, RemoveScoreEntry, LeaveScores, RemovalDone, Train, WriteTrainingFile,
     GenerateScores, WriteFrame, WriteManifest, Stop, DieWriting
<1> QED BY <1>1, <1>2, <1>3, <1>4, <1>5, <1>6

\* Every variable stays in its type; the position stays within the files of
\* the stage at hand.
THEOREM TypeCorrect == Spec => []TypeOK
<1>1. IInv => TypeOK
  BY TrainingOrderIs, FilesAreApart DEF IInv, Shapes, Positions, TypeOK, Phases
<1> QED
  BY InvariantHolds, <1>1, PTL

\* A process that was not asked to overwrite leaves every file it finds, whole
\* or torn, as it is: it writes only what is not there, and only while no
\* other file of the same stage is (publication.py:28-108, federated.py:76-220).
THEOREM EvidenceKept == Spec => KeepsExistingEvidence
<1>1. Init => KeepInv
  BY DEF Init, KeepInv, NothingAhead, RemovesOnRequest
<1>2. IInv /\ KeepInv /\ [Next]_vars => KeepInv'
  BY NothingAheadKept, RemovesOnRequestKept DEF KeepInv
<1>3. IInv /\ KeepInv /\ [Next]_vars =>
          [~overwrite' => \A f \in Files \ {"device_tmp"} :
               Present(f) => disk'[f] = disk[f]]_vars
  BY WritesWhereNothingWas
<1> QED
  BY InvariantHolds, <1>1, <1>2, <1>3, PTL DEF Spec, KeepsExistingEvidence

\* A run with overwrite is never refused, and what it ends with is all
\* computed from its own inputs (training/federated.py, scoring/federated.py).
THEOREM Rebuilt == Spec => []OverwriteRebuilds
<1>1. Init => RebuildInv
  BY DEF Init, RebuildInv, Rebuilding, OverwriteRebuilds
<1>2. IInv /\ RebuildInv /\ [Next]_vars => RebuildInv'
  BY RebuildKept
<1>3. RebuildInv => OverwriteRebuilds
  BY DEF RebuildInv
<1> QED
  BY InvariantHolds, <1>1, <1>2, <1>3, PTL DEF Spec

\* A refusal has a cause in the directory: something missing or torn, or other
\* clients, widths or rows than the run's (publication.py:28-83,
\* scoring/federated.py:98-165).
THEOREM RefusalHasCause == Spec => []RefusedForCause
<1>1. Init => RefusedForCause
  BY DEF Init, RefusedForCause
<1>2. IInv /\ RefusedForCause /\ [Next]_vars => RefusedForCause'
  BY RefusedKept
<1> QED
  BY InvariantHolds, <1>1, <1>2, PTL DEF Spec
=============================================================================
