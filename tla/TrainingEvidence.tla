-------------------------- MODULE TrainingEvidence --------------------------
(***************************************************************************)
(* The directory of one training coordinate and the processes that, one    *)
(* after the other, reuse it or fill it: the history and terminal model    *)
(* written by write_federated_training, the score frames and the detector  *)
(* identity written by publish_federated_scores below it, and what the     *)
(* loaders accept of what earlier processes left.  A process may die       *)
(* between any two file operations or in the middle of a write; an         *)
(* overwriting campaign first deletes the directory entry by entry.        *)
(*                                                                         *)
(* Training and scoring are seeded, so a file's content is a function of   *)
(* the version of the inputs it was computed from; versions stand for the  *)
(* digests.  Symbolic links and hand-edited files are left out.            *)
(***************************************************************************)
EXTENDS Integers, Sequences

CONSTANTS
    Versions,     \* versions of the data and code a process can start with
    RowsOf,       \* the partition rows (ids, labels, families) of a version
    ShapeOf,      \* the clients and the autoencoder widths of a version
    RoundsOf,     \* the number of rounds training on a version takes
    FrameOrder,   \* the score frames, in the order they are written
    Absent,       \* no file
    Torn          \* a file whose write was cut short

FrameSet == {FrameOrder[i] : i \in DOMAIN FrameOrder}

\* persist_federated_training_history, then save_state_dict_tensors.
TrainingOrder == <<"round_summary", "client_rounds", "device_tmp",
                   "device_name", "terminal_model">>
TrainingFiles == {"round_summary", "client_rounds", "device_name", "terminal_model"}
TrainingEntries == TrainingFiles \cup {"device_tmp"}

Manifest == "terminal_detector_identity"
ScoreEntries == FrameSet \cup {Manifest}
Files == TrainingEntries \cup ScoreEntries

\* A whole file: the version of the detector it belongs to and the version of
\* the inputs it was computed from (equal, but for score frames).
Contents == [detector : Versions, inputs : Versions]

ASSUME EvidenceAssumption ==
    /\ FrameOrder \in Seq(STRING) /\ Len(FrameOrder) > 0
    /\ \A i, j \in DOMAIN FrameOrder : FrameOrder[i] = FrameOrder[j] => i = j
    /\ FrameSet \cap (TrainingEntries \cup {Manifest}) = {}
    /\ Absent \notin Contents /\ Torn \notin Contents /\ Absent # Torn
    /\ RowsOf \in [Versions -> Nat]
    /\ ShapeOf \in [Versions -> Nat]
    /\ RoundsOf \in [Versions -> Nat]

NoDetector == Absent

VARIABLES
    disk,       \* the content of every file of the directory
    scoresDir,  \* the scores subdirectory exists
    current,    \* the version a process started now would compute with
    phase,      \* what the running process is doing
    overwrite,  \* the process was asked to overwrite
    inputs,     \* the version the process computes with
    detector,   \* the terminal model the process holds
    next        \* index of the next file to write

disks == <<disk, scoresDir>>
request == <<overwrite, inputs>>
vars == <<disk, scoresDir, current, phase, overwrite, inputs, detector, next>>

----------------------------------------------------------------------------

Whole(f) == disk[f] \notin {Absent, Torn}
Present(f) == disk[f] # Absent
TrainingDirIsEmpty == ~scoresDir /\ \A f \in TrainingEntries : ~Present(f)

Init ==
    /\ disk = [f \in Files |-> Absent]
    /\ scoresDir = FALSE
    /\ current \in Versions
    /\ phase = "down"
    /\ overwrite = FALSE
    /\ inputs = current
    /\ detector = NoDetector
    /\ next = 1

\* A dataset is rebuilt or the code changes between two processes.
InputsChange ==
    /\ phase = "down"
    /\ current' \in Versions \ {current}
    /\ UNCHANGED <<disks, phase, request, detector, next>>

\* A campaign starts; only an overwriting one removes the directory first.
Start(requested) ==
    /\ phase = "down"
    /\ phase' = IF requested THEN "removing" ELSE "loading"
    /\ overwrite' = requested
    /\ inputs' = current
    /\ detector' = NoDetector
    /\ next' = 1
    /\ UNCHANGED <<disks, current>>

----------------------------------------------------------------------------
(* _remove_rebuilt_training_artifacts: rmtree takes the entries in the     *)
(* order the file system lists them.                                       *)

RemoveTrainingEntry(f) ==
    /\ phase = "removing"
    /\ Present(f)
    /\ disk' = [disk EXCEPT ![f] = Absent]
    /\ UNCHANGED <<scoresDir, current, phase, request, detector, next>>

EnterScores ==
    /\ phase = "removing"
    /\ scoresDir
    /\ phase' = "removing_scores"
    /\ UNCHANGED <<disks, current, request, detector, next>>

RemoveScoreEntry(f) ==
    /\ phase = "removing_scores"
    /\ Present(f)
    /\ disk' = [disk EXCEPT ![f] = Absent]
    /\ UNCHANGED <<scoresDir, current, phase, request, detector, next>>

\* The emptied scores directory left behind.
MutantLeaveScores ==
    /\ phase = "removing_scores"
    /\ \A f \in ScoreEntries : ~Present(f)
    /\ phase' = "removing"
    /\ UNCHANGED <<disks, current, request, detector, next>>

LeaveScores ==
    /\ phase = "removing_scores"
    /\ \A f \in ScoreEntries : ~Present(f)
    /\ scoresDir' = FALSE
    /\ phase' = "removing"
    /\ UNCHANGED <<disk, current, request, detector, next>>

\* Only the scores removed: the detector is kept.
MutantRemovalDone ==
    /\ phase = "removing"
    /\ ~scoresDir
    /\ phase' = "loading"
    /\ UNCHANGED <<disks, current, request, detector, next>>

RemovalDone ==
    /\ phase = "removing"
    /\ TrainingDirIsEmpty
    /\ phase' = "loading"
    /\ UNCHANGED <<disks, current, request, detector, next>>

----------------------------------------------------------------------------
(* load_federated_training and train_global_federated.                     *)

\* Only the terminal model read.
MutantTrainingLoads == Whole("terminal_model")

\* load_federated_training_history, the device name and the terminal model:
\* all readable, one row for every round and client of the process, and the
\* widths of its autoencoder.
TrainingLoads ==
    /\ \A f \in TrainingFiles : Whole(f)
    /\ RoundsOf[disk["round_summary"].detector] = RoundsOf[disk["client_rounds"].detector]
    /\ ShapeOf[disk["client_rounds"].detector] = ShapeOf[inputs]
    /\ ShapeOf[disk["terminal_model"].detector] = ShapeOf[inputs]

ReuseTraining ==
    /\ phase = "loading"
    /\ Present("terminal_model")
    /\ IF TrainingLoads
       THEN phase' = "scoring" /\ detector' = disk["terminal_model"].detector
       ELSE phase' = "failed" /\ UNCHANGED detector
    /\ UNCHANGED <<disks, current, request, next>>

\* A directory without a terminal model is an incomplete publication.
RefuseIncomplete ==
    /\ phase = "loading"
    /\ ~Present("terminal_model")
    /\ ~TrainingDirIsEmpty
    /\ phase' = "failed"
    /\ UNCHANGED <<disks, current, request, detector, next>>

Train ==
    /\ phase = "loading"
    /\ ~Present("terminal_model")
    /\ TrainingDirIsEmpty
    /\ detector' = inputs
    /\ phase' = "writing"
    /\ UNCHANGED <<disks, current, request, next>>

\* The position not reset for the score frames.
MutantWriteTrainingFile ==
    /\ phase = "writing"
    /\ LET f == TrainingOrder[next]
           content == [detector |-> detector, inputs |-> detector] IN
         disk' = IF f = "device_name"
                 THEN [disk EXCEPT !["device_tmp"] = Absent, ![f] = content]
                 ELSE [disk EXCEPT ![f] = content]
    /\ phase' = IF next = Len(TrainingOrder) THEN "scoring" ELSE "writing"
    /\ next' = next + 1
    /\ UNCHANGED <<scoresDir, current, request, detector>>

\* One file of the publication written; the device name is renamed into place.
WriteTrainingFile ==
    /\ phase = "writing"
    /\ LET f == TrainingOrder[next]
           content == [detector |-> detector, inputs |-> detector] IN
         disk' = IF f = "device_name"
                 THEN [disk EXCEPT !["device_tmp"] = Absent, ![f] = content]
                 ELSE [disk EXCEPT ![f] = content]
    /\ IF next = Len(TrainingOrder)
       THEN phase' = "scoring" /\ next' = 1
       ELSE phase' = "writing" /\ next' = next + 1
    /\ UNCHANGED <<scoresDir, current, request, detector>>

----------------------------------------------------------------------------
(* publish_federated_scores, called without overwrite in every case.       *)

SomeFrame == \E f \in FrameSet : Present(f)

\* Frames that can be read taken as they are.
MutantFramesMatchPartition == \A f \in FrameSet : Whole(f)

\* Every frame readable, with the rows of the partition this process holds.
FramesMatchPartition ==
    \A f \in FrameSet : Whole(f) /\ RowsOf[disk[f].inputs] = RowsOf[inputs]

\* The identity compared with what training on the inputs at hand would give.
MutantIdentityMatches == Whole(Manifest) /\ disk[Manifest].detector = inputs

\* The persisted detector identity is that of the detector held.
IdentityMatches == Whole(Manifest) /\ disk[Manifest].detector = detector

ReuseScores ==
    /\ phase = "scoring"
    /\ SomeFrame
    /\ phase' = IF IdentityMatches /\ FramesMatchPartition THEN "ready" ELSE "failed"
    /\ UNCHANGED <<disks, current, request, detector, next>>

\* No frame, and yet a scores directory: FileExistsError.
RefuseScores ==
    /\ phase = "scoring"
    /\ ~SomeFrame
    /\ scoresDir
    /\ phase' = "failed"
    /\ UNCHANGED <<disks, current, request, detector, next>>

\* The existing frames ignored.
MutantGenerateScores ==
    /\ phase = "scoring"
    /\ scoresDir' = TRUE
    /\ phase' = "writing_scores"
    /\ UNCHANGED <<disk, current, request, detector, next>>

GenerateScores ==
    /\ phase = "scoring"
    /\ ~SomeFrame
    /\ ~scoresDir
    /\ scoresDir' = TRUE
    /\ phase' = "writing_scores"
    /\ UNCHANGED <<disk, current, request, detector, next>>

WriteFrame ==
    /\ phase = "writing_scores"
    /\ next <= Len(FrameOrder)
    /\ disk' = [disk EXCEPT ![FrameOrder[next]] =
                   [detector |-> detector, inputs |-> inputs]]
    /\ next' = next + 1
    /\ UNCHANGED <<scoresDir, current, phase, request, detector>>

\* _persist_terminal_detector_identity comes last.
WriteManifest ==
    /\ phase = "writing_scores"
    /\ next > Len(FrameOrder)
    /\ disk' = [disk EXCEPT ![Manifest] =
                   [detector |-> detector, inputs |-> detector]]
    /\ phase' = "ready"
    /\ UNCHANGED <<scoresDir, current, request, detector, next>>

----------------------------------------------------------------------------

\* The process ends: normally, killed between two steps, or by an exception
\* raised while it trains or scores.  Another attempt at the same coordinate
\* in the same campaign is a new Start, without overwrite.
Stop ==
    /\ phase # "down"
    /\ phase' = "down"
    /\ detector' = NoDetector
    /\ next' = 1
    /\ UNCHANGED <<disks, current, request>>

\* The process is killed while it writes a file (a rename is atomic).
DieWriting ==
    /\ \/ /\ phase = "writing"
          /\ TrainingOrder[next] # "device_name"
          /\ disk' = [disk EXCEPT ![TrainingOrder[next]] = Torn]
       \/ /\ phase = "writing_scores"
          /\ next <= Len(FrameOrder)
          /\ disk' = [disk EXCEPT ![FrameOrder[next]] = Torn]
       \/ /\ phase = "writing_scores"
          /\ next > Len(FrameOrder)
          /\ disk' = [disk EXCEPT ![Manifest] = Torn]
    /\ phase' = "down"
    /\ detector' = NoDetector
    /\ next' = 1
    /\ UNCHANGED <<scoresDir, current, request>>

Remove ==
    \/ \E f \in TrainingEntries : RemoveTrainingEntry(f)
    \/ EnterScores
    \/ \E f \in ScoreEntries : RemoveScoreEntry(f)
    \/ LeaveScores
    \/ RemovalDone

Proceed ==
    \/ Remove
    \/ ReuseTraining \/ RefuseIncomplete \/ Train \/ WriteTrainingFile
    \/ ReuseScores \/ RefuseScores \/ GenerateScores \/ WriteFrame \/ WriteManifest

Next ==
    \/ InputsChange
    \/ \E requested \in BOOLEAN : Start(requested)
    \/ Proceed
    \/ Stop
    \/ DieWriting

\* A running process is one thread that nothing blocks.  Nothing obliges
\* anyone to start one, and it may die at any time.
Spec == Init /\ [][Next]_vars /\ WF_vars(Proceed)

----------------------------------------------------------------------------
(* Properties.                                                             *)

Phases == {"down", "removing", "removing_scores", "loading", "writing",
           "scoring", "writing_scores", "ready", "failed"}

TypeOK ==
    /\ disk \in [Files -> Contents \cup {Absent, Torn}]
    /\ scoresDir \in BOOLEAN
    /\ current \in Versions
    /\ phase \in Phases
    /\ overwrite \in BOOLEAN
    /\ inputs \in Versions
    /\ detector \in Versions \cup {NoDetector}
    /\ next \in 1..(IF phase = "writing" THEN Len(TrainingOrder) ELSE Len(FrameOrder) + 1)

\* Once a process holds a trained detector, its history, device name and
\* terminal model are all on disk, whole, and all of that detector: it never
\* works from files that two trainings left (publication.py:28-83).
DetectorIsOnDisk ==
    phase \in {"scoring", "writing_scores", "ready"} =>
        \A f \in TrainingFiles : Whole(f) /\ disk[f].detector = detector

\* The scores a process goes on with are all on disk, whole, computed by the
\* detector it holds, over the rows of the partition it holds
\* (scoring/federated.py:98-165).
ScoresBelongToDetector ==
    phase = "ready" =>
        /\ Whole(Manifest) /\ disk[Manifest].detector = detector
        /\ \A f \in FrameSet :
             /\ Whole(f)
             /\ disk[f].detector = detector
             /\ RowsOf[disk[f].inputs] = RowsOf[inputs]

\* A run that was not asked to overwrite leaves every file it finds as it is,
\* whole or torn ("existing artifacts are kept by default", README.md); only
\* the renamed staging file of the device name goes away.
KeepsExistingEvidence ==
    [][~overwrite' => \A f \in Files \ {"device_tmp"} :
           Present(f) => disk'[f] = disk[f]]_vars

\* Whatever an earlier process left behind, a run with overwrite never finds
\* it in its way, and ends with everything computed from its own inputs.
OverwriteRebuilds ==
    overwrite =>
        /\ phase # "failed"
        /\ phase = "ready" =>
             /\ detector = inputs
             /\ \A f \in FrameSet : disk[f] = [detector |-> inputs, inputs |-> inputs]

\* A run is refused only where evidence is incomplete, or the clients, the
\* widths or the rows it was computed for are not those of the run any more:
\* complete evidence is never turned down for any other reason.
RefusedForCause ==
    phase = "failed" =>
        \/ \E f \in Files \ {"device_tmp"} : ~Whole(f)
        \/ ShapeOf[disk["terminal_model"].detector] # ShapeOf[inputs]
        \/ \E f \in FrameSet : RowsOf[disk[f].inputs] # RowsOf[inputs]

\* A run that starts over comes to an end with its evidence in place, unless
\* it is killed.
OverwriteFinishes == phase = "removing" ~> phase \in {"ready", "down"}
=============================================================================
