---------------------------- MODULE TemporalSeed ----------------------------
(***************************************************************************)
(* One seed of the one-shot recalibration (experiments/temporal/run.py):   *)
(* one historical detector is scored on a static reference split and on    *)
(* the future, and every threshold method is evaluated in three states,    *)
(* each with a directory of its own.  Population, split, detector and the  *)
(* future scores are kept below the frozen state and reused by whoever     *)
(* finds them there.  A run may be killed between any two steps, and an    *)
(* overwriting one first deletes the three directories one after the       *)
(* other.                                                                  *)
(*                                                                         *)
(* A published thing is a record of the version of the data its detector   *)
(* was trained on and of the version it was itself computed from.          *)
(***************************************************************************)
EXTENDS Integers, Sequences, FiniteSets

CONSTANTS
    MaxVersion,   \* a bound: versions of the canonical data
    RowsOf,       \* the rows (stable ids) of a version: two have the same, or each
                  \* lacks some of the other's
    MethodOrder,  \* the declared threshold methods, in order
    None,         \* nothing is there
    Torn          \* something is there, and not all of it

TemporalState == <<"static_reference", "frozen_future", "recalibrated_future">>
Methods == {MethodOrder[i] : i \in DOMAIN MethodOrder}
Versions == 1..MaxVersion
Contents == [detector : Versions, data : Versions]

ASSUME TemporalAssumption ==
    /\ MaxVersion \in Nat \ {0} /\ RowsOf \in [Versions -> Nat]
    /\ MethodOrder \in Seq(STRING) /\ Len(MethodOrder) > 0
    /\ \A i, j \in DOMAIN MethodOrder : i # j => MethodOrder[i] # MethodOrder[j]
    /\ Methods \cap {"population", "split", "training", "scores"} = {}
    /\ None \notin Contents /\ Torn \notin Contents /\ None # Torn

\* What is published below each state's directory.  The threshold and the
\* evaluation of a method are one entry: whole as soon as its document is.
Entry(s) ==
    {<<s, m>> : m \in Methods}
    \cup CASE s = "frozen_future" ->
                  {<<s, e>> : e \in {"population", "split", "training", "scores"}}
           [] s = "static_reference" -> {<<s, "scores">>}
           [] OTHER -> {}
States == {TemporalState[i] : i \in 1..3}
Entries == UNION {Entry(s) : s \in States}

Population == <<"frozen_future", "population">>
SplitEntry == <<"frozen_future", "split">>
Training == <<"frozen_future", "training">>
FutureScores == <<"frozen_future", "scores">>
StaticScores == <<"static_reference", "scores">>

VARIABLES
    disk,       \* what each entry holds
    version,    \* the canonical data a run finds
    stage,      \* what the run does next; "idle" if there is none
    overwrite,  \* it was asked to overwrite
    state,      \* the state it clears or evaluates, of TemporalState
    method      \* the method it evaluates, of MethodOrder

position == <<state, method>>
vars == <<disk, version, stage, overwrite, position>>

Init ==
    /\ disk = [e \in Entries |-> None]
    /\ version = 1
    /\ stage = "idle" /\ overwrite = FALSE /\ state = 1 /\ method = 1

Go(next) == stage' = next /\ UNCHANGED <<version, overwrite, position>>
Put(e, detector) == disk' = [disk EXCEPT ![e] = [detector |-> detector, data |-> version]]
Whole(e) == disk[e] \notin {None, Torn}

----------------------------------------------------------------------------
(* Between two runs.                                                       *)

\* Preprocessing publishes a new version of the canonical data.
DataChanges ==
    /\ stage = "idle" /\ version < MaxVersion /\ version' = version + 1
    /\ UNCHANGED <<disk, stage, overwrite, position>>

\* run_temporal_seed.
Start(requested) ==
    /\ stage = "idle" /\ overwrite' = requested
    /\ stage' = IF requested THEN "clear" ELSE "population"
    /\ UNCHANGED <<disk, version, position>>

\* The run is over: it returned, raised, or was killed between two steps.
Stop ==
    /\ stage # "idle" /\ stage' = "idle" /\ overwrite' = FALSE /\ state' = 1 /\ method' = 1
    /\ UNCHANGED <<disk, version>>

\* It is killed in the middle of deleting an entry, or of writing one that is
\* not staged: the training and its scores.
DieHalfway ==
    /\ \E e \in Entries :
          /\ \/ stage = "clear" /\ e \in Entry(TemporalState[state]) /\ disk[e] # None
             \/ stage = "train" /\ e = Training /\ disk[e] = None
             \/ stage = "future_scores" /\ e = FutureScores /\ disk[e] = None
             \/ stage = "static_scores" /\ e = StaticScores /\ disk[e] = None
          /\ disk' = [disk EXCEPT ![e] = Torn]
    /\ stage' = "idle" /\ overwrite' = FALSE /\ state' = 1 /\ method' = 1
    /\ UNCHANGED version

----------------------------------------------------------------------------
(* _clear_temporal_seed_outputs: rmtree of each state, in this order.      *)

ClearEntry(e) ==
    /\ stage = "clear" /\ e \in Entry(TemporalState[state]) /\ disk[e] # None
    /\ disk' = [disk EXCEPT ![e] = None]
    /\ UNCHANGED <<version, stage, overwrite, position>>

\* Mutant: the frozen state is left, with the detector in it.
MutantCleared ==
    /\ stage = "clear" /\ \A e \in Entry(TemporalState[state]) : disk[e] = None
    /\ IF state < 3 THEN stage' = stage /\ state' = 3
                    ELSE stage' = "population" /\ state' = 1
    /\ UNCHANGED <<disk, version, overwrite, method>>

Cleared ==
    /\ stage = "clear" /\ \A e \in Entry(TemporalState[state]) : disk[e] = None
    /\ IF state < 3 THEN stage' = stage /\ state' = state + 1
                    ELSE stage' = "population" /\ state' = 1
    /\ UNCHANGED <<disk, version, overwrite, method>>

----------------------------------------------------------------------------
(* resolve_execution_context: population and split are renamed into place  *)
(* whole, and reused by whoever finds them whole.                          *)

ResolvePopulation ==
    /\ stage = "population"
    /\ IF disk[Population] = None THEN Put(Population, version) ELSE UNCHANGED disk
    /\ Go(IF disk[Population] = Torn THEN "raised" ELSE "split")

\* A split that is found assigns the rows of the population; a new one does.
\* The rows must all be found in the canonical data, which may hold more: a
\* version that only adds rows is not among those of RowsOf.
ResolveSplit ==
    /\ stage = "split"
    /\ IF disk[SplitEntry] = None
       THEN disk' = [disk EXCEPT ![SplitEntry] = disk[Population]]
       ELSE UNCHANGED disk
    /\ LET rows == RowsOf[disk[Population].data] IN
       Go(IF \/ disk[SplitEntry] = Torn
             \/ disk[SplitEntry] # None /\ RowsOf[disk[SplitEntry].data] # rows
             \/ RowsOf[version] # rows
          THEN "raised" ELSE "train")

\* Mutant: a detector that is found is trained again.
MutantTrain ==
    /\ stage = "train"
    /\ IF disk[Training] = Torn THEN UNCHANGED disk /\ Go("raised")
       ELSE Put(Training, version) /\ Go("future_scores")

\* train_federated_detector: a whole publication is loaded; scores without a
\* detector, which are in its directory, are an incomplete one.
Train ==
    /\ stage = "train"
    /\ IF disk[Training] = None /\ disk[FutureScores] = None
       THEN Put(Training, version) /\ Go("future_scores")
       ELSE /\ UNCHANGED disk
            /\ Go(IF Whole(Training) THEN "future_scores" ELSE "raised")

\* publish_federated_scores below the directory, with the scores' own identity
\* and rows compared where there are some.
Score(e, next) ==
    IF disk[e] = None
    THEN Put(e, disk[Training].detector) /\ Go(next)
    ELSE /\ UNCHANGED disk
         /\ Go(IF /\ Whole(e) /\ disk[e].detector = disk[Training].detector
                  /\ RowsOf[disk[e].data] = RowsOf[version]
               THEN next ELSE "raised")

ScoreFuture == stage = "future_scores" /\ Score(FutureScores, "static_scores")
ScoreStatic == stage = "static_scores" /\ Score(StaticScores, "open")

----------------------------------------------------------------------------
(* _evaluate_state for each state, and in it for each method.              *)

\* The method that is next, in the state it is evaluated in.
Pending == <<TemporalState[state], MethodOrder[method]>>

Advance ==
    /\ IF method < Len(MethodOrder)
       THEN stage' = "open" /\ method' = method + 1 /\ UNCHANGED state
       ELSE /\ stage' = IF state < 3 THEN "open" ELSE "returned"
            /\ IF state < 3 THEN state' = state + 1 /\ method' = 1 ELSE UNCHANGED position
    /\ UNCHANGED <<version, overwrite>>

\* Mutant: what an earlier run published is taken for this one's.
MutantOpenMethod ==
    /\ stage = "open"
    /\ IF Whole(Pending) THEN UNCHANGED disk /\ Advance
       ELSE disk' = [disk EXCEPT ![Pending] = Torn] /\ Go("write")

\* construct_and_publish_federated_thresholds and evaluate_federated_detector
\* refuse a directory that exists; the first makes it.
OpenMethod ==
    /\ stage = "open"
    /\ IF disk[Pending] # None /\ ~overwrite
       THEN UNCHANGED disk /\ Go("raised")
       ELSE disk' = [disk EXCEPT ![Pending] = Torn] /\ Go("write")

\* The evaluation document is there, over the scores of its state.
WriteMethod ==
    /\ stage = "write"
    /\ disk' = [disk EXCEPT ![Pending] =
           IF Pending[1] = "static_reference" THEN disk[StaticScores] ELSE disk[FutureScores]]
    /\ Advance

----------------------------------------------------------------------------
Next ==
    \/ DataChanges
    \/ \E requested \in BOOLEAN : Start(requested)
    \/ Stop \/ DieHalfway
    \/ \E e \in Entries : ClearEntry(e)
    \/ Cleared
    \/ ResolvePopulation \/ ResolveSplit \/ Train \/ ScoreFuture \/ ScoreStatic
    \/ OpenMethod \/ WriteMethod

Spec == Init /\ [][Next]_vars

----------------------------------------------------------------------------
(* Properties.                                                             *)

Documents == {<<s, m>> : s \in States, m \in Methods}

TypeOK ==
    /\ disk \in [Entries -> Contents \cup {None, Torn}]
    /\ version \in Versions
    /\ stage \in {"idle", "clear", "population", "split", "train", "future_scores",
                  "static_scores", "open", "write", "returned", "raised"}
    /\ overwrite \in BOOLEAN
    /\ state \in 1..3 /\ method \in DOMAIN MethodOrder

\* A seed that run_temporal_seed returns is whole and of one historical
\* detector, the one on disk: every method in every state was evaluated over
\* scores of it, whatever earlier runs, killed ones among them, had left, and
\* frozen and recalibrated thresholds over the same scores (run.py:513-624).
ReturnedSeedIsOneDetector ==
    stage = "returned" =>
        \A d \in Documents :
            /\ Whole(d) /\ disk[d].detector = disk[Training].detector
            /\ d[1] # "static_reference" => disk[d] = disk[FutureScores]

\* Evidence that is whole is never altered by a run that was not asked to
\* overwrite, neither the detector that the three states share nor what was
\* evaluated of it: a second run of a finished seed raises and leaves it.
KeepsWholeEvidence ==
    [][~overwrite => \A e \in Entries : Whole(e) => disk'[e] = disk[e]]_vars

\* Whatever was left behind, a run with overwrite has nothing in its way, and
\* what it returns is all of the data it found.
OverwriteRepairs ==
    overwrite =>
        /\ stage # "raised"
        /\ stage = "returned" =>
               \A d \in Documents : disk[d] = [detector |-> version, data |-> version]

\* load_temporal_seed_result: the methods with a document are the same in
\* every state and there is one; the documents of a state share one provenance,
\* and those of the two future states one future.  Provenances hold coordinates,
\* roles and counts of rows, no detector; of the static reference and the future
\* only the coordinates are compared.  The drift of a client is computed from
\* the scores of both.
Completed(s) == {m \in Methods : Whole(<<s, m>>)}
Loads ==
    /\ Completed("static_reference") # {}
    /\ \A s \in States : Completed(s) = Completed("static_reference")
    /\ \A d, f \in Documents :
          Whole(d) /\ Whole(f) /\ (d[1] = "static_reference" <=> f[1] = "static_reference")
             => RowsOf[disk[d].data] = RowsOf[disk[f].data]
    /\ Whole(StaticScores) /\ Whole(FutureScores)

\* "static reference and future states must share one historical detector and
\* preprocessing state" (run.py:825-828), of what a report loads from disk.
ReportedRecoveryIsOneDetector ==
    stage = "idle" /\ Loads =>
        \A d, f \in Documents :
            Whole(d) /\ Whole(f) => disk[d].detector = disk[f].detector
=============================================================================
