---------------------------- MODULE TrainingRun ----------------------------
(***************************************************************************)
(* One training coordinate: the round loop of run_federated_training       *)
(* (detector/training/engine.py), the ConvergenceMonitor it consults       *)
(* (detector/training/convergence.py), the reason the result gives for     *)
(* stopping, and what a later process makes of the published history       *)
(* (detector/checkpoints/publication.py), which stores no reason and       *)
(* derives it again.  A process may die at any point and be started again, *)
(* and an overwriting run deletes the publication.                         *)
(*                                                                         *)
(* Training is seeded (configure_deterministic_execution), so the          *)
(* validation loss after round r is a function of the coordinate: lossAt.  *)
(* Publishing is one step here; module TrainingEvidence takes it apart;    *)
(* Training_proofs extends both: hence the names with "run" in them.       *)
(***************************************************************************)
EXTENDS Integers, Sequences

CONSTANTS
    MaximumRound,        \* DiagnosticSnapshotProtocol.maximum_round
    RoundsInitial,       \* ConvergenceProtocol.rounds_initial
    Window,              \* ConvergenceProtocol.window
    ThresholdNum,        \* ConvergenceProtocol.relative_threshold is the
    ThresholdDen,        \*   fraction ThresholdNum / ThresholdDen
    Losses               \* the aggregate validation losses that can occur

\* The checks of ConvergenceProtocol and DiagnosticSnapshotProtocol.
ASSUME ProtocolAssumption ==
    /\ MaximumRound \in Nat \ {0}
    /\ RoundsInitial \in 1..MaximumRound
    /\ Window \in Nat /\ Window >= 2
    /\ ThresholdNum \in Nat \ {0}
    /\ ThresholdDen \in Nat \ {0}
    /\ Losses \subseteq Nat

Rounds == 1..MaximumRound
NoRound == 0
None == [reason |-> "none", rounds |-> 0]

Reasons == {"converged", "maximum_rounds_without_convergence",
            "fixed_round_budget_completed"}

VARIABLES
    lossAt,          \* the loss each round yields, fixed for the coordinate
    convergence,     \* does the protocol declare a convergence criterion
    runPhase,        \* what the process is doing
    round,           \* rounds completed by the loop
    losses,          \* ConvergenceMonitor._losses
    convergedRound,  \* ConvergenceMonitor._converged_round
    published,       \* number of rounds of the published history, or 0
    result,          \* the FederatedTrainingResult this process returned
    firstResult      \* history: the first result any process returned

data == <<lossAt, convergence>>
monitor == <<losses, convergedRound>>
runVars == <<lossAt, convergence, runPhase, round, losses, convergedRound,
             published, result, firstResult>>

----------------------------------------------------------------------------
(* The convergence monitor.                                                *)

Distance(a, b) == IF a >= b THEN a - b ELSE b - a

\* The loss moved by less than the relative threshold; from a start below
\* 1e-12 (here 0) the relative change counts as 0.
Flat(start, end) ==
    \/ start = 0
    \/ Distance(end, start) * ThresholdDen < ThresholdNum * start

\* The last Window losses recorded, compared end to end.
WindowIsFlat(recorded) ==
    Flat(recorded[Len(recorded) - Window + 1], recorded[Len(recorded)])

\* The test against rounds_initial dropped.
MutantConvergesEarly(r, recorded) ==
    r < MaximumRound /\ Len(recorded) >= Window /\ WindowIsFlat(recorded)

\* ConvergenceMonitor.should_stop reaches the assignment of converged_round.
\* Its first test, of a round already converged, never holds: the loop left.
Converges(r, recorded) ==
    /\ r < MaximumRound
    /\ r >= RoundsInitial
    /\ Len(recorded) >= Window
    /\ WindowIsFlat(recorded)

----------------------------------------------------------------------------
(* Results.                                                                *)

\* The reason run_federated_training gives, from the monitor.
ReasonFromMonitor(stoppedBy) ==
    IF ~convergence THEN "fixed_round_budget_completed"
    ELSE IF stoppedBy # NoRound THEN "converged"
    ELSE "maximum_rounds_without_convergence"

\* The fixed budget of a protocol without convergence forgotten.
MutantReasonFromHistory(rounds) ==
    IF rounds # MaximumRound THEN "converged" ELSE "maximum_rounds_without_convergence"

\* The reason load_federated_training gives, from the terminal round alone.
ReasonFromHistory(rounds) ==
    IF ~convergence THEN "fixed_round_budget_completed"
    ELSE IF rounds # MaximumRound THEN "converged"
    ELSE "maximum_rounds_without_convergence"

\* FederatedTrainingResult.__post_init__ accepts the result.
Accepts(res) == (res.reason = "converged") <=> (res.rounds # MaximumRound)

----------------------------------------------------------------------------

RunInit ==
    /\ lossAt \in [Rounds -> Losses]
    /\ convergence \in BOOLEAN
    /\ runPhase = "stopped"
    /\ round = 0
    /\ losses = << >>
    /\ convergedRound = NoRound
    /\ published = 0
    /\ result = None
    /\ firstResult = None

Remember(res) == firstResult' = IF firstResult = None THEN res ELSE firstResult

\* train_global_federated finds no publication and enters the loop with a
\* fresh monitor.
StartTraining ==
    /\ runPhase = "stopped"
    /\ published = 0
    /\ runPhase' = "training"
    /\ round' = 0
    /\ losses' = << >>
    /\ convergedRound' = NoRound
    /\ UNCHANGED <<data, published, result, firstResult>>

\* train_global_federated finds a publication and returns what it loads.
Reuse ==
    /\ runPhase = "stopped"
    /\ published # 0
    /\ LET res == [reason |-> ReasonFromHistory(published), rounds |-> published] IN
         IF Accepts(res)
         THEN runPhase' = "returned" /\ result' = res /\ Remember(res)
         ELSE runPhase' = "rejected" /\ UNCHANGED <<result, firstResult>>
    /\ UNCHANGED <<data, round, monitor, published>>

\* One round under a convergence protocol: record the loss, then should_stop.
RunMonitoredRound ==
    /\ runPhase = "training"
    /\ convergence
    /\ round < MaximumRound
    /\ LET r == round + 1
           recorded == Append(losses, lossAt[r]) IN
         /\ round' = r
         /\ losses' = recorded
         /\ convergedRound' = IF Converges(r, recorded) THEN r ELSE NoRound
         /\ runPhase' = IF Converges(r, recorded) \/ r >= MaximumRound
                     THEN "trained" ELSE "training"
    /\ UNCHANGED <<data, published, result, firstResult>>

\* The loop over range(1, maximum_round + 2).
MutantRunBudgetRound ==
    /\ runPhase = "training"
    /\ ~convergence
    /\ round' = round + 1
    /\ runPhase' = IF round + 1 > MaximumRound THEN "trained" ELSE "training"
    /\ UNCHANGED <<data, monitor, published, result, firstResult>>

\* One round under a fixed budget: nothing is monitored.
RunBudgetRound ==
    /\ runPhase = "training"
    /\ ~convergence
    /\ round < MaximumRound
    /\ round' = round + 1
    /\ runPhase' = IF round + 1 = MaximumRound THEN "trained" ELSE "training"
    /\ UNCHANGED <<data, monitor, published, result, firstResult>>

\* The result is constructed, which checks it, written and returned.
Publish ==
    /\ runPhase = "trained"
    /\ LET res == [reason |-> ReasonFromMonitor(convergedRound), rounds |-> round] IN
         IF Accepts(res)
         THEN /\ runPhase' = "returned"
              /\ published' = round
              /\ result' = res
              /\ Remember(res)
         ELSE runPhase' = "rejected" /\ UNCHANGED <<published, result, firstResult>>
    /\ UNCHANGED <<data, round, monitor>>

\* The process ends, or dies: what it held in memory is gone.
Exit ==
    /\ runPhase # "stopped"
    /\ runPhase' = "stopped"
    /\ result' = None
    /\ UNCHANGED <<data, round, monitor, published, firstResult>>

\* A run with overwrite deletes the training directory before it starts.
Overwrite ==
    /\ runPhase = "stopped"
    /\ published # 0
    /\ published' = 0
    /\ UNCHANGED <<data, runPhase, round, monitor, result, firstResult>>

RunNext ==
    \/ StartTraining
    \/ Reuse
    \/ RunMonitoredRound
    \/ RunBudgetRound
    \/ Publish
    \/ Exit
    \/ Overwrite

\* The loop is one thread that nothing blocks, so a started training goes on;
\* nothing obliges anyone to start a process, to end it or to overwrite.
Fairness == WF_runVars(RunMonitoredRound \/ RunBudgetRound \/ Publish)

RunSpec == RunInit /\ [][RunNext]_runVars /\ Fairness

----------------------------------------------------------------------------
(* Properties.                                                             *)

RunTypeOK ==
    /\ lossAt \in [Rounds -> Losses]
    /\ convergence \in BOOLEAN
    /\ runPhase \in {"stopped", "training", "trained", "returned", "rejected"}
    /\ round \in 0..MaximumRound
    /\ losses \in Seq(Losses)
    /\ convergedRound \in 0..MaximumRound
    /\ published \in 0..MaximumRound
    /\ result \in [reason : Reasons, rounds : Rounds] \cup {None}
    /\ firstResult \in [reason : Reasons, rounds : Rounds] \cup {None}

\* The criterion of the protocol, on the losses of the coordinate: at round r
\* the last Window losses, the first and the last of them compared, are flat.
FlatAt(r) ==
    r >= Window /\ Flat(lossAt[r - Window + 1], lossAt[r])

EligibleRounds == {r \in Rounds : r >= RoundsInitial /\ r < MaximumRound}

\* What the criterion asks for, said once, without a monitor: the first
\* eligible round at which the loss is flat, or else the whole budget.
DeclaredOutcome(res) ==
    \/ /\ ~convergence
       /\ res.reason = "fixed_round_budget_completed"
       /\ res.rounds = MaximumRound
    \/ /\ convergence
       /\ res.reason = "converged"
       /\ res.rounds \in EligibleRounds
       /\ FlatAt(res.rounds)
       /\ \A r \in EligibleRounds : r < res.rounds => ~FlatAt(r)
    \/ /\ convergence
       /\ res.reason = "maximum_rounds_without_convergence"
       /\ res.rounds = MaximumRound
       /\ \A r \in EligibleRounds : ~FlatAt(r)

\* Every result a process returns, trained now or loaded from an earlier
\* process, is the outcome the declared criterion gives for this coordinate's
\* losses: a restart, a reload or a rerun never changes where training stopped
\* or why (engine.py:719-742 against publication.py:66-73).
ReturnsDeclaredOutcome == runPhase = "returned" => DeclaredOutcome(result)

\* The checks FederatedTrainingResult makes on construction never refuse what
\* the loop or the reload produced: the loop never reports convergence at the
\* last round, nor an exhausted budget before it.
NeverRejected == runPhase # "rejected"

\* The first result ever returned is the one every later process returns, by
\* reuse or by training again after an overwrite.
ResultIsReproducible == runPhase = "returned" => result = firstResult

\* Training that has started reaches a result, unless its process ends first.
TrainingReturns == runPhase = "training" ~> runPhase \in {"returned", "stopped"}
=============================================================================
