--------------------------- MODULE SeedEvaluation ---------------------------
(***************************************************************************)
(* One seed from its rows to its population metrics: the split, the        *)
(* prepared partitions of every client, calibration eligibility, the       *)
(* threshold of one cell and the evaluation of every client under it       *)
(* (data/populations/splits.py, data/preprocessing, thresholds,            *)
(* analysis/metrics).                                                      *)
(*                                                                         *)
(* Rows are counted, with the code's own ratios.  A threshold is the set   *)
(* of the clients whose calibration scores it was computed from.           *)
(***************************************************************************)
EXTENDS Splits, FiniteSets

CONSTANTS
    Clients,
    RowCounts,        \* benign rows a client may have
    StaticCounts,     \* benign rows it may have in the static reference
    MaxNonFinite,     \* rows per partition that may not be finite
    MinimumSupport,   \* MINIMUM_BENIGN_SUPPORT
    Sizes,            \* CALIBRATION_SIZE_PROTOCOL.sizes
    Coverage,         \* CONFORMAL_COVERAGE, as a percentage
    GroupCount,       \* CLUSTER_THRESHOLD_PROTOCOL.group_count
    MinimumRemaining, \* MINIMUM_REMAINING_SHARED_CONTRIBUTORS
    FamilyOf          \* the family of each client, where there is a taxonomy

ASSUME EvaluationAssumption ==
    /\ IsFiniteSet(Clients)
    /\ RowCounts \subseteq Nat /\ StaticCounts \subseteq Nat /\ Sizes \subseteq Nat
    /\ MaxNonFinite \in Nat /\ MinimumSupport \in Nat \ {0}
    /\ GroupCount \in Nat \ {0} /\ MinimumRemaining \in Nat \ {0}
    /\ DOMAIN FamilyOf = Clients

\* The conformal rank of n scores is one of them, for the minimum and for every
\* declared size.
ASSUME ConformalAssumption ==
    /\ Coverage \in 0..100
    /\ \A n \in Sizes \cup {MinimumSupport} : Coverage <= (100 - Coverage) * n

\* The methods an experiment compares, by kind of cell.  Shrinkage stands for
\* the fixed curve and for the size-aware rule.
Ladder == {"shared", "local", "family", "cluster"}
TemporalMethods == {"shared", "local", "cluster", "shrinkage"}
SizeMethods == TemporalMethods \cup {"conformal"}

VARIABLES
    protocol,  \* how the population is split: "thirds", "gap" or "temporal"
    taxonomy,  \* the population has families
    supplied,  \* the benign rows of each client
    attacked,  \* the clients that have attack rows
    rows,      \* the rows of each client's partitions
    static,    \* the same of the static reference of a temporal seed
    stage,     \* the stage that is next
    cell,      \* what is evaluated: kind, method, size, absent clients
    eligible,  \* the clients the threshold is constructed over
    assigned,  \* the clients it is assigned to, with their thresholds
    fallback,  \* the deployment fallback; {} if there is none
    results,   \* the result of each client
    outcome    \* how the seed, or this cell of it, ended

population == <<protocol, taxonomy, supplied, attacked>>
vars == <<population, rows, static, stage, cell, eligible, assigned, fallback,
          results, outcome>>

NoCell == [kind |-> "none", method |-> "none", size |-> 0, absent |-> {}]

Init ==
    /\ protocol \in {"thirds", "gap", "temporal"} /\ taxonomy \in BOOLEAN
    /\ supplied \in [Clients -> RowCounts] /\ attacked \in {{}, Clients}
    /\ rows = << >> /\ static = << >>
    /\ stage = "split" /\ cell = NoCell
    /\ eligible = {} /\ assigned = << >> /\ fallback = {} /\ results = << >>
    /\ outcome = "none"

End(how) == stage' = "over" /\ outcome' = how

----------------------------------------------------------------------------
(* Split and preprocessing.                                                *)

\* Rows that are not finite are taken out of the partitions of the Edge
\* populations after the split.
Without(parts, lost) == [role \in DOMAIN parts |->
                            IF parts[role] > lost THEN parts[role] - lost ELSE 0]

\* Temporal populations carry no attack rows of a client.
SplitRefuses ==
    /\ stage = "split" /\ protocol = "temporal" /\ attacked # {}
    /\ End("attack rows")
    /\ UNCHANGED <<population, rows, static, cell, eligible, assigned, fallback, results>>

SplitRows ==
    /\ stage = "split" /\ ~(protocol = "temporal" /\ attacked # {})
    /\ \E lost \in [Clients -> IF protocol = "temporal" THEN 0..MaxNonFinite ELSE {0}],
          reference \in [Clients -> StaticCounts] :
          /\ rows' = [c \in Clients |-> Without(Split(protocol, supplied[c]), lost[c])]
          /\ static' = IF protocol = "temporal"
                       THEN [c \in Clients |-> Split("static", reference[c])]
                       ELSE rows'
    /\ stage' = "prepare"
    /\ UNCHANGED <<population, cell, eligible, assigned, fallback, results, outcome>>

\* Every client has rows in every role of the protocol.
Extracted(parts, c) ==
    /\ parts.train > 0 /\ parts.calibration > 0
    /\ parts.evaluation > 0 \/ c \in attacked
    /\ protocol = "temporal" => parts.between > 0
    /\ protocol = "gap" => parts.gap + parts.between > 0

Prepare ==
    /\ stage = "prepare"
    /\ IF \A c \in Clients : Extracted(rows[c], c) /\ Extracted(static[c], c)
       THEN stage' = "calibrate" /\ UNCHANGED outcome
       ELSE End("empty role")
    /\ UNCHANGED <<population, rows, static, cell, eligible, assigned, fallback, results>>

----------------------------------------------------------------------------
(* Calibration.                                                            *)

Supported(parts, role) == {c \in Clients : parts[c][role] >= MinimumSupport}

\* eligible_calibration_scores of the calibration partitions.
Canonical == Supported(rows, "calibration")

\* Mutant: the cohort of the recalibrated state is not compared.
MutantCommonCohort == Supported(static, "calibration") = Canonical

\* _require_common_temporal_eligibility_cohort.
CommonCohort ==
    /\ Supported(static, "calibration") = Canonical
    /\ Supported(rows, "between") = Canonical

Cell(kind, method, size, absent) ==
    [kind |-> kind, method |-> method, size |-> size, absent |-> absent]

\* The declared cells of a seed: one state of a temporal seed, or the whole
\* calibration, a size of the ablation, an onboarding target with or without
\* calibration rows of its own, an omission of shared contributors.
Cells ==
    CASE protocol = "temporal" ->
             {Cell(state, m, 0, {}) :
                 state \in {"static", "frozen", "recalibrated"}, m \in TemporalMethods}
      [] protocol = "gap" -> {Cell("whole", m, 0, {}) : m \in Ladder}
      [] OTHER ->
             {Cell("whole", m, 0, {}) : m \in Ladder \cup SizeMethods}
             \cup {Cell("ablation", m, size, {}) : m \in SizeMethods, size \in Sizes}
             \cup {Cell("onboarding", m, 0, {target}) : m \in Ladder, target \in Canonical}
             \cup {Cell("onboarding", m, 1, {}) : m \in Ladder}
             \cup {Cell("omission", "shared", 0, absent) : absent \in
                      {a \in SUBSET Canonical : Cardinality(a) <= 4
                          /\ Cardinality(Canonical) - Cardinality(a) >= MinimumRemaining}}

EligibleFor(chosen) ==
    CASE chosen.kind = "static" -> Supported(static, "calibration")
      [] chosen.kind = "recalibrated" -> Supported(rows, "between")
      [] chosen.kind = "ablation" ->
             {c \in Canonical : rows[c].calibration >= chosen.size}
      [] OTHER -> Canonical \ chosen.absent

CalibrationRefused == Canonical = {} \/ (protocol = "temporal" /\ ~CommonCohort)

CalibrateRefuses ==
    /\ stage = "calibrate" /\ CalibrationRefused
    /\ End("no cohort")
    /\ UNCHANGED <<population, rows, static, cell, eligible, assigned, fallback, results>>

Calibrate ==
    /\ stage = "calibrate" /\ ~CalibrationRefused
    /\ cell' \in Cells /\ eligible' = EligibleFor(cell')
    /\ stage' = "construct"
    /\ UNCHANGED <<population, rows, static, assigned, fallback, results, outcome>>

----------------------------------------------------------------------------
(* dispatch_federated_threshold and construct_onboarding_threshold.        *)

\* The target of the onboarding has no calibration rows of its own.
ColdStart == cell.kind = "onboarding" /\ cell.absent # {}

Unavailable ==
    \/ cell.method = "family" /\ ~taxonomy
    \/ cell.method = "cluster" /\ Cardinality(eligible) <= GroupCount
    \/ ColdStart /\ cell.method \in {"local", "cluster"}

\* How many calibration scores of its own a client has in this cell.
Scores(c) == IF cell.kind = "ablation" THEN cell.size ELSE rows[c].calibration

\* conformal_rank_index is within the scores: (n + 1) * coverage, rounded up, is
\* at most n.
RankExists(c) == Coverage <= (100 - Coverage) * Scores(c)

\* construct_local_conformal_threshold leaves out whom it has no rank for; every
\* other method takes all that are eligible.
Thresholded == {c \in eligible : cell.method = "conformal" => RankExists(c)}

\* A whole calibration raises where a cell is only left out.
ConstructUnavailable ==
    /\ stage = "construct"
    /\ Unavailable \/ (cell.kind = "ablation" /\ eligible = {})
    /\ End(IF cell.kind = "whole" THEN "no threshold" ELSE "unavailable")
    /\ UNCHANGED <<population, rows, static, cell, eligible, assigned, fallback, results>>

\* require_eligible_cohort, and its like for conformal thresholds.
ConstructRefuses ==
    /\ stage = "construct" /\ ~Unavailable /\ Thresholded = {}
    /\ cell.kind = "ablation" => eligible # {}
    /\ End("no cohort")
    /\ UNCHANGED <<population, rows, static, cell, eligible, assigned, fallback, results>>

\* Mutant: a family counts its declared members.
MutantFamilyMembers(c) == {d \in Clients : FamilyOf[d] = FamilyOf[c]}
FamilyMembers(c) == {d \in eligible : FamilyOf[d] = FamilyOf[c]}

\* k-means labels: any division of the eligible clients into groups.
Divisions ==
    IF cell.method = "cluster" THEN [eligible -> 1..GroupCount] ELSE {[c \in eligible |-> 1]}

\* Shrinkage weighs a client's own quantile against the mean of all.
ThresholdOf(c, group) ==
    CASE cell.method \in {"local", "conformal"} -> {c}
      [] cell.method = "family" -> FamilyMembers(c)
      [] cell.method = "cluster" -> {d \in eligible : group[d] = group[c]}
      [] OTHER -> eligible

\* Whom an absent client gets its threshold from: the members of its family,
\* where it has some, or all.
ThresholdForAbsent(c) ==
    IF cell.method = "family" /\ FamilyMembers(c) # {} THEN FamilyMembers(c) ELSE eligible

\* _deployment_fallback_threshold: the shared threshold, or the mean of all
\* that were assigned; none for an OnboardingThresholdResult.
DeploymentFallback == IF ColdStart \/ cell.kind = "omission" THEN {} ELSE Thresholded

Construct ==
    /\ stage = "construct" /\ ~Unavailable /\ Thresholded # {}
    /\ \E group \in Divisions :
          assigned' = [c \in Thresholded \cup cell.absent |->
                          IF c \in eligible THEN ThresholdOf(c, group)
                          ELSE ThresholdForAbsent(c)]
    /\ fallback' = DeploymentFallback
    /\ stage' = "evaluate"
    /\ UNCHANGED <<population, rows, static, cell, eligible, results, outcome>>

----------------------------------------------------------------------------
(* The cohort and the evaluation.                                          *)

Evaluated == IF cell.kind = "static" THEN static ELSE rows

\* _is_calibration_eligible on the rows of the calibration partition, whose
\* counts come from an evaluation as accepted and without deployment fallback
\* (cohort_evidence.py:50-51), and _cell_cohort for a size of the ablation.
CalibrationEligible(c) ==
    /\ c \in Supported(Evaluated, "calibration")
    /\ cell.kind = "ablation" => c \in eligible

\* Mutant: _cell_cohort leaves fpr_evaluable as it is.
MutantFprEvaluable(c) ==
    c \in Supported(Evaluated, "calibration") /\ Evaluated[c].evaluation > 0
FprEvaluable(c) == CalibrationEligible(c) /\ Evaluated[c].evaluation > 0

CohortOf(c) ==
    CASE FprEvaluable(c) -> "fpr"
      [] ~FprEvaluable(c) /\ cell.kind = "ablation" /\ c \notin eligible -> "fallback"
      [] OTHER -> "unavailable"

Unserved == {c \in Clients : c \notin DOMAIN assigned}

\* _evaluate_score_record raises for the first client without a threshold.
EvaluateRaises ==
    /\ stage = "evaluate"
    /\ \E c \in Unserved :
          \/ CalibrationEligible(c) /\ End("unserved")
          \/ ~CalibrationEligible(c) /\ fallback = {} /\ End("no fallback")
    /\ UNCHANGED <<population, rows, static, cell, eligible, assigned, fallback, results>>

Evaluate ==
    /\ stage = "evaluate"
    /\ \A c \in Unserved : ~CalibrationEligible(c) /\ fallback # {}
    /\ results' = [c \in Clients |->
                      [from |-> IF c \in Unserved THEN fallback ELSE assigned[c],
                       own |-> c \notin Unserved, cohort |-> CohortOf(c)]]
    /\ End("published")
    /\ UNCHANGED <<population, rows, static, cell, eligible, assigned, fallback>>

----------------------------------------------------------------------------
Next ==
    \/ SplitRefuses \/ SplitRows \/ Prepare
    \/ CalibrateRefuses \/ Calibrate
    \/ ConstructUnavailable \/ ConstructRefuses \/ Construct
    \/ EvaluateRaises \/ Evaluate

Spec == Init /\ [][Next]_vars

----------------------------------------------------------------------------
(* Properties.                                                             *)

\* Once there is a threshold, its cell is evaluated for every client: the
\* cohort, which counts calibration rows, and the threshold, which is
\* constructed over one calibration role or a subsample of it, never disagree
\* about who is eligible, and a client with too few rows does not take the
\* result away from the others.  Only where there is no deployment fallback
\* (a cold start, an omission) does such a client stop the seed.
ThresholdedCellsPublish ==
    /\ outcome # "unserved"
    /\ outcome = "no fallback" =>
           /\ ColdStart \/ cell.kind = "omission"
           /\ \E c \in Clients : rows[c].calibration < MinimumSupport

\* The clients whose calibration rows count in this cell.
Counted ==
    LET calibration(c) == CASE cell.kind = "static" -> static[c].calibration
                            [] cell.kind = "recalibrated" -> rows[c].between
                            [] OTHER -> rows[c].calibration
    IN  {c \in Clients \ cell.absent :
            /\ calibration(c) >= MinimumSupport
            /\ cell.kind = "ablation" => calibration(c) >= cell.size}

\* Nobody is judged by the scores of a client that is under the minimum, that
\* does not have the size of the cell, that was omitted or is onboarded cold;
\* whoever counts is judged by a threshold its own scores went into, and one
\* that is local, conformal or of a family by nobody's outside it.
InfluenceIsScoped ==
    outcome = "published" =>
        \A c \in Clients :
            /\ results[c].from # {} /\ results[c].from \subseteq Counted
            /\ c \in Counted =>
                   /\ c \in results[c].from
                   /\ cell.method \in {"local", "conformal"} => results[c].from = {c}
                   /\ cell.method = "family" =>
                          \A d \in results[c].from : FamilyOf[d] = FamilyOf[c]

\* The population's metrics are over the clients with a threshold of their own,
\* all of them and no others: no client enters the aggregate by the fallback,
\* and none with a threshold drops out of it for want of benign rows to be
\* evaluated on.
AggregateIsWhole ==
    outcome = "published" =>
        \A c \in Clients : results[c].cohort = "fpr" <=> results[c].own

\* Whoever enters the aggregate of a historical-gap seed is separated on both
\* sides of its calibration: with support enough for a threshold there are at
\* least five rows that belong to nothing between training and calibration, and
\* between calibration and evaluation.
GapSeparates ==
    outcome = "published" /\ protocol = "gap" =>
        \A c \in Clients :
            results[c].cohort = "fpr" => rows[c].gap >= 5 /\ rows[c].between >= 5
=============================================================================
