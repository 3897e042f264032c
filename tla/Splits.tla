------------------------------- MODULE Splits -------------------------------
(***************************************************************************)
(* How the benign rows of one client are divided (data/populations/        *)
(* splits.py), as counts.  Every protocol lays the same five segments over *)
(* the rows, in this order: training, a gap, calibration, what lies        *)
(* between, evaluation.  Under "thirds" the order is a random permutation; *)
(* under "gap" and "temporal" it is the order of the source, under         *)
(* "static" a permutation that mirrors "temporal".                         *)
(*                                                                         *)
(* The code multiplies with float ratios; the integer arithmetic here      *)
(* gives the same counts (for every total below 200,000, by enumeration).  *)
(***************************************************************************)
EXTENDS Integers

Protocols == {"thirds", "gap", "temporal", "static"}

\* Positions of training, calibration, between and evaluation in a share.
Parts == 1..4

\* hamilton_integer_counts: the floors, and the residual one by one to the
\* largest remainders; the earlier part first among equals.
Floor(total, share, whole) == (total * share) \div whole
Remainder(total, share, whole) == (total * share) % whole

Total(count) == count[1] + count[2] + count[3] + count[4]

Goes(rest, i, j) ==
    IF rest[i] > rest[j] \/ (rest[i] = rest[j] /\ i < j) THEN 1 ELSE 0

Rank(rest, j) ==
    Goes(rest, 1, j) + Goes(rest, 2, j) + Goes(rest, 3, j) + Goes(rest, 4, j)

Hamilton(total, shares, whole) ==
    LET floors == [i \in Parts |-> Floor(total, shares[i], whole)]
        rest == [i \in Parts |-> Remainder(total, shares[i], whole)]
        residual == total - Total(floors)
    IN  [i \in Parts |-> floors[i] + IF Rank(rest, i) < residual THEN 1 ELSE 0]

\* A third each; 0.55, 0.15, 0.10 and 0.20 of the temporal protocols.
Thirds(total) == Hamilton(total, <<1, 1, 0, 1>>, 3)
Fractions(total) == Hamilton(total, <<55, 15, 10, 20>>, 100)

Segments(train, gap, calibration, between, evaluation) ==
    [train |-> train, gap |-> gap, calibration |-> calibration,
     between |-> between, evaluation |-> evaluation]

Sequential(count) == Segments(count[1], 0, count[2], count[3], count[4])

\* Mutant: the gaps are a hundredth of the calibration.
MutantGapSegments(total) ==
    LET train == Floor(total, 60, 100)
        calibration == Floor(total, 20, 100)
        gap == Floor(calibration, 1, 100)
    IN  Segments(train, gap, calibration, gap, total - train - 2 * gap - calibration)

\* _historical_gap_role_frame: floors of 0.60, 0.01, 0.20 and 0.01; the
\* evaluation takes what is left.
GapSegments(total) ==
    LET train == Floor(total, 60, 100)
        gap == Floor(total, 1, 100)
        calibration == Floor(total, 20, 100)
    IN  Segments(train, gap, calibration, gap, total - train - 2 * gap - calibration)

Split(protocol, total) ==
    CASE protocol = "thirds" -> Sequential(Thirds(total))
      [] protocol = "gap" -> GapSegments(total)
      [] OTHER -> Sequential(Fractions(total))
=============================================================================
