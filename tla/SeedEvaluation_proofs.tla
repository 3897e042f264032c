----------------------- MODULE SeedEvaluation_proofs ------------------------
(***************************************************************************)
(* What one seed promises of its split, its thresholds and its metrics,    *)
(* for any clients, row counts and sizes.                                  *)
(***************************************************************************)
EXTENDS SeedEvaluation, TLAPS

Roles == {"train", "gap", "calibration", "between", "evaluation"}

\* The share of n as a floor and a remainder.
FloorAndRest(n, share, whole) ==
    /\ Floor(n, share, whole) \in Nat /\ Remainder(n, share, whole) \in 0..(whole - 1)
    /\ n * share = whole * Floor(n, share, whole) + Remainder(n, share, whole)

\* What a floor and a remainder are.
LEMMA Division == \A n, share \in Nat, whole \in {3, 100} : FloorAndRest(n, share, whole)
<1> SUFFICES ASSUME NEW n \in Nat, NEW share \in Nat, NEW whole \in {3, 100}
             PROVE  FloorAndRest(n, share, whole)
  OBVIOUS
<1> DEFINE k == n * share
<1>1. k \in Nat
  OBVIOUS
<1> HIDE DEF k
<1>2. k \div 3 \in Nat /\ k % 3 \in 0..2 /\ k = 3 * (k \div 3) + (k % 3)
  BY <1>1, SMTT(30)
<1>3. k \div 100 \in Nat /\ k % 100 \in 0..99 /\ k = 100 * (k \div 100) + (k % 100)
  BY <1>1, SMTT(30)
<1>4. CASE whole = 3
  BY <1>2, <1>4 DEF FloorAndRest, Floor, Remainder, k
<1>5. CASE whole = 100
  BY <1>3, <1>5 DEF FloorAndRest, Floor, Remainder, k
<1> QED
  BY <1>4, <1>5

\* The ranks of four remainders are 0 to 3, each once: as many parts get one
\* more as there are rows left.
LEMMA RanksCount ==
    ASSUME NEW r \in [Parts -> Int], NEW k \in 0..3
    PROVE  (IF Rank(r, 1) < k THEN 1 ELSE 0) + (IF Rank(r, 2) < k THEN 1 ELSE 0)
           + (IF Rank(r, 3) < k THEN 1 ELSE 0) + (IF Rank(r, 4) < k THEN 1 ELSE 0) = k
<1>1. r[1] \in Int /\ r[2] \in Int /\ r[3] \in Int /\ r[4] \in Int
  BY DEF Parts
<1> QED
  BY <1>1 DEF Rank, Goes

\* Four floors and four remainders put together again.
Recombined(whole, f, r) ==
    (whole * f[1] + r[1]) + (whole * f[2] + r[2]) + (whole * f[3] + r[3]) + (whole * f[4] + r[4])

\* Sums of four floors and of four remainders, for each divisor.
LEMMA Sums3 ==
    ASSUME NEW f \in [Parts -> Nat], NEW r \in [Parts -> 0..2]
    PROVE  /\ Total(f) \in Nat /\ Total(r) \in 0..8
           /\ Recombined(3, f, r) = 3 * Total(f) + Total(r)
<1>1. r[1] \in 0..2 /\ r[2] \in 0..2 /\ r[3] \in 0..2 /\ r[4] \in 0..2
  BY DEF Parts
<1>2. f[1] \in Nat /\ f[2] \in Nat /\ f[3] \in Nat /\ f[4] \in Nat
  BY DEF Parts
<1> QED
  BY <1>1, <1>2 DEF Total, Recombined

LEMMA Left3 ==
    \A n, floored \in Nat, left \in 0..8 : n * 3 = 3 * floored + left => n - floored \in 0..3
OBVIOUS

LEMMA Sums100 ==
    ASSUME NEW f \in [Parts -> Nat], NEW r \in [Parts -> 0..99]
    PROVE  /\ Total(f) \in Nat /\ Total(r) \in 0..396
           /\ Recombined(100, f, r) = 100 * Total(f) + Total(r)
<1>1. r[1] \in 0..99 /\ r[2] \in 0..99 /\ r[3] \in 0..99 /\ r[4] \in 0..99
  BY DEF Parts
<1>2. f[1] \in Nat /\ f[2] \in Nat /\ f[3] \in Nat /\ f[4] \in Nat
  BY DEF Parts
<1>3. \A a, b, c, d \in 0..99 : a + b + c + d \in 0..396
  OBVIOUS
<1>4. \A a, b, c, d \in Nat : a + b + c + d \in Nat
  OBVIOUS
<1>5. \A a, b, x, y \in Nat : (100 * a + x) + (100 * b + y) = 100 * (a + b) + (x + y)
  OBVIOUS
<1>6. r[1] \in Nat /\ r[2] \in Nat /\ r[3] \in Nat /\ r[4] \in Nat
  BY <1>1
<1>7. Total(r) \in 0..396
  BY <1>1, <1>3, Zenon DEF Total
<1>8. Total(f) \in Nat
  BY <1>2, <1>4, Zenon DEF Total
<1>9. Recombined(100, f, r) = 100 * Total(f) + Total(r)
  <2>1. /\ f[1] + f[2] \in Nat /\ f[1] + f[2] + f[3] \in Nat
        /\ r[1] + r[2] \in Nat /\ r[1] + r[2] + r[3] \in Nat
    BY <1>2, <1>6
  <2>2. (100 * f[1] + r[1]) + (100 * f[2] + r[2]) = 100 * (f[1] + f[2]) + (r[1] + r[2])
    BY <1>2, <1>5, <1>6
  <2>3. (100 * (f[1] + f[2]) + (r[1] + r[2])) + (100 * f[3] + r[3])
           = 100 * (f[1] + f[2] + f[3]) + (r[1] + r[2] + r[3])
    BY <1>2, <1>5, <1>6, <2>1
  <2>4. (100 * (f[1] + f[2] + f[3]) + (r[1] + r[2] + r[3])) + (100 * f[4] + r[4])
           = 100 * Total(f) + Total(r)
    BY <1>2, <1>5, <1>6, <2>1 DEF Total
  <2> QED
    BY <2>2, <2>3, <2>4, Zenon DEF Recombined
<1> QED
  BY <1>7, <1>8, <1>9

LEMMA Left100 ==
    \A n, floored \in Nat, left \in 0..396 : n * 100 = 100 * floored + left => n - floored \in 0..3
OBVIOUS

\* The shares of n, each as a floor and a remainder.
Shared(n, whole, s, f, r) == \A i \in Parts : n * s[i] = whole * f[i] + r[i]
Below(whole) == 0..(whole - 1)

\* Four remainders leave at most three rows.
LEMMA ResidualIs ==
    ASSUME NEW n \in Nat, NEW whole \in {3, 100}, NEW s \in [Parts -> Nat],
           NEW f \in [Parts -> Nat], NEW r \in [Parts -> Below(whole)],
           Total(s) = whole, Shared(n, whole, s, f, r)
    PROVE  n - Total(f) \in 0..3
<1>1. /\ s[1] \in Nat /\ s[2] \in Nat /\ s[3] \in Nat /\ s[4] \in Nat
      /\ n * s[1] = whole * f[1] + r[1] /\ n * s[2] = whole * f[2] + r[2]
      /\ n * s[3] = whole * f[3] + r[3] /\ n * s[4] = whole * f[4] + r[4]
      /\ s[1] + s[2] + s[3] + s[4] = whole
  BY DEF Parts, Total, Shared
<1>2. n * (s[1] + s[2] + s[3] + s[4]) = n * s[1] + n * s[2] + n * s[3] + n * s[4]
  <2>1. \A x, y, z, u \in Nat : n * (x + y + z + u) = n * x + n * y + n * z + n * u
    BY SMTT(30)
  <2> QED
    BY <1>1, <2>1
<1>3. CASE whole = 3
  <2>1. /\ n * s[1] = 3 * f[1] + r[1] /\ n * s[2] = 3 * f[2] + r[2]
        /\ n * s[3] = 3 * f[3] + r[3] /\ n * s[4] = 3 * f[4] + r[4]
    BY <1>1, <1>3
  <2>2. n * 3 = n * s[1] + n * s[2] + n * s[3] + n * s[4]
    BY <1>1, <1>2, <1>3
  <2>3. n * 3 = Recombined(3, f, r)
    BY <2>1, <2>2, Zenon DEF Recombined
  <2>4. r \in [Parts -> 0..2]
    BY <1>3 DEF Below
  <2>5. Total(f) \in Nat /\ Total(r) \in 0..8 /\ n * 3 = 3 * Total(f) + Total(r)
    BY <2>3, <2>4, Sums3
  <2> QED
    BY <2>5, Left3, Zenon
<1>4. CASE whole = 100
  <2>1. /\ n * s[1] = 100 * f[1] + r[1] /\ n * s[2] = 100 * f[2] + r[2]
        /\ n * s[3] = 100 * f[3] + r[3] /\ n * s[4] = 100 * f[4] + r[4]
    BY <1>1, <1>4
  <2>2. n * 100 = n * s[1] + n * s[2] + n * s[3] + n * s[4]
    BY <1>1, <1>2, <1>4
  <2>3. n * 100 = Recombined(100, f, r)
    BY <2>1, <2>2, Zenon DEF Recombined
  <2>4. r \in [Parts -> 0..99]
    BY <1>4 DEF Below
  <2>5. Total(f) \in Nat /\ Total(r) \in 0..396 /\ n * 100 = 100 * Total(f) + Total(r)
    BY <2>3, <2>4, Sums100
  <2> QED
    BY <2>5, Left100, Zenon
<1> QED
  BY <1>3, <1>4

\* hamilton_integer_counts neither loses nor invents a row, and gives every
\* part the floor of its share or one more.
LEMMA HamiltonConserves ==
    ASSUME NEW n \in Nat, NEW shares \in [Parts -> Nat], NEW whole \in {3, 100},
           Total(shares) = whole
    PROVE  /\ Total(Hamilton(n, shares, whole)) = n
           /\ \A i \in Parts :
                 /\ Hamilton(n, shares, whole)[i] \in Nat
                 /\ Hamilton(n, shares, whole)[i] - Floor(n, shares[i], whole) \in 0..1
<1> DEFINE floors == [i \in Parts |-> Floor(n, shares[i], whole)]
           rest == [i \in Parts |-> Remainder(n, shares[i], whole)]
           residual == n - Total(floors)
           more(i) == IF Rank(rest, i) < residual THEN 1 ELSE 0
<1>1. \A i \in Parts : /\ floors[i] \in Nat /\ rest[i] \in 0..(whole - 1)
                       /\ n * shares[i] = whole * floors[i] + rest[i]
  <2>1. ASSUME NEW i \in Parts
        PROVE  /\ Floor(n, shares[i], whole) \in Nat
               /\ Remainder(n, shares[i], whole) \in 0..(whole - 1)
               /\ n * shares[i] = whole * Floor(n, shares[i], whole)
                                  + Remainder(n, shares[i], whole)
    <3>1. shares[i] \in Nat
      OBVIOUS
    <3>2. FloorAndRest(n, shares[i], whole)
      BY <3>1, Division
    <3> QED
      BY <3>2, Zenon DEF FloorAndRest
  <2>2. \A i \in Parts : /\ floors[i] = Floor(n, shares[i], whole)
                         /\ rest[i] = Remainder(n, shares[i], whole)
    BY Zenon
  <2> QED
    BY <2>1, <2>2, Zenon
<1>2. 1 \in Parts /\ 2 \in Parts /\ 3 \in Parts /\ 4 \in Parts
  BY DEF Parts
<1>3. floors \in [Parts -> Nat] /\ rest \in [Parts -> Below(whole)]
  BY <1>1 DEF Below
<1>4. residual \in 0..3
  <2>1. Shared(n, whole, shares, floors, rest)
    BY <1>1, Zenon DEF Shared
  <2> HIDE DEF floors, rest
  <2>2. n - Total(floors) \in 0..3
    BY <1>3, <2>1, ResidualIs, SMT
  <2> QED
    BY <2>2
<1>5. Hamilton(n, shares, whole) = [i \in Parts |-> floors[i] + more(i)]
  BY DEF Hamilton
<1>6. rest \in [Parts -> Int]
  BY <1>1
<1> HIDE DEF floors, rest, residual
<1>7. more(1) + more(2) + more(3) + more(4) = residual
  BY <1>4, <1>6, RanksCount
<1>8. \A i \in Parts : more(i) \in 0..1
  OBVIOUS
<1>9. \A i \in Parts : /\ Hamilton(n, shares, whole)[i] = floors[i] + more(i)
                       /\ floors[i] = Floor(n, shares[i], whole)
  BY <1>5 DEF floors
<1>10. Total(Hamilton(n, shares, whole)) = n
  <2> HIDE DEF more
  <2> QED
    <3>1. \A i \in Parts : floors[i] \in Nat /\ more(i) \in 0..1
      BY <1>1, <1>8
    <3>2. /\ Hamilton(n, shares, whole)[1] = floors[1] + more(1)
          /\ Hamilton(n, shares, whole)[2] = floors[2] + more(2)
          /\ Hamilton(n, shares, whole)[3] = floors[3] + more(3)
          /\ Hamilton(n, shares, whole)[4] = floors[4] + more(4)
      BY <1>2, <1>9
    <3>3. more(1) + more(2) + more(3) + more(4)
             = n - (floors[1] + floors[2] + floors[3] + floors[4])
      BY <1>7 DEF residual, Total
    <3> QED
      BY <1>2, <3>1, <3>2, <3>3 DEF Total
<1> QED
  BY <1>1, <1>8, <1>9, <1>10

\* The counts of a sequential split, part by part.
LEMMA SequentialIs ==
    ASSUME NEW n \in Nat, NEW shares \in [Parts -> Nat], NEW whole \in {3, 100},
           Total(shares) = whole
    PROVE  LET s == Sequential(Hamilton(n, shares, whole)) IN
           /\ s.train \in Nat /\ s.gap = 0 /\ s.calibration \in Nat /\ s.between \in Nat
           /\ s.evaluation \in Nat
           /\ s.train + s.gap + s.calibration + s.between + s.evaluation = n
           /\ s.calibration - Floor(n, shares[2], whole) \in 0..1
           /\ s.evaluation - Floor(n, shares[4], whole) \in 0..1
<1> DEFINE h == Hamilton(n, shares, whole)
<1>1. /\ Total(h) = n
      /\ \A i \in Parts : h[i] \in Nat /\ h[i] - Floor(n, shares[i], whole) \in 0..1
  BY HamiltonConserves
<1> HIDE DEF h
<1>2. /\ h[1] \in Nat /\ h[2] \in Nat /\ h[3] \in Nat /\ h[4] \in Nat
      /\ h[2] - Floor(n, shares[2], whole) \in 0..1 /\ h[4] - Floor(n, shares[4], whole) \in 0..1
      /\ h[1] + h[2] + h[3] + h[4] = n
  BY <1>1 DEF Parts, Total
<1>3. h[1] + 0 + h[2] + h[3] + h[4] = n
  BY <1>2
<1>4. LET s == Sequential(h) IN
        /\ s.train = h[1] /\ s.gap = 0 /\ s.calibration = h[2] /\ s.between = h[3]
        /\ s.evaluation = h[4]
  BY DEF Sequential, Segments
<1> QED
  BY <1>2, <1>3, <1>4 DEF h

\* The floors of a split by gaps, and what they leave to the evaluation.
LEMMA Percentages ==
    ASSUME NEW n \in Nat
    PROVE  /\ Floor(n, 60, 100) \in Nat /\ 100 * Floor(n, 60, 100) <= 60 * n
           /\ Floor(n, 1, 100) \in Nat /\ 100 * Floor(n, 1, 100) <= n
           /\ n < 100 * Floor(n, 1, 100) + 100
           /\ Floor(n, 20, 100) \in Nat /\ 100 * Floor(n, 20, 100) <= 20 * n
<1>1. \A k \in Nat : /\ k \div 100 \in Nat /\ 100 * (k \div 100) <= k
                     /\ k < 100 * (k \div 100) + 100
  <2> SUFFICES ASSUME NEW k \in Nat
               PROVE  /\ k \div 100 \in Nat /\ 100 * (k \div 100) <= k
                      /\ k < 100 * (k \div 100) + 100
    OBVIOUS
  <2> QED
    BY SMTT(30)
<1>2. n * 60 \in Nat /\ n * 1 \in Nat /\ n * 20 \in Nat /\ n * 1 = n /\ n * 60 = 60 * n
      /\ n * 20 = 20 * n
  OBVIOUS
<1> QED
  BY <1>1, <1>2 DEF Floor

LEMMA GapArithmetic ==
    \A n, t, g, c \in Nat :
        100 * t <= 60 * n /\ 100 * g <= n /\ n < 100 * g + 100 /\ 100 * c <= 20 * n
        => LET e == n - t - 2 * g - c IN
           /\ e \in Nat /\ t + g + c + g + e = n
           /\ c >= 1 => e > 0
           /\ c >= 100 => g >= 5
OBVIOUS

\* The counts of a split by gaps.
LEMMA GapSegmentsAre ==
    ASSUME NEW n \in Nat
    PROVE  LET s == GapSegments(n) IN
           /\ s.train \in Nat /\ s.gap \in Nat /\ s.calibration \in Nat /\ s.between = s.gap
           /\ s.evaluation \in Nat
           /\ s.train + s.gap + s.calibration + s.between + s.evaluation = n
           /\ s.calibration >= 1 => s.evaluation > 0
           /\ s.calibration >= 100 => s.gap >= 5
<1> DEFINE t == Floor(n, 60, 100)
           g == Floor(n, 1, 100)
           c == Floor(n, 20, 100)
           e == n - t - 2 * g - c
<1>1. /\ t \in Nat /\ g \in Nat /\ c \in Nat
      /\ 100 * t <= 60 * n /\ 100 * g <= n /\ n < 100 * g + 100 /\ 100 * c <= 20 * n
  BY Percentages
<1>2. LET s == GapSegments(n) IN
        /\ s.train = t /\ s.gap = g /\ s.calibration = c /\ s.between = g /\ s.evaluation = e
  BY DEF GapSegments, Segments
<1> HIDE DEF t, g, c
<1>3. /\ e \in Nat /\ t + g + c + g + e = n
      /\ c >= 1 => e > 0
      /\ c >= 100 => g >= 5
  BY <1>1, GapArithmetic
<1> QED
  BY <1>1, <1>2, <1>3

\* Every protocol assigns every row of a client once, whatever their number.
THEOREM SplitConserves ==
    \A n \in Nat, p \in Protocols :
        LET s == Split(p, n) IN
        s.train + s.gap + s.calibration + s.between + s.evaluation = n
<1> SUFFICES ASSUME NEW n \in Nat, NEW p \in Protocols
             PROVE  LET s == Split(p, n) IN
                    s.train + s.gap + s.calibration + s.between + s.evaluation = n
  OBVIOUS
<1>1. /\ <<1, 1, 0, 1>> \in [Parts -> Nat] /\ Total(<<1, 1, 0, 1>>) = 3
      /\ <<55, 15, 10, 20>> \in [Parts -> Nat] /\ Total(<<55, 15, 10, 20>>) = 100
  BY DEF Parts, Total
<1>2. CASE p = "thirds"
  BY <1>1, <1>2, SequentialIs DEF Split, Thirds
<1>3. CASE p = "gap"
  BY <1>3, GapSegmentsAre DEF Split
<1>4. CASE p \notin {"thirds", "gap"}
  BY <1>1, <1>4, SequentialIs DEF Split, Fractions
<1> QED
  BY <1>2, <1>3, <1>4

----------------------------------------------------------------------------
(* The invariant.                                                          *)

Parted == [train : Nat, gap : Nat, calibration : Nat, between : Nat, evaluation : Nat]

\* What of the split the cohorts and the gaps rest on.
SplitIsSound(p, s) ==
    /\ s \in Parted
    /\ p = "thirds" /\ s.calibration >= 2 => s.evaluation > 0
    /\ p = "gap" /\ s.calibration >= 1 => s.evaluation > 0
    /\ p = "gap" /\ s.calibration >= 100 => s.gap >= 5 /\ s.between >= 5

Past(stages) == stage \in stages \/ outcome = "published"

Divided ==
    Past({"prepare", "calibrate", "construct", "evaluate"}) =>
        /\ protocol = "temporal" => attacked = {}
        /\ protocol # "temporal" => static = rows
        /\ \A c \in Clients : SplitIsSound(protocol, rows[c]) /\ static[c] \in Parted

Prepared ==
    Past({"calibrate", "construct", "evaluate"}) /\ protocol = "temporal" =>
        \A c \in Clients : rows[c].evaluation > 0 /\ static[c].evaluation > 0

\* Whom the threshold is constructed over, and that the cohort of the evaluation
\* is the same clients and those that are left out on purpose.
Chosen ==
    Past({"construct", "evaluate"}) =>
        /\ eligible = Counted
        /\ cell.absent \subseteq Clients
        /\ cell.absent # {} => cell.kind \in {"onboarding", "omission"}
        /\ cell.kind = "ablation" => cell.size \in Sizes
        /\ cell.method = "conformal" => cell.kind \in {"whole", "ablation"}
        /\ \A c \in Clients : c \in eligible \cup cell.absent <=> CalibrationEligible(c)

Constructed ==
    Past({"evaluate"}) =>
        /\ eligible # {}
        /\ fallback = IF ColdStart \/ cell.kind = "omission" THEN {} ELSE eligible
        /\ DOMAIN assigned = eligible \cup cell.absent
        /\ \A c \in DOMAIN assigned : assigned[c] # {} /\ assigned[c] \subseteq eligible
        /\ \A c \in eligible :
               /\ c \in assigned[c]
               /\ cell.method \in {"local", "conformal"} => assigned[c] = {c}
               /\ cell.method = "family" => \A d \in assigned[c] : FamilyOf[d] = FamilyOf[c]

Concluded ==
    /\ outcome # "none" => stage = "over"
    /\ outcome = "published" =>
           /\ \A c \in Unserved : fallback # {}
           /\ \A c \in Clients :
                  /\ results[c].from = IF c \in Unserved THEN fallback ELSE assigned[c]
                  /\ results[c].own = (c \notin Unserved)
                  /\ results[c].cohort = CohortOf(c)

Posed ==
    /\ protocol \in {"thirds", "gap", "temporal"}
    /\ supplied \in [Clients -> RowCounts]

Inv ==
    /\ Posed /\ Divided /\ Prepared /\ Chosen /\ Constructed /\ Concluded
    /\ ThresholdedCellsPublish

USE EvaluationAssumption

\* A rank that exists for some number of scores exists for every larger one.
LEMMA RanksGrow ==
    ASSUME NEW few \in Nat, NEW n \in Nat, few <= n, Coverage <= (100 - Coverage) * few
    PROVE  Coverage <= (100 - Coverage) * n
<1> DEFINE k == 100 - Coverage
           more == n - few
<1>1. k \in Nat /\ more \in Nat /\ n = few + more /\ Coverage \in Nat
  BY ConformalAssumption
<1>2. k * few \in Nat /\ k * more \in Nat
  BY <1>1
<1>3. \A x, y, z \in Nat : x * (y + z) = x * y + x * z
  BY SMTT(30)
<1>4. k * n = k * few + k * more
  BY <1>1, <1>3
<1> HIDE DEF k, more
<1>5. Coverage <= k * few
  BY DEF k
<1>6. Coverage <= k * n
  BY <1>1, <1>2, <1>4, <1>5
<1> QED
  BY <1>6 DEF k

\* Every split is sound for its protocol.
LEMMA SplitSound ==
    ASSUME NEW n \in Nat, NEW p \in Protocols
    PROVE  SplitIsSound(p, Split(p, n))
<1>1. /\ <<1, 1, 0, 1>> \in [Parts -> Nat] /\ Total(<<1, 1, 0, 1>>) = 3
      /\ <<55, 15, 10, 20>> \in [Parts -> Nat] /\ Total(<<55, 15, 10, 20>>) = 100
  BY DEF Parts, Total
<1>2. CASE p = "thirds"
  <2>1. LET s == Split(p, n) IN
          /\ s \in Parted
          /\ s.calibration - Floor(n, 1, 3) \in 0..1 /\ s.evaluation - Floor(n, 1, 3) \in 0..1
    BY <1>1, <1>2, SequentialIs DEF Split, Thirds, Parted, Sequential, Segments
  <2>2. Floor(n, 1, 3) \in Nat
    BY Division DEF FloorAndRest
  <2> QED
    BY <1>2, <2>1, <2>2 DEF SplitIsSound, Parted
<1>3. CASE p = "gap"
  <2>1. LET s == GapSegments(n) IN
          s = Segments(s.train, s.gap, s.calibration, s.between, s.evaluation)
    BY DEF GapSegments, Segments
  <2> QED
    BY <1>3, <2>1, GapSegmentsAre DEF Split, SplitIsSound, Parted, Segments
<1>4. CASE p \notin {"thirds", "gap"}
  <2> DEFINE shares == <<55, 15, 10, 20>>
             s == Sequential(Hamilton(n, shares, 100))
  <2>1. shares \in [Parts -> Nat] /\ Total(shares) = 100
    BY <1>1
  <2>2. Split(p, n) = s
    BY <1>4 DEF Split, Fractions
  <2> HIDE DEF shares
  <2>3. /\ s.train \in Nat /\ s.gap = 0 /\ s.calibration \in Nat /\ s.between \in Nat
        /\ s.evaluation \in Nat
    BY <2>1, SequentialIs
  <2>4. s = Segments(s.train, s.gap, s.calibration, s.between, s.evaluation)
    BY DEF Sequential, Segments
  <2> HIDE DEF s
  <2>5. s \in Parted
    BY <2>3, <2>4 DEF Parted, Segments
  <2> QED
    BY <1>4, <2>2, <2>5 DEF SplitIsSound
<1> QED
  BY <1>2, <1>3, <1>4

LEMMA WithoutIs ==
    ASSUME NEW s \in Parted, NEW lost \in Nat
    PROVE  Without(s, lost) \in Parted /\ (lost = 0 => Without(s, lost) = s)
BY DEF Without, Parted

LEMMA SplitRowsDivides == Posed /\ SplitRows => Divided'
<1> SUFFICES ASSUME Posed, SplitRows PROVE Divided'
  OBVIOUS
<1>1. PICK lost \in [Clients -> IF protocol = "temporal" THEN 0..MaxNonFinite ELSE {0}],
           reference \in [Clients -> StaticCounts] :
         /\ rows' = [c \in Clients |-> Without(Split(protocol, supplied[c]), lost[c])]
         /\ static' = IF protocol = "temporal"
                      THEN [c \in Clients |-> Split("static", reference[c])]
                      ELSE rows'
  BY DEF SplitRows
<1>2. protocol' = protocol /\ attacked' = attacked /\ (protocol = "temporal" => attacked = {})
  BY DEF SplitRows, population
<1>3. ASSUME NEW c \in Clients
      PROVE  SplitIsSound(protocol', rows'[c]) /\ static'[c] \in Parted
  <2>1. SplitIsSound(protocol, Split(protocol, supplied[c]))
    BY SplitSound DEF Posed, Protocols
  <2>2. lost[c] \in Nat /\ (protocol # "temporal" => lost[c] = 0)
    OBVIOUS
  <2>3. rows'[c] = Without(Split(protocol, supplied[c]), lost[c])
    BY <1>1
  <2>4. rows'[c] \in Parted /\ (protocol # "temporal" => rows'[c] = Split(protocol, supplied[c]))
    BY <2>1, <2>2, <2>3, WithoutIs DEF SplitIsSound
  <2>5. SplitIsSound("static", Split("static", reference[c]))
    BY SplitSound DEF Protocols
  <2>6. static'[c] \in Parted
    BY <1>1, <2>4, <2>5 DEF SplitIsSound
  <2> QED
    BY <1>2, <2>1, <2>4, <2>6 DEF SplitIsSound
<1> QED
  BY <1>1, <1>2, <1>3 DEF Divided

LEMMA PrepareChecks == Divided /\ Prepare => Prepared'
<1> SUFFICES ASSUME Divided, Prepare, Past({"calibrate", "construct", "evaluate"})',
                    protocol' = "temporal", NEW c \in Clients
             PROVE  rows'[c].evaluation > 0 /\ static'[c].evaluation > 0
  BY DEF Prepared
<1>1. stage = "prepare" /\ UNCHANGED <<protocol, attacked, rows, static>>
  BY DEF Prepare, population
<1>2. attacked = {}
  BY <1>1 DEF Divided, Past
<1>3. \A d \in Clients : Extracted(rows[d], d) /\ Extracted(static[d], d)
  BY DEF Prepare, End, Past
<1> QED
  BY <1>1, <1>2, <1>3 DEF Extracted

\* The cohort of the evaluation is the cohort of the construction.
LEMMA CalibrateChooses == Divided /\ Calibrate => Chosen'
<1> SUFFICES ASSUME Divided, Calibrate PROVE Chosen'
  OBVIOUS
<1>1. /\ cell' \in Cells /\ eligible' = EligibleFor(cell') /\ ~CalibrationRefused
      /\ UNCHANGED <<protocol, rows, static>>
  BY DEF Calibrate, population
<1>2. \A c \in Clients : rows[c] \in Parted /\ static[c] \in Parted
  BY DEF Divided, Past, Calibrate, SplitIsSound
<1>3. protocol # "temporal" => static = rows
  BY DEF Divided, Past, Calibrate
<1>4. /\ cell'.absent \subseteq Canonical
      /\ cell'.absent # {} => cell'.kind \in {"onboarding", "omission"}
      /\ cell'.kind \in {"static", "frozen", "recalibrated"} => protocol = "temporal"
      /\ cell'.kind \in {"static", "frozen", "recalibrated", "ablation"} => cell'.absent = {}
      /\ cell'.kind = "ablation" => cell'.size \in Sizes
      /\ cell'.method = "conformal" => cell'.kind \in {"whole", "ablation"}
  <2>1. CASE protocol = "temporal"
    BY <1>1, <2>1 DEF Cells, Cell, Ladder, SizeMethods, TemporalMethods
  <2>2. CASE protocol = "gap"
    BY <1>1, <2>2 DEF Cells, Cell, Ladder, SizeMethods, TemporalMethods
  <2>3. CASE protocol \notin {"temporal", "gap"}
    BY <1>1, <2>3 DEF Cells, Cell, Ladder, SizeMethods, TemporalMethods
  <2> QED
    BY <2>1, <2>2, <2>3
<1>5. protocol = "temporal" =>
         /\ Supported(static, "calibration") = Canonical
         /\ Supported(rows, "between") = Canonical
  BY <1>1 DEF CalibrationRefused, CommonCohort
<1>6. eligible' = Counted'
  BY <1>1, <1>4 DEF EligibleFor, Counted, Canonical, Supported
<1>7. ASSUME NEW c \in Clients
      PROVE  c \in eligible' \cup cell'.absent <=> CalibrationEligible(c)'
  BY <1>1, <1>4, <1>5 DEF EligibleFor, CalibrationEligible, Evaluated, Canonical, Supported
<1> QED
  BY <1>4, <1>6, <1>7 DEF Chosen, Canonical, Supported

\* Every client that is eligible in a cell has a conformal rank there.
LEMMA AllThresholded ==
    ASSUME Divided, Chosen, stage = "construct"
    PROVE  Thresholded = eligible
<1> SUFFICES ASSUME NEW c \in eligible, cell.method = "conformal" PROVE RankExists(c)
  BY DEF Thresholded
<1>1. eligible = Counted /\ (cell.kind = "ablation" => cell.size \in Sizes)
      /\ cell.kind \in {"whole", "ablation"}
  BY DEF Chosen, Past
<1>2. c \in Clients /\ rows[c].calibration >= MinimumSupport
  BY <1>1 DEF Counted
<1>3. rows[c].calibration \in Nat
  BY <1>2 DEF Divided, Past, SplitIsSound, Parted
<1>4. CASE cell.kind = "ablation"
  BY <1>1, <1>4, ConformalAssumption DEF RankExists, Scores
<1>5. CASE cell.kind # "ablation"
  <2>1. Coverage <= (100 - Coverage) * MinimumSupport
    BY ConformalAssumption
  <2>2. MinimumSupport \in Nat /\ MinimumSupport <= rows[c].calibration
    BY <1>2, <1>3
  <2>3. Coverage <= (100 - Coverage) * rows[c].calibration
    BY <1>3, <2>1, <2>2, RanksGrow
  <2> QED
    BY <1>5, <2>3 DEF RankExists, Scores
<1> QED
  BY <1>4, <1>5

LEMMA ConstructAssigns == Divided /\ Chosen /\ Construct => Constructed'
<1> SUFFICES ASSUME Divided, Chosen, Construct PROVE Constructed'
  OBVIOUS
<1>0. Thresholded = eligible
  BY AllThresholded DEF Construct
<1>1. PICK group \in Divisions :
         assigned' = [c \in eligible \cup cell.absent |->
                         IF c \in eligible THEN ThresholdOf(c, group) ELSE ThresholdForAbsent(c)]
  BY <1>0 DEF Construct
<1>2. eligible # {} /\ fallback' = DeploymentFallback /\ UNCHANGED <<cell, eligible>>
  BY <1>0 DEF Construct
<1>3. \A c \in eligible :
         /\ c \in ThresholdOf(c, group) /\ ThresholdOf(c, group) \subseteq eligible
         /\ cell.method \in {"local", "conformal"} => ThresholdOf(c, group) = {c}
         /\ cell.method = "family" =>
                \A d \in ThresholdOf(c, group) : FamilyOf[d] = FamilyOf[c]
  BY DEF ThresholdOf, FamilyMembers
<1>4. \A c \in cell.absent :
         ThresholdForAbsent(c) # {} /\ ThresholdForAbsent(c) \subseteq eligible
  BY <1>2 DEF ThresholdForAbsent, FamilyMembers
<1>5. fallback' = IF ColdStart \/ cell.kind = "omission" THEN {} ELSE eligible
  BY <1>0, <1>2 DEF DeploymentFallback
<1>6. ColdStart' = ColdStart
  BY <1>2 DEF ColdStart
<1> QED
  BY <1>1, <1>2, <1>3, <1>4, <1>5, <1>6 DEF Constructed

\* A client without a threshold is under the minimum, or under the size of the
\* cell, and only a cold start or an omission has no fallback for it.
LEMMA RaisesForCause ==
    Divided /\ Chosen /\ Constructed /\ EvaluateRaises => ThresholdedCellsPublish'
<1> SUFFICES ASSUME Divided, Chosen, Constructed, EvaluateRaises
             PROVE  ThresholdedCellsPublish'
  OBVIOUS
<1>1. stage = "evaluate" /\ UNCHANGED <<rows, cell>>
  BY DEF EvaluateRaises
<1>2. PICK c \in Unserved :
         \/ CalibrationEligible(c) /\ End("unserved")
         \/ ~CalibrationEligible(c) /\ fallback = {} /\ End("no fallback")
  BY DEF EvaluateRaises
<1>3. c \in Clients /\ ~CalibrationEligible(c)
  BY <1>1, <1>2 DEF Chosen, Constructed, Past, Unserved
<1>4. fallback = {} /\ outcome' = "no fallback"
  BY <1>2, <1>3 DEF End
<1>5. ColdStart \/ cell.kind = "omission"
  BY <1>1, <1>4 DEF Constructed, Past
<1>6. cell.kind \in {"onboarding", "omission"}
  BY <1>5 DEF ColdStart
<1>7. rows[c] \in Parted
  BY <1>1, <1>3 DEF Divided, Past, SplitIsSound
<1>8. rows[c].calibration < MinimumSupport
  BY <1>3, <1>6, <1>7 DEF CalibrationEligible, Evaluated, Supported, Parted
<1> QED
  BY <1>1, <1>3, <1>4, <1>5, <1>8 DEF ThresholdedCellsPublish, ColdStart

LEMMA EvaluateConcludes == Evaluate => Concluded'
<1> SUFFICES ASSUME Evaluate PROVE Concluded'
  OBVIOUS
<1>1. /\ \A c \in Unserved : ~CalibrationEligible(c) /\ fallback # {}
      /\ results' = [c \in Clients |->
                        [from |-> IF c \in Unserved THEN fallback ELSE assigned[c],
                         own |-> c \notin Unserved, cohort |-> CohortOf(c)]]
      /\ stage' = "over"
      /\ UNCHANGED <<rows, static, cell, eligible, assigned, fallback>>
  BY DEF Evaluate, End
<1>2. Unserved' = Unserved
  BY <1>1 DEF Unserved
<1>3. \A c \in Clients : CohortOf(c)' = CohortOf(c)
  BY <1>1 DEF CohortOf, FprEvaluable, CalibrationEligible, Evaluated, Supported
<1> QED
  BY <1>1, <1>2, <1>3 DEF Concluded

\* What holds of the rows, the cell and the thresholds holds while they stay.
LEMMA Kept ==
    ASSUME UNCHANGED <<protocol, taxonomy, supplied, attacked, rows, static, cell, eligible,
                       assigned, fallback>>
    PROVE  /\ Posed => Posed'
           /\ (Past({"prepare", "calibrate", "construct", "evaluate"})' =>
                  Past({"prepare", "calibrate", "construct", "evaluate"})) /\ Divided => Divided'
           /\ (Past({"calibrate", "construct", "evaluate"})' =>
                  Past({"calibrate", "construct", "evaluate"})) /\ Prepared => Prepared'
           /\ (Past({"construct", "evaluate"})' => Past({"construct", "evaluate"})) /\ Chosen
                  => Chosen'
           /\ (Past({"evaluate"})' => Past({"evaluate"})) /\ Constructed => Constructed'
<1>1. Posed => Posed'
  BY DEF Posed
<1>2. Divided /\ (Past({"prepare", "calibrate", "construct", "evaluate"})' =>
                     Past({"prepare", "calibrate", "construct", "evaluate"})) => Divided'
  BY DEF Divided, SplitIsSound
<1>3. Prepared /\ (Past({"calibrate", "construct", "evaluate"})' =>
                      Past({"calibrate", "construct", "evaluate"})) => Prepared'
  BY DEF Prepared
<1>4. Chosen /\ (Past({"construct", "evaluate"})' => Past({"construct", "evaluate"})) => Chosen'
  <2>1. Counted' = Counted
    BY DEF Counted
  <2>2. \A c \in Clients : CalibrationEligible(c)' = CalibrationEligible(c)
    BY DEF CalibrationEligible, Evaluated, Supported
  <2> QED
    BY <2>1, <2>2 DEF Chosen
<1>5. Constructed /\ (Past({"evaluate"})' => Past({"evaluate"})) => Constructed'
  BY DEF Constructed, ColdStart
<1> QED
  BY <1>1, <1>2, <1>3, <1>4, <1>5

LEMMA Initially == Init => Inv
BY DEF Init, Inv, Posed, Divided, Prepared, Chosen, Constructed, Concluded,
       ThresholdedCellsPublish, Past

\* Every step keeps the invariant.
LEMMA Step == Inv /\ [Next]_vars => Inv'
<1> SUFFICES ASSUME Inv, [Next]_vars PROVE Inv'
  OBVIOUS
<1> USE DEF Inv, Past
<1>1. CASE SplitRefuses
  <2>1. Posed' /\ Divided' /\ Prepared' /\ Chosen' /\ Constructed'
    BY <1>1, Kept DEF SplitRefuses, End, population
  <2>2. Concluded' /\ ThresholdedCellsPublish'
    BY <1>1 DEF SplitRefuses, End, Concluded, ThresholdedCellsPublish
  <2> QED
    BY <2>1, <2>2
<1>2. CASE CalibrateRefuses
  <2>1. Posed' /\ Divided' /\ Prepared' /\ Chosen' /\ Constructed'
    BY <1>2, Kept DEF CalibrateRefuses, End, population
  <2>2. Concluded' /\ ThresholdedCellsPublish'
    BY <1>2 DEF CalibrateRefuses, End, Concluded, ThresholdedCellsPublish
  <2> QED
    BY <2>1, <2>2
<1>3. CASE ConstructUnavailable
  <2>1. Posed' /\ Divided' /\ Prepared' /\ Chosen' /\ Constructed'
    BY <1>3, Kept DEF ConstructUnavailable, End, population
  <2>2. Concluded' /\ ThresholdedCellsPublish'
    BY <1>3 DEF ConstructUnavailable, End, Concluded, ThresholdedCellsPublish
  <2> QED
    BY <2>1, <2>2
<1>4. CASE ConstructRefuses
  <2>1. Posed' /\ Divided' /\ Prepared' /\ Chosen' /\ Constructed'
    BY <1>4, Kept DEF ConstructRefuses, End, population
  <2>2. Concluded' /\ ThresholdedCellsPublish'
    BY <1>4 DEF ConstructRefuses, End, Concluded, ThresholdedCellsPublish
  <2> QED
    BY <2>1, <2>2
<1>5. CASE SplitRows
  <2>1. Posed' /\ Divided'
    BY <1>5, SplitRowsDivides DEF SplitRows, Posed, population
  <2>2. Prepared' /\ Chosen' /\ Constructed' /\ Concluded' /\ ThresholdedCellsPublish'
    BY <1>5 DEF SplitRows, Prepared, Chosen, Constructed, Concluded, ThresholdedCellsPublish
  <2> QED
    BY <2>1, <2>2
<1>6. CASE Prepare
  <2>1. Posed' /\ Divided' /\ Chosen' /\ Constructed'
    BY <1>6, Kept DEF Prepare, End, population, Concluded
  <2>2. Prepared'
    BY <1>6, PrepareChecks
  <2>3. Concluded' /\ ThresholdedCellsPublish'
    BY <1>6 DEF Prepare, End, Concluded, ThresholdedCellsPublish
  <2> QED
    BY <2>1, <2>2, <2>3
<1>7. CASE Calibrate
  <2>1. Posed' /\ Divided' /\ Prepared'
    BY <1>7 DEF Calibrate, Posed, Divided, Prepared, SplitIsSound, population
  <2>2. Chosen'
    BY <1>7, CalibrateChooses
  <2>3. Constructed' /\ Concluded' /\ ThresholdedCellsPublish'
    BY <1>7 DEF Calibrate, Constructed, Concluded, ThresholdedCellsPublish
  <2> QED
    BY <2>1, <2>2, <2>3
<1>8. CASE Construct
  <2>1. UNCHANGED <<protocol, taxonomy, supplied, attacked, rows, static, cell, eligible, outcome>>
        /\ stage = "construct" /\ stage' = "evaluate" /\ outcome = "none"
    BY <1>8 DEF Construct, population, Concluded
  <2>2. Posed' /\ Divided' /\ Prepared'
    BY <2>1 DEF Posed, Divided, Prepared, SplitIsSound
  <2>3. Chosen'
    <3>1. Counted' = Counted
      BY <2>1 DEF Counted
    <3>2. \A c \in Clients : CalibrationEligible(c)' = CalibrationEligible(c)
      BY <2>1 DEF CalibrationEligible, Evaluated, Supported
    <3> QED
      BY <2>1, <3>1, <3>2 DEF Chosen
  <2>4. Constructed'
    BY <1>8, ConstructAssigns
  <2>5. Concluded' /\ ThresholdedCellsPublish'
    BY <2>1 DEF Concluded, ThresholdedCellsPublish
  <2> QED
    BY <2>2, <2>3, <2>4, <2>5
<1>9. CASE EvaluateRaises
  <2>1. /\ UNCHANGED <<protocol, taxonomy, supplied, attacked, rows, static, cell, eligible,
                        assigned, fallback>>
        /\ stage' = "over" /\ outcome' \in {"unserved", "no fallback"}
    BY <1>9 DEF EvaluateRaises, End, population
  <2>2. Posed' /\ Divided' /\ Prepared' /\ Chosen' /\ Constructed'
    BY <2>1, Kept
  <2>3. Concluded'
    BY <2>1 DEF Concluded
  <2>4. ThresholdedCellsPublish'
    BY <1>9, RaisesForCause
  <2> QED
    BY <2>2, <2>3, <2>4
<1>10. CASE Evaluate
  <2>1. /\ UNCHANGED <<protocol, taxonomy, supplied, attacked, rows, static, cell, eligible,
                        assigned, fallback>>
        /\ stage = "evaluate" /\ outcome' = "published"
    BY <1>10 DEF Evaluate, End, population
  <2>2. Posed' /\ Divided' /\ Prepared' /\ Chosen' /\ Constructed'
    BY <2>1, Kept
  <2>3. Concluded'
    BY <1>10, EvaluateConcludes
  <2>4. ThresholdedCellsPublish'
    BY <2>1 DEF ThresholdedCellsPublish
  <2> QED
    BY <2>2, <2>3, <2>4
<1>11. CASE UNCHANGED vars
  <2>1. UNCHANGED <<protocol, taxonomy, supplied, attacked, rows, static, cell, eligible,
                    assigned, fallback, stage, results, outcome>>
    BY <1>11 DEF vars, population
  <2>2. Posed' /\ Divided' /\ Prepared' /\ Chosen' /\ Constructed'
    BY <2>1, Kept
  <2>3. Concluded' /\ ThresholdedCellsPublish'
    <3>1. Unserved' = Unserved
      BY <2>1 DEF Unserved
    <3>2. \A c \in Clients : CohortOf(c)' = CohortOf(c)
      BY <2>1 DEF CohortOf, FprEvaluable, CalibrationEligible, Evaluated, Supported
    <3>3. Concluded'
      BY <2>1, <3>1, <3>2 DEF Concluded
    <3>4. ThresholdedCellsPublish'
      BY <2>1 DEF ThresholdedCellsPublish, ColdStart
    <3> QED
      BY <3>3, <3>4
  <2> QED
    BY <2>2, <2>3
<1> QED
  BY <1>1, <1>2, <1>3, <1>4, <1>5, <1>6, <1>7, <1>8, <1>9, <1>10, <1>11 DEF Next

THEOREM Invariance == Spec => []Inv
BY Initially, Step, PTL DEF Spec

\* ThresholdedCellsPublish holds of every population and every declared cell.
THEOREM ThresholdsServe == Spec => []ThresholdedCellsPublish
<1>1. Inv => ThresholdedCellsPublish
  BY DEF Inv
<1> QED
  BY Invariance, <1>1, PTL

\* InfluenceIsScoped likewise.
THEOREM InfluenceScoped == Spec => []InfluenceIsScoped
<1>1. Inv => InfluenceIsScoped
  <2> SUFFICES ASSUME Inv, outcome = "published", NEW c \in Clients
               PROVE  /\ results[c].from # {} /\ results[c].from \subseteq Counted
                      /\ c \in Counted =>
                            /\ c \in results[c].from
                            /\ cell.method \in {"local", "conformal"} => results[c].from = {c}
                            /\ cell.method = "family" =>
                                  \A d \in results[c].from : FamilyOf[d] = FamilyOf[c]
    BY DEF InfluenceIsScoped
  <2>1. /\ eligible = Counted /\ fallback \in {{}, eligible} /\ eligible # {}
        /\ results[c].from = IF c \in Unserved THEN fallback ELSE assigned[c]
        /\ c \in Unserved => fallback # {}
        /\ c \notin Unserved => c \in DOMAIN assigned
        /\ eligible \subseteq DOMAIN assigned
    BY DEF Inv, Past, Chosen, Constructed, Concluded, Unserved
  <2>2. CASE c \in Unserved
    BY <2>1, <2>2 DEF Unserved
  <2>3. CASE c \notin Unserved
    BY <2>1, <2>3 DEF Inv, Past, Constructed
  <2> QED
    BY <2>2, <2>3
<1> QED
  BY Invariance, <1>1, PTL

\* AggregateIsWhole, where the minimum support is at least two: one calibration
\* row of a third leaves none to evaluate on.
THEOREM AggregateWhole == ASSUME MinimumSupport >= 2 PROVE Spec => []AggregateIsWhole
<1>1. Inv => AggregateIsWhole
  <2> SUFFICES ASSUME Inv, outcome = "published", NEW c \in Clients
               PROVE  results[c].cohort = "fpr" <=> results[c].own
    BY DEF AggregateIsWhole
  <2>1. results[c].own = (c \notin Unserved) /\ results[c].cohort = CohortOf(c)
    BY DEF Inv, Concluded
  <2>2. c \notin Unserved <=> CalibrationEligible(c)
    BY DEF Inv, Past, Chosen, Constructed, Unserved
  <2>3. CohortOf(c) = "fpr" <=> FprEvaluable(c)
    BY DEF CohortOf
  <2>4. ASSUME CalibrationEligible(c) PROVE Evaluated[c].evaluation > 0
    <3>1. Evaluated[c].calibration >= MinimumSupport
      BY <2>4 DEF CalibrationEligible, Supported
    <3>2. SplitIsSound(protocol, rows[c]) /\ (protocol # "temporal" => static = rows)
      BY DEF Inv, Past, Divided
    <3>3. CASE protocol = "temporal"
      BY <3>3 DEF Inv, Past, Prepared, Evaluated
    <3>4. CASE protocol # "temporal"
      <4>1. Evaluated[c] = rows[c] /\ rows[c].calibration >= MinimumSupport
        BY <3>1, <3>2, <3>4 DEF Evaluated
      <4>2. rows[c].calibration \in Nat
        BY <3>2 DEF SplitIsSound, Parted
      <4>3. rows[c].calibration >= 2
        BY <4>1, <4>2
      <4> QED
        BY <3>2, <3>4, <4>1, <4>2, <4>3 DEF SplitIsSound, Inv, Posed
    <3> QED
      BY <3>3, <3>4
  <2> QED
    BY <2>1, <2>2, <2>3, <2>4 DEF FprEvaluable
<1> QED
  BY Invariance, <1>1, PTL

\* GapSeparates, where the minimum support is at least the code's hundred.
THEOREM GapsSeparate == ASSUME MinimumSupport >= 100 PROVE Spec => []GapSeparates
<1>1. Inv => GapSeparates
  <2> SUFFICES ASSUME Inv, outcome = "published", protocol = "gap", NEW c \in Clients,
                      results[c].cohort = "fpr"
               PROVE  rows[c].gap >= 5 /\ rows[c].between >= 5
    BY DEF GapSeparates
  <2>1. Evaluated[c].calibration >= MinimumSupport
    BY DEF Inv, Concluded, CohortOf, FprEvaluable, CalibrationEligible, Supported
  <2>2. SplitIsSound("gap", rows[c]) /\ static = rows
    BY DEF Inv, Past, Divided
  <2>3. rows[c].calibration >= MinimumSupport /\ rows[c].calibration \in Nat
    BY <2>1, <2>2 DEF Evaluated, SplitIsSound, Parted
  <2> QED
    BY <2>2, <2>3 DEF SplitIsSound
<1> QED
  BY Invariance, <1>1, PTL
=============================================================================
