-------------------------- MODULE MCSeedEvaluation --------------------------
(***************************************************************************)
(* Three clients, two of one family.  The row counts lie on both sides of  *)
(* the support of 100 under each protocol: 2 (an empty role), 299 (99 rows *)
(* to evaluate on), 500 (100 by the gap, 75 by the temporal protocol), 700 *)
(* (105 and 70), 1000 (100 to recalibrate on, 99 if one is not finite).    *)
(***************************************************************************)
EXTENDS SeedEvaluation

CONSTANTS a, b, c

MCFamilyOf == [x \in Clients |-> IF x = c THEN 2 ELSE 1]
=============================================================================
