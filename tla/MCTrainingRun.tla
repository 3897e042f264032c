--------------------------- MODULE MCTrainingRun ---------------------------
(* Six rounds, convergence eligible from round 4 with a window of 3, as in  *)
(* the anchor protocol (150, 40, 10): the window can be flat before round 4, *)
(* at rounds 4 and 5, and at 6, which is the maximum.  A threshold of 1/20 with losses 0,   *)
(* 100, 104 and 105 puts changes just below and exactly at the threshold    *)
(* and makes both directions differ (105 down to 100 is flat, 100 up to 105 *)
(* is not); 0 is the start for which the relative change is undefined.      *)
EXTENDS TrainingRun

MCLosses == {0, 100, 104, 105}
============================================================================
