------------------------ MODULE MCTrainingEvidence ------------------------
(* Four versions of the inputs: 1 and 2 have the same rows (a change of     *)
(* features or of training code), 3 has other rows, 4 other clients; 1 and  *)
(* 3 train for the same number of rounds, so their tables cannot be told    *)
(* apart by their length.  Two frames make a partly written and a partly    *)
(* removed scores directory possible.                                       *)
EXTENDS TrainingEvidence

MCVersions == 1..4
MCRowsOf == <<1, 1, 2, 3>>
MCShapeOf == <<1, 1, 1, 2>>
MCRoundsOf == <<5, 6, 5, 6>>
MCFrameOrder == <<"calibration_scores", "evaluation_scores">>
===========================================================================
