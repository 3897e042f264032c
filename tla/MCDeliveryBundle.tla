------------------------- MODULE MCDeliveryBundle -------------------------
(***************************************************************************)
(* Two experiments, the first with two artifacts: an experiment can be     *)
(* caught in the middle of a change, with a copied and an uncopied         *)
(* artifact; the second passes, fails and passes again independently.  Two *)
(* versions tell a stale copy from a fresh one.                            *)
(***************************************************************************)
EXTENDS DeliveryBundle

MCArtifacts == <<"table", "document", "report">>
MCExperimentOf == [a \in {"table", "document", "report"} |->
                       IF a = "report" THEN "second" ELSE "first"]
MCDocuments == {"document", "report"}

MCVersions == {1, 2}
=============================================================================
