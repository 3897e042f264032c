---------------------------- MODULE MCProgramme ----------------------------
(***************************************************************************)
(* Small programmes made of recipes of the repository.  One seed: the      *)
(* confirmatory experiment, a supplementary one whose runs its report      *)
(* reads although it is dispatched later, and an analysis-only one whose   *)
(* files lie inside the confirmatory analysis directory.  Two seeds: a     *)
(* tolerant robustness report beside an optional supplementary one.        *)
(***************************************************************************)
EXTENDS Programme

\* shared_vs_local_confirmation, family_and_grouped_granularity and
\* physical_family_adequacy, in the order of the registry.
FamilyRecipes == <<"confirmation", "grouped", "family">>
FamilyReads ==
    [confirmation |-> {"confirmation", "grouped"}, grouped |-> {"grouped"},
     family |-> {"confirmation"}]
FamilyOwned ==
    [confirmation |-> <<"runs", "analysis">>, grouped |-> <<"runs", "analysis">>,
     family |-> <<"analysis">>]
FamilyNested == [confirmation |-> {"family"}, grouped |-> {}, family |-> {}]
SmokeCalls == {FamilyRecipes, <<"confirmation">>}

\* quantile_sensitivity and optional_equity_indices.
RobustRecipes == <<"quantile", "indices">>
RobustReads == [quantile |-> {"quantile"}, indices |-> {"indices"}]
RobustOwned == [e \in {"quantile", "indices"} |-> <<"runs", "analysis">>]
RobustNested == [e \in {"quantile", "indices"} |-> {}]
=============================================================================
