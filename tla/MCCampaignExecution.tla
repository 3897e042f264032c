------------------------ MODULE MCCampaignExecution ------------------------
(* Six entries: batch "a" has four of them and "b", which may not use a     *)
(* pool, two, interleaved in the plan, so that results are collected out of *)
(* order; two workers for the three pending entries of "a"; and an earlier  *)
(* campaign that left no run, the first run of "a", one that a pool thread  *)
(* meets or one that the sequential loop meets.                             *)
EXTENDS CampaignExecution

MCCoordinateOf == <<"a", "b", "a", "a", "b", "a">>
MCPreviousRuns == {{}, {1}, {4}, {5}}
============================================================================
