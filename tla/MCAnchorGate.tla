---------------------------- MODULE MCAnchorGate ----------------------------
(***************************************************************************)
(* Three entries (as shared and local thresholds over the seeds), three    *)
(* reproductions, of which the second is not equivalent.                   *)
(***************************************************************************)
EXTENDS AnchorGate
=============================================================================
