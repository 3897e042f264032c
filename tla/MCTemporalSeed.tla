--------------------------- MODULE MCTemporalSeed ---------------------------
(* Two versions of the data with the same rows and one with other rows, and *)
(* two threshold methods.                                                   *)
EXTENDS TemporalSeed

MCRowsOf == <<10, 10, 20>>
MCMethodOrder == <<"shared", "local">>
=============================================================================
