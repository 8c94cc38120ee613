------------------------------ MODULE MCEngine ------------------------------
(***************************************************************************)
(* Two values an object can hold, for every run of the transaction engine. *)
(***************************************************************************)
EXTENDS EngineRefinement
CONSTANTS v1, v2
MCVals == {v1, v2}
=============================================================================
