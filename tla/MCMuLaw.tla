------------------------------- MODULE MCMuLaw -------------------------------
(* MuLaw for every sample. *)
EXTENDS MuLaw

AllSamples == Int16
=============================================================================
