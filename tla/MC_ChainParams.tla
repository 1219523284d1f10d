--------------------------- MODULE MC_ChainParams ---------------------------
(* Setter arguments that differ from every constructor's value and equal  *)
(* another network's, so that a write into the wrong object shows.       *)
EXTENDS ChainParams

MCHalvings == {150, 84000}
MCMajorities == {51, 1000}
================================================================================
