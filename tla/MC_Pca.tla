-------------------------------- MODULE MC_Pca --------------------------------
(* Instantiates Pca for TLC: one version before 1.1, the first version of *)
(* the 'corrected' gate and one from 2.0; a negative, zero and positive    *)
(* cell count; counts from -1 so that both positivity checks are reached.  *)
EXTENDS Pca

MCVersions == {1000000, 1001000, 2000000}
MCCellCounts == {-1, 0, 3}
MCCounts == -1 .. 2
MCMethods == {"none", "regress", "mnn", "other"}
=============================================================================
