------------------------- MODULE MC_CustomSelections --------------------------
(* Instantiates CustomSelections for TLC: both result layouts; up to two   *)
(* selections and two modalities; negative counts (which Details can carry *)
(* from 2.0) and indices on both sides of the cell range.                  *)
EXTENDS CustomSelections

MCVersions == {1002000, 2000000}
MCCellCounts == {-1, 1}
MCFeatureCounts == {-1, 1}
MCModalityOrder == <<"ADT", "RNA">>
MCSelOrder == <<"s1", "s2">>
MCIndexValues == -1 .. 1
MCExtents == 0 .. 1
=============================================================================
