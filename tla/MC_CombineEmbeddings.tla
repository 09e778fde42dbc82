------------------------- MODULE MC_CombineEmbeddings -------------------------
(* Instantiates CombineEmbeddings for TLC: a version before 2.0 and one    *)
(* after; zero, one and two modalities; a negative cell count, whose       *)
(* size_t conversion no stored extent can match.                           *)
EXTENDS CombineEmbeddings

MCVersions == {1002000, 2000000}
MCCellCounts == {-1, 0, 2}
MCDimCounts == {0, 2}
MCModalityNames == {"ADT", "RNA"}
MCExtents == 0 .. 2
=============================================================================
