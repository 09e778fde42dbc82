------------------------- MODULE MC_InputsResults ---------------------------
(* Instantiates InputsResults for TLC.  One version per row-identity       *)
(* representation; counts and identity values include -1 so that the      *)
(* negative and out-of-range cases are reached.                            *)
EXTENDS InputsResults

MCVersions == {1001000, 1002000, 2000000}
MCModalityOrder == <<"ADT", "RNA">>
MCCounts == -1 .. 2
MCIdValues == -1 .. 2
=============================================================================
