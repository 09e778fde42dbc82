------------------------------ MODULE MC_Inputs -----------------------------
(* Instantiates Inputs for TLC, end to end.  Domains are smaller than in   *)
(* the per-phase models: the cross-phase question is how the ParamDump of  *)
(* one, two or zero matrices meets 'num_samples', and how the version   *)
(* and the ParamDump select the row-identity representation the results  *)
(* phase checks (one version per representation, identity values -1..2). *)
EXTENDS Inputs

MCVersions == {1000000, 1001000, 1002000, 2000000}
MCFormats == {"10X", "custom"}
MCFileTypes == {"h5"}
MCSampleNames == {"a", "b"}
MCGroupSizes == 0 .. 2
MCModalityOrder == <<"ADT", "RNA">>
MCCounts == -1 .. 2
MCIdValues == -1 .. 2
=============================================================================
