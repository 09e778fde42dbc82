------------------------------- MODULE Inputs -------------------------------
(***************************************************************************)
(* kanaval::inputs::validate (src/.../kanaval/inputs.hpp): the parameters  *)
(* phase (InputsParams), whose ParamDump is handed to the results phase    *)
(* (InputsResults); a fault from either is re-raised wrapped with the name *)
(* of the phase.  The 'inputs' group itself is opened first, outside both *)
(* try blocks.                                                             *)
(***************************************************************************)
EXTENDS Integers, Sequences, Functions

CONSTANTS
    Versions, Embeddings, Formats, FileTypes, SampleNames, GroupSizes,
    MaxMatrices, MaxFiles, ByteWidth, IntWidth, Stray,
    ModalityOrder, Counts, IdValues, MaxIdLen, SizeTMod

VARIABLES
    version, embedded,
    \* validate_parameters
    ppc, formats, multi_matrix, children, runs, sampleNames, r, s, sofar,
    types, bytes, multi_sample, readTypes, perr,
    \* validate_results
    dump, rpc, modalities, num_features, num_cells, num_samples, m, ids, rep,
    idkids,
    \* validate
    phase,     \* "open", "parameters", "results", "done" or "failed"
    err        \* context frames of the error validate() raises, outermost first

P == INSTANCE InputsParams WITH pc <- ppc, err <- perr
R == INSTANCE InputsResults WITH pc <- rpc

pvars == <<embedded, ppc, formats, multi_matrix, children, runs, sampleNames,
           r, s, sofar, types, bytes, multi_sample, readTypes, perr>>
rvars == <<dump, rpc, modalities, num_features, num_cells, num_samples, m,
           ids, rep, idkids>>
vars == <<version, pvars, rvars, phase, err>>

PhaseFrame(name) == [scope |-> name, index |-> 0]

\* Mutant: num_matrices counts the files instead of the formats.
ParamDumpCountingFiles == [num_matrices |-> Len(readTypes),
                           multi_matrix |-> multi_matrix,
                           multi_sample |-> multi_sample]

\* The ParamDump that validate_parameters returns.
ParamDumpOf == [num_matrices |-> Len(formats),
                multi_matrix |-> multi_matrix,
                multi_sample |-> multi_sample]

\* The Details record validate_results returns.
DetailsOf == [modalities |-> modalities, num_features |-> num_features,
              num_cells |-> num_cells, num_samples |-> num_samples]

Init ==
    /\ P!Init
    /\ dump = [num_matrices |-> 0, multi_matrix |-> FALSE, multi_sample |-> FALSE]
    /\ rpc = "dims"
    /\ modalities = <<>> /\ num_features = <<>>
    /\ num_cells = 0 /\ num_samples = 0 /\ m = 0
    /\ ids = <<>> /\ rep = "none" /\ idkids = {}
    /\ phase = "open"
    /\ err = <<>>

\* Open the 'inputs' group; a missing group escapes with no frame.
OpenInputs ==
    /\ phase = "open"
    /\ \/ phase' = "parameters" /\ UNCHANGED err
       \/ phase' = "failed" /\ err' = <<>>
    /\ UNCHANGED <<version, pvars, rvars>>

ParamsStep ==
    /\ phase = "parameters"
    /\ P!Next
    /\ UNCHANGED <<rvars, phase, err>>

\* validate_parameters returned: pass its ParamDump to validate_results.
ParamsReturn ==
    /\ phase = "parameters"
    /\ ppc = "done"
    /\ dump' = ParamDumpOf
    /\ phase' = "results"
    /\ UNCHANGED <<version, pvars, rpc, modalities, num_features, num_cells,
                   num_samples, m, ids, rep, idkids, err>>

ResultsStep ==
    /\ phase = "results"
    /\ R!Next
    /\ UNCHANGED <<pvars, phase, err>>

ResultsReturn ==
    /\ phase = "results"
    /\ rpc = "done"
    /\ phase' = "done"
    /\ UNCHANGED <<version, pvars, rvars, err>>

\* Mutant: a fault of the results phase is rethrown without its frame.
PhaseFailedUnwrapped ==
    \/ /\ phase = "parameters" /\ ppc = "failed"
       /\ err' = <<PhaseFrame("parameters")>> \o perr
       /\ phase' = "failed"
       /\ UNCHANGED <<version, pvars, rvars>>
    \/ /\ phase = "results" /\ rpc = "failed"
       /\ err' = <<>>
       /\ phase' = "failed"
       /\ UNCHANGED <<version, pvars, rvars>>

\* A fault of either phase, wrapped with the phase it came from.
PhaseFailed ==
    \/ /\ phase = "parameters" /\ ppc = "failed"
       /\ err' = <<PhaseFrame("parameters")>> \o perr
       /\ phase' = "failed"
       /\ UNCHANGED <<version, pvars, rvars>>
    \/ /\ phase = "results" /\ rpc = "failed"
       /\ err' = <<PhaseFrame("results")>>
       /\ phase' = "failed"
       /\ UNCHANGED <<version, pvars, rvars>>

Next ==
    \/ OpenInputs
    \/ ParamsStep
    \/ ParamsReturn
    \/ ResultsStep
    \/ ResultsReturn
    \/ PhaseFailed

Spec == Init /\ [][Next]_vars

\* Each step is one synchronous read that returns or throws (spec 5), so
\* validate() never stops while a step is enabled.
LiveSpec == Spec /\ WF_vars(Next)

-----------------------------------------------------------------------------
\* Every row-identity array validate_results accepts (per modality from 2.0,
\* the single 'identities' or 'indices' array before) has one entry per
\* feature of its modality, all distinct and non-negative: check_unique and
\* the length test, for the representation the version and the ParamDump
\* of the parameters phase select.
RowIdentitiesDistinct == R!RowIdentitiesDistinct

\* An accepted legacy 'permutation' (a single matrix before 1.2) is a
\* bijection on [0, n) for the n features: the scan only rejects
\* out-of-range and repeated values, coverage follows from the length check
\* (spec 9).
PermutationIsBijection == R!PermutationIsBijection

\* Across the two phases: an accepted multi-matrix input reports one sample
\* per entry of 'sample_names' and of 'sample_groups', and an accepted
\* single matrix without 'sample_factor' reports one sample (the ParamDump
\* handed from validate_parameters to validate_results).
SampleCountAgrees ==
    phase = "done" =>
        /\ multi_matrix => num_samples = Len(sampleNames) /\ num_samples = Len(runs)
        /\ ~multi_sample => num_samples = 1

\* The Details shape spec 3 promises, leaving out the signs of num_cells and
\* num_samples, which the code does not promise (NumCellsNonNegative and
\* NumSamplesPositive): at least one modality, distinct names, one
\* non-negative feature count each.
DetailsShaped(d) ==
    /\ Len(d.modalities) >= 1
    /\ IsInjective(d.modalities)
    /\ Len(d.num_features) = Len(d.modalities)
    /\ \A i \in DOMAIN d.num_features : d.num_features[i] >= 0

\* validate() as its caller sees it: "open" is the unopened 'inputs' group,
\* the phases are pending, done is an accepted Details, failed is the error.
Contract == INSTANCE ValidatorContract WITH
    Phases  <- {"parameters", "results"},
    Accepts <- DetailsShaped,
    verdict <- CASE phase = "open"                      -> "unopened"
                 [] phase \in {"parameters", "results"} -> "pending"
                 [] phase = "done"                      -> "accepted"
                 [] phase = "failed"                    -> "rejected",
    result  <- IF phase = "done" THEN DetailsOf ELSE "none",
    error   <- [i \in DOMAIN err |-> err[i].scope]

\* validate() implements its contract: every run, through both phases and
\* the hand-off between them, ends in one verdict; an accepted Details is
\* well shaped, and a fault from any depth (a file of the parameters phase,
\* a read of the results phase) leaves validate() wrapped in exactly one
\* phase frame, outermost; only a missing 'inputs' group escapes bare.
ContractRefined == Contract!Spec

=============================================================================
