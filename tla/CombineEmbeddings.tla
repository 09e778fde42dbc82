--------------------------- MODULE CombineEmbeddings ---------------------------
(***************************************************************************)
(* The embedding-combination stage validator,                              *)
(* kanaval::combine_embeddings::validate (src/.../combine_embeddings.hpp). *)
(* Its inputs are the version, Details.num_cells, the modalities to        *)
(* combine and their total number of PCs.  Reads fault or return a value   *)
(* from a small set, as in InputsParams.                                   *)
(***************************************************************************)
EXTENDS Integers, Sequences, FiniteSets, Functions, SequencesExt

CONSTANTS
    Versions,       \* state-file versions explored
    CellCounts,     \* values the num_cells argument may take
    DimCounts,      \* values the total_dims argument may take
    ModalityNames,  \* modality names
    Stray,          \* a child of 'weights' naming no modality
    Extents,        \* extents a stored dataset dimension may have
    SizeTMod        \* 2^w of size_t, above every extent

ASSUME Extents \subseteq Nat /\ \A e \in Extents : e < SizeTMod - 1

VARIABLES
    version,
    num_cells,      \* the num_cells argument
    modalities,     \* the modalities argument
    total_dims,     \* the total_dims argument
    pc,
    weights,        \* history: the children of 'weights'
    a,              \* modality loop index (1-based)
    combined,       \* history: the shape of 'combined' accepted, or <<>>
    err             \* context frames of the error raised, outermost first

vars == <<version, num_cells, modalities, total_dims, pc, weights, a,
          combined, err>>

\* The modality lists a caller can pass: one or more distinct names.
ModalityLists == {q \in BoundedSeq(ModalityNames, Cardinality(ModalityNames)) :
                    q # <<>> /\ IsInjective(q)}

\* static_cast<size_t> of an int.
SizeT(n) == IF n >= 0 THEN n ELSE n + SizeTMod

\* Mutant: a phase's fault is rethrown without its frame.
FailUnwrapped(phase) == pc' = "failed" /\ err' = <<>>

\* The phase frame validate() prepends to a fault.
Fail(phase) == pc' = "failed" /\ err' = <<phase>>

Init ==
    /\ version \in Versions
    /\ num_cells \in CellCounts
    /\ modalities \in ModalityLists
    /\ total_dims \in DimCounts
    /\ pc = "start"
    /\ weights = {}
    /\ a = 0
    /\ combined = <<>>
    /\ err = <<>>

\* Before 2.0 there is nothing to check: validate returns at once.
SkipBeforeV2 ==
    /\ pc = "start"
    /\ version < 2000000
    /\ pc' = "done"
    /\ UNCHANGED <<version, num_cells, modalities, total_dims, weights, a,
                   combined, err>>

\* From 2.0 open the 'combine_embeddings' group, outside both try blocks:
\* a missing group escapes with no frame.
OpenCombine ==
    /\ pc = "start"
    /\ version >= 2000000
    /\ \/ pc' = "approximate" /\ UNCHANGED err
       \/ pc' = "failed" /\ err' = <<>>
    /\ UNCHANGED <<version, num_cells, modalities, total_dims, weights, a,
                   combined>>

\* The integer scalar 'approximate'.
ReadApproximate ==
    /\ pc = "approximate"
    /\ \/ Fail("parameters")
       \/ pc' = "open_weights" /\ UNCHANGED err
    /\ UNCHANGED <<version, num_cells, modalities, total_dims, weights, a,
                   combined>>

\* The 'weights' group: when it has children, every modality is checked.
OpenWeights ==
    /\ pc = "open_weights"
    /\ \/ Fail("parameters") /\ UNCHANGED <<weights, a>>
       \/ \E w \in SUBSET (ModalityNames \cup {Stray}) :
            /\ weights' = w
            /\ a' = 1
            /\ pc' = IF w = {} THEN "results" ELSE "weight"
            /\ UNCHANGED err
    /\ UNCHANGED <<version, num_cells, modalities, total_dims, combined>>

\* Mutant: the modality loop runs one step past the last modality.
ReadWeightPastEnd ==
    /\ pc = "weight"
    /\ \/ Fail("parameters") /\ UNCHANGED a
       \/ /\ modalities[a] \in weights
          /\ a' = a + 1
          /\ pc' = IF a > Len(modalities) THEN "results" ELSE "weight"
          /\ UNCHANGED err
       \/ modalities[a] \notin weights /\ Fail("parameters") /\ UNCHANGED a
    /\ UNCHANGED <<version, num_cells, modalities, total_dims, weights, combined>>

\* A float scalar named after the modality: the type read may fault.
ReadWeight ==
    /\ pc = "weight"
    /\ \/ Fail("parameters") /\ UNCHANGED a
       \/ /\ modalities[a] \in weights
          /\ a' = a + 1
          /\ pc' = IF a = Len(modalities) THEN "results" ELSE "weight"
          /\ UNCHANGED err
       \/ modalities[a] \notin weights /\ Fail("parameters") /\ UNCHANGED a
    /\ UNCHANGED <<version, num_cells, modalities, total_dims, weights, combined>>

\* Mutant: 'combined' is required only from three modalities on.
CombinedRequiredOffByOne == Len(modalities) > 2

CombinedRequired == Len(modalities) > 1

\* Open 'results'; 'combined' must be a [num_cells, total_dims] dataset, both
\* cast to size_t, when more than one modality is combined.
ReadCombined ==
    /\ pc = "results"
    /\ \/ Fail("results") /\ UNCHANGED combined      \* no 'results' group
       \/ /\ CombinedRequired
          /\ \/ Fail("results") /\ UNCHANGED combined   \* absent, or not float
             \/ \E shape \in Extents \X Extents :
                  IF shape = <<SizeT(num_cells), SizeT(total_dims)>>
                    THEN combined' = shape /\ pc' = "done" /\ UNCHANGED err
                    ELSE Fail("results") /\ UNCHANGED combined
       \/ ~CombinedRequired /\ pc' = "done" /\ UNCHANGED <<combined, err>>
    /\ UNCHANGED <<version, num_cells, modalities, total_dims, weights, a>>

Next ==
    \/ SkipBeforeV2
    \/ OpenCombine
    \/ ReadApproximate
    \/ OpenWeights
    \/ ReadWeight
    \/ ReadCombined

Spec == Init /\ [][Next]_vars

\* Every step is a synchronous read that returns or throws (spec 5).
LiveSpec == Spec /\ WF_vars(Next)

-----------------------------------------------------------------------------
TypeOK ==
    /\ version \in Versions
    /\ modalities \in ModalityLists
    /\ pc \in {"start", "approximate", "open_weights", "weight", "results", "done", "failed"}
    /\ weights \subseteq ModalityNames \cup {Stray}
    /\ a \in 0 .. Len(modalities) + 1
    /\ pc = "weight" => a \in 1 .. Len(modalities)
    /\ combined \in {<<>>} \cup (Extents \X Extents)
    /\ err \in Seq({"parameters", "results"})

\* An accepted combination from 2.0 either leaves every weight implicit or
\* stores one for each modality it combines, and, when it combines more
\* than one, holds a 'combined' matrix of one row per cell and one column
\* per PC; the weights are checked by a loop over the modality argument,
\* the matrix by a later, separate size test.
CombinationComplete ==
    (pc = "done" /\ version >= 2000000) =>
        /\ weights = {} \/ Range(modalities) \subseteq weights
        /\ Len(modalities) > 1 => combined = <<num_cells, total_dims>>

\* Spec 4.4: a non-empty 'weights' group holds exactly one scalar per
\* declared modality.
WeightsExactlyModalities ==
    (pc = "done" /\ version >= 2000000) =>
        weights = {} \/ weights = Range(modalities)

\* validate() as its caller sees it.  Before 2.0 it has nothing to open and
\* starts pending; it returns nothing.
Contract == INSTANCE ValidatorContract WITH
    Phases  <- {"parameters", "results"},
    Accepts <- LAMBDA x : TRUE,
    verdict <- CASE pc = "start" /\ version >= 2000000 -> "unopened"
                 [] pc = "done"                        -> "accepted"
                 [] pc = "failed"                      -> "rejected"
                 [] OTHER                              -> "pending",
    result  <- "none",
    error   <- err

\* combine_embeddings::validate implements its contract: it always returns
\* or throws, and a fault of either phase reaches the caller inside exactly
\* one phase frame; only a missing 'combine_embeddings' group from 2.0
\* escapes bare.
ContractRefined == Contract!Spec

=============================================================================
