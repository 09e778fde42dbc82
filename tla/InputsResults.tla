---------------------------- MODULE InputsResults ---------------------------
(***************************************************************************)
(* The results phase of the ingestion validator,                           *)
(* kanaval::inputs::validate_results (src/.../kanaval/inputs.hpp), which   *)
(* builds the Details record from the 'results' group.  Its input is the   *)
(* ParamDump returned by the parameters phase; Init ranges over every dump *)
(* that phase can return.  Reads are modelled as in InputsParams: each     *)
(* either faults or returns a value from a small set, chosen when read.    *)
(***************************************************************************)
EXTENDS Integers, Sequences, FiniteSets, Functions, SequencesExt

CONSTANTS
    Versions,        \* state-file versions explored
    MaxMatrices,     \* bound on the number of matrices in a ParamDump
    ModalityOrder,   \* modality names in the order HDF5 enumerates children
    Counts,          \* integers a count field (cells, features, samples) may hold
    IdValues,        \* integers an identity array entry may hold
    MaxIdLen,        \* bound on the length of an identity array
    Stray,           \* a child of 'identities' naming no modality
    SizeTMod         \* 2^w of size_t, above any array length explored

ASSUME /\ MaxMatrices \in Nat /\ MaxIdLen \in Nat
       /\ Counts \subseteq Int /\ IdValues \subseteq Int
       /\ SizeTMod \in Nat /\ SizeTMod > MaxIdLen

VARIABLES
    version,
    dump,            \* the ParamDump argument
    pc,
    modalities,      \* output.modalities
    num_features,    \* output.num_features
    num_cells,       \* output.num_cells
    num_samples,     \* output.num_samples
    m,               \* modality loop index (1-based)
    ids,             \* history: row-identity arrays accepted, in check order
    rep,             \* history: the row-identity representation read
    idkids           \* history: the children of the 'identities' group from 2.0

vars == <<version, dump, pc, modalities, num_features, num_cells, num_samples,
          m, ids, rep, idkids>>

\* The ParamDumps validate_parameters can return: a single matrix has one
\* format; several matrices always mean several samples.
ParamDumps ==
    {d \in [num_matrices : 0 .. MaxMatrices, multi_matrix : BOOLEAN,
            multi_sample : BOOLEAN] :
        /\ ~d.multi_matrix => d.num_matrices = 1
        /\ d.multi_matrix => d.multi_sample}

ModalityNames == Range(ModalityOrder)
IdArrays == BoundedSeq(IdValues, MaxIdLen)

\* static_cast<size_t> of an int.
SizeT(n) == IF n >= 0 THEN n ELSE n + SizeTMod

\* Mutant: negative values are not rejected.
RECURSIVE CheckUniqueAllowNegative(_, _)
CheckUniqueAllowNegative(idx, used) ==
    \/ idx = <<>>
    \/ /\ Head(idx) \notin used
       /\ CheckUniqueAllowNegative(Tail(idx), used \cup {Head(idx)})

\* check_unique: scan idx, rejecting a negative or an already used value.
RECURSIVE CheckUnique(_, _)
CheckUnique(idx, used) ==
    \/ idx = <<>>
    \/ /\ Head(idx) >= 0
       /\ Head(idx) \notin used
       /\ CheckUnique(Tail(idx), used \cup {Head(idx)})

\* Mutant: the upper bound of the range check is dropped.
RECURSIVE CheckPermutationNoUpper(_, _, _)
CheckPermutationNoUpper(ps, n, used) ==
    \/ ps = <<>>
    \/ /\ Head(ps) >= 0
       /\ Head(ps) \notin used
       /\ CheckPermutationNoUpper(Tail(ps), n, used \cup {Head(ps)})

\* The 'permutation' scan: each value in [0, n) and not yet used.
RECURSIVE CheckPermutation(_, _, _)
CheckPermutation(ps, n, used) ==
    \/ ps = <<>>
    \/ /\ Head(ps) >= 0
       /\ Head(ps) < n
       /\ Head(ps) \notin used
       /\ CheckPermutation(Tail(ps), n, used \cup {Head(ps)})

-----------------------------------------------------------------------------
Fail == pc' = "failed"

Init ==
    /\ version \in Versions
    /\ dump \in ParamDumps
    /\ pc = "dims"
    /\ modalities = <<>>
    /\ num_features = <<>>
    /\ num_cells = 0
    /\ num_samples = 0
    /\ m = 0
    /\ ids = <<>>
    /\ rep = "none"
    /\ idkids = {}

\* Before 2.0: 'dimensions' holds the feature and cell counts of one RNA
\* modality.
ReadDimensions ==
    /\ pc = "dims"
    /\ version < 2000000
    /\ \/ Fail /\ UNCHANGED <<modalities, num_features, num_cells>>
       \/ \E d \in BoundedSeq(Counts, 3) :
            IF Len(d) = 2 /\ d[1] >= 0 /\ d[2] >= 0
              THEN /\ modalities' = <<"RNA">>
                   /\ num_features' = <<d[1]>>
                   /\ num_cells' = d[2]
                   /\ pc' = "samples"
              ELSE Fail /\ UNCHANGED <<modalities, num_features, num_cells>>
    /\ UNCHANGED <<version, dump, num_samples, m, ids, rep, idkids>>

\* From 2.0: scalar 'num_cells', then the 'num_features' group, whose
\* children name the modalities in enumeration order.
ReadNumCells ==
    /\ pc = "dims"
    /\ version >= 2000000
    /\ \/ Fail /\ UNCHANGED <<modalities, num_cells, m>>
       \/ \E c \in Counts, present \in SUBSET ModalityNames :
            \/ /\ present = {}
               /\ Fail
               /\ UNCHANGED <<modalities, num_cells, m>>
            \/ /\ present # {}
               /\ num_cells' = c
               /\ modalities' = SelectSeq(ModalityOrder, LAMBDA x : x \in present)
               /\ m' = 1
               /\ pc' = "nf"
    /\ UNCHANGED <<version, dump, num_features, num_samples, ids, rep, idkids>>

\* One integer scalar per modality in 'num_features'.
ReadFeatureCount ==
    /\ pc = "nf"
    /\ \/ Fail /\ UNCHANGED <<num_features, m>>
       \/ \E n \in Counts :
            /\ num_features' = Append(num_features, n)
            /\ m' = m + 1
            /\ pc' = IF m = Len(modalities) THEN "samples" ELSE "nf"
    /\ UNCHANGED <<version, dump, modalities, num_cells, num_samples, ids, rep, idkids>>

\* 'num_samples' defaults to 1 and must agree with the parameters.
ReadNumSamples ==
    /\ pc = "samples"
    /\ \/ Fail /\ UNCHANGED num_samples
       \/ \E ns \in {1} \cup Counts :   \* absent (1), or the value stored
            IF \/ dump.multi_matrix /\ ns # dump.num_matrices
               \/ ~dump.multi_matrix /\ ~dump.multi_sample /\ ns # 1
              THEN Fail /\ UNCHANGED num_samples
              ELSE /\ num_samples' = ns
                   /\ pc' = "ids"
    /\ UNCHANGED <<version, dump, modalities, num_features, num_cells, m, ids, rep, idkids>>

\* Row identities from 2.0: open the 'identities' group; its children are
\* opened by modality name next, never listed.
OpenIdentities ==
    /\ pc = "ids"
    /\ version >= 2000000
    /\ \/ Fail /\ UNCHANGED <<m, rep, idkids>>
       \/ /\ m' = 1
          /\ rep' = "identities"
          /\ pc' = "idm"
          /\ \E ch \in SUBSET (ModalityNames \cup {Stray}) : idkids' = ch
    /\ UNCHANGED <<version, dump, modalities, num_features, num_cells,
                   num_samples, ids>>

\* One unique, non-negative array per modality, as long as its feature count.
ReadModalityIdentities ==
    /\ pc = "idm"
    /\ \/ Fail /\ UNCHANGED <<ids, m>>                  \* not an integer array
       \/ modalities[m] \notin idkids /\ Fail /\ UNCHANGED <<ids, m>>
       \/ modalities[m] \in idkids /\ \E idx \in IdArrays :
            IF Len(idx) = SizeT(num_features[m]) /\ CheckUnique(idx, {})
              THEN /\ ids' = Append(ids, idx)
                   /\ m' = m + 1
                   /\ pc' = IF m = Len(modalities) THEN "done" ELSE "idm"
              ELSE Fail /\ UNCHANGED <<ids, m>>
    /\ UNCHANGED <<version, dump, modalities, num_features, num_cells,
                   num_samples, rep, idkids>>

\* Versions 1.2 to 2.0 store one 'identities' array; before 1.2 a multi-
\* matrix dataset stores 'indices'.  Both are checked like check_unique.
ReadUniqueIdentities ==
    /\ pc = "ids"
    /\ \/ version >= 1002000 /\ version < 2000000 /\ rep' = "identities"
       \/ version < 1002000 /\ dump.multi_matrix /\ rep' = "indices"
    /\ \/ Fail /\ UNCHANGED ids
       \/ \E idx \in IdArrays :
            IF Len(idx) = SizeT(num_features[1]) /\ CheckUnique(idx, {})
              THEN ids' = <<idx>> /\ pc' = "done"
              ELSE Fail /\ UNCHANGED ids
    /\ UNCHANGED <<version, dump, modalities, num_features, num_cells,
                   num_samples, m, idkids>>

\* Before 1.2 a single matrix stores 'permutation', a permutation of the
\* loaded rows.
ReadPermutation ==
    /\ pc = "ids"
    /\ version < 1002000
    /\ ~dump.multi_matrix
    /\ rep' = "permutation"
    /\ \/ Fail /\ UNCHANGED ids
       \/ \E ps \in IdArrays :
            IF Len(ps) = SizeT(num_features[1]) /\ CheckPermutation(ps, Len(ps), {})
              THEN ids' = <<ps>> /\ pc' = "done"
              ELSE Fail /\ UNCHANGED ids
    /\ UNCHANGED <<version, dump, modalities, num_features, num_cells,
                   num_samples, m, idkids>>

Next ==
    \/ ReadDimensions
    \/ ReadNumCells
    \/ ReadFeatureCount
    \/ ReadNumSamples
    \/ OpenIdentities
    \/ ReadModalityIdentities
    \/ ReadUniqueIdentities
    \/ ReadPermutation

Spec == Init /\ [][Next]_vars

-----------------------------------------------------------------------------
(***************************************************************************)
(* Properties                                                              *)
(***************************************************************************)
TypeOK ==
    /\ version \in Versions
    /\ dump \in ParamDumps
    /\ pc \in {"dims", "nf", "samples", "ids", "idm", "done", "failed"}
    /\ modalities \in Seq(ModalityNames)
    /\ num_features \in BoundedSeq(Counts, Len(ModalityOrder))
    /\ num_cells \in Counts \cup {0}
    /\ num_samples \in Counts \cup {0, 1}
    /\ m \in Nat
    /\ ids \in Seq(IdArrays)
    /\ rep \in {"none", "identities", "indices", "permutation"}
    /\ idkids \subseteq ModalityNames \cup {Stray}

\* Every accepted row-identity array (per modality from 2.0, the single
\* 'identities' or 'indices' array before) has one entry per feature of its
\* modality, all distinct and non-negative.
RowIdentitiesDistinct ==
    pc = "done" =>
        /\ Len(ids) = IF version >= 2000000 THEN Len(modalities) ELSE 1
        /\ \A k \in DOMAIN ids :
              /\ Len(ids[k]) = num_features[k]
              /\ IsInjective(ids[k])
              /\ \A i \in DOMAIN ids[k] : ids[k][i] >= 0

\* An accepted legacy 'permutation' is a bijection on [0, n) for the n
\* features: the scan only rejects out-of-range and repeated values, and
\* coverage of every index follows from the length check (spec 9).
PermutationIsBijection ==
    (pc = "done" /\ rep = "permutation") =>
        Range(ids[1]) = 0 .. (num_features[1] - 1)

\* Spec 4.3: from 2.0 the 'identities' group holds one array per modality.
IdentitiesExactlyModalities ==
    (pc = "done" /\ version >= 2000000) => idkids = Range(modalities)

\* Spec 3: an accepted Details has a positive num_samples (read from
\* 'num_samples', or 1 when it is absent) and a non-negative num_cells
\* (from 'dimensions' before 2.0, from 'num_cells' after).
DetailsCountsInRange ==
    pc = "done" => num_samples >= 1 /\ num_cells >= 0

=============================================================================
