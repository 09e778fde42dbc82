--------------------------- MODULE CustomSelections ---------------------------
(***************************************************************************)
(* The custom-selections stage validator,                                  *)
(* kanaval::custom_selections::validate (src/.../custom_selections.hpp):   *)
(* the children of 'parameters/selections' name the selections, each an   *)
(* array of cell indices; 'results' must hold one group of marker          *)
(* statistics per selection, flat before 2.0 ('markers') and one subgroup *)
(* per modality from 2.0 ('per_selection').  Its inputs are the version    *)
(* and the Details fields.  Reads fault or return a value from a small     *)
(* set, as in InputsParams; the eight statistic datasets of a group share  *)
(* one required length and are read as one.                                *)
(***************************************************************************)
EXTENDS Integers, Sequences, FiniteSets, Functions, SequencesExt

CONSTANTS
    Versions,       \* state-file versions explored
    CellCounts,     \* values Details.num_cells may take
    FeatureCounts,  \* values an entry of Details.num_features may take
    ModalityOrder,  \* modality names in HDF5 enumeration order
    SelOrder,       \* selection names in HDF5 enumeration order
    Stray,          \* a child of the results group naming no selection
    IndexValues,    \* integers a selection's index array may hold
    MaxSelLen,      \* bound on the length of a selection
    Extents,        \* extents a stored statistic may have
    SizeTMod        \* 2^w of size_t, above every extent

ASSUME /\ "RNA" \in Range(ModalityOrder)
       /\ Extents \subseteq Nat /\ \A e \in Extents : e < SizeTMod - 1

VARIABLES
    version,
    num_cells,      \* the num_cells argument
    modalities,     \* the modalities argument
    num_features,   \* the num_features argument
    pc,
    selections,     \* names collected by validate_parameters, in order
    picked,         \* history: the index array read for each selection
    k,              \* selection loop index (1-based)
    markers,        \* history: the children of 'markers' / 'per_selection'
    a,              \* modality loop index (1-based)
    stats,          \* history: statistic groups accepted, with their length
    kids,           \* history: the children of each selection group from 2.0
    err             \* context frames of the error raised, outermost first

vars == <<version, num_cells, modalities, num_features, pc, selections,
          picked, k, markers, a, stats, kids, err>>

SelNames == Range(SelOrder)

\* The Details.modalities the ingestion stage can produce: a non-empty
\* subsequence of the enumeration order.
ModalityLists ==
    {SelectSeq(ModalityOrder, LAMBDA x : x \in P) :
        P \in SUBSET Range(ModalityOrder) \ {{}}}

SizeT(n) == IF n >= 0 THEN n ELSE n + SizeTMod

\* Before 2.0 only the first feature count is used, for an implied RNA.
StatModality == IF version >= 2000000 THEN modalities[a] ELSE "RNA"
StatFeatures == IF version >= 2000000 THEN num_features[a] ELSE num_features[1]

\* The frames the catch blocks of validate_results put on a fault raised in
\* a selection's group, or in one of its modality groups.
SelectionFrames == <<"results", selections[k]>>
ModalityFrames  == <<"results", selections[k], modalities[a]>>

\* Mutant: a caught fault is rethrown without the frames combine_errors adds.
FailUnwrapped(frames) == pc' = "failed" /\ err' = <<>>

Fail(frames) == pc' = "failed" /\ err' = frames

Init ==
    /\ version \in Versions
    /\ num_cells \in CellCounts
    /\ modalities \in ModalityLists
    /\ version < 2000000 => modalities = <<"RNA">>
    /\ num_features \in [1 .. Len(modalities) -> FeatureCounts]
    /\ pc = "open"
    /\ selections = <<>>
    /\ picked = <<>>
    /\ k = 0
    /\ markers = {}
    /\ a = 0
    /\ stats = {}
    /\ kids = {}
    /\ err = <<>>

Unchanged(vs) ==
    UNCHANGED <<version, num_cells, modalities, num_features, kids, vs>>

\* Open the 'custom_selections' group, outside both try blocks: a missing
\* group escapes with no frame.
OpenStage ==
    /\ pc = "open"
    /\ \/ pc' = "selections" /\ UNCHANGED err
       \/ Fail(<<>>)
    /\ Unchanged(<<selections, picked, k, markers, a, stats>>)

\* validate_parameters: open 'selections' and list its children.
OpenSelections ==
    /\ pc = "selections"
    /\ \/ Fail(<<"parameters">>) /\ UNCHANGED <<selections, k>>
       \/ \E S \in SUBSET SelNames :
            /\ selections' = SelectSeq(SelOrder, LAMBDA x : x \in S)
            /\ k' = 1
            /\ pc' = IF S = {} THEN "results" ELSE "select"
            /\ UNCHANGED err
    /\ Unchanged(<<picked, markers, a, stats>>)

\* Load one selection; every index must lie in [0, num_cells).
ReadSelection ==
    /\ pc = "select"
    /\ \/ Fail(<<"parameters">>) /\ UNCHANGED <<picked, k>>
       \/ \E idx \in BoundedSeq(IndexValues, MaxSelLen) :
            IF \A i \in DOMAIN idx : idx[i] >= 0 /\ idx[i] < num_cells
              THEN /\ picked' = Append(picked, idx)
                   /\ k' = k + 1
                   /\ pc' = IF k = Len(selections) THEN "results" ELSE "select"
                   /\ UNCHANGED err
              ELSE Fail(<<"parameters">>) /\ UNCHANGED <<picked, k>>
    /\ Unchanged(<<selections, markers, a, stats>>)

\* Mutant: extra result groups beside the selections are let through.
MarkersCountAccepts(C) == Cardinality(C) >= Len(selections)

\* The results group must have exactly as many children as selections.
MarkersCountMatches(C) == Cardinality(C) = Len(selections)

\* Open 'markers' (before 2.0) or 'per_selection' and count its children.
OpenMarkers ==
    /\ pc = "results"
    /\ \/ Fail(<<"results">>) /\ UNCHANGED <<markers, k>>
       \/ \E C \in SUBSET (SelNames \cup {Stray}) :
            IF MarkersCountMatches(C)
              THEN /\ markers' = C
                   /\ k' = 1
                   /\ pc' = IF selections = <<>> THEN "done" ELSE "sel"
                   /\ UNCHANGED err
              ELSE Fail(<<"results">>) /\ UNCHANGED <<markers, k>>
    /\ Unchanged(<<selections, picked, a, stats>>)

\* Open the group named after the current selection.  From 2.0 its
\* children are the modality subgroups opened next; they are never counted.
OpenSelectionGroup ==
    /\ pc = "sel"
    /\ \/ Fail(SelectionFrames) /\ UNCHANGED <<a, kids>>          \* not a group
       \/ selections[k] \notin markers /\ Fail(SelectionFrames) /\ UNCHANGED <<a, kids>>
       \/ /\ selections[k] \in markers
          /\ a' = 1
          /\ UNCHANGED err
          /\ IF version >= 2000000
               THEN /\ pc' = "mod"
                    /\ \E ch \in SUBSET (Range(ModalityOrder) \cup {Stray}) :
                         kids' = kids \cup {[sel |-> selections[k], names |-> ch]}
               ELSE pc' = "stats" /\ UNCHANGED kids
    /\ UNCHANGED <<version, num_cells, modalities, num_features>>
    /\ UNCHANGED <<selections, picked, k, markers, stats>>

\* The children of the current selection's group.
KidsOfCurrent == (CHOOSE g \in kids : g.sel = selections[k]).names

\* From 2.0: open the current modality's subgroup of the selection group.
OpenModalityGroup ==
    /\ pc = "mod"
    /\ \/ Fail(ModalityFrames)                          \* not a group
       \/ modalities[a] \notin KidsOfCurrent /\ Fail(ModalityFrames)
       \/ modalities[a] \in KidsOfCurrent /\ pc' = "stats" /\ UNCHANGED err
    /\ Unchanged(<<selections, picked, k, markers, a, stats>>)


\* Mutant: the selection loop runs one step past the last selection.
AdvancePastEnd ==
    IF version >= 2000000 /\ a < Len(modalities)
      THEN a' = a + 1 /\ pc' = "mod" /\ UNCHANGED k
    ELSE IF k <= Len(selections)
      THEN k' = k + 1 /\ pc' = "sel" /\ UNCHANGED a
    ELSE pc' = "done" /\ UNCHANGED <<k, a>>

\* After a statistic group: the next modality, the next selection, or done.
Advance ==
    IF version >= 2000000 /\ a < Len(modalities)
      THEN a' = a + 1 /\ pc' = "mod" /\ UNCHANGED k
    ELSE IF k < Len(selections)
      THEN k' = k + 1 /\ pc' = "sel" /\ UNCHANGED a
    ELSE pc' = "done" /\ UNCHANGED <<k, a>>

\* validate_custom_markers: 'means', 'detected' and each effect size, all
\* of length static_cast<size_t>(num_features).
ValidateCustomMarkers ==
    /\ pc = "stats"
    /\ LET frames == IF version >= 2000000 THEN ModalityFrames ELSE SelectionFrames
       IN \/ Fail(frames) /\ UNCHANGED <<stats, k, a>>
          \/ \E len \in Extents :
               IF len = SizeT(StatFeatures)
                 THEN /\ stats' = stats \cup
                            {[sel |-> selections[k], mod |-> StatModality, len |-> len]}
                      /\ Advance
                      /\ UNCHANGED err
                 ELSE Fail(frames) /\ UNCHANGED <<stats, k, a>>
    /\ Unchanged(<<selections, picked, markers>>)

Next ==
    \/ OpenStage
    \/ OpenSelections
    \/ ReadSelection
    \/ OpenMarkers
    \/ OpenSelectionGroup
    \/ OpenModalityGroup
    \/ ValidateCustomMarkers

Spec == Init /\ [][Next]_vars

\* Every step is a synchronous read of the open file that returns or throws
\* (spec 5: no blocking, no cancellation), so the validator is never stuck
\* while a step is enabled.
LiveSpec == Spec /\ WF_vars(Next)

-----------------------------------------------------------------------------
TypeOK ==
    /\ version \in Versions
    /\ modalities \in ModalityLists
    /\ pc \in {"open", "selections", "select", "results", "sel", "mod", "stats",
               "done", "failed"}
    /\ selections \in Seq(SelNames) /\ IsInjective(selections)
    /\ picked \in Seq(BoundedSeq(IndexValues, MaxSelLen))
    /\ markers \subseteq SelNames \cup {Stray}
    /\ pc \in {"sel", "stats"} => k \in 1 .. Len(selections)
    /\ stats \subseteq [sel : SelNames, mod : Range(ModalityOrder), len : Extents]
    /\ kids \subseteq [sel : SelNames, names : SUBSET (Range(ModalityOrder) \cup {Stray})]

\* The modalities a statistic group is expected for, and their counts.
ExpectedMods == IF version >= 2000000 THEN Range(modalities) ELSE {"RNA"}
FeaturesOf(mod) ==
    IF version >= 2000000
      THEN num_features[CHOOSE i \in DOMAIN modalities : modalities[i] = mod]
      ELSE num_features[1]

\* An accepted stage has, for every selection it lists, indices inside the
\* cell range, and exactly one result group per selection holding, for
\* every expected modality, statistics as long as that modality's feature
\* count.  The code only counts the result groups and opens one by name per
\* selection; it never lists them.
AcceptedSelectionsConsistent ==
    pc = "done" =>
        /\ Len(picked) = Len(selections)
        /\ \A j \in DOMAIN picked : \A i \in DOMAIN picked[j] :
              0 <= picked[j][i] /\ picked[j][i] < num_cells
        /\ markers = Range(selections)
        /\ {<<g.sel, g.mod>> : g \in stats} = Range(selections) \X ExpectedMods
        /\ \A g \in stats : g.len = FeaturesOf(g.mod)

\* Spec 4.4: from 2.0 each selection's result group holds one child per
\* modality (and nothing else).
SelectionGroupsExactlyModalities ==
    (pc = "done" /\ version >= 2000000) =>
        \A g \in kids : g.names = Range(modalities)

\* validate() as its caller sees it; it returns nothing.
Contract == INSTANCE ValidatorContract WITH
    Phases  <- {"parameters", "results"},
    Accepts <- LAMBDA x : TRUE,
    verdict <- CASE pc = "open"   -> "unopened"
                 [] pc = "done"   -> "accepted"
                 [] pc = "failed" -> "rejected"
                 [] OTHER         -> "pending",
    result  <- "none",
    error   <- err

\* custom_selections::validate implements its contract: the loop over
\* selections, and from 2.0 the loop over modalities inside it, always
\* reach their end, and a fault raised in a selection's or a modality's
\* group reaches the caller inside exactly one phase frame, outermost;
\* only a missing 'custom_selections' group escapes bare.
ContractRefined == Contract!Spec

=============================================================================
