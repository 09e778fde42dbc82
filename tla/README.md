# TLA+ models of the kanaval validators

The repository (`src/inst/include/kanaval/`) is a header-only C++ library. It
validates the HDF5 state file of the kana single-cell analysis application.
Every validator is a sequential, single-threaded, read-only function.

- It opens groups and datasets through `utils::` helpers.
- It compares what it reads against the declared format version.
- It either returns a small summary or throws.
- When an error travels up through a nested call, that call prepends context to
  it (`utils::combine_errors`).

Nothing runs concurrently, nothing is persisted, and no message is lost. What is
hard is the *sequence* of reads. Most checks depend on values read earlier,
and a few of them on arithmetic at a type's boundary. The same pattern recurs
in every validator: a count is read first, and later reads are opened by
position or by name according to that count.

## How reads are modelled

The HDF5 file is not a state variable. Each read is an action that either
*faults* (a missing object, or the wrong type, rank or shape) or *returns* a
value chosen by `\E` from a small constant set. Because every location is read
at most once, this explores every file the validator can be handed, up to the
bounds. History variables (`readTypes`, `bytes`, `children`, `ids`,
`sampleNames`) keep what was read, so that invariants can relate the verdict to
the input.

Integer widths are kept where they matter:

- `hsize_t` additions are taken modulo `2^ByteWidth`. The real type is 64-bit;
  a 2-bit stand-in has the same wrap-around behaviour in a state space TLC can
  enumerate.
- `static_cast<size_t>(n)` of a negative `int` is `n + SizeTMod`.
- The `int` sum of `sample_groups` (`std::accumulate`, inputs.hpp:94) wraps
  into the signed range of an `IntWidth`-bit int (`AccumulateInt`). Signed
  overflow is undefined in C++; the two's-complement builds wrap, and that is
  the outcome modelled. A 3-bit int with `INT_MIN = -4` among the group sizes
  reaches the wrap that a 32-bit int reaches with `INT_MIN`.

## Components

| Part of the system | Source | Module | Status |
|---|---|---|---|
| Parameters phase: `inputs::validate_parameters` | inputs.hpp 61-199 | `InputsParams` | modelled |
| Results phase: `inputs::validate_results` | inputs.hpp 201-308 | `InputsResults` | modelled |
| Entry point: `inputs::validate` (composes the two phases) | inputs.hpp 496-514 | `Inputs` | modelled |
| Error context chain (`combine_errors`) | calls in all files; the helper is not in src/ | frames in every module; `ValidatorContract` | modelled |
| Version policy (inline version comparisons) | all files | guards in every module | modelled |
| What every `validate()` promises | the four `validate` entry points | `ValidatorContract`, refined by `Inputs`, `Pca`, `CombineEmbeddings`, `CustomSelections` | modelled |
| PCA stage: `pca::validate` | pca.hpp | `Pca` | modelled |
| Combine-embeddings stage: `combine_embeddings::validate` | combine_embeddings.hpp | `CombineEmbeddings` | modelled |
| Custom-selections stage: `custom_selections::validate` | custom_selections.hpp | `CustomSelections` | modelled |
| HDF5 accessors (`utils.hpp`, `misc.hpp`) | not in src/ | abstracted as fault / value reads | not modelled |
| Orchestrator that sequences the stages | not in src/ | — (see "Not modelled") | not modelled |

### InputsParams (validate_parameters)

**State.**

| Variable | Meaning |
|---|---|
| `formats` | the `format` scalar or array |
| `multi_matrix` | whether `format` was an array |
| `children` | the names under `files` |
| `runs` | per-matrix file counts: `sample_groups`, or `<<nfiles>>` for a single matrix |
| `r`, `s` | the current run and the file within it |
| `sofar` | the global file position, inputs.hpp:117 |
| `types` | types of the current run's files |
| `bytes` | `(offset, size)` of each embedded file |
| `multi_sample` | whether the input has multiple samples |
| `err` | the context frames of the error |

**Actions.** Each action is one step of the function, in the order of the
code:

- `ReadFormat`, including the 1.1 gate on arrays.
- `OpenFiles`.
- `ReadSampleGroups`: length, and the sum equal to the number of children.
- `ReadSampleNames`: length, and uniqueness.
- `ReadFile`: one file at global position `sofar`, whose faults are wrapped as
  `file <sofar>`.
- `CheckRunTypes`: the per-format type rules.
- `CheckBytes`: contiguity of embedded ranges in `hsize_t`.
- `ReadSampleFactor`.

**Properties.**

- `RunTypesConform`: every run's files suit its format. The run's files are the
  positions that run's `sample_groups` entry assigns, not `types` as read.
- `RunsPartitionFiles`: accepted files are exactly positions `0..n-1`, split
  into runs of non-negative size. The sum check and the file loop together
  would give this with exact arithmetic; the `int` sum wraps, and the code
  breaks it (see findings).
- `EmbeddedRangesDisjoint`: accepted ranges never overlap. This is what spec
  §4.3/§8 promises, and the code breaks it by wrap-around (see findings).

### InputsResults (validate_results)

**State.**

- `dump`: the ParamDump handed over by the parameters phase. It is chosen from
  every ParamDump `validate_parameters` can return.
- `modalities`, `num_features`, `num_cells`, `num_samples`: the Details fields.
- `ids`: the row identities per modality.
- `rep`: which representation was found.
- `idkids`: a history variable, the children of the 'identities' group
  (from 2.0), chosen when the group is opened from the modality names and a
  `Stray` name. The code never lists them; a modality's array is read only
  when its name is among them, and otherwise the read faults.

**Actions.**

- `ReadDimensions` (before 2.0), or `ReadNumCells` followed by one
  `ReadFeatureCount` per modality, in HDF5 name order (`ModalityOrder`).
- `ReadNumSamples`.
- The three identity representations:
  - `OpenIdentities` and `ReadModalityIdentities` from 2.0;
  - `ReadUniqueIdentities` for 1.2, and for multi-matrix inputs before 1.2;
  - `ReadPermutation` for single matrices before 1.2.

**Properties.**

- `RowIdentitiesDistinct`: one identity array per modality from 2.0 (one
  before), each as long as its modality's feature count, distinct and
  non-negative. A negative count is refused only through the `size_t` cast of
  the length check.
- `PermutationIsBijection`: a legacy permutation covers `0..n-1`.
- Two properties state what the spec says and are violated by the code:
  - `DetailsCountsInRange` (§3): `num_samples` positive and `num_cells`
    non-negative;
  - `IdentitiesExactlyModalities` (§4.3): from 2.0 the 'identities' group
    holds one array per modality, so `idkids` equals the modality names.

The passing properties are checked end to end, through `Inputs`, which
re-exports them; `MC_InputsResults` only drives the two violation runs.

### Inputs (validate)

This module composes the two phases through `INSTANCE ... WITH`, renaming each
phase's `pc`.

- `OpenInputs` opens the `inputs` group (inputs.hpp:497). It sits outside both
  try blocks, so a missing group escapes with no frame.
- `ParamsReturn` hands `ParamDumpOf` to the results phase.
- `PhaseFailed` wraps a fault with its phase. These are the
  `combine_errors` calls at inputs.hpp:503 and 510.
- `SampleCountAgrees` checks that the sample count which reaches Details agrees
  with `sample_names` and `sample_groups`, across the handoff.
- `ContractRefined` checks that `Inputs` implements `ValidatorContract`
  (below), with `DetailsShaped` as what it may return.

### ValidatorContract (what every validate() promises)

An abstract specification with no reads at all, shared by the four
validators. Its variables are `verdict` (unopened, pending, accepted or
rejected), `result` and `error`, where `error` is the sequence of frame scopes.
Its constants are `Phases` and an operator `Accepts(_)`, which is what the
validator may return.

- `Open` and `Missing`: every `validate()` first opens its own group, outside
  any try block. A missing group is rejected with a bare error (`<<>>`).
- `Accept` returns a value that `Accepts` allows:
  - for `inputs`, `DetailsShaped`: at least one modality, distinct names, one
    non-negative feature count each. The signs of `num_cells` and
    `num_samples` are left out, because the code does not promise them
    (findings 2 and 3);
  - for `pca`, a natural number of PCs;
  - for the two stages that return nothing, anything.
- `Reject` raises an error whose outermost frame names a phase, with no other
  phase frame inside it (`PhaseWrapped`).
- `Spec` asks that a verdict is eventually reached.

Each module defines `Contract == INSTANCE ValidatorContract WITH ...`, and its
property `ContractRefined == Contract!Spec`. The refinement mappings:

- `verdict` comes from the program counter: the group open maps to unopened,
  `done` to accepted, `failed` to rejected, and every other state to pending.
  `combine_embeddings` before 2.0 opens nothing and starts pending. The
  abstract `Init` allows both starts.
- `result` is the returned value once done (`DetailsOf`, the Details record of
  inputs.hpp:26-50, or `obs_pcs`), and a constant before that.
- `error` is the scopes of `err`.

Every internal read is a stuttering step of the contract. The step that ends
`validate()` is `Accept`, `Reject` or `Missing`.

### Stage validators

Each stage validator is a module of its own. Its inputs are the version and
the Details fields it is passed, and Init ranges over those inputs.

**Pca.**

- Actions: `OpenPca` (pca.hpp:97, a bare fault), `ReadNumHvgs`, `ReadNumPcs`, `ReadBlockMethod` (from 1.1),
  `CheckPcaContents` and `ReadCorrected`.
- `check_pca_contents` and `check_block_method` are in misc.hpp, which is not
  in src/. They are modelled from spec 4.4: `pcs` is `[num_cells, w]` with
  `w <= num_pcs`, and the method is one of none, regress or mnn.
- `corrected` may never be read, so its state in the file is a variable fixed
  in Init.
- `CorrectedIffMnn` is the spec's "iff" (see findings).

**CombineEmbeddings.**

- Actions: `SkipBeforeV2` (the early return, taken before the group is
  opened), `OpenCombine` (a bare fault), `ReadApproximate`,
  `OpenWeights`, one `ReadWeight` per modality, and `ReadCombined`.
  `ReadCombined` opens `results` (a fault for any number of modalities) and
  compares the stored extents with the `size_t` casts of
  `num_cells` and `total_dims`.
- `CombinationComplete`: weights are all there or absent, and several
  modalities imply a `combined` matrix of the right shape.
- `WeightsExactlyModalities` is the spec's "exactly one per modality" (see
  findings).

**CustomSelections.**

- Actions: `OpenStage` (custom_selections.hpp:150, a bare fault),
  `OpenSelections`, one `ReadSelection` per selection (indices in
  `[0, num_cells)`), and `OpenMarkers`, which checks the child count.
- Then, per selection, `OpenSelectionGroup` (faulting when the named child
  is missing or is not a group), followed from 2.0 by
  `OpenModalityGroup` per modality, and `ValidateCustomMarkers`.
- The eight statistic datasets of a group share one required length, and are
  read as one.
- Error frames follow the nested catch blocks: results, then selection, then
  modality.
- `kids` records, from 2.0, the children of each selection group opened. The
  code never lists them; it opens one per modality by name
  (`KidsOfCurrent`).
- `AcceptedSelectionsConsistent`:
  - indices are in range;
  - the result groups are exactly the selections;
  - every selection has statistics for every expected modality, sized to that
    modality's count.
- `ContractRefined`: under weak fairness the stage always ends in a verdict,
  and every fault of the nested loops reaches the caller inside the single
  'results' phase frame. A mutant that rethrows a caught fault without its
  frames breaks it.
- `SelectionGroupsExactlyModalities` is the spec's "one child per modality"
  (see findings).

## Runs

| Run | Checks | Bounds | Result |
|---|---|---|---|
| `params` | TypeOK, RunTypesConform | versions 1.0/1.1; plain and embedded; ≤2 matrices; positions 0..2 plus a stray child; group sizes -4 (INT_MIN) and -1..2 in a 3-bit int; 3 formats, 3 file types; `hsize_t` as 2 bits, sizes/offsets 0..3 | pass (8.3M states) |
| `params_partition` | RunsPartitionFiles | version 1.1, plain; formats 10X/custom; ≤2 positions; group sizes -4, -3, 0, 1 in a 3-bit int | violation: `sample_groups` <<-4, -4>>, two custom formats, no files |
| `params_overlap` | EmbeddedRangesDisjoint | embedded only, formats 10X/custom, type h5, group sizes 0..3 | violation: sizes 1,3,2 at offsets 0,1,0 |
| `results_counts` | DetailsCountsInRange | versions 1.1/1.2/2.0; modalities ADT,RNA; counts and ids -1..2; ≤2 ids | violation: a ParamDump of 0 matrices gives `num_samples = 0` |
| `results_identities` | IdentitiesExactlyModalities | as above | violation: `identities` with children {RNA, Stray} for modalities <<RNA>> |
| `inputs` | SampleCountAgrees, ContractRefined (under WF), RowIdentitiesDistinct, PermutationIsBijection | both phases end to end; versions 1.0/1.1/1.2/2.0 (every row-identity representation); modalities ADT,RNA; ≤2 matrices; counts and ids -1..2; ≤2 ids | pass (374k states) |
| `pca` | TypeOK, ContractRefined (under WF) | versions 1.0/1.1/2.0; num_cells -1/0/3; counts -1..2; 3 methods and a bad one | pass |
| `pca_corrected` | CorrectedIffMnn | as above | violation: version 1.0 with `corrected` accepted |
| `combine` | TypeOK, CombinationComplete, ContractRefined (under WF) | versions 1.2/2.0; 1-2 modalities; num_cells -1/0/2; extents 0..2 | pass |
| `combine_weights` | WeightsExactlyModalities | as above | violation: weights {ADT, stray} for modalities <<ADT>> |
| `selections` | TypeOK, AcceptedSelectionsConsistent, ContractRefined (under WF) | versions 1.2/2.0; ≤2 selections plus a stray result group; 1-2 modalities; counts -1/1; indices -1..1 | pass |
| `selections_groups` | SelectionGroupsExactlyModalities | as above | violation: selection group with children {RNA, stray} for modalities <<RNA>> |

**Why the bounds are enough.**

- Two matrices and three file positions are enough to give:
  - runs of zero, one and two files;
  - a run boundary that the global counter must cross;
  - a child that no position names.
- Counts from -1 to 2 cover the negative values, zero, and a repeat.
- A 2-bit `hsize_t` reaches the wrap-around with three files.

All runs use `CHECK_DEADLOCK FALSE`. The validator really terminates, in
`done` or `failed`, and these terminal states are stuttering by design.

**Fairness.** `Inputs` (over both phases), `Pca`, `CombineEmbeddings` and
`CustomSelections` define `LiveSpec == Spec /\ WF_vars(Next)`, and their
passing runs use it. Weak fairness of the whole next-state relation is what the code
justifies. Every step is a synchronous HDF5 read that returns or throws (spec
§5: no blocking, no cancellation), and the validator is one thread with nothing
else to schedule. So a state with an enabled step is never left forever. No
per-action fairness is assumed: which read happens next is fixed by the code,
not by a scheduler. Under it, `ContractRefined` includes the contract's
`<>(verdict \in {"accepted", "rejected"})`: every loop reaches its end.

A fault branch is re-chosen on every step, so weak fairness could force a
fault out of a loop that stutters. A liveness mutant is caught only when its loop
cycles through changing states. The code reads
every location once, so it never takes a fault branch twice.

## Findings

1. **Code bug.** inputs.hpp:186: the contiguity check adds sizes with
   `sofar += b.second` in `hsize_t`, and the sum wraps. Embedded files of sizes
   `1, 2^64-1, 2` at offsets `0, 1, 0` are accepted although the third overlaps
   the first. Spec §4.3 step 6 says such input must fail.
2. **Divergence.** inputs.hpp:234-247: `num_samples` is accepted zero or
   negative. A single matrix with `sample_factor` accepts any value. An empty
   1-D `format` array gives 0 matrices, 0 files and `num_samples = 0`.
3. **Divergence.** inputs.hpp:219: from 2.0, `num_cells` is never checked for
   sign. Before 2.0, negative `dimensions` are rejected.
4. **Divergence.** pca.hpp:49: `corrected` is opened only when it is
   required, and never rejected elsewhere. Spec 4.4 says it is present iff the
   method is mnn and the version is in [1.1, 2.0).
5. **Divergence.** combine_embeddings.hpp:27: a non-empty `weights` group is
   checked to contain every modality, but its other children are not looked
   at. Spec 4.4 says "exactly one float scalar per declared modality".

6. **Divergence.** custom_selections.hpp:79: from 2.0, each selection group's
   modality subgroups are opened by name but never counted. A group holding
   a child that names no modality is accepted. Spec 4.4 says each selection
   group contains "one child per modality".
7. **Divergence.** inputs.hpp:263: from 2.0, the `identities` group is opened
   and one array per modality is loaded by name, but the group's children are
   never counted. An `identities` group with an extra child naming no
   modality is accepted. Spec §4.3 says the group holds per-modality arrays,
   "one per modality".
8. **Code bug.** inputs.hpp:94: the sum check adds the `int` entries of
   `sample_groups` with `std::accumulate`, which overflows (undefined
   behaviour; the builds wrap). `sample_groups = [INT_MIN, INT_MIN]` with two
   custom formats and no files sums to 0, and is accepted with two negative
   runs. `[INT_MIN, INT_MIN+1]` with one child `0` sums to 1, and is accepted
   without that file ever being read. Spec §4.3 says the groups sum to the
   number of files, each of which is checked.

Findings 2 and 3 share the run `results_counts`, whose property
`DetailsCountsInRange` is spec §3 on both counts. TLC reports the shorter
trace, which is the one for finding 2.

## Not modelled

- **The orchestrator and a pipeline composition.** The code that runs the
  stages in order and passes Details between them is out of scope (spec §1)
  and is not in src/. There is nothing to translate. Instead, each stage
  module's Init ranges over every Details the ingestion modules can accept,
  including the negative counts of findings 2 and 3. That covers whatever an
  orchestrator passes.
- **The `utils`/`misc` accessors.** The HDF5 accessors are not in src/, so
  each read is a fault-or-value choice. In particular, what
  `load_integer_scalar<hsize_t>` (inputs.hpp:133) does with a negative stored
  `offset` or `size` is decided there. The model reads offsets and sizes from
  the unsigned range only.
- **Message text.** The wording built by `combine_errors` is left out. The
  frames it prepends are kept.
