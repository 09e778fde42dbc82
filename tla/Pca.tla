--------------------------------- MODULE Pca ---------------------------------
(***************************************************************************)
(* The PCA stage validator, kanaval::pca::validate (src/.../kanaval/       *)
(* pca.hpp): the 'parameters' group gives the requested number of PCs and *)
(* the block method, which decide what the 'results' group must hold.      *)
(* Its inputs are the version and Details.num_cells.  Reads fault or       *)
(* return a value from a small set, as in InputsParams.  check_pca_contents*)
(* and check_block_method live in misc.hpp, outside src/, and follow the   *)
(* spec (4.4).  The 'corrected' dataset is the one part of the container  *)
(* that the code may never read, so it is fixed in Init.                   *)
(***************************************************************************)
EXTENDS Integers, Sequences

CONSTANTS
    Versions,       \* state-file versions explored
    CellCounts,     \* values Details.num_cells may take
    Counts,         \* integers 'num_hvgs', 'num_pcs' and a stored width may hold
    Methods         \* strings 'block_method' may hold

VARIABLES
    version,
    num_cells,      \* the num_cells argument
    corrected,      \* container: 'corrected' is "absent", "shaped" or "misshaped"
    pc,
    npcs,           \* requested PCs returned by validate_parameters
    method,         \* block method returned by validate_parameters
    obs_pcs,        \* observed PCs returned by validate_results
    err             \* context frames of the error raised, outermost first

vars == <<version, num_cells, corrected, pc, npcs, method, obs_pcs, err>>

\* check_block_method (misc.hpp): the methods spec 4.4 allows.
BlockMethods == {"none", "regress", "mnn"}

\* Mutant: a phase's fault is rethrown without its frame.
FailUnwrapped(phase) == pc' = "failed" /\ err' = <<>>

\* The phase frame validate() prepends to a fault.
Fail(phase) == pc' = "failed" /\ err' = <<phase>>

Init ==
    /\ version \in Versions
    /\ num_cells \in CellCounts
    /\ corrected \in {"absent", "shaped", "misshaped"}
    /\ pc = "open"
    /\ npcs = 0
    /\ method = ""
    /\ obs_pcs = 0
    /\ err = <<>>

\* Open the 'pca' group, outside both try blocks: a missing group escapes
\* with no frame.
OpenPca ==
    /\ pc = "open"
    /\ \/ pc' = "hvgs" /\ UNCHANGED err
       \/ pc' = "failed" /\ err' = <<>>
    /\ UNCHANGED <<version, num_cells, corrected, npcs, method, obs_pcs>>

\* 'num_hvgs' must be a positive integer scalar.
ReadNumHvgs ==
    /\ pc = "hvgs"
    /\ \/ Fail("parameters")
       \/ \E n \in Counts :
            IF n <= 0 THEN Fail("parameters") ELSE pc' = "pcs" /\ UNCHANGED err
    /\ UNCHANGED <<version, num_cells, corrected, npcs, method, obs_pcs>>

\* 'num_pcs' must be a positive integer scalar; 'block_method' is read only
\* from 1.1.
ReadNumPcs ==
    /\ pc = "pcs"
    /\ \/ Fail("parameters") /\ UNCHANGED npcs
       \/ \E n \in Counts :
            IF n <= 0
              THEN Fail("parameters") /\ UNCHANGED npcs
              ELSE /\ npcs' = n
                   /\ pc' = IF version >= 1001000 THEN "method" ELSE "results"
                   /\ UNCHANGED err
    /\ UNCHANGED <<version, num_cells, corrected, method, obs_pcs>>

\* Mutant: the method string is returned without check_block_method.
ReadBlockMethodUnchecked ==
    /\ pc = "method"
    /\ \/ Fail("parameters") /\ UNCHANGED method
       \/ \E s \in Methods : method' = s /\ pc' = "results" /\ UNCHANGED err
    /\ UNCHANGED <<version, num_cells, corrected, npcs, obs_pcs>>

ReadBlockMethod ==
    /\ pc = "method"
    /\ \/ Fail("parameters") /\ UNCHANGED method
       \/ \E s \in Methods :
            IF s \notin BlockMethods
              THEN Fail("parameters") /\ UNCHANGED method
              ELSE method' = s /\ pc' = "results" /\ UNCHANGED err
    /\ UNCHANGED <<version, num_cells, corrected, npcs, obs_pcs>>

\* check_pca_contents (misc.hpp, spec 4.4): 'pcs' is [num_cells, w] and
\* 'var_exp' has length w, for a stored width w no larger than requested.
\* No shape equals a negative cell count.
CheckPcaContents ==
    /\ pc = "results"
    /\ \/ Fail("results") /\ UNCHANGED obs_pcs
       \/ \E w \in Counts :
            IF w < 0 \/ w > npcs \/ num_cells < 0
              THEN Fail("results") /\ UNCHANGED obs_pcs
              ELSE obs_pcs' = w /\ pc' = "corrected" /\ UNCHANGED err
    /\ UNCHANGED <<version, num_cells, corrected, npcs, method>>

\* For mnn between 1.1 and 2.0 'corrected' is opened with the shape of 'pcs'.
CorrectedRequired ==
    version >= 1001000 /\ version < 2000000 /\ method = "mnn"

ReadCorrected ==
    /\ pc = "corrected"
    /\ IF CorrectedRequired /\ corrected # "shaped"
         THEN Fail("results")
         ELSE pc' = "done" /\ UNCHANGED err
    /\ UNCHANGED <<version, num_cells, corrected, npcs, method, obs_pcs>>

Next ==
    \/ OpenPca
    \/ ReadNumHvgs
    \/ ReadNumPcs
    \/ ReadBlockMethod
    \/ CheckPcaContents
    \/ ReadCorrected

Spec == Init /\ [][Next]_vars

\* Every step is a synchronous read that returns or throws (spec 5).
LiveSpec == Spec /\ WF_vars(Next)

-----------------------------------------------------------------------------
TypeOK ==
    /\ version \in Versions
    /\ num_cells \in CellCounts
    /\ corrected \in {"absent", "shaped", "misshaped"}
    /\ pc \in {"open", "hvgs", "pcs", "method", "results", "corrected", "done", "failed"}
    /\ npcs \in Nat
    /\ method \in BlockMethods \cup {""}
    /\ obs_pcs \in Nat
    /\ err \in Seq({"parameters", "results"})

\* Spec 4.4: 'corrected' is present iff the method is mnn and the version is
\* in [1.1, 2.0).
CorrectedIffMnn ==
    pc = "done" =>
        ((corrected # "absent") <=>
            (version >= 1001000 /\ version < 2000000 /\ method = "mnn"))

\* validate() as its caller sees it: it returns the observed PC count.
Contract == INSTANCE ValidatorContract WITH
    Phases  <- {"parameters", "results"},
    Accepts <- LAMBDA n : n \in Nat,
    verdict <- CASE pc = "open"   -> "unopened"
                 [] pc = "done"   -> "accepted"
                 [] pc = "failed" -> "rejected"
                 [] OTHER         -> "pending",
    result  <- IF pc = "done" THEN obs_pcs ELSE "none",
    error   <- err

\* pca::validate implements its contract: it always returns or throws, and
\* a fault of either phase, however deep, reaches the caller inside exactly
\* one phase frame; only a missing 'pca' group escapes bare.
ContractRefined == Contract!Spec

=============================================================================
