---------------------------- MODULE InputsParams ----------------------------
(***************************************************************************)
(* The parameters phase of the ingestion ("inputs") validator,             *)
(* kanaval::inputs::validate_parameters (src/.../kanaval/inputs.hpp).      *)
(*                                                                         *)
(* The validator is one sequential traversal of a read-only container.     *)
(* Each read of the container is modelled at the step that performs it:    *)
(* the read either faults (missing entry, wrong type or shape) or returns  *)
(* a value from a small set.  Every location is read at most once, so      *)
(* choosing its content when it is read explores exactly the containers    *)
(* the code can be given.  What was read is kept in the history variables  *)
(* readTypes and children, so that properties can relate the verdict to   *)
(* the container.                                                          *)
(***************************************************************************)
EXTENDS Integers, Sequences, FiniteSets, Functions, SequencesExt

CONSTANTS
    Versions,      \* state-file versions explored (major*10^6+minor*10^3+patch)
    Embeddings,    \* values of the 'embedded' argument explored
    Formats,       \* strings a 'format' entry may hold
    FileTypes,     \* strings a file's 'type' may hold
    SampleNames,   \* strings a 'sample_names' entry may hold
    GroupSizes,    \* integers a 'sample_groups' entry may hold
    MaxMatrices,   \* bound on the length of an array 'format'
    MaxFiles,      \* positions 0..MaxFiles-1 may name children of 'files'
    ByteWidth,     \* width in bits standing in for hsize_t
    IntWidth,      \* width in bits standing in for int
    Stray          \* a child of 'files' whose name is not a position

ASSUME MaxMatrices \in Nat /\ MaxFiles \in Nat /\ ByteWidth \in Nat \ {0}
ASSUME IntWidth \in Nat \ {0}
ASSUME Embeddings \subseteq BOOLEAN
ASSUME GroupSizes \subseteq -(2 ^ (IntWidth - 1)) .. (2 ^ (IntWidth - 1) - 1)

VARIABLES
    version, embedded,   \* the arguments of validate()
    pc,                  \* which block of validate_parameters runs next
    formats,             \* std::vector<std::string> formats
    multi_matrix,        \* output.multi_matrix
    children,            \* names of the children of 'files' (nfiles = their number)
    runs,                \* std::vector<int> runs
    sampleNames,         \* 'sample_names' as read
    r, s, sofar,         \* loop counters of the file loop (r is 1-based)
    types,               \* types of the files of the current run
    bytes,               \* (offset, size) pairs of the files read so far
    multi_sample,        \* output.multi_sample
    readTypes,           \* history: type of every file read, by position
    err                  \* context frames of the raised error, innermost last

vars == <<version, embedded, pc, formats, multi_matrix, children, runs,
          sampleNames, r, s, sofar, types, bytes, multi_sample, readTypes, err>>

HSizeMod == 2 ^ ByteWidth
Bytes == 0 .. (HSizeMod - 1)
FileNames == (0 .. (MaxFiles - 1)) \cup {Stray}
nfiles == Cardinality(children)
MatrixMarketTypes == {"mtx", "genes", "annotations"}
\* Mutant: the file frame names the previous position.
FileFramePrevious(i) == [scope |-> "file", index |-> i - 1]
FileFrame(i) == [scope |-> "file", index |-> i]

\* The int an integer wraps to.  Signed overflow is undefined in C++; the
\* two's-complement builds wrap, which is the outcome modelled here.
IntWrap(x) == ((x + 2 ^ (IntWidth - 1)) % 2 ^ IntWidth) - 2 ^ (IntWidth - 1)

\* std::accumulate(runs.begin(), runs.end(), 0): int additions that wrap
\* (wrapping each partial sum or only the total gives the same int).
AccumulateInt(q) == IntWrap(FoldLeft(+, 0, q))

\* Number of entries of q equal to t (the 'expected' counters).
CountOf(q, t) == Cardinality({i \in DOMAIN q : q[i] = t})

\* Mutant: the mtx count is only bounded above ("> 1" for "!= 1").
FormatAcceptsNoMtxRequired(f, ts) ==
    CASE f = "MatrixMarket" ->
              /\ \A i \in DOMAIN ts : ts[i] \in MatrixMarketTypes
              /\ CountOf(ts, "mtx") <= 1
              /\ CountOf(ts, "genes") <= 1
              /\ CountOf(ts, "annotations") <= 1
      [] f \in {"10X", "H5AD"} -> Len(ts) = 1 /\ ts[1] = "h5"
      [] OTHER -> TRUE

\* The per-run type check keyed by the run's format (lines 144-176).
FormatAccepts(f, ts) ==
    CASE f = "MatrixMarket" ->
              /\ \A i \in DOMAIN ts : ts[i] \in MatrixMarketTypes
              /\ CountOf(ts, "mtx") = 1
              /\ CountOf(ts, "genes") <= 1
              /\ CountOf(ts, "annotations") <= 1
      [] f \in {"10X", "H5AD"} -> Len(ts) = 1 /\ ts[1] = "h5"
      [] OTHER -> TRUE

\* The contiguity loop over 'bytes' (lines 180-188), with hsize_t arithmetic.
RECURSIVE ContiguousFrom(_, _)
ContiguousFrom(bs, at) ==
    \/ bs = <<>>
    \/ /\ Head(bs)[1] = at
       /\ ContiguousFrom(Tail(bs), (at + Head(bs)[2]) % HSizeMod)

-----------------------------------------------------------------------------
Fail(frames) ==
    /\ pc' = "failed"
    /\ err' = frames

\* Start run k of the file loop over the runs rs, or leave the loop after
\* the last run.
EnterRun(k, rs) ==
    /\ r' = k
    /\ s' = 0
    /\ types' = <<>>
    /\ pc' = IF k > Len(rs) THEN "bytes" ELSE "run"

Init ==
    /\ version \in Versions
    /\ embedded \in Embeddings
    /\ pc = "format"
    /\ formats = <<>>
    /\ multi_matrix = FALSE
    /\ children = {}
    /\ runs = <<>>
    /\ sampleNames = <<>>
    /\ r = 0 /\ s = 0 /\ sofar = 0
    /\ types = <<>>
    /\ bytes = <<>>
    /\ multi_sample = FALSE
    /\ readTypes = <<>>
    /\ err = <<>>

\* 'format' is a scalar string, or (from version 1.1) a string array.
ReadFormat ==
    /\ pc = "format"
    /\ \/ /\ Fail(<<>>)
          /\ UNCHANGED <<formats, multi_matrix>>
       \/ \E f \in Formats :
            /\ formats' = <<f>>
            /\ multi_matrix' = FALSE
            /\ pc' = "files"
            /\ UNCHANGED err
       \/ \E fs \in BoundedSeq(Formats, MaxMatrices) :
            \/ /\ version < 1001000
               /\ Fail(<<>>)
               /\ UNCHANGED <<formats, multi_matrix>>
            \/ /\ version >= 1001000
               /\ formats' = fs
               /\ multi_matrix' = TRUE
               /\ pc' = "files"
               /\ UNCHANGED err
    /\ UNCHANGED <<version, embedded, children, runs, sampleNames, r, s, sofar,
                   types, bytes, multi_sample, readTypes>>

\* Open 'files'; a single matrix has one run covering every file.
OpenFiles ==
    /\ pc = "files"
    /\ \/ /\ Fail(<<>>)
          /\ UNCHANGED <<children, runs, r, s, types>>
       \/ \E ch \in SUBSET FileNames :
            /\ children' = ch
            /\ IF multi_matrix
                 THEN /\ pc' = "groups"
                      /\ UNCHANGED <<runs, r, s, types>>
                 ELSE /\ runs' = <<Cardinality(ch)>>
                      /\ EnterRun(1, runs')
            /\ UNCHANGED err
    /\ UNCHANGED <<version, embedded, formats, multi_matrix, sampleNames, sofar,
                   bytes, multi_sample, readTypes>>

\* 'sample_groups': one count per matrix, summing to the number of files.
ReadSampleGroups ==
    /\ pc = "groups"
    /\ \/ /\ Fail(<<>>)
          /\ UNCHANGED runs
       \/ \E g \in BoundedSeq(GroupSizes, MaxMatrices + 1) :
            IF Len(g) = Len(formats) /\ AccumulateInt(g) = nfiles
              THEN /\ runs' = g
                   /\ pc' = "names"
                   /\ UNCHANGED err
              ELSE /\ Fail(<<>>)
                   /\ UNCHANGED runs
    /\ UNCHANGED <<version, embedded, formats, multi_matrix, children, sampleNames,
                   r, s, sofar, types, bytes, multi_sample, readTypes>>

\* 'sample_names': one distinct name per matrix.
ReadSampleNames ==
    /\ pc = "names"
    /\ \/ /\ Fail(<<>>)
          /\ UNCHANGED <<sampleNames, r, s, types>>
       \/ \E nm \in BoundedSeq(SampleNames, MaxMatrices + 1) :
            IF Len(nm) = Len(formats) /\ IsInjective(nm)
              THEN /\ sampleNames' = nm
                   /\ EnterRun(1, runs)
                   /\ UNCHANGED err
              ELSE /\ Fail(<<>>)
                   /\ UNCHANGED <<sampleNames, r, s, types>>
    /\ UNCHANGED <<version, embedded, formats, multi_matrix, children, runs,
                   sofar, bytes, multi_sample, readTypes>>

\* Read the file group named by the global position 'sofar': its 'name',
\* 'type', and 'offset' and 'size' if embedded or 'id' if not.  Any fault
\* is re-raised wrapped with the file's position.
ReadFile ==
    /\ pc = "run"
    /\ s < runs[r]
    /\ \/ /\ Fail(<<FileFrame(sofar)>>)
          /\ UNCHANGED <<s, sofar, types, bytes, readTypes>>
       \/ /\ sofar \in children
          /\ \E t \in FileTypes, b \in (IF embedded THEN Bytes \X Bytes ELSE {<<>>}) :
               /\ types' = Append(types, t)
               /\ readTypes' = Append(readTypes, t)
               /\ bytes' = IF embedded THEN Append(bytes, b) ELSE bytes
               /\ s' = s + 1
               /\ sofar' = sofar + 1
          /\ UNCHANGED <<pc, err>>
    /\ UNCHANGED <<version, embedded, formats, multi_matrix, children, runs,
                   sampleNames, r, multi_sample>>

\* End of run r: check its types against its format, then go to the next run.
CheckRunTypes ==
    /\ pc = "run"
    /\ s >= runs[r]
    /\ IF FormatAccepts(formats[r], types)
         THEN EnterRun(r + 1, runs) /\ UNCHANGED err
         ELSE Fail(<<>>) /\ UNCHANGED <<r, s, types>>
    /\ UNCHANGED <<version, embedded, formats, multi_matrix, children, runs,
                   sampleNames, sofar, bytes, multi_sample, readTypes>>

\* Embedded files must be sorted and contiguous.
CheckBytes ==
    /\ pc = "bytes"
    /\ IF ~embedded \/ ContiguousFrom(bytes, 0)
         THEN pc' = "factor" /\ UNCHANGED err
         ELSE Fail(<<>>)
    /\ UNCHANGED <<version, embedded, formats, multi_matrix, children, runs,
                   sampleNames, r, s, sofar, types, bytes, multi_sample, readTypes>>

\* A single matrix with a string 'sample_factor' holds several samples.
ReadSampleFactor ==
    /\ pc = "factor"
    /\ \/ /\ multi_matrix
          /\ multi_sample' = TRUE
          /\ pc' = "done"
          /\ UNCHANGED err
       \/ /\ ~multi_matrix
          /\ \E present \in BOOLEAN :
               /\ multi_sample' = present
               /\ pc' = "done"
               /\ UNCHANGED err
       \/ /\ ~multi_matrix
          /\ Fail(<<>>)
          /\ UNCHANGED multi_sample
    /\ UNCHANGED <<version, embedded, formats, multi_matrix, children, runs,
                   sampleNames, r, s, sofar, types, bytes, readTypes>>

Next ==
    \/ ReadFormat
    \/ OpenFiles
    \/ ReadSampleGroups
    \/ ReadSampleNames
    \/ ReadFile
    \/ CheckRunTypes
    \/ CheckBytes
    \/ ReadSampleFactor

Spec == Init /\ [][Next]_vars

-----------------------------------------------------------------------------
(***************************************************************************)
(* Properties                                                              *)
(***************************************************************************)
\* The exact sum of a sequence of integers.
SumSeq(q) == FoldLeft(+, 0, q)

\* First global position of run k: the counts of the runs before it.
RunStart(k) == SumSeq(SubSeq(runs, 1, k - 1))

\* Types of the files that 'sample_groups' assigns to run k.
RunTypes(k) == SubSeq(readTypes, RunStart(k) + 1, RunStart(k) + runs[k])

\* Byte interval [offset, offset + size) of the k-th file, as integers.
Interval(k) == bytes[k][1] .. (bytes[k][1] + bytes[k][2] - 1)

TypeOK ==
    /\ version \in Versions
    /\ embedded \in BOOLEAN
    /\ pc \in {"format", "files", "groups", "names", "run", "bytes", "factor",
              "done", "failed"}
    /\ formats \in Seq(Formats)
    /\ multi_matrix \in BOOLEAN
    /\ children \subseteq FileNames
    /\ runs \in Seq(Int)
    /\ sampleNames \in Seq(SampleNames)
    /\ r \in Nat /\ s \in Nat /\ sofar \in Nat
    /\ types \in Seq(FileTypes)
    /\ bytes \in Seq(Bytes \X Bytes)
    /\ multi_sample \in BOOLEAN
    /\ readTypes \in Seq(FileTypes)
    /\ err \in Seq([scope : {"file"}, index : Nat])

\* Accepted parameters partition 'files' into the runs of 'sample_groups':
\* no run has a negative count, and the children of 'files' are exactly the
\* positions 0..nfiles-1, every one of which was read and type-checked
\* (validate_parameters, the sum check and the file loop together).
RunsPartitionFiles ==
    pc = "done" =>
        /\ \A k \in DOMAIN runs : runs[k] >= 0
        /\ children = 0 .. (Len(readTypes) - 1)
        /\ embedded => Len(bytes) = Len(readTypes)

\* Accepted parameters give every matrix a file set its format allows, the
\* files of a matrix being those 'sample_groups' assigns to it: for
\* MatrixMarket one mtx and at most one genes and one annotations file, for
\* 10X and H5AD a single h5 file (the per-run type check).
RunTypesConform ==
    pc = "done" =>
        \A k \in DOMAIN runs :
            LET ts == RunTypes(k) IN
            CASE formats[k] = "MatrixMarket" ->
                      /\ IsInjective(ts)
                      /\ "mtx" \in Range(ts)
                      /\ Range(ts) \subseteq MatrixMarketTypes
              [] formats[k] \in {"10X", "H5AD"} -> ts = <<"h5">>
              [] OTHER -> TRUE

\* Spec 4.3 step 6: accepted embedded files never share a byte (any gap or
\* overlap fails), whatever their sizes.
EmbeddedRangesDisjoint ==
    (pc = "done" /\ embedded) =>
        \A j, k \in DOMAIN bytes : j # k => Interval(j) \cap Interval(k) = {}

=============================================================================
