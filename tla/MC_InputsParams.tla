-------------------------- MODULE MC_InputsParams ---------------------------
(* Instantiates InputsParams for TLC.  Versions straddle the 1.1 boundary  *)
(* at which an array 'format' becomes legal; three file positions allow    *)
(* two runs with a MatrixMarket pair in one of them.                       *)
EXTENDS InputsParams

MCVersions == {1000000, 1001000}
MCFormats == {"MatrixMarket", "10X", "custom"}
MCFileTypes == {"mtx", "genes", "h5"}
MCSampleNames == {"a", "b"}
MCGroupSizes == {-4} \cup (-1 .. 2)

\* Embedded layouts: one file type keeps the byte ranges the only variation.
MCByteFormats == {"10X", "custom"}
MCByteFileTypes == {"h5"}
MCByteGroupSizes == 0 .. 3

\* The int sum of 'sample_groups': INT_MIN of a 3-bit int, and small counts.
MCSumGroupSizes == {-4, -3, 0, 1}
=============================================================================
