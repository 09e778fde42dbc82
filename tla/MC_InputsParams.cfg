\* The parameters phase, plain and embedded: runs, per-run types, listed
\* files, and byte ranges with hsize_t stood in by 2 bits.
CONSTANTS
    Versions <- MCVersions
    Embeddings = {FALSE, TRUE}
    Formats <- MCFormats
    FileTypes <- MCFileTypes
    SampleNames <- MCSampleNames
    GroupSizes <- MCGroupSizes
    MaxMatrices = 2
    MaxFiles = 3
    ByteWidth = 2
    IntWidth = 3
    Stray = Stray
SPECIFICATION Spec
INVARIANT TypeOK RunTypesConform
CHECK_DEADLOCK FALSE
