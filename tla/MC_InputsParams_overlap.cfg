\* Spec 4.3 step 6 against the hsize_t arithmetic of the contiguity check.
CONSTANTS
    Versions = {1001000}
    Embeddings = {TRUE}
    Formats <- MCByteFormats
    FileTypes <- MCByteFileTypes
    SampleNames <- MCSampleNames
    GroupSizes <- MCByteGroupSizes
    MaxMatrices = 2
    MaxFiles = 3
    ByteWidth = 2
    IntWidth = 3
    Stray = Stray
SPECIFICATION Spec
INVARIANT EmbeddedRangesDisjoint
CHECK_DEADLOCK FALSE
