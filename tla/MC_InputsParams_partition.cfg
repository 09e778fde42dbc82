\* The sum check of 'sample_groups' against int arithmetic: do accepted
\* parameters still partition 'files' into the runs?
CONSTANTS
    Versions = {1001000}
    Embeddings = {FALSE}
    Formats <- MCByteFormats
    FileTypes <- MCByteFileTypes
    SampleNames <- MCSampleNames
    GroupSizes <- MCSumGroupSizes
    MaxMatrices = 2
    MaxFiles = 2
    ByteWidth = 2
    IntWidth = 3
    Stray = Stray
SPECIFICATION Spec
INVARIANT RunsPartitionFiles
CHECK_DEADLOCK FALSE
