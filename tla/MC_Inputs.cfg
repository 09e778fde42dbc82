\* validate(): parameters, ParamDump handoff, results; under weak fairness
\* of its steps it refines ValidatorContract; the row identities it accepts
\* are distinct and a legacy permutation is a bijection.
CONSTANTS
    Versions <- MCVersions
    Embeddings = {FALSE}
    Formats <- MCFormats
    FileTypes <- MCFileTypes
    SampleNames <- MCSampleNames
    GroupSizes <- MCGroupSizes
    MaxMatrices = 2
    MaxFiles = 2
    ByteWidth = 1
    IntWidth = 3
    Stray = Stray
    ModalityOrder <- MCModalityOrder
    Counts <- MCCounts
    IdValues <- MCIdValues
    MaxIdLen = 2
    SizeTMod = 65536
SPECIFICATION LiveSpec
INVARIANT SampleCountAgrees RowIdentitiesDistinct PermutationIsBijection
PROPERTY ContractRefined
CHECK_DEADLOCK FALSE
