\* Spec 3 on Details against the results phase: DetailsCountsInRange.
CONSTANTS
    Versions <- MCVersions
    MaxMatrices = 2
    Stray = Stray
    ModalityOrder <- MCModalityOrder
    Counts <- MCCounts
    IdValues <- MCIdValues
    MaxIdLen = 2
    SizeTMod = 65536
SPECIFICATION Spec
INVARIANT DetailsCountsInRange
CHECK_DEADLOCK FALSE
