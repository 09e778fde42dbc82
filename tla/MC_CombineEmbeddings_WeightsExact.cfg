\* Spec 4.4: weights holds exactly one scalar per modality.
CONSTANTS
    Versions <- MCVersions
    CellCounts <- MCCellCounts
    DimCounts <- MCDimCounts
    ModalityNames <- MCModalityNames
    Stray = Stray
    Extents <- MCExtents
    SizeTMod = 65536
SPECIFICATION Spec
INVARIANT WeightsExactlyModalities
CHECK_DEADLOCK FALSE
