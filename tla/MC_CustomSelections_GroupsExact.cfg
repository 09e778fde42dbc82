\* Spec 4.4: each selection group holds exactly one child per modality.
CONSTANTS
    Versions <- MCVersions
    CellCounts <- MCCellCounts
    FeatureCounts <- MCFeatureCounts
    ModalityOrder <- MCModalityOrder
    SelOrder <- MCSelOrder
    Stray = Stray
    IndexValues <- MCIndexValues
    MaxSelLen = 1
    Extents <- MCExtents
    SizeTMod = 65536
SPECIFICATION Spec
INVARIANT SelectionGroupsExactlyModalities
CHECK_DEADLOCK FALSE
