\* The embedding-combination stage: weights all-or-nothing, 'combined' when multimodal;
\* under weak fairness it refines ValidatorContract.
CONSTANTS
    Versions <- MCVersions
    CellCounts <- MCCellCounts
    DimCounts <- MCDimCounts
    ModalityNames <- MCModalityNames
    Stray = Stray
    Extents <- MCExtents
    SizeTMod = 65536
SPECIFICATION LiveSpec
INVARIANT TypeOK CombinationComplete
PROPERTY ContractRefined
CHECK_DEADLOCK FALSE
