\* The custom-selections stage: index ranges and one statistics group per
\* selection and modality; under weak fairness it refines ValidatorContract.
CONSTANTS
    Versions <- MCVersions
    CellCounts <- MCCellCounts
    FeatureCounts <- MCFeatureCounts
    ModalityOrder <- MCModalityOrder
    SelOrder <- MCSelOrder
    Stray = Stray
    IndexValues <- MCIndexValues
    MaxSelLen = 1
    Extents <- MCExtents
    SizeTMod = 65536
SPECIFICATION LiveSpec
INVARIANT TypeOK AcceptedSelectionsConsistent
PROPERTY ContractRefined
CHECK_DEADLOCK FALSE
