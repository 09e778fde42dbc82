\* The PCA stage: observed PCs within the request, and the mnn 'corrected' gate.
CONSTANTS
    Versions <- MCVersions
    CellCounts <- MCCellCounts
    Counts <- MCCounts
    Methods <- MCMethods
SPECIFICATION Spec
INVARIANT CorrectedIffMnn
CHECK_DEADLOCK FALSE
