\* The PCA stage: every read of both phases and the mnn 'corrected' gate;
\* under weak fairness it refines ValidatorContract.
CONSTANTS
    Versions <- MCVersions
    CellCounts <- MCCellCounts
    Counts <- MCCounts
    Methods <- MCMethods
SPECIFICATION LiveSpec
INVARIANT TypeOK
PROPERTY ContractRefined
CHECK_DEADLOCK FALSE
