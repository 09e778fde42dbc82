\* Spec 4.3 against the results phase: the 'identities' group holds exactly
\* one array per modality.
CONSTANTS
    Versions <- MCVersions
    MaxMatrices = 2
    Stray = Stray
    ModalityOrder <- MCModalityOrder
    Counts <- MCCounts
    IdValues <- MCIdValues
    MaxIdLen = 2
    SizeTMod = 65536
SPECIFICATION Spec
INVARIANT IdentitiesExactlyModalities
CHECK_DEADLOCK FALSE
