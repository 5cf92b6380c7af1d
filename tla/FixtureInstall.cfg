SPECIFICATION FairSpec
CONSTANTS
    Trays <- TwoTrays
    Installs <- FourIds
    IdKinds <- BothKinds
    MaxTroubles = 2
INVARIANT MarkedIsFitted
PROPERTY EveryInstallAnswered
CHECK_DEADLOCK FALSE
