SPECIFICATION FairSpec
CONSTANTS
    MaxSrcs = 3
    MaxDsts = 3
    PUs = {1, 2, 3}
INVARIANTS
    ThrowsOnlyWithoutDestinations
    EvenShares
    NoJustifiedEnvy
    IInv
PROPERTIES
    SlotsOnlyImprove
    ImplementsCloseSpec
    Termination
CHECK_DEADLOCK FALSE
