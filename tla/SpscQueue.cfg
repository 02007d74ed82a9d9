SPECIFICATION FairSpec
CONSTANTS
    Capacity = 8
    N = 20
INVARIANTS
    NoDataRace
    InOrder
PROPERTIES
    ImplementsFifo
    AllDelivered
