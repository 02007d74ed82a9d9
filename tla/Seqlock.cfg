SPECIFICATION FairSpec
CONSTANT NUpdates = 5
INVARIANTS
    SeqlockInv
    NotTorn
PROPERTIES
    LabelsIncrease
    Completes
