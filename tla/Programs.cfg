SPECIFICATION Spec
INVARIANTS
    TypeOK
    ResumedOnce
    CoroutinesRight
    ControlInTurn
    ResultsRight
    SharedRight
    NobodyTooEarly
    NoDeadlock
    ComputesRight
    StoredRight
PROPERTY Completes
CHECK_DEADLOCK FALSE
