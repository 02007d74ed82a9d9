SPECIFICATION Spec
INVARIANTS
    TypeOK
    CollectedOnce
    FilesRight
    LockedOut
PROPERTIES
    Completes
CHECK_DEADLOCK FALSE
