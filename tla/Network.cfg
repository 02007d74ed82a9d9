SPECIFICATION Spec
INVARIANTS
    TypeOK
    ReceivedAsSent
    DatagramsCounted
    NothingLeaks
    EventsAccounted
    AllRead
PROPERTY Completes
CHECK_DEADLOCK FALSE
