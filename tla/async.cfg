CONSTANT MaxJob = 3
SPECIFICATION FairSpec
INVARIANTS
    TypeOK
    PlannerExclusive
    QuietAfterCancel
    OneLiveThread
    PolledWasCalled
    NothingOutlives
PROPERTIES
    CallsReturn
CHECK_DEADLOCK FALSE
