CONSTANTS
    MaxJob = 2
    Goal = {near, far}
    MaxFailures = 2
SPECIFICATION FairAgentSpec
INVARIANTS
    AgentTypeOK
    RacesConfined
    PlanningIsPending
    PlanIsForGoal
    InterruptedIsQuiet
    FailuresBelowLimit
PROPERTY
    GameReturns
CHECK_DEADLOCK FALSE
