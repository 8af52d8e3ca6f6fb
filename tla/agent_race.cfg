CONSTANTS
    MaxJob = 2
    Goal = {near, far}
    MaxFailures = 2
SPECIFICATION AgentSpec
INVARIANT NoDataRace
CHECK_DEADLOCK FALSE
