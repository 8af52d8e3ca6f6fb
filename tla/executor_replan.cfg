CONSTANTS
    gather = gather
    build = build
    NoAction = NoAction
    Absent = Absent
    Key <- MCKey
    Action <- MCAction
    Pre <- MCPre
    Eff <- MCEff
    Plan <- MCPlan
    Goal <- MCGoal
    InitWorld <- MCInitWorld
    Write <- MCWrite
    AutoReplan = {TRUE, FALSE}
SPECIFICATION Spec
PROPERTY ReplanOnLostPreconditions
CHECK_DEADLOCK FALSE
