CONSTANTS
    gather = gather
    build = build
    NoAction = NoAction
    Absent = Absent
    Key <- MCKey
    Action <- MCAction
    Pre <- MCPre
    Eff <- MCEff
    Plan <- MCPlan
    Goal <- MCGoal
    InitWorld <- MCInitWorld
    Write <- MCWrite
    AutoReplan = {TRUE, FALSE}
SPECIFICATION FairSpec
INVARIANTS
    TypeOK
    CurrentActionConsistent
    NoNullWithoutAutoReplan
PROPERTIES
    ActionsFinishInOrder
    EffectsOnlyOnCompletion
    ImplementsLifecycle
    PlanEnds
CHECK_DEADLOCK FALSE
