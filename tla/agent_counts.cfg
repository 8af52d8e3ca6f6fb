CONSTANTS
    gather = gather
    build = build
    stock = stock
    shelter = shelter
    NoAction = NoAction
    NoMotive = NoMotive
    NoUtility = NoUtility
    Utility <- MCUtility
    Absent = Absent
    Key <- MCKey
    Action <- MCAction
    Motive <- MCMotive
    Pre <- MCPre
    Eff <- MCEff
    Plan <- MCPlan
    Goal <- MCGoal
    NameOf <- MCNameOf
    GoalOf <- MCGoalOf
    Persistent = {stock}
    World <- MCWorld
    Write <- MCWrite
    Priorities = {0}
    MaxMotives = 1
    FirstMotives <- MCFirstMotives
    FirstPriority <- MCFirstPriority
    Config <- MCPatient
SPECIFICATION Spec
INVARIANT FailuresAreSearches
