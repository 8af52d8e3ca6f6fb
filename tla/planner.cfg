SPECIFICATION FairSpec
CONSTANTS
    Key <- MCKey
    Absent = Absent
    Coordinates <- MCCoordinates
    Grain = 2
    WeightGrain = 2
    Action <- MCAction
    Pre <- MCPre
    Eff <- MCEff
    Cost <- MCCost
    Problem <- MCProblem
    MaxCalls = 2
    MaxRival = 4
    MaxInt = 1000
    draw = draw
    sheathe = sheathe
    slash = slash
    brawl = brawl
    earn = earn
    bribe = bribe
    leave = leave
    arrive = arrive
    cross = cross
INVARIANTS
    TypeOK
    GoalIsRegression
    TableInStep
    PlanReaches
    EstimatesAreAdmissible
    PlanIsCheapest
    NoSolutionIsRight
    RecursionIsBounded
PROPERTY
    PlanReturns
CHECK_DEADLOCK FALSE
