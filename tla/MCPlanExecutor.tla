--------------------------- MODULE MCPlanExecutor ---------------------------
(* PlanExecutor over two boolean keys, two actions of which the second needs *)
(* the effect of the first, and every plan of at most two of them.           *)
EXTENDS PlanExecutor

CONSTANTS gather, build

Bool(b) == [type |-> "bool", val |-> b]

MCKey == {"wood", "hut"}
MCAction == {gather, build}

Map(wood, hut) == [k \in MCKey |-> IF k = "wood" THEN wood ELSE hut]

\* gather stops when the hut stands; build needs gather's effect and uses it up.
MCPre == [a \in MCAction |->
    IF a = gather
    THEN Map(Absent, [value |-> Bool(1), op |-> "NotEqual"])
    ELSE Map([value |-> Bool(1), op |-> "Equal"], Absent)]

MCEff == [a \in MCAction |->
    IF a = gather THEN Map(Bool(1), Absent) ELSE Map(Bool(0), Bool(1))]

MCPlan == {<<>>, <<gather>>, <<gather, build>>, <<gather, gather>>}
MCGoal == {Map(Absent, Bool(1))}
MCInitWorld == Map(Bool(0), Bool(0))
MCWrite == {Map(Bool(0), Absent), Map(Bool(1), Absent), Map(Absent, Bool(0))}
=============================================================================
