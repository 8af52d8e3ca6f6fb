---------------------------- MODULE MCGoapAgent ----------------------------
(* GoapAgent over two boolean keys, two actions of which the second needs the *)
(* effect of the first, and two motives, one for each key.                    *)
EXTENDS GoapAgent

CONSTANTS gather, build, stock, shelter

Bool(b) == [type |-> "bool", val |-> b]

MCKey == {"wood", "hut"}
MCAction == {gather, build}
MCMotive == {stock, shelter}

Map(wood, hut) == [k \in MCKey |-> IF k = "wood" THEN wood ELSE hut]

MCPre == [a \in MCAction |->
    IF a = gather THEN EmptyState
    ELSE Map([value |-> Bool(1), op |-> "Equal"], Absent)]

MCEff == [a \in MCAction |->
    IF a = gather THEN Map(Bool(1), Absent) ELSE Map(Bool(0), Bool(1))]

MCPlan == {<<>>, <<gather>>, <<gather, build>>}

MCGoalOf == [m \in MCMotive |-> IF m = stock THEN Map(Bool(1), Absent) ELSE Map(Absent, Bool(1))]
MCGoal == {MCGoalOf[m] : m \in MCMotive}
MCNameOf == [m \in MCMotive |-> m]
MCFirstMotives == <<stock, shelter>>
MCFirstPriority == [m \in MCMotive |-> IF m = stock THEN 1 ELSE 2]

\* Wood that is known to be gone is wanted most; there is no telling what a stock
\* is worth where nobody knows of any.
MCUtility(p, m, w) ==
    CASE m = stock /\ w["wood"] = Bool(0) -> 3
      [] m = stock /\ w["wood"] = Absent  -> NoUtility
      [] OTHER                            -> p

AgentConfig(replans, skips, interval, synchronous) ==
    [replanOnWorldChange |-> replans, skipReplanSameGoal |-> skips,
     goalRecheckInterval |-> interval, maxConsecutiveFailures |-> 2,
     synchronousPlanning |-> synchronous]

MCAsync == AgentConfig(TRUE, TRUE, 0, FALSE)
MCSync == AgentConfig(TRUE, TRUE, 2, TRUE)
MCSteady == AgentConfig(FALSE, FALSE, 0, FALSE)
MCConfig == {MCAsync, MCSync, MCSteady}
MCQuiet == {MCAsync, [MCSync EXCEPT !.goalRecheckInterval = 1]}
MCRare == {MCSync}
MCPatient == {[MCAsync EXCEPT !.maxConsecutiveFailures = 3]}

MCWorld == {Map(Absent, Bool(0))}
MCWrite == {Map(Bool(0), Absent), Map(Bool(1), Absent)}
MCLoss == {Map(Bool(0), Absent)}
MCGain == {Map(Bool(1), Absent)}
=============================================================================
