--------------------------- MODULE MCRidaPlanner ---------------------------
(* RidaPlanner in a world of an armed guard: actions that undo each other, one *)
(* that reaches two goals at once, one with a comparison, one without a cost,  *)
(* and a walk by way of the gate or straight across.                           *)
EXTENDS RidaPlanner

CONSTANTS draw, sheathe, slash, brawl, earn, bribe, leave, arrive, cross

Bool(b) == [type |-> "bool", val |-> b]
Coins(n) == [type |-> "int", val |-> n]
Spot(n) == [type |-> "vector", val |-> n]

MCKey == {"armed", "safe", "coins", "place"}
MCAction == {draw, sheathe, slash, brawl, earn, bribe, leave, arrive, cross}

\* Home (0.0, 0.0), the gate (2.5, 0.0) and the well (2.5, 2.5), in halves.
MCCoordinates == <<<<0, 0>>, <<5, 0>>, <<5, 5>>>>
Home == Spot(1)
Gate == Spot(2)
Well == Spot(3)

Nothing == [k \in MCKey |-> Absent]
Map(armed, safe, coins) ==
    [Nothing EXCEPT !["armed"] = armed, !["safe"] = safe, !["coins"] = coins]
At(place) == [Nothing EXCEPT !["place"] = place]

Is(v) == [value |-> v, op |-> "Equal"]
Above(v) == [value |-> v, op |-> "Greater"]

MCPre == (draw    :> Map(Is(Bool(0)), Absent, Absent)
       @@ sheathe :> Map(Is(Bool(1)), Absent, Absent)
       @@ slash   :> Map(Is(Bool(1)), Is(Bool(0)), Absent)
       @@ brawl   :> Nothing
       @@ earn    :> Map(Absent, Absent, Is(Coins(0)))
       @@ bribe   :> Map(Absent, Absent, Above(Coins(0)))
       @@ leave   :> At(Is(Home))
       @@ arrive  :> At(Is(Gate))
       @@ cross   :> At(Is(Home)))

MCEff == (draw    :> Map(Bool(1), Absent, Absent)
       @@ sheathe :> Map(Bool(0), Absent, Absent)
       @@ slash   :> Map(Absent, Bool(1), Absent)
       @@ brawl   :> Map(Bool(0), Bool(1), Absent)
       @@ earn    :> Map(Absent, Absent, Coins(1))
       @@ bribe   :> Map(Absent, Bool(1), Coins(0))
       @@ leave   :> At(Gate)
       @@ arrive  :> At(Well)
       @@ cross   :> At(Well))

\* Crossing costs its length rounded up, less than the way of a grid.
MCCost == draw :> 1 @@ sheathe :> 0 @@ slash :> 1 @@ brawl :> 3 @@ earn :> 1 @@ bribe :> 1
       @@ leave :> 3 @@ arrive :> 3 @@ cross :> 4

\* Goals of one and of two parts, and a start that each of the two sets of
\* actions makes something of.
MCGoal == {Map(Absent, Bool(1), Absent), Map(Bool(0), Bool(1), Absent),
           Map(Bool(1), Bool(1), Absent)}
Unarmed == Map(Bool(0), Bool(0), Coins(0))
Rich == Map(Bool(1), Bool(0), Coins(1))
Afar == [Unarmed EXCEPT !["place"] = Home]

Plain == [kind : {"zero", "goal_count"}]
Count == [kind |-> "goal_count"]
Zero == [kind |-> "zero"]
Line == [kind |-> "euclidean", key |-> "place"]
Grid == [kind |-> "manhattan", key |-> "place"]
Part(h, weight) == [of |-> h, weight |-> weight]
Mixed == {[kind |-> "composite", parts |-> p] :
            p \in {<<>>, <<Part(Count, 1), Part(Line, 1)>>, <<Part(Count, 2), Part(Line, 2)>>}}

Asked(s, g, av, h, depth, nodesLimit, timed, useTable, size) ==
    [start |-> s, goal |-> g, available |-> av, heuristic |-> h, maxDepth |-> depth,
     maxNodes |-> nodesLimit, timed |-> timed, useTable |-> useTable, tableSize |-> size]

\* The fighters draw and sheathe: without a node limit a search among them need
\* not end.
Fighters == {draw, sheathe, slash, brawl}
Bribers == {draw, earn, bribe, slash}
Walkers == {leave, arrive, cross, earn}

\* Searches with a table that evicts, then the options one at a time: a depth
\* limit, a stop or a time budget, no table, a table of no size; and the
\* heuristics of position.
MCProblem ==
    {Asked(s, g, Fighters, h, 9, 30, FALSE, TRUE, 2) :
        s \in {Unarmed, Rich}, g \in MCGoal, h \in Plain}
    \cup {Asked(s, g, Bribers, h, 9, MaxInt, FALSE, TRUE, 2) :
        s \in {Unarmed, Rich}, g \in MCGoal, h \in Plain}
    \cup {Asked(Unarmed, g, Fighters, Count, 1, 30, FALSE, TRUE, 9) : g \in MCGoal}
    \cup {Asked(Unarmed, g, Fighters, Zero, 9, 30, TRUE, TRUE, 9) : g \in MCGoal}
    \cup {Asked(Unarmed, Map(Bool(1), Bool(1), Absent), Fighters, Zero, 2, 30, FALSE, FALSE, 9),
          Asked(Rich, Map(Bool(0), Bool(1), Absent), Bribers, Zero, 9, MaxInt, FALSE, TRUE, 0)}
    \cup {Asked(Afar, [At(Well) EXCEPT !["coins"] = Coins(1)], Walkers, h, 9, MaxInt,
                FALSE, TRUE, 2) : h \in {Line, Grid} \cup Mixed}
=============================================================================
