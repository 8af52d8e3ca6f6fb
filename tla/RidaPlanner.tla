---------------------------- MODULE RidaPlanner ----------------------------
(***************************************************************************)
(* rida_planner::plan and its regressive iterative deepening search        *)
(* (src/src/rida_planner.cpp), with the heuristics of heuristics.h and the *)
(* transposition table it keeps between calls.                             *)
(*                                                                         *)
(* The search works backwards: it regresses one shared goal through        *)
(* actions, in place, and takes every regression back from an undo log     *)
(* when the recursive call returns false.  The recursion is the sequence   *)
(* stack of its active calls; the call about to be made, or just returned, *)
(* is told by phase.                                                       *)
(***************************************************************************)
EXTENDS Heuristics, TranspositionTable

CONSTANTS Action, Pre, Eff,     \* goap_action: preconditions, effects
          Cost,                 \* and cost
          Problem,              \* the calls of plan() that may be made
          MaxCalls,             \* the number of them (bound of the model)
          MaxRival,             \* the length of the plans a plan is compared with
          MaxInt                \* numeric_limits::max(): no next bound, no limit

\* initial_state, goal_state, available_actions, heuristic and options of plan();
\* timed: there is a time budget or a cancel token.
Call == [start : State, goal : State, available : SUBSET Action,
         heuristic : Heuristic, maxDepth : Nat, maxNodes : Nat,
         timed : BOOLEAN, useTable : BOOLEAN, tableSize : Nat]

ASSUME PlannerAssumption ==
    /\ Pre \in [Action -> Conditions] /\ Eff \in [Action -> State]
    /\ Cost \in [Action -> Nat]
    /\ Problem \subseteq Call /\ Problem # {}
    /\ MaxCalls \in Nat /\ MaxRival \in Nat /\ MaxInt \in Nat

ASSUME FiniteAssumption == IsFiniteSet(Action)

VARIABLES problem,      \* the arguments of the call
          actions,      \* usable_actions, sorted
          due,          \* the time budget has elapsed or a stop was requested
          phase,        \* where the search is
          goal,         \* current_goal, shared by all calls of the recursion
          plan,         \* the actions regressed through, the last one first to run
          stack,        \* the active calls of regressive_ida_search
          bound, nextBound,
          table,        \* transpos_table
          nodes,        \* nodes_expanded, not counted in a call without a limit
          failure,      \* failure_reason
          result,       \* plan_result of the last call
          calls         \* calls of plan() so far

arguments == <<problem, actions, calls>>
search == <<goal, plan, stack>>
limits == <<bound, nextBound>>
context == <<nodes, failure>>
vars == <<arguments, due, phase, search, limits, table, context, result>>

Phase == {"idle", "enter", "loop", "back", "found"}

Status == {"Success", "NoSolutionExists", "TimedOut", "DepthLimitReached",
           "NodeLimitReached"}

\* A call in its loop: accumulated_cost, total_cost, the next action, the undo
\* log of its guard, and the goal it was entered with (kept for the properties).
Frame == [cost : Nat, total : Nat, next : Nat, undo : [keys : SUBSET Key, old : State],
          entry : State]

NoUndo == [keys |-> {}, old |-> EmptyState]

NoResult == [status |-> "none", actions |-> <<>>, cost |-> 0]

-----------------------------------------------------------------------------
(* Regression of a goal through an action *)

\* Mutant of IsRelevant: every effect has to be wanted.
RelevantIfAll(a, g) == \A k \in Keys(Eff[a]) : Eff[a][k] = g[k]

\* is_action_relevant
IsRelevant(a, g) == \E k \in Keys(g) : Eff[a][k] = g[k]

\* Mutant of HasConflict: no precondition conflicts.
NoConflict(a, g) == FALSE

\* has_precondition_conflict
HasConflict(a, g) ==
    \E k \in Keys(Pre[a]) \cap Keys(g) :
        Eff[a][k] = Absent /\ ~Evaluate(Pre[a][k], g, k)

Equalities(a) == {k \in Keys(Pre[a]) : Pre[a][k].op = "Equal"}

\* apply() takes the effects out of the goal and puts the equalities in.
Regress(a, g) ==
    [k \in Key |-> IF k \in Equalities(a) THEN Pre[a][k].value
                   ELSE IF Eff[a][k] # Absent THEN Absent ELSE g[k]]

\* apply() returns true: every other precondition holds of the goal, or of the
\* initial state at a key that the goal does not have.
Applies(a, g, w) ==
    \A k \in Keys(Pre[a]) \ Equalities(a) :
        LET against == IF Regress(a, g)[k] # Absent THEN Regress(a, g) ELSE w
        IN  Evaluate(Pre[a][k], against, k)

\* undo_log: what the goal has, or does not have, at some keys.
Logged(keys, g) ==
    [keys |-> keys, old |-> [k \in Key |-> IF k \in keys THEN g[k] ELSE Absent]]

\* Mutant of UndoLog: the keys the preconditions set are not logged.
UndoEffectsOnly(a, g) == Logged(Keys(Eff[a]), g)

\* apply() logs every key that it changes.
UndoLog(a, g) == Logged(Keys(Eff[a]) \cup Equalities(a), g)

Rollback(g, undo) == [k \in Key |-> IF k \in undo.keys THEN undo.old[k] ELSE g[k]]

-----------------------------------------------------------------------------
(* plan() *)

Init ==
    /\ problem = (CHOOSE p \in Problem : TRUE) /\ actions = <<>> /\ calls = 0
    /\ due = FALSE /\ phase = "idle"
    /\ goal = EmptyState /\ plan = <<>> /\ stack = <<>>
    /\ bound = 0 /\ nextBound = MaxInt
    /\ table = EmptyTable /\ nodes = 0 /\ failure = "Success"
    /\ result = NoResult

\* std::ranges::sort by cost: the order of actions of equal cost is not fixed.
SortedByCost(S) ==
    {s \in SetToSeqs(S) : \A i, j \in DOMAIN s : i < j => Cost[s[i]] <= Cost[s[j]]}

\* clear()
Fresh(useTable, t) == IF useTable THEN EmptyTable ELSE t

\* The locals of a call go out of scope.
Return(r) ==
    /\ phase' = "idle" /\ result' = r
    /\ goal' = EmptyState /\ plan' = <<>> /\ stack' = <<>>
    /\ bound' = 0 /\ nextBound' = MaxInt /\ due' = FALSE

\* usable are the available actions whose can_run answers true.
CallPlan ==
    /\ phase = "idle" /\ calls < MaxCalls /\ calls' = calls + 1
    /\ \E p \in Problem : \E usable \in SUBSET p.available :
        /\ problem' = p
        /\ nodes' = 0 /\ failure' = "Success"
        /\ \/ /\ SatisfiesGoal(p.start, p.goal)
              /\ Return([NoResult EXCEPT !.status = "Success"])
              /\ actions' \in SortedByCost(usable) /\ UNCHANGED table
           \/ /\ ~SatisfiesGoal(p.start, p.goal) /\ usable = {}
              /\ Return([NoResult EXCEPT !.status = "NoSolutionExists"])
              /\ actions' = <<>> /\ UNCHANGED table
           \/ /\ ~SatisfiesGoal(p.start, p.goal) /\ usable # {}
              /\ actions' \in SortedByCost(usable)
              /\ phase' = "enter" /\ result' = NoResult
              /\ goal' = p.goal /\ plan' = <<>> /\ stack' = <<>>
              /\ bound' = Estimate(p.heuristic, p.start, p.goal)
              /\ nextBound' = MaxInt /\ due' = FALSE
              /\ table' = Fresh(p.useTable, table)

\* The first call has returned false: plan() reports a failure or that there is
\* nothing beyond the bound, or raises the bound.
FirstReturned == phase = "back" /\ stack = <<>>

Fail ==
    /\ FirstReturned /\ failure # "Success"
    /\ Return([NoResult EXCEPT !.status = failure])
    /\ UNCHANGED <<arguments, table, context>>

NoSolution ==
    /\ FirstReturned /\ failure = "Success" /\ nextBound = MaxInt
    /\ Return([NoResult EXCEPT !.status = "NoSolutionExists"])
    /\ UNCHANGED <<arguments, table, context>>

\* Mutant of Raised: the bound stays.
NotRaised(next) == bound

Raised(next) == next

Deepen ==
    /\ FirstReturned /\ failure = "Success" /\ nextBound # MaxInt
    /\ bound' = Raised(nextBound) /\ nextBound' = MaxInt
    /\ goal' = problem.goal /\ plan' = <<>> /\ phase' = "enter"
    /\ table' = Fresh(problem.useTable, table)
    /\ UNCHANGED <<arguments, due, stack, context, result>>

\* The cost of the first actions of s, by their number.
Costs(s) ==
    LET sum[i \in 0..Len(s)] == IF i = 0 THEN 0 ELSE sum[i - 1] + Cost[s[i]]
    IN  sum

SumCost(s) == Costs(s)[Len(s)]

\* The true of the innermost call goes up through all of them.
Succeed ==
    /\ phase = "found"
    /\ Return([status |-> "Success", actions |-> Reverse(plan),
                cost |-> SumCost(Reverse(plan))])
    /\ UNCHANGED <<arguments, table, context>>

-----------------------------------------------------------------------------
(* regressive_ida_search: the head of a call *)

Depth == Len(stack)

\* Mutant of Accumulated: the cost of the actions before the last is lost.
LastOnly == IF stack = <<>> THEN 0 ELSE Cost[Last(plan)]

Accumulated == IF stack = <<>> THEN 0 ELSE Last(stack).cost + Cost[Last(plan)]

Total == Estimate(problem.heuristic, problem.start, goal) + Accumulated

\* should_abort: the reason, or Success.
AbortReason ==
    IF problem.timed /\ due THEN "TimedOut"
    ELSE IF Depth > problem.maxDepth THEN "DepthLimitReached"
    ELSE IF nodes >= problem.maxNodes THEN "NodeLimitReached"
    ELSE "Success"

Abort ==
    /\ phase = "enter" /\ AbortReason # "Success"
    /\ failure' = AbortReason /\ phase' = "back"
    /\ UNCHANGED <<arguments, due, search, limits, table, nodes, result>>

\* The goal has failed at no higher cost since the bound was raised.
Known == problem.useTable /\ Holds(table, goal) /\ table.cost[goal] <= Total

\* Mutant of Smaller: the greatest cost beyond the bound is kept.
Greater(next, total) == IF next = MaxInt \/ total > next THEN total ELSE next

Smaller(next, total) == IF total < next THEN total ELSE next

Enter ==
    /\ phase = "enter" /\ AbortReason = "Success"
    /\ nodes' = IF problem.maxNodes = MaxInt THEN nodes ELSE nodes + 1
    /\ table' = IF problem.useTable THEN Lookup(table, goal) ELSE table
    /\ \/ /\ Known
          /\ phase' = "back" /\ UNCHANGED <<stack, nextBound>>
       \/ /\ ~Known /\ Total > bound
          /\ nextBound' = Smaller(nextBound, Total)
          /\ phase' = "back" /\ UNCHANGED stack
       \/ /\ ~Known /\ Total <= bound /\ SatisfiesGoal(problem.start, goal)
          /\ phase' = "found" /\ UNCHANGED <<stack, nextBound>>
       \/ /\ ~Known /\ Total <= bound /\ ~SatisfiesGoal(problem.start, goal)
          /\ stack' = Append(stack, [cost |-> Accumulated, total |-> Total, next |-> 1,
                                     undo |-> NoUndo, entry |-> goal])
          /\ phase' = "loop" /\ UNCHANGED nextBound
    /\ UNCHANGED <<arguments, due, goal, plan, bound, failure, result>>

-----------------------------------------------------------------------------
(* regressive_ida_search: the loop over the actions *)

Top == Last(stack)

ReplaceTop(f) == Append(Front(stack), f)

InLoop == phase = "loop" /\ Top.next <= Len(actions)

\* Mutant of NextAction: an action is passed over.
NextButOne(f) == [f EXCEPT !.next = @ + 2]

NextAction(f) == [f EXCEPT !.next = @ + 1]

Usable(a) == IsRelevant(a, goal) /\ ~HasConflict(a, goal) /\ Applies(a, goal, problem.start)

\* continue; a guard whose apply() fails has rolled back what it did.
Skip ==
    /\ InLoop /\ ~Usable(actions[Top.next])
    /\ stack' = ReplaceTop(NextAction(Top))
    /\ UNCHANGED <<arguments, due, phase, goal, plan, limits, table, context, result>>

\* The goal is regressed through the action and the search called on it.
Descend ==
    /\ InLoop
    /\ LET a == actions[Top.next]
       IN  /\ Usable(a)
           /\ stack' = ReplaceTop([Top EXCEPT !.undo = UndoLog(a, goal)])
           /\ goal' = Regress(a, goal) /\ plan' = Append(plan, a)
    /\ phase' = "enter"
    /\ UNCHANGED <<arguments, due, limits, table, context, result>>

\* A call has returned false to one that is in its loop.
Backtrack ==
    /\ phase = "back" /\ stack # <<>>
    /\ goal' = Rollback(goal, Top.undo) /\ plan' = Front(plan)
    /\ stack' = ReplaceTop(NextAction([Top EXCEPT !.undo = NoUndo]))
    /\ phase' = "loop"
    /\ UNCHANGED <<arguments, due, limits, table, context, result>>

\* Every action has been tried.
Exhaust ==
    /\ phase = "loop" /\ Top.next > Len(actions)
    /\ table' = IF problem.useTable
                THEN Store(table, problem.tableSize, goal, Top.total) ELSE table
    /\ stack' = Front(stack) /\ phase' = "back"
    /\ UNCHANGED <<arguments, due, goal, plan, limits, context, result>>

\* Time passes, or async_planner requests a stop: neither is taken back.
Expire ==
    /\ phase # "idle" /\ problem.timed /\ ~due /\ due' = TRUE
    /\ UNCHANGED <<arguments, phase, search, limits, table, context, result>>

Step ==
    \/ Fail \/ NoSolution \/ Deepen \/ Succeed
    \/ Abort \/ Enter
    \/ Skip \/ Descend \/ Backtrack \/ Exhaust

Next == CallPlan \/ Step \/ Expire

Spec == Init /\ [][Next]_vars

\* The thread that called plan() goes on until it returns.
FairSpec == Spec /\ WF_vars(Step)

-----------------------------------------------------------------------------
(* Properties *)

TypeOK ==
    /\ problem \in Problem /\ calls \in 0..MaxCalls
    /\ ToSet(actions) \subseteq problem.available
    /\ due \in BOOLEAN /\ phase \in Phase
    /\ goal \in State /\ plan \in Seq(Action)
    /\ stack \in Seq(Frame) /\ \A i \in DOMAIN stack : stack[i].next <= Len(actions) + 1
    /\ bound \in Nat /\ nextBound \in 0..MaxInt
    /\ ToSet(table.order) \subseteq State /\ DOMAIN table.cost \subseteq State
    /\ \A g \in DOMAIN table.cost : table.cost[g] \in Nat
    /\ nodes \in Nat /\ failure \in Status
    /\ result.status \in Status \cup {"none"}

\* current_goal is shared by the whole recursion and taken back by undo logs
\* (rida_planner.cpp:143-209): whenever a call is in its loop the goal is the one
\* it was entered with, and each call was entered with the goal of its caller
\* regressed through the action the caller has put on the plan.
GoalIsRegression ==
    /\ phase = "loop" => /\ goal = Top.entry
                         /\ Len(plan) = Len(stack) - 1
    /\ stack # <<>> => stack[1].entry = problem.goal
    /\ \A i \in 2..Len(stack) :
          stack[i].entry = Regress(plan[i - 1], stack[i - 1].entry)
    /\ (phase = "enter" /\ stack # <<>>) =>
          goal = Regress(Last(plan), Top.entry) /\ Rollback(goal, Top.undo) = Top.entry

\* The list and the map of the table hold the same goals, once each, and in a
\* search that uses the table no more than the limit (transposition_table.cpp:21).
TableInStep ==
    /\ DOMAIN table.cost = ToSet(table.order)
    /\ Len(table.order) = Cardinality(DOMAIN table.cost)
    /\ (phase # "idle" /\ problem.useTable) => Len(table.order) <= problem.tableSize

\* The worlds that the actions of s lead to from w.
Worlds(w, s) ==
    LET world[i \in 0..Len(s)] ==
            IF i = 0 THEN w ELSE ApplyEffects(Eff[s[i]], world[i - 1])
    IN  world

\* Running a plan forward, as the executor would: an action whose preconditions
\* do not hold stops it.
Reaches(s) ==
    /\ \A i \in DOMAIN s : CheckPreconditions(Pre[s[i]], Worlds(problem.start, s)[i - 1])
    /\ SatisfiesGoal(Worlds(problem.start, s)[Len(s)], problem.goal)

\* What is left of the goal g when the last actions of s are regressed through,
\* by their number.
Regressed(g, s) ==
    LET left[j \in 0..Len(s)] ==
            IF j = 0 THEN g ELSE Regress(s[Len(s) + 1 - j], left[j - 1])
    IN  left

\* ... the actions of s after the i-th.
OpenGoal(s, i) == Regressed(problem.goal, s)[Len(s) - i]

\* An effect of an action of s is against what the actions after it, or the goal, need.
Spoils(s) ==
    \E i \in DOMAIN s : \E k \in Keys(OpenGoal(s, i)) :
        Eff[s[i]][k] \notin {Absent, OpenGoal(s, i)[k]}

\* An action of s writes a key that a later one compares otherwise than by Equal.
Shifts(s) ==
    \E i, j \in DOMAIN s : i < j /\
        \E k \in Keys(Pre[s[j]]) \ Equalities(s[j]) : Eff[s[i]][k] # Absent

\* A plan that is returned runs and reaches the goal, with two exceptions of the
\* regression (rida_planner.cpp:92-190): effects taken out of the goal although
\* they contradict it, and comparisons made with the initial state.
PlanReaches ==
    result.status = "Success" =>
        Reaches(result.actions) \/ Spoils(result.actions) \/ Shifts(result.actions)

\* No action that may run writes a key that another compares otherwise than by Equal.
ComparesConstants ==
    \A a, b \in ToSet(actions) : \A k \in Keys(Pre[a]) \ Equalities(a) : Eff[b][k] = Absent

\* Every plan of the actions that may run, up to a length.
Rival == UNION {[1..n -> ToSet(actions)] : n \in 0..MaxRival}

\* On the way of every plan the estimate of what is left to be reached never
\* exceeds the cost of reaching it.
Admissible ==
    \A s \in Rival : Reaches(s) =>
        \A i \in 0..Len(s) :
            Estimate(problem.heuristic, problem.start, OpenGoal(s, i)) <= Costs(s)[i]

\* An action is paid for what it takes off an estimate: an effect for the count, the
\* length of its way for a distance.  The way has to lead between positions of as many
\* dimensions: the heuristics leave out what one of two positions lacks
\* (heuristics.h:75), and of three points of 1, 2 and 1 dimensions the third may be far
\* from the first although the second is near to both.
PaidFor(h, a) ==
    CASE h.kind = "zero"       -> TRUE
      [] h.kind = "goal_count" -> Cost[a] >= Cardinality(Keys(Eff[a]))
      [] OTHER -> Eff[a][h.key] # Absent =>
            /\ h.key \in Equalities(a)
            /\ LET from == Position([EmptyState EXCEPT ![h.key] = Pre[a][h.key].value], h.key)
                   to == Position(Eff[a], h.key)
               IN  /\ DOMAIN from = DOMAIN to
                   /\ IF h.kind = "euclidean"
                      THEN Square(Cost[a] * Grain) >= SumFunction(Squares(from, to))
                      ELSE Cost[a] * Grain >= SumFunction(Steps(from, to))

Paid(h) == \A a \in ToSet(actions) : PaidFor(h, a)

\* ... and in a composite the weights of parts that are come to no more than 1.0.
AllPaid(h) ==
    IF h.kind # "composite" THEN Paid(h)
    ELSE /\ \A i \in DOMAIN h.parts : Paid(h.parts[i].of)
         /\ SumFunction([i \in DOMAIN h.parts |-> h.parts[i].weight]) <= WeightGrain

\* The heuristics of the library are admissible for actions that are paid for what
\* they do.  For a composite it is the sum of the weights that matters: with
\* weights of 1.0 each, which heuristics.h:119 has nothing against, two admissible
\* heuristics may make one that is not.
EstimatesAreAdmissible ==
    (result.status = "Success" /\ ComparesConstants /\ AllPaid(problem.heuristic)) => Admissible

\* With an admissible heuristic no plan is cheaper than the one returned, whatever
\* was pruned by the table, cut by a limit or found while the time ran out
\* (Documentation.md:351, "admissible heuristics preserve optimality").
PlanIsCheapest ==
    (result.status = "Success" /\ Admissible /\ ComparesConstants) =>
        \A s \in Rival : Reaches(s) => SumCost(s) >= result.cost

\* NoSolutionExists is the answer only if "No action sequence satisfies the goal"
\* (plan_result.h:17), where comparisons do not depend on what actions do.
NoSolutionIsRight ==
    (result.status = "NoSolutionExists" /\ ComparesConstants) =>
        \A s \in Rival : ~Reaches(s)

\* The recursion goes no deeper than the bound when every action that may run
\* costs something, so that a round of the search ends although actions undo
\* each other and no depth or node limit is set (rida_planner.cpp:262-299).
RecursionIsBounded ==
    (\A a \in ToSet(actions) : Cost[a] > 0) => Len(stack) <= bound + 1

\* A call of plan() returns.
PlanReturns == (phase # "idle") ~> (phase = "idle")

-----------------------------------------------------------------------------
(* What the documents say of the planner *)

\* Documentation.md:6, the search is "to find action sequences that satisfy
\* high-level goals": a plan that is returned runs and reaches the goal.
PlanReachesGoal == result.status = "Success" => Reaches(result.actions)
=============================================================================
