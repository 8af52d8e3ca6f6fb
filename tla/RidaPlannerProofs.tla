------------------------- MODULE RidaPlannerProofs -------------------------
(***************************************************************************)
(* Proofs about RidaPlanner for all actions, goals, options and            *)
(* heuristics.                                                             *)
(***************************************************************************)
EXTENDS PlanProofs

-----------------------------------------------------------------------------
(* The actions of a call *)

\* The sorted actions are a sequence of actions that may run.
LEMMA SortedActions ==
    ASSUME NEW usable \in SUBSET Action, NEW s \in SortedByCost(usable)
    PROVE  s \in Seq(Action) /\ ToSet(s) \subseteq usable
  <1>1. IsFiniteSet(usable)
    BY FS_Subset, FiniteAssumption
  <1>2. Cardinality(usable) \in Nat
    BY <1>1, FS_CardinalityType
  <1>3. s \in [1..Cardinality(usable) -> usable]
    BY DEF SortedByCost, SetToSeqs
  <1>4. s \in [1..Cardinality(usable) -> Action]
    BY <1>3
  <1> QED
    BY <1>2, <1>3, <1>4 DEF ToSet

-----------------------------------------------------------------------------
(* Regression *)

\* The undo log takes the regression back, whatever the action sets and takes out.
LEMMA RollbackUndoes ==
    ASSUME NEW a \in Action, NEW g \in State
    PROVE  Rollback(Regress(a, g), UndoLog(a, g)) = g
  <1> DEFINE u == UndoLog(a, g)
  <1>1. u.keys = Keys(Eff[a]) \cup Equalities(a)
    BY DEF UndoLog, Logged
  <1>2. \A k \in Key : k \in u.keys => u.old[k] = g[k]
    BY DEF UndoLog, Logged
  <1>3. \A k \in Key : k \notin u.keys => Regress(a, g)[k] = g[k]
    BY <1>1 DEF Regress, Keys
  <1>4. \A k \in Key : Rollback(Regress(a, g), u)[k] = g[k]
    BY <1>2, <1>3 DEF Rollback
  <1>5. Rollback(Regress(a, g), u) = [k \in Key |-> Rollback(Regress(a, g), u)[k]]
    BY DEF Rollback
  <1> QED
    BY <1>4, <1>5 DEF State

\* An undo log is of the type a frame keeps.
LEMMA UndoTyped ==
    ASSUME NEW a \in Action, NEW g \in State
    PROVE  UndoLog(a, g) \in [keys : SUBSET Key, old : State]
  BY DEF UndoLog, Logged, Keys, Equalities, State


-----------------------------------------------------------------------------
(* The inductive invariant of the recursion *)

\* A frame, which numbers its actions from one.
AnyFrame == [cost : Nat, total : Nat, next : Nat \ {0},
             undo : [keys : SUBSET Key, old : State], entry : State]

\* The types of what the calls share, and the actions on the plan are ones that may run.
Typed ==
    /\ problem \in Problem /\ phase \in Phase /\ goal \in State
    /\ actions \in Seq(Action) /\ plan \in Seq(Action) /\ stack \in Seq(AnyFrame)
    /\ \A i \in 1..Len(plan) : plan[i] \in ToSet(actions)

\* A call that is in its loop, the innermost one, has put no action on the plan.
Depths ==
    /\ phase = "idle" => stack = <<>>
    /\ phase = "loop" => stack # <<>> /\ Len(plan) = Len(stack) - 1
    /\ phase # "loop" => Len(plan) = Len(stack)

\* The goal between calls, in a loop, and on entering or leaving a call.
Goals ==
    /\ phase = "loop" => goal = Top.entry
    /\ (phase \in {"enter", "back", "found"} /\ stack # <<>>) =>
           goal = Regress(Last(plan), Top.entry)
    /\ (phase \in {"enter", "back", "found"} /\ stack = <<>>) => goal = problem.goal

\* Each call was entered with the goal of its caller regressed through the
\* action that the caller put on the plan.
Chained ==
    /\ stack # <<>> => stack[1].entry = problem.goal
    /\ \A i \in 2..Len(stack) : stack[i].entry = Regress(plan[i - 1], stack[i - 1].entry)

\* Each call that waits has the undo log of its action.
Undone == \A i \in 1..Len(plan) : stack[i].undo = UndoLog(plan[i], stack[i].entry)

SearchInv == Typed /\ Depths /\ Goals /\ Chained /\ Undone

\* A call of plan() that has no recursion on its stack.
LEMMA NoRecursion ==
    ASSUME SearchInv, problem' \in Problem, actions' \in Seq(Action), phase' \in {"idle", "enter"},
           plan' = <<>>, stack' = <<>>, goal' \in State, phase' = "enter" => goal' = problem'.goal
    PROVE  SearchInv'
  <1>1. <<>> \in Seq(Action) /\ <<>> \in Seq(AnyFrame) /\ Len(<<>>) = 0
    BY EmptySeq
  <1>2. Typed'
    BY <1>1 DEF Typed, Phase
  <1>3. Depths' /\ Goals'
    BY <1>1 DEF Depths, Goals
  <1>4. Chained' /\ Undone'
    BY <1>1 DEF Chained, Undone
  <1> QED
    BY <1>2, <1>3, <1>4 DEF SearchInv

\* A step that leaves the recursion alone and ends outside of a loop.
LEMMA SameRecursion ==
    ASSUME SearchInv, UNCHANGED <<problem, actions, search>>,
           \/ phase' = phase
           \/ phase = "enter" /\ phase' \in {"back", "found"}
    PROVE  SearchInv'
  <1>1. /\ problem' = problem /\ actions' = actions
        /\ goal' = goal /\ plan' = plan /\ stack' = stack
    BY DEF search
  <1>2. Typed'
    BY <1>1 DEF SearchInv, Typed, Phase
  <1>3. Depths'
    BY <1>1 DEF SearchInv, Depths
  <1>4. Goals'
    BY <1>1 DEF SearchInv, Goals, Top
  <1>5. Chained' /\ Undone'
    BY <1>1 DEF SearchInv, Chained, Undone
  <1> QED
    BY <1>2, <1>3, <1>4, <1>5 DEF SearchInv

\* The arguments of a call that plan() may be asked for.
LEMMA ProblemTyped ==
    ASSUME NEW p \in Problem
    PROVE  /\ p.goal \in State /\ p.start \in State /\ p.available \subseteq Action
           /\ p.maxDepth \in Nat /\ p.tableSize \in Nat /\ p.heuristic \in Heuristic
  BY PlannerAssumption DEF Call

\* No world has a key.
LEMMA EmptyStateTyped == EmptyState \in State
  BY DEF EmptyState, State

-----------------------------------------------------------------------------
(* Steps that leave the recursion *)

\* The recursion has not begun.
LEMMA InitSearch == Init => SearchInv
  <1> SUFFICES ASSUME Init PROVE SearchInv
    OBVIOUS
  <1>1. <<>> \in Seq(Action) /\ <<>> \in Seq(AnyFrame) /\ Len(<<>>) = 0
    BY EmptySeq
  <1>2. problem \in Problem
    BY PlannerAssumption DEF Init
  <1>3. Typed
    BY <1>1, <1>2, EmptyStateTyped DEF Init, Typed, Phase
  <1>4. Depths /\ Goals /\ Chained /\ Undone
    BY <1>1 DEF Init, Depths, Goals, Chained, Undone
  <1> QED
    BY <1>3, <1>4 DEF SearchInv

\* plan() is called, and may return at once.
LEMMA CallKeeps == SearchInv /\ CallPlan => SearchInv'
  <1> SUFFICES ASSUME SearchInv, CallPlan PROVE SearchInv'
    OBVIOUS
  <1>1. PICK p \in Problem : \E usable \in SUBSET p.available :
            /\ problem' = p
            /\ \/ /\ phase' = "idle" /\ goal' = EmptyState /\ plan' = <<>> /\ stack' = <<>>
                  /\ actions' \in SortedByCost(usable) \cup {<<>>}
               \/ /\ phase' = "enter" /\ goal' = p.goal /\ plan' = <<>> /\ stack' = <<>>
                  /\ actions' \in SortedByCost(usable)
    BY DEF CallPlan, Return
  <1>2. p.goal \in State /\ p.available \subseteq Action
    BY ProblemTyped
  <1>3. actions' \in Seq(Action)
    BY <1>1, <1>2, SortedActions, EmptySeq
  <1> QED
    BY <1>1, <1>2, <1>3, NoRecursion, EmptyStateTyped

\* plan() returns, or begins again with a greater bound.
LEMMA ReturnKeeps ==
    SearchInv /\ (Fail \/ NoSolution \/ Deepen \/ Succeed) => SearchInv'
  <1> SUFFICES ASSUME SearchInv, Fail \/ NoSolution \/ Deepen \/ Succeed PROVE SearchInv'
    OBVIOUS
  <1>1. problem \in Problem /\ actions \in Seq(Action) /\ problem.goal \in State
    BY ProblemTyped DEF SearchInv, Typed
  <1>2. problem' = problem /\ actions' = actions
    BY DEF Fail, NoSolution, Deepen, Succeed, arguments
  <1>3. CASE Fail \/ NoSolution \/ Succeed
    <2>1. phase' = "idle" /\ goal' = EmptyState /\ plan' = <<>> /\ stack' = <<>>
      BY <1>3 DEF Fail, NoSolution, Succeed, Return
    <2> QED
      BY <1>1, <1>2, <2>1, NoRecursion, EmptyStateTyped
  <1>4. CASE Deepen
    <2>1. phase' = "enter" /\ goal' = problem.goal /\ plan' = <<>> /\ stack' = <<>>
      BY <1>4 DEF Deepen, FirstReturned
    <2> QED
      BY <1>1, <1>2, <2>1, NoRecursion
  <1> QED
    BY <1>3, <1>4

\* A call is given up, or time passes.
LEMMA AbortKeeps == SearchInv /\ (Abort \/ Expire) => SearchInv'
  <1> SUFFICES ASSUME SearchInv, Abort \/ Expire PROVE SearchInv'
    OBVIOUS
  <1>1. problem' = problem /\ actions' = actions /\ UNCHANGED search
    BY DEF Abort, Expire, arguments
  <1>2. \/ phase' = phase
        \/ phase = "enter" /\ phase' = "back"
    BY DEF Abort, Expire
  <1> QED
    BY <1>1, <1>2, SameRecursion

\* Nothing changes.
LEMMA StutterKeeps == SearchInv /\ UNCHANGED vars => SearchInv'
  <1> SUFFICES ASSUME SearchInv, UNCHANGED vars PROVE SearchInv'
    OBVIOUS
  <1>1. problem' = problem /\ actions' = actions /\ UNCHANGED search /\ phase' = phase
    BY DEF vars, arguments
  <1> QED
    BY <1>1, SameRecursion

-----------------------------------------------------------------------------
(* Steps of the recursion *)

\* The innermost call of a recursion.
LEMMA TopTyped ==
    ASSUME SearchInv, stack # <<>>
    PROVE  /\ Top \in AnyFrame /\ Top = stack[Len(stack)] /\ Len(stack) \in Nat \ {0}
           /\ Top.entry \in State /\ Top.cost \in Nat /\ Top.total \in Nat
           /\ Top.next \in Nat \ {0}
  <1>1. stack \in Seq(AnyFrame)
    BY DEF SearchInv, Typed
  <1>2. Top \in AnyFrame /\ Top = stack[Len(stack)] /\ Len(stack) \in Nat \ {0}
    BY <1>1, FrontOfSeq DEF Top
  <1> QED
    BY <1>2 DEF AnyFrame

\* What the calls below have cost is a number, and the cost of the last action
\* is that of one that may run.
LEMMA AccumulatedTyped ==
    ASSUME SearchInv, phase = "enter"
    PROVE  /\ Accumulated \in Nat
           /\ stack # <<>> => /\ Last(plan) \in ToSet(actions) /\ Last(plan) \in Action
                              /\ Last(plan) = plan[Len(stack)]
                              /\ Accumulated = stack[Len(stack)].cost + Cost[Last(plan)]
  <1>1. CASE stack = <<>>
    BY <1>1 DEF Accumulated
  <1>2. CASE stack # <<>>
    <2>1. Len(plan) = Len(stack) /\ plan \in Seq(Action)
      BY DEF SearchInv, Depths, Typed
    <2>2. Top = stack[Len(stack)] /\ Len(stack) \in Nat \ {0} /\ Top.cost \in Nat
      BY <1>2, TopTyped
    <2>3. plan # <<>>
      BY <2>1, <2>2, EmptySeq
    <2>4. Last(plan) \in Action /\ Last(plan) = plan[Len(plan)]
      BY <2>1, <2>3, FrontOfSeq
    <2>5. Last(plan) \in ToSet(actions)
      BY <2>1, <2>2, <2>4 DEF SearchInv, Typed
    <2>6. Cost[Last(plan)] \in Nat
      BY <2>4, PlannerAssumption
    <2> QED
      BY <1>2, <2>1, <2>2, <2>4, <2>5, <2>6 DEF Accumulated, Top
  <1> QED
    BY <1>1, <1>2

\* The total cost is an estimate and what the calls below have cost.
LEMMA TotalTyped ==
    ASSUME SearchInv, phase = "enter"
    PROVE  Total \in Nat
  <1>1. Accumulated \in Nat
    BY AccumulatedTyped
  <1>2. problem.heuristic \in Heuristic /\ problem.start \in State /\ goal \in State
    BY ProblemTyped DEF SearchInv, Typed
  <1>3. Estimate(problem.heuristic, problem.start, goal) \in Nat
    BY <1>2, EstimateIsNat
  <1> QED
    BY <1>1, <1>3 DEF Total

\* A call returns, has found the plan, or begins its loop.
LEMMA EnterKeeps == SearchInv /\ Enter => SearchInv'
  <1> SUFFICES ASSUME SearchInv, Enter PROVE SearchInv'
    OBVIOUS
  <1>1. /\ problem' = problem /\ actions' = actions /\ goal' = goal /\ plan' = plan
        /\ phase = "enter"
    BY DEF Enter, arguments
  <1>2. CASE stack' = stack /\ phase' \in {"back", "found"}
    <2>1. UNCHANGED <<problem, actions, search>>
      BY <1>1, <1>2 DEF search
    <2> QED
      BY <1>1, <1>2, <2>1, SameRecursion
  <1>3. CASE /\ phase' = "loop"
             /\ stack' = Append(stack, [cost |-> Accumulated, total |-> Total, next |-> 1,
                                        undo |-> NoUndo, entry |-> goal])
    <2> DEFINE f == [cost |-> Accumulated, total |-> Total, next |-> 1,
                     undo |-> NoUndo, entry |-> goal]
    <2>1. f \in AnyFrame /\ f.entry = goal
      <3>1. Accumulated \in Nat /\ Total \in Nat
        BY <1>1, AccumulatedTyped, TotalTyped
      <3>2. goal \in State
        BY DEF SearchInv, Typed
      <3>3. NoUndo \in [keys : SUBSET Key, old : State]
        BY EmptyStateTyped DEF NoUndo
      <3> QED
        BY <3>1, <3>2, <3>3 DEF AnyFrame
    <2> HIDE DEF f
    <2>2. stack \in Seq(AnyFrame) /\ Len(stack) \in Nat /\ stack' = Append(stack, f)
      BY <1>3, LenProperties DEF SearchInv, Typed, f
    <2>3. /\ stack' \in Seq(AnyFrame) /\ Len(stack') = Len(stack) + 1
          /\ stack' # <<>> /\ Last(stack') = f
          /\ \A i \in 1..Len(stack) : stack'[i] = stack[i]
          /\ stack'[Len(stack) + 1] = f
      BY <2>1, <2>2, AppendToSeq
    <2>4. Len(plan) = Len(stack) /\ plan \in Seq(Action)
      BY <1>1 DEF SearchInv, Depths, Typed
    <2>5. Typed'
      BY <1>1, <1>3, <2>3 DEF SearchInv, Typed, Phase
    <2>6. Depths'
      BY <1>1, <1>3, <2>2, <2>3, <2>4 DEF Depths
    <2>7. Goals'
      BY <1>1, <1>3, <2>1, <2>3 DEF Goals, Top
    <2>8. stack'[1].entry = problem'.goal
      <3>1. CASE stack = <<>>
        <4>1. Len(stack) = 0 /\ stack'[1] = f
          BY <2>3, <3>1, EmptySeq
        <4>2. goal = problem.goal
          BY <1>1, <3>1 DEF SearchInv, Goals
        <4> QED
          BY <1>1, <2>1, <4>1, <4>2
      <3>2. CASE stack # <<>>
        <4>1. Len(stack) \in Nat \ {0} /\ stack[1].entry = problem.goal
          BY <2>2, <3>2, TopTyped DEF SearchInv, Chained
        <4> QED
          BY <1>1, <2>3, <4>1
      <3> QED
        BY <3>1, <3>2
    <2>9. ASSUME NEW i \in 2..Len(stack')
          PROVE  stack'[i].entry = Regress(plan'[i - 1], stack'[i - 1].entry)
      <3>1. CASE i <= Len(stack)
        <4>1. stack[i].entry = Regress(plan[i - 1], stack[i - 1].entry)
          BY <2>2, <2>3, <3>1 DEF SearchInv, Chained
        <4> QED
          BY <1>1, <2>2, <2>3, <3>1, <4>1
      <3>2. CASE i > Len(stack)
        <4>1. i = Len(stack) + 1 /\ i - 1 = Len(stack) /\ Len(stack) \in Nat \ {0}
          BY <2>2, <2>3, <3>2
        <4>2. stack # <<>>
          BY <2>2, <4>1, EmptySeq
        <4>3. goal = Regress(Last(plan), Top.entry)
          BY <1>1, <4>2 DEF SearchInv, Goals
        <4>4. Last(plan) = plan[Len(stack)] /\ Top = stack[Len(stack)]
          BY <1>1, <4>2, AccumulatedTyped, TopTyped
        <4>5. stack'[i].entry = goal /\ stack'[i - 1] = stack[Len(stack)]
          BY <2>1, <2>3, <4>1
        <4> QED
          BY <1>1, <4>1, <4>3, <4>4, <4>5
      <3> QED
        BY <2>2, <2>3, <3>1, <3>2
    <2>10. Chained'
      BY <2>8, <2>9 DEF Chained
    <2>11. Undone'
      BY <1>1, <2>2, <2>3, <2>4 DEF SearchInv, Undone
    <2> QED
      BY <2>5, <2>6, <2>7, <2>10, <2>11 DEF SearchInv
  <1> QED
    BY <1>2, <1>3 DEF Enter

\* A step that puts another frame with the same entry in the place of the last.
LEMMA TopReplaced ==
    ASSUME SearchInv, stack # <<>>, NEW f \in AnyFrame, f.entry = Top.entry,
           stack' = ReplaceTop(f)
    PROVE  /\ stack' \in Seq(AnyFrame) /\ Len(stack') = Len(stack)
           /\ stack' # <<>> /\ Top' = f /\ stack'[Len(stack)] = f
           /\ \A i \in 1..(Len(stack) - 1) : stack'[i] = stack[i]
           /\ \A i \in 1..Len(stack) : stack'[i].entry = stack[i].entry
  <1>1. stack \in Seq(AnyFrame)
    BY DEF SearchInv, Typed
  <1>2. /\ stack' \in Seq(AnyFrame) /\ Len(stack') = Len(stack)
        /\ stack' # <<>> /\ Last(stack') = f /\ stack'[Len(stack)] = f
        /\ \A i \in 1..(Len(stack) - 1) : stack'[i] = stack[i]
    BY <1>1, ReplaceLast DEF ReplaceTop
  <1>3. Top = stack[Len(stack)] /\ Len(stack) \in Nat \ {0}
    BY TopTyped
  <1>4. \A i \in 1..Len(stack) : i \in 1..(Len(stack) - 1) \/ i = Len(stack)
    BY <1>3
  <1>5. \A i \in 1..Len(stack) : stack'[i].entry = stack[i].entry
    BY <1>2, <1>3, <1>4
  <1> QED
    BY <1>2, <1>5 DEF Top

\* ... leaves the chain of entries as it is.
LEMMA ChainKept ==
    ASSUME SearchInv, problem' = problem, stack # <<>>, Len(stack') = Len(stack),
           \A i \in 1..Len(stack) : stack'[i].entry = stack[i].entry,
           \A i \in 1..(Len(stack) - 1) : plan'[i] = plan[i]
    PROVE  Chained'
  <1>1. Len(stack) \in Nat \ {0}
    BY TopTyped
  <1>2. stack'[1].entry = problem'.goal
    BY <1>1 DEF SearchInv, Chained
  <1>3. ASSUME NEW i \in 2..Len(stack')
        PROVE  stack'[i].entry = Regress(plan'[i - 1], stack'[i - 1].entry)
    <2>1. i \in 1..Len(stack) /\ i - 1 \in 1..Len(stack) /\ i - 1 \in 1..(Len(stack) - 1)
      BY <1>1
    <2>2. stack[i].entry = Regress(plan[i - 1], stack[i - 1].entry)
      BY <1>1 DEF SearchInv, Chained
    <2> QED
      BY <2>1, <2>2
  <1> QED
    BY <1>2, <1>3 DEF Chained

\* The loop passes over an action.
LEMMA SkipKeeps == SearchInv /\ Skip => SearchInv'
  <1> SUFFICES ASSUME SearchInv, Skip PROVE SearchInv'
    OBVIOUS
  <1> DEFINE f == NextAction(Top)
  <1>1. /\ problem' = problem /\ actions' = actions /\ goal' = goal /\ plan' = plan
        /\ phase = "loop" /\ phase' = "loop" /\ stack' = ReplaceTop(f)
    BY DEF Skip, InLoop, arguments
  <1>2. stack # <<>> /\ Len(plan) = Len(stack) - 1 /\ Len(stack) \in Nat \ {0}
    BY <1>1, TopTyped DEF SearchInv, Depths
  <1>3. f \in AnyFrame /\ f.entry = Top.entry
    BY <1>2, TopTyped DEF AnyFrame, NextAction
  <1> HIDE DEF f
  <1>4. /\ stack' \in Seq(AnyFrame) /\ Len(stack') = Len(stack)
        /\ stack' # <<>> /\ Top' = f
        /\ \A i \in 1..(Len(stack) - 1) : stack'[i] = stack[i]
        /\ \A i \in 1..Len(stack) : stack'[i].entry = stack[i].entry
    BY <1>1, <1>2, <1>3, TopReplaced
  <1>5. Typed'
    BY <1>1, <1>4 DEF SearchInv, Typed
  <1>6. Depths' /\ Goals'
    BY <1>1, <1>2, <1>3, <1>4 DEF SearchInv, Depths, Goals
  <1>7. Chained'
    BY <1>1, <1>2, <1>4, ChainKept
  <1>8. Undone'
    BY <1>1, <1>2, <1>4 DEF SearchInv, Undone
  <1> QED
    BY <1>5, <1>6, <1>7, <1>8 DEF SearchInv

\* The actions of a loop.
LEMMA LoopAction ==
    ASSUME SearchInv, InLoop
    PROVE  actions[Top.next] \in Action /\ actions[Top.next] \in ToSet(actions)
  <1>1. actions \in Seq(Action) /\ stack # <<>>
    BY DEF SearchInv, Typed, Depths, InLoop
  <1>2. Top.next \in 1..Len(actions)
    BY <1>1, TopTyped, LenProperties DEF InLoop
  <1>3. DOMAIN actions = 1..Len(actions) /\ actions[Top.next] \in Action
    BY <1>1, <1>2, LenProperties, ElementOfSeq
  <1> QED
    BY <1>2, <1>3 DEF ToSet

\* The goal is regressed through an action in place.
LEMMA DescendKeeps == SearchInv /\ Descend => SearchInv'
  <1> SUFFICES ASSUME SearchInv, Descend PROVE SearchInv'
    OBVIOUS
  <1> DEFINE a == actions[Top.next]
             f == [Top EXCEPT !.undo = UndoLog(a, goal)]
  <1>1. /\ problem' = problem /\ actions' = actions
        /\ goal' = Regress(a, goal) /\ plan' = Append(plan, a)
        /\ phase = "loop" /\ phase' = "enter" /\ stack' = ReplaceTop(f)
    BY DEF Descend, InLoop, arguments
  <1>2. a \in Action /\ a \in ToSet(actions)
    BY LoopAction DEF Descend
  <1> HIDE DEF a
  <1>3. /\ stack # <<>> /\ Len(plan) = Len(stack) - 1 /\ Len(stack) \in Nat \ {0}
        /\ goal = Top.entry /\ goal \in State /\ plan \in Seq(Action) /\ Len(plan) \in Nat
    BY <1>1, TopTyped DEF SearchInv, Depths, Goals, Typed
  <1>4. UndoLog(a, goal) \in [keys : SUBSET Key, old : State]
    BY <1>2, <1>3, UndoTyped
  <1>5. f \in AnyFrame /\ f.entry = Top.entry /\ f.undo = UndoLog(a, goal)
    BY <1>3, <1>4, TopTyped DEF AnyFrame
  <1> HIDE DEF f
  <1>6. /\ stack' \in Seq(AnyFrame) /\ Len(stack') = Len(stack)
        /\ stack' # <<>> /\ Top' = f /\ stack'[Len(stack)] = f
        /\ \A i \in 1..(Len(stack) - 1) : stack'[i] = stack[i]
        /\ \A i \in 1..Len(stack) : stack'[i].entry = stack[i].entry
    BY <1>1, <1>3, <1>5, TopReplaced
  <1>7. /\ plan' \in Seq(Action) /\ Len(plan') = Len(stack) /\ Last(plan') = a
        /\ \A i \in 1..Len(plan) : plan'[i] = plan[i]
        /\ plan'[Len(stack)] = a
    <2>1. /\ Append(plan, a) \in Seq(Action) /\ Len(Append(plan, a)) = Len(plan) + 1
          /\ Last(Append(plan, a)) = a
          /\ \A i \in 1..Len(plan) : Append(plan, a)[i] = plan[i]
          /\ Append(plan, a)[Len(plan) + 1] = a
      BY <1>2, <1>3, AppendToSeq
    <2>2. Len(plan) + 1 = Len(stack)
      BY <1>3
    <2> QED
      BY <1>1, <2>1, <2>2
  <1>8. \A i \in 1..Len(stack) : i \in 1..Len(plan) \/ i = Len(stack)
    BY <1>3
  <1>9. goal' \in State
    BY <1>1, <1>2, <1>3, RegressTyped
  <1>10. Typed'
    <2>1. \A i \in 1..Len(plan') : plan'[i] \in ToSet(actions')
      BY <1>1, <1>2, <1>7, <1>8 DEF SearchInv, Typed
    <2> QED
      BY <1>1, <1>6, <1>7, <1>9, <2>1 DEF SearchInv, Typed, Phase
  <1>11. Depths' /\ Goals'
    BY <1>1, <1>3, <1>5, <1>6, <1>7 DEF Depths, Goals
  <1>12. Chained'
    BY <1>1, <1>3, <1>6, <1>7, ChainKept
  <1>13. Undone'
    <2>1. ASSUME NEW i \in 1..Len(plan')
          PROVE  stack'[i].undo = UndoLog(plan'[i], stack'[i].entry)
      <3>1. CASE i = Len(stack)
        BY <1>3, <1>5, <1>6, <1>7, <3>1
      <3>2. CASE i \in 1..Len(plan)
        BY <1>3, <1>6, <1>7, <3>2 DEF SearchInv, Undone
      <3> QED
        BY <1>7, <1>8, <3>1, <3>2
    <2> QED
      BY <2>1 DEF Undone
  <1> QED
    BY <1>10, <1>11, <1>12, <1>13 DEF SearchInv

\* Outside of a loop the last action is that of the innermost call, which has
\* its undo log.
LEMMA LastAction ==
    ASSUME SearchInv, phase # "loop", stack # <<>>
    PROVE  /\ plan # <<>> /\ plan \in Seq(Action) /\ Len(plan) = Len(stack)
           /\ Last(plan) \in Action /\ Last(plan) = plan[Len(stack)]
           /\ Top.undo = UndoLog(Last(plan), Top.entry)
  <1>1. /\ plan \in Seq(Action) /\ Len(plan) = Len(stack) /\ Len(stack) \in Nat \ {0}
        /\ Top = stack[Len(stack)]
    BY TopTyped DEF SearchInv, Typed, Depths
  <1>2. plan # <<>>
    BY <1>1, EmptySeq
  <1>3. Last(plan) \in Action /\ Last(plan) = plan[Len(stack)]
    BY <1>1, <1>2, FrontOfSeq
  <1> QED
    BY <1>1, <1>2, <1>3 DEF SearchInv, Undone

\* The regression is taken back.
LEMMA BacktrackKeeps == SearchInv /\ Backtrack => SearchInv'
  <1> SUFFICES ASSUME SearchInv, Backtrack PROVE SearchInv'
    OBVIOUS
  <1> DEFINE f == NextAction([Top EXCEPT !.undo = NoUndo])
  <1>1. /\ problem' = problem /\ actions' = actions /\ stack # <<>>
        /\ goal' = Rollback(goal, Top.undo) /\ plan' = Front(plan)
        /\ phase = "back" /\ phase' = "loop" /\ stack' = ReplaceTop(f)
    BY DEF Backtrack, arguments
  <1>2. NoUndo \in [keys : SUBSET Key, old : State]
    BY EmptyStateTyped DEF NoUndo
  <1>3. f \in AnyFrame /\ f.entry = Top.entry
    <2> DEFINE g == [Top EXCEPT !.undo = NoUndo]
    <2>1. g \in AnyFrame /\ g.entry = Top.entry
      BY <1>1, <1>2, TopTyped DEF AnyFrame
    <2> HIDE DEF g
    <2>2. NextAction(g) \in AnyFrame /\ NextAction(g).entry = g.entry
      BY <2>1 DEF AnyFrame, NextAction
    <2> QED
      BY <2>1, <2>2 DEF g
  <1> HIDE DEF f
  <1>4. /\ stack' \in Seq(AnyFrame) /\ Len(stack') = Len(stack)
        /\ stack' # <<>> /\ Top' = f
        /\ \A i \in 1..(Len(stack) - 1) : stack'[i] = stack[i]
        /\ \A i \in 1..Len(stack) : stack'[i].entry = stack[i].entry
    BY <1>1, <1>3, TopReplaced
  <1>5. /\ plan # <<>> /\ plan \in Seq(Action) /\ Len(plan) = Len(stack)
        /\ Last(plan) \in Action /\ Top.undo = UndoLog(Last(plan), Top.entry)
        /\ Len(stack) \in Nat \ {0}
    BY <1>1, LastAction, TopTyped
  <1>6. goal' = Top.entry /\ Top.entry \in State
    <2>1. goal = Regress(Last(plan), Top.entry) /\ Top.entry \in State
      BY <1>1, TopTyped DEF SearchInv, Goals
    <2> QED
      BY <1>1, <1>5, <2>1, RollbackUndoes
  <1>7. /\ plan' \in Seq(Action) /\ Len(plan') = Len(stack) - 1
        /\ \A i \in 1..(Len(stack) - 1) : plan'[i] = plan[i]
    BY <1>1, <1>5, FrontOfSeq
  <1>8. Typed'
    <2>1. \A i \in 1..Len(plan') : plan'[i] \in ToSet(actions')
      <3>1. \A i \in 1..(Len(stack) - 1) : i \in 1..Len(plan)
        BY <1>5
      <3>2. \A i \in 1..Len(plan) : plan[i] \in ToSet(actions)
        BY DEF SearchInv, Typed
      <3> QED
        BY <1>1, <1>7, <3>1, <3>2
    <2> QED
      BY <1>1, <1>4, <1>6, <1>7, <2>1 DEF SearchInv, Typed, Phase
  <1>9. Depths' /\ Goals'
    BY <1>1, <1>3, <1>4, <1>6, <1>7 DEF Depths, Goals
  <1>10. Chained'
    BY <1>1, <1>4, <1>7, ChainKept
  <1>11. Undone'
    BY <1>4, <1>5, <1>7 DEF SearchInv, Undone
  <1> QED
    BY <1>8, <1>9, <1>10, <1>11 DEF SearchInv

\* A call has tried every action.
LEMMA ExhaustKeeps == SearchInv /\ Exhaust => SearchInv'
  <1> SUFFICES ASSUME SearchInv, Exhaust PROVE SearchInv'
    OBVIOUS
  <1>1. /\ problem' = problem /\ actions' = actions /\ goal' = goal /\ plan' = plan
        /\ phase = "loop" /\ phase' = "back" /\ stack' = Front(stack)
    BY DEF Exhaust, arguments
  <1>2. /\ stack # <<>> /\ Len(plan) = Len(stack) - 1 /\ Len(stack) \in Nat \ {0}
        /\ Top = stack[Len(stack)] /\ goal = Top.entry
        /\ stack \in Seq(AnyFrame) /\ plan \in Seq(Action)
    BY <1>1, TopTyped DEF SearchInv, Depths, Goals, Typed
  <1>3. /\ stack' \in Seq(AnyFrame) /\ Len(stack') = Len(stack) - 1
        /\ \A i \in 1..(Len(stack) - 1) : stack'[i] = stack[i]
    BY <1>1, <1>2, FrontOfSeq
  <1>4. Typed' /\ Depths'
    BY <1>1, <1>2, <1>3 DEF SearchInv, Typed, Depths, Phase
  <1>5. ASSUME stack' # <<>>
        PROVE  /\ Len(stack) \in 2..Len(stack) /\ plan # <<>>
               /\ goal = Regress(Last(plan), Top'.entry)
    <2>1. Len(stack') \in Nat \ {0} /\ Top' = stack'[Len(stack')]
      BY <1>3, <1>5, FrontOfSeq DEF Top
    <2>2. Len(stack) \in 2..Len(stack) /\ Top' = stack[Len(stack) - 1] /\ Len(plan) \in Nat \ {0}
      BY <1>2, <1>3, <2>1
    <2>3. plan # <<>>
      BY <2>2, EmptySeq
    <2>4. Last(plan) = plan[Len(stack) - 1]
      BY <1>2, <2>3, FrontOfSeq
    <2>5. stack[Len(stack)].entry = Regress(plan[Len(stack) - 1], stack[Len(stack) - 1].entry)
      BY <2>2 DEF SearchInv, Chained
    <2> QED
      BY <1>2, <2>2, <2>3, <2>4, <2>5
  <1>6. ASSUME stack' = <<>> PROVE goal = problem.goal
    <2>1. Len(stack) = 1
      BY <1>2, <1>3, <1>6, EmptySeq
    <2> QED
      BY <1>2, <2>1 DEF SearchInv, Chained
  <1>7. Goals'
    BY <1>1, <1>5, <1>6 DEF Goals
  <1>8. Chained'
    <2>1. stack' # <<>> => stack'[1].entry = problem'.goal
      <3>1. ASSUME stack' # <<>> PROVE 1 \in 1..(Len(stack) - 1)
        BY <1>2, <1>5, <3>1
      <3>2. stack[1].entry = problem.goal
        BY <1>2 DEF SearchInv, Chained
      <3> QED
        BY <1>1, <1>3, <3>1, <3>2
    <2>2. \A i \in 2..Len(stack') : stack'[i].entry = Regress(plan'[i - 1], stack'[i - 1].entry)
      <3> SUFFICES ASSUME NEW i \in 2..Len(stack')
                   PROVE  stack'[i].entry = Regress(plan'[i - 1], stack'[i - 1].entry)
        OBVIOUS
      <3>1. /\ i \in 2..Len(stack) /\ i \in 1..(Len(stack) - 1)
            /\ i - 1 \in 1..(Len(stack) - 1)
        BY <1>2, <1>3
      <3>2. stack[i].entry = Regress(plan[i - 1], stack[i - 1].entry)
        BY <3>1 DEF SearchInv, Chained
      <3> QED
        BY <1>1, <1>3, <3>1, <3>2
    <2> QED
      BY <2>1, <2>2 DEF Chained
  <1>9. Undone'
    BY <1>1, <1>2, <1>3 DEF SearchInv, Undone
  <1> QED
    BY <1>4, <1>7, <1>8, <1>9 DEF SearchInv

\* The inductive step.
LEMMA SearchStep == SearchInv /\ [Next]_vars => SearchInv'
  <1> SUFFICES ASSUME SearchInv, [Next]_vars PROVE SearchInv'
    OBVIOUS
  <1>1. CASE CallPlan
    BY <1>1, CallKeeps
  <1>2. CASE Fail \/ NoSolution \/ Deepen \/ Succeed
    BY <1>2, ReturnKeeps
  <1>3. CASE Abort \/ Expire
    BY <1>3, AbortKeeps
  <1>4. CASE Enter
    BY <1>4, EnterKeeps
  <1>5. CASE Skip
    BY <1>5, SkipKeeps
  <1>6. CASE Descend
    BY <1>6, DescendKeeps
  <1>7. CASE Backtrack
    BY <1>7, BacktrackKeeps
  <1>8. CASE Exhaust
    BY <1>8, ExhaustKeeps
  <1>9. CASE UNCHANGED vars
    BY <1>9, StutterKeeps
  <1> QED
    BY <1>1, <1>2, <1>3, <1>4, <1>5, <1>6, <1>7, <1>8, <1>9 DEF Next, Step

\* The recursion is as SearchInv says, in every behaviour.
LEMMA SearchHolds == Spec => []SearchInv
  <1> QED
    BY InitSearch, SearchStep, PTL DEF Spec

\* The undo logs give every call the goal back that it was entered with
\* (rida_planner.cpp:143-209): goal and plan of a search always fit together, for
\* every set of actions, whatever they set, take out and compare.
THEOREM RegressionIsUndone == Spec => []GoalIsRegression
  <1>1. SearchInv => GoalIsRegression
    <2> SUFFICES ASSUME SearchInv PROVE GoalIsRegression
      OBVIOUS
    <2>1. phase = "loop" => goal = Top.entry /\ Len(plan) = Len(stack) - 1
      BY DEF SearchInv, Depths, Goals
    <2>2. ASSUME phase = "enter", stack # <<>>
          PROVE  goal = Regress(Last(plan), Top.entry) /\ Rollback(goal, Top.undo) = Top.entry
      <3>1. Last(plan) \in Action /\ Top.undo = UndoLog(Last(plan), Top.entry)
        BY <2>2, LastAction
      <3>2. goal = Regress(Last(plan), Top.entry) /\ Top.entry \in State
        BY <2>2, TopTyped DEF SearchInv, Goals
      <3> QED
        BY <3>1, <3>2, RollbackUndoes
    <2> QED
      BY <2>1, <2>2 DEF SearchInv, Chained, GoalIsRegression
  <1> QED
    BY <1>1, SearchHolds, PTL

-----------------------------------------------------------------------------
(* The depth of the recursion *)

\* Every action that may run costs something.
NothingIsFree == \A a \in ToSet(actions) : Cost[a] > 0

\* No call has cost more than the bound, and each one more than its caller.
CostInv ==
    /\ bound \in Nat /\ nextBound \in Nat
    /\ \A i \in 1..Len(stack) : stack[i].cost <= bound
    /\ NothingIsFree => \A i \in 1..Len(stack) : stack[i].cost >= i - 1

\* A step that adds no call to the recursion.
LEMMA CostsKept ==
    ASSUME CostInv, UNCHANGED <<actions, bound>>, nextBound' \in Nat,
           \A i \in 1..Len(stack') : i \in 1..Len(stack) /\ stack'[i].cost = stack[i].cost
    PROVE  CostInv'
  BY DEF CostInv, NothingIsFree

\* A step that leaves no call in the recursion.
LEMMA NoCosts ==
    ASSUME stack' = <<>>, bound' \in Nat, nextBound' \in Nat
    PROVE  CostInv'
  <1>1. Len(stack') = 0
    BY EmptySeq
  <1> QED
    BY <1>1 DEF CostInv

\* A call whose loop goes on keeps its cost.
LEMMA TopKeepsCost ==
    ASSUME SearchInv, CostInv, stack # <<>>, UNCHANGED <<actions, limits>>,
           NEW f \in AnyFrame, f.entry = Top.entry, f.cost = Top.cost, stack' = ReplaceTop(f)
    PROVE  CostInv'
  <1>1. /\ Len(stack') = Len(stack) /\ stack'[Len(stack)] = f
        /\ \A i \in 1..(Len(stack) - 1) : stack'[i] = stack[i]
    BY TopReplaced
  <1>2. Top = stack[Len(stack)] /\ Len(stack) \in Nat \ {0}
    BY TopTyped
  <1>3. ASSUME NEW i \in 1..Len(stack')
        PROVE  i \in 1..Len(stack) /\ stack'[i].cost = stack[i].cost
    <2>1. i = Len(stack) \/ i \in 1..(Len(stack) - 1)
      BY <1>1, <1>2
    <2> QED
      BY <1>1, <1>2, <2>1
  <1> QED
    BY <1>3, CostsKept DEF limits, CostInv

\* The total of a call is at least what the calls below have cost.
LEMMA TotalIsNat ==
    ASSUME SearchInv, phase = "enter"
    PROVE  Total \in Nat /\ Accumulated \in Nat /\ Accumulated <= Total
  <1>1. Accumulated \in Nat
    BY AccumulatedTyped
  <1>2. problem.heuristic \in Heuristic /\ problem.start \in State /\ goal \in State
    BY ProblemTyped DEF SearchInv, Typed
  <1>3. Estimate(problem.heuristic, problem.start, goal) \in Nat
    BY <1>2, EstimateIsNat
  <1> QED
    BY <1>1, <1>3 DEF Total

\* A call enters its loop only within the bound, and is dearer than its caller.
LEMMA EnterKeepsCosts ==
    ASSUME SearchInv, CostInv, Enter
    PROVE  CostInv'
  <1>1. actions' = actions /\ bound' = bound /\ phase = "enter"
    BY DEF Enter, arguments
  <1>2. Total \in Nat /\ Accumulated \in Nat /\ Accumulated <= Total
    BY <1>1, TotalIsNat
  <1>3. nextBound' \in Nat
    BY <1>2 DEF Enter, Smaller, CostInv
  <1>4. stack \in Seq(AnyFrame) /\ Len(stack) \in Nat
    BY LenProperties DEF SearchInv, Typed
  <1>5. CASE stack' = stack
    BY <1>1, <1>3, <1>5, CostsKept
  <1>6. CASE /\ Total <= bound
             /\ stack' = Append(stack, [cost |-> Accumulated, total |-> Total, next |-> 1,
                                        undo |-> NoUndo, entry |-> goal])
    <2>1. SearchInv'
      BY EnterKeeps
    <2>2. stack' \in Seq(AnyFrame)
      BY <2>1 DEF SearchInv, Typed
    <2> DEFINE f == [cost |-> Accumulated, total |-> Total, next |-> 1,
                     undo |-> NoUndo, entry |-> goal]
    <2>3. f.cost = Accumulated
      OBVIOUS
    <2>4. f \in AnyFrame
      <3>1. Total \in Nat
        BY <1>1, TotalTyped
      <3>2. goal \in State
        BY DEF SearchInv, Typed
      <3>3. NoUndo \in [keys : SUBSET Key, old : State]
        BY EmptyStateTyped DEF NoUndo
      <3> QED
        BY <1>2, <3>1, <3>2, <3>3 DEF AnyFrame
    <2>5. stack' = Append(stack, f)
      BY <1>6
    <2> HIDE DEF f
    <2>6. /\ Len(stack') = Len(stack) + 1 /\ stack'[Len(stack) + 1] = f
          /\ \A i \in 1..Len(stack) : stack'[i] = stack[i]
      BY <1>4, <2>4, <2>5, AppendToSeq
    <2>7. \A i \in 1..Len(stack') : i \in 1..Len(stack) \/ i = Len(stack) + 1
      BY <1>4, <2>6
    <2>8. bound \in Nat /\ Accumulated <= bound
      BY <1>2, <1>6 DEF CostInv
    <2>9. \A i \in 1..Len(stack') : stack'[i].cost <= bound'
      BY <1>1, <2>3, <2>6, <2>7, <2>8 DEF CostInv
    <2>10. ASSUME NothingIsFree PROVE Accumulated >= Len(stack)
      <3>1. CASE stack = <<>>
        BY <1>2, <3>1, EmptySeq
      <3>2. CASE stack # <<>>
        <4>1. /\ Last(plan) \in ToSet(actions) /\ Last(plan) \in Action
              /\ Accumulated = stack[Len(stack)].cost + Cost[Last(plan)]
          BY <1>1, <3>2, AccumulatedTyped
        <4>2. Cost[Last(plan)] \in Nat /\ Cost[Last(plan)] > 0
          BY <2>10, <4>1, PlannerAssumption DEF NothingIsFree
        <4>3. Len(stack) \in Nat \ {0} /\ stack[Len(stack)].cost \in Nat
          BY <3>2, TopTyped
        <4>4. stack[Len(stack)].cost >= Len(stack) - 1
          BY <2>10, <4>3 DEF CostInv
        <4> QED
          BY <4>1, <4>2, <4>3, <4>4
      <3> QED
        BY <3>1, <3>2
    <2>11. NothingIsFree => \A i \in 1..Len(stack') : stack'[i].cost >= i - 1
      <3> SUFFICES ASSUME NothingIsFree, NEW i \in 1..Len(stack')
                   PROVE  stack'[i].cost >= i - 1
        OBVIOUS
      <3>1. CASE i \in 1..Len(stack)
        BY <2>6, <3>1 DEF CostInv
      <3>2. CASE i = Len(stack) + 1
        BY <1>4, <2>3, <2>6, <2>10, <3>2
      <3> QED
        BY <2>7, <3>1, <3>2
    <2>12. NothingIsFree' = NothingIsFree
      BY <1>1 DEF NothingIsFree
    <2> QED
      BY <1>1, <1>3, <2>8, <2>9, <2>11, <2>12 DEF CostInv
  <1> QED
    BY <1>5, <1>6 DEF Enter

\* The inductive step for the costs.
LEMMA CostStep == SearchInv /\ CostInv /\ [Next]_vars => CostInv'
  <1> SUFFICES ASSUME SearchInv, CostInv, [Next]_vars PROVE CostInv'
    OBVIOUS
  <1>1. CASE CallPlan
    <2>1. PICK p \in Problem :
              /\ stack' = <<>>
              /\ \/ bound' = 0 /\ nextBound' = MaxInt
                 \/ bound' = Estimate(p.heuristic, p.start, p.goal) /\ nextBound' = MaxInt
      BY <1>1 DEF CallPlan, Return
    <2>2. Estimate(p.heuristic, p.start, p.goal) \in Nat /\ MaxInt \in Nat
      BY ProblemTyped, EstimateIsNat, PlannerAssumption
    <2> QED
      BY <2>1, <2>2, NoCosts
  <1>2. CASE Fail \/ NoSolution \/ Succeed
    <2>1. stack' = <<>> /\ bound' = 0 /\ nextBound' = MaxInt
      BY <1>2 DEF Fail, NoSolution, Succeed, Return
    <2> QED
      BY <2>1, NoCosts, PlannerAssumption
  <1>3. CASE Deepen
    <2>1. stack' = <<>> /\ bound' = nextBound /\ nextBound' = MaxInt
      BY <1>3 DEF Deepen, FirstReturned, Raised
    <2> QED
      BY <2>1, NoCosts, PlannerAssumption DEF CostInv
  <1>4. CASE Abort \/ Expire \/ UNCHANGED vars
    <2>1. UNCHANGED <<actions, bound, nextBound, stack>>
      BY <1>4 DEF Abort, Expire, vars, arguments, search, limits
    <2> QED
      BY <2>1, CostsKept DEF CostInv
  <1>5. CASE Enter
    BY <1>5, EnterKeepsCosts
  <1>6. CASE Skip
    <2>1. UNCHANGED <<actions, limits>> /\ stack # <<>> /\ stack' = ReplaceTop(NextAction(Top))
      BY <1>6 DEF Skip, InLoop, arguments, SearchInv, Depths
    <2>2. /\ NextAction(Top) \in AnyFrame /\ NextAction(Top).entry = Top.entry
          /\ NextAction(Top).cost = Top.cost
      BY <2>1, TopTyped DEF AnyFrame, NextAction
    <2> QED
      BY <2>1, <2>2, TopKeepsCost
  <1>7. CASE Descend
    <2> DEFINE a == actions[Top.next]
               f == [Top EXCEPT !.undo = UndoLog(a, goal)]
    <2>1. UNCHANGED <<actions, limits>> /\ stack # <<>> /\ stack' = ReplaceTop(f)
      BY <1>7 DEF Descend, InLoop, arguments, SearchInv, Depths
    <2>2. a \in Action /\ goal \in State
      BY <1>7, LoopAction DEF Descend, SearchInv, Typed
    <2> HIDE DEF a
    <2>3. UndoLog(a, goal) \in [keys : SUBSET Key, old : State]
      BY <2>2, UndoTyped
    <2>4. f \in AnyFrame /\ f.entry = Top.entry /\ f.cost = Top.cost
      BY <2>1, <2>3, TopTyped DEF AnyFrame
    <2> HIDE DEF f
    <2> QED
      BY <2>1, <2>4, TopKeepsCost
  <1>8. CASE Backtrack
    <2> DEFINE g == [Top EXCEPT !.undo = NoUndo]
    <2>1. UNCHANGED <<actions, limits>> /\ stack # <<>> /\ stack' = ReplaceTop(NextAction(g))
      BY <1>8 DEF Backtrack, arguments
    <2>2. NoUndo \in [keys : SUBSET Key, old : State]
      BY EmptyStateTyped DEF NoUndo
    <2>3. g \in AnyFrame /\ g.entry = Top.entry /\ g.cost = Top.cost
      BY <2>1, <2>2, TopTyped DEF AnyFrame
    <2> HIDE DEF g
    <2>4. /\ NextAction(g) \in AnyFrame /\ NextAction(g).entry = g.entry
          /\ NextAction(g).cost = g.cost
      BY <2>3 DEF AnyFrame, NextAction
    <2> QED
      BY <2>1, <2>3, <2>4, TopKeepsCost
  <1>9. CASE Exhaust
    <2>1. UNCHANGED <<actions, limits>> /\ stack # <<>> /\ stack' = Front(stack)
      BY <1>9 DEF Exhaust, arguments, SearchInv, Depths
    <2>2. /\ Len(stack') = Len(stack) - 1 /\ Len(stack) \in Nat \ {0}
          /\ \A i \in 1..(Len(stack) - 1) : stack'[i] = stack[i]
      BY <2>1, FrontOfSeq DEF SearchInv, Typed
    <2>3. \A i \in 1..Len(stack') : i \in 1..Len(stack) /\ stack'[i].cost = stack[i].cost
      BY <2>2
    <2> QED
      BY <2>1, <2>3, CostsKept DEF CostInv, limits
  <1> QED
    BY <1>1, <1>2, <1>3, <1>4, <1>5, <1>6, <1>7, <1>8, <1>9 DEF Next, Step

\* Where every action costs something, the recursion is at most one call deeper
\* than the bound of its round (rida_planner.cpp:262-299), whatever actions undo
\* each other and whatever heuristic guides it.
THEOREM DepthIsBounded == Spec => []RecursionIsBounded
  <1>1. Init => CostInv
    <2>1. Len(<<>>) = 0
      BY EmptySeq
    <2> QED
      BY <2>1, PlannerAssumption DEF Init, CostInv
  <1>2. SearchInv /\ CostInv => RecursionIsBounded
    <2> SUFFICES ASSUME SearchInv, CostInv, NothingIsFree PROVE Len(stack) <= bound + 1
      BY DEF RecursionIsBounded, NothingIsFree
    <2>1. CASE stack = <<>>
      BY <2>1, EmptySeq DEF CostInv
    <2>2. CASE stack # <<>>
      <3>1. Len(stack) \in Nat \ {0} /\ stack[Len(stack)].cost \in Nat
        BY <2>2, TopTyped
      <3>2. stack[Len(stack)].cost <= bound /\ stack[Len(stack)].cost >= Len(stack) - 1
        BY <3>1 DEF CostInv
      <3> QED
        BY <3>1, <3>2 DEF CostInv
    <2> QED
      BY <2>1, <2>2
  <1>3. SearchInv /\ CostInv /\ [Next]_vars => CostInv'
    BY CostStep
  <1> QED
    BY <1>1, <1>2, <1>3, SearchHolds, PTL DEF Spec

-----------------------------------------------------------------------------
(* The transposition table between and within calls *)

\* The table is in step, and in a search that uses it within the limit.
TableInv ==
    /\ IsTable(table, State, Nat) /\ InStep(table)
    /\ (phase # "idle" /\ problem.useTable) => Len(table.order) <= problem.tableSize

\* The search begins with a table that is cleared if it is used.
LEMMA FreshKeeps ==
    ASSUME IsTable(table, State, Nat), InStep(table), problem' \in Problem,
           table' = Fresh(problem'.useTable, table)
    PROVE  TableInv'
  <1>1. /\ IsTable(EmptyTable, State, Nat) /\ InStep(EmptyTable)
        /\ Len(EmptyTable.order) = 0
    BY EmptyInStep
  <1>2. problem'.tableSize \in Nat
    BY ProblemTyped
  <1> QED
    BY <1>1, <1>2 DEF TableInv, Fresh

\* The inductive step for the table.
LEMMA TableStep == SearchInv /\ TableInv /\ [Next]_vars => TableInv'
  <1> SUFFICES ASSUME SearchInv, TableInv, [Next]_vars PROVE TableInv'
    OBVIOUS
  <1>1. CASE CallPlan
    <2>1. /\ problem' \in Problem
          /\ \/ phase' = "idle" /\ table' = table
             \/ table' = Fresh(problem'.useTable, table)
      BY <1>1 DEF CallPlan, Return
    <2> QED
      BY <2>1, FreshKeeps DEF TableInv
  <1>2. CASE Fail \/ NoSolution \/ Succeed
    <2>1. phase' = "idle" /\ table' = table
      BY <1>2 DEF Fail, NoSolution, Succeed, Return
    <2> QED
      BY <2>1 DEF TableInv
  <1>3. CASE Deepen
    <2>1. problem' \in Problem /\ table' = Fresh(problem'.useTable, table)
      BY <1>3 DEF Deepen, arguments, SearchInv, Typed
    <2> QED
      BY <2>1, FreshKeeps DEF TableInv
  <1>4. CASE Abort \/ Skip \/ Descend \/ Backtrack \/ Expire \/ UNCHANGED vars
    <2>1. /\ problem' = problem /\ table' = table
          /\ phase # "idle" \/ phase' = phase
      BY <1>4 DEF Abort, Skip, Descend, Backtrack, InLoop, Expire, vars, arguments
    <2> QED
      BY <2>1 DEF TableInv
  <1>5. CASE Enter
    <2>1. /\ problem' = problem /\ phase # "idle"
          /\ table' = IF problem.useTable THEN Lookup(table, goal) ELSE table
      BY <1>5 DEF Enter, arguments
    <2>2. /\ IsTable(Lookup(table, goal), State, Nat) /\ InStep(Lookup(table, goal))
          /\ Len(Lookup(table, goal).order) = Len(table.order)
      BY LookupKeeps DEF TableInv
    <2> QED
      BY <2>1, <2>2 DEF TableInv
  <1>6. CASE Exhaust
    <2>1. /\ problem' = problem /\ phase # "idle" /\ stack # <<>>
          /\ table' = IF problem.useTable
                      THEN Store(table, problem.tableSize, goal, Top.total) ELSE table
      BY <1>6 DEF Exhaust, arguments, SearchInv, Depths
    <2>2. goal \in State /\ Top.total \in Nat /\ problem.tableSize \in Nat
      BY <2>1, TopTyped, ProblemTyped DEF SearchInv, Typed
    <2> DEFINE s == Store(table, problem.tableSize, goal, Top.total)
    <2>3. /\ IsTable(s, State, Nat) /\ InStep(s)
          /\ Len(table.order) <= problem.tableSize => Len(s.order) <= problem.tableSize
      BY <2>2, StoreKeeps DEF TableInv
    <2> HIDE DEF s
    <2>4. table' = IF problem.useTable THEN s ELSE table
      BY <2>1 DEF s
    <2> QED
      BY <2>1, <2>3, <2>4 DEF TableInv
  <1> QED
    BY <1>1, <1>2, <1>3, <1>4, <1>5, <1>6 DEF Next, Step

\* The list and the map of the transposition table hold the same goals, once each
\* (transposition_table.cpp:9-40), and a search that uses the table keeps to its
\* limit, for tables, limits and searches of every size.
THEOREM TableStaysInStep == Spec => []TableInStep
  <1>1. Init => TableInv
    BY EmptyInStep DEF Init, TableInv
  <1>2. TableInv => TableInStep
    BY DEF TableInv, InStep, TableInStep
  <1> QED
    BY <1>1, <1>2, TableStep, SearchHolds, PTL DEF Spec

-----------------------------------------------------------------------------
(* The path of the recursion *)

\* Each call that waits is at the action it has put on the plan, which its goal is
\* regressed through.
Trying ==
    \A i \in 1..Len(plan) :
        /\ stack[i].next \in 1..Len(actions) /\ plan[i] = actions[stack[i].next]
        /\ Fits(plan[i], stack[i].entry, problem.start)

\* The cost of a call is that of the actions on the plan before it.
Priced ==
    /\ stack # <<>> => stack[1].cost = 0
    /\ \A i \in 2..Len(stack) : stack[i].cost = stack[i - 1].cost + Cost[plan[i - 1]]

\* A call that is in its loop has not been entered with a goal that is reached.
Unreached ==
    \A i \in 1..Len(stack) :
        /\ stack[i].total =
               Estimate(problem.heuristic, problem.start, stack[i].entry) + stack[i].cost
        /\ ~SatisfiesGoal(problem.start, stack[i].entry)

\* A plan that is found is within the bound.
WithinBound == phase = "found" => SatisfiesGoal(problem.start, goal) /\ Total <= bound

PathInv == Trying /\ Priced /\ Unreached /\ WithinBound

\* A step that leaves the path as it is, or the innermost call.
LEMMA PathKept ==
    ASSUME SearchInv, SearchInv', PathInv, problem' = problem, actions' = actions,
           phase' # "found",
           \A i \in 1..Len(stack') :
               /\ i \in 1..Len(stack) /\ stack'[i].entry = stack[i].entry
               /\ stack'[i].cost = stack[i].cost /\ stack'[i].total = stack[i].total,
           \A i \in 1..Len(plan') :
               i \in 1..Len(plan) /\ plan'[i] = plan[i] /\ stack'[i].next = stack[i].next,
           \A i \in 1..(Len(stack') - 1) : plan'[i] = plan[i]
    PROVE  PathInv'
  <1>1. Len(stack') \in Nat /\ Len(plan') \in Nat /\ Len(plan') <= Len(stack')
    <2>1. stack' \in Seq(AnyFrame) /\ plan' \in Seq(Action)
      BY DEF SearchInv, Typed
    <2>2. Len(stack') \in Nat /\ Len(plan') \in Nat
      BY <2>1, LenProperties
    <2> QED
      BY <2>2 DEF SearchInv, Depths
  <1>2. \A i \in 1..Len(plan') : i \in 1..Len(stack')
    BY <1>1
  <1>3. Trying'
    BY <1>2 DEF PathInv, Trying
  <1>4. Priced'
    <2>1. ASSUME stack' # <<>> PROVE stack'[1].cost = 0
      <3>1. 1 \in 1..Len(stack')
        <4>1. stack' \in Seq(AnyFrame)
          BY DEF SearchInv, Typed
        <4> QED
          BY <1>1, <2>1, <4>1, EmptySeq
      <3>2. 1 \in 1..Len(stack) /\ stack'[1].cost = stack[1].cost
        BY <3>1
      <3>3. stack # <<>>
        BY <3>2, EmptySeq
      <3> QED
        BY <3>2, <3>3 DEF PathInv, Priced
    <2>2. ASSUME NEW i \in 2..Len(stack')
          PROVE  stack'[i].cost = stack'[i - 1].cost + Cost[plan'[i - 1]]
      <3>1. /\ i \in 1..Len(stack') /\ i - 1 \in 1..Len(stack') /\ i - 1 \in 1..(Len(stack') - 1)
        BY <1>1
      <3>2. i \in 2..Len(stack)
        BY <3>1
      <3>3. stack[i].cost = stack[i - 1].cost + Cost[plan[i - 1]]
        BY <3>2 DEF PathInv, Priced
      <3> QED
        BY <3>1, <3>3
    <2> QED
      BY <2>1, <2>2 DEF Priced
  <1>5. Unreached'
    BY DEF PathInv, Unreached
  <1> QED
    BY <1>3, <1>4, <1>5 DEF PathInv, WithinBound

\* A step after which there is no path.
LEMMA NoPath ==
    ASSUME plan' = <<>>, stack' = <<>>, phase' # "found"
    PROVE  PathInv'
  <1>1. Len(<<>>) = 0
    BY EmptySeq
  <1> QED
    BY <1>1 DEF PathInv, Trying, Priced, Unreached, WithinBound

\* A step that leaves the recursion alone.
LEMMA PathStays ==
    ASSUME SearchInv, PathInv, UNCHANGED <<problem, actions, search, bound>>,
           phase' = phase \/ phase' # "found"
    PROVE  PathInv'
  <1>1. /\ problem' = problem /\ actions' = actions /\ goal' = goal /\ plan' = plan
        /\ stack' = stack /\ bound' = bound
    BY DEF search
  <1>2. Trying' /\ Priced' /\ Unreached'
    BY <1>1 DEF PathInv, Trying, Priced, Unreached
  <1>3. Total' = Total
    BY <1>1 DEF Total, Accumulated
  <1>4. WithinBound'
    BY <1>1, <1>3 DEF PathInv, WithinBound
  <1> QED
    BY <1>2, <1>4 DEF PathInv

\* A call that begins its loop extends the path.
LEMMA EnterKeepsPath ==
    ASSUME SearchInv, SearchInv', PathInv, Enter
    PROVE  PathInv'
  <1>1. /\ problem' = problem /\ actions' = actions /\ goal' = goal /\ plan' = plan
        /\ bound' = bound /\ phase = "enter"
    BY DEF Enter, arguments
  <1>2. CASE stack' = stack /\ phase' = "back"
    <2>1. UNCHANGED <<problem, actions, search, bound>>
      BY <1>1, <1>2 DEF search
    <2> QED
      BY <1>2, <2>1, PathStays
  <1>3. CASE /\ stack' = stack /\ phase' = "found"
             /\ Total <= bound /\ SatisfiesGoal(problem.start, goal)
    <2>1. Trying' /\ Priced' /\ Unreached'
      BY <1>1, <1>3 DEF PathInv, Trying, Priced, Unreached
    <2>2. Total' = Total
      BY <1>1, <1>3 DEF Total, Accumulated
    <2> QED
      BY <1>1, <1>3, <2>1, <2>2 DEF PathInv, WithinBound
  <1>4. CASE /\ ~SatisfiesGoal(problem.start, goal) /\ phase' = "loop"
             /\ stack' = Append(stack, [cost |-> Accumulated, total |-> Total, next |-> 1,
                                        undo |-> NoUndo, entry |-> goal])
    <2> DEFINE f == [cost |-> Accumulated, total |-> Total, next |-> 1,
                     undo |-> NoUndo, entry |-> goal]
    <2>1. f.cost = Accumulated /\ f.total = Total /\ f.entry = goal
      OBVIOUS
    <2>2. f \in AnyFrame
      <3>1. Accumulated \in Nat /\ Total \in Nat /\ goal \in State
        BY <1>1, AccumulatedTyped, TotalTyped DEF SearchInv, Typed
      <3>2. NoUndo \in [keys : SUBSET Key, old : State]
        BY EmptyStateTyped DEF NoUndo
      <3> QED
        BY <3>1, <3>2 DEF AnyFrame
    <2>3. stack \in Seq(AnyFrame) /\ Len(stack) \in Nat /\ stack' = Append(stack, f)
      BY <1>4, LenProperties DEF SearchInv, Typed
    <2> HIDE DEF f
    <2>4. /\ Len(stack') = Len(stack) + 1 /\ stack'[Len(stack) + 1] = f
          /\ \A i \in 1..Len(stack) : stack'[i] = stack[i]
      BY <2>2, <2>3, AppendToSeq
    <2>5. Len(plan) = Len(stack)
      BY <1>1 DEF SearchInv, Depths
    <2>6. Trying'
      BY <1>1, <2>4, <2>5 DEF PathInv, Trying
    <2>7. \A i \in 1..Len(stack') : i \in 1..Len(stack) \/ i = Len(stack) + 1
      BY <2>3, <2>4
    <2>8. Unreached'
      <3>1. /\ f.total = Estimate(problem.heuristic, problem.start, f.entry) + f.cost
            /\ ~SatisfiesGoal(problem.start, f.entry)
        BY <1>4, <2>1 DEF Total
      <3> QED
        BY <1>1, <2>4, <2>7, <3>1 DEF PathInv, Unreached
    <2>9. CASE stack = <<>>
      <3>1. Len(stack) = 0 /\ Accumulated = 0
        BY <2>9, EmptySeq DEF Accumulated
      <3>2. stack'[1].cost = 0 /\ Len(stack') = 1
        BY <2>1, <2>4, <3>1
      <3>3. Priced'
        BY <3>2 DEF Priced
      <3> QED
        BY <1>4, <2>6, <2>8, <3>3 DEF PathInv, WithinBound
    <2>10. CASE stack # <<>>
      <3>1. /\ Len(stack) \in Nat \ {0}
            /\ Accumulated = stack[Len(stack)].cost + Cost[plan[Len(stack)]]
        BY <1>1, <2>10, TopTyped, AccumulatedTyped
      <3>2. stack'[1].cost = 0
        BY <2>4, <2>10, <3>1 DEF PathInv, Priced
      <3>3. ASSUME NEW i \in 2..Len(stack')
            PROVE  stack'[i].cost = stack'[i - 1].cost + Cost[plan'[i - 1]]
        <4>1. CASE i = Len(stack) + 1
          <5>1. i - 1 = Len(stack) /\ stack'[i] = f /\ stack'[i - 1] = stack[Len(stack)]
            BY <2>4, <3>1, <4>1
          <5> QED
            BY <1>1, <2>1, <3>1, <5>1
        <4>2. CASE i # Len(stack) + 1
          <5>1. i \in 2..Len(stack) /\ i \in 1..Len(stack) /\ i - 1 \in 1..Len(stack)
            BY <2>3, <2>4, <4>2
          <5>2. stack[i].cost = stack[i - 1].cost + Cost[plan[i - 1]]
            BY <5>1 DEF PathInv, Priced
          <5> QED
            BY <1>1, <2>4, <5>1, <5>2
        <4> QED
          BY <4>1, <4>2
      <3>4. Priced'
        BY <3>2, <3>3 DEF Priced
      <3> QED
        BY <1>4, <2>6, <2>8, <3>4 DEF PathInv, WithinBound
    <2> QED
      BY <2>9, <2>10
  <1> QED
    BY <1>2, <1>3, <1>4 DEF Enter

\* The loop passes over an action, or comes back to one: the call is at the next.
LEMMA TopMovesOn ==
    ASSUME SearchInv, SearchInv', PathInv, problem' = problem, actions' = actions,
           phase' = "loop", stack # <<>>,
           NEW f \in AnyFrame, f.entry = Top.entry, f.cost = Top.cost, f.total = Top.total,
           stack' = ReplaceTop(f), \A i \in 1..(Len(stack) - 1) : plan'[i] = plan[i]
    PROVE  PathInv'
  <1>1. /\ Len(stack') = Len(stack) /\ stack'[Len(stack)] = f
        /\ \A i \in 1..(Len(stack) - 1) : stack'[i] = stack[i]
    BY TopReplaced
  <1>2. Top = stack[Len(stack)] /\ Len(stack) \in Nat \ {0}
    BY TopTyped
  <1>3. \A i \in 1..Len(stack') : i \in 1..(Len(stack) - 1) \/ i = Len(stack)
    BY <1>1, <1>2
  <1>4. \A i \in 1..Len(stack') :
            /\ i \in 1..Len(stack) /\ stack'[i].entry = stack[i].entry
            /\ stack'[i].cost = stack[i].cost /\ stack'[i].total = stack[i].total
    BY <1>1, <1>2, <1>3
  <1>5. Len(plan') = Len(stack) - 1
    BY <1>1 DEF SearchInv, Depths
  <1>6. Len(plan) = Len(stack) \/ Len(plan) = Len(stack) - 1
    BY DEF SearchInv, Depths
  <1>7. \A i \in 1..Len(plan') :
            i \in 1..Len(plan) /\ plan'[i] = plan[i] /\ stack'[i].next = stack[i].next
    BY <1>1, <1>2, <1>5, <1>6
  <1>8. \A i \in 1..(Len(stack') - 1) : plan'[i] = plan[i]
    BY <1>1
  <1> QED
    BY <1>4, <1>7, <1>8, PathKept

\* The search goes on with the action of the loop on the plan.
LEMMA DescendKeepsPath ==
    ASSUME SearchInv, SearchInv', PathInv, Descend
    PROVE  PathInv'
  <1> DEFINE a == actions[Top.next]
             f == [Top EXCEPT !.undo = UndoLog(a, goal)]
  <1>1. /\ problem' = problem /\ actions' = actions /\ bound' = bound
        /\ plan' = Append(plan, a) /\ Usable(a) /\ Top.next <= Len(actions)
        /\ phase = "loop" /\ phase' = "enter" /\ stack' = ReplaceTop(f)
    BY DEF Descend, InLoop, arguments, limits
  <1>2. a \in Action
    BY LoopAction DEF Descend
  <1> HIDE DEF a
  <1>3. /\ stack # <<>> /\ Len(plan) = Len(stack) - 1 /\ Len(stack) \in Nat \ {0}
        /\ goal = Top.entry /\ goal \in State /\ plan \in Seq(Action)
        /\ Top = stack[Len(stack)] /\ Top.next \in Nat \ {0}
    BY <1>1, TopTyped DEF SearchInv, Depths, Goals, Typed
  <1>4. UndoLog(a, goal) \in [keys : SUBSET Key, old : State]
    BY <1>2, <1>3, UndoTyped
  <1>5. /\ f \in AnyFrame /\ f.entry = Top.entry /\ f.cost = Top.cost
        /\ f.total = Top.total /\ f.next = Top.next
    BY <1>3, <1>4, TopTyped DEF AnyFrame
  <1> HIDE DEF f
  <1>6. /\ Len(stack') = Len(stack) /\ stack'[Len(stack)] = f
        /\ \A i \in 1..(Len(stack) - 1) : stack'[i] = stack[i]
    BY <1>1, <1>3, <1>5, TopReplaced
  <1>7. /\ Len(plan') = Len(plan) + 1 /\ plan'[Len(plan) + 1] = a
        /\ \A i \in 1..Len(plan) : plan'[i] = plan[i]
    BY <1>1, <1>2, <1>3, AppendToSeq
  <1>8. \A i \in 1..Len(stack) : i \in 1..(Len(stack) - 1) \/ i = Len(stack)
    BY <1>3
  <1>9. \A i \in 1..Len(stack) :
            /\ stack'[i].entry = stack[i].entry /\ stack'[i].cost = stack[i].cost
            /\ stack'[i].total = stack[i].total /\ stack'[i].next = stack[i].next
    BY <1>3, <1>5, <1>6, <1>8
  <1>10. Trying'
    <2>1. /\ plan'[Len(stack)] = a /\ Len(plan') = Len(stack)
          /\ \A i \in 1..(Len(stack) - 1) : i \in 1..Len(plan) /\ plan'[i] = plan[i]
      BY <1>3, <1>7
    <2>2. /\ Top.next \in 1..Len(actions) /\ a = actions[Top.next]
          /\ Fits(a, Top.entry, problem.start)
      <3>1. actions \in Seq(Action)
        BY DEF SearchInv, Typed
      <3>2. Top.next \in 1..Len(actions)
        BY <1>1, <1>3, <3>1, LenProperties
      <3> QED
        BY <1>1, <1>3, <3>2 DEF Usable, Fits, a
    <2> SUFFICES ASSUME NEW i \in 1..Len(stack)
                 PROVE  /\ stack'[i].next \in 1..Len(actions)
                        /\ plan'[i] = actions[stack'[i].next]
                        /\ Fits(plan'[i], stack'[i].entry, problem.start)
      BY <1>1, <2>1 DEF Trying
    <2>3. CASE i = Len(stack)
      BY <1>3, <1>9, <2>1, <2>2, <2>3
    <2>4. CASE i \in 1..(Len(stack) - 1)
      BY <1>9, <2>1, <2>4 DEF PathInv, Trying
    <2> QED
      BY <1>8, <2>3, <2>4
  <1>11. Priced'
    <2>1. stack'[1].cost = 0
      BY <1>3, <1>9 DEF PathInv, Priced
    <2>2. ASSUME NEW i \in 2..Len(stack)
          PROVE  stack'[i].cost = stack'[i - 1].cost + Cost[plan'[i - 1]]
      <3>1. i \in 1..Len(stack) /\ i - 1 \in 1..Len(stack) /\ i - 1 \in 1..Len(plan)
        BY <1>3
      <3>2. stack[i].cost = stack[i - 1].cost + Cost[plan[i - 1]]
        BY DEF PathInv, Priced
      <3> QED
        BY <1>7, <1>9, <3>1, <3>2
    <2> QED
      BY <1>6, <2>1, <2>2 DEF Priced
  <1>12. Unreached'
    BY <1>1, <1>6, <1>9 DEF PathInv, Unreached
  <1> QED
    BY <1>1, <1>10, <1>11, <1>12 DEF PathInv, WithinBound

\* The inductive step for the path.
LEMMA PathStep == SearchInv /\ SearchInv' /\ PathInv /\ [Next]_vars => PathInv'
  <1> SUFFICES ASSUME SearchInv, SearchInv', PathInv, [Next]_vars PROVE PathInv'
    OBVIOUS
  <1>1. CASE CallPlan
    <2>1. plan' = <<>> /\ stack' = <<>> /\ phase' # "found"
      BY <1>1 DEF CallPlan, Return
    <2> QED
      BY <2>1, NoPath
  <1>2. CASE Fail \/ NoSolution \/ Succeed \/ Deepen
    <2>1. plan' = <<>> /\ stack' = <<>> /\ phase' # "found"
      BY <1>2 DEF Fail, NoSolution, Succeed, Deepen, FirstReturned, Return
    <2> QED
      BY <2>1, NoPath
  <1>3. CASE Abort \/ Expire \/ UNCHANGED vars
    <2>1. /\ UNCHANGED <<problem, actions, search, bound>>
          /\ phase' = phase \/ phase' # "found"
      BY <1>3 DEF Abort, Expire, vars, arguments, limits
    <2> QED
      BY <2>1, PathStays
  <1>4. CASE Enter
    BY <1>4, EnterKeepsPath
  <1>5. CASE Skip
    <2>1. /\ problem' = problem /\ actions' = actions /\ plan' = plan /\ phase' = "loop"
          /\ stack # <<>> /\ stack' = ReplaceTop(NextAction(Top))
      BY <1>5 DEF Skip, InLoop, arguments, SearchInv, Depths
    <2>2. /\ NextAction(Top) \in AnyFrame /\ NextAction(Top).entry = Top.entry
          /\ NextAction(Top).cost = Top.cost /\ NextAction(Top).total = Top.total
      BY <2>1, TopTyped DEF AnyFrame, NextAction
    <2> QED
      BY <2>1, <2>2, TopMovesOn
  <1>6. CASE Descend
    BY <1>6, DescendKeepsPath
  <1>7. CASE Backtrack
    <2> DEFINE g == [Top EXCEPT !.undo = NoUndo]
    <2>1. /\ problem' = problem /\ actions' = actions /\ plan' = Front(plan)
          /\ phase = "back" /\ phase' = "loop"
          /\ stack # <<>> /\ stack' = ReplaceTop(NextAction(g))
      BY <1>7 DEF Backtrack, arguments
    <2>2. NoUndo \in [keys : SUBSET Key, old : State]
      BY EmptyStateTyped DEF NoUndo
    <2>3. g \in AnyFrame /\ g.entry = Top.entry /\ g.cost = Top.cost /\ g.total = Top.total
      BY <2>1, <2>2, TopTyped DEF AnyFrame
    <2> HIDE DEF g
    <2>4. /\ NextAction(g) \in AnyFrame /\ NextAction(g).entry = g.entry
          /\ NextAction(g).cost = g.cost /\ NextAction(g).total = g.total
      BY <2>3 DEF AnyFrame, NextAction
    <2>5. plan # <<>> /\ plan \in Seq(Action) /\ Len(plan) = Len(stack)
      BY <2>1, LastAction
    <2>6. \A i \in 1..(Len(stack) - 1) : plan'[i] = plan[i]
      BY <2>1, <2>5, FrontOfSeq
    <2> QED
      BY <2>1, <2>3, <2>4, <2>6, TopMovesOn
  <1>8. CASE Exhaust
    <2>1. /\ problem' = problem /\ actions' = actions /\ plan' = plan /\ phase' = "back"
          /\ stack # <<>> /\ stack' = Front(stack) /\ phase = "loop"
      BY <1>8 DEF Exhaust, arguments, SearchInv, Depths
    <2>2. /\ Len(stack') = Len(stack) - 1 /\ Len(stack) \in Nat \ {0}
          /\ \A i \in 1..(Len(stack) - 1) : stack'[i] = stack[i]
      BY <2>1, FrontOfSeq DEF SearchInv, Typed
    <2>3. Len(plan) = Len(stack) - 1
      BY <2>1 DEF SearchInv, Depths
    <2>4. \A i \in 1..Len(stack') : i \in 1..Len(stack) /\ stack'[i] = stack[i]
      BY <2>2
    <2>5. \A i \in 1..Len(plan') :
              i \in 1..Len(plan) /\ plan'[i] = plan[i] /\ stack'[i].next = stack[i].next
      BY <2>1, <2>2, <2>3
    <2> QED
      BY <2>1, <2>4, <2>5, PathKept
  <1> QED
    BY <1>1, <1>2, <1>3, <1>4, <1>5, <1>6, <1>7, <1>8 DEF Next, Step

\* The path is as PathInv says, in every behaviour.
LEMMA PathHolds == Spec => []PathInv
  <1>1. Init => PathInv
    <2>1. Len(<<>>) = 0
      BY EmptySeq
    <2> QED
      BY <2>1 DEF Init, PathInv, Trying, Priced, Unreached, WithinBound
  <1> QED
    BY <1>1, PathStep, SearchHolds, PTL DEF Spec
-----------------------------------------------------------------------------
(* What a search that fails leaves behind *)

\* A plan of the actions in A as the search of p finds it, backwards.
WayOf(p, A, s, left) == Way(p.start, s, left) /\ \A i \in 1..Len(s) : s[i] \in A

\* The estimates on the way of its first k actions do not exceed what they cost.
Honest(p, s, left, k) ==
    \A i \in 0..k : Estimate(p.heuristic, p.start, left[i]) <= Costs(s)[i]

\* What a search leaves behind that has failed on the goal g at the cost c, the
\* next bound then being n: n is no more than what a plan costs that goes by g, and
\* fits tells that it is less than any total cost may not be.
Missed(p, s, left, k, c, n, fits) ==
    /\ fits => n # MaxInt
    /\ Honest(p, s, left, k) => n <= c + Costs(s)[k]

Lost(p, A, g, c, n, fits) ==
    \A s, left : WayOf(p, A, s, left) =>
        \A k \in 0..Len(s) : left[k] = g => Missed(p, s, left, k, c, n, fits)

\* It stays so when the next bound falls, and at a higher cost.
LEMMA LostStays ==
    ASSUME NEW p, NEW A, NEW g, NEW c \in Int, NEW d \in Int, c <= d,
           NEW n \in 0..MaxInt, NEW m \in 0..MaxInt, m <= n, NEW fits,
           Lost(p, A, g, c, n, fits)
    PROVE  Lost(p, A, g, d, m, fits)
  <1> SUFFICES ASSUME NEW s, NEW left, WayOf(p, A, s, left), NEW k \in 0..Len(s), left[k] = g
               PROVE  Missed(p, s, left, k, d, m, fits)
    BY DEF Lost
  <1>1. Missed(p, s, left, k, c, n, fits)
    BY DEF Lost
  <1>2. Costs(s)[k] \in Nat /\ MaxInt \in Nat
    BY WayTyped, PlannerAssumption DEF WayOf
  <1> QED
    BY <1>1, <1>2 DEF Missed

\* A goal whose estimate and cost lower the next bound.
LEMMA LostBeyond ==
    ASSUME NEW p \in Problem, NEW A, NEW g \in State, NEW c \in Int, NEW n \in 0..MaxInt,
           NEW fits, fits => n # MaxInt,
           n <= Estimate(p.heuristic, p.start, g) + c
    PROVE  Lost(p, A, g, c, n, fits)
  <1> SUFFICES ASSUME NEW s, NEW left, WayOf(p, A, s, left), NEW k \in 0..Len(s), left[k] = g
               PROVE  Missed(p, s, left, k, c, n, fits)
    BY DEF Lost
  <1>1. Costs(s)[k] \in Nat /\ Len(s) \in Nat
    BY WayTyped DEF WayOf
  <1>2. Estimate(p.heuristic, p.start, g) \in Nat
    BY ProblemTyped, EstimateIsNat
  <1>3. Honest(p, s, left, k) => Estimate(p.heuristic, p.start, g) <= Costs(s)[k]
    BY <1>1 DEF Honest
  <1> QED
    BY <1>1, <1>2, <1>3 DEF Missed

\* A goal that is not reached and that every action has failed on.
LEMMA LostExhausted ==
    ASSUME NEW p, NEW A \in SUBSET Action, NEW g, NEW c \in Nat, NEW n \in 0..MaxInt, NEW fits,
           ~SatisfiesGoal(p.start, g),
           \A a \in A : Fits(a, g, p.start) => Lost(p, A, Regress(a, g), c + Cost[a], n, fits)
    PROVE  Lost(p, A, g, c, n, fits)
  <1> SUFFICES ASSUME NEW s, NEW left, WayOf(p, A, s, left), NEW k \in 0..Len(s), left[k] = g
               PROVE  Missed(p, s, left, k, c, n, fits)
    BY DEF Lost
  <1>1. s \in Seq(Action) /\ Len(s) \in Nat /\ \A i \in 0..Len(s) : Costs(s)[i] \in Nat
    BY WayTyped DEF WayOf
  <1>2. k \in 1..Len(s)
    <2>1. k # 0
      BY DEF WayOf, Way
    <2> QED
      BY <1>1, <2>1
  <1>3. s[k] \in A /\ Fits(s[k], g, p.start) /\ left[k - 1] = Regress(s[k], g)
    BY <1>2 DEF WayOf, Way
  <1>4. Lost(p, A, Regress(s[k], g), c + Cost[s[k]], n, fits)
    BY <1>3
  <1>5. k - 1 \in 0..Len(s) /\ \A i \in 0..(k - 1) : i \in 0..k
    BY <1>1, <1>2
  <1>6. Missed(p, s, left, k - 1, c + Cost[s[k]], n, fits)
    BY <1>3, <1>4, <1>5 DEF Lost
  <1>7. Honest(p, s, left, k) => Honest(p, s, left, k - 1)
    BY <1>5 DEF Honest
  <1>8. Costs(s)[k] = Costs(s)[k - 1] + Cost[s[k]]
    BY <1>1, <1>2, CostsComputed
  <1>9. Cost[s[k]] \in Nat /\ Costs(s)[k] \in Nat /\ Costs(s)[k - 1] \in Nat
    BY <1>1, <1>3, <1>5, ActionTyped
  <1> QED
    BY <1>6, <1>7, <1>8, <1>9 DEF Missed

\* What a table holds after a goal is stored.
LEMMA StoreHolds ==
    ASSUME NEW S, NEW C, NEW t, IsTable(t, S, C), InStep(t), NEW limit, NEW g \in S, NEW c \in C,
           NEW x \in DOMAIN Store(t, limit, g, c).cost
    PROVE  \/ x = g /\ Store(t, limit, g, c).cost[x] = c
           \/ x \in DOMAIN t.cost /\ Store(t, limit, g, c).cost[x] = t.cost[x]
  <1>1. CASE limit = 0
    BY <1>1 DEF Store
  <1>2. CASE limit # 0 /\ Holds(t, g)
    <2> DEFINE q == Promote(t, g)
    <2>1. IsTable(q, S, C) /\ q.cost = t.cost
      BY <1>2, PromoteKeeps
    <2> HIDE DEF q
    <2>2. Store(t, limit, g, c).cost = [q.cost EXCEPT ![g] = c]
      <3>1. Store(t, limit, g, c) = [q EXCEPT !.cost[g] = c]
        BY <1>2 DEF Store, q
      <3> QED
        BY <2>1, <3>1 DEF IsTable
    <2> QED
      BY <2>1, <2>2
  <1>3. CASE limit # 0 /\ ~Holds(t, g)
    <2>1. CASE Cardinality(DOMAIN t.cost) >= limit /\ t.order # <<>>
      <3>1. Store(t, limit, g, c) = Insert(Evict(t), g, c)
        BY <1>3, <2>1 DEF Store
      <3> QED
        BY <3>1 DEF Insert, Evict
    <2>2. CASE ~(Cardinality(DOMAIN t.cost) >= limit /\ t.order # <<>>)
      <3>1. Store(t, limit, g, c) = Insert(t, g, c)
        BY <1>3, <2>2 DEF Store
      <3> QED
        BY <3>1 DEF Insert
    <2> QED
      BY <2>1, <2>2
  <1> QED
    BY <1>1, <1>2, <1>3
\* A goal that the search of the call has failed on at a cost.
IsLost(g, c, fits) == Lost(problem, ToSet(actions), g, c, nextBound, fits)

\* Every action that a call is past.
PassedAreLost(fits) ==
    \A i \in 1..Len(stack) : \A j \in 1..Len(actions) :
        (j < stack[i].next /\ Fits(actions[j], stack[i].entry, problem.start)) =>
            IsLost(Regress(actions[j], stack[i].entry), stack[i].cost + Cost[actions[j]], fits)

\* The goal of a call that returns false.
LeftIsLost(fits) == phase = "back" => IsLost(goal, Accumulated, fits)

\* The goals of the table.
StoredAreLost(fits) ==
    problem.useTable => \A g \in DOMAIN table.cost :
        IsLost(g, table.cost[g] - Estimate(problem.heuristic, problem.start, g), fits)

\* The bound is no more than what a plan costs.
BoundIsLow ==
    \A s, left :
        (/\ WayOf(problem, ToSet(actions), s, left) /\ left[Len(s)] = problem.goal
         /\ Honest(problem, s, left, Len(s))) => bound <= SumCost(s)

LostInv(fits) ==
    /\ bound \in Nat /\ nextBound \in 0..MaxInt
    /\ (phase # "idle" /\ failure = "Success") =>
           PassedAreLost(fits) /\ LeftIsLost(fits) /\ StoredAreLost(fits)
    /\ phase # "idle" => BoundIsLow

\* Total costs stay below the number that stands for no next bound.
TotalsFit == phase = "enter" => Total < MaxInt

\* A step of a search that does not move its bounds.
LEMMA LostInvKept ==
    ASSUME SearchInv, NEW fits, LostInv(fits), phase # "idle", phase' # "idle",
           UNCHANGED <<problem, actions, bound>>, nextBound' \in 0..MaxInt,
           failure' = "Success" => failure = "Success",
           failure' = "Success" =>
               PassedAreLost(fits)' /\ LeftIsLost(fits)' /\ StoredAreLost(fits)'
    PROVE  LostInv(fits)'
  <1>1. BoundIsLow'
    BY DEF LostInv, BoundIsLow
  <1> QED
    BY <1>1 DEF LostInv

\* A step after which there is no search.
LEMMA NoSearch ==
    ASSUME NEW fits, phase' = "idle", bound' = 0, nextBound' = MaxInt
    PROVE  LostInv(fits)'
  BY PlannerAssumption DEF LostInv

\* What is stored stays lost.
LEMMA StoredStay ==
    ASSUME SearchInv, TableInv, NEW fits, LostInv(fits), phase # "idle", failure = "Success",
           UNCHANGED <<problem, actions>>, nextBound' \in 0..MaxInt, nextBound' <= nextBound,
           table'.cost = table.cost
    PROVE  StoredAreLost(fits)'
  <1> SUFFICES ASSUME problem.useTable, NEW g \in DOMAIN table.cost
               PROVE  IsLost(g, table.cost[g] - Estimate(problem.heuristic, problem.start, g),
                             fits)'
    BY DEF StoredAreLost
  <1> DEFINE c == table.cost[g] - Estimate(problem.heuristic, problem.start, g)
  <1>1. c \in Int
    <2>1. g \in State /\ table.cost[g] \in Nat
      BY DEF TableInv, IsTable
    <2>2. problem.heuristic \in Heuristic /\ problem.start \in State
      BY ProblemTyped DEF SearchInv, Typed
    <2>3. Estimate(problem.heuristic, problem.start, g) \in Nat
      BY <2>1, <2>2, EstimateIsNat
    <2> QED
      BY <2>1, <2>3
  <1>2. Lost(problem, ToSet(actions), g, c, nextBound, fits)
    BY DEF LostInv, StoredAreLost, IsLost
  <1>3. c' = c
    OBVIOUS
  <1> HIDE DEF c
  <1>4. nextBound \in 0..MaxInt
    BY DEF LostInv
  <1>5. Lost(problem, ToSet(actions), g, c, nextBound', fits)
    BY <1>1, <1>2, <1>4, LostStays
  <1> QED
    BY <1>3, <1>5 DEF IsLost, c

\* What calls are past stays lost.
LEMMA PassedStay ==
    ASSUME SearchInv, NEW fits, LostInv(fits), phase # "idle", failure = "Success",
           nextBound' \in 0..MaxInt, nextBound' <= nextBound,
           NEW i \in 1..Len(stack), NEW j \in 1..Len(actions), j < stack[i].next,
           Fits(actions[j], stack[i].entry, problem.start)
    PROVE  Lost(problem, ToSet(actions), Regress(actions[j], stack[i].entry),
                stack[i].cost + Cost[actions[j]], nextBound', fits)
  <1>1. stack \in Seq(AnyFrame) /\ actions \in Seq(Action)
    BY DEF SearchInv, Typed
  <1>2. stack[i] \in AnyFrame /\ actions[j] \in Action
    BY <1>1, ElementOfSeq
  <1>3. stack[i].cost + Cost[actions[j]] \in Int
    BY <1>2, ActionTyped DEF AnyFrame
  <1>4. nextBound \in 0..MaxInt
    BY DEF LostInv
  <1>5. IsLost(Regress(actions[j], stack[i].entry), stack[i].cost + Cost[actions[j]], fits)
    BY DEF LostInv, PassedAreLost
  <1> QED
    BY <1>3, <1>4, <1>5, LostStays DEF IsLost
\* The lookup of a goal takes none out of the table.
LEMMA LookupHolds ==
    ASSUME NEW S, NEW C, NEW t, IsTable(t, S, C), InStep(t), NEW g
    PROVE  Lookup(t, g).cost = t.cost
  BY PromoteKeeps DEF Lookup

\* A call that is not entered has a lower next bound, or a goal that is known; one
\* that begins its loop is past no action.
LEMMA EnterKeepsLost ==
    ASSUME SearchInv, TableInv, NEW fits, fits => TotalsFit, LostInv(fits), Enter
    PROVE  LostInv(fits)'
  <1>1. /\ UNCHANGED <<problem, actions, bound>> /\ UNCHANGED <<goal, plan, failure>>
        /\ phase = "enter"
        /\ phase' # "idle" /\ table' = (IF problem.useTable THEN Lookup(table, goal) ELSE table)
    BY DEF Enter, arguments
  <1>2. Total \in Nat /\ Accumulated \in Nat /\ goal \in State /\ nextBound \in 0..MaxInt
    BY <1>1, TotalIsNat DEF SearchInv, Typed, LostInv
  <1>3. nextBound' \in 0..MaxInt /\ nextBound' <= nextBound
    <2>1. nextBound' = nextBound \/ nextBound' = Smaller(nextBound, Total)
      BY DEF Enter
    <2>2. MaxInt \in Nat
      BY PlannerAssumption
    <2> QED
      BY <1>2, <2>1, <2>2 DEF Smaller
  <1>4. table'.cost = table.cost
    BY <1>1, LookupHolds DEF TableInv
  <1> SUFFICES ASSUME failure = "Success"
               PROVE  PassedAreLost(fits)' /\ LeftIsLost(fits)' /\ StoredAreLost(fits)'
    BY <1>1, <1>3, LostInvKept
  <1>5. StoredAreLost(fits)'
    BY <1>1, <1>3, <1>4, StoredStay
  <1>6. CASE stack' = stack
    <2>1. PassedAreLost(fits)'
      <3> SUFFICES ASSUME NEW i \in 1..Len(stack), NEW j \in 1..Len(actions), j < stack[i].next,
                          Fits(actions[j], stack[i].entry, problem.start)
                   PROVE  Lost(problem, ToSet(actions), Regress(actions[j], stack[i].entry),
                               stack[i].cost + Cost[actions[j]], nextBound', fits)
        BY <1>1, <1>6 DEF PassedAreLost, IsLost
      <3> QED
        BY <1>1, <1>3, PassedStay
    <2>2. ASSUME phase' = "back"
          PROVE  Lost(problem, ToSet(actions), goal, Accumulated, nextBound', fits)
      <3> DEFINE e == Estimate(problem.heuristic, problem.start, goal)
      <3>1. e \in Nat /\ Total = e + Accumulated
        <4>1. problem.heuristic \in Heuristic /\ problem.start \in State
          BY ProblemTyped DEF SearchInv, Typed
        <4> QED
          BY <1>2, <4>1, EstimateIsNat DEF Total
      <3>2. problem \in Problem
        BY DEF SearchInv, Typed
      <3>3. CASE Known /\ nextBound' = nextBound
        <4>1. IsLost(goal, table.cost[goal] - e, fits) /\ goal \in DOMAIN table.cost
          BY <1>1, <3>3 DEF Known, Holds, LostInv, StoredAreLost
        <4>2. table.cost[goal] \in Nat /\ table.cost[goal] <= Total
          BY <3>3, <4>1 DEF Known, TableInv, IsTable
        <4>3. table.cost[goal] - e \in Int /\ table.cost[goal] - e <= Accumulated
          BY <1>2, <3>1, <4>2
        <4> HIDE DEF e
        <4> QED
          BY <1>2, <1>3, <4>1, <4>3, LostStays DEF IsLost
      <3>4. CASE nextBound' = Smaller(nextBound, Total)
        <4>1. nextBound' <= Total
          BY <1>2, <3>4 DEF Smaller
        <4>2. fits => nextBound' # MaxInt
          BY <1>1, <1>2, <1>3, <4>1, PlannerAssumption DEF TotalsFit
        <4> QED
          BY <1>2, <1>3, <3>1, <3>2, <4>1, <4>2, LostBeyond
      <3>5. \/ Known /\ nextBound' = nextBound
            \/ nextBound' = Smaller(nextBound, Total)
        BY <2>2 DEF Enter
      <3> QED
        BY <3>3, <3>4, <3>5
    <2>3. LeftIsLost(fits)'
      <3>1. Accumulated' = Accumulated
        BY <1>1, <1>6 DEF Accumulated
      <3> QED
        BY <1>1, <2>2, <3>1 DEF LeftIsLost, IsLost
    <2> QED
      BY <1>5, <2>1, <2>3
  <1>7. CASE /\ phase' = "loop"
             /\ stack' = Append(stack, [cost |-> Accumulated, total |-> Total, next |-> 1,
                                        undo |-> NoUndo, entry |-> goal])
    <2> DEFINE f == [cost |-> Accumulated, total |-> Total, next |-> 1,
                     undo |-> NoUndo, entry |-> goal]
    <2>1. f \in AnyFrame /\ f.next = 1
      <3>1. NoUndo \in [keys : SUBSET Key, old : State]
        BY EmptyStateTyped DEF NoUndo
      <3> QED
        BY <1>2, <3>1 DEF AnyFrame
    <2>2. stack \in Seq(AnyFrame) /\ stack' = Append(stack, f)
      BY <1>7 DEF SearchInv, Typed
    <2> HIDE DEF f
    <2>3. /\ Len(stack') = Len(stack) + 1 /\ stack'[Len(stack) + 1] = f /\ Len(stack) \in Nat
          /\ \A i \in 1..Len(stack) : stack'[i] = stack[i]
      BY <2>1, <2>2, AppendToSeq, LenProperties
    <2>4. PassedAreLost(fits)'
      <3> SUFFICES ASSUME NEW i \in 1..Len(stack'), NEW j \in 1..Len(actions), j < stack'[i].next,
                          Fits(actions[j], stack'[i].entry, problem.start)
                   PROVE  Lost(problem, ToSet(actions), Regress(actions[j], stack'[i].entry),
                               stack'[i].cost + Cost[actions[j]], nextBound', fits)
        BY <1>1 DEF PassedAreLost, IsLost
      <3>1. i # Len(stack) + 1
        BY <2>1, <2>3
      <3>2. i \in 1..Len(stack) /\ stack'[i] = stack[i]
        BY <2>3, <3>1
      <3> QED
        BY <1>1, <1>3, <3>2, PassedStay
    <2>5. LeftIsLost(fits)'
      BY <1>7 DEF LeftIsLost
    <2> QED
      BY <1>5, <2>4, <2>5
  <1> QED
    BY <1>6, <1>7 DEF Enter

\* The innermost call is at another action, or has another undo log.
LEMMA TopPasses ==
    ASSUME SearchInv, NEW fits, LostInv(fits), phase # "idle", failure = "Success",
           UNCHANGED <<problem, actions, nextBound>>, stack # <<>>,
           NEW f \in AnyFrame, f.entry = Top.entry, f.cost = Top.cost, stack' = ReplaceTop(f),
           \A j \in 1..Len(actions) :
               (j < f.next /\ Fits(actions[j], Top.entry, problem.start)) =>
                   j < Top.next \/ IsLost(Regress(actions[j], Top.entry),
                                          Top.cost + Cost[actions[j]], fits)
    PROVE  PassedAreLost(fits)'
  <1>1. /\ Len(stack') = Len(stack) /\ stack'[Len(stack)] = f
        /\ \A i \in 1..(Len(stack) - 1) : stack'[i] = stack[i]
    BY TopReplaced
  <1>2. Top = stack[Len(stack)] /\ Len(stack) \in Nat \ {0} /\ Len(stack) \in 1..Len(stack)
    BY TopTyped
  <1> SUFFICES ASSUME NEW i \in 1..Len(stack), NEW j \in 1..Len(actions), j < stack'[i].next,
                      Fits(actions[j], stack'[i].entry, problem.start)
               PROVE  IsLost(Regress(actions[j], stack'[i].entry),
                             stack'[i].cost + Cost[actions[j]], fits)
    BY <1>1 DEF PassedAreLost, IsLost
  <1>3. CASE i \in 1..(Len(stack) - 1)
    BY <1>1, <1>3 DEF LostInv, PassedAreLost
  <1>4. CASE i = Len(stack)
    <2>1. j < Top.next \/ IsLost(Regress(actions[j], Top.entry),
                                 Top.cost + Cost[actions[j]], fits)
      BY <1>1, <1>4
    <2>2. j < Top.next => IsLost(Regress(actions[j], Top.entry),
                                 Top.cost + Cost[actions[j]], fits)
      BY <1>1, <1>2, <1>4 DEF LostInv, PassedAreLost
    <2> QED
      BY <1>1, <1>4, <2>1, <2>2
  <1> QED
    BY <1>2, <1>3, <1>4
\* A search begins at the estimate of its goal, and begins again at the next bound.
LEMMA BeginsLost ==
    ASSUME SearchInv, NEW fits, LostInv(fits), CallPlan \/ Deepen
    PROVE  LostInv(fits)'
  <1> SUFFICES ASSUME phase' # "idle" PROVE LostInv(fits)'
    <2> SUFFICES ASSUME phase' = "idle" PROVE LostInv(fits)'
      OBVIOUS
    <2>1. bound' = 0 /\ nextBound' = MaxInt
      BY DEF CallPlan, Deepen, Return
    <2> QED
      BY <2>1, NoSearch
  <1>1. /\ phase' = "enter" /\ stack' = <<>> /\ nextBound' = MaxInt
        /\ table' = Fresh(problem'.useTable, table)
    BY DEF CallPlan, Deepen, FirstReturned, Return, arguments
  <1>2. PassedAreLost(fits)' /\ LeftIsLost(fits)' /\ StoredAreLost(fits)'
    <2>1. Len(<<>>) = 0
      BY EmptySeq
    <2>2. problem'.useTable => DOMAIN table'.cost = {}
      BY <1>1, EmptyInStep DEF Fresh, EmptyTable
    <2>3. StoredAreLost(fits)'
      BY <2>2 DEF StoredAreLost
    <2> QED
      BY <1>1, <2>1, <2>3 DEF PassedAreLost, LeftIsLost
  <1>3. bound' \in Nat /\ BoundIsLow'
    <2>1. CASE CallPlan
      <3>1. /\ problem' \in Problem
            /\ bound' = Estimate(problem'.heuristic, problem'.start, problem'.goal)
        BY <1>1, <2>1 DEF CallPlan, Return
      <3>2. bound' \in Nat
        BY <3>1, ProblemTyped, EstimateIsNat
      <3>3. BoundIsLow'
        <4> SUFFICES ASSUME NEW s, NEW left, WayOf(problem', ToSet(actions'), s, left),
                            left[Len(s)] = problem'.goal, Honest(problem', s, left, Len(s))
                     PROVE  bound' <= SumCost(s)
          BY DEF BoundIsLow
        <4>1. Len(s) \in 0..Len(s) /\ SumCost(s) = Costs(s)[Len(s)]
          BY WayTyped DEF WayOf
        <4> QED
          BY <3>1, <4>1 DEF Honest
      <3> QED
        BY <3>2, <3>3
    <2>2. CASE Deepen
      <3>1. /\ UNCHANGED <<problem, actions>> /\ bound' = nextBound /\ phase = "back"
            /\ failure = "Success" /\ stack = <<>>
        BY <2>2 DEF Deepen, FirstReturned, Raised, arguments
      <3>2. nextBound \in 0..MaxInt /\ MaxInt \in Nat
        BY PlannerAssumption DEF LostInv
      <3>3. goal = problem.goal /\ Accumulated = 0
        BY <3>1 DEF SearchInv, Goals, Accumulated
      <3>4. Lost(problem, ToSet(actions), problem.goal, 0, nextBound, fits)
        BY <3>1, <3>3 DEF LostInv, LeftIsLost, IsLost
      <3>5. BoundIsLow'
        <4> SUFFICES ASSUME NEW s, NEW left, WayOf(problem, ToSet(actions), s, left),
                            left[Len(s)] = problem.goal, Honest(problem, s, left, Len(s))
                     PROVE  nextBound <= SumCost(s)
          BY <3>1 DEF BoundIsLow
        <4>1. Len(s) \in 0..Len(s) /\ SumCost(s) = Costs(s)[Len(s)] /\ SumCost(s) \in Nat
          BY WayTyped DEF WayOf
        <4>2. Missed(problem, s, left, Len(s), 0, nextBound, fits)
          BY <3>4, <4>1 DEF Lost
        <4> QED
          BY <4>1, <4>2 DEF Missed
      <3> QED
        BY <3>1, <3>2, <3>5
    <2> QED
      BY <2>1, <2>2
  <1> QED
    BY <1>1, <1>2, <1>3, PlannerAssumption DEF LostInv

\* The loop passes over an action the goal cannot be regressed through, calls the
\* search on another, and is past it when that call has failed.
LEMMA LoopKeepsLost ==
    ASSUME SearchInv, SearchInv', TableInv, PathInv, NEW fits, LostInv(fits),
           Skip \/ Descend \/ Backtrack
    PROVE  LostInv(fits)'
  <1>1. /\ UNCHANGED <<problem, actions>> /\ UNCHANGED <<bound, nextBound>>
        /\ UNCHANGED <<table, failure>> /\ phase \in {"loop", "back"}
        /\ phase' \in {"loop", "enter"} /\ stack # <<>>
    BY DEF Skip, Descend, Backtrack, InLoop, arguments, limits, context, SearchInv, Depths
  <1>2. nextBound' \in 0..MaxInt /\ nextBound' <= nextBound
    BY <1>1, PlannerAssumption DEF LostInv
  <1> SUFFICES ASSUME failure = "Success"
               PROVE  PassedAreLost(fits)' /\ LeftIsLost(fits)' /\ StoredAreLost(fits)'
    BY <1>1, <1>2, LostInvKept
  <1>3. StoredAreLost(fits)' /\ LeftIsLost(fits)'
    BY <1>1, <1>2, StoredStay DEF LeftIsLost
  <1>4. Top \in AnyFrame /\ Top.next \in Nat \ {0} /\ Top = stack[Len(stack)]
    BY <1>1, TopTyped
  <1>5. CASE Skip
    <2> DEFINE f == NextAction(Top)
    <2>1. stack' = ReplaceTop(f) /\ phase = "loop" /\ ~Usable(actions[Top.next])
      BY <1>5 DEF Skip, InLoop
    <2>2. /\ f \in AnyFrame /\ f.entry = Top.entry /\ f.cost = Top.cost
          /\ f.next = Top.next + 1
      BY <1>4 DEF AnyFrame, NextAction
    <2> HIDE DEF f
    <2>3. ~Fits(actions[Top.next], Top.entry, problem.start)
      BY <2>1 DEF Usable, Fits, SearchInv, Goals
    <2>4. \A j \in 1..Len(actions) :
              (j < f.next /\ Fits(actions[j], Top.entry, problem.start)) => j < Top.next
      BY <1>4, <2>2, <2>3
    <2>5. PassedAreLost(fits)'
      BY <1>1, <2>1, <2>2, <2>4, TopPasses
    <2> QED
      BY <1>3, <2>5
  <1>6. CASE Descend
    <2> DEFINE a == actions[Top.next]
               f == [Top EXCEPT !.undo = UndoLog(a, goal)]
    <2>1. stack' = ReplaceTop(f)
      BY <1>6 DEF Descend
    <2>2. a \in Action
      BY <1>6, LoopAction DEF Descend
    <2>3. UndoLog(a, goal) \in [keys : SUBSET Key, old : State]
      BY <2>2, UndoTyped DEF SearchInv, Typed
    <2>4. /\ f \in AnyFrame /\ f.entry = Top.entry /\ f.cost = Top.cost /\ f.next = Top.next
      BY <1>4, <2>3 DEF AnyFrame
    <2> HIDE DEF f
    <2>5. PassedAreLost(fits)'
      BY <1>1, <2>1, <2>4, TopPasses
    <2> QED
      BY <1>3, <2>5
  <1>7. CASE Backtrack
    <2> DEFINE h == [Top EXCEPT !.undo = NoUndo]
               f == NextAction(h)
    <2>1. stack' = ReplaceTop(f) /\ phase = "back"
      BY <1>7 DEF Backtrack
    <2>2. NoUndo \in [keys : SUBSET Key, old : State]
      BY EmptyStateTyped DEF NoUndo
    <2>3. /\ h \in AnyFrame /\ h.entry = Top.entry /\ h.cost = Top.cost /\ h.next = Top.next
      BY <1>4, <2>2 DEF AnyFrame
    <2> HIDE DEF h
    <2>4. /\ f \in AnyFrame /\ f.entry = Top.entry /\ f.cost = Top.cost
          /\ f.next = Top.next + 1
      BY <1>4, <2>3 DEF AnyFrame, NextAction
    <2> HIDE DEF f
    <2>5. /\ Last(plan) = actions[Top.next] /\ goal = Regress(Last(plan), Top.entry)
          /\ Accumulated = Top.cost + Cost[Last(plan)]
      <3>1. Last(plan) = plan[Len(stack)] /\ Len(plan) = Len(stack)
        BY <1>1, <2>1, LastAction
      <3>2. Len(stack) \in 1..Len(plan)
        BY <1>1, <3>1, TopTyped
      <3>3. plan[Len(stack)] = actions[Top.next]
        BY <1>4, <3>2 DEF PathInv, Trying
      <3>4. Accumulated = Top.cost + Cost[Last(plan)]
        BY <1>1 DEF Accumulated, Top
      <3> QED
        BY <1>1, <2>1, <3>1, <3>3, <3>4 DEF SearchInv, Goals
    <2>6. IsLost(goal, Accumulated, fits)
      BY <2>1 DEF LostInv, LeftIsLost
    <2>7. \A j \in 1..Len(actions) :
              (j < f.next /\ Fits(actions[j], Top.entry, problem.start)) =>
                  j < Top.next \/ IsLost(Regress(actions[j], Top.entry),
                                         Top.cost + Cost[actions[j]], fits)
      <3>1. \A j \in 1..Len(actions) : j < f.next => j < Top.next \/ j = Top.next
        BY <1>4, <2>4
      <3> QED
        BY <2>5, <2>6, <3>1
    <2>8. PassedAreLost(fits)'
      BY <1>1, <2>1, <2>4, <2>7, TopPasses
    <2> QED
      BY <1>3, <2>8
  <1> QED
    BY <1>5, <1>6, <1>7

\* A call that every action has failed in has failed on its goal.
LEMMA ExhaustKeepsLost ==
    ASSUME SearchInv, TableInv, PathInv, NEW fits, LostInv(fits), Exhaust
    PROVE  LostInv(fits)'
  <1>1. /\ UNCHANGED <<problem, actions>> /\ UNCHANGED <<bound, nextBound>>
        /\ UNCHANGED <<goal, plan, failure>> /\ phase = "loop" /\ phase' = "back"
        /\ stack # <<>> /\ stack' = Front(stack) /\ Top.next > Len(actions)
    BY DEF Exhaust, arguments, limits, context, SearchInv, Depths
  <1>2. nextBound \in 0..MaxInt /\ nextBound' \in 0..MaxInt /\ nextBound' <= nextBound
    BY <1>1, PlannerAssumption DEF LostInv
  <1> SUFFICES ASSUME failure = "Success"
               PROVE  PassedAreLost(fits)' /\ LeftIsLost(fits)' /\ StoredAreLost(fits)'
    BY <1>1, <1>2, LostInvKept
  <1>3. /\ Len(stack') = Len(stack) - 1 /\ Len(stack) \in Nat \ {0}
        /\ \A i \in 1..(Len(stack) - 1) : stack'[i] = stack[i]
        /\ stack' \in Seq(AnyFrame)
    BY <1>1, FrontOfSeq DEF SearchInv, Typed
  <1>4. /\ Top \in AnyFrame /\ Top.next \in Nat \ {0} /\ Top = stack[Len(stack)]
        /\ Top.cost \in Nat /\ Len(stack) \in 1..Len(stack)
    BY <1>1, <1>3, TopTyped
  <1>5. /\ goal = Top.entry /\ goal \in State /\ problem \in Problem
        /\ actions \in Seq(Action) /\ Len(plan) = Len(stack) - 1 /\ plan \in Seq(Action)
    BY <1>1 DEF SearchInv, Typed, Goals, Depths
  <1>6. PassedAreLost(fits)'
    <2>1. \A i \in 1..Len(stack') : i \in 1..Len(stack) /\ stack'[i] = stack[i]
      BY <1>3
    <2>2. PassedAreLost(fits)
      BY <1>1 DEF LostInv
    <2> QED
      BY <1>1, <2>1, <2>2 DEF PassedAreLost, IsLost
  <1>7. Lost(problem, ToSet(actions), goal, Top.cost, nextBound, fits)
    <2>1. ToSet(actions) \in SUBSET Action
      BY <1>5, ToSetOfSeq
    <2>2. ~SatisfiesGoal(problem.start, goal)
      BY <1>4, <1>5 DEF PathInv, Unreached
    <2>3. ASSUME NEW a \in ToSet(actions), Fits(a, goal, problem.start)
          PROVE  Lost(problem, ToSet(actions), Regress(a, goal), Top.cost + Cost[a],
                      nextBound, fits)
      <3>1. PICK j \in 1..Len(actions) : actions[j] = a
        BY <1>5 DEF ToSet
      <3>2. j < Top.next
        BY <1>1, <1>4, <1>5, LenProperties
      <3>3. PassedAreLost(fits)
        BY <1>1 DEF LostInv
      <3>4. IsLost(Regress(actions[j], stack[Len(stack)].entry),
                   stack[Len(stack)].cost + Cost[actions[j]], fits)
        BY <1>4, <1>5, <2>3, <3>1, <3>2, <3>3 DEF PassedAreLost
      <3> QED
        BY <1>4, <1>5, <3>1, <3>4 DEF IsLost
    <2> QED
      BY <1>2, <1>4, <2>1, <2>2, <2>3, LostExhausted
  <1>8. LeftIsLost(fits)'
    <2>1. Accumulated' = Top.cost
      <3>1. CASE stack' = <<>>
        <4>1. Len(stack) = 1
          BY <1>3, <3>1, EmptySeq
        <4>2. Top.cost = 0
          BY <1>1, <1>4, <4>1 DEF PathInv, Priced
        <4> QED
          BY <3>1, <4>2 DEF Accumulated
      <3>2. CASE stack' # <<>>
        <4>1. /\ Len(stack) - 1 \in 1..Len(stack') /\ Len(stack) \in 2..Len(stack)
              /\ Last(stack') = stack[Len(stack) - 1]
          <5>1. Last(stack') = stack'[Len(stack')] /\ Len(stack') \in Nat \ {0}
            BY <1>3, <3>2, FrontOfSeq
          <5>2. Len(stack) - 1 \in 1..Len(stack') /\ Len(stack) - 1 \in 1..(Len(stack) - 1)
            BY <1>3, <5>1
          <5> QED
            BY <1>3, <5>1, <5>2
        <4>2. Last(plan) = plan[Len(stack) - 1]
          BY <1>3, <1>5, <4>1, FrontOfSeq, EmptySeq
        <4>3. Top.cost = stack[Len(stack) - 1].cost + Cost[plan[Len(stack) - 1]]
          BY <1>4, <4>1 DEF PathInv, Priced
        <4> QED
          BY <1>1, <3>2, <4>1, <4>2, <4>3 DEF Accumulated
      <3> QED
        BY <3>1, <3>2
    <2> QED
      BY <1>1, <1>7, <2>1 DEF LeftIsLost, IsLost
  <1>9. StoredAreLost(fits)'
    <2> SUFFICES ASSUME problem.useTable, NEW g \in DOMAIN table'.cost
                 PROVE  Lost(problem, ToSet(actions), g,
                             table'.cost[g] - Estimate(problem.heuristic, problem.start, g),
                             nextBound, fits)
      BY <1>1 DEF StoredAreLost, IsLost
    <2>1. table' = Store(table, problem.tableSize, goal, Top.total)
      BY DEF Exhaust
    <2>2. Top.total \in Nat
      BY <1>1, TopTyped
    <2>3. \/ g = goal /\ table'.cost[g] = Top.total
          \/ g \in DOMAIN table.cost /\ table'.cost[g] = table.cost[g]
      BY <1>5, <2>1, <2>2, StoreHolds DEF TableInv
    <2>4. CASE g = goal /\ table'.cost[g] = Top.total
      <3>1. Top.total = Estimate(problem.heuristic, problem.start, goal) + Top.cost
        BY <1>4, <1>5 DEF PathInv, Unreached
      <3>2. Estimate(problem.heuristic, problem.start, goal) \in Nat
        BY <1>5, ProblemTyped, EstimateIsNat
      <3>3. table'.cost[g] - Estimate(problem.heuristic, problem.start, g) = Top.cost
        BY <1>4, <2>4, <3>1, <3>2
      <3> QED
        BY <1>7, <2>4, <3>3
    <2>5. CASE g \in DOMAIN table.cost /\ table'.cost[g] = table.cost[g]
      <3>1. StoredAreLost(fits)
        BY <1>1 DEF LostInv
      <3> QED
        BY <2>5, <3>1 DEF StoredAreLost, IsLost
    <2> QED
      BY <2>3, <2>4, <2>5
  <1> QED
    BY <1>6, <1>8, <1>9
\* The inductive step for what is lost.
LEMMA LostStep ==
    ASSUME SearchInv, SearchInv', TableInv, PathInv, NEW fits, fits => TotalsFit,
           LostInv(fits), [Next]_vars
    PROVE  LostInv(fits)'
  <1>1. CASE CallPlan \/ Deepen
    BY <1>1, BeginsLost
  <1>2. CASE Fail \/ NoSolution \/ Succeed
    <2>1. phase' = "idle" /\ bound' = 0 /\ nextBound' = MaxInt
      BY <1>2 DEF Fail, NoSolution, Succeed, Return
    <2> QED
      BY <2>1, NoSearch
  <1>3. CASE Abort
    <2>1. /\ UNCHANGED <<problem, actions, bound>> /\ nextBound' = nextBound
          /\ failure' # "Success" /\ phase # "idle" /\ phase' # "idle"
      BY <1>3 DEF Abort, arguments, limits
    <2>2. nextBound' \in 0..MaxInt
      BY <2>1 DEF LostInv
    <2> QED
      BY <2>1, <2>2, LostInvKept
  <1>4. CASE Enter
    BY <1>4, EnterKeepsLost
  <1>5. CASE Skip \/ Descend \/ Backtrack
    BY <1>5, LoopKeepsLost
  <1>6. CASE Exhaust
    BY <1>6, ExhaustKeepsLost
  <1>7. CASE Expire \/ UNCHANGED vars
    <2>1. /\ problem' = problem /\ actions' = actions /\ phase' = phase /\ goal' = goal
          /\ plan' = plan /\ stack' = stack /\ bound' = bound /\ nextBound' = nextBound
          /\ table' = table /\ failure' = failure
      BY <1>7 DEF Expire, vars, arguments, search, limits, context
    <2>2. Accumulated' = Accumulated /\ BoundIsLow' = BoundIsLow
      BY <2>1 DEF Accumulated, BoundIsLow
    <2>3. /\ PassedAreLost(fits)' = PassedAreLost(fits)
          /\ LeftIsLost(fits)' = LeftIsLost(fits)
          /\ StoredAreLost(fits)' = StoredAreLost(fits)
      BY <2>1, <2>2 DEF PassedAreLost, LeftIsLost, StoredAreLost, IsLost
    <2> QED
      BY <2>1, <2>2, <2>3 DEF LostInv
  <1> QED
    BY <1>1, <1>2, <1>3, <1>4, <1>5, <1>6, <1>7 DEF Next, Step

\* Nothing is lost before the first call.
LEMMA InitLost ==
    ASSUME Init, NEW fits
    PROVE  LostInv(fits)
  BY PlannerAssumption DEF Init, LostInv

\* The table as TableInv says, in every behaviour.
LEMMA TableHolds == Spec => []TableInv
  <1>1. Init => TableInv
    BY EmptyInStep DEF Init, TableInv
  <1> QED
    BY <1>1, TableStep, SearchHolds, PTL DEF Spec

\* What a search leaves behind costs no less than its bounds, in every behaviour.
LEMMA LostHolds == Spec => []LostInv(FALSE)
  <1>1. Init => LostInv(FALSE)
    BY InitLost
  <1>2. SearchInv /\ SearchInv' /\ TableInv /\ PathInv /\ LostInv(FALSE) /\ [Next]_vars
            => LostInv(FALSE)'
    <2>1. FALSE => TotalsFit
      OBVIOUS
    <2> QED
      BY <2>1, LostStep
  <1> QED
    BY <1>1, <1>2, SearchHolds, TableHolds, PathHolds, PTL DEF Spec

\* ... and leaves a next bound, in every behaviour whose total costs fit.
LEMMA LostHoldsWithin == Spec /\ []TotalsFit => []LostInv(TRUE)
  <1>1. Init => LostInv(TRUE)
    BY InitLost
  <1>2. SearchInv /\ SearchInv' /\ TableInv /\ PathInv /\ TotalsFit /\ LostInv(TRUE) /\ [Next]_vars
            => LostInv(TRUE)'
    BY LostStep
  <1> QED
    BY <1>1, <1>2, SearchHolds, TableHolds, PathHolds, PTL DEF Spec

-----------------------------------------------------------------------------
(* The answer *)

\* The plan of a recursion that has found it, turned, goes from the initial state to
\* the goal and costs what the calls have added up.
LEMMA PlanTurned ==
    ASSUME SearchInv, PathInv, phase = "found"
    PROVE  \E left : /\ WayOf(problem, ToSet(actions), Reverse(plan), left)
                     /\ left[Len(Reverse(plan))] = problem.goal
                     /\ SumCost(Reverse(plan)) = Accumulated
  <1> DEFINE n == Len(plan)
             r == Reverse(plan)
             left == [i \in 0..n |-> IF i = 0 THEN goal ELSE stack[n + 1 - i].entry]
  <1>1. /\ plan \in Seq(Action) /\ n \in Nat /\ stack \in Seq(AnyFrame) /\ n = Len(stack)
        /\ goal \in State /\ \A i \in 1..n : plan[i] \in Action /\ plan[i] \in ToSet(actions)
    BY ElementOfSeq, LenProperties DEF SearchInv, Typed, Depths
  <1>2. r \in Seq(Action) /\ Len(r) = n /\ \A i \in 1..n : r[i] = plan[n + 1 - i]
    <2>1. r = [i \in 1..n |-> plan[(n - i) + 1]]
      BY DEF Reverse
    <2>2. \A i \in 1..n : (n - i) + 1 = n + 1 - i /\ n + 1 - i \in 1..n
      BY <1>1
    <2>3. r = [i \in 1..n |-> plan[n + 1 - i]]
      BY <2>1, <2>2
    <2>4. r \in [1..n -> Action]
      BY <1>1, <2>2, <2>3
    <2> HIDE DEF r
    <2> QED
      BY <1>1, <2>3, <2>4
  <1> HIDE DEF r
  <1>3. \A i \in 1..n : stack[i].entry \in State /\ stack[i].cost \in Nat
    <2>1. \A i \in 1..n : stack[i] \in AnyFrame
      BY <1>1, ElementOfSeq
    <2> QED
      BY <2>1 DEF AnyFrame
  <1>4. \A i \in 1..n : n + 1 - i \in 1..n
    BY <1>1
  <1>5. /\ left \in [0..n -> State] /\ left[0] = goal
        /\ \A i \in 1..n : left[i] = stack[n + 1 - i].entry
    BY <1>1, <1>3, <1>4
  <1> HIDE DEF left
  <1>6. ASSUME n # 0
        PROVE  /\ goal = Regress(plan[n], stack[n].entry)
               /\ Accumulated = stack[n].cost + Cost[plan[n]]
               /\ stack[1].entry = problem.goal /\ stack[1].cost = 0
    <2>1. stack # <<>>
      BY <1>1, <1>6, EmptySeq
    <2>2. Last(plan) = plan[n] /\ Top = stack[n]
      BY <1>1, <2>1, LastAction, TopTyped
    <2> QED
      BY <2>1, <2>2 DEF SearchInv, Goals, Chained, PathInv, Priced, Accumulated, Top
  <1>7. CASE n = 0
    <2>1. stack = <<>>
      BY <1>1, <1>7, EmptySeq
    <2>2. goal = problem.goal /\ Accumulated = 0
      BY <2>1 DEF SearchInv, Goals, Accumulated
    <2> QED
      BY <1>2, <1>5, <1>7, <2>2, CostsComputed DEF WayOf, Way, SumCost, PathInv, WithinBound
  <1>8. CASE n # 0
    <2>1. ASSUME NEW i \in 1..n
          PROVE  Fits(r[i], left[i], problem.start) /\ left[i - 1] = Regress(r[i], left[i])
      <3>1. n + 1 - i \in 1..n /\ r[i] = plan[n + 1 - i] /\ left[i] = stack[n + 1 - i].entry
        BY <1>2, <1>4, <1>5
      <3>2. Fits(r[i], left[i], problem.start)
        BY <3>1 DEF PathInv, Trying
      <3>3. CASE i = 1
        <4>1. n + 1 - i = n /\ i - 1 = 0
          BY <1>1, <3>3
        <4> QED
          BY <1>5, <1>6, <1>8, <3>1, <3>2, <4>1
      <3>4. CASE i # 1
        <4>1. i - 1 \in 1..n /\ n + 1 - (i - 1) \in 2..Len(stack)
              /\ n + 1 - (i - 1) - 1 = n + 1 - i
          BY <1>1, <3>4
        <4>2. stack[n + 1 - (i - 1)].entry = Regress(plan[n + 1 - i], stack[n + 1 - i].entry)
          BY <4>1 DEF SearchInv, Chained
        <4> QED
          BY <1>5, <3>1, <3>2, <4>1, <4>2
      <3> QED
        BY <3>3, <3>4
    <2>2. \A i \in 1..Len(r) : r[i] \in ToSet(actions)
      BY <1>1, <1>2, <1>4
    <2>3. left[n] = problem.goal
      <3>1. n \in 1..n /\ n + 1 - n = 1
        BY <1>1, <1>8
      <3> QED
        BY <1>5, <1>6, <1>8, <3>1
    <2>4. WayOf(problem, ToSet(actions), r, left)
      BY <1>2, <1>5, <2>1, <2>2 DEF WayOf, Way, PathInv, WithinBound
    <2> DEFINE c == Costs(r)
               T == {i \in Nat : i <= n - 1 => c[i + 1] + stack[n - i].cost = Accumulated}
    <2>5. /\ c \in [0..n -> Nat] /\ c[0] = 0
          /\ \A i \in 1..n : c[i] = c[i - 1] + Cost[plan[n + 1 - i]]
      BY <1>2, CostsComputed
    <2> HIDE DEF c
    <2>6. \A i \in 1..n : Cost[plan[i]] \in Nat
      BY <1>1, ActionTyped
    <2>7. 0 \in T
      <3>1. 1 \in 1..n /\ n \in 1..n /\ n + 1 - 1 = n /\ 1 - 1 = 0 /\ 0 + 1 = 1 /\ n - 0 = n
        BY <1>1, <1>8
      <3>2. c[1] = 0 + Cost[plan[n]]
        BY <2>5, <3>1
      <3>3. c[1] + stack[n].cost = Accumulated
        BY <1>3, <1>6, <1>8, <2>6, <3>1, <3>2
      <3> QED
        BY <3>1, <3>3
    <2>8. ASSUME NEW i \in Nat, i \in T PROVE i + 1 \in T
      <3> SUFFICES ASSUME i + 1 <= n - 1
                   PROVE  c[(i + 1) + 1] + stack[n - (i + 1)].cost = Accumulated
        OBVIOUS
      <3>1. /\ i + 1 \in 1..n /\ (i + 1) + 1 \in 1..n /\ n - i \in 2..Len(stack) /\ n - i \in 1..n
            /\ n - (i + 1) \in 1..n /\ n + 1 - ((i + 1) + 1) = n - (i + 1)
            /\ (i + 1) + 1 - 1 = i + 1 /\ n - i - 1 = n - (i + 1) /\ i + 1 \in 0..n
        BY <1>1
      <3>2. c[(i + 1) + 1] = c[i + 1] + Cost[plan[n - (i + 1)]]
        <4> DEFINE m == (i + 1) + 1
        <4>1. m \in 1..n /\ m - 1 = i + 1 /\ n + 1 - m = n - (i + 1)
          BY <3>1
        <4> HIDE DEF m
        <4>2. c[m] = c[m - 1] + Cost[plan[n + 1 - m]]
          BY <2>5, <4>1
        <4>3. c[m] = c[i + 1] + Cost[plan[n - (i + 1)]]
          BY <4>1, <4>2
        <4> QED
          BY <4>3 DEF m
      <3>3. stack[n - i].cost = stack[n - (i + 1)].cost + Cost[plan[n - (i + 1)]]
        BY <3>1 DEF PathInv, Priced
      <3>4. c[i + 1] + stack[n - i].cost = Accumulated
        BY <1>1, <2>8
      <3>5. /\ c[i + 1] \in Nat /\ Cost[plan[n - (i + 1)]] \in Nat
            /\ stack[n - (i + 1)].cost \in Nat
        BY <1>3, <2>5, <2>6, <3>1
      <3> QED
        BY <3>2, <3>3, <3>4, <3>5
    <2> HIDE DEF T
    <2>9. n - 1 \in T
      BY <1>1, <1>8, <2>7, <2>8, Upward
    <2>10. SumCost(r) = Accumulated
      <3>1. n - 1 <= n - 1 /\ (n - 1) + 1 = n /\ n - (n - 1) = 1
        BY <1>1
      <3>2. c[n] + stack[1].cost = Accumulated
        BY <2>9, <3>1 DEF T
      <3>3. c[n] \in Nat
        BY <1>1, <2>5
      <3> QED
        BY <1>2, <1>6, <1>8, <3>2, <3>3 DEF SumCost, c
    <2> QED
      BY <1>2, <2>3, <2>4, <2>10 DEF r
  <1> QED
    BY <1>7, <1>8
\* What is left of the problem's goal on a way to it.
LEMMA WayLeaves ==
    ASSUME NEW s, NEW left, Way(problem.start, s, left), left[Len(s)] = problem.goal,
           NEW i \in 0..Len(s)
    PROVE  OpenGoal(s, i) = left[i]
  BY WayRegresses DEF OpenGoal

\* A way whose actions help and shift no comparison is a plan that reaches the goal.
LEMMA WayReaches ==
    ASSUME problem \in Problem, NEW s, NEW left, Way(problem.start, s, left),
           left[Len(s)] = problem.goal, ~Shifts(s), \A i \in 1..Len(s) : Helps(s[i], left[i])
    PROVE  Reaches(s)
  <1>1. problem.start \in State
    BY ProblemTyped
  <1>2. s \in Seq(Action) /\ DOMAIN s = 1..Len(s)
    BY WayTyped
  <1>3. /\ \A i \in 1..Len(s) : CheckPreconditions(Pre[s[i]], Worlds(problem.start, s)[i - 1])
        /\ SatisfiesGoal(Worlds(problem.start, s)[Len(s)], left[Len(s)])
    BY <1>1, WayRuns
  <1> QED
    BY <1>2, <1>3 DEF Reaches

\* A way that neither spoils nor shifts anything is a plan that reaches the goal.
LEMMA WayReachesOrNot ==
    ASSUME problem \in Problem, NEW s, NEW left, Way(problem.start, s, left),
           left[Len(s)] = problem.goal
    PROVE  Reaches(s) \/ Spoils(s) \/ Shifts(s)
  <1> SUFFICES ASSUME ~Spoils(s), ~Shifts(s) PROVE Reaches(s)
    OBVIOUS
  <1>1. s \in Seq(Action) /\ DOMAIN s = 1..Len(s)
    BY WayTyped
  <1>2. ASSUME NEW i \in 1..Len(s) PROVE Helps(s[i], left[i])
    <2>1. OpenGoal(s, i) = left[i]
      BY WayLeaves
    <2> QED
      BY <1>1, <2>1 DEF Spoils, Helps
  <1> QED
    BY <1>2, WayReaches

\* A plan that the search finds, no dearer than another.
Finds(t, left, s) ==
    /\ WayOf(problem, ToSet(actions), t, left) /\ left[Len(t)] = problem.goal
    /\ t \in Rival /\ Reaches(t) /\ SumCost(t) <= SumCost(s)

\* Where comparisons do not depend on what actions do, there is one for every plan
\* that reaches the goal.
LEMMA RivalFound ==
    ASSUME SearchInv, ComparesConstants, NEW s \in Rival, Reaches(s)
    PROVE  s \in Seq(Action) /\ \E t, left : Finds(t, left, s)
  <1>1. /\ problem \in Problem /\ problem.start \in State /\ problem.goal \in State
        /\ actions \in Seq(Action) /\ ToSet(actions) \subseteq Action /\ MaxRival \in Nat
    <2>1. problem \in Problem /\ actions \in Seq(Action)
      BY DEF SearchInv, Typed
    <2>2. ToSet(actions) \subseteq Action
      BY <2>1, ToSetOfSeq
    <2> QED
      BY <2>1, <2>2, ProblemTyped, PlannerAssumption
  <1>2. PICK n \in 0..MaxRival : s \in [1..n -> ToSet(actions)]
    BY DEF Rival
  <1>3. n \in Nat /\ s \in [1..n -> Action]
    BY <1>1, <1>2
  <1>4. s \in Seq(Action) /\ Len(s) = n /\ DOMAIN s = 1..n
    <2>1. s \in Seq(Action) /\ DOMAIN s = 1..n
      BY <1>3
    <2> QED
      BY <1>3, <2>1, LenProperties
  <1>5. \A i, j \in 1..Len(s) :
            \A k \in Keys(Pre[s[i]]) \ Equalities(s[i]) : Eff[s[j]][k] = Absent
    BY <1>2, <1>4 DEF ComparesConstants
  <1>6. /\ \A i \in 1..Len(s) : CheckPreconditions(Pre[s[i]], Worlds(problem.start, s)[i - 1])
        /\ SatisfiesGoal(Worlds(problem.start, s)[Len(s)], problem.goal)
    BY <1>4 DEF Reaches
  <1>7. PICK t, left : Found(problem.start, t, left, problem.goal) /\ Within(t, s, Len(s))
    BY <1>1, <1>4, <1>5, <1>6, PlanFound
  <1>8. /\ Way(problem.start, t, left) /\ left[Len(t)] = problem.goal
        /\ \A i \in 1..Len(t) : Helps(t[i], left[i])
    BY <1>7 DEF Found
  <1>9. t \in Seq(Action) /\ Len(t) \in Nat /\ DOMAIN t = 1..Len(t)
    BY <1>8, WayTyped
  <1>10. \A i \in 1..Len(t) : t[i] \in ToSet(actions)
    BY <1>2, <1>4, <1>7 DEF Within
  <1>11. t \in Rival
    <2>1. Len(t) \in 0..MaxRival
      BY <1>1, <1>2, <1>4, <1>7, <1>9 DEF Within
    <2>2. t \in [1..Len(t) -> ToSet(actions)]
      BY <1>9, <1>10
    <2> QED
      BY <2>1, <2>2 DEF Rival
  <1>12. ~Shifts(t)
    BY <1>9, <1>10 DEF Shifts, ComparesConstants
  <1>13. Reaches(t)
    BY <1>1, <1>8, <1>12, WayReaches
  <1>14. SumCost(t) <= SumCost(s)
    BY <1>7 DEF Within, SumCost
  <1> QED
    BY <1>4, <1>8, <1>10, <1>11, <1>13, <1>14 DEF Finds, WayOf

\* With an admissible heuristic no plan that is found costs less than the bound.
LEMMA BoundIsLeast ==
    ASSUME SearchInv, BoundIsLow, bound \in Nat, Admissible, ComparesConstants,
           NEW s \in Rival, Reaches(s)
    PROVE  bound <= SumCost(s)
  <1>1. PICK t, left : Finds(t, left, s)
    BY RivalFound
  <1>2. /\ WayOf(problem, ToSet(actions), t, left) /\ Way(problem.start, t, left)
        /\ left[Len(t)] = problem.goal /\ t \in Rival /\ Reaches(t)
        /\ SumCost(t) <= SumCost(s)
    BY <1>1 DEF Finds, WayOf
  <1>3. Honest(problem, t, left, Len(t))
    <2> SUFFICES ASSUME NEW i \in 0..Len(t)
                 PROVE  Estimate(problem.heuristic, problem.start, left[i]) <= Costs(t)[i]
      BY DEF Honest
    <2>1. OpenGoal(t, i) = left[i]
      BY <1>2, WayLeaves
    <2> QED
      BY <1>2, <2>1 DEF Admissible
  <1>4. bound <= SumCost(t)
    BY <1>2, <1>3 DEF BoundIsLow
  <1>5. SumCost(t) \in Nat /\ SumCost(s) \in Nat
    <2>1. s \in Seq(Action)
      BY RivalFound
    <2>2. Costs(s) \in [0..Len(s) -> Nat] /\ Len(s) \in Nat
      BY <2>1, CostsComputed, LenProperties
    <2> QED
      BY <1>2, <2>2, WayTyped DEF SumCost
  <1> QED
    BY <1>2, <1>4, <1>5
\* Running no action changes nothing.
LEMMA NothingRuns ==
    ASSUME NEW w \in State
    PROVE  /\ <<>> \in Seq(Action) /\ Len(<<>>) = 0 /\ DOMAIN <<>> = {}
           /\ Worlds(w, <<>>)[Len(<<>>)] = w /\ SumCost(<<>>) = 0
  <1>1. <<>> \in Seq(Action) /\ Len(<<>>) = 0 /\ DOMAIN <<>> = {}
    BY EmptySeq
  <1> QED
    BY <1>1, WorldsComputed, CostsComputed DEF SumCost

\* A search has no answer yet, and gives up for one of three reasons.
AnswerInv ==
    /\ phase # "idle" => result = NoResult
    /\ failure \in {"Success", "TimedOut", "DepthLimitReached", "NodeLimitReached"}

\* The inductive step for the answer.
LEMMA AnswerStep == AnswerInv /\ [Next]_vars => AnswerInv'
  <1> SUFFICES ASSUME AnswerInv, [Next]_vars PROVE AnswerInv'
    OBVIOUS
  <1>1. CASE CallPlan
    BY <1>1 DEF CallPlan, Return, AnswerInv
  <1>2. CASE Fail \/ NoSolution \/ Succeed
    <2>1. phase' = "idle" /\ failure' = failure
      BY <1>2 DEF Fail, NoSolution, Succeed, Return, context
    <2> QED
      BY <2>1 DEF AnswerInv
  <1>3. CASE Abort
    <2>1. phase = "enter" /\ result' = result
      BY <1>3 DEF Abort
    <2>2. failure' \in {"Success", "TimedOut", "DepthLimitReached", "NodeLimitReached"}
      BY <1>3 DEF Abort, AbortReason
    <2> QED
      BY <2>1, <2>2 DEF AnswerInv
  <1>4. CASE Deepen \/ Enter \/ Skip \/ Descend \/ Backtrack \/ Exhaust \/ Expire
    <2>1. phase # "idle" /\ result' = result /\ failure' = failure
      BY <1>4 DEF Deepen, FirstReturned, Enter, Skip, Descend, Backtrack, Exhaust, Expire,
                  InLoop, context
    <2> QED
      BY <2>1 DEF AnswerInv
  <1>5. CASE UNCHANGED vars
    <2>1. phase' = phase /\ result' = result /\ failure' = failure
      BY <1>5 DEF vars, context
    <2> QED
      BY <2>1 DEF AnswerInv
  <1> QED
    BY <1>1, <1>2, <1>3, <1>4, <1>5 DEF Next, Step

\* There is no answer during a search, in any behaviour.
LEMMA AnswerHolds == Spec => []AnswerInv
  <1>1. Init => AnswerInv
    BY DEF Init, AnswerInv
  <1> QED
    BY <1>1, AnswerStep, PTL DEF Spec

\* The steps that leave the answer and what it answers alone, or take it back.
Keeps ==
    \/ UNCHANGED <<problem, actions, result>>
    \/ result'.status \notin {"Success", "NoSolutionExists"}

\* plan() returns at once.
AtOnce ==
    /\ problem' \in Problem
    /\ \/ /\ SatisfiesGoal(problem'.start, problem'.goal)
          /\ result'.status = "Success" /\ result'.actions = <<>> /\ result'.cost = 0
       \/ /\ ~SatisfiesGoal(problem'.start, problem'.goal)
          /\ result'.status = "NoSolutionExists" /\ actions' = <<>>

\* ... after a search that has found a plan,
ByPlan ==
    /\ problem' = problem /\ actions' = actions /\ phase = "found"
    /\ result'.status = "Success" /\ result'.actions = Reverse(plan)
    /\ result'.cost = SumCost(Reverse(plan))

\* ... or one that has nothing beyond its bound.
ByFailure ==
    /\ problem' = problem /\ actions' = actions /\ phase = "back" /\ stack = <<>>
    /\ failure = "Success" /\ nextBound = MaxInt /\ result'.status = "NoSolutionExists"

\* Where answers come from.
LEMMA Answers ==
    ASSUME AnswerInv, [Next]_vars
    PROVE  Keeps \/ AtOnce \/ ByPlan \/ ByFailure
  <1>1. CASE CallPlan
    <2>1. PICK p \in Problem :
            /\ problem' = p
            /\ \/ /\ SatisfiesGoal(p.start, p.goal)
                  /\ result' = [NoResult EXCEPT !.status = "Success"]
               \/ /\ ~SatisfiesGoal(p.start, p.goal) /\ actions' = <<>>
                  /\ result' = [NoResult EXCEPT !.status = "NoSolutionExists"]
               \/ result' = NoResult
      BY <1>1 DEF CallPlan, Return
    <2> QED
      BY <2>1 DEF NoResult, AtOnce, Keeps
  <1>2. CASE Fail
    <2>1. result' = [NoResult EXCEPT !.status = failure] /\ failure # "Success"
      BY <1>2 DEF Fail, Return
    <2>2. result'.status = failure
      BY <2>1 DEF NoResult
    <2> QED
      BY <2>1, <2>2 DEF AnswerInv, Keeps
  <1>3. CASE NoSolution
    <2>1. /\ problem' = problem /\ actions' = actions /\ FirstReturned
          /\ failure = "Success" /\ nextBound = MaxInt
          /\ result' = [NoResult EXCEPT !.status = "NoSolutionExists"]
      BY <1>3 DEF NoSolution, Return, arguments
    <2> QED
      BY <2>1 DEF NoResult, FirstReturned, ByFailure
  <1>4. CASE Succeed
    <2>1. /\ problem' = problem /\ actions' = actions /\ phase = "found"
          /\ result' = [status |-> "Success", actions |-> Reverse(plan),
                        cost |-> SumCost(Reverse(plan))]
      BY <1>4 DEF Succeed, Return, arguments
    <2> QED
      BY <2>1 DEF ByPlan
  <1>5. CASE Deepen \/ Abort \/ Enter \/ Skip \/ Descend \/ Backtrack \/ Exhaust \/ Expire
             \/ UNCHANGED vars
    <2>1. problem' = problem /\ actions' = actions /\ result' = result
      BY <1>5 DEF Deepen, Abort, Enter, Skip, Descend, Backtrack, Exhaust, Expire, vars, arguments
    <2> QED
      BY <2>1 DEF Keeps
  <1> QED
    BY <1>1, <1>2, <1>3, <1>4, <1>5 DEF Next, Step

\* What the properties say of a problem depends on nothing else.
LEMMA SameProblem ==
    ASSUME problem' = problem, actions' = actions
    PROVE  /\ \A s : Reaches(s)' = Reaches(s) /\ Spoils(s)' = Spoils(s)
           /\ Rival' = Rival /\ ComparesConstants' = ComparesConstants
           /\ Admissible' = Admissible
  <1>1. \A s : Reaches(s)' = Reaches(s)
    BY DEF Reaches
  <1>2. \A s, i : OpenGoal(s, i)' = OpenGoal(s, i)
    BY DEF OpenGoal
  <1>3. \A s : Spoils(s)' = Spoils(s)
    BY <1>2 DEF Spoils
  <1>4. Rival' = Rival /\ ComparesConstants' = ComparesConstants
    BY DEF Rival, ComparesConstants
  <1>5. Admissible' = Admissible
    BY <1>1, <1>2, <1>4 DEF Admissible
  <1> QED
    BY <1>1, <1>3, <1>4, <1>5
\* The inductive step for the plans that are returned.
LEMMA ReachStep ==
    SearchInv /\ PathInv /\ AnswerInv /\ PlanReaches /\ [Next]_vars => PlanReaches'
  <1> SUFFICES ASSUME SearchInv, PathInv, AnswerInv, PlanReaches, [Next]_vars,
                      result'.status = "Success", NEW s, s = result'.actions
               PROVE  Reaches(s)' \/ Spoils(s)' \/ Shifts(s)
    BY DEF PlanReaches, Reaches, Spoils, OpenGoal
  <1>1. CASE Keeps
    <2>1. UNCHANGED <<problem, actions, result>>
      BY <1>1 DEF Keeps
    <2>2. s = result.actions /\ result.status = "Success"
      BY <2>1
    <2>3. Reaches(s) \/ Spoils(s) \/ Shifts(s)
      BY <2>2 DEF PlanReaches
    <2> QED
      BY <2>1, <2>3, SameProblem
  <1>2. CASE AtOnce
    <2>1. problem' \in Problem /\ SatisfiesGoal(problem'.start, problem'.goal) /\ s = <<>>
      BY <1>2 DEF AtOnce
    <2>2. problem'.start \in State
      BY <2>1, ProblemTyped
    <2>3. Reaches(s)'
      BY <2>1, <2>2, NothingRuns DEF Reaches
    <2> QED
      BY <2>3
  <1>3. CASE ByPlan
    <2>1. problem' = problem /\ actions' = actions /\ phase = "found" /\ s = Reverse(plan)
      BY <1>3 DEF ByPlan
    <2>2. PICK left : WayOf(problem, ToSet(actions), s, left) /\ left[Len(s)] = problem.goal
      BY <2>1, PlanTurned
    <2>3. Reaches(s) \/ Spoils(s) \/ Shifts(s)
      BY <2>2, WayReachesOrNot DEF SearchInv, Typed, WayOf
    <2> QED
      BY <2>1, <2>3, SameProblem
  <1>4. ~ByFailure
    BY DEF ByFailure
  <1> QED
    BY <1>1, <1>2, <1>3, <1>4, Answers

\* A plan that is returned runs and reaches the goal, for all actions, goals,
\* heuristics and options, unless its actions undo what later ones or the goal need,
\* or change what later ones compare (rida_planner.cpp:92-190).
THEOREM PlansReachTheGoal == Spec => []PlanReaches
  <1>1. Init => PlanReaches
    BY DEF Init, PlanReaches, NoResult
  <1> QED
    BY <1>1, ReachStep, SearchHolds, PathHolds, AnswerHolds, PTL DEF Spec

\* The inductive step for the cost of the plans that are returned.
LEMMA CheapStep ==
    SearchInv /\ PathInv /\ LostInv(FALSE) /\ AnswerInv /\ PlanIsCheapest /\ SearchInv' /\ [Next]_vars
        => PlanIsCheapest'
  <1> SUFFICES ASSUME SearchInv, PathInv, LostInv(FALSE), AnswerInv, PlanIsCheapest, SearchInv',
                      [Next]_vars,
                      result'.status = "Success", Admissible', ComparesConstants',
                      NEW s \in Rival', Reaches(s)'
               PROVE  SumCost(s) >= result'.cost
    BY DEF PlanIsCheapest
  <1>1. CASE Keeps
    <2>1. UNCHANGED <<problem, actions, result>>
      BY <1>1 DEF Keeps
    <2>2. /\ s \in Rival /\ Reaches(s) /\ Admissible /\ ComparesConstants
      BY <2>1, SameProblem
    <2> QED
      BY <2>1, <2>2 DEF PlanIsCheapest
  <1>2. CASE AtOnce
    <2>1. result'.cost = 0
      BY <1>2 DEF AtOnce
    <2>2. s \in Seq(Action)
      <3>1. PICK n \in 0..MaxRival : s \in [1..n -> ToSet(actions')]
        BY DEF Rival
      <3>2. n \in Nat
        BY <3>1, PlannerAssumption
      <3>3. actions' \in Seq(Action)
        BY DEF SearchInv, Typed
      <3>4. ToSet(actions') \subseteq Action
        BY <3>3, ToSetOfSeq
      <3>5. s \in [1..n -> Action]
        BY <3>1, <3>4
      <3> QED
        BY <3>2, <3>5
    <2>3. SumCost(s) \in Nat
      <3>1. Costs(s) \in [0..Len(s) -> Nat] /\ Len(s) \in Nat
        BY <2>2, CostsComputed, LenProperties
      <3> QED
        BY <3>1 DEF SumCost
    <2> QED
      BY <2>1, <2>3
  <1>3. CASE ByPlan
    <2>1. /\ problem' = problem /\ actions' = actions /\ phase = "found"
          /\ result'.cost = SumCost(Reverse(plan))
      BY <1>3 DEF ByPlan
    <2>2. s \in Rival /\ Reaches(s) /\ Admissible /\ ComparesConstants
      BY <2>1, SameProblem
    <2>3. PICK left : /\ WayOf(problem, ToSet(actions), Reverse(plan), left)
                      /\ SumCost(Reverse(plan)) = Accumulated
      BY <2>1, PlanTurned
    <2>4. SumCost(Reverse(plan)) \in Nat
      BY <2>3, WayTyped DEF WayOf
    <2>5. Accumulated <= bound
      <3>1. Estimate(problem.heuristic, problem.start, goal) \in Nat
        BY EstimateIsNat, ProblemTyped DEF SearchInv, Typed
      <3>2. Total <= bound
        BY <2>1 DEF PathInv, WithinBound
      <3>3. bound \in Nat
        BY DEF LostInv
      <3> QED
        BY <2>3, <2>4, <3>1, <3>2, <3>3 DEF Total
    <2>6. bound \in Nat /\ BoundIsLow
      BY <2>1 DEF LostInv
    <2>7. bound <= SumCost(s)
      BY <2>2, <2>6, BoundIsLeast
    <2>8. SumCost(s) \in Nat
      <3>1. s \in Seq(Action)
        BY <2>2, RivalFound
      <3>2. Costs(s) \in [0..Len(s) -> Nat] /\ Len(s) \in Nat
        BY <3>1, CostsComputed, LenProperties
      <3> QED
        BY <3>2 DEF SumCost
    <2> QED
      BY <2>1, <2>3, <2>4, <2>5, <2>6, <2>7, <2>8
  <1>4. ~ByFailure
    BY DEF ByFailure
  <1> QED
    BY <1>1, <1>2, <1>3, <1>4, Answers

\* With an admissible heuristic no plan is cheaper than the one returned, for all
\* actions, goals, options and lengths of the plans it is compared with
\* (Documentation.md:351, rida_planner.cpp:324-388): what the table prunes, a limit
\* cuts or a round of the search leaves is never a cheaper plan.
THEOREM CheapestPlanIsReturned == Spec => []PlanIsCheapest
  <1>1. Init => PlanIsCheapest
    BY DEF Init, PlanIsCheapest, NoResult
  <1> QED
    BY <1>1, CheapStep, SearchHolds, PathHolds, LostHolds, AnswerHolds, PTL DEF Spec

\* The inductive step for the answer that there is no plan.
LEMMA NoneStep ==
    SearchInv /\ LostInv(TRUE) /\ AnswerInv /\ NoSolutionIsRight /\ [Next]_vars
        => NoSolutionIsRight'
  <1> SUFFICES ASSUME SearchInv, LostInv(TRUE), AnswerInv, NoSolutionIsRight, [Next]_vars,
                      result'.status = "NoSolutionExists", ComparesConstants',
                      NEW s \in Rival', Reaches(s)'
               PROVE  FALSE
    BY DEF NoSolutionIsRight
  <1>1. CASE Keeps
    <2>1. UNCHANGED <<problem, actions, result>>
      BY <1>1 DEF Keeps
    <2>2. s \in Rival /\ Reaches(s) /\ ComparesConstants
      BY <2>1, SameProblem
    <2> QED
      BY <2>1, <2>2 DEF NoSolutionIsRight
  <1>2. CASE AtOnce
    <2>1. /\ problem' \in Problem /\ ~SatisfiesGoal(problem'.start, problem'.goal)
          /\ actions' = <<>>
      BY <1>2 DEF AtOnce
    <2>2. PICK n \in 0..MaxRival : s \in [1..n -> ToSet(actions')]
      BY DEF Rival
    <2>3. ToSet(actions') = {}
      BY <2>1, NothingRuns DEF ToSet
    <2>4. n \in Nat
      BY <2>2, PlannerAssumption
    <2>5. n = 0
      <3>1. \A i \in 1..n : s[i] \in {}
        BY <2>2, <2>3
      <3>2. n # 0 => 1 \in 1..n
        BY <2>4
      <3> QED
        BY <3>1, <3>2
    <2>6. s \in [1..0 -> Action]
      BY <2>2, <2>3, <2>5
    <2>7. s = <<>>
      BY <2>6
    <2>8. problem'.start \in State
      BY <2>1, ProblemTyped
    <2>9. SatisfiesGoal(Worlds(problem'.start, s)[Len(s)], problem'.goal)
      BY DEF Reaches
    <2> QED
      BY <2>1, <2>7, <2>8, <2>9, NothingRuns
  <1>3. ~ByPlan
    BY DEF ByPlan
  <1>4. CASE ByFailure
    <2>1. /\ problem' = problem /\ actions' = actions /\ phase = "back" /\ stack = <<>>
          /\ failure = "Success" /\ nextBound = MaxInt
      BY <1>4 DEF ByFailure
    <2>2. s \in Rival /\ Reaches(s) /\ ComparesConstants
      BY <2>1, SameProblem
    <2>3. PICK t, left : Finds(t, left, s)
      BY <2>2, RivalFound
    <2>4. WayOf(problem, ToSet(actions), t, left) /\ left[Len(t)] = problem.goal
      BY <2>3 DEF Finds
    <2>5. Len(t) \in 0..Len(t)
      BY <2>4, WayTyped DEF WayOf
    <2>6. goal = problem.goal
      BY <2>1 DEF SearchInv, Goals
    <2>7. Lost(problem, ToSet(actions), problem.goal, Accumulated, nextBound, TRUE)
      BY <2>1, <2>6 DEF LostInv, LeftIsLost, IsLost
    <2>8. Missed(problem, t, left, Len(t), Accumulated, nextBound, TRUE)
      BY <2>4, <2>5, <2>7 DEF Lost
    <2> QED
      BY <2>1, <2>8 DEF Missed
  <1> QED
    BY <1>1, <1>2, <1>3, <1>4, Answers

\* NoSolutionExists is the answer only if no plan reaches the goal (plan_result.h:17),
\* where comparisons do not depend on what actions do, for all actions, goals,
\* heuristics and options, admissible or not, as long as no total cost comes up to
\* the number that stands for no next bound (rida_planner.cpp:365).
THEOREM NoPlanIsMissed == Spec /\ []TotalsFit => []NoSolutionIsRight
  <1>1. Init => NoSolutionIsRight
    BY DEF Init, NoSolutionIsRight, NoResult
  <1> QED
    BY <1>1, NoneStep, SearchHolds, LostHoldsWithin, AnswerHolds, PTL DEF Spec
-----------------------------------------------------------------------------
(* The types of the variables *)

\* The types that the search does not need, and where the calls are in their loops.
RestTyped ==
    /\ calls \in 0..MaxCalls /\ due \in BOOLEAN /\ nodes \in Nat
    /\ ToSet(actions) \subseteq problem.available
    /\ \A i \in 1..Len(stack) : stack[i].next <= Len(actions) + 1
    /\ result.status \in Status \cup {"none"}

\* The actions and the calls of a step that changes neither the problem nor the actions.
LEMMA RestKept ==
    ASSUME RestTyped, UNCHANGED <<problem, actions>>, calls' = calls, due' \in BOOLEAN,
           nodes' \in Nat, result'.status \in Status \cup {"none"},
           \A i \in 1..Len(stack') : stack'[i].next <= Len(actions) + 1
    PROVE  RestTyped'
  BY DEF RestTyped

\* The types hold when plan() is called, and may return at once.
LEMMA CallKeepsRest == RestTyped /\ CallPlan => RestTyped'
  <1> SUFFICES ASSUME RestTyped, CallPlan PROVE RestTyped'
    OBVIOUS
  <1>1. /\ calls < MaxCalls /\ calls' = calls + 1 /\ nodes' = 0 /\ due' = FALSE /\ stack' = <<>>
        /\ \/ result' = [NoResult EXCEPT !.status = "Success"]
           \/ result' = [NoResult EXCEPT !.status = "NoSolutionExists"]
           \/ result' = NoResult
    BY DEF CallPlan, Return
  <1>2. PICK p \in Problem : \E usable \in SUBSET p.available :
            /\ problem' = p /\ actions' \in SortedByCost(usable) \cup {<<>>}
    BY DEF CallPlan, Return
  <1>3. PICK usable \in SUBSET p.available :
            problem' = p /\ actions' \in SortedByCost(usable) \cup {<<>>}
    BY <1>2
  <1>4. ToSet(actions') \subseteq problem'.available
    <2>1. ToSet(<<>>) = {}
      BY NothingRuns, EmptyStateTyped DEF ToSet
    <2>2. usable \in SUBSET Action
      BY <1>2, ProblemTyped
    <2>3. actions' = <<>> \/ ToSet(actions') \subseteq usable
      BY <1>3, <2>2, SortedActions
    <2> QED
      BY <1>3, <2>1, <2>3
  <1>5. calls' \in 0..MaxCalls
    BY <1>1, PlannerAssumption DEF RestTyped
  <1>6. result'.status \in Status \cup {"none"}
    BY <1>1 DEF NoResult, Status
  <1>7. \A i \in 1..Len(stack') : stack'[i].next <= Len(actions') + 1
    <2>1. Len(<<>>) = 0
      BY EmptySeq
    <2> QED
      BY <1>1, <2>1
  <1>8. due' \in BOOLEAN /\ nodes' \in Nat
    BY <1>1
  <1> QED
    BY <1>4, <1>5, <1>6, <1>7, <1>8 DEF RestTyped

\* A call whose loop goes on is at most past its last action.
LEMMA TopStaysWithin ==
    ASSUME SearchInv, RestTyped, stack # <<>>, NEW f \in AnyFrame, f.entry = Top.entry,
           f.next <= Len(actions) + 1, stack' = ReplaceTop(f)
    PROVE  \A i \in 1..Len(stack') : stack'[i].next <= Len(actions) + 1
  <1>1. /\ Len(stack') = Len(stack) /\ stack'[Len(stack)] = f
        /\ \A i \in 1..(Len(stack) - 1) : stack'[i] = stack[i]
    BY TopReplaced
  <1>2. Len(stack) \in Nat \ {0}
    BY TopTyped
  <1>3. \A i \in 1..Len(stack') : i \in 1..(Len(stack) - 1) \/ i = Len(stack)
    BY <1>1, <1>2
  <1>4. \A i \in 1..(Len(stack) - 1) : i \in 1..Len(stack)
    BY <1>2
  <1> QED
    BY <1>1, <1>3, <1>4 DEF RestTyped

\* The inductive step for the types.
LEMMA RestStep ==
    SearchInv /\ SearchInv' /\ PathInv /\ AnswerInv /\ RestTyped /\ [Next]_vars => RestTyped'
  <1> SUFFICES ASSUME SearchInv, SearchInv', PathInv, AnswerInv, RestTyped, [Next]_vars
               PROVE  RestTyped'
    OBVIOUS
  <1>1. actions \in Seq(Action) /\ Len(actions) \in Nat
    BY LenProperties DEF SearchInv, Typed
  <1>2. result.status \in Status \cup {"none"}
    BY DEF RestTyped
  <1>3. CASE CallPlan
    BY <1>3, CallKeepsRest
  <1>4. CASE Fail \/ NoSolution \/ Succeed
    <2>1. /\ UNCHANGED <<problem, actions>> /\ calls' = calls /\ due' = FALSE /\ nodes' = nodes
          /\ stack' = <<>>
          /\ \/ result' = [NoResult EXCEPT !.status = failure]
             \/ result' = [NoResult EXCEPT !.status = "NoSolutionExists"]
             \/ result' = [status |-> "Success", actions |-> Reverse(plan),
                           cost |-> SumCost(Reverse(plan))]
      BY <1>4 DEF Fail, NoSolution, Succeed, Return, arguments, context
    <2>2. result'.status \in Status \cup {"none"}
      <3>1. result'.status \in {failure, "NoSolutionExists", "Success"}
        BY <2>1 DEF NoResult
      <3>2. failure \in Status
        BY DEF AnswerInv, Status
      <3> QED
        BY <3>1, <3>2 DEF Status
    <2>3. \A i \in 1..Len(stack') : stack'[i].next <= Len(actions) + 1
      <3>1. Len(<<>>) = 0
        BY EmptySeq
      <3> QED
        BY <2>1, <3>1
    <2>4. due' \in BOOLEAN /\ nodes' \in Nat
      BY <2>1 DEF RestTyped
    <2> QED
      BY <2>1, <2>2, <2>3, <2>4, RestKept
  <1>5. CASE Deepen \/ Abort \/ Expire \/ UNCHANGED vars
    <2>1. /\ UNCHANGED <<problem, actions>> /\ calls' = calls /\ due' \in BOOLEAN /\ nodes' = nodes
          /\ stack' = stack /\ result' = result
      BY <1>5 DEF Deepen, Abort, Expire, vars, arguments, search, context, RestTyped
    <2> QED
      BY <1>2, <2>1, RestKept DEF RestTyped
  <1>6. CASE Enter
    <2>1. /\ UNCHANGED <<problem, actions>> /\ calls' = calls /\ due' \in BOOLEAN /\ nodes' \in Nat
          /\ result' = result /\ phase = "enter"
      BY <1>6 DEF Enter, arguments, RestTyped
    <2>2. CASE stack' = stack
      BY <1>2, <2>1, <2>2, RestKept DEF RestTyped
    <2>3. CASE stack' = Append(stack, [cost |-> Accumulated, total |-> Total, next |-> 1,
                                       undo |-> NoUndo, entry |-> goal])
      <3> DEFINE f == [cost |-> Accumulated, total |-> Total, next |-> 1,
                       undo |-> NoUndo, entry |-> goal]
      <3>1. f.next = 1 /\ stack' = Append(stack, f)
        BY <2>3
      <3>2. f \in AnyFrame
        <4>1. Accumulated \in Nat /\ Total \in Nat /\ goal \in State
          BY <2>1, TotalIsNat DEF SearchInv, Typed
        <4>2. NoUndo \in [keys : SUBSET Key, old : State]
          BY EmptyStateTyped DEF NoUndo
        <4> QED
          BY <4>1, <4>2 DEF AnyFrame
      <3> HIDE DEF f
      <3>3. /\ Len(stack') = Len(stack) + 1 /\ stack'[Len(stack) + 1] = f /\ Len(stack) \in Nat
            /\ \A i \in 1..Len(stack) : stack'[i] = stack[i]
        BY <3>1, <3>2, AppendToSeq, LenProperties DEF SearchInv, Typed
      <3>4. \A i \in 1..Len(stack') : i \in 1..Len(stack) \/ i = Len(stack) + 1
        BY <3>3
      <3>5. \A i \in 1..Len(stack') : stack'[i].next <= Len(actions) + 1
        BY <1>1, <3>1, <3>3, <3>4 DEF RestTyped
      <3> QED
        BY <1>2, <2>1, <3>5, RestKept
    <2> QED
      BY <1>6, <2>2, <2>3 DEF Enter
  <1>7. CASE Skip \/ Descend \/ Backtrack
    <2>1. /\ UNCHANGED <<problem, actions>> /\ calls' = calls /\ due' \in BOOLEAN /\ nodes' \in Nat
          /\ result' = result /\ stack # <<>>
      BY <1>7 DEF Skip, Descend, Backtrack, InLoop, arguments, context, RestTyped, SearchInv, Depths
    <2>2. /\ Top \in AnyFrame /\ Top.next \in Nat \ {0} /\ Top = stack[Len(stack)]
          /\ Len(stack) \in 1..Len(stack)
      BY <2>1, TopTyped
    <2>3. \E f \in AnyFrame : /\ f.entry = Top.entry /\ f.next <= Len(actions) + 1
                              /\ stack' = ReplaceTop(f)
      <3>1. CASE Skip
        <4>1. stack' = ReplaceTop(NextAction(Top)) /\ Top.next <= Len(actions)
          BY <3>1 DEF Skip, InLoop
        <4>2. /\ NextAction(Top) \in AnyFrame /\ NextAction(Top).entry = Top.entry
              /\ NextAction(Top).next = Top.next + 1
          BY <2>2 DEF AnyFrame, NextAction
        <4> QED
          BY <1>1, <2>2, <4>1, <4>2
      <3>2. CASE Descend
        <4> DEFINE a == actions[Top.next]
                   f == [Top EXCEPT !.undo = UndoLog(a, goal)]
        <4>1. stack' = ReplaceTop(f) /\ Top.next <= Len(actions)
          BY <3>2 DEF Descend, InLoop
        <4>2. a \in Action
          BY <3>2, LoopAction DEF Descend
        <4>3. UndoLog(a, goal) \in [keys : SUBSET Key, old : State]
          BY <4>2, UndoTyped DEF SearchInv, Typed
        <4>4. f \in AnyFrame /\ f.entry = Top.entry /\ f.next = Top.next
          BY <2>2, <4>3 DEF AnyFrame
        <4> HIDE DEF f
        <4> QED
          BY <1>1, <2>2, <4>1, <4>4
      <3>3. CASE Backtrack
        <4> DEFINE h == [Top EXCEPT !.undo = NoUndo]
        <4>1. stack' = ReplaceTop(NextAction(h)) /\ phase = "back"
          BY <3>3 DEF Backtrack
        <4>2. NoUndo \in [keys : SUBSET Key, old : State]
          BY EmptyStateTyped DEF NoUndo
        <4>3. h \in AnyFrame /\ h.entry = Top.entry /\ h.next = Top.next
          BY <2>2, <4>2 DEF AnyFrame
        <4> HIDE DEF h
        <4>4. /\ NextAction(h) \in AnyFrame /\ NextAction(h).entry = Top.entry
              /\ NextAction(h).next = Top.next + 1
          BY <2>2, <4>3 DEF AnyFrame, NextAction
        <4>5. Top.next \in 1..Len(actions)
          <5>1. Len(stack) \in 1..Len(plan)
            BY <2>2, <4>1 DEF SearchInv, Depths
          <5> QED
            BY <2>2, <5>1 DEF PathInv, Trying
        <4> QED
          BY <1>1, <2>2, <4>1, <4>4, <4>5
      <3> QED
        BY <1>7, <3>1, <3>2, <3>3
    <2>4. \A i \in 1..Len(stack') : stack'[i].next <= Len(actions) + 1
      BY <2>1, <2>3, TopStaysWithin
    <2> QED
      BY <1>2, <2>1, <2>4, RestKept
  <1>8. CASE Exhaust
    <2>1. /\ UNCHANGED <<problem, actions>> /\ calls' = calls /\ due' = due /\ nodes' = nodes
          /\ result' = result /\ stack # <<>> /\ stack' = Front(stack)
      BY <1>8 DEF Exhaust, arguments, context, SearchInv, Depths
    <2>2. /\ Len(stack') = Len(stack) - 1 /\ Len(stack) \in Nat \ {0}
          /\ \A i \in 1..(Len(stack) - 1) : stack'[i] = stack[i]
      BY <2>1, FrontOfSeq DEF SearchInv, Typed
    <2>3. \A i \in 1..Len(stack') : i \in 1..Len(stack) /\ stack'[i] = stack[i]
      BY <2>2
    <2> QED
      BY <1>2, <2>1, <2>3, RestKept DEF RestTyped
  <1> QED
    BY <1>3, <1>4, <1>5, <1>6, <1>7, <1>8 DEF Next, Step

\* The variables of a search keep to their types and ranges: the loop of no call runs
\* past its actions, and no next bound above the greatest int is kept.
THEOREM TypesHold == Spec => []TypeOK
  <1>1. Init => RestTyped
    <2> SUFFICES ASSUME Init PROVE RestTyped
      OBVIOUS
    <2>1. ToSet(<<>>) = {} /\ Len(<<>>) = 0
      BY NothingRuns, EmptyStateTyped DEF ToSet
    <2>2. calls = 0 /\ due = FALSE /\ nodes = 0 /\ actions = <<>> /\ stack = <<>> /\ result = NoResult
      BY DEF Init
    <2>3. \A i \in 1..Len(stack) : stack[i].next <= Len(actions) + 1
      BY <2>1, <2>2
    <2>4. result.status = "none" /\ calls \in 0..MaxCalls
      BY <2>2, PlannerAssumption DEF NoResult
    <2> QED
      BY <2>1, <2>2, <2>3, <2>4 DEF RestTyped
  <1>2. SearchInv /\ TableInv /\ LostInv(FALSE) /\ AnswerInv /\ RestTyped => TypeOK
    <2> SUFFICES ASSUME SearchInv, TableInv, LostInv(FALSE), AnswerInv, RestTyped PROVE TypeOK
      OBVIOUS
    <2>1. /\ problem \in Problem /\ phase \in Phase /\ goal \in State /\ plan \in Seq(Action)
          /\ stack \in Seq(AnyFrame)
      BY DEF SearchInv, Typed
    <2>2. /\ stack \in Seq(Frame) /\ DOMAIN stack = 1..Len(stack)
      <3>1. /\ Len(stack) \in Nat /\ DOMAIN stack = 1..Len(stack)
            /\ \A i \in 1..Len(stack) : stack[i] \in AnyFrame
        BY <2>1, ElementOfSeq, LenProperties
      <3>2. \A x \in AnyFrame : x \in Frame
        BY DEF AnyFrame, Frame
      <3>3. stack = [i \in 1..Len(stack) |-> stack[i]]
        BY <2>1, <3>1
      <3>4. stack \in [1..Len(stack) -> Frame]
        BY <3>1, <3>2, <3>3
      <3> QED
        BY <3>1, <3>4
    <2>3. ToSet(table.order) \subseteq State
      <3>1. table.order \in Seq(State)
        BY DEF TableInv, IsTable
      <3> QED
        BY <3>1, ToSetOfSeq
    <2>4. /\ DOMAIN table.cost \subseteq State
          /\ \A g \in DOMAIN table.cost : table.cost[g] \in Nat
      BY DEF TableInv, IsTable
    <2>5. failure \in Status
      BY DEF AnswerInv, Status
    <2>6. bound \in Nat /\ nextBound \in 0..MaxInt
      BY DEF LostInv
    <2> QED
      BY <2>1, <2>2, <2>3, <2>4, <2>5, <2>6 DEF TypeOK, RestTyped
  <1> QED
    BY <1>1, <1>2, RestStep, SearchHolds, PathHolds, TableHolds, LostHolds, AnswerHolds,
       PTL DEF Spec

-----------------------------------------------------------------------------
(* The heuristics of the library *)

\* The heuristics of heuristics.h never estimate more than it costs to get there, the
\* rounding of ceil and of the casts included (heuristics.h:31-142), for any actions, of
\* which each is paid for what it takes off an estimate, any coordinates and any
\* weights that come to no more than 1.0.  This is what CheapestPlanIsReturned asks.
THEOREM HeuristicsAreAdmissible == Spec => []EstimatesAreAdmissible
  <1>1. SearchInv => EstimatesAreAdmissible
    <2> SUFFICES ASSUME SearchInv, AllPaid(problem.heuristic), NEW s \in Rival, Reaches(s),
                        NEW i \in 0..Len(s)
                 PROVE  Estimate(problem.heuristic, problem.start, OpenGoal(s, i)) <= Costs(s)[i]
      BY DEF EstimatesAreAdmissible, Admissible
    <2> DEFINE h == problem.heuristic
               w == problem.start
               g == OpenGoal(s, i)
               c == Costs(s)[i]
    <2>1. /\ w \in State /\ problem.goal \in State /\ h \in Heuristic /\ MaxRival \in Nat
          /\ ToSet(actions) \subseteq Action
      <3>1. problem \in Problem /\ actions \in Seq(Action)
        BY DEF SearchInv, Typed
      <3> QED
        BY <3>1, ToSetOfSeq, ProblemTyped, PlannerAssumption
    <2>2. s \in Seq(Action) /\ DOMAIN s = 1..Len(s) /\ \A j \in 1..Len(s) : s[j] \in ToSet(actions)
      <3>1. PICK n \in 0..MaxRival : s \in [1..n -> ToSet(actions)]
        BY DEF Rival
      <3>2. n \in Nat /\ s \in [1..n -> Action]
        BY <2>1, <3>1
      <3>3. s \in Seq(Action) /\ DOMAIN s = 1..n
        BY <3>2
      <3>4. Len(s) = n
        BY <3>2, <3>3, LenProperties
      <3> QED
        BY <3>1, <3>3, <3>4
    <2>3. /\ \A j \in 1..Len(s) : CheckPreconditions(Pre[s[j]], Worlds(w, s)[j - 1])
          /\ SatisfiesGoal(Worlds(w, s)[Len(s)], problem.goal)
      BY <2>2 DEF Reaches
    <2>4. g \in State /\ c \in Nat
      <3>1. /\ Regressed(problem.goal, s) \in [0..Len(s) -> State]
            /\ Costs(s) \in [0..Len(s) -> Nat] /\ Len(s) \in Nat
        BY <2>1, <2>2, RegressedComputed, CostsComputed, LenProperties
      <3>2. Len(s) - i \in 0..Len(s)
        BY <3>1
      <3> QED
        BY <3>1, <3>2 DEF OpenGoal
    <2>5. ASSUME NEW x \in Simple, Paid(x) PROVE SimpleEstimate(x, w, g) <= c
      <3>1. \A j \in 1..Len(s) : PaidFor(x, s[j])
        BY <2>2, <2>5 DEF Paid
      <3>2. Covers(x, w, g, c)
        <4> HIDE DEF w
        <4> QED
          BY <2>1, <2>2, <2>3, <3>1, CoveredAlong DEF OpenGoal
      <3> HIDE DEF w, g, c
      <3> QED
        BY <2>1, <2>4, <3>2, CoveredEstimate
    <2>6. CASE h \in Simple
      <3>1. h.kind # "composite"
        BY <2>6 DEF Simple
      <3>2. Paid(h) /\ Estimate(h, w, g) = SimpleEstimate(h, w, g)
        BY <3>1 DEF AllPaid, Estimate
      <3> QED
        BY <2>5, <2>6, <3>2
    <2>7. CASE h \in Composite
      <3>1. h.kind = "composite" /\ h.parts \in Seq([of : Simple, weight : Nat])
        BY <2>7 DEF Composite
      <3>2. /\ \A j \in DOMAIN h.parts : Paid(h.parts[j].of)
            /\ SumFunction([j \in DOMAIN h.parts |-> h.parts[j].weight]) <= WeightGrain
        BY <3>1 DEF AllPaid
      <3>3. \A j \in DOMAIN h.parts : SimpleEstimate(h.parts[j].of, w, g) <= c
        <4> SUFFICES ASSUME NEW j \in DOMAIN h.parts
                     PROVE  SimpleEstimate(h.parts[j].of, w, g) <= c
          OBVIOUS
        <4>1. h.parts[j] \in [of : Simple, weight : Nat]
          BY <3>1, LenProperties, ElementOfSeq
        <4>2. h.parts[j].of \in Simple /\ Paid(h.parts[j].of)
          BY <3>2, <4>1
        <4> HIDE DEF h, w, g, c
        <4> QED
          BY <2>5, <4>2
      <3> HIDE DEF h, w, g, c
      <3>4. Estimate(h, w, g) <= c
        BY <2>1, <2>4, <2>7, <3>2, <3>3, WeightedBelow
      <3> QED
        BY <3>4 DEF h, w, g, c
    <2> QED
      BY <2>1, <2>6, <2>7 DEF Heuristic
  <1> QED
    BY <1>1, SearchHolds, PTL

\* A plan that is returned is cheapest whenever the actions pay for what the heuristic
\* they are searched with counts, and comparisons are on constants: what
\* Documentation.md:351 promises of admissible heuristics, for those of the library.
THEOREM PaidPlansAreCheapest ==
    Spec => [](result.status = "Success" /\ AllPaid(problem.heuristic) /\ ComparesConstants =>
                   \A s \in Rival : Reaches(s) => SumCost(s) >= result.cost)
  <1>1. EstimatesAreAdmissible /\ PlanIsCheapest =>
            (result.status = "Success" /\ AllPaid(problem.heuristic) /\ ComparesConstants =>
                 \A s \in Rival : Reaches(s) => SumCost(s) >= result.cost)
    BY DEF EstimatesAreAdmissible, PlanIsCheapest
  <1> QED
    BY <1>1, HeuristicsAreAdmissible, CheapestPlanIsReturned, PTL
=============================================================================
