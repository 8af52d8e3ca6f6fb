# IDAGOAP in TLA+

A model, checked with TLC, and a set of theorems, proved with TLAPS, of the C++
library in this repository: the planner that searches for a sequence of actions,
the wrapper that runs it on another thread, the executor that runs the sequence
and the agent that drives them all. Paths below are relative to the repository
(`src/…` is its source directory, `include/…` its headers).

## 1. The system

| component | state it keeps | operations | used by |
|---|---|---|---|
| `world_state`, `state_condition` | a map from names to typed values | set, remove, merge, two `satisfies`, `evaluate` | everything |
| `goap_action` | preconditions, effects, cost | `check_preconditions`, `apply_effects`; hooks `can_run`, `on_start`, `on_tick`, `on_end`, `on_interrupt` | planner, executor |
| `rida_planner` | a transposition table, the options of the last call | `plan` | `async_planner`, agent |
| `transposition_table` | eviction list and map of failed goals | `lookup`, `store`, `clear` | `rida_planner` |
| heuristics (five) | none (pure) | `estimate` | `rida_planner` |
| `async_planner` | a planner, a future, a stop source, an atomic flag, a callback | `plan_async`, `cancel_planning`, `try_get_result`, `wait_for_result`, destructor | agent |
| `plan_executor` | plan, goal, index, current action, two flags, status | `set_plan`, `tick`, `interrupt`, `reset`, setters | agent, or a game by itself |
| `motive`, `goal_selector` | motives and their priorities | `select_goal`, `satisfy_motive`, `set_motive_priority`, `add`, `remove` | agent |
| `goap_agent` | status, world, active motive and goal, failure and tick counters, cached action | `tick`, `interrupt`, `resume`, `force_replan`, `satisfy_motive`, registries | the game |

**How they interact.** The game calls `goap_agent::tick`. An idle agent asks the
selector for a motive, and hands its goal to a planner: a local one
(`synchronous_planning`) or `async_planner`, which runs `rida_planner::plan` in a
`std::async` thread and then calls `on_plan_received` *on that thread*. A plan
goes to the executor; each later tick of the agent is a tick of the executor,
which calls the hooks of the actions and applies their effects to the agent's
world. The world is also written by the game. Shared between threads are the
flag `is_planning`, the stop token, the future and, unprotected, the members of
the agent that `on_plan_received` writes.

**What is hard here.** Two threads and a poll that races with a callback; a
cancellation that has to wait for a thread; three fields of the executor that
every method has to keep in step; four objects (selector, planner, executor,
agent) that an interrupt, a satisfied motive or a new goal has to bring to rest
together; effects and preconditions judged against a world that moves; a search
that regresses one goal in place, with undo logs, under a table that prunes;
limits that cut it. `PROJECT.json` lists these as hazards, at their lines.

**What makes each correct.** The executor: every action sees a lawful lifecycle
and its effects are applied on completion only. `async_planner`: one search at a
time, nothing left running after a cancel, no deadlock. The agent: its status
tells what it does, for one goal, and it does not get stuck. The planner: what it
returns works, is cheapest, and is missed only if there is none; it returns.

## 2. Modules

| module | role | code |
|---|---|---|
| `WorldState` | worlds, conditions, effects as functions | `world_state.*`, `goap_types.*`, `goap_action.cpp` |
| `ExecutorOps` | the methods of the executor as functions on a record of its fields; a method whose outcome depends on an action or a callback is the *set* of its outcomes | `plan_executor.cpp` |
| `PlanExecutor` | an executor and a caller who may call anything, over a world the game writes | `plan_executor.h` |
| `ActionLifecycle` | abstract specification: what the actions of a plan are told | — |
| `AsyncPlanner` | the game thread and the search threads, one step per access to shared data, destruction and callbacks that cancel included | `async_planner.cpp` |
| `AgentThreads` | `AsyncPlanner` with the agent as its caller: the two threads of an agent, one step per access to a member they share | `goap_agent.cpp` |
| `GoalSelector` | selection and priorities as functions, for any utility function | `goal_selector.cpp`, `motive.*` |
| `AgentOps` | the methods of the agent as functions, over `ExecutorOps` and `GoalSelector` | `goap_agent.cpp` |
| `GoapAgent` | the agent, the game and the search thread | `goap_agent.cpp` |
| `TranspositionTable` | the table as functions on a record | `transposition_table.cpp` |
| `Heuristics` | the five heuristics as functions | `heuristics.h` |
| `RidaPlanner` | `plan` and the recursive search as a state machine with an explicit stack | `rida_planner.cpp` |
| `SequenceProofs` | lemmas about numbers, sequences and sums, on which the proofs below rest | — |
| `ExecutorOpsProofs`, `PlanProofs` | lemmas about the operators of `ExecutorOps`; about running a plan, regressing a goal, the table and the heuristics | — |
| `PlanExecutorProofs`, `GoapAgentProofs`, `RidaPlannerProofs`, `AsyncPlannerProofs`, `AgentThreadsProofs` | theorems about the module of that name (section 4) | — |
| `MC*` | instances for TLC | |

Which builds on which:

    WorldState <- ExecutorOps <- PlanExecutor       (implements ActionLifecycle)
    WorldState <- GoalSelector, ExecutorOps <- AgentOps <- GoapAgent
    WorldState <- Heuristics, TranspositionTable <- RidaPlanner
    AsyncPlanner <- AgentThreads                    (implements AsyncPlanner)

`GoapAgent` and `AgentThreads` are two views of one class. The first has all of
its data and takes a call as a step; the second keeps of the data what both
threads use, leaves open what the agent decides from the rest, and has a step
for each access. The second justifies the steps of the first.

The correspondence of every definition with lines of the code is `map` in
`PROJECT.json`. Some conventions:

* A C++ map (world, goal, effects, preconditions) is a function on all of `Key`
  that is `Absent` where the map has no entry. A value is a type and a number.
* An executor is a record. Its field `calls` holds the virtual calls the last
  method made on actions, `crashed` records a call through a null
  `current_action`: after it the program is gone and no step is possible.
* The agent's `job` is the search `planning_future` refers to. `AsyncPlanner`
  shows that no other thread is alive (`OneLiveThread`), and that a cancelled
  one has returned (`QuietAfterCancel`); `AgentOps!CancelPlanning` is
  `cancel_planning` on that job, seen as one step.
* In `AgentThreads` a point (`game`, `receiver`) is where a thread is about to
  touch the members that `Reads` and `Writes` give for it. A race is two threads
  at points that touch one member, one of them to write it.
* The recursion of the planner is `stack`, one record per active call;
  `phase` says whether a call is about to be made (`enter`), is in its loop
  (`loop`), has returned false (`back`) or true (`found`).
* Floats: a coordinate is a whole number of 1/`Grain`, a weight one of
  1/`WeightGrain`. With powers of two and small sums float arithmetic is exact,
  and rounding is what the casts and `ceil` of the code do.
* A utility is a number or `NoUtility`, which stands for NaN and minus infinity:
  nothing compares greater than `highest_utility` then.
* History fields, not in the code, are marked as such: `searches`, `reported` (the
  action named in the last `on_action_finished`) and `threw` in the agent, `asked` and
  `threw` in its threads, `entry` in a frame of the search. `threw` says that the
  status is still Planning or Executing from before a call that threw for want of
  a heuristic; whatever sets the status ends it.
* Operators called "Mutant of X" are wrong versions of X used to show that the
  properties can fail; nothing else refers to them.

### Atomicity

`plan_executor` and `rida_planner` are single threaded and run to completion, so
a method of the first is one step; a search of the second is many steps only
because a stop request or the end of its time budget may come in between.
`AsyncPlanner` takes one step per access to an atomic, the stop state or the
future. `AgentThreads` adds the plain members of the agent: `++failures` is a load
and a store, `transition_to` a write and then the listener, and so on. In
`GoapAgent` a call of a public method is one step, except that `phase_planning` is
two: it reads status and flag, then the future, and the search thread may run
`on_plan_received` in between. That call is one step there, as if it wrote the status
last. What `AgentThreads` shows is what this rests on: goal and executor are
never touched by both threads (unless the game calls a getter), no two threads
write the status, and a status other than Planning is seen only when goal and
plan are in place. What a torn or reordered access does is undefined behaviour
and outside both.

## 3. What is checked

Each property of a passing run has a mutant of the code that TLC finds to
violate it (`mutants` in `PROJECT.json`).

| run | asks | instance |
|---|---|---|
| `executor_safety` | fields in step, lawful lifecycle, effects only on completion, null dereference only with `auto_replan`; a plan of actions that end, ends | 2 keys, 2 actions (one `NotEqual` and one `Equal` precondition, effects that undo), plans of up to 2 |
| `executor_replan` (violation) | does a replan for lost preconditions survive? | the same |
| `async` | exclusion, quiet after cancel, one live thread, callback before poll, nothing left after destruction, calls return | 3 jobs |
| `agent_threads` | races confined, a pending search exactly while Planning, a plan for the goal, quiet when interrupted, failures below the limit, calls return | 2 jobs, 2 goals, limit 2 |
| `agent_race` (violation) | is a game that only ticks free of data races? | the same |
| `agent_safety` | status is activity, one goal, no stale current action, no abandoned action, no completion missed, failures counted right when synchronous | 2 motives with a utility that depends on the world, 2 actions, 3 configurations |
| `agent_pursues` | a search is answered, a goal is pursued, a change is heeded (no persistent motive, goals rechecked on every tick) | 2 configurations |
| `agent_starves` (violation) | is a goal pursued with a persistent motive? | the same |
| `agent_heeds` (violation) | is a change heeded when goals are rechecked every second tick? | 1 configuration |
| `agent_counts` (violation) | is every failure counted a search? | background planning, 3 failures allowed |
| `planner` | shared goal restored, table in step, plans work, estimates admissible, cheapest, none missed, recursion bounded, search returns | 4 keys, 9 actions, 37 problems, 2 calls |
| `planner_unsound` (violation) | does every plan returned reach the goal? | the same |

### What the passing runs show

* **Executor.** Index, loaded action and started flag stay in step over every
  sequence of calls (`CurrentActionConsistent`); the index moves over an action
  only in the step that told it success and end (`ActionsFinishInOrder`); the
  executor writes the world only for a completing action whose preconditions
  hold at that moment (`EffectsOnlyOnCompletion`), so that effects may also be
  *skipped* in silence although `on_end(true)` is called
  (`plan_executor.cpp:181`; `Documentation.md:237` says they will be applied).
  It implements `ActionLifecycle`: `on_tick` reaches only an action whose
  `on_start` answered true, each start is closed by at most one of `on_end` and
  `on_interrupt`, and the one way a started action is dropped without either
  is a failure without replan, followed by a new plan. A failing action is not
  told `on_end(false)`, then, although `README.md:247` says "success or failure".
* **AsyncPlanner.** No two searches are ever in the shared planner. A callback
  can be *entered* after the stop request (the thread tests the flag at
  `async_planner.cpp:44` and calls later), which `test_async_planner.cpp:242`
  words more strongly than the code does; but when `cancel_planning` has
  returned, thread and callback have too. No call waits for ever, even if no
  search ends by itself, with one exception: a callback that cancels its own
  search (or plans again, which cancels) waits for the thread it runs in. The
  model has it hang; a library may detect it and throw. The destructor requests no
  stop and waits for the search to end of itself.
* **Agent, its threads.** There is no lock, and yet the two threads meet on three
  things only: the status, the failure count and the user's status listener,
  which may run in both threads at once. Goal and executor are handed over by
  the protocol, except to `get_current_action` and `get_current_plan`, which read the
  executor while a plan may be installed. An agent in Planning has a search
  pending for the goal it pursues. The failure count survives two callbacks that
  count at once. After `interrupt()` no thread is left and the agent may be
  destroyed; without it the executor and the callbacks are destroyed before
  `planner`, whose future joins a thread that may be using them.
* **Agent.** Planning exactly while a search may still report, Executing exactly
  while the executor runs, both for the goal of the active motive, whatever
  the order of ticks, interrupts, motives dropped and late callbacks, with
  one exception, below. No started
  action is dropped, with no exception. Each action that completes is reported by name in
  the tick that completes it, though
  `on_action_finished` repeats for the action before on every tick that goes on
  running (`goap_agent.cpp:247`; `README.md:507` has it fire on completion). The model
  also shows, without a run of its own, that `satisfy_motive` and
  `force_replan` leave Interrupted without `resume()` (`README.md:335` says otherwise)
  and that `force_replan` on the goal in execution goes Idle without planning
  (`goap_agent.cpp:125`, against `Documentation.md:708`).
* **The exception: a heuristic taken away.** `set_heuristic` stores any pointer, null
  included (`goap_agent.cpp:351`), and the game may call it while the agent is busy. A
  switch of goals or a `force_replan` then interrupts or resets the executor,
  cancels the search, adopts the new goal, and throws at `goap_agent.cpp:136`
  before the status is set. An agent that was Executing still says so, with an executor that is
  Interrupted or Idle and the plan of another goal or none; one that was
  Planning still says so with nobody searching, and if the cancelled search left an
  answer, the next tick takes it for the new goal. This is not what the table at
  `README.md:332` says the two states mean. The runs reach all of it, and
  `StatusIsActivity`, `OneGoal`, `PlanningIsPending` and `PlanIsForGoal` have it as
  their `~threw`. What is shown of such an agent is that
  it is at rest: nothing runs, no search can report, and no action is current.
  A call that throws while the agent is Idle or Interrupted leaves a status that is right.
* **Planner.** `GoalIsRegression`: the goal shared by the whole recursion is at
  each loop iteration the one the call was entered with. `PlanReaches`: a plan
  returned works unless one of its actions spoils a goal of a later one, or
  writes a key that a later one compares with something else than Equal; these
  are the two shortcuts of the regression, and there is no third.
  `PlanIsCheapest` and `NoSolutionIsRight` compare with every sequence of at most
  four actions, run forward; both assume that comparisons are on keys no usable
  action writes, since the planner tests them against the initial state.
  `EstimatesAreAdmissible` says when the first one's premise is met: each action
  costs at least what it takes off the estimate, it leads between positions of
  as many dimensions, and the weights of a composite come to no more than 1. Two
  admissible heuristics of weight 1 each need not make an admissible one
  (`heuristics.h:119` has nothing against it). The second condition was found
  by the proof of the property: the distance of two positions leaves out the
  coordinates one of them lacks (`heuristics.h:75`), and so is no metric. By way of
  a position of one dimension, two far positions of two are near.

### What the violation runs show

Each is a finding in `PROJECT.json` with its quotation.

1. `executor_replan`: after a successful replan in `handle_pre_start_phase`
   `current_action` is null and is used (`plan_executor.cpp:68`, `96`).
2. `agent_race`: a tick reads `status` while the search thread writes it.
3. `agent_starves`: a satisfied persistent motive ends every idle tick before
   another motive is looked at.
4. `agent_heeds`: the mark of a changed world is consumed by a tick that does
   not recheck the goal (`goap_agent.cpp:198`), and the change is forgotten.
5. `agent_counts`: `phase_planning` may hand an answer to `on_plan_received`
   that the callback has already delivered; one failure counts twice.
6. `planner_unsound`: an action that meets one goal and destroys another is put
   last, and the plan is returned as Success.

### Bounds, and why they are enough

Two actions, one of which needs and uses up the effect of the other, are what it
takes for lost preconditions, skipped effects, replans and a plan with a middle.
Three jobs are one being joined, one running and one being launched; two are
enough for two callbacks of the agent to overlap, and a limit of two failures for
one to stop the agent and the other not. `source < MaxJob` bounds the searches of
a behaviour. Two motives give a switch of goals and a starved goal; the
utility of one is highest, lowest or no number as the world has it. `MaxMotives = 1`
bounds what `NewMotive` may add: it re-adds after a removal. `goalRecheckInterval` is
0, 1 or 2 and the tick counter is kept modulo it. The planner's actions undo each
other (draw, sheathe), reach two goals at once (brawl), compare (bribe), cost
nothing (sheathe) or move (leave, arrive, cross); problems differ in start,
goal, heuristic, depth limit, table size (0, 2, ample, no table) and in whether a
stop may come. Every subset of the available actions may answer `can_run`, and
every order of equal costs is taken. `MaxCalls = 2` shows the table left over by
one call to the next. `MaxInt` stands for the greatest int. `MaxRival = 4` bounds
the sequences a plan is compared with; the theorems hold for any. Problems among actions
that undo each other have a node limit of 30: without one such a search need not
end (section 6).

### Fairness

* `PlanExecutor!FairSpec`: the caller goes on ticking, and an action that is
  ticked again and again does not answer Running for ever (strong fairness of
  its ending). `PlanEnds` asks only of behaviours whose caller is patient from
  some point on (it ticks, writes the world, and sets a plan only when none runs).
* `AsyncPlanner!FairSpec`, `AgentThreads!FairAgentSpec`: threads run and callbacks
  return. Nothing is assumed of a search ending by itself, only that one asked to
  stop looks at its token, as `should_abort` does at every node; nor that a method
  is called, only that one called goes on.
* `GoapAgent!QuietSpec`: the game's loop ticks, the search thread runs and
  every search ends. The game only ticks and writes the world; one that calls
  `force_replan` before each answer rightly keeps the agent planning.
* `RidaPlanner!FairSpec`: the thread in `plan` goes on. The stop or the end of
  the budget (`Expire`) is not fair.

`CHECK_DEADLOCK FALSE` appears where the system may stop: a crashed program, a
planner that has had all its calls or is destroyed.

## 4. What is proved

For all values of the constants, by `tlapm`:

* `PlanExecutorProofs!ExecutorConsistent`: `TypeOK` and `CurrentActionConsistent`.
  Together they are inductive (`IInv`). The argument is about methods first: each
  operator of `ExecutorOps`, applied to a well formed executor, yields well
  formed executors; `TickHasCases` splits `tick` into seven cases.
* `PlanExecutorProofs!TypesHold` is its half about types.
* `PlanExecutorProofs!ActionsAreFinishedInOrder`, `EffectsAreOfCompletedActions`: the
  two action properties. One lemma, `StepCompletes`, serves both: under `IInv` a step
  either completes the open action (`Completes`: index, calls and world together),
  or leaves the index or takes it back to 0 (`StaysOrRestarts`) and lets nobody but
  the game write the world.
* `PlanExecutorProofs!NullNeedsAutoReplan`: the null action is called only with
  `auto_replan` on, which `goap_agent` switches off. Inductive with `IInv`: tick
  keeps `auto_replan`, and the case that crashes comes from `attempt_replan`.
* `PlanExecutorProofs!ExecutorImplementsLifecycle`: the refinement. Every step
  under `IInv` is a step of `ActionLifecycle` or a stutter; the consistency of
  the three fields is what makes the action of a call the open one.
* `AsyncPlannerProofs!TypesHold`, `PlannerIsExclusive`, `CancelIsFinal`,
  `ThreadsAreJoined`, `PollFollowsCallback`, `NoThreadOutlives`, for any number of
  jobs. The invariant `Inv` says what the game thread knows at each of its points:
  which jobs have a thread (`Launched`), that a live one is the one the future joins
  (`Joined`), that a search that has not cleared the flag is the current one
  and visible (`Flagged`), that stop is asked only of launched jobs and outlived
  only by the wait of `cancel_planning` (`Stopped`), and that callbacks precede
  readiness (`Called`). Exclusion alone is not inductive: it needs to know that
  `plan_async` sees the flag of a search it has not joined.
* `AgentThreadsProofs!AgentUsesPlanner`: the refinement of `AsyncPlanner` by the
  agent that uses it, so that all of the above holds of the agent's threads.
* `AgentThreadsProofs!AgentTypesHold`, `SearchIsForGoal`, `ExecutesForGoal`,
  `InterruptIsFinal`, `FailuresAreBounded`, `RacesAreConfined`. The invariant
  `AgentInv` adds to `Inv` which method of the agent a call of the planner belongs
  to (`Placed`), who is in `on_plan_received` (`Receiving`), what a search that
  can still report relies on (`Pending`: the status is Planning, not left over
  from a call that threw, and the game thread is at a point that leaves goal and executor alone), what the game thread
  knows from the status it read or the thread it waited for (`Known`), and
  that a planning agent has an answer coming (`Expecting`) and an executing one a
  plan (`Installed`), unless a call threw. Confinement of the races
  is a corollary: where the game thread writes, no search can report.
* `GoapAgentProofs!StatusTellsActivity`, `GoalIsOne`, `CurrentActionIsExecuted`. The
  invariant `GameInv` has the three properties, the executor being `Sound` (it
  does not replan, and holds no action once its plan is through), that a planning agent
  has a search to take an answer from, a cancelled one at least (`Answerable`), and
  `PollInv`: what `phase_planning` may
  count on between its look at the flag and its look at the future. Heuristics come
  and go; a call that throws leaves an agent at rest (`Rests`), whatever its status says,
  and every method is shown to lead from there too. Each method of
  `AgentOps` is shown to lead from `AgentInv` to `AgentInv`. Records are known by
  their fields only, so that the theorems hold of motives, priorities, worlds and
  utilities of any kind.
* `GoapAgentProofs!SyncFailuresCount`: the count of failures under synchronous
  planning. The invariant (`CountInv`) says that such an agent has no job and is
  in no poll, so that no failure can come from an earlier tick, and that failures
  do not exceed searches. A relation between an agent before and after a
  method (`Keeps`) is shown for each method and chained along their calls.
* `GoapAgentProofs!NoActionIsAbandoned`, `NoCompletionIsMissed`: the action
  properties. The executor alone may drop a started action: `set_plan` tells it
  only while the executor is running, and a failed tick leaves it started. The
  invariant is that between methods the executor is `Fit`: an action is started only
  while it runs. The relation `Follows` (a started action stays open or is told, the
  index stays or goes back to 0, what was told stays told) is shown for each method
  and chained. Of a tick `Steps` says more: the index moves by one, over an action of
  the plan, and that is the action `Report` names. A tick may leave the executor unfit only when it fails, and then
  `force_replan` resets it before anything else, as by `GameInv` no search is left
  whose callback could come between.
* `GoapAgentProofs!SelectedGoalIsBest`, about `select_goal` on every vector of motives:
  what it returns is wanted, unsatisfied and of the highest utility, the earliest
  of equals (`Selected`), and nothing only if no motive qualifies.
* `GoapAgentProofs!TypesHold` and `NullIsNeverCalled`. The invariant (`TypeInv`) is
  `TypeOK` with the executor `Intact`: well formed, without `auto_replan`, not
  crashed. What holds of one executor under any caller (`ExecutorOpsProofs`) thus holds
  inside an agent, and the null call of finding 1 is out of its reach.
  `SelectedGoalIsBest`, `TypesHold` and `NullIsNeverCalled` are under `UtilityIsOrdered`: a
  utility is a whole number or `NoUtility`. It is a hypothesis and not an `ASSUME`
  because it ranges over all priorities, which TLC cannot enumerate; the utility
  of the instances satisfies it by its definition.
* `RidaPlannerProofs!TableStaysInStep`: list and map of the table hold the same goals,
  once each, for tables of any size. `PlanProofs` has it of `lookup` and `store`.
* `RidaPlannerProofs!RegressionIsUndone`: the one goal of the recursion. The
  invariant (`SearchInv`) chains the calls: each was entered with the goal of
  its caller regressed through the action its caller chose (`Chained`), and
  holds the log that undoes just that (`Undone`). Without `entry`, the goal a call
  was entered with, the property could not be stated of one state, and with it
  no induction over the plan is needed.
* `RidaPlannerProofs!DepthIsBounded`: with actions that cost something the recursion
  is at most one call deeper than the bound, because each call costs at least
  one more than its caller and none costs more than the bound (`CostInv`). That
  estimates are natural numbers is a lemma (`EstimateIsNat`); a negative weight in a
  composite, which the model leaves out, would break it.
* `RidaPlannerProofs!PlansReachTheGoal`. The invariant (`PathInv`, over `SearchInv`) says
  that each action of the plan is one its call has chosen and may regress (`Trying`), that each call
  is charged its estimate and its cost (`Priced`), that none of the goals on the way
  is met at the start (`Unreached`), and that a plan that is found is within the
  bound (`WithinBound`). What a regressed goal means is a lemma about plans: the
  world that satisfies it is led by the plan to one that satisfies the goal,
  unless an action spoils what a later one needs.
* `RidaPlannerProofs!CheapestPlanIsReturned`, `NoPlanIsMissed`. Here the invariant is about
  what is *not* on the stack: `LostInv`. Whatever a loop has passed over, whatever goal
  a call has left with false, and every goal stored in the table is *lost*: a plan
  that leads from there to the start, and that the estimates do not
  overrate (`Honest`), comes to at least `nextBound`. And the bound of a round is no more
  than the cost of any plan (`BoundIsLow`). This is the argument of iterative
  deepening, with the table in it: it is emptied for every round, and an entry
  prunes a call that costs no less than the one that left it. For `NoPlanIsMissed` nothing is asked of the
  heuristic, and in exchange every total has to stay below `MaxInt` (hypothesis
  `[]TotalsFit`): `INT_MAX` says that no call was cut off (`rida_planner.cpp:365`), and a
  branch whose total reached it would be taken for none. It holds of every search
  whose costs and estimates are far from `INT_MAX`, those of the instance included.
* `RidaPlannerProofs!HeuristicsAreAdmissible`. The estimate from the start to the goal that
  is left after part of a plan is bounded by the cost of that part. Each action
  covers what its effect takes off the estimate (`CoveredEstimate`), which is summed
  along the plan (`CoveredAlong`); for a distance this is the triangle
  inequality on sums over dimensions (`SquaresOfSum`), with the `ceil` of the
  euclidean distance and the cast of the other, and a composite of such parts stays
  below the cost as its weights come to no more than 1 (`WeightedBelow`). `PaidPlansAreCheapest` joins it with `CheapestPlanIsReturned`: for
  actions that are paid for, no plan is cheaper than the one returned.
* `RidaPlannerProofs!TypesHold`: `TypeOK` of the search.

Every invariant a passing run checks, and every action property, is thereby a
theorem. Sums and what a plan computes are defined by recursive functions or
folds, whose values cannot be proved by the induction theorems of the library
(they take an operator). They are proved by sets: the numbers for which a statement
holds contain 0 and the successor of each (`SequenceProofs!Upward`), and a function that
follows the recursion exists (`Computed`), so that what `CHOOSE` takes is one.

Assumptions: those named in `ASSUME` (`AbsentAssumption`, `ActionAssumption`,
`CallerAssumption`, `MaxJobAssumption`, `ThreadsAssumption`, `MotiveAssumption`,
`ConfigAssumption`, `EmptyPlanAssumption`, `GameAssumption`, `PlannerAssumption`,
`FiniteAssumption`, `FiniteKeyAssumption`, `GrainAssumption`, `CoordinatesAssumption`), which
say that constants have the types of the code, that there are finitely many
actions and keys, and that a planner may return no actions (as a failed one
does). TLC evaluates them in the runs.

Model-checked only: liveness, which needs fairness and ENABLED, and these the prover
does not handle. That is `PlanEnds`, `CallsReturn`, `PlanningEnds`, `GoalIsPursued`,
`ChangeIsHeeded`, `GameReturns` and `PlanReturns`.

## 5. Plan

All modules planned are written, in the order of importance: executor and
lifecycle, async planner, selector and agent, planner and table, heuristics, and
then the two threads of the agent, composed with the async planner. Proved are the
invariants and the action properties that the runs check. Left, in
this order:

1. That `GoapAgent` is implemented by `AgentThreads` with its data, as a refinement
   where now an argument (section 2, atomicity) connects them.
2. A planner instance with costs near the greatest int, for the overflow.

## 6. Not modelled, and why

* A composite heuristic in a composite, negative weights, and the rounding of
  float sums that are not exact.
* `plan_result::status_string`, the statistics, typed getters, hash functions:
  presentation, or without effect on behaviour.
* A callback that calls `plan_async` itself: it waits for its own thread just as one
  that cancels, which is modelled.
* Two motives of one name: the selector finds the first by its name, and
  retiring the second zeroes the first. The functions do this, no run uses it.
* Actions of negative cost. `goap_action` takes any `int`, `PlannerAssumption` natural
  numbers. The bounds of iterative deepening and the pruning by cost are meant for
  those: with a negative cost a branch past the bound may come back below it.
  What is shown of the planner is not shown of such actions.
* Heuristics of the game's own. `heuristic` is an interface anybody may implement; modelled are
  the five of `heuristics.h`. One that throws, keeps state or estimates below 0 is
  outside the model.
* Callbacks of the agent (`on_goal_selected`, `on_plan_found`, the status and action
  listeners), hooks of actions and utilities that throw through the agent, or that call it
  back. Of calls back only the one that cancels its own search is modelled
  (`UserCancels`), and planning again from there, which waits alike; a listener
  that calls, say, `force_replan` in the midst of a tick changes what the rest of that
  tick works on. The one throw modelled is the agent's own, without a heuristic.
* An empty `utility_fn`, whose call throws out of `tick`
  (`set_utility_evaluator` takes any `std::function`): the game's own error.
* The depth limit as a promise: a branch cut at `max_depth` marks the whole
  search failed and stores its goals in the table, so that DepthLimitReached may
  be reported although a plan within the limit exists. The model does this too;
  no document promises otherwise.
* A search without limits among actions that undo each other: its bound grows
  for ever, or at no cost its recursion does. That is an infinite state space; the
  tests of the repository use a node limit as well. `DepthIsBounded` is what
  holds of it.
* Overflow of costs and of the tick counter: beyond the bounds.
