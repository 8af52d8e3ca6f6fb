----------------------------- MODULE GoapAgent -----------------------------
(***************************************************************************)
(* A goap_agent, the game that drives it from one thread and the thread of *)
(* its async_planner.  One action is one call of a public method, save for *)
(* tick in status Planning: phase_planning reads is_planning and status,   *)
(* then asks planning_future, and the searching thread may finish and call *)
(* on_plan_received in between.                                            *)
(*                                                                         *)
(* The members on_plan_received writes are not atomic.  A call of it is    *)
(* one step here, as if it wrote status last: AgentThreads has a step for  *)
(* every access and shows which of them meet.                              *)
(***************************************************************************)
EXTENDS AgentOps

CONSTANTS
    World,              \* the worlds the agent may start in
    Write,              \* the partial worlds the game writes
    Priorities,         \* the priorities the game sets
    MaxMotives,         \* bound: the length of the selector's vector
    FirstMotives,       \* the motives added before the first tick
    FirstPriority       \* the priority each motive is constructed with

ASSUME GameAssumption ==
    /\ World \subseteq State /\ Write \subseteq State
    /\ Priorities \subseteq Int /\ MaxMotives \in Nat
    /\ FirstMotives \in Seq(Motive) /\ FirstPriority \in [Motive -> Int]

VARIABLES agent,        \* the goap_agent
          polling       \* phase_planning is about to call try_get_result

vars == <<agent, polling>>

Init ==
    /\ \E c \in Config, w \in World, hasHeuristic \in BOOLEAN :
         agent = [config |-> c, status |-> "Idle", world |-> w, motives |-> FirstMotives,
                  priority |-> FirstPriority, ex |-> NewExecutor(TRUE, FALSE),
                  hasHeuristic |-> hasHeuristic, actions |-> Action,
                  active |-> NoMotive, goal |-> EmptyState, ticks |-> 0,
                  failures |-> 0, dirty |-> FALSE, cached |-> NoAction,
                  job |-> NoJob, searches |-> 0, reported |-> NoAction, threw |-> FALSE]
    /\ polling = FALSE

-----------------------------------------------------------------------------
(* The game's thread *)

\* What the actions and the game were told in the last step is forgotten in the next.
Now == [agent EXCEPT !.ex = Observe(@), !.reported = NoAction]

\* A method is called and returns, leaving one of the agents of outcomes.
Calls(outcomes) == ~polling /\ (\E a \in outcomes : agent' = a) /\ UNCHANGED polling

\* ++tick_counter
Ticked == [Now EXCEPT !.ticks = IF agent.config.goalRecheckInterval = 0 THEN 0
                                ELSE (@ + 1) % agent.config.goalRecheckInterval]

TickIdle ==
    /\ agent.status \in {"NoMotives", "Idle", "PlanFailed"}
    /\ \E a \in {Ticked} : Calls(PhaseIdle(a))

TickExecuting == agent.status = "Executing" /\ \E a \in {Ticked} : Calls(PhaseExecuting(a))

\* phase_planning: the search is not over, or the future is looked at next.
TickPlanning ==
    /\ agent.status = "Planning" /\ ~polling
    /\ agent' = Ticked
    /\ polling' = (agent.job.state # "searching")

\* try_get_result, and on_plan_received when the future is ready.
Poll ==
    /\ polling /\ polling' = FALSE
    /\ agent' = IF agent.job.state = "done"
                THEN OnPlanReceived([Now EXCEPT !.job.state = "none"], agent.job.answer)
                ELSE Now

TickInterrupted == agent.status = "Interrupted" /\ Calls({Ticked})

Tick == TickIdle \/ TickPlanning \/ Poll \/ TickExecuting \/ TickInterrupted

\* set_world_values marks the world dirty, a write through get_world_state()
\* does not, mark_world_dirty() is its own call.
WriteWorld ==
    \E d \in Write, marks \in BOOLEAN :
        Calls({[Now EXCEPT !.world = w, !.dirty = @ \/ marks] : w \in Written(agent.world, d)})

MarkWorldDirty == Calls({[Now EXCEPT !.dirty = TRUE]})

Interrupt == Calls(AgentInterrupt(Now))

Resume == Calls({AgentResume(Now)})

ForceReplan == Calls(AgentForceReplan(Now))

SatisfyMotive == \E m \in Motive : Calls(AgentSatisfyMotive(Now, NameOf[m]))

SetMotivePriority ==
    \E m \in Motive, p \in Priorities :
        Calls({[Now EXCEPT !.priority = SetPriorityByName(agent.motives, @, NameOf[m], p)]})

NewMotive ==
    \E m \in Motive :
        /\ Len(agent.motives) < MaxMotives
        /\ Calls({[Now EXCEPT !.motives = AddMotive(@, m)]})

DropMotive == \E m \in Motive : Calls({[Now EXCEPT !.motives = RemoveMotive(@, m)]})

ClearMotives == Calls({[Now EXCEPT !.motives = <<>>]})

NewAction == \E x \in Action : Calls({[Now EXCEPT !.actions = @ \cup {x}]})

DropAction == \E x \in Action : Calls({[Now EXCEPT !.actions = @ \ {x}]})

ClearActions == Calls({[Now EXCEPT !.actions = {}]})

\* set_heuristic stores what it is given, which may be null.
SetHeuristic == \E given \in BOOLEAN : Calls({[Now EXCEPT !.hasHeuristic = given]})

-----------------------------------------------------------------------------
(* The thread of the job *)

\* plan() returns and is_planning is cleared.
SearchEnds ==
    /\ agent.job.state = "searching"
    /\ agent' = [Now EXCEPT !.job.state = "cleared"]
    /\ UNCHANGED polling

\* Nothing was cancelled: the callback runs and the thread returns.
Callback ==
    /\ agent.job.state = "cleared"
    /\ agent' = Deliver(Now)
    /\ UNCHANGED polling

Worker == SearchEnds \/ Callback

Game == Tick \/ WriteWorld \/ MarkWorldDirty \/ Interrupt \/ Resume \/ ForceReplan

Registry ==
    \/ SatisfyMotive \/ SetMotivePriority \/ NewMotive \/ DropMotive \/ ClearMotives
    \/ NewAction \/ DropAction \/ ClearActions \/ SetHeuristic

Next == Game \/ Registry \/ Worker

Spec == Init /\ [][Next]_vars

\* A game that only ticks and writes the world: the loop never stops, threads
\* run and every search ends.  (A game that calls force_replan before each answer
\* keeps the agent planning for ever, and rightly so.)
QuietInit == Init /\ agent.hasHeuristic

QuietNext == Tick \/ WriteWorld \/ Worker

QuietSpec == QuietInit /\ [][QuietNext]_vars /\ WF_vars(Tick) /\ WF_vars(Worker)

-----------------------------------------------------------------------------
(* Properties *)

TypeOK == agent \in Agent /\ polling \in BOOLEAN

\* The status tells what the agent is doing: a search it started can still report
\* exactly while it is Planning (goap_agent.cpp:130-158), and its executor runs a
\* plan exactly while it is Executing.  No search and no plan is orphaned by an
\* interrupt, a satisfied or abandoned motive, a replan or a late callback, and a
\* planning agent always has an answer coming.  The exception is a call that found
\* no heuristic and threw (goap_agent.cpp:136): it has cancelled the search and
\* stopped the plan, and the status goes on telling of them until it is next set.
StatusIsActivity ==
    /\ agent.job.state \in {"searching", "cleared"} <=> agent.status = "Planning" /\ ~agent.threw
    /\ agent.ex.status = "Running" <=> agent.status = "Executing" /\ ~agent.threw

\* A search, its plan and the agent's books are about one goal: an answer is
\* never executed for another goal than it was searched for
\* (goap_agent.cpp:188 passes the goal of the moment the answer arrives), whether it
\* comes by the callback or by a poll.  Where a call has thrown for want of a
\* heuristic the books are about the goal it adopted and the rest about another or
\* none; an agent that threw in Planning takes the answer of the search it cancelled.
OneGoal ==
    /\ agent.status \in {"Planning", "Executing"} =>
          agent.active # NoMotive /\ agent.goal = GoalOf[agent.active]
    /\ ~agent.threw =>
          /\ agent.status = "Planning" => agent.job.goal = agent.goal
          /\ polling /\ agent.job.state = "done" => agent.job.goal = agent.goal
          /\ agent.status = "Executing" => agent.ex.goal = agent.goal /\ agent.ex.plan # <<>>

\* get_current_action names an action only while a plan is executed
\* (goap_agent.cpp:378-382, test_goap_agent.cpp:107), so that it names none to an agent
\* that says Executing only because a call threw.
CurrentAction == IF agent.ex.action # NoAction THEN agent.ex.action ELSE agent.cached

NoActionOutsideExecution ==
    agent.status # "Executing" \/ agent.threw => CurrentAction = NoAction

\* An action whose on_start answered true stays open until the step in which
\* it is told on_end or on_interrupt: the agent never lets the executor drop
\* one, as it may on its own (plan_executor.cpp:24-34, 11-19).
NoActionAbandoned ==
    [][ agent.ex.started /\ ~(agent'.ex.started /\ agent'.ex.index = agent.ex.index) =>
          \E i \in DOMAIN agent'.ex.calls :
             agent'.ex.calls[i] \in {"on_end", "on_interrupt"} \X {agent.ex.action} ]_vars

\* README.md:348, "Transitions to Idle after N consecutive plan failures": every
\* failure counted is a search of its own.
FailuresAreSearches == agent.failures <= agent.searches

\* On the game's own thread that holds.
SyncFailuresAreSearches == agent.config.synchronousPlanning => FailuresAreSearches

\* A search that is started is answered: with searches that end and a loop that
\* ticks, the agent does not stay in Planning.
PlanningEnds == (agent.status = "Planning") ~> (agent.status # "Planning")

\* README.md:330, Idle "Will select a new goal on the next tick": while the loop
\* ticks, an agent with a motive to pursue (one whose utility is a number) comes to
\* pursue one.
GoalIsPursued == []<>(agent.active # NoMotive \/ Candidate(agent) = NoMotive)

\* A change of the world the agent was told of, and which makes another goal the
\* one to pursue.
ChangePending ==
    /\ agent.status = "Executing" /\ agent.dirty /\ agent.config.replanOnWorldChange
    /\ Candidate(agent) # NoMotive /\ GoalHasChanged(agent, Candidate(agent))

\* README.md:201, "always call mark_world_dirty() ... so the agent reacts to the
\* change", and README.md:345, goals are evaluated again "every N ticks": an agent
\* that was told does not go on executing for a goal while it has a better one.
ChangeIsHeeded ==
    ChangePending ~> (agent.status # "Executing" \/ Candidate(agent) = NoMotive
                      \/ ~GoalHasChanged(agent, Candidate(agent)))

\* README.md:505-508, on_action_finished "Fires when an action completes or
\* fails": the tick that completes an action reports that very action, although the
\* agent only infers it from the index and the action it has cached
\* (goap_agent.cpp:237-263).
NoCompletionMissed ==
    [][ agent'.ex.index = agent.ex.index + 1 =>
          agent'.reported = agent.ex.plan[agent.ex.index + 1] ]_vars
=============================================================================
