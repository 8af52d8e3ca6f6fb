------------------------------ MODULE AgentOps ------------------------------
(***************************************************************************)
(* The methods of goap_agent (src/src/goap_agent.cpp) as functions of its  *)
(* fields.  A method whose outcome is not the agent's to decide (what the  *)
(* planner finds, what an action answers, how far a search to be cancelled *)
(* has come) is the set of the agents it may leave behind.                 *)
(*                                                                         *)
(* The agent's async_planner is one job, the search planning_future refers *)
(* to: AsyncPlanner shows that no other thread is alive.  Its callback is  *)
(* on_plan_received, run by the searching thread.                          *)
(***************************************************************************)
EXTENDS GoalSelector, ExecutorOps

CONSTANT Config         \* the values of agent_config that agents are made with

ASSUME ConfigAssumption ==
    Config \subseteq [replanOnWorldChange    : BOOLEAN,
                      skipReplanSameGoal     : BOOLEAN,
                      goalRecheckInterval    : Nat,
                      maxConsecutiveFailures : Nat,
                      synchronousPlanning    : BOOLEAN]

\* A planner may answer with the empty plan: on failure, and for a goal that holds.
ASSUME EmptyPlanAssumption == <<>> \in Plan

AgentStatus == {"Idle", "Planning", "Executing", "PlanFailed", "Interrupted", "NoMotives"}

\* "searching" until is_planning is cleared, "cleared" until the callback and
\* the thread have returned, "done" until the future is taken, then "none".
Job == [state  : {"none", "searching", "cleared", "done"},
        answer : PlanResult,
        goal   : State]                 \* what the search was started for

Agent ==
    [config       : Config,
     status       : AgentStatus,
     world        : State,              \* world_model
     motives      : Seq(Motive),        \* the motives of selector
     priority     : [Motive -> Int],
     ex           : Executor,
     hasHeuristic : BOOLEAN,            \* active_heuristic is set
     actions      : SUBSET Action,
     active       : Motive \cup {NoMotive},     \* active_motive
     goal         : State,              \* active_goal_state
     ticks        : Nat,                \* tick_counter, modulo the interval
     failures     : Nat,                \* consecutive_failures
     dirty        : BOOLEAN,            \* world_dirty
     cached       : Action \cup {NoAction},     \* cached_current_action
     job          : Job,
     \* Not fields of the class: the searches started since failures was last
     \* zeroed, counted up to the configured number of failures; the action
     \* on_action_finished(_, true) was told of in the last step; whether
     \* kick_off_planning has thrown in Planning or Executing, with no status set
     \* since.
     searches     : Nat,
     reported     : Action \cup {NoAction},
     threw        : BOOLEAN]

NoPlan == [success |-> FALSE, actions |-> <<>>]

NoJob == [state |-> "none", answer |-> NoPlan, goal |-> EmptyState]

Capped(n, bound) == IF n < bound THEN n + 1 ELSE bound

-----------------------------------------------------------------------------
(* Goals *)

TransitionTo(a, s) == [a EXCEPT !.status = s, !.threw = FALSE]

GoalHasChanged(a, m) == a.active = NoMotive \/ GoalOf[m] # GoalOf[a.active]

\* Mutant of ShouldRecheckGoal: one tick late, which with an interval of one is never.
RecheckLate(a) == a.config.goalRecheckInterval = 0 \/ a.ticks = 1

ShouldRecheckGoal(a) == a.config.goalRecheckInterval = 0 \/ a.ticks = 0

Candidate(a) == SelectGoal(a.motives, a.priority, a.world)

\* Mutant of RetireGoal: the selector is not told.
RetireGoalAlone(a, m) == TransitionTo([a EXCEPT !.active = NoMotive], "Idle")

\* check_and_handle_goal_satisfied of a motive that is satisfied.
RetireGoal(a, m) ==
    TransitionTo([a EXCEPT !.priority = Satisfy(a.motives, @, NameOf[m]),
                           !.active = NoMotive], "Idle")

\* try_select_goal returns true.  (Its test for a candidate that is satisfied
\* never holds: select_goal passes satisfied motives over.)
MaySelect(a) ==
    LET m == Candidate(a)
    IN  /\ a.config.replanOnWorldChange \/ ~a.dirty \/ a.active = NoMotive
        /\ m # NoMotive
        /\ ~(/\ a.config.skipReplanSameGoal /\ ~GoalHasChanged(a, m)
            /\ a.status = "Executing")

\* Mutant of Adopt: active_goal_state stays behind.
AdoptMotiveOnly(a, m) == [a EXCEPT !.active = m]

Adopt(a, m) == [a EXCEPT !.active = m, !.goal = GoalOf[m]]

-----------------------------------------------------------------------------
(* Planning *)

\* What rida_planner::plan may answer: the empty plan when the goal holds, else
\* a plan of the agent's actions or a failure.
Answers(a) ==
    IF SatisfiesGoal(a.world, a.goal) THEN {[success |-> TRUE, actions |-> <<>>]}
    ELSE {NoPlan} \cup {[success |-> TRUE, actions |-> p] :
            p \in {q \in Plan : q # <<>> /\ \A i \in DOMAIN q : q[i] \in a.actions}}

\* Mutant of PlanFailure: the failure is counted and that is all.
PlanFailureCounts(a) == [a EXCEPT !.failures = (@ + 1) % a.config.maxConsecutiveFailures]

\* on_plan_received
PlanFailure(a) ==
    IF a.failures + 1 >= a.config.maxConsecutiveFailures
    THEN [TransitionTo(a, "Idle") EXCEPT !.failures = 0, !.searches = 0]
    ELSE [TransitionTo(a, "PlanFailed") EXCEPT !.failures = @ + 1]

\* Mutant of OnPlanReceived: a plan found does not end the run of failures.
OnPlanKeepsFailures(a, r) ==
    IF ~r.success \/ r.actions = <<>> THEN PlanFailure(a)
    ELSE TransitionTo([a EXCEPT !.searches = 0, !.ex = ExSetPlan(@, r, a.goal)], "Executing")

OnPlanReceived(a, r) ==
    IF ~r.success \/ r.actions = <<>> THEN PlanFailure(a)
    ELSE TransitionTo([a EXCEPT !.failures = 0, !.searches = 0,
                                !.ex = ExSetPlan(@, r, a.goal)], "Executing")

\* kick_off_planning.  Without a heuristic it throws, and so does its caller, which
\* has nothing left to do: what was cancelled, reset and adopted stays so, and the
\* status is the one from before.
KickOff(a) ==
    LET p == [TransitionTo(a, "Planning") EXCEPT
                !.searches = Capped(@, a.config.maxConsecutiveFailures)]
    IN  IF ~a.hasHeuristic THEN {[a EXCEPT !.threw = a.status \in {"Planning", "Executing"}]}
        ELSE IF a.config.synchronousPlanning THEN {OnPlanReceived(p, r) : r \in Answers(p)}
        ELSE {[p EXCEPT !.job = [state |-> "searching", answer |-> r, goal |-> p.goal]] :
                r \in Answers(p)}

\* The thread of the job calls the callback and returns.
Deliver(a) == OnPlanReceived([a EXCEPT !.job.state = "done"], a.job.answer)

\* cancel_planning: a search that goes on is stopped or ends by itself, and
\* passes the callback over; a thread that has looked at the stop flag already
\* runs the callback while the agent waits.
CancelPlanning(a) ==
    LET over == [a EXCEPT !.job.state = "done"]
    IN  CASE a.job.state = "searching" -> {over, [over EXCEPT !.job.answer = NoPlan]}
          [] a.job.state = "cleared"   -> {over, Deliver(a)}
          [] OTHER                     -> {a}

-----------------------------------------------------------------------------
(* Control *)

\* Mutants of Halt: the search goes on, the cached action stays.
HaltExecutorOnly(a, s) ==
    {TransitionTo([a EXCEPT !.ex = ExInterrupt(@), !.cached = NoAction], s)}
HaltKeepsCached(a, s) ==
    {TransitionTo([b EXCEPT !.ex = ExInterrupt(@)], s) : b \in CancelPlanning(a)}

Halt(a, s) ==
    {TransitionTo([b EXCEPT !.ex = ExInterrupt(@), !.cached = NoAction], s) :
        b \in CancelPlanning(a)}

AgentInterrupt(a) == Halt(a, "Interrupted")

AgentResume(a) == IF a.status = "Interrupted" THEN TransitionTo(a, "Idle") ELSE a

AgentSatisfyMotive(a, name) ==
    LET b == [a EXCEPT !.priority = Satisfy(a.motives, @, name)]
    IN  IF b.active = NoMotive \/ NameOf[b.active] # name THEN {b}
        ELSE Halt([b EXCEPT !.active = NoMotive], "Idle")

SelectAndPlan(a) == UNION {KickOff(b) : b \in {Adopt(a, Candidate(a))}}

AgentForceReplan(a) ==
    UNION {IF MaySelect(b) THEN SelectAndPlan(b) ELSE {TransitionTo(b, "Idle")} :
            b \in {[c EXCEPT !.ex = ExReset(@), !.cached = NoAction] : c \in CancelPlanning(a)}}

-----------------------------------------------------------------------------
(* The phases of tick *)

PhaseIdle(a) ==
    LET wanted == Wanted(a.motives, a.priority)
        met == {i \in wanted : IsSatisfied(a.motives[i], a.world)}
        b == [(IF a.status = "NoMotives" THEN TransitionTo(a, "Idle") ELSE a)
                EXCEPT !.dirty = IF met = {} THEN FALSE ELSE @]
    IN  IF a.actions = {} THEN {a}
        ELSE IF wanted = {} THEN {TransitionTo(a, "NoMotives")}
        ELSE IF met # {} THEN {RetireGoal(b, a.motives[Least(met)])}
        ELSE IF ~a.config.replanOnWorldChange /\ a.dirty /\ a.active # NoMotive THEN
            IF IsSatisfied(a.active, a.world) THEN {RetireGoal(b, a.active)} ELSE KickOff(b)
        ELSE IF MaySelect(b) THEN SelectAndPlan(b) ELSE {b}

\* on_action_finished(_, true) for the action at index i, if the plan has one.
Report(a, i) ==
    [a EXCEPT !.reported = IF i >= Len(a.ex.plan) THEN @ ELSE a.ex.plan[i + 1]]

\* Mutant of StillRunning: only a change of the action is looked at.
StillRunningQuiet(a, at) ==
    IF a.ex.action # NoAction /\ a.ex.action # a.cached
    THEN [a EXCEPT !.cached = a.ex.action] ELSE a

\* handle_execution_result of Running.  on_action_finished is called for the
\* action before the current one whenever no other action has just come up.
StillRunning(a, at) ==
    IF a.ex.action # NoAction /\ a.ex.action # a.cached
    THEN [a EXCEPT !.cached = a.ex.action]
    ELSE IF at > 0 THEN Report(a, at - 1) ELSE a

HandleExecutionResult(a, status, at) ==
    CASE status = "Running" -> {StillRunning(a, at)}
      [] status = "Success" ->
            {TransitionTo([Report(a, IF at > 0 THEN at - 1 ELSE 0) EXCEPT !.cached = NoAction], "Idle")}
      [] status \in {"Failed", "NeedReplanning"} -> AgentForceReplan(a)
      [] status = "Interrupted" -> {TransitionTo([a EXCEPT !.cached = NoAction], "Idle")}
      [] OTHER -> {a}

PhaseExecuting(before) ==
    LET a == [before EXCEPT !.dirty = FALSE]
        m == Candidate(a)
    IN  IF /\ a.config.replanOnWorldChange /\ before.dirty /\ ShouldRecheckGoal(a)
           /\ m # NoMotive /\ GoalHasChanged(a, m)
        THEN UNION {KickOff(Adopt([b EXCEPT !.cached = NoAction], m)) :
                    b \in CancelPlanning([a EXCEPT !.ex = ExInterrupt(@)])}
        ELSE IF a.active # NoMotive /\ IsSatisfied(a.active, a.world)
        THEN {RetireGoal([a EXCEPT !.ex = ExInterrupt(@), !.cached = NoAction], a.active)}
        ELSE UNION {HandleExecutionResult([a EXCEPT !.ex = o.ex, !.world = o.world],
                                          o.status, o.index) :
                    o \in ExTick(a.ex, a.world)}
=============================================================================
