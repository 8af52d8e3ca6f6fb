---------------------------- MODULE ExecutorOps ----------------------------
(***************************************************************************)
(* The methods of plan_executor (src/src/plan_executor.cpp) as functions   *)
(* of the executor's fields and of the world it points to.  PlanExecutor   *)
(* runs them on their own, GoapAgent inside the agent's phases.            *)
(*                                                                         *)
(* The fields are those of the class.  "calls" is not a field: it is what  *)
(* the actions of the plan observe, the virtual calls the executor has     *)
(* made on them since Observe last emptied it, each with its answer.       *)
(***************************************************************************)
EXTENDS WorldState, Sequences

CONSTANTS Action,       \* the goap_action objects
          NoAction,     \* the null goap_action::ptr
          Pre,          \* the preconditions of each action
          Eff,          \* the effects of each action
          Plan,         \* the action sequences a planner may return
          Goal          \* the goal states plans are made for

ASSUME ActionAssumption ==
    /\ NoAction \notin Action
    /\ Pre \in [Action -> Conditions]
    /\ Eff \in [Action -> State]
    /\ Plan \subseteq Seq(Action)
    /\ Goal \subseteq State

ExecutionStatus == {"Idle", "Running", "Success", "Failed", "Interrupted",
                    "NeedReplanning"}

\* A virtual call with its answer.  on_end is only ever told TRUE: the one
\* call of end_current_action that is reachable passes true.
CallKind == {"on_start_true", "on_start_false", "on_tick_Running",
             "on_tick_Succeeded", "on_tick_Failed", "on_end", "on_interrupt"}

Executor ==
    [status      : ExecutionStatus,
     plan        : Seq(Action),         \* current_plan.actions
     goal        : State,               \* goal_state
     index       : Nat,                 \* current_action_index, from 0
     action      : Action \cup {NoAction},   \* current_action
     started     : BOOLEAN,             \* action_started
     justStarted : BOOLEAN,             \* just_started
     bound       : BOOLEAN,             \* world_model is not null
     autoReplan  : BOOLEAN,             \* auto_replan
     canReplan   : BOOLEAN,             \* on_replan_requested is set
     calls       : Seq(CallKind \X Action),
     crashed     : BOOLEAN]             \* a null action was dereferenced

NewExecutor(isBound, auto) ==
    [status |-> "Idle", plan |-> <<>>, goal |-> EmptyState, index |-> 0,
     action |-> NoAction, started |-> FALSE, justStarted |-> FALSE,
     bound |-> isBound, autoReplan |-> auto, canReplan |-> FALSE,
     calls |-> <<>>, crashed |-> FALSE]

\* What success() and actions of a plan_result say.
PlanResult == [success : BOOLEAN, actions : Plan]

Observe(e) == [e EXCEPT !.calls = <<>>]

Call(e, kind) == [e EXCEPT !.calls = Append(@, <<kind, e.action>>)]

-----------------------------------------------------------------------------
(* interrupt, set_plan, reset *)

\* Mutants of NotifyInterrupt: the guard is missing, the call is missing.
NotifyUnguarded(e) == Call(e, "on_interrupt")
NotifyNobody(e) == e

NotifyInterrupt(e) ==
    IF e.action # NoAction /\ e.started THEN Call(e, "on_interrupt") ELSE e

\* Mutant of ExInterrupt: action_started is not reset.
InterruptKeepsStarted(e) ==
    [NotifyInterrupt(e) EXCEPT !.status = "Interrupted", !.action = NoAction]

ExInterrupt(e) ==
    [NotifyInterrupt(e) EXCEPT !.status = "Interrupted",
                               !.action = NoAction, !.started = FALSE]

ExSetPlan(e, result, g) ==
    [(IF e.status = "Running" THEN ExInterrupt(e) ELSE e) EXCEPT
        !.plan = result.actions, !.goal = g, !.index = 0,
        !.action = NoAction, !.started = FALSE,
        !.status = IF result.success THEN "Running" ELSE "Failed"]

\* Mutant of ExReset: it does not begin with an interrupt.
ResetSilently(e) ==
    [e EXCEPT !.plan = <<>>, !.goal = EmptyState, !.index = 0, !.status = "Idle",
              !.action = NoAction, !.started = FALSE]

ExReset(e) ==
    [ExInterrupt(e) EXCEPT !.plan = <<>>, !.goal = EmptyState, !.index = 0,
                           !.status = "Idle"]

-----------------------------------------------------------------------------
(* tick.  An outcome is the state a call leaves behind, the world included, *)
(* and the status and index of the execution_result it returns.  What an    *)
(* action or the replan callback answers is not the executor's: each        *)
(* operator is the set of outcomes over the possible answers.               *)

Outcome(e, w, returned, at) == [ex |-> e, world |-> w, status |-> returned, index |-> at]

\* make_failure: current_action and action_started stay as they are.
Failure(e, w) == Outcome([e EXCEPT !.status = "Failed"], w, "Failed", e.index)

EnsureLoaded(e) ==
    IF e.action = NoAction /\ ~e.started /\ e.index < Len(e.plan)
    THEN [e EXCEPT !.action = e.plan[e.index + 1]]
    ELSE e

\* validate_preconditions
PreconditionsHold(e, w) ==
    e.action # NoAction /\ e.bound /\ CheckPreconditions(Pre[e.action], w)

\* Mutant of Replanned: auto_replan is not looked at.
ReplannedAlways(e) ==
    {ExSetPlan(e, [success |-> TRUE, actions |-> p], e.goal) : p \in Plan}

\* attempt_replan when it returns true: on_replan_requested found a plan.  The
\* callback may also fail, and then attempt_replan changes nothing.
Replanned(e) ==
    IF e.autoReplan /\ e.canReplan /\ e.bound
    THEN {ExSetPlan(e, [success |-> TRUE, actions |-> p], e.goal) : p \in Plan}
    ELSE {}

\* Mutant of WorldAfter: the effects are applied whatever the world has become.
WorldAfterUnchecked(e, w) == ApplyEffects(Eff[e.action], w)

\* end_current_action(true): the effects are applied only if the preconditions
\* hold at completion, on_end is told success in either case.
WorldAfter(e, w) ==
    IF PreconditionsHold(e, w) THEN ApplyEffects(Eff[e.action], w) ELSE w

\* handle_finished_plan
FinishedPlan(e, w) ==
    LET ended == e.action # NoAction /\ e.started
        x == IF ended THEN Call(e, "on_end") ELSE e
    IN  Outcome([x EXCEPT !.status = "Success"],
                IF ended THEN WorldAfter(e, w) ELSE w, "Success", e.index)

\* handle_pre_start_phase
PreStart(e, w) ==
    IF e.started THEN {Outcome(e, w, e.status, e.index)}
    ELSE IF ~PreconditionsHold(e, w) THEN
        LET need == [e EXCEPT !.status = "NeedReplanning"]
        IN  {Outcome(x, w, "Running", e.index) : x \in Replanned(need)}
            \cup {Failure(need, w)}
    ELSE {Failure(Call(e, "on_start_false"), w),
          Outcome([Call(e, "on_start_true") EXCEPT !.started = TRUE,
                                                   !.justStarted = TRUE],
                  w, e.status, e.index)}

\* Mutant of Advance: the index stays.
AdvanceForgetsIndex(e) == [e EXCEPT !.action = NoAction, !.started = FALSE]

Advance(e) ==
    LET next == e.index + 1
    IN  [e EXCEPT !.action = NoAction, !.started = FALSE, !.index = next,
                  !.status = IF next >= Len(e.plan) THEN "Success" ELSE @]

\* handle_action_tick when current_action->on_tick answers Running, Failed
\* or Succeeded.
TickRunning(e, w) == {Outcome(Call(e, "on_tick_Running"), w, e.status, e.index)}

\* Mutant of TickFailed: a failed action is passed over like one that succeeded.
TickFailedMovesOn(e, w) ==
    LET x == Advance(Call(Call(e, "on_tick_Failed"), "on_end"))
    IN  {Outcome(x, w, x.status, x.index)}

TickFailed(e, w) ==
    LET x == Call(e, "on_tick_Failed")
    IN  {Outcome(r, w, "Running", e.index) : r \in Replanned(x)} \cup {Failure(x, w)}

TickSucceeded(e, w) ==
    LET x == Advance(Call(Call(e, "on_tick_Succeeded"), "on_end"))
    IN  {Outcome(x, WorldAfter(e, w), x.status, x.index)}

\* handle_action_tick.  Nothing checks current_action here: a call through the
\* null pointer is undefined and stops the program in every build.
ActionTick(e, w) ==
    IF e.action = NoAction
    THEN {Outcome([e EXCEPT !.crashed = TRUE], w, e.status, e.index)}
    ELSE TickRunning(e, w) \cup TickFailed(e, w) \cup TickSucceeded(e, w)

\* The part of tick after the plan is known to be unfinished.
StepAction(e, w) ==
    UNION {IF o.status # "Running" \/ o.ex.justStarted THEN {o}
           ELSE ActionTick(o.ex, o.world)
           : o \in PreStart(EnsureLoaded([e EXCEPT !.justStarted = FALSE]), w)}

ExTick(e, w) ==
    IF ~e.bound THEN {Failure(e, w)}
    ELSE IF e.status # "Running" THEN {Outcome(e, w, e.status, e.index)}
    ELSE IF e.index >= Len(e.plan) THEN {FinishedPlan(e, w)}
    ELSE StepAction(e, w)

-----------------------------------------------------------------------------
(* A property of an executor *)

\* current_action, action_started and current_action_index are three fields
\* that every method has to keep in step: a loaded action is the one the index
\* points at, a started action is loaded, and an executor with a started
\* action is running or failed (plan_executor.cpp:24-34 leaves both fields).
Consistent(e) ==
    /\ e.index <= Len(e.plan)
    /\ e.action # NoAction => /\ e.index < Len(e.plan)
                              /\ e.action = e.plan[e.index + 1]
    /\ e.started => e.action # NoAction /\ e.status \in {"Running", "Failed"}
=============================================================================
