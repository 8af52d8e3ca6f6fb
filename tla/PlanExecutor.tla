---------------------------- MODULE PlanExecutor ----------------------------
(***************************************************************************)
(* A plan_executor driven by a caller who may do anything the public       *)
(* methods allow between two ticks, over a world the game also writes.     *)
(* Documentation.md:571 offers the class for such integrations; inside a   *)
(* goap_agent its use is narrower (auto_replan is off, the world is bound).*)
(*                                                                         *)
(* One action of this module is one call of a public method: the class is  *)
(* single threaded and its calls run to completion.                        *)
(***************************************************************************)
EXTENDS ExecutorOps

CONSTANTS Write,        \* the partial worlds the game merges into the world
          InitWorld,    \* the world at the start
          AutoReplan    \* the values auto_replan takes

ASSUME CallerAssumption ==
    Write \subseteq State /\ InitWorld \in State /\ AutoReplan \subseteq BOOLEAN

VARIABLES ex,           \* the executor
          world         \* the world_state behind world_model

vars == <<ex, world>>

Init ==
    /\ \E auto \in AutoReplan : ex = NewExecutor(TRUE, auto)
    /\ world = InitWorld

-----------------------------------------------------------------------------
\* A call returns, leaving the executor as e: the program is still there.
Returns(e) == ~ex.crashed /\ ex' = e

SetPlan ==
    \E r \in PlanResult, g \in Goal :
        Returns(ExSetPlan(Observe(ex), r, g)) /\ UNCHANGED world

InterruptPlan == Returns(ExInterrupt(Observe(ex))) /\ UNCHANGED world

ResetPlan == Returns(ExReset(Observe(ex))) /\ UNCHANGED world

Tick ==
    \E o \in ExTick(Observe(ex), world) : Returns(o.ex) /\ world' = o.world

SetWorldModel ==
    \E b \in BOOLEAN : Returns([Observe(ex) EXCEPT !.bound = b]) /\ UNCHANGED world

SetReplanCallback ==
    \E b \in BOOLEAN : Returns([Observe(ex) EXCEPT !.canReplan = b]) /\ UNCHANGED world

SetAutoReplan ==
    \E b \in AutoReplan : Returns([Observe(ex) EXCEPT !.autoReplan = b]) /\ UNCHANGED world

\* The game writes the world between two calls.
WriteWorld ==
    \E d \in Write : Returns(Observe(ex)) /\ world' \in Written(world, d)

Next ==
    \/ SetPlan
    \/ InterruptPlan
    \/ ResetPlan
    \/ Tick
    \/ SetWorldModel
    \/ SetReplanCallback
    \/ SetAutoReplan
    \/ WriteWorld

Spec == Init /\ [][Next]_vars

\* A patient caller: ticks and sets a plan only when none runs, while the game may
\* write the world at any time.
PatientNext ==
    \/ Tick
    \/ WriteWorld
    \/ ex.status # "Running" /\ SetPlan

\* An action that is ticked again and again does not answer Running forever.
ActionEnds == Tick /\ ex'.calls # <<>> /\ ex'.calls[1][1] # "on_tick_Running"

\* The game loop goes on.
FairSpec == Spec /\ WF_vars(Tick) /\ SF_vars(ActionEnds)

-----------------------------------------------------------------------------
(* Properties *)

TypeOK == ex \in Executor /\ world \in State

\* The executor's three fields are in step after every call of its caller
\* (plan_executor.cpp:11-168).
CurrentActionConsistent == Consistent(ex)

\* A null current_action is dereferenced (plan_executor.cpp:96) with auto_replan
\* on only: goap_agent, which switches it off, is out of its reach.
NoNullWithoutAutoReplan == ex.crashed => ex.autoReplan

\* The index moves on by one, over an action that on_tick and on_end have been
\* told about in that step, and otherwise only goes back to the start of a
\* plan: no action of a plan is skipped or finished twice.
ActionsFinishInOrder ==
    [][ ex'.index # ex.index =>
          \/ /\ ex'.index = ex.index + 1 /\ ex'.plan = ex.plan
             /\ LET a == ex.plan[ex.index + 1]
                IN  ex'.calls = <<<<"on_tick_Succeeded", a>>, <<"on_end", a>>>>
          \/ ex'.index = 0 /\ ~ex'.started ]_vars

\* The executor changes the world only to apply the effects of the open action
\* whose preconditions hold at that moment; an interrupted, failed or refused
\* action leaves no effect.
EffectsOnlyOnCompletion ==
    [][ (world' # world /\ ex'.calls # <<>>) =>
          LET a == ex.plan[ex.index + 1]
          IN  /\ ex.started /\ ex'.index = ex.index + 1
              /\ CheckPreconditions(Pre[a], world)
              /\ world' = ApplyEffects(Eff[a], world) ]_vars

\* The executor implements ActionLifecycle: the open action is the started one.
Open(e) == IF e.started THEN e.action ELSE NoAction

ModeOf(e) == IF e.status = "Running" THEN "running"
             ELSE IF e.status = "Failed" THEN "failed" ELSE "stopped"

Lifecycle == INSTANCE ActionLifecycle WITH
    open <- Open(ex), mode <- ModeOf(ex), calls <- ex.calls

ImplementsLifecycle == Lifecycle!Spec

\* Once its caller is patient for good, and auto_replan is off, a running plan ends:
\* it is not ticked forever, whatever the calls before have left behind.
PlanEnds ==
    <>[][PatientNext]_vars /\ <>[]~ex.autoReplan =>
        ((ex.status = "Running") ~> (ex.status # "Running"))

-----------------------------------------------------------------------------
(* What the documents say of the class *)

\* Documentation.md:568, the executor is to "trigger replanning when an action
\* fails due to invalidated preconditions": a tick that finds the preconditions
\* of the next action invalidated, and may replan, survives the new plan.
ReplanOnLostPreconditions ==
    [][ LET next == EnsureLoaded(ex)
        IN  /\ ex.status = "Running" /\ ex.autoReplan /\ ex.canReplan
            /\ ~ex.started /\ ~PreconditionsHold(next, world)
            => ~ex'.crashed ]_vars
=============================================================================
