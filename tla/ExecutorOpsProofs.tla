-------------------------- MODULE ExecutorOpsProofs --------------------------
(***************************************************************************)
(* What the methods of ExecutorOps keep, for all actions, plans and        *)
(* worlds: each of them, applied to a well formed executor (typed, its     *)
(* current action in step with its index), yields well formed executors.   *)
(***************************************************************************)
EXTENDS ExecutorOps, SequenceProofs

WellFormed(e) == e \in Executor /\ Consistent(e)

\* Merging typed worlds gives a typed world (world_state::merge).
LEMMA MergeTyped ==
    ASSUME NEW w \in State, NEW d \in State
    PROVE  Merge(w, d) \in State
  BY DEF Merge, State

\* So does the game, whichever way it writes one.
LEMMA WrittenTyped ==
    ASSUME NEW w \in State, NEW d \in State, NEW v \in Written(w, d)
    PROVE  v \in State
  <1>1. MergeDefaults(w, d) \in State
    BY DEF MergeDefaults, State
  <1>2. \A k \in Key : RemoveState(w, k) \in State
    BY DEF RemoveState, State
  <1> QED
    BY <1>1, <1>2, MergeTyped DEF Written, Keys

\* Forgetting the calls of the step before keeps an executor well formed.
LEMMA ObserveWellFormed ==
    ASSUME NEW e, WellFormed(e)
    PROVE  WellFormed(Observe(e)) /\ Observe(e).calls = <<>>
  <1>1. <<>> \in Seq(CallKind \X Action)
    OBVIOUS
  <1>2. Observe(e) \in Executor /\ Observe(e).calls = <<>>
    BY <1>1 DEF WellFormed, Executor, Observe
  <1>3. Consistent(Observe(e))
    BY DEF WellFormed, Executor, Consistent, Observe
  <1> QED
    BY <1>2, <1>3 DEF WellFormed

\* A call on a loaded action adds one call and touches no other field.
LEMMA CallWellFormed ==
    ASSUME NEW e, WellFormed(e), e.action # NoAction, NEW kind \in CallKind
    PROVE  WellFormed(Call(e, kind))
  <1>1. e.action \in Action
    BY DEF WellFormed, Executor
  <1>2. Append(e.calls, <<kind, e.action>>) \in Seq(CallKind \X Action)
    BY <1>1 DEF WellFormed, Executor
  <1> QED
    BY <1>2 DEF WellFormed, Executor, Consistent, Call

\* interrupt() keeps an executor well formed (plan_executor.cpp:152).
LEMMA InterruptWellFormed ==
    ASSUME NEW e, WellFormed(e)
    PROVE  WellFormed(ExInterrupt(e))
  <1>1. WellFormed(NotifyInterrupt(e))
    BY CallWellFormed DEF NotifyInterrupt, CallKind
  <1> QED
    BY <1>1 DEF WellFormed, Executor, Consistent, ExInterrupt, ExecutionStatus

\* reset() keeps an executor well formed (plan_executor.cpp:161).
LEMMA ResetWellFormed ==
    ASSUME NEW e, WellFormed(e)
    PROVE  WellFormed(ExReset(e))
  <1> DEFINE x == ExInterrupt(e)
             y == [x EXCEPT !.plan = <<>>, !.goal = EmptyState, !.index = 0, !.status = "Idle"]
  <1>1. x \in Executor /\ x.action = NoAction /\ ~x.started
    <2>1. NotifyInterrupt(e) \in Executor
      BY CallWellFormed DEF NotifyInterrupt, CallKind, WellFormed
    <2> QED
      BY <2>1 DEF ExInterrupt, Executor, ExecutionStatus
  <1>2. EmptyState \in State /\ <<>> \in Seq(Action)
    BY DEF EmptyState, State
  <1> HIDE DEF x
  <1>3. y \in Executor
    BY <1>1, <1>2 DEF Executor, ExecutionStatus
  <1>4. y.plan = <<>> /\ y.index = 0 /\ y.action = NoAction /\ ~y.started
    BY <1>1 DEF Executor
  <1> QED
    BY <1>3, <1>4 DEF WellFormed, Consistent, ExReset, x

\* set_plan() keeps an executor well formed (plan_executor.cpp:11).
LEMMA SetPlanWellFormed ==
    ASSUME NEW e, WellFormed(e), NEW r \in PlanResult, NEW g \in State
    PROVE  WellFormed(ExSetPlan(e, r, g))
  <1> DEFINE x == IF e.status = "Running" THEN ExInterrupt(e) ELSE e
  <1>1. WellFormed(x)
    BY InterruptWellFormed
  <1>2. r.actions \in Seq(Action) /\ g \in State
    BY ActionAssumption DEF PlanResult
  <1> DEFINE st == IF r.success THEN "Running" ELSE "Failed"
             y == [x EXCEPT !.plan = r.actions, !.goal = g, !.index = 0,
                            !.action = NoAction, !.started = FALSE, !.status = st]
  <1>3. ExSetPlan(e, r, g) = y
    BY DEF ExSetPlan
  <1>4. st \in ExecutionStatus
    BY DEF ExecutionStatus
  <1>5. x \in Executor
    BY <1>1 DEF WellFormed
  <1> HIDE DEF x, st
  <1>6. y \in Executor
    BY <1>2, <1>4, <1>5 DEF Executor
  <1>7. y.index = 0 /\ y.action = NoAction /\ ~y.started /\ y.plan = r.actions
    BY <1>5 DEF Executor
  <1>8. Len(r.actions) \in Nat
    BY <1>2
  <1> QED
    BY <1>3, <1>6, <1>7, <1>8 DEF WellFormed, Consistent

-----------------------------------------------------------------------------
(* tick, case by case *)

\* The executor a tick of a running plan works on: just_started cleared and the
\* next action loaded.
Loaded(e) == EnsureLoaded([e EXCEPT !.justStarted = FALSE])

\* Loading the next action of an unfinished plan yields a well formed executor
\* that holds that action (plan_executor.cpp:47).
LEMMA LoadedWellFormed ==
    ASSUME NEW e, WellFormed(e), e.index < Len(e.plan)
    PROVE  LET l == Loaded(e)
           IN  /\ WellFormed(l) /\ l.action \in Action /\ ~l.justStarted
               /\ l.action = e.plan[e.index + 1]
               /\ l = [e EXCEPT !.justStarted = FALSE, !.action = l.action]
  <1> DEFINE x == [e EXCEPT !.justStarted = FALSE]
             a == e.plan[e.index + 1]
             y == [x EXCEPT !.action = a]
  <1>1. e \in Executor /\ Consistent(e)
    BY DEF WellFormed
  <1>2. x \in Executor /\ ~x.justStarted
    BY <1>1 DEF Executor
  <1>3. a \in Action
    BY <1>1 DEF Executor
  <1>4. x.action = e.action /\ x.started = e.started /\ x.index = e.index /\ x.plan = e.plan
        /\ x.status = e.status
    BY <1>1 DEF Executor
  <1>5. Loaded(e) = IF e.action = NoAction THEN y ELSE x
    BY <1>1, <1>4 DEF Loaded, EnsureLoaded, Consistent
  <1>6. y \in Executor /\ ~y.justStarted /\ y.action = a /\ y.index = e.index /\ y.plan = e.plan
        /\ y.status = e.status /\ y.started = e.started
    BY <1>2, <1>3, <1>4 DEF Executor
  <1>7. y = [e EXCEPT !.justStarted = FALSE, !.action = a]
    OBVIOUS
  <1>8. CASE e.action = NoAction
    BY <1>1, <1>3, <1>5, <1>6, <1>7, <1>8, ActionAssumption DEF WellFormed, Consistent
  <1>9. CASE e.action # NoAction
    <2>1. e.action = a
      BY <1>1, <1>9 DEF Consistent
    <2>2. x = [e EXCEPT !.justStarted = FALSE, !.action = e.action]
      BY <1>1 DEF Executor
    <2> QED
      BY <1>1, <1>2, <1>3, <1>4, <1>5, <1>9, <2>1, <2>2 DEF WellFormed, Consistent
  <1> QED
    BY <1>8, <1>9

\* Loading changes no field but the two.
LEMMA LoadedFields ==
    ASSUME NEW e, WellFormed(e), e.index < Len(e.plan)
    PROVE  LET l == Loaded(e)
           IN  /\ l \in Executor /\ l.action # NoAction
               /\ l.status = e.status /\ l.plan = e.plan /\ l.index = e.index
               /\ l.started = e.started /\ l.bound = e.bound /\ l.calls = e.calls
               /\ l.autoReplan = e.autoReplan /\ l.crashed = e.crashed
               /\ l.goal = e.goal
  <1> DEFINE l == Loaded(e)
  <1>1. /\ WellFormed(l) /\ l.action \in Action
        /\ l = [e EXCEPT !.justStarted = FALSE, !.action = l.action]
    BY LoadedWellFormed
  <1> HIDE DEF l
  <1>2. e \in Executor
    BY DEF WellFormed
  <1>3. /\ l.status = e.status /\ l.plan = e.plan /\ l.index = e.index
        /\ l.started = e.started /\ l.bound = e.bound /\ l.calls = e.calls
        /\ l.autoReplan = e.autoReplan /\ l.crashed = e.crashed /\ l.goal = e.goal
    BY <1>1, <1>2 DEF Executor
  <1> QED
    BY <1>1, <1>3, ActionAssumption DEF WellFormed, l

\* tick returns before it reaches an action.
Halts(e, w, o) ==
    /\ o.world = w
    /\ \/ ~e.bound /\ o.ex = [e EXCEPT !.status = "Failed"]
       \/ e.status # "Running" /\ o.ex = e
       \/ /\ e.status = "Running" /\ e.index = Len(e.plan)
          /\ o.ex = [e EXCEPT !.status = "Success"]

\* The plan is running and l is the executor with its next action loaded.
Starts(l, o) ==
    /\ ~l.started
    /\ \/ o.ex = [l EXCEPT !.status = "Failed"]
       \/ o.ex = [Call(l, "on_start_false") EXCEPT !.status = "Failed"]
       \/ o.ex = [Call(l, "on_start_true") EXCEPT !.started = TRUE, !.justStarted = TRUE]

Works(l, o) ==
    /\ l.started
    /\ \/ o.ex = Call(l, "on_tick_Running")
       \/ o.ex = [Call(l, "on_tick_Failed") EXCEPT !.status = "Failed"]

Finishes(l, w, o) ==
    /\ l.started
    /\ o.ex = Advance(Call(Call(l, "on_tick_Succeeded"), "on_end"))
    /\ o.world = WorldAfter(l, w)

\* on_tick failed and the replan callback found a plan.
Replans(l, o) ==
    /\ l.started /\ l.autoReplan
    /\ \E p \in Plan : o.ex = ExSetPlan(Call(l, "on_tick_Failed"),
                                      [success |-> TRUE, actions |-> p], l.goal)

\* The preconditions were lost, the callback found a plan, and tick went on
\* into handle_action_tick with no action loaded.
Crashes(l, o) ==
    /\ ~l.started /\ l.autoReplan
    /\ \E p \in Plan :
          o.ex = [ExSetPlan([l EXCEPT !.status = "NeedReplanning"],
                            [success |-> TRUE, actions |-> p], l.goal)
                  EXCEPT !.crashed = TRUE]

TickCases(e, w, o) ==
    LET l == Loaded(e)
    IN  \/ Halts(e, w, o)
        \/ /\ e.status = "Running" /\ e.index < Len(e.plan)
           /\ \/ Finishes(l, w, o)
              \/ o.world = w /\ (Starts(l, o) \/ Works(l, o) \/ Replans(l, o) \/ Crashes(l, o))

\* What handle_action_tick makes of a started, loaded action.
LEMMA ActionTickCases ==
    ASSUME NEW l, WellFormed(l), l.started, NEW w \in State,
           NEW o \in ActionTick(l, w)
    PROVE  Finishes(l, w, o) \/ (o.world = w /\ (Works(l, o) \/ Replans(l, o)))
  <1> DEFINE x == Call(l, "on_tick_Failed")
  <1>1. l \in Executor /\ l.action # NoAction
    BY DEF WellFormed, Consistent
  <1>2. x.autoReplan = l.autoReplan /\ x.goal = l.goal
    BY <1>1 DEF Executor, Call
  <1>3. CASE o \in TickRunning(l, w)
    BY <1>3 DEF TickRunning, Outcome, Works
  <1>4. CASE o \in TickSucceeded(l, w)
    BY <1>4 DEF TickSucceeded, Outcome, Finishes
  <1>5. CASE o = Failure(x, w)
    BY <1>5 DEF Failure, Outcome, Works
  <1>6. ASSUME NEW r \in Replanned(x), o = Outcome(r, w, "Running", l.index)
        PROVE  o.world = w /\ Replans(l, o)
    BY <1>2, <1>6 DEF Replanned, Outcome, Replans
  <1> QED
    BY <1>1, <1>3, <1>4, <1>5, <1>6 DEF ActionTick, TickFailed

\* What StepAction makes of an action that is loaded and not started.
LEMMA PreStartCases ==
    ASSUME NEW l, WellFormed(l), ~l.started, ~l.justStarted, l.status = "Running",
           NEW w \in State,
           NEW q \in PreStart(l, w),
           NEW o \in IF q.status # "Running" \/ q.ex.justStarted THEN {q}
                     ELSE ActionTick(q.ex, q.world)
    PROVE  o.world = w /\ (Starts(l, o) \/ Crashes(l, o))
  <1> DEFINE need == [l EXCEPT !.status = "NeedReplanning"]
             no == Call(l, "on_start_false")
             yes == [Call(l, "on_start_true") EXCEPT !.started = TRUE, !.justStarted = TRUE]
  <1>1. l \in Executor
    BY DEF WellFormed
  <1>2. /\ need.autoReplan = l.autoReplan /\ ~need.justStarted /\ need.goal = l.goal
        /\ need.status = "NeedReplanning" /\ need \in Executor
        /\ [need EXCEPT !.status = "Failed"] = [l EXCEPT !.status = "Failed"]
    BY <1>1 DEF Executor, ExecutionStatus
  <1>3. CASE q = Failure(need, w)
    BY <1>2, <1>3 DEF Failure, Outcome, Starts
  <1>4. CASE q = Failure(no, w)
    BY <1>4 DEF Failure, Outcome, Starts
  <1>5. CASE q = Outcome(yes, w, l.status, l.index)
    <2>1. yes.justStarted
      BY <1>1 DEF Call, Executor
    <2>2. q.status = "Running" /\ q.ex = yes /\ q.world = w
      BY <1>5 DEF Outcome
    <2>3. o = q
      BY <2>1, <2>2
    <2> QED
      BY <2>2, <2>3 DEF Starts
  <1>6. ASSUME NEW r \in Replanned(need), q = Outcome(r, w, "Running", l.index)
        PROVE  o.world = w /\ Crashes(l, o)
    <2>1. PICK p \in Plan : r = ExSetPlan(need, [success |-> TRUE, actions |-> p], need.goal)
      BY <1>6 DEF Replanned
    <2>2. r = [need EXCEPT !.plan = p, !.goal = need.goal, !.index = 0, !.action = NoAction,
                           !.started = FALSE, !.status = "Running"]
      BY <1>2, <2>1 DEF ExSetPlan
    <2>3. r \in Executor /\ r.action = NoAction /\ ~r.justStarted
      <3>1. p \in Seq(Action)
        BY ActionAssumption
      <3> QED
        BY <1>2, <2>2, <3>1 DEF Executor, ExecutionStatus
    <2>4. q.status = "Running" /\ q.ex = r /\ q.world = w
      BY <1>6 DEF Outcome
    <2>5. o.ex = [r EXCEPT !.crashed = TRUE] /\ o.world = w
      BY <2>3, <2>4 DEF Outcome, ActionTick
    <2>6. l.autoReplan
      BY <1>2, <1>6 DEF Replanned
    <2> QED
      BY <1>2, <2>1, <2>5, <2>6 DEF Crashes
  <1> QED
    BY <1>3, <1>4, <1>5, <1>6 DEF PreStart

\* Every outcome of tick on a well formed executor is one of the cases.
LEMMA TickHasCases ==
    ASSUME NEW e, WellFormed(e), NEW w \in State, NEW o \in ExTick(e, w)
    PROVE  TickCases(e, w, o)
  <1> DEFINE l == Loaded(e)
  <1>1. e \in Executor /\ Consistent(e)
    BY DEF WellFormed
  <1>2. Len(e.plan) \in Nat /\ e.index \in Nat
    BY <1>1 DEF Executor
  <1>3. CASE ~e.bound
    BY <1>3 DEF ExTick, Failure, Outcome, TickCases, Halts
  <1>4. CASE e.bound /\ e.status # "Running"
    BY <1>4 DEF ExTick, Outcome, TickCases, Halts
  <1>5. CASE e.bound /\ e.status = "Running" /\ e.index >= Len(e.plan)
    <2>1. e.index = Len(e.plan) /\ ~e.started /\ e.action = NoAction
      BY <1>1, <1>2, <1>5 DEF Consistent
    <2> QED
      BY <1>5, <2>1 DEF ExTick, FinishedPlan, Outcome, TickCases, Halts
  <1>6. CASE e.bound /\ e.status = "Running" /\ ~(e.index >= Len(e.plan))
    <2>1. e.index < Len(e.plan)
      BY <1>2, <1>6
    <2>2. WellFormed(l) /\ ~l.justStarted /\ l.started = e.started /\ l.status = "Running"
      BY <1>1, <1>6, <2>1, LoadedWellFormed DEF Executor
    <2>3. PICK q \in PreStart(l, w) :
            o \in IF q.status # "Running" \/ q.ex.justStarted THEN {q}
                  ELSE ActionTick(q.ex, q.world)
      BY <1>6 DEF ExTick, StepAction, Loaded
    <2>4. CASE ~l.started
      BY <2>2, <2>3, <2>4, PreStartCases, <1>6, <2>1 DEF TickCases
    <2>5. CASE l.started
      <3>1. q = Outcome(l, w, l.status, l.index)
        BY <2>3, <2>5 DEF PreStart
      <3>2. o \in ActionTick(l, w)
        BY <2>2, <2>3, <3>1 DEF Outcome
      <3> QED
        BY <1>6, <2>1, <2>2, <2>5, <3>2, ActionTickCases DEF TickCases
    <2> QED
      BY <2>4, <2>5
  <1> QED
    BY <1>3, <1>4, <1>5, <1>6

-----------------------------------------------------------------------------
(* tick keeps the executor well formed *)

\* Moving on over a completed action yields a well formed executor
\* (plan_executor.cpp:113).
LEMMA AdvanceWellFormed ==
    ASSUME NEW l, WellFormed(l), l.action # NoAction
    PROVE  WellFormed(Advance(l))
  <1>1. l \in Executor /\ l.index < Len(l.plan) /\ Len(l.plan) \in Nat
    BY DEF WellFormed, Consistent, Executor
  <1> DEFINE st == IF l.index + 1 >= Len(l.plan) THEN "Success" ELSE l.status
             y == [l EXCEPT !.action = NoAction, !.started = FALSE,
                            !.index = l.index + 1, !.status = st]
  <1>a. Advance(l) = y
    BY DEF Advance
  <1>b. st \in ExecutionStatus
    BY <1>1 DEF Executor, ExecutionStatus
  <1>c. l.index + 1 \in Nat /\ NoAction \in Action \cup {NoAction}
    BY <1>1 DEF Executor
  <1> HIDE DEF st
  <1>d. y \in Executor
    BY <1>1, <1>b, <1>c DEF Executor
  <1>2. Advance(l) \in Executor
    BY <1>a, <1>d
  <1>3. Advance(l).index = l.index + 1 /\ Advance(l).plan = l.plan
        /\ Advance(l).action = NoAction /\ ~Advance(l).started
    BY <1>1, <1>a DEF Executor
  <1>4. l.index + 1 <= Len(l.plan)
    BY <1>1 DEF Executor
  <1> QED
    BY <1>2, <1>3, <1>4 DEF WellFormed, Consistent

\* A change of status that leaves no action started outside Running and Failed.
LEMMA StatusWellFormed ==
    ASSUME NEW e, WellFormed(e), NEW s \in ExecutionStatus,
           e.started => s \in {"Running", "Failed"}
    PROVE  WellFormed([e EXCEPT !.status = s])
  BY DEF WellFormed, Consistent, Executor

\* A replan hands over a well formed executor that runs the new plan.
LEMMA ReplanWellFormed ==
    ASSUME NEW e, WellFormed(e), NEW p \in Plan
    PROVE  WellFormed(ExSetPlan(e, [success |-> TRUE, actions |-> p], e.goal))
  <1>1. e.goal \in State /\ p \in Seq(Action)
    BY ActionAssumption DEF WellFormed, Executor
  <1> DEFINE x == IF e.status = "Running" THEN ExInterrupt(e) ELSE e
  <1>2. WellFormed(x)
    BY InterruptWellFormed
  <1>3. x \in Executor
    BY <1>2 DEF WellFormed
  <1> DEFINE y == [x EXCEPT !.plan = p, !.goal = e.goal, !.index = 0,
                            !.action = NoAction, !.started = FALSE, !.status = "Running"]
  <1>4. ExSetPlan(e, [success |-> TRUE, actions |-> p], e.goal) = y
    BY DEF ExSetPlan
  <1> HIDE DEF x
  <1> DEFINE z == [x EXCEPT !.plan = p, !.goal = e.goal]
  <1>5. z \in Executor /\ z.plan = p
    BY <1>1, <1>3 DEF Executor
  <1>8. y = [z EXCEPT !.index = 0, !.action = NoAction, !.started = FALSE, !.status = "Running"]
    OBVIOUS
  <1> HIDE DEF z, y
  <1>9. y \in Executor
    BY <1>5, <1>8 DEF Executor, ExecutionStatus
  <1>6. y.index = 0 /\ y.action = NoAction /\ ~y.started /\ y.plan = p
    BY <1>5, <1>8 DEF Executor
  <1>7. Len(p) \in Nat
    BY <1>1
  <1> QED
    BY <1>4, <1>6, <1>7, <1>9 DEF WellFormed, Consistent

\* Marking a field that Consistent does not read.
LEMMA FlagsWellFormed ==
    ASSUME NEW e, WellFormed(e), NEW b \in BOOLEAN
    PROVE  /\ WellFormed([e EXCEPT !.crashed = b])
           /\ WellFormed([e EXCEPT !.bound = b])
           /\ WellFormed([e EXCEPT !.canReplan = b])
           /\ WellFormed([e EXCEPT !.autoReplan = b])
  BY DEF WellFormed, Consistent, Executor

\* on_start answered true: the loaded action of a running plan is started.
LEMMA StartWellFormed ==
    ASSUME NEW l, WellFormed(l), l.action # NoAction, l.status = "Running"
    PROVE  WellFormed([l EXCEPT !.started = TRUE, !.justStarted = TRUE])
  BY DEF WellFormed, Consistent, Executor

\* Every outcome of tick() is a well formed executor and a typed world
\* (plan_executor.cpp:127).
LEMMA TickWellFormed ==
    ASSUME NEW e, WellFormed(e), NEW w \in State, NEW o \in ExTick(e, w)
    PROVE  WellFormed(o.ex) /\ o.world \in State
  <1> DEFINE l == Loaded(e)
  <1>1. TickCases(e, w, o)
    BY TickHasCases
  <1>2. CASE Halts(e, w, o)
    <2>1. e.status = "Running" /\ e.index = Len(e.plan) => ~e.started
      BY DEF WellFormed, Consistent, Executor
    <2> QED
      BY <1>2, <2>1, StatusWellFormed DEF Halts, ExecutionStatus
  <1>3. ASSUME e.status = "Running", e.index < Len(e.plan), ~Halts(e, w, o)
        PROVE  WellFormed(o.ex) /\ o.world \in State
    <2>1. WellFormed(l) /\ l.action \in Action /\ l.action # NoAction /\ l.status = "Running"
      BY <1>3, LoadedWellFormed, LoadedFields
    <2> HIDE DEF l
    <2>2. \A kind \in CallKind :
            /\ WellFormed(Call(l, kind)) /\ Call(l, kind).action = l.action
            /\ Call(l, kind).goal = l.goal /\ Call(l, kind).status = "Running"
      <3>1. l \in Executor
        BY <2>1 DEF WellFormed
      <3> QED
        BY <2>1, <3>1, CallWellFormed DEF Call, Executor
    <2>3. CASE o.world = w /\ Starts(l, o)
      <3>1. "on_start_false" \in CallKind /\ "on_start_true" \in CallKind
            /\ "Failed" \in ExecutionStatus
        BY DEF CallKind, ExecutionStatus
      <3>2. WellFormed([l EXCEPT !.status = "Failed"])
        BY <2>1, <3>1, StatusWellFormed
      <3>3. WellFormed([Call(l, "on_start_false") EXCEPT !.status = "Failed"])
        BY <2>2, <3>1, StatusWellFormed
      <3>4. WellFormed([Call(l, "on_start_true") EXCEPT !.started = TRUE, !.justStarted = TRUE])
        BY <2>1, <2>2, <3>1, StartWellFormed
      <3> QED
        BY <2>3, <3>2, <3>3, <3>4 DEF Starts
    <2>4. CASE o.world = w /\ Works(l, o)
      BY <2>2, <2>4, StatusWellFormed DEF Works, ExecutionStatus, CallKind
    <2>5. CASE o.world = w /\ Replans(l, o)
      <3>1. PICK p \in Plan : o.ex = ExSetPlan(Call(l, "on_tick_Failed"),
                                            [success |-> TRUE, actions |-> p], l.goal)
        BY <2>5 DEF Replans
      <3>2. "on_tick_Failed" \in CallKind
        BY DEF CallKind
      <3> QED
        BY <2>2, <2>5, <3>1, <3>2, ReplanWellFormed
    <2>6. CASE o.world = w /\ Crashes(l, o)
      <3> DEFINE need == [l EXCEPT !.status = "NeedReplanning"]
      <3>1. PICK p \in Plan : o.ex = [ExSetPlan(need, [success |-> TRUE, actions |-> p], l.goal)
                                    EXCEPT !.crashed = TRUE]
        BY <2>6 DEF Crashes
      <3>2. ~l.started
        BY <2>6 DEF Crashes
      <3>3. WellFormed(need) /\ need.goal = l.goal
        BY <2>1, <3>2, StatusWellFormed DEF ExecutionStatus, WellFormed, Executor
      <3> HIDE DEF need
      <3> QED
        BY <2>6, <3>1, <3>3, ReplanWellFormed, FlagsWellFormed
    <2>7. CASE Finishes(l, w, o)
      <3> DEFINE x == Call(l, "on_tick_Succeeded")
      <3>1. WellFormed(x) /\ x.action # NoAction
        BY <2>1, <2>2 DEF CallKind
      <3>2. Call(x, "on_end").action = x.action
        BY <3>1 DEF Call, WellFormed, Executor
      <3>3. WellFormed(Call(x, "on_end"))
        BY <3>1, CallWellFormed DEF CallKind
      <3>4. WellFormed(o.ex)
        BY <2>7, <3>1, <3>2, <3>3, AdvanceWellFormed DEF Finishes
      <3>5. WorldAfter(l, w) \in State
        BY <2>1, MergeTyped, ActionAssumption DEF WorldAfter, ApplyEffects
      <3> QED
        BY <2>7, <3>4, <3>5 DEF Finishes
    <2> QED
      BY <1>1, <1>3, <2>3, <2>4, <2>5, <2>6, <2>7 DEF TickCases, l
  <1> QED
    BY <1>1, <1>2, <1>3 DEF TickCases

-----------------------------------------------------------------------------
(* The null action *)

\* The method that made f from e touched neither auto_replan nor the program.
Calm(e, f) == f.autoReplan = e.autoReplan /\ f.crashed = e.crashed

\* interrupt() touches neither auto_replan nor the program.
LEMMA InterruptCalm ==
    ASSUME NEW e \in Executor
    PROVE  Calm(e, ExInterrupt(e)) /\ DOMAIN ExInterrupt(e) = DOMAIN e
  BY DEF Calm, ExInterrupt, NotifyInterrupt, Call, Executor

\* reset() touches neither auto_replan nor the program.
LEMMA ResetCalm ==
    ASSUME NEW e \in Executor
    PROVE  Calm(e, ExReset(e))
  BY InterruptCalm DEF Calm, ExReset, Executor

\* set_plan() touches neither auto_replan nor the program.
LEMMA SetPlanCalm ==
    ASSUME NEW e \in Executor, NEW r, NEW g
    PROVE  Calm(e, ExSetPlan(e, r, g))
  BY InterruptCalm DEF Calm, ExSetPlan, Executor

\* A tick keeps auto_replan, and only with auto_replan on can it end in the case
\* that crashes.
LEMMA TickCalm ==
    ASSUME NEW e, WellFormed(e), NEW w \in State, NEW o \in ExTick(e, w)
    PROVE  o.ex.autoReplan = e.autoReplan /\ (o.ex.crashed = e.crashed \/ e.autoReplan)
  <1> DEFINE l == Loaded(e)
  <1>1. TickCases(e, w, o) /\ e \in Executor
    BY TickHasCases DEF WellFormed
  <1>2. CASE Halts(e, w, o)
    BY <1>1, <1>2 DEF Halts, Executor
  <1>3. ASSUME e.index < Len(e.plan)
        PROVE  l \in Executor /\ Calm(e, l)
    BY <1>3, LoadedFields DEF Calm
  <1> HIDE DEF l
  <1>4. ASSUME e.index < Len(e.plan), Starts(l, o) \/ Works(l, o)
        PROVE  Calm(l, o.ex)
    BY <1>3, <1>4 DEF Starts, Works, Call, Calm, Executor
  <1>5. ASSUME e.index < Len(e.plan), Finishes(l, w, o)
        PROVE  Calm(l, o.ex)
    BY <1>3, <1>5 DEF Finishes, Advance, Call, Calm, Executor
  <1>6. ASSUME e.index < Len(e.plan), Replans(l, o)
        PROVE  Calm(l, o.ex)
    <2> DEFINE x == Call(l, "on_tick_Failed")
    <2>1. x \in Executor /\ Calm(l, x)
      <3>1. WellFormed(l) /\ l.action # NoAction /\ "on_tick_Failed" \in CallKind
        BY <1>6, LoadedWellFormed, LoadedFields DEF l, CallKind
      <3> QED
        BY <3>1, CallWellFormed DEF WellFormed, Call, Calm, Executor
    <2>2. PICK p \in Plan : o.ex = ExSetPlan(x, [success |-> TRUE, actions |-> p], l.goal)
      BY <1>6 DEF Replans
    <2> QED
      BY <2>1, <2>2, SetPlanCalm DEF Calm
  <1>7. ASSUME e.index < Len(e.plan), Crashes(l, o)
        PROVE  o.ex.autoReplan = l.autoReplan /\ l.autoReplan
    <2> DEFINE x == [l EXCEPT !.status = "NeedReplanning"]
    <2>1. x \in Executor /\ Calm(l, x) /\ x.status = "NeedReplanning"
      BY <1>3, <1>7 DEF Calm, Executor, ExecutionStatus
    <2>2. PICK p \in Plan : o.ex = [ExSetPlan(x, [success |-> TRUE, actions |-> p], l.goal)
                                  EXCEPT !.crashed = TRUE]
      BY <1>7 DEF Crashes
    <2> HIDE DEF x
    <2>3. o.ex.autoReplan = x.autoReplan
      BY <2>1, <2>2 DEF ExSetPlan, Executor
    <2> QED
      BY <1>7, <2>1, <2>3 DEF Calm, Crashes
  <1> QED
    BY <1>1, <1>2, <1>3, <1>4, <1>5, <1>6, <1>7 DEF TickCases, Calm, l
=============================================================================
