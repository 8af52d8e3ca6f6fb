------------------------- MODULE PlanExecutorProofs --------------------------
(***************************************************************************)
(* Proofs about PlanExecutor for all actions, plans and worlds.            *)
(***************************************************************************)
EXTENDS PlanExecutor, ExecutorOpsProofs

-----------------------------------------------------------------------------
(* The specification *)

\* Type correctness and consistency of the three fields that hold the current
\* action (plan_executor.cpp:11-168), together an inductive invariant.
IInv == TypeOK /\ CurrentActionConsistent

\* Every step of the caller keeps the invariant.
LEMMA StepKeepsIInv == IInv /\ [Next]_vars => IInv'
  <1> SUFFICES ASSUME IInv, [Next]_vars PROVE IInv'
    OBVIOUS
  <1> DEFINE e == Observe(ex)
  <1>1. WellFormed(ex) /\ world \in State /\ WellFormed(e)
    BY ObserveWellFormed DEF IInv, TypeOK, CurrentActionConsistent, WellFormed
  <1> HIDE DEF e
  <1> SUFFICES WellFormed(ex') /\ world' \in State
    BY DEF IInv, TypeOK, CurrentActionConsistent, WellFormed
  <1>2. CASE SetPlan
    BY <1>1, <1>2, SetPlanWellFormed, ActionAssumption DEF SetPlan, Returns, e
  <1>3. CASE InterruptPlan
    BY <1>1, <1>3, InterruptWellFormed DEF InterruptPlan, Returns, e
  <1>4. CASE ResetPlan
    BY <1>1, <1>4, ResetWellFormed DEF ResetPlan, Returns, e
  <1>5. CASE Tick
    BY <1>1, <1>5, TickWellFormed DEF Tick, Returns, e
  <1>6. CASE SetWorldModel
    BY <1>1, <1>6, FlagsWellFormed DEF SetWorldModel, Returns, e
  <1>7. CASE SetReplanCallback
    BY <1>1, <1>7, FlagsWellFormed DEF SetReplanCallback, Returns, e
  <1>8. CASE SetAutoReplan
    BY <1>1, <1>8, FlagsWellFormed, CallerAssumption DEF SetAutoReplan, Returns, e
  <1>9. CASE WriteWorld
    BY <1>1, <1>9, WrittenTyped, CallerAssumption DEF WriteWorld, Returns, e
  <1>10. CASE UNCHANGED vars
    BY <1>1, <1>10 DEF vars
  <1> QED
    BY <1>2, <1>3, <1>4, <1>5, <1>6, <1>7, <1>8, <1>9, <1>10 DEF Next

\* A new executor satisfies the invariant.
LEMMA InitIInv == Init => IInv
  <1> SUFFICES ASSUME Init PROVE IInv
    OBVIOUS
  <1>1. PICK auto \in AutoReplan : ex = NewExecutor(TRUE, auto)
    BY DEF Init
  <1>2. EmptyState \in State /\ auto \in BOOLEAN
    BY CallerAssumption DEF EmptyState, State
  <1>3. ex \in Executor
    BY <1>1, <1>2 DEF NewExecutor, Executor, ExecutionStatus
  <1>4. Consistent(ex)
    BY <1>1 DEF NewExecutor, Consistent
  <1> QED
    BY <1>3, <1>4, CallerAssumption DEF Init, IInv, TypeOK, CurrentActionConsistent

\* In every reachable state the executor is typed and its current action is in
\* step with its index, whatever the caller, the actions and the replan callback
\* do (plan_executor.cpp:11-210).
THEOREM ExecutorConsistent == Spec => [](TypeOK /\ CurrentActionConsistent)
  BY InitIInv, StepKeepsIInv, PTL DEF Spec, IInv

\* The half of it that is about types: the executor and the world keep theirs,
\* and a virtual call is only ever made on an action (plan_executor.h:16-24, 39-51).
THEOREM TypesHold == Spec => []TypeOK
  BY ExecutorConsistent, PTL

-----------------------------------------------------------------------------
(* The null action *)

\* A null current_action is dereferenced (plan_executor.cpp:96) only after a
\* replan that auto_replan allowed (plan_executor.cpp:196-210), for all actions,
\* plans, worlds and callers; goap_agent switches it off (goap_agent.cpp:22).
THEOREM NullNeedsAutoReplan == Spec => []NoNullWithoutAutoReplan
  <1> DEFINE e == Observe(ex)
  <1>1. Init => NoNullWithoutAutoReplan
    BY DEF Init, NewExecutor, NoNullWithoutAutoReplan
  <1>2. IInv /\ NoNullWithoutAutoReplan /\ [Next]_vars => NoNullWithoutAutoReplan'
    <2> SUFFICES ASSUME IInv, NoNullWithoutAutoReplan, [Next]_vars
                 PROVE  NoNullWithoutAutoReplan'
      OBVIOUS
    <2>1. WellFormed(e) /\ world \in State /\ e \in Executor /\ Calm(ex, e)
      <3>1. ex \in Executor /\ WellFormed(ex) /\ world \in State
        BY DEF IInv, TypeOK, CurrentActionConsistent, WellFormed
      <3> QED
        BY <3>1, ObserveWellFormed DEF WellFormed, Observe, Calm, Executor
    <2> HIDE DEF e
    <2>2. CASE SetPlan
      BY <2>1, <2>2, SetPlanCalm DEF SetPlan, Returns, Calm, NoNullWithoutAutoReplan, e
    <2>3. CASE InterruptPlan
      BY <2>1, <2>3, InterruptCalm DEF InterruptPlan, Returns, Calm,
                                       NoNullWithoutAutoReplan, e
    <2>4. CASE ResetPlan
      BY <2>1, <2>4, ResetCalm DEF ResetPlan, Returns, Calm, NoNullWithoutAutoReplan, e
    <2>5. CASE Tick
      BY <2>1, <2>5, TickCalm DEF Tick, Returns, Calm, NoNullWithoutAutoReplan, e
    <2>6. CASE SetWorldModel \/ SetReplanCallback \/ SetAutoReplan
      BY <2>1, <2>6 DEF SetWorldModel, SetReplanCallback, SetAutoReplan, Returns, Calm,
                        NoNullWithoutAutoReplan, Executor, e
    <2>7. CASE WriteWorld
      BY <2>1, <2>7 DEF WriteWorld, Returns, Calm, NoNullWithoutAutoReplan, e
    <2>8. CASE UNCHANGED vars
      BY <2>8 DEF vars, NoNullWithoutAutoReplan
    <2> QED
      BY <2>2, <2>3, <2>4, <2>5, <2>6, <2>7, <2>8 DEF Next
  <1> QED
    BY <1>1, <1>2, InitIInv, StepKeepsIInv, PTL DEF Spec

-----------------------------------------------------------------------------
(* The lifecycle of actions: what each method shows to the actions of the plan. *)

\* One virtual call on a started action, after none.
LEMMA FirstCall ==
    ASSUME NEW e \in Executor, e.calls = <<>>, NEW kind \in CallKind
    PROVE  LET x == Call(e, kind)
           IN  /\ x.calls = <<<<kind, e.action>>>>
               /\ x.action = e.action /\ x.started = e.started /\ x.status = e.status
               /\ x.plan = e.plan /\ x.index = e.index /\ x.goal = e.goal
  <1>1. Append(<<>>, <<kind, e.action>>) = <<<<kind, e.action>>>>
    OBVIOUS
  <1> QED
    BY <1>1 DEF Call, Executor

\* interrupt() closes the open action, if there is one, with one on_interrupt.
LEMMA InterruptShows ==
    ASSUME NEW e, WellFormed(e), e.calls = <<>>
    PROVE  LET f == ExInterrupt(e)
           IN  /\ Open(f) = NoAction /\ f.status = "Interrupted" /\ ~f.started
               /\ f.calls = IF Open(e) = NoAction THEN <<>>
                            ELSE <<<<"on_interrupt", Open(e)>>>>
  <1>1. e \in Executor /\ (e.started => e.action # NoAction)
    BY DEF WellFormed, Consistent
  <1> DEFINE x == NotifyInterrupt(e)
  <1>2. /\ x \in Executor
        /\ x.calls = IF Open(e) = NoAction THEN <<>> ELSE <<<<"on_interrupt", Open(e)>>>>
    <2>1. "on_interrupt" \in CallKind
      BY DEF CallKind
    <2> QED
      BY <1>1, <2>1, CallWellFormed, FirstCall DEF NotifyInterrupt, Open, WellFormed
  <1>3. ExInterrupt(e) = [x EXCEPT !.status = "Interrupted", !.action = NoAction,
                                   !.started = FALSE]
    BY DEF ExInterrupt
  <1> HIDE DEF x
  <1> QED
    BY <1>2, <1>3 DEF Open, Executor

\* reset() closes the open action, if there is one, with one on_interrupt.
LEMMA ResetShows ==
    ASSUME NEW e, WellFormed(e), e.calls = <<>>
    PROVE  LET f == ExReset(e)
           IN  /\ Open(f) = NoAction /\ f.status = "Idle"
               /\ f.calls = IF Open(e) = NoAction THEN <<>>
                            ELSE <<<<"on_interrupt", Open(e)>>>>
  <1> DEFINE x == ExInterrupt(e)
  <1>1. x \in Executor /\ ~x.started
        /\ x.calls = IF Open(e) = NoAction THEN <<>> ELSE <<<<"on_interrupt", Open(e)>>>>
    BY InterruptWellFormed, InterruptShows DEF WellFormed
  <1>2. ExReset(e) = [x EXCEPT !.plan = <<>>, !.goal = EmptyState, !.index = 0,
                               !.status = "Idle"]
    BY DEF ExReset
  <1> HIDE DEF x
  <1> QED
    BY <1>1, <1>2 DEF Open, Executor

\* set_plan closes the open action of a running executor; on a failed one it
\* forgets it.
LEMMA SetPlanShows ==
    ASSUME NEW e, WellFormed(e), e.calls = <<>>, NEW r, NEW g
    PROVE  LET f == ExSetPlan(e, r, g)
           IN  /\ Open(f) = NoAction
               /\ f.status = IF r.success THEN "Running" ELSE "Failed"
               /\ f.calls = IF e.status = "Running" /\ Open(e) # NoAction
                            THEN <<<<"on_interrupt", Open(e)>>>> ELSE <<>>
  <1> DEFINE x == IF e.status = "Running" THEN ExInterrupt(e) ELSE e
             st == IF r.success THEN "Running" ELSE "Failed"
  <1>1. /\ x \in Executor
        /\ x.calls = IF e.status = "Running" /\ Open(e) # NoAction
                     THEN <<<<"on_interrupt", Open(e)>>>> ELSE <<>>
    BY InterruptWellFormed, InterruptShows DEF WellFormed
  <1>2. ExSetPlan(e, r, g) = [x EXCEPT !.plan = r.actions, !.goal = g, !.index = 0,
            !.action = NoAction, !.started = FALSE, !.status = st]
    BY DEF ExSetPlan
  <1> HIDE DEF x, st
  <1>3. LET f == ExSetPlan(e, r, g)
        IN  f.status = st /\ ~f.started /\ f.calls = x.calls
    BY <1>1, <1>2 DEF Executor
  <1> QED
    BY <1>1, <1>3 DEF Open, st

\* The step of ActionLifecycle from the executor e to the executor f.
Shows(e, f) ==
    LET a == e.plan[e.index + 1]
    IN  \/ f.calls = <<>> /\ Open(f) = Open(e)
           /\ (ModeOf(f) = ModeOf(e) \/ Open(e) = NoAction \/ ModeOf(f) = "failed")
        \/ /\ ModeOf(e) = "running" /\ Open(e) = NoAction /\ a \in Action
           /\ \/ /\ f.calls = <<<<"on_start_true", a>>>>
                 /\ Open(f) = a /\ ModeOf(f) = "running"
              \/ /\ f.calls = <<<<"on_start_false", a>>>>
                 /\ Open(f) = NoAction /\ ModeOf(f) = "failed"
        \/ /\ ModeOf(e) = "running" /\ Open(e) = a /\ a \in Action
           /\ \/ /\ f.calls = <<<<"on_tick_Running", a>>>>
                 /\ Open(f) = a /\ ModeOf(f) = "running"
              \/ /\ f.calls = <<<<"on_tick_Failed", a>>>>
                 /\ Open(f) = a /\ ModeOf(f) = "failed"
              \/ /\ f.calls = <<<<"on_tick_Succeeded", a>>, <<"on_end", a>>>>
                 /\ Open(f) = NoAction /\ ModeOf(f) \in {"running", "stopped"}
              \/ /\ f.calls = <<<<"on_tick_Failed", a>>, <<"on_interrupt", a>>>>
                 /\ Open(f) = NoAction /\ ModeOf(f) = "running"

\* Appending to a sequence of one element.
LEMMA AppendToOne ==
    ASSUME NEW x, NEW y
    PROVE  Append(<<x>>, y) = <<x, y>>
  <1> DEFINE S == {x, y}
  <1>1. <<x>> \in Seq(S) /\ <<x, y>> \in Seq(S) /\ y \in S
    OBVIOUS
  <1>2. Len(<<x>>) = 1 /\ Len(<<x, y>>) = 2 /\ <<x>>[1] = x /\ <<x, y>>[1] = x /\ <<x, y>>[2] = y
    OBVIOUS
  <1>3. /\ Append(<<x>>, y) \in Seq(S)
        /\ Len(Append(<<x>>, y)) = 2
        /\ Append(<<x>>, y)[1] = x
        /\ Append(<<x>>, y)[2] = y
    BY <1>1, <1>2, AppendProperties
  <1>4. \A i \in 1..2 : Append(<<x>>, y)[i] = <<x, y>>[i]
    BY <1>2, <1>3
  <1> QED
    BY <1>1, <1>2, <1>3, <1>4, SeqEqual

\* Two virtual calls on a started action, after none.
LEMMA SecondCall ==
    ASSUME NEW e \in Executor, e.calls = <<>>, e.action # NoAction,
           NEW k1 \in CallKind, NEW k2 \in CallKind
    PROVE  Call(Call(e, k1), k2).calls = <<<<k1, e.action>>, <<k2, e.action>>>>
  <1>1. Append(<<<<k1, e.action>>>>, <<k2, e.action>>)
          = <<<<k1, e.action>>, <<k2, e.action>>>>
    BY AppendToOne
  <1>2. Call(e, k1).calls = <<<<k1, e.action>>>> /\ Call(e, k1).action = e.action
    BY FirstCall
  <1>3. Call(Call(e, k1), k2).calls
          = Append(Call(e, k1).calls, <<k2, Call(e, k1).action>>)
    BY DEF Call, Executor
  <1> QED
    BY <1>1, <1>2, <1>3

\* A tick shows the actions one step of the lifecycle.
LEMMA TickShows ==
    ASSUME NEW e, WellFormed(e), e.calls = <<>>, NEW w \in State, NEW o \in ExTick(e, w)
    PROVE  Shows(e, o.ex)
  <1> DEFINE l == Loaded(e)
             a == e.plan[e.index + 1]
  <1>1. TickCases(e, w, o) /\ e \in Executor /\ Consistent(e)
    BY TickHasCases DEF WellFormed
  <1>2. CASE Halts(e, w, o)
    BY <1>1, <1>2 DEF Halts, Shows, Consistent, Open, ModeOf, Executor
  <1>3. ASSUME e.status = "Running", e.index < Len(e.plan), ~Halts(e, w, o)
        PROVE  Shows(e, o.ex)
    <2>1. /\ WellFormed(l) /\ l \in Executor /\ l.action = a /\ a \in Action /\ a # NoAction
          /\ l.status = "Running" /\ l.calls = <<>> /\ l.started = e.started
      <3>1. WellFormed(l) /\ l.action = a /\ l.action \in Action
        BY <1>3, LoadedWellFormed
      <3>2. l \in Executor /\ l.action # NoAction /\ l.status = e.status
            /\ l.calls = e.calls /\ l.started = e.started
        BY <1>3, LoadedFields
      <3> QED
        BY <1>3, <3>1, <3>2
    <2>2. ModeOf(e) = "running" /\ Open(e) = (IF l.started THEN a ELSE NoAction)
      BY <1>1, <1>3, <2>1 DEF ModeOf, Open, Consistent
    <2> HIDE DEF l
    <2> DEFINE C(kind) == Call(l, kind)
    <2>3. \A kind \in CallKind :
            /\ C(kind) \in Executor /\ WellFormed(C(kind))
            /\ C(kind).calls = <<<<kind, a>>>> /\ C(kind).action = a
            /\ C(kind).started = l.started /\ C(kind).status = "Running"
            /\ C(kind).goal = l.goal
      BY <2>1, FirstCall, CallWellFormed DEF WellFormed
    <2>4. "on_start_true" \in CallKind /\ "on_start_false" \in CallKind
          /\ "on_tick_Running" \in CallKind /\ "on_tick_Failed" \in CallKind
          /\ "on_tick_Succeeded" \in CallKind /\ "on_end" \in CallKind
          /\ "on_interrupt" \in CallKind
      BY DEF CallKind
    <2> HIDE DEF C, a
    <2>5. CASE Starts(l, o)
      <3>1. o.ex \in {[l EXCEPT !.status = "Failed"],
                      [C("on_start_false") EXCEPT !.status = "Failed"],
                      [C("on_start_true") EXCEPT !.started = TRUE, !.justStarted = TRUE]}
            /\ ~l.started
        BY <2>5 DEF Starts, C
      <3>2. CASE o.ex = [l EXCEPT !.status = "Failed"]
        <4>1. o.ex.calls = <<>> /\ Open(o.ex) = NoAction
          BY <2>1, <3>1, <3>2 DEF Open, Executor
        <4> QED
          BY <2>2, <3>1, <4>1 DEF Shows
      <3>3. CASE o.ex = [C("on_start_false") EXCEPT !.status = "Failed"]
        <4>1. o.ex.calls = <<<<"on_start_false", a>>>> /\ Open(o.ex) = NoAction
              /\ ModeOf(o.ex) = "failed"
          BY <2>3, <2>4, <3>1, <3>3 DEF Open, ModeOf, Executor
        <4> QED
          BY <2>1, <2>2, <3>1, <4>1 DEF Shows, a
      <3>4. CASE o.ex = [C("on_start_true") EXCEPT !.started = TRUE, !.justStarted = TRUE]
        <4>1. o.ex.calls = <<<<"on_start_true", a>>>> /\ Open(o.ex) = a
              /\ ModeOf(o.ex) = "running"
          BY <2>3, <2>4, <3>1, <3>4 DEF Open, ModeOf, Executor
        <4> QED
          BY <2>1, <2>2, <3>1, <4>1 DEF Shows, a
      <3> QED
        BY <3>1, <3>2, <3>3, <3>4
    <2>6. CASE Works(l, o)
      <3>1. CASE o.ex = C("on_tick_Running") /\ l.started
        <4>1. o.ex.calls = <<<<"on_tick_Running", a>>>> /\ Open(o.ex) = a
              /\ ModeOf(o.ex) = "running"
          BY <2>3, <2>4, <3>1 DEF Open, ModeOf
        <4> QED
          BY <2>1, <2>2, <3>1, <4>1 DEF Shows, a
      <3>2. CASE o.ex = [C("on_tick_Failed") EXCEPT !.status = "Failed"] /\ l.started
        <4>1. o.ex.calls = <<<<"on_tick_Failed", a>>>> /\ Open(o.ex) = a
              /\ ModeOf(o.ex) = "failed"
          <5> DEFINE x == C("on_tick_Failed")
          <5>1. x \in Executor /\ x.calls = <<<<"on_tick_Failed", a>>>> /\ x.action = a
                /\ x.started
            BY <2>3, <2>4, <3>2
          <5> HIDE DEF x
          <5>2. o.ex = [x EXCEPT !.status = "Failed"]
            BY <3>2 DEF x
          <5> QED
            BY <5>1, <5>2 DEF Open, ModeOf, Executor
        <4> QED
          BY <2>1, <2>2, <3>2, <4>1 DEF Shows, a
      <3> QED
        BY <2>6, <3>1, <3>2 DEF Works, C
    <2>7. CASE Finishes(l, w, o)
      <3> DEFINE x == Call(C("on_tick_Succeeded"), "on_end")
      <3>1. x \in Executor /\ l.started
        BY <2>1, <2>3, <2>4, <2>7, CallWellFormed DEF WellFormed, Finishes
      <3>2. x.calls = <<<<"on_tick_Succeeded", a>>, <<"on_end", a>>>>
        BY <2>1, <2>4, SecondCall DEF C
      <3>3. x.status = "Running"
        <4>1. x.status = C("on_tick_Succeeded").status
          BY <2>3, <2>4 DEF Call, Executor
        <4> QED
          BY <2>3, <2>4, <4>1
      <3>4. o.ex = Advance(x)
        BY <2>7 DEF Finishes, C
      <3> HIDE DEF x
      <3>5. o.ex.calls = x.calls /\ ~o.ex.started /\ o.ex.status \in {"Running", "Success"}
        BY <3>1, <3>3, <3>4 DEF Advance, Executor
      <3>6. Open(o.ex) = NoAction /\ ModeOf(o.ex) \in {"running", "stopped"}
        BY <3>5 DEF Open, ModeOf
      <3> QED
        BY <2>1, <2>2, <3>1, <3>2, <3>5, <3>6 DEF Shows, a
    <2>8. CASE Replans(l, o)
      <3> DEFINE x == C("on_tick_Failed")
                 y == ExInterrupt(x)
      <3>1. PICK p \in Plan : o.ex = ExSetPlan(x, [success |-> TRUE, actions |-> p], l.goal)
        BY <2>8 DEF Replans, C
      <3>2. x \in Executor /\ WellFormed(x) /\ x.status = "Running" /\ x.started /\ x.action = a
            /\ x = Call(l, "on_tick_Failed")
        BY <2>3, <2>4, <2>8 DEF Replans, C
      <3>3. NotifyInterrupt(x) = Call(x, "on_interrupt")
        BY <2>1, <3>2 DEF NotifyInterrupt
      <3>4. Call(x, "on_interrupt").calls = <<<<"on_tick_Failed", a>>, <<"on_interrupt", a>>>>
            /\ Call(x, "on_interrupt") \in Executor
        BY <2>1, <2>4, <3>2, SecondCall, CallWellFormed DEF WellFormed
      <3>5. y.calls = Call(x, "on_interrupt").calls /\ y \in Executor
        BY <3>2, <3>3, <3>4, InterruptWellFormed DEF ExInterrupt, Executor, WellFormed
      <3> HIDE DEF x, y
      <3>6. o.ex = [y EXCEPT !.plan = p, !.goal = l.goal, !.index = 0,
                             !.action = NoAction, !.started = FALSE, !.status = "Running"]
        BY <3>1, <3>2 DEF ExSetPlan, y
      <3>7. o.ex.calls = <<<<"on_tick_Failed", a>>, <<"on_interrupt", a>>>>
            /\ Open(o.ex) = NoAction /\ ModeOf(o.ex) = "running"
        BY <3>4, <3>5, <3>6 DEF Open, ModeOf, Executor
      <3> QED
        BY <2>1, <2>2, <2>8, <3>7 DEF Shows, Replans, a
    <2>9. CASE Crashes(l, o)
      <3> DEFINE x == [l EXCEPT !.status = "NeedReplanning"]
      <3>1. PICK p \in Plan : o.ex = [ExSetPlan(x, [success |-> TRUE, actions |-> p], l.goal)
                                    EXCEPT !.crashed = TRUE]
        BY <2>9 DEF Crashes
      <3>2. x \in Executor /\ x.status = "NeedReplanning" /\ x.calls = <<>> /\ ~l.started
        BY <2>1, <2>9 DEF Crashes, Executor, ExecutionStatus
      <3> HIDE DEF x
      <3>3. ExSetPlan(x, [success |-> TRUE, actions |-> p], l.goal)
              = [x EXCEPT !.plan = p, !.goal = l.goal, !.index = 0,
                          !.action = NoAction, !.started = FALSE, !.status = "Running"]
        BY <3>2 DEF ExSetPlan
      <3>4. o.ex.calls = <<>> /\ Open(o.ex) = NoAction
        BY <3>1, <3>2, <3>3 DEF Open, Executor
      <3> QED
        BY <2>2, <3>2, <3>4 DEF Shows
    <2> QED
      BY <1>1, <1>3, <2>5, <2>6, <2>7, <2>8, <2>9 DEF TickCases, l
  <1> QED
    BY <1>1, <1>2, <1>3 DEF TickCases

\* Emptying calls changes nothing the lifecycle sees.
LEMMA ObserveShows ==
    ASSUME NEW e \in Executor
    PROVE  LET f == Observe(e)
           IN  Open(f) = Open(e) /\ ModeOf(f) = ModeOf(e) /\ f.status = e.status
  BY DEF Observe, Open, ModeOf, Executor

\* A field the lifecycle does not see.
LEMMA FlagsShow ==
    ASSUME NEW e \in Executor, NEW b
    PROVE  \A f \in {[e EXCEPT !.bound = b], [e EXCEPT !.canReplan = b],
                    [e EXCEPT !.autoReplan = b]} :
              Open(f) = Open(e) /\ ModeOf(f) = ModeOf(e) /\ f.calls = e.calls
  BY DEF Open, ModeOf, Executor

\* Such a step, taken from ex, is one of the actions of ActionLifecycle.
LEMMA ShowsIsStep ==
    ASSUME NEW e, Shows(e, ex'), Open(e) = Open(ex), ModeOf(e) = ModeOf(ex)
    PROVE  Lifecycle!Next
  <1> DEFINE a == e.plan[e.index + 1]
  <1>1. ASSUME ex'.calls = <<>>, Open(ex') = Open(e),
               ModeOf(ex') = ModeOf(e) \/ Open(e) = NoAction \/ ModeOf(ex') = "failed"
        PROVE  Lifecycle!Next
    BY <1>1 DEF Lifecycle!Next, Lifecycle!Quiet, Open, ModeOf
  <1>2. ASSUME ModeOf(e) = "running", Open(e) = NoAction,
               \/ /\ ex'.calls = <<<<"on_start_true", a>>>>
                  /\ Open(ex') = a /\ ModeOf(ex') = "running"
               \/ /\ ex'.calls = <<<<"on_start_false", a>>>>
                  /\ Open(ex') = NoAction /\ ModeOf(ex') = "failed"
        PROVE  Lifecycle!Start(a)
    BY <1>2 DEF Lifecycle!Start, Open, ModeOf
  <1>3. ASSUME ModeOf(e) = "running", Open(e) = a,
               \/ /\ ex'.calls = <<<<"on_tick_Running", a>>>>
                  /\ Open(ex') = a /\ ModeOf(ex') = "running"
               \/ /\ ex'.calls = <<<<"on_tick_Failed", a>>>>
                  /\ Open(ex') = a /\ ModeOf(ex') = "failed"
        PROVE  Lifecycle!Work(a)
    BY <1>3 DEF Lifecycle!Work, Open, ModeOf
  <1>4. ASSUME ModeOf(e) = "running", Open(e) = a, Open(ex') = NoAction,
               ex'.calls = <<<<"on_tick_Succeeded", a>>, <<"on_end", a>>>>,
               ModeOf(ex') \in {"running", "stopped"}
        PROVE  Lifecycle!Finish(a)
    BY <1>4 DEF Lifecycle!Finish, Open, ModeOf
  <1>5. ASSUME ModeOf(e) = "running", Open(e) = a, Open(ex') = NoAction,
               ex'.calls = <<<<"on_tick_Failed", a>>, <<"on_interrupt", a>>>>,
               ModeOf(ex') = "running"
        PROVE  Lifecycle!Replace(a)
    BY <1>5 DEF Lifecycle!Replace, Open, ModeOf
  <1> QED
    BY <1>1, <1>2, <1>3, <1>4, <1>5 DEF Shows, Lifecycle!Next

\* Every step of the caller is a step of the lifecycle or a stutter of it.
LEMMA StepShows == IInv /\ [Next]_vars => [Lifecycle!Next]_(Lifecycle!lifecycleVars)
  <1> SUFFICES ASSUME IInv, [Next]_vars
               PROVE  Lifecycle!Next \/ UNCHANGED Lifecycle!lifecycleVars
    OBVIOUS
  <1> DEFINE e == Observe(ex)
  <1>1. WellFormed(e) /\ e \in Executor /\ e.calls = <<>> /\ world \in State
        /\ Open(e) = Open(ex) /\ ModeOf(e) = ModeOf(ex) /\ e.status = ex.status
    BY ObserveWellFormed, ObserveShows
       DEF IInv, TypeOK, CurrentActionConsistent, WellFormed
  <1>2. Open(ex) \in Action \cup {NoAction}
    BY DEF IInv, TypeOK, Executor, Open
  <1> HIDE DEF e
  <1>3. ASSUME ex'.calls = <<>>, Open(ex') = Open(ex), ModeOf(ex') = ModeOf(ex)
        PROVE  Lifecycle!Next
    BY <1>3 DEF Lifecycle!Next, Lifecycle!Quiet, Open, ModeOf
  <1>4. ASSUME Open(ex') = NoAction,
               ex'.calls = IF Open(ex) = NoAction THEN <<>>
                           ELSE <<<<"on_interrupt", Open(ex)>>>>
        PROVE  Lifecycle!Next
    <2>1. ModeOf(ex') \in {"running", "failed", "stopped"}
      BY DEF ModeOf
    <2>2. CASE Open(ex) = NoAction
      <3>1. Lifecycle!Change
        BY <1>4, <2>1, <2>2 DEF Lifecycle!Change, Lifecycle!Mode, Open, ModeOf
      <3> QED
        BY <3>1 DEF Lifecycle!Next
    <2>3. CASE Open(ex) # NoAction
      <3>1. Open(ex) \in Action /\ Lifecycle!Interrupt(Open(ex))
        BY <1>2, <1>4, <2>1, <2>3 DEF Lifecycle!Interrupt, Lifecycle!Mode, Open, ModeOf
      <3> QED
        BY <3>1 DEF Lifecycle!Next
    <2> QED
      BY <2>2, <2>3
  <1>5. CASE SetPlan
    <2>1. PICK r \in PlanResult, g \in Goal : ex' = ExSetPlan(e, r, g)
      BY <1>5 DEF SetPlan, Returns, e
    <2>2. /\ Open(ex') = NoAction /\ ModeOf(ex') \in {"running", "failed"}
          /\ ex'.calls = IF e.status = "Running" /\ Open(e) # NoAction
                         THEN <<<<"on_interrupt", Open(e)>>>> ELSE <<>>
      BY <1>1, <2>1, SetPlanShows DEF ModeOf
    <2>3. CASE Open(ex) = NoAction \/ ex.status = "Running"
      BY <1>1, <1>4, <2>2, <2>3
    <2>4. CASE Open(ex) # NoAction /\ ex.status # "Running"
      <3>1. ModeOf(ex) = "failed"
        BY <2>4 DEF IInv, CurrentActionConsistent, Consistent, Open, ModeOf
      <3>2. Lifecycle!Abandon
        BY <1>1, <2>2, <2>4, <3>1 DEF Lifecycle!Abandon, Open, ModeOf
      <3> QED
        BY <3>2 DEF Lifecycle!Next
    <2> QED
      BY <2>3, <2>4
  <1>6. CASE InterruptPlan
    BY <1>1, <1>4, <1>6, InterruptShows DEF InterruptPlan, Returns, e
  <1>7. CASE ResetPlan
    BY <1>1, <1>4, <1>7, ResetShows DEF ResetPlan, Returns, e
  <1>8. CASE Tick
    <2>1. Shows(e, ex')
      BY <1>1, <1>8, TickShows DEF Tick, Returns, e
    <2> QED
      BY <1>1, <2>1, ShowsIsStep
  <1>9. CASE SetWorldModel \/ SetReplanCallback \/ SetAutoReplan
    <2>1. PICK b : ex' \in {[e EXCEPT !.bound = b], [e EXCEPT !.canReplan = b],
                            [e EXCEPT !.autoReplan = b]}
      BY <1>9 DEF SetWorldModel, SetReplanCallback, SetAutoReplan, Returns, e
    <2>2. \A f \in {[e EXCEPT !.bound = b], [e EXCEPT !.canReplan = b],
                    [e EXCEPT !.autoReplan = b]} :
             Open(f) = Open(e) /\ ModeOf(f) = ModeOf(e) /\ f.calls = e.calls
      BY <1>1, FlagsShow
    <2>3. ex'.calls = <<>> /\ Open(ex') = Open(ex) /\ ModeOf(ex') = ModeOf(ex)
      BY <1>1, <2>1, <2>2
    <2> QED
      BY <1>3, <2>3
  <1>10. CASE WriteWorld
    BY <1>1, <1>3, <1>10 DEF WriteWorld, Returns, e
  <1>11. CASE UNCHANGED vars
    BY <1>11 DEF vars, Lifecycle!lifecycleVars, Open, ModeOf
  <1> QED
    BY <1>5, <1>6, <1>7, <1>8, <1>9, <1>10, <1>11 DEF Next

\* A new executor shows the initial state of the lifecycle.
LEMMA InitShows == Init => Lifecycle!Init
  BY DEF Init, NewExecutor, Lifecycle!Init, Open, ModeOf

\* plan_executor implements ActionLifecycle for every caller, every set of
\* actions and every answer of the replan callback: on_tick reaches only the
\* action whose on_start answered true, and each start is closed by at most one
\* of on_end and on_interrupt (plan_executor.cpp:56-168).
THEOREM ExecutorImplementsLifecycle == Spec => ImplementsLifecycle
  <1>1. Spec => []IInv
    BY InitIInv, StepKeepsIInv, PTL DEF Spec
  <1> QED
    BY <1>1, InitShows, StepShows, PTL DEF Spec, ImplementsLifecycle, Lifecycle!Spec

-----------------------------------------------------------------------------
(* What a step does to the index and to the world *)

\* The index stays, or goes back to the start of a plan nothing is started of.
StaysOrRestarts(e, f) == f.index = e.index \/ (f.index = 0 /\ ~f.started)

\* The open action, the one the index points at, is completed: the index moves
\* on over it, it hears of that, and the world changes by its effects or not at all.
Completes(e, w, f, v) ==
    LET a == e.plan[e.index + 1]
    IN  /\ e.started
        /\ f.index = e.index + 1 /\ f.plan = e.plan
        /\ f.calls = <<<<"on_tick_Succeeded", a>>, <<"on_end", a>>>>
        /\ v # w => CheckPreconditions(Pre[a], w) /\ v = ApplyEffects(Eff[a], w)

\* Completing a loaded, started action (plan_executor.cpp:104-114).
LEMMA FinishCompletes ==
    ASSUME NEW e, WellFormed(e), e.calls = <<>>, e.index < Len(e.plan),
           NEW w, NEW o, Finishes(Loaded(e), w, o)
    PROVE  Completes(e, w, o.ex, o.world)
  <1> DEFINE l == Loaded(e)
             a == e.plan[e.index + 1]
             x == Call(Call(l, "on_tick_Succeeded"), "on_end")
  <1>1. /\ WellFormed(l) /\ l \in Executor /\ l.action # NoAction
        /\ l.plan = e.plan /\ l.index = e.index
        /\ l.started = e.started /\ l.calls = <<>>
    BY LoadedFields, LoadedWellFormed
  <1>2. l.action = a
    BY LoadedWellFormed
  <1>3. l.started /\ o.ex = Advance(x) /\ o.world = WorldAfter(l, w)
    BY DEF Finishes
  <1> HIDE DEF l
  <1>4. "on_tick_Succeeded" \in CallKind /\ "on_end" \in CallKind
    BY DEF CallKind
  <1>5. x.calls = <<<<"on_tick_Succeeded", a>>, <<"on_end", a>>>>
    BY <1>1, <1>2, <1>4, SecondCall
  <1>6. /\ o.ex.index = e.index + 1 /\ o.ex.plan = e.plan
        /\ o.ex.calls = <<<<"on_tick_Succeeded", a>>, <<"on_end", a>>>>
    <2>1. x.index = e.index /\ x.plan = e.plan
      BY <1>1 DEF Call, Executor
    <2>2. x \in Executor
      <3>1. WellFormed(Call(l, "on_tick_Succeeded"))
        BY <1>1, <1>4, CallWellFormed
      <3>2. Call(l, "on_tick_Succeeded").action # NoAction
        BY <1>1 DEF Call, Executor
      <3> QED
        BY <1>4, <3>1, <3>2, CallWellFormed DEF WellFormed
    <2> HIDE DEF x, a
    <2> QED
      BY <1>3, <1>5, <2>1, <2>2 DEF Advance, Executor
  <1> HIDE DEF x, a
  <1>7. o.world # w => CheckPreconditions(Pre[a], w) /\ o.world = ApplyEffects(Eff[a], w)
    BY <1>2, <1>3 DEF WorldAfter, PreconditionsHold
  <1> QED
    BY <1>1, <1>3, <1>6, <1>7 DEF Completes, a

\* A plan starts at its first action, with nothing started (plan_executor.cpp:24-34).
LEMMA SetPlanRestarts ==
    ASSUME NEW x, WellFormed(x), NEW r, NEW g
    PROVE  LET f == ExSetPlan(x, r, g)
           IN  /\ f.index = 0 /\ ~f.started
               /\ [f EXCEPT !.crashed = TRUE].index = 0
               /\ ~[f EXCEPT !.crashed = TRUE].started
  <1> DEFINE y == IF x.status = "Running" THEN ExInterrupt(x) ELSE x
  <1>1. y \in Executor
    BY InterruptWellFormed DEF WellFormed
  <1>2. ExSetPlan(x, r, g) = [y EXCEPT !.plan = r.actions, !.goal = g, !.index = 0,
                                       !.action = NoAction, !.started = FALSE,
                                       !.status = IF r.success THEN "Running" ELSE "Failed"]
    BY DEF ExSetPlan
  <1> HIDE DEF y
  <1> QED
    BY <1>1, <1>2 DEF Executor

\* A tick completes the open action, or leaves the world and, but for a replan,
\* the index alone (plan_executor.cpp:56-168).
LEMMA TickCompletes ==
    ASSUME NEW e, WellFormed(e), e.calls = <<>>, NEW w \in State, NEW o \in ExTick(e, w)
    PROVE  \/ o.world = w /\ StaysOrRestarts(e, o.ex)
           \/ Completes(e, w, o.ex, o.world)
  <1> DEFINE l == Loaded(e)
  <1>1. TickCases(e, w, o) /\ e \in Executor
    BY TickHasCases DEF WellFormed
  <1>2. CASE Halts(e, w, o)
    BY <1>1, <1>2 DEF Halts, StaysOrRestarts, Executor
  <1> SUFFICES ASSUME e.index < Len(e.plan),
                      \/ Finishes(l, w, o)
                      \/ o.world = w /\ (Starts(l, o) \/ Works(l, o) \/ Replans(l, o)
                                         \/ Crashes(l, o))
               PROVE  \/ o.world = w /\ StaysOrRestarts(e, o.ex)
                      \/ Completes(e, w, o.ex, o.world)
    BY <1>1, <1>2 DEF TickCases
  <1>3. l \in Executor /\ l.index = e.index
    BY LoadedFields
  <1>3a. WellFormed(l) /\ l.action # NoAction
    BY LoadedFields, LoadedWellFormed
  <1>4. CASE Finishes(l, w, o)
    BY <1>4, FinishCompletes
  <1> HIDE DEF l
  <1>5. ASSUME Starts(l, o)
        PROVE  StaysOrRestarts(e, o.ex)
    BY <1>3, <1>5 DEF Starts, Call, StaysOrRestarts, Executor
  <1>6. ASSUME Works(l, o)
        PROVE  StaysOrRestarts(e, o.ex)
    BY <1>3, <1>6 DEF Works, Call, StaysOrRestarts, Executor
  <1>8. /\ WellFormed(Call(l, "on_tick_Failed"))
        /\ ~l.started => WellFormed([l EXCEPT !.status = "NeedReplanning"])
    BY <1>3a, CallWellFormed, StatusWellFormed DEF CallKind, ExecutionStatus
  <1>9. ASSUME Replans(l, o)
        PROVE  StaysOrRestarts(e, o.ex)
    BY SetPlanRestarts, <1>8, <1>9 DEF Replans, StaysOrRestarts
  <1>10. ASSUME Crashes(l, o)
         PROVE  StaysOrRestarts(e, o.ex)
    <2> DEFINE x == [l EXCEPT !.status = "NeedReplanning"]
    <2>1. PICK p \in Plan : o.ex = [ExSetPlan(x, [success |-> TRUE, actions |-> p], l.goal)
                                   EXCEPT !.crashed = TRUE]
      BY <1>10 DEF Crashes
    <2>2. WellFormed(x)
      BY <1>8, <1>10 DEF Crashes
    <2> HIDE DEF x
    <2>3. o.ex.index = 0 /\ ~o.ex.started
      BY <2>1, <2>2, SetPlanRestarts
    <2> QED
      BY <2>3 DEF StaysOrRestarts
  <1> QED
    BY <1>4, <1>5, <1>6, <1>9, <1>10

\* What every step of the caller does to the index and the world: either it is a
\* tick that completes the open action, or the index stays or restarts and the
\* world is changed by the game alone, with no call on an action.
LEMMA StepCompletes ==
    ASSUME IInv, [Next]_vars
    PROVE  \/ /\ StaysOrRestarts(ex, ex')
              /\ world' = world \/ ex'.calls = <<>>
           \/ Completes(ex, world, ex', world')
  <1> DEFINE e == Observe(ex)
  <1>1. /\ WellFormed(e) /\ e.calls = <<>> /\ world \in State /\ e \in Executor
        /\ e.index = ex.index /\ e.plan = ex.plan /\ e.started = ex.started
    <2>1. WellFormed(ex) /\ ex \in Executor /\ world \in State
      BY DEF IInv, TypeOK, CurrentActionConsistent, WellFormed
    <2> QED
      BY <2>1, ObserveWellFormed DEF WellFormed, Observe, Executor
  <1>2. CASE Tick
    <2>1. PICK o \in ExTick(e, world) : ex' = o.ex /\ world' = o.world
      BY <1>2 DEF Tick, Returns
    <2> HIDE DEF e
    <2>2. \/ o.world = world /\ StaysOrRestarts(e, o.ex)
          \/ Completes(e, world, o.ex, o.world)
      BY <1>1, <2>1, TickCompletes
    <2> QED
      BY <1>1, <2>1, <2>2 DEF StaysOrRestarts, Completes
  <1>3. CASE SetPlan
    <2>1. PICK r \in PlanResult, g \in Goal : ex' = ExSetPlan(e, r, g) /\ world' = world
      BY <1>3 DEF SetPlan, Returns
    <2> HIDE DEF e
    <2> QED
      BY <1>1, <2>1, SetPlanRestarts DEF StaysOrRestarts
  <1>4. CASE InterruptPlan
    <2>1. ex' = ExInterrupt(e) /\ world' = world
      BY <1>4 DEF InterruptPlan, Returns
    <2> HIDE DEF e
    <2>2. ExInterrupt(e).index = e.index
      BY <1>1 DEF ExInterrupt, NotifyInterrupt, Call, Executor
    <2> QED
      BY <1>1, <2>1, <2>2 DEF StaysOrRestarts
  <1>5. CASE ResetPlan
    <2>1. ex' = ExReset(e) /\ world' = world
      BY <1>5 DEF ResetPlan, Returns
    <2> HIDE DEF e
    <2>2. ExReset(e).index = 0 /\ ~ExReset(e).started
      BY <1>1 DEF ExReset, ExInterrupt, NotifyInterrupt, Call, Executor
    <2> QED
      BY <1>1, <2>1, <2>2 DEF StaysOrRestarts
  <1>6. CASE SetWorldModel \/ SetReplanCallback \/ SetAutoReplan
    <2>1. PICK b : /\ ex' \in {[e EXCEPT !.bound = b], [e EXCEPT !.canReplan = b],
                               [e EXCEPT !.autoReplan = b]}
                   /\ world' = world
      BY <1>6 DEF SetWorldModel, SetReplanCallback, SetAutoReplan, Returns
    <2> HIDE DEF e
    <2> QED
      BY <1>1, <2>1 DEF StaysOrRestarts, Executor
  <1>7. CASE WriteWorld
    BY <1>1, <1>7 DEF WriteWorld, Returns, StaysOrRestarts
  <1>8. CASE UNCHANGED vars
    BY <1>8 DEF vars, StaysOrRestarts
  <1> QED
    BY <1>2, <1>3, <1>4, <1>5, <1>6, <1>7, <1>8 DEF Next

\* No action of a plan is skipped or finished twice, for all plans and callers: the
\* index moves on by one, over the open action, as on_tick answers that it succeeded
\* and on_end is called (plan_executor.cpp:104-114); set_plan, a replan and reset
\* take it back to the start (plan_executor.cpp:24-54, 161-168, 196-210).
THEOREM ActionsAreFinishedInOrder == Spec => ActionsFinishInOrder
  <1>1. IInv /\ [Next]_vars =>
          [ ex'.index # ex.index =>
              \/ /\ ex'.index = ex.index + 1 /\ ex'.plan = ex.plan
                 /\ LET a == ex.plan[ex.index + 1]
                    IN  ex'.calls = <<<<"on_tick_Succeeded", a>>, <<"on_end", a>>>>
              \/ ex'.index = 0 /\ ~ex'.started ]_vars
    BY StepCompletes DEF StaysOrRestarts, Completes
  <1> QED
    BY <1>1, InitIInv, StepKeepsIInv, PTL DEF Spec, ActionsFinishInOrder

\* An action that does not complete leaves no effect, for all actions, worlds and
\* callers: the executor writes the world only in the step in which the open action
\* completes, and only what that action's effects say, if its preconditions hold
\* then (plan_executor.cpp:104-114, 170-182).
THEOREM EffectsAreOfCompletedActions == Spec => EffectsOnlyOnCompletion
  <1>1. IInv /\ [Next]_vars =>
          [ (world' # world /\ ex'.calls # <<>>) =>
              LET a == ex.plan[ex.index + 1]
              IN  /\ ex.started /\ ex'.index = ex.index + 1
                  /\ CheckPreconditions(Pre[a], world)
                  /\ world' = ApplyEffects(Eff[a], world) ]_vars
    BY StepCompletes DEF Completes
  <1> QED
    BY <1>1, InitIInv, StepKeepsIInv, PTL DEF Spec, EffectsOnlyOnCompletion
=============================================================================
