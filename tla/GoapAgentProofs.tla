-------------------------- MODULE GoapAgentProofs --------------------------
(***************************************************************************)
(* Proofs about GoapAgent for all actions, plans, motives, utilities,      *)
(* configurations and worlds.                                              *)
(***************************************************************************)
EXTENDS GoapAgent, ExecutorOpsProofs

\* The fields of the two classes: all that has to be known of their types.
AgentFields ==
    {"config", "status", "world", "motives", "priority", "ex", "hasHeuristic", "actions",
     "active", "goal", "ticks", "failures", "dirty", "cached", "job", "searches", "reported",
     "threw"}

ExecutorFields ==
    {"status", "plan", "goal", "index", "action", "started", "justStarted", "bound",
     "autoReplan", "canReplan", "calls", "crashed"}

JobFields == {"state", "answer", "goal"}

-----------------------------------------------------------------------------
(* The executor of an agent *)

\* An executor that does not replan and has an action loaded only while its plan
\* is not finished.
Sound(e) ==
    /\ DOMAIN e = ExecutorFields /\ e.autoReplan = FALSE
    /\ e.action # NoAction => ~(e.index >= Len(e.plan))

\* What two executors have in common that pursue the same plan.
SamePlan(e, f) == f.plan = e.plan /\ f.goal = e.goal

\* Forgetting the calls.
LEMMA ObserveSound ==
    ASSUME NEW e, Sound(e)
    PROVE  /\ Sound(Observe(e)) /\ SamePlan(e, Observe(e))
           /\ Observe(e).status = e.status /\ Observe(e).action = e.action
  BY DEF Sound, Observe, SamePlan, ExecutorFields

\* A call of an action.
LEMMA CallSound ==
    ASSUME NEW e, Sound(e), NEW kind
    PROVE  /\ Sound(Call(e, kind)) /\ SamePlan(e, Call(e, kind))
           /\ Call(e, kind).status = e.status /\ Call(e, kind).action = e.action
  BY DEF Sound, Call, SamePlan, ExecutorFields

\* interrupt().
LEMMA InterruptSound ==
    ASSUME NEW e, Sound(e)
    PROVE  /\ Sound(ExInterrupt(e)) /\ ExInterrupt(e).status = "Interrupted"
           /\ ExInterrupt(e).action = NoAction
  <1>1. Sound(NotifyInterrupt(e))
    BY CallSound DEF NotifyInterrupt
  <1> QED
    BY <1>1 DEF ExInterrupt, Sound, ExecutorFields

\* reset().
LEMMA ResetSound ==
    ASSUME NEW e, Sound(e)
    PROVE  Sound(ExReset(e)) /\ ExReset(e).status = "Idle" /\ ExReset(e).action = NoAction
  <1>1. Sound(ExInterrupt(e)) /\ ExInterrupt(e).action = NoAction
    BY InterruptSound
  <1> QED
    BY <1>1 DEF ExReset, Sound, ExecutorFields

\* set_plan() of a plan that was found.
LEMMA SetPlanSound ==
    ASSUME NEW e, Sound(e), NEW r, r.success, NEW g
    PROVE  LET f == ExSetPlan(e, r, g)
           IN  /\ Sound(f) /\ f.status = "Running" /\ f.action = NoAction
               /\ f.goal = g /\ f.plan = r.actions
  <1> DEFINE x == IF e.status = "Running" THEN ExInterrupt(e) ELSE e
  <1>1. Sound(x)
    BY InterruptSound
  <1>2. ExSetPlan(e, r, g) =
          [x EXCEPT !.plan = r.actions, !.goal = g, !.index = 0, !.action = NoAction,
                    !.started = FALSE, !.status = "Running"]
    BY DEF ExSetPlan
  <1> HIDE DEF x
  <1> QED
    BY <1>1, <1>2 DEF Sound, ExecutorFields

\* What the outcome o of a tick of e says, and what it leaves behind.
TickOutcome(e, o) ==
    /\ Sound(o.ex) /\ SamePlan(e, o.ex)
    /\ o.status \in {"Running", "Success", "Failed"}
    /\ o.ex.status = "Running" <=> o.status = "Running"
    /\ o.status = "Success" => o.ex.action = NoAction

\* make_failure().
LEMMA FailureOutcome ==
    ASSUME NEW e, NEW f, Sound(f), SamePlan(e, f), NEW w
    PROVE  TickOutcome(e, Failure(f, w))
  <1>1. /\ Failure(f, w).ex = [f EXCEPT !.status = "Failed"] /\ Failure(f, w).status = "Failed"
    BY DEF Failure, Outcome
  <1>2. Sound([f EXCEPT !.status = "Failed"]) /\ SamePlan(e, [f EXCEPT !.status = "Failed"])
        /\ [f EXCEPT !.status = "Failed"].status = "Failed"
    BY DEF Sound, SamePlan, ExecutorFields
  <1> QED
    BY <1>1, <1>2 DEF TickOutcome

\* handle_action_tick() of an executor whose plan is not finished.
LEMMA ActionTickOutcome ==
    ASSUME NEW e, Sound(e), e.status = "Running", NEW w, NEW o \in ActionTick(e, w)
    PROVE  TickOutcome(e, o)
  <1>1. CASE o = Outcome([e EXCEPT !.crashed = TRUE], w, e.status, e.index)
    <2>1. o.ex = [e EXCEPT !.crashed = TRUE] /\ o.status = e.status
      BY <1>1 DEF Outcome
    <2> QED
      BY <2>1 DEF TickOutcome, Sound, SamePlan, ExecutorFields
  <1>2. CASE o \in TickRunning(e, w)
    <2>1. o.ex = Call(e, "on_tick_Running") /\ o.status = e.status
      BY <1>2 DEF TickRunning, Outcome
    <2> QED
      BY <2>1, CallSound DEF TickOutcome
  <1>3. CASE o \in TickFailed(e, w)
    <2> DEFINE x == Call(e, "on_tick_Failed")
    <2>1. Sound(x) /\ SamePlan(e, x)
      BY CallSound
    <2>2. Replanned(x) = {}
      BY <2>1 DEF Replanned, Sound
    <2>3. o = Failure(x, w)
      BY <1>3, <2>2 DEF TickFailed
    <2> HIDE DEF x
    <2> QED
      BY <2>1, <2>3, FailureOutcome
  <1>4. CASE o \in TickSucceeded(e, w)
    <2> DEFINE x == Call(e, "on_tick_Succeeded")
               y == Call(x, "on_end")
    <2>1. Sound(x) /\ SamePlan(e, x) /\ x.status = e.status
      BY CallSound
    <2>2. Sound(y) /\ SamePlan(x, y) /\ y.status = x.status
      BY <2>1, CallSound
    <2>3. o.ex = Advance(y) /\ o.status = Advance(y).status
      BY <1>4 DEF TickSucceeded, Outcome
    <2> HIDE DEF x, y
    <2>4. /\ Sound(Advance(y)) /\ SamePlan(y, Advance(y)) /\ Advance(y).action = NoAction
          /\ Advance(y).status \in {"Success", y.status}
      BY <2>2 DEF Advance, Sound, SamePlan, ExecutorFields
    <2> QED
      BY <2>1, <2>2, <2>3, <2>4 DEF TickOutcome, SamePlan
  <1> QED
    BY <1>1, <1>2, <1>3, <1>4 DEF ActionTick

\* tick() of an executor that is running.
LEMMA TickSound ==
    ASSUME NEW e, Sound(e), e.status = "Running", NEW w, NEW o \in ExTick(e, w)
    PROVE  TickOutcome(e, o)
  <1>1. CASE ~e.bound
    BY <1>1, FailureOutcome DEF ExTick, SamePlan
  <1>2. CASE e.bound /\ e.index >= Len(e.plan)
    <2>1. e.action = NoAction
      BY <1>2 DEF Sound
    <2>2. o.ex = [e EXCEPT !.status = "Success"] /\ o.status = "Success"
      BY <1>2, <2>1 DEF ExTick, FinishedPlan, Outcome
    <2> QED
      BY <2>1, <2>2 DEF TickOutcome, Sound, SamePlan, ExecutorFields
  <1>3. CASE e.bound /\ ~(e.index >= Len(e.plan))
    <2> DEFINE d == [e EXCEPT !.justStarted = FALSE]
               l == EnsureLoaded(d)
    <2>1. /\ Sound(d) /\ SamePlan(e, d) /\ d.status = "Running" /\ d.index = e.index
      BY DEF Sound, SamePlan, ExecutorFields
    <2> HIDE DEF d
    <2>2. Sound(l) /\ SamePlan(e, l) /\ l.status = "Running"
      BY <1>3, <2>1 DEF EnsureLoaded, Sound, SamePlan, ExecutorFields
    <2>3. PICK q \in PreStart(l, w) :
              o \in IF q.status # "Running" \/ q.ex.justStarted THEN {q}
                    ELSE ActionTick(q.ex, q.world)
      BY <1>3 DEF ExTick, StepAction, d
    <2> HIDE DEF l
    <2>4. CASE l.started
      <3>1. q = Outcome(l, w, l.status, l.index)
        BY <2>3, <2>4 DEF PreStart
      <3>2. q.ex = l /\ q.status = "Running" /\ q.world = w
        BY <2>2, <3>1 DEF Outcome
      <3>3. CASE o = q
        BY <2>2, <3>2, <3>3 DEF TickOutcome
      <3>4. CASE o \in ActionTick(l, w)
        <4>1. TickOutcome(l, o)
          BY <2>2, <3>4, ActionTickOutcome
        <4> QED
          BY <2>2, <4>1 DEF TickOutcome, SamePlan
      <3> QED
        BY <2>3, <3>2, <3>3, <3>4
    <2>5. CASE ~l.started /\ ~PreconditionsHold(l, w)
      <3> DEFINE need == [l EXCEPT !.status = "NeedReplanning"]
      <3>1. Sound(need) /\ SamePlan(e, need)
        BY <2>2 DEF Sound, SamePlan, ExecutorFields
      <3>2. Replanned(need) = {}
        BY <3>1 DEF Replanned, Sound
      <3>3. q = Failure(need, w)
        BY <2>3, <2>5, <3>2 DEF PreStart
      <3>4. q.status = "Failed"
        BY <3>3 DEF Failure, Outcome
      <3>5. o = q
        BY <2>3, <3>4
      <3> HIDE DEF need
      <3> QED
        BY <3>1, <3>3, <3>5, FailureOutcome
    <2>6. CASE q = Failure(Call(l, "on_start_false"), w)
      <3>1. q.status = "Failed"
        BY <2>6 DEF Failure, Outcome
      <3>2. o = q
        BY <2>3, <3>1
      <3>3. Sound(Call(l, "on_start_false")) /\ SamePlan(e, Call(l, "on_start_false"))
        BY <2>2, CallSound DEF SamePlan
      <3> QED
        BY <2>6, <3>2, <3>3, FailureOutcome
    <2>7. CASE q = Outcome([Call(l, "on_start_true") EXCEPT !.started = TRUE,
                                                            !.justStarted = TRUE],
                           w, l.status, l.index)
      <3> DEFINE x == Call(l, "on_start_true")
                 y == [x EXCEPT !.started = TRUE, !.justStarted = TRUE]
      <3>1. Sound(x) /\ SamePlan(e, x) /\ x.status = "Running"
        BY <2>2, CallSound DEF SamePlan
      <3> HIDE DEF x
      <3>2. Sound(y) /\ SamePlan(e, y) /\ y.status = "Running" /\ y.justStarted
        BY <3>1 DEF Sound, SamePlan, ExecutorFields
      <3>3. q.ex = y /\ q.status = "Running"
        BY <2>2, <2>7 DEF Outcome, x
      <3>4. o = q
        BY <2>3, <3>2, <3>3
      <3> QED
        BY <3>2, <3>3, <3>4 DEF TickOutcome
    <2> QED
      BY <2>3, <2>4, <2>5, <2>6, <2>7 DEF PreStart
  <1> QED
    BY <1>1, <1>2, <1>3

\* tick() of an executor at rest.
LEMMA RestingTick ==
    ASSUME NEW e, Sound(e), e.status # "Running", NEW w, NEW o \in ExTick(e, w)
    PROVE  /\ Sound(o.ex) /\ o.ex.status # "Running" /\ o.ex.action = e.action
           /\ o.status # "Running"
  <1>1. CASE ~e.bound
    <2>1. o = Failure(e, w)
      BY <1>1 DEF ExTick
    <2>2. o.ex = [e EXCEPT !.status = "Failed"] /\ o.status = "Failed"
      BY <2>1 DEF Failure, Outcome
    <2> QED
      BY <2>2 DEF Sound, ExecutorFields
  <1>2. CASE e.bound
    <2>1. o = Outcome(e, w, e.status, e.index)
      BY <1>2 DEF ExTick
    <2> QED
      BY <2>1 DEF Outcome
  <1> QED
    BY <1>1, <1>2

-----------------------------------------------------------------------------
(* Agents *)

\* on_plan_received takes the answer r for a plan to execute.
Good(r) == r.success /\ r.actions # <<>>

\* The status of an agent that pursues its goal.
Busy == {"Planning", "Executing"}

\* The states of a job that can still report.
Reporting == {"searching", "cleared"}

\* An agent with all its fields whose goal is that of its motive.
Shaped(a) ==
    /\ DOMAIN a = AgentFields /\ DOMAIN a.job = JobFields /\ Sound(a.ex)
    /\ a.active # NoMotive => a.goal = GoalOf[a.active]

\* An agent that neither searches nor executes, whatever its status says.
Rests(a) ==
    /\ Shaped(a) /\ a.job.state \notin Reporting
    /\ a.ex.status # "Running" /\ a.ex.action = NoAction /\ a.cached = NoAction

\* A planning agent has a search to take an answer from, a cancelled one at least.
Answerable(a) == a.status = "Planning" => a.job.state \in {"searching", "cleared", "done"}

\* The inductive invariant of an agent between two calls of its methods.
AgentInv(a) ==
    /\ Shaped(a) /\ Answerable(a)
    /\ a.job.state \in Reporting <=> a.status = "Planning" /\ ~a.threw
    /\ a.ex.status = "Running" <=> a.status = "Executing" /\ ~a.threw
    /\ a.status \in Busy => a.active # NoMotive
    /\ a.status = "Planning" /\ ~a.threw => a.job.goal = a.goal
    /\ a.status = "Executing" /\ ~a.threw => a.ex.goal = a.goal /\ a.ex.plan # <<>>
    /\ a.status # "Executing" \/ a.threw => a.ex.action = NoAction /\ a.cached = NoAction

\* An agent at rest may have any status that does not say otherwise, and a call that
\* threw may have left it any other.
LEMMA AtRest ==
    ASSUME NEW a, Rests(a),
           a.status \notin Busy \/ (a.threw /\ a.active # NoMotive /\ Answerable(a))
    PROVE  AgentInv(a)
  BY DEF Rests, AgentInv, Answerable, Busy

\* An agent that is not busy is at rest, and so is one left busy by a call that threw.
LEMMA IdleRests ==
    ASSUME NEW a, AgentInv(a), a.status \notin Busy \/ a.threw
    PROVE  Rests(a)
  BY DEF Rests, AgentInv, Busy

\* A change of other fields leaves the invariant.
LEMMA OtherFields ==
    ASSUME NEW a, AgentInv(a), NEW b, DOMAIN b = AgentFields,
           b.status = a.status, b.ex = a.ex, b.active = a.active, b.goal = a.goal,
           b.cached = a.cached, b.job = a.job, b.threw = a.threw
    PROVE  AgentInv(b)
  BY DEF AgentInv, Shaped, Answerable

\* A plan that fails leaves an agent at rest.
LEMMA PlanFailureRests ==
    ASSUME NEW a, Rests(a)
    PROVE  /\ Rests(PlanFailure(a)) /\ PlanFailure(a).status \notin Busy
           /\ AgentInv(PlanFailure(a))
  <1>1. /\ DOMAIN PlanFailure(a) = AgentFields /\ PlanFailure(a).status \in {"Idle", "PlanFailed"}
        /\ PlanFailure(a).ex = a.ex /\ PlanFailure(a).active = a.active
        /\ PlanFailure(a).goal = a.goal /\ PlanFailure(a).cached = a.cached
        /\ PlanFailure(a).job = a.job
    BY DEF Rests, Shaped, PlanFailure, TransitionTo, AgentFields
  <1>2. Rests(PlanFailure(a)) /\ PlanFailure(a).status \notin Busy
    BY <1>1 DEF Rests, Shaped, Busy
  <1> QED
    BY <1>2, AtRest

\* on_plan_received() changes neither the motive nor the job.
LEMMA OnPlanShaped ==
    ASSUME NEW a, Shaped(a), NEW r
    PROVE  /\ Shaped(OnPlanReceived(a, r)) /\ OnPlanReceived(a, r).job = a.job
           /\ OnPlanReceived(a, r).active = a.active
           /\ OnPlanReceived(a, r).goal = a.goal
           /\ OnPlanReceived(a, r).status # "Planning" /\ ~OnPlanReceived(a, r).threw
           /\ OnPlanReceived(a, r).config = a.config
  <1>1. CASE ~Good(r)
    <2>1. OnPlanReceived(a, r) = PlanFailure(a)
      BY <1>1 DEF OnPlanReceived, Good
    <2> QED
      BY <2>1 DEF PlanFailure, TransitionTo, Shaped, AgentFields
  <1>2. CASE Good(r)
    <2> DEFINE f == ExSetPlan(a.ex, r, a.goal)
    <2>1. Sound(f)
      BY <1>2, SetPlanSound DEF Shaped, Good
    <2>2. OnPlanReceived(a, r) =
             TransitionTo([a EXCEPT !.failures = 0, !.searches = 0, !.ex = f], "Executing")
      BY <1>2 DEF OnPlanReceived, Good, Shaped, AgentFields
    <2> HIDE DEF f
    <2> QED
      BY <2>1, <2>2 DEF TransitionTo, Shaped, AgentFields
  <1> QED
    BY <1>1, <1>2

\* on_plan_received() ends a search: a failure is no matter for an executor that runs.
LEMMA OnPlanKeeps ==
    ASSUME NEW a, Shaped(a), a.job.state \notin Reporting, a.active # NoMotive,
           NEW r, Rests(a) \/ Good(r)
    PROVE  /\ AgentInv(OnPlanReceived(a, r))
           /\ OnPlanReceived(a, r).status = "Executing" => Good(r)
  <1> DEFINE b == OnPlanReceived(a, r)
  <1>1. CASE ~Good(r)
    <2>1. b = PlanFailure(a)
      BY <1>1 DEF OnPlanReceived, Good
    <2> HIDE DEF b
    <2>2. AgentInv(b) /\ b.status \notin Busy
      BY <1>1, <2>1, PlanFailureRests
    <2> QED
      BY <2>2 DEF Busy, b
  <1>2. CASE Good(r)
    <2> DEFINE f == ExSetPlan(a.ex, r, a.goal)
    <2>1. /\ Sound(f) /\ f.status = "Running" /\ f.goal = a.goal /\ f.plan = r.actions
      BY <1>2, SetPlanSound DEF Shaped, Good
    <2>2. b = TransitionTo([a EXCEPT !.failures = 0, !.searches = 0, !.ex = f], "Executing")
      BY <1>2 DEF OnPlanReceived, Good, Shaped, AgentFields
    <2> HIDE DEF f, b
    <2>3. /\ DOMAIN b = AgentFields /\ b.status = "Executing" /\ b.ex = f /\ b.active = a.active
          /\ b.goal = a.goal /\ b.job = a.job /\ ~b.threw
      BY <2>2 DEF TransitionTo, Shaped, AgentFields
    <2>4. AgentInv(b)
      BY <1>2, <2>1, <2>3 DEF AgentInv, Shaped, Answerable, Good, Busy
    <2> QED
      BY <1>2, <2>4 DEF b
  <1> QED
    BY <1>1, <1>2

\* The thread of the job calls the callback.
LEMMA DeliverKeeps ==
    ASSUME NEW a, AgentInv(a), a.job.state \in Reporting
    PROVE  /\ AgentInv(Deliver(a)) /\ Deliver(a).job.state = "done"
           /\ Deliver(a).job.answer = a.job.answer
           /\ Deliver(a).job.goal = Deliver(a).goal /\ Deliver(a).active # NoMotive
           /\ Deliver(a).status = "Executing" => Good(a.job.answer)
  <1> DEFINE d == [a EXCEPT !.job.state = "done"]
  <1>1. /\ Shaped(d) /\ d.job.state = "done" /\ d.job.answer = a.job.answer
        /\ d.active = a.active /\ d.goal = a.goal /\ d.job.goal = a.job.goal
        /\ d.ex = a.ex /\ d.cached = a.cached
    BY DEF AgentInv, Shaped, AgentFields, JobFields
  <1>2. /\ a.status = "Planning" /\ a.active # NoMotive /\ a.job.goal = a.goal
        /\ a.ex.status # "Running" /\ a.ex.action = NoAction /\ a.cached = NoAction
    BY DEF AgentInv, Busy
  <1>3. Deliver(a) = OnPlanReceived(d, a.job.answer)
    BY DEF Deliver
  <1> HIDE DEF d
  <1>4. Rests(d)
    BY <1>1, <1>2 DEF Rests, Reporting
  <1>5. d.job.state \notin Reporting
    BY <1>1 DEF Reporting
  <1>6. /\ AgentInv(OnPlanReceived(d, a.job.answer))
        /\ OnPlanReceived(d, a.job.answer).status = "Executing" => Good(a.job.answer)
    BY <1>1, <1>2, <1>4, <1>5, OnPlanKeeps
  <1>7. /\ OnPlanReceived(d, a.job.answer).job = d.job
        /\ OnPlanReceived(d, a.job.answer).active = d.active
        /\ OnPlanReceived(d, a.job.answer).goal = d.goal
    BY <1>1, OnPlanShaped
  <1> QED
    BY <1>1, <1>2, <1>3, <1>6, <1>7

\* kick_off_planning() from rest, where it throws or not.
LEMMA KickOffKeeps ==
    ASSUME NEW a, Rests(a), a.active # NoMotive, Answerable(a), NEW b \in KickOff(a)
    PROVE  AgentInv(b)
  <1> DEFINE p == [TransitionTo(a, "Planning") EXCEPT
                     !.searches = Capped(@, a.config.maxConsecutiveFailures)]
  <1>1. CASE ~a.hasHeuristic
    <2> DEFINE t == a.status \in {"Planning", "Executing"}
    <2>1. b = [a EXCEPT !.threw = t]
      BY <1>1 DEF KickOff
    <2> HIDE DEF t
    <2>2. /\ DOMAIN b = AgentFields /\ b.status = a.status /\ b.ex = a.ex
          /\ b.active = a.active /\ b.goal = a.goal /\ b.cached = a.cached
          /\ b.job = a.job /\ b.threw = t
      BY <2>1 DEF Rests, Shaped, AgentFields
    <2>3. Rests(b) /\ b.active # NoMotive
      BY <2>2 DEF Rests, Shaped
    <2>4. Answerable(b)
      BY <2>2 DEF Answerable
    <2>5. b.threw \/ b.status \notin Busy
      BY <2>2 DEF Busy, t
    <2> QED
      BY <2>3, <2>4, <2>5, AtRest
  <1>2. CASE a.hasHeuristic
    <2>1. b \in (IF a.config.synchronousPlanning THEN {OnPlanReceived(p, r) : r \in Answers(p)}
                 ELSE {[p EXCEPT !.job = [state |-> "searching", answer |-> r, goal |-> p.goal]] :
                          r \in Answers(p)})
      BY <1>2 DEF KickOff
    <2>2. \/ \E r \in Answers(p) : b = OnPlanReceived(p, r)
          \/ \E r \in Answers(p) :
                b = [p EXCEPT !.job = [state |-> "searching", answer |-> r, goal |-> p.goal]]
      <3> HIDE DEF p
      <3> QED
        BY <2>1
    <2>3. /\ DOMAIN p = AgentFields /\ p.status = "Planning" /\ p.ex = a.ex
          /\ p.active = a.active /\ p.goal = a.goal /\ p.cached = a.cached
          /\ p.job = a.job /\ p.threw = FALSE
      BY DEF TransitionTo, Rests, Shaped, AgentFields
    <2> HIDE DEF p
    <2>4. Rests(p)
      BY <2>3 DEF Rests, Shaped
    <2>5. ASSUME NEW r, b = OnPlanReceived(p, r) PROVE AgentInv(b)
      BY <1>2, <2>3, <2>4, <2>5, OnPlanKeeps DEF Rests
    <2>6. ASSUME NEW r,
                 b = [p EXCEPT !.job = [state |-> "searching", answer |-> r, goal |-> p.goal]]
          PROVE  AgentInv(b)
      <3> DEFINE j == [state |-> "searching", answer |-> r, goal |-> p.goal]
      <3>1. DOMAIN j = JobFields /\ j.state = "searching" /\ j.goal = p.goal
        BY DEF JobFields
      <3>2. b = [p EXCEPT !.job = j]
        BY <2>6
      <3> HIDE DEF j
      <3>3. /\ DOMAIN b = AgentFields /\ b.status = "Planning" /\ b.ex = p.ex
            /\ b.active = p.active /\ b.goal = p.goal /\ b.cached = p.cached
            /\ b.job = j /\ b.threw = FALSE
        BY <2>3, <3>2 DEF AgentFields
      <3> QED
        BY <2>3, <2>4, <3>1, <3>3 DEF AgentInv, Rests, Shaped, Answerable, Reporting, Busy
    <2> QED
      BY <2>2, <2>5, <2>6
  <1> QED
    BY <1>1, <1>2

-----------------------------------------------------------------------------
(* Control *)

\* cancel_planning() leaves no search that can report, and the rest of the agent
\* or a late callback's.
LEMMA CancelShaped ==
    ASSUME NEW a, Shaped(a), NEW b \in CancelPlanning(a)
    PROVE  /\ Shaped(b) /\ b.job.state \notin Reporting
           /\ b.active = a.active /\ b.goal = a.goal
           /\ a.job.state \notin Reporting => b = a
           /\ Answerable(a) => Answerable(b)
           /\ b.config = a.config
  <1> DEFINE d == [a EXCEPT !.job.state = "done"]
             c == [d EXCEPT !.job.answer = NoPlan]
  <1>1. /\ Shaped(d) /\ d.job.state = "done" /\ d.active = a.active /\ d.goal = a.goal
        /\ d.config = a.config
    BY DEF Shaped, AgentFields, JobFields
  <1>2. Deliver(a) = OnPlanReceived(d, a.job.answer)
    BY DEF Deliver
  <1> HIDE DEF d
  <1>3. /\ Shaped(c) /\ c.job.state = "done" /\ c.active = a.active /\ c.goal = a.goal
        /\ c.config = a.config
    BY <1>1 DEF Shaped, AgentFields, JobFields
  <1>4. /\ Shaped(Deliver(a)) /\ Deliver(a).job = d.job /\ Deliver(a).active = a.active
        /\ Deliver(a).goal = a.goal /\ Deliver(a).status # "Planning"
        /\ Deliver(a).config = a.config
    BY <1>1, <1>2, OnPlanShaped
  <1> HIDE DEF c
  <1>5. \/ a.job.state \in Reporting /\ b \in {d, c, Deliver(a)}
        \/ a.job.state \notin Reporting /\ b = a
    BY DEF CancelPlanning, Reporting, d, c
  <1>6. CASE a.job.state \in Reporting /\ b \in {d, c, Deliver(a)}
    <2>1. b.job.state = "done"
      BY <1>1, <1>3, <1>4, <1>6
    <2>2. Answerable(b)
      BY <2>1 DEF Answerable
    <2> QED
      BY <1>1, <1>3, <1>4, <1>6, <2>1, <2>2 DEF Reporting
  <1>7. CASE a.job.state \notin Reporting /\ b = a
    BY <1>7
  <1> QED
    BY <1>5, <1>6, <1>7

\* An agent that is halted is at rest.
LEMMA HaltKeeps ==
    ASSUME NEW a, Shaped(a), NEW s, s \notin Busy, NEW c \in Halt(a, s)
    PROVE  AgentInv(c)
  <1>1. PICK b \in CancelPlanning(a) :
            c = TransitionTo([b EXCEPT !.ex = ExInterrupt(@), !.cached = NoAction], s)
    BY DEF Halt
  <1>2. Shaped(b) /\ b.job.state \notin Reporting
    BY CancelShaped
  <1> DEFINE f == ExInterrupt(b.ex)
  <1>3. Sound(f) /\ f.status = "Interrupted" /\ f.action = NoAction
    BY <1>2, InterruptSound DEF Shaped
  <1>4. c = TransitionTo([b EXCEPT !.ex = f, !.cached = NoAction], s)
    BY <1>1, <1>2 DEF Shaped, AgentFields
  <1> HIDE DEF f
  <1>5. /\ DOMAIN c = AgentFields /\ c.status = s /\ c.ex = f /\ c.cached = NoAction
        /\ c.active = b.active /\ c.goal = b.goal /\ c.job = b.job
    BY <1>2, <1>4 DEF TransitionTo, Shaped, AgentFields
  <1>6. Rests(c)
    BY <1>2, <1>3, <1>5 DEF Rests, Shaped
  <1> QED
    BY <1>5, <1>6, AtRest

\* A goal that is adopted and planned for.
LEMMA SelectAndPlanKeeps ==
    ASSUME NEW a, Rests(a), Candidate(a) # NoMotive, Answerable(a),
           NEW b \in SelectAndPlan(a)
    PROVE  AgentInv(b)
  <1> DEFINE m == Candidate(a)
             d == Adopt(a, m)
  <1>1. b \in KickOff(d)
    BY DEF SelectAndPlan
  <1> HIDE DEF m
  <1>2. /\ DOMAIN d = AgentFields /\ d.active = m /\ d.goal = GoalOf[m] /\ d.status = a.status
        /\ d.ex = a.ex /\ d.cached = a.cached /\ d.job = a.job
    BY DEF Adopt, Rests, Shaped, AgentFields
  <1> HIDE DEF d
  <1>3. Rests(d) /\ d.active # NoMotive
    BY <1>2 DEF Rests, Shaped, m
  <1>4. Answerable(d)
    BY <1>2 DEF Answerable
  <1> QED
    BY <1>1, <1>3, <1>4, KickOffKeeps

\* force_replan(), also of an agent whose executor has just stopped.
LEMMA ForceReplanKeeps ==
    ASSUME NEW a, Shaped(a), Answerable(a), NEW d \in AgentForceReplan(a)
    PROVE  AgentInv(d)
  <1>1. PICK c \in CancelPlanning(a) : \E b \in {[c EXCEPT !.ex = ExReset(@), !.cached = NoAction]} :
            d \in IF MaySelect(b) THEN SelectAndPlan(b) ELSE {TransitionTo(b, "Idle")}
    BY DEF AgentForceReplan
  <1> DEFINE f == ExReset(c.ex)
             b == [c EXCEPT !.ex = f, !.cached = NoAction]
  <1>2. Shaped(c) /\ Answerable(c) /\ c.job.state \notin Reporting
    BY CancelShaped
  <1>3. Sound(f) /\ f.status = "Idle" /\ f.action = NoAction
    BY <1>2, ResetSound DEF Shaped
  <1>4. b = [c EXCEPT !.ex = ExReset(@), !.cached = NoAction]
    BY <1>2 DEF Shaped, AgentFields
  <1>5. d \in IF MaySelect(b) THEN SelectAndPlan(b) ELSE {TransitionTo(b, "Idle")}
    BY <1>1, <1>4
  <1> HIDE DEF f
  <1>6. /\ DOMAIN b = AgentFields /\ b.ex = f /\ b.cached = NoAction /\ b.status = c.status
        /\ b.active = c.active /\ b.goal = c.goal /\ b.job = c.job
    BY <1>2 DEF Shaped, AgentFields
  <1> HIDE DEF b
  <1>7. Rests(b)
    BY <1>2, <1>3, <1>6 DEF Rests, Shaped
  <1>8. Answerable(b)
    BY <1>2, <1>6 DEF Answerable
  <1>9. CASE MaySelect(b) /\ d \in SelectAndPlan(b)
    <2>1. Candidate(b) # NoMotive
      BY <1>9 DEF MaySelect
    <2> QED
      BY <1>7, <1>8, <1>9, <2>1, SelectAndPlanKeeps
  <1>10. CASE d = TransitionTo(b, "Idle")
    <2>1. Rests(d) /\ d.status \notin Busy
      BY <1>7, <1>10 DEF Rests, Shaped, TransitionTo, AgentFields, Busy
    <2> QED
      BY <2>1, AtRest
  <1> QED
    BY <1>5, <1>9, <1>10

\* A motive that is satisfied is retired.
LEMMA RetireKeeps ==
    ASSUME NEW a, Rests(a), NEW m
    PROVE  AgentInv(RetireGoal(a, m))
  <1> DEFINE q == Satisfy(a.motives, a.priority, NameOf[m])
             b == TransitionTo([a EXCEPT !.priority = q, !.active = NoMotive], "Idle")
  <1>1. RetireGoal(a, m) = b
    BY DEF RetireGoal, Rests, Shaped, AgentFields
  <1> HIDE DEF q
  <1>2. /\ DOMAIN b = AgentFields /\ b.status = "Idle" /\ b.ex = a.ex /\ b.active = NoMotive
        /\ b.cached = a.cached /\ b.job = a.job
    BY DEF TransitionTo, Rests, Shaped, AgentFields
  <1> HIDE DEF b
  <1>3. Rests(b) /\ b.status \notin Busy
    BY <1>2 DEF Rests, Shaped, Busy
  <1> QED
    BY <1>1, <1>3, AtRest

-----------------------------------------------------------------------------
(* The phases of tick *)

\* phase_idle().
LEMMA PhaseIdleKeeps ==
    ASSUME NEW a, AgentInv(a), a.status \in {"NoMotives", "Idle", "PlanFailed"},
           NEW c \in PhaseIdle(a)
    PROVE  AgentInv(c)
  <1> DEFINE wanted == Wanted(a.motives, a.priority)
             met == {i \in wanted : IsSatisfied(a.motives[i], a.world)}
             x == IF a.status = "NoMotives" THEN TransitionTo(a, "Idle") ELSE a
             b == [x EXCEPT !.dirty = IF met = {} THEN FALSE ELSE @]
  <1>1. \/ c = a
        \/ c = TransitionTo(a, "NoMotives")
        \/ c = b
        \/ \E m : c = RetireGoal(b, m)
        \/ a.active # NoMotive /\ c \in KickOff(b)
        \/ MaySelect(b) /\ c \in SelectAndPlan(b)
    BY DEF PhaseIdle
  <1>2. /\ DOMAIN b = AgentFields /\ b.status \notin Busy /\ b.ex = a.ex /\ b.active = a.active
        /\ b.goal = a.goal /\ b.cached = a.cached /\ b.job = a.job
    BY DEF TransitionTo, AgentInv, Shaped, AgentFields, Busy
  <1> HIDE DEF b
  <1>3. Rests(a) /\ a.status \notin Busy
    BY IdleRests DEF Busy
  <1>4. Rests(b) /\ Answerable(b)
    BY <1>2, <1>3 DEF Rests, Shaped, Answerable, Busy
  <1>5. CASE c = TransitionTo(a, "NoMotives")
    <2>1. Rests(c) /\ c.status \notin Busy
      BY <1>3, <1>5 DEF Rests, Shaped, TransitionTo, AgentFields, Busy
    <2> QED
      BY <2>1, AtRest
  <1>6. CASE c = b
    BY <1>2, <1>4, <1>6, AtRest
  <1>7. CASE \E m : c = RetireGoal(b, m)
    BY <1>4, <1>7, RetireKeeps
  <1>8. CASE a.active # NoMotive /\ c \in KickOff(b)
    BY <1>2, <1>4, <1>8, KickOffKeeps
  <1>9. CASE MaySelect(b) /\ c \in SelectAndPlan(b)
    <2>1. Candidate(b) # NoMotive
      BY <1>9 DEF MaySelect
    <2> QED
      BY <1>2, <1>4, <1>9, <2>1, SelectAndPlanKeeps
  <1> QED
    BY <1>1, <1>5, <1>6, <1>7, <1>8, <1>9

\* An agent whose executor runs on keeps executing.
LEMMA RunsOn ==
    ASSUME NEW a, Shaped(a), a.status = "Executing", ~a.threw, a.job.state \notin Reporting,
           a.active # NoMotive,
           a.ex.status = "Running", a.ex.goal = a.goal, a.ex.plan # <<>>, NEW at
    PROVE  AgentInv(StillRunning(a, at))
  <1> DEFINE b == StillRunning(a, at)
  <1>1. /\ DOMAIN b = AgentFields /\ b.status = a.status /\ b.ex = a.ex /\ b.active = a.active
        /\ b.goal = a.goal /\ b.job = a.job /\ b.threw = a.threw
    BY DEF StillRunning, Report, Shaped, AgentFields
  <1> HIDE DEF b
  <1>2. AgentInv(b)
    BY <1>1 DEF AgentInv, Shaped, Answerable, Busy, Reporting
  <1> QED
    BY <1>2 DEF b

\* phase_executing().
LEMMA PhaseExecutingKeeps ==
    ASSUME NEW before, AgentInv(before), before.status = "Executing",
           NEW c \in PhaseExecuting(before)
    PROVE  AgentInv(c)
  <1> DEFINE a == [before EXCEPT !.dirty = FALSE]
             m == Candidate(a)
  <1>1. /\ DOMAIN a = AgentFields /\ a.status = "Executing" /\ a.ex = before.ex
        /\ a.active = before.active /\ a.goal = before.goal /\ a.cached = before.cached
        /\ a.job = before.job /\ a.threw = before.threw
    BY DEF AgentInv, Shaped, AgentFields
  <1>2. \/ /\ m # NoMotive
           /\ \E b \in CancelPlanning([a EXCEPT !.ex = ExInterrupt(@)]) :
                 c \in KickOff(Adopt([b EXCEPT !.cached = NoAction], m))
        \/ c = RetireGoal([a EXCEPT !.ex = ExInterrupt(@), !.cached = NoAction], a.active)
        \/ \E o \in ExTick(a.ex, a.world) :
              c \in HandleExecutionResult([a EXCEPT !.ex = o.ex, !.world = o.world],
                                          o.status, o.index)
    BY DEF PhaseExecuting
  <1> HIDE DEF a, m
  <1>3. AgentInv(a)
    BY <1>1, OtherFields
  <1>4. /\ Shaped(a) /\ a.job.state \notin Reporting /\ a.active # NoMotive /\ Sound(a.ex)
        /\ \/ a.threw /\ a.ex.status # "Running" /\ a.ex.action = NoAction /\ a.cached = NoAction
           \/ ~a.threw /\ a.ex.status = "Running" /\ a.ex.goal = a.goal /\ a.ex.plan # <<>>
    BY <1>1, <1>3 DEF AgentInv, Busy, Shaped
  <1> DEFINE f == ExInterrupt(a.ex)
  <1>5. Sound(f) /\ f.status = "Interrupted" /\ f.action = NoAction
    BY <1>4, InterruptSound
  <1> HIDE DEF f
  <1>6. ASSUME m # NoMotive, NEW b \in CancelPlanning([a EXCEPT !.ex = ExInterrupt(@)]),
               c \in KickOff(Adopt([b EXCEPT !.cached = NoAction], m))
        PROVE  AgentInv(c)
    <2> DEFINE x == [a EXCEPT !.ex = f]
               y == [b EXCEPT !.cached = NoAction]
               d == Adopt(y, m)
    <2>1. x = [a EXCEPT !.ex = ExInterrupt(@)]
      BY <1>1 DEF f, AgentFields
    <2>2. /\ Shaped(x) /\ x.job = a.job /\ x.status = "Executing" /\ x.ex = f
      BY <1>1, <1>4, <1>5 DEF Shaped, AgentFields
    <2>3. b = x
      <3>1. b \in CancelPlanning(x)
        BY <1>6, <2>1
      <3> HIDE DEF x
      <3> QED
        BY <1>4, <2>2, <3>1, CancelShaped
    <2> HIDE DEF x
    <2>4. /\ DOMAIN y = AgentFields /\ y.cached = NoAction /\ y.ex = f /\ y.job = a.job
          /\ y.status = "Executing"
      BY <1>4, <2>2, <2>3 DEF Shaped, AgentFields
    <2> HIDE DEF y
    <2>5. /\ DOMAIN d = AgentFields /\ d.active = m /\ d.goal = GoalOf[m] /\ d.cached = NoAction
          /\ d.ex = f /\ d.job = a.job /\ d.status = "Executing"
      BY <2>4 DEF Adopt, AgentFields
    <2>6. c \in KickOff(d)
      BY <1>6 DEF y
    <2> HIDE DEF d
    <2>7. Rests(d) /\ Answerable(d)
      BY <1>4, <1>5, <2>5 DEF Rests, Shaped, Answerable
    <2> QED
      BY <1>6, <2>5, <2>6, <2>7, KickOffKeeps
  <1>7. CASE c = RetireGoal([a EXCEPT !.ex = ExInterrupt(@), !.cached = NoAction], a.active)
    <2> DEFINE x == [a EXCEPT !.ex = f, !.cached = NoAction]
    <2>1. x = [a EXCEPT !.ex = ExInterrupt(@), !.cached = NoAction]
      BY <1>1 DEF f, AgentFields
    <2>2. Rests(x)
      BY <1>1, <1>4, <1>5 DEF Rests, Shaped, AgentFields
    <2> HIDE DEF x
    <2> QED
      BY <1>7, <2>1, <2>2, RetireKeeps
  <1>8. ASSUME NEW o \in ExTick(a.ex, a.world),
               c \in HandleExecutionResult([a EXCEPT !.ex = o.ex, !.world = o.world],
                                           o.status, o.index)
        PROVE  AgentInv(c)
    <2> DEFINE x == [a EXCEPT !.ex = o.ex, !.world = o.world]
    <2>1. /\ DOMAIN x = AgentFields /\ x.status = "Executing" /\ x.ex = o.ex
          /\ x.active = a.active /\ x.goal = a.goal /\ x.job = a.job
          /\ x.cached = a.cached /\ x.threw = a.threw
      BY <1>1 DEF AgentFields
    <2>2. c \in HandleExecutionResult(x, o.status, o.index)
      BY <1>8
    <2> HIDE DEF x
    <2>3. Sound(o.ex)
      BY <1>4, <1>8, TickSound, RestingTick DEF TickOutcome
    <2>4. Shaped(x) /\ Answerable(x)
      BY <1>4, <2>1, <2>3 DEF Shaped, Answerable
    <2>5. ASSUME o.status = "Success", o.ex.status # "Running", o.ex.action = NoAction
          PROVE  AgentInv(c)
      <3> DEFINE y == Report(x, IF o.index > 0 THEN o.index - 1 ELSE 0)
      <3>1. c = TransitionTo([y EXCEPT !.cached = NoAction], "Idle")
        BY <2>2, <2>5 DEF HandleExecutionResult
      <3>2. /\ DOMAIN y = AgentFields /\ y.ex = x.ex /\ y.active = x.active /\ y.goal = x.goal
            /\ y.job = x.job
        BY <2>4 DEF Report, Shaped, AgentFields
      <3> HIDE DEF y
      <3>3. /\ DOMAIN c = AgentFields /\ c.status = "Idle" /\ c.ex = x.ex /\ c.active = x.active
            /\ c.goal = x.goal /\ c.job = x.job /\ c.cached = NoAction
        BY <3>1, <3>2 DEF TransitionTo, AgentFields
      <3>4. Rests(c) /\ c.status \notin Busy
        BY <1>4, <2>1, <2>4, <2>5, <3>3 DEF Rests, Shaped, Busy
      <3> QED
        BY <3>4, AtRest
    <2>6. ASSUME o.status \in {"Failed", "NeedReplanning"} PROVE AgentInv(c)
      <3>1. c \in AgentForceReplan(x)
        BY <2>2, <2>6 DEF HandleExecutionResult
      <3> QED
        BY <2>4, <3>1, ForceReplanKeeps
    <2>7. CASE ~a.threw
      <3>1. TickOutcome(a.ex, o)
        BY <1>4, <1>8, <2>7, TickSound
      <3>2. CASE o.status = "Running"
        <4>1. c = StillRunning(x, o.index)
          BY <2>2, <3>2 DEF HandleExecutionResult
        <4> QED
          BY <1>4, <2>1, <2>4, <2>7, <3>1, <3>2, <4>1, RunsOn DEF TickOutcome, SamePlan
      <3> QED
        BY <2>5, <2>6, <3>1, <3>2 DEF TickOutcome
    <2>8. CASE a.threw
      <3>1. /\ o.ex.status # "Running" /\ o.ex.action = NoAction /\ o.status # "Running"
            /\ a.cached = NoAction
        BY <1>4, <1>8, <2>8, RestingTick
      <3>2. Rests(x)
        BY <1>4, <2>1, <2>4, <3>1 DEF Rests
      <3>3. CASE o.status = "Interrupted"
        <4>1. c = TransitionTo([x EXCEPT !.cached = NoAction], "Idle")
          BY <2>2, <3>3 DEF HandleExecutionResult
        <4>2. Rests(c) /\ c.status \notin Busy
          BY <3>2, <4>1 DEF TransitionTo, Rests, Shaped, AgentFields, Busy
        <4> QED
          BY <4>2, AtRest
      <3>4. CASE c = x
        BY <1>4, <2>1, <2>4, <2>8, <3>2, <3>4, AtRest
      <3>5. \/ o.status \in {"Success", "Failed", "NeedReplanning", "Interrupted"}
            \/ c = x
        BY <2>2, <3>1 DEF HandleExecutionResult
      <3> QED
        BY <2>5, <2>6, <3>1, <3>3, <3>4, <3>5
    <2> QED
      BY <2>7, <2>8
  <1> QED
    BY <1>2, <1>6, <1>7, <1>8

-----------------------------------------------------------------------------
(* The specification *)

\* phase_planning has found the search over: its answer may have been delivered
\* by the callback already, and is delivered again.
PollInv(a) ==
    /\ a.job.state \in {"cleared", "done"}
    /\ a.job.state = "done" =>
          /\ a.active # NoMotive
          /\ ~a.threw => a.job.goal = a.goal
          /\ a.status = "Executing" => Good(a.job.answer)

\* The inductive invariant.
GameInv == AgentInv(agent) /\ (polling => PollInv(agent))

\* Forgetting what was told.
LEMMA NowKeeps ==
    ASSUME AgentInv(agent)
    PROVE  /\ AgentInv(Now) /\ Now.status = agent.status /\ Now.job = agent.job
           /\ Now.active = agent.active /\ Now.goal = agent.goal
           /\ Now.threw = agent.threw /\ Now.config = agent.config
           /\ Now.cached = agent.cached
  <1> DEFINE f == Observe(agent.ex)
             b == [agent EXCEPT !.ex = f, !.reported = NoAction]
  <1>1. /\ Sound(f) /\ SamePlan(agent.ex, f)
        /\ f.status = agent.ex.status /\ f.action = agent.ex.action
    BY ObserveSound DEF AgentInv, Shaped
  <1>2. Now = b
    BY DEF Now, AgentInv, Shaped, AgentFields
  <1> HIDE DEF f
  <1>3. /\ DOMAIN b = AgentFields /\ b.status = agent.status /\ b.job = agent.job
        /\ b.active = agent.active /\ b.goal = agent.goal /\ b.ex = f
        /\ b.threw = agent.threw /\ b.config = agent.config
        /\ b.cached = agent.cached
    BY DEF AgentInv, Shaped, AgentFields
  <1> HIDE DEF b
  <1>4. AgentInv(b)
    BY <1>1, <1>3 DEF AgentInv, Shaped, Answerable, SamePlan
  <1> QED
    BY <1>2, <1>3, <1>4

\* A step that counts a tick.
LEMMA TickedKeeps ==
    ASSUME AgentInv(agent)
    PROVE  /\ AgentInv(Ticked) /\ Ticked.status = agent.status /\ Ticked.job = agent.job
           /\ Ticked.threw = agent.threw
  <1>1. /\ AgentInv(Now) /\ Now.status = agent.status /\ Now.job = agent.job
        /\ Now.threw = agent.threw
    BY NowKeeps
  <1> DEFINE n == IF agent.config.goalRecheckInterval = 0 THEN 0
                  ELSE (Now.ticks + 1) % agent.config.goalRecheckInterval
             b == [Now EXCEPT !.ticks = n]
  <1>2. Ticked = b
    BY <1>1 DEF Ticked, AgentInv, Shaped, AgentFields
  <1> HIDE DEF n
  <1>3. /\ DOMAIN b = AgentFields /\ b.status = Now.status /\ b.ex = Now.ex
        /\ b.active = Now.active /\ b.goal = Now.goal /\ b.cached = Now.cached
        /\ b.job = Now.job /\ b.threw = Now.threw
    BY <1>1 DEF AgentInv, Shaped, AgentFields
  <1> HIDE DEF b
  <1> QED
    BY <1>1, <1>2, <1>3, OtherFields

\* A new agent.
LEMMA InitGame == Init => GameInv
  <1> SUFFICES ASSUME Init PROVE GameInv
    OBVIOUS
  <1>1. /\ DOMAIN agent = AgentFields /\ agent.status = "Idle" /\ agent.ex = NewExecutor(TRUE, FALSE)
        /\ agent.active = NoMotive /\ agent.cached = NoAction /\ agent.job = NoJob /\ ~polling
    BY DEF Init, AgentFields
  <1>2. /\ Sound(NewExecutor(TRUE, FALSE)) /\ NewExecutor(TRUE, FALSE).status = "Idle"
        /\ NewExecutor(TRUE, FALSE).action = NoAction
    BY DEF NewExecutor, Sound, ExecutorFields
  <1>3. DOMAIN NoJob = JobFields /\ NoJob.state = "none"
    BY DEF NoJob, JobFields
  <1>4. AgentInv(agent)
    BY <1>1, <1>2, <1>3 DEF AgentInv, Shaped, Answerable, Busy, Reporting
  <1> QED
    BY <1>1, <1>4 DEF GameInv

\* A method that returns leaves the invariant if every outcome is well.
LEMMA CallsKeep ==
    ASSUME NEW outcomes, Calls(outcomes), \A a \in outcomes : AgentInv(a)
    PROVE  GameInv'
  BY DEF Calls, GameInv

\* A tick.
LEMMA TickKeeps == GameInv /\ Tick => GameInv'
  <1> SUFFICES ASSUME GameInv, Tick PROVE GameInv'
    OBVIOUS
  <1>1. AgentInv(agent)
    BY DEF GameInv
  <1>2. /\ AgentInv(Ticked) /\ Ticked.status = agent.status /\ Ticked.job = agent.job
        /\ Ticked.threw = agent.threw
    BY <1>1, TickedKeeps
  <1>3. CASE TickIdle
    <2>1. \A c \in PhaseIdle(Ticked) : AgentInv(c)
      BY <1>2, <1>3, PhaseIdleKeeps DEF TickIdle
    <2> QED
      BY <1>3, <2>1, CallsKeep DEF TickIdle
  <1>4. CASE TickExecuting
    <2>1. \A c \in PhaseExecuting(Ticked) : AgentInv(c)
      BY <1>2, <1>4, PhaseExecutingKeeps DEF TickExecuting
    <2> QED
      BY <1>4, <2>1, CallsKeep DEF TickExecuting
  <1>5. CASE TickPlanning
    <2>1. agent' = Ticked /\ agent.status = "Planning"
          /\ polling' = (agent.job.state # "searching")
      BY <1>5 DEF TickPlanning
    <2>2. /\ agent.job.state \in {"searching", "cleared", "done"}
          /\ agent.job.state = "done" => agent.threw
      BY <1>1, <2>1 DEF AgentInv, Answerable, Reporting
    <2>3. Ticked.active # NoMotive
      BY <1>2, <2>1 DEF AgentInv, Busy
    <2>4. polling' => PollInv(agent')
      BY <1>2, <2>1, <2>2, <2>3 DEF PollInv
    <2> QED
      BY <1>2, <2>1, <2>4 DEF GameInv
  <1>6. CASE Poll
    <2> DEFINE d == [Now EXCEPT !.job.state = "none"]
               r == agent.job.answer
    <2>1. /\ ~polling' /\ PollInv(agent)
          /\ agent' = IF agent.job.state = "done" THEN OnPlanReceived(d, r) ELSE Now
      BY <1>6 DEF Poll, GameInv
    <2>2. /\ AgentInv(Now) /\ Now.status = agent.status /\ Now.job = agent.job
          /\ Now.active = agent.active
      BY <1>1, NowKeeps
    <2>3. CASE agent.job.state = "done"
      <3>1. /\ Shaped(d) /\ d.job.state = "none" /\ d.active = Now.active /\ d.ex = Now.ex
            /\ d.cached = Now.cached
        BY <2>2 DEF AgentInv, Shaped, AgentFields, JobFields
      <3>2. /\ agent.active # NoMotive
            /\ agent.status = "Executing" => Good(r)
        BY <2>1, <2>3 DEF PollInv
      <3>3. Good(r) \/ Rests(d)
        <4>1. SUFFICES ASSUME ~Good(r) PROVE Rests(d)
          OBVIOUS
        <4>2. Now.status # "Executing" /\ Now.ex.status # "Running"
              /\ Now.ex.action = NoAction /\ Now.cached = NoAction
          BY <2>2, <3>2, <4>1 DEF AgentInv
        <4> QED
          BY <3>1, <4>2 DEF Rests, Reporting
      <3> HIDE DEF d, r
      <3>4. AgentInv(OnPlanReceived(d, r))
        BY <2>2, <3>1, <3>2, <3>3, OnPlanKeeps DEF Reporting
      <3> QED
        BY <2>1, <2>3, <3>4 DEF GameInv
    <2>4. CASE agent.job.state # "done"
      BY <2>1, <2>2, <2>4 DEF GameInv
    <2> QED
      BY <2>3, <2>4
  <1>7. CASE TickInterrupted
    BY <1>2, <1>7, CallsKeep DEF TickInterrupted
  <1> QED
    BY <1>3, <1>4, <1>5, <1>6, <1>7 DEF Tick

\* What else the game does while it plays.
LEMMA GameKeeps ==
    GameInv /\ (WriteWorld \/ MarkWorldDirty \/ Interrupt \/ Resume \/ ForceReplan) => GameInv'
  <1> SUFFICES ASSUME GameInv, WriteWorld \/ MarkWorldDirty \/ Interrupt \/ Resume \/ ForceReplan
               PROVE  GameInv'
    OBVIOUS
  <1>1. AgentInv(Now)
    BY NowKeeps DEF GameInv
  <1> DEFINE n == Now
  <1>2. AgentInv(n) /\ Shaped(n) /\ DOMAIN n = AgentFields
    BY <1>1 DEF AgentInv, Shaped
  <1>3. Answerable(n)
    BY <1>2 DEF AgentInv
  <1>4. CASE WriteWorld
    <2>1. PICK d \in Write, marks \in BOOLEAN :
              Calls({[Now EXCEPT !.world = w, !.dirty = @ \/ marks] : w \in Written(agent.world, d)})
      BY <1>4 DEF WriteWorld
    <2>2. \A w : AgentInv([n EXCEPT !.world = w, !.dirty = @ \/ marks])
      <3> SUFFICES ASSUME NEW w PROVE AgentInv([n EXCEPT !.world = w, !.dirty = @ \/ marks])
        OBVIOUS
      <3> DEFINE b == [n EXCEPT !.world = w, !.dirty = @ \/ marks]
      <3> HIDE DEF n
      <3>1. /\ DOMAIN b = AgentFields /\ b.status = n.status /\ b.ex = n.ex
            /\ b.active = n.active /\ b.goal = n.goal /\ b.cached = n.cached
            /\ b.job = n.job /\ b.threw = n.threw
        BY <1>2 DEF AgentFields
      <3> HIDE DEF b
      <3>2. AgentInv(b)
        BY <1>2, <3>1, OtherFields
      <3> QED
        BY <3>2 DEF b
    <2> QED
      BY <2>1, <2>2, CallsKeep
  <1>5. CASE MarkWorldDirty
    <2> DEFINE b == [n EXCEPT !.dirty = TRUE]
    <2>1. AgentInv(b)
      <3> HIDE DEF n
      <3>1. /\ DOMAIN b = AgentFields /\ b.status = n.status /\ b.ex = n.ex
            /\ b.active = n.active /\ b.goal = n.goal /\ b.cached = n.cached
            /\ b.job = n.job /\ b.threw = n.threw
        BY <1>2 DEF AgentFields
      <3> HIDE DEF b
      <3> QED
        BY <1>2, <3>1, OtherFields
    <2> QED
      BY <1>5, <2>1, CallsKeep DEF MarkWorldDirty
  <1>6. CASE Interrupt
    <2>1. \A c \in AgentInterrupt(n) : AgentInv(c)
      BY <1>2, HaltKeeps DEF AgentInterrupt, Busy
    <2> QED
      BY <1>6, <2>1, CallsKeep DEF Interrupt
  <1>7. CASE Resume
    <2>1. AgentInv(AgentResume(n))
      <3> HIDE DEF n
      <3>1. CASE n.status = "Interrupted"
        <4>1. Rests(n)
          BY <1>2, <3>1, IdleRests DEF Busy
        <4>2. Rests(TransitionTo(n, "Idle")) /\ TransitionTo(n, "Idle").status \notin Busy
          BY <4>1 DEF Rests, Shaped, TransitionTo, AgentFields, Busy
        <4> QED
          BY <3>1, <4>2, AtRest DEF AgentResume
      <3>2. CASE n.status # "Interrupted"
        BY <1>2, <3>2 DEF AgentResume
      <3> QED
        BY <3>1, <3>2
    <2> QED
      BY <1>7, <2>1, CallsKeep DEF Resume
  <1>8. CASE ForceReplan
    <2>1. \A c \in AgentForceReplan(n) : AgentInv(c)
      <3> HIDE DEF n
      <3> QED
        BY <1>2, <1>3, ForceReplanKeeps
    <2> QED
      BY <1>8, <2>1, CallsKeep DEF ForceReplan
  <1> QED
    BY <1>4, <1>5, <1>6, <1>7, <1>8

\* Changes of the registered motives, actions and heuristic.
LEMMA RegistryKeeps == GameInv /\ Registry => GameInv'
  <1> SUFFICES ASSUME GameInv, Registry PROVE GameInv'
    OBVIOUS
  <1> DEFINE n == Now
  <1>1. AgentInv(n) /\ Shaped(n) /\ DOMAIN n = AgentFields
    BY NowKeeps DEF GameInv, AgentInv, Shaped
  <1> HIDE DEF n
  <1>2. ASSUME NEW q PROVE AgentInv([n EXCEPT !.priority = q])
    <2> DEFINE b == [n EXCEPT !.priority = q]
    <2>1. /\ DOMAIN b = AgentFields /\ b.status = n.status /\ b.ex = n.ex
          /\ b.active = n.active /\ b.goal = n.goal /\ b.cached = n.cached
          /\ b.job = n.job /\ b.threw = n.threw
      BY <1>1 DEF AgentFields
    <2> HIDE DEF b
    <2>2. AgentInv(b)
      BY <1>1, <2>1, OtherFields
    <2> QED
      BY <2>2 DEF b
  <1>3. ASSUME NEW q PROVE AgentInv([n EXCEPT !.motives = q])
    <2> DEFINE b == [n EXCEPT !.motives = q]
    <2>1. /\ DOMAIN b = AgentFields /\ b.status = n.status /\ b.ex = n.ex
          /\ b.active = n.active /\ b.goal = n.goal /\ b.cached = n.cached
          /\ b.job = n.job /\ b.threw = n.threw
      BY <1>1 DEF AgentFields
    <2> HIDE DEF b
    <2>2. AgentInv(b)
      BY <1>1, <2>1, OtherFields
    <2> QED
      BY <2>2 DEF b
  <1>4. ASSUME NEW q PROVE AgentInv([n EXCEPT !.actions = q])
    <2> DEFINE b == [n EXCEPT !.actions = q]
    <2>1. /\ DOMAIN b = AgentFields /\ b.status = n.status /\ b.ex = n.ex
          /\ b.active = n.active /\ b.goal = n.goal /\ b.cached = n.cached
          /\ b.job = n.job /\ b.threw = n.threw
      BY <1>1 DEF AgentFields
    <2> HIDE DEF b
    <2>2. AgentInv(b)
      BY <1>1, <2>1, OtherFields
    <2> QED
      BY <2>2 DEF b
  <1>5. ASSUME NEW q PROVE AgentInv([n EXCEPT !.hasHeuristic = q])
    <2> DEFINE b == [n EXCEPT !.hasHeuristic = q]
    <2>1. /\ DOMAIN b = AgentFields /\ b.status = n.status /\ b.ex = n.ex
          /\ b.active = n.active /\ b.goal = n.goal /\ b.cached = n.cached
          /\ b.job = n.job /\ b.threw = n.threw
      BY <1>1 DEF AgentFields
    <2> HIDE DEF b
    <2>2. AgentInv(b)
      BY <1>1, <2>1, OtherFields
    <2> QED
      BY <2>2 DEF b
  <1>6. ASSUME NEW name, NEW c \in AgentSatisfyMotive(n, name) PROVE AgentInv(c)
    <2> DEFINE q == Satisfy(n.motives, n.priority, name)
               b == [n EXCEPT !.priority = q]
    <2>1. b = [n EXCEPT !.priority = Satisfy(n.motives, @, name)]
      BY <1>1 DEF AgentFields
    <2> HIDE DEF q
    <2>2. AgentInv(b)
      BY <1>2
    <2>3. c = b \/ c \in Halt([b EXCEPT !.active = NoMotive], "Idle")
      BY <1>6, <2>1 DEF AgentSatisfyMotive
    <2> HIDE DEF b
    <2>4. Shaped([b EXCEPT !.active = NoMotive])
      BY <2>2 DEF AgentInv, Shaped, AgentFields
    <2> QED
      BY <2>2, <2>3, <2>4, HaltKeeps DEF Busy
  <1>7. ~polling /\ ~polling' /\ AgentInv(agent')
    <2>1. CASE SatisfyMotive
      BY <1>6, <2>1 DEF SatisfyMotive, Calls, n
    <2>2. CASE SetMotivePriority
      <3>1. PICK q : agent' = [n EXCEPT !.priority = q]
        <4>1. PICK m \in Motive, p \in Priorities :
                  agent' = [Now EXCEPT
                      !.priority = SetPriorityByName(agent.motives, @, NameOf[m], p)]
          BY <2>2 DEF SetMotivePriority, Calls
        <4> QED
          BY <1>1, <4>1 DEF n, AgentFields
      <3> QED
        BY <1>2, <2>2, <3>1 DEF SetMotivePriority, Calls
    <2>3. CASE NewMotive \/ DropMotive \/ ClearMotives
      <3>1. \E q : ~polling /\ ~polling' /\ agent' = [n EXCEPT !.motives = q]
        <4>1. CASE NewMotive
          <5>1. PICK m \in Motive : Calls({[n EXCEPT !.motives = AddMotive(@, m)]})
            BY <4>1 DEF NewMotive, n
          <5> QED
            BY <1>1, <5>1 DEF Calls, AgentFields
        <4>2. CASE DropMotive
          <5>1. PICK m \in Motive : Calls({[n EXCEPT !.motives = RemoveMotive(@, m)]})
            BY <4>2 DEF DropMotive, n
          <5> QED
            BY <1>1, <5>1 DEF Calls, AgentFields
        <4>3. CASE ClearMotives
          BY <1>1, <4>3 DEF ClearMotives, Calls, n
        <4> QED
          BY <2>3, <4>1, <4>2, <4>3
      <3> QED
        BY <1>3, <3>1
    <2>4. CASE NewAction \/ DropAction \/ ClearActions
      <3>1. \E q : ~polling /\ ~polling' /\ agent' = [n EXCEPT !.actions = q]
        <4>1. CASE NewAction
          <5>1. PICK x \in Action : Calls({[n EXCEPT !.actions = @ \cup {x}]})
            BY <4>1 DEF NewAction, n
          <5> QED
            BY <1>1, <5>1 DEF Calls, AgentFields
        <4>2. CASE DropAction
          <5>1. PICK x \in Action : Calls({[n EXCEPT !.actions = @ \ {x}]})
            BY <4>2 DEF DropAction, n
          <5> QED
            BY <1>1, <5>1 DEF Calls, AgentFields
        <4>3. CASE ClearActions
          BY <1>1, <4>3 DEF ClearActions, Calls, n
        <4> QED
          BY <2>4, <4>1, <4>2, <4>3
      <3> QED
        BY <1>4, <3>1
    <2>5. CASE SetHeuristic
      <3>1. PICK given \in BOOLEAN : Calls({[n EXCEPT !.hasHeuristic = given]})
        BY <2>5 DEF SetHeuristic, n
      <3> QED
        BY <1>5, <3>1 DEF Calls
    <2> QED
      BY <2>1, <2>2, <2>3, <2>4, <2>5 DEF Registry
  <1> QED
    BY <1>7 DEF GameInv

\* The searching thread.
LEMMA WorkerKeeps == GameInv /\ Worker => GameInv'
  <1> SUFFICES ASSUME GameInv, Worker PROVE GameInv'
    OBVIOUS
  <1> DEFINE n == Now
  <1>1. /\ AgentInv(n) /\ n.status = agent.status /\ n.job = agent.job
    BY NowKeeps DEF GameInv
  <1> HIDE DEF n
  <1>2. CASE SearchEnds
    <2> DEFINE b == [n EXCEPT !.job.state = "cleared"]
    <2>1. agent' = b /\ polling' = polling /\ agent.job.state = "searching"
      BY <1>2 DEF SearchEnds, n
    <2>2. ~polling
      BY <2>1 DEF GameInv, PollInv
    <2>3. /\ DOMAIN b = AgentFields /\ b.status = n.status /\ b.ex = n.ex
          /\ b.active = n.active /\ b.goal = n.goal /\ b.cached = n.cached
          /\ DOMAIN b.job = JobFields /\ b.job.state = "cleared" /\ b.job.goal = n.job.goal
          /\ b.threw = n.threw
      BY <1>1 DEF AgentInv, Shaped, AgentFields, JobFields
    <2> HIDE DEF b
    <2>4. AgentInv(b)
      BY <1>1, <2>1, <2>3 DEF AgentInv, Shaped, Answerable, Reporting
    <2> QED
      BY <2>1, <2>2, <2>4 DEF GameInv
  <1>3. CASE Callback
    <2>1. agent' = Deliver(n) /\ polling' = polling /\ n.job.state \in Reporting
      BY <1>1, <1>3 DEF Callback, Reporting, n
    <2>2. /\ AgentInv(agent') /\ agent'.job.state = "done" /\ agent'.job.answer = n.job.answer
          /\ agent'.active # NoMotive /\ agent'.job.goal = agent'.goal
          /\ agent'.status = "Executing" => Good(n.job.answer)
      BY <1>1, <2>1, DeliverKeeps
    <2> QED
      BY <2>2 DEF GameInv, PollInv
  <1> QED
    BY <1>2, <1>3 DEF Worker

\* The inductive step.
LEMMA GameStep == GameInv /\ [Next]_vars => GameInv'
  <1> SUFFICES ASSUME GameInv, [Next]_vars PROVE GameInv'
    OBVIOUS
  <1>1. CASE UNCHANGED vars
    BY <1>1 DEF vars, GameInv
  <1> QED
    BY <1>1, TickKeeps, GameKeeps, RegistryKeeps, WorkerKeeps DEF Next, Game

\* The invariant holds in every behaviour.
LEMMA GameHolds == Spec => []GameInv
  BY InitGame, GameStep, PTL DEF Spec

\* The status tells what the agent is doing, for all actions, plans, motives and
\* worlds: no search and no plan is orphaned by an interrupt, a satisfied motive, a
\* replan or a late callback (goap_agent.cpp:130-158, 360-400).  A busy agent that
\* threw because its heuristic was taken away (goap_agent.cpp:136, 351-354) has
\* neither search nor plan, until its status is set again.
THEOREM StatusTellsActivity == Spec => []StatusIsActivity
  <1>1. GameInv => StatusIsActivity
    BY DEF GameInv, AgentInv, Reporting, StatusIsActivity
  <1> QED
    BY <1>1, GameHolds, PTL

\* A search, its plan and the agent's books are about one goal (goap_agent.cpp:188),
\* although the goal is read when the answer arrives.  Of an agent that threw for
\* want of a heuristic (goap_agent.cpp:136) it is the books alone.
THEOREM GoalIsOne == Spec => []OneGoal
  <1>1. GameInv => OneGoal
    BY DEF GameInv, AgentInv, PollInv, Shaped, Busy, OneGoal
  <1> QED
    BY <1>1, GameHolds, PTL

\* get_current_action names no action outside of execution (goap_agent.cpp:378-382).
THEOREM CurrentActionIsExecuted == Spec => []NoActionOutsideExecution
  <1>1. GameInv => NoActionOutsideExecution
    BY DEF GameInv, AgentInv, NoActionOutsideExecution, CurrentAction
  <1> QED
    BY <1>1, GameHolds, PTL

-----------------------------------------------------------------------------
(* The count of failures *)

\* An agent that plans synchronously has no job, and has searched for every failure.
Counted(a) ==
    /\ a.config.synchronousPlanning /\ a.config.maxConsecutiveFailures \in Nat
    /\ a.job.state = "none"
    /\ a.failures \in Nat /\ a.searches \in Nat /\ a.failures <= a.searches

\* A method makes b of a: the configuration stays, and so does the count.
Keeps(a, b) ==
    /\ DOMAIN b = AgentFields /\ b.config = a.config
    /\ Counted(a) => Counted(b)

\* Other fields have no part in the count.
LEMMA CountUntouched ==
    ASSUME NEW a, NEW b, DOMAIN b = AgentFields, b.config = a.config, b.job = a.job,
           b.failures = a.failures, b.searches = a.searches
    PROVE  Keeps(a, b)
  BY DEF Keeps, Counted

\* One method after another.
LEMMA KeepsChains ==
    ASSUME NEW a, NEW b, NEW c, Keeps(a, b), Keeps(b, c)
    PROVE  Keeps(a, c)
  BY DEF Keeps

\* on_plan_received().
LEMMA OnPlanConfig ==
    ASSUME NEW a, DOMAIN a = AgentFields, NEW r
    PROVE  /\ DOMAIN OnPlanReceived(a, r) = AgentFields
           /\ OnPlanReceived(a, r).config = a.config
  BY DEF OnPlanReceived, PlanFailure, TransitionTo, AgentFields

\* kick_off_planning(): the search that fails is counted before its failure.
LEMMA KickOffCounts ==
    ASSUME NEW a, DOMAIN a = AgentFields, NEW b \in KickOff(a)
    PROVE  Keeps(a, b)
  <1> DEFINE p == [TransitionTo(a, "Planning") EXCEPT
                     !.searches = Capped(@, a.config.maxConsecutiveFailures)]
             e == [a EXCEPT !.threw = a.status \in {"Planning", "Executing"}]
  <1>1. CASE b = e
    <2>1. /\ DOMAIN b = AgentFields /\ b.config = a.config /\ b.job = a.job
          /\ b.failures = a.failures /\ b.searches = a.searches
      BY <1>1 DEF AgentFields
    <2> QED
      BY <2>1, CountUntouched
  <1>2. /\ DOMAIN p = AgentFields /\ p.config = a.config /\ p.job = a.job
        /\ p.failures = a.failures
        /\ p.searches = Capped(a.searches, a.config.maxConsecutiveFailures)
    BY DEF TransitionTo, AgentFields
  <1>3. \/ b = e
        \/ a.config.synchronousPlanning /\ \E r \in Answers(p) : b = OnPlanReceived(p, r)
        \/ /\ ~a.config.synchronousPlanning
           /\ \E r \in Answers(p) :
                 b = [p EXCEPT !.job = [state |-> "searching", answer |-> r, goal |-> p.goal]]
    <2>1. b \in (IF ~a.hasHeuristic THEN {e}
                 ELSE IF a.config.synchronousPlanning THEN {OnPlanReceived(p, r) : r \in Answers(p)}
                 ELSE {[p EXCEPT !.job = [state |-> "searching", answer |-> r, goal |-> p.goal]] :
                          r \in Answers(p)})
      BY DEF KickOff
    <2> HIDE DEF p, e
    <2> QED
      BY <2>1
  <1> HIDE DEF p, e
  <1>4. ASSUME NEW r, b = OnPlanReceived(p, r) PROVE Keeps(a, b)
    <2>1. DOMAIN b = AgentFields /\ b.config = a.config
      BY <1>2, <1>4, OnPlanConfig
    <2>2. ASSUME Counted(a) PROVE Counted(b)
      <3> DEFINE max == a.config.maxConsecutiveFailures
      <3>1. /\ max \in Nat /\ a.failures \in Nat /\ a.searches \in Nat
            /\ a.failures <= a.searches /\ a.job.state = "none"
        BY <2>2 DEF Counted
      <3>2. CASE Good(r) \/ a.failures + 1 >= max
        <4>1. b.failures = 0 /\ b.searches = 0 /\ b.job = p.job
          BY <1>2, <1>4, <3>2 DEF OnPlanReceived, Good, PlanFailure, TransitionTo, AgentFields
        <4> QED
          BY <1>2, <2>1, <2>2, <4>1 DEF Counted
      <3>3. CASE ~Good(r) /\ ~(a.failures + 1 >= max)
        <4>1. b.failures = a.failures + 1 /\ b.searches = p.searches /\ b.job = p.job
          BY <1>2, <1>4, <3>3 DEF OnPlanReceived, Good, PlanFailure, TransitionTo, AgentFields
        <4>2. p.searches \in Nat /\ a.failures + 1 <= p.searches
          <5>1. p.searches = IF a.searches < max THEN a.searches + 1 ELSE max
            BY <1>2 DEF Capped
          <5> HIDE DEF max
          <5> QED
            BY <3>1, <3>3, <5>1
        <4>3. a.failures + 1 \in Nat
          BY <3>1
        <4> QED
          BY <1>2, <2>1, <2>2, <4>1, <4>2, <4>3 DEF Counted
      <3> QED
        BY <3>2, <3>3
    <2> QED
      BY <2>1, <2>2 DEF Keeps
  <1>5. ASSUME ~a.config.synchronousPlanning, NEW j, b = [p EXCEPT !.job = j] PROVE Keeps(a, b)
    BY <1>2, <1>5 DEF Keeps, Counted, AgentFields
  <1> QED
    BY <1>1, <1>3, <1>4, <1>5

\* cancel_planning(): without a job there is nothing to cancel.
LEMMA CancelCounts ==
    ASSUME NEW a, DOMAIN a = AgentFields, NEW b \in CancelPlanning(a)
    PROVE  Keeps(a, b)
  <1> DEFINE d == [a EXCEPT !.job.state = "done"]
             c == [d EXCEPT !.job.answer = NoPlan]
  <1>1. DOMAIN d = AgentFields /\ d.config = a.config
    BY DEF AgentFields
  <1>2. DOMAIN c = AgentFields /\ c.config = a.config
    BY DEF AgentFields
  <1>3. Deliver(a) = OnPlanReceived(d, a.job.answer)
    BY DEF Deliver
  <1>4. \/ a.job.state # "none" /\ b \in {d, c, Deliver(a)}
        \/ b = a
    BY DEF CancelPlanning
  <1> HIDE DEF d, c
  <1>5. DOMAIN Deliver(a) = AgentFields /\ Deliver(a).config = a.config
    BY <1>1, <1>3, OnPlanConfig
  <1> QED
    BY <1>1, <1>2, <1>4, <1>5 DEF Keeps, Counted

\* interrupt(), satisfy_motive() of the active motive.
LEMMA HaltCounts ==
    ASSUME NEW a, DOMAIN a = AgentFields, NEW s, NEW c \in Halt(a, s)
    PROVE  Keeps(a, c)
  <1>1. PICK b \in CancelPlanning(a) :
            c = TransitionTo([b EXCEPT !.ex = ExInterrupt(@), !.cached = NoAction], s)
    BY DEF Halt
  <1>2. Keeps(a, b)
    BY CancelCounts
  <1>3. /\ DOMAIN c = AgentFields /\ c.config = b.config /\ c.job = b.job
        /\ c.failures = b.failures /\ c.searches = b.searches
    BY <1>1, <1>2 DEF Keeps, TransitionTo, AgentFields
  <1> QED
    BY <1>2, <1>3, CountUntouched, KeepsChains

\* A goal is adopted and planned for.
LEMMA SelectCounts ==
    ASSUME NEW a, DOMAIN a = AgentFields, NEW b \in SelectAndPlan(a)
    PROVE  Keeps(a, b)
  <1> DEFINE d == Adopt(a, Candidate(a))
  <1>1. b \in KickOff(d)
    BY DEF SelectAndPlan
  <1>2. /\ DOMAIN d = AgentFields /\ d.config = a.config /\ d.job = a.job
        /\ d.failures = a.failures /\ d.searches = a.searches
    BY DEF Adopt, AgentFields
  <1> HIDE DEF d
  <1> QED
    BY <1>1, <1>2, KickOffCounts, CountUntouched, KeepsChains

\* A change of the status is none of the count.
LEMMA TransitionCounts ==
    ASSUME NEW a, DOMAIN a = AgentFields, NEW s
    PROVE  Keeps(a, TransitionTo(a, s))
  <1>1. LET b == TransitionTo(a, s)
        IN  /\ DOMAIN b = AgentFields /\ b.config = a.config /\ b.job = a.job
            /\ b.failures = a.failures /\ b.searches = a.searches
    BY DEF TransitionTo, AgentFields
  <1> QED
    BY <1>1, CountUntouched

\* force_replan().
LEMMA ForceReplanCounts ==
    ASSUME NEW a, DOMAIN a = AgentFields, NEW d \in AgentForceReplan(a)
    PROVE  Keeps(a, d)
  <1>1. PICK c \in CancelPlanning(a) : \E b \in {[c EXCEPT !.ex = ExReset(@), !.cached = NoAction]} :
            d \in IF MaySelect(b) THEN SelectAndPlan(b) ELSE {TransitionTo(b, "Idle")}
    BY DEF AgentForceReplan
  <1> DEFINE b == [c EXCEPT !.ex = ExReset(@), !.cached = NoAction]
  <1>2. Keeps(a, c)
    BY CancelCounts
  <1>3. /\ DOMAIN b = AgentFields /\ b.config = c.config /\ b.job = c.job
        /\ b.failures = c.failures /\ b.searches = c.searches
    BY <1>2 DEF Keeps, AgentFields
  <1>4. d \in SelectAndPlan(b) \/ d = TransitionTo(b, "Idle")
    BY <1>1
  <1> HIDE DEF b
  <1>5. Keeps(b, d)
    BY <1>3, <1>4, SelectCounts, TransitionCounts
  <1> QED
    BY <1>2, <1>3, <1>5, CountUntouched, KeepsChains

\* A motive is retired.
LEMMA RetireCounts ==
    ASSUME NEW a, DOMAIN a = AgentFields, NEW m
    PROVE  Keeps(a, RetireGoal(a, m))
  <1> DEFINE q == Satisfy(a.motives, a.priority, NameOf[m])
             b == TransitionTo([a EXCEPT !.priority = q, !.active = NoMotive], "Idle")
  <1>1. RetireGoal(a, m) = b
    BY DEF RetireGoal, AgentFields
  <1> HIDE DEF q
  <1>2. /\ DOMAIN b = AgentFields /\ b.config = a.config /\ b.job = a.job
        /\ b.failures = a.failures /\ b.searches = a.searches
    BY DEF TransitionTo, AgentFields
  <1> HIDE DEF b
  <1> QED
    BY <1>1, <1>2, CountUntouched

\* phase_idle().
LEMMA PhaseIdleCounts ==
    ASSUME NEW a, DOMAIN a = AgentFields, NEW c \in PhaseIdle(a)
    PROVE  Keeps(a, c)
  <1> DEFINE wanted == Wanted(a.motives, a.priority)
             met == {i \in wanted : IsSatisfied(a.motives[i], a.world)}
             x == IF a.status = "NoMotives" THEN TransitionTo(a, "Idle") ELSE a
             b == [x EXCEPT !.dirty = IF met = {} THEN FALSE ELSE @]
  <1>1. \/ c = a
        \/ c = TransitionTo(a, "NoMotives")
        \/ c = b
        \/ \E m : c = RetireGoal(b, m)
        \/ c \in KickOff(b)
        \/ c \in SelectAndPlan(b)
    BY DEF PhaseIdle
  <1>2. /\ DOMAIN b = AgentFields /\ b.config = a.config /\ b.job = a.job
        /\ b.failures = a.failures /\ b.searches = a.searches
    BY DEF TransitionTo, AgentFields
  <1> HIDE DEF b
  <1>3. Keeps(a, b)
    BY <1>2, CountUntouched
  <1>4. c = a => Keeps(a, c)
    BY DEF Keeps
  <1>5. CASE c = b \/ (\E m : c = RetireGoal(b, m)) \/ c \in KickOff(b) \/ c \in SelectAndPlan(b)
    <2>1. c = b \/ Keeps(b, c)
      BY <1>2, <1>5, RetireCounts, KickOffCounts, SelectCounts
    <2> QED
      BY <1>3, <2>1, KeepsChains
  <1> QED
    BY <1>1, <1>4, <1>5, TransitionCounts

\* phase_executing().
LEMMA PhaseExecutingCounts ==
    ASSUME NEW before, DOMAIN before = AgentFields, NEW c \in PhaseExecuting(before)
    PROVE  Keeps(before, c)
  <1> DEFINE a == [before EXCEPT !.dirty = FALSE]
             m == Candidate(a)
  <1>1. /\ DOMAIN a = AgentFields /\ a.config = before.config /\ a.job = before.job
        /\ a.failures = before.failures /\ a.searches = before.searches
    BY DEF AgentFields
  <1>2. \/ \E b \in CancelPlanning([a EXCEPT !.ex = ExInterrupt(@)]) :
              c \in KickOff(Adopt([b EXCEPT !.cached = NoAction], m))
        \/ c = RetireGoal([a EXCEPT !.ex = ExInterrupt(@), !.cached = NoAction], a.active)
        \/ \E o \in ExTick(a.ex, a.world) :
              c \in HandleExecutionResult([a EXCEPT !.ex = o.ex, !.world = o.world],
                                          o.status, o.index)
    BY DEF PhaseExecuting
  <1> HIDE DEF a, m
  <1>3. Keeps(before, a)
    BY <1>1, CountUntouched
  <1>4. ASSUME NEW b \in CancelPlanning([a EXCEPT !.ex = ExInterrupt(@)]),
               c \in KickOff(Adopt([b EXCEPT !.cached = NoAction], m))
        PROVE  Keeps(a, c)
    <2> DEFINE x == [a EXCEPT !.ex = ExInterrupt(@)]
               d == Adopt([b EXCEPT !.cached = NoAction], m)
    <2>1. /\ DOMAIN x = AgentFields /\ x.config = a.config /\ x.job = a.job
          /\ x.failures = a.failures /\ x.searches = a.searches
      BY <1>1 DEF AgentFields
    <2>2. b \in CancelPlanning(x)
      BY <1>4
    <2> HIDE DEF x
    <2>3. Keeps(a, x) /\ Keeps(x, b)
      BY <2>1, <2>2, CountUntouched, CancelCounts
    <2>4. /\ DOMAIN d = AgentFields /\ d.config = b.config /\ d.job = b.job
          /\ d.failures = b.failures /\ d.searches = b.searches
      BY <2>3 DEF Keeps, Adopt, AgentFields
    <2>5. c \in KickOff(d)
      BY <1>4
    <2> HIDE DEF d
    <2>6. Keeps(b, d) /\ Keeps(d, c)
      BY <2>4, <2>5, CountUntouched, KickOffCounts
    <2>7. Keeps(a, b) /\ Keeps(b, c)
      BY <2>3, <2>6, KeepsChains
    <2> QED
      BY <2>7, KeepsChains
  <1>5. ASSUME c = RetireGoal([a EXCEPT !.ex = ExInterrupt(@), !.cached = NoAction], a.active)
        PROVE  Keeps(a, c)
    <2> DEFINE x == [a EXCEPT !.ex = ExInterrupt(@), !.cached = NoAction]
    <2>1. /\ DOMAIN x = AgentFields /\ x.config = a.config /\ x.job = a.job
          /\ x.failures = a.failures /\ x.searches = a.searches
      BY <1>1 DEF AgentFields
    <2>2. c = RetireGoal(x, a.active)
      BY <1>5
    <2> HIDE DEF x
    <2>3. Keeps(a, x) /\ Keeps(x, c)
      BY <2>1, <2>2, CountUntouched, RetireCounts
    <2> QED
      BY <2>3, KeepsChains
  <1>6. ASSUME NEW o \in ExTick(a.ex, a.world),
               c \in HandleExecutionResult([a EXCEPT !.ex = o.ex, !.world = o.world],
                                           o.status, o.index)
        PROVE  Keeps(a, c)
    <2> DEFINE x == [a EXCEPT !.ex = o.ex, !.world = o.world]
               n == IF o.index > 0 THEN o.index - 1 ELSE 0
               y == TransitionTo([Report(x, n) EXCEPT !.cached = NoAction], "Idle")
               z == TransitionTo([x EXCEPT !.cached = NoAction], "Idle")
    <2>1. /\ DOMAIN x = AgentFields /\ x.config = a.config /\ x.job = a.job
          /\ x.failures = a.failures /\ x.searches = a.searches
      BY <1>1 DEF AgentFields
    <2>2. c \in HandleExecutionResult(x, o.status, o.index)
      BY <1>6
    <2> HIDE DEF x
    <2>3. \/ c \in {x, y, z, StillRunning(x, o.index)}
          \/ c \in AgentForceReplan(x)
      BY <2>2 DEF HandleExecutionResult
    <2> HIDE DEF n
    <2>4. CASE c \in {x, y, z, StillRunning(x, o.index)}
      <3>1. /\ DOMAIN c = AgentFields /\ c.config = x.config /\ c.job = x.job
            /\ c.failures = x.failures /\ c.searches = x.searches
        BY <2>1, <2>4 DEF StillRunning, Report, TransitionTo, AgentFields
      <3> QED
        BY <2>1, <3>1, CountUntouched
    <2>5. CASE c \in AgentForceReplan(x)
      <3>1. Keeps(a, x) /\ Keeps(x, c)
        BY <2>1, <2>5, CountUntouched, ForceReplanCounts
      <3> QED
        BY <3>1, KeepsChains
    <2> QED
      BY <2>3, <2>4, <2>5
  <1>7. Keeps(a, c)
    BY <1>2, <1>4, <1>5, <1>6
  <1> QED
    BY <1>3, <1>7, KeepsChains

\* The inductive invariant: the game of an agent that plans synchronously never
\* comes to poll.
CountInv == agent.config.synchronousPlanning => Counted(agent) /\ ~polling

\* A new agent has counted nothing.
LEMMA InitCounts == Init => CountInv
  <1> SUFFICES ASSUME Init PROVE CountInv
    OBVIOUS
  <1>1. PICK c \in Config : agent.config = c
    BY DEF Init
  <1>2. c.maxConsecutiveFailures \in Nat
    BY <1>1, ConfigAssumption
  <1>3. /\ agent.job = NoJob /\ agent.failures = 0 /\ agent.searches = 0 /\ ~polling
    BY DEF Init
  <1> QED
    BY <1>1, <1>2, <1>3 DEF CountInv, Counted, NoJob

\* What was told in the last step is not counted, nor are ticks.
LEMMA NowCounts ==
    ASSUME DOMAIN agent = AgentFields
    PROVE  Keeps(agent, Now) /\ Keeps(agent, Ticked) /\ Now.job = agent.job
  <1>1. /\ DOMAIN Now = AgentFields /\ Now.config = agent.config /\ Now.job = agent.job
        /\ Now.failures = agent.failures /\ Now.searches = agent.searches
    BY DEF Now, AgentFields
  <1>2. /\ DOMAIN Ticked = AgentFields /\ Ticked.config = Now.config /\ Ticked.job = Now.job
        /\ Ticked.failures = Now.failures /\ Ticked.searches = Now.searches
    BY <1>1 DEF Ticked, AgentFields
  <1>3. Keeps(agent, Now) /\ Keeps(Now, Ticked)
    BY <1>1, <1>2, CountUntouched
  <1> QED
    BY <1>1, <1>3, KeepsChains

\* A method that keeps the count.
LEMMA CallsCount ==
    ASSUME CountInv, NEW outcomes, Calls(outcomes), \A a \in outcomes : Keeps(agent, a)
    PROVE  CountInv'
  BY DEF Calls, Keeps, CountInv

\* A tick.  What finds a search to report is not synchronous.
LEMMA TickCounts == GameInv /\ CountInv /\ Tick => CountInv'
  <1> SUFFICES ASSUME GameInv, CountInv, Tick PROVE CountInv'
    OBVIOUS
  <1>1. /\ DOMAIN agent = AgentFields
        /\ agent.status = "Planning" => agent.job.state # "none"
    BY DEF GameInv, AgentInv, Shaped, Answerable
  <1>2. Keeps(agent, Now) /\ Keeps(agent, Ticked)
    BY <1>1, NowCounts
  <1>3. DOMAIN Ticked = AgentFields
    BY <1>2 DEF Keeps
  <1>4. CASE TickIdle
    <2>1. \A c \in PhaseIdle(Ticked) : Keeps(agent, c)
      BY <1>2, <1>3, PhaseIdleCounts, KeepsChains
    <2> QED
      BY <1>4, <2>1, CallsCount DEF TickIdle
  <1>5. CASE TickExecuting
    <2>1. \A c \in PhaseExecuting(Ticked) : Keeps(agent, c)
      BY <1>2, <1>3, PhaseExecutingCounts, KeepsChains
    <2> QED
      BY <1>5, <2>1, CallsCount DEF TickExecuting
  <1>6. CASE TickPlanning
    <2>1. agent' = Ticked /\ agent.job.state # "none"
      BY <1>1, <1>6 DEF TickPlanning
    <2> QED
      BY <1>2, <2>1 DEF CountInv, Counted, Keeps
  <1>7. CASE Poll
    <2> DEFINE d == [Now EXCEPT !.job.state = "none"]
    <2>1. polling /\ (agent' = OnPlanReceived(d, agent.job.answer) \/ agent' = Now)
      BY <1>7 DEF Poll
    <2>2. DOMAIN d = AgentFields /\ d.config = agent.config
      BY <1>2 DEF Keeps, AgentFields
    <2> HIDE DEF d
    <2>3. agent'.config = agent.config
      BY <1>2, <2>1, <2>2, OnPlanConfig DEF Keeps
    <2> QED
      BY <2>1, <2>3 DEF CountInv
  <1>8. CASE TickInterrupted
    BY <1>2, <1>8, CallsCount DEF TickInterrupted
  <1> QED
    BY <1>4, <1>5, <1>6, <1>7, <1>8 DEF Tick

\* A method of an agent n that keeps its count.
LEMMA FieldsCount ==
    ASSUME NEW n, DOMAIN n = AgentFields
    PROVE  /\ \A w, v : Keeps(n, [n EXCEPT !.world = w, !.dirty = v])
           /\ \A v : Keeps(n, [n EXCEPT !.dirty = v])
           /\ \A q : Keeps(n, [n EXCEPT !.priority = q])
           /\ \A q : Keeps(n, [n EXCEPT !.motives = q])
           /\ \A q : Keeps(n, [n EXCEPT !.actions = q])
           /\ \A v : Keeps(n, [n EXCEPT !.hasHeuristic = v])
           /\ \A m : Keeps(n, [n EXCEPT !.active = m])
           /\ \A e, x : Keeps(n, [n EXCEPT !.ex = e, !.cached = x])
  BY DEF Keeps, Counted, AgentFields

\* What else the game does while it plays.
LEMMA GameCounts ==
    GameInv /\ CountInv /\ (WriteWorld \/ MarkWorldDirty \/ Interrupt \/ Resume \/ ForceReplan)
        => CountInv'
  <1> SUFFICES ASSUME GameInv, CountInv,
                      WriteWorld \/ MarkWorldDirty \/ Interrupt \/ Resume \/ ForceReplan
               PROVE  CountInv'
    OBVIOUS
  <1> DEFINE n == Now
  <1>1. Keeps(agent, n)
    BY NowCounts DEF GameInv, AgentInv, Shaped
  <1>2. DOMAIN n = AgentFields
    BY <1>1 DEF Keeps
  <1>3. CASE WriteWorld
    <2>1. PICK d \in Write, marks \in BOOLEAN :
              Calls({[n EXCEPT !.world = w, !.dirty = @ \/ marks] : w \in Written(agent.world, d)})
      BY <1>3 DEF WriteWorld
    <2>2. \A w : Keeps(agent, [n EXCEPT !.world = w, !.dirty = @ \/ marks])
      <3> SUFFICES ASSUME NEW w PROVE Keeps(agent, [n EXCEPT !.world = w, !.dirty = @ \/ marks])
        OBVIOUS
      <3> HIDE DEF n
      <3>1. Keeps(n, [n EXCEPT !.world = w, !.dirty = n.dirty \/ marks])
        BY <1>2, FieldsCount
      <3>2. [n EXCEPT !.world = w, !.dirty = @ \/ marks]
                = [n EXCEPT !.world = w, !.dirty = n.dirty \/ marks]
        BY <1>2 DEF AgentFields
      <3> QED
        BY <1>1, <3>1, <3>2, KeepsChains
    <2> QED
      BY <2>1, <2>2, CallsCount
  <1>4. CASE MarkWorldDirty
    <2>1. Keeps(agent, [n EXCEPT !.dirty = TRUE])
      <3> HIDE DEF n
      <3> QED
        BY <1>1, <1>2, FieldsCount, KeepsChains
    <2> QED
      BY <1>4, <2>1, CallsCount DEF MarkWorldDirty
  <1>5. CASE Interrupt
    <2>1. \A c \in AgentInterrupt(n) : Keeps(agent, c)
      BY <1>1, <1>2, HaltCounts, KeepsChains DEF AgentInterrupt
    <2> QED
      BY <1>5, <2>1, CallsCount DEF Interrupt
  <1>6. CASE Resume
    <2>1. Keeps(agent, AgentResume(n))
      <3> HIDE DEF n
      <3>1. AgentResume(n) = n \/ AgentResume(n) = TransitionTo(n, "Idle")
        BY DEF AgentResume
      <3> QED
        BY <1>1, <1>2, <3>1, TransitionCounts, KeepsChains
    <2> QED
      BY <1>6, <2>1, CallsCount DEF Resume
  <1>7. CASE ForceReplan
    <2>1. \A c \in AgentForceReplan(n) : Keeps(agent, c)
      BY <1>1, <1>2, ForceReplanCounts, KeepsChains
    <2> QED
      BY <1>7, <2>1, CallsCount DEF ForceReplan
  <1> QED
    BY <1>3, <1>4, <1>5, <1>6, <1>7

\* satisfy_motive() of any name.
LEMMA SatisfyCounts ==
    ASSUME NEW a, DOMAIN a = AgentFields, NEW name, NEW c \in AgentSatisfyMotive(a, name)
    PROVE  Keeps(a, c)
  <1> DEFINE q == Satisfy(a.motives, a.priority, name)
             b == [a EXCEPT !.priority = q]
             d == [b EXCEPT !.active = NoMotive]
  <1>1. c = b \/ c \in Halt(d, "Idle")
    BY DEF AgentSatisfyMotive, AgentFields
  <1> HIDE DEF q
  <1>2. Keeps(a, b)
    BY FieldsCount
  <1>3. DOMAIN b = AgentFields
    BY <1>2 DEF Keeps
  <1> HIDE DEF b
  <1>4. Keeps(b, d)
    BY <1>3, FieldsCount
  <1>5. DOMAIN d = AgentFields
    BY <1>4 DEF Keeps
  <1> HIDE DEF d
  <1>6. c \in Halt(d, "Idle") => Keeps(d, c)
    BY <1>5, HaltCounts
  <1> QED
    BY <1>1, <1>2, <1>4, <1>6, KeepsChains

\* Changes of the registered motives, actions and heuristic.
LEMMA RegistryCounts == GameInv /\ CountInv /\ Registry => CountInv'
  <1> SUFFICES ASSUME GameInv, CountInv, Registry PROVE CountInv'
    OBVIOUS
  <1> DEFINE n == Now
  <1>1. Keeps(agent, n)
    BY NowCounts DEF GameInv, AgentInv, Shaped
  <1>2. DOMAIN n = AgentFields
    BY <1>1 DEF Keeps
  <1>3. CASE SatisfyMotive
    <2>1. PICK m \in Motive : Calls(AgentSatisfyMotive(n, NameOf[m]))
      BY <1>3 DEF SatisfyMotive
    <2>2. \A c \in AgentSatisfyMotive(n, NameOf[m]) : Keeps(agent, c)
      BY <1>1, <1>2, SatisfyCounts, KeepsChains
    <2> QED
      BY <2>1, <2>2, CallsCount
  <1>4. CASE SetMotivePriority
    <2>1. PICK m \in Motive, p \in Priorities :
              Calls({[n EXCEPT !.priority = SetPriorityByName(agent.motives, @, NameOf[m], p)]})
      BY <1>4 DEF SetMotivePriority
    <2>2. Keeps(n, [n EXCEPT !.priority = SetPriorityByName(agent.motives, @, NameOf[m], p)])
      <3> HIDE DEF n
      <3> DEFINE q == SetPriorityByName(agent.motives, n.priority, NameOf[m], p)
      <3>1. [n EXCEPT !.priority = SetPriorityByName(agent.motives, @, NameOf[m], p)]
                = [n EXCEPT !.priority = q]
        BY <1>2 DEF AgentFields
      <3> HIDE DEF q
      <3> QED
        BY <1>2, <3>1, FieldsCount
    <2> HIDE DEF n
    <2> QED
      BY <1>1, <2>1, <2>2, KeepsChains, CallsCount
  <1>5. CASE NewMotive \/ DropMotive \/ ClearMotives
    <2>1. \E q : Calls({[n EXCEPT !.motives = q]})
      <3>1. CASE NewMotive
        <4>1. PICK m \in Motive : Calls({[n EXCEPT !.motives = AddMotive(n.motives, m)]})
          BY <3>1 DEF NewMotive
        <4> QED
          BY <4>1
      <3>2. CASE DropMotive
        <4>1. PICK m \in Motive : Calls({[n EXCEPT !.motives = RemoveMotive(n.motives, m)]})
          BY <3>2 DEF DropMotive
        <4> QED
          BY <4>1
      <3>3. CASE ClearMotives
        BY <3>3 DEF ClearMotives
      <3> QED
        BY <1>5, <3>1, <3>2, <3>3
    <2> HIDE DEF n
    <2>2. PICK q : Calls({[n EXCEPT !.motives = q]})
      BY <2>1
    <2>3. Keeps(n, [n EXCEPT !.motives = q])
      BY <1>2, FieldsCount
    <2> QED
      BY <1>1, <2>2, <2>3, KeepsChains, CallsCount
  <1>6. CASE NewAction \/ DropAction \/ ClearActions
    <2>1. \E q : Calls({[n EXCEPT !.actions = q]})
      <3>1. CASE NewAction
        <4>1. PICK x \in Action : Calls({[n EXCEPT !.actions = n.actions \cup {x}]})
          BY <3>1 DEF NewAction
        <4> QED
          BY <4>1
      <3>2. CASE DropAction
        <4>1. PICK x \in Action : Calls({[n EXCEPT !.actions = n.actions \ {x}]})
          BY <3>2 DEF DropAction
        <4> QED
          BY <4>1
      <3>3. CASE ClearActions
        BY <3>3 DEF ClearActions
      <3> QED
        BY <1>6, <3>1, <3>2, <3>3
    <2> HIDE DEF n
    <2>2. PICK q : Calls({[n EXCEPT !.actions = q]})
      BY <2>1
    <2>3. Keeps(n, [n EXCEPT !.actions = q])
      BY <1>2, FieldsCount
    <2> QED
      BY <1>1, <2>2, <2>3, KeepsChains, CallsCount
  <1>7. CASE SetHeuristic
    <2>1. PICK given \in BOOLEAN : Calls({[n EXCEPT !.hasHeuristic = given]})
      BY <1>7 DEF SetHeuristic
    <2> HIDE DEF n
    <2>2. Keeps(n, [n EXCEPT !.hasHeuristic = given])
      BY <1>2, FieldsCount
    <2> QED
      BY <1>1, <2>1, <2>2, KeepsChains, CallsCount
  <1> QED
    BY <1>3, <1>4, <1>5, <1>6, <1>7 DEF Registry

\* A searching thread is not that of an agent that plans synchronously.
LEMMA WorkerCounts == GameInv /\ CountInv /\ Worker => CountInv'
  <1> SUFFICES ASSUME GameInv, CountInv, Worker PROVE CountInv'
    OBVIOUS
  <1>1. Keeps(agent, Now) /\ Now.job = agent.job
    BY NowCounts DEF GameInv, AgentInv, Shaped
  <1>2. ~agent.config.synchronousPlanning
    BY DEF Worker, SearchEnds, Callback, CountInv, Counted
  <1> DEFINE b == [Now EXCEPT !.job.state = "cleared"]
             d == [Now EXCEPT !.job.state = "done"]
  <1>3. b.config = agent.config
    BY <1>1 DEF Keeps, AgentFields
  <1>4. DOMAIN d = AgentFields /\ d.config = agent.config
    BY <1>1 DEF Keeps, AgentFields
  <1>5. agent' = b \/ agent' = OnPlanReceived(d, Now.job.answer)
    BY DEF Worker, SearchEnds, Callback, Deliver
  <1> HIDE DEF b, d
  <1>6. agent'.config = agent.config
    BY <1>3, <1>4, <1>5, OnPlanConfig
  <1> QED
    BY <1>2, <1>6 DEF CountInv

\* Every failure counted is a search of its own, on the game's own thread, for all
\* actions, motives, utilities and limits: whatever is interrupted or replanned, the
\* synchronous agent turns Idle after as many failed searches as configured
\* (goap_agent.cpp:143-157, 172-187).
THEOREM SyncFailuresCount == Spec => []SyncFailuresAreSearches
  <1>1. GameInv /\ CountInv /\ [Next]_vars => CountInv'
    <2> SUFFICES ASSUME GameInv, CountInv, [Next]_vars PROVE CountInv'
      OBVIOUS
    <2>1. CASE UNCHANGED vars
      BY <2>1 DEF vars, CountInv, Counted
    <2> QED
      BY <2>1, TickCounts, GameCounts, RegistryCounts, WorkerCounts DEF Next, Game
  <1>2. CountInv => SyncFailuresAreSearches
    BY DEF CountInv, Counted, SyncFailuresAreSearches, FailuresAreSearches
  <1> QED
    BY <1>1, <1>2, InitCounts, GameHolds, PTL DEF Spec

-----------------------------------------------------------------------------
(* What becomes of the current action when the agent cancels, interrupts,  *)
(* resets and replaces plans                                               *)

\* Action x was told that it is over.
Told(e, x) ==
    \E i \in DOMAIN e.calls : e.calls[i] \in {"on_end", "on_interrupt"} \X {x}

\* An executor whose fields are of their types, as far as matters here.
Typed(e) ==
    /\ DOMAIN e = ExecutorFields /\ e.index \in Nat /\ \E S : e.calls \in Seq(S)
    /\ e.started => e.action # NoAction

\* set_plan tells a started action that it is over only while the executor is
\* running: an executor is fit for a new plan when no other action is started.
Fit(e) == Typed(e) /\ (e.started => e.status = "Running")

\* Executor e becomes f: an action that was started still is, or was told, and
\* no action is passed over.
Closed(e, f) ==
    e.started => \/ Told(f, e.action)
                 \/ f.started /\ f.index = e.index /\ f.action = e.action

Follows(e, f) ==
    /\ Fit(f) /\ Closed(e, f) /\ f.index \in {e.index, 0}
    /\ \A x : Told(e, x) => Told(f, x)

-----------------------------------------------------------------------------
(* The executor of an agent *)

\* One method after another.
LEMMA FollowsChains ==
    ASSUME NEW e, NEW f, NEW g, Follows(e, f), Follows(f, g)
    PROVE  Follows(e, g)
  <1>1. Closed(e, g)
    BY DEF Follows, Closed
  <1> QED
    BY <1>1 DEF Follows

\* No method at all.
LEMMA FollowsItself ==
    ASSUME NEW e, Fit(e)
    PROVE  Follows(e, e)
  BY DEF Follows, Closed

\* A call of the current action.
LEMMA CallTells ==
    ASSUME NEW e, Typed(e), NEW kind
    PROVE  /\ Typed(Call(e, kind))
           /\ Call(e, kind).index = e.index /\ Call(e, kind).action = e.action
           /\ Call(e, kind).started = e.started
           /\ \A x : Told(e, x) => Told(Call(e, kind), x)
           /\ kind \in {"on_end", "on_interrupt"} => Told(Call(e, kind), e.action)
  <1> DEFINE c == <<kind, e.action>>
             s == Append(e.calls, c)
             f == Call(e, kind)
  <1>1. PICK S : e.calls \in Seq(S)
    BY DEF Typed
  <1>2. e.calls \in Seq(S \cup {c}) /\ c \in S \cup {c}
    BY <1>1
  <1>3. /\ DOMAIN f = ExecutorFields /\ f.calls = s /\ f.index = e.index
        /\ f.action = e.action /\ f.started = e.started
    BY DEF Typed, Call, ExecutorFields
  <1> HIDE DEF c, f
  <1>4. /\ s \in Seq(S \cup {c}) /\ s[Len(e.calls) + 1] = c
        /\ \A i \in 1 .. Len(e.calls) : s[i] = e.calls[i]
        /\ DOMAIN s = 1 .. Len(e.calls) + 1 /\ DOMAIN e.calls = 1 .. Len(e.calls)
        /\ Len(e.calls) \in Nat
    BY <1>2
  <1> HIDE DEF s
  <1>5. Typed(f)
    BY <1>3, <1>4 DEF Typed
  <1>6. \A x : Told(e, x) => Told(f, x)
    <2> SUFFICES ASSUME NEW x, Told(e, x) PROVE Told(f, x)
      OBVIOUS
    <2>1. PICK i \in DOMAIN e.calls : e.calls[i] \in {"on_end", "on_interrupt"} \X {x}
      BY DEF Told
    <2>2. i \in DOMAIN s /\ s[i] = e.calls[i]
      BY <1>4, <2>1
    <2> QED
      BY <1>3, <2>1, <2>2 DEF Told
  <1>7. kind \in {"on_end", "on_interrupt"} => Told(f, e.action)
    <2> SUFFICES ASSUME kind \in {"on_end", "on_interrupt"} PROVE Told(f, e.action)
      OBVIOUS
    <2>1. Len(e.calls) + 1 \in DOMAIN s
      BY <1>4
    <2>2. c \in {"on_end", "on_interrupt"} \X {e.action}
      BY DEF c
    <2>3. \E i \in DOMAIN f.calls : f.calls[i] = c
      BY <1>3, <1>4, <2>1
    <2> QED
      BY <2>2, <2>3 DEF Told
  <1> QED
    BY <1>3, <1>5, <1>6, <1>7 DEF f

\* interrupt() tells the action, whatever the status.
LEMMA InterruptFollows ==
    ASSUME NEW e, Typed(e)
    PROVE  Follows(e, ExInterrupt(e)) /\ ExInterrupt(e).started = FALSE
  <1> DEFINE n == NotifyInterrupt(e)
             f == ExInterrupt(e)
  <1>1. /\ Typed(n) /\ n.index = e.index
        /\ \A x : Told(e, x) => Told(n, x)
        /\ e.started => Told(n, e.action)
    BY CallTells DEF NotifyInterrupt, Typed
  <1>2. f = [n EXCEPT !.status = "Interrupted", !.action = NoAction, !.started = FALSE]
    BY DEF ExInterrupt
  <1> HIDE DEF n, f
  <1>3. /\ DOMAIN f = ExecutorFields /\ f.index = n.index /\ f.calls = n.calls /\ f.started = FALSE
    BY <1>1, <1>2 DEF Typed, ExecutorFields
  <1>4. Fit(f)
    BY <1>1, <1>3 DEF Typed, Fit
  <1>5. \A x : Told(n, x) => Told(f, x)
    BY <1>3 DEF Told
  <1>6. Follows(e, f)
    BY <1>1, <1>3, <1>4, <1>5 DEF Follows, Closed
  <1> QED
    BY <1>3, <1>6 DEF f

\* An executor without a started action takes any plan.
LEMMA ReloadFollows ==
    ASSUME NEW e, Typed(e), ~e.started, NEW f, DOMAIN f = ExecutorFields,
           f.started = FALSE, f.index = 0, f.calls = e.calls
    PROVE  Follows(e, f)
  BY DEF Follows, Fit, Typed, Closed, Told

\* reset().
LEMMA ResetFollows ==
    ASSUME NEW e, Typed(e)
    PROVE  Follows(e, ExReset(e)) /\ ~ExReset(e).started
  <1> DEFINE x == ExInterrupt(e)
             f == ExReset(e)
  <1>1. Follows(e, x) /\ x.started = FALSE
    BY InterruptFollows
  <1>2. f = [x EXCEPT !.plan = <<>>, !.goal = EmptyState, !.index = 0, !.status = "Idle"]
    BY DEF ExReset
  <1>3. Typed(x) /\ x.started = FALSE
    BY <1>1 DEF Follows, Fit
  <1> HIDE DEF x, f
  <1>4. DOMAIN f = ExecutorFields /\ f.started = FALSE /\ f.index = 0 /\ f.calls = x.calls
    BY <1>2, <1>3 DEF Typed, ExecutorFields
  <1>5. Follows(x, f)
    BY <1>3, <1>4, ReloadFollows
  <1>6. Follows(e, f)
    BY <1>1, <1>5, FollowsChains
  <1> QED
    BY <1>4, <1>6 DEF f

\* set_plan() of an executor that is fit for it.
LEMMA SetPlanFollows ==
    ASSUME NEW e, Fit(e), NEW r, NEW g
    PROVE  Follows(e, ExSetPlan(e, r, g))
  <1> DEFINE x == IF e.status = "Running" THEN ExInterrupt(e) ELSE e
             f == ExSetPlan(e, r, g)
  <1>1. Follows(e, x) /\ ~x.started
    BY InterruptFollows, FollowsItself DEF Fit
  <1>2. f = [x EXCEPT !.plan = r.actions, !.goal = g, !.index = 0, !.action = NoAction,
                      !.started = FALSE,
                      !.status = IF r.success THEN "Running" ELSE "Failed"]
    BY DEF ExSetPlan
  <1> HIDE DEF x, f
  <1>3. Typed(x)
    BY <1>1 DEF Follows, Fit
  <1>4. DOMAIN f = ExecutorFields /\ f.started = FALSE /\ f.index = 0 /\ f.calls = x.calls
    BY <1>2, <1>3 DEF Typed, ExecutorFields
  <1>5. Follows(x, f)
    BY <1>1, <1>3, <1>4, ReloadFollows
  <1> QED
    BY <1>1, <1>5, FollowsChains DEF f

\* What the outcome o of a tick of e says: an action is passed over only if the
\* outcome names the index after it, and has no action, and it was of the plan.
Steps(e, o) ==
    /\ Typed(o.ex) /\ Closed(e, o.ex)
    /\ \A x : Told(e, x) => Told(o.ex, x)
    /\ \/ o.ex.index = e.index
       \/ /\ ~(e.index >= Len(e.plan))
          /\ o.ex.index = e.index + 1 /\ o.index = o.ex.index
          /\ o.ex.action = NoAction /\ o.status \in {"Running", "Success"}

\* Executor f of which only what is not of interest here was changed.
Alike(e, f) ==
    /\ DOMAIN f = ExecutorFields /\ f.index = e.index /\ f.action = e.action
    /\ f.started = e.started /\ f.calls = e.calls

LEMMA AlikeSteps ==
    ASSUME NEW e, Typed(e), NEW o, Alike(e, o.ex)
    PROVE  Steps(e, o)
  BY DEF Steps, Alike, Typed, Closed, Told

\* make_failure().
LEMMA FailureSteps ==
    ASSUME NEW e, Typed(e), NEW kind, NEW w
    PROVE  Steps(e, Failure(Call(e, kind), w))
  <1> DEFINE x == Call(e, kind)
             y == [x EXCEPT !.status = "Failed"]
             o == Failure(x, w)
  <1>1. /\ Typed(x) /\ x.index = e.index /\ x.action = e.action /\ x.started = e.started
        /\ \A z : Told(e, z) => Told(x, z)
    BY CallTells
  <1>2. o.ex = y
    BY DEF Failure, Outcome
  <1> HIDE DEF x, o
  <1>3. Alike(x, y)
    BY <1>1 DEF Alike, Typed, ExecutorFields
  <1>4. Steps(x, o)
    BY <1>1, <1>2, <1>3, AlikeSteps
  <1>5. o.ex.index = x.index /\ o.ex.started = x.started /\ o.ex.action = x.action
    BY <1>2, <1>3 DEF Alike
  <1>6. Steps(e, o)
    BY <1>1, <1>4, <1>5 DEF Steps, Closed
  <1> QED
    BY <1>6 DEF o, x

\* handle_action_tick().
LEMMA ActionTickSteps ==
    ASSUME NEW e, Typed(e), Sound(e), e.status = "Running", NEW w, NEW o \in ActionTick(e, w)
    PROVE  Steps(e, o)
  <1>1. CASE o = Outcome([e EXCEPT !.crashed = TRUE], w, e.status, e.index)
    <2>1. o.ex = [e EXCEPT !.crashed = TRUE]
      BY <1>1 DEF Outcome
    <2>2. Alike(e, o.ex)
      BY <2>1 DEF Alike, Typed, ExecutorFields
    <2> QED
      BY <2>2, AlikeSteps
  <1>2. CASE o \in TickRunning(e, w)
    <2>1. o.ex = Call(e, "on_tick_Running")
      BY <1>2 DEF TickRunning, Outcome
    <2> QED
      BY <2>1, CallTells DEF Steps, Closed
  <1>3. CASE o \in TickFailed(e, w)
    <2>1. Replanned(Call(e, "on_tick_Failed")) = {}
      BY CallSound DEF Replanned, Sound
    <2>2. o = Failure(Call(e, "on_tick_Failed"), w)
      BY <1>3, <2>1 DEF TickFailed
    <2> QED
      BY <2>2, FailureSteps
  <1>4. CASE e.action # NoAction /\ o \in TickSucceeded(e, w)
    <2> DEFINE x == Call(e, "on_tick_Succeeded")
               y == Call(x, "on_end")
               z == Advance(y)
    <2>0. ~(e.index >= Len(e.plan))
      BY <1>4 DEF Sound
    <2>1. /\ Typed(x) /\ Sound(x) /\ x.index = e.index /\ x.action = e.action
          /\ \A v : Told(e, v) => Told(x, v)
      BY CallTells, CallSound
    <2>2. /\ Typed(y) /\ y.index = x.index /\ Told(y, x.action)
          /\ \A v : Told(x, v) => Told(y, v)
      BY <2>1, CallTells
    <2>3. o.ex = z /\ o.status = z.status /\ o.index = z.index
      BY <1>4 DEF TickSucceeded, Outcome
    <2>4. o.status \in {"Success", y.status}
      BY <2>2, <2>3 DEF Advance, Typed, ExecutorFields
    <2>5. y.status = e.status
      BY <2>1, CallSound
    <2> HIDE DEF x, y
    <2>6. /\ DOMAIN z = ExecutorFields /\ z.index = y.index + 1 /\ z.action = NoAction
          /\ z.started = FALSE /\ z.calls = y.calls
      BY <2>2 DEF Advance, Typed, ExecutorFields
    <2> HIDE DEF z
    <2>7. Typed(z)
      BY <2>2, <2>6 DEF Typed
    <2>8. \A v : Told(y, v) => Told(z, v)
      BY <2>6 DEF Told
    <2>9. Told(z, e.action) /\ \A v : Told(e, v) => Told(z, v)
      BY <2>1, <2>2, <2>8
    <2> QED
      BY <2>0, <2>1, <2>2, <2>3, <2>4, <2>5, <2>6, <2>7, <2>9 DEF Steps, Closed
  <1> QED
    BY <1>1, <1>2, <1>3, <1>4 DEF ActionTick

\* Executor l is e with its action loaded.
Loads(e, l) ==
    /\ Typed(l) /\ l.index = e.index /\ l.started = e.started /\ l.calls = e.calls
    /\ l.plan = e.plan
    /\ e.started => l.action = e.action

LEMMA LoadedSteps ==
    ASSUME NEW e, NEW l, Loads(e, l), NEW o, Steps(l, o)
    PROVE  Steps(e, o)
  <1>1. \A x : Told(e, x) => Told(l, x)
    BY DEF Loads, Told
  <1> QED
    BY <1>1 DEF Loads, Steps, Closed

\* tick() of an executor that is running.
LEMMA TickSteps ==
    ASSUME NEW e, Fit(e), Sound(e), e.status = "Running", NEW w, NEW o \in ExTick(e, w)
    PROVE  Steps(e, o)
  <1>1. Typed(e)
    BY DEF Fit
  <1>2. CASE ~e.bound
    <2>1. o.ex = [e EXCEPT !.status = "Failed"]
      BY <1>2 DEF ExTick, Failure, Outcome
    <2>2. Alike(e, o.ex)
      BY <1>1, <2>1 DEF Alike, Typed, ExecutorFields
    <2> QED
      BY <1>1, <2>2, AlikeSteps
  <1>3. CASE e.bound /\ e.index >= Len(e.plan)
    <2>1. e.action = NoAction
      BY <1>3 DEF Sound
    <2>2. o.ex = [e EXCEPT !.status = "Success"]
      BY <1>3, <2>1 DEF ExTick, FinishedPlan, Outcome
    <2>3. Alike(e, o.ex)
      BY <1>1, <2>2 DEF Alike, Typed, ExecutorFields
    <2> QED
      BY <1>1, <2>3, AlikeSteps
  <1>4. CASE e.bound /\ ~(e.index >= Len(e.plan))
    <2> DEFINE d == [e EXCEPT !.justStarted = FALSE]
               l == EnsureLoaded(d)
    <2>1. /\ Alike(e, d) /\ Typed(d) /\ d.status = "Running" /\ d.plan = e.plan
          /\ d.autoReplan = FALSE
      BY <1>1 DEF Alike, Typed, Sound, ExecutorFields
    <2> HIDE DEF d
    <2>2. /\ Loads(e, l) /\ Sound(l) /\ l.status = "Running"
      BY <1>4, <2>1 DEF EnsureLoaded, Alike, Loads, Typed, Sound, ExecutorFields
    <2>3. PICK q \in PreStart(l, w) :
              o \in IF q.status # "Running" \/ q.ex.justStarted THEN {q}
                    ELSE ActionTick(q.ex, q.world)
      BY <1>4 DEF ExTick, StepAction, d
    <2> HIDE DEF l
    <2>4. Typed(l)
      BY <2>2 DEF Loads
    <2>5. CASE l.started
      <3>1. q.ex = l
        BY <2>3, <2>5 DEF PreStart, Outcome
      <3>2. ASSUME o = q PROVE Steps(l, o)
        BY <2>4, <3>1, <3>2, AlikeSteps DEF Alike, Typed
      <3>3. ASSUME o \in ActionTick(l, q.world) PROVE Steps(l, o)
        BY <2>2, <2>4, <3>3, ActionTickSteps
      <3>4. Steps(l, o)
        BY <2>3, <3>1, <3>2, <3>3
      <3> QED
        BY <2>2, <3>4, LoadedSteps
    <2>6. CASE ~l.started /\ ~PreconditionsHold(l, w)
      <3> DEFINE need == [l EXCEPT !.status = "NeedReplanning"]
      <3>1. need.autoReplan = FALSE /\ Alike(l, need)
        BY <2>2, <2>4 DEF Sound, Alike, Typed, ExecutorFields
      <3>2. Replanned(need) = {}
        BY <3>1 DEF Replanned
      <3>3. q = Failure(need, w)
        BY <2>3, <2>6, <3>2 DEF PreStart
      <3>4. q.status = "Failed" /\ q.ex = [need EXCEPT !.status = "Failed"]
        BY <3>3 DEF Failure, Outcome
      <3> HIDE DEF need
      <3>5. Alike(l, q.ex)
        BY <3>1, <3>4 DEF Alike, ExecutorFields
      <3>6. Steps(l, q)
        BY <2>4, <3>5, AlikeSteps
      <3> QED
        BY <2>2, <2>3, <3>4, <3>6, LoadedSteps
    <2>7. CASE q = Failure(Call(l, "on_start_false"), w)
      <3>1. q.status = "Failed"
        BY <2>7 DEF Failure, Outcome
      <3>2. Steps(l, q)
        BY <2>4, <2>7, FailureSteps
      <3> QED
        BY <2>2, <2>3, <3>1, <3>2, LoadedSteps
    <2>8. CASE /\ PreconditionsHold(l, w) /\ ~l.started
               /\ q = Outcome([Call(l, "on_start_true") EXCEPT !.started = TRUE,
                                                               !.justStarted = TRUE],
                              w, l.status, l.index)
      <3> DEFINE x == Call(l, "on_start_true")
                 y == [x EXCEPT !.started = TRUE, !.justStarted = TRUE]
      <3>1. /\ Typed(x) /\ x.index = l.index /\ x.action = l.action
            /\ \A v : Told(l, v) => Told(x, v)
        BY <2>4, CallTells
      <3>2. l.action # NoAction
        BY <2>8 DEF PreconditionsHold
      <3>3. q.ex = y
        BY <2>8 DEF Outcome
      <3> HIDE DEF x
      <3>4. /\ DOMAIN y = ExecutorFields /\ y.index = x.index /\ y.action = x.action
            /\ y.calls = x.calls /\ y.justStarted
        BY <3>1 DEF Typed, ExecutorFields
      <3> HIDE DEF y
      <3>5. Typed(y)
        BY <3>1, <3>2, <3>4 DEF Typed
      <3>6. \A v : Told(x, v) => Told(y, v)
        BY <3>4 DEF Told
      <3>7. o = q
        BY <2>3, <3>3, <3>4
      <3>8. Steps(l, o)
        BY <2>8, <3>1, <3>3, <3>4, <3>5, <3>6, <3>7 DEF Steps, Closed
      <3> QED
        BY <2>2, <3>8, LoadedSteps
    <2> QED
      BY <2>3, <2>5, <2>6, <2>7, <2>8 DEF PreStart
  <1> QED
    BY <1>2, <1>3, <1>4

-----------------------------------------------------------------------------
(* The methods of the agent *)

\* A method makes b of an agent a that is fit for a new plan.
Moves(a, b) == DOMAIN b = AgentFields /\ Follows(a.ex, b.ex)

Able(a) == DOMAIN a = AgentFields /\ Fit(a.ex)

LEMMA MovesChains ==
    ASSUME NEW a, NEW b, NEW c, Moves(a, b), Moves(b, c)
    PROVE  Moves(a, c)
  BY FollowsChains DEF Moves

LEMMA MovesAble ==
    ASSUME NEW a, NEW b, Moves(a, b)
    PROVE  Able(b)
  BY DEF Moves, Able, Follows

\* A method that leaves the executor alone.
LEMMA LeavesMoves ==
    ASSUME NEW a, Able(a), NEW b, DOMAIN b = AgentFields, b.ex = a.ex
    PROVE  Moves(a, b)
  BY FollowsItself DEF Moves, Able

\* Changes of other fields.
LEMMA FieldsMove ==
    ASSUME NEW a, Able(a)
    PROVE  /\ \A s : Moves(a, TransitionTo(a, s))
           /\ \A m : Moves(a, RetireGoal(a, m)) /\ Moves(a, Adopt(a, m))
           /\ \A w, v : Moves(a, [a EXCEPT !.world = w, !.dirty = v])
           /\ \A v : Moves(a, [a EXCEPT !.dirty = v])
           /\ \A q : Moves(a, [a EXCEPT !.priority = q])
           /\ \A q : Moves(a, [a EXCEPT !.motives = q])
           /\ \A q : Moves(a, [a EXCEPT !.actions = q])
           /\ \A v : Moves(a, [a EXCEPT !.hasHeuristic = v])
           /\ \A m : Moves(a, [a EXCEPT !.active = m])
           /\ \A x : Moves(a, [a EXCEPT !.cached = x])
           /\ \A j : Moves(a, [a EXCEPT !.job = j])
           /\ \A n : Moves(a, [a EXCEPT !.ticks = n])
  <1>1. DOMAIN a = AgentFields
    BY DEF Able
  <1>2. ASSUME NEW m PROVE Moves(a, RetireGoal(a, m)) /\ Moves(a, Adopt(a, m))
    <2> DEFINE q == Satisfy(a.motives, a.priority, NameOf[m])
               b == TransitionTo([a EXCEPT !.priority = q, !.active = NoMotive], "Idle")
    <2>1. RetireGoal(a, m) = b
      BY <1>1 DEF RetireGoal, AgentFields
    <2> HIDE DEF q
    <2>2. DOMAIN b = AgentFields /\ b.ex = a.ex
      BY <1>1 DEF TransitionTo, AgentFields
    <2> HIDE DEF b
    <2>3. DOMAIN Adopt(a, m) = AgentFields /\ Adopt(a, m).ex = a.ex
      BY <1>1 DEF Adopt, AgentFields
    <2> QED
      BY <2>1, <2>2, <2>3, LeavesMoves
  <1>3. /\ \A s : DOMAIN TransitionTo(a, s) = AgentFields /\ TransitionTo(a, s).ex = a.ex
    BY <1>1 DEF TransitionTo, AgentFields
  <1>4. Follows(a.ex, a.ex)
    BY FollowsItself DEF Able
  <1> QED
    BY <1>1, <1>2, <1>3, <1>4 DEF Moves, AgentFields

\* on_plan_received().
LEMMA OnPlanMoves ==
    ASSUME NEW a, Able(a), NEW r
    PROVE  Moves(a, OnPlanReceived(a, r))
  <1> DEFINE b == OnPlanReceived(a, r)
  <1>1. CASE ~Good(r)
    <2>1. b = PlanFailure(a)
      BY <1>1 DEF OnPlanReceived, Good
    <2>2. DOMAIN b = AgentFields /\ b.ex = a.ex
      BY <2>1 DEF PlanFailure, TransitionTo, Able, AgentFields
    <2> HIDE DEF b
    <2>3. Moves(a, b)
      BY <2>2, LeavesMoves
    <2> QED
      BY <2>3 DEF b
  <1>2. CASE Good(r)
    <2> DEFINE f == ExSetPlan(a.ex, r, a.goal)
    <2>1. Follows(a.ex, f)
      BY SetPlanFollows DEF Able
    <2>2. b = TransitionTo([a EXCEPT !.failures = 0, !.searches = 0, !.ex = f], "Executing")
      BY <1>2 DEF OnPlanReceived, Good, Able, AgentFields
    <2> HIDE DEF f, b
    <2>3. DOMAIN b = AgentFields /\ b.ex = f
      BY <2>2 DEF TransitionTo, Able, AgentFields
    <2>4. Moves(a, b)
      BY <2>1, <2>3 DEF Moves
    <2> QED
      BY <2>4 DEF b
  <1> QED
    BY <1>1, <1>2

\* kick_off_planning().
LEMMA KickOffMoves ==
    ASSUME NEW a, Able(a), NEW b \in KickOff(a)
    PROVE  Moves(a, b)
  <1> DEFINE p == [TransitionTo(a, "Planning") EXCEPT
                     !.searches = Capped(@, a.config.maxConsecutiveFailures)]
             e == [a EXCEPT !.threw = a.status \in {"Planning", "Executing"}]
  <1>1. \/ b = e
        \/ \E r : b = OnPlanReceived(p, r)
        \/ \E j : b = [p EXCEPT !.job = j]
    <2>1. b \in (IF ~a.hasHeuristic THEN {e}
                 ELSE IF a.config.synchronousPlanning THEN {OnPlanReceived(p, r) : r \in Answers(p)}
                 ELSE {[p EXCEPT !.job = [state |-> "searching", answer |-> r, goal |-> p.goal]] :
                          r \in Answers(p)})
      BY DEF KickOff
    <2> HIDE DEF p, e
    <2> QED
      BY <2>1
  <1>2. DOMAIN p = AgentFields /\ p.ex = a.ex /\ DOMAIN e = AgentFields /\ e.ex = a.ex
    BY DEF TransitionTo, Able, AgentFields
  <1> HIDE DEF p, e
  <1>3. Moves(a, p) /\ Able(p) /\ Moves(a, e)
    BY <1>2, LeavesMoves, MovesAble
  <1>4. b = e \/ Moves(p, b)
    <2>1. \A r : Moves(p, OnPlanReceived(p, r))
      BY <1>3, OnPlanMoves
    <2>2. \A j : Moves(p, [p EXCEPT !.job = j])
      BY <1>3, FieldsMove
    <2> QED
      BY <1>1, <2>1, <2>2
  <1> QED
    BY <1>3, <1>4, MovesChains

\* cancel_planning(), a late callback included.
LEMMA CancelMoves ==
    ASSUME NEW a, Able(a), NEW b \in CancelPlanning(a)
    PROVE  Moves(a, b)
  <1> DEFINE d == [a EXCEPT !.job.state = "done"]
             c == [d EXCEPT !.job.answer = NoPlan]
  <1>1. b \in {a, d, c, Deliver(a)}
    BY DEF CancelPlanning
  <1>2. DOMAIN d = AgentFields /\ d.ex = a.ex /\ DOMAIN c = AgentFields /\ c.ex = a.ex
    BY DEF Able, AgentFields
  <1>3. Deliver(a) = OnPlanReceived(d, a.job.answer)
    BY DEF Deliver
  <1> HIDE DEF d, c
  <1>4. Moves(a, a) /\ Moves(a, d) /\ Moves(a, c)
    BY <1>2, LeavesMoves DEF Able
  <1>5. Moves(d, Deliver(a))
    BY <1>3, <1>4, MovesAble, OnPlanMoves
  <1> QED
    BY <1>1, <1>4, <1>5, MovesChains

\* The executor is interrupted or reset, and what is cached forgotten.
LEMMA StopMoves ==
    ASSUME NEW a, DOMAIN a = AgentFields, Typed(a.ex)
    PROVE  /\ Moves(a, [a EXCEPT !.ex = ExInterrupt(@)])
           /\ Moves(a, [a EXCEPT !.ex = ExInterrupt(@), !.cached = NoAction])
           /\ Moves(a, [a EXCEPT !.ex = ExReset(@), !.cached = NoAction])
  <1> DEFINE f == ExInterrupt(a.ex)
             g == ExReset(a.ex)
  <1>1. Follows(a.ex, f) /\ Follows(a.ex, g)
    BY InterruptFollows, ResetFollows
  <1>2. /\ [a EXCEPT !.ex = ExInterrupt(@)] = [a EXCEPT !.ex = f]
        /\ [a EXCEPT !.ex = ExInterrupt(@), !.cached = NoAction]
              = [a EXCEPT !.ex = f, !.cached = NoAction]
        /\ [a EXCEPT !.ex = ExReset(@), !.cached = NoAction]
              = [a EXCEPT !.ex = g, !.cached = NoAction]
    BY DEF AgentFields
  <1> HIDE DEF f, g
  <1>3. /\ Moves(a, [a EXCEPT !.ex = f])
        /\ Moves(a, [a EXCEPT !.ex = f, !.cached = NoAction])
        /\ Moves(a, [a EXCEPT !.ex = g, !.cached = NoAction])
    BY <1>1 DEF Moves, AgentFields
  <1> QED
    BY <1>2, <1>3

\* interrupt(), and satisfy_motive() of the active motive.
LEMMA HaltMoves ==
    ASSUME NEW a, Able(a), NEW s, NEW c \in Halt(a, s)
    PROVE  Moves(a, c)
  <1>1. PICK b \in CancelPlanning(a) :
            c = TransitionTo([b EXCEPT !.ex = ExInterrupt(@), !.cached = NoAction], s)
    BY DEF Halt
  <1> DEFINE d == [b EXCEPT !.ex = ExInterrupt(@), !.cached = NoAction]
  <1>2. Moves(a, b) /\ Able(b)
    BY CancelMoves, MovesAble
  <1>3. Moves(b, d) /\ c = TransitionTo(d, s)
    BY <1>1, <1>2, StopMoves DEF Able, Fit
  <1> HIDE DEF d
  <1>4. Moves(d, c)
    BY <1>3, MovesAble, FieldsMove
  <1> QED
    BY <1>2, <1>3, <1>4, MovesChains

\* A goal is adopted and planned for.
LEMMA SelectMoves ==
    ASSUME NEW a, Able(a), NEW b \in SelectAndPlan(a)
    PROVE  Moves(a, b)
  <1> DEFINE d == Adopt(a, Candidate(a))
  <1>1. b \in KickOff(d) /\ Moves(a, d)
    BY FieldsMove DEF SelectAndPlan
  <1> HIDE DEF d
  <1> QED
    BY <1>1, MovesAble, KickOffMoves, MovesChains

\* force_replan(): also of an executor that has just failed, and holds an action that
\* was started, because no search is left to bring it another plan first.
LEMMA ForceReplanMoves ==
    ASSUME NEW a, Able(a) \/ (Shaped(a) /\ a.job.state \notin Reporting /\ Typed(a.ex)),
           NEW d \in AgentForceReplan(a)
    PROVE  Moves(a, d)
  <1>1. PICK c \in CancelPlanning(a) : \E b \in {[c EXCEPT !.ex = ExReset(@), !.cached = NoAction]} :
            d \in IF MaySelect(b) THEN SelectAndPlan(b) ELSE {TransitionTo(b, "Idle")}
    BY DEF AgentForceReplan
  <1> DEFINE b == [c EXCEPT !.ex = ExReset(@), !.cached = NoAction]
  <1>2. c = a \/ Moves(a, c)
    BY CancelMoves, CancelShaped
  <1>3. DOMAIN c = AgentFields /\ Typed(c.ex)
    BY <1>2, MovesAble DEF Able, Fit, Shaped
  <1>4. Moves(c, b)
    BY <1>3, StopMoves
  <1>5. d \in SelectAndPlan(b) \/ d = TransitionTo(b, "Idle")
    BY <1>1
  <1> HIDE DEF b
  <1>6. Moves(b, d)
    BY <1>4, <1>5, MovesAble, SelectMoves, FieldsMove
  <1>7. Moves(c, d)
    BY <1>4, <1>6, MovesChains
  <1> QED
    BY <1>2, <1>7, MovesChains

\* satisfy_motive().
LEMMA SatisfyMoves ==
    ASSUME NEW a, Able(a), NEW name, NEW c \in AgentSatisfyMotive(a, name)
    PROVE  Moves(a, c)
  <1> DEFINE q == Satisfy(a.motives, a.priority, name)
             b == [a EXCEPT !.priority = q]
             d == [b EXCEPT !.active = NoMotive]
  <1>1. c = b \/ c \in Halt(d, "Idle")
    BY DEF AgentSatisfyMotive, Able, AgentFields
  <1> HIDE DEF q
  <1>2. Moves(a, b)
    BY FieldsMove
  <1> HIDE DEF b
  <1>3. Moves(b, d)
    BY <1>2, MovesAble, FieldsMove
  <1> HIDE DEF d
  <1>4. c \in Halt(d, "Idle") => Moves(d, c)
    BY <1>3, MovesAble, HaltMoves
  <1> QED
    BY <1>1, <1>2, <1>3, <1>4, MovesChains

\* phase_idle().
LEMMA PhaseIdleMoves ==
    ASSUME NEW a, Able(a), NEW c \in PhaseIdle(a)
    PROVE  Moves(a, c)
  <1> DEFINE wanted == Wanted(a.motives, a.priority)
             met == {i \in wanted : IsSatisfied(a.motives[i], a.world)}
             x == IF a.status = "NoMotives" THEN TransitionTo(a, "Idle") ELSE a
             b == [x EXCEPT !.dirty = IF met = {} THEN FALSE ELSE @]
  <1>1. \/ c = a \/ c = TransitionTo(a, "NoMotives") \/ c = b
        \/ \E m : c = RetireGoal(b, m)
        \/ c \in KickOff(b)
        \/ c \in SelectAndPlan(b)
    BY DEF PhaseIdle
  <1>2. DOMAIN b = AgentFields /\ b.ex = a.ex
    BY DEF TransitionTo, Able, AgentFields
  <1> HIDE DEF b
  <1>3. Moves(a, a) /\ Moves(a, b) /\ Able(b)
    BY <1>2, LeavesMoves, MovesAble DEF Able
  <1>4. CASE (\E m : c = RetireGoal(b, m)) \/ c \in KickOff(b) \/ c \in SelectAndPlan(b)
    <2>1. Moves(b, c)
      BY <1>3, <1>4, FieldsMove, KickOffMoves, SelectMoves
    <2> QED
      BY <1>3, <2>1, MovesChains
  <1> QED
    BY <1>1, <1>3, <1>4, FieldsMove

-----------------------------------------------------------------------------
(* Steps *)

\* What the two properties say of a step from agent a to agent b.
Proper(a, b) ==
    /\ Able(b) /\ Closed(a.ex, b.ex)
    /\ b.ex.index = a.ex.index + 1 => b.reported = a.ex.plan[a.ex.index + 1]

LEMMA MovesProper ==
    ASSUME NEW a, Able(a), NEW b, Moves(a, b)
    PROVE  Proper(a, b)
  <1>1. b.ex.index # a.ex.index + 1
    BY DEF Able, Fit, Typed, Moves, Follows
  <1> QED
    BY <1>1, MovesAble DEF Proper, Moves, Follows

\* A plan that goes on or is over: the index has moved only with a report.
LEMMA OutcomeProper ==
    ASSUME NEW a, Able(a), NEW o, Steps(a.ex, o), TickOutcome(a.ex, o),
           NEW x, DOMAIN x = AgentFields, x.ex = o.ex,
           NEW c \in HandleExecutionResult(x, o.status, o.index),
           o.status \in {"Running", "Success"}
    PROVE  Proper(a, c)
  <1>1. Typed(o.ex) /\ a.ex.index \in Nat /\ o.ex.index \in Nat
    BY DEF Steps, Able, Fit, Typed
  <1>2. Fit(o.ex)
    BY <1>1 DEF Fit, Typed, TickOutcome
  <1>3. /\ x.ex.plan = a.ex.plan
        /\ o.ex.index = a.ex.index + 1 =>
              /\ ~(a.ex.index >= Len(a.ex.plan))
              /\ o.index > 0 /\ o.index - 1 = a.ex.index
    BY <1>1 DEF Steps, TickOutcome, SamePlan
  <1>4. CASE o.status = "Running"
    <2>1. c = StillRunning(x, o.index)
      BY <1>4 DEF HandleExecutionResult
    <2>2. DOMAIN c = AgentFields /\ c.ex = o.ex
      BY <2>1 DEF StillRunning, Report, AgentFields
    <2>3. o.ex.index = a.ex.index + 1 => c.reported = a.ex.plan[a.ex.index + 1]
      <3> SUFFICES ASSUME o.ex.index = a.ex.index + 1
                   PROVE  c.reported = a.ex.plan[a.ex.index + 1]
        OBVIOUS
      <3>1. x.ex.action = NoAction /\ o.index > 0 /\ o.index - 1 = a.ex.index
        BY <1>1 DEF Steps
      <3>2. c = Report(x, a.ex.index)
        BY <2>1, <3>1 DEF StillRunning
      <3> QED
        BY <1>3, <3>2 DEF Report, AgentFields
    <2> QED
      BY <1>2, <2>2, <2>3 DEF Proper, Able, Steps
  <1>5. CASE o.status = "Success"
    <2> DEFINE at == IF o.index > 0 THEN o.index - 1 ELSE 0
               r == Report(x, at)
    <2>1. c = TransitionTo([r EXCEPT !.cached = NoAction], "Idle")
      BY <1>5 DEF HandleExecutionResult
    <2>2. DOMAIN r = AgentFields /\ r.ex = o.ex
      BY DEF Report, AgentFields
    <2>3. o.ex.index = a.ex.index + 1 => r.reported = a.ex.plan[a.ex.index + 1]
      BY <1>3 DEF Report, AgentFields
    <2> HIDE DEF at, r
    <2>4. DOMAIN c = AgentFields /\ c.ex = o.ex /\ c.reported = r.reported
      BY <2>1, <2>2 DEF TransitionTo, AgentFields
    <2> QED
      BY <1>2, <2>3, <2>4 DEF Proper, Able, Steps
  <1> QED
    BY <1>4, <1>5

\* phase_executing().
LEMMA PhaseExecutingProper ==
    ASSUME NEW before, AgentInv(before), Able(before), before.status = "Executing",
           NEW c \in PhaseExecuting(before)
    PROVE  Proper(before, c)
  <1> DEFINE a == [before EXCEPT !.dirty = FALSE]
             m == Candidate(a)
  <1>1. /\ DOMAIN a = AgentFields /\ a.status = "Executing" /\ a.ex = before.ex
        /\ a.active = before.active /\ a.goal = before.goal /\ a.cached = before.cached
        /\ a.job = before.job /\ a.threw = before.threw
    BY DEF AgentInv, Shaped, AgentFields
  <1>2. \/ \E b \in CancelPlanning([a EXCEPT !.ex = ExInterrupt(@)]) :
              c \in KickOff(Adopt([b EXCEPT !.cached = NoAction], m))
        \/ c = RetireGoal([a EXCEPT !.ex = ExInterrupt(@), !.cached = NoAction], a.active)
        \/ \E o \in ExTick(a.ex, a.world) :
              c \in HandleExecutionResult([a EXCEPT !.ex = o.ex, !.world = o.world],
                                          o.status, o.index)
    BY DEF PhaseExecuting
  <1> HIDE DEF a, m
  <1>3. AgentInv(a) /\ Able(a)
    BY <1>1, OtherFields DEF Able
  <1>4. /\ Shaped(a) /\ a.job.state \notin Reporting
        /\ a.ex.status = "Running" <=> ~a.threw
        /\ Sound(a.ex) /\ Typed(a.ex) /\ Fit(a.ex)
    BY <1>1, <1>3 DEF AgentInv, Shaped, Able, Fit
  <1>5. ASSUME NEW b \in CancelPlanning([a EXCEPT !.ex = ExInterrupt(@)]),
               c \in KickOff(Adopt([b EXCEPT !.cached = NoAction], m))
        PROVE  Proper(a, c)
    <2> DEFINE x == [a EXCEPT !.ex = ExInterrupt(@)]
               y == [b EXCEPT !.cached = NoAction]
               d == Adopt(y, m)
    <2>1. Moves(a, x) /\ b \in CancelPlanning(x)
      BY <1>1, <1>4, <1>5, StopMoves
    <2>2. c \in KickOff(d)
      BY <1>5
    <2> HIDE DEF x
    <2>3. Moves(x, b)
      BY <2>1, MovesAble, CancelMoves
    <2>4. Moves(b, y)
      BY <2>3, MovesAble, FieldsMove
    <2> HIDE DEF y
    <2>5. Moves(y, d)
      BY <2>4, MovesAble, FieldsMove
    <2> HIDE DEF d
    <2>6. Moves(d, c)
      BY <2>2, <2>5, MovesAble, KickOffMoves
    <2>7. Moves(a, b) /\ Moves(b, d)
      BY <2>1, <2>3, <2>4, <2>5, MovesChains
    <2>8. Moves(a, c)
      BY <2>6, <2>7, MovesChains
    <2> QED
      BY <1>3, <2>8, MovesProper
  <1>6. ASSUME c = RetireGoal([a EXCEPT !.ex = ExInterrupt(@), !.cached = NoAction], a.active)
        PROVE  Proper(a, c)
    <2> DEFINE x == [a EXCEPT !.ex = ExInterrupt(@), !.cached = NoAction]
    <2>1. Moves(a, x) /\ c = RetireGoal(x, a.active)
      BY <1>1, <1>4, <1>6, StopMoves
    <2> HIDE DEF x
    <2>2. Moves(x, c)
      BY <2>1, MovesAble, FieldsMove
    <2> QED
      BY <1>3, <2>1, <2>2, MovesChains, MovesProper
  <1>7. ASSUME NEW o \in ExTick(a.ex, a.world),
               c \in HandleExecutionResult([a EXCEPT !.ex = o.ex, !.world = o.world],
                                           o.status, o.index)
        PROVE  Proper(a, c)
    <2> DEFINE x == [a EXCEPT !.ex = o.ex, !.world = o.world]
    <2>1. ~a.threw => TickOutcome(a.ex, o) /\ Steps(a.ex, o)
      BY <1>4, <1>7, TickSound, TickSteps
    <2>2. /\ DOMAIN x = AgentFields /\ x.ex = o.ex /\ x.active = a.active
          /\ x.goal = a.goal /\ x.job = a.job
      BY <1>1 DEF AgentFields
    <2>3. c \in HandleExecutionResult(x, o.status, o.index)
      BY <1>7
    <2> HIDE DEF x
    <2>4. CASE a.threw
      <3>1. a.ex.action = NoAction /\ a.ex.status # "Running"
        BY <1>3, <1>4, <2>4 DEF AgentInv
      <3>2. o.ex \in {a.ex, [a.ex EXCEPT !.status = "Failed"]} /\ o.status # "Running"
        BY <1>7, <3>1 DEF ExTick, Failure, Outcome
      <3>3. Alike(a.ex, o.ex) /\ ~a.ex.started
        BY <1>4, <3>1, <3>2 DEF Alike, Fit, Typed, ExecutorFields
      <3>4. Moves(a, x) /\ Able(x)
        BY <1>4, <2>2, <3>3, MovesAble DEF Moves, Follows, Closed, Alike, Fit, Typed, Told
      <3>5. CASE o.status = "Success"
        <4> DEFINE r == Report(x, IF o.index > 0 THEN o.index - 1 ELSE 0)
                   y == [r EXCEPT !.cached = NoAction]
        <4>1. c = TransitionTo(y, "Idle")
          BY <2>3, <3>5 DEF HandleExecutionResult
        <4>2. DOMAIN r = AgentFields /\ r.ex = x.ex
          BY <2>2 DEF Report, AgentFields
        <4> HIDE DEF r
        <4>3. DOMAIN y = AgentFields /\ y.ex = x.ex
          BY <4>2 DEF AgentFields
        <4> HIDE DEF y
        <4>4. Moves(x, y) /\ Moves(y, c)
          BY <3>4, <4>1, <4>3, LeavesMoves, MovesAble, FieldsMove
        <4> QED
          BY <1>3, <3>4, <4>4, MovesChains, MovesProper
      <3>6. CASE o.status \in {"Failed", "NeedReplanning"}
        <4>1. c \in AgentForceReplan(x)
          BY <2>3, <3>6 DEF HandleExecutionResult
        <4> QED
          BY <1>3, <3>4, <4>1, ForceReplanMoves, MovesChains, MovesProper
      <3>7. CASE o.status = "Interrupted"
        <4> DEFINE y == [x EXCEPT !.cached = NoAction]
        <4>1. c = TransitionTo(y, "Idle")
          BY <2>3, <3>7 DEF HandleExecutionResult
        <4>2. Moves(x, y)
          BY <3>4, FieldsMove
        <4> HIDE DEF y
        <4>3. Moves(y, c)
          BY <4>1, <4>2, MovesAble, FieldsMove
        <4> QED
          BY <1>3, <3>4, <4>2, <4>3, MovesChains, MovesProper
      <3>8. CASE o.status \notin {"Running", "Success", "Failed", "NeedReplanning", "Interrupted"}
        <4>1. c = x
          BY <2>3, <3>8 DEF HandleExecutionResult
        <4> QED
          BY <1>3, <3>4, <4>1, MovesProper
      <3> QED
        BY <3>2, <3>5, <3>6, <3>7, <3>8
    <2>5. CASE ~a.threw /\ o.status \in {"Running", "Success"}
      BY <1>3, <2>1, <2>2, <2>3, <2>5, OutcomeProper
    <2>6. CASE ~a.threw /\ o.status = "Failed"
      <3>1. c \in AgentForceReplan(x)
        BY <2>3, <2>6 DEF HandleExecutionResult
      <3>2. Shaped(x) /\ x.job.state \notin Reporting /\ Typed(x.ex)
        BY <1>4, <2>1, <2>2, <2>6 DEF Shaped, TickOutcome, Steps
      <3>3. Moves(x, c)
        BY <3>1, <3>2, ForceReplanMoves
      <3>4. Closed(a.ex, x.ex) /\ x.ex.index = a.ex.index
        BY <2>1, <2>2, <2>6 DEF Steps
      <3>5. Follows(x.ex, c.ex) /\ Able(c)
        BY <3>3, MovesAble DEF Moves
      <3>6. Closed(a.ex, c.ex)
        BY <3>4, <3>5 DEF Follows, Closed
      <3>7. c.ex.index # a.ex.index + 1
        BY <1>4, <3>4, <3>5 DEF Follows, Typed
      <3> QED
        BY <3>5, <3>6, <3>7 DEF Proper
    <2> QED
      BY <2>1, <2>4, <2>5, <2>6 DEF TickOutcome
  <1>8. Proper(a, c)
    BY <1>2, <1>5, <1>6, <1>7
  <1> QED
    BY <1>1, <1>8 DEF Proper

\* What was told in the last step is forgotten, the action stays open.
LEMMA NowSteps ==
    ASSUME Able(agent)
    PROVE  /\ Able(Now) /\ Able(Ticked)
           /\ \A b : Proper(Now, b) \/ Proper(Ticked, b) => Proper(agent, b)
  <1> DEFINE e == agent.ex
             f == Observe(e)
             n == [agent EXCEPT !.ex = f, !.reported = NoAction]
             t == [n EXCEPT !.ticks = IF agent.config.goalRecheckInterval = 0 THEN 0
                                      ELSE (@ + 1) % agent.config.goalRecheckInterval]
  <1>1. f = [e EXCEPT !.calls = <<>>]
    BY DEF Observe
  <1> HIDE DEF f
  <1>2. /\ DOMAIN f = ExecutorFields /\ f.index = e.index /\ f.action = e.action
        /\ f.started = e.started /\ f.status = e.status /\ f.calls = <<>>
        /\ f.plan = e.plan
    BY <1>1 DEF Able, Fit, Typed, ExecutorFields
  <1>3. <<>> \in Seq({})
    OBVIOUS
  <1>4. Fit(f)
    BY <1>2, <1>3 DEF Able, Fit, Typed
  <1>5. Now = n
    BY DEF Now, Able, AgentFields, f
  <1>6. DOMAIN n = AgentFields /\ n.ex = f
    BY DEF Able, AgentFields
  <1> HIDE DEF n
  <1>7. Ticked = t
    BY <1>5 DEF Ticked
  <1>8. DOMAIN t = AgentFields /\ t.ex = f
    BY <1>6 DEF AgentFields
  <1> HIDE DEF t
  <1> QED
    BY <1>2, <1>4, <1>5, <1>6, <1>7, <1>8 DEF Able, Proper, Closed

\* A method that returns.
LEMMA CallsProper ==
    ASSUME NEW outcomes, Calls(outcomes), \A b \in outcomes : Proper(agent, b)
    PROVE  Proper(agent, agent')
  BY DEF Calls

\* A method of an agent of which nothing is held against it.
LEMMA NowProper ==
    ASSUME Able(agent), NEW b, Moves(Now, b) \/ Moves(Ticked, b)
    PROVE  Proper(agent, b)
  BY NowSteps, MovesProper

\* A tick.
LEMMA TickProper ==
    ASSUME GameInv, Able(agent), Tick
    PROVE  Proper(agent, agent')
  <1>1. /\ Able(Now) /\ Able(Ticked) /\ AgentInv(Ticked) /\ Ticked.status = agent.status
    BY NowSteps, TickedKeeps DEF GameInv
  <1>2. Moves(Now, Now) /\ Moves(Ticked, Ticked)
    BY <1>1, LeavesMoves DEF Able
  <1>3. CASE TickIdle
    <2>1. \A c \in PhaseIdle(Ticked) : Proper(agent, c)
      BY <1>1, PhaseIdleMoves, NowProper
    <2> QED
      BY <1>3, <2>1, CallsProper DEF TickIdle
  <1>4. CASE TickExecuting
    <2>1. \A c \in PhaseExecuting(Ticked) : Proper(agent, c)
      BY <1>1, <1>4, PhaseExecutingProper, NowSteps DEF TickExecuting
    <2> QED
      BY <1>4, <2>1, CallsProper DEF TickExecuting
  <1>5. CASE TickPlanning \/ TickInterrupted
    <2>1. agent' = Ticked
      BY <1>5 DEF TickPlanning, TickInterrupted, Calls
    <2> QED
      BY <1>2, <2>1, NowProper
  <1>6. CASE Poll
    <2> DEFINE d == [Now EXCEPT !.job.state = "none"]
    <2>1. agent' = OnPlanReceived(d, agent.job.answer) \/ agent' = Now
      BY <1>6 DEF Poll
    <2>2. DOMAIN d = AgentFields /\ d.ex = Now.ex
      BY <1>1 DEF Able, AgentFields
    <2> HIDE DEF d
    <2>3. Moves(Now, d) /\ Able(d)
      BY <1>1, <2>2, LeavesMoves, MovesAble
    <2>4. Moves(Now, OnPlanReceived(d, agent.job.answer))
      BY <2>3, OnPlanMoves, MovesChains
    <2> QED
      BY <1>2, <2>1, <2>4, NowProper
  <1> QED
    BY <1>3, <1>4, <1>5, <1>6 DEF Tick

\* What else the game does while it plays.
LEMMA GameProper ==
    ASSUME Able(agent), WriteWorld \/ MarkWorldDirty \/ Interrupt \/ Resume \/ ForceReplan
    PROVE  Proper(agent, agent')
  <1> DEFINE n == Now
  <1>1. Able(n)
    BY NowSteps
  <1>2. DOMAIN n = AgentFields
    BY <1>1 DEF Able
  <1>3. Moves(n, agent')
    <2>1. CASE WriteWorld
      <3>1. PICK marks, w : agent' = [n EXCEPT !.world = w, !.dirty = @ \/ marks]
        BY <2>1 DEF WriteWorld, Calls
      <3> HIDE DEF n
      <3> DEFINE v == n.dirty \/ marks
      <3>2. agent' = [n EXCEPT !.world = w, !.dirty = v]
        BY <1>2, <3>1 DEF AgentFields
      <3> HIDE DEF v
      <3> QED
        BY <1>1, <3>2, FieldsMove
    <2>2. CASE MarkWorldDirty
      <3>1. agent' = [n EXCEPT !.dirty = TRUE]
        BY <2>2 DEF MarkWorldDirty, Calls
      <3> HIDE DEF n
      <3> QED
        BY <1>1, <3>1, FieldsMove
    <2>3. CASE Interrupt
      <3>1. agent' \in Halt(n, "Interrupted")
        BY <2>3 DEF Interrupt, AgentInterrupt, Calls
      <3> HIDE DEF n
      <3> QED
        BY <1>1, <3>1, HaltMoves
    <2>4. CASE Resume
      <3>1. agent' = n \/ agent' = TransitionTo(n, "Idle")
        BY <2>4 DEF Resume, AgentResume, Calls
      <3> HIDE DEF n
      <3> QED
        BY <1>1, <1>2, <3>1, FieldsMove, LeavesMoves
    <2>5. CASE ForceReplan
      <3>1. agent' \in AgentForceReplan(n)
        BY <2>5 DEF ForceReplan, Calls
      <3> HIDE DEF n
      <3> QED
        BY <1>1, <3>1, ForceReplanMoves
    <2> QED
      BY <2>1, <2>2, <2>3, <2>4, <2>5
  <1> QED
    BY <1>3, NowProper

\* Changes of what is registered.
LEMMA RegistryProper ==
    ASSUME Able(agent), Registry
    PROVE  Proper(agent, agent')
  <1> DEFINE n == Now
  <1>1. Able(n)
    BY NowSteps
  <1>2. DOMAIN n = AgentFields
    BY <1>1 DEF Able
  <1>3. Moves(n, agent')
    <2>1. CASE SatisfyMotive
      <3>1. PICK m \in Motive : agent' \in AgentSatisfyMotive(n, NameOf[m])
        BY <2>1 DEF SatisfyMotive, Calls
      <3> HIDE DEF n
      <3> QED
        BY <1>1, <3>1, SatisfyMoves
    <2>2. CASE SetMotivePriority
      <3>1. PICK m \in Motive, p \in Priorities :
              agent' = [n EXCEPT !.priority = SetPriorityByName(agent.motives, @, NameOf[m], p)]
        BY <2>2 DEF SetMotivePriority, Calls
      <3> HIDE DEF n
      <3> DEFINE q == SetPriorityByName(agent.motives, n.priority, NameOf[m], p)
      <3>2. agent' = [n EXCEPT !.priority = q]
        BY <1>2, <3>1 DEF AgentFields
      <3> HIDE DEF q
      <3> QED
        BY <1>1, <3>2, FieldsMove
    <2>3. CASE NewMotive \/ DropMotive \/ ClearMotives
      <3>1. PICK q : agent' = [n EXCEPT !.motives = q]
        <4>1. CASE NewMotive
          <5>1. PICK m \in Motive : Calls({[n EXCEPT !.motives = AddMotive(n.motives, m)]})
            BY <4>1 DEF NewMotive
          <5> QED
            BY <5>1 DEF Calls
        <4>2. CASE DropMotive
          <5>1. PICK m \in Motive : Calls({[n EXCEPT !.motives = RemoveMotive(n.motives, m)]})
            BY <4>2 DEF DropMotive
          <5> QED
            BY <5>1 DEF Calls
        <4>3. CASE ClearMotives
          BY <4>3 DEF ClearMotives, Calls
        <4> QED
          BY <2>3, <4>1, <4>2, <4>3
      <3> HIDE DEF n
      <3> QED
        BY <1>1, <3>1, FieldsMove
    <2>4. CASE NewAction \/ DropAction \/ ClearActions
      <3>1. PICK q : agent' = [n EXCEPT !.actions = q]
        <4>1. CASE NewAction
          <5>1. PICK x \in Action : Calls({[n EXCEPT !.actions = n.actions \cup {x}]})
            BY <4>1 DEF NewAction
          <5> QED
            BY <5>1 DEF Calls
        <4>2. CASE DropAction
          <5>1. PICK x \in Action : Calls({[n EXCEPT !.actions = n.actions \ {x}]})
            BY <4>2 DEF DropAction
          <5> QED
            BY <5>1 DEF Calls
        <4>3. CASE ClearActions
          BY <4>3 DEF ClearActions, Calls
        <4> QED
          BY <2>4, <4>1, <4>2, <4>3
      <3> HIDE DEF n
      <3> QED
        BY <1>1, <3>1, FieldsMove
    <2>5. CASE SetHeuristic
      <3>1. PICK given \in BOOLEAN : agent' = [n EXCEPT !.hasHeuristic = given]
        BY <2>5 DEF SetHeuristic, Calls
      <3> HIDE DEF n
      <3> QED
        BY <1>1, <3>1, FieldsMove
    <2> QED
      BY <2>1, <2>2, <2>3, <2>4, <2>5 DEF Registry
  <1> QED
    BY <1>3, NowProper

\* The searching thread.
LEMMA WorkerProper ==
    ASSUME Able(agent), Worker
    PROVE  Proper(agent, agent')
  <1> DEFINE n == Now
             b == [n EXCEPT !.job.state = "cleared"]
             d == [n EXCEPT !.job.state = "done"]
  <1>1. Able(n)
    BY NowSteps
  <1>2. agent' = b \/ agent' = OnPlanReceived(d, n.job.answer)
    BY DEF Worker, SearchEnds, Callback, Deliver
  <1> HIDE DEF n
  <1>3. DOMAIN b = AgentFields /\ b.ex = n.ex /\ DOMAIN d = AgentFields /\ d.ex = n.ex
    BY <1>1 DEF Able, AgentFields
  <1> HIDE DEF b, d
  <1>4. Moves(n, b) /\ Moves(n, d)
    BY <1>1, <1>3, LeavesMoves
  <1>5. Moves(d, OnPlanReceived(d, n.job.answer))
    BY <1>4, MovesAble, OnPlanMoves
  <1>6. Moves(n, agent')
    BY <1>2, <1>4, <1>5, MovesChains
  <1> QED
    BY <1>6, NowProper DEF n

\* Every step is proper.
LEMMA StepProper ==
    ASSUME GameInv, Able(agent), Next
    PROVE  Proper(agent, agent')
  BY TickProper, GameProper, RegistryProper, WorkerProper DEF Next, Game

\* The inductive invariant on top of GameInv.
StepInv == Able(agent)

LEMMA InitAble == Init => StepInv
  <1> SUFFICES ASSUME Init PROVE StepInv
    OBVIOUS
  <1>1. DOMAIN agent = AgentFields /\ agent.ex = NewExecutor(TRUE, FALSE)
    BY DEF Init, AgentFields
  <1>2. <<>> \in Seq({})
    OBVIOUS
  <1>3. Fit(NewExecutor(TRUE, FALSE))
    BY <1>2 DEF NewExecutor, Fit, Typed, ExecutorFields
  <1> QED
    BY <1>1, <1>3 DEF StepInv, Able

LEMMA StepHolds == Spec => [](GameInv /\ StepInv)
  <1>1. GameInv /\ StepInv /\ [Next]_vars => StepInv'
    <2> SUFFICES ASSUME GameInv, StepInv, [Next]_vars PROVE StepInv'
      OBVIOUS
    <2>1. CASE UNCHANGED vars
      BY <2>1 DEF vars, StepInv, Able
    <2>2. CASE Next
      BY <2>2, StepProper DEF StepInv, Proper
    <2> QED
      BY <2>1, <2>2
  <1> QED
    BY <1>1, InitAble, GameHolds, PTL DEF Spec

\* An action that was started is not dropped without on_end or on_interrupt, for all
\* actions, plans, motives and worlds: set_plan and reset do so on their own
\* (plan_executor.cpp:11-34), but whenever the agent comes to call them, by a late
\* callback, a replan, a satisfied motive or a change of goal, the executor was
\* interrupted before or still runs (goap_agent.cpp:136-190, 268-400).
THEOREM NoActionIsAbandoned == Spec => NoActionAbandoned
  <1> DEFINE A == agent.ex.started /\ ~(agent'.ex.started /\ agent'.ex.index = agent.ex.index) =>
                    \E i \in DOMAIN agent'.ex.calls :
                       agent'.ex.calls[i] \in {"on_end", "on_interrupt"} \X {agent.ex.action}
  <1>1. GameInv /\ StepInv /\ [Next]_vars => [A]_vars
    <2> SUFFICES ASSUME GameInv, StepInv, Next PROVE A
      BY DEF vars
    <2>1. Closed(agent.ex, agent'.ex)
      BY StepProper DEF StepInv, Proper
    <2> QED
      BY <2>1 DEF Closed, Told
  <1> HIDE DEF A
  <1>2. Spec => [][A]_vars
    BY <1>1, StepHolds, PTL DEF Spec
  <1> QED
    BY <1>2 DEF NoActionAbandoned, A

\* The tick that completes an action reports that very action to
\* on_action_finished, for all actions, plans and motives, although the agent
\* infers it from the index and what it has cached (goap_agent.cpp:237-263).
THEOREM NoCompletionIsMissed == Spec => NoCompletionMissed
  <1> DEFINE A == agent'.ex.index = agent.ex.index + 1 =>
                    agent'.reported = agent.ex.plan[agent.ex.index + 1]
  <1>1. GameInv /\ StepInv /\ [Next]_vars => [A]_vars
    <2> SUFFICES ASSUME GameInv, StepInv, Next PROVE A
      BY DEF vars
    <2> QED
      BY StepProper DEF StepInv, Proper
  <1> HIDE DEF A
  <1>2. Spec => [][A]_vars
    BY <1>1, StepHolds, PTL DEF Spec
  <1> QED
    BY <1>2 DEF NoCompletionMissed, A

-----------------------------------------------------------------------------
(* Types *)

\* A well formed executor of an agent: auto_replan is off, and no null action has
\* been called.
Intact(e) == WellFormed(e) /\ ~e.autoReplan /\ ~e.crashed

\* The methods of the executor keep it so.
LEMMA ObserveIntact ==
    ASSUME NEW e, Intact(e)
    PROVE  Intact(Observe(e))
  <1>1. WellFormed(Observe(e))
    BY ObserveWellFormed DEF Intact
  <1>2. Calm(e, Observe(e))
    BY DEF Intact, WellFormed, Executor, Observe, Calm
  <1> QED
    BY <1>1, <1>2 DEF Intact, Calm

LEMMA StopIntact ==
    ASSUME NEW e, Intact(e)
    PROVE  Intact(ExInterrupt(e)) /\ Intact(ExReset(e))
  <1>1. WellFormed(ExInterrupt(e)) /\ WellFormed(ExReset(e))
    BY InterruptWellFormed, ResetWellFormed DEF Intact
  <1>2. Calm(e, ExInterrupt(e)) /\ Calm(e, ExReset(e))
    BY InterruptCalm, ResetCalm DEF Intact, WellFormed
  <1> QED
    BY <1>1, <1>2 DEF Intact, Calm

LEMMA SetPlanIntact ==
    ASSUME NEW e, Intact(e), NEW r \in PlanResult, NEW g \in State
    PROVE  Intact(ExSetPlan(e, r, g))
  <1>1. WellFormed(ExSetPlan(e, r, g))
    BY SetPlanWellFormed DEF Intact
  <1>2. Calm(e, ExSetPlan(e, r, g))
    BY SetPlanCalm DEF Intact, WellFormed
  <1> QED
    BY <1>1, <1>2 DEF Intact, Calm

LEMMA TickIntact ==
    ASSUME NEW e, Intact(e), NEW w \in State, NEW o \in ExTick(e, w)
    PROVE  Intact(o.ex) /\ o.world \in State
  <1>1. WellFormed(o.ex) /\ o.world \in State
    BY TickWellFormed DEF Intact
  <1>2. o.ex.autoReplan = e.autoReplan /\ (o.ex.crashed = e.crashed \/ e.autoReplan)
    BY TickCalm DEF Intact
  <1> QED
    BY <1>1, <1>2 DEF Intact

\* The index handle_action_tick() returns is a number.
LEMMA ActionTickIndex ==
    ASSUME NEW e \in Executor, NEW w, NEW o \in ActionTick(e, w)
    PROVE  o.index \in Nat
  <1>1. \A kind : Call(e, kind).index = e.index /\ DOMAIN Call(e, kind) = DOMAIN e
    BY DEF Call, Executor
  <1>2. CASE o \in TickSucceeded(e, w)
    <2> DEFINE x == Call(e, "on_tick_Succeeded")
               y == Call(x, "on_end")
    <2>1. y.index = e.index /\ DOMAIN y = DOMAIN e
      BY <1>1 DEF Call, Executor
    <2>2. o.index = Advance(y).index
      BY <1>2 DEF TickSucceeded, Outcome
    <2> HIDE DEF y
    <2> QED
      BY <2>1, <2>2 DEF Advance, Executor
  <1>3. CASE o \notin TickSucceeded(e, w)
    <2>1. o.index = e.index \/ o.index = Call(e, "on_tick_Failed").index
      BY <1>3 DEF ActionTick, TickRunning, TickFailed, Failure, Outcome
    <2> QED
      BY <1>1, <2>1 DEF Executor
  <1> QED
    BY <1>2, <1>3

\* So is the index tick() returns.
LEMMA TickIndex ==
    ASSUME NEW e, Intact(e), NEW w, NEW o \in ExTick(e, w)
    PROVE  o.index \in Nat
  <1> DEFINE d == [e EXCEPT !.justStarted = FALSE]
             l == EnsureLoaded(d)
  <1>1. e \in Executor /\ Consistent(e) /\ ~e.autoReplan
    BY DEF Intact, WellFormed
  <1>2. CASE o \in {Failure(e, w), Outcome(e, w, e.status, e.index), FinishedPlan(e, w)}
    BY <1>1, <1>2 DEF Failure, FinishedPlan, Outcome, Executor
  <1>3. ASSUME e.index < Len(e.plan), o \in StepAction(e, w)
        PROVE  o.index \in Nat
    <2>1. l \in Executor /\ ~l.autoReplan
      <3>1. d \in Executor /\ ~d.autoReplan /\ d.plan = e.plan /\ d.index = e.index
        BY <1>1 DEF Executor
      <3>2. e.plan[e.index + 1] \in Action
        BY <1>1, <1>3, ElementOfSeq DEF Executor
      <3> HIDE DEF d
      <3> QED
        BY <3>1, <3>2 DEF EnsureLoaded, Executor
    <2> DEFINE need == [l EXCEPT !.status = "NeedReplanning"]
               no == Call(l, "on_start_false")
    <2>2. PICK q \in PreStart(l, w) :
              o \in IF q.status # "Running" \/ q.ex.justStarted THEN {q}
                    ELSE ActionTick(q.ex, q.world)
      BY <1>3 DEF StepAction
    <2> HIDE DEF l
    <2>3. Replanned(need) = {} /\ need.index = l.index /\ no.index = l.index
      BY <2>1 DEF Replanned, Call, Executor
    <2>4. CASE q = Outcome(l, w, l.status, l.index)
      <3>1. q.index = l.index /\ q.ex = l
        BY <2>4 DEF Outcome
      <3> QED
        BY <2>1, <2>2, <3>1, ActionTickIndex DEF Executor
    <2>5. CASE q \in {Failure(need, w), Failure(no, w)}
      <3>1. q.status = "Failed" /\ q.index = l.index
        BY <2>3, <2>5 DEF Failure, Outcome
      <3> QED
        BY <2>1, <2>2, <3>1 DEF Executor
    <2>6. CASE q = Outcome([Call(l, "on_start_true") EXCEPT !.started = TRUE,
                                                            !.justStarted = TRUE],
                           w, l.status, l.index)
      <3>1. q.ex.justStarted /\ q.index = l.index
        BY <2>1, <2>6 DEF Outcome, Call, Executor
      <3> QED
        BY <2>1, <2>2, <3>1 DEF Executor
    <2> QED
      BY <2>2, <2>3, <2>4, <2>5, <2>6 DEF PreStart
  <1>4. Len(e.plan) \in Nat /\ e.index \in Nat
    BY <1>1 DEF Executor
  <1> QED
    BY <1>2, <1>3, <1>4 DEF ExTick

\* An agent of the right types with such an executor.
AgentTyped(a) == a \in Agent /\ Intact(a.ex)

\* One field of an agent gets another value.
LEMMA FieldsTyped ==
    ASSUME NEW a, AgentTyped(a)
    PROVE  /\ \A v \in AgentStatus : AgentTyped([a EXCEPT !.status = v])
           /\ \A v \in State : AgentTyped([a EXCEPT !.world = v])
           /\ \A v \in Seq(Motive) : AgentTyped([a EXCEPT !.motives = v])
           /\ \A v \in [Motive -> Int] : AgentTyped([a EXCEPT !.priority = v])
           /\ \A v : Intact(v) => AgentTyped([a EXCEPT !.ex = v])
           /\ \A v \in SUBSET Action : AgentTyped([a EXCEPT !.actions = v])
           /\ \A v \in Motive \cup {NoMotive} : AgentTyped([a EXCEPT !.active = v])
           /\ \A v \in State : AgentTyped([a EXCEPT !.goal = v])
           /\ \A v \in Nat : /\ AgentTyped([a EXCEPT !.ticks = v])
                             /\ AgentTyped([a EXCEPT !.failures = v])
                             /\ AgentTyped([a EXCEPT !.searches = v])
           /\ \A v \in BOOLEAN : /\ AgentTyped([a EXCEPT !.hasHeuristic = v])
                                 /\ AgentTyped([a EXCEPT !.dirty = v])
                                 /\ AgentTyped([a EXCEPT !.threw = v])
           /\ \A v \in Action \cup {NoAction} : /\ AgentTyped([a EXCEPT !.cached = v])
                                              /\ AgentTyped([a EXCEPT !.reported = v])
           /\ \A v \in Job : AgentTyped([a EXCEPT !.job = v])
  <1> USE DEF AgentTyped, Agent
  <1>1. \A v \in AgentStatus : AgentTyped([a EXCEPT !.status = v])
    OBVIOUS
  <1>2. \A v \in State : AgentTyped([a EXCEPT !.world = v]) /\ AgentTyped([a EXCEPT !.goal = v])
    OBVIOUS
  <1>3. \A v \in Seq(Motive) : AgentTyped([a EXCEPT !.motives = v])
    OBVIOUS
  <1>4. \A v \in [Motive -> Int] : AgentTyped([a EXCEPT !.priority = v])
    OBVIOUS
  <1>5. \A v : Intact(v) => AgentTyped([a EXCEPT !.ex = v])
    <2> SUFFICES ASSUME NEW v, Intact(v) PROVE AgentTyped([a EXCEPT !.ex = v])
      OBVIOUS
    <2>1. v \in Executor
      BY DEF Intact, WellFormed
    <2> QED
      BY <2>1
  <1>6. \A v \in SUBSET Action : AgentTyped([a EXCEPT !.actions = v])
    OBVIOUS
  <1>7. \A v \in Motive \cup {NoMotive} : AgentTyped([a EXCEPT !.active = v])
    OBVIOUS
  <1>8. \A v \in Nat : /\ AgentTyped([a EXCEPT !.ticks = v])
                       /\ AgentTyped([a EXCEPT !.failures = v])
                       /\ AgentTyped([a EXCEPT !.searches = v])
    OBVIOUS
  <1>9. \A v \in BOOLEAN : /\ AgentTyped([a EXCEPT !.hasHeuristic = v])
                           /\ AgentTyped([a EXCEPT !.dirty = v])
                           /\ AgentTyped([a EXCEPT !.threw = v])
    OBVIOUS
  <1>10. \A v \in Action \cup {NoAction} : /\ AgentTyped([a EXCEPT !.cached = v])
                                         /\ AgentTyped([a EXCEPT !.reported = v])
    OBVIOUS
  <1>11. \A v \in Job : AgentTyped([a EXCEPT !.job = v])
    OBVIOUS
  <1> HIDE DEF AgentTyped, Agent
  <1> QED
    BY <1>1, <1>2, <1>3, <1>4, <1>5, <1>6, <1>7, <1>8, <1>9, <1>10, <1>11

\* A step of a job.
LEMMA JobTyped ==
    ASSUME NEW a, AgentTyped(a)
    PROVE  /\ \A s \in {"none", "searching", "cleared", "done"} :
                 AgentTyped([a EXCEPT !.job.state = s])
           /\ \A r \in PlanResult : AgentTyped([a EXCEPT !.job.answer = r])
           /\ a.job.answer \in PlanResult
  <1>1. a.job \in Job
    BY DEF AgentTyped, Agent
  <1>2. a.job.answer \in PlanResult
    BY <1>1 DEF Job
  <1>3. ASSUME NEW s \in {"none", "searching", "cleared", "done"}
        PROVE  AgentTyped([a EXCEPT !.job.state = s])
    <2> DEFINE j == [a.job EXCEPT !.state = s]
    <2>1. j \in Job
      BY <1>1 DEF Job
    <2>2. [a EXCEPT !.job.state = s] = [a EXCEPT !.job = j]
      OBVIOUS
    <2> HIDE DEF j
    <2> QED
      BY <2>1, <2>2, FieldsTyped
  <1>4. ASSUME NEW r \in PlanResult
        PROVE  AgentTyped([a EXCEPT !.job.answer = r])
    <2> DEFINE j == [a.job EXCEPT !.answer = r]
    <2>1. j \in Job
      BY <1>1 DEF Job
    <2>2. [a EXCEPT !.job.answer = r] = [a EXCEPT !.job = j]
      OBVIOUS
    <2> HIDE DEF j
    <2> QED
      BY <2>1, <2>2, FieldsTyped
  <1> QED
    BY <1>2, <1>3, <1>4

\* transition_to().
LEMMA TransitionTyped ==
    ASSUME NEW a, AgentTyped(a), NEW s \in AgentStatus
    PROVE  AgentTyped(TransitionTo(a, s))
  <1> DEFINE b == [a EXCEPT !.status = s]
  <1>1. TransitionTo(a, s) = [b EXCEPT !.threw = FALSE]
    BY DEF TransitionTo
  <1>2. AgentTyped(b)
    BY FieldsTyped
  <1> HIDE DEF b
  <1>3. AgentTyped([b EXCEPT !.threw = FALSE])
    BY <1>2, FieldsTyped
  <1> QED
    BY <1>1, <1>3

\* A plan that fails.
LEMMA PlanFailureTyped ==
    ASSUME NEW a, AgentTyped(a)
    PROVE  AgentTyped(PlanFailure(a))
  <1> DEFINE b == TransitionTo(a, "Idle")
             c == [b EXCEPT !.failures = 0]
             d == TransitionTo(a, "PlanFailed")
             n == d.failures + 1
             e == [d EXCEPT !.failures = n]
  <1>1. AgentTyped(b) /\ AgentTyped(d)
    BY TransitionTyped DEF AgentStatus
  <1>2. PlanFailure(a) = [c EXCEPT !.searches = 0] \/ PlanFailure(a) = e
    BY DEF PlanFailure
  <1> HIDE DEF b, d
  <1>3. AgentTyped(c)
    BY <1>1, FieldsTyped
  <1>5. n \in Nat
    BY <1>1 DEF AgentTyped, Agent
  <1> HIDE DEF n
  <1>4. AgentTyped(e)
    BY <1>1, <1>5, FieldsTyped
  <1> HIDE DEF c, e
  <1>6. AgentTyped([c EXCEPT !.searches = 0])
    BY <1>3, FieldsTyped
  <1> QED
    BY <1>2, <1>4, <1>6

\* on_plan_received() of an answer of the planner.
LEMMA OnPlanTyped ==
    ASSUME NEW a, AgentTyped(a), NEW r \in PlanResult
    PROVE  AgentTyped(OnPlanReceived(a, r))
  <1>1. CASE ~Good(r)
    BY <1>1, PlanFailureTyped DEF OnPlanReceived, Good
  <1>2. CASE Good(r)
    <2> DEFINE f == ExSetPlan(a.ex, r, a.goal)
               b == [a EXCEPT !.failures = 0]
               c == [b EXCEPT !.searches = 0]
               d == [c EXCEPT !.ex = f]
    <2>1. Intact(f)
      BY SetPlanIntact DEF AgentTyped, Agent
    <2>2. OnPlanReceived(a, r) = TransitionTo(d, "Executing")
      BY <1>2 DEF OnPlanReceived, Good, AgentTyped, Agent
    <2> HIDE DEF f
    <2>3. AgentTyped(b)
      BY FieldsTyped
    <2> HIDE DEF b
    <2>4. AgentTyped(c)
      BY <2>3, FieldsTyped
    <2> HIDE DEF c
    <2>5. AgentTyped(d)
      BY <2>1, <2>4, FieldsTyped
    <2> HIDE DEF d
    <2> QED
      BY <2>2, <2>5, TransitionTyped DEF AgentStatus
  <1> QED
    BY <1>1, <1>2

-----------------------------------------------------------------------------
(* The selector *)

\* The first of some places in a sequence.
LEMMA LeastPlace ==
    ASSUME NEW s \in Seq(Motive), NEW T \in SUBSET DOMAIN s, T # {}
    PROVE  Least(T) \in T /\ s[Least(T)] \in Motive /\ \A j \in T : Least(T) <= j
  <1>1. DOMAIN s = 1..Len(s) /\ Len(s) \in Nat
    BY LenProperties
  <1>2. T \subseteq Nat
    BY <1>1
  <1>3. \E x \in T : \A y \in T : x <= y
    BY <1>2, LeastNat
  <1>4. Least(T) \in T /\ \A j \in T : Least(T) <= j
    BY <1>3 DEF Least
  <1>5. Least(T) \in 1..Len(s)
    BY <1>1, <1>4
  <1> QED
    BY <1>4, <1>5, ElementOfSeq

\* Among places with a number each there is one of the highest.
LEMMA HighestPlace ==
    ASSUME NEW T, IsFiniteSet(T), T # {}, NEW u \in [T -> Int]
    PROVE  \E i \in T : \A j \in T : u[j] <= u[i]
  <1> DEFINE Above(i) == {j \in T : u[j] > u[i]}
             N == {Cardinality(Above(i)) : i \in T}
  <1>1. \A i \in T : IsFiniteSet(Above(i)) /\ Cardinality(Above(i)) \in Nat
    BY FS_Subset, FS_CardinalityType
  <1>2. N \subseteq Nat /\ N # {}
    BY <1>1
  <1>3. PICK n \in N : \A k \in N : n <= k
    BY <1>2, LeastNat
  <1>4. PICK i \in T : n = Cardinality(Above(i))
    OBVIOUS
  <1>5. SUFFICES ASSUME NEW j \in T, ~(u[j] <= u[i]) PROVE FALSE
    OBVIOUS
  <1>6. Above(j) \subseteq Above(i) /\ j \in Above(i) /\ j \notin Above(j)
    <2>1. \A x, y \in Int : (x > y <=> ~(x <= y)) /\ ~(x > x)
      OBVIOUS
    <2>2. \A x, y, z \in Int : x > y /\ y > z => x > z
      OBVIOUS
    <2>3. u[j] \in Int /\ u[i] \in Int /\ \A k \in T : u[k] \in Int
      OBVIOUS
    <2>4. u[j] > u[i] /\ ~(u[j] > u[j])
      BY <1>5, <2>1, <2>3
    <2>5. \A k \in T : u[k] > u[j] => u[k] > u[i]
      BY <2>2, <2>3, <2>4
    <2> QED
      BY <2>4, <2>5
  <1>7. Cardinality(Above(j)) < Cardinality(Above(i))
    <2>1. /\ IsFiniteSet(Above(i)) /\ Cardinality(Above(i)) \in Nat
          /\ Cardinality(Above(j)) \in Nat
      BY <1>1
    <2>2. Above(j) # Above(i) /\ Above(j) \in SUBSET Above(i)
      BY <1>6
    <2> HIDE DEF Above
    <2>3. /\ Cardinality(Above(j)) <= Cardinality(Above(i))
          /\ Cardinality(Above(j)) # Cardinality(Above(i))
      BY <2>1, <2>2, FS_Subset
    <2> QED
      BY <2>1, <2>3
  <1>8. n <= Cardinality(Above(j))
    BY <1>3
  <1>9. Cardinality(Above(j)) \in Nat /\ n \in Nat
    BY <1>1, <1>2
  <1> HIDE DEF Above, N
  <1> QED
    BY <1>4, <1>7, <1>8, <1>9

\* Motive m is wanted and not satisfied, its utility is a number, no other such motive
\* is of more, and none before it in the vector is of as much.
Selected(motives, priority, w, m) ==
    \E i \in Unsatisfied(motives, priority, w) :
        /\ m = motives[i] /\ Utility(priority[m], m, w) # NoUtility
        /\ \A j \in Unsatisfied(motives, priority, w) :
              LET u == Utility(priority[motives[j]], motives[j], w)
              IN  u # NoUtility => /\ u <= Utility(priority[m], m, w)
                                   /\ u = Utility(priority[m], m, w) => i <= j

\* select_goal() (goal_selector.cpp:24-43), on every vector of motives, entries twice
\* among them, and in every world: it returns a motive that is wanted, open and of
\* the highest utility there is, and the null pointer only when no motive of a
\* positive priority is both unsatisfied and of a utility that is a number.
THEOREM SelectedGoalIsBest ==
    ASSUME UtilityIsOrdered, NEW s \in Seq(Motive), NEW p \in [Motive -> Int],
           NEW w \in State
    PROVE  IF \E i \in Unsatisfied(s, p, w) : Utility(p[s[i]], s[i], w) # NoUtility
           THEN Selected(s, p, w, SelectGoal(s, p, w))
           ELSE SelectGoal(s, p, w) = NoMotive
  <1> DEFINE utility(i) == Utility(p[s[i]], s[i], w)
             open == {i \in Unsatisfied(s, p, w) : utility(i) # NoUtility}
             best == {i \in open : \A j \in open : utility(j) <= utility(i)}
             u == [i \in open |-> utility(i)]
             m == SelectGoal(s, p, w)
  <1>1. m = IF open = {} THEN NoMotive ELSE s[Least(best)]
    BY DEF SelectGoal
  <1>a. open # {} <=> \E i \in Unsatisfied(s, p, w) : Utility(p[s[i]], s[i], w) # NoUtility
    OBVIOUS
  <1> SUFFICES ASSUME open # {} PROVE Selected(s, p, w, m)
    BY <1>1, <1>a
  <1>2. open \subseteq Unsatisfied(s, p, w) /\ Unsatisfied(s, p, w) \subseteq DOMAIN s
    BY DEF Unsatisfied, Wanted
  <1>3. DOMAIN s = 1..Len(s) /\ Len(s) \in Nat /\ \A i \in 1..Len(s) : s[i] \in Motive
    BY LenProperties, ElementOfSeq
  <1>4. \A i \in DOMAIN s : utility(i) \in Int \cup {NoUtility}
    BY <1>3 DEF UtilityIsOrdered
  <1>5. u \in [open -> Int]
    BY <1>2, <1>4
  <1>6. IsFiniteSet(open)
    <2>1. 1 \in Int /\ Len(s) \in Int
      BY <1>3
    <2>2. IsFiniteSet(1..Len(s))
      BY <2>1, FS_Interval
    <2> QED
      BY <1>2, <1>3, <2>2, FS_Subset
  <1>7. PICK h \in open : \A j \in open : u[j] <= u[h]
    <2> HIDE DEF open, u
    <2> QED
      BY <1>5, <1>6, HighestPlace
  <1>8. h \in best
    BY <1>7
  <1>9. best \in SUBSET DOMAIN s /\ best # {}
    BY <1>2, <1>8
  <1> DEFINE b == Least(best)
  <1>10. b \in best /\ \A j \in best : b <= j
    <2> HIDE DEF best
    <2> QED
      BY <1>9, LeastPlace
  <1>11. m = s[b]
    BY <1>1
  <1> HIDE DEF b, m
  <1>12. b \in open /\ \A j \in open : utility(j) <= utility(b)
    BY <1>10
  <1>13. b \in Unsatisfied(s, p, w) /\ utility(b) # NoUtility
    BY <1>2, <1>12
  <1>14. ASSUME NEW j \in Unsatisfied(s, p, w), utility(j) # NoUtility
         PROVE  utility(j) <= utility(b) /\ (utility(j) = utility(b) => b <= j)
    <2>1. j \in open
      BY <1>14
    <2>2. utility(j) = utility(b) => j \in best
      BY <1>12, <2>1
    <2> QED
      BY <1>10, <1>12, <2>1, <2>2
  <1> HIDE DEF open, best, u
  <1> QED
    BY <1>11, <1>13, <1>14 DEF Selected

\* What an agent may pursue is a motive.
LEMMA CandidateTyped ==
    ASSUME UtilityIsOrdered, NEW a, AgentTyped(a)
    PROVE  Candidate(a) \in Motive \cup {NoMotive}
  <1>1. a.motives \in Seq(Motive) /\ a.priority \in [Motive -> Int] /\ a.world \in State
    BY DEF AgentTyped, Agent
  <1>2. \A m : Selected(a.motives, a.priority, a.world, m) => m \in Motive
    <2>1. \A i \in DOMAIN a.motives : a.motives[i] \in Motive
      BY <1>1, LenProperties, ElementOfSeq
    <2> QED
      BY <2>1 DEF Selected, Unsatisfied, Wanted
  <1> QED
    BY <1>1, <1>2, SelectedGoalIsBest DEF Candidate

\* A motive is given a priority.
LEMMA PriorityTyped ==
    ASSUME NEW s, NEW p \in [Motive -> Int], NEW name, NEW v \in Int
    PROVE  /\ SetPriorityByName(s, p, name, v) \in [Motive -> Int]
           /\ Satisfy(s, p, name) \in [Motive -> Int]
  <1>1. ASSUME NEW m, NEW x \in Int PROVE SetPriority(p, m, x) \in [Motive -> Int]
    <2> DEFINE y == IF m \in Persistent /\ x <= 0 THEN 1 ELSE x
    <2>1. y \in Int
      OBVIOUS
    <2>2. SetPriority(p, m, x) = [p EXCEPT ![m] = y]
      BY DEF SetPriority
    <2> HIDE DEF y
    <2> QED
      BY <2>1, <2>2
  <1>2. \A x \in Int : SetPriorityByName(s, p, name, x) \in [Motive -> Int]
    BY <1>1 DEF SetPriorityByName
  <1> QED
    BY <1>2 DEF Satisfy

\* A motive is taken from the vector.
LEMMA RemovedTyped ==
    ASSUME NEW s \in Seq(Motive), NEW m
    PROVE  RemoveMotive(s, m) \in Seq(Motive)
  <1> DEFINE n == Len(s)
             S == Seq(Motive)
             Kept(f) == [i \in 0..n |-> IF i = 0 THEN <<>>
                                        ELSE IF s[i] = m THEN f[i - 1]
                                        ELSE Append(f[i - 1], s[i])]
             F == [i \in 1..n |-> [x \in S |-> IF s[i] = m THEN x ELSE Append(x, s[i])]]
             c == CHOOSE f : f = Kept(f)
  <1>1. n \in Nat /\ \A i \in 1..n : s[i] \in Motive
    BY LenProperties, ElementOfSeq
  <1>2. RemoveMotive(s, m) = c[n]
    BY DEF RemoveMotive
  <1>3. <<>> \in S
    OBVIOUS
  <1>4. \A i \in 1..n, x \in S : Append(x, s[i]) \in S
    BY <1>1, AppendProperties
  <1>5. AreSteps(F, n, S)
    BY <1>4 DEF AreSteps
  <1> HIDE DEF S
  <1>6. \A i \in 1..n, x \in S : F[i][x] = IF s[i] = m THEN x ELSE Append(x, s[i])
    OBVIOUS
  <1> HIDE DEF F, n
  <1>7. PICK f \in [0..n -> S] : f[0] = <<>> /\ \A i \in 1..n : f[i] = F[i][f[i - 1]]
    <2>1. Follow(F, n, S, <<>>)
      BY <1>1, <1>3, <1>5, Computed
    <2> QED
      BY <2>1 DEF Follow
  <1>8. \A i \in 1..n : i - 1 \in 0..n
    BY <1>1
  <1>9. \A i \in 1..n : f[i] = IF s[i] = m THEN f[i - 1] ELSE Append(f[i - 1], s[i])
    BY <1>6, <1>7, <1>8
  <1>10. f = Kept(f)
    <2>1. ASSUME NEW i \in 0..n
          PROVE  f[i] = IF i = 0 THEN <<>>
                        ELSE IF s[i] = m THEN f[i - 1] ELSE Append(f[i - 1], s[i])
      <3>1. i = 0 \/ i \in 1..n
        BY <1>1
      <3> QED
        BY <1>7, <1>9, <3>1
    <2>2. f = [i \in 0..n |-> f[i]]
      OBVIOUS
    <2> QED
      BY <2>1, <2>2
  <1>11. c = Kept(c)
    BY <1>10
  <1> HIDE DEF c
  <1> DEFINE T == {k \in Nat : k <= n => c[k] \in S}
  <1>12. 0 \in T
    BY <1>1, <1>3, <1>11
  <1>13. ASSUME NEW k \in Nat, k \in T PROVE k + 1 \in T
    <2> SUFFICES ASSUME k + 1 <= n PROVE c[k + 1] \in S
      OBVIOUS
    <2>1. c[k] \in S /\ k + 1 \in 1..n /\ k + 1 \in 0..n /\ (k + 1) - 1 = k /\ k + 1 # 0
      BY <1>1, <1>13
    <2>2. c[k + 1] = IF s[k + 1] = m THEN c[k] ELSE Append(c[k], s[k + 1])
      BY <1>11, <2>1
    <2> QED
      BY <1>4, <2>1, <2>2
  <1> HIDE DEF T
  <1>14. n \in T
    BY <1>1, <1>12, <1>13, Upward
  <1>15. c[n] \in S
    BY <1>1, <1>14 DEF T
  <1> QED
    BY <1>2, <1>15 DEF S

-----------------------------------------------------------------------------
(* The methods of the agent keep the types *)

\* What a planner answers.
LEMMA AnswersTyped ==
    ASSUME NEW a, NEW r \in Answers(a)
    PROVE  r \in PlanResult
  <1>1. \A y \in BOOLEAN, p \in Plan : [success |-> y, actions |-> p] \in PlanResult
    BY DEF PlanResult
  <1>2. \E y \in BOOLEAN, p \in Plan : r = [success |-> y, actions |-> p]
    BY EmptyPlanAssumption DEF Answers, NoPlan
  <1> QED
    BY <1>1, <1>2

\* kick_off_planning().
LEMMA KickOffTyped ==
    ASSUME NEW a, AgentTyped(a), NEW b \in KickOff(a)
    PROVE  AgentTyped(b)
  <1> DEFINE t == TransitionTo(a, "Planning")
             n == Capped(t.searches, a.config.maxConsecutiveFailures)
             p == [t EXCEPT !.searches = n]
             busy == a.status \in {"Planning", "Executing"}
             e == [a EXCEPT !.threw = busy]
  <1>1. AgentTyped(t)
    BY TransitionTyped DEF AgentStatus
  <1>2. n \in Nat
    <2>1. a.config \in Config /\ t.searches \in Nat
      BY <1>1 DEF AgentTyped, Agent
    <2>2. a.config.maxConsecutiveFailures \in Nat
      BY <2>1, ConfigAssumption
    <2> HIDE DEF t
    <2> QED
      BY <2>1, <2>2 DEF Capped
  <1>3. \/ b = e
        \/ \E r \in Answers(p) : b = OnPlanReceived(p, r)
        \/ \E r \in Answers(p) :
              b = [p EXCEPT !.job = [state |-> "searching", answer |-> r, goal |-> p.goal]]
    BY DEF KickOff
  <1>7. busy \in BOOLEAN
    OBVIOUS
  <1> HIDE DEF n, t, busy
  <1>8. AgentTyped(e)
    BY <1>7, FieldsTyped
  <1> HIDE DEF e
  <1>4. AgentTyped(p)
    BY <1>1, <1>2, FieldsTyped
  <1> HIDE DEF p
  <1>5. ASSUME NEW r \in Answers(p) PROVE AgentTyped(OnPlanReceived(p, r))
    BY <1>4, AnswersTyped, OnPlanTyped
  <1>6. ASSUME NEW r \in Answers(p)
        PROVE  AgentTyped([p EXCEPT !.job = [state |-> "searching", answer |-> r, goal |-> p.goal]])
    <2> DEFINE j == [state |-> "searching", answer |-> r, goal |-> p.goal]
    <2>1. r \in PlanResult /\ p.goal \in State
      BY <1>4, AnswersTyped DEF AgentTyped, Agent
    <2>2. j \in Job
      BY <2>1 DEF Job
    <2> HIDE DEF j
    <2>3. AgentTyped([p EXCEPT !.job = j])
      BY <1>4, <2>2, FieldsTyped
    <2> QED
      BY <2>3 DEF j
  <1> QED
    BY <1>3, <1>5, <1>6, <1>8

\* The thread delivers its answer.
LEMMA DeliverTyped ==
    ASSUME NEW a, AgentTyped(a)
    PROVE  AgentTyped(Deliver(a))
  <1>1. AgentTyped([a EXCEPT !.job.state = "done"]) /\ a.job.answer \in PlanResult
    BY JobTyped
  <1> QED
    BY <1>1, OnPlanTyped DEF Deliver

\* cancel_planning().
LEMMA CancelTyped ==
    ASSUME NEW a, AgentTyped(a), NEW b \in CancelPlanning(a)
    PROVE  AgentTyped(b)
  <1> DEFINE over == [a EXCEPT !.job.state = "done"]
  <1>1. b \in {a, over, [over EXCEPT !.job.answer = NoPlan], Deliver(a)}
    BY DEF CancelPlanning
  <1>2. NoPlan \in PlanResult
    BY EmptyPlanAssumption DEF NoPlan, PlanResult
  <1>3. AgentTyped(over)
    BY JobTyped
  <1> HIDE DEF over
  <1>4. AgentTyped([over EXCEPT !.job.answer = NoPlan])
    BY <1>2, <1>3, JobTyped
  <1> QED
    BY <1>1, <1>3, <1>4, DeliverTyped

\* Whatever stops an agent.
LEMMA HaltTyped ==
    ASSUME NEW a, AgentTyped(a), NEW s \in AgentStatus, NEW b \in Halt(a, s)
    PROVE  AgentTyped(b)
  <1>1. PICK c \in CancelPlanning(a) :
            b = TransitionTo([c EXCEPT !.ex = ExInterrupt(@), !.cached = NoAction], s)
    BY DEF Halt
  <1>2. AgentTyped(c)
    BY CancelTyped
  <1> DEFINE f == ExInterrupt(c.ex)
             d == [c EXCEPT !.ex = f]
             e == [d EXCEPT !.cached = NoAction]
  <1>3. Intact(f)
    BY <1>2, StopIntact DEF AgentTyped
  <1>4. b = TransitionTo(e, s)
    BY <1>1
  <1> HIDE DEF f
  <1>5. AgentTyped(d)
    BY <1>2, <1>3, FieldsTyped
  <1> HIDE DEF d
  <1>6. AgentTyped(e)
    BY <1>5, FieldsTyped
  <1> HIDE DEF e
  <1> QED
    BY <1>4, <1>6, TransitionTyped

\* A motive is taken up with its goal.
LEMMA AdoptTyped ==
    ASSUME NEW a, AgentTyped(a), NEW m \in Motive
    PROVE  AgentTyped(Adopt(a, m))
  <1> DEFINE b == [a EXCEPT !.active = m]
  <1>1. AgentTyped(b)
    BY FieldsTyped
  <1>2. Adopt(a, m) = [b EXCEPT !.goal = GoalOf[m]]
    BY DEF Adopt
  <1> HIDE DEF b
  <1>3. GoalOf[m] \in State
    BY MotiveAssumption
  <1> QED
    BY <1>1, <1>2, <1>3, FieldsTyped

\* The candidate is adopted and a search for it started.
LEMMA SelectTyped ==
    ASSUME UtilityIsOrdered, NEW a, AgentTyped(a), MaySelect(a), NEW b \in SelectAndPlan(a)
    PROVE  AgentTyped(b)
  <1>1. Candidate(a) \in Motive
    BY CandidateTyped DEF MaySelect
  <1>2. AgentTyped(Adopt(a, Candidate(a)))
    BY <1>1, AdoptTyped
  <1> QED
    BY <1>2, KickOffTyped DEF SelectAndPlan

\* force_replan().
LEMMA ForceReplanTyped ==
    ASSUME UtilityIsOrdered, NEW a, AgentTyped(a), NEW b \in AgentForceReplan(a)
    PROVE  AgentTyped(b)
  <1>1. PICK c \in CancelPlanning(a) :
            LET r == [c EXCEPT !.ex = ExReset(@), !.cached = NoAction]
            IN  b \in IF MaySelect(r) THEN SelectAndPlan(r) ELSE {TransitionTo(r, "Idle")}
    BY DEF AgentForceReplan
  <1> DEFINE f == ExReset(c.ex)
             d == [c EXCEPT !.ex = f]
             e == [d EXCEPT !.cached = NoAction]
  <1>2. AgentTyped(c)
    BY CancelTyped
  <1>3. Intact(f)
    BY <1>2, StopIntact DEF AgentTyped
  <1>4. b \in IF MaySelect(e) THEN SelectAndPlan(e) ELSE {TransitionTo(e, "Idle")}
    BY <1>1
  <1> HIDE DEF f
  <1>5. AgentTyped(d)
    BY <1>2, <1>3, FieldsTyped
  <1> HIDE DEF d
  <1>6. AgentTyped(e)
    BY <1>5, FieldsTyped
  <1> HIDE DEF e
  <1> QED
    BY <1>4, <1>6, SelectTyped, TransitionTyped DEF AgentStatus

\* A motive that is satisfied is retired.
LEMMA RetireTyped ==
    ASSUME NEW a, AgentTyped(a), NEW m
    PROVE  AgentTyped(RetireGoal(a, m))
  <1> DEFINE q == Satisfy(a.motives, a.priority, NameOf[m])
             b == [a EXCEPT !.priority = q]
             c == [b EXCEPT !.active = NoMotive]
  <1>1. q \in [Motive -> Int]
    <2>1. a.priority \in [Motive -> Int]
      BY DEF AgentTyped, Agent
    <2> QED
      BY <2>1, PriorityTyped
  <1>2. RetireGoal(a, m) = TransitionTo(c, "Idle")
    BY DEF RetireGoal
  <1> HIDE DEF q
  <1>3. AgentTyped(b)
    BY <1>1, FieldsTyped
  <1> HIDE DEF b
  <1>4. AgentTyped(c)
    BY <1>3, FieldsTyped
  <1> HIDE DEF c
  <1> QED
    BY <1>2, <1>4, TransitionTyped DEF AgentStatus

\* satisfy_motive().
LEMMA SatisfyTyped ==
    ASSUME NEW a, AgentTyped(a), NEW name, NEW b \in AgentSatisfyMotive(a, name)
    PROVE  AgentTyped(b)
  <1> DEFINE q == Satisfy(a.motives, a.priority, name)
             c == [a EXCEPT !.priority = q]
             d == [c EXCEPT !.active = NoMotive]
  <1>1. q \in [Motive -> Int]
    <2>1. a.priority \in [Motive -> Int]
      BY DEF AgentTyped, Agent
    <2> QED
      BY <2>1, PriorityTyped
  <1>2. b = c \/ b \in Halt(d, "Idle")
    BY DEF AgentSatisfyMotive
  <1> HIDE DEF q
  <1>3. AgentTyped(c)
    BY <1>1, FieldsTyped
  <1> HIDE DEF c
  <1>4. AgentTyped(d)
    BY <1>3, FieldsTyped
  <1> HIDE DEF d
  <1> QED
    BY <1>2, <1>3, <1>4, HaltTyped DEF AgentStatus

\* phase_idle().
LEMMA PhaseIdleTyped ==
    ASSUME UtilityIsOrdered, NEW a, AgentTyped(a), NEW c \in PhaseIdle(a)
    PROVE  AgentTyped(c)
  <1> DEFINE wanted == Wanted(a.motives, a.priority)
             met == {i \in wanted : IsSatisfied(a.motives[i], a.world)}
             t == IF a.status = "NoMotives" THEN TransitionTo(a, "Idle") ELSE a
             dirty == IF met = {} THEN FALSE ELSE t.dirty
             b == [t EXCEPT !.dirty = dirty]
  <1>1. AgentTyped(t)
    BY TransitionTyped DEF AgentStatus
  <1>2. \/ c = a \/ c = b \/ c = TransitionTo(a, "NoMotives")
        \/ \E m : c = RetireGoal(b, m)
        \/ c \in KickOff(b)
        \/ MaySelect(b) /\ c \in SelectAndPlan(b)
    BY DEF PhaseIdle
  <1> HIDE DEF t, met
  <1>3. dirty \in BOOLEAN
    BY <1>1 DEF AgentTyped, Agent
  <1> HIDE DEF dirty
  <1>4. AgentTyped(b)
    BY <1>1, <1>3, FieldsTyped
  <1> HIDE DEF b
  <1>5. AgentTyped(TransitionTo(a, "NoMotives"))
    BY TransitionTyped DEF AgentStatus
  <1> QED
    BY <1>2, <1>4, <1>5, RetireTyped, KickOffTyped, SelectTyped

\* handle_execution_result().
LEMMA ResultTyped ==
    ASSUME UtilityIsOrdered, NEW a, AgentTyped(a), NEW s, NEW at \in Nat,
           NEW c \in HandleExecutionResult(a, s, at)
    PROVE  AgentTyped(c)
  <1> DEFINE b == [a EXCEPT !.cached = NoAction]
             i == IF at > 0 THEN at - 1 ELSE 0
             r == Report(a, i)
             d == [r EXCEPT !.cached = NoAction]
             x == a.ex.action
             e == [a EXCEPT !.cached = x]
  <1>1. \/ c = a \/ c = r \/ c = e
        \/ c = TransitionTo(d, "Idle") \/ c = TransitionTo(b, "Idle")
        \/ c \in AgentForceReplan(a)
    BY DEF HandleExecutionResult, StillRunning
  <1>2. AgentTyped(r)
    <2> DEFINE v == IF i >= Len(a.ex.plan) THEN a.reported ELSE a.ex.plan[i + 1]
    <2>1. a.ex.plan \in Seq(Action) /\ a.reported \in Action \cup {NoAction}
      BY DEF AgentTyped, Intact, WellFormed, Executor, Agent
    <2>2. i \in Nat
      OBVIOUS
    <2> HIDE DEF i
    <2>3. ~(i >= Len(a.ex.plan)) => i + 1 \in 1 .. Len(a.ex.plan)
      BY <2>1, <2>2
    <2>4. v \in Action \cup {NoAction}
      BY <2>1, <2>3, ElementOfSeq
    <2>5. r = [a EXCEPT !.reported = v]
      BY DEF Report
    <2> HIDE DEF v, r
    <2>6. AgentTyped([a EXCEPT !.reported = v])
      BY <2>4, FieldsTyped
    <2> QED
      BY <2>5, <2>6
  <1>3. x \in Action \cup {NoAction}
    BY DEF AgentTyped, Intact, WellFormed, Executor
  <1> HIDE DEF r, x
  <1>4. AgentTyped(b) /\ AgentTyped(d) /\ AgentTyped(e)
    BY <1>2, <1>3, FieldsTyped
  <1> HIDE DEF b, d, e
  <1>5. AgentTyped(TransitionTo(d, "Idle")) /\ AgentTyped(TransitionTo(b, "Idle"))
    BY <1>4, TransitionTyped DEF AgentStatus
  <1> QED
    BY <1>1, <1>2, <1>4, <1>5, ForceReplanTyped

\* phase_executing().
LEMMA PhaseExecutingTyped ==
    ASSUME UtilityIsOrdered, NEW before, AgentTyped(before), NEW c \in PhaseExecuting(before)
    PROVE  AgentTyped(c)
  <1> DEFINE a == [before EXCEPT !.dirty = FALSE]
             m == Candidate(a)
             f == ExInterrupt(a.ex)
             i == [a EXCEPT !.ex = f]
             r == [i EXCEPT !.cached = NoAction]
  <1>1. \/ /\ m # NoMotive
           /\ \E b \in CancelPlanning(i) : c \in KickOff(Adopt([b EXCEPT !.cached = NoAction], m))
        \/ c = RetireGoal(r, a.active)
        \/ \E o \in ExTick(a.ex, a.world) :
              c \in HandleExecutionResult([a EXCEPT !.ex = o.ex, !.world = o.world],
                                          o.status, o.index)
    BY DEF PhaseExecuting
  <1>2. AgentTyped(a)
    BY FieldsTyped
  <1> HIDE DEF a
  <1>3. Intact(a.ex) /\ a.world \in State /\ Intact(f)
    BY <1>2, StopIntact DEF AgentTyped, Agent
  <1> HIDE DEF f
  <1>4. AgentTyped(i)
    BY <1>2, <1>3, FieldsTyped
  <1> HIDE DEF i
  <1>5. AgentTyped(r)
    BY <1>4, FieldsTyped
  <1> HIDE DEF r
  <1>6. ASSUME m # NoMotive, NEW b \in CancelPlanning(i),
               c \in KickOff(Adopt([b EXCEPT !.cached = NoAction], m))
        PROVE  AgentTyped(c)
    <2> DEFINE d == [b EXCEPT !.cached = NoAction]
    <2>1. AgentTyped(b)
      BY <1>4, CancelTyped
    <2>2. AgentTyped(d)
      BY <2>1, FieldsTyped
    <2>3. m \in Motive
      BY <1>2, <1>6, CandidateTyped
    <2>4. c \in KickOff(Adopt(d, m))
      BY <1>6
    <2> HIDE DEF d, m
    <2>5. AgentTyped(Adopt(d, m))
      BY <2>2, <2>3, AdoptTyped
    <2> QED
      BY <2>4, <2>5, KickOffTyped
  <1>7. ASSUME NEW o \in ExTick(a.ex, a.world),
               c \in HandleExecutionResult([a EXCEPT !.ex = o.ex, !.world = o.world],
                                           o.status, o.index)
        PROVE  AgentTyped(c)
    <2> DEFINE x == o.ex
               w == o.world
               d == [a EXCEPT !.ex = x]
               e == [d EXCEPT !.world = w]
    <2>1. Intact(x) /\ w \in State /\ o.index \in Nat
      BY <1>3, TickIntact, TickIndex
    <2>2. c \in HandleExecutionResult(e, o.status, o.index)
      BY <1>7
    <2> HIDE DEF x, w
    <2>3. AgentTyped(d)
      BY <1>2, <2>1, FieldsTyped
    <2> HIDE DEF d
    <2>4. AgentTyped(e)
      BY <2>1, <2>3, FieldsTyped
    <2> HIDE DEF e
    <2> QED
      BY <2>1, <2>2, <2>4, ResultTyped
  <1> HIDE DEF m
  <1> QED
    BY <1>1, <1>5, <1>6, <1>7, RetireTyped

-----------------------------------------------------------------------------
(* Steps keep the types *)

\* Types, with the executor's fields in step, are inductive.
TypeInv == AgentTyped(agent) /\ polling \in BOOLEAN

\* Forgetting what was told.
LEMMA NowTyped ==
    ASSUME AgentTyped(agent)
    PROVE  AgentTyped(Now)
  <1> DEFINE f == Observe(agent.ex)
             b == [agent EXCEPT !.ex = f]
  <1>1. Intact(f)
    BY ObserveIntact DEF AgentTyped
  <1>2. Now = [b EXCEPT !.reported = NoAction]
    BY DEF Now
  <1> HIDE DEF f
  <1>3. AgentTyped(b)
    BY <1>1, FieldsTyped
  <1> HIDE DEF b
  <1>4. AgentTyped([b EXCEPT !.reported = NoAction])
    BY <1>3, FieldsTyped
  <1> QED
    BY <1>2, <1>4

\* A step that counts a tick.
LEMMA TickedTyped ==
    ASSUME AgentTyped(agent)
    PROVE  AgentTyped(Ticked)
  <1> DEFINE k == agent.config.goalRecheckInterval
             n == IF k = 0 THEN 0 ELSE (Now.ticks + 1) % k
  <1>1. AgentTyped(Now)
    BY NowTyped
  <1>2. Ticked = [Now EXCEPT !.ticks = n]
    BY DEF Ticked
  <1>3. k \in Nat /\ Now.ticks \in Nat
    <2>1. agent.config \in Config
      BY DEF AgentTyped, Agent
    <2>2. Now.ticks \in Nat
      BY <1>1 DEF AgentTyped, Agent
    <2> QED
      BY <2>1, <2>2, ConfigAssumption
  <1> HIDE DEF k
  <1>4. n \in Nat
    <2>1. PICK t \in Nat : t = Now.ticks + 1
      BY <1>3
    <2>2. k # 0 => t % k \in 0..(k - 1)
      BY <1>3, <2>1
    <2> QED
      BY <1>3, <2>1, <2>2
  <1> HIDE DEF n
  <1>5. AgentTyped([Now EXCEPT !.ticks = n])
    BY <1>1, <1>4, FieldsTyped
  <1> QED
    BY <1>2, <1>5

\* A new agent.
LEMMA InitTyped == Init => TypeInv
  <1> SUFFICES ASSUME Init PROVE TypeInv
    OBVIOUS
  <1> DEFINE e == NewExecutor(TRUE, FALSE)
  <1>1. PICK c \in Config, w \in World, hasHeuristic \in BOOLEAN :
            agent = [config |-> c, status |-> "Idle", world |-> w, motives |-> FirstMotives,
                     priority |-> FirstPriority, ex |-> e,
                     hasHeuristic |-> hasHeuristic, actions |-> Action,
                     active |-> NoMotive, goal |-> EmptyState, ticks |-> 0,
                     failures |-> 0, dirty |-> FALSE, cached |-> NoAction,
                     job |-> NoJob, searches |-> 0, reported |-> NoAction, threw |-> FALSE]
    BY DEF Init
  <1>2. EmptyState \in State /\ <<>> \in Seq(Action) /\ <<>> \in Seq(CallKind \X Action)
    BY DEF EmptyState, State
  <1>3. e \in Executor /\ Consistent(e) /\ ~e.autoReplan /\ ~e.crashed
    BY <1>2 DEF NewExecutor, Executor, ExecutionStatus, Consistent
  <1>4. NoJob \in Job
    BY <1>2, EmptyPlanAssumption DEF NoJob, NoPlan, Job, PlanResult
  <1>5. w \in State /\ FirstMotives \in Seq(Motive) /\ FirstPriority \in [Motive -> Int]
    BY GameAssumption
  <1> HIDE DEF e
  <1>6. agent \in Agent /\ agent.ex = e
    BY <1>1, <1>2, <1>3, <1>4, <1>5 DEF Agent, AgentStatus
  <1> QED
    BY <1>3, <1>6 DEF Init, TypeInv, AgentTyped, Intact, WellFormed

\* A method that returns leaves the types if every outcome is well.
LEMMA CallsTyped ==
    ASSUME NEW outcomes, Calls(outcomes), TypeInv, \A a \in outcomes : AgentTyped(a)
    PROVE  TypeInv'
  BY DEF Calls, TypeInv

\* So does one that leaves one outcome.
LEMMA CallTyped ==
    ASSUME NEW a, Calls({a}), TypeInv, AgentTyped(a)
    PROVE  TypeInv'
  BY CallsTyped

\* A tick.
LEMMA TickTyped == UtilityIsOrdered /\ TypeInv /\ Tick => TypeInv'
  <1> SUFFICES ASSUME UtilityIsOrdered, TypeInv, Tick PROVE TypeInv'
    OBVIOUS
  <1>1. AgentTyped(Ticked) /\ AgentTyped(Now) /\ AgentTyped(agent)
    BY NowTyped, TickedTyped DEF TypeInv
  <1>2. CASE TickIdle
    BY <1>1, <1>2, CallsTyped, PhaseIdleTyped DEF TickIdle
  <1>3. CASE TickExecuting
    BY <1>1, <1>3, CallsTyped, PhaseExecutingTyped DEF TickExecuting
  <1>4. CASE TickPlanning
    BY <1>1, <1>4 DEF TickPlanning, TypeInv
  <1>5. CASE Poll
    <2> DEFINE d == [Now EXCEPT !.job.state = "none"]
    <2>1. /\ ~polling' /\ polling' \in BOOLEAN
          /\ agent' = IF agent.job.state = "done" THEN OnPlanReceived(d, agent.job.answer)
                      ELSE Now
      BY <1>5 DEF Poll
    <2>2. AgentTyped(d) /\ agent.job.answer \in PlanResult
      BY <1>1, JobTyped
    <2> HIDE DEF d
    <2>3. AgentTyped(OnPlanReceived(d, agent.job.answer))
      BY <2>2, OnPlanTyped
    <2> QED
      BY <1>1, <2>1, <2>3 DEF TypeInv
  <1>6. CASE TickInterrupted
    BY <1>1, <1>6, CallTyped DEF TickInterrupted
  <1> QED
    BY <1>2, <1>3, <1>4, <1>5, <1>6 DEF Tick

\* What the game does while it plays.
LEMMA GameTyped == UtilityIsOrdered /\ TypeInv /\ Game => TypeInv'
  <1> SUFFICES ASSUME UtilityIsOrdered, TypeInv, Game PROVE TypeInv'
    OBVIOUS
  <1> DEFINE n == Now
  <1>1. AgentTyped(n) /\ agent.world \in State
    BY NowTyped DEF TypeInv, AgentTyped, Agent
  <1>2. CASE WriteWorld
    <2>1. PICK d \in Write, marks \in BOOLEAN :
              Calls({[n EXCEPT !.world = w, !.dirty = @ \/ marks] : w \in Written(agent.world, d)})
      BY <1>2 DEF WriteWorld
    <2> HIDE DEF n
    <2>2. ASSUME NEW w \in Written(agent.world, d)
          PROVE  AgentTyped([n EXCEPT !.world = w, !.dirty = @ \/ marks])
      <3> DEFINE b == [n EXCEPT !.world = w]
                 dirty == b.dirty \/ marks
      <3>1. w \in State
        BY <1>1, WrittenTyped, GameAssumption
      <3>2. AgentTyped(b)
        BY <1>1, <3>1, FieldsTyped
      <3>3. [n EXCEPT !.world = w, !.dirty = @ \/ marks] = [b EXCEPT !.dirty = dirty]
        OBVIOUS
      <3> HIDE DEF b
      <3>4. dirty \in BOOLEAN
        OBVIOUS
      <3> HIDE DEF dirty
      <3> QED
        BY <3>2, <3>3, <3>4, FieldsTyped
    <2> QED
      BY <2>1, <2>2, CallsTyped
  <1>3. CASE MarkWorldDirty
    <2>1. AgentTyped([n EXCEPT !.dirty = TRUE])
      <3> HIDE DEF n
      <3> QED
        BY <1>1, FieldsTyped
    <2> QED
      BY <1>3, <2>1, CallTyped DEF MarkWorldDirty
  <1>4. CASE Interrupt
    <2>1. \A c \in AgentInterrupt(n) : AgentTyped(c)
      BY <1>1, HaltTyped DEF AgentInterrupt, AgentStatus
    <2> QED
      BY <1>4, <2>1, CallsTyped DEF Interrupt
  <1>5. CASE Resume
    <2>1. AgentTyped(AgentResume(n))
      BY <1>1, TransitionTyped DEF AgentResume, AgentStatus
    <2> QED
      BY <1>5, <2>1, CallTyped DEF Resume
  <1>6. CASE ForceReplan
    BY <1>1, <1>6, CallsTyped, ForceReplanTyped DEF ForceReplan
  <1> QED
    BY <1>2, <1>3, <1>4, <1>5, <1>6, TickTyped DEF Game

\* Changes of the registered motives, actions and heuristic.
LEMMA RegistryTyped == TypeInv /\ Registry => TypeInv'
  <1> SUFFICES ASSUME TypeInv, Registry PROVE TypeInv'
    OBVIOUS
  <1> DEFINE n == Now
  <1>1. AgentTyped(n)
    BY NowTyped DEF TypeInv
  <1>2. /\ agent.motives \in Seq(Motive) /\ n.motives \in Seq(Motive) /\ n.actions \in SUBSET Action
        /\ n.priority \in [Motive -> Int]
    BY <1>1 DEF TypeInv, AgentTyped, Agent
  <1> HIDE DEF n
  <1>3. ASSUME NEW m \in Motive, Calls(AgentSatisfyMotive(n, NameOf[m])) PROVE TypeInv'
    BY <1>1, <1>3, CallsTyped, SatisfyTyped
  <1>4. ASSUME NEW m \in Motive, NEW p \in Priorities,
               Calls({[n EXCEPT !.priority = SetPriorityByName(agent.motives, @, NameOf[m], p)]})
        PROVE  TypeInv'
    <2> DEFINE q == SetPriorityByName(agent.motives, n.priority, NameOf[m], p)
    <2>1. p \in Int
      BY GameAssumption
    <2>2. q \in [Motive -> Int]
      BY <1>2, <2>1, PriorityTyped
    <2>3. Calls({[n EXCEPT !.priority = q]})
      BY <1>4
    <2> HIDE DEF q
    <2>4. AgentTyped([n EXCEPT !.priority = q])
      BY <1>1, <2>2, FieldsTyped
    <2> QED
      BY <2>3, <2>4, CallTyped
  <1>5. ASSUME NEW s \in Seq(Motive) PROVE AgentTyped([n EXCEPT !.motives = s])
    BY <1>1, <1>5, FieldsTyped
  <1>6. ASSUME NEW m \in Motive, Calls({[n EXCEPT !.motives = AddMotive(@, m)]}) PROVE TypeInv'
    <2> DEFINE s == AddMotive(n.motives, m)
    <2>1. s \in Seq(Motive)
      BY <1>2, AppendToSeq DEF AddMotive
    <2>2. Calls({[n EXCEPT !.motives = s]})
      BY <1>6
    <2> HIDE DEF s
    <2> QED
      BY <1>5, <2>1, <2>2, CallTyped
  <1>7. ASSUME NEW m \in Motive, Calls({[n EXCEPT !.motives = RemoveMotive(@, m)]}) PROVE TypeInv'
    <2> DEFINE s == RemoveMotive(n.motives, m)
    <2>1. s \in Seq(Motive)
      BY <1>2, RemovedTyped
    <2>2. Calls({[n EXCEPT !.motives = s]})
      BY <1>7
    <2> HIDE DEF s
    <2> QED
      BY <1>5, <2>1, <2>2, CallTyped
  <1>8. ASSUME Calls({[n EXCEPT !.motives = <<>>]}) PROVE TypeInv'
    <2>1. <<>> \in Seq(Motive)
      OBVIOUS
    <2>2. AgentTyped([n EXCEPT !.motives = <<>>])
      BY <1>5, <2>1
    <2> QED
      BY <1>8, <2>2, CallTyped
  <1>9. ASSUME NEW A \in SUBSET Action, Calls({[n EXCEPT !.actions = A]}) PROVE TypeInv'
    <2>1. AgentTyped([n EXCEPT !.actions = A])
      BY <1>1, <1>9, FieldsTyped
    <2> QED
      BY <1>9, <2>1, CallTyped
  <1>10. ASSUME NEW x \in Action,
                Calls({[n EXCEPT !.actions = @ \cup {x}]}) \/ Calls({[n EXCEPT !.actions = @ \ {x}]})
         PROVE  TypeInv'
    <2> DEFINE A == n.actions \cup {x}
               B == n.actions \ {x}
    <2>1. A \in SUBSET Action /\ B \in SUBSET Action
      BY <1>2
    <2>2. Calls({[n EXCEPT !.actions = A]}) \/ Calls({[n EXCEPT !.actions = B]})
      BY <1>10
    <2> HIDE DEF A, B
    <2> QED
      BY <1>9, <2>1, <2>2
  <1>11. ASSUME NEW given \in BOOLEAN, Calls({[n EXCEPT !.hasHeuristic = given]})
         PROVE  TypeInv'
    <2>1. AgentTyped([n EXCEPT !.hasHeuristic = given])
      BY <1>1, FieldsTyped
    <2> QED
      BY <1>11, <2>1, CallTyped
  <1>12. CASE SatisfyMotive
    BY <1>3, <1>12 DEF SatisfyMotive, n
  <1>13. CASE SetMotivePriority
    BY <1>4, <1>13 DEF SetMotivePriority, n
  <1>14. CASE NewMotive
    BY <1>6, <1>14 DEF NewMotive, n
  <1>15. CASE DropMotive
    BY <1>7, <1>15 DEF DropMotive, n
  <1>16. CASE ClearMotives
    BY <1>8, <1>16 DEF ClearMotives, n
  <1>17. CASE NewAction \/ DropAction
    BY <1>10, <1>17 DEF NewAction, DropAction, n
  <1>18. CASE ClearActions
    <2>1. Calls({[n EXCEPT !.actions = {}]})
      BY <1>18 DEF ClearActions, n
    <2>2. {} \in SUBSET Action
      OBVIOUS
    <2> QED
      BY <1>9, <2>1, <2>2
  <1>19. CASE SetHeuristic
    BY <1>11, <1>19 DEF SetHeuristic, n
  <1> QED
    BY <1>12, <1>13, <1>14, <1>15, <1>16, <1>17, <1>18, <1>19 DEF Registry

\* The thread of the job.
LEMMA WorkerTyped == TypeInv /\ Worker => TypeInv'
  <1> SUFFICES ASSUME TypeInv, Worker PROVE TypeInv'
    OBVIOUS
  <1>1. AgentTyped(Now)
    BY NowTyped DEF TypeInv
  <1>2. AgentTyped([Now EXCEPT !.job.state = "cleared"]) /\ AgentTyped(Deliver(Now))
    BY <1>1, JobTyped, DeliverTyped
  <1> QED
    BY <1>2 DEF Worker, SearchEnds, Callback, TypeInv

\* Any step.
LEMMA StepTyped == UtilityIsOrdered /\ TypeInv /\ [Next]_vars => TypeInv'
  <1> SUFFICES ASSUME UtilityIsOrdered, TypeInv, [Next]_vars PROVE TypeInv'
    OBVIOUS
  <1>1. CASE UNCHANGED vars
    BY <1>1 DEF vars, TypeInv
  <1> QED
    BY <1>1, GameTyped, RegistryTyped, WorkerTyped DEF Next

\* The invariant holds of every reachable state.
LEMMA TypeHolds ==
    ASSUME UtilityIsOrdered
    PROVE  Spec => []TypeInv
  <1>1. TypeInv /\ [Next]_vars => TypeInv'
    BY StepTyped
  <1> QED
    BY <1>1, InitTyped, PTL DEF Spec

\* Every field of an agent keeps its type, whatever the game, the planner, the
\* actions and the thread of a search do (goap_agent.h:50-66): the active motive is
\* one of the game's, an answer is a plan of the planner's, the counters never
\* underflow.  The only assumption is that utilities are ordered, as floats
\* other than NaN are: without it no motive need be the best.
THEOREM TypesHold ==
    ASSUME UtilityIsOrdered
    PROVE  Spec => []TypeOK
  <1>1. TypeInv => TypeOK
    BY DEF TypeInv, AgentTyped, TypeOK
  <1> QED
    BY <1>1, TypeHolds, PTL

\* Inside an agent the executor never calls through a null current_action
\* (plan_executor.cpp:96), and its index, current action and action_started stay in
\* step (plan_executor.cpp:11-168), under every interleaving of ticks, interrupts,
\* replans and late answers: goap_agent switches auto_replan off (goap_agent.cpp:22).
THEOREM NullIsNeverCalled ==
    ASSUME UtilityIsOrdered
    PROVE  Spec => [](Consistent(agent.ex) /\ ~agent.ex.crashed)
  <1>1. TypeInv => Consistent(agent.ex) /\ ~agent.ex.crashed
    BY DEF TypeInv, AgentTyped, Intact, WellFormed
  <1> QED
    BY <1>1, TypeHolds, PTL
=============================================================================
