---------------------------- MODULE AgentThreads ----------------------------
(***************************************************************************)
(* The two threads of a goap_agent that plans in the background: the game, *)
(* which calls the agent's methods (src/src/goap_agent.cpp), and the       *)
(* searching thread, which calls on_plan_received.  It is AsyncPlanner     *)
(* with the agent as its caller, and what GoapAgent takes as one step is   *)
(* here as many as there are accesses another thread can see: a point is   *)
(* where a thread is about to touch the members that Reads and Writes name.*)
(*                                                                         *)
(* Kept of the agent is what both threads use; the motives, the world and  *)
(* the actions, which plan_async copies, are the game thread's alone and   *)
(* what it decides from them is left open, and so is whether a heuristic   *)
(* is set when kick_off_planning asks for it.                              *)
(***************************************************************************)
EXTENDS AsyncPlanner

CONSTANTS Goal,             \* the goal states
          MaxFailures       \* config.max_consecutive_failures

ASSUME ThreadsAssumption == Goal # {} /\ MaxFailures \in Nat \ {0}

VARIABLES
    game,           \* where the game thread is in the agent
    after,          \* where it goes on when cancel_planning has returned
    receiver,       \* where each thread is in on_plan_received: 0 is the game's
    seen,           \* consecutive_failures as its ++ has read it
    status, failures, goal,     \* status, consecutive_failures, active_goal_state
    threw,          \* status is still Planning or Executing from before a call that threw
    running,        \* the executor's status is Running ...
    planFor,        \* ... and goal_state the goal of its plan
    asked           \* the goal each job was launched for

fields == <<status, threw, failures, goal, running, planFor>>
mode == <<status, threw>>
points == <<game, after, receiver, seen>>
agentVars == <<points, fields, asked>>
threadVars == <<vars, agentVars>>

GamePoint == {"out", "tick", "idle", "kickoff", "launch", "launching", "isActive", "again",
              "poll", "received", "executing", "cancel", "interrupt", "replan", "satisfied",
              "switch", "resume", "resumed", "look", "destroy"}

ReceiverPoint == {"out", "begin", "count", "write", "compare", "idle", "tellIdle", "zero",
                  "failed", "clear", "found", "install", "run", "tell", "end"}

Receiver == 0..MaxJob

\* An idle agent, new or with failures behind it.
AgentInit ==
    /\ Init
    /\ game = "out" /\ after = "out" /\ status = "Idle" /\ threw = FALSE
    /\ receiver = [r \in Receiver |-> "out"] /\ seen = [r \in Receiver |-> 0]
    /\ failures \in 0..(MaxFailures - 1) /\ goal \in Goal /\ running = FALSE /\ planFor = goal
    /\ asked = [j \in Job |-> goal]

-----------------------------------------------------------------------------
(* The game's thread *)

At(p) == game = p /\ main = "idle"

GoesTo(p) == game' = p /\ UNCHANGED <<after, receiver, seen, asked>>

\* The status is set.
Becomes(s) == status' = s /\ threw' = FALSE

\* A call of cancel_planning, and then p.
CancelThen(p) ==
    /\ CallCancel /\ game' = "cancel" /\ after' = p
    /\ UNCHANGED <<receiver, seen, asked>>

\* Another plan_async can be counted (bound of the model).
MayPlan == source < MaxJob

\* tick() reads status.
StartTick == At("out") /\ GoesTo("tick") /\ UNCHANGED <<vars, fields>>

ReadStatus ==
    /\ At("tick")
    /\ GoesTo(CASE status \in {"NoMotives", "Idle", "PlanFailed"} -> "idle"
                [] status = "Planning" -> "isActive"
                [] status = "Executing" -> "executing"
                [] OTHER -> "out")
    /\ UNCHANGED <<vars, fields>>

\* phase_idle: nothing to do, no motives, a goal satisfied, or a goal to plan for,
\* the active one or another.
PhaseIdle ==
    /\ At("idle")
    /\ \/ GoesTo("out") /\ UNCHANGED fields
       \/ GoesTo("out") /\ (\E s \in {"NoMotives", "Idle"} : Becomes(s))
          /\ UNCHANGED <<failures, goal, running, planFor>>
       \/ MayPlan /\ GoesTo("kickoff") /\ goal' \in Goal
          /\ Becomes(IF status = "NoMotives" THEN "Idle" ELSE status)
          /\ UNCHANGED <<failures, running, planFor>>
    /\ UNCHANGED vars

\* kick_off_planning: transition_to(Planning), then plan_async; or no heuristic is
\* set, and what called it throws.
KickOff ==
    /\ At("kickoff")
    /\ \/ GoesTo("launch") /\ Becomes("Planning")
       \/ GoesTo("out") /\ threw' = (status \in {"Planning", "Executing"}) /\ UNCHANGED status
    /\ UNCHANGED <<vars, failures, goal, running, planFor>>

LaunchSearch ==
    /\ At("launch") /\ CallPlan /\ onCompleted'
    /\ game' = "launching" /\ asked' = [asked EXCEPT ![source + 1] = goal]
    /\ UNCHANGED <<after, receiver, seen, fields>>

\* Inside async_planner, and back.
InPlanner ==
    /\ MainStep
    /\ game' = IF main' # "idle" THEN game ELSE IF game = "launching" THEN "out" ELSE after
    /\ UNCHANGED <<after, receiver, seen, fields, asked>>

\* phase_planning: is_planning_active(), then status again, then try_get_result.
IsActive ==
    /\ At("isActive") /\ GoesTo(IF isPlanning THEN "out" ELSE "again")
    /\ UNCHANGED <<vars, fields>>

ReadStatusAgain ==
    /\ At("again") /\ GoesTo(IF status = "Planning" THEN "poll" ELSE "out")
    /\ UNCHANGED <<vars, fields>>

PollResult ==
    /\ At("poll")
    /\ \/ TryGetResult /\ game' = "received" /\ receiver' = [receiver EXCEPT ![0] = "begin"]
          /\ UNCHANGED <<after, seen, asked>>
       \/ ~(future # 0 /\ worker[future] = "done") /\ GoesTo("out") /\ UNCHANGED vars
    /\ UNCHANGED fields

\* phase_executing: another goal, a goal satisfied, an action going on, the plan
\* done, or failed and to be replaced.
PhaseExecuting ==
    /\ At("executing")
    /\ \/ MayPlan /\ CancelThen("switch") /\ running' = FALSE /\ UNCHANGED mode
       \/ GoesTo("out") /\ UNCHANGED <<vars, running, mode>>
       \/ GoesTo("out") /\ running' = FALSE /\ Becomes("Idle") /\ UNCHANGED vars
       \/ running /\ CancelThen("replan") /\ running' = FALSE /\ UNCHANGED mode
    /\ UNCHANGED <<failures, goal, planFor>>

\* Mutant of CallControl: the search is left to itself.
CallControlOnly ==
    /\ At("out")
    /\ \E p \in {"interrupt", "replan", "satisfied"} : GoesTo(p)
    /\ UNCHANGED <<vars, fields>>

\* interrupt, force_replan, and satisfy_motive of the active motive, each up to
\* the end of its cancel_planning.
CallControl ==
    /\ At("out")
    /\ \E p \in {"interrupt", "replan", "satisfied"} : CancelThen(p)
    /\ UNCHANGED fields

\* ... and what they do next.
Control(p, next) ==
    /\ At(p) /\ GoesTo("out") /\ running' = FALSE /\ Becomes(next)
    /\ UNCHANGED <<vars, failures, goal, planFor>>

\* The planning half of force_replan, and of a switch of goals.
PlanFor(p) ==
    /\ At(p) /\ MayPlan /\ GoesTo("kickoff")
    /\ running' = FALSE /\ goal' \in Goal
    /\ UNCHANGED <<vars, mode, failures, planFor>>

AfterCancel ==
    \/ Control("interrupt", "Interrupted") \/ Control("satisfied", "Idle")
    \/ Control("replan", "Idle") \/ PlanFor("replan") \/ PlanFor("switch")

CallResume == At("out") /\ GoesTo("resume") /\ UNCHANGED <<vars, fields>>

Resume ==
    \/ /\ At("resume") /\ GoesTo(IF status = "Interrupted" THEN "resumed" ELSE "out")
       /\ UNCHANGED <<vars, fields>>
    \/ /\ At("resumed") /\ GoesTo("out") /\ Becomes("Idle")
       /\ UNCHANGED <<vars, failures, goal, running, planFor>>

\* get_status, get_current_action, get_current_plan.
CallGetter == At("out") /\ GoesTo("look") /\ UNCHANGED <<vars, fields>>

Getter == At("look") /\ GoesTo("out") /\ UNCHANGED <<vars, fields>>

\* ~goap_agent: callbacks and executor go first, then async_planner joins.
DestroyAgent == At("out") /\ CallDestroy /\ GoesTo("destroy") /\ UNCHANGED fields

DestroyPlanner == Destroy /\ UNCHANGED agentVars

-----------------------------------------------------------------------------
(* on_plan_received, run by receiver r *)

Receives(r, from, to) == receiver[r] = from /\ receiver' = [receiver EXCEPT ![r] = to]

Begin(r, success) ==
    /\ Receives(r, "begin", IF success THEN "clear" ELSE "count")
    /\ UNCHANGED <<seen, fields>>

\* ++consecutive_failures, a load and a store ...
LoadFailures(r) ==
    /\ Receives(r, "count", "write") /\ seen' = [seen EXCEPT ![r] = failures]
    /\ UNCHANGED fields

\* Mutant of StoreFailures: the count goes down.
StoreFewer(r) ==
    /\ Receives(r, "write", "compare") /\ failures' = seen[r] - 1
    /\ UNCHANGED <<seen, mode, goal, running, planFor>>

StoreFailures(r) ==
    /\ Receives(r, "write", "compare") /\ failures' = seen[r] + 1
    /\ UNCHANGED <<seen, mode, goal, running, planFor>>

\* ... and the test of it.
CountFailure(r) ==
    \/ LoadFailures(r) \/ StoreFailures(r)
    \/ /\ Receives(r, "compare", IF failures >= MaxFailures THEN "idle" ELSE "failed")
       /\ UNCHANGED <<seen, fields>>

\* transition_to(next), which calls on_status_changed if that is a change.
Transition(r, from, next, tell, then) ==
    /\ Receives(r, from, IF status = next THEN then ELSE tell)
    /\ Becomes(next)
    /\ UNCHANGED <<seen, failures, goal, running, planFor>>

Told(r, from, to) == Receives(r, from, to) /\ UNCHANGED <<seen, fields>>

\* Mutant of ClearFailures: zeroed on success only.
ClearOnSuccess(r) ==
    /\ \/ Receives(r, "zero", "end") /\ UNCHANGED failures
       \/ Receives(r, "clear", "found") /\ failures' = 0
    /\ UNCHANGED <<seen, mode, goal, running, planFor>>

ClearFailures(r) ==
    /\ Receives(r, "zero", "end") \/ Receives(r, "clear", "found")
    /\ failures' = 0 /\ UNCHANGED <<seen, mode, goal, running, planFor>>

\* Mutant of Install: set_plan keeps the goal of the plan before.
InstallKeepsGoal(r) ==
    /\ Receives(r, "install", "run") /\ running' = TRUE
    /\ UNCHANGED <<seen, mode, failures, goal, planFor>>

\* executor.set_plan(result, active_goal_state)
Install(r) ==
    /\ Receives(r, "install", "run") /\ running' = TRUE /\ planFor' = goal
    /\ UNCHANGED <<seen, mode, failures, goal>>

OnPlanReceived(r) ==
    \/ \E success \in BOOLEAN : Begin(r, success)
    \/ CountFailure(r) \/ ClearFailures(r) \/ Install(r)
    \/ Transition(r, "idle", "Idle", "tellIdle", "zero") \/ Told(r, "tellIdle", "zero")
    \/ Transition(r, "failed", "PlanFailed", "tell", "end")
    \/ Transition(r, "run", "Executing", "tell", "end") \/ Told(r, "tell", "end")
    \/ Told(r, "found", "install")

\* What the answer decides: a plan is a Success, which may also be without actions.
Answered(r) == receiver'[r] = "clear" => r = 0 \/ result[r] = "Success"

ReceiveInGame ==
    /\ OnPlanReceived(0) /\ UNCHANGED <<vars, game, after, asked>>

EndReceive ==
    /\ Receives(0, "end", "out") /\ game' = "out"
    /\ UNCHANGED <<vars, after, seen, asked, fields>>

ReceiveInThread(j) ==
    /\ worker[j] = "callback" /\ OnPlanReceived(j) /\ Answered(j)
    /\ UNCHANGED <<vars, game, after, asked>>

EnterReceiver(j) ==
    /\ EnterCallback(j) /\ receiver' = [receiver EXCEPT ![j] = "begin"]
    /\ UNCHANGED <<game, after, seen, asked, fields>>

LeaveReceiver(j) ==
    /\ LeaveCallback(j) /\ Receives(j, "end", "out")
    /\ UNCHANGED <<game, after, seen, asked, fields>>

\* A callback of the user, called in on_plan_received, calls a method of the
\* agent that cancels.
UserCancels(j) ==
    /\ receiver[j] \in {"found", "tell", "tellIdle"} /\ CallbackCancels(j)
    /\ UNCHANGED agentVars

SearchStep(j) ==
    /\ SearchEnds(j) \/ SearchAborts(j) \/ ClearFlag(j) \/ CheckStop(j)
    /\ UNCHANGED agentVars

-----------------------------------------------------------------------------

\* What the game thread does in a method it has called.
InMethod ==
    \/ ReadStatus \/ PhaseIdle \/ KickOff \/ LaunchSearch \/ InPlanner
    \/ IsActive \/ ReadStatusAgain \/ PollResult \/ PhaseExecuting \/ AfterCancel
    \/ Resume \/ Getter \/ ReceiveInGame \/ EndReceive

CallMethod == StartTick \/ CallControl \/ CallResume \/ CallGetter \/ DestroyAgent

InThread(j) ==
    ReceiveInThread(j) \/ EnterReceiver(j) \/ LeaveReceiver(j)

AgentNext ==
    \/ CallMethod \/ InMethod \/ DestroyPlanner
    \/ \E j \in Job : SearchStep(j) \/ InThread(j) \/ UserCancels(j)

AgentSpec == AgentInit /\ [][AgentNext]_threadVars

\* The threads run and the callbacks of the user return; a search may go on for
\* ever unless it is asked to stop.
Unhurried(j) == SearchStep(j) /\ (worker[j] = "searching" => stop[j])

FairAgentSpec ==
    /\ AgentSpec /\ WF_threadVars(InMethod)
    /\ \A j \in Job : WF_threadVars(Unhurried(j) \/ InThread(j))

-----------------------------------------------------------------------------
(* Properties *)

AgentTypeOK ==
    /\ game \in GamePoint /\ after \in GamePoint
    /\ receiver \in [Receiver -> ReceiverPoint] /\ seen \in [Receiver -> Nat]
    /\ status \in {"Idle", "Planning", "Executing", "PlanFailed", "Interrupted", "NoMotives"}
    /\ failures \in Nat /\ goal \in Goal /\ running \in BOOLEAN /\ planFor \in Goal
    /\ threw \in BOOLEAN
    /\ asked \in [Job -> Goal]

\* A thread of its own: the job's, or the game's.
Thread == 0..MaxJob

\* The members the next step of on_plan_received reads and writes.  "listener" is
\* whatever the user's on_status_changed uses.
ReceiverReads(p) ==
    CASE p \in {"count", "compare"} -> {"failures"}
      [] p = "install" -> {"goal"}
      [] p \in {"idle", "failed", "run"} -> {"status"}
      [] OTHER -> {}

ReceiverWrites(p) ==
    CASE p \in {"write", "zero", "clear"} -> {"failures"}
      [] p = "install" -> {"executor"}
      [] p \in {"idle", "failed", "run"} -> {"status"}
      [] p \in {"tell", "tellIdle"} -> {"listener"}
      [] OTHER -> {}

GameReads(p) ==
    CASE p \in {"tick", "again", "resume"} -> {"status"}
      [] p = "look" -> {"status", "executor"}
      [] p = "launch" -> {"goal"}
      [] OTHER -> {}

GameWrites(p) ==
    CASE p = "idle" -> {"status", "listener", "goal"}
      [] p \in {"kickoff", "resumed"} -> {"status", "listener"}
      [] p = "switch" -> {"goal"}
      [] p \in {"interrupt", "satisfied"} -> {"executor", "status", "listener"}
      [] p \in {"executing", "replan"} -> {"executor", "status", "listener", "goal"}
      [] OTHER -> {}

Reads(t) == ReceiverReads(receiver[t]) \cup (IF t = 0 THEN GameReads(game) ELSE {})

Writes(t) == ReceiverWrites(receiver[t]) \cup (IF t = 0 THEN GameWrites(game) ELSE {})

\* Two threads are about to use the member m, and one of them to write it.
Race(t, u, m) == t # u /\ m \in Writes(t) /\ m \in Reads(u) \cup Writes(u)

\* No lock protects the agent, but its threads meet only on the status, on the
\* failure count and in on_status_changed (goap_agent.cpp:172-194): the executor
\* and the goal are handed over by the protocol, unless the game reads them with
\* a getter, and no two threads ever write the status.
RacesConfined ==
    \A t, u \in Thread : \A m \in {"status", "executor", "goal"} :
        Race(t, u, m) => \/ m = "status" /\ m \notin Writes(u)
                         \/ game = "look"

\* A search that may still report a status is the agent's current one, for the
\* goal it pursues, and the status is Planning until it does; an agent that is
\* left Planning has such a search, or a callback that hangs, or else the call that
\* left it found no heuristic and threw (goap_agent.cpp:136).
Reporting(j) ==
    \/ worker[j] \in {"searching", "found", "cleared", "calling"}
    \/ worker[j] = "callback" /\ receiver[j] \notin {"tell", "tellIdle", "zero", "end"}

PlanningIsPending ==
    /\ \A j \in Job : Reporting(j) =>
          status = "Planning" /\ ~threw /\ j = source /\ asked[j] = goal
    /\ status = "Planning" /\ ~threw /\ game = "out" => Stuck \/ (source # 0 /\ Reporting(source))

\* When a call has returned an executing agent has a plan that runs, for the goal
\* it pursues, whichever thread installed it (goap_agent.cpp:192), unless the call
\* threw for want of a heuristic.
PlanIsForGoal ==
    status = "Executing" /\ ~threw /\ game = "out" => running /\ planFor = goal

\* interrupt() has no thread behind it: until resume() the agent may be destroyed,
\* which without it frees the executor and the callbacks that a searching thread
\* may be using (goap_agent.h:48-74).  A callback that hangs is still there.
InterruptedIsQuiet ==
    status = "Interrupted" => \A j \in Job : worker[j] \in {"none", "done", "stuck"}

\* Two callbacks can be counting at once, an old one not yet through with zeroing
\* the count (goap_agent.cpp:179-180) and the next: when none is left the count
\* is below the limit.
FailuresBelowLimit ==
    (\A r \in Receiver : receiver[r] = "out") => failures < MaxFailures

\* Every call of the game returns, whatever the searches do, unless a callback of
\* the user hangs by cancelling its own search.
GameReturns == (game \notin {"out", "destroy"}) ~> (game = "out" \/ Stuck)

-----------------------------------------------------------------------------
(* What the documents say *)

\* README.md:414, "The agent handles synchronisation automatically", use tick() as
\* normal: a game that only ticks never uses a member while another thread writes
\* it, nor the other way round.
NoDataRace ==
    game # "look" =>
        \A t, u \in Thread : \A m \in {"status", "failures", "executor", "goal"} : ~Race(t, u, m)
=============================================================================
