---------------------------- MODULE AsyncPlanner ----------------------------
(***************************************************************************)
(* async_planner (src/src/async_planner.cpp): a game thread that starts,   *)
(* cancels and polls searches, and the std::async threads that run them.   *)
(*                                                                         *)
(* Every plan_async is a job: its stop_source, its thread and its future   *)
(* bear its number.  The atomics, the stop flag and the readiness of a     *)
(* future are all the threads share; a step of a thread here is one access *)
(* to one of them together with the private work around it.  The methods   *)
(* are called by one thread, the class does not lock.                      *)
(***************************************************************************)
EXTENDS Naturals

CONSTANT MaxJob         \* bound: how many times plan_async is called

ASSUME MaxJobAssumption == MaxJob \in Nat

Job == 1..MaxJob

VARIABLES
    main,               \* where the game thread is, "idle" outside the class
    resume,             \* where a cancel_planning in progress continues
    onCompleted,        \* on_completed holds a callback
    isPlanning,         \* the atomic is_planning
    source,             \* the job whose stop_source is the member's, 0 at first
    future,             \* the job planning_future refers to, 0 when invalid
    stop,               \* stop has been requested of the job's stop_source
    worker,             \* where the thread of each job is
    handler,            \* the job's copy of on_completed holds a callback
    result,             \* what the search of each job returned
    called              \* the job's callback has been entered

mainVars == <<main, resume, onCompleted, source, future>>
jobVars == <<worker, handler, result, called>>
vars == <<mainVars, isPlanning, stop, jobVars>>

MainPoint == {"idle", "requestStop", "await", "newSource", "launch", "assign", "get",
              "destroy", "gone"}

WorkerPoint ==
    {"none",            \* not launched
     "searching",       \* in rida_planner::plan
     "found",           \* plan has returned
     "cleared",         \* is_planning has been set to false
     "calling",         \* stop was not requested: about to call the callback
     "callback",        \* in the callback
     "stuck",           \* in the callback, which waits for this very thread
     "done"}            \* returned: the future is ready

Init ==
    /\ main = "idle" /\ resume = "idle" /\ onCompleted = FALSE
    /\ isPlanning = FALSE /\ source = 0 /\ future = 0
    /\ stop = [j \in 0..MaxJob |-> FALSE]
    /\ worker = [j \in Job |-> "none"]
    /\ handler = [j \in Job |-> FALSE]
    /\ result = [j \in Job |-> "none"]
    /\ called = [j \in Job |-> FALSE]

-----------------------------------------------------------------------------
(* The game thread *)

\* planning_future is ready, or invalid and not waited for.
Ready == future # 0 => worker[future] = "done"

\* Mutant of CallPlan: a search under way is not looked for.
CallPlanUnchecked ==
    /\ main = "idle" /\ source < MaxJob
    /\ onCompleted' \in BOOLEAN
    /\ main' = "newSource" /\ resume' = "newSource"
    /\ UNCHANGED <<isPlanning, source, future, stop, jobVars>>

\* plan_async.  The overload with a callback sets on_completed first.
CallPlan ==
    /\ main = "idle" /\ source < MaxJob
    /\ onCompleted' \in BOOLEAN
    /\ main' = IF isPlanning THEN "requestStop" ELSE "newSource"
    /\ resume' = "newSource"
    /\ UNCHANGED <<isPlanning, source, future, stop, jobVars>>

CallCancel ==
    /\ main = "idle"
    /\ main' = "requestStop" /\ resume' = "idle"
    /\ UNCHANGED <<onCompleted, isPlanning, source, future, stop, jobVars>>

\* Mutants of RequestStop: the thread is not waited for, or it is waited for
\* without having been asked to stop.
RequestStopNoWait ==
    /\ main = "requestStop"
    /\ stop' = [stop EXCEPT ![source] = TRUE]
    /\ main' = resume
    /\ UNCHANGED <<resume, onCompleted, isPlanning, source, future, jobVars>>
WaitWithoutStop ==
    /\ main = "requestStop"
    /\ main' = "await"
    /\ UNCHANGED <<resume, onCompleted, isPlanning, source, future, stop, jobVars>>

\* cancel_planning: request_stop() answers true to its first caller only, and
\* whoever gets false does not wait.
RequestStop ==
    /\ main = "requestStop"
    /\ stop' = [stop EXCEPT ![source] = TRUE]
    /\ main' = IF stop[source] THEN resume ELSE "await"
    /\ UNCHANGED <<resume, onCompleted, isPlanning, source, future, jobVars>>

\* cancel_planning: wait() on a valid future, then clear the flag.
Await ==
    /\ main = "await" /\ Ready
    /\ isPlanning' = FALSE
    /\ main' = resume
    /\ UNCHANGED <<resume, onCompleted, source, future, stop, jobVars>>

\* plan_async: a fresh stop_source and the flag.
NewSource ==
    /\ main = "newSource"
    /\ source' = source + 1 /\ isPlanning' = TRUE
    /\ main' = "launch"
    /\ UNCHANGED <<resume, onCompleted, future, stop, jobVars>>

\* plan_async: std::async starts the thread ...
Launch ==
    /\ main = "launch"
    /\ worker' = [worker EXCEPT ![source] = "searching"]
    /\ handler' = [handler EXCEPT ![source] = onCompleted]
    /\ main' = "assign"
    /\ UNCHANGED <<resume, onCompleted, isPlanning, source, future, stop, result, called>>

\* Mutant of Assign: the old thread is detached, not joined.
AssignDetaches ==
    /\ main = "assign"
    /\ future' = source
    /\ main' = "idle"
    /\ UNCHANGED <<resume, onCompleted, isPlanning, source, stop, jobVars>>

\* ... and its future replaces the old one, whose release joins the old thread.
Assign ==
    /\ main = "assign" /\ Ready
    /\ future' = source
    /\ main' = "idle"
    /\ UNCHANGED <<resume, onCompleted, isPlanning, source, stop, jobVars>>

\* try_get_result that returns true; one that returns false changes nothing.
TryGetResult ==
    /\ main = "idle" /\ future # 0 /\ worker[future] = "done"
    /\ future' = 0
    /\ UNCHANGED <<main, resume, onCompleted, isPlanning, source, stop, jobVars>>

\* wait_for_result on a valid future.
CallWait ==
    /\ main = "idle" /\ future # 0
    /\ main' = "get"
    /\ UNCHANGED <<resume, onCompleted, isPlanning, source, future, stop, jobVars>>

Get ==
    /\ main = "get" /\ worker[future] = "done"
    /\ future' = 0 /\ main' = "idle"
    /\ UNCHANGED <<resume, onCompleted, isPlanning, source, stop, jobVars>>

\* ~async_planner: no stop is requested.  The members go in reverse order, and
\* planning_future joins its thread before the rida_planner goes.
CallDestroy ==
    /\ main = "idle"
    /\ main' = "destroy"
    /\ UNCHANGED <<resume, onCompleted, isPlanning, source, future, stop, jobVars>>

\* Mutant of Destroy: the thread is not joined.
DestroyDetaches ==
    /\ main = "destroy"
    /\ future' = 0 /\ main' = "gone"
    /\ UNCHANGED <<resume, onCompleted, isPlanning, source, stop, jobVars>>

Destroy ==
    /\ main = "destroy" /\ Ready
    /\ future' = 0 /\ main' = "gone"
    /\ UNCHANGED <<resume, onCompleted, isPlanning, source, stop, jobVars>>

MainStep == RequestStop \/ Await \/ NewSource \/ Launch \/ Assign

-----------------------------------------------------------------------------
(* The thread of job j *)

Moves(j, from, to) == worker[j] = from /\ worker' = [worker EXCEPT ![j] = to]

Returns(j, answer) ==
    /\ Moves(j, "searching", "found")
    /\ result' = [result EXCEPT ![j] = answer]
    /\ UNCHANGED <<mainVars, isPlanning, stop, handler, called>>

\* plan() comes to its end, with a plan or with one of its failures.
SearchEnds(j) == \E answer \in {"Success", "Failed"} : Returns(j, answer)

\* Mutant of SearchAborts: the status that plan_result reserves for it.
AbortsAsCancelled(j) == stop[j] /\ Returns(j, "Cancelled")

\* plan() sees the stop request at its next node (rida_planner.cpp:36-43).
SearchAborts(j) == stop[j] /\ Returns(j, "TimedOut")

ClearFlag(j) ==
    /\ Moves(j, "found", "cleared")
    /\ isPlanning' = FALSE
    /\ UNCHANGED <<mainVars, stop, handler, result, called>>

\* Mutant of CheckStop: the answer of stop_requested is not negated.
CheckStopInverted(j) ==
    /\ Moves(j, "cleared", IF handler[j] /\ stop[j] THEN "calling" ELSE "done")
    /\ UNCHANGED <<mainVars, isPlanning, stop, handler, result, called>>

\* The callback is there and stop is not requested, or the thread returns.
CheckStop(j) ==
    /\ Moves(j, "cleared", IF handler[j] /\ ~stop[j] THEN "calling" ELSE "done")
    /\ UNCHANGED <<mainVars, isPlanning, stop, handler, result, called>>

EnterCallback(j) ==
    /\ Moves(j, "calling", "callback")
    /\ called' = [called EXCEPT ![j] = TRUE]
    /\ UNCHANGED <<mainVars, isPlanning, stop, handler, result>>

LeaveCallback(j) ==
    /\ Moves(j, "callback", "done")
    /\ UNCHANGED <<mainVars, isPlanning, stop, handler, result, called>>

\* The callback of the current job calls cancel_planning, while the game thread
\* is outside the class: the stop request is the first, and the future that is
\* waited for is the one of the thread that waits.
CallbackCancels(j) ==
    /\ main = "idle" /\ j = source /\ j = future /\ ~stop[j]
    /\ Moves(j, "callback", "stuck")
    /\ stop' = [stop EXCEPT ![j] = TRUE]
    /\ UNCHANGED <<mainVars, isPlanning, handler, result, called>>

WorkerStep(j) ==
    SearchAborts(j) \/ ClearFlag(j) \/ CheckStop(j) \/ EnterCallback(j) \/ LeaveCallback(j)

Next ==
    \/ CallPlan \/ CallCancel \/ TryGetResult \/ CallWait \/ Get
    \/ CallDestroy \/ Destroy
    \/ RequestStop \/ Await \/ NewSource \/ Launch \/ Assign
    \/ \E j \in Job : \/ SearchEnds(j) \/ SearchAborts(j) \/ ClearFlag(j)
                      \/ CheckStop(j) \/ EnterCallback(j) \/ LeaveCallback(j)
                      \/ CallbackCancels(j)

Spec == Init /\ [][Next]_vars

\* Threads run and callbacks return.  Nothing is assumed of SearchEnds: a search
\* may go on for ever (no time budget is the default), but one that is asked to
\* stop looks at its token at every node.
FairSpec == Spec /\ WF_vars(MainStep \/ Destroy) /\ \A j \in Job : WF_vars(WorkerStep(j))

-----------------------------------------------------------------------------
(* Properties *)

TypeOK ==
    /\ main \in MainPoint /\ resume \in {"idle", "newSource"}
    /\ onCompleted \in BOOLEAN /\ isPlanning \in BOOLEAN
    /\ source \in 0..MaxJob /\ future \in 0..MaxJob
    /\ stop \in [0..MaxJob -> BOOLEAN]
    /\ worker \in [Job -> WorkerPoint]
    /\ handler \in [Job -> BOOLEAN]
    /\ result \in [Job -> {"none", "Success", "Failed", "TimedOut"}]
    /\ called \in [Job -> BOOLEAN]

\* The threads share one rida_planner and its transposition table without a lock
\* (async_planner.cpp:25, 36): no two jobs are ever in plan() together.
PlannerExclusive ==
    \A i, j \in Job : worker[i] = "searching" /\ worker[j] = "searching" => i = j

\* cancel_planning returns only when the thread it cancelled has: whatever the
\* callback captured may be destroyed then (async_planner.cpp:66-77).  Until it
\* returns a callback may run, and may even be entered after the stop request.
\* The exception is a callback that has itself cancelled: it never moves again.
QuietAfterCancel ==
    \A j \in Job : stop[j] /\ main # "await" => worker[j] \in {"done", "stuck"}

\* Outside plan_async at most one thread is alive, the one planning_future
\* refers to: releasing the old future joins the old thread.
OneLiveThread ==
    main = "idle" => \A j \in Job : worker[j] \in {"none", "done"} \/ j = future

\* A result that a poll can take has been given to the callback before, unless
\* the job was cancelled: with a callback set, polling delivers a second time
\* (goap_agent.cpp:160-170 relies on neither order).
PolledWasCalled ==
    \A j \in Job : worker[j] = "done" /\ handler[j] /\ ~stop[j] => called[j]

\* The planner is destroyed only when no thread uses it: whatever the order of
\* calls, the one future left joins the one thread left (async_planner.h:23-28).
NothingOutlives == main = "gone" => \A j \in Job : worker[j] \in {"none", "done"}

Stuck == \E j \in Job : worker[j] = "stuck"

\* plan_async and cancel_planning return even if no search ever ends by itself
\* (README.md:445, "Cancel at any time"), unless a callback has cancelled its own
\* search (async_planner.cpp:46, 72): there is no other way to hang.  The destructor
\* (async_planner.h:23) asks nobody to stop and returns once the search has ended.
CallsReturn ==
    /\ (main \in MainPoint \ {"idle", "get", "destroy", "gone"}) ~> (main = "idle" \/ Stuck)
    /\ (main = "destroy" /\ \A j \in Job : worker[j] # "searching") ~> (main = "gone" \/ Stuck)
=============================================================================
