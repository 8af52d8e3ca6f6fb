------------------------- MODULE AsyncPlannerProofs -------------------------
(***************************************************************************)
(* Proofs about AsyncPlanner for any number of jobs.                       *)
(***************************************************************************)
EXTENDS AsyncPlanner, TLAPS

Alive(j) == worker[j] \notin {"none", "done"}

\* Exactly the jobs up to source have a thread, save the one being launched.
Launched ==
    /\ \A j \in Job : worker[j] = "none" <=> (j > source \/ (main = "launch" /\ j = source))
    /\ main \in {"launch", "assign"} => source \in Job /\ future < source
    /\ future <= source
    /\ main = "launch" => isPlanning
    /\ (main = "newSource" \/ (main \in {"requestStop", "await"} /\ resume = "newSource"))
          => source < MaxJob

\* A live thread is the one planning_future joins, or has just been launched.
Joined == \A j \in Job : Alive(j) => j = future \/ (main = "assign" /\ j = source)

\* A search that has not cleared is_planning is the current one, and is_planning
\* shows it: plan_async cannot pass it by.
Flagged ==
    \A j \in Job : worker[j] \in {"searching", "found"} =>
        j = source /\ isPlanning /\ main # "newSource"

\* Stop is requested of launched jobs only, and only cancel_planning's wait
\* leaves the thread it was requested of alive.
Stopped ==
    \A j \in 0..MaxJob : stop[j] =>
        /\ j <= source /\ ~(main = "launch" /\ j = source)
        /\ j \in Job => worker[j] \in {"done", "stuck"} \/ (main = "await" /\ j = source)

\* A thread that waits for itself has asked itself to stop.
OwnStop == \A j \in Job : worker[j] = "stuck" => stop[j]

\* A planner that is gone has no future, and so, by Joined, no thread.
Gone == main = "gone" => future = 0

Called == \A j \in Job : /\ worker[j] = "callback" => called[j]
                         /\ worker[j] = "done" /\ handler[j] /\ ~stop[j] => called[j]

\* The inductive invariant: what the game thread knows at each of its points.
Inv == TypeOK /\ Launched /\ Joined /\ Flagged /\ Stopped /\ Called /\ OwnStop /\ Gone

\* A new planner, with no thread, satisfies the invariant.
LEMMA InitInv == Init => Inv
  <1> SUFFICES ASSUME Init PROVE Inv
    OBVIOUS
  <1> USE MaxJobAssumption DEF Init, Job
  <1>1. TypeOK
    <2>1. 0 \in 0..MaxJob
      OBVIOUS
    <2>2. stop \in [0..MaxJob -> BOOLEAN] /\ handler \in [Job -> BOOLEAN] /\ called \in [Job -> BOOLEAN]
      BY Zenon
    <2>3. worker \in [Job -> WorkerPoint] /\ result \in [Job -> {"none", "Success", "Failed", "TimedOut"}]
      BY DEF WorkerPoint
    <2> QED
      BY <2>1, <2>2, <2>3 DEF TypeOK, MainPoint
  <1>2. Launched
    BY DEF Launched
  <1>3. Joined /\ Flagged /\ Stopped /\ Called /\ OwnStop /\ Gone
    BY DEF Joined, Alive, Flagged, Stopped, Called, OwnStop, Gone
  <1> QED
    BY <1>1, <1>2, <1>3 DEF Inv

\* The steps of the game thread.
LEMMA MainKeepsInv ==
    ASSUME Inv, \/ CallPlan \/ CallCancel \/ TryGetResult \/ CallWait \/ Get
                \/ RequestStop \/ Await \/ NewSource \/ Launch \/ Assign
                \/ CallDestroy \/ Destroy
    PROVE  Inv'
  <1> USE MaxJobAssumption DEF Inv, TypeOK, Job, MainPoint, WorkerPoint, mainVars, jobVars, Ready
  <1>1. CASE CallPlan
    BY <1>1 DEF CallPlan, Launched, Joined, Alive, Flagged, Stopped, Called, OwnStop, Gone
  <1>2. CASE CallCancel
    BY <1>2 DEF CallCancel, Launched, Joined, Alive, Flagged, Stopped, Called, OwnStop, Gone
  <1>3. CASE TryGetResult
    BY <1>3 DEF TryGetResult, Launched, Joined, Alive, Flagged, Stopped, Called, OwnStop, Gone
  <1>4. CASE CallWait
    BY <1>4 DEF CallWait, Launched, Joined, Alive, Flagged, Stopped, Called, OwnStop, Gone
  <1>5. CASE Get
    BY <1>5 DEF Get, Launched, Joined, Alive, Flagged, Stopped, Called, OwnStop, Gone
  <1>6. CASE RequestStop
    BY <1>6 DEF RequestStop, Launched, Joined, Alive, Flagged, Stopped, Called, OwnStop, Gone
  <1>7. CASE Await
    <2>1. \A j \in Job : ~Alive(j)
      BY <1>7 DEF Await, Joined, Alive
    <2>2. TypeOK' /\ Launched' /\ Joined' /\ Called' /\ OwnStop' /\ Gone'
      BY <1>7, <2>1 DEF Await, Launched, Joined, Alive, Called, OwnStop, Gone
    <2>3. Flagged'
      BY <1>7, <2>1 DEF Await, Flagged, Alive
    <2>4. Stopped'
      <3>1. \A j \in Job : j <= source => worker[j] = "done"
        BY <1>7, <2>1 DEF Await, Launched, Alive
      <3> QED
        BY <1>7, <3>1 DEF Await, Stopped
    <2> QED
      BY <2>2, <2>3, <2>4
  <1>8. CASE NewSource
    BY <1>8 DEF NewSource, Launched, Joined, Alive, Flagged, Stopped, Called, OwnStop, Gone
  <1>9. CASE Launch
    BY <1>9 DEF Launch, Launched, Joined, Alive, Flagged, Stopped, Called, OwnStop, Gone
  <1>10. CASE Assign
    BY <1>10 DEF Assign, Launched, Joined, Alive, Flagged, Stopped, Called, OwnStop, Gone
  <1>11. CASE CallDestroy
    BY <1>11 DEF CallDestroy, Launched, Joined, Alive, Flagged, Stopped, Called, OwnStop, Gone
  <1>12. CASE Destroy
    BY <1>12 DEF Destroy, Launched, Joined, Alive, Flagged, Stopped, Called, OwnStop, Gone
  <1> QED
    BY <1>1, <1>2, <1>3, <1>4, <1>5, <1>6, <1>7, <1>8, <1>9, <1>10, <1>11, <1>12

\* The steps of the thread of a job.
LEMMA WorkerKeepsInv ==
    ASSUME Inv, NEW j \in Job, SearchEnds(j) \/ WorkerStep(j) \/ CallbackCancels(j)
    PROVE  Inv'
  <1> USE MaxJobAssumption DEF Inv, TypeOK, Job, MainPoint, WorkerPoint, mainVars, jobVars, Moves
  <1>1. CASE SearchEnds(j) \/ SearchAborts(j)
    <2>1. PICK answer \in {"Success", "Failed", "TimedOut"} : Returns(j, answer)
      BY <1>1 DEF SearchEnds, SearchAborts
    <2>2. TypeOK'
      BY <2>1 DEF Returns
    <2>3. Launched' /\ Joined' /\ Flagged' /\ Gone'
      BY <2>1 DEF Returns, Launched, Joined, Alive, Flagged, Gone
    <2>4. Stopped' /\ Called' /\ OwnStop'
      BY <2>1 DEF Returns, Stopped, Called, OwnStop
    <2> QED
      BY <2>2, <2>3, <2>4
  <1>2. CASE ClearFlag(j)
    BY <1>2 DEF ClearFlag, Launched, Joined, Alive, Flagged, Stopped, Called, OwnStop, Gone
  <1>3. CASE CheckStop(j)
    BY <1>3 DEF CheckStop, Launched, Joined, Alive, Flagged, Stopped, Called, OwnStop, Gone
  <1>4. CASE EnterCallback(j)
    BY <1>4 DEF EnterCallback, Launched, Joined, Alive, Flagged, Stopped, Called, OwnStop, Gone
  <1>5. CASE LeaveCallback(j)
    BY <1>5 DEF LeaveCallback, Launched, Joined, Alive, Flagged, Stopped, Called, OwnStop, Gone
  <1>6. CASE CallbackCancels(j)
    <2>1. TypeOK' /\ Launched' /\ Joined' /\ Flagged' /\ Gone'
      BY <1>6 DEF CallbackCancels, Launched, Joined, Alive, Flagged, Gone
    <2>2. Called' /\ OwnStop'
      BY <1>6 DEF CallbackCancels, Called, OwnStop
    <2>3. worker[j] = "callback" /\ j <= source /\ main = "idle"
      BY <1>6 DEF CallbackCancels
    <2>4. Stopped'
      <3> SUFFICES ASSUME NEW i \in 0..MaxJob, stop'[i]
                   PROVE  /\ i <= source' /\ ~(main' = "launch" /\ i = source')
                          /\ i \in Job => worker'[i] \in {"done", "stuck"}
                                            \/ (main' = "await" /\ i = source')
        BY Zenon DEF Stopped
      <3>1. CASE i = j
        BY <1>6, <2>3, <3>1 DEF CallbackCancels
      <3>2. CASE i # j
        BY <1>6, <2>3, <3>2 DEF CallbackCancels, Stopped
      <3> QED
        BY <3>1, <3>2
    <2> QED
      BY <2>1, <2>2, <2>4
  <1> QED
    BY <1>1, <1>2, <1>3, <1>4, <1>5, <1>6 DEF WorkerStep

\* Every step of the game thread and of a job thread keeps the invariant.
LEMMA StepKeepsInv == Inv /\ [Next]_vars => Inv'
  <1> SUFFICES ASSUME Inv, [Next]_vars PROVE Inv'
    OBVIOUS
  <1>1. CASE UNCHANGED vars
    BY <1>1 DEF vars, mainVars, jobVars, Inv, TypeOK, Launched, Joined, Alive, Flagged,
                Stopped, Called, OwnStop, Gone
  <1> QED
    BY <1>1, MainKeepsInv, WorkerKeepsInv DEF Next, WorkerStep

\* The invariant holds in every reachable state.
LEMMA Invariant == Spec => []Inv
  BY InitInv, StepKeepsInv, PTL DEF Spec

\* No two threads are ever in the shared rida_planner together, however many
\* plans are started, cancelled and polled (async_planner.cpp:16-50).
THEOREM PlannerIsExclusive == Spec => []PlannerExclusive
  <1>1. Inv => PlannerExclusive
    BY DEF Inv, Flagged, PlannerExclusive
  <1> QED
    BY <1>1, Invariant, PTL

\* Once cancel_planning has returned, no thread it cancelled is alive, save one
\* whose callback waits for itself, and no callback of theirs can run any more
\* (async_planner.cpp:66-77).
THEOREM CancelIsFinal == Spec => []QuietAfterCancel
  <1>1. Inv => QuietAfterCancel
    BY DEF Inv, Stopped, QuietAfterCancel, Job
  <1> QED
    BY <1>1, Invariant, PTL

\* Outside plan_async only the thread of planning_future can be alive
\* (async_planner.cpp:27).
THEOREM ThreadsAreJoined == Spec => []OneLiveThread
  <1>1. Inv => OneLiveThread
    BY DEF Inv, Joined, Alive, OneLiveThread
  <1> QED
    BY <1>1, Invariant, PTL

\* A result that can be polled has been delivered to the callback before it, if
\* there is one and the job was not cancelled (async_planner.cpp:42-48).
THEOREM PollFollowsCallback == Spec => []PolledWasCalled
  <1>1. Inv => PolledWasCalled
    BY DEF Inv, Called, PolledWasCalled
  <1> QED
    BY <1>1, Invariant, PTL

\* When the destructor has returned no thread uses what it destroyed: the one
\* join of planning_future is enough (async_planner.h:23-28).
THEOREM NoThreadOutlives == Spec => []NothingOutlives
  <1>1. Inv => NothingOutlives
    BY MaxJobAssumption DEF Inv, Gone, Joined, Alive, NothingOutlives, Job
  <1> QED
    BY <1>1, Invariant, PTL

\* The variables of the planner keep their types (async_planner.h:23-28).
THEOREM TypesHold == Spec => []TypeOK
  <1>1. Inv => TypeOK
    BY DEF Inv
  <1> QED
    BY <1>1, Invariant, PTL
=============================================================================
