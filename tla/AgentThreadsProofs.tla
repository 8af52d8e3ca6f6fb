------------------------- MODULE AgentThreadsProofs -------------------------
(***************************************************************************)
(* Proofs about AgentThreads for any number of jobs, goals and failures.   *)
(***************************************************************************)
EXTENDS AgentThreads, AsyncPlannerProofs

\* Where the game thread may be while a search can still report.
Waiting == {"out", "tick", "isActive", "again", "poll", "resume", "look", "launching",
            "cancel", "destroy"}

Halted == {"interrupt", "replan", "satisfied", "switch"}

\* The agent's method a call of async_planner belongs to.
Placed ==
    /\ main \in {"newSource", "launch", "assign"} => game = "launching"
    /\ main \in {"requestStop", "await"} => \/ resume = "idle" /\ game = "cancel"
                                            \/ resume = "newSource" /\ game = "launching"
    /\ game = "launching" => main \in {"requestStop", "await", "newSource", "launch", "assign"}
    /\ game = "cancel" => main \in {"requestStop", "await"} /\ after \in Halted
    /\ main \in {"destroy", "gone"} <=> game = "destroy"
    /\ main # "get"
    /\ main \notin {"launch", "assign"} => future \in {0, source}

\* Who is in on_plan_received.
Receiving ==
    /\ receiver[0] # "out" <=> game = "received"
    /\ game = "received" => \A j \in Job : ~Alive(j)
    /\ \A j \in Job : /\ receiver[j] # "out" => worker[j] \in {"callback", "stuck"}
                      /\ worker[j] = "callback" => receiver[j] # "out"
                      /\ worker[j] = "stuck" => receiver[j] \in {"found", "tell", "tellIdle"}
                      /\ worker[j] # "none" => handler[j]
    /\ game = "launching" => onCompleted

\* What a search that can still report may rely on.
Pending ==
    /\ \A j \in Job : Reporting(j) =>
          status = "Planning" /\ ~threw /\ j = source /\ asked[j] = goal /\ game \in Waiting
    /\ game = "launching" /\ main # "assign" =>
          /\ status = "Planning" /\ ~threw /\ \A j \in Job : ~Reporting(j)
          /\ \A j \in Job : j = (IF main = "launch" THEN source ELSE source + 1) => asked[j] = goal

\* What the game thread knows from the status it has read, or has waited for.
Known ==
    /\ game = "idle" => status \in {"NoMotives", "Idle", "PlanFailed"}
    /\ game = "executing" => status = "Executing"
    /\ game = "resumed" => status = "Interrupted"
    /\ game = "launch" => status = "Planning" /\ ~threw
    /\ game \in Halted => \A j \in Job : worker[j] \in {"none", "done", "stuck"}

Answering == source # 0 /\ Reporting(source)

\* An agent in Planning has a search, is about to start one or has just lost one,
\* unless it was left Planning by a call that threw.
Expecting ==
    status = "Planning" /\ ~threw =>
        \/ Stuck \/ Answering
        \/ game \in {"kickoff", "launch", "cancel"} \cup Halted
        \/ game = "launching" /\ main # "assign"

\* A plan that is, or is being, announced is installed for the goal of the agent;
\* a call that threw has stopped it.
Installed ==
    /\ status = "Executing" /\ ~threw =>
          (running /\ planFor = goal) \/ game \in {"kickoff", "cancel"} \cup Halted
    /\ \A r \in Receiver : receiver[r] = "run" => running /\ planFor = goal

\* A count at the limit is still to be compared or zeroed by somebody.
Counted ==
    failures >= MaxFailures =>
        \E r \in Receiver : receiver[r] \in {"compare", "idle", "tellIdle", "zero"}

\* The inductive invariant: that of the planner, and what the two threads of the
\* agent know of each other.
AgentInv ==
    /\ Inv /\ AgentTypeOK /\ Placed /\ Receiving /\ Pending /\ Known
    /\ Expecting /\ Installed /\ InterruptedIsQuiet /\ Counted

\* Every step of the agent is one of its planner, or leaves the planner alone.
LEMMA StepsOfPlanner == AgentNext => [Next]_vars
  <1> SUFFICES ASSUME AgentNext PROVE [Next]_vars
    OBVIOUS
  <1>1. CASE CallMethod
    BY <1>1 DEF CallMethod, StartTick, CallControl, CancelThen, CallResume, CallGetter,
                DestroyAgent, Next
  <1>2. CASE InMethod
    BY <1>2 DEF InMethod, ReadStatus, PhaseIdle, KickOff, LaunchSearch, InPlanner, MainStep,
                IsActive, ReadStatusAgain, PollResult, PhaseExecuting, CancelThen, AfterCancel,
                Control, PlanFor, Resume, Getter, ReceiveInGame, EndReceive, Next
  <1>3. CASE DestroyPlanner
    BY <1>3 DEF DestroyPlanner, Next
  <1>4. ASSUME NEW j \in Job, SearchStep(j) \/ InThread(j) \/ UserCancels(j)
        PROVE  [Next]_vars
    BY <1>4 DEF SearchStep, InThread, ReceiveInThread, EnterReceiver, LeaveReceiver, UserCancels, Next
  <1> QED
    BY <1>1, <1>2, <1>3, <1>4 DEF AgentNext

\* An agent that has just been constructed.
LEMMA AgentInitInv == AgentInit => AgentInv
  <1> SUFFICES ASSUME AgentInit PROVE AgentInv
    OBVIOUS
  <1>1. Inv
    BY InitInv DEF AgentInit
  <1>2. main = "idle" /\ game = "out" /\ after = "out" /\ status = "Idle" /\ future = 0
        /\ (\A j \in Job : worker[j] = "none") /\ (\A r \in Receiver : receiver[r] = "out")
        /\ failures \in 0..(MaxFailures - 1) /\ threw = FALSE
    BY DEF AgentInit, Init
  <1>3. AgentTypeOK
    <2>1. receiver \in [Receiver -> ReceiverPoint] /\ asked \in [Job -> Goal]
      BY DEF AgentInit, ReceiverPoint
    <2>2. seen \in [Receiver -> Nat]
      BY DEF AgentInit
    <2>3. failures \in Nat
      BY <1>2, ThreadsAssumption
    <2>4. goal \in Goal /\ running = FALSE /\ planFor = goal
      BY Zenon DEF AgentInit
    <2> QED
      BY <1>2, <2>1, <2>2, <2>3, <2>4 DEF AgentTypeOK, GamePoint
  <1>4. \A j \in Job : ~Alive(j) /\ ~Reporting(j)
    BY <1>2 DEF Alive, Reporting
  <1>5. 0 \in Receiver /\ Job \subseteq Receiver
    BY MaxJobAssumption DEF Receiver, Job
  <1>6. Placed /\ Receiving /\ Pending
    BY <1>2, <1>4, <1>5 DEF Placed, Receiving, Pending
  <1>7. Known /\ Expecting /\ Installed /\ InterruptedIsQuiet /\ Counted
    BY <1>2, ThreadsAssumption DEF Known, Halted, Expecting, Installed, InterruptedIsQuiet, Counted
  <1> QED
    BY <1>1, <1>3, <1>6, <1>7 DEF AgentInv

\* The thread that is about to announce a plan is waited for, or is the game's.
LEMMA InstallersWait ==
    ASSUME AgentInv
    PROVE  \A r \in Receiver : receiver[r] = "run" => game \in Waiting \/ game = "received"
  <1> SUFFICES ASSUME NEW r \in Receiver, receiver[r] = "run"
               PROVE  game \in Waiting \/ game = "received"
    OBVIOUS
  <1>1. CASE r = 0
    BY <1>1 DEF AgentInv, Receiving
  <1>2. CASE r # 0
    <2>1. r \in Job
      BY <1>2, MaxJobAssumption DEF Receiver, Job
    <2>2. worker[r] = "callback"
      BY <2>1 DEF AgentInv, Receiving
    <2> QED
      BY <2>1, <2>2 DEF AgentInv, Pending, Reporting
  <1> QED
    BY <1>1, <1>2

\* Steps of the game thread that leave the planner and on_plan_received alone.
LEMMA GameKeepsInv ==
    ASSUME AgentInv, UNCHANGED vars,
           StartTick \/ ReadStatus \/ PhaseIdle \/ KickOff \/ IsActive \/ ReadStatusAgain
    PROVE  AgentInv'
  <1> USE DEF AgentTypeOK, GamePoint, Placed, Receiving, Pending, Known, Expecting, Installed,
              Counted, InterruptedIsQuiet, Waiting, Halted
  <1>1. Inv'
    BY StepKeepsInv DEF AgentInv
  <1>2. receiver' = receiver /\ seen' = seen /\ asked' = asked /\ after' = after
    BY DEF StartTick, ReadStatus, PhaseIdle, KickOff, IsActive, ReadStatusAgain, GoesTo
  <1>3. main' = main /\ worker' = worker /\ source' = source /\ future' = future
        /\ handler' = handler /\ onCompleted' = onCompleted /\ resume' = resume
    BY DEF vars, mainVars, jobVars
  <1>4. /\ Stuck' = Stuck /\ Answering' = Answering
        /\ \A j \in Job : Reporting(j)' = Reporting(j) /\ Alive(j)' = Alive(j)
    BY <1>2, <1>3 DEF Stuck, Answering, Reporting, Alive
  <1>a. \A r \in Receiver : receiver[r] = "run" => game \in Waiting \/ game = "received"
    BY InstallersWait
  <1>5. CASE StartTick
    BY <1>1, <1>2, <1>3, <1>4, <1>a, <1>5 DEF AgentInv, StartTick, At, GoesTo, fields
  <1>6. CASE ReadStatus
    BY <1>1, <1>2, <1>3, <1>4, <1>a, <1>6 DEF AgentInv, ReadStatus, At, GoesTo, fields
  <1>7. CASE PhaseIdle
    <2>1. /\ game = "idle" /\ main = "idle" /\ UNCHANGED <<failures, running, planFor>>
          /\ threw' \in BOOLEAN /\ status # "Planning" /\ status # "Executing"
          /\ \/ game' = "out" /\ UNCHANGED <<status, threw, goal>>
             \/ game' = "out" /\ status' \in {"NoMotives", "Idle"} /\ goal' = goal
             \/ game' = "kickoff" /\ goal' \in Goal /\ status' \in {"Idle", "PlanFailed"}
      BY <1>7 DEF AgentInv, PhaseIdle, At, GoesTo, Becomes, fields
    <2>2. AgentTypeOK' /\ Placed' /\ Receiving' /\ Counted'
      BY <1>2, <1>3, <1>4, <2>1 DEF AgentInv
    <2>3. Pending' /\ Known' /\ Expecting' /\ InterruptedIsQuiet'
      BY <1>2, <1>3, <1>4, <2>1 DEF AgentInv
    <2>4. Installed'
      BY <1>2, <1>a, <2>1 DEF AgentInv
    <2> QED
      BY <1>1, <2>2, <2>3, <2>4 DEF AgentInv
  <1>8. CASE KickOff
    <2>1. /\ game = "kickoff" /\ main = "idle" /\ UNCHANGED <<failures, goal, running, planFor>>
          /\ threw' \in BOOLEAN
          /\ \/ game' = "launch" /\ status' = "Planning" /\ ~threw'
             \/ game' = "out" /\ status' = status
                /\ (status \in {"Planning", "Executing"} => threw')
      <3> DEFINE busy == status \in {"Planning", "Executing"}
      <3>1. /\ game = "kickoff" /\ main = "idle" /\ UNCHANGED <<failures, goal, running, planFor>>
            /\ \/ game' = "launch" /\ status' = "Planning" /\ threw' = FALSE
               \/ game' = "out" /\ status' = status /\ threw' = busy
        BY <1>8, Zenon DEF KickOff, At, GoesTo, Becomes
      <3>2. busy \in BOOLEAN
        OBVIOUS
      <3>3. busy <=> status \in {"Planning", "Executing"}
        OBVIOUS
      <3> HIDE DEF busy
      <3> QED
        BY <3>1, <3>2, <3>3
    <2>2. AgentTypeOK' /\ Placed' /\ Receiving' /\ Counted'
      BY <1>2, <1>3, <1>4, <2>1 DEF AgentInv
    <2>3. Pending' /\ Known' /\ Expecting' /\ InterruptedIsQuiet'
      BY <1>2, <1>3, <1>4, <2>1 DEF AgentInv
    <2>4. Installed'
      BY <1>2, <1>a, <2>1 DEF AgentInv
    <2> QED
      BY <1>1, <2>2, <2>3, <2>4 DEF AgentInv
  <1>9. CASE IsActive
    BY <1>1, <1>2, <1>3, <1>4, <1>a, <1>9 DEF AgentInv, IsActive, At, GoesTo, fields
  <1>10. CASE ReadStatusAgain
    BY <1>1, <1>2, <1>3, <1>4, <1>a, <1>10 DEF AgentInv, ReadStatusAgain, At, GoesTo, fields
  <1> QED
    BY <1>5, <1>6, <1>7, <1>8, <1>9, <1>10

\* The phases that may call cancel_planning, up to that call.
LEMMA ControlKeepsInv ==
    ASSUME AgentInv, [Next]_vars, PhaseExecuting \/ CallControl
    PROVE  AgentInv'
  <1> USE DEF AgentTypeOK, GamePoint, Placed, Receiving, Pending, Known, Expecting, Installed,
              Counted, InterruptedIsQuiet, Waiting, Halted
  <1>1. Inv'
    BY StepKeepsInv DEF AgentInv
  <1>2. receiver' = receiver /\ seen' = seen /\ asked' = asked
    BY DEF PhaseExecuting, CallControl, CancelThen, GoesTo
  <1>3. worker' = worker /\ source' = source /\ future' = future
        /\ handler' = handler /\ onCompleted' = onCompleted
    BY DEF PhaseExecuting, CallControl, CancelThen, CallCancel, vars, mainVars, jobVars
  <1>4. /\ Stuck' = Stuck /\ Answering' = Answering
        /\ \A j \in Job : Reporting(j)' = Reporting(j) /\ Alive(j)' = Alive(j)
    BY <1>2, <1>3 DEF Stuck, Answering, Reporting, Alive
  <1>a. \A r \in Receiver : receiver[r] = "run" => game \in Waiting \/ game = "received"
    BY InstallersWait
  <1>5. CASE PhaseExecuting
    <2>1. CASE UNCHANGED vars
      <3>1. /\ game = "executing" /\ main = "idle" /\ UNCHANGED <<failures, goal, planFor>>
            /\ main' = main /\ resume' = resume
            /\ running' \in BOOLEAN /\ threw' \in BOOLEAN
            /\ \/ game' = "out" /\ after' = after /\ UNCHANGED <<running, status, threw>>
               \/ game' = "out" /\ after' = after /\ status' = "Idle"
               \/ /\ game' = "cancel" /\ after' \in {"switch", "replan"} /\ CallCancel
                  /\ UNCHANGED <<status, threw>>
        BY <1>5, <2>1 DEF AgentInv, PhaseExecuting, At, GoesTo, Becomes, mode, CancelThen, vars, mainVars
      <3>2. AgentTypeOK' /\ Placed' /\ Receiving' /\ Counted'
        BY <1>2, <1>3, <1>4, <3>1 DEF AgentInv, CallCancel
      <3>3. Pending' /\ Known' /\ Expecting' /\ InterruptedIsQuiet'
        BY <1>2, <1>3, <1>4, <3>1 DEF AgentInv
      <3>4. Installed'
        BY <1>2, <1>a, <3>1 DEF AgentInv
      <3> QED
        BY <1>1, <3>2, <3>3, <3>4 DEF AgentInv
    <2>2. CASE ~UNCHANGED vars
      <3>1. /\ At("executing") /\ CallCancel /\ game' = "cancel" /\ after' \in {"switch", "replan"}
            /\ running' = FALSE /\ UNCHANGED <<status, threw, failures, goal, planFor>>
        BY <1>5, <2>2 DEF PhaseExecuting, GoesTo, CancelThen, mode
      <3> QED
        BY <1>1, <1>2, <1>3, <1>4, <1>a, <3>1 DEF AgentInv, At, CallCancel
    <2> QED
      BY <2>1, <2>2
  <1>6. CASE CallControl
    BY <1>1, <1>2, <1>3, <1>4, <1>a, <1>6 DEF AgentInv, CallControl, At, CancelThen, CallCancel, fields
  <1> QED
    BY <1>5, <1>6

\* What follows the cancel, the short methods and the getter.
LEMMA MethodKeepsInv ==
    ASSUME AgentInv, UNCHANGED vars,
           AfterCancel \/ CallResume \/ Resume \/ CallGetter \/ Getter
    PROVE  AgentInv'
  <1> USE DEF AgentTypeOK, GamePoint, Placed, Receiving, Pending, Known, Expecting, Installed,
              Counted, InterruptedIsQuiet, Waiting, Halted
  <1>1. Inv'
    BY StepKeepsInv DEF AgentInv
  <1>2. receiver' = receiver /\ seen' = seen /\ asked' = asked /\ after' = after
    BY DEF AfterCancel, Control, PlanFor, CallResume, Resume, CallGetter, Getter, GoesTo
  <1>3. main' = main /\ worker' = worker /\ source' = source /\ future' = future
        /\ handler' = handler /\ onCompleted' = onCompleted /\ resume' = resume
    BY DEF vars, mainVars, jobVars
  <1>4. /\ Stuck' = Stuck /\ Answering' = Answering
        /\ \A j \in Job : Reporting(j)' = Reporting(j) /\ Alive(j)' = Alive(j)
    BY <1>2, <1>3 DEF Stuck, Answering, Reporting, Alive
  <1>a. \A r \in Receiver : receiver[r] = "run" => game \in Waiting \/ game = "received"
    BY InstallersWait
  <1>5. CASE AfterCancel
    <2>1. /\ game \in Halted /\ main = "idle" /\ \A j \in Job : ~Reporting(j)
          /\ UNCHANGED <<failures, planFor>> /\ running' = FALSE
      BY <1>5 DEF AgentInv, AfterCancel, Control, PlanFor, At
    <2>2. \/ game' = "out" /\ status' \in {"Interrupted", "Idle"} /\ ~threw' /\ goal' = goal
             /\ threw' \in BOOLEAN
          \/ game' = "kickoff" /\ goal' \in Goal /\ status' = status /\ threw' = threw
      BY <1>5 DEF AfterCancel, Control, PlanFor, GoesTo, Becomes, mode
    <2>3. AgentTypeOK' /\ Counted'
      BY <1>2, <2>1, <2>2 DEF AgentInv
    <2>4. Placed' /\ Receiving'
      BY <1>2, <1>3, <1>4, <2>1, <2>2 DEF AgentInv
    <2>5. Pending'
      BY <1>3, <1>4, <2>1, <2>2 DEF AgentInv
    <2>6. Known' /\ InterruptedIsQuiet'
      BY <1>3, <2>1, <2>2 DEF AgentInv
    <2>7. Expecting'
      BY <1>4, <2>1, <2>2 DEF AgentInv
    <2>8. \A r \in Receiver : receiver[r] # "run"
      BY <1>a, <2>1
    <2>9. Installed'
      BY <1>2, <2>1, <2>2, <2>8 DEF AgentInv
    <2> QED
      BY <1>1, <2>3, <2>4, <2>5, <2>6, <2>7, <2>9 DEF AgentInv
  <1>6. CASE CallResume \/ Resume
    <2>1. /\ game \in {"out", "resume", "resumed"} /\ main = "idle"
          /\ UNCHANGED <<failures, goal, running, planFor>> /\ threw' \in BOOLEAN
          /\ \/ game' \in {"resume", "out"} /\ UNCHANGED <<status, threw>>
                /\ game \in {"out", "resume"}
             \/ game' = "resumed" /\ UNCHANGED <<status, threw>> /\ status = "Interrupted"
             \/ game' = "out" /\ status' = "Idle" /\ game = "resumed" /\ status = "Interrupted"
      BY <1>6 DEF AgentInv, CallResume, Resume, At, GoesTo, Becomes, fields
    <2>2. AgentTypeOK' /\ Placed' /\ Receiving' /\ Counted'
      BY <1>2, <1>3, <1>4, <2>1 DEF AgentInv
    <2>3. Pending' /\ Known' /\ Expecting' /\ InterruptedIsQuiet'
      BY <1>2, <1>3, <1>4, <2>1 DEF AgentInv
    <2>4. Installed'
      BY <1>2, <1>a, <2>1 DEF AgentInv
    <2> QED
      BY <1>1, <2>2, <2>3, <2>4 DEF AgentInv
  <1>7. CASE CallGetter \/ Getter
    BY <1>1, <1>2, <1>3, <1>4, <1>a, <1>7 DEF AgentInv, CallGetter, Getter, At, GoesTo, fields
  <1> QED
    BY <1>5, <1>6, <1>7

\* The call of plan_async, and what the game thread does in async_planner.
LEMMA PlannerKeepsInv ==
    ASSUME AgentInv, LaunchSearch \/ InPlanner \/ DestroyAgent \/ DestroyPlanner
    PROVE  AgentInv'
  <1> USE DEF AgentTypeOK, GamePoint, Placed, Receiving, Pending, Known, Expecting, Installed,
              Counted, InterruptedIsQuiet, Waiting, Halted
  <1>1. Inv'
    BY StepKeepsInv DEF AgentInv, LaunchSearch, InPlanner, MainStep, DestroyAgent, DestroyPlanner, Next
  <1>2. receiver' = receiver /\ seen' = seen /\ after' = after /\ UNCHANGED fields
    BY DEF LaunchSearch, InPlanner, DestroyAgent, DestroyPlanner, GoesTo, agentVars, points
  <1>a. \A r \in Receiver : receiver[r] = "run" => game \in Waiting \/ game = "received"
    BY InstallersWait
  <1>b. source \in 0..MaxJob /\ future \in 0..MaxJob
    BY DEF AgentInv, Inv, TypeOK
  <1>3. CASE LaunchSearch
    <2>1. /\ game = "launch" /\ main = "idle" /\ source < MaxJob /\ onCompleted'
          /\ main' \in {"requestStop", "newSource"} /\ resume' = "newSource"
          /\ UNCHANGED <<isPlanning, source, future, stop, worker, handler>>
          /\ game' = "launching" /\ asked' = [asked EXCEPT ![source + 1] = goal]
      BY <1>3 DEF LaunchSearch, At, CallPlan, jobVars
    <2>2. \A j \in Job : ~Reporting(j) /\ ~Reporting(j)' /\ Alive(j)' = Alive(j)
      BY <1>2, <2>1 DEF AgentInv, Reporting, Alive
    <2>3. AgentTypeOK' /\ Placed'
      BY <1>2, <1>b, <2>1 DEF AgentInv, fields
    <2>4. Receiving' /\ Counted' /\ Known' /\ InterruptedIsQuiet'
      BY <1>2, <2>1, <2>2 DEF AgentInv, fields
    <2>5. Pending'
      BY <1>2, <2>1, <2>2 DEF AgentInv, fields
    <2>6. Expecting' /\ Installed'
      BY <1>2, <2>1, <2>2 DEF AgentInv, fields
    <2> QED
      BY <1>1, <2>3, <2>4, <2>5, <2>6 DEF AgentInv
  <1>4. CASE DestroyAgent
    <2>1. worker' = worker /\ source' = source /\ asked' = asked /\ onCompleted' = onCompleted
          /\ handler' = handler /\ future' = future
      BY <1>4 DEF DestroyAgent, CallDestroy, GoesTo, jobVars
    <2>2. /\ Stuck' = Stuck /\ Answering' = Answering
          /\ \A j \in Job : Reporting(j)' = Reporting(j) /\ Alive(j)' = Alive(j)
      BY <1>2, <2>1 DEF Stuck, Answering, Reporting, Alive
    <2> QED
      BY <1>1, <1>2, <1>a, <1>4, <2>1, <2>2 DEF AgentInv, DestroyAgent, CallDestroy, At, GoesTo, fields
  <1>5. CASE DestroyPlanner
    <2>1. worker' = worker /\ source' = source /\ onCompleted' = onCompleted /\ handler' = handler
      BY <1>5 DEF DestroyPlanner, Destroy, jobVars
    <2>2. /\ Stuck' = Stuck /\ Answering' = Answering
          /\ \A j \in Job : Reporting(j)' = Reporting(j) /\ Alive(j)' = Alive(j)
      BY <1>2, <2>1 DEF Stuck, Answering, Reporting, Alive
    <2> QED
      BY <1>1, <1>2, <1>a, <1>5, <2>1, <2>2
         DEF AgentInv, DestroyPlanner, Destroy, agentVars, points, fields
  <1>6. CASE InPlanner
    <2>1. asked' = asked
      BY <1>6 DEF InPlanner
    <2>2. game \in {"launching", "cancel"} /\ game' \in {"launching", "cancel", "out"} \cup Halted
      BY <1>6 DEF AgentInv, InPlanner, MainStep, RequestStop, Await, NewSource, Launch, Assign
    <2>3. CASE RequestStop
      <3>1. /\ main = "requestStop" /\ main' = (IF stop[source] THEN resume ELSE "await")
            /\ UNCHANGED <<resume, onCompleted, source, future, worker, handler>>
            /\ game' = (IF main' # "idle" THEN game ELSE IF game = "launching" THEN "out" ELSE after)
        BY <1>6, <2>3 DEF RequestStop, InPlanner, jobVars
      <3>2. /\ Stuck' = Stuck /\ Answering' = Answering
            /\ \A j \in Job : Reporting(j)' = Reporting(j) /\ Alive(j)' = Alive(j)
        BY <1>2, <3>1 DEF Stuck, Answering, Reporting, Alive
      <3>3. stop[source] => \A j \in Job : worker[j] \in {"none", "done", "stuck"}
        <4> SUFFICES ASSUME stop[source], NEW j \in Job, Alive(j)
                     PROVE  worker[j] \in {"none", "done", "stuck"}
          BY DEF Alive
        <4>1. j = future
          BY <3>1 DEF AgentInv, Inv, Joined
        <4>2. j = source
          BY <3>1, <4>1, MaxJobAssumption DEF AgentInv, Job
        <4> QED
          BY <3>1, <4>2, <1>b DEF AgentInv, Inv, Stopped
      <3>4. \/ main' = "idle" /\ game = "cancel" /\ game' = after /\ after \in Halted
               /\ \A j \in Job : worker[j] \in {"none", "done", "stuck"}
            \/ main' = "newSource" /\ game = "launching" /\ game' = game
            \/ main' = "await" /\ game' = game
        BY <2>2, <3>1, <3>3 DEF AgentInv
      <3>5. AgentTypeOK' /\ Placed' /\ Receiving'
        BY <1>2, <2>1, <2>2, <3>1, <3>2, <3>4 DEF AgentInv, fields
      <3>6. Pending' /\ Known' /\ InterruptedIsQuiet'
        <4>1. main' = "idle" => \A j \in Job : ~Reporting(j)
          BY <3>4 DEF Reporting
        <4> QED
          BY <1>2, <2>1, <2>2, <3>1, <3>2, <3>4, <4>1 DEF AgentInv, fields
      <3>7. Expecting' /\ Installed' /\ Counted'
        BY <1>2, <2>1, <2>2, <3>1, <3>2, <3>4 DEF AgentInv, fields
      <3> QED
        BY <1>1, <3>5, <3>6, <3>7 DEF AgentInv
    <2>4. CASE Await
      <3>1. /\ main = "await" /\ Ready /\ main' = resume
            /\ UNCHANGED <<resume, onCompleted, source, future, worker, handler>>
            /\ game' = (IF main' # "idle" THEN game ELSE IF game = "launching" THEN "out" ELSE after)
        BY <1>6, <2>4 DEF Await, InPlanner, jobVars
      <3>2. /\ Stuck' = Stuck /\ Answering' = Answering
            /\ \A j \in Job : Reporting(j)' = Reporting(j) /\ Alive(j)' = Alive(j)
        BY <1>2, <3>1 DEF Stuck, Answering, Reporting, Alive
      <3>3. \A j \in Job : ~Alive(j) /\ ~Reporting(j)
        <4>1. \A j \in Job : ~Alive(j)
          BY <3>1, MaxJobAssumption DEF AgentInv, Inv, Joined, Ready, Alive, Job
        <4> QED
          BY <4>1 DEF Reporting, Alive
      <3>4. \/ main' = "idle" /\ game = "cancel" /\ game' = after /\ after \in Halted
            \/ main' = "newSource" /\ game = "launching" /\ game' = game
        BY <2>2, <3>1 DEF AgentInv
      <3>5. AgentTypeOK' /\ Placed' /\ Receiving'
        BY <1>2, <2>1, <2>2, <3>1, <3>2, <3>4 DEF AgentInv, fields
      <3>6. Pending' /\ Known' /\ InterruptedIsQuiet'
        BY <1>2, <2>1, <2>2, <3>1, <3>2, <3>3, <3>4 DEF AgentInv, Alive, fields
      <3>7. Expecting' /\ Installed' /\ Counted'
        BY <1>2, <2>1, <2>2, <3>1, <3>2, <3>4 DEF AgentInv, fields
      <3> QED
        BY <1>1, <3>5, <3>6, <3>7 DEF AgentInv
    <2>5. CASE NewSource
      <3>1. /\ main = "newSource" /\ main' = "launch" /\ source' = source + 1
            /\ UNCHANGED <<resume, onCompleted, future, worker, handler>> /\ game' = game
            /\ game = "launching" /\ status = "Planning" /\ asked[source + 1] = goal
            /\ source + 1 \in Job
        <4>1. main = "newSource" /\ main' = "launch" /\ source' = source + 1
              /\ UNCHANGED <<resume, onCompleted, future, worker, handler>> /\ game' = game
          BY <1>6, <2>5 DEF NewSource, InPlanner, jobVars
        <4>2. game = "launching" /\ source + 1 \in Job
          BY <4>1, <1>b, MaxJobAssumption DEF AgentInv, Inv, Launched, Job
        <4> QED
          BY <4>1, <4>2 DEF AgentInv
      <3>2. \A j \in Job : ~Reporting(j) /\ ~Reporting(j)' /\ Alive(j)' = Alive(j)
        BY <1>2, <3>1 DEF AgentInv, Reporting, Alive
      <3>3. Stuck' = Stuck
        BY <3>1 DEF Stuck
      <3>4. AgentTypeOK' /\ Placed' /\ Receiving'
        BY <1>2, <2>1, <3>1, <3>2 DEF AgentInv, fields
      <3>5. Pending' /\ Known' /\ InterruptedIsQuiet'
        BY <1>2, <2>1, <3>1, <3>2 DEF AgentInv, fields
      <3>6. Expecting' /\ Installed' /\ Counted'
        BY <1>2, <2>1, <3>1, <3>2, <3>3 DEF AgentInv, fields
      <3> QED
        BY <1>1, <3>4, <3>5, <3>6 DEF AgentInv
    <2>6. CASE Launch
      <3>1. /\ main = "launch" /\ main' = "assign" /\ worker' = [worker EXCEPT ![source] = "searching"]
            /\ handler' = [handler EXCEPT ![source] = onCompleted]
            /\ UNCHANGED <<resume, onCompleted, source, future>> /\ game' = game
            /\ game = "launching" /\ status = "Planning" /\ source \in Job /\ asked[source] = goal
            /\ onCompleted /\ worker[source] = "none"
        <4>1. /\ main = "launch" /\ main' = "assign" /\ worker' = [worker EXCEPT ![source] = "searching"]
              /\ handler' = [handler EXCEPT ![source] = onCompleted]
              /\ UNCHANGED <<resume, onCompleted, source, future>> /\ game' = game
          BY <1>6, <2>6 DEF Launch, InPlanner
        <4>2. game = "launching" /\ source \in Job /\ worker[source] = "none"
          BY <4>1 DEF AgentInv, Inv, Launched
        <4> QED
          BY <4>1, <4>2 DEF AgentInv
      <3>2. worker \in [Job -> WorkerPoint] /\ handler \in [Job -> BOOLEAN]
        BY DEF AgentInv, Inv, TypeOK
      <3>3. /\ \A j \in Job : j # source => worker'[j] = worker[j] /\ handler'[j] = handler[j]
            /\ worker'[source] = "searching" /\ handler'[source] = onCompleted
        BY <3>1, <3>2
      <3>4. (\A j \in Job : ~Reporting(j)) /\ (\A j \in Job : Reporting(j)' => j = source)
        BY <1>2, <3>1, <3>3 DEF AgentInv, Reporting
      <3>5. Answering'
        BY <3>1, <3>3, MaxJobAssumption DEF Answering, Reporting, Job
      <3>6. AgentTypeOK' /\ Placed'
        BY <1>2, <2>1, <3>1 DEF AgentInv, fields
      <3>7. Receiving'
        BY <1>2, <2>1, <3>1, <3>3 DEF AgentInv, fields
      <3>8. Pending' /\ Known' /\ InterruptedIsQuiet'
        BY <1>2, <2>1, <3>1, <3>3, <3>4 DEF AgentInv, fields
      <3>9. Expecting' /\ Installed' /\ Counted'
        BY <1>2, <2>1, <3>1, <3>5 DEF AgentInv, fields
      <3> QED
        BY <1>1, <3>6, <3>7, <3>8, <3>9 DEF AgentInv
    <2>7. CASE Assign
      <3>1. /\ main = "assign" /\ main' = "idle" /\ future' = source /\ Ready
            /\ UNCHANGED <<resume, onCompleted, source, worker, handler>>
            /\ game = "launching" /\ game' = "out"
        BY <1>6, <2>7 DEF AgentInv, Assign, InPlanner, jobVars
      <3>2. /\ Stuck' = Stuck /\ Answering' = Answering
            /\ \A j \in Job : Reporting(j)' = Reporting(j) /\ Alive(j)' = Alive(j)
        BY <1>2, <3>1 DEF Stuck, Answering, Reporting, Alive
      <3>3. AgentTypeOK' /\ Placed' /\ Receiving'
        BY <1>2, <2>1, <3>1, <3>2 DEF AgentInv, fields
      <3>4. Pending' /\ Known' /\ InterruptedIsQuiet'
        BY <1>2, <2>1, <3>1, <3>2 DEF AgentInv, fields
      <3>5. Expecting' /\ Installed' /\ Counted'
        BY <1>2, <2>1, <3>1, <3>2 DEF AgentInv, fields
      <3> QED
        BY <1>1, <3>3, <3>4, <3>5 DEF AgentInv
    <2> QED
      BY <1>6, <2>3, <2>4, <2>5, <2>6, <2>7 DEF InPlanner, MainStep
  <1> QED
    BY <1>3, <1>4, <1>5, <1>6

Quiet == {"tell", "tellIdle", "zero", "end"}

\* What a step of on_plan_received does, whoever runs it.
LEMMA ReceiverStep ==
    ASSUME AgentInv, NEW r \in Receiver, OnPlanReceived(r)
    PROVE  /\ receiver[r] # "out" /\ receiver' = [receiver EXCEPT ![r] = receiver'[r]]
           /\ receiver'[r] \in ReceiverPoint \ {"out"}
           /\ seen' \in [Receiver -> Nat] /\ failures' \in Nat /\ goal' = goal
           /\ running' \in BOOLEAN /\ planFor' \in Goal /\ threw' \in BOOLEAN
           /\ IF receiver[r] \in {"idle", "failed", "run"}
              THEN /\ receiver'[r] \in Quiet /\ status' \in {"Idle", "PlanFailed", "Executing"}
                   /\ threw' = FALSE
              ELSE /\ receiver'[r] \in Quiet <=> receiver[r] \in Quiet
                   /\ status' = status /\ threw' = threw
           /\ status' = "Executing" => \/ status = "Executing" /\ threw' = threw
                                      \/ receiver[r] = "run"
           /\ UNCHANGED <<running, planFor>> \/ (running' /\ planFor' = goal)
           /\ receiver'[r] = "run" => running' /\ planFor' = goal
           /\ Counted'
  <1> USE DEF AgentInv, AgentTypeOK, ReceiverPoint, Quiet, Counted, Receives, fields, mode, Becomes
  <1>1. CASE \E success \in BOOLEAN : Begin(r, success)
    BY <1>1 DEF Begin
  <1>2. CASE CountFailure(r)
    BY <1>2 DEF CountFailure, LoadFailures, StoreFailures
  <1>3. CASE ClearFailures(r)
    BY <1>3, ThreadsAssumption DEF ClearFailures
  <1>4. CASE Install(r)
    BY <1>4 DEF Install
  <1>5. CASE Transition(r, "idle", "Idle", "tellIdle", "zero")
    BY <1>5 DEF Transition
  <1>6. CASE Transition(r, "failed", "PlanFailed", "tell", "end")
    BY <1>6 DEF Transition
  <1>7. CASE Transition(r, "run", "Executing", "tell", "end")
    BY <1>7 DEF Transition
  <1>8. CASE Told(r, "tellIdle", "zero") \/ Told(r, "tell", "end") \/ Told(r, "found", "install")
    BY <1>8 DEF Told
  <1> QED
    BY <1>1, <1>2, <1>3, <1>4, <1>5, <1>6, <1>7, <1>8 DEF OnPlanReceived

\* The game polls, and runs on_plan_received itself.
LEMMA PollKeepsInv ==
    ASSUME AgentInv, PollResult \/ ReceiveInGame \/ EndReceive
    PROVE  AgentInv'
  <1> USE DEF AgentTypeOK, GamePoint, Placed, Receiving, Pending, Known, Expecting, Installed,
              Counted, InterruptedIsQuiet, Waiting, Halted
  <1>1. Inv'
    BY StepKeepsInv DEF AgentInv, PollResult, ReceiveInGame, EndReceive, Next
  <1>2. worker' = worker /\ source' = source /\ handler' = handler /\ onCompleted' = onCompleted
        /\ main' = main /\ resume' = resume /\ after' = after /\ asked' = asked
    BY DEF PollResult, TryGetResult, GoesTo, ReceiveInGame, EndReceive, vars, mainVars, jobVars
  <1>3. Stuck' = Stuck /\ \A j \in Job : Alive(j)' = Alive(j)
    BY <1>2 DEF Stuck, Alive
  <1>4. 0 \in Receiver /\ Job \subseteq Receiver /\ 0 \notin Job
    BY MaxJobAssumption DEF Receiver, Job
  <1>5. CASE PollResult
    <2>1. UNCHANGED fields
      BY <1>5 DEF PollResult
    <2>2. CASE TryGetResult
      <3>1. /\ main = "idle" /\ game = "poll" /\ future # 0 /\ worker[future] = "done" /\ future' = 0
            /\ game' = "received" /\ receiver' = [receiver EXCEPT ![0] = "begin"] /\ seen' = seen
        BY <1>5, <2>2, <1>2 DEF PollResult, TryGetResult, At, vars, mainVars
      <3>2. \A j \in Job : ~Alive(j) /\ ~Reporting(j) /\ ~Reporting(j)'
        <4>1. \A j \in Job : ~Alive(j)
          BY <3>1 DEF AgentInv, Inv, Joined, Alive
        <4> QED
          BY <1>2, <4>1 DEF Reporting, Alive
      <3>3. ~(status = "Planning" /\ ~threw)
        BY <3>1, <3>2, <1>4 DEF AgentInv, Stuck, Answering, Alive, Inv, TypeOK, Job
      <3>4. AgentTypeOK' /\ Placed'
        BY <1>2, <2>1, <3>1, <1>4 DEF AgentInv, fields, ReceiverPoint
      <3>5. Receiving'
        BY <1>2, <1>3, <1>4, <3>1, <3>2 DEF AgentInv
      <3>6. Pending' /\ Known' /\ InterruptedIsQuiet' /\ Expecting'
        BY <1>2, <2>1, <3>1, <3>2, <3>3 DEF AgentInv, fields
      <3>7. Installed' /\ Counted'
        BY <1>2, <2>1, <1>4, <3>1 DEF AgentInv, fields
      <3> QED
        BY <1>1, <3>4, <3>5, <3>6, <3>7 DEF AgentInv
    <2>3. CASE ~TryGetResult
      <3>1. game = "poll" /\ game' = "out" /\ receiver' = receiver /\ seen' = seen /\ future' = future
        BY <1>5, <2>3 DEF PollResult, At, GoesTo, vars, mainVars
      <3>2. Answering' = Answering /\ \A j \in Job : Reporting(j)' = Reporting(j)
        BY <1>2, <3>1 DEF Answering, Reporting
      <3> QED
        BY <1>1, <1>2, <1>3, <2>1, <3>1, <3>2 DEF AgentInv, fields
    <2> QED
      BY <2>2, <2>3
  <1>6. CASE ReceiveInGame
    <2>1. OnPlanReceived(0) /\ game' = game /\ future' = future
      BY <1>6 DEF ReceiveInGame, vars, mainVars
    <2>2. \A j \in Job : receiver'[j] = receiver[j]
      BY <1>4, <2>1, ReceiverStep DEF AgentInv
    <2>3. Answering' = Answering /\ \A j \in Job : Reporting(j)' = Reporting(j)
      BY <1>2, <1>4, <2>2 DEF Answering, Reporting, AgentInv, Inv, TypeOK, Job
    <2>4. game = "received" /\ \A j \in Job : ~Alive(j) /\ ~Reporting(j)
      <3>1. game = "received"
        BY <1>4, <2>1, ReceiverStep DEF AgentInv
      <3> QED
        BY <3>1 DEF AgentInv, Alive, Reporting
    <2>5. ~(status = "Planning" /\ ~threw) /\ ~(status' = "Planning" /\ ~threw')
      <3>1. ~(status = "Planning" /\ ~threw)
        BY <1>4, <2>4 DEF AgentInv, Stuck, Answering, Alive, Inv, TypeOK, Job
      <3> QED
        BY <1>4, <2>1, <3>1, ReceiverStep
    <2>6. AgentTypeOK' /\ Placed'
      <3>1. receiver' \in [Receiver -> ReceiverPoint]
        BY <1>4, <2>1, ReceiverStep DEF AgentInv
      <3>2. status' = status \/ status' \in {"Idle", "PlanFailed", "Executing"}
        BY <1>4, <2>1, ReceiverStep
      <3>3. seen' \in [Receiver -> Nat] /\ failures' \in Nat /\ goal' = goal /\ running' \in BOOLEAN
            /\ planFor' \in Goal /\ threw' \in BOOLEAN
        BY <1>4, <2>1, ReceiverStep
      <3> QED
        BY <1>2, <2>1, <3>1, <3>2, <3>3 DEF AgentInv
    <2>7. Receiving'
      <3>1. receiver'[0] # "out"
        BY <1>4, <2>1, ReceiverStep
      <3> QED
        BY <1>2, <1>3, <2>1, <2>2, <2>4, <3>1 DEF AgentInv
    <2>8. Pending' /\ Known' /\ Expecting'
      BY <1>2, <2>1, <2>3, <2>4, <2>5
    <2>9. InterruptedIsQuiet'
      <3>1. status' = "Interrupted" => status = "Interrupted"
        BY <1>4, <2>1, ReceiverStep
      <3> QED
        BY <1>2, <3>1 DEF AgentInv
    <2>10. Installed'
      <3>1. /\ status' = "Executing" => \/ status = "Executing" /\ threw' = threw
                                       \/ receiver[0] = "run"
            /\ UNCHANGED <<running, planFor>> \/ (running' /\ planFor' = goal)
            /\ receiver'[0] = "run" => running' /\ planFor' = goal
            /\ goal' = goal
        BY <1>4, <2>1, ReceiverStep
      <3>2. \A q \in Receiver : q = 0 \/ q \in Job
        BY MaxJobAssumption DEF Receiver, Job
      <3> QED
        BY <1>4, <2>2, <2>4, <3>1, <3>2 DEF AgentInv
    <2>11. Counted'
      BY <1>4, <2>1, ReceiverStep
    <2> QED
      BY <1>1, <2>6, <2>7, <2>8, <2>9, <2>10, <2>11 DEF AgentInv
  <1>7. CASE EndReceive
    <2>1. /\ receiver[0] = "end" /\ receiver' = [receiver EXCEPT ![0] = "out"] /\ game' = "out"
          /\ seen' = seen /\ future' = future /\ UNCHANGED fields
      BY <1>7 DEF EndReceive, Receives, vars, mainVars
    <2>2. game = "received" /\ \A j \in Job : ~Alive(j) /\ ~Reporting(j) /\ ~Reporting(j)'
      <3>1. game = "received" /\ \A j \in Job : ~Alive(j)
        BY <2>1 DEF AgentInv
      <3> QED
        BY <1>2, <3>1 DEF Alive, Reporting
    <2>3. ~(status = "Planning" /\ ~threw)
      BY <1>4, <2>2 DEF AgentInv, Stuck, Answering, Alive, Inv, TypeOK, Job
    <2>4. AgentTypeOK' /\ Placed'
      BY <1>2, <2>1, <1>4 DEF AgentInv, fields, ReceiverPoint
    <2>5. Receiving'
      BY <1>2, <1>3, <1>4, <2>1 DEF AgentInv
    <2>6. Pending' /\ Known' /\ InterruptedIsQuiet' /\ Expecting'
      BY <1>2, <2>1, <2>2, <2>3 DEF AgentInv, fields
    <2>7. Installed' /\ Counted'
      BY <1>2, <2>1, <1>4, <2>2 DEF AgentInv, fields
    <2> QED
      BY <1>1, <2>4, <2>5, <2>6, <2>7 DEF AgentInv
  <1> QED
    BY <1>5, <1>6, <1>7

\* A searching thread in on_plan_received.
LEMMA CallbackKeepsInv ==
    ASSUME AgentInv, NEW j \in Job, ReceiveInThread(j)
    PROVE  AgentInv'
  <1> USE DEF AgentTypeOK, GamePoint, Placed, Receiving, Pending, Known, Expecting, Installed,
              Counted, InterruptedIsQuiet, Waiting, Halted, Quiet
  <1>1. Inv'
    BY StepKeepsInv DEF AgentInv, ReceiveInThread
  <1>2. /\ worker' = worker /\ source' = source /\ handler' = handler /\ onCompleted' = onCompleted
        /\ main' = main /\ resume' = resume /\ future' = future
        /\ after' = after /\ asked' = asked /\ game' = game
    BY DEF ReceiveInThread, vars, mainVars, jobVars
  <1>3. Stuck' = Stuck /\ \A i \in Job : Alive(i)' = Alive(i)
    BY <1>2 DEF Stuck, Alive
  <1>4. j \in Receiver /\ 0 \in Receiver /\ 0 # j /\ Job \subseteq Receiver
    BY MaxJobAssumption DEF Receiver, Job
  <1>5. worker[j] = "callback" /\ OnPlanReceived(j)
    BY DEF ReceiveInThread
  <1>6. \A q \in Receiver : q # j => receiver'[q] = receiver[q]
    BY <1>4, <1>5, ReceiverStep DEF AgentInv
  <1>7. game # "received"
    BY <1>5 DEF AgentInv, Alive
  <1>8. \A i \in Job : i # j => Reporting(i)' = Reporting(i)
    BY <1>2, <1>4, <1>6 DEF Reporting
  <1>9. CASE receiver[j] \in {"idle", "failed", "run"}
    <2>1. Reporting(j)
      BY <1>5, <1>9 DEF Reporting
    <2>2. status = "Planning" /\ j = source /\ game \in Waiting \ {"received"}
          /\ \A i \in Job : i # j => ~Reporting(i)
      BY <2>1, <1>7 DEF AgentInv
    <2>3. status' \in {"Idle", "PlanFailed", "Executing"} /\ receiver'[j] \in Quiet
          /\ receiver' \in [Receiver -> ReceiverPoint] /\ seen' \in [Receiver -> Nat] /\ failures' \in Nat
          /\ goal' = goal /\ running' \in BOOLEAN /\ planFor' \in Goal /\ threw' \in BOOLEAN
      <3>1. /\ receiver' = [receiver EXCEPT ![j] = receiver'[j]]
            /\ receiver'[j] \in ReceiverPoint /\ receiver'[j] \in Quiet
            /\ status' \in {"Idle", "PlanFailed", "Executing"}
            /\ seen' \in [Receiver -> Nat] /\ failures' \in Nat
            /\ goal' = goal /\ running' \in BOOLEAN /\ planFor' \in Goal /\ threw' \in BOOLEAN
        BY <1>4, <1>5, <1>9, ReceiverStep
      <3>2. receiver \in [Receiver -> ReceiverPoint]
        BY DEF AgentInv
      <3> QED
        BY <3>1, <3>2
    <2>4. \A i \in Job : ~Reporting(i)'
      BY <1>2, <1>5, <1>8, <2>2, <2>3 DEF Reporting
    <2>5. AgentTypeOK' /\ Placed'
      BY <1>2, <2>3 DEF AgentInv
    <2>6. Receiving'
      BY <1>2, <1>3, <1>4, <1>5, <1>6, <1>7, <2>3 DEF AgentInv
    <2>7. game = "launching" /\ main # "assign" => FALSE
      BY <2>1 DEF AgentInv
    <2>8. Pending' /\ Known' /\ Expecting' /\ InterruptedIsQuiet'
      BY <1>2, <2>2, <2>3, <2>4, <2>7 DEF AgentInv
    <2>9. Installed'
      <3>1. /\ status' = "Executing" => receiver[j] = "run"
            /\ UNCHANGED <<running, planFor>> \/ (running' /\ planFor' = goal)
        BY <1>4, <1>5, <2>2, ReceiverStep
      <3> QED
        BY <1>2, <1>4, <1>6, <2>3, <3>1 DEF AgentInv
    <2>10. Counted'
      BY <1>4, <1>5, ReceiverStep
    <2> QED
      BY <1>1, <2>5, <2>6, <2>8, <2>9, <2>10 DEF AgentInv
  <1>10. CASE receiver[j] \notin {"idle", "failed", "run"}
    <2>1. status' = status /\ threw' = threw /\ (receiver'[j] \in Quiet <=> receiver[j] \in Quiet)
          /\ receiver' \in [Receiver -> ReceiverPoint] /\ seen' \in [Receiver -> Nat] /\ failures' \in Nat
          /\ goal' = goal /\ running' \in BOOLEAN /\ planFor' \in Goal /\ receiver'[j] # "out"
          /\ threw' \in BOOLEAN
      <3>1. /\ receiver' = [receiver EXCEPT ![j] = receiver'[j]]
            /\ receiver'[j] \in ReceiverPoint \ {"out"}
            /\ seen' \in [Receiver -> Nat] /\ failures' \in Nat /\ goal' = goal
            /\ running' \in BOOLEAN /\ planFor' \in Goal /\ threw' \in BOOLEAN
        BY <1>4, <1>5, ReceiverStep
      <3>2. /\ receiver'[j] \in Quiet <=> receiver[j] \in Quiet
            /\ status' = status /\ threw' = threw
        BY <1>4, <1>5, <1>10, ReceiverStep
      <3>3. receiver' \in [Receiver -> ReceiverPoint]
        BY <1>4, <3>1 DEF AgentInv
      <3> QED
        BY <3>1, <3>2, <3>3
    <2>2. \A i \in Job : Reporting(i)' = Reporting(i)
      BY <1>2, <1>8, <2>1 DEF Reporting
    <2>3. Answering' = Answering
      BY <1>2, <2>2 DEF Answering, AgentInv, Inv, TypeOK, Job
    <2>4. AgentTypeOK' /\ Placed'
      BY <1>2, <2>1 DEF AgentInv
    <2>5. Receiving'
      BY <1>2, <1>3, <1>4, <1>5, <1>6, <1>7, <2>1 DEF AgentInv
    <2>6. Pending' /\ Known' /\ Expecting' /\ InterruptedIsQuiet'
      BY <1>2, <1>3, <2>1, <2>2, <2>3 DEF AgentInv
    <2>7. Installed'
      <3>1. /\ UNCHANGED <<running, planFor>> \/ (running' /\ planFor' = goal)
            /\ receiver'[j] = "run" => running' /\ planFor' = goal
        BY <1>4, <1>5, ReceiverStep
      <3> QED
        BY <1>2, <1>4, <1>6, <2>1, <3>1 DEF AgentInv
    <2>8. Counted'
      BY <1>4, <1>5, ReceiverStep
    <2> QED
      BY <1>1, <2>4, <2>5, <2>6, <2>7, <2>8 DEF AgentInv
  <1> QED
    BY <1>9, <1>10

\* A searching thread outside on_plan_received, on its way in or out of it.
LEMMA SearcherKeepsInv ==
    ASSUME AgentInv, NEW j \in Job,
           SearchStep(j) \/ EnterReceiver(j) \/ LeaveReceiver(j) \/ UserCancels(j)
    PROVE  AgentInv'
  <1> USE DEF AgentTypeOK, GamePoint, Placed, Receiving, Pending, Known, Expecting, Installed,
              Counted, InterruptedIsQuiet, Waiting, Halted
  <1>1. Inv'
    BY StepKeepsInv DEF AgentInv, SearchStep, EnterReceiver, LeaveReceiver, UserCancels, Next
  <1>2. /\ source' = source /\ handler' = handler /\ onCompleted' = onCompleted
        /\ main' = main /\ resume' = resume /\ future' = future
        /\ after' = after /\ asked' = asked /\ game' = game /\ seen' = seen /\ UNCHANGED fields
    BY DEF SearchStep, SearchEnds, SearchAborts, Returns, ClearFlag, CheckStop, EnterReceiver,
           EnterCallback, LeaveReceiver, LeaveCallback, UserCancels, CallbackCancels, Receives,
           mainVars, agentVars, points
  <1>3. j \in Receiver /\ 0 \in Receiver /\ 0 # j /\ Job \subseteq Receiver
    BY MaxJobAssumption DEF Receiver, Job
  <1>4. worker \in [Job -> WorkerPoint]
    BY DEF AgentInv, Inv, TypeOK
  <1>5. CASE SearchStep(j)
    <2>1. PICK p \in WorkerPoint : worker' = [worker EXCEPT ![j] = p]
      BY <1>5 DEF SearchStep, SearchEnds, SearchAborts, Returns, ClearFlag, CheckStop, Moves, WorkerPoint
    <2>2. /\ receiver' = receiver /\ worker[j] \in {"searching", "found", "cleared"}
          /\ p \in {"found", "cleared", "calling"} \/ (p = "done" /\ worker[j] = "cleared" /\ stop[j])
      <3>1. handler[j]
        BY <1>5 DEF AgentInv, SearchStep, SearchEnds, SearchAborts, Returns, ClearFlag, CheckStop, Moves
      <3>2. worker'[j] = p
        BY <1>4, <2>1
      <3>3. receiver' = receiver
        BY <1>5 DEF SearchStep, agentVars, points
      <3> QED
        BY <1>4, <1>5, <3>1, <3>2, <3>3
           DEF SearchStep, SearchEnds, SearchAborts, Returns, ClearFlag, CheckStop, Moves
    <2>3. p = "done" => main = "await"
      BY <1>3, <2>2 DEF AgentInv, Inv, Stopped, Receiver
    <2>4. \A i \in Job : i # j => worker'[i] = worker[i] /\ Reporting(i)' = Reporting(i)
      BY <1>4, <2>1, <2>2 DEF Reporting
    <2>5. Reporting(j) /\ (Reporting(j)' \/ p = "done") /\ worker'[j] = p
      BY <1>4, <2>1, <2>2 DEF Reporting
    <2>6. AgentTypeOK' /\ Placed'
      BY <1>2, <2>2 DEF AgentInv, fields
    <2>7. Receiving'
      BY <1>2, <1>3, <2>2, <2>4, <2>5 DEF AgentInv, Alive
    <2>8. Pending'
      BY <1>2, <2>4, <2>5 DEF AgentInv, fields
    <2>9. Known' /\ InterruptedIsQuiet' /\ Installed' /\ Counted'
      BY <1>2, <2>2, <2>4, <2>5 DEF AgentInv, fields
    <2>10. Expecting'
      <3>1. Stuck => Stuck'
        BY <2>2, <2>4 DEF Stuck
      <3>2. p # "done" => Answering'
        BY <1>2, <2>5, MaxJobAssumption DEF Answering, AgentInv, Job
      <3>3. p = "done" => game = "cancel" \/ (game = "launching" /\ main # "assign")
        BY <2>3 DEF AgentInv
      <3> QED
        BY <1>2, <3>2, <3>3
    <2> QED
      BY <1>1, <2>6, <2>7, <2>8, <2>9, <2>10 DEF AgentInv
  <1>6. CASE EnterReceiver(j)
    <2>1. /\ worker[j] = "calling" /\ worker' = [worker EXCEPT ![j] = "callback"]
          /\ receiver' = [receiver EXCEPT ![j] = "begin"]
      BY <1>6 DEF EnterReceiver, EnterCallback, Moves
    <2>2. receiver[j] = "out"
      BY <1>3, <2>1 DEF AgentInv
    <2>3. \A i \in Job : Reporting(i)' = Reporting(i) /\ Alive(i)' = Alive(i)
      BY <1>3, <1>4, <2>1 DEF AgentInv, Reporting, Alive
    <2>4. Stuck' = Stuck /\ Answering' = Answering
      <3>1. \A i \in Job : worker'[i] = "stuck" <=> worker[i] = "stuck"
        BY <1>4, <2>1
      <3>2. source = 0 \/ source \in Job
        BY MaxJobAssumption DEF AgentInv, Inv, TypeOK, Job
      <3> QED
        BY <1>2, <2>3, <3>1, <3>2 DEF Stuck, Answering
    <2>5. Reporting(j)
      BY <2>1 DEF Reporting
    <2>6. AgentTypeOK' /\ Placed'
      BY <1>2, <1>3, <2>1 DEF AgentInv, fields, ReceiverPoint
    <2>7. Receiving'
      BY <1>2, <1>3, <1>4, <2>1, <2>3 DEF AgentInv
    <2>8. Pending' /\ Known' /\ InterruptedIsQuiet' /\ Expecting'
      BY <1>2, <1>4, <2>1, <2>3, <2>4, <2>5 DEF AgentInv, fields
    <2>9. Installed' /\ Counted'
      BY <1>2, <1>3, <2>1, <2>2 DEF AgentInv, fields
    <2> QED
      BY <1>1, <2>6, <2>7, <2>8, <2>9 DEF AgentInv
  <1>7. CASE LeaveReceiver(j)
    <2>1. /\ worker[j] = "callback" /\ worker' = [worker EXCEPT ![j] = "done"]
          /\ receiver[j] = "end" /\ receiver' = [receiver EXCEPT ![j] = "out"]
      BY <1>7 DEF LeaveReceiver, LeaveCallback, Moves, Receives
    <2>2. \A i \in Job : Reporting(i)' = Reporting(i) /\ (Alive(i)' => Alive(i))
      BY <1>3, <1>4, <2>1 DEF AgentInv, Reporting, Alive
    <2>3. Stuck' = Stuck /\ Answering' = Answering
      BY <1>2, <1>4, <2>1, <2>2 DEF Stuck, Answering, AgentInv, Inv, TypeOK, Job
    <2>4. AgentTypeOK' /\ Placed'
      BY <1>2, <1>3, <2>1 DEF AgentInv, fields, ReceiverPoint
    <2>5. Receiving'
      BY <1>2, <1>3, <1>4, <2>1, <2>2 DEF AgentInv
    <2>6. Pending' /\ Known' /\ InterruptedIsQuiet' /\ Expecting'
      BY <1>2, <1>4, <2>1, <2>2, <2>3 DEF AgentInv, fields
    <2>7. Installed' /\ Counted'
      BY <1>2, <1>3, <2>1 DEF AgentInv, fields
    <2> QED
      BY <1>1, <2>4, <2>5, <2>6, <2>7 DEF AgentInv
  <1>8. CASE UserCancels(j)
    <2>1. /\ worker[j] = "callback" /\ worker' = [worker EXCEPT ![j] = "stuck"] /\ main = "idle"
          /\ receiver[j] \in {"found", "tell", "tellIdle"} /\ receiver' = receiver
      BY <1>8 DEF UserCancels, CallbackCancels, Moves, agentVars, points
    <2>2. \A i \in Job : (Reporting(i)' => Reporting(i)) /\ Alive(i)' = Alive(i)
      BY <1>3, <1>4, <2>1 DEF AgentInv, Reporting, Alive
    <2>3. Stuck'
      BY <1>4, <2>1 DEF Stuck
    <2>4. AgentTypeOK' /\ Placed'
      BY <1>2, <2>1 DEF AgentInv, fields
    <2>5. Receiving'
      BY <1>2, <1>3, <1>4, <2>1, <2>2 DEF AgentInv
    <2>6. Pending' /\ Known' /\ InterruptedIsQuiet' /\ Expecting'
      BY <1>2, <1>4, <2>1, <2>2, <2>3 DEF AgentInv, fields
    <2>7. Installed' /\ Counted'
      BY <1>2, <1>3, <2>1 DEF AgentInv, fields
    <2> QED
      BY <1>1, <2>4, <2>5, <2>6, <2>7 DEF AgentInv
  <1> QED
    BY <1>5, <1>6, <1>7, <1>8

\* Every step of either thread, and none, keeps the invariant.
LEMMA AgentStepKeepsInv == AgentInv /\ [AgentNext]_threadVars => AgentInv'
  <1> SUFFICES ASSUME AgentInv, [AgentNext]_threadVars PROVE AgentInv'
    OBVIOUS
  <1>1. CASE UNCHANGED threadVars
    <2>1. UNCHANGED vars /\ UNCHANGED agentVars
      BY <1>1 DEF threadVars
    <2>2. Inv'
      BY <2>1, StepKeepsInv DEF AgentInv
    <2> QED
      BY <2>1, <2>2
         DEF AgentInv, AgentTypeOK, Placed, Receiving, Pending, Known, Expecting, Answering, Stuck,
             Installed, Counted, InterruptedIsQuiet, Reporting, Alive, vars, mainVars, jobVars,
             agentVars, points, fields
  <1>2. CASE CallMethod
    <2>1. CASE StartTick
      BY <2>1, GameKeepsInv DEF StartTick
    <2>2. CASE CallControl
      BY <2>2, ControlKeepsInv, StepsOfPlanner, <1>2 DEF AgentNext
    <2>3. CASE CallResume \/ CallGetter
      BY <2>3, MethodKeepsInv DEF CallResume, CallGetter
    <2>4. CASE DestroyAgent
      BY <2>4, PlannerKeepsInv
    <2> QED
      BY <1>2, <2>1, <2>2, <2>3, <2>4 DEF CallMethod
  <1>3. CASE InMethod
    <2>1. CASE ReadStatus \/ PhaseIdle \/ KickOff \/ IsActive \/ ReadStatusAgain
      BY <2>1, GameKeepsInv DEF ReadStatus, PhaseIdle, KickOff, IsActive, ReadStatusAgain
    <2>2. CASE LaunchSearch \/ InPlanner
      BY <2>2, PlannerKeepsInv
    <2>3. CASE PhaseExecuting
      BY <2>3, ControlKeepsInv, StepsOfPlanner, <1>3 DEF AgentNext
    <2>4. CASE AfterCancel \/ Resume \/ Getter
      BY <2>4, MethodKeepsInv DEF AfterCancel, Control, PlanFor, Resume, Getter
    <2>5. CASE PollResult \/ ReceiveInGame \/ EndReceive
      BY <2>5, PollKeepsInv
    <2> QED
      BY <1>3, <2>1, <2>2, <2>3, <2>4, <2>5 DEF InMethod
  <1>4. CASE DestroyPlanner
    BY <1>4, PlannerKeepsInv
  <1>5. ASSUME NEW j \in Job, SearchStep(j) \/ InThread(j) \/ UserCancels(j)
        PROVE  AgentInv'
    BY <1>5, CallbackKeepsInv, SearcherKeepsInv DEF InThread
  <1> QED
    BY <1>1, <1>2, <1>3, <1>4, <1>5 DEF AgentNext

\* The invariant holds in every reachable state.
LEMMA AgentInvariant == AgentSpec => []AgentInv
  BY AgentInitInv, AgentStepKeepsInv, PTL DEF AgentSpec

\* The agent uses its planner as AsyncPlanner lets a caller: what is proved of the
\* planner holds in the agent (goap_agent.cpp:134-170, 356-377).
THEOREM AgentUsesPlanner == AgentSpec => Spec
  <1>1. AgentInit => Init
    BY DEF AgentInit
  <1>2. [AgentNext]_threadVars => [Next]_vars
    BY StepsOfPlanner DEF threadVars
  <1> QED
    BY <1>1, <1>2, PTL DEF AgentSpec, Spec

\* The agent's variables keep their types.
THEOREM AgentTypesHold == AgentSpec => []AgentTypeOK
  <1>1. AgentInv => AgentTypeOK
    BY DEF AgentInv
  <1> QED
    BY <1>1, AgentInvariant, PTL

\* Whatever the game calls and however many searches it starts, only the current
\* search can report, for the goal of the agent and to an agent that is Planning
\* (goap_agent.cpp:134-158, 172-194).  Nothing reports to one that is Planning still
\* because kick_off_planning threw (goap_agent.cpp:136).
THEOREM SearchIsForGoal == AgentSpec => []PlanningIsPending
  <1>1. AgentInv => PlanningIsPending
    BY DEF AgentInv, Pending, Expecting, Answering, Halted, Placed, PlanningIsPending
  <1> QED
    BY <1>1, AgentInvariant, PTL

\* An agent that executes has a running plan for its goal (goap_agent.cpp:192), unless
\* it is Executing still because kick_off_planning threw (goap_agent.cpp:136).
THEOREM ExecutesForGoal == AgentSpec => []PlanIsForGoal
  <1>1. AgentInv => PlanIsForGoal
    BY DEF AgentInv, Installed, Halted, PlanIsForGoal
  <1> QED
    BY <1>1, AgentInvariant, PTL

\* No thread is behind an interrupted agent (goap_agent.cpp:356-361).
THEOREM InterruptIsFinal == AgentSpec => []InterruptedIsQuiet
  <1>1. AgentInv => InterruptedIsQuiet
    BY DEF AgentInv
  <1> QED
    BY <1>1, AgentInvariant, PTL

\* The failure count is below its limit whenever no answer is being handled,
\* although two threads may be counting at once (goap_agent.cpp:172-187).
THEOREM FailuresAreBounded == AgentSpec => []FailuresBelowLimit
  <1>1. AgentInv => FailuresBelowLimit
    BY ThreadsAssumption DEF AgentInv, AgentTypeOK, Counted, FailuresBelowLimit
  <1> QED
    BY <1>1, AgentInvariant, PTL

\* A searching thread touches the status, the goal and the executor only while the
\* game thread is at a point where at most it reads.
LEMMA OneReporter ==
    ASSUME AgentInv, NEW j \in Job, receiver[j] \in {"idle", "failed", "run", "install"}
    PROVE  j = source /\ game \in Waiting
  <1>1. j \in Receiver
    BY MaxJobAssumption DEF Receiver, Job
  <1>2. worker[j] = "callback"
    BY <1>1 DEF AgentInv, Receiving
  <1> QED
    BY <1>2 DEF AgentInv, Pending, Reporting

\* Without a lock, two threads meet only on the status, which one of them reads, on
\* the failure count and in the user's callback, however many searches there are,
\* as long as no getter is called (goap_agent.cpp:172-194, 379-389).
THEOREM RacesAreConfined == AgentSpec => []RacesConfined
  <1>1. AgentInv => RacesConfined
    <2> SUFFICES ASSUME AgentInv, NEW t \in Thread, NEW u \in Thread,
                        NEW m \in {"status", "executor", "goal"}, Race(t, u, m), game # "look"
                 PROVE  m = "status" /\ m \notin Writes(u)
      BY Zenon DEF RacesConfined
    <2> DEFINE At4(i) == receiver[i] \in {"idle", "failed", "run", "install"}
    <2>1. t # u /\ m \in Writes(t) /\ m \in Reads(u) \cup Writes(u)
      BY DEF Race
    <2>2. \A i \in Thread : i = 0 \/ i \in Job
      BY MaxJobAssumption DEF Thread, Job
    <2>3. \A i \in Job : At4(i) => i = source /\ game \in Waiting
      BY OneReporter
    <2>4. At4(0) => game = "received"
      BY DEF AgentInv, Receiving
    <2>5. \A i \in Job : m \in Reads(i) \cup Writes(i) => At4(i)
      <3> SUFFICES ASSUME NEW i \in Job, m \in Reads(i) \cup Writes(i) PROVE At4(i)
        OBVIOUS
      <3>1. i # 0
        BY MaxJobAssumption DEF Job
      <3>2. m \in ReceiverReads(receiver[i]) \/ m \in ReceiverWrites(receiver[i])
        BY <3>1 DEF Reads, Writes
      <3> QED
        BY <3>2 DEF ReceiverReads, ReceiverWrites
    <2>6. m \in Writes(0) => game \notin Waiting
      <3>1. m \in ReceiverWrites(receiver[0]) => At4(0)
        BY DEF ReceiverWrites
      <3>2. m \in GameWrites(game) => game \notin Waiting
        BY DEF GameWrites, Waiting
      <3> QED
        BY <2>4, <3>1, <3>2 DEF Writes, Waiting
    <2>7. m \in Reads(0) => m = "status" \/ game \notin Waiting
      <3>1. m \in ReceiverReads(receiver[0]) => At4(0)
        BY DEF ReceiverReads
      <3>2. m \in GameReads(game) => m = "status" \/ game \notin Waiting
        BY DEF GameReads, Waiting
      <3> QED
        BY <2>4, <3>1, <3>2 DEF Reads, Waiting
    <2> HIDE DEF At4
    <2>8. CASE t = 0
      <3>1. u \in Job
        BY <2>1, <2>2, <2>8
      <3> QED
        BY <2>1, <2>3, <2>5, <2>6, <2>8, <3>1
    <2>9. CASE t # 0
      <3>1. t \in Job /\ game \in Waiting /\ t = source
        BY <2>1, <2>2, <2>3, <2>5, <2>9
      <3>2. u \notin Job
        BY <2>1, <2>3, <2>5, <3>1
      <3>3. u = 0
        BY <2>2, <3>2
      <3> QED
        BY <2>1, <2>6, <2>7, <3>1, <3>3
    <2> QED
      BY <2>8, <2>9
  <1> QED
    BY <1>1, AgentInvariant, PTL
=============================================================================
