------------------------ MODULE LeanExecutionProofs ------------------------
(***************************************************************************)
(* Theorems about LeanExecution, for every number of executions, faults,   *)
(* plans, states of the data directory and ways a container may end.       *)
(***************************************************************************)
EXTENDS LeanExecution, FiniteSetTheorems, Foundations

(* What is known of an execution at each of its steps.                      *)
Before == {"asked", "accepted", "inspected", "probed"}
Running == {"programmed", "ready", "attached", "finished", "copied"}
Containing == {"created"} \cup Running
Inside == {"opened", "building", "built", "removing", "closing"} \cup Containing
Late == {"removing", "closing"}

Launched(e) ==
  /\ pc[e] \in Before \cup {"opened"} => builder[e] = "none"
  /\ pc[e] \in Inside \ {"opened"} => builder[e] # "none"
  /\ pc[e] \in {"built"} \cup Containing => builder[e] = "done"
  /\ known[e] => builder[e] = "done"

(* The work directory is there from OpenWork to CloseWork; what is built in *)
(* it is the program of the execution.                                      *)
WorkKept(e) ==
  /\ pc[e] \in Before => work[e] = None
  /\ pc[e] \in Inside => work[e] # None /\ work[e].source = e
  /\ pc[e] \in Inside /\ builder[e] = "done" => work[e].dll = e
  /\ pc[e] = "copied" => work[e].result # None /\ work[e].result.program = e

ContainerKept(e) ==
  /\ pc[e] \in Before \cup {"opened", "building", "built"} => container[e] = None /\ ~known[e]
  /\ pc[e] \in Containing => container[e] # None
  /\ pc[e] \in {"removing"} \cup Containing => known[e]
  /\ pc[e] \in Running => container[e].program = e
  /\ container[e] # None /\ container[e].phase = "exited" => container[e].exit # None
  /\ pc[e] = "finished" => container[e].phase = "exited"

(* What the caller is going to be told.                                     *)
Told(e) ==
  /\ answer[e] = None <=> pc[e] # "answered"
  /\ loaded[e] # None => loaded[e].program = e
  /\ pc[e] \in Late /\ failure[e] = None => loaded[e] # None
  /\ answer[e] = "ok" => loaded[e] # None /\ builder[e] # "none"

(* A build still under way was abandoned by AwaitBuild's timeout.           *)
Abandoned(e) ==
  /\ builder[e] = "running" /\ pc[e] \in Late => failure[e] = "lean_execution_error"
  /\ pc[e] = "answered" /\ (builder[e] = "running" \/ work[e] # None) =>
       ~known[e] /\ answer[e] \in {"lean_execution_error", "unexpected"}

ThreadInv(e) == Launched(e) /\ WorkKept(e) /\ ContainerKept(e) /\ Told(e) /\ Abandoned(e)

LeftBehind == {e \in Executions : container[e] # None /\ pc[e] \in {"closing", "answered"}}

LeftBehindBounded == Cardinality(LeftBehind) <= faults

ExecutionInv ==
  /\ TypeOK
  /\ \A e \in Executions : ThreadInv(e)

(* A step of one execution leaves everything of the others alone.           *)
Alone(e) ==
  \A d \in Executions \ {e} :
    /\ pc'[d] = pc[d] /\ work'[d] = work[d] /\ builder'[d] = builder[d]
    /\ container'[d] = container[d] /\ known'[d] = known[d]
    /\ loaded'[d] = loaded[d] /\ failure'[d] = failure[d] /\ answer'[d] = answer[d]

Stepped(e) == TypeOK' /\ ThreadInv(e)' /\ Alone(e)

-----------------------------------------------------------------------------
(* Before anything is launched *)

LEMMA EarlySteps ==
  ASSUME NEW e \in Executions, ExecutionInv,
         Compile(e) \/ RequireAvailable(e) \/ EnsureRuntime(e) \/ OpenWork(e)
  PROVE  Stepped(e)
<1> USE ExecutionNoneAssumption, BoundsAssumption
    DEF ExecutionInv, Stepped, Alone, TypeOK, ThreadInv, Launched, WorkKept, ContainerKept, Told,
        Abandoned, Before, Running, Containing, Inside, Late, Stages, Refusals, Failures,
        Go, Refuse, hostVars, worldVars, threadVars, Fault, WorkOf
<1>1. CASE Compile(e)
  BY <1>1 DEF Compile
<1>2. CASE RequireAvailable(e)
  BY <1>2 DEF RequireAvailable
<1>3. CASE EnsureRuntime(e)
  BY <1>3 DEF EnsureRuntime
<1>4. CASE OpenWork(e)
  BY <1>4, SMTT(30) DEF OpenWork, EmptyWork, Works
<1>5. QED
  BY <1>1, <1>2, <1>3, <1>4

-----------------------------------------------------------------------------
(* The build and the run *)

LEMMA BuildSteps ==
  ASSUME NEW e \in Executions, ExecutionInv,
         StartBuild(e) \/ BuildEnds(e) \/ AwaitBuild(e)
  PROVE  Stepped(e)
<1> USE ExecutionNoneAssumption, BoundsAssumption
    DEF ExecutionInv, Stepped, Alone, TypeOK, ThreadInv, Launched, WorkKept, ContainerKept, Told,
        Abandoned, Before, Running, Containing, Inside, Late, Stages, Refusals, Failures,
        Go, Raise, hostVars, worldVars, threadVars, Fault, WorkOf, Works, Containers, Artifacts
<1>1. CASE StartBuild(e)
  BY <1>1 DEF StartBuild
<1>2. CASE BuildEnds(e)
  <2>1. TypeOK'
    <3>1. work' \in [Executions -> Works \cup {None}]
      <4>1. work[e] \in Works \cup {None}
        OBVIOUS
      <4>2. [source |-> None, dll |-> e, result |-> None] \in Works
        OBVIOUS
      <4>3. work[e] # None => [work[e] EXCEPT !.dll = work[e].source] \in Works
        BY <4>1
      <4>4. QED
        BY <1>2, <4>1, <4>2, <4>3, SMTT(30) DEF BuildEnds
    <3>2. builder' \in [Executions -> {"none", "running", "done", "failed"}]
      BY <1>2 DEF BuildEnds
    <3>3. QED
      BY <1>2, <3>1, <3>2 DEF BuildEnds
  <2>2. Alone(e)
    BY <1>2 DEF BuildEnds
  <2>3. Launched(e)'
    BY <1>2 DEF BuildEnds
  <2>4. WorkKept(e)'
    BY <1>2 DEF BuildEnds
  <2>5. ContainerKept(e)'
    BY <1>2 DEF BuildEnds
  <2>6. Told(e)'
    BY <1>2 DEF BuildEnds
  <2>7. Abandoned(e)'
    BY <1>2 DEF BuildEnds
  <2>8. QED
    BY <2>1, <2>2, <2>3, <2>4, <2>5, <2>6, <2>7
<1>3. CASE AwaitBuild(e)
  <2>1. TypeOK'
    <3>1. UNCHANGED <<directory, work, builder, container, known, loaded, answer, faults, changes>>
      BY <1>3 DEF AwaitBuild
    <3>2. \/ pc' = [pc EXCEPT ![e] = "built"] /\ failure' = failure
          \/ /\ \E step \in {"removing", "closing"} : pc' = [pc EXCEPT ![e] = step]
             /\ failure' = [failure EXCEPT ![e] = "lean_execution_error"]
      BY <1>3 DEF AwaitBuild
    <3>3. QED
      BY <3>1, <3>2
  <2>2. Alone(e)
    BY <1>3 DEF AwaitBuild
  <2>3. Launched(e)'
    BY <1>3 DEF AwaitBuild
  <2>4. WorkKept(e)'
    BY <1>3 DEF AwaitBuild
  <2>5. ContainerKept(e)'
    BY <1>3 DEF AwaitBuild
  <2>6. Told(e)'
    BY <1>3 DEF AwaitBuild
  <2>7. Abandoned(e)'
    BY <1>3 DEF AwaitBuild
  <2>8. QED
    BY <2>1, <2>2, <2>3, <2>4, <2>5, <2>6, <2>7
<1>4. QED
  BY <1>1, <1>2, <1>3

LEMMA RunSteps ==
  ASSUME NEW e \in Executions, ExecutionInv,
         CreateContainer(e) \/ CopyProgram(e) \/ CopyFixture(e) \/ StartContainer(e) \/ ContainerExits(e)
  PROVE  Stepped(e)
<1> USE ExecutionNoneAssumption, BoundsAssumption
    DEF ExecutionInv, Stepped, Alone, TypeOK, ThreadInv, Launched, WorkKept, ContainerKept, Told,
        Abandoned, Before, Running, Containing, Inside, Late, Stages, Refusals, Failures,
        Go, Raise, hostVars, worldVars, threadVars, Fault, WorkOf, Works, Containers, Artifacts
<1>1. CASE CreateContainer(e)
  <2>1. TypeOK'
    <3> DEFINE new == [phase |-> "created", program |-> None,
                       data |-> IF e \in Local THEN "mounted" ELSE "none", exit |-> None]
    <3>1. new \in Containers
      OBVIOUS
    <3>2. container' = [container EXCEPT ![e] = new]
      BY <1>1 DEF CreateContainer
    <3> HIDE DEF new
    <3>3. container' \in [Executions -> Containers \cup {None}]
      BY <3>1, <3>2
    <3>4. /\ UNCHANGED <<directory, work, builder, loaded, answer, changes>>
          /\ \E step \in {"created", "removing", "closing"} : pc' = [pc EXCEPT ![e] = step]
      BY <1>1 DEF CreateContainer
    <3>a. known' = known \/ known' = [known EXCEPT ![e] = TRUE]
      BY <1>1 DEF CreateContainer
    <3>b. known \in [Executions -> BOOLEAN]
      OBVIOUS
    <3>5. known' \in [Executions -> BOOLEAN]
      <4> HIDE DEF ExecutionInv, TypeOK, ThreadInv
      <4>1. QED
        BY <3>a, <3>b
    <3>6. /\ failure' = failure \/ failure' = [failure EXCEPT ![e] = "lean_execution_error"]
          /\ faults' = faults \/ (faults < MaxFaults /\ faults' = faults + 1)
      BY <1>1 DEF CreateContainer
    <3>7. pc' \in [Executions -> Stages]
      BY <3>4
    <3>8. failure' \in [Executions -> Refusals \cup Failures \cup {None}] /\ faults' \in 0..MaxFaults
      BY <3>6
    <3>9. QED
      BY <3>3, <3>4, <3>5, <3>7, <3>8
  <2>2. Alone(e)
    BY <1>1 DEF CreateContainer
  <2>3. Launched(e)'
    BY <1>1 DEF CreateContainer
  <2>4. WorkKept(e)'
    BY <1>1 DEF CreateContainer
  <2>5. ContainerKept(e)'
    BY <1>1 DEF CreateContainer
  <2>6. Told(e)'
    BY <1>1 DEF CreateContainer
  <2>7. Abandoned(e)'
    BY <1>1 DEF CreateContainer
  <2>8. QED
    BY <2>1, <2>2, <2>3, <2>4, <2>5, <2>6, <2>7
<1>2. CASE CopyProgram(e)
  <2> DEFINE new == [container[e] EXCEPT !.program = work[e].dll]
  <2>a. container[e] \in Containers \cup {None} /\ container[e] # None /\ work[e].dll = e
    BY <1>2 DEF CopyProgram
  <2>1. /\ new \in Containers
        /\ new.phase = container[e].phase /\ new.program = e /\ new.exit = container[e].exit
    <3> HIDE DEF ExecutionInv, TypeOK, ThreadInv
    <3>1. QED
      BY <2>a
  <2>2. container' = [container EXCEPT ![e] = new]
    BY <1>2 DEF CopyProgram
  <2> HIDE DEF new
  <2>3. TypeOK' /\ Alone(e)
    BY <1>2, <2>1, <2>2 DEF CopyProgram
  <2>4. ThreadInv(e)'
    BY <1>2, <2>1, <2>2 DEF CopyProgram
  <2>5. QED
    BY <2>3, <2>4
<1>3. CASE CopyFixture(e)
  <2>1. TypeOK'
    BY <1>3, SMTT(30) DEF CopyFixture
  <2>2. Alone(e)
    BY <1>3 DEF CopyFixture
  <2>3. Launched(e)'
    BY <1>3 DEF CopyFixture
  <2>4. WorkKept(e)'
    BY <1>3 DEF CopyFixture
  <2>5. ContainerKept(e)'
    BY <1>3 DEF CopyFixture
  <2>6. Told(e)'
    BY <1>3 DEF CopyFixture
  <2>7. Abandoned(e)'
    BY <1>3 DEF CopyFixture
  <2>8. QED
    BY <2>1, <2>2, <2>3, <2>4, <2>5, <2>6, <2>7
<1>4. CASE StartContainer(e)
  <2> DEFINE new == [container[e] EXCEPT !.phase = "running"]
  <2>1. /\ new \in Containers /\ new # None
        /\ new.phase = "running" /\ new.program = container[e].program
    BY <1>4 DEF StartContainer
  <2>2. container' = [container EXCEPT ![e] = new]
    BY <1>4 DEF StartContainer
  <2> HIDE DEF new
  <2>3. TypeOK' /\ Alone(e)
    BY <1>4, <2>1, <2>2 DEF StartContainer
  <2>4. ThreadInv(e)'
    BY <1>4, <2>1, <2>2 DEF StartContainer
  <2>5. QED
    BY <2>3, <2>4
<1>5. CASE ContainerExits(e)
  <2>a. container \in [Executions -> Containers \cup {None}] /\ container[e] # None
    BY <1>5 DEF ContainerExits
  <2>b. container[e] \in Containers
    BY <2>a
  <2>1. UNCHANGED <<directory, pc, work, builder, known, loaded, failure, answer, faults, changes>>
    BY <1>5 DEF ContainerExits
  <2> PICK exit \in Exits :
           container' = [container EXCEPT ![e] = [@ EXCEPT !.phase = "exited", !.exit = exit]]
    BY <1>5 DEF ContainerExits
  <2> DEFINE new == [container[e] EXCEPT !.phase = "exited", !.exit = exit]
  <2>2. /\ new \in Containers
        /\ new.phase = "exited" /\ new.exit = exit /\ new.program = container[e].program
    <3> HIDE DEF ExecutionInv, TypeOK, ThreadInv
    <3>1. QED
      BY <2>b
  <2>3. container' = [container EXCEPT ![e] = new]
    OBVIOUS
  <2> HIDE DEF new
  <2>4. TypeOK'
    <3>1. container' \in [Executions -> Containers \cup {None}]
      <4> HIDE DEF ExecutionInv, TypeOK, ThreadInv, Containers
      <4>1. QED
        BY <2>a, <2>2, <2>3
    <3>2. QED
      BY <2>1, <3>1
  <2>5. Alone(e)
    BY <2>1, <2>3
  <2>6. Launched(e)' /\ WorkKept(e)' /\ Told(e)' /\ Abandoned(e)'
    BY <2>1
  <2>7. ContainerKept(e)'
    BY <2>a, <2>1, <2>2, <2>3
  <2>8. QED
    BY <2>4, <2>5, <2>6, <2>7
<1>6. QED
  BY <1>1, <1>2, <1>3, <1>4, <1>5

LEMMA ResultSteps ==
  ASSUME NEW e \in Executions, ExecutionInv,
         Attached(e) \/ AttachTimesOut(e) \/ CopyResults(e) \/ LoadResult(e) \/ CallFails(e)
  PROVE  Stepped(e)
<1> USE ExecutionNoneAssumption, BoundsAssumption
    DEF ExecutionInv, Stepped, Alone, TypeOK, ThreadInv, Launched, WorkKept, ContainerKept, Told,
        Abandoned, Before, Running, Containing, Inside, Late, Stages, Refusals, Failures,
        Go, Raise, hostVars, worldVars, threadVars, Fault, WorkOf, Works, Containers, Artifacts
<1>1. CASE Attached(e)
  <2>1. CASE Go(e, "attached", "finished")
    BY <1>1, <2>1 DEF Attached
  <2>2. CASE Raise(e, "lean_execution_error")
    BY <1>1, <2>2 DEF Attached
  <2>3. QED
    BY <1>1, <2>1, <2>2 DEF Attached
<1>2. CASE AttachTimesOut(e)
  BY <1>2 DEF AttachTimesOut
<1>3. CASE CopyResults(e)
  BY <1>3 DEF CopyResults
<1>4. CASE LoadResult(e)
  <2>1. TypeOK'
    <3>1. work[e].result \in Artifacts
      BY <1>4 DEF LoadResult
    <3> HIDE DEF Artifacts
    <3>2. UNCHANGED <<directory, work, builder, container, known, answer, faults, changes>>
      BY <1>4 DEF LoadResult
    <3>3. \/ /\ loaded' = [loaded EXCEPT ![e] = work[e].result]
             /\ pc' = [pc EXCEPT ![e] = "removing"] /\ failure' = failure
          \/ /\ \E step \in {"removing", "closing"} : pc' = [pc EXCEPT ![e] = step]
             /\ \E error \in Failures : failure' = [failure EXCEPT ![e] = error]
             /\ loaded' = loaded
      BY <1>4 DEF LoadResult
    <3>4. QED
      BY <3>1, <3>2, <3>3
  <2>2. Alone(e)
    BY <1>4 DEF LoadResult
  <2>3. Launched(e)'
    BY <1>4 DEF LoadResult
  <2>4. WorkKept(e)'
    BY <1>4 DEF LoadResult
  <2>5. ContainerKept(e)'
    BY <1>4 DEF LoadResult
  <2>6. Told(e)'
    BY <1>4 DEF LoadResult
  <2>7. Abandoned(e)'
    BY <1>4 DEF LoadResult
  <2>8. QED
    BY <2>1, <2>2, <2>3, <2>4, <2>5, <2>6, <2>7
<1>5. CASE CallFails(e)
  BY <1>5 DEF CallFails
<1>6. QED
  BY <1>1, <1>2, <1>3, <1>4, <1>5

LEMMA ExitSteps ==
  ASSUME NEW e \in Executions, ExecutionInv,
         RemoveContainer(e) \/ CloseWork(e)
  PROVE  Stepped(e)
<1> USE ExecutionNoneAssumption, BoundsAssumption
    DEF ExecutionInv, Stepped, Alone, TypeOK, ThreadInv, Launched, WorkKept, ContainerKept, Told,
        Abandoned, Before, Running, Containing, Inside, Late, Stages, Refusals, Failures,
        Go, Raise, hostVars, worldVars, threadVars, Fault, WorkOf, Works, Containers, Artifacts
<1>1. CASE RemoveContainer(e)
  BY <1>1 DEF RemoveContainer
<1>2. CASE CloseWork(e)
  <2>1. TypeOK'
    <3>1. Normalized(loaded[e]) \in Failures \cup {None}
      BY DEF Normalized
    <3>2. /\ UNCHANGED <<directory, builder, container, known, loaded, faults, changes>>
          /\ pc' = [pc EXCEPT ![e] = "answered"]
          /\ work' = [work EXCEPT ![e] = None] \/ work' = work
      BY <1>2 DEF CloseWork
    <3>3. \E error \in Refusals \cup Failures \cup {None} :
            /\ failure' = [failure EXCEPT ![e] = error]
            /\ \E told \in Refusals \cup Failures \cup {"ok"} : answer' = [answer EXCEPT ![e] = told]
      BY <1>2, <3>1 DEF CloseWork
    <3>4. QED
      BY <3>2, <3>3
  <2>2. Alone(e)
    BY <1>2 DEF CloseWork, Normalized
  <2>3. Launched(e)'
    BY <1>2 DEF CloseWork, Normalized
  <2>4. WorkKept(e)'
    BY <1>2 DEF CloseWork, Normalized
  <2>5. ContainerKept(e)'
    BY <1>2 DEF CloseWork, Normalized
  <2>6. Told(e)'
    BY <1>2 DEF CloseWork, Normalized
  <2>7. Abandoned(e)'
    BY <1>2 DEF CloseWork, Normalized
  <2>8. QED
    BY <2>1, <2>2, <2>3, <2>4, <2>5, <2>6, <2>7
<1>3. QED
  BY <1>1, <1>2

-----------------------------------------------------------------------------
(* The invariant *)

Step(e) == Thread(e) \/ BuildEnds(e) \/ ContainerExits(e)

LEMMA StepsOfOne ==
  ASSUME NEW e \in Executions, ExecutionInv, Step(e)
  PROVE  Stepped(e)
BY EarlySteps, BuildSteps, RunSteps, ResultSteps, ExitSteps DEF Step, Thread

(* What holds of the others survives, because nothing of theirs changes.    *)
LEMMA OthersKept ==
  ASSUME NEW e \in Executions, NEW d \in Executions \ {e}, ThreadInv(d), Alone(e)
  PROVE  ThreadInv(d)'
BY DEF Alone, ThreadInv, Launched, WorkKept, ContainerKept, Told, Abandoned

LEMMA DirectoryStep ==
  ASSUME ExecutionInv, ChangeDirectory
  PROVE  ExecutionInv'
<1> USE BoundsAssumption
    DEF ChangeDirectory, hostVars, threadVars
<1>1. TypeOK'
  BY DEF ExecutionInv, TypeOK
<1>2. \A e \in Executions : ThreadInv(e)'
  BY DEF ExecutionInv, ThreadInv, Launched, WorkKept, ContainerKept, Told, Abandoned
<1>3. QED
  BY <1>1, <1>2 DEF ExecutionInv

LEMMA ExecutionInvInit == Init => ExecutionInv
<1> SUFFICES ASSUME Init PROVE ExecutionInv
  OBVIOUS
<1>1. TypeOK
  BY BoundsAssumption DEF Init, TypeOK, Stages
<1>2. \A e \in Executions : ThreadInv(e)
  BY ExecutionNoneAssumption
     DEF Init, ThreadInv, Launched, WorkKept, ContainerKept, Told, Abandoned,
         Before, Running, Containing, Inside, Late
<1>3. QED
  BY <1>1, <1>2 DEF ExecutionInv

LEMMA ExecutionInvStep ==
  ASSUME ExecutionInv, [Next]_vars
  PROVE  ExecutionInv'
<1>1. ASSUME NEW e \in Executions, Step(e)
      PROVE  ExecutionInv'
  <2>1. TypeOK' /\ ThreadInv(e)' /\ Alone(e)
    BY <1>1, StepsOfOne DEF Stepped
  <2>2. \A d \in Executions \ {e} : ThreadInv(d)'
    BY <2>1, OthersKept DEF ExecutionInv
  <2>3. QED
    BY <2>1, <2>2 DEF ExecutionInv
<1>2. CASE ChangeDirectory
  BY <1>2, DirectoryStep
<1>3. CASE UNCHANGED vars
  <2>1. TypeOK'
    BY <1>3 DEF ExecutionInv, TypeOK, vars, threadVars
  <2>2. \A e \in Executions : ThreadInv(e)'
    BY <1>3 DEF ExecutionInv, ThreadInv, Launched, WorkKept, ContainerKept, Told, Abandoned,
                vars, threadVars
  <2>3. QED
    BY <2>1, <2>2 DEF ExecutionInv
<1>4. QED
  BY <1>1, <1>2, <1>3 DEF Next, Step

LEMMA ExecutionInvariant == Init /\ [][Next]_vars => []ExecutionInv
BY ExecutionInvInit, ExecutionInvStep, PTL

(* Every reachable state of the executions is well typed: in particular     *)
(* what is loaded was always written by some program.                       *)
THEOREM ExecutionTypeCorrect == Spec => []TypeOK
<1>1. ExecutionInv => TypeOK
  BY DEF ExecutionInv
<1>2. QED
  BY <1>1, ExecutionInvariant, PTL DEF Spec

(* A work directory outlives its answer only when the build was abandoned   *)
(* by its timeout, and then the caller got no result.                       *)
THEOREM NoWorkLeftBehind == Spec => []WorkDirectoryRemoved
<1>1. ExecutionInv => WorkDirectoryRemoved
  BY DEF ExecutionInv, ThreadInv, Abandoned, Told, WorkDirectoryRemoved
<1>2. QED
  BY <1>1, ExecutionInvariant, PTL DEF Spec

-----------------------------------------------------------------------------
(* Containers left behind *)

(* An execution comes to leave its container behind only in a step in which *)
(* a docker call failed: a create whose answer was lost, or a removal.      *)
LEMMA LeavingIsAFault ==
  ASSUME NEW e \in Executions, ExecutionInv, Step(e)
  PROVE  /\ faults' = faults \/ faults' = faults + 1
         /\ container'[e] # None /\ pc'[e] \in {"closing", "answered"} =>
              \/ container[e] # None /\ pc[e] \in {"closing", "answered"}
              \/ faults' = faults + 1
<1> USE ExecutionNoneAssumption
    DEF ExecutionInv, ThreadInv, Launched, ContainerKept, Told, Before, Running, Containing, Inside,
        Late, Refusals, Failures, Go, Raise, Refuse, Fault, hostVars, worldVars, threadVars, TypeOK
<1>1. CASE Compile(e)
  BY <1>1 DEF Compile
<1>2. CASE RequireAvailable(e)
  BY <1>2 DEF RequireAvailable
<1>3. CASE EnsureRuntime(e)
  BY <1>3 DEF EnsureRuntime
<1>4. CASE OpenWork(e)
  BY <1>4 DEF OpenWork
<1>5. CASE StartBuild(e)
  BY <1>5 DEF StartBuild
<1>6. CASE AwaitBuild(e)
  BY <1>6 DEF AwaitBuild
<1>7. CASE CreateContainer(e)
  BY <1>7 DEF CreateContainer
<1>8. CASE CopyProgram(e)
  BY <1>8 DEF CopyProgram
<1>9. CASE CopyFixture(e)
  BY <1>9 DEF CopyFixture
<1>10. CASE StartContainer(e)
  BY <1>10 DEF StartContainer
<1>11. CASE Attached(e)
  BY <1>11 DEF Attached
<1>12. CASE AttachTimesOut(e)
  BY <1>12 DEF AttachTimesOut
<1>13. CASE CopyResults(e)
  BY <1>13 DEF CopyResults
<1>14. CASE LoadResult(e)
  BY <1>14 DEF LoadResult
<1>15. CASE CallFails(e)
  BY <1>15 DEF CallFails
<1>16. CASE RemoveContainer(e)
  BY <1>16 DEF RemoveContainer
<1>17. CASE CloseWork(e)
  BY <1>17 DEF CloseWork
<1>18. CASE BuildEnds(e)
  BY <1>18 DEF BuildEnds
<1>19. CASE ContainerExits(e)
  BY <1>19 DEF ContainerExits
<1>20. QED
  BY <1>1, <1>2, <1>3, <1>4, <1>5, <1>6, <1>7, <1>8, <1>9, <1>10, <1>11, <1>12, <1>13, <1>14, <1>15, <1>16, <1>17, <1>18, <1>19 DEF Step, Thread

LEMMA LeftBehindStep ==
  ASSUME ExecutionInv, [Next]_vars, Cardinality(LeftBehind) <= faults
  PROVE  Cardinality(LeftBehind') <= faults'
<1>1. IsFiniteSet(LeftBehind) /\ Cardinality(LeftBehind) \in Nat /\ faults \in Nat
  <2>1. LeftBehind \in SUBSET Executions
    BY DEF LeftBehind
  <2>2. IsFiniteSet(LeftBehind)
    BY <2>1, ExecutionsAssumption, FS_Subset
  <2>3. faults \in Nat
    BY BoundsAssumption DEF ExecutionInv, TypeOK
  <2>4. QED
    BY <2>2, <2>3, FS_CardinalityType
<1>2. ASSUME NEW e \in Executions, Step(e)
      PROVE  Cardinality(LeftBehind') <= faults'
  <2>1. Alone(e)
    BY <1>2, StepsOfOne DEF Stepped
  <2>2. CASE faults' = faults + 1
    <3>1. LeftBehind' \in SUBSET (LeftBehind \cup {e})
      BY <2>1 DEF LeftBehind, Alone
    <3>a. /\ IsFiniteSet(LeftBehind \cup {e})
          /\ Cardinality(LeftBehind \cup {e}) =
               IF e \in LeftBehind THEN Cardinality(LeftBehind) ELSE Cardinality(LeftBehind) + 1
      BY <1>1, FS_AddElement
    <3>2. /\ IsFiniteSet(LeftBehind \cup {e})
          /\ Cardinality(LeftBehind \cup {e}) <= Cardinality(LeftBehind) + 1
          /\ Cardinality(LeftBehind \cup {e}) \in Nat
      BY <1>1, <3>a
    <3>3. Cardinality(LeftBehind') <= Cardinality(LeftBehind \cup {e}) /\ Cardinality(LeftBehind') \in Nat
      BY <3>1, <3>2, FS_Subset, FS_CardinalityType
    <3>4. QED
      BY <1>1, <2>2, <3>2, <3>3
  <2>3. CASE faults' # faults + 1
    <3>1. LeftBehind' \in SUBSET LeftBehind /\ faults' = faults
      BY <1>2, <2>1, <2>3, LeavingIsAFault DEF LeftBehind, Alone
    <3>2. Cardinality(LeftBehind') <= Cardinality(LeftBehind) /\ Cardinality(LeftBehind') \in Nat
      BY <1>1, <3>1, FS_Subset, FS_CardinalityType
    <3>3. QED
      BY <1>1, <3>1, <3>2
  <2>4. QED
    BY <2>2, <2>3
<1>3. CASE ChangeDirectory \/ UNCHANGED vars
  BY <1>3 DEF ChangeDirectory, vars, hostVars, threadVars, LeftBehind
<1>4. QED
  BY <1>2, <1>3 DEF Next, Step

(* Whatever fails or times out, the containers that outlive their answers   *)
(* are at most as many as the docker calls that failed.                     *)
THEOREM ContainersAreAccountedFor == Spec => []ContainersAccountedFor
<1>1. Init => LeftBehindBounded
  <2> SUFFICES ASSUME Init PROVE LeftBehindBounded
    OBVIOUS
  <2>1. LeftBehind = {} /\ faults = 0
    BY DEF Init, LeftBehind
  <2>2. QED
    BY <2>1, FS_EmptySet DEF LeftBehindBounded
<1>2. ExecutionInv /\ [Next]_vars /\ LeftBehindBounded =>
        LeftBehindBounded'
  BY LeftBehindStep DEF LeftBehindBounded
<1>3. ExecutionInv /\ LeftBehindBounded => ContainersAccountedFor
  <2> SUFFICES ASSUME ExecutionInv, LeftBehindBounded
               PROVE  ContainersAccountedFor
    OBVIOUS
  <2> DEFINE Kept == {e \in Executions : answer[e] # None /\ container[e] # None}
  <2>1. Kept \in SUBSET LeftBehind
    BY DEF ExecutionInv, ThreadInv, Told, LeftBehind
  <2>2. LeftBehind \in SUBSET Executions
    BY DEF LeftBehind
  <2>3. IsFiniteSet(LeftBehind)
    BY <2>2, ExecutionsAssumption, FS_Subset
  <2>4. Cardinality(Kept) <= Cardinality(LeftBehind) /\ Cardinality(Kept) \in Nat
        /\ Cardinality(LeftBehind) \in Nat /\ faults \in Nat
    BY <2>1, <2>3, FS_Subset, FS_CardinalityType, BoundsAssumption DEF ExecutionInv, TypeOK
  <2>5. QED
    BY <2>4 DEF ContainersAccountedFor, LeftBehindBounded
<1>4. QED
  BY <1>1, <1>2, <1>3, ExecutionInvariant, PTL DEF Spec

-----------------------------------------------------------------------------
(* The promise *)

(* What one step does to the abstract stage of its execution.               *)
Promised(e) ==
  \/ UNCHANGED <<StageOf(e), DeliveredOf(e)>>
  \/ /\ StageOf(e) = "asked" /\ StageOf(e)' \in {"refused", "launched"}
     /\ UNCHANGED DeliveredOf(e)
  \/ StageOf(e) = "launched" /\ StageOf(e)' = "delivered" /\ DeliveredOf(e)' = e
  \/ StageOf(e) = "launched" /\ StageOf(e)' = "failed" /\ UNCHANGED DeliveredOf(e)

LEMMA StageStep ==
  ASSUME NEW e \in Executions, ExecutionInv, Step(e)
  PROVE  Promised(e)
<1> USE ExecutionNoneAssumption
    DEF ExecutionInv, ThreadInv, Launched, ContainerKept, Told, Before, Running, Containing, Inside,
        Late, Refusals, Failures, Go, Raise, Refuse, Fault, hostVars, worldVars, threadVars, TypeOK,
        Promised, StageOf, DeliveredOf, Abandoned
<1>1. CASE Compile(e)
  BY <1>1 DEF Compile
<1>2. CASE RequireAvailable(e)
  BY <1>2 DEF RequireAvailable
<1>3. CASE EnsureRuntime(e)
  BY <1>3 DEF EnsureRuntime
<1>4. CASE OpenWork(e)
  BY <1>4 DEF OpenWork
<1>5. CASE StartBuild(e)
  BY <1>5 DEF StartBuild
<1>6. CASE AwaitBuild(e)
  BY <1>6 DEF AwaitBuild
<1>7. CASE CreateContainer(e)
  BY <1>7 DEF CreateContainer
<1>8. CASE CopyProgram(e)
  BY <1>8 DEF CopyProgram
<1>9. CASE CopyFixture(e)
  BY <1>9 DEF CopyFixture
<1>10. CASE StartContainer(e)
  BY <1>10 DEF StartContainer
<1>11. CASE Attached(e)
  BY <1>11 DEF Attached
<1>12. CASE AttachTimesOut(e)
  BY <1>12 DEF AttachTimesOut
<1>13. CASE CopyResults(e)
  BY <1>13 DEF CopyResults
<1>14. CASE LoadResult(e)
  BY <1>14 DEF LoadResult
<1>15. CASE CallFails(e)
  BY <1>15 DEF CallFails
<1>16. CASE RemoveContainer(e)
  BY <1>16 DEF RemoveContainer
<1>17. CASE CloseWork(e)
  BY <1>17 DEF CloseWork, Normalized
<1>18. CASE BuildEnds(e)
  BY <1>18 DEF BuildEnds
<1>19. CASE ContainerExits(e)
  BY <1>19 DEF ContainerExits
<1>20. QED
  BY <1>1, <1>2, <1>3, <1>4, <1>5, <1>6, <1>7, <1>8, <1>9, <1>10, <1>11, <1>12, <1>13, <1>14, <1>15, <1>16, <1>17, <1>18, <1>19 DEF Step, Thread

LEMMA PromiseStep ==
  ASSUME ExecutionInv, [Next]_vars
  PROVE  [Promise!Next]_Promise!promiseVars
<1>1. ASSUME NEW e \in Executions, Step(e)
      PROVE  [Promise!Next]_Promise!promiseVars
  <2>1. Promised(e)
    BY <1>1, StageStep
  <2>2. \A d \in Executions \ {e} : UNCHANGED <<StageOf(d), DeliveredOf(d)>>
    BY <1>1, StepsOfOne DEF Stepped, Alone, StageOf, DeliveredOf
  <2>3. QED
    BY <2>1, <2>2
       DEF Promised, Promise!Next, Promise!Refuse, Promise!Launch, Promise!Deliver, Promise!Fail,
           Promise!promiseVars
<1>2. CASE ChangeDirectory \/ UNCHANGED vars
  BY <1>2 DEF ChangeDirectory, vars, hostVars, threadVars, StageOf, DeliveredOf, Promise!promiseVars
<1>3. QED
  BY <1>1, <1>2 DEF Next, Step

(* Every behaviour of the service is one of the abstract promise: refused   *)
(* before a launch, or launched and answered once, with its own program's   *)
(* result.                                                                  *)
THEOREM ExecutionKeepsPromise == Spec => KeepsPromise
<1>1. Init => Promise!Init
  BY ExecutionNoneAssumption DEF Init, Promise!Init, StageOf, DeliveredOf
<1>2. ExecutionInv /\ [Next]_vars => [Promise!Next]_Promise!promiseVars
  BY PromiseStep
<1>3. QED
  BY <1>1, <1>2, ExecutionInvariant, PTL DEF Spec, KeepsPromise, Promise!Spec

(* An execution that has answered leaves a container only after a docker    *)
(* call that failed, and its work directory only after an abandoned build   *)
(* that was answered with an error, however many run side by side.          *)
THEOREM HostIsLeftClean == Spec => []HostLeftClean
<1>1. ContainersAccountedFor /\ WorkDirectoryRemoved => HostLeftClean
  BY DEF HostLeftClean
<1>2. QED
  BY <1>1, NoWorkLeftBehind, ContainersAreAccountedFor, PTL

-----------------------------------------------------------------------------
(* The preflight *)

(* A finite set of numbers has a largest one, by induction on its size.     *)
LEMMA LargestOfSize ==
  ASSUME NEW n \in Nat
  PROVE  \A S : IsFiniteSet(S) /\ S \subseteq Nat /\ S # {} /\ Cardinality(S) = n
                => \E m \in S : \A k \in S : m >= k
<1> DEFINE Have(k, T) == IsFiniteSet(T) /\ T \subseteq Nat /\ T # {} /\ Cardinality(T) = k
           Largest(T) == \E m \in T : \A k \in T : m >= k
           Bad == {k \in Nat : \E T : Have(k, T) /\ ~Largest(T)}
<1>1. Bad = {}
  <2> SUFFICES ASSUME Bad # {} PROVE FALSE
    OBVIOUS
  <2>1. Bad \in SUBSET Nat
    OBVIOUS
  <2>2. PICK k \in Bad : \A j \in Bad : k <= j
    BY <2>1, LeastNatural
  <2>3. PICK T : Have(k, T) /\ ~Largest(T)
    BY <2>2
  <2>4. PICK x \in T : TRUE
    BY <2>3
  <2> DEFINE rest == T \ {x}
  <2>5. IsFiniteSet(rest) /\ Cardinality(rest) = k - 1 /\ k - 1 \in Nat /\ x \in Nat
    <3>1. IsFiniteSet(T) /\ Cardinality(T) = k /\ x \in T /\ x \in Nat
      BY <2>3, <2>4
    <3>2. IsFiniteSet(rest) /\ Cardinality(rest) = k - 1
      BY <3>1, FS_RemoveElement
    <3>3. Cardinality(rest) \in Nat
      BY <3>2, FS_CardinalityType
    <3>4. QED
      BY <3>1, <3>2, <3>3
  <2>6. CASE rest = {}
    <3>1. T = {x}
      BY <2>4, <2>6
    <3>2. QED
      BY <2>3, <2>5, <3>1
  <2>7. CASE rest # {}
    <3>1. Have(k - 1, rest)
      BY <2>3, <2>5, <2>7
    <3>2. k \in Nat /\ k - 1 \notin Bad
      BY <2>1, <2>2, <2>5
    <3>3. PICK m \in rest : \A j \in rest : m >= j
      BY <2>5, <3>1, <3>2
    <3>4. m \in Nat /\ \A j \in T : j \in Nat
      BY <2>3
    <3>5. CASE m >= x
      BY <2>3, <2>4, <3>3, <3>4, <3>5
    <3>6. CASE x >= m
      BY <2>3, <2>4, <3>3, <3>4, <3>6
    <3>7. QED
      BY <2>5, <3>4, <3>5, <3>6
  <2>8. QED
    BY <2>6, <2>7
<1>2. QED
  BY <1>1

LEMMA MaxIsLargest ==
  ASSUME NEW S, IsFiniteSet(S), S \subseteq Nat, S # {}
  PROVE  Max(S) \in S /\ \A k \in S : Max(S) >= k
<1>1. \E m \in S : \A k \in S : m >= k
  BY LargestOfSize, FS_CardinalityType
<1>2. QED
  BY <1>1, Zenon DEF Max

(* The rows a plan requires of a symbol are no fewer than any of its        *)
(* readers reads, the nested values included.                               *)
LEMMA RequirementCovers ==
  ASSUME NEW e \in Executions, NEW s \in Plan[e].subscriptions,
         NEW reader \in Readers(Plan[e]), s \in reader.symbols,
         NEW n \in {reader.lookback} \cup UNION reader.values
  PROVE  /\ PlanRequirement(Plan[e])[s] \in Nat
         /\ n \in Nat /\ PlanRequirement(Plan[e])[s] >= n
<1> DEFINE here == {r \in Readers(Plan[e]) : s \in r.symbols}
           asked(r) == {r.lookback} \cup {ValueWarmup(v) : v \in r.values}
           all == {asked(r) : r \in here}
           numbers == {0} \cup UNION all
<1>1. \A r \in Readers(Plan[e]) : \A v \in r.values :
        ValueWarmup(v) \in Nat /\ \A k \in v : k \in Nat /\ ValueWarmup(v) >= k
  <2> SUFFICES ASSUME NEW r \in Readers(Plan[e]), NEW v \in r.values
               PROVE  ValueWarmup(v) \in Nat /\ \A k \in v : k \in Nat /\ ValueWarmup(v) >= k
    OBVIOUS
  <2>1. IsFiniteSet(v) /\ v \subseteq Nat
    BY PlansAssumption
  <2>2. IsFiniteSet(v \cup {0}) /\ v \cup {0} \subseteq Nat
    BY <2>1, FS_AddElement
  <2>3. QED
    BY <2>1, <2>2, MaxIsLargest DEF ValueWarmup
<1>2. \A r \in here : IsFiniteSet(asked(r)) /\ asked(r) \subseteq Nat
  <2> SUFFICES ASSUME NEW r \in here
               PROVE  IsFiniteSet(asked(r)) /\ asked(r) \subseteq Nat
    OBVIOUS
  <2> DEFINE warmups == {ValueWarmup(v) : v \in r.values}
             warmup == [v \in r.values |-> ValueWarmup(v)]
  <2>1. IsFiniteSet(r.values) /\ r.lookback \in Nat
    BY PlansAssumption
  <2>2. warmup \in Surjection(r.values, warmups)
    BY DEF Surjection
  <2>3. IsFiniteSet(warmups)
    BY <2>1, <2>2, FS_Surjection
  <2>4. asked(r) = warmups \cup {r.lookback}
    OBVIOUS
  <2>5. warmups \subseteq Nat
    BY <1>1
  <2> HIDE DEF warmups
  <2>6. QED
    BY <2>1, <2>3, <2>4, <2>5, FS_AddElement
<1>3. IsFiniteSet(all)
  <2> DEFINE ask == [r \in here |-> asked(r)]
  <2>1. IsFiniteSet(here)
    BY PlansAssumption, FS_Subset
  <2> HIDE DEF here
  <2>2. ask \in Surjection(here, all)
    BY DEF Surjection
  <2> HIDE DEF all, ask
  <2>3. QED
    BY <2>1, <2>2, FS_Surjection
<1>4. IsFiniteSet(UNION all) /\ UNION all \subseteq Nat
  <2>1. \A set \in all : IsFiniteSet(set) /\ set \subseteq Nat
    BY <1>2
  <2> HIDE DEF all
  <2>2. QED
    BY <1>3, <2>1, FS_UNION
<1>5. IsFiniteSet(numbers) /\ numbers \subseteq Nat
  <2> HIDE DEF all
  <2>1. numbers = (UNION all) \cup {0}
    OBVIOUS
  <2>2. IsFiniteSet((UNION all) \cup {0})
    BY <1>4, FS_AddElement
  <2>3. numbers \subseteq Nat
    BY <1>4
  <2>4. QED
    BY <2>1, <2>2, <2>3, Zenon
<1>6. PlanRequirement(Plan[e])[s] = Max(numbers)
  BY DEF PlanRequirement
<1>7. \A k \in numbers : k \in Nat /\ Max(numbers) \in Nat /\ Max(numbers) >= k
  <2> HIDE DEF numbers
  <2>1. QED
    BY <1>5, MaxIsLargest
<1>8. reader \in here /\ asked(reader) \subseteq numbers
  OBVIOUS
<1>9. CASE n = reader.lookback
  BY <1>6, <1>7, <1>8, <1>9
<1>10. CASE n \in UNION reader.values
  <2>1. PICK v \in reader.values : n \in v
    BY <1>10
  <2>2. n \in Nat /\ ValueWarmup(v) >= n /\ ValueWarmup(v) \in Nat
    BY <1>1, <2>1
  <2>3. ValueWarmup(v) \in numbers
    BY <1>8
  <2> HIDE DEF numbers
  <2>4. QED
    BY <1>6, <1>7, <2>2, <2>3
<1>11. QED
  BY <1>9, <1>10

Readable(files, warmup) ==
  /\ files.map /\ files.factor
  /\ files.daily \notin {None, Corrupt}
  /\ IsFiniteSet(files.daily) /\ files.daily \subseteq Nat
  /\ \E d \in files.daily : d >= EndDate
  /\ \E d \in files.daily : StartDate <= d /\ d <= EndDate
  /\ ~(Cardinality({d \in files.daily : d < StartDate}) < warmup)

(* A symbol inspected as available can be read as often as the plan asks.   *)
LEMMA AvailableIsReadable ==
  ASSUME NEW files, NEW warmup,
         files.map \in BOOLEAN, files.factor \in BOOLEAN,
         files.daily \notin {None, Corrupt} => IsFiniteSet(files.daily) /\ files.daily \subseteq Nat,
         InspectSymbol(files, warmup) = "available"
  PROVE  Readable(files, warmup)
<1>1. InspectCacheFiles(files) = "available"
  BY DEF InspectSymbol
<1>2. files.daily \notin {None, Corrupt} /\ files.daily # {} /\ files.map /\ files.factor
  BY <1>1 DEF InspectCacheFiles
<1>3. IsFiniteSet(files.daily) /\ files.daily \subseteq Nat
  BY <1>2
<1>4. Max(files.daily) \in files.daily
  BY <1>2, <1>3, MaxIsLargest
<1>5. /\ ~(Cardinality({d \in files.daily : d < StartDate}) < warmup)
      /\ ~(Max(files.daily) < EndDate)
      /\ files.daily \cap StartDate..EndDate # {}
  BY <1>1, <1>2 DEF InspectSymbol
<1>6. StartDate \in Nat /\ EndDate \in Nat
  BY PeriodAssumption
<1>7. \E d \in files.daily : d >= EndDate
  BY <1>3, <1>4, <1>5, <1>6
<1>8. \E d \in files.daily : StartDate <= d /\ d <= EndDate
  BY <1>3, <1>5, <1>6
<1>9. QED
  BY <1>2, <1>3, <1>5, <1>7, <1>8 DEF Readable

LEMMA AvailableIsRunnable ==
  ASSUME NEW e \in Executions, directory \in Directories,
         Overall(Preflight(Plan[e], TRUE, directory)) = "available"
  PROVE  Runnable(Plan[e], directory)
<1> DEFINE plan == Plan[e]
           reasons == Preflight(plan, TRUE, directory)
<1>1. reasons = [s \in plan.subscriptions |->
                   IF directory = None THEN "provider_unavailable"
                   ELSE InspectSymbol(directory[s], PlanRequirement(plan)[s])]
  BY Zenon DEF Preflight
<1>2. \A s \in plan.subscriptions : reasons[s] = "available"
  <2>1. DOMAIN reasons = plan.subscriptions
    BY <1>1
  <2>2. {s \in DOMAIN reasons : reasons[s] = "available"} = DOMAIN reasons
    BY DEF Overall
  <2>3. QED
    BY <2>1, <2>2
<1> HIDE DEF reasons
<1>3. plan.subscriptions # {}
  BY PlansAssumption
<1>4. directory # None
  BY <1>1, <1>2, <1>3
<1>5. ASSUME NEW s \in plan.subscriptions
      PROVE  /\ directory[s].map /\ directory[s].factor
             /\ directory[s].daily \notin {None, Corrupt}
             /\ \E d \in directory[s].daily : d >= EndDate
             /\ \E d \in directory[s].daily : StartDate <= d /\ d <= EndDate
             /\ \A reader \in Readers(plan) : s \in reader.symbols =>
                  \A n \in {reader.lookback} \cup UNION reader.values :
                    Cardinality({d \in directory[s].daily : d < StartDate}) >= n
  <2> DEFINE files == directory[s]
             warmup == PlanRequirement(plan)[s]
             rows == Cardinality({d \in files.daily : d < StartDate})
  <2>1. InspectSymbol(files, warmup) = "available"
    BY <1>1, <1>2, <1>4
  <2>2. /\ files.map \in BOOLEAN /\ files.factor \in BOOLEAN
        /\ files.daily \notin {None, Corrupt} => IsFiniteSet(files.daily) /\ files.daily \subseteq Nat
    BY <1>4, DirectoriesAssumption
  <2> HIDE DEF files, warmup
  <2>3. Readable(files, warmup)
    BY <2>1, <2>2, AvailableIsReadable
  <2>4. rows \in Nat
    BY <2>3, FS_Subset, FS_CardinalityType DEF Readable
  <2> HIDE DEF rows
  <2>5. ASSUME NEW reader \in Readers(plan), s \in reader.symbols,
               NEW n \in {reader.lookback} \cup UNION reader.values
        PROVE  rows >= n
    <3>1. warmup \in Nat /\ n \in Nat /\ warmup >= n
      BY <2>5, RequirementCovers DEF warmup
    <3>2. ~(rows < warmup)
      BY <2>3 DEF Readable, rows
    <3>3. QED
      BY <2>4, <3>1, <3>2
  <2>6. QED
    BY <2>3, <2>5 DEF files, rows, Readable
<1>6. QED
  BY <1>4, <1>5 DEF Runnable

(* Whatever an operator does to the data directory meanwhile: a preflight   *)
(* of the local data passes only when every symbol has the rows, the        *)
(* coverage and the Security Master for each read of the plan.              *)
THEOREM PassingIsRunnable == Spec => PassedPreflightIsRunnable
<1> DEFINE Passed == \A e \in Local :
             pc[e] = "accepted" /\ pc'[e] = "inspected" => Runnable(Plan[e], directory)
<1>1. ASSUME ExecutionInv, [Next]_vars
      PROVE  Passed
  <2> SUFFICES ASSUME NEW e \in Local, pc[e] = "accepted", pc'[e] = "inspected"
               PROVE  Runnable(Plan[e], directory)
    OBVIOUS
  <2>1. directory \in Directories /\ pc \in [Executions -> Stages] /\ e \in Executions
    BY <1>1, LocalAssumption DEF ExecutionInv, TypeOK
  <2>2. CASE ChangeDirectory \/ UNCHANGED vars
    BY <2>2 DEF ChangeDirectory, threadVars, vars
  <2>3. ASSUME NEW d \in Executions, Thread(d) \/ BuildEnds(d) \/ ContainerExits(d)
        PROVE  d = e /\ RequireAvailable(d)
    <3>1. CASE RequireAvailable(d)
      BY <2>1, <3>1 DEF RequireAvailable, Go, Refuse
    <3>2. CASE BuildEnds(d) \/ ContainerExits(d)
      BY <3>2 DEF BuildEnds, ContainerExits, threadVars
    <3>3. CASE Compile(d) \/ EnsureRuntime(d) \/ OpenWork(d) \/ StartBuild(d) \/ AwaitBuild(d)
      BY <2>1, <3>3 DEF Compile, EnsureRuntime, OpenWork, StartBuild, AwaitBuild, Go, Refuse, Raise
    <3>4. CASE CreateContainer(d) \/ CopyProgram(d) \/ CopyFixture(d) \/ StartContainer(d)
      BY <2>1, <3>4 DEF CreateContainer, CopyProgram, CopyFixture, StartContainer, Go, Raise
    <3>5. CASE Attached(d) \/ AttachTimesOut(d) \/ CopyResults(d) \/ LoadResult(d)
      BY <2>1, <3>5 DEF Attached, AttachTimesOut, CopyResults, LoadResult, Go, Raise
    <3>6. CASE CallFails(d) \/ RemoveContainer(d) \/ CloseWork(d)
      BY <2>1, <3>6 DEF CallFails, RemoveContainer, CloseWork, Go, Raise
    <3>7. QED
      BY <2>3, <3>1, <3>2, <3>3, <3>4, <3>5, <3>6 DEF Thread
  <2>4. CASE RequireAvailable(e)
    <3>1. Overall(Preflight(Plan[e], e \in Local, directory)) = "available"
      BY <2>1, <2>4 DEF RequireAvailable, Refuse
    <3>2. (e \in Local) = TRUE
      OBVIOUS
    <3>3. Overall(Preflight(Plan[e], TRUE, directory)) = "available"
      BY <3>1, <3>2
    <3>4. QED
      BY <2>1, <3>3, AvailableIsRunnable
  <2>5. QED
    BY <1>1, <2>2, <2>3, <2>4 DEF Next
<1>2. QED
  BY <1>1, ExecutionInvariant, PTL DEF Spec, PassedPreflightIsRunnable

=============================================================================
