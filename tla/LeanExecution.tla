--------------------------- MODULE LeanExecution ---------------------------
(***************************************************************************)
(* BacktestService with DockerLeanRunner: a request thread validates,      *)
(* lowers and preflights its program, builds it in one container, runs it  *)
(* in another and collects what it left.  Executions run side by side in   *)
(* the threads of the HTTP server and share the host's build directory,    *)
(* the docker daemon and the local LEAN data directory, which an operator  *)
(* may change at any time.                                                 *)
(*                                                                         *)
(* Each subprocess call has a timeout that kills the docker client only:   *)
(* the container it started goes on.  A call that fails or times out       *)
(* raises LeanExecutionError; at most MaxFaults calls other than the build *)
(* and the run itself do so, and those two may always.                     *)
(***************************************************************************)
EXTENDS MarketDataPreflight, Sequences

CONSTANTS
  Executions,   \* requests; each stands for its own program too
  Local,        \* the executions on the local data directory, the others
                \* run on a fixture: a BacktestConfig names no other data set
  Plan,         \* the plan each program lowers to
  Directories,  \* the states the local data directory may be in
  Exits,        \* how a LEAN container may end: [code, mark, lines, result]
  MaxFaults, MaxChanges

ASSUME LocalAssumption == Local \subseteq Executions
ASSUME ExecutionsAssumption == IsFiniteSet(Executions)
(* A plan subscribes to an asset at least (the lowering refuses the others) *)
(* and reads numbers of rows.                                               *)
ASSUME PlansAssumption ==
  \A e \in Executions :
    /\ Plan[e].subscriptions # {}
    /\ IsFiniteSet(Readers(Plan[e]))
    /\ \A reader \in Readers(Plan[e]) :
         /\ reader.lookback \in Nat
         /\ IsFiniteSet(reader.values)
         /\ \A v \in reader.values : IsFiniteSet(v) /\ v \subseteq Nat
ASSUME DirectoriesAssumption ==
  \A d \in Directories \ {None} : \A e \in Executions : \A s \in Plan[e].subscriptions :
    /\ d[s].map \in BOOLEAN /\ d[s].factor \in BOOLEAN
    /\ d[s].daily \notin {None, Corrupt} => IsFiniteSet(d[s].daily) /\ d[s].daily \subseteq Nat
ASSUME BoundsAssumption == MaxFaults \in Nat /\ MaxChanges \in Nat

VARIABLES
  directory,  \* the local data directory
  pc,         \* the next step of each request thread
  work,       \* build/lean/runs/run-*: None, or its source, dll and results
  builder,    \* the `docker run --rm' that builds: none, running, done, failed
  container,  \* the `docker create'd container: None, or what is in it
  known,      \* the thread has the id of its container
  loaded,     \* the artifact read back, None before
  failure,    \* the error raised, None while there is none
  answer,     \* what the caller got: None, "ok" or the error
  faults,     \* calls that failed so far
  changes     \* changes of the directory so far

threadVars == <<pc, loaded, failure, answer>>
vars == <<directory, work, builder, container, known, threadVars, faults, changes>>

Stages ==
  {"asked", "accepted", "inspected", "probed", "opened", "building", "built",
   "created", "programmed", "ready", "attached", "finished", "copied",
   "removing", "closing", "answered"}

Refusals == {"invalid_strategy", "unsupported_strategy", "market_data_unavailable",
             "lean_runtime_unavailable"}
Failures == {"lean_execution_error", "malformed_lean_result", "decision_evidence_error",
             "unexpected"}

(* What a run leaves in its results directory and its log.                  *)
Artifacts ==
  [program : Executions, lines : {x.lines : x \in Exits},
   result : {x.result : x \in Exits}]

Works == [source : Executions \cup {None}, dll : Executions \cup {None},
          result : Artifacts \cup {None}]

(* The program in the container is the dll the build left.                  *)
Containers == [phase : {"created", "running", "exited"}, program : Executions \cup {None},
               data : {"none", "mounted", "copied"}, exit : Exits \cup {None}]

ASSUME ExecutionNoneAssumption ==
  None \notin Executions \cup Exits \cup Works \cup Containers \cup Artifacts
               \cup Refusals \cup Failures \cup {"ok"}

EmptyWork(e) == [source |-> e, dll |-> None, result |-> None]

TypeOK ==
  /\ directory \in Directories
  /\ pc \in [Executions -> Stages]
  /\ work \in [Executions -> Works \cup {None}]
  /\ builder \in [Executions -> {"none", "running", "done", "failed"}]
  /\ container \in [Executions -> Containers \cup {None}]
  /\ known \in [Executions -> BOOLEAN]
  /\ loaded \in [Executions -> Artifacts \cup {None}]
  /\ failure \in [Executions -> Refusals \cup Failures \cup {None}]
  /\ answer \in [Executions -> Refusals \cup Failures \cup {"ok", None}]
  /\ faults \in 0..MaxFaults /\ changes \in 0..MaxChanges

Init ==
  /\ directory \in Directories
  /\ pc = [e \in Executions |-> "asked"]
  /\ work = [e \in Executions |-> None]
  /\ builder = [e \in Executions |-> "none"]
  /\ container = [e \in Executions |-> None]
  /\ known = [e \in Executions |-> FALSE]
  /\ loaded = [e \in Executions |-> None]
  /\ failure = [e \in Executions |-> None]
  /\ answer = [e \in Executions |-> None]
  /\ faults = 0
  /\ changes = 0

-----------------------------------------------------------------------------
(* Control of a request thread *)

Go(e, from, to) ==
  /\ pc[e] = from
  /\ pc' = [pc EXCEPT ![e] = to]
  /\ UNCHANGED <<loaded, failure, answer>>

(* An exception before the work directory exists reaches the caller.        *)
Refuse(e, error) ==
  /\ pc' = [pc EXCEPT ![e] = "answered"]
  /\ failure' = [failure EXCEPT ![e] = error]
  /\ answer' = [answer EXCEPT ![e] = error]
  /\ UNCHANGED loaded

(* One inside the `with' and `try' runs the `finally' and __exit__ first.   *)
Raise(e, error) ==
  /\ pc' = [pc EXCEPT ![e] = IF known[e] THEN "removing" ELSE "closing"]
  /\ failure' = [failure EXCEPT ![e] = error]
  /\ UNCHANGED <<loaded, answer>>

Fault ==
  /\ faults < MaxFaults
  /\ faults' = faults + 1

hostVars == <<work, builder, container, known>>
worldVars == <<directory, changes, faults>>

(* The work directory of a thread: mkdtemp draws a name nobody has had.     *)
WorkOf(e) == e

-----------------------------------------------------------------------------
(* Before anything is launched *)

(* validate_strategy_v2 and the lowering; the program may be any.           *)
Compile(e) ==
  /\ UNCHANGED <<hostVars, worldVars>>
  /\ \/ Go(e, "asked", "accepted")
     \/ /\ pc[e] = "asked"
        /\ \E error \in {"invalid_strategy", "unsupported_strategy"} : Refuse(e, error)

(* Mutant: a preflight is good enough when some symbol is available.        *)
RequireSomeAvailable(e) ==
  /\ UNCHANGED <<hostVars, worldVars>>
  /\ IF Overall(Preflight(Plan[e], e \in Local, directory)) # "unavailable"
     THEN Go(e, "accepted", "inspected")
     ELSE pc[e] = "accepted" /\ Refuse(e, "market_data_unavailable")

RequireAvailable(e) ==
  /\ UNCHANGED <<hostVars, worldVars>>
  /\ IF Overall(Preflight(Plan[e], e \in Local, directory)) = "available"
     THEN Go(e, "accepted", "inspected")
     ELSE pc[e] = "accepted" /\ Refuse(e, "market_data_unavailable")

(* generate_csharp, whose ValueError for a plan it cannot express nobody    *)
(* catches; then _ensure_runtime: docker on the PATH and its daemon up.     *)
EnsureRuntime(e) ==
  /\ UNCHANGED <<hostVars, directory, changes>>
  /\ \/ Go(e, "inspected", "probed") /\ UNCHANGED faults
     \/ pc[e] = "inspected" /\ Refuse(e, "unexpected") /\ UNCHANGED faults
     \/ pc[e] = "inspected" /\ Fault /\ Refuse(e, "lean_runtime_unavailable")

(* The data directory is looked up again; then the work directory is made   *)
(* and the generated source written.  An OSError there is not caught.       *)
OpenWork(e) ==
  /\ pc[e] = "probed"
  /\ UNCHANGED <<builder, container, known, directory, changes>>
  /\ \/ /\ IF e \in Local THEN directory = None /\ UNCHANGED faults
           ELSE Fault                                 \* no such fixture
        /\ Refuse(e, "lean_execution_error")
        /\ UNCHANGED work
     \/ /\ e \in Local => directory # None
        /\ \/ /\ Go(e, "probed", "opened")
              /\ work' = [work EXCEPT ![WorkOf(e)] = EmptyWork(e)]
              /\ UNCHANGED faults
           \/ Fault /\ Refuse(e, "unexpected") /\ UNCHANGED work

-----------------------------------------------------------------------------
(* The build *)

StartBuild(e) ==
  /\ Go(e, "opened", "building")
  /\ builder' = [builder EXCEPT ![e] = "running"]
  /\ UNCHANGED <<work, container, known, worldVars>>

(* The build container writes through its mount of the repository: into a   *)
(* directory of that name it creates again when there is none any more.     *)
BuildEnds(e) ==
  /\ builder[e] = "running"
  /\ \/ /\ builder' = [builder EXCEPT ![e] = "done"]
        /\ work' = [work EXCEPT ![WorkOf(e)] =
             IF @ = None THEN [source |-> None, dll |-> e, result |-> None]
             ELSE [@ EXCEPT !.dll = work[WorkOf(e)].source]]
     \/ builder' = [builder EXCEPT ![e] = "failed"] /\ UNCHANGED work
  /\ UNCHANGED <<container, known, threadVars, worldVars>>

(* Mutant: the build is awaited without a timeout.                          *)
AwaitBuildForever(e) ==
  /\ pc[e] = "building"
  /\ UNCHANGED <<hostVars, worldVars>>
  /\ \/ builder[e] = "done" /\ Go(e, "building", "built")
     \/ builder[e] = "failed" /\ Raise(e, "lean_execution_error")

AwaitBuild(e) ==
  /\ pc[e] = "building"
  /\ UNCHANGED <<hostVars, worldVars>>
  /\ \/ builder[e] = "done" /\ Go(e, "building", "built")
     \/ builder[e] = "failed" /\ Raise(e, "lean_execution_error")
     \/ builder[e] = "running" /\ Raise(e, "lean_execution_error")  \* timeout

-----------------------------------------------------------------------------
(* The run *)

(* docker create.  A call that times out may have created the container.    *)
CreateContainer(e) ==
  /\ pc[e] = "built"
  /\ UNCHANGED <<work, builder, directory, changes>>
  /\ container' = [container EXCEPT ![e] =
                     [phase |-> "created", program |-> None,
                      data |-> IF e \in Local THEN "mounted" ELSE "none",
                      exit |-> None]]
  /\ \/ /\ Go(e, "built", "created")
        /\ known' = [known EXCEPT ![e] = TRUE]
        /\ UNCHANGED faults
     \/ Fault /\ Raise(e, "lean_execution_error") /\ UNCHANGED known

CopyProgram(e) ==
  /\ Go(e, "created", IF e \in Local THEN "ready" ELSE "programmed")
  /\ container' = [container EXCEPT ![e].program = work[WorkOf(e)].dll]
  /\ UNCHANGED <<work, builder, known, worldVars>>

CopyFixture(e) ==
  /\ Go(e, "programmed", "ready")
  /\ container' = [container EXCEPT ![e].data = "copied"]
  /\ UNCHANGED <<work, builder, known, worldVars>>

StartContainer(e) ==
  /\ Go(e, "ready", "attached")
  /\ container' = [container EXCEPT ![e].phase = "running"]
  /\ UNCHANGED <<work, builder, known, worldVars>>

(* The LEAN process ends by itself, in one of the ways it may.              *)
ContainerExits(e) ==
  /\ container[e] # None /\ container[e].phase = "running"
  /\ \E exit \in Exits :
       container' = [container EXCEPT ![e] = [@ EXCEPT !.phase = "exited", !.exit = exit]]
  /\ UNCHANGED <<work, builder, known, threadVars, worldVars>>

(* docker start --attach returns; its exit code and its output are judged.  *)
Attached(e) ==
  /\ pc[e] = "attached"
  /\ container[e].phase = "exited"
  /\ UNCHANGED <<hostVars, worldVars>>
  /\ IF container[e].exit.code = 0 /\ container[e].exit.mark = "completed"
     THEN Go(e, "attached", "finished")
     ELSE Raise(e, "lean_execution_error")

AttachTimesOut(e) ==
  /\ pc[e] = "attached"
  /\ Raise(e, "lean_execution_error")
  /\ UNCHANGED <<hostVars, worldVars>>

(* Mutant: the results are taken from whatever container has some.          *)
CopyAnyResults(e) ==
  /\ Go(e, "finished", "copied")
  /\ \E c \in {d \in Executions : container[d] # None /\ container[d].exit # None} :
       work' = [work EXCEPT ![WorkOf(e)].result =
                  [program |-> container[c].program, lines |-> container[c].exit.lines,
                   result |-> container[c].exit.result]]
  /\ UNCHANGED <<builder, container, known, worldVars>>

CopyResults(e) ==
  /\ Go(e, "finished", "copied")
  /\ work' = [work EXCEPT ![WorkOf(e)].result =
                [program |-> container[e].program, lines |-> container[e].exit.lines,
                 result |-> container[e].exit.result]]
  /\ UNCHANGED <<builder, container, known, worldVars>>

(* load_lean_backtest_result: exactly one readable JSON object.             *)
LoadResult(e) ==
  /\ pc[e] = "copied"
  /\ UNCHANGED <<hostVars, worldVars>>
  /\ LET found == work[WorkOf(e)].result IN
       CASE found.result \in {"missing", "ambiguous", "unreadable"} ->
              Raise(e, "malformed_lean_result")
         [] found.result = "undecodable" -> Raise(e, "unexpected")
         [] OTHER ->
              /\ loaded' = [loaded EXCEPT ![e] = found]
              /\ pc' = [pc EXCEPT ![e] = "removing"]
              /\ UNCHANGED <<failure, answer>>

(* A docker call other than the build and the run fails or times out        *)
(* without an effect.                                                       *)
CallFails(e) ==
  /\ pc[e] \in {"built", "created", "programmed", "ready", "finished"}
  /\ Fault
  /\ Raise(e, "lean_execution_error")
  /\ UNCHANGED <<hostVars, directory, changes>>

-----------------------------------------------------------------------------
(* The way out *)

(* Mutant: the container is removed only after a run that went well.        *)
RemoveOnSuccessOnly(e) ==
  /\ Go(e, "removing", "closing")
  /\ container' = [container EXCEPT ![e] = IF failure[e] = None THEN None ELSE @]
  /\ UNCHANGED <<work, builder, known, worldVars>>

(* docker rm --force, whatever it returns.                                  *)
RemoveContainer(e) ==
  /\ Go(e, "removing", "closing")
  /\ \/ container' = [container EXCEPT ![e] = None] /\ UNCHANGED faults
     \/ Fault /\ UNCHANGED container
  /\ UNCHANGED <<work, builder, known, directory, changes>>

(* normalize_lean_result and collect_decision_evidence: what is wrong with  *)
(* the artifact, None when nothing is.                                      *)
Normalized(artifact) ==
  CASE artifact.result = "malformed" -> "malformed_lean_result"
    [] artifact.lines # [n \in DOMAIN artifact.lines |-> n] -> "decision_evidence_error"
    [] OTHER -> None

(* TemporaryDirectory.__exit__: rmtree, which fails when an abandoned build *)
(* writes into the directory meanwhile.  What comes next needs no shared    *)
(* state: the result is normalized and the evidence collected.              *)
CloseWork(e) ==
  /\ pc[e] = "closing"
  /\ UNCHANGED <<builder, container, known, worldVars, loaded>>
  /\ pc' = [pc EXCEPT ![e] = "answered"]
  /\ \/ /\ work' = [work EXCEPT ![WorkOf(e)] = None]
        /\ failure' = [failure EXCEPT ![e] = IF @ # None THEN @ ELSE Normalized(loaded[e])]
        /\ answer' = [answer EXCEPT ![e] = IF failure'[e] = None THEN "ok" ELSE failure'[e]]
     \/ /\ builder[e] = "running"
        /\ failure' = [failure EXCEPT ![e] = "unexpected"]
        /\ answer' = [answer EXCEPT ![e] = "unexpected"]
        /\ UNCHANGED work

-----------------------------------------------------------------------------
(* The operator downloads, replaces or removes data.  The model stops at    *)
(* MaxChanges, and when no thread has yet to look at the directory.         *)
ChangeDirectory ==
  /\ changes < MaxChanges
  /\ \E e \in Local : pc[e] \in {"asked", "accepted", "inspected", "probed"}
  /\ changes' = changes + 1
  /\ directory' \in Directories \ {directory}
  /\ UNCHANGED <<hostVars, threadVars, faults>>

Thread(e) ==
  \/ Compile(e) \/ RequireAvailable(e) \/ EnsureRuntime(e) \/ OpenWork(e)
  \/ StartBuild(e) \/ AwaitBuild(e)
  \/ CreateContainer(e) \/ CopyProgram(e) \/ CopyFixture(e) \/ StartContainer(e)
  \/ Attached(e) \/ AttachTimesOut(e) \/ CopyResults(e) \/ LoadResult(e)
  \/ CallFails(e) \/ RemoveContainer(e) \/ CloseWork(e)

Next ==
  \/ \E e \in Executions : Thread(e) \/ BuildEnds(e) \/ ContainerExits(e)
  \/ ChangeDirectory

(* A thread goes on while it can: every call it makes returns or times out. *)
(* Nothing is assumed of builds and containers.                             *)
Spec == Init /\ [][Next]_vars /\ \A e \in Executions : WF_vars(Thread(e))

-----------------------------------------------------------------------------
(* Properties *)

(* A Run starts only on data it can be run on: at the moment the preflight  *)
(* of a local execution passes, every symbol of its plan has the history,   *)
(* the coverage and the Security Master that the plan reads.                *)
PassedPreflightIsRunnable ==
  [][\A e \in Local :
       pc[e] = "accepted" /\ pc'[e] = "inspected" => Runnable(Plan[e], directory)]_vars

(* Whatever times out or fails, a container outlives the answer only at the *)
(* price of a docker call that failed: a create whose id was lost or a      *)
(* removal.  Runs that time out, crash or deliver leave none.               *)
ContainersAccountedFor ==
  Cardinality({e \in Executions : answer[e] # None /\ container[e] # None}) <= faults

(* A work directory outlives its answer only when the build was abandoned,  *)
(* and then the caller did not get a result.                                *)
WorkDirectoryRemoved ==
  \A e \in Executions :
    answer[e] # None /\ work[e] # None =>
      ~known[e] /\ answer[e] \in {"lean_execution_error", "unexpected"}

(* What an execution leaves on the host when it has answered.               *)
HostLeftClean == ContainersAccountedFor /\ WorkDirectoryRemoved

(* Every request is answered, even when a build or a run never ends.        *)
EveryRequestIsAnswered == \A e \in Executions : <>(answer[e] # None)

(* How far an execution has come, as its caller and the host see it.        *)
StageOf(e) ==
  CASE answer[e] = "ok" -> "delivered"
    [] answer[e] = None -> IF builder[e] = "none" THEN "asked" ELSE "launched"
    [] OTHER -> IF builder[e] = "none" THEN "refused" ELSE "failed"

DeliveredOf(e) == IF answer[e] = "ok" THEN loaded[e].program ELSE None

(* The execution keeps its promise: refused before anything is launched,    *)
(* or launched and answered once, with what its own program produced.       *)
Promise == INSTANCE ExecutionPromise WITH
  stage <- [e \in Executions |-> StageOf(e)],
  delivered <- [e \in Executions |-> DeliveredOf(e)]

KeepsPromise == Promise!Spec

=============================================================================
