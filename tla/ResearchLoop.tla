---------------------------- MODULE ResearchLoop ----------------------------
(***************************************************************************)
(* The research loop over persisted Revisions: a Backtest Run executes one *)
(* Revision; a Candidate proposes one changed source and is executed as a  *)
(* Run of its own; the pair is compared; the Candidate is kept (adopted as *)
(* the next Revision) or left alone.                                       *)
(*                                                                         *)
(* Modelled services: BacktestRunService, CandidateService and             *)
(* ComparisonService with their SQLite repositories, over StrategyStore.   *)
(* Each request runs in a handler thread (FastAPI runs these endpoints in  *)
(* a thread pool); an action is what one handler does up to and including  *)
(* one committed transaction, or up to one read that it later relies on.   *)
(* Reads of immutable rows (Revisions, Candidates, Run inputs) are folded  *)
(* into the action that uses them: no other handler can change them.       *)
(*                                                                         *)
(* Faults names what may go wrong in a run of the model:                   *)
(*   "persistence"  an SQLite error in a handler's next statement          *)
(*   "unexpected"   an exception the handler does not expect: from the     *)
(*                  preflight of a Candidate Run, or while executing one   *)
(*                  that is no BacktestError or DecisionEvidenceError      *)
(*   "crash"        the process dies and is restarted                      *)
(***************************************************************************)
EXTENDS StrategyStore

CONSTANTS
  Runs,     \* Backtest Run identities (UUIDs)
  Threads,  \* request handler threads
  Configs,  \* complete Backtest configurations
  Faults

ASSUME FaultsAssumption == Faults \subseteq {"persistence", "unexpected", "crash"}
ASSUME LoopNoneAssumption == None \notin Runs \cup Configs

VARIABLES
  runRevision,   \* backtest_runs.revision_id
  runCandidate,  \* backtest_runs.candidate_id
  runSource,     \* backtest_runs.provenance: the source that was executed
  runConfig,     \* backtest_runs.config_json
  runStatus,     \* backtest_runs.status, "absent" while there is no row
  evidence,      \* the Run has decision_events rows
  candBase,      \* candidates.base_revision_id
  candOrigin,    \* candidates.originating_run_id
  candSource,    \* candidates.canonical_json
  compared,      \* the Candidate has a comparisons row
  pc,            \* what each handler thread does next
  argRun,        \* the Run a handler thread is working on
  argCand        \* the Candidate a handler thread is working on

runVars  == <<runRevision, runCandidate, runSource, runConfig, runStatus, evidence>>
candVars == <<candBase, candOrigin, candSource>>
loopVars == <<storeVars, runVars, candVars, compared, pc, argRun, argCand>>

RunStates == {"absent", "pending", "running", "succeeded", "failed"}

Stages ==
  {"idle",
   "created",    \* Run row inserted, mark_running is next
   "executing",  \* inside the LEAN executor
   "executed",   \* complete_succeeded_with_evidence is next
   "failing",    \* complete_failed is next
   "proposing",  \* create_and_execute passed its checks, INSERT is next
   "proposed",   \* Candidate row inserted, its Run row is next
   "adopting",   \* adopt passed its checks, the append is next
   "comparing"}  \* Comparison computed, INSERT is next

LoopTypeOK ==
  /\ StoreTypeOK
  /\ runRevision \in [Runs -> Revisions \cup {None}]
  /\ runCandidate \in [Runs -> Candidates \cup {None}]
  /\ runSource \in [Runs -> Contents \cup {None}]
  /\ runConfig \in [Runs -> Configs \cup {None}]
  /\ runStatus \in [Runs -> RunStates]
  /\ evidence \in [Runs -> BOOLEAN]
  /\ candBase \in [Candidates -> Revisions \cup {None}]
  /\ candOrigin \in [Candidates -> Runs \cup {None}]
  /\ candSource \in [Candidates -> Contents \cup {None}]
  /\ compared \in [Candidates -> BOOLEAN]
  /\ pc \in [Threads -> Stages]
  /\ argRun \in [Threads -> Runs \cup {None}]
  /\ argCand \in [Threads -> Candidates \cup {None}]

LoopInit ==
  /\ StoreInit
  /\ runRevision = [n \in Runs |-> None]
  /\ runCandidate = [n \in Runs |-> None]
  /\ runSource = [n \in Runs |-> None]
  /\ runConfig = [n \in Runs |-> None]
  /\ runStatus = [n \in Runs |-> "absent"]
  /\ evidence = [n \in Runs |-> FALSE]
  /\ candBase = [c \in Candidates |-> None]
  /\ candOrigin = [c \in Candidates |-> None]
  /\ candSource = [c \in Candidates |-> None]
  /\ compared = [c \in Candidates |-> FALSE]
  /\ pc = [t \in Threads |-> "idle"]
  /\ argRun = [t \in Threads |-> None]
  /\ argCand = [t \in Threads |-> None]

-----------------------------------------------------------------------------
(* Handler threads *)

(* Thread t goes on to stage `at' with Run n and Candidate c in hand. *)
Goto(t, at, n, c) ==
  /\ pc' = [pc EXCEPT ![t] = at]
  /\ argRun' = [argRun EXCEPT ![t] = n]
  /\ argCand' = [argCand EXCEPT ![t] = c]

(* The request is answered (or its exception propagates). *)
Return(t) == Goto(t, "idle", None, None)

RunExists(n) == runStatus[n] # "absent"

CandidateExists(c) == candBase[c] # None

RunOf(c) == {n \in Runs : runCandidate[n] = c}

(* The Candidate has a Run and that Run succeeded. *)
Tested(c) == \E n \in RunOf(c) : runStatus[n] = "succeeded"

-----------------------------------------------------------------------------
(* Backtest Runs *)

(* INSERT INTO backtest_runs with status pending.  The id is a new UUID and *)
(* a unique index admits one Run per Candidate.                             *)
InsertRun(n, r, c, k, cfg) ==
  /\ ~RunExists(n)
  /\ c # None => RunOf(c) = {}
  /\ runRevision' = [runRevision EXCEPT ![n] = r]
  /\ runCandidate' = [runCandidate EXCEPT ![n] = c]
  /\ runSource' = [runSource EXCEPT ![n] = k]
  /\ runConfig' = [runConfig EXCEPT ![n] = cfg]
  /\ runStatus' = [runStatus EXCEPT ![n] = "pending"]
  /\ UNCHANGED evidence

(* POST /v1/revisions/{id}/backtest-runs, up to the pending row.  A failing *)
(* preflight or an unknown Revision ends the request with nothing written.  *)
CreateRun(t, n, r, cfg) ==
  /\ pc[t] = "idle"
  /\ Stored(r)
  /\ InsertRun(n, r, None, content[r], cfg)
  /\ Goto(t, "created", n, None)
  /\ UNCHANGED <<storeVars, candVars, compared>>

(* The UPDATE of one lifecycle step: WHERE status = <expected>. *)
Transition(n, expected, status) ==
  /\ runStatus[n] = expected
  /\ runStatus' = [runStatus EXCEPT ![n] = status]
  /\ UNCHANGED <<runRevision, runCandidate, runSource, runConfig>>

(* Mutant: the executor is started without the UPDATE to running. *)
MarkRunningSkipped(t) ==
  /\ pc[t] = "created"
  /\ Goto(t, "executing", argRun[t], argCand[t])
  /\ UNCHANGED <<storeVars, runVars, candVars, compared>>

MarkRunning(t) ==
  /\ pc[t] = "created"
  /\ Transition(argRun[t], "pending", "running")
  /\ Goto(t, "executing", argRun[t], argCand[t])
  /\ UNCHANGED <<storeVars, candVars, compared, evidence>>

(* Mutant: an execution error is answered without marking the Run failed. *)
ExecutionErrorForgotten(t) ==
  /\ pc[t] = "executing"
  /\ Goto(t, "executed", argRun[t], argCand[t]) \/ Return(t)
  /\ UNCHANGED <<storeVars, runVars, candVars, compared>>

(* The executor returned a normalized result with Decision Evidence whose    *)
(* provenance is known; or it raised BacktestError or DecisionEvidenceError. *)
ExecutionReturns(t) ==
  /\ pc[t] = "executing"
  /\ \E at \in {"executed", "failing"} : Goto(t, at, argRun[t], argCand[t])
  /\ UNCHANGED <<storeVars, runVars, candVars, compared>>

(* One transaction: every event row and the succeeded status. *)
CompleteSucceeded(t) ==
  /\ pc[t] = "executed"
  /\ Transition(argRun[t], "running", "succeeded")
  /\ evidence' = [evidence EXCEPT ![argRun[t]] = TRUE]
  /\ Return(t)
  /\ UNCHANGED <<storeVars, candVars, compared>>

(* Mutant: the event rows are committed one by one. *)
EvidencePartlyPersisted(t) ==
  /\ "persistence" \in Faults
  /\ pc[t] = "executed"
  /\ evidence' = [evidence EXCEPT ![argRun[t]] = TRUE]
  /\ Goto(t, "failing", argRun[t], argCand[t])
  /\ UNCHANGED <<storeVars, runRevision, runCandidate, runSource, runConfig, runStatus,
                 candVars, compared>>

(* That transaction was rejected (an SQLite error, or events that are not   *)
(* contiguous): it rolled back, and the Run is to be marked failed instead. *)
EvidenceNotPersisted(t) ==
  /\ "persistence" \in Faults
  /\ pc[t] = "executed"
  /\ Goto(t, "failing", argRun[t], argCand[t])
  /\ UNCHANGED <<storeVars, runVars, candVars, compared>>

CompleteFailed(t) ==
  /\ pc[t] = "failing"
  /\ Transition(argRun[t], "running", "failed")
  /\ Return(t)
  /\ UNCHANGED <<storeVars, candVars, compared, evidence>>

-----------------------------------------------------------------------------
(* Candidates *)

(* POST /v1/backtest-runs/{id}/candidates, the checks: the originating Run   *)
(* is Revision-backed and its Strategy is not archived now.                  *)
CheckProposal(t, n) ==
  /\ pc[t] = "idle"
  /\ RunExists(n)
  /\ runCandidate[n] = None
  /\ ~archived[owner[runRevision[n]]]
  /\ Goto(t, "proposing", n, None)
  /\ UNCHANGED <<storeVars, runVars, candVars, compared>>

(* Mutant: a change to the same value is accepted. *)
InsertCandidateUnchanged(t, c, k) ==
  /\ pc[t] = "proposing"
  /\ ~CandidateExists(c)
  /\ candBase' = [candBase EXCEPT ![c] = runRevision[argRun[t]]]
  /\ candOrigin' = [candOrigin EXCEPT ![c] = argRun[t]]
  /\ candSource' = [candSource EXCEPT ![c] = k]
  /\ Goto(t, "proposed", None, c)
  /\ UNCHANGED <<storeVars, runVars, compared>>

(* Mutant: the request is answered before the Candidate is executed. *)
InsertCandidateOnly(t, c, k) ==
  /\ pc[t] = "proposing"
  /\ ~CandidateExists(c)
  /\ k # content[runRevision[argRun[t]]]
  /\ candBase' = [candBase EXCEPT ![c] = runRevision[argRun[t]]]
  /\ candOrigin' = [candOrigin EXCEPT ![c] = argRun[t]]
  /\ candSource' = [candSource EXCEPT ![c] = k]
  /\ Return(t)
  /\ UNCHANGED <<storeVars, runVars, compared>>

(* INSERT INTO candidates: the base Revision with one changed value. *)
InsertCandidate(t, c, k) ==
  /\ pc[t] = "proposing"
  /\ ~CandidateExists(c)
  /\ k # content[runRevision[argRun[t]]]
  /\ candBase' = [candBase EXCEPT ![c] = runRevision[argRun[t]]]
  /\ candOrigin' = [candOrigin EXCEPT ![c] = argRun[t]]
  /\ candSource' = [candSource EXCEPT ![c] = k]
  /\ Goto(t, "proposed", None, c)
  /\ UNCHANGED <<storeVars, runVars, compared>>

(* The Candidate Run inherits the originating Run's configuration and goes   *)
(* through the same lifecycle.                                               *)
CreateCandidateRun(t, n) ==
  /\ pc[t] = "proposed"
  /\ LET c == argCand[t]
     IN  /\ InsertRun(n, candBase[c], c, candSource[c], runConfig[candOrigin[c]])
         /\ Goto(t, "created", n, c)
  /\ UNCHANGED <<storeVars, candVars, compared>>

(* Mutant: any Candidate may be adopted, tested or not. *)
CheckAdoptionUntested(t, c, expected) ==
  /\ pc[t] = "idle"
  /\ CandidateExists(c)
  /\ expected = candBase[c]
  /\ ~archived[owner[candBase[c]]]
  /\ Goto(t, "adopting", None, c)
  /\ UNCHANGED <<storeVars, runVars, candVars, compared>>

(* POST /v1/candidates/{id}/adopt, the checks. *)
CheckAdoption(t, c, expected) ==
  /\ pc[t] = "idle"
  /\ CandidateExists(c)
  /\ Tested(c)
  /\ expected = candBase[c]
  /\ ~archived[owner[candBase[c]]]
  /\ Goto(t, "adopting", None, c)
  /\ UNCHANGED <<storeVars, runVars, candVars, compared>>

(* Mutant: candidate_adoptions is keyed by the base Revision, so the row     *)
(* stands for every Candidate of that base.                                 *)
CommitAdoptionByBase(t, r) ==
  /\ pc[t] = "adopting"
  /\ LET c == argCand[t]
     IN  /\ adoption[c] = None
         /\ AppendRevision(owner[candBase[c]], candBase[c], r, candSource[c])
         /\ adoption' = [d \in Candidates |->
                           IF candBase[d] = candBase[c] THEN r ELSE adoption[d]]
  /\ Return(t)
  /\ UNCHANGED <<name, archived, runVars, candVars, compared>>

(* The append transaction commits the adoption ... *)
CommitAdoption(t, r) ==
  /\ pc[t] = "adopting"
  /\ LET c == argCand[t]
     IN  AdoptCandidate(c, owner[candBase[c]], candBase[c], r, candSource[c])
  /\ Return(t)
  /\ UNCHANGED <<runVars, candVars, compared>>

(* ... or writes nothing: the Candidate was adopted before (answered as a    *)
(* success), or the Strategy is archived or has moved on (refused).          *)
AnswerAdoption(t) ==
  /\ pc[t] = "adopting"
  /\ LET c == argCand[t]
     IN  \/ adoption[c] # None
         \/ AppendStatus(owner[candBase[c]], candBase[c], candSource[c]) # "created"
  /\ Return(t)
  /\ UNCHANGED <<storeVars, runVars, candVars, compared>>

-----------------------------------------------------------------------------
(* Comparisons *)

(* Mutant: only the Candidate Run has to have succeeded. *)
ComparableWithAnyOrigin(c) ==
  LET o == candOrigin[c]
  IN  \E n \in RunOf(c) :
        /\ runCandidate[o] = None
        /\ runRevision[o] = candBase[c] /\ runRevision[n] = candBase[c]
        /\ runSource[o] = content[candBase[c]] /\ runSource[n] = candSource[c]
        /\ runConfig[o] = runConfig[n]
        /\ runStatus[n] = "succeeded"
        /\ evidence[n]

(* Both Runs are what the Candidate says they are, on one configuration,     *)
(* succeeded, and have Decision Evidence.                                    *)
Comparable(c) ==
  LET o == candOrigin[c]
  IN  \E n \in RunOf(c) :
        /\ runCandidate[o] = None
        /\ runRevision[o] = candBase[c] /\ runRevision[n] = candBase[c]
        /\ runSource[o] = content[candBase[c]] /\ runSource[n] = candSource[c]
        /\ runConfig[o] = runConfig[n]
        /\ runStatus[o] = "succeeded" /\ runStatus[n] = "succeeded"
        /\ evidence[o] /\ evidence[n]

(* POST /v1/candidates/{id}/comparison: no stored Comparison yet; load both  *)
(* Runs, check that they are comparable, and compute.                        *)
ComputeComparison(t, c) ==
  /\ pc[t] = "idle"
  /\ ~compared[c]
  /\ CandidateExists(c)
  /\ Comparable(c)
  /\ Goto(t, "comparing", None, c)
  /\ UNCHANGED <<storeVars, runVars, candVars, compared>>

(* INSERT INTO comparisons; if another handler was faster the unique index   *)
(* rejects the row and the request fails.                                    *)
InsertComparison(t) ==
  /\ pc[t] = "comparing"
  /\ compared' = [compared EXCEPT ![argCand[t]] = TRUE]
  /\ Return(t)
  /\ UNCHANGED <<storeVars, runVars, candVars>>

-----------------------------------------------------------------------------
(* Faults *)

(* An SQLite error ends the request; what was committed before stays.  While *)
(* executing no statement is pending, and after executing the error is       *)
(* handled (EvidenceNotPersisted).                                           *)
StatementFails(t) ==
  /\ "persistence" \in Faults
  /\ pc[t] \in Stages \ {"idle", "executing", "executed"}
  /\ Return(t)
  /\ UNCHANGED <<storeVars, runVars, candVars, compared>>

(* An exception nobody catches leaves the Run running, or the Candidate     *)
(* without a Run.                                                           *)
ExecutionRaises(t) ==
  /\ "unexpected" \in Faults
  /\ pc[t] \in {"executing", "proposed"}
  /\ Return(t)
  /\ UNCHANGED <<storeVars, runVars, candVars, compared>>

(* The process dies: every handler is gone, the database stays.  Nothing is  *)
(* repaired on restart.                                                      *)
Crash ==
  /\ "crash" \in Faults
  /\ \E t \in Threads : pc[t] # "idle"
  /\ pc' = [t \in Threads |-> "idle"]
  /\ argRun' = [t \in Threads |-> None]
  /\ argCand' = [t \in Threads |-> None]
  /\ UNCHANGED <<storeVars, runVars, candVars, compared>>

-----------------------------------------------------------------------------

(* The single-transaction requests on Strategies, from any client. *)
StrategyRequest ==
  /\ \/ \E s \in Strategies, n \in Names, r \in Revisions, k \in Contents :
          CreateStrategy(s, n, r, k)
     \/ \E s \in Strategies, expected, r \in Revisions, k \in Contents :
          SaveRevision(s, expected, r, k)
     \/ \E s \in Strategies, n \in Names : RenameStrategy(s, n)
     \/ \E s \in Strategies : ArchiveStrategy(s)
  /\ UNCHANGED <<runVars, candVars, compared, pc, argRun, argCand>>

(* What the handler of an accepted request does next. *)
Proceed(t) ==
  \/ MarkRunning(t)
  \/ ExecutionReturns(t)
  \/ CompleteSucceeded(t)
  \/ CompleteFailed(t)
  \/ \E n \in Runs : CreateCandidateRun(t, n)
  \/ \E c \in Candidates, k \in Contents : InsertCandidate(t, c, k)
  \/ \E r \in Revisions : CommitAdoption(t, r)
  \/ AnswerAdoption(t)
  \/ InsertComparison(t)

(* A new request arrives. *)
Accept(t) ==
  \/ \E n \in Runs, r \in Revisions, cfg \in Configs : CreateRun(t, n, r, cfg)
  \/ \E n \in Runs : CheckProposal(t, n)
  \/ \E c \in Candidates, expected \in Revisions : CheckAdoption(t, c, expected)
  \/ \E c \in Candidates : ComputeComparison(t, c)

Fail(t) ==
  \/ EvidenceNotPersisted(t)
  \/ StatementFails(t)
  \/ ExecutionRaises(t)

LoopNext ==
  \/ StrategyRequest
  \/ \E t \in Threads : Accept(t) \/ Proceed(t) \/ Fail(t)
  \/ Crash

LoopSpec == LoopInit /\ [][LoopNext]_loopVars

(* A handler thread that was scheduled keeps running to the end of its       *)
(* request: the executor's container calls have timeouts, and a blocked      *)
(* SQLite statement gives up after its busy timeout.                         *)
LoopFairness == \A t \in Threads : WF_loopVars(Proceed(t))

FairLoopSpec == LoopSpec /\ LoopFairness

-----------------------------------------------------------------------------
(* Safety *)

(* Decision Evidence is visible for exactly the Runs that succeeded: the      *)
(* event rows and the succeeded status are one transaction, and whatever      *)
(* goes wrong in it the Run that is then marked failed has no evidence.       *)
EvidenceExactlyForSucceeded ==
  \A n \in Runs : evidence[n] <=> runStatus[n] = "succeeded"

(* Stages at which a handler has a Run row of its own in hand. *)
RunStages == {"created", "executing", "executed", "failing"}

(* A handler that drives a Run finds it in the state its next UPDATE names,  *)
(* and no other handler drives the same Run: "lifecycle transition was       *)
(* rejected" never happens, whatever else fails.                             *)
LifecycleNeverRejected ==
  \A t \in Threads :
    pc[t] \in RunStages =>
      /\ runStatus[argRun[t]] = IF pc[t] = "created" THEN "pending" ELSE "running"
      /\ \A u \in Threads \ {t} : pc[u] \in RunStages => argRun[u] # argRun[t]

(* A recorded adoption is exactly the Candidate's source on top of the base   *)
(* it was tested on: the adopting Revision is the child of the Candidate's    *)
(* base, holds the Candidate's source, and that very source was executed by a *)
(* Candidate Run that succeeded with evidence.                                *)
AdoptionBacked ==
  \A c \in Candidates :
    adoption[c] # None =>
      /\ CandidateExists(c)
      /\ parent[adoption[c]] = candBase[c]
      /\ content[adoption[c]] = candSource[c]
      /\ \E n \in RunOf(c) :
           runSource[n] = candSource[c] /\ runStatus[n] = "succeeded" /\ evidence[n]

(* Two Candidates of one base Revision are rivals: at most one is adopted,   *)
(* however their adoption requests interleave.                               *)
SiblingCandidatesExclusive ==
  \A c, d \in Candidates :
    adoption[c] # None /\ adoption[d] # None /\ candBase[c] = candBase[d] => c = d

(* The "identical" answer of the append transaction, which adopt would report *)
(* as a success without recording any adoption, never reaches an adoption: a  *)
(* Candidate always differs from the base Revision it must be appended to.    *)
AdoptionNeverVacuous ==
  \A t \in Threads :
    pc[t] = "adopting" =>
      LET c == argCand[t]
      IN  AppendStatus(owner[candBase[c]], candBase[c], candSource[c])
            \in {"created", "stale", "archived"}

(* A stored Comparison compares like with like for ever: the Candidate's one *)
(* Run against the originating Run of its base Revision, both succeeded with *)
(* evidence, on one configuration, on different sources.                     *)
ComparisonSound ==
  \A c \in Candidates :
    compared[c] =>
      LET o == candOrigin[c]
      IN  /\ CandidateExists(c)
          /\ \E n \in Runs :
               /\ RunOf(c) = {n} /\ n # o /\ runCandidate[o] = None
               /\ runStatus[o] = "succeeded" /\ runStatus[n] = "succeeded"
               /\ evidence[o] /\ evidence[n]
               /\ runConfig[n] = runConfig[o]
               /\ runSource[o] = content[candBase[c]] /\ runSource[n] # runSource[o]

-----------------------------------------------------------------------------
(* What the safety properties rest on *)

(* A Run executes what it names: the Revision's source, or, on the Candidate's *)
(* base and with the originating Run's configuration, the Candidate's.         *)
RunsConsistent ==
  \A n \in Runs :
    /\ ~RunExists(n) => runCandidate[n] = None
    /\ RunExists(n) =>
         /\ runRevision[n] \in Revisions
         /\ Stored(runRevision[n])
         /\ runCandidate[n] = None => runSource[n] = content[runRevision[n]]
         /\ \A c \in Candidates :
              runCandidate[n] = c =>
                /\ CandidateExists(c)
                /\ runRevision[n] = candBase[c]
                /\ runSource[n] = candSource[c]
                /\ runConfig[n] = runConfig[candOrigin[c]]

OneRunPerCandidate ==
  \A m, n \in Runs : runCandidate[m] = runCandidate[n] /\ runCandidate[n] # None => m = n

(* A Candidate changes the Revision its originating Run executed. *)
CandidatesConsistent ==
  \A c \in Candidates :
    CandidateExists(c) =>
      /\ Stored(candBase[c])
      /\ candOrigin[c] \in Runs
      /\ RunExists(candOrigin[c])
      /\ runCandidate[candOrigin[c]] = None
      /\ runRevision[candOrigin[c]] = candBase[c]
      /\ candSource[c] \in Contents \ {content[candBase[c]]}

(* What a handler checked before its last commit is still so: rows it relies  *)
(* on exist, and a tested or comparable Candidate stays one.                  *)
HandlersConsistent ==
  \A t \in Threads :
    /\ pc[t] \in RunStages => argRun[t] \in Runs
    /\ pc[t] = "proposing" =>
         argRun[t] \in Runs /\ RunExists(argRun[t]) /\ runCandidate[argRun[t]] = None
    /\ pc[t] \in {"proposed", "adopting", "comparing"} =>
         argCand[t] \in Candidates /\ CandidateExists(argCand[t])
    /\ pc[t] = "adopting" => Tested(argCand[t])
    /\ pc[t] = "comparing" => Comparable(argCand[t])

(* Every adoption has a Revision of its own. *)
AdoptionsDistinct ==
  \A c \in Candidates :
    adoption[c] # None =>
      /\ Stored(adoption[c])
      /\ \A d \in Candidates : adoption[d] = adoption[c] => d = c

ComparedIsComparable ==
  \A c \in Candidates : compared[c] => CandidateExists(c) /\ Comparable(c)

(* The inductive invariant of the loop. *)
LoopInv ==
  /\ LoopTypeOK
  /\ StoreInv
  /\ RunsConsistent
  /\ OneRunPerCandidate
  /\ CandidatesConsistent
  /\ HandlersConsistent
  /\ LifecycleNeverRejected
  /\ EvidenceExactlyForSucceeded
  /\ AdoptionBacked
  /\ AdoptionsDistinct
  /\ ComparedIsComparable

-----------------------------------------------------------------------------
(* Refinement *)

(* How far a Candidate has come, read from the tables. *)
Phase(c) ==
  IF ~CandidateExists(c) THEN "absent"
  ELSE IF adoption[c] # None THEN "kept"
  ELSE IF RunOf(c) = {} THEN "proposed"
  ELSE IF Tested(c) THEN "tested"
  ELSE IF \E n \in RunOf(c) : runStatus[n] = "failed" THEN "refuted"
  ELSE "testing"

Lifecycle == INSTANCE CandidateLifecycle
  WITH phase <- [c \in Candidates |-> Phase(c)], base <- candBase

(* The three services together implement the Candidate lifecycle: no crash,  *)
(* failed statement, repeated or concurrent request makes a Candidate skip a *)
(* phase, be tested twice, or be kept beside a kept sibling.                 *)
ImplementsLifecycle == Lifecycle!Spec

(* The handlers change Strategies, Revisions and adoptions only through the  *)
(* transactions of the store, on arguments its callers may send.             *)
ImplementsStore == StoreSpec

-----------------------------------------------------------------------------
(* Liveness *)

(* A Run that was created reaches a terminal status (when nothing kills its   *)
(* handler and SQLite accepts its writes).                                    *)
RunsFinish ==
  \A n \in Runs : runStatus[n] = "pending" ~> runStatus[n] \in {"succeeded", "failed"}

(* An accepted proposal ends with a Candidate that has a finished Run. *)
CandidatesAreTested ==
  \A c \in Candidates :
    CandidateExists(c) ~> \E n \in RunOf(c) : runStatus[n] \in {"succeeded", "failed"}

=============================================================================
