# RuleTrade: a TLA+ development

RuleTrade is a strategy editor with a persistent research loop: a *Strategy* is
edited as Canonical source and saved as immutable *Revisions*; a Revision is
executed by LEAN as a *Backtest Run* with *Decision Evidence*; a *Candidate*
proposes one changed value, is executed as a Run of its own, is *compared* with
the Run it came from, and is *adopted* as the next Revision or left alone.  A
FastAPI backend (`src/src/ruletrade`) keeps all of this in one SQLite database;
a React frontend (`src/frontend/src`) holds editing sessions over it.

This directory holds TLA+ modules of that system, the TLC configurations that
check them, and proofs checked by TLAPS.  Paths below are relative to
`src/src/ruletrade/` unless they start with `frontend/` or `docs/`.

## 1. Inventory

| component | where | state it keeps | operations | what is hard | what makes it correct |
|---|---|---|---|---|---|
| Strategies | `strategies/service.py`, `persistence/sqlite_strategies.py` | rows of `strategies`, `strategy_revisions`, `candidate_adoptions` | create, save, adopt, rename, archive | stale clients, retried and concurrent requests | append-only unforked history; archived is final |
| Backtest Runs | `backtest_runs/service.py`, `persistence/sqlite_backtest_runs.py` | rows of `backtest_runs`, `decision_events` | create, mark running, complete with evidence, fail | four transactions per Run, errors and crashes in between | evidence exactly for succeeded Runs; one driver per Run; every Run ends |
| Candidates | `candidates/service.py`, `persistence/sqlite_candidates.py` | rows of `candidates` | propose and execute, adopt, read | checks and writes in different transactions | adopted means tested on that base; rivals exclude each other |
| Comparisons | `comparisons/service.py`, `persistence/sqlite_comparisons.py` | rows of `comparisons` | create (once per Candidate), read | concurrent first requests | compares only like with like, for ever |
| HTTP API | `api.py` | singletons of the services | endpoints; blocking ones run in a thread pool | interleaving of handlers | no state of its own |
| V2 editor | `frontend/.../V2StrategyEditor.tsx` | working strategy, base Revision, undo and redo, request sequence, conflict | asynchronous edit, undo, save, merge, test | answers that arrive late or out of order | no accepted edit is silently lost |
| V1 editor | `frontend/.../StrategyEditor.tsx`, `useStructuralAuthoring.ts`, `editorStore.tsx` | local strategy, base Revision, research dock | asynchronous edit, save, reload, adopt, open Run | same | same; what is shown is what was asked for |
| Decision Evidence | `decision_evidence/collector.py`, alignment in `comparisons/service.py` | none | log text to ordered events; two Runs' events to their differences | missing, repeated, moved lines; an event more in one Run | a prefix of what was logged or an error; exactly the decisions that differ |
| LEAN execution | `backtests/service.py`, `backtests/lean_runner.py`, `backtests/normalization.py` | runtime build shared by the host, container and work directory per call | preflight, build, create, start, wait, collect, clean up | executions side by side, a timeout at any call, partial output | one answer, from its own program; nothing left behind that a failed call does not explain |
| Market data | `market_data/service.py` | none (reads archives) | requirement, coverage preflight | boundary dates, corrupt files | available only if warm-up and period are covered |
| Compiler | `compiler/**` | none; the generated algorithm keeps schedules, cooldowns, sleeves and a checkpoint | desugar, analyse, lower, generate | weights merged at compile time, independent clocks, a process that ends anywhere, restart from a checkpoint | the generated algorithm decides what the source means, interrupted or not |
| Program Core | `strategy/v2/program_execution.py` | none; a result is handed to the next session | execute one session of a Program | truths, counts and memory of earlier sessions; order within a session | a session is a function of the program, the prices and the session before |
| Strategy V1 and IR | `strategy/v1/**`, `ir/**` | none; the document travels with the request | structural and composition operations, offers, validation | splicing into a graph, generated ids, inverses of recipes | every accepted edit yields a valid strategy; what is offered is accepted; what recipes build compiles |
| Strategy V2 | `strategy/v2/**` | none; the document travels with the request | authoring operations on groups, Selections, Allocations and statements, validation, daily evaluation, projections | a tree edited by address, references by name | references resolve, unrelated statements stay, capital keeps its Selection |
| Legacy core, CLI | `core/**`, `engines/**`, `adapters/**`, `cli.py` | none persistent | simulate a plan | none: sequential | not part of the service |
| Asset workspace, hashing, scripts, corpora | `asset_workspace.py`, `hashing.py`, `scripts/` | none | read-only views, tooling | none | not modelled |

How they interact: the editors call the API; API handlers call services; a
service calls repositories, each call being one SQLite transaction (`BEGIN
IMMEDIATE` where it reads before it writes).  Candidate, Run and Comparison
services share only the database, so every hazard is a matter of what happens
between two transactions of one handler.  `PROJECT.json` lists the hazards with
their lines.

## 2. Modules

* `StrategyStore` - the Strategy aggregate.  A variable is a column
  (`current` is `strategies.current_revision_id`, `adoption` the table
  `candidate_adoptions`), and `None` in the defining column means that there is
  no such row.  An action is one committed transaction: `CreateStrategy`,
  `SaveRevision`, `AdoptCandidate`, `RenameStrategy`, `ArchiveStrategy`.
  `AppendStatus` gives the checks of the append transactions in the order the
  code runs them; requests that are refused change nothing and need no action.
  Clients are not modelled as processes: `expected`, the Revision a client
  believes to be current, is any Revision at all.
* `RevisionHistory` - the abstract specification of the store: a log per
  Strategy with compare-and-append and a final close.
* `StrategyHistory` - the refinement mapping from the tables to logs: `LineTo`
  follows the parent pointers from a Revision to its root, and `LineOf` reads a
  Strategy's log from its current Revision.  `ImplementsHistory` is a property
  of the run `store` and a theorem.
* `ResearchLoop` - Runs, Candidates and Comparisons over `StrategyStore`.
  Handler threads have a program counter `pc`, the Run and the Candidate in
  hand; an action is what a handler does up to and including one commit, or up
  to one read that it relies on after other handlers may have run.  Between
  `CheckAdoption` and `CommitAdoption`, or `CheckProposal` and
  `InsertCandidate`, anything may happen, as in the code.  Reads of immutable
  rows are folded into the action that uses them.  `Faults` turns on SQLite
  errors (`StatementFails`, `EvidenceNotPersisted`), exceptions nobody catches
  (`ExecutionRaises`) and process crashes (`Crash`; the database stays, and
  nothing is repaired on restart, as in the code).
* `CandidateLifecycle` - the abstract specification of the loop: a Candidate is
  proposed, tested once, kept or not; of the Candidates of one base at most one
  is kept.  `ImplementsLifecycle` reads the phase from the tables (`Phase`).
* `V2EditorSession` - one Builder session (`V2StrategyEditor.tsx`) over
  `StrategyStore`, with any other client that saves to the same Strategy.  The
  React state becomes the variables `working`, `base`, `baseRevision`, `hashOf`,
  `dirty`, `status`, `undoStack`, `redoStack`, `conflict`; `calls` holds the
  asynchronous calls in flight, each with the values its closure captured when
  the gesture was made (`NewCall`), because an `await` does not see later
  renders.  A gesture (`Edit`, `Undo`, `Redo`, `Prepare`, `Save`, `Test`,
  `RefreshConflict`, `SetDraft`, `ReapplyConflict`, `DiscardConflict`) is one
  event handler up to its first `await`; an answer (`EditAnswered`,
  `SaveAnswered`, `ConflictFound`, ...) is what runs from one `await` to the
  next.  A save has a commit on the server (`CommitSave`; or `SaveIdentical`,
  which answers success with the current Revision when its source is that of
  the request already) and an answer, and either may be followed by a failure (`CallFails`: a refusal, a network error,
  a lost answer, an archived Strategy).  The request number of
  `sequence.current` is abstracted to whether it is still the latest one
  (`newest`).  A source has two parts, definitions and program, which undo
  (`Restorations`) and the three-way merge (`Merge`) treat apart.  The views are
  asked for no more than the handlers' own guards: an edit may be made whatever
  the status.
* `TemporalProgram` - what a temporal program and a market snapshot are, as
  `compiler/lean/plan.py` and `strategy/v2/daily_values.py` carry them: events
  with a comparison, an optional State guard and an optional window after
  another event; the actions remember and transition; a policy of State
  overrides and a primary target.  `Programs` and `Markets` are constants.
* `ProgramReference` - what such a program means: `execute_program_v2` run
  session by session, each on the result of the one before.  One step is one
  session.  It is the abstract specification of the next module.  Its operators
  take the program and the snapshot as parameters, and what its two loops build
  up is a recursive function (`Visited` over the events, `Performed` over the
  actions of one), so that a proof can stop in the middle of a session.
* `TemporalRuntime` - the C# algorithm that `compiler/lean/codegen.py`
  generates, run by one LEAN process after another.  `runtime` is the record of
  the algorithm's fields that a checkpoint carries, and `NextBar`,
  `EvaluateEvent`, `Remember`, `Transition` and `Decide` are the statements of
  `OnData` and `ExecuteTemporalBoundary` in their order: `visit` and `act` are
  the position in the program.  `Restart` may happen at any of them; it is
  `Initialize` of a fresh process and account, with no checkpoint or with one
  that an earlier process logged and `validate_checkpoint` accepts
  (`Accepted`: it is `Coherent`, and no memory that its triggered events must
  have set is missing, `RequiredMemory`).  `emitted` is what has been logged of each session; `Logged` is
  the same in the evaluator's terms (`ResultOf`), and is what the refinement
  gives the evaluator for its `results`.
  `holdings` is what the orders submitted so far amount to: `SetHoldings` and
  `Liquidate` are LEAN's, and orders are taken to be filled.  The lowering
  (`strategy/v2/bridge.py`) is represented by the shape of a program and by the
  choice of the profile (`Multiclock`).
* `ProgramSource` - a Program-native strategy (`strategy/v2/models.py`) and its
  validators.  A program is the sequence of its statements in program order;
  `level` and `branch` say where in the tree each stands, and `Cut`, `Swap` and
  `Insert` are the rewrites by address.  `WellFormed` is what the parser of
  every request enforces, `ValidStrategy` what is enforced of every answer; the
  difference between the two is the code's (`model_copy` does not validate).
  The validator of an answer, `ValidProgram`, is the conjunction of its named
  checks (`IdsUnique`, `OutputsUnique`, `StatementSound`, `ReadsDeclared`,
  `PhrasesResolve`).
* `ProgramAuthoring` - `apply_v2_authoring`: one action per operation, each a
  whole request with its answer.  `strategy` is the document that client and
  service pass to and fro, from one accepted answer to the next; a refused
  operation changes nothing and needs no action.  The temporal and the
  multi-clock recipe, each accepted in one variation only, answer one program
  of `strategy/v2/corpus.py` each (`BreakoutProgram`, `WeeklyProgram`).
* `Reachability` - what is reached along edges, as a recursive function: the
  traversals of the validator and the compiler.
* `StrategyGraph`, `StrategyIR`, `LeanLowering` - a v1 strategy as a typed graph
  (`strategy/v1/registry.py`, `validation.py`), the compiler's front end
  (`desugar.py`, `requirements.py`, `ir/strategy/validation.py`) and the
  lowering to a plan (`compiler/lean/lowering.py`) as operators: `Compile` gives
  a plan or `Refused`, `Generates` says whether `generate_csharp` can print it.
  Components are numbers, and the order in which the document lists them is
  part of the strategy, because the compiler walks it.
* `ScheduledRuntime` - the algorithm generated for such a plan.  Its variables
  are the fields of the C# class (`_pendingEvent`, `_tradingSessionIndex`,
  `_targetSnapshot`, `_previousTargets`, `_lastExitSession`); `Open` is
  the scheduled callback that queues events, `OnData` the delivery of a slice.
* `ScheduleReference` - what a v1 strategy means on its own graph, without a
  compiler: the abstract specification of the previous module.
* `StructuralAuthoring` - `strategy/v1/authoring.py` and `composition.py`: an
  operation is the set of its candidates (none when it is refused), and
  `Accepted` the validation of the candidate.  `Offered` is what
  `structural_authoring_capabilities` offers for each component.  The semantic
  intents of `strategy/v1/semantics.py` are another way in (`ApplyIntent`): each
  is one structural operation of the same candidates, except that a selection
  with its lookback is two, the second on what was accepted of the first, and
  that a predicate for a universe is refused.  Generated ids are numbers derived from
  the component they are generated for (`Named`), as the code derives strings.
* `MarketDataPreflight` - `market_data/service.py`: coverage of a plan's
  requirement by what is in the data directory, with the reasons it reports.
  A `BacktestConfig` names one of three fixtures, which have everything, or the
  local directory (`backtests/models.py:20`); two more data sets that
  `DockerLeanRunner` knows, and that the preflight would look for in the local
  directory, cannot be named in a request.
* `LeanExecution` - executions of LEAN side by side, from the request to its
  answer: a program counter per execution, a runtime build shared by all
  (`EnsureRuntime`, `AwaitBuild`), a work directory and a container each.
  Every docker call may fail or time out (`faults` counts them, with the bound
  `MaxFaults`), and the data directory may change at any time (`MaxChanges`).
* `ExecutionPromise` - the abstract specification of an execution: refused
  before anything was launched, or launched and answered once, with what its
  own program produced.
* `DecisionEvidence` - the kinds of evidence lines: which fields decide, which
  are merely observed, and what makes a log collectable.
* `DecisionComparison` - two Runs log, lines are lost, repeated or moved on the
  way, the collector takes or refuses the log, and the two are aligned as
  `comparisons/service.py` does.
* `MC...` - per run: refinement mapping, symmetry, bounds, inputs, and the
  sentences of the documents that are checked.
* `StrategyStoreProofs` (the store, and the loop and the Builder session, which
  rest on it), `TemporalRuntimeProofs`, `LeanExecutionProofs`,
  `DecisionComparisonProofs`, `ProgramAuthoringProofs`,
  `ScheduledRuntimeProofs`, `StructuralAuthoringProofs` - the theorems, and
  `Foundations` - what they use of the natural numbers and of reachability:
  least and greatest numbers, induction stated of a set (`NaturalSteps`), which
  the provers can instantiate, and `ReachedClosed`: as many rounds as there are
  components reach everything there is to reach.

Operators whose comment begins with "Mutant" are bugs the code might have had;
no specification uses them.  They show that the property named beside each in
`PROJECT.json` can fail.

Abstractions.  A Canonical source is a member of `Contents`, so equality of
sources stands for equality of serialized snapshots and of their hashes;
identities are model values drawn at most once (UUIDs); `updated_at`, timings
and diagnostics are left out, and with them the `update_diagnostics` writes,
which change only those; the semantic patch of a Candidate is any source other
than the base's, which is what `_apply_filter_threshold` guarantees by
rejecting a change to the same value.  Execution is its outcome: a result with
evidence, a classified error, or an exception nobody catches.

In the authoring modules expressions are abstracted to the Events, memories and
groups they refer to; schedules, weights, names and texts are left out of the
v2 documents, and ranking expressions out of the edits of a v1 selection.
Components of a composition are created with defaults and then set field by
field.  In the compiler modules shares are integers out of `Whole` = 120,
conditions of a rule are two-valued, a weighting by score is left out, and a
session opens each event at most once.

In the temporal modules a price is a natural number and a trading session its
position, counted from 1 (`_boundaryIndex` counts from 0).  Every asset has a
bar in every session.  The identities that `validate_checkpoint` compares
(strategy, program, snapshot, operator versions, statement order, integrity
hash) are those of one run and agree; the checks that depend on what the run
did are all in `Accepted`.  A process resumes at the session after its
checkpoint's.  A weekly clock has the default `terminal_boundary_policy`, with
which the last session of a snapshot completes nothing.

## 3. Runs

| run | question | bounds | size |
|---|---|---|---|
| `store` | Do the transactions keep histories linear, the current pointer at the newest Revision, archived Strategies frozen, and implement the log? | 2 Strategies, 4 Revisions, 2 Candidates, 2 contents, 2 names | 50,561 states |
| `loop_rivals` | Are adoptions backed and exclusive when two handlers work on two Candidates? | 1 Strategy, 3 Revisions, 2 Candidates, 3 Runs, 2 handlers, no faults, symmetry | 74,429 states |
| `loop_faults` | What survives errors and crashes between any two commits? | 1 Strategy, 3 Revisions, 1 Candidate, 2 Runs, 2 handlers, all faults, symmetry | 27,713 states |
| `loop_progress` | Does every Run finish, and is every Candidate tested? | 1 Strategy, 2 Revisions, 1 Candidate, 2 Runs, 2 handlers, no symmetry | 8,465 states |
| `editor` | Does the session's base stay a saved Revision, is "clean" true, does a test run what was shown, is "updating" left, under late and reordered answers? | 1 Strategy, 3 Revisions, 2 definitions, 2 programs, 2 calls in flight, 4 gestures, symmetry | 1,208,119 states |
| `temporal` | Does every session that is logged equal the evaluator's, do checkpoints lack no memory but one that was unknown, and do the orders follow the policy, however the run is interrupted? | 4 programs, 1 asset, 5 sessions over 2 or 3 weeks, prices 1 to 3, any number of restarts | 245,916 states |
| `authoring` | Do references, the axis, unrelated order and the flow of capital survive every sequence of v2 operations? | 4 requests, 3 statements, 2 groups, 3 asset lists, 1 free id each for statements and outputs, the two long recipes not before the third request | 84,695 states |
| `structural` | Are v1 documents consistent, recipes invertible, offers accepted and recipes executable? | 4 strategies, 3 operations, 6 composition batches | 13,259 states |
| `scheduled` | Does the compiled and generated algorithm hold what the source graph means? | 683 strategies (9 shapes, each with one wire, one order or one weight changed), 4 sessions, 2 slices a session, 3 assets | 31,302 states |
| `execution` | Is each execution answered once, by its own program, and what is left behind? | 2 executions, 1 failed call, 1 change of the data directory, 2 symbols | 56,287 states |
| `evidence` | What can a damaged log make of the evidence, and what does the alignment report? | traces of up to 3 lines over 2 sessions, one damage per log | 287,234 states |
| `stale_answer` | "Stale responses and stale backend requests cannot replace a newer snapshot" (`docs/semantic-engine-builder-unification.md`) | violated | |

Why the bounds are enough to meet the hard cases.  A fork needs two children of
one Revision: three Revisions; the fourth makes a second Strategy with its own
history possible, so that pointers across Strategies can go wrong.  Rival
adoptions need two Candidates on one base with a Run each, the originating Run,
and a third Revision so that both adoptions (or an adoption and a save) could
commit.  A Comparison needs one Candidate and two Runs.  Two handlers are
enough for every interleaving of a check and a write.  The theorems below drop
the bounds.

In the editor's run two calls in flight give every pair of gestures that
overtake each other; four gestures are enough for edit, save, a conflict with
another client, Reapply or Discard, and one more that uses the result; three
Revisions are the opened one, one of another client and one of the session.
Two values for each part of a source make clean merges and undo of either part
possible.  A part that both sides changed to different values needs three
values, so the unmergeable conflict does not occur in that run; the theorems,
which are for any sets of values, cover it.  `MaxGestures` is the only bound
in the guards of that module.

The programs of `temporal` are the breakout and the weekly breakout of
`strategy/v2/corpus.py` with shorter windows; one that enters and leaves
again and again, with a falling trigger, several actions per event and the
target retain; and one that remembers completed weeks and a memory, by an event
that compares the week (the weekly context of `corpus.py`) and by events that do
not, which may trigger while what they remember is unknown.  Five sessions let the breakout run through all its stages
(break, retest, confirm) and also expire; three prices put a price below, at
and above a level; the two week patterns complete a week of one session and one
of two.  No counter is capped: the sessions are the only bound, and a restart
goes back to a session already logged.

In `authoring`, four requests are enough to add a group, refer to it at a
depth, move the reference and remove the group; one fresh identity per kind
makes ids be taken and freed again.  The breakout and the weekly recipe have twelve and nine
statements, and every edit of them is in the run, as the last request
(`LongRecipesFrom`); the breakout's group and list bear the ids of the growth
ones, which is a renaming, since a recipe replaces the whole strategy.  The
last operation is kept in a variable
the properties read only primed, and the run's VIEW leaves it out: two states
that differ in it alone have the same successors and the same verdicts.
`OwnAssets` offers a new group lists that exist and lists that do not.  In
`structural`, three operations are a recipe, another that builds on what it
generated, and an inverse; the properties about offers and inverses look one
operation further.  In `scheduled`, the slices of a session make a first one without some asset's bar
and a second complete one, months 3, 4, 4, 7 make daily, monthly and quarterly
events fall due together and apart, and the changed wires reach strategies that
every stage of the compiler refuses.  None of its shapes feeds one weighting
into two sleeves, where the property about the whole portfolio is false (see
section 4).  In `execution`, one failure at any call of either
execution meets every state of the other; two would only add that both fail.
In `evidence`, two Runs of up to three lines, each log with any one line lost,
repeated or moved, are enough for an occurrence to be counted wrongly.

Symmetry is used only in runs of safety properties, over Runs, Revisions,
Candidates and threads, which the modules never tell apart.  Deadlock is not
checked: when the identities are used up and the Strategy is archived nothing
is left to do, and the finite identities are the only bound of those models; a
backtest stops after the last session, an execution after its answer, and an
authoring session after the bound on its requests.

Fairness (`LoopFairness`, used by `loop_progress`) is weak fairness of each
handler's next step: a thread of the pool keeps running, a container call has a
timeout, and a statement waiting for the SQLite write lock fails after its busy
timeout.  It is not assumed that any request arrives.  `LiveSpec` in
`MCResearchLoop` accepts a request only while enough identities are left for
the requests under way: in the program UUIDs do not run out, in the instance
they would, and a handler waiting for one would look stuck.  `loop_progress`
assumes no faults, because with them the claims are false and documented so
(`docs/backtest-run-persistence.md`: a crash leaves a Run pending or running).
`loop_rivals` has no faults either, so that an error between a Candidate and its
Run does not occur in it; of that step the refinement `ImplementsLifecycle`
is proved with faults (section 5), and `loop_faults` meets the step itself.

`LeanExecution` has weak fairness of each execution's thread: a thread of the
server keeps running, and every call it makes returns or times out.  Nothing is
assumed of a runtime build or of the algorithm in a container, which may go on
for ever.

## 4. Where code and documents disagree

`stale_answer` is the one claim kept as a run that must fail: an answered save
installs its snapshot without consulting the request sequence, so an edit
accepted while the save was in flight is overwritten and the session is marked
clean; in the same way an edit answered after Discard overwrites the Revision
just loaded.

The following were met while modelling.  Those with a configuration can be seen
with `tlc -continue -config <name>.cfg <module>`: TLC finds the property named
beside the configuration violated.

| configuration, module | claim | what the code does |
|---|---|---|
| `DraftedPrograms` (`BranchesNeverEmpty`), `MCProgramAuthoring` | `_remove_program_statement` refuses to leave an incomplete branch (`strategy/v2/authoring.py:798`) | the check cannot fail, since a copied model is not validated again: the answer has an empty branch, and no further request with it can be parsed |
| `DraftedPrograms` (`DraftedSplitResolves`), `MCProgramAuthoring` | a Split may be drafted before its sleeve Selections exist (`strategy/v2/authoring.py:1285`) | the new Selection is appended after the Split that now refers to it, and the validator refuses the answer |
| `ContestedPrograms` (`ImplementsReference`), `MCTemporalRuntime` | "An Event earlier in the Program may therefore affect a later Event and policy at the same boundary" (`docs/composable-semantic-execution.md:23`) | the evaluator counts the session of the first event as within the window, the generated algorithm (`compiler/lean/codegen.py:218`) begins with the next |
| `ContestedPrograms` (`HoldingsFollowPolicy`), `MCTemporalRuntime` | "temporal policy requires a single fixed 100% target" (`strategy/v2/bridge.py:177`) | a policy may name several single assets, and a decision for one is ordered without selling the one held before (`compiler/lean/codegen.py:450`) |
| `ContestedPrograms` (`CheckpointsAreAccepted`), `MCTemporalRuntime` | a run "emits a complete checkpoint after policy evaluation" (`docs/temporal-stateful-execution.md:37`) | an event may remember any temporal value (`strategy/v2/bridge.py:156`), and one that it does not itself compare, such as the completed week, may be unknown when it triggers: the memory stays missing, and `validate_checkpoint` (`compiler/lean/checkpoint.py:221`) refuses every later checkpoint of the run |
| `ConditionsCompared` (`CompleteEvidenceCompares`), `MCDecisionComparison` | two succeeded Runs with complete evidence are comparable (`docs/comparisons.md`) | the order of kinds (`comparisons/service.py:46`) lacks kinds that a v2 strategy logs: the comparison raises |
| `ContestedPlans` (`WholePortfolioInvested`), `MCScheduledRuntime` | "target sleeve weights must sum to 1" (`compiler/lean/lowering.py:378`) | a weighting that feeds two portfolio sleeves is lowered once per sleeve under one id, and the last scale wins (line 285): the check adds both, the algorithm invests one |
| `ContestedPlans` (`PlanIgnoresOrder`), `MCScheduledRuntime` | component order is not part of a strategy's identity (`hashing.py`: `strategy_hash` sorts the components) | the desugaring of a rebalance knows only the cooldowns met before it (`compiler/frontend/desugar.py:404`): with a cooldown that two rebalances draw on, documents of one hash compile to different plans |
| `NamedUniverse` (`UndoRestores`), `MCStructuralAuthoring` | each recipe has an "unambiguous inverse" (`docs/authoring.md:62`) | `_generated_ids` (`strategy/v1/authoring.py:911`) does not look at universes: with a universe named as the asset set a fallback generates, the fallback is added and its removal refused as shared (line 1131) |
| `ContestedPlans` (`CooldownRespected`), `MCScheduledRuntime` | "A signal during cooldown is blocked" (`docs/strategy-ir.md`) | the refresh of a retained sleeve ignores its cooldown |

Seen in the code and, where they concern a modelled step, part of the model:

* Adoption and Candidates: a repeated adoption answers success with a Revision
  that is no longer current (`docs/architecture.md:246`); an error between the
  Candidate and its Run leaves a Candidate without any Run
  (`docs/candidate-change.md:39`).  Reapply keeps the hash of the other
  client's Revision beside the merged source
  (`docs/semantic-engine-builder-unification.md:14`).
* V2 authoring: `RemoveProgramInvestment` does not look at Allocations or below
  the root (`docs/group-subgroup-investment-authoring.md:26`); the cooldown
  template starts with an unresolved statement, which every later answer
  refuses until it is replaced; `SetProgramSplit` after the split recipe is
  refused, since it does not replace that recipe's Allocation.
* V1 authoring: removing a fallback is offered, and refused when a rule names
  it or a universe is over its asset set (`docs/authoring.md:19`); after its
  assets were replaced, the orphaned definition blocks `add_fallback`, which is
  still offered; growth is offered for weightings below 100%; a threshold has
  no effect after its condition was edited, while the capabilities show it;
  a cooldown together with a predicate or with growth is accepted but does not
  compile or print; the number chosen of a universe is not checked, nor is any
  count after a composition; committing branches may leave components nothing
  reaches.
* Compiler and generated algorithm: some documents compile or not depending on
  the order of their components (`docs/canonical-v1.md:59`); a rebalance that
  is skipped by `return` ends the later ones of its event; an asset's exit is
  noticed only by its own rebalance; sessions without a slice are not counted
  by cooldowns; `generate_csharp` raises `ValueError` on plans that compiled
  (random or merged retained sleeves, a cooldown within a sleeve), which the
  execution does not classify; a retained sleeve ignores `choose_all`.
* Evidence and data: the collector refuses kinds and phases that generated code
  emits; the end of a log may be cut off unnoticed; `_plan_source_ids`
  (`backtests/service.py:45`) omits filters and fallbacks; the preflight takes
  every cadence for daily.

## 5. Proofs

Type correctness and the inductive invariants are proved and not run again:
the runs are for the properties that say something about the code.

All proofs are for arbitrary sets of Strategies, Revisions, Candidates,
contents, names, Runs, configurations, threads, calls in flight and gestures.
They assume that NULL is no identity (`NoneAssumption`, `LoopNoneAssumption`,
`CallsNoneAssumption`), which faults exist (`FaultsAssumption`), and, for the
editor, that the opened Strategy is one of the Strategies and that a source is
its two parts (`OpenedAssumption`, `SourcesAssumption`,
`MaxGesturesAssumption`).  The other components name their assumptions below; TLC evaluates them in every run.

*Store.*  `StoreInv` is inductive: `StoreTypeOK`, `LinearHistory`,
`CurrentIsTip`, `LineageWithinStrategy`, and two facts needed to make them
inductive - a Strategy without a row has no Revisions (else `CreateStrategy`
could give an orphan a sibling root), and only existing Strategies are
archived.  The heart of the argument is that an accepted append names the
current Revision, which by `CurrentIsTip` has no child, so that the new
Revision is its only child; `LinearHistory` and `CurrentIsTip` need each other.
`AppendStatus` is used through a lemma that says what "created" implies.
`StoreImplementsHistory` is a step simulation under that invariant.  Its mapping
is a recursive function on Revisions, and TLA+ gives such a function its
equation only where one exists: the invariant (`LinesInv`) says that there is
one, and induction on the length of a line that there is no other
(`LinesUnique`, `LinesChosen`).  A step adds one Revision and changes no other's parent, so
every line that is read before is read again after (`LinesInsert`), and an accepted
append makes its line one longer.
Theorems: `StoreTypeCorrect`, `StoreInvariant`, `HistoryIsLinear`,
`CurrentIsNewest`, `LineageStaysWithinStrategy`, `ArchivedStaysFrozen`,
`StoreImplementsHistory`.

*Loop.*  `LoopInv` adds what a handler in the middle of a request may rely on
(`HandlersConsistent`): the rows it read still exist and say the same, a tested
Candidate stays tested, a comparable one comparable.  It holds because those
rows are permanent (lemma `RowsPermanent`): no step changes a stored Revision's,
Candidate's or Run's inputs, and no step takes a Run out of a terminal status.
`LifecycleNeverRejected` needs that two handlers never hold the same Run.
`SiblingCandidatesExclusive` follows from `AdoptionBacked` (both adopting
Revisions are children of the one base) with `LinearHistory` and
`AdoptionsDistinct`.  `ImplementsStore` and `ImplementsLifecycle` are proved as
step simulations under the invariant.  Theorems: `LoopTypeCorrect`,
`LoopInvariant`, `EvidenceIsExact`, `LifecycleHolds`, `AdoptionsAreBacked`,
`SiblingsAreExclusive`, `AdoptionsAreNeverVacuous`, `ComparisonsAreSound`,
`LoopImplementsStore`, `LoopImplementsLifecycle`.

*Editor.*  `EditorInv` joins the properties of the run to what they rest
on.  `CallsSound` says what a call in flight may rely on: the Revision it names
belongs to the Strategy, a Revision it committed holds what it sent, and a test
sends what it captured; `ConflictSaved` says the same of the conflict banner.
Both survive the steps of others because stored rows never change
(`StoreStepKeeps`).  `UpdatingIsPending` says that an "updating" session always
has a call in flight that will reset it; it holds because the call that
supersedes another is itself pending, and because a superseded `Prepare` that
has gone on to read the conflicting Revision is no longer dropped.  Theorems:
`EditorInvariant`, `EditorTypeCorrect`, `BaseIsAlwaysSaved`, `CleanIsSaved`,
`TestsRunWhatWasShown`, `IdleIsNeverUpdating`.

*Temporal runtime.*  The proofs are for any set of programs and snapshots of
the shapes of `TemporalProgram`, whose references resolve
(`ProgramsAssumption`) and whose assets have a price in every session
(`MarketsAssumption`); `MissingAssumption` says that "no value" is no value.
`RuntimeTypeOK` is inductive, and not obvious: the position in the program is
bounded only because `Proceed` stops at the last action, and cutoffs lie within
the snapshot because a checkpoint's boundary is the session it was logged for.
`HoldingsFollow` assumes that the policy names at most one asset
(`SingleAssetPolicies`; `ContestedPrograms.cfg` shows why).  `HoldingsInv` holds in the
middle of a boundary as well: the target is one the policy names, also in every
logged checkpoint, and the account is empty while a restore is pending and the
target's afterwards; so an order for an asset is never one for a second asset.

`NoMemoryIsLost` is about what a checkpoint may lack.  An event may remember a
value that is unknown when it triggers; the theorem says, of any program, that
this is the only way a memory can be missing from a checkpoint, whatever was
interrupted, imported and replayed.  Three facts make `MemoryInv` inductive.
Knowledge is never lost: a memory, the session of an event and the completed
week, once there, are there ever after (`Advances`).  What a triggered event
compares was known then, since an unknown comparison is false, and is so since
(`Compared`, `Available`).  While no week is complete, every session so far is
of the first week (`FirstWeek`), which is what a missing week says of the past.
In the middle of an event a memory that is missing is either one of an action
still to come (`Ahead`) or was unknown (`Explained`).  Its corollary
`EveryCheckpointAccepted` gives the programs all of whose checkpoints can be
imported: those whose events remember prices, literals and values they compare
(`KnownCaptures`), as all of `strategy/v2/corpus.py` do.

`RuntimeImplementsReference` is the refinement.  It assumes what the two
readings of a program need in order to agree at all: a completed weekly value is
one of the anchor, in a profile that keeps weekly aggregates (`AnchoredWeeks`;
the generated algorithm has one field for it, `compiler/lean/codegen.py:197`);
a transition has two different ends (`MovingTransitions`; of one that has not,
the algorithm notes the session and the evaluator does not,
`strategy/v2/program_execution.py:805`); and, in the session in which a window
opens, the condition it bounds is false for another reason
(`WindowsOpenLater`; `ContestedPrograms.cfg` shows the two disagree otherwise).
The first two are about the constants, the third about the behaviour, since
prices decide it; all three hold of the programs and the snapshots of the
`temporal` run.

The argument goes statement by statement.  `Visited` and `Performed` are shown
to satisfy their own recursion equations (`VisitedSteps`, `PerformedSteps`,
by induction over the number of events or actions, `NaturalSteps`).  `WeekOf`
says that the weekly fields, which the algorithm rolls from bar to bar and
carries in checkpoints, hold what the evaluator finds by searching the snapshot
backwards (`WeekRolls`); with it, values and conditions mean the same on both
sides (`ValueMeans`, `ConditionMeans`).  `InStep` says that at each position of
`visit` and `act` the fields are the evaluator's intermediate result at that
position, and between bars those of a logged checkpoint or of a fresh start;
`LogInv`, that the sessions logged are 1 up to some n without a gap, each the
result of executing it on the one before.  The conjunction, `ReferenceInv`, is
inductive.  `Decide` then appends one result, or, in a replay, logs one that
equals what was logged before and is a stutter; every other step is a stutter.

Theorems: `RuntimeTypeCorrect`, `HoldingsFollow`, `NoMemoryIsLost`,
`RuntimeImplementsReference`.

*Execution.*  For any finite set of executions (`ExecutionsAssumption`), plans
and directories.  `TypeOK` is more than types: it says for each place of the
program counter what an execution has by then (a work directory, a container, a
loaded result).  `ThreadInv` adds that a result is loaded only from the
execution's own container, and `LeftBehindBounded` counts: executions that are
answered and still have a container are no more than the calls that failed,
which is inductive because the step that gives up a container counts one.
`ExecutionKeepsPromise` is a step simulation under that invariant.
`PassingIsRunnable` is about the preflight alone: a directory that passes has
what the plan's run reads, for any directory and plan.  Theorems:
`ExecutionTypeCorrect`, `NoWorkLeftBehind`, `ContainersAreAccountedFor`,
`HostIsLeftClean`, `ExecutionKeepsPromise`, `PassingIsRunnable`.

*Evidence.*  For traces of any length and any map from positions to positions
as the damage done on the way (`TracesAssumption`).  The heart is a lemma
(`CountingIsPrefix`): lines that carry the numbers 1, 2, ... in order, each
taken from a log whose lines are numbered by their position, are a prefix of
it.  For the comparison, an event's key (session, kind, subject, occurrence) is
shown to identify it within its Run, so that the alignment neither drops nor
doubles one: `ComparisonIsExact`.  `FirstDifferenceIsFirst` adds the order: the
rows of a comparison are sorted by session and kind, so that whatever comes
before the first difference is the same in both Runs.  Theorems:
`EvidenceIsPrefix`, `ComparisonIsExact`, `FirstDifferenceIsFirst`.

*Authoring.*  For any groups, asset lists and statements and sessions of any
length, from the recipes' identities being distinct (`RecipeIdentities`) and
their group and list having ids like any other (`BreakoutIdentities`).
`DefinitionsInv` strengthens `DefinitionsResolve` by `ListsUnshared`: no two
groups have one asset list.  Without it, a removal that deletes the list of its
group could take away another's; it holds because groups are only ever added
with a list that is new.

The other properties are about programs.  A program is a tree written down in
program order (`IsTree`: the first statement is at the root, no level is
skipped), and every rewrite by address is a graft: a prefix, a part put in, a
suffix, with the suffix no deeper than where the part stands (`SpliceIsTree`).
`Cut`, `Swap` and `Insert` are grafts (`CutGraft`, `SwapGraft`, `InsertGraft`),
and a graft keeps the parent and the place among its siblings of every
statement it does not touch (`GraftKeepsParent`, `GraftKeepsPlaces`) and leaves
no branch without a statement unless it takes out its last one
(`GraftIsFilled`).  The induction over a tree that these lemmas need is carried
by the numbers of positions, never by the data.

`ProgramInv` is the inductive invariant: a tree with unique ids and outputs,
whose allocations name legs that exist.  It is weaker than the validator's
verdict and has to be, because `_remove_program_statement` answers programs
that are not valid; it is enough for every operation to find at most one
statement at an address or under an id.  From `AuthoringInv`, one lemma per
operation gives each step property: `KeptReferencesResolve` because a removed
group was used nowhere and every other answer was validated;
`UnrelatedOrderKept` because operations are grafts or edits in place; and
`CapitalFollowsItsSelection` because the route from an allocation to the
Selection that feeds it consists of statements the operation moves together or
not at all.  Theorems: `DefinitionsAlwaysResolve`, `ProgramsStaySound`,
`BranchesStayFilled`, `ReferencesAreKept`, `OrderIsKept`, `CapitalIsKept`.

*Compiler.*  `OrderIgnored` is for strategies of any size whose documents list
each component once (`StrategiesAssumption`) and no cooldown of which is drawn
on by two rebalances (`CooldownsUnshared`; `ContestedPlans.cfg` shows why).  Two
facts carry it.  Where a document compiles, each cooldown is observed by exactly
one rebalance, so that of the rebalances behind it that one was listed later,
in the document and in the sorted one: the same operations are derived
(`CooldownsMet`, `ObserversOf`).  A scheduled sleeve listed after its portfolio
contributes through its own operation instead of the derived one; then a leaf of
the merge is one that lowering refuses, so it does not compile at all.  The rest
of lowering does not read the order, which `Unordered` makes explicit in the
model.

`CooldownsRespected` is for any calendar, any slices and strategies of any size
that satisfy `GatedAlone`: the assets of a cooldown are offered to the branches
of a plan through the gate of that cooldown only, and none of them by a retained
sleeve, since a refresh consults no gate (`ContestedPlans.cfg` shows what happens
otherwise).  Every strategy of the `scheduled` run satisfies it
(`MCStrategiesAssumption`, which TLC evaluates).  The inductive invariant
`CooldownInv` says that an exit bears the index of a session already counted and
that what a snapshot retains was offered by its sleeve.  It does not suffice
within a slice, on which several events and rebalances follow each other before
a step is over; there `Steady` relates each intermediate state to the one the
slice found: an exit is the one found or that of the present session, and an
asset bought since had rested when the slice began.  An exit of the present
session passes no gate unless the cooldown requires 0 sessions, which is why it
can be dated again without letting an asset back early.  That no number is
`None` is `NoSessionAssumption`.

*V1 authoring.*  The proofs are for sessions of any length from any loaded and
valid documents (`StartsAssumption`), over any requests and batches of the six
kinds of mutation (`BatchesAssumption`, `NoIdAssumption`).  `StructuralTypeOK`
is inductive with what loading makes sure of, that a component has the fields of
its primitive and refers to a definition only where its primitive does
(`Standing`).  No check of the service looks at the list of components: the
theorem says that generated ids are never in use (of the ids tried in
`_generated_id` one more than there are components, one is free), that an
insertion lists the new component once and a removal takes it out.
`RecipesUndone` then goes recipe by recipe: around a new id there are exactly
the wires the recipe made, so that the removal finds the one slot it looks for
and its result is the strategy before, order and definitions included.  For a
fallback this needs that no other component names the new definition.  Of
components and asset sets that is checked by `_generated_ids`; of universes it
is not, which is the hypothesis `UniversesApart` (no universe of a start bears
an id that is generated for a fallback's assets; `NamedUniverse.cfg` shows the
property fails without it).  Theorems: `StructuralTypeCorrect`, `RecipesUndone`.

*Only model-checked.*  `WholePortfolioInvested` and the refinement
`ImplementsReference` of the `scheduled` run, whose folds over lowered leaves and
sums over sets of assets are inductions over data; `OffersAreAccepted` and `RecipesStayExecutable`, which take every operation
through the whole validation and compilation (the latter of documents that
choose no more than a universe has and keep a cooldown apart from rules and
portfolios: what a client can otherwise ask for with accepted requests, and the
compiler refuses); `StaleAnswersReplaceNothing`,
which is false; and the liveness properties `RunsFinish`,
`CandidatesAreTested` and `EveryRequestIsAnswered`, which rest on fairness and
ENABLED.

## 6. Plan

Done, each with its runs: the store and the research loop; the Builder session;
temporal programs; v2 authoring; v1 authoring, compiler and generated
algorithm; execution with its preflight; evidence and its comparison.  Left, in
order of importance:

1. Proofs: `WholePortfolioInvested` for strategies without a shared weighting
   whose shares divide without remainder, and `OffersAreAccepted`.
2. Portfolio targets over a Selection in temporal programs (the composable
   profile), sessions without a bar of some asset, a resume that skips sessions,
   weekly values that are only remembered or belong to another asset than the
   anchor.
3. `RevisionMerge`: `builderRevisionConflict.ts` as an operator on small trees
   against a reference three-way merge.
4. An abstract specification of the editor ("every accepted edit is in the
   working source, saved, undone or discarded"), stated for saves with no edit
   in flight, since `stale_answer` shows it false as it stands.
5. Daily value expressions (`daily_values.py`) against a reference evaluation;
   weighting by score; warm-up history.

## 7. Not modelled, and why

Of the Builder: the content of drafts in browser storage (only whether one is
unfinished), the latest-Run panel and the capability badge, which the session's
state does not depend on.  An undo that restores only one of several differing
groups is modelled as restoring the definitions, the program or both.

The first editor and its research dock (`StrategyEditor.tsx`,
`useStructuralAuthoring.ts`, `workbenchResearch.ts`): an older session of the
same kind as the Builder's.

Projections and perspectives of `strategy/v2` and the views of the frontend:
layout and wording.  Asset workspace: read-only I/O.  Hashing: the identity of
sources stands for it.  The legacy core and CLI: sequential, no shared state.
Scripts, spikes and corpora: tooling and data.

Numbers: returns, volatilities and random draws are inputs of the models (a
score, a choice), so the arithmetic of `momentum.py`, `temporal.py`,
`randomness.py` and of the generated indicators is not checked.
