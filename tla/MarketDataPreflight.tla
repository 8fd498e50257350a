------------------------ MODULE MarketDataPreflight ------------------------
(***************************************************************************)
(* MarketDataService: what a plan needs of the local LEAN data directory,  *)
(* and what an inspection of the directory says of it.                     *)
(*                                                                         *)
(* A date is a natural number.  The directory is None (not configured or   *)
(* missing) or gives each symbol its files: the daily archive (None when   *)
(* absent, Corrupt when it cannot be read, else the set of dates it has    *)
(* rows for) and whether the map and the factor file are there.            *)
(* A value expression is abstracted to the observation counts of the nodes *)
(* that read history, the nested ones included.                            *)
(***************************************************************************)
EXTENDS Naturals, FiniteSets, FiniteSetsExt

CONSTANTS
  None, Corrupt,
  Symbols,
  StartDate, EndDate   \* BacktestConfig: the visible period

ASSUME PeriodAssumption ==
  StartDate \in Nat /\ EndDate \in Nat /\ StartDate <= EndDate

(* The count of completed observations one value, comparison or lookback    *)
(* asks for: the largest of its nodes, 0 for a literal.                     *)
ValueWarmup(value) == Max(value \cup {0})

(* Per subscribed symbol, the most any selection over it, any predicate on  *)
(* it or any condition that names it asks for.  A plan is [subscriptions,   *)
(* selections, predicates, conditions]; a reader is [symbols, lookback,     *)
(* values].                                                                 *)
Readers(plan) == plan.selections \cup plan.predicates \cup plan.conditions

PlanRequirement(plan) ==
  [s \in plan.subscriptions |->
     Max({0} \cup UNION {{reader.lookback} \cup {ValueWarmup(v) : v \in reader.values} :
                           reader \in {r \in Readers(plan) : s \in r.symbols}})]

-----------------------------------------------------------------------------
(* One symbol of the directory *)

InspectCacheFiles(files) ==
  CASE files.daily = None -> "no_data"
    [] files.daily = Corrupt -> "corrupt_cache"
    [] files.daily = {} -> "no_data"
    [] ~(files.map /\ files.factor) -> "security_master_missing"
    [] OTHER -> "available"

InspectSymbol(files, warmup) ==
  CASE files.daily = None -> "no_data"
    [] ~(files.map /\ files.factor) -> "security_master_missing"
    [] InspectCacheFiles(files) # "available" -> InspectCacheFiles(files)
    [] Cardinality({d \in files.daily : d < StartDate}) < warmup -> "insufficient_history"
    [] Max(files.daily) < EndDate \/ files.daily \cap StartDate..EndDate = {} ->
         "requested_period_unavailable"
    [] OTHER -> "available"

(* A BacktestConfig names one of four data sets: three are the fixtures     *)
(* (FIXTURE_DATASETS), which have every symbol, the fourth is the local     *)
(* directory; without a directory no symbol is there.  The two other data   *)
(* sets that DockerLeanRunner.run knows, temporal-synthetic and             *)
(* multiclock-synthetic, the preflight would judge by the local directory,  *)
(* but no BacktestConfig can name them.                                     *)
Preflight(plan, local, directory) ==
  LET requirement == PlanRequirement(plan) IN
    [s \in plan.subscriptions |->
       IF ~local THEN "available"
       ELSE IF directory = None THEN "provider_unavailable"
       ELSE InspectSymbol(directory[s], requirement[s])]

Overall(reasons) ==
  LET available == {s \in DOMAIN reasons : reasons[s] = "available"} IN
    IF available = DOMAIN reasons THEN "available"
    ELSE IF available = {} THEN "unavailable" ELSE "partial"

-----------------------------------------------------------------------------
(* What a plan can be run on: for every read of a symbol's history enough   *)
(* rows before the period, rows up to its end, and the Security Master.     *)
Runnable(plan, directory) ==
  /\ directory # None
  /\ \A s \in plan.subscriptions :
       /\ directory[s].map /\ directory[s].factor
       /\ directory[s].daily \notin {None, Corrupt}
       /\ \E d \in directory[s].daily : d >= EndDate
       /\ \E d \in directory[s].daily : StartDate <= d /\ d <= EndDate
       /\ \A reader \in Readers(plan) : s \in reader.symbols =>
            \A n \in {reader.lookback} \cup UNION reader.values :
              Cardinality({d \in directory[s].daily : d < StartDate}) >= n

=============================================================================
