--------------------------- MODULE StrategyStore ---------------------------
(***************************************************************************)
(* The persisted Strategy aggregate of RuleTrade: the SQLite tables        *)
(* strategies, strategy_revisions and candidate_adoptions, and the         *)
(* transactions StrategyService runs over them                             *)
(* (src/src/ruletrade/strategies/service.py on top of                      *)
(* src/src/ruletrade/persistence/sqlite_strategies.py).                    *)
(*                                                                         *)
(* Every write is one BEGIN IMMEDIATE transaction (or one UPDATE), so an   *)
(* action is one committed transaction.  Its arguments are whatever some   *)
(* client sent, however stale: concurrency between clients is the free     *)
(* choice of `expected', the Revision the client believes to be current.   *)
(*                                                                         *)
(* A row that does not exist has None in its defining column (current for  *)
(* a Strategy, owner for a Revision, adoption for a Candidate).            *)
(***************************************************************************)

CONSTANTS
  Strategies,  \* Strategy identities (UUIDs)
  Revisions,   \* Revision identities (UUIDs); each is drawn once
  Candidates,  \* Candidate identities (UUIDs)
  Contents,    \* serialized Canonical source snapshots
  Names,       \* user-facing Strategy names
  None         \* SQL NULL, and the mark of an absent row

ASSUME NoneAssumption ==
  None \notin Strategies \cup Revisions \cup Candidates \cup Contents \cup Names

VARIABLES
  name,      \* strategies.name
  current,   \* strategies.current_revision_id
  archived,  \* strategies.archived_at is not NULL
  owner,     \* strategy_revisions.strategy_id
  parent,    \* strategy_revisions.parent_revision_id
  content,   \* strategy_revisions.canonical_json
  adoption   \* candidate_adoptions.revision_id, by candidate_id

storeVars == <<name, current, archived, owner, parent, content, adoption>>

-----------------------------------------------------------------------------

StrategyExists(s) == current[s] # None

Stored(r) == owner[r] # None

RevisionsOf(s) == {r \in Revisions : owner[r] = s}

StoreTypeOK ==
  /\ name \in [Strategies -> Names \cup {None}]
  /\ current \in [Strategies -> Revisions \cup {None}]
  /\ archived \in [Strategies -> BOOLEAN]
  /\ owner \in [Revisions -> Strategies \cup {None}]
  /\ parent \in [Revisions -> Revisions \cup {None}]
  /\ content \in [Revisions -> Contents \cup {None}]
  /\ adoption \in [Candidates -> Revisions \cup {None}]

(* A fresh database: every table is empty. *)
StoreInit ==
  /\ name = [s \in Strategies |-> None]
  /\ current = [s \in Strategies |-> None]
  /\ archived = [s \in Strategies |-> FALSE]
  /\ owner = [r \in Revisions |-> None]
  /\ parent = [r \in Revisions |-> None]
  /\ content = [r \in Revisions |-> None]
  /\ adoption = [c \in Candidates |-> None]

(* INSERT INTO strategy_revisions: the id is a new UUID, the row is never *)
(* updated afterwards (triggers reject it).                               *)
InsertRevision(r, s, p, k) ==
  /\ ~Stored(r)
  /\ owner' = [owner EXCEPT ![r] = s]
  /\ parent' = [parent EXCEPT ![r] = p]
  /\ content' = [content EXCEPT ![r] = k]

(* POST /v1/strategies: the Strategy and its first Revision in one commit. *)
CreateStrategy(s, n, r, k) ==
  /\ ~StrategyExists(s)
  /\ InsertRevision(r, s, None, k)
  /\ name' = [name EXCEPT ![s] = n]
  /\ current' = [current EXCEPT ![s] = r]
  /\ UNCHANGED <<archived, adoption>>

(* Mutant: the expected parent is not compared with the current Revision. *)
AppendStatusUnconditional(s, expected, k) ==
  IF ~StrategyExists(s) THEN "not_found"
  ELSE IF archived[s] THEN "archived"
  ELSE IF content[current[s]] = k THEN "identical"
  ELSE "created"

(* Mutant: archived_at is not looked at inside the transaction. *)
AppendStatusIgnoringArchive(s, expected, k) ==
  IF ~StrategyExists(s) THEN "not_found"
  ELSE IF current[s] # expected THEN "stale"
  ELSE IF content[current[s]] = k THEN "identical"
  ELSE "created"

(* What the append transaction answers, in the order its checks run. *)
AppendStatus(s, expected, k) ==
  IF ~StrategyExists(s) THEN "not_found"
  ELSE IF archived[s] THEN "archived"
  ELSE IF current[s] # expected THEN "stale"
  ELSE IF content[current[s]] = k THEN "identical"
  ELSE "created"

(* Mutant: the UPDATE of the current pointer is missing. *)
AppendRevisionPointerKept(s, expected, r, k) ==
  /\ AppendStatus(s, expected, k) = "created"
  /\ InsertRevision(r, s, expected, k)
  /\ UNCHANGED current

(* The write both append transactions share: insert the child of the       *)
(* Revision the client expected, and move the current pointer to it.       *)
(* Every other status rolls back and changes nothing.                      *)
AppendRevision(s, expected, r, k) ==
  /\ AppendStatus(s, expected, k) = "created"
  /\ InsertRevision(r, s, expected, k)
  /\ current' = [current EXCEPT ![s] = r]

(* POST /v1/strategies/{id}/revisions *)
SaveRevision(s, expected, r, k) ==
  /\ AppendRevision(s, expected, r, k)
  /\ UNCHANGED <<name, archived, adoption>>

(* POST /v1/candidates/{id}/adopt, the transaction: a Candidate that was    *)
(* adopted before answers with the recorded Revision and writes nothing.    *)
AdoptCandidate(c, s, expected, r, k) ==
  /\ adoption[c] = None
  /\ AppendRevision(s, expected, r, k)
  /\ adoption' = [adoption EXCEPT ![c] = r]
  /\ UNCHANGED <<name, archived>>

(* Mutant: UPDATE without "archived_at IS NULL". *)
RenameStrategyUnguarded(s, n) ==
  /\ StrategyExists(s)
  /\ name' = [name EXCEPT ![s] = n]
  /\ UNCHANGED <<current, archived, owner, parent, content, adoption>>

(* PATCH /v1/strategies/{id}: UPDATE ... WHERE archived_at IS NULL *)
RenameStrategy(s, n) ==
  /\ StrategyExists(s)
  /\ ~archived[s]
  /\ name' = [name EXCEPT ![s] = n]
  /\ UNCHANGED <<current, archived, owner, parent, content, adoption>>

(* DELETE /v1/strategies/{id}: archives; no row is ever deleted. *)
ArchiveStrategy(s) ==
  /\ StrategyExists(s)
  /\ ~archived[s]
  /\ archived' = [archived EXCEPT ![s] = TRUE]
  /\ UNCHANGED <<name, current, owner, parent, content, adoption>>

StoreNext ==
  \/ \E s \in Strategies, n \in Names, r \in Revisions, k \in Contents :
       CreateStrategy(s, n, r, k)
  \/ \E s \in Strategies, expected, r \in Revisions, k \in Contents :
       SaveRevision(s, expected, r, k)
  \/ \E c \in Candidates, s \in Strategies, expected, r \in Revisions, k \in Contents :
       AdoptCandidate(c, s, expected, r, k)
  \/ \E s \in Strategies, n \in Names : RenameStrategy(s, n)
  \/ \E s \in Strategies : ArchiveStrategy(s)

StoreSpec == StoreInit /\ [][StoreNext]_storeVars

-----------------------------------------------------------------------------

(* However many clients save or adopt from the same opened Revision, the    *)
(* Revisions of one Strategy form one line: one root, and no Revision has   *)
(* two children.  This is the expected-parent check of append_revision and  *)
(* append_candidate_revision at work.                                       *)
LinearHistory ==
  \A r1, r2 \in Revisions :
    (/\ Stored(r1) /\ Stored(r2)
     /\ owner[r1] = owner[r2]
     /\ parent[r1] = parent[r2])
    => r1 = r2

(* strategies.current_revision_id always names a Revision of that very      *)
(* Strategy, and the newest one: nothing was ever saved on top of it.       *)
CurrentIsTip ==
  \A s \in Strategies :
    StrategyExists(s) =>
      /\ owner[current[s]] = s
      /\ \A r \in Revisions : Stored(r) => parent[r] # current[s]

(* The parent named by a Revision is a saved Revision of the same Strategy,  *)
(* although `expected' comes from the client and could name anything: what   *)
(* reaches the row passed the comparison with the current pointer.           *)
LineageWithinStrategy ==
  \A r \in Revisions :
    parent[r] # None => Stored(r) /\ Stored(parent[r]) /\ owner[parent[r]] = owner[r]

(* The first Revision of a Strategy is its creation. *)
NoRevisionBeforeStrategy ==
  \A s \in Strategies : ~StrategyExists(s) => RevisionsOf(s) = {}

(* Only a Strategy that exists is archived. *)
ArchivedExists == \A s \in Strategies : archived[s] => StrategyExists(s)

(* The inductive invariant of the store. *)
StoreInv ==
  /\ StoreTypeOK
  /\ LinearHistory
  /\ CurrentIsTip
  /\ LineageWithinStrategy
  /\ NoRevisionBeforeStrategy
  /\ ArchivedExists

(* Once archived, a Strategy keeps its name, its current Revision and its   *)
(* set of Revisions for ever, whatever requests were already on their way.  *)
ArchivedIsFrozen ==
  [][\A s \in Strategies :
       archived[s] =>
         /\ archived'[s]
         /\ name'[s] = name[s]
         /\ current'[s] = current[s]
         /\ RevisionsOf(s)' = RevisionsOf(s)]_storeVars

=============================================================================
