--------------------------- MODULE V2EditorSession ---------------------------
(***************************************************************************)
(* One Builder session on a persisted V2 Strategy                          *)
(* (src/frontend/src/components/V2StrategyEditor.tsx), with the store      *)
(* behind it and the other clients that save to the same Strategy.         *)
(*                                                                         *)
(* A gesture starts an asynchronous call, which works on the values its    *)
(* closure captured when the gesture was made and answers whenever it      *)
(* likes.  Edits, undo, redo and the preparation of a test number their    *)
(* requests, and an answer whose number is no longer the latest is         *)
(* dropped; saves, tests and reloads do not take part in that numbering.   *)
(* The number itself is not modelled: `newest' tells whether it is still   *)
(* the latest one.                                                         *)
(*                                                                         *)
(* A Canonical source has two parts here, the definitions and the program, *)
(* because undo and the merge of two Revisions treat them separately.  A   *)
(* source hash is the source it is the hash of.                            *)
(***************************************************************************)
EXTENDS StrategyStore, Sequences, SequencesExt

CONSTANTS
  Opened,      \* persisted.strategy.id
  Definitions, \* what canonical.definitions may hold
  Programs,    \* what canonical.program may hold
  Slots,       \* calls that may be in flight together
  MaxGestures  \* bound on the user's gestures

Sources == [definitions : Definitions, program : Programs]

ASSUME OpenedAssumption == Opened \in Strategies
ASSUME SourcesAssumption == Contents = Sources
ASSUME MaxGesturesAssumption == MaxGestures \in Nat

VARIABLES
  working,       \* canonical: the source the views show
  base,          \* baseCanonical
  baseRevision,  \* revisionId
  hashOf,        \* the source that sourceHash is the hash of
  dirty,
  status,
  undoStack,
  redoStack,
  conflict,      \* None, or the Revision found and its merge with the work
  drafting,      \* an unfinished draft blocks Save and Test
  calls,         \* calls in flight
  gestures       \* gestures made so far

shown == <<working, base, baseRevision, hashOf, dirty, undoStack, redoStack>>
editorVars == <<storeVars, shown, status, conflict, drafting, calls, gestures>>

Sequenced == {"edit", "undo", "redo", "prepare"}
Kinds == Sequenced \cup {"save", "test", "refresh"}
Phases ==
  {"authoring",  \* POST of an authoring operation
   "checking",   \* execution capability of the captured source
   "saving",     \* POST of a Revision, not yet committed
   "saved",      \* committed or identical, the answer is under way
   "loading",    \* GET of the Strategy, not yet read
   "loaded",     \* read, the answer is under way
   "running"}    \* POST of a Backtest Run

Call == [kind     : Kinds,
         phase    : Phases,
         newest   : BOOLEAN,
         from     : Contents,             \* captured canonical
         hash     : Contents,             \* captured sourceHash
         base     : Contents,             \* captured baseCanonical
         revision : Revisions,            \* captured revisionId, or the answer
         dirty    : BOOLEAN,              \* captured dirty
         to       : Contents \cup {None}] \* what the operation makes of `from'

ASSUME CallsNoneAssumption == None \notin Call

EditorTypeOK ==
  /\ StoreTypeOK
  /\ working \in Contents /\ base \in Contents /\ hashOf \in Contents
  /\ baseRevision \in Revisions
  /\ dirty \in BOOLEAN
  /\ drafting \in BOOLEAN
  /\ status \in {"saved", "updating", "invalid", "unfinished"}
  /\ undoStack \in Seq(Contents)
  /\ redoStack \in Seq(Contents)
  /\ conflict \in [revision : Revisions, merged : Contents \cup {None}] \cup {None}
  /\ calls \in [Slots -> Call \cup {None}]
  /\ gestures \in 0..MaxGestures

(* The session opens a Strategy with one Revision. *)
EditorInit ==
  \E r \in Revisions, k \in Contents, n \in Names :
    /\ name = [s \in Strategies |-> IF s = Opened THEN n ELSE None]
    /\ current = [s \in Strategies |-> IF s = Opened THEN r ELSE None]
    /\ archived = [s \in Strategies |-> FALSE]
    /\ owner = [q \in Revisions |-> IF q = r THEN Opened ELSE None]
    /\ parent = [q \in Revisions |-> None]
    /\ content = [q \in Revisions |-> IF q = r THEN k ELSE None]
    /\ adoption = [c \in Candidates |-> None]
    /\ working = k /\ base = k /\ hashOf = k
    /\ baseRevision = r
    /\ dirty = FALSE
    /\ status = "saved"
    /\ undoStack = <<>> /\ redoStack = <<>>
    /\ conflict = None
    /\ drafting = FALSE
    /\ calls = [c \in Slots |-> None]
    /\ gestures = 0

-----------------------------------------------------------------------------
(* Merging two Revisions *)

(* mergeValue on one part: the side that changed it wins; both changing it  *)
(* to different values is a conflict.                                       *)
MergeValue(ancestor, local, remote) == IF local = ancestor THEN remote ELSE local

Conflicting(ancestor, local, remote) ==
  local # ancestor /\ remote # ancestor /\ local # remote

Merge(ancestor, local, remote) ==
  IF \/ Conflicting(ancestor.definitions, local.definitions, remote.definitions)
     \/ Conflicting(ancestor.program, local.program, remote.program)
  THEN None
  ELSE [definitions |-> MergeValue(ancestor.definitions, local.definitions, remote.definitions),
        program     |-> MergeValue(ancestor.program, local.program, remote.program)]

-----------------------------------------------------------------------------
(* Calls *)

InFlight(c, phase) == calls[c] # None /\ calls[c].phase = phase

Gesture == gestures < MaxGestures /\ gestures' = gestures + 1

(* A call with the closure of the current render. *)
NewCall(kind, phase, to) ==
  [kind |-> kind, phase |-> phase, newest |-> TRUE, from |-> working, hash |-> hashOf,
   base |-> base, revision |-> baseRevision, dirty |-> dirty, to |-> to]

Begin(c, call) ==
  /\ calls[c] = None
  /\ calls' = [calls EXCEPT ![c] = call]

(* request = ++sequence.current *)
BeginSequenced(c, call) ==
  /\ calls[c] = None
  /\ calls' = [d \in Slots |-> IF d = c THEN call
                               ELSE IF calls[d] = None THEN None
                               ELSE [calls[d] EXCEPT !.newest = FALSE]]

Continue(c, phase, r) ==
  calls' = [calls EXCEPT ![c].phase = phase, ![c].revision = r]

End(c) == calls' = [calls EXCEPT ![c] = None]

(* The request number of the call is not the latest: its answer or its      *)
(* error is dropped.                                                        *)
Superseded(c) == calls[c].kind \in Sequenced /\ ~calls[c].newest

Edits == Contents \ {working}

(* historyOperation: undo and redo send one operation.  Where the           *)
(* definitions differ it may restore an asset set, or an investment and the  *)
(* program with it, or (for a renamed group) the program only; else it       *)
(* restores the program.                                                     *)
Restorations(target) ==
  IF target.definitions = working.definitions THEN {target}
  ELSE {target,
        [working EXCEPT !.definitions = target.definitions],
        [working EXCEPT !.program = target.program]}

-----------------------------------------------------------------------------
(* Gestures *)

Author(c, kind, to) ==
  /\ Gesture
  /\ BeginSequenced(c, NewCall(kind, "authoring", to))
  /\ status' = "updating"
  /\ UNCHANGED <<storeVars, shown, conflict, drafting>>

Edit(c) == \E to \in Edits : Author(c, "edit", to)

Undo(c) ==
  /\ undoStack # <<>>
  /\ \E to \in Restorations(Last(undoStack)) : Author(c, "undo", to)

Redo(c) ==
  /\ redoStack # <<>>
  /\ \E to \in Restorations(Last(redoStack)) : Author(c, "redo", to)

(* prepareBlockyTest: the visible graph becomes the source, is saved, and   *)
(* the test panel opens.                                                    *)
Prepare(c) ==
  /\ status = "saved" /\ ~drafting
  /\ \E to \in Edits : Author(c, "prepare", to)

Save(c) ==
  /\ dirty /\ ~drafting /\ status = "saved"
  /\ Gesture
  /\ Begin(c, NewCall("save", "saving", working))
  /\ status' = "updating"
  /\ UNCHANGED <<storeVars, shown, conflict, drafting>>

(* The Run button of the test panel: the preflight comes first. *)
Test(c) ==
  /\ status = "saved"
  /\ Gesture
  /\ Begin(c, NewCall("test", "checking", working))
  /\ UNCHANGED <<storeVars, shown, status, conflict, drafting>>

(* working(unfinished), called by the views as drafts begin and end. *)
SetDraft(unfinished) ==
  /\ Gesture
  /\ drafting' = unfinished
  /\ status' = IF unfinished THEN "unfinished" ELSE "saved"
  /\ UNCHANGED <<storeVars, shown, conflict, calls>>

RefreshConflict(c) ==
  /\ conflict # None
  /\ Gesture
  /\ Begin(c, NewCall("refresh", "loading", None))
  /\ UNCHANGED <<storeVars, shown, status, conflict, drafting>>

(* Mutant: setRevisionId is missing. *)
ReapplyConflictOldRevision ==
  /\ conflict # None /\ conflict.merged # None
  /\ Gesture
  /\ working' = conflict.merged
  /\ base' = content[conflict.revision]
  /\ hashOf' = content[conflict.revision]
  /\ dirty' = TRUE
  /\ status' = "saved"
  /\ conflict' = None
  /\ UNCHANGED <<storeVars, baseRevision, undoStack, redoStack, drafting, calls>>

ReapplyConflict ==
  /\ conflict # None /\ conflict.merged # None
  /\ Gesture
  /\ working' = conflict.merged
  /\ base' = content[conflict.revision]
  /\ baseRevision' = conflict.revision
  /\ hashOf' = content[conflict.revision]
  /\ dirty' = TRUE
  /\ status' = "saved"
  /\ conflict' = None
  /\ UNCHANGED <<storeVars, undoStack, redoStack, drafting, calls>>

DiscardConflict ==
  /\ conflict # None
  /\ Gesture
  /\ working' = content[conflict.revision]
  /\ base' = content[conflict.revision]
  /\ baseRevision' = conflict.revision
  /\ hashOf' = content[conflict.revision]
  /\ undoStack' = <<>> /\ redoStack' = <<>>
  /\ dirty' = FALSE
  /\ status' = "saved"
  /\ conflict' = None
  /\ UNCHANGED <<storeVars, drafting, calls>>

-----------------------------------------------------------------------------
(* Answers *)

(* The authoring service accepts an operation sent with the hash of the     *)
(* source it is sent with.                                                  *)
AuthoringAccepted(c) ==
  InFlight(c, "authoring") /\ calls[c].hash = calls[c].from /\ ~Superseded(c)

(* Mutant: undoing the last operation on the stack makes the session clean. *)
EditAnsweredUndoneIsClean(c) ==
  /\ AuthoringAccepted(c) /\ calls[c].kind # "prepare"
  /\ working' = calls[c].to
  /\ hashOf' = calls[c].to
  /\ dirty' = (calls[c].kind # "undo" \/ Len(undoStack) > 1)
  /\ undoStack' = IF calls[c].kind = "undo" THEN Front(undoStack)
                   ELSE Append(undoStack, calls[c].from)
  /\ redoStack' = IF calls[c].kind = "undo" THEN Append(redoStack, calls[c].from) ELSE <<>>
  /\ status' = "saved"
  /\ End(c)
  /\ UNCHANGED <<storeVars, base, baseRevision, conflict, drafting, gestures>>

EditAnswered(c) ==
  /\ AuthoringAccepted(c) /\ calls[c].kind # "prepare"
  /\ working' = calls[c].to
  /\ hashOf' = calls[c].to
  /\ dirty' = TRUE
  /\ \/ /\ calls[c].kind = "edit"
        /\ undoStack' = Append(undoStack, calls[c].from)
        /\ redoStack' = <<>>
     \/ /\ calls[c].kind = "undo"
        /\ undoStack' = Front(undoStack)
        /\ redoStack' = Append(redoStack, calls[c].from)
     \/ /\ calls[c].kind = "redo"
        /\ undoStack' = Append(undoStack, calls[c].from)
        /\ redoStack' = Front(redoStack)
  /\ status' = "saved"
  /\ End(c)
  /\ UNCHANGED <<storeVars, base, baseRevision, conflict, drafting, gestures>>

PreparedSaves(c) ==
  /\ AuthoringAccepted(c) /\ calls[c].kind = "prepare"
  /\ Continue(c, "saving", calls[c].revision)
  /\ UNCHANGED <<storeVars, shown, status, conflict, drafting, gestures>>

(* Mutant: the test runs the opened Revision without saving the changes. *)
CheckPassedUnsaved(c) ==
  /\ InFlight(c, "checking")
  /\ Continue(c, "running", calls[c].revision)
  /\ status' = "updating"
  /\ UNCHANGED <<storeVars, shown, conflict, drafting, gestures>>

(* The capability check found the captured source executable. *)
CheckPassed(c) ==
  /\ InFlight(c, "checking")
  /\ Continue(c, IF calls[c].dirty THEN "saving" ELSE "running", calls[c].revision)
  /\ status' = "updating"
  /\ UNCHANGED <<storeVars, shown, conflict, drafting, gestures>>

(* The server commits the Revision. *)
CommitSave(c, r) ==
  /\ InFlight(c, "saving")
  /\ SaveRevision(Opened, calls[c].revision, r, calls[c].to)
  /\ Continue(c, "saved", r)
  /\ UNCHANGED <<shown, status, conflict, drafting, gestures>>

(* Nothing to commit: the source is the current Revision's already, and the *)
(* answer names that Revision, as a success.                                *)
SaveIdentical(c) ==
  /\ InFlight(c, "saving")
  /\ AppendStatus(Opened, calls[c].revision, calls[c].to) = "identical"
  /\ Continue(c, "saved", current[Opened])
  /\ UNCHANGED <<storeVars, shown, status, conflict, drafting, gestures>>

SaveAnswered(c) ==
  /\ InFlight(c, "saved") /\ ~Superseded(c)
  /\ working' = content[calls[c].revision]
  /\ base' = content[calls[c].revision]
  /\ baseRevision' = calls[c].revision
  /\ hashOf' = content[calls[c].revision]
  /\ dirty' = FALSE
  /\ IF calls[c].kind = "prepare"
     THEN undoStack' = Append(undoStack, calls[c].from) /\ redoStack' = <<>>
     ELSE UNCHANGED <<undoStack, redoStack>>
  /\ status' = "saved"
  /\ IF calls[c].kind = "test" THEN Continue(c, "running", calls[c].revision) ELSE End(c)
  /\ UNCHANGED <<storeVars, conflict, drafting, gestures>>

(* The server refused the Revision as stale: the client asks for the        *)
(* Revision that is current now.  Once stale, a save stays stale.           *)
StaleAnswered(c) ==
  /\ InFlight(c, "saving") /\ ~Superseded(c)
  /\ AppendStatus(Opened, calls[c].revision, calls[c].to) = "stale"
  /\ Continue(c, "loading", calls[c].revision)
  /\ UNCHANGED <<storeVars, shown, status, conflict, drafting, gestures>>

ReadCurrent(c) ==
  /\ InFlight(c, "loading")
  /\ Continue(c, "loaded", current[Opened])
  /\ UNCHANGED <<storeVars, shown, status, conflict, drafting, gestures>>

ConflictFound(c) ==
  /\ InFlight(c, "loaded")
  /\ conflict' = [revision |-> calls[c].revision,
                  merged   |-> Merge(calls[c].base, calls[c].from, content[calls[c].revision])]
  /\ status' = IF calls[c].kind = "refresh" THEN status ELSE "invalid"
  /\ End(c)
  /\ UNCHANGED <<storeVars, shown, drafting, gestures>>

(* The Run was created or refused, or the source is not executable. *)
TestEnds(c) ==
  /\ InFlight(c, "checking") \/ InFlight(c, "running")
  /\ status' = "saved"
  /\ End(c)
  /\ UNCHANGED <<storeVars, shown, conflict, drafting, gestures>>

(* An answer or an error of a superseded request. *)
AnswerDropped(c) ==
  /\ calls[c] # None /\ Superseded(c)
  /\ calls[c].phase \in {"authoring", "saving", "saved"}
  /\ End(c)
  /\ UNCHANGED <<storeVars, shown, status, conflict, drafting, gestures>>

(* Mutant: a failed save leaves the status alone. *)
CallFailsSilently(c) ==
  /\ calls[c] # None
  /\ calls[c].phase \in {"authoring", "saving", "saved"} => ~Superseded(c)
  /\ calls[c].phase \notin {"checking", "running"}
  /\ status' = IF calls[c].kind = "refresh" \/ calls[c].phase = "saving" THEN status ELSE "invalid"
  /\ End(c)
  /\ UNCHANGED <<storeVars, shown, conflict, drafting, gestures>>

(* A refusal, a network error or an answer that is lost.  A reload asked    *)
(* for in the conflict banner fails without a trace.                        *)
CallFails(c) ==
  /\ calls[c] # None
  /\ calls[c].phase \in {"authoring", "saving", "saved"} => ~Superseded(c)
  /\ calls[c].phase \notin {"checking", "running"}
  /\ status' = IF calls[c].kind = "refresh" THEN status ELSE "invalid"
  /\ End(c)
  /\ UNCHANGED <<storeVars, shown, conflict, drafting, gestures>>

(* Another client saves on top of the current Revision.  (Archiving or      *)
(* renaming the Strategy shows the session nothing but a refused save,      *)
(* which CallFails allows at any time.)                                     *)
OtherClientSaves ==
  /\ \E r \in Revisions, k \in Contents : SaveRevision(Opened, current[Opened], r, k)
  /\ UNCHANGED <<shown, status, conflict, drafting, calls, gestures>>

UserGesture ==
  \/ \E c \in Slots :
       Edit(c) \/ Undo(c) \/ Redo(c) \/ Prepare(c) \/ Save(c) \/ Test(c) \/ RefreshConflict(c)
  \/ \E unfinished \in BOOLEAN : SetDraft(unfinished)
  \/ ReapplyConflict
  \/ DiscardConflict

Answer(c) ==
  \/ EditAnswered(c)
  \/ PreparedSaves(c)
  \/ CheckPassed(c)
  \/ \E r \in Revisions : CommitSave(c, r)
  \/ SaveIdentical(c)
  \/ SaveAnswered(c)
  \/ StaleAnswered(c)
  \/ ReadCurrent(c)
  \/ ConflictFound(c)
  \/ TestEnds(c)
  \/ AnswerDropped(c)
  \/ CallFails(c)

EditorNext == UserGesture \/ (\E c \in Slots : Answer(c)) \/ OtherClientSaves

EditorSpec == EditorInit /\ [][EditorNext]_editorVars

-----------------------------------------------------------------------------

(* The session's base is always a Revision saved in this Strategy, whatever *)
(* order saves, reloads, Reapply and Discard finish in: the next save and   *)
(* the next merge start from something that exists.                         *)
BaseIsSaved == owner[baseRevision] = Opened /\ base = content[baseRevision]

(* "Saved" is never shown over work that is not: without unsaved changes    *)
(* the views show the base Revision.                                        *)
CleanMeansSaved == ~dirty => working = base

(* The Run a test creates executes the Revision of exactly the source that  *)
(* was shown when the test was started, whether it had to be saved first    *)
(* and whatever was edited, discarded or saved during preflight and save.   *)
TestRunsWhatWasShown ==
  \A c \in Slots : InFlight(c, "running") => content[calls[c].revision] = calls[c].from

(* The editor never hangs in "updating", where Save and Test are disabled:  *)
(* when nothing is in flight, no dropped or superseded answer left it so.   *)
IdleIsNotUpdating == (\A c \in Slots : calls[c] = None) => status # "updating"

(* An answer that replaces the working source was made from the source it   *)
(* replaces: an operation applied to an older snapshot, or the save of an   *)
(* older snapshot, does not overwrite a newer one.                          *)
StaleAnswersReplaceNothing ==
  [][\A c \in Slots :
       (EditAnswered(c) \/ SaveAnswered(c)) /\ working' # working
         => calls[c].from = working]_editorVars

=============================================================================
