--------------------------- MODULE ProgramSource ---------------------------
(***************************************************************************)
(* A Program-native strategy as strategy/v2/models.py keeps it and as the  *)
(* two validators of strategy/v2 judge it.  A program is the sequence of   *)
(* its statements in program order; `level` and `branch` say where in the  *)
(* tree of branches each one stands.  Expressions are abstracted to the    *)
(* Events and memories they read, schedules, weights and texts are left    *)
(* out.                                                                    *)
(***************************************************************************)
EXTENDS Naturals, FiniteSets, Sequences, FiniteSetsExt

CONSTANTS None, StatementIds, OutputIds, GroupIds, AssetSetIds, Assets,
          InitialAssets, Growth, Defensive, GrowthAssets, DefensiveAssets

(* The identities the product's own recipes use. *)
ASSUME RecipeIdentities == /\ {Growth, Defensive} \subseteq GroupIds
                           /\ {InitialAssets, GrowthAssets, DefensiveAssets} \subseteq AssetSetIds
                           /\ Growth # Defensive /\ GrowthAssets # DefensiveAssets
                           /\ None \notin GroupIds

---------------------------------------------------------------------------
(* Statements *)

Statement(id, kind) ==
    [id |-> id, kind |-> kind, level |-> 0, branch |-> "root", output |-> None,
     universe |-> None, method |-> None, legs |-> {}, uses |-> {}]

Select(id, output, group, ranking) ==
    [Statement(id, "select") EXCEPT !.output = output, !.universe = group, !.method = ranking]

Allocate(id, method, legs) ==
    [Statement(id, "allocate") EXCEPT !.method = method, !.legs = legs]

(* A tree placed with its root at the given level of the given branch. *)
Placed(tree, level, branch) ==
    [i \in DOMAIN tree |->
        [tree[i] EXCEPT !.level = @ + level,
                        !.branch = IF tree[i].level = 0 THEN branch ELSE @]]

---------------------------------------------------------------------------
(* Positions in a program *)

Ids(p) == {p[i].id : i \in DOMAIN p}

Position(p, id) == CHOOSE i \in DOMAIN p : p[i].id = id

(* The statement that owns the branch i stands in; 0 for the root branch. *)
Parent(p, i) ==
    IF p[i].level = 0 THEN 0 ELSE Max({k \in 1..(i - 1) : p[k].level < p[i].level})

SubtreeEnd(p, k) ==
    Max({i \in k..Len(p) : \A j \in (k + 1)..i : p[j].level > p[k].level})

Branch(p, parent, branch) ==
    {i \in DOMAIN p : p[i].branch = branch /\ Parent(p, i) = parent}

(* Allocations a guarded statement owns: no branch, and no address for the  *)
(* operations that rewrite branches.                                        *)
PolicyOwned(p, i) == p[i].branch \in {"primary", "override", "fallback"}

Addressed(p, id) == \E i \in DOMAIN p : p[i].id = id /\ ~PolicyOwned(p, i)

Subtree(p, k) == [i \in 1..(SubtreeEnd(p, k) - k + 1) |->
                    [p[k + i - 1] EXCEPT !.level = @ - p[k].level]]

---------------------------------------------------------------------------
(* Rewriting a program *)

Cut(p, k) == SubSeq(p, 1, k - 1) \o SubSeq(p, SubtreeEnd(p, k) + 1, Len(p))

Swap(p, k, tree) ==
    SubSeq(p, 1, k - 1) \o Placed(tree, p[k].level, p[k].branch)
        \o SubSeq(p, SubtreeEnd(p, k) + 1, Len(p))

(* The statements at the given positions, in program order. *)
Only(p, kept) ==
    [n \in 1..Cardinality(kept) |->
        p[CHOOSE i \in kept : Cardinality({j \in kept : j <= i}) = n]]

(* Where the n-th place of a branch is: before its n-th statement, or after *)
(* its last one.                                                            *)
Slot(p, parent, branch, n) ==
    LET kids == Branch(p, parent, branch) IN
    IF n < Cardinality(kids)
    THEN CHOOSE i \in kids : Cardinality({j \in kids : j < i}) = n
    ELSE 1 + IF kids # {} THEN SubtreeEnd(p, Max(kids))
             ELSE IF parent = 0 THEN Len(p) ELSE SubtreeEnd(p, parent)

(* Mutant: the statements of the branch before and after the place change   *)
(* sides.                                                                   *)
InsertSwapped(p, parent, branch, n, tree) ==
    LET at == Slot(p, parent, branch, n)
        kids == Branch(p, parent, branch)
        first == IF kids = {} THEN at ELSE Min(kids)
        past == IF kids = {} THEN at ELSE SubtreeEnd(p, Max(kids)) + 1
        level == IF parent = 0 THEN 0 ELSE p[parent].level + 1
    IN  SubSeq(p, 1, first - 1) \o SubSeq(p, at, past - 1) \o Placed(tree, level, branch)
          \o SubSeq(p, first, at - 1) \o SubSeq(p, past, Len(p))

Insert(p, parent, branch, n, tree) ==
    LET at == Slot(p, parent, branch, n)
        level == IF parent = 0 THEN 0 ELSE p[parent].level + 1
    IN  SubSeq(p, 1, at - 1) \o Placed(tree, level, branch) \o SubSeq(p, at, Len(p))

(* Parents that own the branch; the root branch is owned by the program. *)
Owns(p, parent, branch) ==
    \/ parent = 0 /\ branch = "root"
    \/ /\ parent \in DOMAIN p
       /\ \/ p[parent].kind = "control" /\ branch \in {"then", "otherwise"}
          \/ p[parent].kind = "on_event" /\ branch = "event"

---------------------------------------------------------------------------
(* What the parser of every request enforces *)

GroupsHaveAssets(s) == \A g \in DOMAIN s.groups : s.groups[g] \in DOMAIN s.assetSets

BranchesFilled(p) ==
    /\ p # <<>>
    /\ \A i \in DOMAIN p :
        /\ p[i].kind = "control" => Branch(p, i, "then") # {}
        /\ p[i].kind = "on_event" => Branch(p, i, "event") # {}

WellFormed(s) ==
    /\ DOMAIN s.assetSets # {}
    /\ GroupsHaveAssets(s)
    /\ s.program # None => BranchesFilled(s.program)
    /\ s.program = None => s.selection # None

---------------------------------------------------------------------------
(* What the validators enforce of every answer *)

(* The output of the Selection at k can be used at i: nothing between them  *)
(* leaves the branch that declares it.                                      *)
Visible(p, k, i) ==
    LET peer == Max({j \in k..i : p[j].level = p[k].level}) IN
    /\ \A j \in k..i : p[j].level >= p[k].level
    /\ p[peer].branch = p[k].branch

Selects(p) == {i \in DOMAIN p : p[i].kind = "select"}

AllocationSound(p, i) ==
    /\ \A leg \in p[i].legs : leg[1] = "selection" =>
        \E k \in Selects(p) : k < i /\ p[k].output = leg[2] /\ Visible(p, k, i)
    /\ p[i].method = "proportional_score" =>
        \A k \in Selects(p) :
            <<"selection", p[k].output>> \in p[i].legs => p[k].method = "score"

Declared(p) == {p[i].id : i \in {j \in DOMAIN p : p[j].kind \in {"on_event", "remember_value"}}}

IdsUnique(p) == \A i, j \in DOMAIN p : p[i].id = p[j].id => i = j

OutputsUnique(p) == \A i, j \in Selects(p) : p[i].output = p[j].output => i = j

(* Nothing is left to be interpreted, and what is used is visible. *)
StatementSound(p, i) ==
    /\ p[i].kind # "unresolved"
    /\ p[i].kind = "allocate" => AllocationSound(p, i)

(* Events and memories that expressions read are declared somewhere. *)
ReadsDeclared(p) == \A i \in DOMAIN p : p[i].uses \subseteq Declared(p)

PhrasesResolve(p, formalizations) == formalizations \subseteq Ids(p)

(* Mutant: an output may be declared twice. *)
ValidProgramRedeclaring(p, formalizations) ==
    /\ IdsUnique(p) /\ \A i \in DOMAIN p : StatementSound(p, i)
    /\ ReadsDeclared(p) /\ PhrasesResolve(p, formalizations)

ValidProgram(p, formalizations) ==
    /\ IdsUnique(p) /\ OutputsUnique(p) /\ \A i \in DOMAIN p : StatementSound(p, i)
    /\ ReadsDeclared(p) /\ PhrasesResolve(p, formalizations)

ValidStrategy(s) ==
    /\ s.selection # None => s.selection \in DOMAIN s.groups \cup DOMAIN s.assetSets
    /\ s.program # None => ValidProgram(s.program, s.formalizations)
=============================================================================
