-------------------------- MODULE MCLeanExecution --------------------------
(***************************************************************************)
(* Model checking LeanExecution: one execution on a synthetic data set     *)
(* beside one on the local directory.                                      *)
(***************************************************************************)
EXTENDS LeanExecution

CONSTANTS e1, e2, spy, qqq

(* A selection over both symbols that reads two rows of history, its        *)
(* eligibility three of them in a nested value.                             *)
TheSelection == [symbols |-> {spy, qqq}, lookback |-> 1, values |-> {{2}, {1, 2}}]
ThePlan == [subscriptions |-> {spy, qqq}, selections |-> {TheSelection},
            predicates |-> {[symbols |-> {spy}, lookback |-> 1, values |-> {}]},
            conditions |-> {}]
EachPlan == [e \in Executions |-> ThePlan]

(* The visible period is 3..4.                                              *)
Complete == [daily |-> {1, 2, 3, 4}, map |-> TRUE, factor |-> TRUE]
WithOther(files) == [s \in Symbols |-> IF s = spy THEN Complete ELSE files]

DirectoryStates ==
  {None, WithOther(Complete)} \cup
  {WithOther([Complete EXCEPT !.daily = d]) :
     d \in {Corrupt, {2, 3, 4}}}

(* A run of a program that emits two evidence lines: it went well, or it is *)
(* wrong in one way.                                                        *)
WellEnded == [code |-> 0, mark |-> "completed", lines |-> <<1, 2>>, result |-> "object"]
WaysToExit ==
  {WellEnded, [WellEnded EXCEPT !.code = 1]}
    \cup {[WellEnded EXCEPT !.mark = m] : m \in {"fatal", "absent"}}
    \cup {[WellEnded EXCEPT !.lines = l] : l \in {<<2>>, <<1>>}}
    \cup {[WellEnded EXCEPT !.result = r] :
             r \in {"missing", "undecodable", "malformed"}}

=============================================================================
