-------------------------- MODULE ExecutionPromise --------------------------
(***************************************************************************)
(* What one Backtest execution promises its caller.  A request is refused  *)
(* before anything is launched for it, or is launched and then either      *)
(* delivers what its own program produced, or fails; it is answered once.  *)
(***************************************************************************)
CONSTANTS Executions, None

VARIABLES
  stage,     \* how far each execution has come
  delivered  \* whose program produced what was delivered

promiseVars == <<stage, delivered>>

Init ==
  /\ stage = [e \in Executions |-> "asked"]
  /\ delivered = [e \in Executions |-> None]

Refuse(e) ==
  /\ stage[e] = "asked"
  /\ stage' = [stage EXCEPT ![e] = "refused"]
  /\ UNCHANGED delivered

Launch(e) ==
  /\ stage[e] = "asked"
  /\ stage' = [stage EXCEPT ![e] = "launched"]
  /\ UNCHANGED delivered

Deliver(e) ==
  /\ stage[e] = "launched"
  /\ stage' = [stage EXCEPT ![e] = "delivered"]
  /\ delivered' = [delivered EXCEPT ![e] = e]

Fail(e) ==
  /\ stage[e] = "launched"
  /\ stage' = [stage EXCEPT ![e] = "failed"]
  /\ UNCHANGED delivered

Next == \E e \in Executions : Refuse(e) \/ Launch(e) \/ Deliver(e) \/ Fail(e)

Spec == Init /\ [][Next]_promiseVars

=============================================================================
