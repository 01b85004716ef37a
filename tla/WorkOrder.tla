------------------------------- MODULE WorkOrder -------------------------------
(***************************************************************************)
(* The life of one work order, as WorkOrderStateMachine prescribes it:     *)
(* PKG-WORK-ORDER-001/HOT/kernel/work_order.py.  This is what the tier     *)
(* above relies on; HO1Executor is checked, and proved, to implement it.   *)
(***************************************************************************)

VARIABLE state  \* WorkOrder.state

WOStates == {"planned", "dispatched", "executing", "completed", "failed"}

TerminalStates == {"completed", "failed"}

\* The states each tier may set: HO1_ALLOWED_STATES; HO2 is not restricted.
AllowedStates(tier) ==
  IF tier = "HO1" THEN {"executing", "completed", "failed"} ELSE WOStates

ValidTransitions ==
  [s \in WOStates |->
     CASE s = "planned" -> {"dispatched", "failed"}
       [] s = "dispatched" -> {"executing"}
       [] s = "executing" -> {"completed", "failed"}
       [] OTHER -> {}]

\* WorkOrder.create()
Create == state = "planned"

\* WorkOrderStateMachine.transition()
Transition(new, tier) ==
  /\ new \in AllowedStates(tier)
  /\ new \in ValidTransitions[state]
  /\ state' = new

Next == \E new \in WOStates, tier \in {"HO1", "HO2"} : Transition(new, tier)

Spec == Create /\ [][Next]_state
=============================================================================
