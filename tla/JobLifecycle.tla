---------------------------- MODULE JobLifecycle ----------------------------
(***************************************************************************)
(* What the execution registry promises of one job, with no files and no   *)
(* threads: the job is created once, at one of the two states the          *)
(* endpoints create records in, and then moves along the table.  A crash   *)
(* may lose it for good; nothing else takes a recorded state back.         *)
(***************************************************************************)
EXTENDS ExecutionStates

CONSTANTS Unborn,  \* no request has created the job yet
          Lost     \* its record can no longer be read

VARIABLE state

Init == state = Unborn

\* POST /apply creates at PRECHECK_PASSED, POST /run at APPLIED.
Create ==
  /\ state = Unborn
  /\ state' \in {"PRECHECK_PASSED", "APPLIED"}

Advance ==
  /\ state \in State
  /\ state' \in {s \in State : CanTransition(state, s)}

Lose ==
  /\ state # Unborn
  /\ state' = Lost

Next == Create \/ Advance \/ Lose

Spec == Init /\ [][Next]_state

=============================================================================
