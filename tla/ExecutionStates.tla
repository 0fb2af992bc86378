--------------------------- MODULE ExecutionStates ---------------------------
(***************************************************************************)
(* The job states of app/core/execution/models.py and the transition table *)
(* of app/core/execution/state_machine.py.  Pure operators, shared by the  *)
(* abstract job lifecycle and by the file-backed executor.                 *)
(***************************************************************************)
EXTENDS Naturals, Sequences

State == {"DRAFT", "PLAN_READY", "PRECHECK_PASSED", "APPLIED", "RUNNING",
          "SUCCEEDED", "FAILED", "BLOCKED", "CANCELED"}

Terminal == {"SUCCEEDED", "FAILED", "BLOCKED", "CANCELED"}

Allowed == {<<"DRAFT", "PLAN_READY">>,
            <<"PLAN_READY", "PRECHECK_PASSED">>,
            <<"PRECHECK_PASSED", "APPLIED">>,
            <<"APPLIED", "RUNNING">>,
            <<"APPLIED", "CANCELED">>,
            <<"RUNNING", "CANCELED">>,
            <<"RUNNING", "SUCCEEDED">>,
            <<"RUNNING", "FAILED">>,
            <<"PRECHECK_PASSED", "BLOCKED">>,
            <<"PLAN_READY", "BLOCKED">>,
            <<"DRAFT", "BLOCKED">>}

\* Mutant of CanTransition: any job may be ended.
CanTransitionOrEnd(src, dst) ==
  src = dst \/ <<src, dst>> \in Allowed \/ dst \in Terminal

\* A state may always be re-entered, so an event can be added in place; a
\* terminal state leads nowhere else.
CanTransition(src, dst) ==
  \/ src = dst
  \/ src \notin Terminal /\ <<src, dst>> \in Allowed

\* A sequence of states that the table lets a record go through.
LegalPath(h) ==
  \A i \in 1..(Len(h) - 1) : CanTransition(h[i], h[i + 1])

\* Nothing but the same state follows a terminal state.
TerminalLast(h) ==
  \A i, j \in 1..Len(h) : i < j /\ h[i] \in Terminal => h[j] = h[i]

=============================================================================
