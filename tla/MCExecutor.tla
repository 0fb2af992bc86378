----------------------------- MODULE MCExecutor -----------------------------
(***************************************************************************)
(* Executor for TLC: threads are interchangeable, and the record file is   *)
(* mapped to the state of the abstract job lifecycle.                      *)
(***************************************************************************)
EXTENDS Executor, TLC

CONSTANTS Unborn, Lost

Symmetry == Permutations(Workers)

\* The state a job is in: what the file says or, while a request rewrites the
\* file, what it is about to say.
RecordedState ==
  IF Readable THEN file.state
  ELSE IF \E w \in Workers : worker[w].at = "flush"
  THEN LET w == CHOOSE v \in Workers : worker[v].at = "flush"
       IN worker[w].rec.state
  ELSE IF file = Absent THEN Unborn ELSE Lost

Job == INSTANCE JobLifecycle WITH state <- RecordedState

\* With one thread the files implement the abstract lifecycle: a restart
\* between truncation and write may lose the record, nothing undoes a move.
ImplementsLifecycle == Job!Spec

=============================================================================
