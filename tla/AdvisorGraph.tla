----------------------------- MODULE AdvisorGraph -----------------------------
(***************************************************************************)
(* The order in which the advisors run: resolver.py sorts the active ones  *)
(* by phase, priority and name, and graph.py sorts them topologically.     *)
(*                                                                         *)
(* An advisor is its place in the resolver's order.  A dependency that is  *)
(* not among the active advisors (0) has an edge but no node.              *)
(***************************************************************************)
EXTENDS Naturals, Sequences, FiniteSets

CONSTANT Advisors   \* how many are active

\* MCServices assumes this of the instance it checks.
AdvisorAssumption == Advisors \in Nat

Nodes == 1..Advisors
Missing == 0

VARIABLES
  dependsOn,    \* depends_on of each advisor
  inDegree, queue, order,
  result        \* "running", "sorted", or "circular" for CircularDependencyError

vars == <<dependsOn, inDegree, queue, order, result>>

TypeOK ==
  /\ dependsOn \in [Nodes -> SUBSET (Nodes \cup {Missing})]
  /\ inDegree \in [Nodes -> 0..(Advisors + 1)]
  /\ queue \in Seq(Nodes) /\ order \in Seq(Nodes)
  /\ result \in {"running", "sorted", "circular"}

\* The members of a set in the resolver's order.
InOrder(S) ==
  [i \in 1..Cardinality(S) |->
     CHOOSE n \in S : Cardinality({m \in S : m < n}) = i - 1]

\* add_node for each advisor; then the nodes that wait for nothing.
Init ==
  /\ dependsOn \in [Nodes -> SUBSET (Nodes \cup {Missing})]
  /\ inDegree = [n \in Nodes |-> Cardinality(dependsOn[n])]
  /\ queue = InOrder({n \in Nodes : inDegree[n] = 0})
  /\ order = << >> /\ result = "running"

\* Mutant of Visit: a node is queued at its first dependency.
VisitEager ==
  LET current == Head(queue)
      waiting == {n \in Nodes : current \in dependsOn[n]}
  IN /\ result = "running" /\ queue # << >>
     /\ order' = Append(order, current)
     /\ inDegree' = [n \in Nodes |-> IF n \in waiting THEN inDegree[n] - 1 ELSE inDegree[n]]
     /\ queue' = Tail(queue) \o InOrder({n \in waiting : inDegree[n] = Cardinality(dependsOn[n])})
     /\ UNCHANGED <<dependsOn, result>>

\* One turn of the loop: those that now wait for nothing go to the end of the
\* queue, whatever their priority.
Visit ==
  LET current == Head(queue)
      waiting == {n \in Nodes : current \in dependsOn[n]}
  IN /\ result = "running" /\ queue # << >>
     /\ order' = Append(order, current)
     /\ inDegree' = [n \in Nodes |-> IF n \in waiting THEN inDegree[n] - 1 ELSE inDegree[n]]
     /\ queue' = Tail(queue) \o InOrder({n \in waiting : inDegree[n] = 1})
     /\ UNCHANGED <<dependsOn, result>>

\* Mutant of Return: an advisor left waiting is left out.
ReturnWhatThereIs ==
  /\ result = "running" /\ queue = << >>
  /\ result' = "sorted"
  /\ UNCHANGED <<dependsOn, inDegree, queue, order>>

Return ==
  /\ result = "running" /\ queue = << >>
  /\ result' = IF Len(order) = Advisors THEN "sorted" ELSE "circular"
  /\ UNCHANGED <<dependsOn, inDegree, queue, order>>

Next == Visit \/ Return

Spec == Init /\ [][Next]_vars

-----------------------------------------------------------------------------
(* Properties. *)

\* No advisor runs before one it depends on (graph.py:55).
DependenciesFirst ==
  \A i \in DOMAIN order : \A d \in dependsOn[order[i]] :
    \E j \in 1..(i - 1) : order[j] = d

\* Advisors that wait for one another.
Circle ==
  \E S \in (SUBSET Nodes) \ {{}} : \A n \in S : dependsOn[n] \cap S # {}

\* Of advisors whose dependencies are all active, the sort fails only if some
\* wait for one another; when it succeeds, none do and each is there once
\* (graph.py:65).
FailsOnlyIfCircular ==
  /\ result = "circular" /\ (\A n \in Nodes : Missing \notin dependsOn[n]) => Circle
  /\ result = "sorted" =>
       ~Circle /\ {order[i] : i \in DOMAIN order} = Nodes /\ Len(order) = Advisors

\* "Advisor dependency missing from resolved plugin set." is a warning of the
\* loop that follows (registry.py:165): no circle, no error.
MissingIsNoCircle == result = "circular" => Circle

=============================================================================
