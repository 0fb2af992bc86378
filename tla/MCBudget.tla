------------------------------- MODULE MCBudget -------------------------------
(***************************************************************************)
(* Budget for TLC: every tenant has the same small limit, so that two      *)
(* builds exhaust it.                                                      *)
(***************************************************************************)
EXTENDS Budget, TLC

CONSTANT LimitOfEach

MCLimit == [t \in Tenants |-> LimitOfEach]

Symmetry == Permutations(Workers)

=============================================================================
