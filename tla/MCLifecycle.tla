------------------------------ MODULE MCLifecycle ------------------------------
(***************************************************************************)
(* LifecycleStore for TLC; the threads of the pool are interchangeable.    *)
(***************************************************************************)
EXTENDS LifecycleStore, TLC

Symmetry == Permutations(Workers)

=============================================================================
