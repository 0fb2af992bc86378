-------------------------------- MODULE MCSync --------------------------------
(* A workspace and two upstreams for TLC: which is which does not matter.  The  *)
(* contents have nothing around them that show_file_at_ref would strip.         *)
EXTENDS SyncEngine, TLC

CONSTANTS c1, c2

AsTheyAre == [c \in {c1, c2} |-> c]

Symmetry ==
  Permutations(Workers) \cup Permutations(Repos) \cup Permutations(Contents)

=============================================================================
