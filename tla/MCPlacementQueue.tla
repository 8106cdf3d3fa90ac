------------------------- MODULE MCPlacementQueue -------------------------
(* PlacementQueue on small instances. *)
EXTENDS PlacementQueue, TLC

\* A UUID, a run label and the two thoughts of a pair are interchangeable.
Symmetry == Permutations(Process) \cup Permutations(EdgeId) \cup Permutations(RowId)
              \cup Permutations(RunId) \cup Permutations(Thought)
=============================================================================
