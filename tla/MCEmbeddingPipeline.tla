------------------------ MODULE MCEmbeddingPipeline ------------------------
(* EmbeddingPipeline on small instances. *)
EXTENDS EmbeddingPipeline, TLC

Symmetry == Permutations(Thought) \cup Permutations(Worker)
              \cup Permutations(Project)
=============================================================================
