------------------------ MODULE MCEmbedderSupervisor ------------------------
(* Instances of EmbedderSupervisor for TLC. *)
EXTENDS EmbedderSupervisor, TLC

CONSTANTS r1, r2, r3

Symmetry == Permutations(Call)
=============================================================================
