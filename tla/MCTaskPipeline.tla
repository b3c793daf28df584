--------------------------- MODULE MCTaskPipeline ---------------------------
(* Instances of TaskPipeline for TLC.                                       *)
EXTENDS TaskPipeline, TLC

Symmetry == Permutations(Clients) \cup Permutations(Sockets)
=============================================================================
