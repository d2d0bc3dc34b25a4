------------------------------ MODULE MCPipeline ------------------------------
(* Instances of Pipeline for TLC. *)
EXTENDS Pipeline, TLC

\* Requests and handlers are interchangeable, and so are schemas.
Symmetry == Permutations(Requests) \cup Permutations(Threads) \cup Permutations(Schemas)
=============================================================================
