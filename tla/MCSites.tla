------------------------------- MODULE MCSites -------------------------------
(* Instances of Sites for TLC. *)
EXTENDS Sites, TLC

\* Interchangeable ids; Orgs too, since every action is open to every tenant.
Symmetry ==
    Permutations(Orgs) \cup Permutations(Sites) \cup Permutations(Docs) \cup Permutations(Threads)
=============================================================================
