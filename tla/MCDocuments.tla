----------------------------- MODULE MCDocuments -----------------------------
(* Instances of Documents for TLC. *)
EXTENDS Documents, TLC

\* Interchangeable ids; Orgs too, since every action is open to every tenant.
Symmetry == Permutations(Orgs) \cup Permutations(Docs) \cup Permutations(Threads)
=============================================================================
