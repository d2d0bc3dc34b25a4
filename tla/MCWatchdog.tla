------------------------------ MODULE MCWatchdog ------------------------------
(* Instances of Watchdog for TLC. *)
EXTENDS Watchdog, TLC

\* Tasks and replicas are interchangeable: no definition names one of them.
Symmetry == Permutations(Tasks) \cup Permutations(Instances)
=============================================================================
