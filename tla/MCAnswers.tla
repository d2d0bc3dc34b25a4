------------------------------ MODULE MCAnswers ------------------------------
(* Instances of Answers for TLC. *)
EXTENDS Answers, TLC

CONSTANTS o1, o2, d1, d2

MCOwner == d1 :> o1 @@ d2 :> o2

\* Requests and handlers are interchangeable, and so are the two tenants when
\* their documents change places with them; names are not (SystemKeys).
SwapTenants == {o1 :> o2 @@ o2 :> o1 @@ d1 :> d2 @@ d2 :> d1}

Symmetry == Permutations(Requests) \cup Permutations(Threads) \cup SwapTenants
=============================================================================
