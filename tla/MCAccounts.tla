----------------------------- MODULE MCAccounts -----------------------------
EXTENDS Accounts, TLC

Symmetry == Permutations(Orgs) \cup Permutations(Users \ Owners) \cup Permutations(Emails)
            \cup Permutations(Clients) \cup Permutations(Threads)

=============================================================================
