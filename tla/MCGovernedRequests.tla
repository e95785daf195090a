------------------------- MODULE MCGovernedRequests -------------------------
EXTENDS GovernedRequests, TLC
Symmetry == Permutations(Clients) \cup Permutations(Requests)
              \cup Permutations(Tokens) \cup Permutations(Actors \ Admins)
=============================================================================
