------------------------- MODULE MCReleaseLifecycle -------------------------
EXTENDS ReleaseLifecycle, TLC
Symmetry == Permutations(Clients) \cup Permutations(Catalogs)
              \cup Permutations(Runs)
=============================================================================
