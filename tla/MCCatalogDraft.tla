--------------------------- MODULE MCCatalogDraft ---------------------------
EXTENDS CatalogDraft, TLC
Symmetry == Permutations(Clients) \cup Permutations(Routes) \cup Permutations(Texts)
=============================================================================
