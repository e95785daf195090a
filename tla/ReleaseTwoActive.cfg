SPECIFICATION Spec
CONSTANTS
  None = None
  Clients = {w1, w2}
  Catalogs = {cat1}
  Runs = {t1, t2}
  Policies = {pol}
  Environments = {prod}
  Models = {bge}
  MaxReleases = 2
SYMMETRY Symmetry
INVARIANT AtMostOneActive
