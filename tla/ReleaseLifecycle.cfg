SPECIFICATION FairSpec
CONSTANTS
  None = None
  Clients = {w1, w2}
  Catalogs = {cat1}
  Runs = {t1, t2}
  Policies = {pol}
  Environments = {qa, prod}
  Models = {bge}
  MaxReleases = 2
INVARIANTS
  TypeOK
  ReleasedCatalogServable
  ReleaseWasTested
  InsertNeverConflicts
  RuntimeFindsDependencies
PROPERTIES
  ServedStaysServed
  RequestsComplete
