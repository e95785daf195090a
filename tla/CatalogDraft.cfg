SPECIFICATION Spec
CONSTANTS
  None = None
  Clients = {w1, w2}
  Intents = {1, 2}
  Routes = {ra, rb}
  Examples = {1, 2}
  Statuses = {"draft"}
  Texts = {ta, tb}
  MaxVersions = 2
  MaxRows = 3
SYMMETRY Symmetry
INVARIANTS
  TypeOK
  LoadRestores
  VersionsAreWhole
  ApprovedIsEmbedded
  DiffIsComplete
