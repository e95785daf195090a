SPECIFICATION Spec
CONSTANTS
  None = None
  Logs = {l1}
  Examples = {e1}
  Texts = {ta, tb}
  QueryText = tq
  Keys = {k1, k2}
  RewrapJobs = {w1}
  RetentionJobs = {d1}
  RewrapArgs <- Args
  Limit = 1
  MaxSuffix = 1
  LastDay = 0
  MaxRuns = 2
  MaxRows = 2
SYMMETRY Symmetry
INVARIANTS
  DeletedHasNoMaterial
