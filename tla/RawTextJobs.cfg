SPECIFICATION Spec
CONSTANTS
  None = None
  Logs = {l1, l2}
  Examples = {e1}
  Texts = {ta, tb}
  QueryText = tq
  Keys = {k1, k2}
  RewrapJobs = {w1, w2}
  RetentionJobs = {d1, d2}
  RewrapArgs <- Args
  Limit = 1
  MaxSuffix = 1
  LastDay = 1
  MaxRuns = 2
  MaxRows = 2
SYMMETRY Symmetry
INVARIANTS
  TypeOK
  RewrapsOfADayExclude
  LogsStayReadable
  RedactedOnce
  RawMatchesMasked
  DeletedStaysDeleted
  EnvelopesAreWhole
PROPERTIES
  CompletedMeansMigrated
