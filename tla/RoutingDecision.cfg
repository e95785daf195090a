SPECIFICATION Spec
CONSTANTS
  None = None
  MaxCandidates = 2
  MaxRows = 3
  Similarities <- MCSimilarities
  KeywordCounts = {0, 1}
  r1 = r1
  r2 = r2
  RouteKeys = {r1, r2}
  Scopes <- MCScopes
  Policies <- MCPolicies
  MinRows = 1
  RowsPerCandidate = 1
  MaxClarify = 2
CHECK_DEADLOCK FALSE
INVARIANTS
  TypeOK
  DecisionsAreGrounded
  CompetitionNeverRoutes
  StricterNeverRoutes
  KeywordsHelp
