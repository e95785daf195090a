SPECIFICATION Spec
CONSTANTS
  None = None
  Clients = {w1, w2, w3}
  Requests = {r1}
  Tokens = {k1, k2}
  Actors = {ann, bob, root}
  Admins = {root}
SYMMETRY Symmetry
INVARIANTS
  TypeOK
  TwoPersonRule
  TokenViewedOnce
  IssuedHasOpenToken
  DecisionIsAudited
