SPECIFICATION SerialSpec
CONSTANTS
  None = None
  Clients = {w1, w2}
  Requests = {r1, r2}
  Tokens = {k1, k2}
  Actors = {ann, root}
  Admins = {root}
PROPERTY ImplementsWorkflow
