SPECIFICATION Spec
CONSTANTS
  None = None
  Clients = {w1, w2}
  Requests = {r1}
  Tokens = {k1}
  Actors = {ann, root}
  Admins = {root}
SYMMETRY Symmetry
INVARIANT RejectedIsTerminal
