\* Two requests for one model, each a stream or plain; channels of two events,
\* three deltas each.
SPECIFICATION Spec
CONSTANTS
  Request = {r1, r2}
  Capacity = 2
  MaxDeltas = 3
  None = None
INVARIANTS TypeOK StreamIsWellFormed StreamIsComplete SessionHeldByOne
PROPERTY EveryRequestEnds
