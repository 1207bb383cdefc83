\* Two requests in turn, two layers, six query heads over two key/value heads,
\* prompts on both sides of the kernels' limit, counters modulo 3.
SPECIFICATION ProfiledSpec
CONSTANTS
  Request = {r1, r2}
  Layers = 2
  ContextLength = 6
  BlockedMinSeq = 3
  MaxPrompt = 5
  QueryHeads = 6
  KvHeads = 2
  QueryBlock = 2
  CounterRange = 3
  None = None
INVARIANTS ProfiledTypeOK EveryPassIsReported AttendsOwnPrefix CachesFollowPosition
PROPERTY ImplementsTokenDecoder
