\* Two threads, two calls each: no GPU share, one short
\* chunk, or a long and a short one.
SPECIFICATION Spec
CONSTANTS
  Caller = {c1, c2}
  Rows = {3, 10, 20}
  TileM = 4
  Vec = 2
  WgCols = 2
  GroupWords = 2
  WordBytes = 2
  KBlocks = 2
  Columns = 5
  ChunkM = 8
  MaxCalls = 2
  None = None
  Zero = Zero
  Garbled = Garbled
CHECK_DEADLOCK FALSE
INVARIANTS TypeOK RowsAreOwn GpuFailsSoftly FailureIsRemembered
PROPERTY EveryCallEnds
