SPECIFICATION FairSpec
CONSTANTS
  u1 = u1  u2 = u2  d1 = d1
  Uploads = {u1, u2}
  Drops = {u2}
  Downloads = {d1}
  Chunks <- MCChunks
  MaxFiles = 2
  None = None
INVARIANTS Consistent ChunksFit
PROPERTIES PromisesSettle
CHECK_DEADLOCK FALSE
