CONSTANTS
  Launches = {a, b}
  Runtimes = {x, y}
  Modes = {"collect"}
  None = None
  NumShards = 2
  ShardStart <- MCShardStart
  TokensIn <- MCTokensIn
  FirstShard = 0
  SkipsCommitted = TRUE
SYMMETRY Symmetry
SPECIFICATION Spec
INVARIANTS
  TypeOK
  CommittedPrefix
PROPERTIES
  CommitOnce
