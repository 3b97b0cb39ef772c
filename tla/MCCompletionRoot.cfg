CONSTANTS
  Launches = {a}
  Runtimes = {x, y}
  Modes = {"collect", "smoke", "qualify"}
  None = None
  NumShards = 3
  ShardStart <- MCShardStart
  TokensIn <- MCTokensIn
  FirstShard = 1
  SkipsCommitted = FALSE
SPECIFICATION Spec
PROPERTIES
  ImplementsTail
