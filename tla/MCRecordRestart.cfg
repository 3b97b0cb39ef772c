CONSTANTS
  Launches = {a}
  Runtimes = {x, y}
  Modes = {"collect", "smoke", "qualify"}
  None = None
  NumShards = 3
  ShardStart <- MCShardStart
  TokensIn <- MCTokensIn
  FirstShard = 0
  SkipsCommitted = TRUE
SPECIFICATION FairSpec
INVARIANTS
  ExactReceipts
  OneRuntime
  StatusHonest
  NoMutualWait
  NoSelfRefusal
PROPERTIES
  ImplementsLedger
  EveryLaunchEnds
