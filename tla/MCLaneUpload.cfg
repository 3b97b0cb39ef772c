CONSTANTS
  Launches = {a, b}
  Runtimes = {x, y}
  Destinations = {d, e}
  NumShards = 2
  None = None
SYMMETRY Symmetry
SPECIFICATION Spec
INVARIANTS
  TypeOK
  RemoteBacked
  StatusHonest
PROPERTIES
  ReceiptsStay
