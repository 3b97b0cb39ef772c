CONSTANTS
  NumShards = 3
  FirstShard = 1
  Runtimes = {x, y}
  Domains = {"code", "prose"}
  DomainsOf <- MCDomainsOf
  None = None
  Torn = Torn
SYMMETRY Symmetry
SPECIFICATION Spec
INVARIANTS
  TypeOK
  SealExact
  MergeExact
  SealsWholeRoot
  NoFalseRefusal
PROPERTIES
  WriteOnce
