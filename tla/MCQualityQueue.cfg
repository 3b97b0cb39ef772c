CONSTANTS
  Candidates = {A, B}
  Pinned = A
  Queues = {p, q}
  NumRows = 2
  NumLayers = 3
  None = None
SYMMETRY Symmetry
SPECIFICATION Spec
INVARIANTS
  TypeOK
  ProgressWhole
  ScoresExact
PROPERTIES
  OneEvaluation
