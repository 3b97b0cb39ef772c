CONSTANTS
  Controllers = {c, d}
  NumGpus = 2
  NumRows = 3
  NumLayers = 3
  None = None
SYMMETRY Symmetry
SPECIFICATION Spec
INVARIANTS
  TypeOK
  ManifestExact
  SlotKept
