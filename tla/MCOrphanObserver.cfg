CONSTANTS
  Observers = {p, q}
  Runtimes = {r1}
  NumLayers = 3
  Routed = {1, 2}
  NumGroups = 2
  None = None
SYMMETRY Symmetry
SPECIFICATION Spec
PROPERTIES
  NoResumeRace
