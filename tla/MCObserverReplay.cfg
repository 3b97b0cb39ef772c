CONSTANTS
  Observers = {p, q}
  Runtimes = {r1, r2}
  NumLayers = 4
  Routed = {1, 3}
  NumGroups = 3
  None = None
SYMMETRY Symmetry
SPECIFICATION AttendedSpec
INVARIANTS
  TypeOK
  ReceiptExact
  ProgressWhole
  NoSelfRefusal
PROPERTIES
  ProgressStays
  NoResumeRace
