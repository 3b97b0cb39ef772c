CONSTANTS
  k176 = k176
  k192 = k192
  Builders = {p, q}
  Contracts = {k176}
  NumFiles = 3
  Omitted <- MCOneOmitted
  None = None
  Torn = Torn
SPECIFICATION Spec
INVARIANTS
  Resumable
