CONSTANTS
  k176 = k176
  k192 = k192
  Builders = {p, q}
  Contracts = {k176, k192}
  NumFiles = 3
  Omitted <- MCOmitted
  None = None
  Torn = Torn
SYMMETRY Symmetry
SPECIFICATION Spec
INVARIANTS
  TypeOK
  ReceiptBacked
  OneContract
  CompleteIsSealed
PROPERTIES
  FinishedStays
  ImplementsOutput
