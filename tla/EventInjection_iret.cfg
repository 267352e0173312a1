SPECIFICATION Spec
CONSTANTS
  Vectors <- MCOneVector
  ExcVectors <- MCFewExc
  MaxNmi = 1
  Sources = {"nmi"}
  EnableVnmi = TRUE
  PoliteGuest = FALSE
  IretFaults = {"ept", "exc"}
INVARIANTS IretFaultReblocks
