SPECIFICATION MSpec
CONSTANTS
  Vectors <- MCOneVector
  ExcVectors <- MCFewExc
  MaxNmi = 1
  Sources = {"nmi", "smi"}
  EnableVnmi = TRUE
  PoliteGuest = FALSE
  IretFaults = {"exc"}
  PayloadCaps = {TRUE, FALSE}
  TripleFaultCap = TRUE
PROPERTIES MigrationDelivers ShutdownSurvives NoNestedNmi
