SPECIFICATION OneSpec
CONSTANTS
  Vectors <- MCOneVector
  ExcVectors <- MCFewExc
  MaxNmi = 1
  Sources = {"irq", "nmi", "smi"}
  EnableVnmi = TRUE
  PoliteGuest = FALSE
  IretFaults = {"exc"}
PROPERTIES NmiServed SmiServed IrqServed
