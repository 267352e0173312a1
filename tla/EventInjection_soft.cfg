SPECIFICATION OneSpec
CONSTANTS
  Vectors <- MCOneVector
  ExcVectors <- MCFewExc
  MaxNmi = 1
  Sources = {"irq", "nmi"}
  EnableVnmi = FALSE
  PoliteGuest = TRUE
  IretFaults = {}
PROPERTIES NoNestedNmi NmiServed
