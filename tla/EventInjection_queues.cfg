SPECIFICATION Spec
CONSTANTS
  Vectors <- MCOneVector
  ExcVectors <- MCExcVectors
  MaxNmi = 1
  Sources = {"irq", "nmi"}
  EnableVnmi = TRUE
  PoliteGuest = FALSE
  IretFaults = {"ept"}
INVARIANTS TypeOK EntryMatchesQueues EntryIsLegal NoLostWakeup NeverInjectedAndPending DeliveryInv
PROPERTIES NoOverwrite Delivers
