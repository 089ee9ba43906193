SPECIFICATION FairSpec
CONSTANTS
  Deliveries = {"direct", "irqfd", "bridge"}
  Faults = {"assign", "worker", "watchdog", "deassign"}
INVARIANTS
  SuccessIsIndependent
  RegistrationsReleased
PROPERTY
  AlwaysReturns
CHECK_DEADLOCK FALSE
