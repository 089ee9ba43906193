SPECIFICATION Spec
CONSTANTS
  PageSize = 4
  AddressLimit = 64
  PageLimit = 2
  MsrLimit = 2
  BarSize = 4
  NotifyOffset = 1
  ByteValues = 2
  Restorable <- MCRestorable
  Unrestorable <- MCUnrestorable
  MaxFaults <- MCMaxFaults
  Hosts <- MCHosts
CHECK_DEADLOCK FALSE
INVARIANTS
  StoredReturnsWhole
  AcceptedIsCanonical
  RefusedOnlyForMsrs
