SPECIFICATION Spec
CONSTANTS
  r1 = r1
  r2 = r2
  e1 = e1
  e2 = e2
  e3 = e3
  NoEvent = NoEvent
  Request <- Requests
  Event <- Events
  MaxEvents = 2
  MaxAttempts = 2
  MaxMade = 3
  MaxDeliveries = 3
SYMMETRY Symmetry
INVARIANTS EvidenceIsPresent AcceptedIsKept AcceptedOnce
PROPERTIES StoredUnderCapability
