CONSTANTS
  c1 = c1
  c2 = c2
  r1 = r1
  k1 = k1
  k2 = k2
  f1 = f1
  f2 = f2
  Client <- MCClient
  Reader <- MCReader
  Key <- MCKey
  Fingerprint <- MCFingerprint
  Retained = 2
  ReadLimit = 2
  MaxRevision = 3
SPECIFICATION Spec
INVARIANTS RoomIsReadable WindowEndsLog RetainedIsRecognised ConfirmedIsLogged RetryNeverWrites
PROPERTIES PollMissesNothing ImplementsLog
CHECK_DEADLOCK FALSE
