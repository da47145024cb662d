CONSTANTS
  c1 = c1
  c2 = c2
  s1 = s1
  s2 = s2
  NoContent = NoContent
  Client <- MCClient
  Content <- MCContent
  MaxRevision = 3
SPECIFICATION BlobSpec
INVARIANTS RevisionIdentifiesSnapshot
PROPERTY BlobImplementsRegister
CHECK_DEADLOCK FALSE
