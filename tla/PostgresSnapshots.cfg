CONSTANTS
  c1 = c1
  c2 = c2
  c3 = c3
  s1 = s1
  NoContent = NoContent
  Client <- MCClient
  Content <- MCContent
  MaxRevision = 3
SPECIFICATION RowSpec
PROPERTY RowImplementsRegister
CHECK_DEADLOCK FALSE
