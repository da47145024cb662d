CONSTANTS
  c1 = c1
  c2 = c2
  k1 = k1
  k2 = k2
  k3 = k3
  n1 = n1
  n2 = n2
  NoDocument = NoDocument
  Client <- MCClient
  Key <- OneKey
  NamespaceOf <- MCNamespaceOf
  MaxDocuments = 1
  MaxNamespaces = 2
  MaxStamp = 4
SPECIFICATION Spec

PROPERTY ReplacesWhatWasSeen
CHECK_DEADLOCK FALSE
