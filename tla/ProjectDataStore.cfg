CONSTANTS
  c1 = c1
  c2 = c2
  k1 = k1
  k2 = k2
  k3 = k3
  n1 = n1
  n2 = n2
  NoDocument = NoDocument
  Client <- MCClient
  Key <- MCKey
  NamespaceOf <- MCNamespaceOf
  MaxDocuments = 1
  MaxNamespaces = 2
  MaxStamp = 3
SPECIFICATION Spec
INVARIANTS RevisionNamesContent QuotasRespected
PROPERTY ImplementsTable
CHECK_DEADLOCK FALSE
