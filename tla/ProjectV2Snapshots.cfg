CONSTANTS
  s1 = s1
  s2 = s2
  e1 = e1
  e2 = e2
  e3 = e3
  e4 = e4
  Legacy = Legacy
  Unknown = Unknown
  Session <- MCSession
  Edit <- MCEdit
  LegacyRevision = 1
  MaxAttempts = 3
  MaxRemovals = 3
SYMMETRY Symmetry
SPECIFICATION Spec
INVARIANTS HistoryIsLinear
PROPERTIES AnswersWereCurrent ChangesAreNamed
