CONSTANTS
  e1 = e1
  e2 = e2
  a = a
  b = b
  c = c
  d = d
  q = q
  s = s
  NoCall = NoCall
  Call <- OneCall
  Builder <- MCBuilder
  Reviewer <- MCReviewer
  Dependencies <- MCDependencies
  Conflicts <- MCConflicts
  MaxActive = 3
  MaxParallel = 2
SPECIFICATION Spec
INVARIANTS MergedIsInProject CompletedWasReviewed PlanNeverBlocks RunningApart
PROPERTIES NeverRerunsMerged StoredOnlyGrows CancelStartsNothing PlannedCallEnds
