CONSTANTS
  e1 = e1
  e2 = e2
  a = a
  b = b
  c = c
  d = d
  q = q
  s = s
  NoCall = NoCall
  Call <- TwoCalls
  Builder <- OneBuilder
  Reviewer <- NoReviewer
  Dependencies <- Alone
  Conflicts <- Alone
  MaxActive = 3
  MaxParallel = 2
SPECIFICATION Spec
INVARIANT CancelReachesRun
