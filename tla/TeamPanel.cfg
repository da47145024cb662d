SPECIFICATION FairSpec
CONSTANTS
  Writer = {w1}
  Viewer = {v1}
  Following = {v1}
  w1 = w1
  v1 = v1
  RetainedEvents = 1
  MaxSaved = 3
  Refreshes = 0
  MaxFailures = 2
INVARIANTS AnnouncedOnce ViewerIsCurrent
PROPERTIES ViewerNeverRegresses AnnouncedIsExposed
