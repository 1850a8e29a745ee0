SPECIFICATION FairSpec
CONSTANTS
  Users = {u1}
  Workers = {w1, w2}
  None = None
  Picture = Picture
  FilesMax = 1
  BypassRLS = FALSE
  MaxFiles = 2
  MaxImages = 2
  MaxNow = 1
INVARIANT NoOrphans
INVARIANT IInv
INVARIANT ShownIsServed
INVARIANT CacheFresh
INVARIANT DeadlockNeedsErase
PROPERTY Answered
PROPERTY ImplementsDrawer
CHECK_DEADLOCK FALSE
