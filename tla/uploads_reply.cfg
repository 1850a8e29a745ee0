SPECIFICATION Spec
CONSTANTS
  Users = {u1}
  Workers = {w1, w2}
  None = None
  Picture = Picture
  FilesMax = 1
  BypassRLS = FALSE
  MaxFiles = 1
  MaxImages = 1
  MaxNow = 0
PROPERTY StoredIsReported
CHECK_DEADLOCK FALSE
