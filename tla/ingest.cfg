SPECIFICATION Spec
CONSTANTS
  s1 = s1
  s2 = s2
  u1 = u1
  u2 = u2
  u3 = u3
  jazz = jazz
  jazzTrio = jazzTrio
  blank = blank
  day1 = day1
  day2 = day2
  Sources = {s1, s2}
  Urls = {u1, u2, u3}
  Names = {jazz, jazzTrio, blank}
  Blank = blank
  Blocks = {day1, day2}
  Score <- Likeness
  Pages <- Listings
  None = None
  AutoMatch = 90
  Ambiguous = 75
  BatchSize = 2
  HasKey = TRUE
  MaxRuns = 4
INVARIANT OwnVector
INVARIANT Recorded
INVARIANT NoTwins
PROPERTY VectorKept
CHECK_DEADLOCK FALSE
