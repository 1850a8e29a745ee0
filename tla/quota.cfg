SPECIFICATION Spec
CONSTANTS
  search = search
  auth = auth
  Limiters = {search, auth}
  Limit <- OneEach
  Label <- Written
  Early <- DayOfChange
  MaxResends = 1
  Calls = {c1, c2, c3}
  LastPeriod = 2
INVARIANT Bounded
INVARIANT NoEarlyRefusal
INVARIANT LeaksOnlyByFailure
CHECK_DEADLOCK FALSE
