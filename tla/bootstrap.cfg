SPECIFICATION Spec
CONSTANTS
  Starters = {api1, api2}
  Jobs = {ingest}
  MayExtend = {api1, ingest}
  Retries = 2
  MaxOutages = 1
  MaxReads = 1
  MaxRestarts = 1
INVARIANT ServesComplete
PROPERTY BecomesReady
CHECK_DEADLOCK FALSE
