SPECIFICATION Spec
CONSTANTS
  Users = {u1}
  Addrs = {a1,a2}
  Subs = {s1}
  Clients = {c1,c2}
  None = None
  MaxAttempts = 1
  MaxCodes = 3
  MaxInFlight = 1
  RequireVerification = FALSE
  Ops <- GuessOps
SYMMETRY Symmetry
INVARIANT AttemptCap
INVARIANT SingleUse
CHECK_DEADLOCK FALSE
