SPECIFICATION Spec
CONSTANTS
  Users = {u1,u2}
  Addrs = {a1,a2}
  Subs = {s1}
  Clients = {c1,c2}
  None = None
  MaxAttempts = 1
  MaxCodes = 3
  MaxInFlight = 1
  RequireVerification = FALSE
  Ops <- SerialOps
SYMMETRY Symmetry
INVARIANT VerifiedEmailProven
PROPERTY SecondFactorGuards
CHECK_DEADLOCK FALSE
