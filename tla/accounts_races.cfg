SPECIFICATION Spec
CONSTANTS
  Users = {u1,u2}
  Addrs = {a1,a2}
  Subs = {s1}
  Clients = {c1,c2}
  None = None
  MaxAttempts = 1
  MaxCodes = 2
  MaxInFlight = 2
  RequireVerification = FALSE
  Ops <- RaceOps
SYMMETRY Symmetry
INVARIANT OneWayIn
INVARIANT TwoFactorNeedsVerified
PROPERTY NoStaleRollback
PROPERTY ImplementsAccountLife
CHECK_DEADLOCK FALSE
