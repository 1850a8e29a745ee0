SPECIFICATION Spec
CONSTANTS
  Users = {u1, u2}
  Items = {i1}
  Workers = {w1, w2}
  None = None
  MaxRows = 2
  MaxInFlight = 2
SYMMETRY Symmetry
INVARIANT OneRowBetween
CHECK_DEADLOCK FALSE
