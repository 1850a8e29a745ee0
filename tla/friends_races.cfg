SPECIFICATION Spec
CONSTANTS
  Users = {u1, u2, u3}
  Items = {i1}
  Workers = {w1, w2}
  None = None
  MaxRows = 2
  MaxInFlight = 2
SYMMETRY Symmetry
INVARIANT NoOrphans
INVARIANT IInv
INVARIANT OneRowUnlessRaced
INVARIANT FriendsBothWant
PROPERTY SharedWithFriends
PROPERTY ImplementsFriendLife
CHECK_DEADLOCK FALSE
