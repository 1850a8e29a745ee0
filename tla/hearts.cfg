SPECIFICATION Spec
CONSTANTS
  Accounts = {a, b}
  Items = {i}
  None = None
  MaxTurns = 4
SYMMETRY Symmetry
INVARIANT SignedOutEmpty
INVARIANT IInv
INVARIANT Agreement
PROPERTY AnswersYieldUnlessRestarted
CHECK_DEADLOCK FALSE
