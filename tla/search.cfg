SPECIFICATION FairSpec
CONSTANTS
  p1 = p1
  p2 = p2
  c1 = c1
  c2 = c2
  c3 = c3
  Prompts = {p1, p2}
  Cards = {c1, c2, c3}
  None = None
  Lexical <- TwoLexical
  Semantic <- TwoSemantic
  Ties <- TwoTies
  K = 60
  Pool = 3
  Limit = 2
  Connections = 1
  HasKey = TRUE
  MaxSearches = 2
  MaxFrames = 2
INVARIANT OwnCards
INVARIANT Complete
PROPERTY ConnectionServed
PROPERTY PageSettles
PROPERTY ExactNameSurvives
PROPERTY ImplementsCardStream
CHECK_DEADLOCK FALSE
