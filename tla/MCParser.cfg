SPECIFICATION FairSpec
CONSTANTS
  END = "END"
  Tokens <- AllTokens
  Inputs <- AllInputs
  Nothing = Nothing
  MaxLook = 2
  MaxDepth = 1
CHECK_DEADLOCK FALSE
INVARIANTS
  NothingIsLost
  SpeculationIsRight
  AcceptsTheGrammar
  BracketsMatch
  WholeSourceIsRead
  DocumentedIsAccepted
PROPERTIES
  ImplementsCursor
  ParsingEnds
