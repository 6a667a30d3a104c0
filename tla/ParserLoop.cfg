SPECIFICATION Spec
CONSTANTS
  END = "END"
  Tokens <- AllTokens
  Inputs <- AllInputs
  Nothing = Nothing
  MaxLook = 2
  MaxDepth = 1
CHECK_DEADLOCK FALSE
INVARIANT
  GrammarIsAccepted
