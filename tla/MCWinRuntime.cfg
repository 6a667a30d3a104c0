SPECIFICATION FairSpec
CONSTANTS
  Pixels = {p1, p2}
  Colors = {White, Black}
  White = White
  Black = Black
  NoPicture = NoPicture
  MaxInput = 2
  MaxWait = 2
INVARIANTS
  Inv
  ContextIsLive
  QuitIsFinal
  ShownBeforeReturning
PROPERTIES
  ImplementsCanvas
  ClosingEndsTheProcess
