SPECIFICATION FairSpec
CONSTANTS
  a = a
  b = b
  x = x
  fun = fun
  Vars = {a, b, x}
  Funcs = {fun}
  ParamOf <- ParamOfFun
  None = None
  Broken = Broken
  Programs <- AllPrograms
CHECK_DEADLOCK FALSE
INVARIANTS
  AcceptedIsWellTyped
  PositionIsKnown
PROPERTIES
  TypesAreFinal
  EveryRoundResolves
  ResolutionEnds
