SPECIFICATION Spec
CONSTANTS
  PeryanMain = PeryanMain
  NULL = NULL
  Labels = {l1}
  Funcs = {f1}
  MaxStmts = 3
INVARIANTS
  FlowInv
  OneTerminatorEach
  BranchesStayInFunction
  JumpsReachTheirLoop
  EveryRoundIsCounted
  PhisMatchPredecessors
  InsertPointFollowsBody
