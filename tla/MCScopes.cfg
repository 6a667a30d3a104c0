SPECIFICATION Spec
CONSTANTS
  x = x
  g = g
  String = String
  Cnt = Cnt
  None = None
  Names = {x, g, String, Cnt}
  BuiltIns = {String}
  Programs <- AllPrograms
CHECK_DEADLOCK FALSE
INVARIANTS
  LexicallyScoped
  VerdictIsRight
