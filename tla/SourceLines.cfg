SPECIFICATION Spec
CONSTANTS
  main = main
  defs = defs
  first = first
  second = second
  Names = {main, defs, first, second}
  Main = main
  Defs = defs
  Programs <- AllPrograms
  Rank <- RankOf
CHECK_DEADLOCK FALSE
INVARIANTS
  LineIsTheFiles
