SPECIFICATION Spec
CONSTANTS
  MaxInt = 19
  Chunk = 3
  x = x
  y = y
  z = z
  a = a
  b = b
  c = c
  d = d
  Vars = {x, y, z}
  NULL = NULL
  Lost = Lost
  Nothing = Nothing
  Literals <- SomeLiterals
  Spans <- SomeSpans
  Files <- SomeFiles
  Numbers <- SomeNumbers
  MaxLen = 2
  Addrs = {a, b, c, d}
SYMMETRY Symmetric
CHECK_DEADLOCK FALSE
INVARIANTS
  TextsFit
PROPERTY
  ImplementsValues
