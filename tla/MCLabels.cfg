SPECIFICATION Spec
CONSTANTS
  Labels = {k, l}
  Programs <- SomePrograms
  MaxLen = 5
  MaxStack = 4
  Returning = Returning
  Done = Done
  Overflow = Overflow
CHECK_DEADLOCK FALSE
PROPERTIES
  ImplementsJumps
  EveryRunEnds
