CHECK_DEADLOCK FALSE
SPECIFICATION Spec
CONSTANTS
  InitialSize = 3
  Growables = {TRUE, FALSE}
  MaxSize = 6
INVARIANTS
  TypeOK
  NoAliasing
  HaltOnlyWhenExhausted
PROPERTY ImplementsAllocator
