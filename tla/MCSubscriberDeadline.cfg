SPECIFICATION Spec
CONSTANTS
  Heads = 2
  Buffer = 2
  DialErrors <- AnyDialError
INVARIANT EndsOnlyOnCancel
CHECK_DEADLOCK FALSE
