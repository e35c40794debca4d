SPECIFICATION Spec
CONSTANTS
  NoAddr = NoAddr
  Addr = {a1, a2}
  MaxRcpt = 2
  MaxSize = 1
  Input <- MCInput
INVARIANT FreshEnvelope
CHECK_DEADLOCK FALSE
