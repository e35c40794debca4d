SPECIFICATION LifeSpec
CONSTANT Conn = {c1, c2}
INVARIANTS
  LifeTypeOK
  ServesUntilSignal
PROPERTY Stops
CHECK_DEADLOCK FALSE
