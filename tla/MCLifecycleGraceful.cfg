SPECIFICATION LifeSpec
CONSTANT Conn = {c1, c2}
INVARIANT GracefulShutdown
CHECK_DEADLOCK FALSE
