SPECIFICATION Spec
CONSTANTS
  u1 = u1
  u2 = u2
  User = {u1, u2}
  Mailbox = {u1}
  NoUser = NoUser
  Req = {r1, r2}
  Batch <- MCBatch
  TTL = 1
  MaxClock = 2
  MaxUID = 3
INVARIANTS
  TypeOK
  AnswersMatchCalls
  MonotonicReads
PROPERTY AccessEnds
CONSTRAINT Bound
SYMMETRY ReqSymmetry
CHECK_DEADLOCK FALSE
