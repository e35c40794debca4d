SPECIFICATION WireSpec
CONSTANTS
  NoAddr = NoAddr
  a = a
  Addr = {a}
  MaxRcpt = 1
  MaxSize = 1
  Input <- MCInput
  Text <- MCText
  MaxText = 2
INVARIANTS
  WireTypeOK
  BodyIntact
  RepliesMatch
PROPERTIES
  NothingDropped
  ClientAnswered
CHECK_DEADLOCK FALSE
