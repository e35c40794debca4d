SPECIFICATION MailSpec
CONSTANTS
  NoAddr <- MCNoAddr
  Addr <- MCAddr
  MaxRcpt = 2
  MaxSize = 1
  Input <- MCInput
  Delivery = {d1, d2, d3}
  A = A
  B = B
  Mailbox = {A, B}
  NoMailbox = NoMailbox
  NoDelivery = NoDelivery
  MaxConns = 1
  MaxUID = 9
  Conn = {c}
  Text <- MCText
  Mine = {d1, d2}
  OtherTo <- MCOtherTo
  Names <- MCNames
  Users <- MCUsers
INVARIANT AcceptedIsPersisted
CONSTRAINT Bound
CHECK_DEADLOCK FALSE
