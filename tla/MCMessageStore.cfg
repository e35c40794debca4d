SPECIFICATION FairSpec
CONSTANTS
  Delivery = {d1, d2, d3}
  a = a
  b = b
  x = x
  A = A
  B = B
  Addr = {a, b, x}
  Mailbox = {A, B}
  NoMailbox = NoMailbox
  InboxOf <- MCInboxOf
  Recipients <- MCRecipients
  NoDelivery = NoDelivery
  MaxConns = 2
  MaxUID = 4
INVARIANTS
  TypeOK
  UIDUnique
  UIDBelowNext
  AtMostOncePerRecipient
  CacheMatchesRow
  TxReleased
PROPERTIES
  ImplementsLedger
  DeliverReturns
CONSTRAINT Bound
CHECK_DEADLOCK FALSE
