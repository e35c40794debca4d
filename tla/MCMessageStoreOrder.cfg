SPECIFICATION Spec
CONSTANTS
  Delivery = {d1, d2}
  a = a
  b = b
  x = x
  A = A
  B = B
  Addr = {a, b, x}
  Mailbox = {A, B}
  NoMailbox = NoMailbox
  InboxOf <- MCInboxOf
  Recipients <- MCRecipients
  NoDelivery = NoDelivery
  MaxConns = 2
  MaxUID = 3
PROPERTY UIDAscending
CHECK_DEADLOCK FALSE
