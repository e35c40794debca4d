SPECIFICATION Spec
CONSTANTS
  INBOX = INBOX
  NoUser = NoUser
  NoBox = NoBox
  User = {u1, u2}
  Trash = Trash
  Folder = {INBOX, Sent, Trash}
  Boxes <- MCBoxes
  Mailbox <- MCMailbox
  MaxUID = 3
INVARIANTS
  TypeOK
  SelectedMatchesState
  OnlyOwnMessages
  NothingVanishes
  ReadOnlyIsKept
PROPERTIES
  UIDNextIsFresh
  UpgradeBeforeLogin
CONSTRAINT Bound
SYMMETRY UserSymmetry
CHECK_DEADLOCK FALSE
