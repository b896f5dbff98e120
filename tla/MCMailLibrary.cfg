\* Two accounts, of which one has a folder the other has not, two messages in every mailbox,
\* whose numbers are compared for equality alone, three inputs.
CONSTANTS
  a = a
  b = b
  inbox = inbox
  work = work
  u1 = u1
  u2 = u2
  Accounts <- TwoAccounts
  Folders <- TwoFolders
  Inbox = inbox
  Mailboxes <- WorkOfA
  Fallback <- InboxOnly
  Uids <- TwoUids
  Width = 1
  None = None
  MaxInputs = 3
  MaxCalls = 1
  MaxReads = 2
  Begin <- WorkHere
  Openings = {}
SYMMETRY UidSymmetry
SPECIFICATION Spec
CHECK_DEADLOCK FALSE
INVARIANTS TypeOK RowsOfTheirMailbox WrongMailboxExplained GoneStaysGone NothingHidden SpinnerHasCall
