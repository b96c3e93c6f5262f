SPECIFICATION LiveSpec
CONSTANTS
  Keys = {"volume"}
  Values = {0}
  Capacity = 1
  MaxPolls = 1
  MaxCommands = 2
  MaxGen = 2
  MaxChanges = 0
INVARIANTS
  TypeOK
  ExactlyOnePlace
  MailboxBounded
PROPERTIES
  EveryCommandAnswered
  MailboxImplemented
