SPECIFICATION FairSpec
CONSTANTS
  Command = {c1, c2}
  Requests <- MCRequests
  Workers = 2
  MaxAttempts = 2
  NoEvent = NoEvent
INVARIANTS
  TypeOK
  OneConnection
PROPERTIES
  ImplementsReply
  CommandsAnswered
