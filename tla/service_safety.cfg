SPECIFICATION Spec
CONSTANTS
  Requests = {r1, r2}
  Parent = Parent
  Backlog = 1
  Long = {r1, r2}
  Faults = {"child", "server", "relay"}
  MaxFds = 2
  MaxProcs = 1
  Large = {r2}
  Threads = 3
  MaxSockets = 2
CHECK_DEADLOCK FALSE
INVARIANTS OneReply ClaimsOnlyAnswers
PROPERTIES ImplementsService GivesUpOnlyAfterServer RepliedOrHangs
