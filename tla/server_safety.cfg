SPECIFICATION VSSpec
CONSTANTS
  Requests = {r1, r2, r3}
  Parent = Parent
  Backlog = 2
  Long = {r2}
  MaxFds = 3
  MaxProcs = 2
  Large = {r3}
  Faults = {"child", "server"}
CHECK_DEADLOCK FALSE
INVARIANTS LeakAccount ListenersAlive AnswerFitsCommand
PROPERTIES DescriptorsInherited HangUpOnlyWithServer
