SPECIFICATION Spec
CONSTANTS
  Requests = {r1, r2}
  Parent = Parent
  Backlog = 1
  Long = {}
  Faults = {}
  MaxFds = 2
  MaxProcs = 2
  Large = {}
  Threads = 2
  MaxSockets = 2
CHECK_DEADLOCK FALSE
PROPERTIES EveryRequestReplied
