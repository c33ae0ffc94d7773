SPECIFICATION Spec
CONSTANTS
  Requests = {r1, r2, r3}
  Parent = Parent
  Backlog = 1
  Long = {r2, r3}
  Faults = {"child"}
  MaxFds = 3
  MaxProcs = 3
  Large = {r3}
  Threads = 6
  MaxSockets = 3
CHECK_DEADLOCK FALSE
INVARIANTS RelaysResponse
PROPERTIES HangsAlone
