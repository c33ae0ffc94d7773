SPECIFICATION VSSpec
CONSTANTS
  Requests = {r1, r2, r3}
  Parent = Parent
  Backlog = 2
  Long = {}
  MaxFds = 2
  MaxProcs = 3
  Large = {r3}
  Faults = {"child"}
CHECK_DEADLOCK FALSE
PROPERTIES QueueServed
