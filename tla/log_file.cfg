SPECIFICATION Spec
CONSTANTS
  p1 = p1
  p2 = p2
  t1 = t1
  t2 = t2
  t3 = t3
  Processes = {p1, p2}
  ThreadsOf <- MCThreadsOf
  Killable = {p2}
  MaxEntries = 3
CHECK_DEADLOCK FALSE
INVARIANTS Exclusive WriterHoldsLock
PROPERTIES CallsReturn
