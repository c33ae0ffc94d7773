------------------------------ MODULE LogFileProofs ------------------------------
(* The locks of Printer::write_log, for any processes and threads.         *)
EXTENDS LogFile, TLAPS

(* A thread inside write_log holds its mutex, and who holds a mutex is     *)
(* inside.                                                                 *)
InsideHoldsMutex ==
  /\ \A t \in Threads :
       pc[t] \in {"locking", "writing", "closing", "leaving"} => mutex[Owner(t)] = t
  /\ \A p \in Processes : mutex[p] # "nobody" => mutex[p] \in ThreadsOf[p]

(* A call writes at most one entry.                                        *)
EntriesCounted ==
  \A t \in Threads :
    /\ entries[t] <= calls[t]
    /\ pc[t] \in {"entering", "locking", "writing"} => entries[t] < calls[t]

(* The inductive invariant.                                                *)
Inv == TypeOK /\ InsideHoldsMutex /\ WriterHoldsLock /\ HoldersAlive /\ EntriesCounted

(* The processes of the threads partition them: every thread has one       *)
(* owner, and belongs to nobody else.                                      *)
LEMMA OwnerFacts ==
  /\ \A t \in Threads : Owner(t) \in Processes /\ t \in ThreadsOf[Owner(t)]
  /\ \A p \in Processes : \A t \in ThreadsOf[p] : t \in Threads /\ Owner(t) = p
<1>1. ASSUME NEW t \in Threads PROVE Owner(t) \in Processes /\ t \in ThreadsOf[Owner(t)]
  <2>1. \E p \in Processes : t \in ThreadsOf[p]
    BY DEF Threads
  <2> QED
    BY <2>1 DEF Owner
<1>2. ASSUME NEW p \in Processes, NEW t \in ThreadsOf[p] PROVE t \in Threads /\ Owner(t) = p
  <2>1. t \in Threads
    BY DEF Threads
  <2> QED
    BY <1>1, <2>1, ThreadsAssumption
<1> QED
  BY <1>1, <1>2

(* Before the first call no lock is held and no thread is inside.          *)
LEMMA InitInv == Init => Inv
BY OwnerFacts, EntriesAssumption
   DEF Init, Inv, TypeOK, InsideHoldsMutex, WriterHoldsLock, HoldersAlive,
                       EntriesCounted

(* Every step of write_log, and the death of a process at any point of it, *)
(* keeps the locks accounted for.                                          *)
LEMMA NextInv == Inv /\ [Next]_vars => Inv'
<1> SUFFICES ASSUME Inv, [Next]_vars PROVE Inv'
  OBVIOUS
<1> USE DEF Inv, TypeOK
<1>0. /\ \A t \in Threads : Owner(t) \in Processes /\ t \in ThreadsOf[Owner(t)] /\ t # "nobody"
      /\ \A p \in Processes : p # "nobody" /\ \A t \in ThreadsOf[p] : t \in Threads /\ Owner(t) = p
  BY OwnerFacts, NobodyAssumption DEF Threads
<1>1. ASSUME NEW t \in Threads, Call(t) PROVE Inv'
  <2>1. TypeOK'
    BY <1>0, <1>1, EntriesAssumption DEF Call, Goto
  <2>2. InsideHoldsMutex' /\ WriterHoldsLock' /\ HoldersAlive'
    BY <1>0, <1>1 DEF Call, Goto, InsideHoldsMutex, WriterHoldsLock, HoldersAlive
  <2>3. EntriesCounted'
    BY <1>1, EntriesAssumption DEF Call, Goto, EntriesCounted
  <2> QED
    BY <2>1, <2>2, <2>3
<1>2. ASSUME NEW t \in Threads, Enter(t) PROVE Inv'
  BY <1>0, <1>2 DEF Enter, Goto, InsideHoldsMutex, WriterHoldsLock, HoldersAlive,
                    EntriesCounted
<1>3. ASSUME NEW t \in Threads, Lock(t) PROVE Inv'
  BY <1>0, <1>3 DEF Lock, Goto, InsideHoldsMutex, WriterHoldsLock, HoldersAlive,
                       EntriesCounted
<1>4. ASSUME NEW t \in Threads, LockFails(t) PROVE Inv'
  BY <1>0, <1>4 DEF LockFails, Goto, InsideHoldsMutex, WriterHoldsLock, HoldersAlive,
                       EntriesCounted
<1>5. ASSUME NEW t \in Threads, Write(t) PROVE Inv'
  <2>1. TypeOK'
    <3>1. entries[t] + 1 \in 0 .. MaxEntries
      BY EntriesAssumption, <1>5 DEF Write, EntriesCounted
    <3> QED
      BY <1>0, <1>5, <3>1 DEF Write, Goto
  <2>2. InsideHoldsMutex' /\ WriterHoldsLock' /\ HoldersAlive'
    BY <1>0, <1>5 DEF Write, Goto, InsideHoldsMutex, WriterHoldsLock, HoldersAlive
  <2>3. EntriesCounted'
    BY <1>5, EntriesAssumption DEF Write, Goto, EntriesCounted
  <2> QED
    BY <2>1, <2>2, <2>3
<1>6. ASSUME NEW t \in Threads, Close(t) PROVE Inv'
  BY <1>0, <1>6 DEF Close, Goto, InsideHoldsMutex, WriterHoldsLock, HoldersAlive,
                       EntriesCounted
<1>7. ASSUME NEW t \in Threads, Leave(t) PROVE Inv'
  BY <1>0, <1>7 DEF Leave, Goto, InsideHoldsMutex, WriterHoldsLock, HoldersAlive,
                       EntriesCounted
<1>8. ASSUME NEW p \in Processes, Kill(p) PROVE Inv'
  BY <1>0, <1>8 DEF Kill, InsideHoldsMutex, WriterHoldsLock, HoldersAlive,
                       EntriesCounted
<1>9. CASE UNCHANGED vars
  BY <1>9 DEF vars, InsideHoldsMutex, WriterHoldsLock, HoldersAlive,
                       EntriesCounted
<1> QED
  BY <1>1, <1>2, <1>3, <1>4, <1>5, <1>6, <1>7, <1>8, <1>9 DEF Next, Proceed

(* The locks of write_log, in every reachable state.                       *)
THEOREM AlwaysInv == Spec => []Inv
<1>1. Init => Inv
  BY InitInv
<1>2. Inv /\ [Next]_vars => Inv'
  BY NextInv
<1> QED
  BY <1>1, <1>2, PTL DEF Spec

(* Every variable keeps its type.                                          *)
THEOREM TypeCorrect == Spec => []TypeOK
<1>1. Inv => TypeOK
  BY DEF Inv
<1> QED
  BY <1>1, AlwaysInv, PTL

(* The record lock is not lost under a writer (Printer.h:136-162).         *)
THEOREM WriterHoldsLockHolds == Spec => []WriterHoldsLock
<1>1. Inv => WriterHoldsLock
  BY DEF Inv
<1> QED
  BY <1>1, AlwaysInv, PTL

(* One thread at a time writes to the file: two writers would both hold    *)
(* the record lock, so be of one process, and both hold its mutex.         *)
THEOREM ExclusiveHolds == Spec => []Exclusive
<1>1. Inv => Exclusive
  <2> SUFFICES ASSUME Inv,
                      NEW t \in Threads, NEW u \in Threads,
                      pc[t] = "writing", pc[u] = "writing"
               PROVE  t = u
    BY DEF Exclusive
  <2>1. Owner(t) = Owner(u)
    BY DEF Inv, WriterHoldsLock
  <2>2. mutex[Owner(t)] = t /\ mutex[Owner(u)] = u
    BY DEF Inv, InsideHoldsMutex
  <2> QED
    BY <2>1, <2>2
<1> QED
  BY <1>1, AlwaysInv, PTL

(* A killed process leaves no lock behind.                                 *)
THEOREM HoldersAliveHolds == Spec => []HoldersAlive
<1>1. Inv => HoldersAlive
  BY DEF Inv
<1> QED
  BY <1>1, AlwaysInv, PTL

(* Neither lock is waited for in a circle: who waits for the mutex waits   *)
(* for a thread inside, who waits for the record lock for one that writes  *)
(* or closes (Printer.h:126-162).                                          *)
THEOREM NoCircleHolds == Spec => []NoCircle
<1>1. Inv => NoCircle
  <2> SUFFICES ASSUME Inv, NEW t \in Threads, pc[t] \notin {"idle", "dead"}, ~CanProceed(t)
               PROVE  \E u \in Threads :
                        /\ Blocks(u, t)
                        /\ \/ CanProceed(u)
                           \/ \E v \in Threads : Blocks(v, u) /\ CanProceed(v)
    BY DEF NoCircle
  <2>1. ASSUME NEW u \in Threads, pc[u] = "locking", ~CanProceed(u)
        PROVE  \E v \in Threads : Blocks(v, u) /\ CanProceed(v)
    <3>1. fileLock \in Processes /\ fileLock # Owner(u)
      BY <2>1 DEF CanProceed, Inv, TypeOK
    <3>2. PICK v \in ThreadsOf[fileLock] : pc[v] \in {"writing", "closing"}
      BY <3>1, NobodyAssumption DEF Inv, HoldersAlive
    <3>3. v \in Threads /\ Owner(v) = fileLock
      BY <3>1, OwnerFacts
    <3> QED
      BY <2>1, <3>1, <3>2, <3>3 DEF Blocks, CanProceed
  <2>2. CASE pc[t] = "locking"
    BY <2>1, <2>2
  <2>3. CASE pc[t] = "entering"
    <3> DEFINE u == mutex[Owner(t)]
    <3>1. u # "nobody" /\ Owner(t) \in Processes
      BY <2>3, OwnerFacts DEF CanProceed
    <3>2. u \in Threads
      BY <3>1, OwnerFacts DEF Inv, InsideHoldsMutex
    <3>3. Blocks(u, t)
      BY <2>3 DEF Blocks
    <3>4. pc[u] \in {"locking", "writing", "closing", "leaving"}
      BY <3>1, <3>2 DEF Inv, HoldersAlive, TypeOK
    <3> HIDE DEF u
    <3>5. CanProceed(u) \/ \E v \in Threads : Blocks(v, u) /\ CanProceed(v)
      BY <2>1, <3>2, <3>4 DEF CanProceed
    <3> QED
      BY <3>2, <3>3, <3>5
  <2> QED
    BY <2>2, <2>3 DEF Inv, TypeOK, CanProceed
<1> QED
  BY <1>1, AlwaysInv, PTL

(* A call only goes on: each of its steps brings it nearer to its return   *)
(* (Printer.h:113-162).                                                    *)
THEOREM CallsGoOnHolds == Spec => CallsGoOn
<1> DEFINE Forward == \A t \in Threads :
      pc[t] # "idle" => pc'[t] = pc[t] \/ StepsLeft(pc'[t]) < StepsLeft(pc[t])
<1>1. Inv /\ [Next]_vars => Forward
  <2> SUFFICES ASSUME Inv, [Next]_vars, NEW t \in Threads, pc[t] # "idle", pc'[t] # pc[t]
               PROVE  StepsLeft(pc'[t]) < StepsLeft(pc[t])
    OBVIOUS
  <2>0. pc[t] \in {"entering", "locking", "writing", "closing", "leaving", "dead"}
    BY DEF Inv, TypeOK
  <2>1. PICK u \in Threads : \/ Enter(u) \/ Lock(u) \/ Write(u) \/ Close(u) \/ Leave(u)
                             \/ LockFails(u) \/ \E p \in Processes : Kill(p)
    <3>1. \A u \in Threads : ~Call(u) \/ pc'[t] = pc[t]
      BY DEF Call, Goto, Inv, TypeOK
    <3> QED
      BY <3>1 DEF Next, Proceed, vars
  <2>2. \/ pc[t] = "entering" /\ pc'[t] \in {"locking", "leaving"}
        \/ pc[t] = "locking" /\ pc'[t] \in {"writing", "closing"}
        \/ pc[t] = "writing" /\ pc'[t] = "closing"
        \/ pc[t] = "closing" /\ pc'[t] = "leaving"
        \/ pc[t] = "leaving" /\ pc'[t] = "idle"
        \/ pc[t] # "dead" /\ pc'[t] = "dead"
    BY <2>0, <2>1 DEF Enter, Lock, Write, Close, Leave, LockFails, Kill, Goto, Inv, TypeOK
  <2> QED
    BY <2>0, <2>2 DEF StepsLeft
<1> QED
  BY <1>1, AlwaysInv, PTL DEF Spec, CallsGoOn
================================================================================
