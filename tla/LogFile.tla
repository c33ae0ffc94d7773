--------------------------------- MODULE LogFile ---------------------------------
(***************************************************************************)
(* Printer::write_log (Printer.h): the threads of several processes append *)
(* entries to one log file.  A mutex orders the threads of a process, a    *)
(* POSIX record lock the processes.  The kernel keeps record locks per     *)
(* process: a second thread of the holder is granted the lock at once, and *)
(* closing ANY descriptor of the file drops the lock of the whole process. *)
(***************************************************************************)
EXTENDS Naturals, FiniteSets

CONSTANTS
  Processes,    \* processes with a Printer for the file
  ThreadsOf,    \* ThreadsOf[p]: the threads of p that log
  Killable,     \* processes that may be killed (the validator's children)
  MaxEntries    \* bound: calls of one thread

ASSUME ThreadsAssumption ==
  /\ ThreadsOf \in [Processes -> SUBSET UNION {ThreadsOf[p] : p \in Processes}]
  /\ \A p, q \in Processes : p # q => ThreadsOf[p] \cap ThreadsOf[q] = {}
ASSUME KillableAssumption == Killable \subseteq Processes
ASSUME EntriesAssumption  == MaxEntries \in Nat
ASSUME NobodyAssumption   == "nobody" \notin Processes \cup UNION {ThreadsOf[p] : p \in Processes}

Threads == UNION {ThreadsOf[p] : p \in Processes}

Owner(t) == CHOOSE p \in Processes : t \in ThreadsOf[p]

VARIABLES
  pc,           \* pc[t]: "idle", "entering" (waits for the mutex), "locking",
                \* "writing", "closing", "leaving", "dead"
  mutex,        \* mutex[p]: the thread of p that holds thread_log_mutex_
  fileLock,     \* the process that holds the record lock
  calls,        \* calls[t]: calls of write_log begun
  entries       \* entries[t]: entries of t in the file

vars == <<pc, mutex, fileLock, calls, entries>>

(* Every variable has its type.                                            *)
TypeOK ==
  /\ pc \in [Threads -> {"idle", "entering", "locking", "writing", "closing",
                      "leaving", "dead"}]
  /\ mutex \in [Processes -> Threads \cup {"nobody"}]
  /\ fileLock \in Processes \cup {"nobody"}
  /\ calls \in [Threads -> 0 .. MaxEntries]
  /\ entries \in [Threads -> 0 .. MaxEntries]

Init ==
  /\ pc = [t \in Threads |-> "idle"]
  /\ mutex = [p \in Processes |-> "nobody"]
  /\ fileLock = "nobody"
  /\ calls = [t \in Threads |-> 0]
  /\ entries = [t \in Threads |-> 0]

Goto(t, place) == pc' = [pc EXCEPT ![t] = place]

Call(t) ==
  /\ pc[t] = "idle"
  /\ calls[t] < MaxEntries
  /\ calls' = [calls EXCEPT ![t] = @ + 1]
  /\ Goto(t, "entering")
  /\ UNCHANGED <<mutex, fileLock, entries>>

(* lock_guard, and open(); a file that cannot be opened is complained of   *)
(* on stdout and the call returns through the destructor of the guard.     *)
Enter(t) ==
  /\ pc[t] = "entering"
  /\ mutex[Owner(t)] = "nobody"
  /\ mutex' = [mutex EXCEPT ![Owner(t)] = t]
  /\ Goto(t, "locking") \/ Goto(t, "leaving")
  /\ UNCHANGED <<fileLock, calls, entries>>

(* Mutant: a shared lock.                                                  *)
LockShared(t) ==
  /\ pc[t] = "locking"
  /\ fileLock' = Owner(t)
  /\ Goto(t, "writing")
  /\ UNCHANGED <<mutex, calls, entries>>

(* fcntl(F_SETLKW) is granted ...                                          *)
Lock(t) ==
  /\ pc[t] = "locking"
  /\ fileLock \in {Owner(t), "nobody"}
  /\ fileLock' = Owner(t)
  /\ Goto(t, "writing")
  /\ UNCHANGED <<mutex, calls, entries>>

(* Mutant: a failed lock is ignored.                                       *)
LockFailsWrites(t) ==
  /\ pc[t] = "locking"
  /\ Goto(t, "writing")
  /\ UNCHANGED <<mutex, fileLock, calls, entries>>

(* ... or fails, and write_log returns without a word.                     *)
LockFails(t) ==
  /\ pc[t] = "locking"
  /\ Goto(t, "closing")
  /\ UNCHANGED <<mutex, fileLock, calls, entries>>

Write(t) ==
  /\ pc[t] = "writing"
  /\ \/ entries' = [entries EXCEPT ![t] = @ + 1]
     \/ UNCHANGED entries                       \* write() failed
  /\ Goto(t, "closing")
  /\ UNCHANGED <<mutex, fileLock, calls>>

(* ~FileGuard closes the descriptor ...                                    *)
Close(t) ==
  /\ pc[t] = "closing"
  /\ fileLock' = IF fileLock = Owner(t) THEN "nobody" ELSE fileLock
  /\ Goto(t, "leaving")
  /\ UNCHANGED <<mutex, calls, entries>>

(* ... and only then ~lock_guard releases the mutex.                       *)
Leave(t) ==
  /\ pc[t] = "leaving"
  /\ mutex' = [mutex EXCEPT ![Owner(t)] = "nobody"]
  /\ Goto(t, "idle")
  /\ UNCHANGED <<fileLock, calls, entries>>

(* Mutant: a lock file instead of a record lock.                           *)
KillStale(p) ==
  /\ p \in Killable
  /\ \E t \in ThreadsOf[p] : pc[t] # "dead"
  /\ pc' = [t \in Threads |-> IF t \in ThreadsOf[p] THEN "dead" ELSE pc[t]]
  /\ mutex' = [mutex EXCEPT ![p] = "nobody"]
  /\ UNCHANGED <<fileLock, calls, entries>>

Kill(p) ==
  /\ p \in Killable
  /\ \E t \in ThreadsOf[p] : pc[t] # "dead"
  /\ pc' = [t \in Threads |-> IF t \in ThreadsOf[p] THEN "dead" ELSE pc[t]]
  /\ mutex' = [mutex EXCEPT ![p] = "nobody"]
  /\ fileLock' = IF fileLock = p THEN "nobody" ELSE fileLock
  /\ UNCHANGED <<calls, entries>>

Proceed(t) == Enter(t) \/ Lock(t) \/ Write(t) \/ Close(t) \/ Leave(t)

Next ==
  \/ \E t \in Threads : Call(t) \/ Proceed(t) \/ LockFails(t)
  \/ \E p \in Processes : Kill(p)

(* A thread that can go on does; the kernel is not expected to refuse a    *)
(* lock.  Calls are finitely many here, so whoever waits for a lock is     *)
(* passed over finitely often.                                             *)
Fairness == \A t \in Threads : WF_vars(Proceed(t))

Spec == Init /\ [][Next]_vars /\ Fairness

--------------------------------------------------------------------------------
(* "acquire exclusive lock" (Printer.h:136): of all threads of all         *)
(* processes one at a time is between the lock and the close.              *)
Exclusive ==
  \A t, u \in Threads : pc[t] = "writing" /\ pc[u] = "writing" => t = u

(* The lock is not lost under a writer: nothing that another thread of the *)
(* process does, its close() included, drops it before the entry is out.   *)
WriterHoldsLock == \A t \in Threads : pc[t] = "writing" => fileLock = Owner(t)

(* A process killed inside write_log leaves nothing locked: whoever holds  *)
(* a lock is alive to release it.                                          *)
HoldersAlive ==
  /\ fileLock # "nobody" => \E t \in ThreadsOf[fileLock] : pc[t] \in {"writing", "closing"}
  /\ \A p \in Processes : mutex[p] # "nobody" => pc[mutex[p]] \notin {"idle", "entering", "dead"}

(* What Proceed(t) waits for.                                              *)
CanProceed(t) ==
  \/ pc[t] = "entering" /\ mutex[Owner(t)] = "nobody"
  \/ pc[t] = "locking" /\ fileLock \in {Owner(t), "nobody"}
  \/ pc[t] \in {"writing", "closing", "leaving"}

(* u has what t waits for: the mutex, or for its process the record lock.  *)
Blocks(u, t) ==
  \/ pc[t] = "entering" /\ mutex[Owner(t)] = u
  \/ pc[t] = "locking" /\ fileLock # Owner(t) /\ fileLock = Owner(u)
     /\ pc[u] \in {"writing", "closing"}

(* Neither lock is waited for in a circle: a call that cannot go on waits  *)
(* for one that can, or for one that waits for one that can, whoever was   *)
(* killed on the way (Printer.h:126-162).                                  *)
NoCircle ==
  \A t \in Threads : pc[t] \notin {"idle", "dead"} =>
    \/ CanProceed(t)
    \/ \E u \in Threads :
         Blocks(u, t) /\ (CanProceed(u) \/ \E v \in Threads : Blocks(v, u) /\ CanProceed(v))

(* How many steps a call still has to take.                                *)
StepsLeft(place) ==
  CASE place = "entering" -> 5 [] place = "locking" -> 4 [] place = "writing" -> 3
    [] place = "closing" -> 2 [] place = "leaving" -> 1 [] OTHER -> 0

(* No call goes back, retries or starts over: each of its steps, and       *)
(* nothing another thread does, brings it nearer to its return             *)
(* (Printer.h:113-162).                                                    *)
CallsGoOn ==
  [][\A t \in Threads :
       pc[t] # "idle" => pc'[t] = pc[t] \/ StepsLeft(pc'[t]) < StepsLeft(pc[t])]_vars

(* Every call returns: neither lock is waited for in a circle.             *)
CallsReturn == \A t \in Threads : pc[t] # "idle" ~> pc[t] \in {"idle", "dead"}
================================================================================
