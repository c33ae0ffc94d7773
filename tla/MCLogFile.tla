-------------------------------- MODULE MCLogFile --------------------------------
(* A process with two threads (as the relay) and one with one thread that  *)
(* may be killed (as a child of the validator), on one log file.           *)
EXTENDS LogFile, TLC

CONSTANTS p1, p2, t1, t2, t3

MCThreadsOf == (p1 :> {t1, t2}) @@ (p2 :> {t3})
================================================================================
