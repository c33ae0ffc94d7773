----------------------------- MODULE RequestService -----------------------------
(***************************************************************************)
(* What the two servers together promise an HTTP client: a request that    *)
(* was posted gets at most one reply, and a reply claims what the verifier *)
(* or the compilers did with that request, and nothing else.               *)
(***************************************************************************)
CONSTANTS
  Requests,
  Reliable      \* the validator server does not go down

VARIABLES
  posted,       \* requests that arrived
  outcome,      \* outcome[r]: what the handler of r came to, "none" before
  reply         \* reply[r]: what the client was told, "none" before

vars == <<posted, outcome, reply>>

Outcomes == {"correct", "incorrect", "no function", "irs", "no irs"}
Errors   == {"error", "internal", "not found"}
Replies  == Errors \cup {"verified", "not verified", "irs"}

(* What may be told, given the outcome.  An error is always allowed; a     *)
(* failed verification needs an incorrect translation only as long as no   *)
(* answer can get lost.                                                    *)
Allowed(result, a) ==
  \/ a \in Errors
  \/ a = "verified"     /\ result = "correct"
  \/ a = "irs"          /\ result = "irs"
  \/ a = "not verified" /\ (result = "incorrect" \/ ~Reliable)

Init ==
  /\ posted = {}
  /\ outcome = [r \in Requests |-> "none"]
  /\ reply = [r \in Requests |-> "none"]

Arrive(r) ==
  /\ r \notin posted
  /\ posted' = posted \cup {r}
  /\ UNCHANGED <<outcome, reply>>

Work(r) ==
  /\ r \in posted
  /\ outcome[r] = "none"
  /\ \E o \in Outcomes : outcome' = [outcome EXCEPT ![r] = o]
  /\ UNCHANGED <<posted, reply>>

Answer(r) ==
  /\ r \in posted
  /\ reply[r] = "none"
  /\ \E a \in Replies : Allowed(outcome[r], a) /\ reply' = [reply EXCEPT ![r] = a]
  /\ UNCHANGED <<posted, outcome>>

Next == \E r \in Requests : Arrive(r) \/ Work(r) \/ Answer(r)

Spec == Init /\ [][Next]_vars
================================================================================
