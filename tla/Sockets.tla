-------------------------------- MODULE Sockets --------------------------------
(***************************************************************************)
(* The TCP connections between the relay server (port 3001) and the        *)
(* validator server (port 3002), as the kernel keeps them and as the calls *)
(* of both programs see them.  A request opens at most one connection, so  *)
(* a connection is named by its request, and the process the validator     *)
(* forks for a connection is named by it too.                              *)
(*                                                                         *)
(* What matters is WHO still holds a descriptor: neither program sets      *)
(* close-on-exec or closes what a fork duplicates, and a reader is told of *)
(* the end of a connection only when the last copy of the other end is     *)
(* closed.                                                                 *)
(***************************************************************************)
EXTENDS Naturals, Sequences, FiniteSets

CONSTANTS
  Requests,     \* HTTP requests, each the name of its connection and its child
  Parent,       \* the validator server's accepting process
  Backlog,      \* completed connections the listening socket can queue
  Long,         \* requests whose command may be longer than the buffers of a
                \* connection: sending it then takes a process that reads
  Faults        \* which faults happen: "child", "server", "relay" is killed

ASSUME RequestsAssumption == IsFiniteSet(Requests)
ASSUME ParentAssumption  == Parent \notin Requests
ASSUME BacklogAssumption == Backlog \in Nat \ {0}
ASSUME LongAssumption    == Long \subseteq Requests
ASSUME FaultsAssumption  == Faults \subseteq {"child", "server", "relay"}

Processes == Requests \cup {Parent}

Commands == {"VALIDATE", "GENERATE"}

(* What a handler of the validator answers to each command, as far as the  *)
(* relay tells the texts apart: "correct", a complaint about the functions *)
(* to compare, or any other text (the verifier's doubts and "failed to     *)
(* parse IR files" alike: "incorrect"); both IRs or one of the error texts *)
(* of handle_generate_request.                                             *)
Results(command) ==
  IF command = "VALIDATE" THEN {"correct", "incorrect", "no function"}
                          ELSE {"irs", "no irs"}

AllResults == Results("VALIDATE") \cup Results("GENERATE")

VARIABLES
  backlog,      \* connections completed by the kernel, not accepted yet
  listeners,    \* processes that hold the listening socket
  held,         \* held[p]: connections whose validator-side descriptor p holds
  relayEnd,     \* relayEnd[r]: the relay's descriptor: "none", "open", "closed"
  toServer,     \* toServer[r]: what the relay has sent: "nothing", "part" of
                \* a command, a part that was "taken" out of the buffers so
                \* that there is room again, or the command
  toRelay       \* toRelay[r]: what the validator has sent: "nothing", "part"
                \* of a response, or the result in the response

socketVars == <<backlog, listeners, held, relayEnd, toServer, toRelay>>

SocketsTypeOK ==
  /\ backlog \in Seq(Requests)
  /\ listeners \in SUBSET Processes
  /\ held \in [Processes -> SUBSET Requests]
  /\ relayEnd \in [Requests -> {"none", "open", "closed"}]
  /\ toServer \in [Requests -> Commands \cup {"nothing", "part", "taken"}]
  /\ toRelay \in [Requests -> AllResults \cup {"nothing", "part"}]

SocketsInit ==
  /\ backlog = <<>>
  /\ listeners = {Parent}
  /\ held = [p \in Processes |-> {}]
  /\ relayEnd = [r \in Requests |-> "none"]
  /\ toServer = [r \in Requests |-> "nothing"]
  /\ toRelay = [r \in Requests |-> "nothing"]

Queued == {backlog[i] : i \in DOMAIN backlog}

(* The relay's read returns 0 or -1 once it has consumed what was sent.    *)
HungUp(r) ==
  /\ relayEnd[r] = "open"
  /\ r \notin Queued
  /\ \A p \in Processes : r \notin held[p]

(* socket() and a connect() that the kernel completes; the connection is   *)
(* queued whether or not anybody will ever accept it.                      *)
OpenConnection(r) ==
  /\ relayEnd[r] = "none"
  /\ listeners # {}
  /\ Len(backlog) < Backlog
  /\ backlog' = Append(backlog, r)
  /\ relayEnd' = [relayEnd EXCEPT ![r] = "open"]
  /\ UNCHANGED <<listeners, held, toServer, toRelay>>

(* Process p ends, leaving `rest` of the queued connections: its           *)
(* descriptors close, and the queue goes with the last process that holds  *)
(* the listening socket.                                                   *)
EndProcess(p, rest) ==
  /\ listeners' = listeners \ {p}
  /\ held' = [held EXCEPT ![p] = {}]
  /\ backlog' = IF listeners \subseteq {p} THEN <<>> ELSE rest
  /\ UNCHANGED relayEnd
================================================================================
