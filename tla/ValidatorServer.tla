---------------------------- MODULE ValidatorServer ----------------------------
(***************************************************************************)
(* The validator server: one process accepts connections and forks a child *)
(* for each; the child reads one command, runs the handler, sends the      *)
(* response and exits (ValidatorServer.cpp).  The parent neither closes    *)
(* the connection it hands to a child nor waits for the child, and a child *)
(* inherits every descriptor its parent holds.                             *)
(***************************************************************************)
EXTENDS Sockets

CONSTANTS
  MaxFds,       \* descriptors the parent can have open for connections
  MaxProcs,     \* children, dead ones not waited for included, the kernel allows
  Large         \* requests whose command takes 8 digits or more to count

ASSUME LimitsAssumption == MaxFds \in Nat /\ MaxProcs \in Nat
ASSUME LargeAssumption  == Large \subseteq Requests

VARIABLES
  server,       \* the parent: "running", "down"
  child,        \* child[c]: "none", "reading", "working", "answering",
                \* "zombie" (dead, not waited for), "reaped"
  result        \* result[c]: what the handler returned, "none" before

serverVars == <<server, child, result>>

Live   == {c \in Requests : child[c] \in {"reading", "working", "answering"}}
Zombie == {c \in Requests : child[c] = "zombie"}

ServerTypeOK ==
  /\ server \in {"running", "down"}
  /\ child \in [Requests -> {"none", "reading", "working", "answering",
                             "zombie", "reaped"}]
  /\ result \in [Requests -> AllResults \cup {"none"}]

ServerInit ==
  /\ server = "running"
  /\ child = [c \in Requests |-> "none"]
  /\ result = [c \in Requests |-> "none"]

--------------------------------------------------------------------------------
(* The parent.  A failed accept (no descriptor left) is logged and the     *)
(* loop tries again: it changes nothing, so no action stands for it.       *)

CanAccept ==
  /\ server = "running"
  /\ backlog # <<>>
  /\ Cardinality(held[Parent]) < MaxFds

CanFork == Cardinality(Live \cup Zombie) < MaxProcs

(* Mutants: the parent closes what it handed over; the child is forked     *)
(* before the connection is accepted.                                      *)
AcceptAndForkCloses ==
  /\ CanAccept
  /\ CanFork
  /\ LET c == Head(backlog)
     IN  /\ held' = [held EXCEPT ![c] = held[Parent] \cup {c}]
         /\ listeners' = listeners \cup {c}
         /\ child' = [child EXCEPT ![c] = "reading"]
  /\ backlog' = Tail(backlog)
  /\ UNCHANGED <<relayEnd, toServer, toRelay, server, result>>

AcceptAndForkEarly ==
  /\ CanAccept
  /\ CanFork
  /\ LET c == Head(backlog)
     IN  /\ held' = [held EXCEPT ![Parent] = @ \cup {c}, ![c] = held[Parent]]
         /\ listeners' = listeners \cup {c}
         /\ child' = [child EXCEPT ![c] = "reading"]
  /\ backlog' = Tail(backlog)
  /\ UNCHANGED <<relayEnd, toServer, toRelay, server, result>>

AcceptAndFork ==
  /\ CanAccept
  /\ CanFork
  /\ LET c == Head(backlog)
         descriptors == held[Parent] \cup {c}
     IN  /\ held' = [held EXCEPT ![Parent] = descriptors, ![c] = descriptors]
         /\ listeners' = listeners \cup {c}
         /\ child' = [child EXCEPT ![c] = "reading"]
  /\ backlog' = Tail(backlog)
  /\ UNCHANGED <<relayEnd, toServer, toRelay, server, result>>

(* The parent's zombies pass to init, which waits for them.                *)
EndParent(rest) ==
  /\ server' = "down"
  /\ child' = [c \in Requests |-> IF child[c] = "zombie" THEN "reaped"
                                                         ELSE child[c]]
  /\ EndProcess(Parent, rest)
  /\ UNCHANGED <<toServer, toRelay, result>>

ForkFails ==
  /\ CanAccept
  /\ ~CanFork
  /\ EndParent(Tail(backlog))

ServerKilled ==
  /\ "server" \in Faults
  /\ server = "running"
  /\ EndParent(backlog)

(* Mutant: the bind succeeds whoever holds the old socket.                 *)
StartServerAnyway ==
  /\ server = "down"
  /\ server' = "running"
  /\ listeners' = {Parent}
  /\ UNCHANGED <<backlog, held, relayEnd, toServer, toRelay, child, result>>

(* The program is run again.  While a child of the earlier run holds the   *)
(* listening socket the bind fails and the new process exits at once,      *)
(* which changes nothing.                                                  *)
StartServer ==
  /\ server = "down"
  /\ listeners = {}
  /\ server' = "running"
  /\ listeners' = {Parent}
  /\ UNCHANGED <<backlog, held, relayEnd, toServer, toRelay, child, result>>

--------------------------------------------------------------------------------
(* A child.                                                                *)

EndChild(c) ==
  /\ child' = [child EXCEPT ![c] = IF server = "running" THEN "zombie"
                                                         ELSE "reaped"]
  /\ EndProcess(c, backlog)
  /\ UNCHANGED server

(* read_until_length takes from a command that does not fit the buffers,   *)
(* so that the relay can go on sending.                                    *)
TakePart(c) ==
  /\ child[c] = "reading"
  /\ c \in Long \ Large
  /\ toServer[c] = "part"
  /\ relayEnd[c] = "open"
  /\ toServer' = [toServer EXCEPT ![c] = "taken"]
  /\ UNCHANGED <<backlog, listeners, held, relayEnd, toRelay, serverVars>>

(* Mutant: a command of any length is read.                                *)
ReadCommandLong(c) ==
  /\ child[c] = "reading"
  /\ toServer[c] \in Commands
  /\ child' = [child EXCEPT ![c] = "working"]
  /\ UNCHANGED <<socketVars, server, result>>

ReadCommand(c) ==
  /\ child[c] = "reading"
  /\ toServer[c] \in Commands
  /\ c \notin Large
  /\ child' = [child EXCEPT ![c] = "working"]
  /\ UNCHANGED <<socketVars, server, result>>

(* The child exits without an answer: the length, which comes first, has   *)
(* too many digits, the connection ends inside the command                 *)
(* (read_until_length throws) or before it (the empty command is unknown). *)
RejectCommand(c) ==
  /\ child[c] = "reading"
  /\ \/ toServer[c] # "nothing" /\ c \in Large
     \/ toServer[c] \notin Commands /\ relayEnd[c] = "closed"
  /\ EndChild(c)
  /\ UNCHANGED <<toServer, toRelay, result>>

HandleCommand(c) ==
  /\ child[c] = "working"
  /\ \E answer \in Results(toServer[c]) :
       result' = [result EXCEPT ![c] = answer]
  /\ child' = [child EXCEPT ![c] = "answering"]
  /\ UNCHANGED <<socketVars, server>>

(* A failed send is logged and the child exits all the same.               *)
SendResponse(c) ==
  /\ child[c] = "answering"
  /\ toRelay' = IF relayEnd[c] = "open"
                THEN [toRelay EXCEPT ![c] = result[c]] ELSE toRelay
  /\ EndChild(c)
  /\ UNCHANGED <<toServer, result>>

(* A limit set by setrlimit is reached, the verifier crashes or an         *)
(* exception ends the child, at any point, inside the send too, and inside *)
(* the read: the room it made is then enough for the rest of the command,  *)
(* or that fills it again.                                                 *)
ChildDies(c) ==
  /\ "child" \in Faults
  /\ c \in Live
  /\ \/ UNCHANGED <<toServer, toRelay>>
     \/ /\ child[c] = "answering"
        /\ toRelay' = [toRelay EXCEPT ![c] = "part"]
        /\ UNCHANGED toServer
     \/ /\ toServer[c] = "taken"
        /\ toServer' = [toServer EXCEPT ![c] = "part"]
        /\ UNCHANGED toRelay
  /\ EndChild(c)
  /\ UNCHANGED result

ChildStep(c) ==
  \/ TakePart(c)
  \/ ReadCommand(c)
  \/ RejectCommand(c)
  \/ HandleCommand(c)
  \/ SendResponse(c)

ServerNext ==
  \/ AcceptAndFork
  \/ ForkFails
  \/ ServerKilled
  \/ StartServer
  \/ \E c \in Requests : ChildStep(c) \/ ChildDies(c)

--------------------------------------------------------------------------------
(* The server against any client that connects, sends and closes as it     *)
(* likes, once per connection.                                             *)

ClientSends(r) ==
  /\ relayEnd[r] = "open"
  /\ toServer[r] \notin Commands
  /\ \E m \in (Commands \cup {"part"}) \ {toServer[r]} :
       toServer' = [toServer EXCEPT ![r] = m]
  /\ UNCHANGED <<backlog, listeners, held, relayEnd, toRelay>>

ClientCloses(r) ==
  /\ relayEnd[r] = "open"
  /\ relayEnd' = [relayEnd EXCEPT ![r] = "closed"]
  /\ UNCHANGED <<backlog, listeners, held, toServer, toRelay>>

Client(r) ==
  /\ OpenConnection(r) \/ ClientSends(r) \/ ClientCloses(r)
  /\ UNCHANGED serverVars

vsVars == <<socketVars, serverVars>>

VSInit == SocketsInit /\ ServerInit

VSNext == ServerNext \/ \E r \in Requests : Client(r)

(* The kernel schedules every runnable process.                            *)
VSFairness ==
  /\ WF_vsVars(AcceptAndFork \/ ForkFails)
  /\ \A c \in Requests : WF_vsVars(ChildStep(c))

VSSpec == VSInit /\ [][VSNext]_vsVars /\ VSFairness

--------------------------------------------------------------------------------
(* Every variable has its type.                                            *)
VSTypeOK == SocketsTypeOK /\ ServerTypeOK

(* While the parent runs, the connections it holds open are exactly those  *)
(* of the children it ever forked, dead or alive: it never closes what it  *)
(* hands over (ValidatorServer.cpp:135-143) and never waits for a child    *)
(* (274-277), so both of its limits count every connection ever accepted.  *)
LeakAccount == server = "running" => held[Parent] = Live \cup Zombie

(* A child is born with its own connection and with those of all children  *)
(* this run of the server has forked before, dead or alive, and no other,  *)
(* and it holds exactly these for as long as it lives, whatever becomes of *)
(* the others, of the clients or of the parent                             *)
(* (ValidatorServer.cpp:135-143, 198, 237).                                *)
DescriptorsInherited ==
  [][\A c \in Live' :
       held'[c] = IF c \in Live THEN held[c] ELSE Live \cup Zombie \cup {c}]_vsVars

(* The listening socket stays open in every child, so it outlives the      *)
(* parent, and connections are queued only while somebody holds it.        *)
ListenersAlive ==
  /\ listeners = Live \cup (IF server = "running" THEN {Parent} ELSE {})
  /\ backlog # <<>> => listeners # {}

(* What reaches the client in full is what the handler of its own command  *)
(* returned, and no command too long to be counted is ever answered.       *)
AnswerFitsCommand ==
  \A r \in Requests : toRelay[r] \in AllResults =>
    /\ toRelay[r] = result[r]
    /\ toServer[r] \in Commands
    /\ result[r] \in Results(toServer[r])
    /\ r \notin Large

(* While the parent stays up nothing it used for a connection comes back.  *)
NothingReclaimed ==
  [][server = "running" /\ server' = "running" =>
       /\ held[Parent] \subseteq held'[Parent]
       /\ Live \cup Zombie \subseteq (Live \cup Zombie)']_vsVars

(* The connections a run of the parent accepts, from its start to its end, *)
(* are no more than it has descriptors and the kernel allows children,     *)
(* however many of them have ended (ValidatorServer.cpp:114-143, 274).     *)
AcceptedWithinLimits ==
  server = "running" => /\ Cardinality(held[Parent]) <= MaxFds
                        /\ Cardinality(Live \cup Zombie) <= MaxProcs

(* A parent without a descriptor left is full for good: whatever ends,     *)
(* dies or closes, as long as it stays up it accepts nobody, and who is    *)
(* queued stays queued (ValidatorServer.cpp:119-123).                      *)
FullForGood ==
  [][server = "running" /\ server' = "running" /\ Cardinality(held[Parent]) >= MaxFds =>
       /\ held'[Parent] = held[Parent]
       /\ Queued \subseteq Queued']_vsVars

(* A client sees the end of its connection only in a step after which the  *)
(* parent is down: as long as it runs it holds a copy of every connection  *)
(* and the death of a child tells the client nothing.                      *)
HangUpOnlyWithServer ==
  [][\A r \in Requests : ~HungUp(r) /\ HungUp(r)' => server' = "down"]_vsVars

(* ValidatorServer.h:19: "parent process will return to accept new         *)
(* connection".  A queued connection is accepted, whatever the children    *)
(* and the other clients do or omit to do.                                 *)
QueueServed == \A r \in Requests : r \in Queued ~> r \notin Queued
================================================================================
