------------------------- MODULE ValidatorServerProofs -------------------------
(***************************************************************************)
(* The descriptors and processes of the validator server, for every number *)
(* of connections and every limit.                                         *)
(***************************************************************************)
EXTENDS ValidatorServer, FiniteSetTheorems, TLAPS

(* A connection is queued once, before it has a child.                     *)
QueueFresh ==
  /\ \A i, j \in DOMAIN backlog : backlog[i] = backlog[j] => i = j
  /\ \A c \in Queued : child[c] = "none"
  /\ \A c \in Requests : relayEnd[c] = "none" => child[c] = "none" /\ c \notin Queued

(* The dead hold nothing, and a server that is down leaves no zombies.     *)
DeadHoldNothing ==
  /\ \A c \in Requests : c \notin Live => held[c] = {}
  /\ server = "down" => held[Parent] = {} /\ Zombie = {}

(* A child holds its own connection, and while the parent runs no other    *)
(* than the parent holds too.                                              *)
Inherits ==
  \A c \in Live : c \in held[c] /\ (server = "running" => held[c] \subseteq held[Parent])

(* The inductive invariant.                                                *)
Accounts ==
  /\ VSTypeOK
  /\ LeakAccount
  /\ Inherits
  /\ ListenersAlive
  /\ QueueFresh
  /\ DeadHoldNothing

(* From command to answer: a handler works on a command that came whole,   *)
(* has a result when it answers, and has sent nothing before.              *)
AnswerReady ==
  \A c \in Requests :
    /\ child[c] \in {"working", "answering"} => toServer[c] \in Commands /\ c \notin Large
    /\ child[c] = "answering" => result[c] \in Results(toServer[c])
    /\ child[c] \in {"none", "reading", "working"} => result[c] = "none"
    /\ child[c] \in {"none", "reading", "working", "answering"} => toRelay[c] = "nothing"

(* The inductive invariant of the answers.                                 *)
Answers == VSTypeOK /\ AnswerReady /\ AnswerFitsCommand

--------------------------------------------------------------------------------
(* Accepting takes the first queued connection and leaves the others.      *)
LEMMA TailOfQueue ==
  ASSUME NEW S, NEW q \in Seq(S), q # <<>>,
         \A i, j \in DOMAIN q : q[i] = q[j] => i = j
  PROVE  /\ Head(q) \in S
         /\ Tail(q) \in Seq(S)
         /\ Head(q) \in {q[i] : i \in DOMAIN q}
         /\ Head(q) \notin {Tail(q)[i] : i \in DOMAIN Tail(q)}
         /\ {Tail(q)[i] : i \in DOMAIN Tail(q)} \subseteq {q[i] : i \in DOMAIN q}
         /\ \A i, j \in DOMAIN Tail(q) : Tail(q)[i] = Tail(q)[j] => i = j
<1>1. Len(q) \in Nat \ {0} /\ Head(q) = q[1] /\ 1 \in DOMAIN q
  OBVIOUS
<1>2. /\ Tail(q) \in Seq(S)
      /\ DOMAIN Tail(q) = 1 .. Len(q) - 1
      /\ \A i \in 1 .. Len(q) - 1 : Tail(q)[i] = q[i + 1] /\ i + 1 \in DOMAIN q
  BY <1>1
<1>3. Head(q) \in S
  BY <1>1
<1> QED
  BY <1>1, <1>2, <1>3

(* Connecting adds a connection to the queue.                              *)
LEMMA AppendToQueue ==
  ASSUME NEW S, NEW q \in Seq(S), NEW r \in S, r \notin {q[i] : i \in DOMAIN q},
         \A i, j \in DOMAIN q : q[i] = q[j] => i = j
  PROVE  /\ Append(q, r) \in Seq(S)
         /\ {Append(q, r)[i] : i \in DOMAIN Append(q, r)}
              = {q[i] : i \in DOMAIN q} \cup {r}
         /\ \A i, j \in DOMAIN Append(q, r) :
              Append(q, r)[i] = Append(q, r)[j] => i = j
<1> DEFINE a == Append(q, r)
<1>1. /\ a \in Seq(S)
      /\ DOMAIN a = 1 .. Len(q) + 1
      /\ a[Len(q) + 1] = r
      /\ \A i \in DOMAIN q : a[i] = q[i]
      /\ DOMAIN q = 1 .. Len(q)
      /\ Len(q) \in Nat
  OBVIOUS
<1> HIDE DEF a
<1>2. {a[i] : i \in DOMAIN a} = {q[i] : i \in DOMAIN q} \cup {r}
  BY <1>1
<1>3. \A i, j \in DOMAIN a : a[i] = a[j] => i = j
  BY <1>1
<1> QED
  BY <1>1, <1>2, <1>3 DEF a

(* The parent is a process of its own, none of the children.               *)
LEMMA ParentIsNoRequest == Parent \in Processes /\ Requests \subseteq Processes /\ Parent \notin Requests
BY ParentAssumption DEF Processes

(* What the clients do to the kernel's state: one connects, or the queue   *)
(* and the server's descriptors stay and a command once sent stays sent.   *)
ClientsQuiet ==
  /\ UNCHANGED <<backlog, listeners, held, toRelay>>
  /\ relayEnd' \in [Requests -> {"none", "open", "closed"}]
  /\ toServer' \in [Requests -> Commands \cup {"nothing", "part", "taken"}]
  /\ \A r \in Requests :
       /\ toServer[r] \in Commands => toServer'[r] = toServer[r]
       /\ relayEnd'[r] = "none" <=> relayEnd[r] = "none"
       /\ relayEnd'[r] = "open" => relayEnd[r] = "open"

ClientSide == ClientsQuiet \/ \E r \in Requests : OpenConnection(r)

(* What the arbitrary client of the server's model does is within what any *)
(* client may do.                                                          *)
LEMMA ClientIsClientSide ==
  ASSUME VSTypeOK, NEW r \in Requests, Client(r)
  PROVE  ClientSide
<1>1. CASE OpenConnection(r)
  BY <1>1 DEF ClientSide
<1>2. CASE ClientSends(r)
  BY <1>2 DEF ClientSends, ClientSide, ClientsQuiet, VSTypeOK, SocketsTypeOK
<1>3. CASE ClientCloses(r)
  BY <1>3 DEF ClientCloses, ClientSide, ClientsQuiet, VSTypeOK, SocketsTypeOK
<1> QED
  BY <1>1, <1>2, <1>3 DEF Client

--------------------------------------------------------------------------------
(* Type correctness.                                                       *)

(* The initial state.                                                      *)
LEMMA TypeInit == VSInit => VSTypeOK
BY ParentIsNoRequest
   DEF VSInit, SocketsInit, ServerInit, VSTypeOK, SocketsTypeOK, ServerTypeOK, AllResults, Results

(* Accepting a connection and forking keeps the types.                     *)
LEMMA AcceptTyped == VSTypeOK /\ AcceptAndFork => VSTypeOK'
<1> SUFFICES ASSUME VSTypeOK, AcceptAndFork PROVE VSTypeOK'
  OBVIOUS
<1> USE DEF VSTypeOK, SocketsTypeOK, ServerTypeOK
<1> DEFINE c == Head(backlog)
<1>1. c \in Requests /\ Tail(backlog) \in Seq(Requests)
  BY DEF AcceptAndFork, CanAccept
<1>2. held' \in [Processes -> SUBSET Requests] /\ listeners' \subseteq Processes
  BY <1>1, ParentIsNoRequest DEF AcceptAndFork
<1> QED
  BY <1>1, <1>2 DEF AcceptAndFork

(* The end of the parent, with any rest of the queue, keeps the types.     *)
LEMMA EndParentTyped ==
  ASSUME VSTypeOK, NEW rest \in Seq(Requests), EndParent(rest)
  PROVE  VSTypeOK'
<1> USE DEF VSTypeOK, SocketsTypeOK, ServerTypeOK
<1>1. backlog' \in Seq(Requests) /\ listeners' \subseteq Processes
  BY DEF EndParent, EndProcess
<1>2. held' \in [Processes -> SUBSET Requests]
  BY DEF EndParent, EndProcess
<1> QED
  BY <1>1, <1>2 DEF EndParent, EndProcess

(* The end of a child, with or without an answer, keeps the types.         *)
LEMMA EndChildTyped ==
  ASSUME VSTypeOK, NEW c \in Requests, EndChild(c),
         toServer' \in [Requests -> Commands \cup {"nothing", "part", "taken"}],
         toRelay' \in [Requests -> AllResults \cup {"nothing", "part"}],
         UNCHANGED result
  PROVE  VSTypeOK'
<1> USE DEF VSTypeOK, SocketsTypeOK, ServerTypeOK
<1>1. backlog' \in Seq(Requests) /\ listeners' \subseteq Processes
  BY DEF EndChild, EndProcess
<1>2. held' \in [Processes -> SUBSET Requests]
  BY DEF EndChild, EndProcess
<1> QED
  BY <1>1, <1>2 DEF EndChild, EndProcess

(* Every step of the server and its children keeps the types.              *)
LEMMA ServerTyped ==
  ASSUME VSTypeOK, AnswerReady, ServerNext
  PROVE  VSTypeOK'
<1>1. CASE AcceptAndFork
  BY <1>1, AcceptTyped
<1>2. CASE ForkFails
  <2>1. Tail(backlog) \in Seq(Requests)
    BY <1>2 DEF ForkFails, CanAccept, VSTypeOK, SocketsTypeOK
  <2> QED
    BY <1>2, <2>1, EndParentTyped DEF ForkFails
<1>3. CASE ServerKilled
  BY <1>3, EndParentTyped DEF ServerKilled, VSTypeOK, SocketsTypeOK
<1>4. CASE StartServer
  BY <1>4, ParentIsNoRequest DEF StartServer, VSTypeOK, SocketsTypeOK, ServerTypeOK
<1>5. ASSUME NEW c \in Requests, ChildStep(c) \/ ChildDies(c) PROVE VSTypeOK'
  <2>1. CASE ReadCommand(c)
    BY <2>1 DEF ReadCommand, socketVars, VSTypeOK, SocketsTypeOK, ServerTypeOK
  <2>2. CASE RejectCommand(c)
    BY <2>2, EndChildTyped DEF RejectCommand, VSTypeOK, SocketsTypeOK
  <2>3. CASE HandleCommand(c)
    <3>1. toServer[c] \in Commands
      BY <2>3 DEF HandleCommand, AnswerReady
    <3>2. Results(toServer[c]) \subseteq AllResults
      BY DEF Results, AllResults
    <3> QED
      BY <2>3, <3>2 DEF HandleCommand, socketVars, VSTypeOK, SocketsTypeOK, ServerTypeOK
  <2>4. CASE SendResponse(c)
    <3>1. result[c] \in AllResults
      BY <2>4 DEF SendResponse, AnswerReady, Results, AllResults
    <3>2. toRelay' \in [Requests -> AllResults \cup {"nothing", "part"}]
      BY <2>4, <3>1 DEF SendResponse, VSTypeOK, SocketsTypeOK
    <3> QED
      BY <2>4, <3>2, EndChildTyped DEF SendResponse, VSTypeOK, SocketsTypeOK
  <2>5. CASE ChildDies(c)
    <3>1. /\ toServer' \in [Requests -> Commands \cup {"nothing", "part", "taken"}]
          /\ toRelay' \in [Requests -> AllResults \cup {"nothing", "part"}]
      BY <2>5 DEF ChildDies, VSTypeOK, SocketsTypeOK
    <3> QED
      BY <2>5, <3>1, EndChildTyped DEF ChildDies
  <2>6. CASE TakePart(c)
    BY <2>6 DEF TakePart, serverVars, VSTypeOK, SocketsTypeOK, ServerTypeOK
  <2> QED
    BY <1>5, <2>1, <2>2, <2>3, <2>4, <2>5, <2>6 DEF ChildStep
<1> QED
  BY <1>1, <1>2, <1>3, <1>4, <1>5 DEF ServerNext

(* Every step of a client keeps the types.                                 *)
LEMMA ClientTyped == VSTypeOK /\ ClientSide /\ UNCHANGED serverVars => VSTypeOK'
<1> SUFFICES ASSUME VSTypeOK, ClientSide, UNCHANGED serverVars PROVE VSTypeOK'
  OBVIOUS
<1>1. ASSUME NEW r \in Requests, OpenConnection(r) PROVE VSTypeOK'
  <2>1. Append(backlog, r) \in Seq(Requests)
    BY DEF VSTypeOK, SocketsTypeOK
  <2> QED
    BY <1>1, <2>1 DEF OpenConnection, VSTypeOK, SocketsTypeOK, ServerTypeOK, serverVars
<1>2. CASE ClientsQuiet
  BY <1>2 DEF ClientsQuiet, VSTypeOK, SocketsTypeOK, ServerTypeOK, serverVars
<1> QED
  BY <1>1, <1>2 DEF ClientSide

--------------------------------------------------------------------------------
(* Descriptors and processes.                                              *)

Books == LeakAccount /\ Inherits /\ ListenersAlive /\ QueueFresh /\ DeadHoldNothing

(* A fork keeps the books: the parent holds one connection more, and the   *)
(* child holds that one and all the parent had.                            *)
LEMMA AcceptKeepsBooks == Accounts /\ AcceptAndFork => Books'
<1> SUFFICES ASSUME Accounts, AcceptAndFork PROVE Books'
  OBVIOUS
<1> DEFINE c == Head(backlog)
<1> USE DEF Accounts, VSTypeOK, SocketsTypeOK, ServerTypeOK
<1>1. /\ c \in Requests
      /\ c \in Queued
      /\ Tail(backlog) \in Seq(Requests)
      /\ Queued' \subseteq Queued \ {c}
      /\ \A i, j \in DOMAIN backlog' : backlog'[i] = backlog'[j] => i = j
  BY TailOfQueue DEF AcceptAndFork, CanAccept, Queued, QueueFresh
<1>2. child[c] = "none" /\ relayEnd[c] # "none"
  BY <1>1 DEF QueueFresh
<1>3. /\ server = "running" /\ server' = "running" /\ relayEnd' = relayEnd
      /\ listeners' = listeners \cup {c}
      /\ child' = [child EXCEPT ![c] = "reading"]
      /\ held' = [held EXCEPT ![Parent] = held[Parent] \cup {c}, ![c] = held[Parent] \cup {c}]
  BY DEF AcceptAndFork, CanAccept
<1> HIDE DEF c
<1>4. Live' = Live \cup {c} /\ Zombie' = Zombie
  BY <1>1, <1>2, <1>3 DEF Live, Zombie
<1>5. /\ held'[Parent] = held[Parent] \cup {c}
      /\ held'[c] = held[Parent] \cup {c}
      /\ \A d \in Requests \ {c} : held'[d] = held[d]
  BY <1>1, <1>3, ParentIsNoRequest
<1>6. LeakAccount'
  BY <1>3, <1>4, <1>5 DEF LeakAccount
<1>7. Inherits'
  <2>1. \A d \in Live : d \in Requests \ {c} /\ d \in held[d] /\ held[d] \subseteq held[Parent]
    BY <1>2, <1>3 DEF Inherits, Live
  <2> QED
    BY <1>4, <1>5, <2>1 DEF Inherits
<1>8. ListenersAlive'
  BY <1>3, <1>4 DEF ListenersAlive
<1>9. QueueFresh'
  BY <1>1, <1>2, <1>3 DEF QueueFresh
<1>10. DeadHoldNothing'
  BY <1>3, <1>4, <1>5 DEF DeadHoldNothing
<1> QED
  BY <1>6, <1>7, <1>8, <1>9, <1>10 DEF Books

(* The end of the parent keeps the books: what it held alone is gone, what *)
(* the children inherited stays.                                           *)
LEMMA EndParentKeepsBooks ==
  ASSUME Accounts, NEW rest \in Seq(Requests), EndParent(rest),
         {rest[i] : i \in DOMAIN rest} \subseteq Queued,
         \A i, j \in DOMAIN rest : rest[i] = rest[j] => i = j
  PROVE  Books'
<1> USE DEF Accounts, VSTypeOK, SocketsTypeOK, ServerTypeOK
<1>1. /\ server' = "down" /\ relayEnd' = relayEnd
      /\ listeners' = listeners \ {Parent}
      /\ held' = [held EXCEPT ![Parent] = {}]
      /\ child' = [c \in Requests |-> IF child[c] = "zombie" THEN "reaped" ELSE child[c]]
      /\ backlog' = IF listeners' = {} THEN <<>> ELSE rest
  BY DEF EndParent, EndProcess
<1>2. Live' = Live /\ Zombie' = {}
  BY <1>1 DEF Live, Zombie
<1>3. held'[Parent] = {} /\ \A d \in Requests : held'[d] = held[d]
  BY <1>1, ParentIsNoRequest
<1>4. Queued' \subseteq Queued /\ \A i, j \in DOMAIN backlog' : backlog'[i] = backlog'[j] => i = j
  <2>1. CASE listeners' = {}
    <3>1. backlog' = <<>> /\ DOMAIN backlog' = {}
      BY <1>1, <2>1
    <3> QED
      BY <3>1 DEF Queued
  <2>2. CASE backlog' = rest
    <3> HIDE DEF Accounts, VSTypeOK, SocketsTypeOK, ServerTypeOK
    <3>1. Queued' = {rest[i] : i \in DOMAIN rest}
      BY <2>2 DEF Queued
    <3>2. \A i, j \in DOMAIN backlog' : backlog'[i] = backlog'[j] => i = j
      BY <2>2, Zenon
    <3> QED
      BY <3>1, <3>2
  <2> QED
    BY <1>1, <2>1, <2>2
<1>5. LeakAccount'
  BY <1>1 DEF LeakAccount
<1>6. Inherits'
  BY <1>1, <1>2, <1>3 DEF Inherits, Live
<1>7. ListenersAlive'
  <2>1. Live \subseteq listeners /\ listeners \subseteq Live \cup {Parent} /\ Parent \notin Live
    BY ParentIsNoRequest DEF ListenersAlive, Live
  <2> QED
    BY <1>1, <1>2, <2>1 DEF ListenersAlive
<1>8. QueueFresh'
  <2>1. Queued \subseteq Requests /\ \A c \in Requests : child[c] = "none" => child'[c] = "none"
    BY <1>1 DEF Queued
  <2> QED
    BY <1>1, <1>4, <2>1 DEF QueueFresh
<1>9. DeadHoldNothing'
  BY <1>1, <1>2, <1>3 DEF DeadHoldNothing
<1> QED
  BY <1>5, <1>6, <1>7, <1>8, <1>9 DEF Books

(* The end of a child keeps the books: it frees nothing the parent holds.  *)
LEMMA EndChildKeepsBooks ==
  ASSUME Accounts, NEW c \in Live, EndChild(c)
  PROVE  Books'
<1> USE DEF Accounts, VSTypeOK, SocketsTypeOK, ServerTypeOK
<1>1. /\ c \in Requests /\ server' = server /\ relayEnd' = relayEnd
      /\ listeners' = listeners \ {c}
      /\ held' = [held EXCEPT ![c] = {}]
      /\ child' = [child EXCEPT ![c] = IF server = "running" THEN "zombie" ELSE "reaped"]
      /\ backlog' = IF listeners' = {} THEN <<>> ELSE backlog
  BY DEF EndChild, EndProcess, Live
<1>2. /\ Live' = Live \ {c}
      /\ Zombie' = IF server = "running" THEN Zombie \cup {c} ELSE Zombie
  BY <1>1 DEF Live, Zombie
<1>3. held'[Parent] = held[Parent] /\ held'[c] = {} /\ \A d \in Requests \ {c} : held'[d] = held[d]
  BY <1>1, ParentIsNoRequest
<1>4. Queued' \subseteq Queued /\ \A i, j \in DOMAIN backlog' : backlog'[i] = backlog'[j] => i = j
  BY <1>1 DEF Queued, QueueFresh
<1>5. LeakAccount'
  BY <1>1, <1>2, <1>3 DEF LeakAccount
<1>6. Inherits'
  BY <1>1, <1>2, <1>3 DEF Inherits, Live
<1>7. ListenersAlive'
  BY <1>1, <1>2, ParentIsNoRequest DEF ListenersAlive
<1>8. QueueFresh'
  BY <1>1, <1>4 DEF QueueFresh, Live
<1>9. DeadHoldNothing'
  BY <1>1, <1>2, <1>3 DEF DeadHoldNothing
<1> QED
  BY <1>5, <1>6, <1>7, <1>8, <1>9 DEF Books

(* Every step of the server and its children keeps the books.              *)
LEMMA ServerKeepsBooks ==
  ASSUME Accounts, ServerNext
  PROVE  Books'
<1>1. CASE AcceptAndFork
  BY <1>1, AcceptKeepsBooks
<1>2. CASE ForkFails
  <2>1. /\ server = "running" /\ backlog # <<>> /\ backlog \in Seq(Requests)
        /\ EndParent(Tail(backlog))
        /\ \A i, j \in DOMAIN backlog : backlog[i] = backlog[j] => i = j
    BY <1>2 DEF ForkFails, CanAccept, Accounts, VSTypeOK, SocketsTypeOK, QueueFresh
  <2>2. LET rest == Tail(backlog)
        IN  /\ rest \in Seq(Requests)
            /\ \A i \in DOMAIN rest : rest[i] \in Queued
            /\ \A i, j \in DOMAIN rest : rest[i] = rest[j] => i = j
    BY <2>1, TailOfQueue DEF Queued
  <2> QED
    BY <2>1, <2>2, EndParentKeepsBooks
<1>3. CASE ServerKilled
  BY <1>3, EndParentKeepsBooks
     DEF ServerKilled, Accounts, VSTypeOK, SocketsTypeOK, QueueFresh, Queued
<1>4. CASE StartServer
  <2>1. Live = {} /\ Live' = Live /\ Zombie' = Zombie
    BY <1>4 DEF StartServer, Accounts, ListenersAlive, Live, Zombie
  <2>2. LeakAccount' /\ Inherits' /\ DeadHoldNothing'
    BY <1>4, <2>1 DEF StartServer, Accounts, LeakAccount, Inherits, DeadHoldNothing
  <2>3. ListenersAlive' /\ QueueFresh'
    BY <1>4, <2>1 DEF StartServer, Accounts, ListenersAlive, QueueFresh, Queued
  <2> QED
    BY <2>2, <2>3 DEF Books
<1>5. ASSUME NEW c \in Requests, TakePart(c) \/ ReadCommand(c) \/ HandleCommand(c)
      PROVE  Books'
  <2>1. Live' = Live /\ Zombie' = Zombie /\ child[c] # "none"
        /\ \A d \in Requests : child[d] = "none" <=> child'[d] = "none"
    BY <1>5
       DEF TakePart, serverVars, ReadCommand, HandleCommand, Live, Zombie, Accounts, VSTypeOK,
           ServerTypeOK
  <2>2. UNCHANGED <<backlog, listeners, held, relayEnd, server>>
    BY <1>5 DEF TakePart, serverVars, ReadCommand, HandleCommand, socketVars
  <2>3. LeakAccount' /\ Inherits' /\ DeadHoldNothing' /\ ListenersAlive'
    BY <2>1, <2>2 DEF Accounts, LeakAccount, Inherits, DeadHoldNothing, ListenersAlive
  <2>4. QueueFresh'
    <3>1. Queued' = Queued /\ Queued \subseteq Requests
      BY <2>2 DEF Queued, Accounts, VSTypeOK, SocketsTypeOK
    <3> QED
      BY <2>1, <2>2, <3>1 DEF Accounts, QueueFresh
  <2> QED
    BY <2>3, <2>4 DEF Books
<1>6. ASSUME NEW c \in Requests, RejectCommand(c) \/ SendResponse(c) \/ ChildDies(c) PROVE Books'
  <2>1. c \in Live /\ EndChild(c)
    BY <1>6 DEF RejectCommand, SendResponse, ChildDies, Live
  <2> QED
    BY <2>1, EndChildKeepsBooks
<1> QED
  BY <1>1, <1>2, <1>3, <1>4, <1>5, <1>6 DEF ServerNext, ChildStep

(* What clients do leaves the books alone, but for the queue they join.    *)
LEMMA ClientsKeepBooks ==
  ASSUME Accounts, ClientSide, UNCHANGED serverVars
  PROVE  Books'
<1> USE DEF Accounts, serverVars
<1>1. Live' = Live /\ Zombie' = Zombie
  BY DEF Live, Zombie
<1>2. UNCHANGED <<listeners, held>>
  BY DEF ClientSide, ClientsQuiet, OpenConnection
<1>3. LeakAccount' /\ Inherits' /\ DeadHoldNothing'
  BY <1>1, <1>2 DEF LeakAccount, Inherits, DeadHoldNothing
<1>4. CASE ClientsQuiet
  BY <1>1, <1>2, <1>3, <1>4 DEF Books, ClientsQuiet, ListenersAlive, QueueFresh, Queued
<1>5. ASSUME NEW r \in Requests, OpenConnection(r) PROVE Books'
  <2>1. child[r] = "none" /\ r \notin Queued
    BY <1>5 DEF OpenConnection, QueueFresh
  <2>2. /\ Queued' = Queued \cup {r}
        /\ \A i, j \in DOMAIN backlog' : backlog'[i] = backlog'[j] => i = j
    <3>1. backlog \in Seq(Requests) /\ backlog' = Append(backlog, r)
      BY <1>5 DEF OpenConnection, VSTypeOK, SocketsTypeOK
    <3>2. \A i, j \in DOMAIN backlog : backlog[i] = backlog[j] => i = j
      BY DEF QueueFresh
    <3> HIDE DEF Accounts
    <3> QED
      BY <2>1, <3>1, <3>2, AppendToQueue DEF Queued
  <2>3. QueueFresh'
    BY <1>5, <2>1, <2>2 DEF OpenConnection, QueueFresh, VSTypeOK, SocketsTypeOK
  <2>4. ListenersAlive'
    BY <1>1, <1>5 DEF OpenConnection, ListenersAlive
  <2> QED
    BY <1>3, <2>3, <2>4 DEF Books
<1> QED
  BY <1>4, <1>5 DEF ClientSide

--------------------------------------------------------------------------------
(* Answers.                                                                *)

(* The steps of the server.                                                *)
LEMMA ServerKeepsAnswers ==
  ASSUME Accounts, Answers, ServerNext
  PROVE  Answers'
<1> USE DEF Answers, AnswerReady, AnswerFitsCommand
<1>1. VSTypeOK'
  BY ServerTyped
<1> SUFFICES AnswerReady' /\ AnswerFitsCommand'
  BY <1>1
<1> USE DEF VSTypeOK, SocketsTypeOK, ServerTypeOK
<1>2. CASE AcceptAndFork
  <2>1. Head(backlog) \in Requests /\ child[Head(backlog)] = "none"
    BY <1>2 DEF AcceptAndFork, CanAccept, Accounts, QueueFresh, Queued
  <2> QED
    BY <1>2, <2>1 DEF AcceptAndFork
<1>3. CASE ForkFails \/ ServerKilled
  BY <1>3 DEF ForkFails, ServerKilled, EndParent, EndProcess
<1>4. CASE StartServer
  BY <1>4 DEF StartServer
<1>5. ASSUME NEW c \in Requests, ReadCommand(c) PROVE AnswerReady' /\ AnswerFitsCommand'
  BY <1>5 DEF ReadCommand, socketVars
<1>6. ASSUME NEW c \in Requests, HandleCommand(c) PROVE AnswerReady' /\ AnswerFitsCommand'
  <2>1. "nothing" \notin AllResults
    BY DEF AllResults, Results
  <2> QED
    BY <1>6, <2>1 DEF HandleCommand, socketVars
<1>7. ASSUME NEW c \in Requests, RejectCommand(c) PROVE AnswerReady' /\ AnswerFitsCommand'
  BY <1>7 DEF RejectCommand, EndChild, EndProcess
<1>8. ASSUME NEW c \in Requests, SendResponse(c) PROVE AnswerReady' /\ AnswerFitsCommand'
  BY <1>8 DEF SendResponse, EndChild, EndProcess
<1>9. ASSUME NEW c \in Requests, ChildDies(c) PROVE AnswerReady' /\ AnswerFitsCommand'
  <2>1. "part" \notin AllResults
    BY DEF AllResults, Results
  <2>2. /\ child' = [child EXCEPT ![c] = IF server = "running" THEN "zombie" ELSE "reaped"]
        /\ UNCHANGED result
    BY <1>9 DEF ChildDies, EndChild
  <2>3. CASE UNCHANGED <<toServer, toRelay>>
    BY <2>2, <2>3
  <2>4. CASE toRelay' = [toRelay EXCEPT ![c] = "part"] /\ UNCHANGED toServer
    BY <2>1, <2>2, <2>4
  <2>5. CASE /\ toServer[c] = "taken" /\ UNCHANGED toRelay
             /\ toServer' = [toServer EXCEPT ![c] = "part"]
    <3>1. toServer[c] \notin Commands
      BY <2>5 DEF Commands
    <3> QED
      BY <2>2, <2>5, <3>1
  <2> QED
    BY <1>9, <2>3, <2>4, <2>5 DEF ChildDies
<1>10. ASSUME NEW c \in Requests, TakePart(c) PROVE AnswerReady' /\ AnswerFitsCommand'
  <2>1. /\ toServer[c] \notin Commands /\ child[c] = "reading"
        /\ \A d \in Requests \ {c} : toServer'[d] = toServer[d]
        /\ UNCHANGED <<toRelay, child, result>>
    BY <1>10 DEF TakePart, serverVars, Commands
  <2> QED
    BY <2>1
<1> QED
  BY <1>2, <1>3, <1>4, <1>5, <1>6, <1>7, <1>8, <1>9, <1>10 DEF ServerNext, ChildStep

(* What clients do leaves every answer the one to the command that was     *)
(* sent.                                                                   *)
LEMMA ClientsKeepAnswers ==
  ASSUME Answers, ClientSide, UNCHANGED serverVars
  PROVE  Answers'
<1>1. VSTypeOK'
  BY ClientTyped DEF Answers
<1>2. AnswerReady' /\ AnswerFitsCommand'
  BY DEF Answers, AnswerReady, AnswerFitsCommand, ClientSide, ClientsQuiet, OpenConnection, serverVars,
         VSTypeOK, SocketsTypeOK, ServerTypeOK
<1> QED
  BY <1>1, <1>2 DEF Answers

--------------------------------------------------------------------------------
(* The theorems.                                                           *)

(* The initial state.                                                      *)
LEMMA BooksInit == VSInit => Accounts /\ Answers
<1> SUFFICES ASSUME VSInit PROVE Accounts /\ Answers
  OBVIOUS
<1>1. VSTypeOK
  BY TypeInit
<1>2. Live = {} /\ Zombie = {} /\ Queued = {}
  BY DEF VSInit, SocketsInit, ServerInit, Live, Zombie, Queued
<1>3. LeakAccount /\ Inherits /\ ListenersAlive /\ QueueFresh /\ DeadHoldNothing
  BY <1>2, ParentIsNoRequest
     DEF VSInit, SocketsInit, ServerInit, LeakAccount, Inherits, ListenersAlive, QueueFresh,
         DeadHoldNothing
<1>4. AnswerReady /\ AnswerFitsCommand
  BY DEF VSInit, SocketsInit, ServerInit, AnswerReady, AnswerFitsCommand, AllResults, Results
<1> QED
  BY <1>1, <1>3, <1>4 DEF Accounts, Answers

(* A step of the server or of its clients, whoever they are: a composition *)
(* has these steps too.                                                    *)
AnyStep == ServerNext \/ (ClientSide /\ UNCHANGED serverVars)

(* A step of the specification, stuttering included, is one of the server  *)
(* or one of any client: the form the lemmas above take.                   *)
LEMMA StepIsAnyStep == Accounts /\ [VSNext]_vsVars => AnyStep
<1> SUFFICES ASSUME Accounts, [VSNext]_vsVars PROVE AnyStep
  OBVIOUS
<1>1. CASE UNCHANGED vsVars
  BY <1>1 DEF vsVars, socketVars, AnyStep, ClientSide, ClientsQuiet, Accounts, VSTypeOK, SocketsTypeOK
<1>2. ASSUME NEW r \in Requests, Client(r) PROVE AnyStep
  BY <1>2, ClientIsClientSide DEF Client, Accounts, AnyStep
<1> QED
  BY <1>1, <1>2 DEF VSNext, AnyStep

(* Books and answers survive every step together.                          *)
LEMMA StepKeepsAll ==
  ASSUME Accounts, Answers, AnyStep
  PROVE  Accounts' /\ Answers'
<1>1. VSTypeOK'
  BY ServerTyped, ClientTyped DEF Answers, AnyStep
<1>2. Books'
  BY ServerKeepsBooks, ClientsKeepBooks DEF AnyStep
<1>3. Answers'
  BY ServerKeepsAnswers, ClientsKeepAnswers DEF AnyStep
<1> QED
  BY <1>1, <1>2, <1>3 DEF Accounts, Books

(* The inductive invariant holds in every reachable state.                 *)
THEOREM AlwaysAccounts == VSSpec => [](Accounts /\ Answers)
<1>1. Accounts /\ Answers /\ [VSNext]_vsVars => (Accounts /\ Answers)'
  BY StepIsAnyStep, StepKeepsAll
<1> QED
  BY <1>1, BooksInit, PTL DEF VSSpec

(* Type correctness of the server and the sockets.                         *)
THEOREM ServerTypeCorrect == VSSpec => []VSTypeOK
BY AlwaysAccounts, PTL DEF Accounts

(* The parent holds exactly the connections of all children it forked.     *)
THEOREM LeakAccountHolds == VSSpec => []LeakAccount
BY AlwaysAccounts, PTL DEF Accounts

(* The listening socket outlives the parent in its children.               *)
THEOREM ListenersAliveHolds == VSSpec => []ListenersAlive
BY AlwaysAccounts, PTL DEF Accounts

(* Only the result for its own command reaches a client.                   *)
THEOREM AnswerFitsCommandHolds == VSSpec => []AnswerFitsCommand
BY AlwaysAccounts, PTL DEF Answers

(* While the parent stays up, children only move towards the zombies.      *)
LEMMA ChildrenStay ==
  ASSUME Accounts, AnyStep, server = "running", server' = "running"
  PROVE  Live \cup Zombie \subseteq (Live \cup Zombie)'
<1> USE DEF Accounts, VSTypeOK, ServerTypeOK, SocketsTypeOK, Live, Zombie
<1>1. CASE AcceptAndFork
  BY <1>1 DEF AcceptAndFork
<1>2. CASE ForkFails \/ ServerKilled \/ StartServer
  BY <1>2 DEF ForkFails, ServerKilled, EndParent, StartServer
<1>3. ASSUME NEW c \in Requests, ChildStep(c) \/ ChildDies(c)
      PROVE  Live \cup Zombie \subseteq (Live \cup Zombie)'
  BY <1>3 DEF ChildStep, TakePart, serverVars, ReadCommand, RejectCommand, HandleCommand,
                   SendResponse, ChildDies, EndChild
<1>4. CASE UNCHANGED serverVars
  BY <1>4 DEF serverVars
<1> QED
  BY <1>1, <1>2, <1>3, <1>4 DEF AnyStep, ServerNext

(* ... and a queued connection stays queued or gets a child.               *)
LEMMA QueueStays ==
  ASSUME Accounts, AnyStep, server = "running", server' = "running", NEW r \in Queued
  PROVE  r \in Queued' \/ r \in Live'
<1> USE DEF Accounts, VSTypeOK, ServerTypeOK, SocketsTypeOK
<1>1. Parent \in listeners /\ r \in Requests
  BY DEF ListenersAlive, Queued
<1>2. CASE AcceptAndFork
  <2>1. PICK i \in DOMAIN backlog : r = backlog[i]
    BY DEF Queued
  <2>2. CASE i = 1
    BY <1>1, <1>2, <2>1, <2>2 DEF AcceptAndFork, Live
  <2>3. CASE i # 1
    <3>1. /\ backlog' = Tail(backlog) /\ i \in 2 .. Len(backlog) /\ backlog # <<>>
      BY <1>2, <2>1, <2>3 DEF AcceptAndFork, CanAccept
    <3>2. i - 1 \in DOMAIN Tail(backlog) /\ Tail(backlog)[i - 1] = r
      BY <2>1, <3>1
    <3> QED
      BY <3>1, <3>2 DEF Queued
  <2> QED
    BY <2>2, <2>3
<1>3. CASE ForkFails \/ ServerKilled \/ StartServer
  BY <1>3 DEF ForkFails, ServerKilled, EndParent, StartServer
<1>4. ASSUME NEW c \in Requests, ChildStep(c) \/ ChildDies(c) PROVE backlog' = backlog
  <2>1. Parent # c
    BY ParentIsNoRequest
  <2> QED
    BY <1>1, <1>4, <2>1
       DEF ChildStep, TakePart, ReadCommand, RejectCommand, HandleCommand, SendResponse,
           ChildDies, EndChild, EndProcess, socketVars
<1>5. CASE ClientsQuiet
  BY <1>5 DEF ClientsQuiet, Queued
<1>6. ASSUME NEW c \in Requests, OpenConnection(c) PROVE r \in Queued'
  <2>1. backlog \in Seq(Requests) /\ backlog' = Append(backlog, c)
    BY <1>6 DEF OpenConnection
  <2>2. c \notin Queued /\ \A i, j \in DOMAIN backlog : backlog[i] = backlog[j] => i = j
    BY <1>6 DEF OpenConnection, QueueFresh
  <2> HIDE DEF Accounts
  <2> QED
    BY <2>1, <2>2, AppendToQueue DEF Queued
<1> QED
  BY <1>2, <1>3, <1>4, <1>5, <1>6 DEF AnyStep, ServerNext, ClientSide, Queued

(* One step gives a child its descriptors at the fork, its own and those   *)
(* of all children there are, and none gives or takes any after that.      *)
LEMMA InheritStep ==
  ASSUME Accounts, AnyStep, NEW c \in Live'
  PROVE  held'[c] = IF c \in Live THEN held[c] ELSE Live \cup Zombie \cup {c}
<1> USE DEF Accounts, VSTypeOK, SocketsTypeOK, ServerTypeOK
<1>0. c \in Requests /\ c # Parent
  BY ParentIsNoRequest DEF Live
<1>1. CASE AcceptAndFork
  <2> DEFINE d == Head(backlog)
  <2>1. d \in Requests /\ d \in Queued
    BY <1>1, TailOfQueue DEF AcceptAndFork, CanAccept, Queued, QueueFresh
  <2>2. child[d] = "none" /\ d # Parent
    BY <2>1, ParentIsNoRequest DEF QueueFresh
  <2>3. /\ child' = [child EXCEPT ![d] = "reading"]
        /\ held' = [held EXCEPT ![Parent] = held[Parent] \cup {d},
                               ![d] = held[Parent] \cup {d}]
        /\ held[Parent] = Live \cup Zombie
    BY <1>1 DEF AcceptAndFork, CanAccept, LeakAccount
  <2> HIDE DEF d
  <2>4. d \notin Live /\ (c = d \/ c \in Live)
    BY <1>0, <2>1, <2>2, <2>3 DEF Live
  <2>5. held'[d] = Live \cup Zombie \cup {d} /\ (c # d => held'[c] = held[c])
    BY <1>0, <2>1, <2>2, <2>3, ParentIsNoRequest
  <2> HIDE DEF Accounts, VSTypeOK, SocketsTypeOK, ServerTypeOK
  <2> QED
    BY <2>4, <2>5
<1>2. CASE ForkFails \/ ServerKilled
  <2>1. held' = [held EXCEPT ![Parent] = {}]
    BY <1>2 DEF ForkFails, ServerKilled, EndParent, EndProcess
  <2>2. child' = [d \in Requests |-> IF child[d] = "zombie" THEN "reaped" ELSE child[d]]
    BY <1>2 DEF ForkFails, ServerKilled, EndParent
  <2>3. c \in Live
    BY <1>0, <2>2 DEF Live
  <2> QED
    BY <1>0, <2>1, <2>3
<1>3. CASE StartServer
  BY <1>3 DEF StartServer, Live
<1>4. ASSUME NEW d \in Requests, ChildStep(d) \/ ChildDies(d)
      PROVE  c \in Live /\ held'[c] = held[c]
  <2>1. CASE TakePart(d) \/ ReadCommand(d) \/ HandleCommand(d)
    BY <1>0, <2>1 DEF TakePart, ReadCommand, HandleCommand, serverVars, socketVars, Live
  <2>2. CASE RejectCommand(d) \/ SendResponse(d) \/ ChildDies(d)
    <3>1. EndChild(d)
      BY <2>2 DEF RejectCommand, SendResponse, ChildDies
    <3> QED
      BY <1>0, <3>1 DEF EndChild, EndProcess, Live
  <2> QED
    BY <1>4, <2>1, <2>2 DEF ChildStep
<1>5. CASE ClientSide /\ UNCHANGED serverVars
  BY <1>5 DEF ClientSide, ClientsQuiet, OpenConnection, serverVars, Live
<1> QED
  BY <1>1, <1>2, <1>3, <1>4, <1>5 DEF AnyStep, ServerNext

(* A child is born with exactly its own connection and those of all        *)
(* children forked before it, dead or alive, and keeps exactly these       *)
(* (ValidatorServer.cpp:135-143, 198, 237).                                *)
THEOREM DescriptorsInheritedHolds == VSSpec => DescriptorsInherited
<1>1. Accounts /\ [VSNext]_vsVars =>
        [\A c \in Live' :
           held'[c] = IF c \in Live THEN held[c] ELSE Live \cup Zombie \cup {c}]_vsVars
  BY StepIsAnyStep, InheritStep
<1>2. VSSpec => [][VSNext]_vsVars
  BY DEF VSSpec
<1> QED
  BY <1>1, <1>2, AlwaysAccounts, PTL DEF DescriptorsInherited

(* One step of a server that stays up closes no connection of the parent   *)
(* and ends no child's entry.                                              *)
LEMMA NothingReclaimedStep ==
  ASSUME Accounts, Accounts', AnyStep, server = "running", server' = "running"
  PROVE  /\ held[Parent] \subseteq held'[Parent]
         /\ Live \cup Zombie \subseteq (Live \cup Zombie)'
BY ChildrenStay DEF Accounts, LeakAccount

(* One step that shows a client the end of its connection leaves the       *)
(* parent down.                                                            *)
LEMMA HangUpStep ==
  ASSUME Accounts, Accounts', AnyStep, NEW r \in Requests, ~HungUp(r), HungUp(r)'
  PROVE  server' = "down"
<1> SUFFICES ASSUME server' = "running" PROVE FALSE
  BY DEF Accounts, VSTypeOK, ServerTypeOK
<1>1. relayEnd'[r] = "open" /\ r \notin Queued' /\ \A p \in Processes : r \notin held'[p]
  BY DEF HungUp
<1>2. r \notin (Live \cup Zombie)'
  BY <1>1, ParentIsNoRequest DEF Accounts, LeakAccount
<1>3. CASE server = "down"
  <2>1. StartServer
    BY <1>3
       DEF AnyStep, serverVars, ServerNext, AcceptAndFork, CanAccept, ForkFails, ServerKilled,
           EndParent, ChildStep, TakePart, ReadCommand, RejectCommand, HandleCommand,
           SendResponse, ChildDies, EndChild
  <2> QED
    BY <2>1 DEF StartServer, HungUp, Queued
<1>4. CASE server = "running"
  <2>1. r \notin Queued
    BY <1>1, <1>2, <1>4, QueueStays
  <2>2. \A p \in Processes : r \notin held[p]
    <3>1. r \notin Live \cup Zombie
      BY <1>2, <1>4, ChildrenStay
    <3>2. r \notin held[Parent]
      BY <1>4, <3>1 DEF Accounts, LeakAccount
    <3> QED
      BY <1>4, <3>2 DEF Accounts, Inherits, DeadHoldNothing, Processes
  <2>3. relayEnd[r] # "open"
    BY <2>1, <2>2 DEF HungUp
  <2>4. OpenConnection(r)
    BY <1>1, <2>3
       DEF AnyStep, ClientSide, ClientsQuiet, OpenConnection, ServerNext, AcceptAndFork, ForkFails,
           ServerKilled, EndParent, StartServer, ChildStep, TakePart, ReadCommand, RejectCommand,
           HandleCommand, SendResponse, ChildDies, EndChild, EndProcess, socketVars, Accounts,
           VSTypeOK, SocketsTypeOK
  <2> QED
    BY <1>1, <2>1, <2>4, AppendToQueue
       DEF OpenConnection, Queued, Accounts, QueueFresh, VSTypeOK, SocketsTypeOK
<1> QED
  BY <1>3, <1>4 DEF Accounts, VSTypeOK, ServerTypeOK

(* While the parent stays up nothing it used for a connection comes back.  *)
THEOREM NothingReclaimedHolds == VSSpec => NothingReclaimed
<1>1. Accounts /\ Accounts' /\ [VSNext]_vsVars =>
        [server = "running" /\ server' = "running" =>
           /\ held[Parent] \subseteq held'[Parent]
           /\ Live \cup Zombie \subseteq (Live \cup Zombie)']_vsVars
  BY StepIsAnyStep, NothingReclaimedStep
<1>2. VSSpec => [][VSNext]_vsVars
  BY DEF VSSpec
<1> QED
  BY <1>1, <1>2, AlwaysAccounts, PTL DEF NothingReclaimed

(* A client sees the end of its connection only when the parent is down.   *)
THEOREM HangUpOnlyWithServerHolds == VSSpec => HangUpOnlyWithServer
<1>1. Accounts /\ Accounts' /\ [VSNext]_vsVars =>
        [\A r \in Requests : ~HungUp(r) /\ HungUp(r)' => server' = "down"]_vsVars
  BY StepIsAnyStep, HangUpStep
<1>2. VSSpec => [][VSNext]_vsVars
  BY DEF VSSpec
<1> QED
  BY <1>1, <1>2, AlwaysAccounts, PTL DEF HangUpOnlyWithServer

(* Only accepting a connection makes the parent hold more.                 *)
LEMMA ParentHolds ==
  ASSUME Accounts, Accounts', AnyStep, server' = "running", ~AcceptAndFork
  PROVE  held'[Parent] = IF server = "running" THEN held[Parent] ELSE {}
<1> USE DEF Accounts, VSTypeOK, ServerTypeOK, SocketsTypeOK
<1>1. CASE ForkFails \/ ServerKilled
  BY <1>1 DEF ForkFails, ServerKilled, EndParent
<1>2. CASE StartServer
  BY <1>2 DEF StartServer, DeadHoldNothing
<1>3. ASSUME NEW c \in Requests, ChildStep(c) \/ ChildDies(c)
      PROVE  held'[Parent] = held[Parent] /\ server' = server
  BY <1>3, ParentIsNoRequest
     DEF ChildStep, TakePart, serverVars, ReadCommand, RejectCommand, HandleCommand,
         SendResponse, ChildDies, EndChild, EndProcess, socketVars
<1>4. CASE ClientSide /\ UNCHANGED serverVars
  BY <1>4 DEF ClientSide, ClientsQuiet, OpenConnection, serverVars
<1>5. CASE server = "running"
  BY <1>1, <1>2, <1>3, <1>4, <1>5 DEF AnyStep, ServerNext
<1>6. CASE server = "down"
  <2>1. held[Parent] = {}
    BY <1>6 DEF DeadHoldNothing
  <2> QED
    BY <1>1, <1>2, <1>3, <1>4, <1>6, <2>1 DEF AnyStep, ServerNext
<1> QED
  BY <1>5, <1>6

(* What the parent holds are finitely many connections.                    *)
LEMMA HeldFinite ==
  ASSUME VSTypeOK
  PROVE  IsFiniteSet(held[Parent]) /\ Cardinality(held[Parent]) \in Nat
<1>1. held[Parent] \in SUBSET Requests
  BY ParentIsNoRequest DEF VSTypeOK, SocketsTypeOK
<1>2. IsFiniteSet(held[Parent])
  BY <1>1, RequestsAssumption, FS_Subset
<1> QED
  BY <1>2, FS_CardinalityType

(* One step keeps the limits: who is accepted takes one of each.           *)
LEMMA LimitsStep ==
  ASSUME Accounts, Accounts', AnyStep, AcceptedWithinLimits
  PROVE  AcceptedWithinLimits'
<1> SUFFICES ASSUME server' = "running"
             PROVE  Cardinality(held'[Parent]) <= MaxFds /\ Cardinality(held'[Parent]) <= MaxProcs
  BY DEF AcceptedWithinLimits, Accounts, LeakAccount
<1>1. CASE AcceptAndFork
  <2> DEFINE before == held[Parent]
             c      == Head(backlog)
  <2>1. /\ server = "running" /\ Cardinality(before) < MaxFds
        /\ Cardinality(before) < MaxProcs
    BY <1>1 DEF AcceptAndFork, CanAccept, CanFork, Accounts, LeakAccount
  <2>2. held'[Parent] = before \cup {c}
    <3>1. c \in Requests
      BY <1>1, TailOfQueue
         DEF AcceptAndFork, CanAccept, Accounts, VSTypeOK, SocketsTypeOK, QueueFresh
    <3>2. Parent # c
      BY <3>1, ParentIsNoRequest
    <3>3. held' = [held EXCEPT ![Parent] = before \cup {c}, ![c] = before \cup {c}]
      BY <1>1 DEF AcceptAndFork
    <3> HIDE DEF c
    <3> QED
      BY <3>2, <3>3, ParentIsNoRequest DEF Accounts, VSTypeOK, SocketsTypeOK
  <2>3. IsFiniteSet(before) /\ Cardinality(before) \in Nat
    BY HeldFinite DEF Accounts
  <2> HIDE DEF before, c
  <2>4. Cardinality(before \cup {c}) <= Cardinality(before) + 1
    BY <2>3, FS_AddElement
  <2>5. Cardinality(before \cup {c}) \in Nat
    BY <2>3, FS_AddElement, FS_CardinalityType
  <2> QED
    BY <2>1, <2>2, <2>3, <2>4, <2>5, LimitsAssumption
<1>2. CASE ~AcceptAndFork
  <2>1. held'[Parent] = IF server = "running" THEN held[Parent] ELSE {}
    BY <1>2, ParentHolds
  <2>2. CASE server = "running"
    BY <2>1, <2>2 DEF AcceptedWithinLimits, Accounts, LeakAccount
  <2>3. CASE server = "down"
    BY <2>1, <2>3, FS_EmptySet, LimitsAssumption
  <2> QED
    BY <2>2, <2>3 DEF Accounts, VSTypeOK, ServerTypeOK
<1> QED
  BY <1>1, <1>2

(* A parent with no descriptor left accepts nobody, for good               *)
(* (ValidatorServer.cpp:119-123).                                          *)
LEMMA FullStep ==
  ASSUME Accounts, Accounts', AnyStep, server = "running", server' = "running",
         Cardinality(held[Parent]) >= MaxFds
  PROVE  held'[Parent] = held[Parent] /\ Queued \subseteq Queued'
<1>1. ~AcceptAndFork
  BY HeldFinite, LimitsAssumption DEF AcceptAndFork, CanAccept, Accounts
<1>2. held'[Parent] = held[Parent]
  BY <1>1, ParentHolds
<1>3. ASSUME NEW r \in Queued PROVE r \in Queued'
  <2>1. r \in Queued' \/ r \in Live'
    BY QueueStays
  <2>2. r \notin Live'
    <3>1. r \notin held[Parent]
      BY DEF Accounts, LeakAccount, QueueFresh, Live, Zombie
    <3> QED
      BY <1>2, <3>1 DEF Accounts, LeakAccount
  <2> QED
    BY <2>1, <2>2
<1> QED
  BY <1>2, <1>3

(* A run of the parent accepts no more connections than it has descriptors *)
(* and children (ValidatorServer.cpp:114-143, 274).                        *)
THEOREM AcceptedWithinLimitsHolds == VSSpec => []AcceptedWithinLimits
<1>1. VSInit => AcceptedWithinLimits
  <2> SUFFICES ASSUME VSInit PROVE AcceptedWithinLimits
    OBVIOUS
  <2>1. held[Parent] = {} /\ Live \cup Zombie = {}
    BY ParentIsNoRequest DEF VSInit, SocketsInit, ServerInit, Live, Zombie
  <2> QED
    BY <2>1, FS_EmptySet, LimitsAssumption DEF AcceptedWithinLimits
<1>2. AcceptedWithinLimits /\ Accounts /\ Accounts' /\ [VSNext]_vsVars => AcceptedWithinLimits'
  BY StepIsAnyStep, LimitsStep
<1> QED
  BY <1>1, <1>2, AlwaysAccounts, PTL DEF VSSpec

(* A parent with no descriptor left is full for good, so that who is       *)
(* queued then is served by no step but its end (ValidatorServer.h:19).    *)
THEOREM FullForGoodHolds == VSSpec => FullForGood
<1>1. Accounts /\ Accounts' /\ [VSNext]_vsVars =>
        [server = "running" /\ server' = "running" /\ Cardinality(held[Parent]) >= MaxFds =>
           held'[Parent] = held[Parent] /\ Queued \subseteq Queued']_vsVars
  BY StepIsAnyStep, FullStep
<1>2. VSSpec => [][VSNext]_vsVars
  BY DEF VSSpec
<1> QED
  BY <1>1, <1>2, AlwaysAccounts, PTL DEF FullForGood
================================================================================
