--------------------------- MODULE TranslationService ---------------------------
(***************************************************************************)
(* The relay server and the validator server together, joined by the       *)
(* sockets, under the HTTP requests of the frontend.                       *)
(***************************************************************************)
EXTENDS ValidatorServer, RelayServer

vars == <<socketVars, serverVars, relayVars>>

Init == SocketsInit /\ ServerInit /\ RelayInit

Next ==
  \/ ServerNext /\ UNCHANGED relayVars
  \/ RelayNext /\ UNCHANGED serverVars

(* Runnable processes and pool threads run.  Nothing makes a client post,  *)
(* a fault happen or the server start again.                               *)
Fairness ==
  /\ WF_vars((AcceptAndFork \/ ForkFails) /\ UNCHANGED relayVars)
  /\ \A r \in Requests :
       /\ WF_vars(ChildStep(r) /\ UNCHANGED relayVars)
       /\ WF_vars(RelayStep(r) /\ UNCHANGED serverVars)

Spec == Init /\ [][Next]_vars /\ Fairness

--------------------------------------------------------------------------------
(* Every variable has its type.                                            *)
TypeOK == SocketsTypeOK /\ ServerTypeOK /\ RelayTypeOK

(* The two servers implement the abstract service: what a client was told  *)
(* is the first of its replies.                                            *)
ServerSafe == "server" \notin Faults /\ MaxProcs >= Cardinality(Requests)

posted == {r \in Requests : handler[r] # "absent"}
told   == [r \in Requests |-> IF replies[r] = <<>> THEN "none" ELSE Head(replies[r])]

Service == INSTANCE RequestService WITH
  Reliable <- ServerSafe, outcome <- result, reply <- told

ImplementsService == Service!Spec

Replied(r) == replies[r] # <<>>

(* The ways a request can hang: nobody will read or answer the connection  *)
(* it waits on, to finish sending or for the answer, and somebody still    *)
(* holds it; or every thread of the pool is taken, for good.               *)
NobodyAnswers(r) ==
  /\ handler[r] = "reading" \/ (handler[r] = "sending" /\ toServer[r] = "part")
  /\ toRelay[r] \notin AllResults
  /\ ~HungUp(r)
  /\ IF r \in Queued
     THEN server = "down" \/ Cardinality(held[Parent]) >= MaxFds
     ELSE r \notin Live

PoolTaken ==
  Cardinality(At(InHandler)) + Cardinality(At(InWork)) >= Threads

(* A request that arrives is replied, or it hangs in one of the ways above *)
(* or dies with the relay: there is no other way to lose a request.        *)
RepliedOrHangs ==
  \A r \in Requests :
    handler[r] = "queued" ~>
      Replied(r) \/ handler[r] = "lost" \/ NobodyAnswers(r) \/ []PoolTaken

(* README.md:68: requests are processed and do not block each other: each  *)
(* one that arrives is replied.                                            *)
EveryRequestReplied == \A r \in Requests : handler[r] = "queued" ~> Replied(r)

(* README.md:68: requests "do not interfere with/block each other": each   *)
(* one that arrives is replied unless its own child ended without an       *)
(* answer.  It takes room in the pool for all of them.                     *)
Unanswered(r) == child[r] \in {"zombie", "reaped"} /\ toRelay[r] \notin AllResults

HangsAlone == \A r \in Requests : handler[r] = "queued" ~> Replied(r) \/ Unanswered(r)

(* A relay that waits for its command to go out or for the answer gives up *)
(* only after the server that accepted its connection is gone: of a child  *)
(* that died without an answer it learns nothing as long as the parent     *)
(* runs ("connection closed by client", RelayServer.cpp:187, needs a       *)
(* server that is down).                                                   *)
GivesUpOnlyAfterServer ==
  [][\A r \in Requests :
       /\ handler[r] \in {"sending", "reading"}
       /\ toRelay[r] \notin AllResults
       /\ handler'[r] \notin {"sending", "reading", "lost"}
       => child[r] \in {"none", "reaped"}]_vars

(* The places from which a handler goes on only if the pool has a thread   *)
(* for the continuation that it waits for itself.                          *)
InWait == {"extracting", "ready", "responding"}

(* Once every thread of the pool waits for a continuation there is no      *)
(* thread for any of these, nor for a new request: until the relay is      *)
(* killed none of them goes on, whatever the validator, the clients and    *)
(* the other handlers do (RelayServer.cpp:112, 161).                       *)
StarvedForGood ==
  [][Cardinality(At(InWait)) >= Threads =>
       \A r \in At(InWait \cup {"queued"}) : handler'[r] \in {handler[r], "lost"}]_vars

(* Who waits for an answer that nobody will give waits for good: as long   *)
(* as the parent that has the connection, open or queued, and the relay    *)
(* run, the send or the read neither ends nor finds anything               *)
(* (RelayServer.cpp:267, 275; ValidatorServer.cpp:119-143).                *)
HangsForGood ==
  [][server = "running" /\ server' = "running" =>
       \A r \in Queued \cup held[Parent] :
         NobodyAnswers(r) => \/ handler'[r] = "lost"
                             \/ NobodyAnswers(r)' /\ r \in Queued' \cup held'[Parent]]_vars

(* How many steps a request still has to take.                             *)
StepsToReply(place) ==
  CASE place = "absent" -> 9 [] place = "queued" -> 8 [] place = "extracting" -> 7
    [] place = "ready" -> 6 [] place = "connecting" -> 5 [] place = "sending" -> 4
    [] place = "reading" -> 3 [] place = "responding" -> 2
    [] place \in {"finishing", "failed"} -> 1 [] OTHER -> 0

(* No request goes back, connects or sends again: whatever happens to it   *)
(* brings it nearer to its end (RelayServer.cpp:69-161, 258-278).          *)
RequestsGoOn ==
  [][\A r \in Requests :
       \/ handler'[r] = handler[r]
       \/ StepsToReply(handler'[r]) < StepsToReply(handler[r])]_vars
================================================================================
