------------------------------ MODULE RelayServer ------------------------------
(***************************************************************************)
(* The relay server: an HTTP listener whose handlers run on the threads of *)
(* the cpprest pool (RelayServer.cpp).  A handler keeps its thread blocked *)
(* in .wait() while the two continuations it waits for need threads of the *)
(* same pool; the first one sends the command to the validator and blocks  *)
(* in connect and read.                                                    *)
(***************************************************************************)
EXTENDS Sockets

CONSTANTS
  Threads,      \* threads of the cpprest pool
  MaxSockets    \* descriptors the relay can have open towards the validator

ASSUME ThreadsAssumption == Threads \in Nat \ {0}
ASSUME SocketsAssumption == MaxSockets \in Nat

Kinds == Commands \cup {"other"}        \* by path: /api/validate, ..., unknown

(* What an HTTP client can be told: 200 with the verdict or the IRs, 500   *)
(* with a message, the library's own 500, 404.                             *)
OKResponses == {"verified", "not verified", "irs"}
Responses   == OKResponses \cup {"error", "internal", "not found"}

VARIABLES
  kind,         \* kind[r]: what the request asks for
  handler,      \* handler[r]: where its processing stands
  response,     \* response[r]: what the first continuation returns, "none" before
  replies       \* replies[r]: the replies given, in order

relayVars == <<kind, handler, response, replies>>

(* "failed": a continuation threw, the handler's wait() is about to throw. *)
InHandler == {"extracting", "ready", "connecting", "sending", "reading",
              "responding", "finishing", "failed"}
InWork    == {"connecting", "sending", "reading"}
Handlers  == InHandler \cup {"absent", "queued", "done", "lost"}

RelayTypeOK ==
  /\ kind \in [Requests -> Kinds]
  /\ handler \in [Requests -> Handlers]
  /\ response \in [Requests -> OKResponses \cup {"none"}]
  /\ replies \in [Requests -> Seq(Responses)]

RelayInit ==
  /\ kind \in [Requests -> Kinds]
  /\ handler = [r \in Requests |-> "absent"]
  /\ response = [r \in Requests |-> "none"]
  /\ replies = [r \in Requests |-> <<>>]

At(places)  == {r \in Requests : handler[r] \in places}
ThreadFreeOneLess ==                     \* mutant: a thread kept for the listener
  Cardinality(At(InHandler)) + Cardinality(At(InWork)) + 1 < Threads
ThreadFree  == Cardinality(At(InHandler)) + Cardinality(At(InWork)) < Threads
OpenSockets == {r \in Requests : relayEnd[r] = "open"}

Goto(r, place)  == handler' = [handler EXCEPT ![r] = place]
Reply(r, what)  == replies' = [replies EXCEPT ![r] = Append(@, what)]
CloseSocket(r)  == relayEnd' = [relayEnd EXCEPT ![r] = "closed"]

(* Mutant: the error is replied to and swallowed.                          *)
FaultSwallowed(r) ==
  /\ Goto(r, "responding")
  /\ Reply(r, "error")
  /\ response' = [response EXCEPT ![r] = "not verified"]

(* catch: reply_with_error and re-throw, which skips the second            *)
(* continuation.                                                           *)
Fault(r) == Goto(r, "failed") /\ Reply(r, "error") /\ UNCHANGED response

Respond(r, what) ==
  /\ Goto(r, "responding")
  /\ response' = [response EXCEPT ![r] = what]
  /\ UNCHANGED replies

--------------------------------------------------------------------------------
Post(r) ==
  /\ handler[r] = "absent"
  /\ Goto(r, "queued")
  /\ UNCHANGED <<socketVars, kind, response, replies>>

HandlePost(r) ==
  /\ handler[r] = "queued"
  /\ ThreadFree
  /\ IF kind[r] \in Commands
     THEN Goto(r, "extracting") /\ UNCHANGED replies
     ELSE Goto(r, "done") /\ Reply(r, "not found")
  /\ UNCHANGED <<socketVars, kind, response>>

(* The body is read and parsed; a body that is not JSON fails the chain    *)
(* before the first continuation.                                          *)
ExtractJson(r) ==
  /\ handler[r] = "extracting"
  /\ ThreadFree
  /\ Goto(r, "ready") \/ Goto(r, "failed")
  /\ UNCHANGED <<socketVars, kind, response, replies>>

(* The first continuation: a field is missing or is no string ...          *)
RejectBody(r) ==
  /\ handler[r] = "ready"
  /\ ThreadFree
  /\ Fault(r)
  /\ UNCHANGED <<socketVars, kind>>

(* ... or the command is complete and goes to send_to_validator.           *)
StartWork(r) ==
  /\ handler[r] = "ready"
  /\ ThreadFree
  /\ Goto(r, "connecting")
  /\ UNCHANGED <<socketVars, kind, response, replies>>

Connect(r) ==
  /\ handler[r] = "connecting"
  /\ Cardinality(OpenSockets) < MaxSockets
  /\ OpenConnection(r)
  /\ Goto(r, "sending")
  /\ UNCHANGED <<kind, response, replies>>

(* Mutant: a refused connection is tried again.                            *)
ConnectFailsRetries(r) ==
  /\ handler[r] = "connecting"
  /\ \/ Cardinality(OpenSockets) >= MaxSockets
     \/ Len(backlog) >= Backlog
  /\ Fault(r)
  /\ UNCHANGED <<socketVars, kind>>

(* socket() fails, nobody listens, or the queue of the listener stays full *)
(* until the kernel gives the attempt up.                                  *)
ConnectFails(r) ==
  /\ handler[r] = "connecting"
  /\ \/ Cardinality(OpenSockets) >= MaxSockets
     \/ listeners = {}
     \/ Len(backlog) >= Backlog
  /\ Fault(r)
  /\ UNCHANGED <<socketVars, kind>>

(* send() of a command that does not fit the buffers fills them and blocks *)
(* until the other side has read ...                                       *)
SendPart(r) ==
  /\ handler[r] = "sending"
  /\ r \in Long
  /\ toServer[r] = "nothing"
  /\ toServer' = [toServer EXCEPT ![r] = "part"]
  /\ UNCHANGED <<backlog, listeners, held, relayEnd, toRelay, relayVars>>

(* ... and returns when the whole command is sent or in the buffers.       *)
SendCommand(r) ==
  /\ handler[r] = "sending"
  /\ toServer[r] \in {"nothing", "taken"}
  /\ toServer' = [toServer EXCEPT ![r] = kind[r]]
  /\ Goto(r, "reading")
  /\ UNCHANGED <<backlog, listeners, held, relayEnd, toRelay, kind, response,
                 replies>>

(* The connection was reset before or while the command went out.          *)
SendFails(r) ==
  /\ handler[r] = "sending"
  /\ HungUp(r)
  /\ CloseSocket(r)
  /\ Fault(r)
  /\ UNCHANGED <<backlog, listeners, held, toServer, toRelay, kind>>

(* Mutant: what does not say "incorrect" counts as verified.               *)
ReadAnswerByAbsence(r) ==
  /\ handler[r] = "reading"
  /\ toRelay[r] \in AllResults
  /\ CloseSocket(r)
  /\ \/ toRelay[r] \in {"correct", "no function"} /\ Respond(r, "verified")
     \/ toRelay[r] = "incorrect" /\ Respond(r, "not verified")
     \/ toRelay[r] = "irs"       /\ Respond(r, "irs")
     \/ toRelay[r] = "no irs"    /\ Fault(r)
  /\ UNCHANGED <<backlog, listeners, held, toServer, toRelay, kind>>

(* The verdict is read off the text of the answer.                         *)
ReadAnswer(r) ==
  /\ handler[r] = "reading"
  /\ toRelay[r] \in AllResults
  /\ CloseSocket(r)
  /\ \/ toRelay[r] = "correct"   /\ Respond(r, "verified")
     \/ toRelay[r] = "incorrect" /\ Respond(r, "not verified")
     \/ toRelay[r] = "irs"       /\ Respond(r, "irs")
     \/ toRelay[r] \in {"no function", "no irs"} /\ Fault(r)
  /\ UNCHANGED <<backlog, listeners, held, toServer, toRelay, kind>>

(* Mutant: an empty output has no error in it, so is a success.            *)
ReadNothingVerified(r) ==
  /\ handler[r] = "reading"
  /\ HungUp(r)
  /\ toRelay[r] \in {"nothing", "part"}
  /\ CloseSocket(r)
  /\ IF kind[r] = "VALIDATE" THEN Respond(r, "verified") ELSE Fault(r)
  /\ UNCHANGED <<backlog, listeners, held, toServer, toRelay, kind>>

(* The connection ends before the answer or inside its length:             *)
(* read_validator_message succeeds with an empty buffer.  An empty         *)
(* verifier output is a validation that did not succeed; an empty pair of  *)
(* IRs throws out_of_range.                                                *)
ReadNothing(r) ==
  /\ handler[r] = "reading"
  /\ HungUp(r)
  /\ toRelay[r] \in {"nothing", "part"}
  /\ CloseSocket(r)
  /\ IF kind[r] = "VALIDATE" THEN Respond(r, "not verified") ELSE Fault(r)
  /\ UNCHANGED <<backlog, listeners, held, toServer, toRelay, kind>>

(* It ends inside the message: read_until_length throws past the close.     *)
ReadPart(r) ==
  /\ handler[r] = "reading"
  /\ HungUp(r)
  /\ toRelay[r] = "part"
  /\ Fault(r)
  /\ UNCHANGED <<socketVars, kind>>

(* The second continuation.                                                *)
ReplyOK(r) ==
  /\ handler[r] = "responding"
  /\ ThreadFree
  /\ Reply(r, response[r])
  /\ Goto(r, "finishing")
  /\ UNCHANGED <<socketVars, kind, response>>

(* wait() returns or throws; the library replies to a request whose        *)
(* handler threw without having replied.                                   *)
Finish(r) ==
  /\ handler[r] \in {"finishing", "failed"}
  /\ Goto(r, "done")
  /\ IF handler[r] = "failed" /\ replies[r] = <<>> THEN Reply(r, "internal")
                                                   ELSE UNCHANGED replies
  /\ UNCHANGED <<socketVars, kind, response>>

(* The relay is killed, perhaps inside sends, and run again: its           *)
(* descriptors close and the requests in flight are lost.                  *)
RelayKilled ==
  /\ "relay" \in Faults
  /\ At(InHandler) # {}
  /\ handler' = [r \in Requests |-> IF handler[r] \in InHandler \cup {"queued"}
                                    THEN "lost" ELSE handler[r]]
  /\ relayEnd' = [r \in Requests |-> IF relayEnd[r] = "open" THEN "closed"
                                                            ELSE relayEnd[r]]
  /\ \E cut \in SUBSET At({"sending"}) :
       toServer' = [r \in Requests |-> IF r \in cut THEN "part" ELSE toServer[r]]
  /\ UNCHANGED <<backlog, listeners, held, toRelay, kind, response, replies>>

RelayStep(r) ==
  \/ HandlePost(r) \/ ExtractJson(r) \/ RejectBody(r) \/ StartWork(r)
  \/ Connect(r) \/ ConnectFails(r)
  \/ SendPart(r) \/ SendCommand(r) \/ SendFails(r)
  \/ ReadAnswer(r) \/ ReadNothing(r) \/ ReadPart(r)
  \/ ReplyOK(r) \/ Finish(r)

RelayNext ==
  \/ \E r \in Requests : Post(r) \/ RelayStep(r)
  \/ RelayKilled

--------------------------------------------------------------------------------
(* A request gets one reply: reply_with_error and the re-throw that skips  *)
(* the second continuation, the 404 and the library's own reply to a       *)
(* handler that threw (RelayServer.cpp:58, 105-112) never add up to two,   *)
(* and no handler ends without one.                                        *)
OneReply ==
  \A r \in Requests :
    /\ Len(replies[r]) <= 1
    /\ handler[r] = "done" => Len(replies[r]) = 1
    /\ handler[r] \in {"absent", "queued"} => replies[r] = <<>>

(* A 200 claims no more than the validator did: "verified" and the IRs     *)
(* only come from a complete answer that says so to that request's command *)
(* (RelayServer.cpp:144, 93-104).                                          *)
ClaimsOnlyAnswers ==
  \A r \in Requests :
    /\ replies[r] = <<"verified">> => toRelay[r] = "correct" /\ kind[r] = "VALIDATE"
    /\ replies[r] = <<"irs">> => toRelay[r] = "irs" /\ kind[r] = "GENERATE"

(* RelayServer.cpp:35: the relay "relays the response from the validator   *)
(* server back to the frontend": a 200 that reports a validation that did  *)
(* not succeed has such a response behind it.                              *)
RelaysResponse ==
  \A r \in Requests :
    replies[r] = <<"not verified">> => toRelay[r] = "incorrect"

(* RelayServer.cpp:256: send_to_validator "will create a temporary TCP     *)
(* socket and then close it": a request that was dealt with has none left. *)
SocketsClosed == \A r \in Requests : handler[r] = "done" => relayEnd[r] # "open"

(* It keeps one in one case only: the connection ended inside the answer.  *)
LeaksOnlyCutAnswers ==
  \A r \in Requests :
    handler[r] = "done" /\ relayEnd[r] = "open" => toRelay[r] = "part"
================================================================================
