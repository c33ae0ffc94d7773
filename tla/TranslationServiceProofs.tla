------------------------ MODULE TranslationServiceProofs ------------------------
(***************************************************************************)
(* What an HTTP client is told by the two servers, for every number of     *)
(* requests, threads, descriptors and processes: the replies, and the      *)
(* refinement of the abstract service.                                     *)
(***************************************************************************)
EXTENDS TranslationService, ValidatorServerProofs, FiniteSetTheorems

Unsent    == {"absent", "queued", "extracting", "ready", "connecting"}
Unreplied == Unsent \cup {"sending", "reading", "responding"}

(* Where a request stands fixes what it has opened, sent and replied.      *)
Progress ==
  \A r \in Requests :
    /\ handler[r] \in InHandler => kind[r] \in Commands
    /\ handler[r] \in Unsent => relayEnd[r] = "none"
    /\ handler[r] \in {"sending", "reading"} => relayEnd[r] = "open"
    /\ handler[r] \in Unsent => toServer[r] = "nothing"
    /\ handler[r] = "sending" => toServer[r] \in {"nothing", "part", "taken"}
    /\ toServer[r] \in Commands => toServer[r] = kind[r]

RepliedRight(r) ==
  /\ handler[r] \in Unreplied => replies[r] = <<>>
  /\ handler[r] \in {"responding", "finishing"} => response[r] \in OKResponses
  /\ handler[r] = "finishing" => replies[r] = <<response[r]>>
  /\ handler[r] = "failed" => replies[r] \in {<<>>, <<"error">>}
  /\ handler[r] = "done" => \E a \in Responses : replies[r] = <<a>>
  /\ replies[r] = <<>> \/ \E a \in Responses : replies[r] = <<a>>

Replying == \A r \in Requests : RepliedRight(r)

(* What a response claims is in the answer of the validator.               *)
Claims(r, claim) ==
  /\ claim = "verified" => toRelay[r] = "correct" /\ kind[r] = "VALIDATE"
  /\ claim = "irs" => toRelay[r] = "irs" /\ kind[r] = "GENERATE"
  /\ claim = "not verified" => toRelay[r] = "incorrect" \/ ~ServerSafe

Claimed(r) ==
  /\ Claims(r, response[r])
  /\ \A a \in Responses : replies[r] = <<a>> => Claims(r, a)

Claiming == \A r \in Requests : Claimed(r)

(* A server that no fault takes down has processes for every request.      *)
StaysUp == ServerSafe => server = "running" /\ \A r \in Requests : ~HungUp(r)

(* The inductive invariant.                                                *)
Inv ==
  /\ Accounts
  /\ Answers
  /\ RelayTypeOK
  /\ Progress
  /\ Replying
  /\ Claiming
  /\ StaysUp

--------------------------------------------------------------------------------
(* Both servers start consistent with each other.                          *)
LEMMA InvInit == Init => Inv
<1> SUFFICES ASSUME Init PROVE Inv
  OBVIOUS
<1>1. Accounts /\ Answers
  BY BooksInit DEF Init, VSInit
<1>2. RelayTypeOK
  BY DEF Init, RelayInit, RelayTypeOK, Handlers
<1>3. Progress
  BY DEF Init, RelayInit, SocketsInit, Progress, InHandler, Unsent, Commands
<1>4. Replying
  BY DEF Init, RelayInit, Replying, RepliedRight, Unreplied, Unsent
<1>5. Claiming
  BY DEF Init, RelayInit, Claiming, Claimed, Claims
<1>6. StaysUp
  BY DEF Init, ServerInit, SocketsInit, StaysUp, HungUp
<1> QED
  BY <1>1, <1>2, <1>3, <1>4, <1>5, <1>6 DEF Inv

(* To the server, the relay is a client like any other.                    *)
LEMMA RelayIsClientSide ==
  ASSUME Inv, RelayNext
  PROVE  ClientSide
<1> USE DEF Inv, Accounts, VSTypeOK, SocketsTypeOK, ClientSide
<1>0. "nothing" \notin Commands /\ "part" \notin Commands /\ "taken" \notin Commands
  BY DEF Commands
<1>1. ASSUME NEW r \in Requests,
             Post(r) \/ HandlePost(r) \/ ExtractJson(r) \/ RejectBody(r) \/ StartWork(r)
             \/ ConnectFails(r) \/ ReadPart(r) \/ ReplyOK(r) \/ Finish(r)
      PROVE  ClientSide
  BY <1>1 DEF Post, HandlePost, ExtractJson, RejectBody, StartWork, ConnectFails, ReadPart,
              ReplyOK, Finish,
              socketVars, ClientsQuiet
<1>2. ASSUME NEW r \in Requests, Connect(r) PROVE ClientSide
  BY <1>2 DEF Connect
<1>3. ASSUME NEW r \in Requests, SendCommand(r) PROVE ClientSide
  <2>1. kind[r] \in Commands /\ toServer[r] \in {"nothing", "taken"}
    BY <1>3 DEF SendCommand, Progress, InHandler
  <2> QED
    BY <1>0, <1>3, <2>1 DEF SendCommand, ClientsQuiet
<1>4. ASSUME NEW r \in Requests, SendFails(r) \/ ReadAnswer(r) \/ ReadNothing(r) PROVE ClientSide
  <2>1. relayEnd[r] = "open"
    BY <1>4 DEF SendFails, ReadAnswer, ReadNothing, Progress
  <2> QED
    BY <1>4, <2>1 DEF SendFails, ReadAnswer, ReadNothing, CloseSocket, ClientsQuiet
<1>5. CASE RelayKilled
  <2>1. PICK cut \in SUBSET At({"sending"}) :
          toServer' = [r \in Requests |-> IF r \in cut THEN "part" ELSE toServer[r]]
    BY <1>5 DEF RelayKilled
  <2>2. \A r \in cut : r \in Requests /\ toServer[r] \in {"nothing", "part", "taken"}
    BY <2>1 DEF At, Progress
  <2> QED
    BY <1>0, <1>5, <2>1, <2>2 DEF RelayKilled, ClientsQuiet
<1>6. ASSUME NEW r \in Requests, SendPart(r) PROVE ClientSide
  BY <1>0, <1>6 DEF SendPart, ClientsQuiet
<1> QED
  BY <1>1, <1>2, <1>3, <1>4, <1>5, <1>6 DEF RelayNext, RelayStep

(* A server with room for a child per request never fails to fork.         *)
LEMMA ForkSucceeds ==
  ASSUME Inv, ServerSafe, ServerNext
  PROVE  server' = "running"
<1> USE DEF Inv, Accounts, VSTypeOK, SocketsTypeOK, ServerTypeOK
<1>1. server = "running"
  BY DEF StaysUp
<1>2. ~ForkFails
  <2> SUFFICES ASSUME ForkFails PROVE FALSE
    OBVIOUS
  <2> DEFINE c == Head(backlog)
  <2> DEFINE used == Live \cup Zombie
  <2>1. c \in Requests /\ c \in Queued
    BY TailOfQueue DEF ForkFails, CanAccept, QueueFresh, Queued
  <2>2. used \subseteq Requests /\ c \notin used
    BY <2>1 DEF QueueFresh, Live, Zombie
  <2>3. IsFiniteSet(Requests) /\ Cardinality(Requests) \in Nat
    BY RequestsAssumption, FS_CardinalityType
  <2>4. IsFiniteSet(used) /\ Cardinality(used) <= Cardinality(Requests) /\ Cardinality(used) \in Nat
    BY <2>2, <2>3, FS_Subset, FS_CardinalityType
  <2>5. Cardinality(used) # Cardinality(Requests)
    BY <2>1, <2>2, <2>3, FS_Subset
  <2>6. Cardinality(used) < MaxProcs
    BY <2>3, <2>4, <2>5, LimitsAssumption DEF ServerSafe
  <2> QED
    BY <2>6 DEF ForkFails, CanFork
<1> QED
  BY <1>1, <1>2
     DEF ServerNext, AcceptAndFork, ServerKilled, StartServer, ChildStep, TakePart, serverVars,
         ReadCommand, RejectCommand, HandleCommand, SendResponse, ChildDies, EndChild, ServerSafe

--------------------------------------------------------------------------------
(* The steps of the relay.                                                 *)

RelayInv == RelayTypeOK /\ Progress /\ Replying /\ Claiming

(* Steps that touch neither sockets nor replies.                           *)
LEMMA MoveKeeps ==
  ASSUME Inv, NEW r \in Requests, NEW place \in Handlers, Goto(r, place),
         UNCHANGED <<socketVars, kind, response, replies>>,
         handler[r] \in Unsent,
         place \in Unsent \cup {"failed"},
         place \in InHandler => kind[r] \in Commands
  PROVE  RelayInv'
<1> USE DEF Inv, RelayTypeOK, Goto
<1>1. /\ handler' \in [Requests -> Handlers]
      /\ handler'[r] = place /\ \A q \in Requests \ {r} : handler'[q] = handler[q]
  OBVIOUS
<1> HIDE DEF Goto
<1>2. Progress'
  BY <1>1 DEF Progress, socketVars, Unsent, InHandler
<1>3. Replying'
  BY <1>1 DEF Replying, RepliedRight, Unreplied, Unsent
<1>4. Claiming'
  BY DEF Claiming, Claimed, Claims, socketVars
<1> QED
  BY <1>1, <1>2, <1>3, <1>4 DEF RelayInv

(* The replies to the other requests stay what they are, and what they say *)
(* stays true.                                                             *)
LEMMA OthersReplied ==
  ASSUME Replying, NEW r,
         \A q \in Requests \ {r} :
           handler'[q] = handler[q] /\ response'[q] = response[q] /\ replies'[q] = replies[q]
  PROVE  \A q \in Requests \ {r} : RepliedRight(q)'
BY DEF Replying, RepliedRight

LEMMA OthersClaimed ==
  ASSUME Claiming, NEW r, UNCHANGED <<kind, toRelay>>,
         \A q \in Requests \ {r} : response'[q] = response[q] /\ replies'[q] = replies[q]
  PROVE  \A q \in Requests \ {r} : Claimed(q)'
BY DEF Claiming, Claimed, Claims

(* The catch clause.                                                       *)
LEMMA FaultKeeps ==
  ASSUME Inv, NEW r \in Requests, Fault(r), handler[r] \in Unreplied, kind[r] \in Commands,
         UNCHANGED <<kind, toServer, toRelay>>,
         \A q \in Requests \ {r} : relayEnd'[q] = relayEnd[q]
  PROVE  RelayInv'
<1> USE DEF Inv, RelayTypeOK
<1>1. /\ handler' \in [Requests -> Handlers]
      /\ handler'[r] = "failed" /\ \A q \in Requests \ {r} : handler'[q] = handler[q]
      /\ response' = response
  BY DEF Fault, Goto, Handlers, InHandler
<1>2. /\ replies'[r] = <<"error">> /\ \A q \in Requests \ {r} : replies'[q] = replies[q]
      /\ replies' \in [Requests -> Seq(Responses)]
      /\ "error" \in Responses
  <2>1. replies[r] = <<>> /\ "error" \in Responses
    BY DEF Replying, RepliedRight, Responses
  <2>2. Append(<<>>, "error") = <<"error">> /\ <<"error">> \in Seq(Responses)
    BY <2>1
  <2> QED
    BY <2>1, <2>2 DEF Fault, Reply
<1>3. Progress'
  BY <1>1 DEF Progress, Unsent
<1>4. Replying'
  <2>1. \E a \in Responses : replies'[r] = <<a>>
    BY <1>2
  <2>2. handler'[r] \notin Unreplied \cup {"responding", "finishing", "done"}
    BY <1>1 DEF Unreplied, Unsent
  <2>3. RepliedRight(r)'
    BY <1>1, <1>2, <2>1, <2>2 DEF RepliedRight
  <2>4. \A q \in Requests \ {r} : handler'[q] = handler[q] /\ response'[q] = response[q]
                                  /\ replies'[q] = replies[q]
    BY <1>1, <1>2
  <2>5. \A q \in Requests \ {r} : RepliedRight(q)'
    BY <2>4, OthersReplied
  <2> QED
    BY <2>3, <2>5 DEF Replying
<1>5. Claiming'
  <2>1. \A a \in Responses : replies'[r] = <<a>> => a = "error"
    BY <1>2
  <2>2. Claimed(r)'
    BY <1>1, <2>1 DEF Claiming, Claimed, Claims
  <2>3. \A q \in Requests \ {r} : response'[q] = response[q] /\ replies'[q] = replies[q]
    BY <1>1, <1>2
  <2>4. \A q \in Requests \ {r} : Claimed(q)'
    BY <2>3, OthersClaimed
  <2> QED
    BY <2>2, <2>4 DEF Claiming
<1> QED
  BY <1>1, <1>2, <1>3, <1>4, <1>5 DEF RelayInv

(* A response is formed.                                                   *)
LEMMA RespondKeeps ==
  ASSUME Inv, NEW r \in Requests, NEW what \in OKResponses, Respond(r, what),
         handler[r] = "reading", Claims(r, what),
         UNCHANGED <<kind, toServer, toRelay>>,
         \A q \in Requests \ {r} : relayEnd'[q] = relayEnd[q]
  PROVE  RelayInv'
<1> USE DEF Inv, RelayTypeOK
<1>1. /\ handler' \in [Requests -> Handlers]
      /\ handler'[r] = "responding" /\ \A q \in Requests \ {r} : handler'[q] = handler[q]
      /\ response' \in [Requests -> OKResponses \cup {"none"}]
      /\ response'[r] = what /\ \A q \in Requests \ {r} : response'[q] = response[q]
      /\ replies' = replies
  BY DEF Respond, Goto, Handlers, InHandler
<1>2. replies[r] = <<>> /\ \A a \in Responses : <<>> # <<a>>
  BY DEF Replying, RepliedRight, Unreplied
<1>3. Progress'
  BY <1>1 DEF Progress, Unsent, InHandler
<1>4. Replying'
  <2>1. RepliedRight(r)'
    BY <1>1, <1>2 DEF RepliedRight, Unreplied, Unsent
  <2>2. \A q \in Requests \ {r} : handler'[q] = handler[q] /\ response'[q] = response[q]
                                  /\ replies'[q] = replies[q]
    BY <1>1
  <2>3. \A q \in Requests \ {r} : RepliedRight(q)'
    BY <2>2, OthersReplied
  <2> QED
    BY <2>1, <2>3 DEF Replying
<1>5. Claiming'
  <2>1. Claimed(r)'
    BY <1>1, <1>2 DEF Claimed, Claims
  <2>2. \A q \in Requests \ {r} : response'[q] = response[q] /\ replies'[q] = replies[q]
    BY <1>1
  <2>3. \A q \in Requests \ {r} : Claimed(q)'
    BY <2>2, OthersClaimed
  <2> QED
    BY <2>1, <2>3 DEF Claiming
<1> QED
  BY <1>1, <1>3, <1>4, <1>5 DEF RelayInv

(* The remaining replies: 404, 200, and the library's 500.                 *)
LEMMA ReplyKeeps ==
  ASSUME Inv, NEW r \in Requests, NEW a \in Responses, NEW place \in {"done", "finishing"},
         Goto(r, place), Reply(r, a), replies[r] = <<>>, Claims(r, a),
         UNCHANGED <<socketVars, kind, response>>,
         place = "finishing" => a = response[r] /\ response[r] \in OKResponses /\ kind[r] \in Commands
  PROVE  RelayInv'
<1> USE DEF Inv, RelayTypeOK
<1>1. /\ handler' \in [Requests -> Handlers]
      /\ handler'[r] = place /\ \A q \in Requests \ {r} : handler'[q] = handler[q]
  BY DEF Goto, Handlers, InHandler
<1>2. /\ replies'[r] = <<a>> /\ \A q \in Requests \ {r} : replies'[q] = replies[q]
      /\ replies' \in [Requests -> Seq(Responses)]
  <2>1. Append(<<>>, a) = <<a>> /\ <<a>> \in Seq(Responses)
    OBVIOUS
  <2> QED
    BY <2>1 DEF Reply
<1>3. Progress'
  BY <1>1 DEF Progress, Unsent, InHandler, socketVars
<1>4. Replying'
  <2>1. \E b \in Responses : replies'[r] = <<b>>
    BY <1>2
  <2>2. handler'[r] \notin Unreplied \cup {"responding", "failed"}
    BY <1>1 DEF Unreplied, Unsent
  <2>3. RepliedRight(r)'
    BY <1>1, <1>2, <2>1, <2>2 DEF RepliedRight
  <2>4. \A q \in Requests \ {r} : handler'[q] = handler[q] /\ response'[q] = response[q]
                                  /\ replies'[q] = replies[q]
    BY <1>1, <1>2
  <2>5. \A q \in Requests \ {r} : RepliedRight(q)'
    BY <2>4, OthersReplied
  <2> QED
    BY <2>3, <2>5 DEF Replying
<1>5. Claiming'
  <2>1. \A b \in Responses : <<a>> = <<b>> => a = b
    OBVIOUS
  <2>2. Claimed(r)'
    BY <1>2, <2>1 DEF Claiming, Claimed, Claims, socketVars
  <2>3. \A q \in Requests \ {r} : response'[q] = response[q] /\ replies'[q] = replies[q]
    BY <1>2 DEF socketVars
  <2>4. \A q \in Requests \ {r} : Claimed(q)'
    BY <2>3, OthersClaimed DEF socketVars
  <2> QED
    BY <2>2, <2>4 DEF Claiming
<1> QED
  BY <1>1, <1>2, <1>3, <1>4, <1>5 DEF RelayInv

(* The steps of the relay keep its own part of the invariant; they read    *)
(* the validator's state only through the sockets.                         *)
LEMMA RelayKeeps ==
  ASSUME Inv, RelayNext
  PROVE  RelayInv'
<1> USE DEF Inv
<1>0. "nothing" \notin Commands /\ "part" \notin Commands /\ "taken" \notin Commands
  BY DEF Commands
<1>1. ASSUME NEW r \in Requests, Post(r) PROVE RelayInv'
  BY <1>1, MoveKeeps DEF Post, Unsent, InHandler, Handlers
<1>2. ASSUME NEW r \in Requests, HandlePost(r) PROVE RelayInv'
  <2>1. CASE kind[r] \in Commands
    BY <1>2, <2>1, MoveKeeps DEF HandlePost, Unsent, InHandler, Handlers
  <2>2. CASE kind[r] \notin Commands
    <3>1. replies[r] = <<>> /\ Claims(r, "not found") /\ "not found" \in Responses
      BY <1>2 DEF HandlePost, Replying, RepliedRight, Unreplied, Unsent, Claims, Responses
    <3> QED
      BY <1>2, <2>2, <3>1, ReplyKeeps DEF HandlePost
  <2> QED
    BY <2>1, <2>2
<1>3. ASSUME NEW r \in Requests, ExtractJson(r) \/ StartWork(r) PROVE RelayInv'
  <2>1. kind[r] \in Commands
    BY <1>3 DEF ExtractJson, StartWork, Progress, InHandler
  <2> QED
    BY <1>3, <2>1, MoveKeeps DEF ExtractJson, StartWork, Unsent, InHandler, Handlers
<1>4. ASSUME NEW r \in Requests, RejectBody(r) \/ ConnectFails(r) \/ ReadPart(r) PROVE RelayInv'
  <2>1. kind[r] \in Commands
    BY <1>4 DEF RejectBody, ConnectFails, ReadPart, Progress, InHandler
  <2> QED
    BY <1>4, <2>1, FaultKeeps DEF RejectBody, ConnectFails, ReadPart, socketVars, Unreplied,
                Unsent
<1>5. ASSUME NEW r \in Requests, SendFails(r) PROVE RelayInv'
  <2>1. kind[r] \in Commands
    BY <1>5 DEF SendFails, Progress, InHandler
  <2> QED
    BY <1>5, <2>1, FaultKeeps
       DEF SendFails, CloseSocket, Unreplied, Accounts, VSTypeOK, SocketsTypeOK
<1>6. ASSUME NEW r \in Requests, Connect(r) PROVE RelayInv'
  <2>1. /\ handler[r] = "connecting" /\ UNCHANGED <<kind, response, replies, toServer, toRelay>>
        /\ handler' \in [Requests -> Handlers]
        /\ handler'[r] = "sending" /\ \A q \in Requests \ {r} : handler'[q] = handler[q]
        /\ relayEnd'[r] = "open" /\ \A q \in Requests \ {r} : relayEnd'[q] = relayEnd[q]
    BY <1>6 DEF Connect, OpenConnection, Goto, RelayTypeOK, Handlers, InHandler, Accounts,
                VSTypeOK, SocketsTypeOK
  <2>2. Progress'
    BY <2>1 DEF Progress, Unsent, InHandler
  <2>3. Replying'
    BY <2>1 DEF Replying, RepliedRight, Unreplied, Unsent
  <2>4. Claiming'
    BY <2>1 DEF Claiming, Claimed, Claims
  <2> QED
    BY <2>1, <2>2, <2>3, <2>4 DEF RelayInv, RelayTypeOK
<1>7. ASSUME NEW r \in Requests, SendCommand(r) PROVE RelayInv'
  <2>1. /\ handler[r] = "sending" /\ UNCHANGED <<kind, response, replies, relayEnd, toRelay>>
        /\ handler' \in [Requests -> Handlers]
        /\ handler'[r] = "reading" /\ \A q \in Requests \ {r} : handler'[q] = handler[q]
        /\ toServer'[r] = kind[r] /\ \A q \in Requests \ {r} : toServer'[q] = toServer[q]
    BY <1>7 DEF SendCommand, Goto, RelayTypeOK, Handlers, InHandler, Accounts, VSTypeOK,
                SocketsTypeOK
  <2>2. Progress'
    BY <2>1 DEF Progress, Unsent, InHandler
  <2>3. Replying'
    BY <2>1 DEF Replying, RepliedRight, Unreplied, Unsent
  <2>4. Claiming'
    BY <2>1 DEF Claiming, Claimed, Claims
  <2> QED
    BY <2>1, <2>2, <2>3, <2>4 DEF RelayInv, RelayTypeOK
<1>8. ASSUME NEW r \in Requests, ReadAnswer(r) PROVE RelayInv'
  <2>1. /\ kind[r] \in Commands /\ UNCHANGED <<kind, toServer, toRelay>>
        /\ handler[r] = "reading"
        /\ \A q \in Requests \ {r} : relayEnd'[q] = relayEnd[q]
    BY <1>8 DEF ReadAnswer, CloseSocket, Progress, InHandler, Accounts, VSTypeOK, SocketsTypeOK
  <2>2. toRelay[r] \in Results(kind[r])
    BY <1>8 DEF ReadAnswer, Answers, AnswerFitsCommand, Progress
  <2>3. CASE Fault(r)
    BY <2>1, <2>3, FaultKeeps DEF Unreplied
  <2>4. CASE toRelay[r] = "correct" /\ Respond(r, "verified")
    <3>1. Claims(r, "verified") /\ "verified" \in OKResponses
      BY <2>1, <2>2, <2>4 DEF Claims, Results, Commands, OKResponses
    <3> QED
      BY <2>1, <2>4, <3>1, RespondKeeps
  <2>5. CASE toRelay[r] = "incorrect" /\ Respond(r, "not verified")
    <3>1. Claims(r, "not verified") /\ "not verified" \in OKResponses
      BY <2>5 DEF Claims, OKResponses
    <3> QED
      BY <2>1, <2>5, <3>1, RespondKeeps
  <2>6. CASE toRelay[r] = "irs" /\ Respond(r, "irs")
    <3>1. Claims(r, "irs") /\ "irs" \in OKResponses
      BY <2>1, <2>2, <2>6 DEF Claims, Results, Commands, OKResponses
    <3> QED
      BY <2>1, <2>6, <3>1, RespondKeeps
  <2> QED
    BY <1>8, <2>3, <2>4, <2>5, <2>6 DEF ReadAnswer
<1>9. ASSUME NEW r \in Requests, ReadNothing(r) PROVE RelayInv'
  <2>1. /\ kind[r] \in Commands /\ UNCHANGED <<kind, toServer, toRelay>>
        /\ handler[r] = "reading"
        /\ \A q \in Requests \ {r} : relayEnd'[q] = relayEnd[q]
    BY <1>9 DEF ReadNothing, CloseSocket, Progress, InHandler, Accounts, VSTypeOK, SocketsTypeOK
  <2>2. CASE Fault(r)
    BY <2>1, <2>2, FaultKeeps DEF Unreplied
  <2>3. CASE Respond(r, "not verified")
    <3>1. Claims(r, "not verified") /\ "not verified" \in OKResponses
      BY <1>9 DEF ReadNothing, StaysUp, Claims, OKResponses
    <3> QED
      BY <2>1, <2>3, <3>1, RespondKeeps
  <2> QED
    BY <1>9, <2>2, <2>3 DEF ReadNothing
<1>10. ASSUME NEW r \in Requests, ReplyOK(r) PROVE RelayInv'
  <2>1. /\ replies[r] = <<>> /\ response[r] \in OKResponses /\ response[r] \in Responses
        /\ kind[r] \in Commands /\ Claims(r, response[r])
    BY <1>10 DEF ReplyOK, Replying, RepliedRight, Unreplied, Progress, InHandler, Claiming,
                Claimed, Responses
  <2> QED
    BY <1>10, <2>1, ReplyKeeps DEF ReplyOK
<1>11. ASSUME NEW r \in Requests, Finish(r) PROVE RelayInv'
  <2>1. CASE handler[r] = "failed" /\ replies[r] = <<>>
    <3>1. Claims(r, "internal") /\ "internal" \in Responses
      BY DEF Claims, Responses
    <3> QED
      BY <1>11, <2>1, <3>1, ReplyKeeps DEF Finish
  <2>2. CASE ~(handler[r] = "failed" /\ replies[r] = <<>>)
    <3>1. /\ UNCHANGED <<socketVars, kind, response, replies>>
          /\ handler' \in [Requests -> Handlers]
          /\ handler'[r] = "done" /\ \A q \in Requests \ {r} : handler'[q] = handler[q]
      BY <1>11, <2>2 DEF Finish, Goto, RelayTypeOK, Handlers
    <3>2. \E a \in Responses : replies[r] = <<a>>
      BY <1>11, <2>2 DEF Finish, Replying, RepliedRight, Responses
    <3>3. Progress'
      BY <3>1 DEF Progress, Unsent, InHandler, socketVars
    <3>4. Replying'
      BY <3>1, <3>2 DEF Replying, RepliedRight, Unreplied, Unsent
    <3>5. Claiming'
      BY <3>1 DEF Claiming, Claimed, Claims, socketVars
    <3> QED
      BY <3>1, <3>3, <3>4, <3>5 DEF RelayInv, RelayTypeOK
  <2> QED
    BY <2>1, <2>2
<1>12. CASE RelayKilled
  <2>1. PICK cut \in SUBSET At({"sending"}) :
          toServer' = [r \in Requests |-> IF r \in cut THEN "part" ELSE toServer[r]]
    BY <1>12 DEF RelayKilled
  <2>2. /\ UNCHANGED <<kind, response, replies, toRelay>>
        /\ handler' \in [Requests -> Handlers]
        /\ \A q \in Requests : \/ handler'[q] = "lost"
                               \/ handler'[q] = handler[q] /\ handler[q] \notin InHandler \cup {"queued"}
    BY <1>12 DEF RelayKilled, RelayTypeOK, Handlers
  <2>3. \A q \in Requests : relayEnd[q] = "none" => relayEnd'[q] = "none"
    BY <1>12 DEF RelayKilled
  <2>4. Progress'
    <3>1. \A q \in Requests : /\ handler'[q] \notin InHandler
                              /\ handler'[q] \in Unsent => handler[q] = handler'[q]
      BY <2>2 DEF InHandler, Unsent
    <3>2. \A q \in Requests : handler'[q] \in Unsent => q \notin cut
      BY <2>1, <3>1 DEF At, Unsent
    <3>3. "sending" \in InHandler /\ "reading" \in InHandler
      BY DEF InHandler
    <3> QED
      BY <1>0, <2>1, <2>2, <2>3, <3>1, <3>2, <3>3 DEF Progress
  <2>5. Replying'
    BY <2>2 DEF Replying, RepliedRight, Unreplied, Unsent, InHandler
  <2>6. Claiming'
    BY <2>2 DEF Claiming, Claimed, Claims
  <2> QED
    BY <2>2, <2>4, <2>5, <2>6 DEF RelayInv, RelayTypeOK
<1>13. ASSUME NEW r \in Requests, SendPart(r) PROVE RelayInv'
  <2>1. /\ handler[r] = "sending" /\ UNCHANGED <<relayVars, relayEnd, toRelay>>
        /\ toServer'[r] = "part" /\ \A q \in Requests \ {r} : toServer'[q] = toServer[q]
    BY <1>13 DEF SendPart, Accounts, VSTypeOK, SocketsTypeOK
  <2>2. Progress'
    BY <1>0, <2>1 DEF Progress, Unsent, relayVars
  <2>3. Replying' /\ Claiming' /\ RelayTypeOK'
    BY <2>1 DEF relayVars, RelayTypeOK, Replying, RepliedRight, Claiming, Claimed, Claims
  <2> QED
    BY <2>2, <2>3 DEF RelayInv
<1> QED
  BY <1>1, <1>2, <1>3, <1>4, <1>5, <1>6, <1>7, <1>8, <1>9, <1>10, <1>11, <1>12, <1>13
     DEF RelayNext, RelayStep

--------------------------------------------------------------------------------
(* The invariant.                                                          *)

(* What a child has sent, in full or in part, is not changed any more.      *)
LEMMA AnswerStays ==
  ASSUME Inv, ServerNext
  PROVE  \A r \in Requests : toRelay[r] # "nothing" => toRelay'[r] = toRelay[r]
<1> USE DEF Inv, Accounts, VSTypeOK, SocketsTypeOK, ServerTypeOK
<1>1. ASSUME NEW c \in Requests, SendResponse(c) \/ ChildDies(c)
      PROVE  \A r \in Requests : toRelay[r] # "nothing" => toRelay'[r] = toRelay[r]
  <2>1. toRelay[c] = "nothing"
    BY <1>1 DEF SendResponse, ChildDies, Live, Answers, AnswerReady
  <2> QED
    BY <1>1, <2>1 DEF SendResponse, ChildDies
<1> QED
  BY <1>1
     DEF ServerNext, AcceptAndFork, ForkFails, ServerKilled, StartServer, EndParent, ChildStep,
         TakePart, ReadCommand, RejectCommand, HandleCommand, socketVars

(* The server leaves the relay's ends alone, and of what the relay sent it *)
(* takes no more than a part.                                              *)
LEMMA ServerLeavesRelayEnds ==
  ASSUME Inv, ServerNext
  PROVE  /\ relayEnd' = relayEnd
         /\ \A r \in Requests : \/ toServer'[r] = toServer[r]
                                \/ /\ toServer[r] \in {"part", "taken"}
                                   /\ toServer'[r] \in {"part", "taken"}
<1> USE DEF Inv, Accounts, VSTypeOK, SocketsTypeOK
<1>1. CASE AcceptAndFork \/ ForkFails \/ ServerKilled \/ StartServer
  BY <1>1 DEF AcceptAndFork, ForkFails, ServerKilled, StartServer, EndParent, EndProcess
<1>2. ASSUME NEW c \in Requests,
             ReadCommand(c) \/ RejectCommand(c) \/ HandleCommand(c) \/ SendResponse(c)
      PROVE  UNCHANGED <<relayEnd, toServer>>
  BY <1>2 DEF ReadCommand, RejectCommand, HandleCommand, SendResponse, EndChild, EndProcess,
              socketVars
<1>3. ASSUME NEW c \in Requests, TakePart(c)
      PROVE  /\ relayEnd' = relayEnd /\ toServer[c] = "part"
             /\ toServer' = [toServer EXCEPT ![c] = "taken"]
  BY <1>3 DEF TakePart
<1>4. ASSUME NEW c \in Requests, ChildDies(c)
      PROVE  /\ relayEnd' = relayEnd
             /\ \/ UNCHANGED toServer
                \/ toServer[c] = "taken" /\ toServer' = [toServer EXCEPT ![c] = "part"]
  BY <1>4 DEF ChildDies, EndChild, EndProcess
<1> QED
  BY <1>1, <1>2, <1>3, <1>4 DEF ServerNext, ChildStep

(* What the validator does between two steps of the relay does not         *)
(* contradict what the relay knows: an answer that arrived stays.          *)
LEMMA ServerKeepsRelay ==
  ASSUME Inv, ServerNext, UNCHANGED relayVars
  PROVE  RelayInv'
<1> USE DEF Inv, RelayInv
<1>1. /\ relayEnd' = relayEnd
      /\ \A r \in Requests : \/ toServer'[r] = toServer[r]
                             \/ /\ toServer[r] \in {"part", "taken"}
                                /\ toServer'[r] \in {"part", "taken"}
  BY ServerLeavesRelayEnds
<1>2. \A r \in Requests : toRelay[r] # "nothing" => toRelay'[r] = toRelay[r]
  BY AnswerStays
<1>3. RelayTypeOK' /\ Replying'
  BY DEF relayVars, RelayTypeOK, Replying, RepliedRight
<1>5. Progress'
  <2>1. "part" \notin Commands /\ "taken" \notin Commands
    BY DEF Commands
  <2> QED
    BY <1>1, <2>1 DEF relayVars, Progress, Unsent
<1>4. Claiming'
  BY <1>2 DEF relayVars, Claiming, Claimed, Claims
<1> QED
  BY <1>3, <1>4, <1>5

(* Every step of either server keeps the invariant of both.                *)
LEMMA NextKeepsInv == Inv /\ [Next]_vars => Inv'
<1> SUFFICES ASSUME Inv, [Next]_vars PROVE Inv'
  OBVIOUS
<1>1. AnyStep
  <2>1. CASE UNCHANGED vars
    BY <2>1 DEF vars, vsVars, socketVars, AnyStep, ClientSide, ClientsQuiet, Inv, Accounts,
                VSTypeOK, SocketsTypeOK
  <2> QED
    BY <2>1, RelayIsClientSide DEF Next, AnyStep
<1>2. Accounts' /\ Answers'
  BY <1>1, StepKeepsAll DEF Inv
<1>3. RelayInv'
  <2>1. CASE UNCHANGED vars
    BY <2>1 DEF vars, socketVars, serverVars, relayVars, Inv, RelayInv, RelayTypeOK,
                Progress, Replying, RepliedRight,
                Claiming, Claimed, Claims
  <2> QED
    BY <2>1, RelayKeeps, ServerKeepsRelay DEF Next
<1>4. StaysUp'
  <2> SUFFICES ASSUME ServerSafe PROVE server' = "running" /\ \A r \in Requests : ~HungUp(r)'
    BY DEF StaysUp, ServerSafe
  <2>1. server' = "running"
    BY ForkSucceeds DEF Next, vars, serverVars, Inv, StaysUp
  <2>2. \A r \in Requests : ~HungUp(r)'
    <3> SUFFICES ASSUME NEW r \in Requests, HungUp(r)' PROVE FALSE
      OBVIOUS
    <3>1. ~HungUp(r) /\ Accounts
      BY DEF Inv, StaysUp
    <3> QED
      BY <1>1, <1>2, <2>1, <3>1, HangUpStep
  <2> QED
    BY <2>1, <2>2
<1> QED
  BY <1>2, <1>3, <1>4 DEF Inv, RelayInv

(* The inductive invariant holds in every reachable state.                 *)
THEOREM AlwaysInv == Spec => []Inv
BY InvInit, NextKeepsInv, PTL DEF Spec

(* Type correctness of the two servers.                                    *)
THEOREM TypeCorrect == Spec => []TypeOK
<1>1. Inv => TypeOK
  BY DEF Inv, Accounts, VSTypeOK, TypeOK
<1> QED
  BY <1>1, AlwaysInv, PTL

(* A request is replied exactly once by the time its handler has ended.    *)
THEOREM OneReplyHolds == Spec => []OneReply
<1>1. Inv => OneReply
  <2> SUFFICES ASSUME Inv, NEW r \in Requests
               PROVE  /\ Len(replies[r]) <= 1
                      /\ handler[r] = "done" => Len(replies[r]) = 1
                      /\ handler[r] \in {"absent", "queued"} => replies[r] = <<>>
    BY DEF OneReply
  <2>1. Len(<<>>) = 0 /\ \A a \in Responses : Len(<<a>>) = 1
    OBVIOUS
  <2>2. /\ replies[r] = <<>> \/ \E a \in Responses : replies[r] = <<a>>
        /\ handler[r] = "done" => \E a \in Responses : replies[r] = <<a>>
        /\ handler[r] \in {"absent", "queued"} => replies[r] = <<>>
    BY DEF Inv, Replying, RepliedRight, Unreplied, Unsent
  <2>3. ASSUME NEW a \in Responses, replies[r] = <<a>> PROVE Len(replies[r]) = 1
    BY <2>1, <2>3, Zenon
  <2>4. replies[r] = <<>> => Len(replies[r]) = 0
    OBVIOUS
  <2>5. Len(replies[r]) = 0 \/ Len(replies[r]) = 1
    BY <2>2, <2>3, <2>4, Zenon
  <2>6. handler[r] = "done" => Len(replies[r]) = 1
    BY <2>2, <2>3, Zenon
  <2>7. \A n : n = 0 \/ n = 1 => n <= 1
    OBVIOUS
  <2> QED
    BY <2>2, <2>5, <2>6, <2>7, Zenon
<1> QED
  BY <1>1, AlwaysInv, PTL

(* A 200 claims what the validator answered to that request.               *)
THEOREM ClaimsOnlyAnswersHolds == Spec => []ClaimsOnlyAnswers
<1>1. Inv => ClaimsOnlyAnswers
  BY DEF Inv, Claiming, Claimed, Claims, ClaimsOnlyAnswers, Responses, OKResponses
<1> QED
  BY <1>1, AlwaysInv, PTL

(* With a server that no fault takes down, a validation reported as not    *)
(* successful has an answer of the validator behind it: the relay relays   *)
(* the response (RelayServer.cpp:35, 201).                                 *)
THEOREM RelaysResponseHolds ==
  ASSUME ServerSafe
  PROVE  Spec => []RelaysResponse
<1>1. Inv => RelaysResponse
  BY DEF Inv, Claiming, Claimed, Claims, RelaysResponse, Responses, OKResponses
<1> QED
  BY <1>1, AlwaysInv, PTL

(* The relay learns nothing of a dead child as long as the parent runs,    *)
(* neither in its send nor in its read.                                    *)
THEOREM GivesUpOnlyAfterServerHolds == Spec => GivesUpOnlyAfterServer
<1>1. Inv /\ [Next]_vars =>
        [\A r \in Requests :
           /\ handler[r] \in {"sending", "reading"}
           /\ toRelay[r] \notin AllResults
           /\ handler'[r] \notin {"sending", "reading", "lost"}
           => child[r] \in {"none", "reaped"}]_vars
  <2> SUFFICES ASSUME Inv, Next, NEW r \in Requests, handler[r] \in {"sending", "reading"},
                      toRelay[r] \notin AllResults,
                      handler'[r] \notin {"sending", "reading", "lost"}
               PROVE  child[r] \in {"none", "reaped"}
    <3>1. UNCHANGED vars => \A r \in Requests : handler'[r] = handler[r]
      BY DEF vars, relayVars
    <3> QED
      BY <3>1
  <2>1. RelayNext /\ ~RelayKilled
    BY DEF Next, relayVars, RelayKilled, InHandler
  <2>2. PICK q \in Requests : Post(q) \/ RelayStep(q)
    BY <2>1 DEF RelayNext
  <2>3. q = r
    BY <2>2 DEF RelayStep, Post, HandlePost, ExtractJson, RejectBody, StartWork, Connect,
                ConnectFails,
                SendPart, relayVars, SendCommand, SendFails, ReadAnswer, ReadNothing, ReadPart,
                ReplyOK, Finish, Fault, Respond, Goto, Inv, RelayTypeOK
  <2>4. HungUp(r)
    BY <2>2, <2>3
       DEF RelayStep, Post, HandlePost, ExtractJson, RejectBody, StartWork, Connect,
           ConnectFails, SendPart, relayVars, SendCommand, SendFails, ReadAnswer, ReadNothing,
           ReadPart, ReplyOK, Finish, Goto, Inv, RelayTypeOK
  <2>5. r \notin held[Parent] /\ r \notin held[r]
    BY <2>4, ParentIsNoRequest DEF HungUp
  <2> QED
    BY <2>5 DEF Inv, Accounts, VSTypeOK, ServerTypeOK, LeakAccount, Inherits, DeadHoldNothing,
                Live, Zombie
<1>2. Spec => [][Next]_vars
  BY DEF Spec
<1> QED
  BY <1>1, <1>2, AlwaysInv, PTL DEF GivesUpOnlyAfterServer

(* Once the relay is past its read the socket is closed, unless the answer *)
(* was cut: what LeaksOnlyCutAnswers says, at every place it comes from.         *)
SocketsDone ==
  \A r \in Requests :
    handler[r] \in {"failed", "responding", "finishing", "done"} /\ relayEnd[r] = "open"
    => toRelay[r] = "part"

(* Every step keeps the account of the relay's sockets.                    *)
LEMMA NextKeepsSocketsDone == Inv /\ SocketsDone /\ [Next]_vars => SocketsDone'
<1> SUFFICES ASSUME Inv, SocketsDone, [Next]_vars PROVE SocketsDone'
  OBVIOUS
<1> USE DEF Inv, Accounts, VSTypeOK, SocketsTypeOK, RelayTypeOK
<1>1. CASE UNCHANGED vars
  BY <1>1 DEF vars, socketVars, relayVars, SocketsDone
<1>2. CASE ServerNext /\ UNCHANGED relayVars
  BY <1>2, AnswerStays, ServerLeavesRelayEnds DEF relayVars, SocketsDone
<1>3. ASSUME NEW r \in Requests,
             HandlePost(r) \/ ExtractJson(r) \/ RejectBody(r) \/ ConnectFails(r)
      PROVE  SocketsDone'
  <2>1. handler[r] \in Unsent /\ UNCHANGED <<relayEnd, toRelay>>
    BY <1>3 DEF HandlePost, ExtractJson, RejectBody, ConnectFails, Unsent, socketVars
  <2>2. relayEnd[r] = "none"
    BY <2>1 DEF Progress
  <2>3. \A q \in Requests \ {r} : handler'[q] = handler[q]
    BY <1>3 DEF HandlePost, ExtractJson, RejectBody, ConnectFails, Goto, Fault
  <2> QED
    BY <2>1, <2>2, <2>3 DEF SocketsDone
<1>4. ASSUME NEW r \in Requests, Post(r) \/ StartWork(r) \/ Connect(r) \/ SendCommand(r)
      PROVE  SocketsDone'
  <2>1. /\ handler'[r] \in {"queued", "connecting", "sending", "reading"} /\ toRelay' = toRelay
        /\ \A q \in Requests \ {r} : handler'[q] = handler[q] /\ relayEnd'[q] = relayEnd[q]
    BY <1>4 DEF Post, StartWork, Connect, SendCommand, OpenConnection, Goto, socketVars
  <2> QED
    BY <2>1 DEF SocketsDone
<1>5. ASSUME NEW r \in Requests, SendFails(r) \/ ReadAnswer(r) \/ ReadNothing(r) PROVE SocketsDone'
  <2>1. /\ relayEnd'[r] = "closed" /\ toRelay' = toRelay
        /\ \A q \in Requests \ {r} : handler'[q] = handler[q] /\ relayEnd'[q] = relayEnd[q]
    <3>1. CASE SendFails(r)
      BY <3>1 DEF SendFails, CloseSocket, Fault, Goto
    <3>2. CASE ReadAnswer(r)
      BY <3>2 DEF ReadAnswer, CloseSocket, Fault, Respond, Goto
    <3>3. CASE ReadNothing(r)
      BY <3>3 DEF ReadNothing, CloseSocket, Fault, Respond, Goto
    <3> QED
      BY <1>5, <3>1, <3>2, <3>3
  <2> QED
    BY <2>1 DEF SocketsDone
<1>6. ASSUME NEW r \in Requests, ReadPart(r) PROVE SocketsDone'
  BY <1>6 DEF ReadPart, Fault, Goto, socketVars, SocketsDone
<1>7. ASSUME NEW r \in Requests, ReplyOK(r) \/ Finish(r) PROVE SocketsDone'
  BY <1>7 DEF ReplyOK, Finish, Goto, socketVars, SocketsDone
<1>8. CASE RelayKilled
  BY <1>8 DEF RelayKilled, SocketsDone
<1>9. ASSUME NEW r \in Requests, SendPart(r) PROVE SocketsDone'
  BY <1>9 DEF SendPart, relayVars, SocketsDone
<1> QED
  BY <1>1, <1>2, <1>3, <1>4, <1>5, <1>6, <1>7, <1>8, <1>9 DEF Next, RelayNext, RelayStep

(* A request that was dealt with keeps its socket open only if the answer  *)
(* was cut (RelayServer.cpp:256-283): the one case SocketsClosed fails in. *)
THEOREM LeaksOnlyCutAnswersHolds == Spec => []LeaksOnlyCutAnswers
<1>1. Init => SocketsDone
  BY DEF Init, RelayInit, SocketsDone
<1>2. SocketsDone => LeaksOnlyCutAnswers
  BY DEF SocketsDone, LeaksOnlyCutAnswers
<1> QED
  BY <1>1, <1>2, AlwaysInv, NextKeepsSocketsDone, PTL DEF Spec
--------------------------------------------------------------------------------
(* Refinement of the abstract service.                                     *)

(* Both servers start where the service does.                              *)
LEMMA InitImplements == Init => Service!Init
BY DEF Init, ServerInit, RelayInit, Service!Init, posted, told

(* A step that gives no reply, hears of no request and finishes no work is *)
(* a stuttering step of the service.                                       *)
LEMMA ToldUnchanged ==
  ASSUME UNCHANGED <<result, replies>>, posted' = posted
  PROVE  UNCHANGED Service!vars
BY DEF Service!vars, told

(* The one reply of a request is an Answer of the service.                 *)
LEMMA ReplyImplements ==
  ASSUME Inv, NEW r \in Requests, NEW a \in Responses, handler[r] # "absent", posted' = posted,
         replies[r] = <<>>, Reply(r, a), UNCHANGED result, Service!Allowed(result[r], a)
  PROVE  Service!Next
<1>1. replies' = [replies EXCEPT ![r] = <<a>>]
  <2>1. Append(<<>>, a) = <<a>>
    OBVIOUS
  <2> QED
    BY <2>1 DEF Reply
<1>2. Head(<<a>>) = a /\ <<a>> # <<>>
  OBVIOUS
<1>3. told' = [told EXCEPT ![r] = a] /\ told[r] = "none"
  BY <1>1, <1>2 DEF told, Inv, RelayTypeOK
<1>4. a \in Service!Replies
  BY DEF Responses, OKResponses, Service!Replies, Service!Errors
<1>5. r \in posted
  BY DEF posted
<1>6. Service!Answer(r)
  BY <1>3, <1>4, <1>5 DEF Service!Answer
<1> QED
  BY <1>6 DEF Service!Next

(* An exception of a handler is an error told to the client of a request   *)
(* not yet replied to: always allowed.                                     *)
LEMMA FaultImplements ==
  ASSUME Inv, NEW r \in Requests, Fault(r), UNCHANGED result, handler[r] \in Unreplied \ {"absent"}
  PROVE  Service!Next
<1>1. replies[r] = <<>> /\ "error" \in Responses /\ Service!Allowed(result[r], "error")
  BY DEF Inv, Replying, RepliedRight, Responses, Service!Allowed, Service!Errors
<1>2. posted' = posted
  BY DEF posted, Fault, Goto, Inv, RelayTypeOK
<1> QED
  BY <1>1, <1>2, ReplyImplements DEF Fault

(* A step of the validator is the work on one request or nothing, as the   *)
(* service sees it.                                                        *)
LEMMA ServerImplements ==
  ASSUME Inv, ServerNext, UNCHANGED relayVars
  PROVE  Service!Next \/ UNCHANGED Service!vars
<1>1. posted' = posted /\ told' = told
  BY DEF relayVars, posted, told
<1>2. ASSUME NEW c \in Requests, HandleCommand(c) PROVE Service!Next
  <2>1. toServer[c] \in Commands /\ result[c] = "none"
    BY <1>2 DEF HandleCommand, Inv, Answers, AnswerReady
  <2>2. c \in posted
    BY <2>1 DEF Inv, Progress, Unsent, posted, Commands
  <2>3. Results(toServer[c]) \subseteq Service!Outcomes
    BY DEF Results, Service!Outcomes
  <2>4. Service!Work(c)
    BY <1>1, <1>2, <2>1, <2>2, <2>3 DEF HandleCommand, Service!Work
  <2> QED
    BY <2>4 DEF Service!Next
<1>3. CASE \A c \in Requests : ~HandleCommand(c)
  <2>1. UNCHANGED result
    BY <1>3 DEF ServerNext, AcceptAndFork, ForkFails, ServerKilled, StartServer, EndParent,
                ChildStep, TakePart, serverVars, ReadCommand, RejectCommand, SendResponse, ChildDies
  <2> QED
    BY <1>1, <2>1 DEF Service!vars
<1> QED
  BY <1>2, <1>3

(* A step of the relay is the arrival of a request, its one reply, or      *)
(* nothing.                                                                *)
LEMMA RelayImplements ==
  ASSUME Inv, RelayNext, UNCHANGED serverVars
  PROVE  Service!Next \/ UNCHANGED Service!vars
<1> USE DEF Inv, RelayTypeOK
<1>0. UNCHANGED result
  BY DEF serverVars
<1>1. ASSUME NEW r \in Requests, Post(r) PROVE Service!Next
  <2>1. r \notin posted /\ posted' = posted \cup {r} /\ told' = told
    BY <1>1 DEF Post, Goto, posted, told
  <2> QED
    BY <1>0, <2>1 DEF Service!Next, Service!Arrive
<1>2. ASSUME NEW r \in Requests, HandlePost(r), kind[r] \notin Commands PROVE Service!Next
  <2>1. /\ replies[r] = <<>> /\ "not found" \in Responses /\ posted' = posted
        /\ Service!Allowed(result[r], "not found")
    BY <1>2 DEF HandlePost, Goto, posted, Replying, RepliedRight, Unreplied, Unsent, Responses,
                Service!Allowed,
                Service!Errors
  <2> QED
    BY <1>0, <1>2, <2>1, ReplyImplements DEF HandlePost
<1>3. ASSUME NEW r \in Requests,
             \/ HandlePost(r) /\ kind[r] \in Commands
             \/ ExtractJson(r) \/ StartWork(r) \/ Connect(r) \/ SendPart(r) \/ SendCommand(r)
      PROVE  UNCHANGED Service!vars
  <2>1. UNCHANGED replies /\ posted' = posted
    BY <1>3 DEF HandlePost, ExtractJson, StartWork, Connect, SendPart, relayVars, SendCommand,
                Goto, posted
  <2> QED
    BY <1>0, <2>1, ToldUnchanged
<1>4. ASSUME NEW r \in Requests,
             RejectBody(r) \/ ConnectFails(r) \/ SendFails(r) \/ ReadPart(r)
      PROVE  Service!Next
  BY <1>0, <1>4, FaultImplements DEF RejectBody, ConnectFails, SendFails, ReadPart,
                Unreplied, Unsent
<1>5. ASSUME NEW r \in Requests, ReadAnswer(r) \/ ReadNothing(r)
      PROVE  Service!Next \/ UNCHANGED Service!vars
  <2>1. handler[r] = "reading" /\ (Fault(r) \/ \E what \in OKResponses : Respond(r, what))
    BY <1>5 DEF ReadAnswer, ReadNothing, OKResponses
  <2>2. CASE Fault(r)
    BY <1>0, <2>1, <2>2, FaultImplements DEF Unreplied
  <2>3. ASSUME NEW what \in OKResponses, Respond(r, what) PROVE UNCHANGED Service!vars
    <3>1. UNCHANGED replies /\ posted' = posted
      BY <2>1, <2>3 DEF Respond, Goto, posted
    <3> QED
      BY <1>0, <3>1, ToldUnchanged
  <2> QED
    BY <2>1, <2>2, <2>3
<1>6. ASSUME NEW r \in Requests, ReplyOK(r) PROVE Service!Next
  <2> DEFINE a == response[r]
  <2>1. replies[r] = <<>> /\ a \in OKResponses /\ a \in Responses /\ Claims(r, a) /\ posted' = posted
    BY <1>6 DEF ReplyOK, Goto, posted, Replying, RepliedRight, Unreplied, Claiming, Claimed, Responses
  <2>2. toRelay[r] \in {"correct", "incorrect", "irs"} => toRelay[r] = result[r]
    BY DEF Answers, AnswerFitsCommand, AllResults, Results
  <2>3. Service!Allowed(result[r], a)
    BY <2>1, <2>2 DEF Claims, OKResponses, Service!Allowed
  <2> QED
    BY <1>0, <1>6, <2>1, <2>3, ReplyImplements DEF ReplyOK
<1>7. ASSUME NEW r \in Requests, Finish(r) PROVE Service!Next \/ UNCHANGED Service!vars
  <2>1. posted' = posted
    BY <1>7 DEF Finish, Goto, posted
  <2>2. CASE handler[r] = "failed" /\ replies[r] = <<>>
    <3>1. "internal" \in Responses /\ Service!Allowed(result[r], "internal")
      BY DEF Responses, Service!Allowed, Service!Errors
    <3> QED
      BY <1>0, <1>7, <2>1, <2>2, <3>1, ReplyImplements DEF Finish
  <2>3. CASE ~(handler[r] = "failed" /\ replies[r] = <<>>)
    BY <1>0, <1>7, <2>1, <2>3, ToldUnchanged DEF Finish
  <2> QED
    BY <2>2, <2>3
<1>8. CASE RelayKilled
  <2>1. UNCHANGED replies /\ posted' = posted
    BY <1>8 DEF RelayKilled, InHandler, posted
  <2> QED
    BY <1>0, <2>1, ToldUnchanged
<1> QED
  BY <1>1, <1>2, <1>3, <1>4, <1>5, <1>6, <1>7, <1>8 DEF RelayNext, RelayStep

(* Every behaviour of the two servers is one of the service.               *)
THEOREM Implements == Spec => ImplementsService
<1>1. Inv /\ [Next]_vars => [Service!Next]_(Service!vars)
  <2> SUFFICES ASSUME Inv, [Next]_vars PROVE Service!Next \/ UNCHANGED Service!vars
    OBVIOUS
  <2>1. CASE UNCHANGED vars
    BY <2>1 DEF vars, serverVars, relayVars, Service!vars, posted, told
  <2> QED
    BY <2>1, ServerImplements, RelayImplements DEF Next
<1> QED
  BY <1>1, InitImplements, AlwaysInv, PTL DEF Spec, ImplementsService, Service!Spec

--------------------------------------------------------------------------------
(* Only those who wait for a thread hold them all.                         *)
LEMMA NoneFree ==
  ASSUME RelayTypeOK, Cardinality(At(InWait)) >= Threads
  PROVE  ~ThreadFree
<1>1. At(InHandler) \subseteq Requests /\ At(InWork) \subseteq Requests
      /\ At(InWait) \subseteq At(InHandler)
  BY DEF At, InWait, InHandler
<1>2. IsFiniteSet(At(InHandler)) /\ IsFiniteSet(At(InWork)) /\ IsFiniteSet(At(InWait))
  BY <1>1, RequestsAssumption, FS_Subset
<1>3. /\ Cardinality(At(InHandler)) \in Nat /\ Cardinality(At(InWork)) \in Nat
      /\ Cardinality(At(InWait)) \in Nat
  BY <1>2, FS_CardinalityType
<1>4. Cardinality(At(InWait)) <= Cardinality(At(InHandler))
  BY <1>1, <1>2, FS_Subset
<1> QED
  BY <1>3, <1>4, ThreadsAssumption DEF ThreadFree

(* Once every thread waits for a continuation, none of those who wait goes *)
(* on until the relay is killed (RelayServer.cpp:112, 161).                *)
THEOREM StarvedForGoodHolds == Spec => StarvedForGood
<1>1. RelayTypeOK /\ [Next]_vars =>
        (Cardinality(At(InWait)) >= Threads =>
           \A r \in At(InWait \cup {"queued"}) : handler'[r] \in {handler[r], "lost"})
  <2> SUFFICES ASSUME RelayTypeOK, [Next]_vars, Cardinality(At(InWait)) >= Threads,
                      NEW r \in At(InWait \cup {"queued"})
               PROVE  handler'[r] \in {handler[r], "lost"}
    OBVIOUS
  <2>1. ~ThreadFree
    BY NoneFree
  <2>2. r \in Requests /\ handler[r] \in InWait \cup {"queued"}
    BY DEF At
  <2>3. CASE UNCHANGED handler
    BY <2>3
  <2>4. CASE RelayKilled
    BY <2>2, <2>4 DEF RelayKilled
  <2>5. ASSUME NEW q \in Requests, Post(q) \/ RelayStep(q)
        PROVE  handler'[r] = handler[r]
    <3>1. handler[q] \notin InWait \cup {"queued"}
      BY <2>1, <2>5 DEF RelayStep, Post, HandlePost, ExtractJson, RejectBody, StartWork,
                Connect, ConnectFails, SendPart, SendCommand, SendFails, ReadAnswer, ReadNothing,
                ReadPart, ReplyOK, Finish, InWait
    <3>2. UNCHANGED handler \/ \E place : Goto(q, place)
      BY <2>5 DEF SendPart, relayVars, RelayStep, Post, HandlePost, ExtractJson, RejectBody, StartWork, Connect,
                ConnectFails, SendCommand, SendFails, ReadAnswer, ReadNothing, ReadPart, ReplyOK,
                Finish, Fault, Respond
    <3> QED
      BY <2>2, <3>1, <3>2 DEF Goto, RelayTypeOK
  <2> QED
    BY <2>3, <2>4, <2>5 DEF Next, RelayNext, vars, relayVars
<1>2. Inv => RelayTypeOK
  BY DEF Inv
<1> QED
  BY <1>1, <1>2, AlwaysInv, PTL DEF Spec, StarvedForGood

(* Every step is one the server is proved against.                         *)
LEMMA NextIsAnyStep == Inv /\ [Next]_vars => AnyStep
<1>1. UNCHANGED vars /\ Inv => AnyStep
  BY DEF vars, vsVars, socketVars, AnyStep, ClientSide, ClientsQuiet, Inv, Accounts, VSTypeOK,
         SocketsTypeOK
<1> QED
  BY <1>1, RelayIsClientSide DEF Next, AnyStep

(* A connection that nobody will answer gets no answer, and no end, as     *)
(* long as the parent runs that has it.                                    *)
LEMMA SilenceStays ==
  ASSUME Inv, Inv', [Next]_vars, server = "running", server' = "running",
         NEW r \in Queued \cup held[Parent], NobodyAnswers(r)
  PROVE  /\ toRelay'[r] = toRelay[r] /\ ~HungUp(r)'
         /\ r \in Queued => r \in Queued' /\ held'[Parent] = held[Parent]
         /\ r \notin Queued => r \in held'[Parent] /\ r \notin Queued' /\ r \notin Live'
<1>0. AnyStep /\ Accounts /\ Accounts' /\ r \in Requests /\ ~HungUp(r)
  BY NextIsAnyStep, ParentIsNoRequest
     DEF Inv, NobodyAnswers, Queued, Accounts, VSTypeOK, SocketsTypeOK
<1>1. ~HungUp(r)'
  BY <1>0, HangUpStep
<1>2. r \notin Live
  BY <1>0 DEF NobodyAnswers, Accounts, QueueFresh, Live
<1>3. toRelay'[r] = toRelay[r]
  <2>1. ASSUME NEW c \in Requests, ChildStep(c) \/ ChildDies(c) PROVE toRelay'[r] = toRelay[r]
    <3>1. c # r \/ toRelay' = toRelay
      BY <1>2, <2>1 DEF ChildStep, TakePart, ReadCommand, RejectCommand, HandleCommand,
                        SendResponse, ChildDies, Live, socketVars
    <3> QED
      BY <1>0, <2>1, <3>1 DEF ChildStep, TakePart, ReadCommand, RejectCommand, HandleCommand,
                        SendResponse, ChildDies, socketVars, Accounts, VSTypeOK, SocketsTypeOK
  <2> QED
    BY <1>0, <2>1 DEF AnyStep, ServerNext, AcceptAndFork, ForkFails, ServerKilled, StartServer,
                      EndParent, ClientSide, ClientsQuiet, OpenConnection
<1>4. CASE r \in Queued
  <2>1. Cardinality(held[Parent]) >= MaxFds
    BY <1>4 DEF NobodyAnswers
  <2> QED
    BY <1>0, <1>1, <1>3, <1>4, <2>1, FullStep
<1>5. CASE r \notin Queued
  <2>1. r \in held[Parent] /\ child[r] = "zombie"
    BY <1>0, <1>2, <1>5 DEF Accounts, LeakAccount, Zombie
  <2>2. r \in held'[Parent]
    BY <1>0, <2>1, NothingReclaimedStep
  <2>3. child'[r] = "zombie"
    <3>1. CASE AcceptAndFork
      <4>1. Head(backlog) \in Queued
        BY <1>0, <3>1, TailOfQueue
           DEF AcceptAndFork, CanAccept, Queued, Accounts, VSTypeOK, SocketsTypeOK, QueueFresh
      <4>2. Head(backlog) # r
        BY <1>5, <4>1
      <4> QED
        BY <1>0, <2>1, <3>1, <4>2 DEF AcceptAndFork, Accounts, VSTypeOK, ServerTypeOK
    <3>2. CASE ForkFails \/ ServerKilled \/ StartServer
      BY <2>1, <3>2 DEF ForkFails, ServerKilled, EndParent, StartServer
    <3>3. ASSUME NEW c \in Requests, ChildStep(c) \/ ChildDies(c) PROVE child'[r] = "zombie"
      BY <1>0, <2>1, <3>3
         DEF ChildStep, TakePart, serverVars, ReadCommand, RejectCommand, HandleCommand,
             SendResponse, ChildDies, EndChild, Live, Accounts, VSTypeOK, ServerTypeOK
    <3>4. CASE UNCHANGED serverVars
      BY <2>1, <3>4 DEF serverVars
    <3> QED
      BY <1>0, <3>1, <3>2, <3>3, <3>4 DEF AnyStep, ServerNext
  <2>4. r \notin Live' /\ r \notin Queued'
    BY <1>0, <2>3 DEF Live, Accounts, QueueFresh
  <2> QED
    BY <1>1, <1>3, <1>5, <2>2, <2>4
<1> QED
  BY <1>4, <1>5

(* ... and so the handler stays in its send, or in its read.               *)
LEMMA WaitsOn ==
  ASSUME Inv, [Next]_vars, NEW r \in Requests, NobodyAnswers(r)
  PROVE  \/ handler'[r] = "lost"
         \/ handler'[r] = handler[r] /\ (handler[r] = "sending" => toServer'[r] = "part")
<1>1. /\ handler[r] = "reading" \/ (handler[r] = "sending" /\ toServer[r] = "part")
      /\ toRelay[r] \notin AllResults /\ ~HungUp(r)
  BY DEF NobodyAnswers
<1>2. CASE UNCHANGED vars
  BY <1>1, <1>2 DEF vars, relayVars, socketVars
<1>3. CASE RelayKilled
  BY <1>1, <1>3 DEF RelayKilled, InHandler
<1>4. ASSUME NEW q \in Requests, Post(q) \/ RelayStep(q)
      PROVE  handler'[r] = handler[r] /\ toServer'[r] = toServer[r]
  <2>1. q # r
    BY <1>1, <1>4 DEF RelayStep, Post, HandlePost, ExtractJson, RejectBody, StartWork, Connect,
              ConnectFails, SendPart, SendCommand, SendFails, ReadAnswer, ReadNothing, ReadPart,
              ReplyOK, Finish
  <2>2. UNCHANGED handler \/ \E place : Goto(q, place)
    BY <1>4 DEF SendPart, relayVars, RelayStep, Post, HandlePost, ExtractJson, RejectBody,
              StartWork, Connect, ConnectFails, SendCommand, SendFails, ReadAnswer, ReadNothing,
              ReadPart, ReplyOK, Finish, Fault, Respond
  <2>3. UNCHANGED toServer \/ \E sent : toServer' = [toServer EXCEPT ![q] = sent]
    BY <1>4 DEF SendPart, RelayStep, Post, HandlePost, ExtractJson, RejectBody, StartWork,
              Connect, OpenConnection, ConnectFails, SendCommand, SendFails, ReadAnswer,
              ReadNothing, ReadPart, ReplyOK, Finish, socketVars
  <2> QED
    BY <2>1, <2>2, <2>3 DEF Goto, Inv, RelayTypeOK, Accounts, VSTypeOK, SocketsTypeOK
<1>5. CASE ServerNext /\ UNCHANGED relayVars
  <2>1. r \notin Live
    BY DEF NobodyAnswers, Inv, Accounts, QueueFresh, Live
  <2>2. ASSUME NEW c \in Requests, TakePart(c) \/ ChildDies(c) PROVE toServer'[r] = toServer[r]
    <3>1. c # r
      BY <2>1, <2>2 DEF TakePart, ChildDies, Live
    <3> QED
      BY <2>2, <3>1 DEF TakePart, ChildDies, Inv, Accounts, VSTypeOK, SocketsTypeOK
  <2>3. toServer'[r] = toServer[r]
    BY <1>5, <2>2 DEF ServerNext, AcceptAndFork, ForkFails, ServerKilled, StartServer, EndParent,
              ChildStep, ReadCommand, RejectCommand, HandleCommand, SendResponse, socketVars
  <2> QED
    BY <1>1, <1>5, <2>3 DEF relayVars
<1> QED
  BY <1>1, <1>2, <1>3, <1>4, <1>5 DEF Next, RelayNext

(* Who waits for an answer that nobody will give waits as long as the      *)
(* parent and the relay run (RelayServer.cpp:267, 275).                    *)
THEOREM HangsForGoodHolds == Spec => HangsForGood
<1>1. Inv /\ Inv' /\ [Next]_vars =>
        [server = "running" /\ server' = "running" =>
           \A r \in Queued \cup held[Parent] :
             NobodyAnswers(r) => \/ handler'[r] = "lost"
                                 \/ NobodyAnswers(r)' /\ r \in Queued' \cup held'[Parent]]_vars
  <2> SUFFICES ASSUME Inv, Inv', [Next]_vars, server = "running", server' = "running",
                      NEW r \in Queued \cup held[Parent], NobodyAnswers(r), handler'[r] # "lost"
               PROVE  NobodyAnswers(r)' /\ r \in Queued' \cup held'[Parent]
    OBVIOUS
  <2>1. r \in Requests
    BY ParentIsNoRequest DEF Inv, Queued, Accounts, VSTypeOK, SocketsTypeOK
  <2>2. handler'[r] = "reading" \/ (handler'[r] = "sending" /\ toServer'[r] = "part")
    BY <2>1, WaitsOn DEF NobodyAnswers
  <2>3. /\ toRelay'[r] = toRelay[r] /\ ~HungUp(r)'
        /\ r \in Queued => r \in Queued' /\ held'[Parent] = held[Parent]
        /\ r \notin Queued => r \in held'[Parent] /\ r \notin Queued' /\ r \notin Live'
    BY SilenceStays
  <2> QED
    BY <2>2, <2>3 DEF NobodyAnswers
<1> QED
  BY <1>1, AlwaysInv, PTL DEF Spec, HangsForGood

(* Whatever happens to a request brings it nearer to its end.              *)
THEOREM RequestsGoOnHolds == Spec => RequestsGoOn
<1> DEFINE Forward == \A r \in Requests :
      \/ handler'[r] = handler[r]
      \/ StepsToReply(handler'[r]) < StepsToReply(handler[r])
<1>1. RelayTypeOK /\ [Next]_vars => Forward
  <2> SUFFICES ASSUME RelayTypeOK, [Next]_vars, NEW r \in Requests, handler'[r] # handler[r]
               PROVE  StepsToReply(handler'[r]) < StepsToReply(handler[r])
    OBVIOUS
  <2>1. CASE RelayKilled
    <3>1. handler[r] \in InHandler \cup {"queued"} /\ handler'[r] = "lost"
      BY <2>1 DEF RelayKilled, RelayTypeOK
    <3> QED
      BY <3>1 DEF StepsToReply, InHandler
  <2>2. ASSUME NEW q \in Requests, Post(q) \/ RelayStep(q)
        PROVE  StepsToReply(handler'[r]) < StepsToReply(handler[r])
    <3>1. \E place : Goto(q, place)
      BY <2>2 DEF SendPart, relayVars, RelayStep, Post, HandlePost, ExtractJson, RejectBody, StartWork, Connect,
                ConnectFails, SendCommand, SendFails, ReadAnswer, ReadNothing, ReadPart, ReplyOK,
                Finish, Fault, Respond
    <3>2. q = r
      BY <3>1 DEF Goto, RelayTypeOK
    <3>3. \/ handler[r] = "absent" /\ handler'[r] = "queued"
          \/ handler[r] = "queued" /\ handler'[r] \in {"extracting", "done"}
          \/ handler[r] = "extracting" /\ handler'[r] \in {"ready", "failed"}
          \/ handler[r] = "ready" /\ handler'[r] \in {"connecting", "failed"}
          \/ handler[r] = "connecting" /\ handler'[r] \in {"sending", "failed"}
          \/ handler[r] = "sending" /\ handler'[r] \in {"reading", "failed"}
          \/ handler[r] = "reading" /\ handler'[r] \in {"responding", "failed"}
          \/ handler[r] = "responding" /\ handler'[r] = "finishing"
          \/ handler[r] \in {"finishing", "failed"} /\ handler'[r] = "done"
      BY <2>2, <3>2 DEF RelayStep, Post, HandlePost, ExtractJson, RejectBody, StartWork,
                Connect, ConnectFails, SendPart, relayVars, SendCommand, SendFails, ReadAnswer, ReadNothing, ReadPart,
                ReplyOK, Finish, Fault, Respond, Goto, RelayTypeOK
    <3> QED
      BY <3>3 DEF StepsToReply
  <2> QED
    BY <2>1, <2>2 DEF Next, RelayNext, vars, relayVars
<1>2. Inv => RelayTypeOK
  BY DEF Inv
<1> QED
  BY <1>1, <1>2, AlwaysInv, PTL DEF Spec, RequestsGoOn
================================================================================
