--------------------------------- MODULE Framing ---------------------------------
(***************************************************************************)
(* The messages between the two servers, "<length><blank><message>", byte  *)
(* by byte: what the sender writes, how much of it arrives before the      *)
(* connection ends or is reset, and the reader both servers have a copy    *)
(* of (ValidatorServer.cpp:147, RelayServer.cpp:182).  The copies differ   *)
(* in the number of digits at which they give up, and in nothing else.     *)
(***************************************************************************)
EXTENDS Integers, Sequences

CONSTANTS
  Base,         \* of the numerals: 10
  Limit,        \* digits at which a reader gives up: 8 and 9
  Word,         \* 2^64, the values of a size_t
  Lengths,      \* bound: lengths of the messages sent
  Numeral,      \* std::to_string of a length: its digits
  Foreign       \* streams from a client that does not speak the protocol

ASSUME BaseAssumption    == Base \in Nat /\ Base >= 2
ASSUME LimitAssumption   == Limit \in Nat /\ Limit >= 2
ASSUME WordAssumption    ==
  Word \in Nat /\ Limit < Word /\ \A d \in 0..Limit : Base ^ d <= Word
ASSUME PowersAssumption  ==
  /\ Base ^ 0 = 1
  /\ \A d \in 0..Limit : Base ^ d \in Nat \ {0} /\ Base ^ (d + 1) = Base * Base ^ d
ASSUME LengthsAssumption == Lengths \subseteq Nat
ASSUME NumeralAssumption ==
  \A l \in Lengths : LET digits == Len(Numeral[l])
                     IN  /\ Numeral[l] \in Seq(0..(Base - 1)) /\ digits > 0
                         /\ \A d \in 1..Limit : digits > d <=> l >= Base ^ d
                         /\ \A i \in 1..digits :
                              Numeral[l][i] = (l \div (Base ^ (digits - i))) % Base
ASSUME ForeignAssumption == Foreign \subseteq Seq(Nat)

(* Bytes: the digits, the blank, and byte k of the message.                *)
Blank   == Base
Byte(k) == Base + k

Message(length) == [k \in 1..length |-> Byte(k)]
Frame(length)   == Numeral[length] \o <<Blank>> \o Message(length)
Zeros(length)   == [k \in 1..length |-> 0]

VARIABLES
  sent,         \* {length} of the message sent, {} for a foreign stream
  stream,       \* the bytes of the sender, in order
  arrived,      \* how many of them have come in
  end,          \* of what comes in: "open", "closed", "reset"
  taken,        \* how many the reader has read
  reader,       \* "length", "message"; "returned", "refused", "threw"
  n,            \* the counter of the loop it is in
  length,       \* the value of the digits read
  buffer

connection == <<sent, stream, arrived, end>>
vars == <<sent, stream, arrived, end, taken, reader, n, length, buffer>>

Outcomes == {"returned", "refused", "threw"}

(* Every variable has its type.                                            *)
TypeOK ==
  /\ sent \subseteq Lengths
  /\ stream \in Seq(Nat)
  /\ arrived \in 0..Len(stream)
  /\ end \in {"open", "closed", "reset"}
  /\ taken \in 0..arrived
  /\ reader \in Outcomes \cup {"length", "message"}
  /\ n \in 0..(Word - 1)
  /\ length \in Nat
  /\ buffer \in Seq(Nat)

Init ==
  /\ \/ \E l \in Lengths : sent = {l} /\ stream = Frame(l)
     \/ sent = {} /\ stream \in Foreign
  /\ arrived = 0
  /\ end = "open"
  /\ taken = 0
  /\ reader = "length"
  /\ n = 0
  /\ length = 0
  /\ buffer = <<>>

--------------------------------------------------------------------------------
(* The connection.  A send writes all of it, less, or nothing before the   *)
(* sender closes or dies; a sender that dies with input unread resets.     *)
Arrive ==
  /\ end = "open"
  /\ arrived' \in (arrived + 1)..Len(stream)
  /\ UNCHANGED <<sent, stream, end, taken, reader, n, length, buffer>>

End ==
  /\ end = "open"
  /\ end' \in {"closed", "reset"}
  /\ UNCHANGED <<sent, stream, arrived, taken, reader, n, length, buffer>>

--------------------------------------------------------------------------------
(* The reader.  What has arrived can be read whatever came after it; then  *)
(* read returns 0, or -1 once for a reset and 0 from then on.              *)

Smaller(a, b) == IF a <= b THEN a ELSE b

Pending == taken < arrived
Ended   == end # "open" /\ taken = arrived

(* Mutant: one digit more.                                                 *)
GivesUpLate(digits) == digits > Limit

GivesUp(digits) == digits >= Limit

ReadDigit ==
  /\ reader = "length"
  /\ Pending
  /\ LET byte == stream[taken + 1]
     IN  /\ byte < Base
         /\ length' = length * Base + byte
  /\ taken' = taken + 1
  /\ n' = n + 1
  /\ reader' = IF GivesUp(n + 1) THEN "refused" ELSE "length"
  /\ UNCHANGED <<connection, buffer>>

ReadBlank ==
  /\ reader = "length"
  /\ Pending
  /\ stream[taken + 1] = Blank
  /\ taken' = taken + 1
  /\ buffer' = Zeros(length)
  /\ n' = 0
  /\ reader' = "message"
  /\ UNCHANGED <<connection, length>>

ReadOther ==
  /\ reader = "length"
  /\ Pending
  /\ stream[taken + 1] > Blank
  /\ taken' = taken + 1
  /\ reader' = "refused"
  /\ UNCHANGED <<connection, n, length, buffer>>

(* Neither 0 nor -1 is positive: the loop ends, and the call succeeds.     *)
EndInLength ==
  /\ reader = "length"
  /\ Ended
  /\ reader' = "returned"
  /\ end' = "closed"
  /\ UNCHANGED <<sent, stream, arrived, taken, n, length, buffer>>

(* Mutant: the counter is that of the last read.                           *)
ReadMessageRestarts ==
  /\ reader = "message"
  /\ n < length
  /\ Pending
  /\ LET k == Smaller(length - n, arrived - taken)
     IN  /\ taken' = taken + k
         /\ n' = k % Word
         /\ buffer' = [i \in 1..length |->
              IF i \in (n + 1)..(n + k) THEN stream[taken + i - n] ELSE buffer[i]]
  /\ UNCHANGED <<connection, reader, length>>

(* read_until_length: as much as has arrived, and as is missing.           *)
ReadMessage ==
  /\ reader = "message"
  /\ n < length
  /\ Pending
  /\ LET k == Smaller(length - n, arrived - taken)
     IN  /\ taken' = taken + k
         /\ n' = (n + k) % Word
         /\ buffer' = [i \in 1..length |->
              IF i \in (n + 1)..(n + k) THEN stream[taken + i - n] ELSE buffer[i]]
  /\ UNCHANGED <<connection, reader, length>>

(* The -1 goes into a size_t and is added to n: before the first byte n is *)
(* then beyond any length, later it is one less than before.               *)
ReadError ==
  /\ reader = "message"
  /\ n < length
  /\ Ended
  /\ end = "reset"
  /\ n' = (n + (Word - 1)) % Word
  /\ end' = "closed"
  /\ UNCHANGED <<sent, stream, arrived, taken, reader, length, buffer>>

(* Mutant: the end of the connection ends the loop.                        *)
EndInMessageBreaks ==
  /\ reader = "message"
  /\ n < length
  /\ Ended
  /\ end = "closed"
  /\ reader' = "returned"
  /\ UNCHANGED <<connection, taken, n, length, buffer>>

EndInMessage ==
  /\ reader = "message"
  /\ n < length
  /\ Ended
  /\ end = "closed"
  /\ reader' = "threw"
  /\ UNCHANGED <<connection, taken, n, length, buffer>>

Return ==
  /\ reader = "message"
  /\ n >= length
  /\ reader' = "returned"
  /\ UNCHANGED <<connection, taken, n, length, buffer>>

Read == \/ ReadDigit \/ ReadBlank \/ ReadOther \/ EndInLength
        \/ ReadMessage \/ ReadError \/ EndInMessage \/ Return

Next == Arrive \/ End \/ Read

(* The process that reads is scheduled.  Nothing makes bytes arrive.       *)
Spec == Init /\ [][Next]_vars /\ WF_vars(Read)

--------------------------------------------------------------------------------
(* Either server takes a message for complete only if it is: what a read   *)
(* returns with success is every byte the length counts, in order; or, as  *)
(* the two loops have it, nothing because the connection ended before the  *)
(* blank, or zeros because it was reset between the blank and the message. *)
(* Never the beginning of a message with zeros after it                    *)
(* (ValidatorServer.cpp:150, 167; RelayServer.cpp:185, 201).               *)
Whole == /\ length < taken
         /\ buffer = SubSeq(stream, taken - length + 1, taken)

Nothing == buffer = <<>> /\ Ended /\ \A i \in 1..taken : stream[i] # Blank

Blanked == buffer = Zeros(length) /\ Ended /\ stream[taken] = Blank

NeverCut == reader = "returned" => Whole \/ Nothing \/ Blanked

(* A message is refused exactly for the number of its digits: none that a  *)
(* reader gives up on is read, and none of fewer digits is given up on,    *)
(* however its bytes arrive (ValidatorServer.cpp:181, RelayServer.cpp:214).*)
RefusesLong ==
  \A l \in sent :
    /\ reader = "refused" => l >= Base ^ (Limit - 1)
    /\ reader \in {"message", "threw"} => l < Base ^ (Limit - 1) /\ length = l

(* A message with fewer digits that has come in is not refused, given up   *)
(* or returned otherwise than it was sent, whatever pieces it came in and  *)
(* whatever became of the connection afterwards (ValidatorServer.cpp:152,  *)
(* 167, RelayServer.cpp:187, 201).                                         *)
Undamaged ==
  \A l \in sent :
    l < Base ^ (Limit - 1) /\ arrived = Len(stream) =>
      \/ reader \in {"length", "message"}
      \/ reader = "returned" /\ buffer = Message(l)

(* What Read waits for.                                                    *)
CanRead ==
  \/ reader = "length" /\ (Pending \/ Ended)
  \/ reader = "message" /\ (n >= length \/ Pending \/ Ended)

(* A reader blocks only on a connection that is open and has nothing more  *)
(* to read, and never on one that brought a whole message: it asks for no  *)
(* byte beyond the last (ValidatorServer.cpp:150, 167; RelayServer.cpp:185,*)
(* 201).                                                                   *)
WaitsForMore ==
  reader \in Outcomes \/ CanRead
    \/ /\ end = "open" /\ taken = arrived
       /\ sent # {} => arrived < Len(stream)

(* What is left to read: bytes, the end of the connection, and the return. *)
EndLeft    == IF end = "closed" THEN 0 ELSE 1
ReturnLeft == IF reader \in Outcomes THEN 0 ELSE 1
ReadsLeft  == (Len(stream) - taken) + EndLeft + ReturnLeft

(* No call of read goes round for ever, the one that failed and moved the  *)
(* counter back included: each takes of what is left, and nothing adds to  *)
(* it (ValidatorServer.cpp:152, 167; RelayServer.cpp:187, 201).            *)
ReadsEnd == [][ReadsLeft' <= ReadsLeft /\ (Read => ReadsLeft' < ReadsLeft)]_vars

(* A message with fewer digits that has come in is returned, whatever      *)
(* pieces it came in and whatever became of the connection afterwards.     *)
Delivered ==
  \A l \in {l \in Lengths : l < Base ^ (Limit - 1)} :
    sent = {l} /\ arrived = Len(stream) ~> reader = "returned" /\ buffer = Message(l)
================================================================================
