------------------------------ MODULE FramingProofs ------------------------------
(***************************************************************************)
(* Proofs about the readers of the messages, for any base, any number of   *)
(* digits, any streams and any way they come in.                           *)
(***************************************************************************)
EXTENDS Framing, SequenceTheorems, TLAPS

(* Before the blank there have been digits only, and their value fits.     *)
InLength ==
  reader = "length" =>
    /\ buffer = <<>>
    /\ n \in 0..(Limit - 1)
    /\ length < Base ^ n
    /\ \A i \in 1..taken : stream[i] < Blank

(* After the blank, as long as no read failed, the first n bytes of the    *)
(* buffer are the last n read and the rest are zeros.                      *)
Filling ==
  /\ length < Word
  /\ n <= length
  /\ n < taken
  /\ n = 0 => stream[taken] = Blank
  /\ Len(buffer) = length
  /\ \A i \in 1..n : buffer[i] = stream[taken - n + i]
  /\ \A i \in (n + 1)..length : buffer[i] = 0

(* A read that failed was the last of this connection: nothing is read any *)
(* more, and the loop ends at once or at the next read.                    *)
Failed == end = "closed" /\ taken = arrived /\ (n < length \/ Blanked)

InMessage == reader = "message" => Filling \/ Failed

Inv == TypeOK /\ InLength /\ InMessage /\ NeverCut

(* A read came too late, or none will find what is missing.                *)
Lost == end # "open" /\ arrived < Len(stream)

(* Where the reader stands in a message that was sent as l bytes.          *)
Standing(l) ==
  LET digits == Len(Numeral[l])
      short  == l < Base ^ (Limit - 1)
  IN  /\ reader = "length" => /\ n = taken /\ taken <= digits
                              /\ digits < Limit => length = l \div (Base ^ (digits - taken))
      /\ reader \in {"message", "threw"} => short /\ length = l
      /\ reader = "message" => Lost \/ (Filling /\ taken = digits + 1 + n)
      /\ reader = "threw" => Lost
      /\ reader = "returned" => Lost \/ buffer = Message(l)
      /\ reader = "refused" => ~short

FrameInv == \A l \in sent : l \in Lengths /\ stream = Frame(l) /\ Standing(l)

(* A digit more keeps the value below the next power.                      *)
LEMMA DigitFits ==
  ASSUME NEW d \in 0..(Limit - 1), NEW l \in Nat, l < Base ^ d,
         NEW b \in Nat, b < Base
  PROVE  l * Base + b < Base ^ (d + 1)
<1> USE BaseAssumption, LimitAssumption
<1>1. Base ^ d \in Nat /\ Base ^ (d + 1) = Base * Base ^ d
  BY PowersAssumption
<1>2. ASSUME NEW x \in Nat, NEW y \in Nat, x < y PROVE x * Base + b < Base * y
  <2>1. PICK z \in Nat : y = x + 1 + z
    BY <1>2, y - (x + 1) \in Nat
  <2>2. Base * y = x * Base + Base + Base * z
    BY <2>1
  <2>3. Base * z >= 0
    OBVIOUS
  <2> QED BY <2>2, <2>3
<1> QED BY <1>1, <1>2

--------------------------------------------------------------------------------
(* The reader starts before the first byte.                                *)
LEMMA InitInv == Init => Inv
<1> SUFFICES ASSUME Init PROVE Inv
  OBVIOUS
<1> USE BaseAssumption, LimitAssumption
<1>1. stream \in Seq(Nat)
  <2>1. ASSUME NEW l \in Lengths PROVE Frame(l) \in Seq(Nat)
    <3>1. Numeral[l] \in Seq(Nat)
      BY NumeralAssumption
    <3>2. <<Blank>> \in Seq(Nat) /\ Message(l) \in Seq(Nat)
      BY LengthsAssumption DEF Blank, Message, Byte
    <3> QED BY <3>1, <3>2 DEF Frame
  <2> QED BY <2>1, ForeignAssumption DEF Init
<1>2. 0 < Word /\ 0 < Base ^ 0
  BY PowersAssumption, WordAssumption
<1>3. TypeOK
  BY <1>1, <1>2, WordAssumption DEF Init, TypeOK
<1>4. InLength /\ InMessage /\ NeverCut
  BY <1>2 DEF Init, InLength, InMessage, NeverCut
<1> QED BY <1>3, <1>4 DEF Inv

(* What comes in, or stops coming in, is beside what was read.             *)
LEMMA ConnectionInv ==
  ASSUME Inv, Arrive \/ End
  PROVE  Inv'
<1> USE DEF Inv, TypeOK
<1>1. TypeOK'
  BY DEF Arrive, End
<1>2. UNCHANGED <<stream, taken, reader, n, length, buffer>>
  BY DEF Arrive, End
<1>3. end = "open"
  BY DEF Arrive, End
<1>4. InLength' /\ InMessage'
  BY <1>2, <1>3 DEF InLength, InMessage, Filling, Failed, Blank
<1>5. NeverCut'
  BY <1>2, <1>3 DEF NeverCut, Whole, Nothing, Blanked, Ended, Zeros
<1> QED BY <1>1, <1>4, <1>5

(* The bytes of the length.                                                *)
LEMMA ReadDigitInv ==
  ASSUME Inv, ReadDigit
  PROVE  Inv'
<1> USE BaseAssumption, LimitAssumption DEF Inv, TypeOK, ReadDigit, Pending, connection
<1> DEFINE byte == stream[taken + 1]
<1>1. n \in 0..(Limit - 1) /\ length < Base ^ n /\ buffer = <<>>
      /\ \A i \in 1..taken : stream[i] < Blank
  BY DEF InLength
<1>2. byte \in Nat /\ byte < Base /\ taken' \in 0..arrived
  OBVIOUS
<1>3. length' \in Nat /\ length' < Base ^ (n + 1)
  <2>1. length * Base + byte < Base ^ (n + 1)
    BY <1>1, <1>2, DigitFits
  <2>2. length * Base \in Nat
    OBVIOUS
  <2> QED BY <2>1, <2>2, <1>2
<1>4. n' \in 0..(Word - 1)
  BY <1>1, WordAssumption
<1>5. TypeOK'
  BY <1>2, <1>3, <1>4 DEF Outcomes
<1>6. InLength' /\ InMessage' /\ NeverCut'
  BY <1>1, <1>2, <1>3 DEF InLength, InMessage, NeverCut, GivesUp, Blank
<1> QED BY <1>5, <1>6

(* The blank after the length: the buffer is made, and nothing is in it    *)
(* yet.                                                                    *)
LEMMA ReadBlankFills ==
  ASSUME Inv, ReadBlank
  PROVE  TypeOK' /\ Filling'
<1> USE BaseAssumption, LimitAssumption DEF Inv, TypeOK, ReadBlank, Pending, connection
<1>1. n \in 0..(Limit - 1) /\ length < Base ^ n /\ length \in Nat
  BY DEF InLength
<1>2. length < Word /\ Word \in Nat
  <2>1. Base ^ n \in Nat /\ Base ^ n <= Word /\ Word \in Nat
    BY <1>1, WordAssumption, PowersAssumption
  <2> QED BY <1>1, <2>1
<1>3. /\ Zeros(length) \in Seq(Nat)
      /\ Len(Zeros(length)) = length
      /\ \A i \in 1..length : Zeros(length)[i] = 0
  BY <1>1 DEF Zeros
<1>4. TypeOK'
  BY <1>2, <1>3, WordAssumption DEF Outcomes
<1>5. Filling'
  BY <1>2, <1>3 DEF Filling
<1> QED BY <1>4, <1>5

(* So the blank keeps the invariant.                                       *)
LEMMA ReadBlankInv ==
  ASSUME Inv, ReadBlank
  PROVE  Inv'
<1>1. reader' = "message"
  BY DEF ReadBlank
<1> QED BY <1>1, ReadBlankFills DEF Inv, InLength, InMessage, NeverCut

(* What ends the loop over the length.                                     *)
LEMMA RefusedInv ==
  ASSUME Inv, ReadOther \/ EndInLength
  PROVE  Inv'
<1> USE BaseAssumption, LimitAssumption DEF Inv, TypeOK, Pending, connection
<1>1. CASE ReadOther
  BY <1>1 DEF ReadOther, Outcomes, InLength, InMessage, NeverCut
<1>2. CASE EndInLength
  <2>1. Nothing'
    <3>1. buffer = <<>> /\ \A i \in 1..taken : stream[i] < Blank
      BY <1>2 DEF InLength, EndInLength
    <3>2. \A i \in 1..taken : stream[i] \in Nat
      OBVIOUS
    <3> QED BY <1>2, <3>1, <3>2 DEF EndInLength, Ended, Nothing, Blank
  <2>2. TypeOK'
    BY <1>2 DEF EndInLength, Outcomes
  <2> QED BY <1>2, <2>1, <2>2 DEF EndInLength, InLength, InMessage, NeverCut
<1> QED BY <1>1, <1>2

--------------------------------------------------------------------------------
(* A read takes at least one byte, and no more than was asked or arrived.  *)
LEMMA SmallerBounds ==
  ASSUME NEW a \in Nat \ {0}, NEW b \in Nat \ {0}
  PROVE  Smaller(a, b) \in 1..a /\ Smaller(a, b) <= b
BY DEF Smaller

(* The bytes of the message go where they belong.                          *)
LEMMA ReadMessageFills ==
  ASSUME Inv, ReadMessage
  PROVE  /\ TypeOK' /\ Filling' /\ taken' - n' = taken - n
         /\ UNCHANGED <<sent, stream, arrived, end, reader, length>>
<1> DEFINE k == Smaller(length - n, arrived - taken)
<1>1. /\ reader = "message" /\ n < length /\ taken < arrived
      /\ taken' = taken + k
      /\ n' = (n + k) % Word
      /\ buffer' = [i \in 1..length |->
           IF i \in (n + 1)..(n + k) THEN stream[taken + i - n] ELSE buffer[i]]
      /\ UNCHANGED <<sent, stream, arrived, end, reader, length>>
  BY DEF ReadMessage, Pending, connection
<1>2. /\ n \in Nat /\ length \in Nat /\ taken \in Nat
      /\ arrived \in Nat /\ arrived <= Len(stream)
      /\ stream \in Seq(Nat) /\ buffer \in Seq(Nat) /\ Word \in Nat
  BY WordAssumption DEF Inv, TypeOK
<1>3. k \in 1..(length - n) /\ k <= arrived - taken
  <2>1. n < length /\ taken < arrived
    BY <1>1
  <2>2. length - n \in Nat \ {0} /\ arrived - taken \in Nat \ {0}
    BY <1>2, <2>1
  <2> QED BY <2>2, SmallerBounds
<1>4. Filling
  BY <1>1, <1>2 DEF Inv, InMessage, Failed
<1> HIDE DEF k
<1>5. n' = n + k
  <2>1. n + k \in Nat /\ n + k < Word
    BY <1>2, <1>3, <1>4 DEF Filling
  <2>2. \A x \in Nat : x < Word => x % Word = x
    BY <1>2
  <2> QED BY <1>1, <2>1, <2>2
<1>6. \A i \in 1..length :
        buffer'[i] = IF i \in (n + 1)..(n + k) THEN stream[taken + i - n] ELSE buffer[i]
  BY <1>1
<1>7. buffer' \in Seq(Nat) /\ Len(buffer') = length
  <2>1. \A i \in 1..length : buffer[i] \in Nat
    BY <1>2, <1>4 DEF Filling
  <2>2. \A i \in (n + 1)..(n + k) : taken + i - n \in 1..Len(stream)
    BY <1>2, <1>3
  <2>3. \A i \in (n + 1)..(n + k) : stream[taken + i - n] \in Nat
    BY <1>2, <2>2
  <2> QED BY <1>1, <1>2, <2>1, <2>3
<1>8. TypeOK'
  <2>1. n' \in 0..(Word - 1) /\ taken' \in 0..arrived
    BY <1>1, <1>2, <1>3, <1>4, <1>5 DEF Filling
  <2> QED BY <1>1, <1>7, <2>1 DEF Inv, TypeOK
<1>9. Filling'
  <2>1. \A i \in 1..(n + k) : buffer'[i] = stream[taken - n + i]
    <3>1. ASSUME NEW i \in 1..n PROVE buffer'[i] = stream[taken - n + i]
      BY <1>2, <1>3, <1>4, <1>6, <3>1 DEF Filling
    <3>2. ASSUME NEW i \in (n + 1)..(n + k) PROVE buffer'[i] = stream[taken - n + i]
      <4>1. i \in 1..length /\ taken + i - n = taken - n + i
        BY <1>2, <1>3
      <4> QED BY <1>6, <4>1
    <3> QED BY <1>2, <1>3, <3>1, <3>2
  <2>2. \A i \in (n + k + 1)..length : buffer'[i] = 0
    BY <1>2, <1>3, <1>4, <1>6 DEF Filling
  <2>3. taken' = taken + k /\ length' = length /\ stream' = stream
    BY <1>1
  <2>4. \A i \in 1..(n + k) : taken' - n' + i = taken - n + i
    BY <1>2, <1>3, <1>5, <2>3
  <2>5. n' <= length' /\ n' < taken' /\ n' # 0 /\ length' < Word
    BY <1>2, <1>3, <1>4, <1>5, <2>3 DEF Filling
  <2> QED BY <1>5, <1>7, <2>1, <2>2, <2>3, <2>4, <2>5 DEF Filling
<1>10. taken' - n' = taken - n
  <2>1. taken' = taken + k
    BY <1>1
  <2>2. taken \in Nat /\ n \in Nat /\ k \in Int
    BY <1>2, <1>3
  <2> QED BY <1>5, <2>1, <2>2
<1> QED BY <1>1, <1>8, <1>9, <1>10

(* A read that fails leaves nothing to read, so this one did not.          *)
LEMMA ReadMessageInv ==
  ASSUME Inv, ReadMessage
  PROVE  Inv'
<1>1. reader = "message"
  BY DEF ReadMessage
<1> QED BY <1>1, ReadMessageFills DEF Inv, InLength, InMessage, NeverCut

(* A read that fails steps the counter back, or round from zero.           *)
LEMMA ReadErrorInv ==
  ASSUME Inv, ReadError
  PROVE  Inv'
<1> USE DEF Inv, TypeOK, ReadError, Ended
<1>1. Filling
  BY DEF InMessage, Failed
<1>2. n' = IF n = 0 THEN Word - 1 ELSE n - 1
  <2>1. Word \in Nat /\ Word > 0
    BY WordAssumption, LimitAssumption
  <2> QED BY <2>1
<1>3. TypeOK'
  BY <1>2, WordAssumption, LimitAssumption
<1>4. n = 0 => Blanked'
  BY <1>1 DEF Filling, Blanked, Zeros
<1>5. n # 0 => n' < length'
  BY <1>2
<1> QED BY <1>3, <1>4, <1>5 DEF InLength, InMessage, Failed, NeverCut

(* A connection that ends in the message is an exception.                  *)
LEMMA EndInMessageInv ==
  ASSUME Inv, EndInMessage
  PROVE  Inv'
BY DEF EndInMessage, connection, Inv, TypeOK, Outcomes, InLength, InMessage, NeverCut

(* The loop ends when the buffer is full, or after the failed read.        *)
LEMMA ReturnInv ==
  ASSUME Inv, Return
  PROVE  Inv'
<1> USE DEF Inv, TypeOK, Return, connection
<1>1. TypeOK' /\ InLength' /\ InMessage'
  BY DEF Outcomes, InLength, InMessage
<1>2. CASE Filling
  <2>1. n = length /\ length < taken
    BY <1>2 DEF Filling
  <2>2. Len(SubSeq(stream, taken - length + 1, taken)) = length
    BY <2>1
  <2>3. \A i \in 1..length : SubSeq(stream, taken - length + 1, taken)[i] = buffer[i]
    BY <1>2, <2>1 DEF Filling
  <2>4. buffer = SubSeq(stream, taken - length + 1, taken)
    BY <1>2, <2>1, <2>2, <2>3 DEF Filling
  <2> QED BY <1>1, <2>1, <2>4 DEF NeverCut, Whole
<1>3. CASE Failed
  BY <1>1, <1>3 DEF Failed, NeverCut, Blanked, Ended, Zeros
<1> QED BY <1>2, <1>3 DEF InMessage

--------------------------------------------------------------------------------
(* Numerals.  Division by a positive number has a quotient and a remainder,*)
(* and only one.                                                           *)
LEMMA Division ==
  ASSUME NEW x \in Nat, NEW p \in Nat \ {0}
  PROVE  x \div p \in Nat /\ x % p \in 0..(p - 1) /\ x = (x \div p) * p + (x % p)
  OBVIOUS

(* A quotient is what makes the division come out.                         *)
LEMMA Quotient ==
  ASSUME NEW p \in Nat \ {0}, NEW q \in Nat, NEW r \in 0..(p - 1), NEW x \in Nat,
         x = q * p + r
  PROVE  x \div p = q
<1> DEFINE d == x \div p
           e == x % p
<1>1. d \in Nat /\ e \in 0..(p - 1) /\ d * p + e = q * p + r
  BY Division
<1> HIDE DEF d, e
<1>2. CASE d < q
  <2>1. PICK z \in Nat : q = d + 1 + z
    BY <1>1, <1>2, q - (d + 1) \in Nat
  <2>2. q * p = d * p + p + z * p /\ z * p >= 0
    BY <2>1, <1>1
  <2> QED BY <1>1, <2>2
<1>3. CASE q < d
  <2>1. PICK z \in Nat : d = q + 1 + z
    BY <1>1, <1>3, d - (q + 1) \in Nat
  <2>2. d * p = q * p + p + z * p /\ z * p >= 0
    BY <2>1, <1>1
  <2> QED BY <1>1, <2>2
<1> QED BY <1>1, <1>2, <1>3 DEF d

(* The value of one digit more: what length * Base + byte comes to.        *)
LEMMA NextDigit ==
  ASSUME NEW x \in Nat, NEW p \in Nat \ {0}, NEW b \in Nat \ {0}
  PROVE  (x \div (b * p)) * b + ((x \div p) % b) = x \div p
<1> DEFINE q == x \div p
           r == x % p
           s == q \div b
           t == q % b
<1>1. q \in Nat /\ r \in 0..(p - 1) /\ x = q * p + r
  BY Division
<1>2. s \in Nat /\ t \in 0..(b - 1) /\ q = s * b + t
  BY <1>1, Division
<1> HIDE DEF q, r, s, t
<1>3. b * p \in Nat \ {0}
  OBVIOUS
<1>4. x = s * (b * p) + (t * p + r)
  <2>1. x = (s * b + t) * p + r
    BY <1>1, <1>2
  <2> QED BY <2>1, <1>1, <1>2
<1>5. t * p + r \in 0..(b * p - 1)
  <2>1. PICK z \in Nat : b = t + 1 + z
    BY <1>2, b - (t + 1) \in Nat
  <2>2. b * p = t * p + p + z * p /\ z * p >= 0 /\ t * p >= 0
    BY <2>1, <1>2
  <2>3. t * p \in Int /\ z * p \in Int
    BY <1>2, <2>1
  <2> QED BY <1>1, <2>2, <2>3
<1>6. x \div (b * p) = s
  BY <1>2, <1>3, <1>4, <1>5, Quotient
<1> QED BY <1>2, <1>6 DEF q, t

(* What is where in a sequence made of two with an element between.        *)
LEMMA ThreeParts ==
  ASSUME NEW s \in Seq(Nat), NEW b \in Nat, NEW u \in Seq(Nat)
  PROVE  LET t == s \o <<b>> \o u
         IN  /\ Len(t) = Len(s) + 1 + Len(u)
             /\ \A i \in 1..Len(s) : t[i] = s[i]
             /\ t[Len(s) + 1] = b
             /\ \A i \in 1..Len(u) : t[Len(s) + 1 + i] = u[i]
<1> DEFINE head == s \o <<b>>
           t    == head \o u
<1>1. <<b>> \in Seq(Nat) /\ Len(<<b>>) = 1 /\ <<b>>[1] = b
  OBVIOUS
<1>2. Len(s) \in Nat /\ Len(u) \in Nat
  OBVIOUS
<1>3. /\ head \in Seq(Nat) /\ Len(head) = Len(s) + 1
      /\ \A i \in 1..(Len(s) + 1) : head[i] = IF i <= Len(s) THEN s[i] ELSE <<b>>[i - Len(s)]
  BY <1>1, ConcatProperties
<1> HIDE DEF head
<1>4. /\ Len(t) = Len(head) + Len(u)
      /\ \A i \in 1..(Len(head) + Len(u)) :
           t[i] = IF i <= Len(head) THEN head[i] ELSE u[i - Len(head)]
  <2>1. head \in Seq(Nat)
    BY <1>3
  <2> QED BY <2>1, ConcatProperties
<1> HIDE DEF t
<1>5. \A i \in 1..Len(s) : t[i] = s[i]
  BY <1>2, <1>3, <1>4
<1>6. t[Len(s) + 1] = b
  <2>1. head[Len(s) + 1] = b
    BY <1>1, <1>2, <1>3
  <2> QED BY <1>2, <1>3, <1>4, <2>1
<1>7. ASSUME NEW i \in 1..Len(u) PROVE t[Len(s) + 1 + i] = u[i]
  <2>1. /\ Len(s) + 1 + i \in 1..(Len(head) + Len(u))
        /\ ~(Len(s) + 1 + i <= Len(head))
        /\ Len(s) + 1 + i - Len(head) = i
    BY <1>2, <1>3
  <2> QED BY <1>4, <2>1
<1>8. Len(t) = Len(s) + 1 + Len(u)
  BY <1>2, <1>3, <1>4
<1> QED BY <1>5, <1>6, <1>7, <1>8 DEF t, head

(* What is where in the bytes of a message.                                *)
LEMMA FrameLayout ==
  ASSUME NEW l \in Lengths
  PROVE  LET digits == Len(Numeral[l])
         IN  /\ l \in Nat /\ digits \in Nat \ {0} /\ Numeral[l] \in Seq(Nat)
             /\ Len(Frame(l)) = digits + 1 + l
             /\ \A i \in 1..digits : Frame(l)[i] = Numeral[l][i] /\ Numeral[l][i] < Base
             /\ Frame(l)[digits + 1] = Blank
             /\ \A i \in 1..l : Frame(l)[digits + 1 + i] = Byte(i)
<1> DEFINE numeral == Numeral[l]
           digits  == Len(numeral)
<1>1. l \in Nat
  BY LengthsAssumption
<1>2. numeral \in Seq(0..(Base - 1)) /\ digits > 0
  BY NumeralAssumption
<1>3. digits \in Nat \ {0} /\ \A i \in 1..digits : numeral[i] \in Nat /\ numeral[i] < Base
  BY <1>2, BaseAssumption
<1>4. numeral \in Seq(Nat)
  BY <1>2, BaseAssumption
<1>5. Blank \in Nat /\ \A i \in 1..l : Byte(i) \in Nat
  BY BaseAssumption, <1>1 DEF Blank, Byte
<1>6. /\ Message(l) \in Seq(Nat) /\ Len(Message(l)) = l
      /\ \A i \in 1..l : Message(l)[i] = Byte(i)
  BY <1>1, <1>5 DEF Message
<1> HIDE DEF numeral
<1>7. Frame(l) = numeral \o <<Blank>> \o Message(l)
  BY DEF Frame, numeral
<1>8. /\ Len(Frame(l)) = digits + 1 + l
      /\ \A i \in 1..digits : Frame(l)[i] = numeral[i]
      /\ Frame(l)[digits + 1] = Blank
      /\ \A i \in 1..l : Frame(l)[digits + 1 + i] = Message(l)[i]
  <2> DEFINE message == Message(l)
             frame   == numeral \o <<Blank>> \o message
  <2>1. message \in Seq(Nat) /\ Len(message) = l /\ Frame(l) = frame
    BY <1>6, <1>7
  <2> HIDE DEF message
  <2>2. /\ Len(frame) = digits + 1 + Len(message)
        /\ \A i \in 1..digits : frame[i] = numeral[i]
        /\ frame[digits + 1] = Blank
        /\ \A i \in 1..Len(message) : frame[digits + 1 + i] = message[i]
    BY <1>4, <1>5, <2>1, ThreeParts
  <2> HIDE DEF frame
  <2> QED BY <2>1, <2>2 DEF message
<1> QED BY <1>1, <1>3, <1>4, <1>6, <1>8 DEF numeral

(* Before the first byte nothing of the numeral is read, and its value is  *)
(* below the power of its digits.                                          *)
LEMMA InitFrame == Init => FrameInv
<1> SUFFICES ASSUME Init, NEW l \in sent
             PROVE  l \in Lengths /\ stream = Frame(l) /\ Standing(l)
  BY DEF FrameInv
<1> DEFINE digits == Len(Numeral[l])
<1>1. l \in Lengths /\ stream = Frame(l)
  BY DEF Init
<1>2. digits \in Nat \ {0} /\ l \in Nat
  BY <1>1, FrameLayout
<1>3. ASSUME digits < Limit PROVE 0 = l \div (Base ^ digits)
  <2>1. digits \in 1..Limit /\ digits \in 0..Limit
    BY <1>2, <1>3, LimitAssumption
  <2>2. ~(l >= Base ^ digits)
    <3>1. digits > digits <=> l >= Base ^ digits
      BY <1>1, <2>1, NumeralAssumption
    <3> QED BY <1>2, <3>1
  <2>3. Base ^ digits \in Nat
    BY <2>1, PowersAssumption
  <2> DEFINE p == Base ^ digits
  <2> HIDE DEF p
  <2>4. p \in Nat /\ l < p
    BY <1>2, <2>2, <2>3 DEF p
  <2>5. p \in Nat \ {0} /\ l \in 0..(p - 1) /\ l = 0 * p + l
    BY <1>2, <2>4
  <2>6. l \div p = 0
    BY <1>2, <2>5, Quotient
  <2> QED BY <2>6 DEF p
<1>4. reader = "length" /\ n = 0 /\ taken = 0 /\ length = 0
  BY DEF Init
<1>5. digits - taken = digits
  BY <1>2, <1>4
<1>6. Standing(l)
  BY <1>2, <1>3, <1>4, <1>5 DEF Standing
<1> QED BY <1>1, <1>6

(* What is lost stays lost.                                                *)
LEMMA LostStays == TypeOK /\ Lost /\ [Next]_vars => Lost'
  BY DEF Lost, TypeOK, Next, Read, vars, connection, Arrive, End, ReadDigit, ReadBlank,
         ReadOther, EndInLength, ReadMessage, ReadError, EndInMessage, Return

(* The bytes that have come in do not matter to where the reader stands.   *)
LEMMA ConnectionStanding ==
  ASSUME Inv, Arrive \/ End, NEW l \in Lengths, stream = Frame(l), Standing(l)
  PROVE  Standing(l)'
<1>1. UNCHANGED <<stream, taken, reader, n, length, buffer>>
  BY DEF Arrive, End
<1>2. Lost => Lost'
  BY LostStays DEF Next, Inv
<1>3. Filling => Filling'
  BY <1>1 DEF Filling, Blank
<1> QED BY <1>1, <1>2, <1>3 DEF Standing

(* All that was read are digits, so the next byte is a digit or the blank. *)
LEMMA ReadDigitStanding ==
  ASSUME Inv, ReadDigit, NEW l \in Lengths, stream = Frame(l), Standing(l)
  PROVE  Standing(l)'
<1> DEFINE digits == Len(Numeral[l])
<1>1. /\ reader = "length" /\ n = taken /\ taken \in Nat /\ taken <= digits
      /\ digits < Limit => length = l \div (Base ^ (digits - taken))
  BY DEF ReadDigit, Standing, Inv, TypeOK
<1>2. /\ taken' = taken + 1 /\ n' = n + 1 /\ stream[taken + 1] < Base
      /\ length' = length * Base + stream[taken + 1]
      /\ reader' = IF GivesUp(n + 1) THEN "refused" ELSE "length"
  BY DEF ReadDigit
<1>3. /\ l \in Nat /\ digits \in Nat \ {0}
      /\ \A i \in 1..digits : stream[i] = Numeral[l][i]
      /\ stream[digits + 1] = Base
  BY FrameLayout DEF Blank
<1>4. Base \in Nat /\ Base >= 2 /\ Limit \in Nat /\ Limit >= 2
  BY BaseAssumption, LimitAssumption
<1>5. taken < digits
  <2>1. taken # digits
    BY <1>2, <1>3, <1>4
  <2> QED BY <1>1, <1>3, <2>1
<1>6. CASE reader' = "refused"
  <2>1. n + 1 >= Limit
    BY <1>2, <1>6 DEF GivesUp
  <2>2. digits > Limit - 1 /\ Limit - 1 \in 1..Limit
    BY <1>1, <1>3, <1>4, <1>5, <2>1
  <2>3. l >= Base ^ (Limit - 1)
    BY <2>2, NumeralAssumption
  <2>4. Base ^ (Limit - 1) \in Nat
    BY <1>4, PowersAssumption
  <2>5. ~(l < Base ^ (Limit - 1))
    BY <1>3, <2>3, <2>4
  <2> QED BY <1>6, <2>5 DEF Standing
<1>7. CASE reader' = "length"
  <2>1. n' = taken' /\ taken' <= digits
    BY <1>1, <1>2, <1>3, <1>5
  <2>2. ASSUME digits < Limit PROVE length' = l \div (Base ^ (digits - taken'))
    <3> DEFINE d == digits - taken'
               p == Base ^ d
    <3>1. d \in 0..Limit /\ d + 1 = digits - taken /\ d = digits - (taken + 1)
      BY <1>1, <1>2, <1>3, <1>5, <2>2, <1>4
    <3>2. taken + 1 \in 1..digits
      BY <1>1, <1>3, <1>5
    <3>3. stream[taken + 1] = (l \div p) % Base
      <4>1. stream[taken + 1] = Numeral[l][taken + 1]
        BY <1>3, <3>2
      <4>2. Numeral[l][taken + 1] = (l \div (Base ^ (digits - (taken + 1)))) % Base
        BY <3>2, NumeralAssumption
      <4> QED BY <4>1, <4>2, <3>1
    <3>4. p \in Nat \ {0} /\ Base ^ (digits - taken) = Base * p
      BY <3>1, PowersAssumption
    <3>5. length = l \div (Base * p)
      BY <1>1, <2>2, <3>4
    <3> HIDE DEF p, d
    <3>6. length' = (l \div (Base * p)) * Base + ((l \div p) % Base)
      BY <1>2, <3>3, <3>5
    <3>7. length' = l \div p
      <4>1. p \in Nat \ {0} /\ Base \in Nat \ {0} /\ l \in Nat
        BY <1>3, <1>4, <3>4
      <4>2. (l \div (Base * p)) * Base + ((l \div p) % Base) = l \div p
        BY <4>1, NextDigit
      <4> QED BY <3>6, <4>2
    <3> QED BY <3>7 DEF p, d
  <2> QED BY <1>7, <2>1, <2>2 DEF Standing
<1> QED BY <1>2, <1>6, <1>7

(* The blank comes after all the digits, and their value is the length.    *)
LEMMA ReadBlankStanding ==
  ASSUME Inv, ReadBlank, NEW l \in Lengths, stream = Frame(l), Standing(l)
  PROVE  Standing(l)'
<1> DEFINE digits == Len(Numeral[l])
<1>1. /\ reader = "length" /\ n = taken /\ taken \in Nat /\ taken <= digits
      /\ digits < Limit => length = l \div (Base ^ (digits - taken))
      /\ n < Limit
  BY LimitAssumption DEF ReadBlank, Standing, Inv, TypeOK, InLength
<1>2. /\ taken' = taken + 1 /\ n' = 0 /\ stream[taken + 1] = Blank /\ length' = length
      /\ reader' = "message"
  BY DEF ReadBlank
<1>3. /\ l \in Nat /\ digits \in Nat \ {0}
      /\ \A i \in 1..digits : stream[i] = Numeral[l][i] /\ Numeral[l][i] < Base
  BY FrameLayout
<1>4. Base \in Nat /\ Limit \in Nat /\ Limit >= 2
  BY BaseAssumption, LimitAssumption
<1>5. taken = digits
  <2>1. ~(taken + 1 \in 1..digits)
    BY <1>2, <1>3, <1>4 DEF Blank
  <2> QED BY <1>1, <1>3, <2>1
<1>6. digits < Limit
  BY <1>1, <1>5
<1>7. length = l
  <2>1. digits - taken = 0 /\ Base ^ 0 = 1
    BY <1>3, <1>5, PowersAssumption
  <2>2. length = l \div 1
    BY <1>1, <1>6, <2>1
  <2> QED BY <1>3, <2>2
<1>8. l < Base ^ (Limit - 1)
  <2>1. ~(digits > Limit - 1) /\ Limit - 1 \in 1..Limit /\ Limit - 1 \in 0..Limit
    BY <1>3, <1>4, <1>6
  <2>2. ~(l >= Base ^ (Limit - 1))
    BY <2>1, NumeralAssumption
  <2>3. Base ^ (Limit - 1) \in Nat
    BY <2>1, PowersAssumption
  <2> QED BY <1>3, <2>2, <2>3
<1>9. Filling'
  BY ReadBlankFills
<1>10. taken' = digits + 1 + n'
  BY <1>2, <1>3, <1>5
<1> QED BY <1>2, <1>7, <1>8, <1>9, <1>10 DEF Standing

(* A byte the frame has not: the reader does not meet it.  The connection  *)
(* ends before the blank only if bytes are missing.                        *)
LEMMA RefusedStanding ==
  ASSUME Inv, ReadOther \/ EndInLength, NEW l \in Lengths, stream = Frame(l), Standing(l)
  PROVE  Standing(l)'
<1> DEFINE digits == Len(Numeral[l])
<1>1. /\ reader = "length" /\ taken \in Nat /\ taken <= digits
      /\ arrived \in Nat
  BY DEF ReadOther, EndInLength, Standing, Inv, TypeOK
<1>2. /\ l \in Nat /\ digits \in Nat \ {0}
      /\ \A i \in 1..digits : stream[i] = Numeral[l][i] /\ Numeral[l][i] \in Nat
                             /\ Numeral[l][i] < Base
      /\ stream[digits + 1] = Blank
      /\ Len(stream) = digits + 1 + l
  <2>1. Numeral[l] \in Seq(Nat)
    BY FrameLayout
  <2>2. \A i \in 1..digits : Numeral[l][i] \in Nat
    BY <2>1, ElementOfSeq
  <2> QED BY <2>2, FrameLayout
<1>3. CASE ReadOther
  <2>1. stream[taken + 1] > Blank
    BY <1>3 DEF ReadOther
  <2> DEFINE next == taken + 1
  <2> HIDE DEF digits
  <2>2. next \in 1..digits \/ next = digits + 1
    <3>1. digits \in Nat /\ taken \in Nat /\ taken <= digits
      BY <1>1, <1>2
    <3>2. taken < digits \/ taken = digits
      BY <3>1
    <3> QED BY <3>1, <3>2
  <2> HIDE DEF next
  <2>3. \/ stream[next] = Numeral[l][next] /\ Numeral[l][next] \in Nat /\ Numeral[l][next] < Base
        \/ stream[next] = Blank
    BY <1>2, <2>2
  <2>4. ~(stream[next] > Base)
    BY <2>3, BaseAssumption DEF Blank
  <2> QED BY <2>1, <2>4 DEF Blank, next
<1>4. CASE EndInLength
  <2>1. reader' = "returned" /\ end' = "closed" /\ taken = arrived
        /\ UNCHANGED <<stream, arrived>>
    BY <1>4 DEF EndInLength, Ended
  <2>2. Lost'
    BY <1>1, <1>2, <2>1 DEF Lost
  <2> QED BY <2>1, <2>2 DEF Standing
<1> QED BY <1>3, <1>4

(* A byte of the message.                                                  *)
LEMMA ReadMessageStanding ==
  ASSUME Inv, ReadMessage, NEW l \in Lengths, stream = Frame(l), Standing(l)
  PROVE  Standing(l)'
<1>1. /\ Filling' /\ taken' - n' = taken - n
      /\ UNCHANGED <<stream, arrived, end, reader, length>>
      /\ TypeOK'
  BY ReadMessageFills
<1>2. reader = "message"
  BY DEF ReadMessage
<1>3. CASE Lost
  BY <1>1, <1>2, <1>3 DEF Standing, Lost
<1>4. CASE Filling /\ taken = Len(Numeral[l]) + 1 + n
  <2>1. Len(Numeral[l]) \in Nat
    BY FrameLayout
  <2>2. taken \in Int /\ n \in Int /\ taken' \in Int /\ n' \in Int
    BY <1>1, WordAssumption DEF Inv, TypeOK
  <2>3. taken' = Len(Numeral[l]) + 1 + n'
    BY <1>1, <1>4, <2>1, <2>2
  <2> QED BY <1>1, <1>2, <2>3 DEF Standing
<1> QED BY <1>2, <1>3, <1>4 DEF Standing

(* A reader that finds the end of the connection in the message has not    *)
(* got all of it.                                                          *)
LEMMA EndedStanding ==
  ASSUME Inv, ReadError \/ EndInMessage, NEW l \in Lengths, stream = Frame(l), Standing(l)
  PROVE  Standing(l)'
<1>1. /\ reader = "message" /\ n < length /\ taken = arrived /\ end # "open" /\ length = l
      /\ l < Base ^ (Limit - 1)
  BY DEF ReadError, EndInMessage, Ended, Standing
<1>2. Lost
  <2>1. /\ Len(stream) = Len(Numeral[l]) + 1 + l /\ Len(Numeral[l]) \in Nat /\ l \in Nat
    BY FrameLayout
  <2>2. taken \in Int /\ n \in Int
    BY WordAssumption DEF Inv, TypeOK
  <2>3. Lost \/ taken = Len(Numeral[l]) + 1 + n
    BY <1>1 DEF Standing
  <2>4. taken = Len(Numeral[l]) + 1 + n => arrived < Len(stream)
    BY <1>1, <2>1, <2>2
  <2> QED BY <1>1, <2>3, <2>4 DEF Lost
<1>3. Lost'
  BY <1>2, LostStays DEF Next, Read, Inv
<1>4. reader' \in {"message", "threw"} /\ length' = length
  BY <1>1 DEF ReadError, EndInMessage
<1> QED BY <1>1, <1>3, <1>4 DEF Standing

(* The loop ends when the message is in the buffer.                        *)
LEMMA ReturnStanding ==
  ASSUME Inv, Return, NEW l \in Lengths, stream = Frame(l), Standing(l)
  PROVE  Standing(l)'
<1>1. /\ reader = "message" /\ n >= length /\ reader' = "returned" /\ length = l
      /\ UNCHANGED <<connection, buffer>>
  BY DEF Return, Standing
<1>2. CASE Lost
  BY <1>1, <1>2 DEF Standing, Lost, connection
<1>3. CASE Filling /\ taken = Len(Numeral[l]) + 1 + n
  <2>1. /\ Len(Numeral[l]) \in Nat /\ l \in Nat
        /\ \A i \in 1..l : stream[Len(Numeral[l]) + 1 + i] = Byte(i)
    BY FrameLayout
  <2>2. n = l /\ Len(buffer) = l
    BY <1>1, <1>3, <2>1, WordAssumption DEF Filling, Inv, TypeOK
  <2>3. taken - n = Len(Numeral[l]) + 1
    BY <1>3, <2>1, <2>2
  <2>4. \A i \in 1..l : buffer[i] = stream[taken - n + i]
    BY <1>3, <2>2 DEF Filling
  <2>5. \A i \in 1..l : buffer[i] = Byte(i)
    BY <2>1, <2>3, <2>4
  <2>6. buffer = Message(l)
    <3>1. Message(l) \in Seq(Nat) /\ Len(Message(l)) = l /\ \A i \in 1..l : Message(l)[i] = Byte(i)
      BY <2>1, BaseAssumption DEF Message, Byte
    <3>2. buffer \in Seq(Nat)
      BY DEF Inv, TypeOK
    <3> QED BY <2>2, <2>5, <3>1, <3>2, SeqEqual
  <2>7. buffer' = Message(l)
    BY <1>1, <2>6
  <2> QED BY <1>1, <2>7 DEF Standing
<1> QED BY <1>1, <1>2, <1>3 DEF Standing

(* A stream once started is of the length it was started with.             *)
LEMMA StepFrame == Inv /\ FrameInv /\ [Next]_vars => FrameInv'
<1> SUFFICES ASSUME Inv, FrameInv, [Next]_vars, NEW l \in sent'
             PROVE  (l \in Lengths /\ stream = Frame(l) /\ Standing(l))'
  BY DEF FrameInv
<1>1. UNCHANGED <<sent, stream>>
  BY DEF Next, Read, vars, connection, Arrive, End, ReadDigit, ReadBlank, ReadOther,
         EndInLength, ReadMessage, ReadError, EndInMessage, Return
<1>2. l \in Lengths /\ stream = Frame(l) /\ Standing(l)
  BY <1>1 DEF FrameInv
<1>3. CASE UNCHANGED vars
  BY <1>2, <1>3 DEF vars, Standing, Lost, Filling, Blank
<1>4. Standing(l)'
  BY <1>2, <1>3, ConnectionStanding, ReadDigitStanding, ReadBlankStanding, RefusedStanding,
     ReadMessageStanding, EndedStanding, ReturnStanding DEF Next, Read
<1> QED BY <1>1, <1>2, <1>4

--------------------------------------------------------------------------------
(* Every step keeps it.                                                    *)
LEMMA StepInv == Inv /\ [Next]_vars => Inv'
<1> SUFFICES ASSUME Inv, [Next]_vars PROVE Inv'
  OBVIOUS
<1>1. CASE UNCHANGED vars
  BY <1>1 DEF vars, Inv, TypeOK, InLength, InMessage, Filling, Failed, NeverCut, Whole,
              Nothing, Blanked, Ended, Zeros
<1> QED
  BY <1>1, ConnectionInv, ReadDigitInv, ReadBlankInv, RefusedInv, ReadMessageInv,
     ReadErrorInv, EndInMessageInv, ReturnInv DEF Next, Read

(* The invariant holds in every reachable state.                           *)
THEOREM AlwaysInv == Spec => []Inv
  BY InitInv, StepInv, PTL DEF Spec

(* Every variable has its type: nothing is read or written past an end.    *)
THEOREM TypeCorrect == Spec => []TypeOK
<1>1. Inv => TypeOK
  BY DEF Inv
<1> QED BY <1>1, AlwaysInv, PTL

(* A message a reader returns is whole, or nothing of it was read          *)
(* (ValidatorServer.cpp:147, RelayServer.cpp:182).                         *)
THEOREM NeverCutHolds == Spec => []NeverCut
<1>1. Inv => NeverCut
  BY DEF Inv
<1> QED BY <1>1, AlwaysInv, PTL

(* Where the reader stands in a message of the protocol, in every          *)
(* reachable state.                                                        *)
THEOREM AlwaysFrame == Spec => []FrameInv
  BY InitFrame, StepFrame, AlwaysInv, PTL DEF Spec

(* A message is refused exactly for the number of its digits               *)
(* (ValidatorServer.cpp:181, RelayServer.cpp:214).                         *)
THEOREM RefusesLongHolds == Spec => []RefusesLong
<1>1. Inv /\ FrameInv => RefusesLong
  <2> SUFFICES ASSUME Inv, NEW l \in sent, l \in Lengths, Standing(l)
               PROVE  /\ reader = "refused" => l >= Base ^ (Limit - 1)
                      /\ reader \in {"message", "threw"} =>
                           l < Base ^ (Limit - 1) /\ length = l
    BY DEF FrameInv, RefusesLong
  <2>1. l \in Nat /\ Base ^ (Limit - 1) \in Nat
    <3>1. Limit - 1 \in 0..Limit
      BY LimitAssumption
    <3> QED BY <3>1, LengthsAssumption, PowersAssumption
  <2>2. ~(l < Base ^ (Limit - 1)) => l >= Base ^ (Limit - 1)
    BY <2>1
  <2> QED BY <2>2 DEF Standing
<1> QED BY <1>1, AlwaysInv, AlwaysFrame, PTL

(* A message that has come in is returned as it was sent or still being    *)
(* read (ValidatorServer.cpp:152, 167, RelayServer.cpp:187, 201).          *)
THEOREM UndamagedHolds == Spec => []Undamaged
<1>1. Inv /\ FrameInv => Undamaged
  <2> SUFFICES ASSUME Inv, NEW l \in sent, Standing(l), l < Base ^ (Limit - 1),
                      arrived = Len(stream)
               PROVE  \/ reader \in {"length", "message"}
                      \/ reader = "returned" /\ buffer = Message(l)
    BY DEF FrameInv, Undamaged
  <2>1. ~Lost
    BY DEF Lost, Inv, TypeOK
  <2>2. reader \in {"length", "message", "returned", "refused", "threw"}
    BY DEF Inv, TypeOK, Outcomes
  <2> QED BY <2>1, <2>2 DEF Standing
<1> QED BY <1>1, AlwaysInv, AlwaysFrame, PTL

(* A reader never blocks on a connection that is closed or brought a whole *)
(* message (ValidatorServer.cpp:150, 167; RelayServer.cpp:185, 201).       *)
THEOREM WaitsForMoreHolds == Spec => []WaitsForMore
<1>1. Inv /\ FrameInv => WaitsForMore
  <2> SUFFICES ASSUME Inv, FrameInv, reader \in {"length", "message"}, ~CanRead
               PROVE  /\ end = "open" /\ taken = arrived
                      /\ sent # {} => arrived < Len(stream)
    BY DEF WaitsForMore, Inv, TypeOK
  <2>1. end = "open" /\ taken = arrived /\ (reader = "message" => ~(n >= length))
    BY DEF CanRead, Pending, Ended, Inv, TypeOK
  <2>2. ASSUME NEW l \in sent PROVE arrived < Len(stream)
    <3>1. l \in Lengths /\ stream = Frame(l) /\ Standing(l)
      BY DEF FrameInv
    <3>2. Len(stream) = Len(Numeral[l]) + 1 + l /\ l \in Nat /\ Len(Numeral[l]) \in Nat
      BY <3>1, FrameLayout
    <3>3. CASE reader = "length"
      BY <2>1, <3>1, <3>2, <3>3 DEF Standing, Inv, TypeOK
    <3>4. CASE reader = "message"
      <4>1. length = l /\ n < l /\ ~Lost
        BY <2>1, <3>1, <3>2, <3>4 DEF Standing, Lost, Inv, TypeOK
      <4>2. taken = Len(Numeral[l]) + 1 + n
        BY <3>1, <3>4, <4>1 DEF Standing
      <4> QED BY <2>1, <3>2, <4>1, <4>2 DEF Inv, TypeOK
    <3> QED BY <3>3, <3>4
  <2> QED BY <2>1, <2>2
<1> QED BY <1>1, AlwaysInv, AlwaysFrame, PTL

(* What is left to read is a number.                                       *)
LEMMA LeftType ==
  ASSUME TypeOK
  PROVE  /\ Len(stream) \in Nat /\ taken \in Nat /\ taken <= Len(stream)
         /\ EndLeft \in {0, 1} /\ ReturnLeft \in {0, 1} /\ ReadsLeft \in Nat
<1>1. Len(stream) \in Nat /\ taken \in Nat /\ taken <= Len(stream)
  BY DEF TypeOK
<1>2. EndLeft \in {0, 1} /\ ReturnLeft \in {0, 1}
  BY DEF EndLeft, ReturnLeft
<1> QED BY <1>1, <1>2 DEF ReadsLeft

(* Every step of a reader takes of what is left to read.                   *)
LEMMA ReadTakes ==
  ASSUME Inv, Read
  PROVE  ReadsLeft' < ReadsLeft
<1>1. /\ Len(stream) \in Nat /\ taken \in Nat /\ taken <= Len(stream)
      /\ EndLeft \in {0, 1} /\ ReturnLeft \in {0, 1}
  BY LeftType DEF Inv
<1>2. taken' \in Nat /\ EndLeft' \in {0, 1} /\ ReturnLeft' \in {0, 1}
  <2>1. TypeOK'
    BY StepInv DEF Inv, Next
  <2> QED BY <2>1, LeftType DEF TypeOK, EndLeft, ReturnLeft
<1>3. stream' = stream
  BY DEF Read, ReadDigit, ReadBlank, ReadOther, EndInLength, ReadMessage, ReadError,
         EndInMessage, Return, connection
<1>4. EndLeft' <= EndLeft /\ ReturnLeft' <= ReturnLeft /\ taken' >= taken
  <2>1. CASE ReadDigit \/ ReadBlank \/ ReadOther
    BY <1>1, <1>2, <2>1 DEF ReadDigit, ReadBlank, ReadOther, connection, EndLeft, ReturnLeft,
                            Outcomes
  <2>2. CASE ReadMessage
    <3>1. Smaller(length - n, arrived - taken) \in Nat
      BY <2>2 DEF ReadMessage, Pending, Smaller, Inv, TypeOK
    <3> QED BY <1>1, <1>2, <2>2, <3>1 DEF ReadMessage, connection, EndLeft, ReturnLeft
  <2>3. CASE EndInLength \/ ReadError \/ EndInMessage \/ Return
    BY <1>1, <1>2, <2>3 DEF EndInLength, ReadError, EndInMessage, Return, connection, EndLeft,
                            ReturnLeft, Outcomes
  <2> QED BY <2>1, <2>2, <2>3 DEF Read
<1>5. EndLeft' < EndLeft \/ ReturnLeft' < ReturnLeft \/ taken' > taken
  <2>1. CASE ReadDigit \/ ReadBlank \/ ReadOther
    BY <1>1, <2>1 DEF ReadDigit, ReadBlank, ReadOther
  <2>2. CASE ReadMessage
    <3>1. Smaller(length - n, arrived - taken) \in Nat
          /\ Smaller(length - n, arrived - taken) > 0
      BY <2>2 DEF ReadMessage, Pending, Smaller, Inv, TypeOK
    <3> QED BY <1>1, <2>2, <3>1 DEF ReadMessage
  <2>3. CASE ReadError
    BY <2>3 DEF ReadError, EndLeft
  <2>4. CASE EndInLength \/ EndInMessage \/ Return
    BY <2>4 DEF EndInLength, EndInMessage, Return, ReturnLeft, Outcomes
  <2> QED BY <2>1, <2>2, <2>3, <2>4 DEF Read
<1> HIDE DEF EndLeft, ReturnLeft
<1> QED BY <1>1, <1>2, <1>3, <1>4, <1>5 DEF ReadsLeft

(* Nothing that becomes of the connection adds to it.                      *)
LEMMA ConnectionTakes ==
  ASSUME TypeOK, Arrive \/ End
  PROVE  ReadsLeft' <= ReadsLeft
<1>1. /\ Len(stream) \in Nat /\ taken \in Nat
      /\ EndLeft \in {0, 1} /\ ReturnLeft \in {0, 1}
  BY LeftType
<1>2. UNCHANGED <<stream, taken, reader>> /\ end = "open"
  BY DEF Arrive, End
<1>3. EndLeft = 1 /\ EndLeft' \in {0, 1} /\ ReturnLeft' = ReturnLeft
  BY <1>2 DEF EndLeft, ReturnLeft
<1> QED BY <1>1, <1>2, <1>3 DEF ReadsLeft

(* Every read takes of what is left, and nothing adds to it, so the loops  *)
(* end (ValidatorServer.cpp:152, 167; RelayServer.cpp:187, 201).           *)
THEOREM ReadsEndHolds == Spec => ReadsEnd
<1>1. Inv /\ [Next]_vars =>
        [ReadsLeft' <= ReadsLeft /\ (Read => ReadsLeft' < ReadsLeft)]_vars
  <2> SUFFICES ASSUME Inv, Next
               PROVE  ReadsLeft' <= ReadsLeft /\ (Read => ReadsLeft' < ReadsLeft)
    OBVIOUS
  <2>1. ReadsLeft \in Nat /\ ReadsLeft' \in Nat
    <3>1. TypeOK /\ TypeOK'
      BY StepInv DEF Inv
    <3>2. ReadsLeft' \in Nat
      <4>1. Len(stream') \in Nat /\ taken' \in Nat /\ taken' <= Len(stream')
        BY <3>1 DEF TypeOK
      <4>2. EndLeft' \in {0, 1} /\ ReturnLeft' \in {0, 1}
        BY DEF EndLeft, ReturnLeft
      <4> QED BY <4>1, <4>2 DEF ReadsLeft
    <3> QED BY <3>1, <3>2, LeftType
  <2>2. CASE Arrive \/ End
    BY <2>2, ConnectionTakes, ReadTakes DEF Inv
  <2>3. CASE Read
    BY <2>1, <2>3, ReadTakes
  <2> QED BY <2>2, <2>3 DEF Next
<1> QED BY <1>1, AlwaysInv, PTL DEF Spec, ReadsEnd
================================================================================
