--------------------------- MODULE RequestFilesProofs ---------------------------
(***************************************************************************)
(* Proofs about the files of the handlers, for any number of requests and  *)
(* any hashes.  The argument: whoever owns a file was started and has the  *)
(* hash of its name, so under a hash nobody shares there is only what its  *)
(* own request put there, and that follows from where the handler stands.  *)
(***************************************************************************)
EXTENDS RequestFiles, TLAPS

(* An owner of a file has its hash, and was started.                       *)
OwnersStarted ==
  \A n \in Names, k \in Kinds, l \in Langs : \A d \in Requests :
    file[n][k][l] = d => Started(d) /\ name[d] = n

Files(c, sources, irs) == FilesOf(c, "src") = sources /\ FilesOf(c, "ir") = irs

(* The files and the outcome of an unshared request, by where its handler  *)
(* stands.                                                                 *)
Standing(c) ==
  LET done == IF lang[c] = "cpp" THEN {} ELSE {"cpp"}
      todo == IF lang[c] = "cpp" THEN Langs ELSE {"rust"}
  IN  /\ at[c] = "idle" => Files(c, {}, {}) /\ outcome[c] = "none"
      /\ at[c] = "write" =>
           /\ IF command[c] = "VALIDATE" THEN Files(c, {}, done) ELSE Files(c, done, {})
           /\ outcome[c] = "none"
      /\ at[c] = "parse" => Files(c, {}, Langs) /\ outcome[c] \in {"none", "unparsable"}
      /\ at[c] = "compile" => Files(c, Langs, done) /\ outcome[c] = "none"
      /\ at[c] \in {"open", "measure", "read"} =>
           Files(c, Langs, Langs) /\ outcome[c] = "none"
      /\ at[c] = "unlink src" =>
           Files(c, todo, Langs) /\ outcome[c] \in {"irs", "too long"}
      /\ at[c] = "unlink ir" =>
           Files(c, {}, todo) /\ outcome[c] \in {"irs", "too long", "verdict"}

Left(c) ==
  /\ outcome[c] \in {"verdict", "irs", "too long"} => Files(c, {}, {})
  /\ outcome[c] = "unparsable" => Files(c, {}, Langs)
  /\ outcome[c] = "compile error" => FilesOf(c, "src") = Langs
  /\ outcome[c] = "too big" => Files(c, Langs, Langs)

(* The streams are open on the handler's own IRs.                          *)
Streams(c) ==
  /\ at[c] = "open" /\ lang[c] = "rust" => opened[c]["cpp"] = c
  /\ at[c] \in {"measure", "read"} => opened[c]["cpp"] = c /\ opened[c]["rust"] = c

Private(c) ==
  /\ Standing(c)
  /\ at[c] = "end" => Left(c)
  /\ Streams(c)
  /\ seen[c] \subseteq {c}

Inv == TypeOK /\ OwnersStarted /\ \A c \in Requests : ~Shared(c) => Private(c)

--------------------------------------------------------------------------------
Handle(c, l) ==
  \/ Write(c, l) \/ Parse(c, l) \/ Compile(c, l) \/ Open(c, l) \/ Measure(c, l)
  \/ Read(c, l) \/ Unlink(c, l)

Step(c) == Begin(c) \/ Die(c) \/ \E l \in Langs : Handle(c, l)

(* The handler of c changes its own state and files of its own hash.       *)
Touches(c) ==
  /\ UNCHANGED request
  /\ at[c] # "end" /\ at'[c] # "idle"
  /\ \A d \in Requests \ {c} :
       /\ at'[d] = at[d] /\ lang'[d] = lang[d] /\ opened'[d] = opened[d]
       /\ outcome'[d] = outcome[d] /\ seen'[d] = seen[d]
  /\ \A n \in Names \ {name[c]} : file'[n] = file[n]

FileType == [Names -> [Kinds -> [Langs -> Owners]]]

(* A file has an owner or none.                                            *)
LEMMA FileOwner ==
  ASSUME file \in FileType, NEW n \in Names, NEW k \in Kinds, NEW l \in Langs
  PROVE  file[n][k][l] \in Owners
<1>1. file[n] \in [Kinds -> [Langs -> Owners]]
  BY DEF FileType
<1>2. file[n][k] \in [Langs -> Owners]
  BY <1>1
<1> QED BY <1>2

(* A file that is put is the only one that changes.                        *)
LEMMA PutOne ==
  ASSUME file \in FileType, name \in [Requests -> Names], NEW c \in Requests,
         NEW k \in Kinds, NEW l \in Langs, NEW owner \in Owners, Put(c, k, l, owner)
  PROVE  /\ file' \in FileType
         /\ \A n \in Names, j \in Kinds, m \in Langs :
              file'[n][j][m] = IF n = name[c] /\ j = k /\ m = l THEN owner
                                                                ELSE file[n][j][m]
<1> DEFINE new == [file[name[c]] EXCEPT ![k][l] = owner]
<1>1. name[c] \in Names /\ file[name[c]] \in [Kinds -> [Langs -> Owners]]
  BY DEF FileType
<1>2. file[name[c]][k] \in [Langs -> Owners]
  BY <1>1
<1>3. new \in [Kinds -> [Langs -> Owners]]
  BY <1>1, <1>2
<1>4. \A j \in Kinds, m \in Langs :
        new[j][m] = IF j = k /\ m = l THEN owner ELSE file[name[c]][j][m]
  BY <1>1, <1>2
<1>5. file' = [file EXCEPT ![name[c]] = new]
  BY DEF Put
<1> HIDE DEF new
<1> QED BY <1>1, <1>3, <1>4, <1>5 DEF FileType

(* What a handler has seen so far stays a set of owners.                   *)
LEMMA SeesOwner ==
  ASSUME seen \in [Requests -> SUBSET Owners], NEW c, NEW owner \in Owners,
         seen' = [seen EXCEPT ![c] = seen[c] \cup {owner}]
  PROVE  seen' \in [Requests -> SUBSET Owners]
<1>1. c \in Requests => seen[c] \cup {owner} \in SUBSET Owners
  OBVIOUS
<1> QED BY <1>1

(* Every step keeps the types.                                             *)
LEMMA TypeStep ==
  ASSUME TypeOK, [Next]_vars
  PROVE  TypeOK'
<1> DEFINE Rest ==
      /\ command \in [Requests -> {"VALIDATE", "GENERATE"}]
      /\ name \in [Requests -> Names]
      /\ big \in [Requests -> SUBSET Langs]
      /\ long \in [Requests -> SUBSET Langs]
      /\ at \in [Requests -> Steps]
      /\ lang \in [Requests -> Langs]
      /\ opened \in [Requests -> [Langs -> Owners]]
      /\ outcome \in [Requests -> Outcomes]
      /\ seen \in [Requests -> SUBSET Owners]
<1>0. (Rest /\ file \in FileType <=> TypeOK) /\ (Rest' /\ file' \in FileType => TypeOK')
  BY DEF TypeOK, FileType
<1> USE DEF Langs, Kinds, Steps, Outcomes, Goto, Outcome, Return, Sees, Proceed, Doing,
            request
<1>1. CASE UNCHANGED vars
  BY <1>1 DEF vars, TypeOK
<1>2. ASSUME NEW c \in Requests, Begin(c) \/ Die(c)
      PROVE  TypeOK'
  BY <1>2 DEF Begin, Die, TypeOK
<1>3. ASSUME NEW c \in Requests, NEW l \in Langs, Handle(c, l)
      PROVE  TypeOK'
  <2>1. \A k \in Kinds : file[name[c]][k][l] \in Owners
    BY <1>0, FileOwner
  <2>2. c \in Owners /\ "absent" \in Owners
    BY DEF Owners
  <2>3. \A k \in Kinds, owner \in Owners : Put(c, k, l, owner) => file' \in FileType
    <3> SUFFICES ASSUME NEW k \in Kinds, NEW owner \in Owners, Put(c, k, l, owner)
                 PROVE  file' \in FileType
      OBVIOUS
    <3>1. file \in FileType /\ name \in [Requests -> Names]
      BY <1>0
    <3> HIDE DEF Kinds, Langs
    <3> QED BY <3>1, PutOne
  <2>4. UNCHANGED file => file' \in FileType
    BY <1>0
  <2>5. opened[c][l] \in Owners
    <3>1. opened[c] \in [Langs -> Owners]
      BY DEF TypeOK
    <3> QED BY <3>1
  <2>6. CASE Write(c, l)
    BY <1>0, <2>2, <2>3, <2>6 DEF Write
  <2>7. CASE Parse(c, l)
    <3> DEFINE owner == file[name[c]]["ir"][l]
    <3>1. owner \in Owners
      BY <2>1
    <3>2. file' \in FileType
      BY <2>4, <2>7 DEF Parse
    <3>3. /\ seen' = [seen EXCEPT ![c] = seen[c] \cup {owner}]
          /\ UNCHANGED <<request, opened>>
      BY <2>7 DEF Parse
    <3>4. seen' \in [Requests -> SUBSET Owners]
      <4> HIDE DEF owner
      <4> QED BY <1>0, <3>1, <3>3, SeesOwner
    <3>5. at' \in [Requests -> Steps] /\ lang' \in [Requests -> Langs]
      <4>1. at \in [Requests -> Steps] /\ lang \in [Requests -> Langs]
        BY <1>0
      <4>2. \E step \in Steps, m \in Langs : Goto(c, step, m)
        BY <2>7 DEF Parse
      <4> QED BY <4>1, <4>2
    <3>6. outcome' \in [Requests -> Outcomes]
      BY <1>0, <2>7 DEF Parse
    <3>7. Rest'
      BY <1>0, <3>3, <3>4, <3>5, <3>6
    <3> QED BY <1>0, <3>2, <3>7
  <2>8. CASE Compile(c, l)
    <3> DEFINE owner == file[name[c]]["src"][l]
    <3>1. owner \in Owners
      BY <2>1
    <3>2. file' \in FileType
      BY <2>3, <2>4, <2>8, <3>1 DEF Compile
    <3>3. /\ seen' = [seen EXCEPT ![c] = seen[c] \cup {owner}]
          /\ UNCHANGED <<request, opened>>
          /\ \/ Proceed(c, "compile", l, "open") /\ UNCHANGED outcome
             \/ Return(c, "compile error")
      BY <2>8 DEF Compile
    <3>4. seen' \in [Requests -> SUBSET Owners]
      <4> HIDE DEF owner
      <4> QED BY <1>0, <3>1, <3>3, SeesOwner
    <3>5. at' \in [Requests -> Steps] /\ lang' \in [Requests -> Langs]
      BY <1>0, <3>3
    <3>6. outcome' \in [Requests -> Outcomes]
      BY <1>0, <3>3
    <3>7. Rest'
      BY <1>0, <3>3, <3>4, <3>5, <3>6
    <3> QED BY <1>0, <3>2, <3>7
  <2>9. CASE Open(c, l)
    <3>1. file' \in FileType
      BY <2>4, <2>9 DEF Open
    <3>2. opened' \in [Requests -> [Langs -> Owners]]
      <4> DEFINE new == [opened[c] EXCEPT ![l] = file[name[c]]["ir"][l]]
      <4>1. new \in [Langs -> Owners]
        BY <1>0, <2>1
      <4>2. opened' = [opened EXCEPT ![c] = new]
        BY <2>9 DEF Open
      <4> HIDE DEF new
      <4> QED BY <1>0, <4>1, <4>2
    <3>3. at' \in [Requests -> Steps] /\ lang' \in [Requests -> Langs]
      BY <1>0, <2>9 DEF Open
    <3>4. UNCHANGED <<request, outcome, seen>>
      BY <2>9 DEF Open
    <3>5. Rest'
      BY <1>0, <3>2, <3>3, <3>4
    <3> QED BY <1>0, <3>1, <3>5
  <2>10. CASE Measure(c, l)
    <3>1. UNCHANGED <<request, opened, seen, file>>
      BY <2>10 DEF Measure
    <3>2. \/ Return(c, "died") \/ Return(c, "too big")
          \/ Proceed(c, "measure", l, "read") /\ UNCHANGED outcome
      BY <2>10 DEF Measure
    <3>3. /\ at' \in [Requests -> Steps] /\ lang' \in [Requests -> Langs]
          /\ outcome' \in [Requests -> Outcomes]
      BY <1>0, <3>2
    <3> QED BY <1>0, <2>4, <3>1, <3>3
  <2>11. CASE Read(c, l)
    <3>1. UNCHANGED <<request, opened, file>>
          /\ seen' = [seen EXCEPT ![c] = seen[c] \cup {opened[c][l]}]
      BY <2>11 DEF Read
    <3>2. seen' \in [Requests -> SUBSET Owners]
      BY <1>0, <2>5, <3>1, SeesOwner
    <3>3. at' \in [Requests -> Steps] /\ lang' \in [Requests -> Langs]
      <4>1. at \in [Requests -> Steps] /\ lang \in [Requests -> Langs]
        BY <1>0
      <4>2. \E step \in Steps, m \in Langs : Goto(c, step, m)
        BY <2>11 DEF Read
      <4> QED BY <4>1, <4>2
    <3>4. outcome' \in [Requests -> Outcomes]
      <4>1. outcome \in [Requests -> Outcomes]
        BY <1>0
      <4>2. (\E what \in Outcomes : Outcome(c, what)) \/ UNCHANGED outcome
        BY <2>11 DEF Read
      <4> QED BY <4>1, <4>2
    <3> QED BY <1>0, <2>4, <3>1, <3>2, <3>3, <3>4
  <2>12. CASE Unlink(c, l)
    BY <1>0, <2>2, <2>3, <2>12 DEF Unlink
  <2> QED BY <1>3, <2>6, <2>7, <2>8, <2>9, <2>10, <2>11, <2>12 DEF Handle
<1> QED BY <1>1, <1>2, <1>3 DEF Next, Handle

(* A step is a stutter or the step of one handler.                         *)
LEMMA StepOrStutter ==
  ASSUME [Next]_vars
  PROVE  UNCHANGED vars \/ \E c \in Requests : Step(c)
  BY DEF Next, Step, Handle

(* A handler changes the files in its own name at most.                    *)
LEMMA FilesElsewhere ==
  ASSUME TypeOK, NEW c \in Requests, Step(c)
  PROVE  \A n \in Names \ {name[c]} : file'[n] = file[n]
<1>1. \/ UNCHANGED file
      \/ \E k \in Kinds, l \in Langs : \E owner : Put(c, k, l, owner)
  BY DEF Step, Handle, Begin, Die, Write, Parse, Compile, Open, Measure, Read, Unlink, Kinds
<1> QED BY <1>1 DEF Put, TypeOK

(* A handler touches nothing of another hash.                              *)
LEMMA StepTouches ==
  ASSUME TypeOK, NEW c \in Requests, Step(c)
  PROVE  Touches(c)
<1>1. \A n \in Names \ {name[c]} : file'[n] = file[n]
  BY FilesElsewhere
<1>2. /\ at \in [Requests -> Steps] /\ lang \in [Requests -> Langs]
      /\ opened \in [Requests -> [Langs -> Owners]]
      /\ outcome \in [Requests -> Outcomes] /\ seen \in [Requests -> SUBSET Owners]
  BY DEF TypeOK
<1> USE <1>1, <1>2 DEF Touches, Goto, Outcome, Return, Sees, Proceed, Doing, request
<1>3. CASE Begin(c) \/ Die(c)
  BY <1>3 DEF Begin, Die, Active
<1>4. ASSUME NEW l \in Langs, Handle(c, l)
      PROVE  Touches(c)
  <2>1. CASE Write(c, l)
    BY <2>1 DEF Write
  <2>2. CASE Parse(c, l)
    BY <2>2 DEF Parse
  <2>3. CASE Compile(c, l)
    BY <2>3 DEF Compile
  <2>4. CASE Open(c, l)
    BY <2>4 DEF Open
  <2>5. CASE Measure(c, l)
    BY <2>5 DEF Measure
  <2>6. CASE Read(c, l)
    BY <2>6 DEF Read
  <2>7. CASE Unlink(c, l)
    BY <2>7 DEF Unlink
  <2> QED BY <1>4, <2>1, <2>2, <2>3, <2>4, <2>5, <2>6, <2>7 DEF Handle
<1> QED BY <1>3, <1>4 DEF Step

(* Who shares a hash shares it from then on.                               *)
LEMMA SharedForGood ==
  ASSUME TypeOK, NEW c \in Requests, Step(c), NEW d \in Requests, Shared(d)
  PROVE  Shared(d)'
<1>1. Touches(c)
  BY StepTouches
<1>2. PICK e \in Requests \ {d} : Started(e) /\ name[e] = name[d]
  BY DEF Shared
<1>3. Started(e)'
  BY <1>1, <1>2 DEF Touches, Started
<1>4. name' = name
  BY <1>1 DEF Touches, request
<1> QED BY <1>2, <1>3, <1>4 DEF Shared

(* Nothing of an unshared request changes in the step of another.          *)
LEMMA OthersUntouched ==
  ASSUME TypeOK, NEW c \in Requests, Step(c),
         NEW d \in Requests, c # d, ~Shared(d)'
  PROVE  /\ UNCHANGED <<request, at[d], lang[d], opened[d], outcome[d], seen[d]>>
         /\ \A k \in Kinds, l \in Langs : file'[name[d]][k][l] = file[name[d]][k][l]
         /\ \A k \in Kinds : FilesOf(d, k)' = FilesOf(d, k)
<1>1. Touches(c)
  BY StepTouches
<1>2. name' = name /\ UNCHANGED request
  BY <1>1 DEF Touches, request
<1>3. name[c] # name[d]
  BY <1>1, <1>2 DEF Touches, Shared, Started
<1>4. \A k \in Kinds, l \in Langs : file'[name[d]][k][l] = file[name[d]][k][l]
  BY <1>1, <1>3 DEF Touches, TypeOK
<1>5. \A k \in Kinds : FilesOf(d, k)' = FilesOf(d, k)
  BY <1>2, <1>4 DEF FilesOf
<1> QED BY <1>1, <1>2, <1>4, <1>5 DEF Touches

(* What a write, a compiler or an unlink does to the files of a hash.      *)
LEMMA PutFiles ==
  ASSUME TypeOK, NEW c \in Requests, NEW k \in Kinds, NEW l \in Langs,
         NEW owner \in Owners, Put(c, k, l, owner), name' = name
  PROVE  /\ FilesOf(c, k)' = IF owner = "absent" THEN FilesOf(c, k) \ {l}
                                                ELSE FilesOf(c, k) \cup {l}
         /\ \A j \in Kinds \ {k} : FilesOf(c, j)' = FilesOf(c, j)
  BY DEF Put, FilesOf, TypeOK

(* No file has an owner of another hash.                                   *)
LEMMA OwnersStep ==
  ASSUME TypeOK, OwnersStarted, NEW c \in Requests, Step(c)
  PROVE  OwnersStarted'
<1>1. Touches(c) /\ name' = name
  BY StepTouches DEF Touches, request
<1>2. \A d \in Requests : Started(d) => Started(d)'
  BY <1>1 DEF Touches, Started
<1>3. CASE UNCHANGED file
  BY <1>1, <1>2, <1>3 DEF OwnersStarted
<1>4. ASSUME NEW k \in Kinds, NEW l \in Langs, NEW owner \in Owners, Put(c, k, l, owner),
             owner \in Requests => Started(owner)' /\ name[owner] = name[c]
      PROVE  OwnersStarted'
  <2>1. \A n \in Names, j \in Kinds, m \in Langs :
          file'[n][j][m] = IF n = name[c] /\ j = k /\ m = l THEN owner
                                                            ELSE file[n][j][m]
    BY <1>4, PutOne DEF TypeOK, FileType
  <2> QED BY <1>1, <1>2, <1>4, <2>1 DEF OwnersStarted
<1>5. Started(c)'
  BY <1>1 DEF Touches, Started
<1>6. "absent" \notin Requests
  BY AbsentAssumption
<1>7. ASSUME NEW l \in Langs, Handle(c, l)
      PROVE  OwnersStarted'
  <2>1. CASE Write(c, l)
    BY <2>1, <1>4, <1>5 DEF Write, Kinds, Owners
  <2>2. CASE Compile(c, l)
    <3>1. file[name[c]]["src"][l] \in Owners
      BY FileOwner DEF TypeOK, FileType, Kinds
    <3>2. PICK owner \in Owners : owner = file[name[c]]["src"][l]
      BY <3>1
    <3>3. owner \in Requests => Started(owner)' /\ name[owner] = name[c]
      <4>1. name[c] \in Names /\ "src" \in Kinds
        BY DEF TypeOK, Kinds
      <4> QED BY <3>2, <4>1, <1>2 DEF OwnersStarted
    <3>4. Put(c, "ir", l, owner) \/ UNCHANGED file
      BY <2>2, <3>2 DEF Compile
    <3> QED BY <3>3, <3>4, <1>3, <1>4 DEF Kinds
  <2>3. CASE Unlink(c, l)
    BY <2>3, <1>4, <1>6 DEF Unlink, Kinds, Owners
  <2>4. CASE Parse(c, l) \/ Open(c, l) \/ Measure(c, l) \/ Read(c, l)
    BY <2>4, <1>3 DEF Parse, Open, Measure, Read
  <2> QED BY <1>7, <2>1, <2>2, <2>3, <2>4 DEF Handle
<1>8. CASE Begin(c) \/ Die(c)
  BY <1>8, <1>3 DEF Begin, Die
<1> QED BY <1>7, <1>8 DEF Step

(* Under a hash of its own a handler finds nothing but its own files.      *)
LEMMA OwnFiles ==
  ASSUME TypeOK, OwnersStarted, NEW c \in Requests, ~Shared(c),
         NEW k \in Kinds, NEW l \in Langs
  PROVE  /\ file[name[c]][k][l] \in {c, "absent"}
         /\ file[name[c]][k][l] = c <=> l \in FilesOf(c, k)
<1> DEFINE owner == file[name[c]][k][l]
<1>1. name[c] \in Names /\ file \in FileType
  BY DEF TypeOK, FileType
<1>2. owner \in Owners
  BY <1>1, FileOwner
<1>3. owner \in Requests => Started(owner) /\ name[owner] = name[c]
  BY <1>1 DEF OwnersStarted
<1>4. l \in FilesOf(c, k) <=> owner # "absent"
  BY DEF FilesOf
<1> HIDE DEF owner
<1>5. owner \in {c, "absent"}
  BY <1>2, <1>3 DEF Shared, Owners
<1>6. c # "absent"
  BY AbsentAssumption
<1>7. owner = c <=> l \in FilesOf(c, k)
  BY <1>4, <1>5, <1>6
<1> QED BY <1>5, <1>7 DEF owner

(* A step of an unshared handler takes it to where its files say it is.    *)
LEMMA OwnStep ==
  ASSUME TypeOK, OwnersStarted, NEW c \in Requests, Step(c), ~Shared(c), Private(c)
  PROVE  Private(c)'
<1>1. name' = name /\ command' = command
  BY StepTouches DEF Touches, request
<1>2. \A k \in Kinds, l \in Langs :
        /\ file[name[c]][k][l] \in {c, "absent"}
        /\ file[name[c]][k][l] = c <=> l \in FilesOf(c, k)
  BY OwnFiles
<1>3. UNCHANGED file => \A k \in Kinds : FilesOf(c, k)' = FilesOf(c, k)
  BY <1>1 DEF FilesOf
<1>4. \A k \in Kinds, l \in Langs, owner \in Owners : Put(c, k, l, owner) =>
        /\ FilesOf(c, k)' = IF owner = "absent" THEN FilesOf(c, k) \ {l}
                                               ELSE FilesOf(c, k) \cup {l}
        /\ \A j \in Kinds \ {k} : FilesOf(c, j)' = FilesOf(c, j)
  BY <1>1, PutFiles
<1>5. c \in Owners /\ "absent" \in Owners /\ c # "absent"
  BY AbsentAssumption DEF Owners
<1>6. /\ at \in [Requests -> Steps] /\ lang \in [Requests -> Langs]
      /\ opened \in [Requests -> [Langs -> Owners]]
      /\ outcome \in [Requests -> Outcomes] /\ seen \in [Requests -> SUBSET Owners]
      /\ command[c] \in {"VALIDATE", "GENERATE"}
  BY DEF TypeOK
<1> USE DEF Private, Standing, Left, Streams, Files, Langs, Kinds, Goto, Outcome, Return,
            Sees, Proceed, Doing
<1>7. CASE Begin(c)
  BY <1>1, <1>3, <1>6, <1>7 DEF Begin
<1>8. CASE Die(c)
  BY <1>1, <1>3, <1>6, <1>8 DEF Die, Active
<1>9. ASSUME NEW l \in Langs, Handle(c, l)
      PROVE  Private(c)'
  <2>1. CASE Write(c, l)
    <3>1. PICK k \in Kinds :
            Put(c, k, l, c) /\ k = IF command[c] = "VALIDATE" THEN "ir" ELSE "src"
      BY <2>1, <1>6 DEF Write
    <3>2. /\ FilesOf(c, k)' = FilesOf(c, k) \cup {l}
          /\ \A j \in Kinds \ {k} : FilesOf(c, j)' = FilesOf(c, j)
      <4> HIDE DEF Kinds, Langs
      <4> QED BY <3>1, <1>4, <1>5
    <3>3. /\ at[c] = "write" /\ lang[c] = l /\ outcome'[c] = outcome[c]
          /\ opened'[c] = opened[c] /\ seen'[c] = seen[c]
          /\ l = "cpp" => at'[c] = "write" /\ lang'[c] = "rust"
          /\ l = "rust" => /\ at'[c] = IF k = "ir" THEN "parse" ELSE "compile"
                           /\ lang'[c] = "cpp"
      BY <2>1, <3>1, <1>6 DEF Write
    <3>4. Files(c, IF k = "ir" THEN {} ELSE IF l = "cpp" THEN {} ELSE {"cpp"},
                   IF k = "src" THEN {} ELSE IF l = "cpp" THEN {} ELSE {"cpp"})
          /\ outcome[c] = "none" /\ seen[c] \subseteq {c}
      BY <3>1, <3>3
    <3> QED BY <3>1, <3>2, <3>3, <3>4, <1>1
  <2>2. CASE Parse(c, l)
    <3>1. /\ at[c] = "parse" /\ lang[c] = l
          /\ opened'[c] = opened[c] /\ seen'[c] = seen[c] \cup {file[name[c]]["ir"][l]}
          /\ \A k \in Kinds : FilesOf(c, k)' = FilesOf(c, k)
      BY <2>2, <1>3, <1>6 DEF Parse
    <3>2. Files(c, {}, Langs) /\ file[name[c]]["ir"][l] = c
      BY <3>1, <1>2
    <3>3. \/ at'[c] = "parse" /\ outcome'[c] \in {outcome[c], "unparsable"}
          \/ at'[c] = "unlink ir" /\ lang'[c] = "cpp" /\ outcome'[c] = "verdict"
          \/ at'[c] = "end" /\ outcome'[c] = "unparsable"
      BY <2>2, <3>2, <1>5, <1>6 DEF Parse
    <3> QED BY <3>1, <3>2, <3>3, <1>1
  <2>3. CASE Compile(c, l)
    <3>1. /\ at[c] = "compile" /\ lang[c] = l
          /\ opened'[c] = opened[c] /\ seen'[c] = seen[c] \cup {file[name[c]]["src"][l]}
      BY <2>3, <1>6 DEF Compile
    <3>2. FilesOf(c, "src") = Langs /\ file[name[c]]["src"][l] = c
      BY <3>1, <1>2
    <3>3. \/ /\ Put(c, "ir", l, c) /\ outcome'[c] = outcome[c]
             /\ l = "cpp" => at'[c] = "compile" /\ lang'[c] = "rust"
             /\ l = "rust" => at'[c] = "open" /\ lang'[c] = "cpp"
          \/ /\ Put(c, "ir", l, c) \/ UNCHANGED file
             /\ at'[c] = "end" /\ outcome'[c] = "compile error"
      <4>1. CASE /\ Put(c, "ir", l, c) /\ Proceed(c, "compile", l, "open")
                 /\ UNCHANGED outcome
        BY <4>1, <3>2, <1>6
      <4>2. CASE /\ Put(c, "ir", l, c) \/ UNCHANGED file
                 /\ Return(c, "compile error")
        BY <4>2, <3>2, <1>6
      <4> QED BY <2>3, <3>2, <4>1, <4>2 DEF Compile
    <3>4. /\ FilesOf(c, "src")' = FilesOf(c, "src")
          /\ Put(c, "ir", l, c) => FilesOf(c, "ir")' = FilesOf(c, "ir") \cup {l}
      BY <3>3, <1>3, <1>4, <1>5
    <3>5. CASE at'[c] = "end" /\ outcome'[c] = "compile error"
      BY <3>1, <3>2, <3>4, <3>5, <1>1
    <3>6. CASE /\ Put(c, "ir", l, c) /\ outcome'[c] = outcome[c]
               /\ l = "cpp" => at'[c] = "compile" /\ lang'[c] = "rust"
               /\ l = "rust" => at'[c] = "open" /\ lang'[c] = "cpp"
      BY <3>1, <3>2, <3>4, <3>6, <1>1
    <3> QED BY <3>3, <3>5, <3>6
  <2>4. CASE Open(c, l)
    <3>1. /\ at[c] = "open" /\ lang[c] = l
          /\ outcome'[c] = outcome[c] /\ seen'[c] = seen[c]
          /\ \A k \in Kinds : FilesOf(c, k)' = FilesOf(c, k)
      BY <2>4, <1>3, <1>6 DEF Open
    <3>2. Files(c, Langs, Langs) /\ file[name[c]]["ir"][l] = c
      BY <3>1, <1>2
    <3>3. /\ opened'[c][l] = c
          /\ \A m \in Langs \ {l} : opened'[c][m] = opened[c][m]
          /\ l = "cpp" => at'[c] = "open" /\ lang'[c] = "rust"
          /\ l = "rust" => at'[c] = "measure" /\ lang'[c] = "cpp"
      BY <2>4, <3>2, <1>6 DEF Open
    <3> QED BY <3>1, <3>2, <3>3, <1>1, <1>6
  <2>5. CASE Measure(c, l)
    <3>1. /\ at[c] = "measure" /\ lang[c] = l
          /\ opened'[c] = opened[c] /\ seen'[c] = seen[c]
          /\ \A k \in Kinds : FilesOf(c, k)' = FilesOf(c, k)
      BY <2>5, <1>3, <1>6 DEF Measure
    <3>2. Files(c, Langs, Langs) /\ file[name[c]]["ir"][l] = c
      BY <3>1, <1>2
    <3>3. \/ at'[c] = "end" /\ outcome'[c] = "too big"
          \/ /\ outcome'[c] = outcome[c]
             /\ l = "cpp" => at'[c] = "measure" /\ lang'[c] = "rust"
             /\ l = "rust" => at'[c] = "read" /\ lang'[c] = "cpp"
      BY <2>5, <3>2, <1>5, <1>6 DEF Measure
    <3> QED BY <3>1, <3>2, <3>3, <1>1, <1>6
  <2>6. CASE Read(c, l)
    <3>1. /\ at[c] = "read" /\ lang[c] = l /\ opened[c][l] = c
          /\ opened'[c] = opened[c] /\ seen'[c] = seen[c] \cup {c}
          /\ \A k \in Kinds : FilesOf(c, k)' = FilesOf(c, k)
      BY <2>6, <1>3, <1>6 DEF Read
    <3>2. Files(c, Langs, Langs)
      BY <3>1
    <3>3. \/ at'[c] = "unlink src" /\ lang'[c] = "cpp" /\ outcome'[c] = "too long"
          \/ l = "cpp" /\ at'[c] = "read" /\ outcome'[c] = outcome[c]
          \/ /\ l = "rust" /\ at'[c] = "unlink src" /\ lang'[c] = "cpp"
             /\ outcome'[c] = "irs"
      BY <2>6, <1>6 DEF Read
    <3> QED BY <3>1, <3>2, <3>3, <1>1
  <2>7. CASE Unlink(c, l)
    <3>1. PICK k \in Kinds :
            /\ at[c] = (IF k = "src" THEN "unlink src" ELSE "unlink ir") /\ lang[c] = l
            /\ Put(c, k, l, "absent")
            /\ l = "cpp" => at'[c] = at[c] /\ lang'[c] = "rust"
            /\ l = "rust" => /\ at'[c] = IF k = "src" THEN "unlink ir" ELSE "end"
                             /\ lang'[c] = "cpp"
      BY <2>7, <1>6 DEF Unlink
    <3>2. /\ FilesOf(c, k)' = FilesOf(c, k) \ {l}
          /\ \A j \in Kinds \ {k} : FilesOf(c, j)' = FilesOf(c, j)
      <4> HIDE DEF Kinds, Langs
      <4> QED BY <3>1, <1>4, <1>5
    <3>3. outcome'[c] = outcome[c] /\ opened'[c] = opened[c] /\ seen'[c] = seen[c]
      BY <2>7 DEF Unlink
    <3>4. CASE k = "src"
      BY <3>1, <3>2, <3>3, <3>4, <1>1
    <3>5. CASE k = "ir"
      BY <3>1, <3>2, <3>3, <3>5, <1>1
    <3> QED BY <3>4, <3>5
  <2> QED BY <1>9, <2>1, <2>2, <2>3, <2>4, <2>5, <2>6, <2>7 DEF Handle
<1> QED BY <1>7, <1>8, <1>9 DEF Step

(* Before the first command there is no file and no handler.               *)
LEMMA InitInv == Init => Inv
<1> SUFFICES ASSUME Init PROVE Inv
  OBVIOUS
<1>1. TypeOK
  BY DEF Init, TypeOK, NoFile, Owners, Steps, Outcomes, Langs
<1>2. \A n \in Names, k \in Kinds, l \in Langs : file[n][k][l] = "absent"
  BY DEF Init, NoFile
<1>3. OwnersStarted
  BY <1>2, AbsentAssumption DEF OwnersStarted
<1>4. ASSUME NEW c \in Requests
      PROVE  Private(c)
  <2>1. name[c] \in Names
    BY DEF Init
  <2>2. \A k \in Kinds : FilesOf(c, k) = {}
    BY <1>2, <2>1 DEF FilesOf
  <2>3. at[c] = "idle" /\ outcome[c] = "none" /\ seen[c] = {}
    BY DEF Init
  <2> QED BY <2>2, <2>3 DEF Private, Standing, Left, Streams, Files, Kinds
<1> QED BY <1>1, <1>3, <1>4 DEF Inv

(* Every step of a handler, and the death of its child, keeps the          *)
(* invariant.                                                              *)
LEMMA StepInv == Inv /\ [Next]_vars => Inv'
<1> SUFFICES ASSUME Inv, [Next]_vars PROVE Inv'
  OBVIOUS
<1>1. TypeOK'
  BY TypeStep DEF Inv
<1>2. CASE UNCHANGED vars
  <2>1. OwnersStarted'
    BY <1>2 DEF Inv, vars, OwnersStarted, Started
  <2>2. ASSUME NEW c \in Requests, ~Shared(c)'
        PROVE  Private(c)'
    <3>1. \A k \in Kinds : FilesOf(c, k)' = FilesOf(c, k)
      BY <1>2 DEF vars, FilesOf
    <3>2. ~Shared(c)
      BY <1>2, <2>2 DEF vars, Shared, Started
    <3>3. Private(c)
      BY <3>2 DEF Inv
    <3> QED BY <1>2, <3>1, <3>3 DEF vars, Private, Standing, Left, Streams, Files, Kinds
  <2> QED BY <1>1, <2>1, <2>2 DEF Inv
<1>3. ASSUME NEW c \in Requests, Step(c)
      PROVE  Inv'
  <2>1. OwnersStarted'
    BY <1>3, OwnersStep DEF Inv
  <2>2. ASSUME NEW d \in Requests, ~Shared(d)'
        PROVE  Private(d)'
    <3>1. ~Shared(d) /\ Private(d)
      BY <1>3, <2>2, SharedForGood DEF Inv
    <3>2. CASE d = c
      BY <1>3, <3>1, <3>2, OwnStep DEF Inv
    <3>3. CASE d # c
      <4>1. /\ UNCHANGED <<request, at[d], lang[d], opened[d], outcome[d], seen[d]>>
            /\ \A k \in Kinds : FilesOf(d, k)' = FilesOf(d, k)
        BY <1>3, <2>2, <3>3, OthersUntouched DEF Inv
      <4> QED BY <3>1, <4>1 DEF Private, Standing, Left, Streams, Files, request, Kinds
    <3> QED BY <3>2, <3>3
  <2> QED BY <1>1, <2>1, <2>2 DEF Inv
<1> QED BY <1>2, <1>3, StepOrStutter

(* The invariant holds in every reachable state.                           *)
THEOREM AlwaysInv == Spec => []Inv
<1>1. Init => Inv
  BY InitInv
<1>2. Inv /\ [Next]_vars => Inv'
  BY StepInv
<1> QED BY <1>1, <1>2, PTL DEF Spec

--------------------------------------------------------------------------------
(* Every variable has its type.                                            *)
THEOREM TypeCorrect == Spec => []TypeOK
<1>1. Inv => TypeOK
  BY DEF Inv
<1> QED BY <1>1, AlwaysInv, PTL

(* A handler under a hash of its own reads what it wrote                   *)
(* (ValidatorServer.cpp:354, 417).                                         *)
THEOREM ReadsOwnFilesHolds == Spec => []ReadsOwnFiles
<1>1. Inv => ReadsOwnFiles
  BY DEF Inv, Private, ReadsOwnFiles
<1> QED BY <1>1, AlwaysInv, PTL

(* What each kind of return leaves in the directory (370-372, 404-406,     *)
(* 474-485, 507-515, 549).                                                 *)
THEOREM LeftBehindHolds == Spec => []LeftBehind
<1>1. Inv => LeftBehind
  BY DEF Inv, Private, LeftBehind, Left, Files, Ended
<1> QED BY <1>1, AlwaysInv, PTL

(* The string c has read for l is within the limit, or there was no file.  *)
Fits(c, l) == opened[c][l] # "absent" => l \notin long[opened[c][l]]

(* What has been read by now fits.                                         *)
ReadFits(c) ==
  /\ at[c] = "read" /\ lang[c] = "rust" => Fits(c, "cpp")
  /\ outcome[c] = "irs" =>
       at[c] \in {"unlink src", "unlink ir", "end"} /\ \A l \in Langs : Fits(c, l)

(* A step of its handler keeps what has been read within the limit.        *)
LEMMA OwnReadFits ==
  ASSUME TypeOK, NEW c \in Requests, Step(c), ReadFits(c)
  PROVE  ReadFits(c)'
<1>1. long' = long
  BY StepTouches DEF Touches, request
<1>2. /\ at \in [Requests -> Steps] /\ lang \in [Requests -> Langs]
      /\ outcome \in [Requests -> Outcomes]
      /\ opened \in [Requests -> [Langs -> Owners]]
  BY DEF TypeOK
<1> USE DEF ReadFits, Goto, Outcome, Return, Proceed, Doing, Langs
<1>3. ASSUME opened'[c] = opened[c], outcome'[c] # "irs", at'[c] # "read"
      PROVE  ReadFits(c)'
  BY <1>3
<1>4. CASE Begin(c) \/ Die(c)
  BY <1>2, <1>3, <1>4 DEF Begin, Die, Active
<1>5. ASSUME NEW l \in Langs, Handle(c, l)
      PROVE  ReadFits(c)'
  <2>1. CASE Write(c, l) \/ Parse(c, l) \/ Compile(c, l)
    BY <2>1, <1>2, <1>3 DEF Write, Parse, Compile
  <2>2. CASE Open(c, l)
    BY <2>2, <1>2 DEF Open
  <2>3. CASE Measure(c, l)
    BY <2>3, <1>2 DEF Measure
  <2>4. CASE Read(c, l)
    <3>1. /\ at[c] = "read" /\ lang[c] = l /\ outcome[c] # "irs"
          /\ \A m \in Langs : Fits(c, m)' <=> Fits(c, m)
      BY <2>4, <1>1 DEF Read, Fits
    <3>2. \/ outcome'[c] = "too long" /\ at'[c] = "unlink src"
          \/ Fits(c, l) /\ l = "cpp" /\ outcome'[c] = outcome[c]
          \/ Fits(c, l) /\ l = "rust" /\ at'[c] = "unlink src"
      BY <2>4, <1>2 DEF Read, Fits
    <3> QED BY <3>1, <3>2
  <2>5. CASE Unlink(c, l)
    <3>1. /\ at[c] \in {"unlink src", "unlink ir"} /\ outcome'[c] = outcome[c]
          /\ at'[c] \in {"unlink src", "unlink ir", "end"}
          /\ \A m \in Langs : Fits(c, m)' <=> Fits(c, m)
      BY <2>5, <1>1, <1>2 DEF Unlink, Fits
    <3> QED BY <3>1
  <2> QED BY <1>5, <2>1, <2>2, <2>3, <2>4, <2>5 DEF Handle
<1> QED BY <1>4, <1>5 DEF Step

(* Nothing longer than the limit as a string is returned, whatever files   *)
(* other requests of the hash put in the place of those that were measured *)
(* (527-546).                                                              *)
THEOREM IRsFitHolds == Spec => []IRsFit
<1> DEFINE AllFit == \A c \in Requests : ReadFits(c)
<1>1. Init => AllFit
  BY DEF Init, ReadFits
<1>2. ASSUME TypeOK, AllFit, [Next]_vars
      PROVE  AllFit'
  <2>1. CASE UNCHANGED vars
    BY <1>2, <2>1 DEF vars, ReadFits, Fits
  <2>2. ASSUME NEW c \in Requests, Step(c), NEW d \in Requests
        PROVE  ReadFits(d)'
    <3>1. CASE d = c
      BY <1>2, <2>2, <3>1, OwnReadFits
    <3>2. CASE d # c
      <4>1. Touches(c)
        BY <1>2, <2>2, StepTouches
      <4>2. long' = long /\ at'[d] = at[d] /\ lang'[d] = lang[d]
            /\ opened'[d] = opened[d] /\ outcome'[d] = outcome[d]
        BY <3>2, <4>1 DEF Touches, request
      <4> QED BY <1>2, <4>2 DEF ReadFits, Fits
    <3> QED BY <3>1, <3>2
  <2> QED BY <1>2, <2>1, <2>2, StepOrStutter
<1>3. AllFit => IRsFit
  BY DEF ReadFits, Fits, IRsFit
<1>4. Inv => TypeOK
  BY DEF Inv
<1> HIDE DEF AllFit
<1>5. TypeOK /\ AllFit /\ [Next]_vars => AllFit'
  BY <1>2
<1> QED BY <1>1, <1>3, <1>4, <1>5, AlwaysInv, PTL DEF Spec

(* Nothing of what an ended request left is removed while its hash is its  *)
(* own: the code has no other cleanup.                                     *)
THEOREM LeftForGoodHolds == Spec => LeftForGood
<1>1. ASSUME Inv, [Next]_vars, NEW d \in Requests, NEW k \in Kinds, Ended(d), ~Shared(d)'
      PROVE  FilesOf(d, k) \subseteq FilesOf(d, k)'
  <2>1. CASE UNCHANGED vars
    BY <2>1 DEF vars, FilesOf
  <2>2. ASSUME NEW c \in Requests, Step(c)
        PROVE  FilesOf(d, k)' = FilesOf(d, k)
    <3>1. TypeOK /\ c # d
      BY <1>1, <2>2, StepTouches DEF Inv, Touches, Ended
    <3> QED BY <1>1, <2>2, <3>1, OthersUntouched
  <2> QED BY <1>1, <2>1, <2>2, StepOrStutter
<1>2. Inv /\ [Next]_vars =>
        [\A c \in Requests, k \in Kinds :
           Ended(c) /\ ~Shared(c)' => FilesOf(c, k) \subseteq FilesOf(c, k)']_vars
  BY <1>1
<1> QED BY <1>2, AlwaysInv, PTL DEF Spec, LeftForGood
================================================================================
