------------------------------ MODULE RequestFiles ------------------------------
(***************************************************************************)
(* The files the handlers of the validator server keep under               *)
(* /tmp/__validator_server__ (handle_validate_request and                  *)
(* handle_generate_request, ValidatorServer.cpp).  Every request runs in a *)
(* child of its own; all children share the directory, and a name made of  *)
(* a hash of payload and clock is all that keeps their files apart.        *)
(***************************************************************************)
EXTENDS Naturals, FiniteSets

CONSTANTS Requests, Names

ASSUME AbsentAssumption == "absent" \notin Requests

Langs == {"cpp", "rust"}
Kinds == {"src", "ir"}

VARIABLES
  command,      \* command[c]: "VALIDATE", "GENERATE"
  name,         \* name[c]: the hash
  big,          \* big[c]: the languages whose IR file of c exceeds
                \* IR_FILE_SIZE_LIMIT
  long,         \* long[c]: the languages whose IR of c, read as a string,
                \* exceeds it; file_size and the string may differ (527-529)
  at,           \* at[c]: what the handler does next ...
  lang,         \* lang[c]: ... and for which language
  opened,       \* opened[c][l]: whose IR the stream of c for l is open on
  outcome,      \* outcome[c]: what the handler returns, "none" before
  seen,         \* seen[c]: whose payload c has read, "absent" for no file
  file          \* file[n][k][l]: whose payload is in the file, or "absent"

vars == <<command, name, big, long, at, lang, opened, outcome, seen, file>>

Owners == Requests \cup {"absent"}

Steps == {"idle", "write", "parse", "compile", "open", "measure", "read",
          "unlink src", "unlink ir", "end"}

Outcomes == {"none", "verdict", "unparsable", "irs", "compile error", "too big",
             "too long", "died"}

(* Every variable has its type.                                            *)
TypeOK ==
  /\ command \in [Requests -> {"VALIDATE", "GENERATE"}]
  /\ name \in [Requests -> Names]
  /\ big \in [Requests -> SUBSET Langs]
  /\ long \in [Requests -> SUBSET Langs]
  /\ at \in [Requests -> Steps]
  /\ lang \in [Requests -> Langs]
  /\ opened \in [Requests -> [Langs -> Owners]]
  /\ outcome \in [Requests -> Outcomes]
  /\ seen \in [Requests -> SUBSET Owners]
  /\ file \in [Names -> [Kinds -> [Langs -> Owners]]]

NoFile == [n \in Names |-> [k \in Kinds |-> [l \in Langs |-> "absent"]]]

(* The payload, and so the hash and what a compiler makes of it, is what   *)
(* the client chose; two hashes may be equal.                              *)
Init ==
  /\ command \in [Requests -> {"VALIDATE", "GENERATE"}]
  /\ name \in [Requests -> Names]
  /\ big \in [Requests -> SUBSET Langs]
  /\ long \in [Requests -> SUBSET Langs]
  /\ at = [c \in Requests |-> "idle"]
  /\ lang = [c \in Requests |-> "cpp"]
  /\ opened = [c \in Requests |-> [l \in Langs |-> "absent"]]
  /\ outcome = [c \in Requests |-> "none"]
  /\ seen = [c \in Requests |-> {}]
  /\ file = NoFile

request == <<command, name, big, long>>

Active(c) == at[c] \notin {"idle", "end"}

Doing(c, step, l) == at[c] = step /\ lang[c] = l
Goto(c, step, l) ==
  /\ at' = [at EXCEPT ![c] = step]
  /\ lang' = [lang EXCEPT ![c] = l]
Outcome(c, what)  == outcome' = [outcome EXCEPT ![c] = what]

(* From the C++ file to the Rust file, and from there to the next step.    *)
Proceed(c, step, l, next) ==
  IF l = "cpp" THEN Goto(c, step, "rust") ELSE Goto(c, next, "cpp")

(* return without cleanup_intermediate_files                               *)
Return(c, what) == Goto(c, "end", "cpp") /\ Outcome(c, what)

Put(c, k, l, owner) == file' = [file EXCEPT ![name[c]][k][l] = owner]

Sees(c, owner) == seen' = [seen EXCEPT ![c] = @ \cup {owner}]

(* Mutant: a handler sweeps the directory before it starts.                *)
BeginSweeps(c) ==
  /\ Doing(c, "idle", "cpp")
  /\ Goto(c, "write", "cpp")
  /\ file' = NoFile
  /\ UNCHANGED <<request, opened, outcome, seen>>

Begin(c) ==
  /\ Doing(c, "idle", "cpp")
  /\ Goto(c, "write", "cpp")
  /\ UNCHANGED <<request, opened, outcome, seen, file>>

(* The IRs to compare, or the sources to compile.                          *)
Write(c, l) ==
  /\ Doing(c, "write", l)
  /\ IF command[c] = "VALIDATE"
     THEN Put(c, "ir", l, c)  /\ Proceed(c, "write", l, "parse")
     ELSE Put(c, "src", l, c) /\ Proceed(c, "write", l, "compile")
  /\ UNCHANGED <<request, opened, outcome, seen>>

(* Both files are parsed; if either cannot be, the handler returns and     *)
(* leaves them.  Otherwise the functions are compared, with a verdict or a *)
(* complaint, and the files go.                                            *)
Parse(c, l) ==
  LET owner == file[name[c]]["ir"][l]
  IN  /\ Doing(c, "parse", l)
      /\ Sees(c, owner)
      /\ \E parsed \in IF owner = "absent" THEN {FALSE} ELSE BOOLEAN :
           \/ /\ l = "cpp"
              /\ Goto(c, "parse", "rust")
              /\ IF parsed THEN UNCHANGED outcome ELSE Outcome(c, "unparsable")
           \/ /\ l = "rust"
              /\ IF parsed /\ outcome[c] = "none"
                 THEN Goto(c, "unlink ir", "cpp") /\ Outcome(c, "verdict")
                 ELSE Return(c, "unparsable")
      /\ UNCHANGED <<request, opened, file>>

(* A compiler that fails or is timed out may leave its output.             *)
Compile(c, l) ==
  LET owner == file[name[c]]["src"][l]
  IN  /\ Doing(c, "compile", l)
      /\ Sees(c, owner)
      /\ \/ /\ owner # "absent"
            /\ Put(c, "ir", l, owner)
            /\ Proceed(c, "compile", l, "open") /\ UNCHANGED outcome
         \/ /\ Put(c, "ir", l, owner) \/ UNCHANGED file
            /\ Return(c, "compile error")
      /\ UNCHANGED <<request, opened>>

Open(c, l) ==
  /\ Doing(c, "open", l)
  /\ opened' = [opened EXCEPT ![c][l] = file[name[c]]["ir"][l]]
  /\ Proceed(c, "open", l, "measure")
  /\ UNCHANGED <<request, outcome, seen, file>>

(* file_size looks at the file of that name, not at the stream; it throws  *)
(* when there is none.                                                     *)
Measure(c, l) ==
  LET owner == file[name[c]]["ir"][l]
  IN  /\ Doing(c, "measure", l)
      /\ \/ owner = "absent" /\ Return(c, "died")
         \/ owner # "absent" /\ l \in big[owner] /\ Return(c, "too big")
         \/ /\ owner # "absent" /\ l \notin big[owner]
            /\ Proceed(c, "measure", l, "read") /\ UNCHANGED outcome
      /\ UNCHANGED <<request, opened, seen, file>>

(* Mutant: what was measured is not checked again.                         *)
ReadTrusts(c, l) ==
  /\ Doing(c, "read", l)
  /\ Sees(c, opened[c][l])
  /\ Proceed(c, "read", l, "unlink src")
  /\ IF l = "rust" THEN Outcome(c, "irs") ELSE UNCHANGED outcome
  /\ UNCHANGED <<request, opened, file>>

(* The content is read off the stream; a string that is too long after all *)
(* is refused, after a cleanup this time.                                  *)
Read(c, l) ==
  LET owner == opened[c][l]
  IN  /\ Doing(c, "read", l)
      /\ Sees(c, owner)
      /\ IF owner # "absent" /\ l \in long[owner]
         THEN Goto(c, "unlink src", "cpp") /\ Outcome(c, "too long")
         ELSE /\ Proceed(c, "read", l, "unlink src")
              /\ IF l = "rust" THEN Outcome(c, "irs") ELSE UNCHANGED outcome
      /\ UNCHANGED <<request, opened, file>>

(* Mutants: the whole directory is emptied; the sources are forgotten.     *)
UnlinkAll(c, l) ==
  /\ Doing(c, "unlink src", l) \/ Doing(c, "unlink ir", l)
  /\ file' = NoFile
  /\ Goto(c, "end", "cpp")
  /\ UNCHANGED <<request, opened, outcome, seen>>

UnlinkIRs(c, l) ==
  /\ \/ Doing(c, "unlink src", l) /\ Goto(c, "unlink ir", "cpp") /\ UNCHANGED file
     \/ /\ Doing(c, "unlink ir", l)
        /\ Put(c, "ir", l, "absent")
        /\ Proceed(c, "unlink ir", l, "end")
  /\ UNCHANGED <<request, opened, outcome, seen>>

Unlink(c, l) ==
  /\ \/ /\ Doing(c, "unlink src", l)
        /\ Put(c, "src", l, "absent")
        /\ Proceed(c, "unlink src", l, "unlink ir")
     \/ /\ Doing(c, "unlink ir", l)
        /\ Put(c, "ir", l, "absent")
        /\ Proceed(c, "unlink ir", l, "end")
  /\ UNCHANGED <<request, opened, outcome, seen>>

(* The child reaches a limit, crashes or throws.                           *)
Die(c) ==
  /\ Active(c)
  /\ Return(c, "died")
  /\ UNCHANGED <<request, opened, seen, file>>

Next ==
  \E c \in Requests :
    \/ Begin(c)
    \/ \E l \in Langs :
         Write(c, l) \/ Parse(c, l) \/ Compile(c, l) \/ Open(c, l) \/ Measure(c, l)
         \/ Read(c, l) \/ Unlink(c, l)
    \/ Die(c)

Spec == Init /\ [][Next]_vars

--------------------------------------------------------------------------------
Started(c) == at[c] # "idle"
Ended(c)   == at[c] = "end"

(* Another request that was started has the same hash.                     *)
Shared(c) == \E d \in Requests \ {c} : Started(d) /\ name[d] = name[c]

(* The languages whose source, or IR, is in a file under the name of c.    *)
FilesOf(c, k) == {l \in Langs : file[name[c]][k][l] # "absent"}

(* A handler whose hash nobody shares reads what it wrote: no file is      *)
(* missing and none is another's (ValidatorServer.cpp:354, 417: "generate  *)
(* unique hash for this request").                                         *)
ReadsOwnFiles == \A c \in Requests : ~Shared(c) => seen[c] \subseteq {c}

(* What is left of such a request.  A verdict, the IRs and a length that   *)
(* is refused are returned after the cleanup; every other return leaves    *)
(* the files made so far (370-372, 474-485, 507-515).                      *)
LeftBehind ==
  \A c \in Requests : Ended(c) /\ ~Shared(c) =>
    /\ outcome[c] \in {"verdict", "irs", "too long"} =>
         FilesOf(c, "src") = {} /\ FilesOf(c, "ir") = {}
    /\ outcome[c] = "unparsable" => FilesOf(c, "src") = {} /\ FilesOf(c, "ir") = Langs
    /\ outcome[c] = "compile error" => FilesOf(c, "src") = Langs
    /\ outcome[c] = "too big" => FilesOf(c, "src") = Langs /\ FilesOf(c, "ir") = Langs

(* IRs that are returned are within the limit as strings, both of them,    *)
(* though what was measured may have been another file, of another request *)
(* of the hash, than the one whose stream was open by then (525-546).      *)
IRsFit ==
  \A c \in Requests, l \in Langs :
    outcome[c] = "irs" /\ opened[c][l] # "absent" => l \notin long[opened[c][l]]

(* What an ended request left is never removed but by one of its name.     *)
LeftForGood ==
  [][\A c \in Requests, k \in Kinds :
       Ended(c) /\ ~Shared(c)' => FilesOf(c, k) \subseteq FilesOf(c, k)']_vars
================================================================================
