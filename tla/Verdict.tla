-------------------------------- MODULE Verdict --------------------------------
(***************************************************************************)
(* What a user is told about a pair of IR modules, by the two programs of  *)
(* the repository: by the full stack, where the form puts "EMPTY" for a    *)
(* name not given, handle_validate_request makes a text and the relay      *)
(* reads a verdict off it, and by the standalone validator, which reads    *)
(* two options, may compare a second time with the modules switched, and   *)
(* prints a summary.  The verifier is external: it finds out anything, but *)
(* the same for the same question.                                         *)
(***************************************************************************)
EXTENDS Comparer

CONSTANT
  Modules       \* the modules considered

VARIABLES
  cpp, rust,    \* the two modules
  parsed,       \* whether the parser accepts both
  cppName, rustName,  \* the names the user gives, or "" for none
  asked,        \* what the verifier has found out: [question |->, outcome |->]
  request,      \* handling of the request: "started", "handled", "told"
  text,         \* the phrases of the validator's answer
  told,         \* what the relay makes of it
  compared,     \* the pair compared for the request
  main,         \* the standalone validator: "started", "switched", "ended"
  exit,         \* its exit status
  summary,      \* the counters of the verifier it prints, and whether it does
  looked        \* the pairs it compared, in both orders of the modules

vars == <<cpp, rust, parsed, cppName, rustName, asked, request, text, told, compared,
          main, exit, summary, looked>>

input == <<cpp, rust, parsed, cppName, rustName>>
fullStack == <<request, text, told, compared>>
standalone == <<main, exit, summary, looked>>

ASSUME ModulesAssumption == Modules \subseteq Seq(Functions)

Pairs == Nat \X Nat
Questions == [direction : {"forward", "switched"}, pair : Pairs]
Phrases == {"seems to be correct", "source always UB", "multiple functions found",
            "function not found", "no functions found"}
NotPrinted == [printed |-> FALSE, counts |-> NoCounts]

(* Every variable has its type.                                            *)
TypeOK ==
  /\ cpp \in Modules /\ rust \in Modules /\ parsed \in BOOLEAN
  /\ cppName \in Names \cup {""} /\ rustName \in Names \cup {""}
  /\ asked \subseteq [question : Questions, outcome : Outcomes]
  /\ request \in {"started", "handled", "told"}
  /\ text \subseteq Phrases
  /\ told \in {"nothing", "success", "failure", "error"}
  /\ compared \in Pairs
  /\ main \in {"started", "switched", "ended"}
  /\ exit \in {"none", "zero", "failure"}
  /\ summary \in [printed : BOOLEAN, counts : Counters]
  /\ looked \in [{"forward", "switched"} -> Pairs]

Init ==
  /\ cpp \in Modules /\ rust \in Modules /\ parsed \in BOOLEAN
  /\ cppName \in Names \cup {""} /\ rustName \in Names \cup {""}
  /\ asked = {}
  /\ request = "started" /\ text = {} /\ told = "nothing" /\ compared = NoPair
  /\ main = "started" /\ exit = "none" /\ summary = NotPrinted
  /\ looked = [direction \in {"forward", "switched"} |-> NoPair]

(* The verifier answers a question, as before if it was asked before.      *)
Ask(direction, pair, outcome) ==
  /\ \A a \in asked : a.question = [direction |-> direction, pair |-> pair] => a.outcome = outcome
  /\ asked' = asked \cup {[question |-> [direction |-> direction, pair |-> pair],
                           outcome |-> outcome]}

--------------------------------------------------------------------------------
(* The full stack.                                                         *)

(* CodeEditorForm.tsx:92                                                   *)
SentName(name) == IF name = "" THEN "EMPTY" ELSE name

UseNames == SentName(cppName) # "EMPTY" /\ SentName(rustName) # "EMPTY"

RequestSelection ==
  Selection(cpp, CppPattern, rust, RustPattern, UseNames, SentName(cppName), SentName(rustName))

(* handle_validate_request: the text of its answer.                        *)
HandleValidateRequest ==
  /\ request = "started"
  /\ request' = "handled"
  /\ \/ /\ ~parsed
        /\ text' = {}
        /\ UNCHANGED <<compared, asked>>
     \/ /\ parsed
        /\ RequestSelection.message # ""
        /\ text' = {RequestSelection.message}
        /\ UNCHANGED <<compared, asked>>
     \/ /\ parsed
        /\ RequestSelection.message = ""
        /\ compared' = RequestSelection.pair
        /\ \E outcome \in Outcomes :
             /\ Ask("forward", RequestSelection.pair, outcome)
             /\ text' = Output(outcome)
  /\ UNCHANGED <<input, told, standalone>>

(* Mutant: an answer that no function was found is read as a verdict.      *)
ErrorPhrasesTwo == {"multiple functions found", "function not found"}

ErrorPhrases == {"multiple functions found", "function not found", "no functions found"}

(* The relay reads the verdict off the text.                               *)
RelayAnswer ==
  /\ request = "handled"
  /\ request' = "told"
  /\ told' = IF text \cap ErrorPhrases # {} THEN "error"
             ELSE IF "seems to be correct" \in text THEN "success" ELSE "failure"
  /\ UNCHANGED <<input, asked, text, compared, standalone>>

--------------------------------------------------------------------------------
(* The standalone validator.                                               *)

MainSelection ==
  Selection(cpp, CppPattern, rust, RustPattern, cppName # "" \/ rustName # "", cppName, rustName)

Exit(failure) ==
  /\ main' = "ended"
  /\ exit' = IF failure THEN "failure" ELSE "zero"

Summarise(counts) ==
  /\ summary' = [printed |-> TRUE, counts |-> counts]
  /\ Exit(counts.errors > 0)

(* Mutant: a warning does not lead to a second comparison.                 *)
AfterComparisonOnce(outcome) == Summarise(Counts(outcome))

(* The output decides whether there is a second comparison.                *)
AfterComparison(outcome) ==
  IF "source always UB" \in Output(outcome)
  THEN main' = "switched" /\ UNCHANGED <<exit, summary>>
  ELSE Summarise(Counts(outcome))

(* main() up to the summary or to the note that the modules are switched.  *)
Main ==
  /\ main = "started"
  /\ \/ /\ ~parsed
        /\ Exit(TRUE)
        /\ UNCHANGED <<summary, looked, asked>>
     \/ /\ parsed
        /\ MainSelection.message = "multiple functions found"
        /\ Exit(TRUE)
        /\ UNCHANGED <<summary, looked, asked>>
     \/ /\ parsed
        /\ MainSelection.message \in {"function not found", "no functions found"}
        /\ Summarise(NoCounts)
        /\ UNCHANGED <<looked, asked>>
     \/ /\ parsed
        /\ MainSelection.message = ""
        /\ looked' = [looked EXCEPT !["forward"] = MainSelection.pair]
        /\ \E outcome \in Outcomes :
             /\ Ask("forward", MainSelection.pair, outcome)
             /\ AfterComparison(outcome)
  /\ UNCHANGED <<input, fullStack>>

(* The second comparer is made without the names.                          *)
SwitchedSelection == Selection(rust, RustPattern, cpp, CppPattern, FALSE, "", "")

Switched ==
  /\ main = "switched"
  /\ \/ /\ SwitchedSelection.message # ""
        /\ Summarise(NoCounts)
        /\ UNCHANGED <<looked, asked>>
     \/ /\ SwitchedSelection.message = ""
        /\ looked' = [looked EXCEPT !["switched"] = SwitchedSelection.pair]
        /\ \E outcome \in Outcomes :
             /\ Ask("switched", SwitchedSelection.pair, outcome)
             /\ Summarise(Counts(outcome))
  /\ UNCHANGED <<input, fullStack>>

Next == HandleValidateRequest \/ RelayAnswer \/ Main \/ Switched

Spec == Init /\ [][Next]_vars
--------------------------------------------------------------------------------
(* A pair that answers the user's question: one of functions with a body   *)
(* and the pattern of its language, which has both names if both are given *)
(* and is the only one if not.                                             *)
Meant(pair) ==
  /\ pair[1] \in Candidates(cpp, CppPattern)
  /\ pair[2] \in Candidates(rust, RustPattern)
  /\ IF cppName # "" /\ rustName # ""
     THEN Contains(cpp[pair[1]], cppName) /\ Contains(rust[pair[2]], rustName)
     ELSE ~Several(Candidates(cpp, CppPattern)) /\ ~Several(Candidates(rust, RustPattern))

FoundOut(direction, pair, outcome) ==
  [question |-> [direction |-> direction, pair |-> pair], outcome |-> outcome] \in asked

(* A user of the full stack is told of a success only if a pair that       *)
(* answers the question was verified, and of a failure only if one was not *)
(* or a module could not be parsed, though compareFunctions returns true   *)
(* for what it could not even translate, and the verdict is read off a     *)
(* text (RelayServer.cpp:144, compare.cpp:100-145).                        *)
VerdictTrue ==
  /\ told = "success" =>
       /\ Meant(compared)
       /\ \E outcome \in Outcomes : FoundOut("forward", compared, outcome) /\ Verified(outcome)
  /\ told = "failure" =>
       \/ ~parsed
       \/ /\ Meant(compared)
          /\ \E outcome \in Outcomes : FoundOut("forward", compared, outcome) /\ ~Verified(outcome)

(* An error is told exactly if both modules are read and no pair answers   *)
(* the question: three messages of compare() pass through two rewritings   *)
(* and a search for phrases (Comparer.h:52-82, ValidatorServer.cpp:388-401,*)
(* RelayServer.cpp:137-141).                                               *)
ErrorsExplained ==
  told # "nothing" =>
    (told = "error" <=> parsed /\ \A pair \in (DOMAIN cpp) \X (DOMAIN rust) : ~Meant(pair))

Noted ==
  \E outcome \in Outcomes : outcome.alwaysUB /\ FoundOut("forward", looked["forward"], outcome)

(* The two programs agree on the same modules and names, given both or     *)
(* none, but for a source that is always undefined: there the full stack   *)
(* tells a success and the standalone validator looks a second time        *)
(* (standalone.cpp:123; SRC_UB_PROMPT of ValidatorServer.cpp:37 is unused).*)
VerdictsAgree ==
  /\ request = "told" /\ main = "ended"
  /\ (cppName = "" <=> rustName = "")
  /\ ~Noted
  => (told = "success" <=> summary.counts.correct = 1)

(* The summary of the standalone validator never counts a refinement of a  *)
(* source that is always undefined.  It counts the second comparison; but  *)
(* that is made without the names, so with several candidates it compares  *)
(* nothing, in spite of the note that it verifies again, and exits with    *)
(* zero (standalone.cpp:131-138, Printer.h:70).                            *)
SecondLook ==
  main = "ended" /\ Noted =>
    IF Several(Candidates(cpp, CppPattern)) \/ Several(Candidates(rust, RustPattern))
    THEN summary.counts = NoCounts /\ exit = "zero"
    ELSE \E outcome \in Outcomes :
           /\ FoundOut("switched", looked["switched"], outcome)
           /\ summary.counts = Counts(outcome)
================================================================================
