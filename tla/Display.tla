--------------------------------- MODULE Display ---------------------------------
(***************************************************************************)
(* What the page makes of the text of a verdict (LLVMIRModal.tsx):         *)
(* formatVerifierOutput sorts its lines into sections by how they start,   *)
(* ValidationOutput shows some of the sections, Line some of each line.    *)
(* Nothing of this is agreed with alive2, which prints for a terminal.     *)
(***************************************************************************)
EXTENDS Verdict

(* A line: how it starts, where that is looked at; the part of the text it *)
(* is of; and the phrases in it.                                           *)
Printed(starts, of, has) == [starts |-> starts, of |-> of, has |-> has]

Mark(starts) == Printed(starts, "none", {})
Blank == Mark("")

Choose(condition, lines) == IF condition THEN lines ELSE <<>>

(* What alive2 prints of the two programs, and its warning.                *)
Transform ==
  <<Blank, Mark("----"),
    Printed("@name", "cpp", {"@name", "= constant", "align"}),
    Printed("", "cpp", {"define", "i32", "noundef"}),
    Mark("=>"),
    Printed("", "rust", {"define", "i32", "noundef"})>>

Warning ==
  <<Blank, Mark("****"), Printed("", "warning", {"Source function is always UB"}),
    Mark("****"), Blank, Blank>>

(* The steps of a program, if any, and its memory, if it has any.          *)
ProgramState(of, heading, steps, memory) ==
  Choose(steps, <<Printed("", of, {"Function @", "returned"}),
                  Printed("  >>", of, {"Jump to"}),
                  Printed("", of, {"Function @", "triggered UB"})>>)
    \o Choose(memory, <<Blank, Printed(heading, of, {heading}),
                        Printed("", of, {"alive", "align", "address"})>>)

(* Nothing, the values returned, or where the memories differ.             *)
Values == {<<Blank>>, <<Printed("", "values", {"poison"})>>,
           <<Blank, Printed("", "values", {"non-local", "block_id", "offset"})>>}

(* The reasons of a counterexample.                                        *)
Refuted == {{"ERROR:"}, {"ERROR:", "defined"}, {"ERROR:", "undefined"}}

CounterExample(why, inputs, steps, memory, values) ==
  <<Printed("ERROR:", "reason", why), Blank, Mark("Example:")>>
    \o Choose(inputs, <<Printed("", "example", {"i32"})>>)
    \o <<Blank, Mark("Source:")>>
    \o ProgramState("cppState", "SOURCE MEMORY STATE", steps, memory)
    \o <<Blank, Mark("Target:")>>
    \o ProgramState("rustState", "TARGET MEMORY STATE", steps, memory)
    \o values \o <<Blank, Blank>>

CounterExamples ==
  {CounterExample(why, inputs, steps, memory, values) :
     why \in Refuted, inputs \in BOOLEAN, steps \in BOOLEAN, memory \in BOOLEAN,
     values \in Values}

Correct   == <<Printed("Transformation", "none", {"seems to be correct"}), Blank, Blank>>
Incorrect == Mark("Transformation")
Ill       == Printed("ERROR:", "reason", {"ERROR:", "type check"})
Unknown   == Printed("ERROR:", "reason", {"ERROR:"})
Unproved  == Printed("ERROR:", "unproved", {"ERROR:"})
Timeout   == Printed("ERROR: Timeout", "reason", {"ERROR:", "Timeout"})

(* The lines compareFunctions prints for an outcome.                       *)
Lines(outcome) ==
  LET programs == Transform \o Choose(outcome.alwaysUB, Warning)
  IN  CASE outcome.status = "ERROR"  -> {<<Unknown, Blank>>}
        [] outcome.status = "throws" -> {<<Blank>>, Transform}
        [] Verified(outcome) -> {programs \o Correct}
        [] outcome.status = "TYPE_CHECKER_FAILED" ->
             {programs \o <<Incorrect, Ill, Blank, Blank>>}
        [] outcome.status = "UNSOUND" ->
             {programs \o <<Incorrect, Blank>> \o example : example \in CounterExamples}
        [] OTHER ->  \* FAILED_TO_PROVE
             {programs \o why \o <<Blank, Blank>> :
                why \in {<<Timeout>>, <<Unproved>>, <<Unproved, Timeout>>}}

(* An error of any kind, or the word that a module could not be parsed.    *)
Message == <<Printed("", "message", {})>>

--------------------------------------------------------------------------------
(* Which sections there are, and their headings.                           *)
Titles ==
  [alive2_source |-> "Source C++ Program", alive2_target |-> "Translated Rust Program",
   ub_warning |-> "Undefined Behavior Detected", error |-> "Error Message",
   example |-> "Counterexample", source |-> "Source Program State",
   target |-> "Target Program State"]

Start == [currentSection |-> "main", inAlive2Section |-> FALSE,
          inUBWarningSection |-> FALSE,
          sections |-> [s \in DOMAIN Titles \cup {"main"} |-> <<>>]]

Put(state, section, line) ==
  [state EXCEPT !.sections[section] = Append(@, line)]

To(state, section) == [state EXCEPT !.currentSection = section]

Separators == {"----", "=>", "ERROR: Timeout", "Transformation", "Example:", "****"}

(* Mutant: the verdict does not end the programs.                          *)
SeparateStays(state, line) ==
  CASE line.starts = "----" ->
         To([state EXCEPT !.inAlive2Section = TRUE], "alive2_source")
    [] line.starts = "=>"             -> To(state, "alive2_target")
    [] line.starts = "ERROR: Timeout" -> Put(state, "error", line)
    [] line.starts = "Transformation" -> To(state, "main")
    [] line.starts = "Example:"       -> To(state, "example")
    [] line.starts = "****" -> [state EXCEPT !.inUBWarningSection = ~@]

Separate(state, line) ==
  CASE line.starts = "----" ->
         To([state EXCEPT !.inAlive2Section = TRUE], "alive2_source")
    [] line.starts = "=>"             -> To(state, "alive2_target")
    [] line.starts = "ERROR: Timeout" -> Put(state, "error", line)
    [] line.starts = "Transformation" ->
         To([state EXCEPT !.inAlive2Section = FALSE], "main")
    [] line.starts = "Example:"       -> To(state, "example")
    [] line.starts = "****" -> [state EXCEPT !.inUBWarningSection = ~@]

(* A line of a counterexample.                                             *)
PutExample(state, line) ==
  CASE line.starts = "ERROR:"  -> Put(To(state, "error"), "error", line)
    [] line.starts = "Source:" -> To(state, "source")
    [] line.starts = "Target:" -> To(state, "target")
    [] line.starts = "SOURCE MEMORY STATE" ->
         Put(Put(state, "source", Blank), state.currentSection, line)
    [] line.starts = "TARGET MEMORY STATE" ->
         Put(Put(state, "target", Blank), state.currentSection, line)
    [] OTHER -> Put(state, state.currentSection, line)

Sort(state, line) ==
  IF line.starts \in Separators THEN Separate(state, line)
  ELSE IF state.inUBWarningSection THEN Put(state, "ub_warning", line)
  ELSE IF state.inAlive2Section THEN Put(state, state.currentSection, line)
  ELSE PutExample(state, line)

(* The states of the loop, after each number of lines.                     *)
Sorted(lines) ==
  LET sorted[n \in 0..Len(lines)] ==
        IF n = 0 THEN Start ELSE Sort(sorted[n - 1], lines[n])
  IN  sorted

formatVerifierOutput(lines) == Sorted(lines)[Len(lines)].sections

(* Mutant: the words that a verification failed are not told apart.        *)
IsSuccessOrNot(lines) == \E k \in DOMAIN lines : lines[k].starts = "Transformation"

IsSuccess(lines) == \E k \in DOMAIN lines : "seems to be correct" \in lines[k].has

(* The sections ValidationOutput shows.  Where there are no inputs or no   *)
(* steps alive2 still prints an empty line.                                *)
ValidationOutput(lines) ==
  LET sections == formatVerifierOutput(lines)
      counterexample == {"error", "example", "source", "target"}
      Said(s) == IF s \in {"example", "source", "target"} /\ sections[s] = <<Blank>>
                 THEN <<Printed("", "none", {"(None)"})>> ELSE sections[s]
  IN  [s \in {t \in DOMAIN Titles : /\ sections[t] # <<>>
                                    /\ t \in counterexample => ~IsSuccess(lines)}
         |-> Said(s)]

--------------------------------------------------------------------------------
(* Line: what it shows of a line, and which phrases it explains as what.   *)

technicalTerms ==
  {"noundef", "i32", "ptr", "align", "define", "declare", "extractvalue", "assume",
   "call", "UB", "gep", "inbounds", "noreturn", "offset", "block_id", "address",
   "local", "non-local", "const", "alive", "poison", "store", "load", "br", "ret",
   "label", "switch", "ule", "uge", "ult", "ugt", "icmp", "fcmp", "phi", "alloca",
   "sext", "zext", "trunc", "signext"}

(* The words a line is split at; "non-local" is split at "local".          *)
SplitAt == technicalTerms \ {"address", "non-local"}

Word(phrase) == IF phrase = "non-local" THEN "local" ELSE phrase

Shows(kept, explained) == [kept |-> kept, explained |-> explained]

(* "undefined" contains "defined".                                         *)
ErrorLine(has) ==
  IF "type check" \in has
  THEN Shows({"type check"}, {<<"type check", "type check">>})
  ELSE IF has \cap {"defined", "undefined"} # {}
  THEN Shows(has \ {"ERROR:"}, {<<p, "defined">> : p \in has \ {"ERROR:"}})
  ELSE IF "Timeout" \in has
  THEN Shows({"timed out"}, {<<"timed out", "timed out">>})
  ELSE Shows(has \ {"ERROR:"}, {})

(* Of a line with a function, and of one that starts with a global.        *)
FunctionLine(has) ==
  LET kept == has \cap {"Function @", "@name", "triggered UB"}
  IN  Shows(kept, {<<p, p>> : p \in kept})

(* Mutant: a term is not among the words the line is split at.             *)
WordsLineForgets(has) ==
  Shows(has, {<<p, Word(p)>> : p \in {q \in has : Word(q) \in SplitAt \ {"noundef"}}})

WordsLine(has) == Shows(has, {<<p, Word(p)>> : p \in {q \in has : Word(q) \in SplitAt}})

Line(line) ==
  IF "ERROR:" \in line.has THEN ErrorLine(line.has)
  ELSE IF line.starts \in {"SOURCE MEMORY STATE", "TARGET MEMORY STATE"}
  THEN Shows(line.has, {})
  ELSE IF line.has \cap {"Function @", "@name"} # {} THEN FunctionLine(line.has)
  ELSE IF line.starts = "  >>" THEN Shows(line.has, {<<"Jump to", "Jump to">>})
  ELSE WordsLine(line.has)

--------------------------------------------------------------------------------
(* The text behind what the user is told, line by line: the modal gets the *)
(* message of an error too.                                                *)
Told ==
  IF told = "error" \/ ~parsed THEN {Message}
  ELSE UNION {Lines(outcome) :
                outcome \in {o \in Outcomes : FoundOut("forward", compared, o)}}

(* Where the parts of a text belong.                                       *)
Belongs ==
  [cpp |-> {"alive2_source"}, rust |-> {"alive2_target"}, warning |-> {"ub_warning"},
   reason |-> {"error"}, example |-> {"example"}, cppState |-> {"source"},
   rustState |-> {"target"}, values |-> {"target"},
   unproved |-> {"alive2_target"}, message |-> {}]

Elements(lines) == {lines[k] : k \in DOMAIN lines}

(* Every part of the text is shown under its own heading and no other, but *)
(* why nothing could be proved: that stands under the Rust program, unless *)
(* it is a timeout.  A message alone is shown nowhere, although the toast  *)
(* says "Check the results for details." (LLVMIRModal.tsx:128, 498,        *)
(* CodeEditorForm.tsx:108).  No section shown is blank, but that of a Rust *)
(* program that does nothing before its return is undefined.               *)
PartsUnderHeadings ==
  request = "told" => \A lines \in Told :
    LET shown == ValidationOutput(lines)
    IN  /\ \A line \in Elements(lines) : line.of # "none" =>
             {s \in DOMAIN shown : line \in Elements(shown[s])} = Belongs[line.of]
        /\ \A s \in DOMAIN shown : Elements(shown[s]) = {Blank} => s = "target"

(* The modal hides the reasons of a failure exactly if it and the toast    *)
(* say that there is none, though the one is read off the text by the page *)
(* and the other by the relay (LLVMIRModal.tsx:76, 527, 690,               *)
(* RelayServer.cpp:144).                                                   *)
BannerFits ==
  request = "told" => \A lines \in Told : IsSuccess(lines) <=> told = "success"

(* Line leaves out of a line only "ERROR:", the word after the name of a   *)
(* function, and the rest of a global, which it calls a function; it       *)
(* explains each technical term it shows but an address, and takes two for *)
(* their opposites (LLVMIRModal.tsx:255, 310, 378).                        *)
LineFaithful ==
  request = "told" => \A lines \in Told : \A line \in Elements(lines) :
    LET shown == Line(line)
    IN  /\ line.has \ shown.kept
             \subseteq {"ERROR:", "Timeout", "returned", "= constant", "align"}
        /\ "align" \in line.has \ shown.kept => line.starts = "@name"
        /\ \A term \in technicalTerms \cap shown.kept :
             <<term, term>> \in shown.explained \/ term \in {"address", "non-local"}
        /\ \A term \in shown.explained :
             term[1] # term[2] => term[1] \in {"undefined", "non-local"}
================================================================================
