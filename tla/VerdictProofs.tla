---------------------------- MODULE VerdictProofs ----------------------------
(***************************************************************************)
(* Proofs about what the two programs tell, for any names and modules.     *)
(* The argument: what is told follows from the selection, which the input  *)
(* fixes, and from what the verifier found out, which never changes; and a *)
(* selection finds a pair exactly if one answers the question.             *)
(***************************************************************************)
EXTENDS Verdict, FiniteSetTheorems, TLAPS

(* The verifier contradicts itself never and is asked about pairs only.    *)
Consistent ==
  /\ \A a, b \in asked : a.question = b.question => a.outcome = b.outcome
  /\ \A a \in asked : a.question.pair # NoPair

Judgement ==
  IF text \cap ErrorPhrases # {} THEN "error"
  ELSE IF "seems to be correct" \in text THEN "success" ELSE "failure"

HandledFits ==
  \/ ~parsed /\ text = {}
  \/ parsed /\ RequestSelection.message # "" /\ text = {RequestSelection.message}
  \/ /\ parsed /\ RequestSelection.message = ""
     /\ compared = RequestSelection.pair
     /\ \E outcome \in Outcomes :
          FoundOut("forward", compared, outcome) /\ text = Output(outcome)

RequestFits ==
  /\ request # "started" => HandledFits
  /\ told = IF request = "told" THEN Judgement ELSE "nothing"

SwitchedFits ==
  /\ parsed /\ MainSelection.message = ""
  /\ looked["forward"] = MainSelection.pair
  /\ \E outcome \in Outcomes :
       outcome.alwaysUB /\ FoundOut("forward", looked["forward"], outcome)

EndedOnce ==
  /\ parsed /\ MainSelection.message = ""
  /\ looked["forward"] = MainSelection.pair
  /\ \E outcome \in Outcomes :
       /\ ~outcome.alwaysUB /\ FoundOut("forward", looked["forward"], outcome)
       /\ summary.counts = Counts(outcome)

EndedTwice ==
  /\ SwitchedFits
  /\ \/ /\ SwitchedSelection.message # ""
        /\ summary.counts = NoCounts /\ exit = "zero"
     \/ /\ SwitchedSelection.message = ""
        /\ \E outcome \in Outcomes :
             /\ FoundOut("switched", looked["switched"], outcome)
             /\ summary.counts = Counts(outcome)

EndedEmpty ==
  /\ ~parsed \/ MainSelection.message # ""
  /\ looked["forward"] = NoPair /\ summary.counts = NoCounts

MainFits ==
  /\ main = "started" => looked["forward"] = NoPair
  /\ main # "ended" => summary = NotPrinted
  /\ main = "switched" => SwitchedFits
  /\ main = "ended" => EndedEmpty \/ EndedOnce \/ EndedTwice

Inv == TypeOK /\ Consistent /\ RequestFits /\ MainFits

--------------------------------------------------------------------------------
(* The least-number principle, from the well-founded inclusion of the      *)
(* finite sets 1..k.                                                       *)
LEMMA FirstIn ==
  ASSUME NEW S \in SUBSET Nat, S # {}
  PROVE  First(S) \in S /\ \A l \in S : First(S) <= l
<1> DEFINE Initial == {1..k : k \in S}
<1>1. Initial \subseteq FiniteSubsetsOf(Nat)
  <2>1. \A k \in S : IsFiniteSet(1..k)
    BY FS_Interval
  <2> QED
    BY <2>1 DEF FiniteSubsetsOf
<1>2. PICK I \in Initial : \A J \in Initial : <<J, I>> \notin StrictSubsetOrdering(Nat)
  <2>1. Initial # {}
    OBVIOUS
  <2>2. IsWellFoundedOn(StrictSubsetOrdering(Nat), FiniteSubsetsOf(Nat))
    BY FS_StrictSubsetOrderingWellFounded
  <2> HIDE DEF Initial
  <2> QED
    BY <1>1, <2>1, <2>2, WFMin
<1>3. PICK k \in S : I = 1..k
  OBVIOUS
<1>4. \A l \in S : k <= l
  <2> SUFFICES ASSUME NEW l \in S, l < k PROVE FALSE
    OBVIOUS
  <2>1. 1..l \subseteq 1..k /\ k \in 1..k /\ k \notin 1..l
    OBVIOUS
  <2>2. 1..l \subseteq Nat /\ 1..k \subseteq Nat
    OBVIOUS
  <2>3. <<1..l, 1..k>> \in StrictSubsetOrdering(Nat)
    BY <2>1, <2>2 DEF StrictSubsetOrdering
  <2> QED
    BY <1>2, <1>3, <2>3
<1> QED
  BY <1>4 DEF First

(* Candidates are places in a module, counted from one.                    *)
LEMMA CandidatesPlaces ==
  ASSUME NEW m \in Modules, NEW p
  PROVE  Candidates(m, p) \subseteq Nat \ {0}
  BY ModulesAssumption DEF Candidates

(* A selection either refuses with a message or finds a pair of candidates *)
(* that have the names, and are alone if no names are used.                *)
Selects(s, src, p, tgt, q, use, n, k) ==
  LET S == Named(src, p, IF use THEN n ELSE "")
      T == Named(tgt, q, IF use THEN k ELSE "")
      Alone == ~Several(Candidates(src, p)) /\ ~Several(Candidates(tgt, q))
  IN  /\ s.message \in {"", "no functions found", "multiple functions found",
                        "function not found"}
      /\ s.message = "" <=> S # {} /\ T # {} /\ (use \/ Alone)
      /\ s.message = "" =>
           s.pair \in Pairs /\ s.pair # NoPair /\ s.pair[1] \in S /\ s.pair[2] \in T

(* The selection of compare() does what Selects says of it, for every pair *)
(* of modules and names.                                                   *)
LEMMA SelectionFits ==
  ASSUME NEW src \in Modules, NEW tgt \in Modules, NEW p, NEW q,
         NEW use \in BOOLEAN, NEW n, NEW k
  PROVE  Selects(Selection(src, p, tgt, q, use, n, k), src, p, tgt, q, use, n, k)
<1> DEFINE Cs == Candidates(src, p)
           Ct == Candidates(tgt, q)
           N == Named(src, p, IF use THEN n ELSE "")
           M == Named(tgt, q, IF use THEN k ELSE "")
<1>1. N \subseteq Cs /\ M \subseteq Ct /\ (~use => N = Cs /\ M = Ct)
  BY DEF Named, Contains
<1>2. Cs \subseteq Nat \ {0} /\ Ct \subseteq Nat \ {0}
  BY CandidatesPlaces
<1>3. CASE Cs = {} \/ Ct = {}
  BY <1>1, <1>3 DEF Selection, Selects
<1>4. CASE Cs # {} /\ Ct # {} /\ ~use /\ (Several(Cs) \/ Several(Ct))
  BY <1>1, <1>4 DEF Selection, Selects
<1>5. CASE Cs # {} /\ Ct # {} /\ use /\ (N = {} \/ M = {})
  BY <1>1, <1>5 DEF Selection, Selects
<1>6. CASE /\ Cs # {} /\ Ct # {}
           /\ ~(~use /\ (Several(Cs) \/ Several(Ct)))
           /\ ~(use /\ (N = {} \/ M = {}))
  <2>1. N # {} /\ M # {}
    BY <1>1, <1>6
  <2>2. First(N) \in N /\ First(M) \in M
    BY <1>1, <1>2, <2>1, FirstIn
  <2>3. Selection(src, p, tgt, q, use, n, k) = [message |-> "", pair |-> <<First(N), First(M)>>]
    BY <1>6 DEF Selection
  <2>4. <<First(N), First(M)>> \in Pairs /\ <<First(N), First(M)>> # NoPair
    BY <1>1, <1>2, <2>2 DEF Pairs, NoPair
  <2>5. use \/ (~Several(Cs) /\ ~Several(Ct))
    BY <1>6
  <2>6. /\ <<First(N), First(M)>>[1] \in N
        /\ <<First(N), First(M)>>[2] \in M
    BY <2>2
  <2> DEFINE s == [message |-> "", pair |-> <<First(N), First(M)>>]
  <2>7. s.message = "" /\ s.pair = <<First(N), First(M)>>
    OBVIOUS
  <2>8. /\ s.pair \in Pairs /\ s.pair # NoPair
        /\ s.pair[1] \in N /\ s.pair[2] \in M
    BY <2>4, <2>6, <2>7
  <2> HIDE DEF s
  <2> QED
    BY <2>1, <2>3, <2>5, <2>7, <2>8 DEF s, Selects
<1> QED
  BY <1>3, <1>4, <1>5, <1>6

(* What compareFunctions prints of an outcome names the success exactly    *)
(* for a verified pair and holds no phrase of an error.                    *)
LEMMA OutputPhrases ==
  ASSUME NEW o \in Outcomes
  PROVE  /\ Output(o) \subseteq Phrases /\ Output(o) \cap ErrorPhrases = {}
         /\ "seems to be correct" \in Output(o) <=> Verified(o)
         /\ "source always UB" \in Output(o) <=> o.alwaysUB
  BY DEF Output, Phrases, ErrorPhrases

(* What compareFunctions counts of an outcome is one success exactly for a *)
(* verified pair.                                                          *)
LEMMA CountsType ==
  ASSUME NEW o \in Outcomes
  PROVE  /\ Counts(o) \in Counters
         /\ Counts(o).correct = 1 <=> Verified(o)
  BY DEF Counts, Counters

(* A summary that was never printed counts nothing.                        *)
LEMMA NoCountsType ==
  /\ NoCounts \in Counters /\ NoCounts.errors = 0 /\ NoCounts.correct # 1
  /\ NotPrinted \in [printed : BOOLEAN, counts : Counters]
  /\ NotPrinted.counts = NoCounts
  BY DEF NoCounts, Counters, NotPrinted

(* What is printed, and the exit status.                                   *)
LEMMA SummariseFits ==
  ASSUME NEW counts \in Counters, Summarise(counts)
  PROVE  /\ main' = "ended" /\ exit' \in {"zero", "failure"}
         /\ counts.errors = 0 => exit' = "zero"
         /\ summary' \in [printed : BOOLEAN, counts : Counters]
         /\ summary'.counts = counts
  BY DEF Summarise, Exit, Counters

(* Before either validator has run nothing has been told or counted.       *)
LEMMA InitInv == Init => Inv
<1> SUFFICES ASSUME Init PROVE Inv
  OBVIOUS
<1>1. TypeOK
  <2>1. NoPair \in Pairs
    BY DEF NoPair, Pairs
  <2> QED
    BY <2>1, NoCountsType DEF Init, TypeOK
<1>2. Consistent /\ RequestFits /\ MainFits
  BY DEF Init, Consistent, RequestFits, MainFits
<1> QED
  BY <1>1, <1>2 DEF Inv

--------------------------------------------------------------------------------
(* What a new answer of the verifier leaves true.                          *)
LEMMA AskFits ==
  ASSUME Consistent, asked \subseteq [question : Questions, outcome : Outcomes],
         NEW direction \in {"forward", "switched"}, NEW pair \in Pairs, pair # NoPair,
         NEW outcome \in Outcomes, Ask(direction, pair, outcome)
  PROVE  /\ Consistent'
         /\ asked' \subseteq [question : Questions, outcome : Outcomes]
         /\ asked \subseteq asked'
         /\ FoundOut(direction, pair, outcome)'
<1>1. [direction |-> direction, pair |-> pair] \in Questions
  BY DEF Questions
<1> QED
  BY <1>1 DEF Ask, Consistent, FoundOut

(* The selections depend on nothing that changes.                          *)
LEMMA SelectionsFixed ==
  ASSUME UNCHANGED input
  PROVE  /\ UNCHANGED <<RequestSelection, MainSelection, SwitchedSelection>>
         /\ UNCHANGED parsed
  BY DEF input, RequestSelection, MainSelection, SwitchedSelection, UseNames

(* What the standalone validator has found stays right when the verifier   *)
(* is asked more.                                                          *)
LEMMA MainFitsKept ==
  ASSUME MainFits, UNCHANGED <<input, standalone>>, asked \subseteq asked'
  PROVE  MainFits'
<1>1. UNCHANGED <<MainSelection, SwitchedSelection, parsed, main, exit, summary, looked>>
  BY SelectionsFixed DEF standalone
<1>2. \A d, p, o : FoundOut(d, p, o) => FoundOut(d, p, o)'
  BY DEF FoundOut
<1>3. SwitchedFits => SwitchedFits'
  BY <1>1, <1>2 DEF SwitchedFits
<1>4. EndedEmpty => EndedEmpty'
  BY <1>1 DEF EndedEmpty
<1>5. EndedOnce => EndedOnce'
  BY <1>1, <1>2 DEF EndedOnce
<1>6. EndedTwice => EndedTwice'
  BY <1>1, <1>2, <1>3 DEF EndedTwice
<1> QED
  BY <1>1, <1>3, <1>4, <1>5, <1>6 DEF MainFits

(* What the full stack has found stays right when the verifier is asked    *)
(* more.                                                                   *)
LEMMA RequestFitsKept ==
  ASSUME RequestFits, UNCHANGED <<input, fullStack>>, asked \subseteq asked'
  PROVE  RequestFits'
<1>1. UNCHANGED <<RequestSelection, parsed, request, text, told, compared>>
  BY SelectionsFixed DEF fullStack
<1>2. \A d, p, o : FoundOut(d, p, o) => FoundOut(d, p, o)'
  BY DEF FoundOut
<1>3. HandledFits => HandledFits'
  BY <1>1, <1>2 DEF HandledFits
<1> QED
  BY <1>1, <1>3 DEF RequestFits, Judgement

(* handle_validate_request keeps the invariant.                            *)
LEMMA HandleStep == Inv /\ HandleValidateRequest => Inv'
<1> SUFFICES ASSUME Inv, HandleValidateRequest PROVE Inv'
  OBVIOUS
<1>0. /\ request = "started" /\ request' = "handled" /\ told' = told
      /\ UNCHANGED <<input, standalone>>
      /\ UNCHANGED <<RequestSelection, parsed>>
  BY SelectionsFixed DEF HandleValidateRequest
<1>1. told = "nothing" /\ asked \subseteq [question : Questions, outcome : Outcomes]
  BY <1>0 DEF Inv, RequestFits, TypeOK
<1>2. CASE ~parsed /\ text' = {} /\ UNCHANGED <<compared, asked>>
  <2>1. TypeOK'
    BY <1>0, <1>2 DEF Inv, TypeOK, input, standalone
  <2>2. HandledFits'
    BY <1>0, <1>2 DEF HandledFits
  <2>3. Consistent' /\ MainFits'
    BY <1>0, <1>2, MainFitsKept DEF Inv, Consistent
  <2> QED
    BY <1>0, <1>1, <2>1, <2>2, <2>3 DEF Inv, RequestFits
<1>3. CASE /\ parsed /\ RequestSelection.message # ""
           /\ text' = {RequestSelection.message} /\ UNCHANGED <<compared, asked>>
  <2>1. TypeOK'
    <3>1. RequestSelection.message \in Phrases
      BY <1>3, SelectionFits DEF Selects, RequestSelection, UseNames, Inv, TypeOK, Phrases
    <3> QED
      BY <1>0, <1>3, <3>1 DEF Inv, TypeOK, input, standalone
  <2>2. HandledFits'
    BY <1>0, <1>3 DEF HandledFits
  <2>3. Consistent' /\ MainFits'
    BY <1>0, <1>3, MainFitsKept DEF Inv, Consistent
  <2> QED
    BY <1>0, <1>1, <2>1, <2>2, <2>3 DEF Inv, RequestFits
<1>4. ASSUME parsed, RequestSelection.message = "", compared' = RequestSelection.pair,
             NEW outcome \in Outcomes, Ask("forward", RequestSelection.pair, outcome),
             text' = Output(outcome)
      PROVE  Inv'
  <2>1. RequestSelection.pair \in Pairs /\ RequestSelection.pair # NoPair
    BY <1>4, SelectionFits DEF Selects, RequestSelection, UseNames, Inv, TypeOK
  <2>0. PICK pair \in Pairs : pair = RequestSelection.pair
    BY <2>1
  <2>2. /\ Consistent' /\ asked \subseteq asked'
        /\ asked' \subseteq [question : Questions, outcome : Outcomes]
        /\ FoundOut("forward", pair, outcome)'
    BY <1>1, <1>4, <2>0, <2>1, AskFits DEF Inv
  <2>3. TypeOK'
    BY <1>0, <1>4, <2>1, <2>2, OutputPhrases DEF Inv, TypeOK, input, standalone
  <2>4. HandledFits'
    BY <1>0, <1>4, <2>0, <2>2 DEF HandledFits, FoundOut
  <2>5. MainFits'
    BY <1>0, <2>2, MainFitsKept DEF Inv
  <2> QED
    BY <1>0, <1>1, <2>2, <2>3, <2>4, <2>5 DEF Inv, RequestFits
<1> QED
  BY <1>2, <1>3, <1>4 DEF HandleValidateRequest

(* The reading of the answer by the relay keeps the invariant.             *)
LEMMA RelayStep == Inv /\ RelayAnswer => Inv'
<1> SUFFICES ASSUME Inv, RelayAnswer PROVE Inv'
  OBVIOUS
<1>1. /\ request = "handled" /\ request' = "told" /\ told' = Judgement
      /\ UNCHANGED <<input, asked, text, compared, standalone>>
      /\ UNCHANGED <<RequestSelection, parsed>>
  BY SelectionsFixed DEF RelayAnswer, Judgement
<1>2. TypeOK'
  BY <1>1 DEF Inv, TypeOK, input, standalone, Judgement
<1>3. Consistent' /\ MainFits'
  BY <1>1, MainFitsKept DEF Inv, Consistent
<1>4. HandledFits' /\ Judgement' = Judgement
  BY <1>1 DEF Inv, RequestFits, HandledFits, FoundOut, Judgement
<1> QED
  BY <1>1, <1>2, <1>3, <1>4 DEF Inv, RequestFits

(* The first comparison of main() keeps the invariant.                     *)
LEMMA MainStep == Inv /\ Main => Inv'
<1> SUFFICES ASSUME Inv, Main PROVE Inv'
  OBVIOUS
<1>0. /\ main = "started" /\ UNCHANGED <<input, fullStack>>
      /\ UNCHANGED <<MainSelection, SwitchedSelection, parsed>>
  BY SelectionsFixed DEF Main
<1>1. /\ looked["forward"] = NoPair /\ summary = NotPrinted
      /\ asked \subseteq [question : Questions, outcome : Outcomes]
      /\ looked \in [{"forward", "switched"} -> Pairs]
  BY <1>0 DEF Inv, MainFits, TypeOK
<1>3. ASSUME ~parsed \/ MainSelection.message # "",
             (Exit(TRUE) /\ UNCHANGED summary) \/ Summarise(NoCounts),
             UNCHANGED <<looked, asked>>
      PROVE  Inv'
  <2>1. /\ main' = "ended" /\ exit' \in {"zero", "failure"}
        /\ summary'.counts = NoCounts
        /\ summary' \in [printed : BOOLEAN, counts : Counters]
    <3>1. CASE Exit(TRUE) /\ UNCHANGED summary
      BY <1>1, <3>1, NoCountsType DEF Exit
    <3>2. CASE Summarise(NoCounts)
      BY <3>2, NoCountsType, SummariseFits
    <3> QED
      BY <1>3, <3>1, <3>2
  <2>2. TypeOK'
    BY <1>0, <1>3, <2>1 DEF Inv, TypeOK, input, fullStack
  <2>3. Consistent' /\ RequestFits'
    BY <1>0, <1>3, RequestFitsKept DEF Inv, Consistent
  <2>4. EndedEmpty'
    BY <1>0, <1>1, <1>3, <2>1 DEF EndedEmpty
  <2> QED
    BY <2>1, <2>2, <2>3, <2>4 DEF Inv, MainFits
<1>4. ASSUME parsed, MainSelection.message = "",
             looked' = [looked EXCEPT !["forward"] = MainSelection.pair],
             NEW outcome \in Outcomes,
             Ask("forward", MainSelection.pair, outcome), AfterComparison(outcome)
      PROVE  Inv'
  <2>1. MainSelection.pair \in Pairs /\ MainSelection.pair # NoPair
    BY <1>4, SelectionFits DEF Selects, MainSelection, Inv, TypeOK
  <2>2. PICK pair \in Pairs : pair = MainSelection.pair
    BY <2>1
  <2>3. /\ Consistent' /\ asked \subseteq asked'
        /\ asked' \subseteq [question : Questions, outcome : Outcomes]
        /\ FoundOut("forward", pair, outcome)'
    BY <1>1, <1>4, <2>1, <2>2, AskFits DEF Inv
  <2>4. looked' \in [{"forward", "switched"} -> Pairs] /\ looked'["forward"] = pair
    BY <1>1, <1>4, <2>2
  <2>5. RequestFits'
    BY <1>0, <2>3, RequestFitsKept DEF Inv
  <2>6. CASE "source always UB" \in Output(outcome)
    <3>1. main' = "switched" /\ UNCHANGED <<exit, summary>> /\ outcome.alwaysUB
      BY <1>4, <2>6, OutputPhrases DEF AfterComparison
    <3>2. TypeOK'
      BY <1>0, <2>3, <2>4, <3>1 DEF Inv, TypeOK, input, fullStack
    <3>3. SwitchedFits'
      BY <1>0, <1>4, <2>2, <2>3, <2>4, <3>1 DEF SwitchedFits, FoundOut
    <3> QED
      BY <1>1, <2>3, <2>5, <3>1, <3>2, <3>3 DEF Inv, MainFits
  <2>7. CASE "source always UB" \notin Output(outcome)
    <3>1. /\ main' = "ended" /\ exit' \in {"zero", "failure"} /\ ~outcome.alwaysUB
          /\ summary' \in [printed : BOOLEAN, counts : Counters]
          /\ summary'.counts = Counts(outcome)
      BY <1>4, <2>7, OutputPhrases, CountsType, SummariseFits DEF AfterComparison
    <3>2. TypeOK'
      BY <1>0, <2>3, <2>4, <3>1 DEF Inv, TypeOK, input, fullStack
    <3>3. EndedOnce'
      BY <1>0, <1>4, <2>2, <2>3, <2>4, <3>1 DEF EndedOnce, FoundOut
    <3> QED
      BY <2>3, <2>5, <3>1, <3>2, <3>3 DEF Inv, MainFits
  <2> QED
    BY <2>6, <2>7
<1> QED
  BY <1>0, <1>3, <1>4 DEF Main

(* The second comparison of main() keeps the invariant.                    *)
LEMMA SwitchedStep == Inv /\ Switched => Inv'
<1> SUFFICES ASSUME Inv, Switched PROVE Inv'
  OBVIOUS
<1>0. /\ main = "switched" /\ UNCHANGED <<input, fullStack>> /\ SwitchedFits
      /\ UNCHANGED <<MainSelection, SwitchedSelection, parsed>>
  BY SelectionsFixed DEF Switched, Inv, MainFits
<1>1. /\ asked \subseteq [question : Questions, outcome : Outcomes]
      /\ looked \in [{"forward", "switched"} -> Pairs]
  BY DEF Inv, TypeOK
<1>2. CASE /\ SwitchedSelection.message # "" /\ Summarise(NoCounts)
           /\ UNCHANGED <<looked, asked>>
  <2>1. /\ main' = "ended" /\ exit' = "zero"
        /\ summary' \in [printed : BOOLEAN, counts : Counters]
        /\ summary'.counts = NoCounts
    BY <1>2, NoCountsType, SummariseFits
  <2>2. TypeOK'
    BY <1>0, <1>2, <2>1 DEF Inv, TypeOK, input, fullStack
  <2>3. Consistent' /\ RequestFits'
    BY <1>0, <1>2, RequestFitsKept DEF Inv, Consistent
  <2>4. EndedTwice'
    BY <1>0, <1>2, <2>1 DEF EndedTwice, SwitchedFits, FoundOut
  <2> QED
    BY <2>1, <2>2, <2>3, <2>4 DEF Inv, MainFits
<1>3. ASSUME SwitchedSelection.message = "",
             looked' = [looked EXCEPT !["switched"] = SwitchedSelection.pair],
             NEW outcome \in Outcomes,
             Ask("switched", SwitchedSelection.pair, outcome), Summarise(Counts(outcome))
      PROVE  Inv'
  <2>1. SwitchedSelection.pair \in Pairs /\ SwitchedSelection.pair # NoPair
    BY <1>3, SelectionFits DEF Selects, SwitchedSelection, Inv, TypeOK
  <2>2. PICK pair \in Pairs : pair = SwitchedSelection.pair
    BY <2>1
  <2>3. /\ Consistent' /\ asked \subseteq asked'
        /\ asked' \subseteq [question : Questions, outcome : Outcomes]
        /\ FoundOut("switched", pair, outcome)'
    BY <1>1, <1>3, <2>1, <2>2, AskFits DEF Inv
  <2>4. /\ looked' \in [{"forward", "switched"} -> Pairs]
        /\ looked'["forward"] = looked["forward"] /\ looked'["switched"] = pair
    BY <1>1, <1>3, <2>2
  <2>5. /\ main' = "ended" /\ exit' \in {"zero", "failure"}
        /\ summary' \in [printed : BOOLEAN, counts : Counters]
        /\ summary'.counts = Counts(outcome)
    BY <1>3, CountsType, SummariseFits
  <2>6. TypeOK'
    BY <1>0, <2>3, <2>4, <2>5 DEF Inv, TypeOK, input, fullStack
  <2>7. RequestFits'
    BY <1>0, <2>3, RequestFitsKept DEF Inv
  <2>8. SwitchedFits'
    BY <1>0, <2>3, <2>4 DEF SwitchedFits, FoundOut
  <2>9. EndedTwice'
    BY <1>0, <1>3, <2>2, <2>3, <2>4, <2>5, <2>8 DEF EndedTwice, FoundOut
  <2> QED
    BY <2>3, <2>5, <2>6, <2>7, <2>9 DEF Inv, MainFits
<1> QED
  BY <1>0, <1>2, <1>3 DEF Switched

(* Stuttering keeps the invariant.                                         *)
LEMMA StutterStep == Inv /\ UNCHANGED vars => Inv'
<1> SUFFICES ASSUME Inv, UNCHANGED vars PROVE Inv'
  OBVIOUS
<1>1. UNCHANGED <<input, fullStack, standalone, asked>>
  BY DEF vars, input, fullStack, standalone
<1>2. TypeOK'
  <2>1. TypeOK
    BY DEF Inv
  <2>2. /\ cpp' \in Modules /\ rust' \in Modules /\ parsed' \in BOOLEAN
        /\ cppName' \in Names \cup {""} /\ rustName' \in Names \cup {""}
        /\ asked' \subseteq [question : Questions, outcome : Outcomes]
    BY <1>1, <2>1 DEF TypeOK, input
  <2>3. /\ request' \in {"started", "handled", "told"} /\ text' \subseteq Phrases
        /\ told' \in {"nothing", "success", "failure", "error"} /\ compared' \in Pairs
    BY <1>1, <2>1 DEF TypeOK, fullStack
  <2>4. /\ main' \in {"started", "switched", "ended"} /\ exit' \in {"none", "zero", "failure"}
        /\ summary' \in [printed : BOOLEAN, counts : Counters]
        /\ looked' \in [{"forward", "switched"} -> Pairs]
    BY <1>1, <2>1 DEF TypeOK, standalone
  <2> QED BY <2>2, <2>3, <2>4 DEF TypeOK
<1> QED
  BY <1>1, <1>2, RequestFitsKept, MainFitsKept DEF Inv, Consistent

(* The inductive invariant holds of every behaviour.                       *)
THEOREM AlwaysInv == Spec => []Inv
<1>1. Inv /\ [Next]_vars => Inv'
  BY HandleStep, RelayStep, MainStep, SwitchedStep, StutterStep DEF Next
<1> QED
  BY InitInv, <1>1, PTL DEF Spec

(* Type correctness.                                                       *)
THEOREM TypeCorrect == Spec => []TypeOK
<1>1. Inv => TypeOK
  BY DEF Inv
<1> QED
  BY <1>1, AlwaysInv, PTL

--------------------------------------------------------------------------------
(* Names are used exactly when both were given, and then they are the      *)
(* names sent.                                                             *)
LEMMA UseNamesFits ==
  ASSUME TypeOK
  PROVE  /\ UseNames <=> cppName # "" /\ rustName # ""
         /\ UseNames => SentName(cppName) = cppName /\ SentName(rustName) = rustName
  BY NamesAssumption DEF TypeOK, UseNames, SentName

(* The request's selection refuses exactly if no pair answers the question.*)
LEMMA MeantFits ==
  ASSUME TypeOK
  PROVE  /\ RequestSelection.message = "" => Meant(RequestSelection.pair)
         /\ RequestSelection.message # "" => \A p : ~Meant(p)
         /\ RequestSelection.message = "" =>
              RequestSelection.pair \in (DOMAIN cpp) \X (DOMAIN rust)
         /\ RequestSelection.message \in {""} \cup ErrorPhrases
<1> DEFINE S == Named(cpp, CppPattern, IF UseNames THEN SentName(cppName) ELSE "")
           T == Named(rust, RustPattern, IF UseNames THEN SentName(rustName) ELSE "")
           Alone == /\ ~Several(Candidates(cpp, CppPattern))
                    /\ ~Several(Candidates(rust, RustPattern))
           r == RequestSelection
<1>1. /\ r.message \in {"", "no functions found", "multiple functions found",
                        "function not found"}
      /\ r.message = "" <=> S # {} /\ T # {} /\ (UseNames \/ Alone)
      /\ r.message = "" =>
           r.pair \in Pairs /\ r.pair # NoPair /\ r.pair[1] \in S /\ r.pair[2] \in T
  <2>1. UseNames \in BOOLEAN
    BY DEF UseNames
  <2>2. Selects(r, cpp, CppPattern, rust, RustPattern, UseNames,
                SentName(cppName), SentName(rustName))
    <3>1. cpp \in Modules /\ rust \in Modules
      BY DEF TypeOK
    <3> QED
      BY <2>1, <3>1, SelectionFits DEF RequestSelection
  <2> QED
    BY <2>2 DEF Selects
<1>2. \A k : k \in S <=> /\ k \in Candidates(cpp, CppPattern)
                         /\ UseNames => Contains(cpp[k], cppName)
  BY UseNamesFits DEF Named, Contains
<1>3. \A k : k \in T <=> /\ k \in Candidates(rust, RustPattern)
                         /\ UseNames => Contains(rust[k], rustName)
  BY UseNamesFits DEF Named, Contains
<1>4. S \subseteq DOMAIN cpp /\ T \subseteq DOMAIN rust
  BY DEF Named, Candidates
<1>5. \A p : Meant(p) <=> p[1] \in S /\ p[2] \in T /\ (UseNames \/ Alone)
  BY <1>2, <1>3, UseNamesFits DEF Meant
<1> HIDE DEF S, T, Alone, r
<1>6. r.message = "" => Meant(r.pair)
  BY <1>1, <1>5
<1>7. r.message # "" => \A p : ~Meant(p)
  BY <1>1, <1>5
<1>8. r.message = "" => r.pair \in (DOMAIN cpp) \X (DOMAIN rust)
  BY <1>1, <1>4 DEF Pairs
<1>9. r.message \in {""} \cup ErrorPhrases
  BY <1>1 DEF ErrorPhrases
<1> QED
  BY <1>6, <1>7, <1>8, <1>9 DEF r

(* What the request is told, by how the validator's text came about.       *)
LEMMA ToldFits ==
  ASSUME Inv, told # "nothing"
  PROVE  \/ ~parsed /\ told = "failure"
         \/ parsed /\ RequestSelection.message # "" /\ told = "error"
         \/ /\ parsed /\ RequestSelection.message = "" /\ compared = RequestSelection.pair
            /\ \E outcome \in Outcomes :
                 /\ FoundOut("forward", compared, outcome)
                 /\ told = IF Verified(outcome) THEN "success" ELSE "failure"
<1>1. request = "told" /\ told = Judgement
  BY DEF Inv, RequestFits
<1>2. HandledFits
  BY <1>1 DEF Inv, RequestFits
<1>3. CASE ~parsed /\ text = {}
  BY <1>1, <1>3 DEF Judgement
<1>4. CASE parsed /\ RequestSelection.message # "" /\ text = {RequestSelection.message}
  BY <1>1, <1>4, MeantFits DEF Judgement, Inv
<1>5. CASE /\ parsed /\ RequestSelection.message = "" /\ compared = RequestSelection.pair
           /\ \E outcome \in Outcomes :
                FoundOut("forward", compared, outcome) /\ text = Output(outcome)
  BY <1>1, <1>5, OutputPhrases DEF Judgement
<1> QED
  BY <1>2, <1>3, <1>4, <1>5 DEF HandledFits

(* A success told is that of a pair the user meant, a failure told is that *)
(* of a pair the user meant or of a module that could not be parsed.       *)
THEOREM VerdictTrueHolds == Spec => []VerdictTrue
<1>1. Inv => VerdictTrue
  BY ToldFits, MeantFits DEF VerdictTrue, Inv
<1> QED
  BY <1>1, AlwaysInv, PTL

(* An error is told exactly if no pair answers the user's question.        *)
THEOREM ErrorsExplainedHolds == Spec => []ErrorsExplained
<1>1. Inv => ErrorsExplained
  BY ToldFits, MeantFits DEF ErrorsExplained, Inv
<1> QED
  BY <1>1, AlwaysInv, PTL

(* With both names or none the two programs select alike.                  *)
LEMMA SelectionsAgree ==
  ASSUME TypeOK, cppName = "" <=> rustName = ""
  PROVE  RequestSelection = MainSelection
<1>1. UseNames <=> cppName # "" \/ rustName # ""
  BY UseNamesFits
<1>2. CASE UseNames
  BY <1>1, <1>2, UseNamesFits DEF RequestSelection, MainSelection
<1>3. CASE ~UseNames
  BY <1>1, <1>3 DEF RequestSelection, MainSelection, Selection
<1> QED
  BY <1>2, <1>3

(* The two programs agree, but for a source that is always undefined.      *)
THEOREM VerdictsAgreeHolds == Spec => []VerdictsAgree
<1>1. Inv => VerdictsAgree
  <2> SUFFICES ASSUME Inv, request = "told", main = "ended", cppName = "" <=> rustName = "",
                      ~Noted
               PROVE  told = "success" <=> summary.counts.correct = 1
    BY DEF VerdictsAgree
  <2>1. told # "nothing" /\ RequestSelection = MainSelection
    BY SelectionsAgree DEF Inv, RequestFits, Judgement
  <2>2. CASE EndedEmpty
    <3>1. summary.counts.correct # 1
      BY <2>2, NoCountsType DEF EndedEmpty
    <3>2. told # "success"
      <4>1. ~parsed \/ RequestSelection.message # ""
        BY <2>1, <2>2 DEF EndedEmpty
      <4> QED
        BY <2>1, <4>1, ToldFits
    <3> QED
      BY <3>1, <3>2
  <2>3. CASE EndedOnce
    <3>1. PICK o \in Outcomes : /\ FoundOut("forward", looked["forward"], o)
                                /\ summary.counts = Counts(o)
      BY <2>3 DEF EndedOnce
    <3>2. PICK p \in Outcomes :
            /\ FoundOut("forward", looked["forward"], p)
            /\ told = IF Verified(p) THEN "success" ELSE "failure"
      BY <2>1, <2>3, ToldFits DEF EndedOnce
    <3>3. o = p
      BY <3>1, <3>2 DEF Inv, Consistent, FoundOut
    <3> QED
      BY <3>1, <3>2, <3>3, CountsType
  <2>4. ~EndedTwice
    BY DEF EndedTwice, SwitchedFits, Noted
  <2> QED
    BY <2>2, <2>3, <2>4 DEF Inv, MainFits
<1> QED
  BY <1>1, AlwaysInv, PTL

(* The summary never counts a refinement of a source that is always        *)
(* undefined, and with several candidates the second comparison is none.   *)
THEOREM SecondLookHolds == Spec => []SecondLook
<1>1. Inv => SecondLook
  <2> SUFFICES ASSUME Inv, main = "ended", Noted
               PROVE  SecondLook
    BY DEF SecondLook
  <2>1. PICK o \in Outcomes : o.alwaysUB /\ FoundOut("forward", looked["forward"], o)
    BY DEF Noted
  <2>2. ~EndedEmpty
    BY <2>1 DEF EndedEmpty, Inv, Consistent, FoundOut
  <2>3. ~EndedOnce
    BY <2>1 DEF EndedOnce, Inv, Consistent, FoundOut
  <2>4. EndedTwice
    BY <2>2, <2>3 DEF Inv, MainFits
  <2> DEFINE S == Candidates(rust, RustPattern)
             T == Candidates(cpp, CppPattern)
  <2>5. S = Named(rust, RustPattern, "") /\ T = Named(cpp, CppPattern, "")
    BY DEF Named, Contains
  <2>6. SwitchedSelection.message = "" <=> S # {} /\ T # {} /\ ~Several(S) /\ ~Several(T)
    <3>1. rust \in Modules /\ cpp \in Modules
      BY DEF Inv, TypeOK
    <3>2. Selects(SwitchedSelection, rust, RustPattern, cpp, CppPattern, FALSE, "", "")
      BY <3>1, SelectionFits DEF SwitchedSelection
    <3> QED
      BY <2>5, <3>2 DEF Selects
  <2>7. S # {} /\ T # {}
    <3>1. MainSelection.message = ""
      BY <2>4 DEF EndedTwice, SwitchedFits
    <3> QED
      BY <3>1, SelectionFits DEF Selects, MainSelection, Named, Inv, TypeOK
  <2> HIDE DEF S, T
  <2> QED
    BY <2>4, <2>6, <2>7 DEF EndedTwice, SecondLook, S, T
<1> QED
  BY <1>1, AlwaysInv, PTL
================================================================================
