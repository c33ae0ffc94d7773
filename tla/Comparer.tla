------------------------------- MODULE Comparer -------------------------------
(***************************************************************************)
(* The comparison of two IR modules: which two functions Comparer.compare  *)
(* picks, and what Verifier::compareFunctions makes of what alive2 finds   *)
(* out about them.  Both programs use it, the validator server and the     *)
(* standalone validator.                                                   *)
(***************************************************************************)
EXTENDS Naturals, Sequences

CONSTANT
  Names         \* the function names a user can ask for

ASSUME NamesAssumption == Names \cap {"", "EMPTY"} = {}

(* A function of a module: whether it has no body, the patterns its name   *)
(* starts with, and the names its name contains.  "_ZN" starts with "_Z".  *)
Functions ==
  [declaration : BOOLEAN, patterns : {{}, {"_Z"}, {"_Z", "_ZN"}}, contains : SUBSET Names]

CppPattern  == "_Z"
RustPattern == "_ZN"

(* The places, in the order of the module, of the functions that are not   *)
(* skipped.                                                                *)
Candidates(module, pattern) ==
  {k \in DOMAIN module : ~module[k].declaration /\ pattern \in module[k].patterns}

Contains(function, name) == name = "" \/ name \in function.contains

(* Mutant: the name is not looked at.                                      *)
NamedAny(module, pattern, name) == Candidates(module, pattern)

Named(module, pattern, name) ==
  {k \in Candidates(module, pattern) : Contains(module[k], name)}

First(places) == CHOOSE k \in places : \A l \in places : k <= l

Several(places) == \E k, l \in places : k # l

NoPair == <<0, 0>>

(* What compare() does before it calls the verifier: the message it        *)
(* returns with, or the pair it goes on with.                              *)
Selection(src, srcPattern, tgt, tgtPattern, use, srcName, tgtName) ==
  LET S == Candidates(src, srcPattern)
      T == Candidates(tgt, tgtPattern)
      N == Named(src, srcPattern, IF use THEN srcName ELSE "")
      M == Named(tgt, tgtPattern, IF use THEN tgtName ELSE "")
      Refuse(message) == [message |-> message, pair |-> NoPair]
  IN  CASE S = {} \/ T = {}                      -> Refuse("no functions found")
        [] S # {} /\ T # {} /\ ~use /\ (Several(S) \/ Several(T))
                                                 -> Refuse("multiple functions found")
        [] S # {} /\ T # {} /\ use /\ (N = {} \/ M = {})
                                                 -> Refuse("function not found")
        [] OTHER -> [message |-> "", pair |-> <<First(N), First(M)>>]

--------------------------------------------------------------------------------
(* What alive2 finds out: a status, and the warning that the source is     *)
(* always undefined, which leaves nothing to refute.  compareFunctions may *)
(* also throw.                                                             *)
Statuses == {"ERROR", "TYPE_CHECKER_FAILED", "SYNTACTIC_EQ", "CORRECT", "UNSOUND",
             "FAILED_TO_PROVE"}

Outcomes ==
  [status : Statuses \cup {"throws"}, alwaysUB : {FALSE}]
    \cup [status : {"CORRECT", "FAILED_TO_PROVE"}, alwaysUB : {TRUE}]

Verified(outcome) == outcome.status \in {"SYNTACTIC_EQ", "CORRECT"}

(* The phrases of its output that anyone looks for.  That it also returns  *)
(* true for all it cannot refute is read by nobody but for an error line.  *)
Output(outcome) ==
  (IF Verified(outcome) THEN {"seems to be correct"} ELSE {})
    \cup (IF outcome.alwaysUB THEN {"source always UB"} ELSE {})

(* Mutant: a syntactic equality is not counted.                            *)
CountsSMT(outcome) ==
  [correct |-> IF outcome.status = "CORRECT" THEN 1 ELSE 0,
   unsound |-> IF outcome.status = "UNSOUND" THEN 1 ELSE 0,
   failed  |-> IF outcome.status = "FAILED_TO_PROVE" THEN 1 ELSE 0,
   errors  |-> IF outcome.status \in {"ERROR", "TYPE_CHECKER_FAILED"} THEN 1 ELSE 0]

(* Its counters, for a verifier that has compared once.                    *)
Counts(outcome) ==
  [correct |-> IF Verified(outcome) THEN 1 ELSE 0,
   unsound |-> IF outcome.status = "UNSOUND" THEN 1 ELSE 0,
   failed  |-> IF outcome.status = "FAILED_TO_PROVE" THEN 1 ELSE 0,
   errors  |-> IF outcome.status \in {"ERROR", "TYPE_CHECKER_FAILED"} THEN 1 ELSE 0]

Counters == [correct : 0..1, unsound : 0..1, failed : 0..1, errors : 0..1]

NoCounts == [correct |-> 0, unsound |-> 0, failed |-> 0, errors |-> 0]
================================================================================
