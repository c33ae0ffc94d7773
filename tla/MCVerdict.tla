------------------------------ MODULE MCVerdict ------------------------------
(* Verdict with modules of at most two functions: an external declaration,  *)
(* a function named as asked for, one of another name that starts with "_Z" *)
(* only, and one of another name that starts with "_ZN".                    *)
EXTENDS Display

MCFunctions ==
  {[declaration |-> TRUE,  patterns |-> {"_Z", "_ZN"}, contains |-> Names],
   [declaration |-> FALSE, patterns |-> {"_Z", "_ZN"}, contains |-> Names],
   [declaration |-> FALSE, patterns |-> {"_Z"},        contains |-> {}],
   [declaration |-> FALSE, patterns |-> {"_Z", "_ZN"}, contains |-> {}]}

MCModules == UNION {[1..n -> MCFunctions] : n \in 0..2}
================================================================================
