---------------------------------- MODULE Routes ----------------------------------
(***************************************************************************)
(* The API routes of the frontend (app/api/.../route.ts): what the relay's *)
(* reply becomes on its way to the form, and the message the form makes of *)
(* it.  A route keeps no state.                                            *)
(***************************************************************************)

(* What the fetch of a route gives: a 200 with the IRs or the verdict, the *)
(* relay's own error, a reply that is no JSON (the library's 500 or 404),  *)
(* or an exception (refused, cut, timed out).                              *)
Threw == {"no JSON", "no reply"}

GenerateReplies == {"irs", "error"} \cup Threw
ValidateReplies == {"verified", "not verified", "error"} \cup Threw

(* What a route answers: its body, and the field "error" of it.            *)
Passed(reply)  == [ok |-> TRUE,  body |-> reply,  error |-> "absent"]
Refused(error) == [ok |-> FALSE, body |-> "none", error |-> error]

(* Mutant: the error is not serialized.                                    *)
GenerateRouteSilent(reply) ==
  IF reply \in Threw THEN Refused("absent")
  ELSE IF reply = "error" THEN Refused("text")
  ELSE Passed(reply)

GenerateRoute(reply) ==
  IF reply = "error" \/ reply \in Threw THEN Refused("text") ELSE Passed(reply)

(* What the catch of this one answers is shaped like a result, and has no  *)
(* field "error".                                                          *)
ValidateRoute(reply) ==
  IF reply \in Threw THEN Refused("absent")
  ELSE IF reply = "error" THEN Refused("text")
  ELSE Passed(reply)

(* The fetch of the form fails itself, or brings no JSON.                  *)
Unreachable == Refused("text")

GenerateAnswers == {GenerateRoute(r) : r \in GenerateReplies} \cup {Unreachable}
ValidateAnswers == {ValidateRoute(r) : r \in ValidateReplies} \cup {Unreachable}

(* new Error(undefined) has the message "".                                *)
ErrorMessage(answer) == IF answer.error = "absent" THEN "empty" ELSE "text"
================================================================================
