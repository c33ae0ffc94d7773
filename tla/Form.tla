----------------------------------- MODULE Form -----------------------------------
(***************************************************************************)
(* The form of the frontend (CodeEditorForm.tsx).  A submit runs through   *)
(* two awaited requests; meanwhile the user edits, clears and closes what  *)
(* is shown, and the only thing between two submits is a button that the   *)
(* loading flags disable.  An exception while the form is rendered makes   *)
(* the ErrorBoundary around it take the form away with its state; "Try     *)
(* again" puts a new one there.                                            *)
(***************************************************************************)
EXTENDS Naturals, FiniteSets

CONSTANTS
  Submissions,  \* bound: calls of handleSubmit
  Texts,        \* contents with code in both editors
  Long          \* those with an editor above CODE_LENGTH_LIMIT

ASSUME TextsAssumption ==
  /\ Long \subseteq Texts
  /\ Texts \cap {"empty", "half"} = {}
ASSUME SubmissionsAssumption == "none" \notin Submissions

VARIABLES
  input,        \* the editors: "empty", "half" (code in one of them), or both
  mounted,      \* the form is there, not the message of the ErrorBoundary
  flight,       \* flight[i]: "unused", "generating", "validating", "ended"
  lost,         \* submits of a form that is gone
  isGeneratingIR, isLoading,
  ir,           \* the submission whose IR is stored, or "none"
  result,       \* [of |-> submission, kind |-> "verified", "failed", "error"]
  showIRModal,
  toast         \* its type: "info", "success", "error", or "none"

vars == <<input, mounted, flight, lost, isGeneratingIR, isLoading, ir, result,
          showIRModal, toast>>

NoResult == [of |-> "none", kind |-> "none"]

(* Every variable has its type.                                            *)
TypeOK ==
  /\ input \in Texts \cup {"empty", "half"}
  /\ mounted \in BOOLEAN
  /\ lost \subseteq Submissions
  /\ flight \in [Submissions -> {"unused", "generating", "validating", "ended"}]
  /\ isGeneratingIR \in BOOLEAN /\ isLoading \in BOOLEAN /\ showIRModal \in BOOLEAN
  /\ ir \in Submissions \cup {"none"}
  /\ result \in [of : Submissions \cup {"none"},
                 kind : {"none", "verified", "failed", "error"}]
  /\ toast \in {"none", "info", "success", "error"}

Init ==
  /\ input = "empty"
  /\ mounted = TRUE
  /\ lost = {}
  /\ flight = [i \in Submissions |-> "unused"]
  /\ isGeneratingIR = FALSE /\ isLoading = FALSE /\ showIRModal = FALSE
  /\ ir = "none"
  /\ result = NoResult
  /\ toast = "none"

InFlight(i) == i \notin lost /\ flight[i] \in {"generating", "validating"}

Move(i, stage) == flight' = [flight EXCEPT ![i] = stage]

(* Mutant: only isLoading disables the button.                             *)
CanSubmitLoading == mounted /\ input \in Texts /\ ~isLoading

(* The submit button (269) and the test of handleSubmit (44).  The buttons *)
(* that close the modal and the toast have no type and are submit buttons  *)
(* too; React has taken them out of the form before the browser submits.   *)
CanSubmit == mounted /\ input \in Texts /\ ~isLoading /\ ~isGeneratingIR

Finally == isGeneratingIR' = FALSE /\ isLoading' = FALSE

(* Mutant: there is no finally.                                            *)
FailForgets(i) ==
  /\ Move(i, "ended")
  /\ result' = [of |-> i, kind |-> "error"]
  /\ toast' = "error"
  /\ UNCHANGED <<isGeneratingIR, isLoading>>

(* catch and finally                                                       *)
Fail(i) ==
  /\ Move(i, "ended")
  /\ result' = [of |-> i, kind |-> "error"]
  /\ toast' = "error"
  /\ Finally

(* Mutant: the old result stays until there is a new one.                  *)
SubmitKeeps(i) ==
  /\ flight[i] = "unused"
  /\ CanSubmit
  /\ IF input \in Long
     THEN Fail(i)
     ELSE /\ Move(i, "generating")
          /\ isGeneratingIR' = TRUE
          /\ toast' = "info"
          /\ UNCHANGED <<isLoading, result>>
  /\ UNCHANGED <<input, mounted, lost, ir, showIRModal>>

Submit(i) ==
  /\ flight[i] = "unused"
  /\ CanSubmit
  /\ IF input \in Long
     THEN Fail(i)
     ELSE /\ Move(i, "generating")
          /\ isGeneratingIR' = TRUE
          /\ result' = NoResult
          /\ toast' = "info"
          /\ UNCHANGED isLoading
  /\ UNCHANGED <<input, mounted, lost, ir, showIRModal>>

(* The answer to /api/generate-ir: an error, IRs that exceed               *)
(* LLVM_IR_LENGTH_LIMIT, or IRs that are sent to /api/validate at once.    *)
Generated(i) ==
  /\ flight[i] = "generating" /\ InFlight(i)
  /\ \/ Fail(i) /\ UNCHANGED <<ir, showIRModal>>
     \/ /\ ir' = i
        /\ showIRModal' = TRUE
        /\ \/ Fail(i)
           \/ /\ Move(i, "validating")
              /\ isLoading' = TRUE
              /\ toast' = "info"
              /\ UNCHANGED <<isGeneratingIR, result>>
  /\ UNCHANGED <<input, mounted, lost>>

(* Mutant: the toast is that of a success whatever the verdict.            *)
ValidatedCheers(i) ==
  /\ flight[i] = "validating" /\ InFlight(i)
  /\ \/ Fail(i)
     \/ \E success \in BOOLEAN :
          /\ Move(i, "ended")
          /\ result' = [of |-> i, kind |-> IF success THEN "verified" ELSE "failed"]
          /\ toast' = "success"
          /\ Finally
  /\ UNCHANGED <<input, mounted, lost, ir, showIRModal>>

Validated(i) ==
  /\ flight[i] = "validating" /\ InFlight(i)
  /\ \/ Fail(i)
     \/ \E success \in BOOLEAN :
          /\ Move(i, "ended")
          /\ result' = [of |-> i, kind |-> IF success THEN "verified" ELSE "failed"]
          /\ toast' = IF success THEN "success" ELSE "error"
          /\ Finally
  /\ UNCHANGED <<input, mounted, lost, ir, showIRModal>>

beside == <<mounted, flight, lost, isGeneratingIR, isLoading>>

Edit ==
  /\ mounted
  /\ input' \in (Texts \cup {"empty", "half"}) \ {input}
  /\ UNCHANGED <<beside, ir, result, showIRModal, toast>>

ClearAll ==
  /\ mounted
  /\ input # "empty" \/ ir # "none"
  /\ input' = "empty"
  /\ ir' = "none"
  /\ result' = NoResult
  /\ UNCHANGED <<beside, showIRModal, toast>>

CloseModal ==
  /\ showIRModal
  /\ showIRModal' = FALSE
  /\ UNCHANGED <<beside, input, ir, result, toast>>

(* By its button or by its timer.                                          *)
CloseToast ==
  /\ toast # "none"
  /\ toast' = "none"
  /\ UNCHANGED <<beside, input, ir, result, showIRModal>>

(* The form is unmounted: its state is gone, its fetches are not.          *)
RenderFails ==
  /\ mounted
  /\ mounted' = FALSE
  /\ lost' = {i \in Submissions : flight[i] \in {"generating", "validating"}}
  /\ input' = "empty"
  /\ isGeneratingIR' = FALSE /\ isLoading' = FALSE /\ showIRModal' = FALSE
  /\ ir' = "none"
  /\ result' = NoResult
  /\ toast' = "none"
  /\ UNCHANGED flight

TryAgain ==
  /\ ~mounted
  /\ mounted' = TRUE
  /\ UNCHANGED <<input, flight, lost, isGeneratingIR, isLoading, ir, result,
                 showIRModal, toast>>

(* Mutant: what the fetch of the old form brings ends the loading of the   *)
(* new one.                                                                *)
OrphanedFinally(i) ==
  /\ i \in lost
  /\ \/ flight[i] = "generating" /\ (Move(i, "validating") \/ Move(i, "ended"))
     \/ flight[i] = "validating" /\ Move(i, "ended")
  /\ Finally
  /\ UNCHANGED <<input, mounted, lost, ir, result, showIRModal, toast>>

(* handleSubmit goes on for a form that is gone: it sends what is left to  *)
(* send, and sets nothing.                                                 *)
Orphaned(i) ==
  /\ i \in lost
  /\ \/ flight[i] = "generating" /\ (Move(i, "validating") \/ Move(i, "ended"))
     \/ flight[i] = "validating" /\ Move(i, "ended")
  /\ UNCHANGED <<input, mounted, lost, isGeneratingIR, isLoading, ir, result,
                 showIRModal, toast>>

Answered(i) == Generated(i) \/ Validated(i)

Next ==
  \/ \E i \in Submissions : Submit(i) \/ Answered(i) \/ Orphaned(i)
  \/ Edit \/ ClearAll \/ CloseModal \/ CloseToast
  \/ RenderFails \/ TryAgain

(* A request of the frontend ends, if by the timeout of the route's fetch. *)
Fairness == \A i \in Submissions : WF_vars(Answered(i))

Spec == Init /\ [][Next]_vars /\ Fairness

--------------------------------------------------------------------------------
(* The flags are all that keeps two submits of a form apart, and they do:  *)
(* one is under way at most (CodeEditorForm.tsx:269).                      *)
SingleFlight == \A i, j \in Submissions : InFlight(i) /\ InFlight(j) => i = j

(* The button is disabled exactly while a submit is under way, and the     *)
(* modal shows "Validating" exactly while the validation is (48, 78,       *)
(* 119-120, 263).  So the button never shows "Validating Translation..."   *)
(* (285-291): that needs isLoading without isGeneratingIR.                 *)
BusyShown ==
  /\ isGeneratingIR <=> \E i \in Submissions : InFlight(i)
  /\ isLoading <=> \E i \in Submissions : InFlight(i) /\ flight[i] = "validating"

(* A verdict is never kept beside the IR of another submit: it is about    *)
(* the IR stored, or about one the user has cleared since (72-73, 104).    *)
VerdictFitsIR ==
  result.kind \in {"verified", "failed"} => ir \in {result.of, "none"}

(* A toast says what is the case: work is under way, or the result it      *)
(* tells of is the one shown, unless that was cleared (53, 79, 105-112).   *)
ToastFits ==
  /\ toast = "info" => isGeneratingIR
  /\ toast = "success" => result.kind \in {"verified", "none"}
  /\ toast = "error" => result.kind \in {"failed", "error", "none"}

(* How many answers a submit still waits for.                              *)
AnswersLeft(stage) == CASE stage = "generating" -> 2 [] stage = "validating" -> 1 [] OTHER -> 0

(* The form is busy with one submit at a time and only until that has its  *)
(* answers: the flags are not handed on from a submit to the next, a       *)
(* submit neither asks twice nor goes back, and one that has ended or was  *)
(* lost with its form never makes the form busy again (118-121).           *)
BusyForOne ==
  [][/\ isGeneratingIR /\ isGeneratingIR' => \E i \in Submissions : InFlight(i) /\ InFlight(i)'
     /\ \A i \in Submissions : flight[i] # "unused" =>
          /\ flight'[i] = flight[i] \/ AnswersLeft(flight'[i]) < AnswersLeft(flight[i])
          /\ InFlight(i)' => InFlight(i)]_vars

(* Whatever goes wrong on the way, the form can be used again (118-121).   *)
FormReleased == isGeneratingIR ~> ~isGeneratingIR
================================================================================
