--------------------------------- MODULE Frontend ---------------------------------
(***************************************************************************)
(* The page: the form, the routes its requests go through, and the widgets *)
(* in it.  Every change of the form's state renders the widgets anew, and  *)
(* their effects run: the toast starts its timer again (Toast.tsx), the IR *)
(* editors come and go with the modal and set up the shared Monaco         *)
(* (CodeEditor.tsx), the modal scrolls (LLVMIRModal.tsx), and the button   *)
(* beside the output copies it (CopyButton.tsx).                            *)
(***************************************************************************)
EXTENDS Form, Routes, Sequences

CONSTANTS
  Duration,     \* ticks a toast is shown
  Examples,     \* bound: the options of the selector that are chosen
  MaxCopies     \* bound: copies under way or shown at once

(* The examples; the key of one stands for its code in both languages.     *)
Catalogue ==
  {"simple_struct", "simple_enum", "switch_case", "add_u32", "binary_search",
   "access_array", "deref", "simple_generic", "initialize_array", "clone",
   "bitfield_ops", "div_by_zero", "callback", "simple_reference", "union",
   "factorial", "nested_switch"}

(* What the selector offers beside "Select an example...".                 *)
Options ==
  {"simple_struct", "simple_enum", "switch_case", "add_u32", "simple_generic", "deref",
   "binary_search", "access_array", "simple_reference", "union", "initialize_array",
   "div_by_zero", "clone", "callback", "bitfield_ops", "factorial", "nested_switch"}

ASSUME OptionsAssumption == Options \subseteq Catalogue
ASSUME ExamplesAssumption == Examples \subseteq Options /\ Examples \subseteq Texts \ Long
ASSUME DurationAssumption == Duration \in Nat \ {0}

VARIABLES
  reason,       \* what a result says: "none", "text", or "empty" for an error
                \* without a word
  timers,       \* ages of the timers of the toast that were not cleared
  shownFor,     \* history: the age of what the toast says
  selected,     \* the example the selector shows, or "" for none
  providers,    \* hover providers registered with Monaco for llvm
  theme,        \* Monaco's one theme: "light", "llvm-theme"
  listening,    \* the modal listens to its scrolling
  scrollPosition, scrollTop,  \* what the modal saved, and where it is: 0 or 1
  copying,      \* outputs on their way to the clipboard, by their submission
  copied,       \* the output the button says is "Copied!", or "none"
  copyTimers    \* timers that will have it say "Copy Output" again

scrolling == <<listening, scrollPosition, scrollTop>>
copies == <<copying, copied, copyTimers>>
widgets == <<reason, timers, shownFor, selected, providers, theme, scrolling, copies>>
FEVars == <<vars, widgets>>

Ages == 0..Duration

(* Every variable has its type.                                            *)
FETypeOK ==
  /\ TypeOK
  /\ reason \in {"none", "text", "empty"}
  /\ timers \subseteq Ages /\ shownFor \in Ages
  /\ selected \in Examples \cup {""}
  /\ providers \in Nat
  /\ theme \in {"light", "llvm-theme"}
  /\ listening \in BOOLEAN
  /\ scrollPosition \in {0, 1} /\ scrollTop \in {0, 1}
  /\ copying \in Seq(Submissions)
  /\ copied \in Submissions \cup {"none"}
  /\ copyTimers \in Nat

FEInit ==
  /\ Init
  /\ reason = "none"
  /\ timers = {} /\ shownFor = 0
  /\ selected = ""
  /\ providers = 0
  /\ theme = "light"
  /\ listening = FALSE
  /\ scrollPosition = 0 /\ scrollTop = 0
  /\ copying = <<>> /\ copied = "none" /\ copyTimers = 0

--------------------------------------------------------------------------------
(* What a change of the form's state does to the widgets.                  *)

(* Mutant: the effect of the toast has no cleanup.                         *)
ToastEffectKeeps ==
  /\ timers' = IF toast' = "none" THEN timers ELSE timers \cup {0}
  /\ shownFor' = IF toast' = "none" \/ flight' # flight THEN 0 ELSE shownFor

(* onClose is a new function at every render, so the effect runs again:    *)
(* the cleanup clears the old timer.                                       *)
ToastEffect ==
  /\ timers' = IF toast' = "none" THEN {} ELSE {0}
  /\ shownFor' = IF toast' = "none" \/ flight' # flight THEN 0 ELSE shownFor

(* The left and the right half of the modal (LLVMIRModal.tsx).             *)
IRPane == IF ir = "none" THEN "Generating IR..." ELSE "editors"

ResultPane == IF isLoading THEN "Validating translation..."
              ELSE IF result.kind = "none" THEN "nothing"
              ELSE IF result.kind = "verified" THEN "Translation Verified"
              ELSE "Verification Failed"

IRShown == showIRModal /\ IRPane = "editors"

OutputShown == showIRModal /\ ResultPane \in {"Translation Verified", "Verification Failed"}

(* handleEditorDidMount: only register the language once.                  *)
Register(known) == IF known = 0 THEN 1 ELSE known

(* Mutant: the theme is set with the language, once.                       *)
EditorEffectOnce ==
  IF IRShown' /\ ~IRShown
  THEN /\ providers' = Register(Register(providers))
       /\ theme' = IF providers = 0 THEN "llvm-theme" ELSE theme
  ELSE /\ theme' = IF mounted' /\ ~mounted THEN "light" ELSE theme
       /\ UNCHANGED providers

(* An editor that mounts sets its theme, "light", for all of Monaco; then  *)
(* the handler of each of the two IR editors registers the language unless *)
(* it finds it, and sets the theme for IR.  The code editors mount with    *)
(* the form.                                                               *)
EditorEffect ==
  IF IRShown' /\ ~IRShown
  THEN providers' = Register(Register(providers)) /\ theme' = "llvm-theme"
  ELSE /\ theme' = IF mounted' /\ ~mounted THEN "light" ELSE theme
       /\ UNCHANGED providers

(* The listener is added when the modal is mounted, if its container is    *)
(* there: it is when the modal is open.  A new result puts the container   *)
(* where the saved position says; a container that opens is at the top.    *)
(* The modal is mounted closed, so no listener is ever added and nothing   *)
(* saved, which is not what the comments at 628 and 641 say.               *)
ScrollEffect ==
  /\ listening' = IF mounted' # mounted THEN mounted' /\ showIRModal' ELSE listening
  /\ scrollPosition' = IF mounted' THEN scrollPosition ELSE 0
  /\ scrollTop' = IF ~showIRModal' THEN 0
                  ELSE IF result' # result THEN scrollPosition'
                  ELSE scrollTop

(* Mutant: the state of the button outlives it.                            *)
CopyEffectKeeps == UNCHANGED copies

(* The button goes with the output, and what it awaits finds nobody.       *)
CopyEffect ==
  IF OutputShown' THEN UNCHANGED copies
  ELSE copying' = <<>> /\ copied' = "none" /\ copyTimers' = 0

Says(text) ==
  reason' = IF result' = NoResult THEN "none"
            ELSE IF result' = result THEN reason
            ELSE text

Render(text) ==
  /\ ToastEffect /\ EditorEffect /\ ScrollEffect /\ CopyEffect
  /\ Says(text)

--------------------------------------------------------------------------------
(* The form's steps with the routes' answers.                              *)

FormSubmits(i) == Submit(i) /\ Render("text") /\ UNCHANGED selected

(* An answer that is no error has IRs, which may be too long.              *)
GenerateAnswered(i) ==
  /\ Generated(i)
  /\ \E answer \in GenerateAnswers :
       /\ answer.ok <=> ir' = i
       /\ Render(ErrorMessage(IF answer.ok THEN Refused("text") ELSE answer))
  /\ UNCHANGED selected

ValidateAnswered(i) ==
  /\ Validated(i)
  /\ \E answer \in ValidateAnswers :
       /\ result'.kind = IF ~answer.ok THEN "error"
                         ELSE IF answer.body = "verified" THEN "verified"
                         ELSE "failed"
       /\ Render(IF answer.ok THEN "text" ELSE ErrorMessage(answer))
  /\ UNCHANGED selected

UserActs ==
  /\ Edit \/ ClearAll \/ CloseModal \/ CloseToast
  /\ Render("text")
  /\ UNCHANGED selected

(* A name is typed: the form is rendered with the rest as it was.          *)
TypeName ==
  /\ mounted
  /\ UNCHANGED vars
  /\ Render("text")
  /\ UNCHANGED selected

(* The change event comes with another option than before; the empty one   *)
(* selects nothing.                                                        *)
SelectExample(e) ==
  /\ mounted
  /\ e # selected
  /\ selected' = e
  /\ IF e \notin Examples \/ e = input
     THEN UNCHANGED <<vars, reason, timers, shownFor, providers, theme, scrolling, copies>>
     ELSE Edit /\ input' = e /\ Render("text")

Crash == RenderFails /\ Render("text") /\ selected' = ""

Restart == TryAgain /\ Render("text") /\ UNCHANGED selected

OldFormGoesOn(i) == Orphaned(i) /\ UNCHANGED widgets

--------------------------------------------------------------------------------
(* What the widgets do by themselves.                                      *)

Older(age) == IF age < Duration THEN age + 1 ELSE age

Tick ==
  /\ toast # "none"
  /\ timers' = {Older(age) : age \in timers}
  /\ shownFor' = Older(shownFor)
  /\ <<timers, shownFor>>' # <<timers, shownFor>>
  /\ UNCHANGED <<vars, reason, selected, providers, theme, scrolling, copies>>

(* A timer goes off and calls onClose.                                     *)
TimerFires ==
  /\ Duration \in timers
  /\ CloseToast
  /\ Render("text")
  /\ UNCHANGED selected

Scroll ==
  /\ showIRModal
  /\ scrollTop' = 1 - scrollTop
  /\ scrollPosition' = IF listening THEN scrollTop' ELSE scrollPosition
  /\ UNCHANGED <<vars, reason, timers, shownFor, selected, providers, theme, listening,
                 copies>>

unlessCopying == <<vars, reason, timers, shownFor, selected, providers, theme, scrolling>>

(* handleCopy up to its await; a timer started before goes on.             *)
Copy ==
  /\ OutputShown
  /\ Len(copying) + copyTimers < MaxCopies
  /\ copying' = Append(copying, result.of)
  /\ UNCHANGED <<unlessCopying, copied, copyTimers>>

(* The clipboard has taken the text, or has refused it.                    *)
Copied ==
  /\ copying # <<>>
  /\ copying' = Tail(copying)
  /\ \/ copied' = Head(copying) /\ copyTimers' = copyTimers + 1
     \/ UNCHANGED <<copied, copyTimers>>
  /\ UNCHANGED unlessCopying

CopyTimerFires ==
  /\ copyTimers > 0
  /\ copied' = "none"
  /\ copyTimers' = copyTimers - 1
  /\ UNCHANGED <<unlessCopying, copying>>

FENext ==
  \/ \E i \in Submissions :
       \/ FormSubmits(i) \/ GenerateAnswered(i) \/ ValidateAnswered(i)
       \/ OldFormGoesOn(i)
  \/ UserActs \/ TypeName \/ Crash \/ Restart
  \/ \E e \in Examples \cup {""} : SelectExample(e)
  \/ Tick \/ TimerFires \/ Scroll
  \/ Copy \/ Copied \/ CopyTimerFires

FEFairness ==
  \A i \in Submissions :
    WF_FEVars(GenerateAnswered(i) \/ ValidateAnswered(i) \/ OldFormGoesOn(i))

FESpec == FEInit /\ [][FENext]_FEVars /\ FEFairness

--------------------------------------------------------------------------------
(* What the page says.                                                     *)

ButtonLabel == IF isGeneratingIR THEN "Generating LLVM IR..."
               ELSE IF isLoading THEN "Validating Translation..."
               ELSE "Validate Translation"

CopyLabel == IF copied = "none" THEN "Copy Output" ELSE "Copied!"

(* The modal, the button and the toast agree: no verdict stays on the page *)
(* while a submit is under way, the modal validates only while the button  *)
(* is busy, and the toast tells no other end than the modal.  "Validating  *)
(* Translation..." is never on the button (CodeEditorForm.tsx:105-112,     *)
(* 277-295, LLVMIRModal.tsx:682-709).                                      *)
PageAgrees ==
  /\ ButtonLabel # "Validating Translation..."
  /\ ResultPane = "Validating translation..." => ButtonLabel = "Generating LLVM IR..."
  /\ ResultPane \in {"Translation Verified", "Verification Failed"} =>
       ButtonLabel = "Validate Translation" /\ toast # "info"
  /\ ResultPane = "Translation Verified" => toast # "error"
  /\ ResultPane = "Verification Failed" => toast # "success"

(* No timer closes a toast before what it says was shown for the duration, *)
(* though each render starts a timer and the text changes under it         *)
(* (Toast.tsx:12-17).                                                      *)
ToastStays == [][TimerFires => shownFor = Duration]_FEVars

(* A failure without a word is one of the validation, and the IR it was    *)
(* about is there to be seen: what fails before says why                   *)
(* (validate/route.ts:26, generate-ir/route.ts:26).                        *)
SilentOnlyAfterIR ==
  reason = "empty" => result.kind = "error" /\ ir \in {result.of, "none"}

(* An IR is never shown without its colours and its hovers, nor with the   *)
(* hovers twice, although theme and providers belong to all editors and    *)
(* outlive each of them (CodeEditor.tsx:31, 117).                          *)
IRReadable == IRShown => theme = "llvm-theme" /\ providers = 1

(* "Copied!" beside a verdict is about the output of that verdict, though  *)
(* the button stays when an error takes the place of a result; and it ends,*)
(* by a timer of this copy or of one before (CopyButton.tsx:17-24).        *)
CopiedFits ==
  /\ result.kind \in {"verified", "failed"} /\ CopyLabel = "Copied!" => copied = result.of
  /\ CopyLabel = "Copied!" => copyTimers > 0
================================================================================
