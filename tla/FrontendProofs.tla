------------------------------ MODULE FrontendProofs ------------------------------
(***************************************************************************)
(* Proofs about the form and the page around it, for any number of submits *)
(* and any texts.  The four safety properties of the form are inductive    *)
(* together: the flags say which submit is under way, and what is shown    *)
(* follows from that one.  Whatever the widgets and the routes do, the     *)
(* form does what Form says, so all of this holds on the page too; and the *)
(* widgets keep up with it, because each change of the form runs their     *)
(* effects.                                                                *)
(***************************************************************************)
EXTENDS Frontend, SequenceTheorems, TLAPS

--------------------------------------------------------------------------------
(* The form.                                                               *)

(* A submit that is validating has its IR stored, or the user cleared it;  *)
(* while one is under way there is no result yet.                          *)
UnderWay ==
  /\ \A i \in Submissions : InFlight(i) /\ flight[i] = "validating" => ir \in {i, "none"}
  /\ isGeneratingIR => result.kind = "none"

(* A form that is gone had started what it lost.                           *)
LostStarted == \A i \in lost : flight[i] # "unused"

Inv ==
  /\ TypeOK /\ SingleFlight /\ BusyShown /\ VerdictFitsIR /\ ToastFits
  /\ UnderWay /\ LostStarted

(* Nothing is under way at first.                                         *)
LEMMA InitInv == Init => Inv
<1> SUFFICES ASSUME Init PROVE Inv
  OBVIOUS
<1>1. TypeOK
  BY DEF Init, TypeOK, NoResult
<1>2. \A i \in Submissions : flight[i] = "unused"
  BY DEF Init
<1>3. SingleFlight /\ BusyShown
  BY <1>2 DEF Init, SingleFlight, BusyShown, InFlight
<1>4. VerdictFitsIR /\ ToastFits /\ UnderWay
  BY <1>2 DEF Init, NoResult, VerdictFitsIR, ToastFits, UnderWay, InFlight
<1>5. LostStarted
  BY DEF Init, LostStarted
<1> QED BY <1>1, <1>3, <1>4, <1>5 DEF Inv

(* An error ends the submit under way, or one that starts.                 *)
LEMMA FailInv ==
  ASSUME Inv, NEW i \in Submissions, Fail(i), UNCHANGED <<input, mounted, lost>>,
         ~InFlight(i) => ~isGeneratingIR,
         ir' \in Submissions \cup {"none"}, showIRModal' \in BOOLEAN
  PROVE  Inv'
<1> USE DEF Inv, Fail, Move, Finally
<1>1. TypeOK'
  BY DEF TypeOK
<1>2. \A j \in Submissions : ~InFlight(j)'
  BY DEF TypeOK, SingleFlight, BusyShown, InFlight
<1>3. SingleFlight' /\ BusyShown'
  BY <1>2 DEF SingleFlight, BusyShown, InFlight
<1>4. VerdictFitsIR' /\ ToastFits' /\ UnderWay'
  BY <1>2 DEF VerdictFitsIR, ToastFits, UnderWay, InFlight
<1>5. LostStarted'
  BY DEF LostStarted, TypeOK
<1> QED BY <1>1, <1>3, <1>4, <1>5

(* A submit starts when no other is under way.                             *)
LEMMA SubmitInv ==
  ASSUME Inv, NEW i \in Submissions, Submit(i)
  PROVE  Inv'
<1>1. \A j \in Submissions : ~InFlight(j)
  BY DEF Inv, Submit, CanSubmit, BusyShown
<1>2. CASE input \in Long
  BY <1>1, <1>2, FailInv DEF Submit, Inv, TypeOK, CanSubmit
<1>3. CASE input \notin Long
  <2>1. TypeOK'
    BY <1>3 DEF Inv, TypeOK, Submit, Move, NoResult
  <2>2. \A j \in Submissions : flight'[j] = IF j = i THEN "generating" ELSE flight[j]
    BY <1>3 DEF Inv, TypeOK, Submit, Move
  <2>3. i \notin lost /\ lost' = lost /\ LostStarted'
    BY <1>3, <2>2 DEF Inv, TypeOK, LostStarted, Submit
  <2>4. \A j \in Submissions :
          /\ InFlight(j)' <=> j = i
          /\ InFlight(j)' => flight'[j] = "generating"
    BY <1>1, <2>2, <2>3 DEF InFlight
  <2>5. isGeneratingIR' = TRUE /\ UNCHANGED isLoading /\ result' = NoResult
        /\ toast' = "info"
    BY <1>3 DEF Submit
  <2>6. SingleFlight' /\ BusyShown'
    BY <1>1, <2>4, <2>5 DEF Inv, TypeOK, SingleFlight, BusyShown
  <2>7. VerdictFitsIR' /\ ToastFits' /\ UnderWay'
    BY <2>4, <2>5 DEF VerdictFitsIR, ToastFits, UnderWay, NoResult
  <2> QED BY <2>1, <2>3, <2>6, <2>7 DEF Inv
<1> QED BY <1>2, <1>3

(* The IR stored is that of the submit under way.                          *)
LEMMA GeneratedInv ==
  ASSUME Inv, NEW i \in Submissions, Generated(i)
  PROVE  Inv'
<1>1. InFlight(i) /\ UNCHANGED <<input, mounted, lost>>
  BY DEF Generated, InFlight
<1>2. CASE Fail(i)
  BY <1>1, <1>2, FailInv DEF Generated, Inv, TypeOK
<1>3. CASE ~Fail(i)
  <2>1. TypeOK'
    BY <1>3 DEF Inv, TypeOK, Generated, Move
  <2>2. \A j \in Submissions : flight'[j] = IF j = i THEN "validating" ELSE flight[j]
    BY <1>3 DEF Inv, TypeOK, Generated, Move
  <2>3. isGeneratingIR /\ UNCHANGED <<isGeneratingIR, result>> /\ isLoading' = TRUE
    BY <1>1, <1>3 DEF Generated, Inv, BusyShown
  <2>4. SingleFlight' /\ BusyShown'
    BY <1>1, <2>2, <2>3 DEF Inv, TypeOK, SingleFlight, BusyShown, InFlight
  <2>5. ir' = i /\ toast' = "info" /\ result'.kind = "none" /\ lost' = lost
    BY <1>1, <1>3, <2>3 DEF Generated, Inv, UnderWay
  <2>6. \A j \in Submissions : InFlight(j)' => j = i
    BY <1>1, <2>2, <2>5 DEF Inv, SingleFlight, InFlight
  <2>7. VerdictFitsIR' /\ ToastFits' /\ UnderWay' /\ LostStarted'
    BY <2>2, <2>3, <2>5, <2>6
       DEF Inv, TypeOK, VerdictFitsIR, ToastFits, UnderWay, LostStarted
  <2> QED BY <2>1, <2>4, <2>7 DEF Inv
<1> QED BY <1>2, <1>3

(* The verdict is about that IR, or it was cleared meanwhile.              *)
LEMMA ValidatedInv ==
  ASSUME Inv, NEW i \in Submissions, Validated(i)
  PROVE  Inv'
<1>1. InFlight(i) /\ UNCHANGED <<input, mounted, lost, ir, showIRModal>>
  BY DEF Validated, InFlight
<1>2. CASE Fail(i)
  BY <1>1, <1>2, FailInv DEF Inv, TypeOK
<1>3. CASE ~Fail(i)
  <2>1. PICK success \in BOOLEAN :
          /\ Move(i, "ended")
          /\ result' = [of |-> i, kind |-> IF success THEN "verified" ELSE "failed"]
          /\ toast' = IF success THEN "success" ELSE "error"
          /\ Finally
    BY <1>3 DEF Validated
  <2>2. TypeOK'
    BY <1>1, <2>1 DEF Inv, TypeOK, Move, Finally
  <2>3. \A j \in Submissions : ~InFlight(j)'
    BY <1>1, <2>1 DEF Inv, TypeOK, SingleFlight, InFlight, Move
  <2>4. SingleFlight' /\ BusyShown'
    BY <2>1, <2>3 DEF SingleFlight, BusyShown, InFlight, Finally
  <2>5. ir \in {i, "none"}
    BY DEF Inv, UnderWay, Validated
  <2>6. VerdictFitsIR' /\ ToastFits' /\ UnderWay'
    BY <1>1, <2>1, <2>3, <2>5 DEF VerdictFitsIR, ToastFits, UnderWay, Finally
  <2>7. LostStarted'
    BY <1>1, <2>1 DEF Inv, TypeOK, LostStarted, Move
  <2> QED BY <2>2, <2>4, <2>6, <2>7 DEF Inv
<1> QED BY <1>2, <1>3

(* A form that is gone has nothing under way, and what it left under way   *)
(* sets nothing.                                                           *)
LEMMA OldFormInv ==
  ASSUME Inv, RenderFails \/ \E i \in Submissions : Orphaned(i)
  PROVE  Inv'
<1>1. CASE RenderFails
  <2>1. TypeOK' /\ VerdictFitsIR' /\ ToastFits'
    BY <1>1 DEF Inv, TypeOK, RenderFails, VerdictFitsIR, ToastFits, NoResult
  <2>2. \A j \in Submissions : ~InFlight(j)'
    BY <1>1 DEF Inv, TypeOK, RenderFails, InFlight
  <2>3. SingleFlight' /\ BusyShown' /\ UnderWay' /\ LostStarted'
    BY <1>1, <2>2
       DEF RenderFails, SingleFlight, BusyShown, UnderWay, LostStarted, NoResult
  <2> QED BY <2>1, <2>3 DEF Inv
<1>2. ASSUME NEW i \in Submissions, Orphaned(i) PROVE Inv'
  <2>1. i \in lost /\ flight[i] # "unused"
    BY <1>2 DEF Inv, LostStarted, Orphaned
  <2>2. /\ UNCHANGED <<input, mounted, lost, isGeneratingIR, isLoading, ir, result,
                      showIRModal, toast>>
        /\ flight' \in [Submissions -> {"unused", "generating", "validating", "ended"}]
        /\ flight'[i] # "unused"
        /\ \A j \in Submissions \ {i} : flight'[j] = flight[j]
    BY <1>2 DEF Inv, TypeOK, Orphaned, Move
  <2>3. TypeOK' /\ VerdictFitsIR' /\ ToastFits'
    BY <2>2 DEF Inv, TypeOK, VerdictFitsIR, ToastFits
  <2>4. \A j \in Submissions : InFlight(j)' = InFlight(j)
    BY <2>1, <2>2 DEF InFlight
  <2>5. \A j \in Submissions : InFlight(j) => flight'[j] = flight[j]
    BY <2>1, <2>2 DEF InFlight
  <2>6. SingleFlight' /\ BusyShown'
    BY <2>2, <2>4, <2>5 DEF Inv, SingleFlight, BusyShown
  <2>7. UnderWay' /\ LostStarted'
    BY <2>2, <2>4, <2>5 DEF Inv, UnderWay, LostStarted, TypeOK
  <2> QED BY <2>3, <2>6, <2>7 DEF Inv
<1> QED BY <1>1, <1>2

(* The rest: what the user does beside a submit.                           *)
LEMMA StepInv == Inv /\ [Next]_vars => Inv'
<1> SUFFICES ASSUME Inv, [Next]_vars PROVE Inv'
  OBVIOUS
<1> USE DEF Inv, TypeOK, SingleFlight, BusyShown, VerdictFitsIR, ToastFits, UnderWay,
            LostStarted, InFlight, beside
<1>1. CASE Edit
  <2> HIDE DEF Inv, TypeOK, SingleFlight, BusyShown, VerdictFitsIR, ToastFits, UnderWay,
               LostStarted, InFlight
  <2>1. TypeOK' /\ VerdictFitsIR' /\ ToastFits'
    BY <1>1 DEF Edit, Inv, TypeOK, VerdictFitsIR, ToastFits
  <2>2. SingleFlight' /\ BusyShown'
    BY <1>1 DEF Edit, Inv, SingleFlight, BusyShown, InFlight
  <2>3. UnderWay' /\ LostStarted'
    BY <1>1 DEF Edit, Inv, UnderWay, LostStarted, InFlight
  <2> QED BY <2>1, <2>2, <2>3 DEF Inv
<1>2. CASE ClearAll
  <2> HIDE DEF Inv, TypeOK, SingleFlight, BusyShown, VerdictFitsIR, ToastFits, UnderWay,
               LostStarted, InFlight
  <2>1. TypeOK' /\ VerdictFitsIR' /\ ToastFits'
    BY <1>2 DEF ClearAll, Inv, TypeOK, VerdictFitsIR, ToastFits, NoResult
  <2>2. SingleFlight' /\ BusyShown'
    BY <1>2 DEF ClearAll, Inv, SingleFlight, BusyShown, InFlight
  <2>3. UnderWay' /\ LostStarted'
    BY <1>2 DEF ClearAll, Inv, UnderWay, LostStarted, InFlight, NoResult
  <2> QED BY <2>1, <2>2, <2>3 DEF Inv
<1>3. CASE CloseModal
  <2> HIDE DEF Inv, TypeOK, SingleFlight, BusyShown, VerdictFitsIR, ToastFits, UnderWay,
               LostStarted, InFlight
  <2>1. TypeOK' /\ VerdictFitsIR' /\ ToastFits'
    BY <1>3 DEF CloseModal, Inv, TypeOK, VerdictFitsIR, ToastFits
  <2>2. SingleFlight' /\ BusyShown'
    BY <1>3 DEF CloseModal, Inv, SingleFlight, BusyShown, InFlight
  <2>3. UnderWay' /\ LostStarted'
    BY <1>3 DEF CloseModal, Inv, UnderWay, LostStarted, InFlight
  <2> QED BY <2>1, <2>2, <2>3 DEF Inv
<1>4. CASE CloseToast
  <2> HIDE DEF Inv, TypeOK, SingleFlight, BusyShown, VerdictFitsIR, ToastFits, UnderWay,
               LostStarted, InFlight
  <2>1. TypeOK' /\ VerdictFitsIR' /\ ToastFits'
    BY <1>4 DEF CloseToast, Inv, TypeOK, VerdictFitsIR, ToastFits
  <2>2. SingleFlight' /\ BusyShown'
    BY <1>4 DEF CloseToast, Inv, SingleFlight, BusyShown, InFlight
  <2>3. UnderWay' /\ LostStarted'
    BY <1>4 DEF CloseToast, Inv, UnderWay, LostStarted, InFlight
  <2> QED BY <2>1, <2>2, <2>3 DEF Inv
<1>5. CASE RenderFails
  BY <1>5, OldFormInv
<1>6. CASE TryAgain
  BY <1>6 DEF TryAgain
<1>7. ASSUME NEW i \in Submissions, Orphaned(i) PROVE Inv'
  BY <1>7, OldFormInv
<1>8. CASE UNCHANGED vars
  BY <1>8 DEF vars
<1> QED
  BY <1>1, <1>2, <1>3, <1>4, <1>5, <1>6, <1>7, <1>8, SubmitInv, GeneratedInv, ValidatedInv
     DEF Next, Answered

(* The invariant holds in every reachable state.                           *)
THEOREM AlwaysInv == Spec => []Inv
  BY InitInv, StepInv, PTL DEF Spec

--------------------------------------------------------------------------------
(* Every variable has its type.                                            *)
THEOREM TypeCorrect == Spec => []TypeOK
<1>1. Inv => TypeOK
  BY DEF Inv
<1> QED BY <1>1, AlwaysInv, PTL

(* One submit is under way at most (CodeEditorForm.tsx:269).               *)
THEOREM SingleFlightHolds == Spec => []SingleFlight
<1>1. Inv => SingleFlight
  BY DEF Inv
<1> QED BY <1>1, AlwaysInv, PTL

(* The flags say whether a submit is under way, and whether it validates.  *)
THEOREM BusyShownHolds == Spec => []BusyShown
<1>1. Inv => BusyShown
  BY DEF Inv
<1> QED BY <1>1, AlwaysInv, PTL

(* A verdict is about the IR stored, unless that was cleared.              *)
THEOREM VerdictFitsIRHolds == Spec => []VerdictFitsIR
<1>1. Inv => VerdictFitsIR
  BY DEF Inv
<1> QED BY <1>1, AlwaysInv, PTL

(* A toast says what is the case.                                          *)
THEOREM ToastFitsHolds == Spec => []ToastFits
<1>1. Inv => ToastFits
  BY DEF Inv
<1> QED BY <1>1, AlwaysInv, PTL

(* One submit keeps the form busy, and only until it has its answers       *)
(* (CodeEditorForm.tsx:118-121): with BusyShown, all of FormReleased but   *)
(* that the answers come.                                                  *)
LEMMA StepBusyForOne ==
  ASSUME Inv, [Next]_vars
  PROVE  /\ isGeneratingIR /\ isGeneratingIR' => \E i \in Submissions : InFlight(i) /\ InFlight(i)'
         /\ \A i \in Submissions : flight[i] # "unused" =>
              /\ flight'[i] = flight[i] \/ AnswersLeft(flight'[i]) < AnswersLeft(flight[i])
              /\ InFlight(i)' => InFlight(i)
<1> DEFINE Stays == isGeneratingIR /\ isGeneratingIR' =>
             \E i \in Submissions : InFlight(i) /\ InFlight(i)'
           Forward(i) == /\ flight'[i] = flight[i] \/ AnswersLeft(flight'[i]) < AnswersLeft(flight[i])
                         /\ InFlight(i)' => InFlight(i)
<1>0. /\ flight \in [Submissions -> {"unused", "generating", "validating", "ended"}]
      /\ isGeneratingIR <=> \E i \in Submissions : InFlight(i)
  BY DEF Inv, TypeOK, BusyShown
<1>1. ASSUME NEW i \in Submissions, Submit(i)
      PROVE  Stays /\ \A j \in Submissions : flight[j] # "unused" => Forward(j)
  BY <1>0, <1>1 DEF Submit, CanSubmit, Fail, Move, InFlight
<1>2. ASSUME NEW i \in Submissions, Answered(i)
      PROVE  Stays /\ \A j \in Submissions : flight[j] # "unused" => Forward(j)
  <2>1. /\ InFlight(i) /\ lost' = lost
        /\ \A j \in Submissions \ {i} : flight'[j] = flight[j]
        /\ \/ flight'[i] = "ended" /\ ~isGeneratingIR'
           \/ flight[i] = "generating" /\ flight'[i] = "validating"
    BY <1>0, <1>2 DEF Answered, Generated, Validated, Fail, Finally, Move
  <2> QED
    BY <1>0, <2>1 DEF InFlight, AnswersLeft
<1>3. ASSUME NEW i \in Submissions, Orphaned(i)
      PROVE  Stays /\ \A j \in Submissions : flight[j] # "unused" => Forward(j)
  <2>1. /\ i \in lost /\ lost' = lost
        /\ \A j \in Submissions \ {i} : flight'[j] = flight[j]
        /\ \/ flight[i] = "generating" /\ flight'[i] \in {"validating", "ended"}
           \/ flight[i] = "validating" /\ flight'[i] = "ended"
    BY <1>0, <1>3 DEF Orphaned, Move
  <2> QED
    BY <1>0, <2>1 DEF InFlight, AnswersLeft
<1>4. ASSUME RenderFails
      PROVE  Stays /\ \A j \in Submissions : flight[j] # "unused" => Forward(j)
  BY <1>4 DEF RenderFails, InFlight
<1>5. ASSUME Edit \/ ClearAll \/ CloseModal \/ CloseToast \/ TryAgain \/ UNCHANGED vars
      PROVE  Stays /\ \A j \in Submissions : flight[j] # "unused" => Forward(j)
  BY <1>0, <1>5 DEF Edit, ClearAll, CloseModal, CloseToast, TryAgain, vars, beside, InFlight
<1> HIDE DEF Stays, Forward
<1>6. Stays /\ \A j \in Submissions : flight[j] # "unused" => Forward(j)
  BY <1>1, <1>2, <1>3, <1>4, <1>5 DEF Next
<1> QED
  BY <1>6 DEF Stays, Forward

(* One submit keeps the form busy, and only until it has its answers.      *)
THEOREM BusyForOneHolds == Spec => BusyForOne
<1>1. Inv /\ [Next]_vars =>
        /\ isGeneratingIR /\ isGeneratingIR' => \E i \in Submissions : InFlight(i) /\ InFlight(i)'
        /\ \A i \in Submissions : flight[i] # "unused" =>
             /\ flight'[i] = flight[i] \/ AnswersLeft(flight'[i]) < AnswersLeft(flight[i])
             /\ InFlight(i)' => InFlight(i)
  BY StepBusyForOne
<1> QED
  BY <1>1, AlwaysInv, PTL DEF Spec, BusyForOne

--------------------------------------------------------------------------------
(* The page.                                                               *)

(* A form that is gone has nothing open and nothing under way.             *)
Unmounted == ~mounted => ~showIRModal /\ ~isGeneratingIR

(* A result is that of a submission.                                       *)
Attributed == result.kind # "none" => result.of \in Submissions

(* No timer is older than what the toast says.                             *)
ToastInv ==
  /\ shownFor \in Ages
  /\ timers \subseteq Ages
  /\ \A age \in timers : age <= shownFor

EditorInv == IRReadable /\ providers \in {0, 1}

(* The modal never listens to its scrolling, so it saves nothing.          *)
ScrollInv == listening = FALSE /\ scrollPosition = 0 /\ scrollTop \in {0, 1}

CopyInv ==
  /\ copying \in Seq(Submissions)
  /\ copied \in Submissions \cup {"none"}
  /\ copyTimers \in Nat
  /\ ~OutputShown => copying = <<>> /\ copied = "none"
  /\ result.kind \in {"verified", "failed"} =>
       \A k \in 1..Len(copying) : copying[k] = result.of
  /\ CopiedFits

PageInv ==
  /\ Inv /\ Unmounted /\ Attributed
  /\ SilentOnlyAfterIR /\ reason \in {"none", "text", "empty"}
  /\ ToastInv /\ EditorInv /\ ScrollInv /\ CopyInv
  /\ theme \in {"light", "llvm-theme"} /\ selected \in Examples \cup {""}

--------------------------------------------------------------------------------
(* What a step of the form leaves as it was, of all a widget depends on.   *)
Calm ==
  /\ Inv' /\ Unmounted' /\ Attributed'
  /\ mounted' # mounted => ~showIRModal'
  /\ result' = result => ir' \in {ir, "none"} \/ reason # "empty"
  /\ result'.kind \in {"verified", "failed"} => result' = result \/ ~OutputShown

(* The empty sequence has no elements.                                     *)
LEMMA NoneCopying ==
  <<>> \in Seq(Submissions) /\ \A of : \A k \in 1..Len(<<>>) : <<>>[k] = of
<1>1. <<>> \in Seq(Submissions) /\ Len(<<>>) = 0
  BY EmptySeq
<1> QED BY <1>1

(* Each step of the form is calm.                                          *)
LEMMA StepCalm ==
  ASSUME Inv, Unmounted, Attributed, SilentOnlyAfterIR, [Next]_vars
  PROVE  Calm
<1>1. Inv'
  BY StepInv
<1>2. ASSUME NEW i \in Submissions, InFlight(i)
      PROVE  mounted /\ result.kind = "none" /\ ~OutputShown
  BY <1>2 DEF Inv, TypeOK, BusyShown, UnderWay, Unmounted, OutputShown, ResultPane
<1>3. ASSUME NEW i \in Submissions, Submit(i) PROVE Calm
  <2>1. mounted /\ mounted' /\ ir' = ir
    BY <1>3 DEF Submit, CanSubmit
  <2>2. result' = [of |-> i, kind |-> "error"] \/ result' = NoResult
    BY <1>3 DEF Submit, Fail
  <2> QED BY <1>1, <2>1, <2>2 DEF Calm, Unmounted, Attributed, NoResult
<1>4. ASSUME NEW i \in Submissions, Generated(i) PROVE Calm
  <2>1. InFlight(i) /\ mounted' = mounted
    BY <1>4 DEF Generated
  <2>2. result' = [of |-> i, kind |-> "error"] \/ result' = result
    BY <1>4 DEF Generated, Fail
  <2>3. mounted /\ result.kind = "none" /\ reason # "empty"
    BY <1>2, <2>1 DEF SilentOnlyAfterIR
  <2> QED BY <1>1, <2>1, <2>2, <2>3 DEF Calm, Unmounted, Attributed
<1>5. ASSUME NEW i \in Submissions, Validated(i) PROVE Calm
  <2>1. InFlight(i) /\ UNCHANGED <<mounted, ir>>
    BY <1>5 DEF Validated
  <2>2. result'.of = i
    BY <1>5 DEF Validated, Fail
  <2>3. mounted /\ ~OutputShown
    BY <1>2, <2>1
  <2> QED BY <1>1, <2>1, <2>2, <2>3 DEF Calm, Unmounted, Attributed
<1>6. ASSUME NEW i \in Submissions, Orphaned(i) PROVE Calm
  BY <1>1, <1>6 DEF Orphaned, Calm, Unmounted, Attributed
<1>7. CASE Edit \/ CloseModal \/ CloseToast
  BY <1>1, <1>7 DEF Edit, CloseModal, CloseToast, beside, Calm, Unmounted, Attributed
<1>8. CASE ClearAll
  BY <1>1, <1>8 DEF ClearAll, beside, NoResult, Calm, Unmounted, Attributed
<1>9. CASE RenderFails
  BY <1>1, <1>9 DEF RenderFails, NoResult, Calm, Unmounted, Attributed
<1>10. CASE TryAgain
  BY <1>1, <1>10 DEF TryAgain, Calm, Unmounted, Attributed
<1>11. CASE UNCHANGED vars
  BY <1>1, <1>11 DEF vars, Calm, Unmounted, Attributed
<1> QED
  BY <1>3, <1>4, <1>5, <1>6, <1>7, <1>8, <1>9, <1>10, <1>11 DEF Next, Answered

(* A timer that starts anew is no older than the toast.                    *)
LEMMA ToastFollows == ASSUME ToastInv, ToastEffect PROVE ToastInv'
<1>1. timers' \in {{}, {0}} /\ shownFor' \in {0, shownFor}
  BY DEF ToastEffect
<1>2. 0 \in Ages /\ \A age \in Ages : 0 <= age
  BY DurationAssumption DEF Ages
<1> QED BY <1>1, <1>2 DEF ToastInv

(* A toast that is not there, and one that grows old.                      *)
LEMMA InitToast == timers = {} /\ shownFor = 0 => ToastInv
<1>1. 0 \in Ages
  BY DurationAssumption DEF Ages
<1> QED BY <1>1 DEF ToastInv

(* A tick makes every timer older by one, and none older than the toast.   *)
LEMMA ToastAges == ASSUME ToastInv, Tick PROVE ToastInv'
<1>1. Ages \subseteq Nat /\ \A age \in Ages : Older(age) \in Ages
  BY DurationAssumption DEF Ages, Older
<1>2. \A a, b \in Ages : a <= b => Older(a) <= Older(b)
  BY DurationAssumption DEF Ages, Older
<1>3. timers' = {Older(age) : age \in timers} /\ shownFor' = Older(shownFor)
  BY DEF Tick
<1> QED BY <1>1, <1>2, <1>3 DEF ToastInv

(* The page follows: rendered anew, the widgets fit the form again.        *)
LEMMA RenderInv ==
  ASSUME PageInv, Calm, NEW text \in {"text", "empty"}, Render(text),
         selected' \in Examples \cup {""},
         text = "empty" => result'.kind = "error" /\ ir' \in {result'.of, "none"}
  PROVE  PageInv'
<1>1. ToastInv'
  BY ToastFollows DEF PageInv, Render
<1>2. EditorInv' /\ theme' \in {"light", "llvm-theme"}
  <2>1. EditorInv /\ EditorEffect /\ Unmounted' /\ theme \in {"light", "llvm-theme"}
    BY DEF PageInv, Render, Calm
  <2>2. showIRModal => mounted
    BY DEF PageInv, Unmounted, Inv, TypeOK
  <2>3. CASE IRShown' /\ ~IRShown
    BY <2>1, <2>3 DEF EditorInv, EditorEffect, Register, IRReadable
  <2>4. CASE IRShown' /\ IRShown
    BY <2>1, <2>2, <2>4 DEF EditorInv, EditorEffect, IRReadable, IRShown
  <2>5. CASE ~IRShown'
    BY <2>1, <2>5 DEF EditorInv, EditorEffect, IRReadable
  <2> QED BY <2>3, <2>4, <2>5
<1>3. ScrollInv'
  <2>1. ScrollInv /\ ScrollEffect /\ Unmounted /\ Unmounted'
    BY DEF PageInv, Render, Calm
  <2>2. mounted \in BOOLEAN /\ mounted' \in BOOLEAN
    BY DEF PageInv, Calm, Inv, TypeOK
  <2>3. mounted' # mounted => ~showIRModal'
    BY DEF Calm
  <2> QED BY <2>1, <2>2, <2>3 DEF ScrollInv, ScrollEffect, Unmounted
<1>4. SilentOnlyAfterIR' /\ reason' \in {"none", "text", "empty"}
  BY DEF PageInv, Calm, Render, SilentOnlyAfterIR, Says
<1>5. CopyInv'
  <2>1. CopyInv /\ CopyEffect
    BY DEF PageInv, Render
  <2>2. result'.kind \in {"verified", "failed"} => result' = result \/ ~OutputShown
    BY DEF Calm
  <2>3. CASE ~OutputShown'
    <3>1. copying' = <<>> /\ copied' = "none" /\ copyTimers' = 0
      BY <2>1, <2>3 DEF CopyEffect
    <3> QED BY <3>1, NoneCopying DEF CopyInv, CopiedFits, CopyLabel
  <2>4. CASE OutputShown'
    <3>1. copying' = copying /\ copied' = copied /\ copyTimers' = copyTimers
      BY <2>1, <2>4 DEF CopyEffect, copies
    <3>2. CASE OutputShown
      BY <2>1, <2>2, <2>4, <3>1, <3>2 DEF CopyInv, CopiedFits, CopyLabel
    <3>3. CASE ~OutputShown
      BY <2>1, <2>4, <3>1, <3>3, NoneCopying DEF CopyInv, CopiedFits, CopyLabel
    <3> QED BY <3>2, <3>3
  <2> QED BY <2>3, <2>4
<1> QED BY <1>1, <1>2, <1>3, <1>4, <1>5 DEF PageInv, Calm

--------------------------------------------------------------------------------
(* The steps of the page, as steps of the form.                            *)
LEMMA StepIsForm == FENext => [Next]_vars
<1> SUFFICES ASSUME FENext PROVE [Next]_vars
  OBVIOUS
<1>1. ASSUME NEW i \in Submissions,
             FormSubmits(i) \/ GenerateAnswered(i) \/ ValidateAnswered(i) \/ OldFormGoesOn(i)
      PROVE  Next
  BY <1>1 DEF FormSubmits, GenerateAnswered, ValidateAnswered, OldFormGoesOn, Next, Answered
<1>2. ASSUME UserActs \/ Crash \/ Restart \/ TimerFires PROVE Next
  BY <1>2 DEF UserActs, Crash, Restart, TimerFires, Next
<1>3. ASSUME NEW e \in Examples \cup {""}, SelectExample(e) PROVE [Next]_vars
  BY <1>3 DEF SelectExample, Next
<1>4. ASSUME TypeName \/ Tick \/ Scroll \/ Copy \/ Copied \/ CopyTimerFires
      PROVE  UNCHANGED vars
  BY <1>4 DEF TypeName, Tick, Scroll, Copy, Copied, CopyTimerFires, unlessCopying
<1> QED BY <1>1, <1>2, <1>3, <1>4 DEF FENext

(* The page is as PageInv says at first.                                   *)
LEMMA InitPageInv == FEInit => PageInv
<1> SUFFICES ASSUME FEInit PROVE PageInv
  OBVIOUS
<1>1. Inv
  BY InitInv DEF FEInit
<1>2. result.kind = "none" /\ ~showIRModal /\ ~isGeneratingIR
  BY DEF FEInit, Init, NoResult
<1>3. Unmounted /\ Attributed /\ SilentOnlyAfterIR /\ EditorInv
  BY <1>2 DEF FEInit, Unmounted, Attributed, SilentOnlyAfterIR, EditorInv, IRReadable,
              IRShown
<1>4. ToastInv
  BY InitToast DEF FEInit
<1>5. ScrollInv
  BY DEF FEInit, ScrollInv
<1>6. CopyInv
  BY <1>2, NoneCopying DEF FEInit, CopyInv, CopiedFits, CopyLabel
<1> QED BY <1>1, <1>3, <1>4, <1>5, <1>6 DEF FEInit, PageInv

(* What keeps the form from generating is always said; the errors of the   *)
(* page's own making have words too.                                       *)
LEMMA GenerateSpeaks ==
  \A answer \in GenerateAnswers :
    ErrorMessage(IF answer.ok THEN Refused("text") ELSE answer) = "text"
<1>1. ErrorMessage(Refused("text")) = "text"
  BY DEF Refused, ErrorMessage
<1>2. ASSUME NEW reply PROVE GenerateRoute(reply) \in {Passed(reply), Refused("text")}
  BY <1>2 DEF GenerateRoute
<1>3. ASSUME NEW reply PROVE Passed(reply).ok = TRUE
  BY DEF Passed
<1> QED BY <1>1, <1>2, <1>3 DEF GenerateAnswers, Unreachable

(* The steps of the form, with their renderings.                           *)
LEMMA FormStepPageInv ==
  ASSUME PageInv,
         \/ \E i \in Submissions :
              FormSubmits(i) \/ GenerateAnswered(i) \/ ValidateAnswered(i)
         \/ UserActs \/ TypeName \/ Crash \/ Restart \/ TimerFires
  PROVE  PageInv'
<1>1. selected \in Examples \cup {""}
  BY DEF PageInv
<1>2. [Next]_vars => Calm
  BY StepCalm DEF PageInv
<1>3. ASSUME [Next]_vars, Render("text"), selected' \in {selected, ""}
      PROVE  PageInv'
  BY <1>1, <1>2, <1>3, RenderInv
<1>4. ASSUME NEW i \in Submissions, FormSubmits(i) PROVE PageInv'
  BY <1>3, <1>4 DEF FormSubmits, Next
<1>5. ASSUME NEW i \in Submissions, GenerateAnswered(i) PROVE PageInv'
  <2>1. Render("text") /\ selected' = selected
    BY <1>5, GenerateSpeaks DEF GenerateAnswered
  <2>2. Next
    BY <1>5 DEF GenerateAnswered, Next, Answered
  <2> QED BY <1>3, <2>1, <2>2
<1>6. ASSUME NEW i \in Submissions, ValidateAnswered(i) PROVE PageInv'
  <2>1. Next
    BY <1>6 DEF ValidateAnswered, Next, Answered
  <2>2. PICK answer \in ValidateAnswers :
          /\ result'.kind = IF ~answer.ok THEN "error"
                            ELSE IF answer.body = "verified" THEN "verified"
                            ELSE "failed"
          /\ Render(IF answer.ok THEN "text" ELSE ErrorMessage(answer))
    BY <1>6 DEF ValidateAnswered
  <2>3. CASE answer.ok \/ ErrorMessage(answer) = "text"
    BY <1>3, <1>6, <2>1, <2>2, <2>3 DEF ValidateAnswered
  <2>4. CASE ~answer.ok /\ ErrorMessage(answer) # "text"
    <3>1. Render("empty") /\ result'.kind = "error"
      BY <2>2, <2>4 DEF ErrorMessage
    <3>2. Validated(i) /\ UnderWay
      BY <1>6 DEF ValidateAnswered, PageInv, Inv
    <3>3. ir \in {i, "none"} /\ ir' = ir
      BY <3>2 DEF Validated, UnderWay
    <3>4. result'.of = i
      BY <3>2 DEF Validated, Fail
    <3>5. selected' \in Examples \cup {""}
      BY <1>1, <1>6 DEF ValidateAnswered
    <3> QED BY <1>2, <2>1, <3>1, <3>3, <3>4, <3>5, RenderInv
  <2> QED BY <2>3, <2>4
<1>7. ASSUME UserActs \/ Crash \/ Restart \/ TimerFires PROVE PageInv'
  BY <1>3, <1>7 DEF UserActs, Crash, Restart, TimerFires, Next
<1>8. ASSUME TypeName PROVE PageInv'
  BY <1>3, <1>8 DEF TypeName
<1> QED BY <1>4, <1>5, <1>6, <1>7, <1>8

(* What the widgets do by themselves.                                      *)
LEMMA WidgetStepPageInv ==
  ASSUME PageInv,
         Tick \/ Scroll \/ Copy \/ Copied \/ CopyTimerFires
  PROVE  PageInv'
<1>1. ASSUME UNCHANGED vars, UNCHANGED <<reason, selected, providers, theme>>,
             ToastInv', ScrollInv', CopyInv'
      PROVE  PageInv'
  <2>1. Inv'
    BY <1>1, StepInv DEF PageInv
  <2>2. Unmounted' /\ Attributed' /\ SilentOnlyAfterIR' /\ EditorInv'
    BY <1>1 DEF PageInv, vars, Unmounted, Attributed, SilentOnlyAfterIR, EditorInv,
                IRReadable, IRShown, IRPane
  <2> QED BY <1>1, <2>1, <2>2 DEF PageInv
<1>2. ASSUME UNCHANGED vars, UNCHANGED copies PROVE CopyInv'
  BY <1>2 DEF PageInv, vars, copies, CopyInv, CopiedFits, CopyLabel, OutputShown, ResultPane
<1>3. CASE Tick
  <2>1. ToastInv' /\ ScrollInv /\ ToastInv
    BY <1>3, ToastAges DEF PageInv
  <2>2. UNCHANGED <<vars, reason, selected, providers, theme, scrolling, copies>>
    BY <1>3 DEF Tick
  <2>3. ScrollInv'
    BY <2>1, <2>2 DEF scrolling, ScrollInv
  <2> QED BY <1>1, <1>2, <2>1, <2>2, <2>3
<1>4. CASE Scroll
  <2>1. ToastInv /\ ScrollInv
    BY DEF PageInv
  <2>2. ScrollInv'
    BY <1>4, <2>1 DEF Scroll, ScrollInv
  <2>3. UNCHANGED <<vars, reason, timers, shownFor, selected, providers, theme, copies>>
    BY <1>4 DEF Scroll
  <2>4. ToastInv'
    BY <2>1, <2>3 DEF ToastInv
  <2> QED BY <1>1, <1>2, <2>2, <2>3, <2>4
<1>5. ASSUME UNCHANGED unlessCopying, CopyInv' PROVE PageInv'
  BY <1>1, <1>5 DEF PageInv, unlessCopying, scrolling, ScrollInv, ToastInv
<1>6. ASSUME UNCHANGED unlessCopying
      PROVE  UNCHANGED <<result, OutputShown>>
  BY <1>6 DEF unlessCopying, vars, OutputShown, ResultPane
<1>7. CASE Copy
  <2>1. result.of \in Submissions /\ OutputShown
    BY <1>7 DEF Copy, OutputShown, ResultPane, PageInv, Attributed
  <2>2. copying' = Append(copying, result.of) /\ UNCHANGED <<copied, copyTimers>>
    BY <1>7 DEF Copy
  <2>3. CopyInv /\ UNCHANGED <<result, OutputShown>>
    BY <1>6, <1>7 DEF Copy, PageInv
  <2> QED BY <1>5, <1>7, <2>1, <2>2, <2>3 DEF Copy, CopyInv, CopiedFits, CopyLabel
<1>8. CASE Copied
  <2>1. CopyInv /\ UNCHANGED <<result, OutputShown>>
    BY <1>6, <1>8 DEF Copied, PageInv
  <2>2. copying # <<>> /\ copying' = Tail(copying)
    BY <1>8 DEF Copied
  <2>3. OutputShown
    BY <2>1, <2>2 DEF CopyInv
  <2>4. Head(copying) \in Submissions /\ Tail(copying) \in Seq(Submissions)
    BY <2>1, <2>2, HeadTailProperties DEF CopyInv
  <2>5. result.kind \in {"verified", "failed"} =>
          Head(copying) = result.of /\ \A k \in 1..Len(copying') : copying'[k] = result.of
    BY <2>1, <2>2, HeadTailProperties DEF CopyInv
  <2> QED BY <1>5, <1>8, <2>1, <2>2, <2>3, <2>4, <2>5 DEF Copied, CopyInv, CopiedFits, CopyLabel
<1>9. CASE CopyTimerFires
  <2>1. CopyInv /\ UNCHANGED <<result, OutputShown>>
    BY <1>6, <1>9 DEF CopyTimerFires, PageInv
  <2> QED BY <1>5, <1>9, <2>1 DEF CopyTimerFires, CopyInv, CopiedFits, CopyLabel
<1> QED BY <1>3, <1>4, <1>7, <1>8, <1>9

(* Every step of the page.                                                 *)
LEMMA StepPageInv == PageInv /\ [FENext]_FEVars => PageInv'
<1> SUFFICES ASSUME PageInv, [FENext]_FEVars PROVE PageInv'
  OBVIOUS
<1>1. ASSUME Calm, UNCHANGED <<reason, timers, shownFor, providers, theme, scrolling, copies>>,
             UNCHANGED <<mounted, isLoading, ir, result, showIRModal>>,
             selected' \in Examples \cup {""}
      PROVE  PageInv'
  <2>1. SilentOnlyAfterIR' /\ ToastInv' /\ EditorInv'
    BY <1>1 DEF PageInv, SilentOnlyAfterIR, ToastInv, EditorInv, IRReadable, IRShown,
                IRPane
  <2>2. ScrollInv'
    BY <1>1 DEF PageInv, scrolling, ScrollInv
  <2>3. CopyInv'
    BY <1>1 DEF PageInv, copies, CopyInv, CopiedFits, CopyLabel, OutputShown, ResultPane
  <2> QED BY <1>1, <2>1, <2>2, <2>3 DEF PageInv, Calm
<1>2. [Next]_vars => Calm
  BY StepCalm DEF PageInv
<1>3. ASSUME NEW i \in Submissions, OldFormGoesOn(i) PROVE PageInv'
  <2>1. Next
    BY <1>3 DEF OldFormGoesOn, Next
  <2>2. Orphaned(i) /\ UNCHANGED widgets /\ selected \in Examples \cup {""}
    BY <1>3 DEF OldFormGoesOn, PageInv
  <2> QED BY <1>1, <1>2, <2>1, <2>2 DEF Orphaned, widgets
<1>4. ASSUME NEW e \in Examples \cup {""}, SelectExample(e) PROVE PageInv'
  <2>1. selected' \in Examples \cup {""}
    BY <1>4 DEF SelectExample
  <2>2. CASE e \notin Examples \/ e = input
    <3>1. UNCHANGED <<vars, reason, timers, shownFor, providers, theme, scrolling, copies>>
      BY <1>4, <2>2 DEF SelectExample
    <3> QED BY <1>1, <1>2, <2>1, <3>1 DEF vars
  <2>3. CASE ~(e \notin Examples \/ e = input)
    <3>1. Edit /\ Render("text")
      BY <1>4, <2>3 DEF SelectExample
    <3> QED BY <1>2, <2>1, <3>1, RenderInv DEF Next
  <2> QED BY <2>2, <2>3
<1>5. CASE UNCHANGED FEVars
  <2>1. UNCHANGED vars /\ UNCHANGED widgets /\ selected \in Examples \cup {""}
    BY <1>5 DEF FEVars, PageInv
  <2> QED BY <1>1, <1>2, <2>1 DEF vars, widgets
<1> QED
  BY <1>3, <1>4, <1>5, FormStepPageInv, WidgetStepPageInv DEF FENext

(* The invariant holds in every reachable state of the page.               *)
THEOREM AlwaysPageInv == FESpec => []PageInv
  BY InitPageInv, StepPageInv, PTL DEF FESpec

--------------------------------------------------------------------------------
(* The page behaves as the form does, whatever its widgets and routes do:  *)
(* what each submit goes through is a behaviour of Form.                   *)
THEOREM PageIsForm == FESpec => Init /\ [][Next]_vars
<1>1. FEInit => Init
  BY DEF FEInit
<1>2. [FENext]_FEVars => [Next]_vars
  BY StepIsForm DEF FEVars
<1> QED BY <1>1, <1>2, PTL DEF FESpec

(* Every variable of the page has its type.                                *)
THEOREM FETypeCorrect == FESpec => []FETypeOK
<1>1. PageInv => FETypeOK
  <2> SUFFICES ASSUME PageInv PROVE FETypeOK
    OBVIOUS
  <2>1. providers \in {0, 1}
    BY DEF PageInv, EditorInv
  <2>2. listening \in BOOLEAN /\ scrollPosition \in {0, 1} /\ scrollTop \in {0, 1}
    BY DEF PageInv, ScrollInv
  <2>3. timers \subseteq Ages /\ shownFor \in Ages
    BY DEF PageInv, ToastInv
  <2>4. copying \in Seq(Submissions) /\ copied \in Submissions \cup {"none"} /\ copyTimers \in Nat
    BY DEF PageInv, CopyInv
  <2>5. TypeOK /\ reason \in {"none", "text", "empty"}
        /\ theme \in {"light", "llvm-theme"} /\ selected \in Examples \cup {""}
    BY DEF PageInv, Inv
  <2>6. {0, 1} \subseteq Nat
    OBVIOUS
  <2> QED BY <2>1, <2>2, <2>3, <2>4, <2>5, <2>6 DEF FETypeOK
<1> QED BY <1>1, AlwaysPageInv, PTL

(* On the page too, one submit is under way at most, the flags say which,  *)
(* a verdict is about the IR stored, and a toast says what is the case     *)
(* (CodeEditorForm.tsx:42-122).                                            *)
THEOREM PageFormSafety ==
  FESpec => [](SingleFlight /\ BusyShown /\ VerdictFitsIR /\ ToastFits)
<1>1. PageInv => SingleFlight /\ BusyShown /\ VerdictFitsIR /\ ToastFits
  BY DEF PageInv, Inv
<1> QED BY <1>1, AlwaysPageInv, PTL

(* Nor does the page keep its form busy for another submit, or for longer. *)
THEOREM PageBusyForOne == FESpec => BusyForOne
<1>1. PageInv /\ [FENext]_FEVars =>
        [/\ isGeneratingIR /\ isGeneratingIR' => \E i \in Submissions : InFlight(i) /\ InFlight(i)'
         /\ \A i \in Submissions : flight[i] # "unused" =>
              /\ flight'[i] = flight[i] \/ AnswersLeft(flight'[i]) < AnswersLeft(flight[i])
              /\ InFlight(i)' => InFlight(i)]_vars
  <2> SUFFICES ASSUME PageInv, [FENext]_FEVars
               PROVE  /\ isGeneratingIR /\ isGeneratingIR' =>
                           \E i \in Submissions : InFlight(i) /\ InFlight(i)'
                      /\ \A i \in Submissions : flight[i] # "unused" =>
                           /\ \/ flight'[i] = flight[i]
                              \/ AnswersLeft(flight'[i]) < AnswersLeft(flight[i])
                           /\ InFlight(i)' => InFlight(i)
    OBVIOUS
  <2>1. Inv
    BY DEF PageInv
  <2>2. [Next]_vars
    BY StepIsForm DEF FEVars
  <2> QED
    BY <2>1, <2>2, StepBusyForOne
<1> QED BY <1>1, AlwaysPageInv, PTL DEF FESpec, BusyForOne

(* A failure without a word is one of the validation.                      *)
THEOREM SilentOnlyAfterIRHolds == FESpec => []SilentOnlyAfterIR
<1>1. PageInv => SilentOnlyAfterIR
  BY DEF PageInv
<1> QED BY <1>1, AlwaysPageInv, PTL

(* An IR that is shown has its colours, and its hovers once.               *)
THEOREM IRReadableHolds == FESpec => []IRReadable
<1>1. PageInv => IRReadable
  BY DEF PageInv, EditorInv
<1> QED BY <1>1, AlwaysPageInv, PTL

(* The modal, the button and the toast agree.                              *)
THEOREM PageAgreesHolds == FESpec => []PageAgrees
<1>1. PageInv => PageAgrees
  <2> SUFFICES ASSUME PageInv PROVE PageAgrees
    OBVIOUS
  <2>1. isLoading => isGeneratingIR
    BY DEF PageInv, Inv, BusyShown
  <2>2. isGeneratingIR => result.kind = "none"
    BY DEF PageInv, Inv, UnderWay
  <2>3. ToastFits
    BY DEF PageInv, Inv
  <2>4. ResultPane \in {"Translation Verified", "Verification Failed"} =>
          ~isLoading /\ result.kind # "none"
    BY DEF ResultPane
  <2>5. ResultPane = "Translation Verified" => result.kind = "verified"
    BY DEF ResultPane
  <2>6. ResultPane = "Validating translation..." => isLoading
    BY DEF ResultPane
  <2>7. toast = "error" => result.kind # "verified"
    BY <2>3 DEF ToastFits
  <2>8. ResultPane = "Verification Failed" => result.kind \notin {"verified", "none"}
    BY DEF ResultPane
  <2>9. ResultPane = "Verification Failed" => toast # "success"
    BY <2>3, <2>8 DEF ToastFits
  <2> QED BY <2>1, <2>2, <2>3, <2>4, <2>5, <2>6, <2>7, <2>9 DEF PageAgrees, ButtonLabel, ToastFits
<1> QED BY <1>1, AlwaysPageInv, PTL

(* "Copied!" beside a verdict is about its output, and it ends.            *)
THEOREM CopiedFitsHolds == FESpec => []CopiedFits
<1>1. PageInv => CopiedFits
  BY DEF PageInv, CopyInv
<1> QED BY <1>1, AlwaysPageInv, PTL

(* Nothing grows older than the duration.                                  *)
LEMMA OldestAges == \A age \in Ages : Duration <= age => age = Duration
  BY DurationAssumption DEF Ages

(* A toast is closed by a timer only when it was shown for its duration.   *)
THEOREM ToastStaysHolds == FESpec => ToastStays
<1>1. PageInv => (TimerFires => shownFor = Duration)
  <2>1. PageInv => ToastInv
    BY DEF PageInv
  <2>2. ToastInv /\ Duration \in timers => shownFor = Duration
    BY OldestAges DEF ToastInv
  <2>3. TimerFires => Duration \in timers
    BY DEF TimerFires
  <2> QED BY <2>1, <2>2, <2>3
<1>2. PageInv => [TimerFires => shownFor = Duration]_FEVars
  BY <1>1
<1> QED BY <1>2, AlwaysPageInv, PTL DEF ToastStays
================================================================================
