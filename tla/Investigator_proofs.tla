------------------------ MODULE Investigator_proofs ------------------------
(***************************************************************************)
(* Proofs about Investigator, for any checks and any limits.  Control      *)
(* (where the loop is) and counters (what it has spent) are proved apart:  *)
(* they meet only in Attempts, the one way in which a counter changes.     *)
(***************************************************************************)
EXTENDS Investigator, SequenceTheorems, TLAPS

(* Check c is attempted, with or without a job on the device. *)
Attempts(c) == Within(c) /\ (Succeeds(c) \/ FailsOrIsLost(c) \/ NotDispatched(c))

(* It is the one investigate is left over. *)
LeftOver(c) ==
  /\ pc' = "raised"
  /\ Dispatch(c) \/ UNCHANGED dispatched
  /\ UNCHANGED counters

-----------------------------------------------------------------------------
(* Control                                                                 *)

LEMMA RepliesAreCalls == Replies \subseteq Seq(Calls)
  BY LimitsAssumption DEF Replies

LEMMA HeadAndTail ==
  ASSUME ControlOK, calls # <<>>
  PROVE  Head(calls) \in Calls /\ Tail(calls) \in Seq(Calls)
  BY HeadTailProperties DEF ControlOK

(* The loop is stopped by the budget alone, and only within a reply. *)
StopHasReason ==
  /\ stop \/ pc = "reporting" => stoppedBecause = "budget"
  /\ pc = "asking" => ~stop
ControlInv == ControlOK /\ StopHasReason

LEMMA ControlInit == Init => ControlInv
<1> SUFFICES ASSUME Init PROVE ControlInv
  OBVIOUS
<1>1. calls \in Seq(Calls)
  BY EmptySeq DEF Init
<1> QED
  BY <1>1 DEF Init, ControlInv, ControlOK, StopHasReason, Reasons

LEMMA ControlStep == ControlInv /\ [Next]_vars => ControlInv'
<1> SUFFICES ASSUME ControlInv, [Next]_vars PROVE ControlInv'
  OBVIOUS
<1> USE DEF ControlInv, StopHasReason, ending
<1>1. CASE TimedOut \/ ModelFails \/ Concludes
  <2>1. ASSUME NEW reason \in Reasons \ {""}, NEW found \in BOOLEAN,
               pc = "asking", Finish(reason, found), found => reason = "concluded"
        PROVE  ControlInv'
    BY <2>1 DEF Finish, ControlOK
  <2>2. {"time", "model", "concluded"} \subseteq Reasons \ {""}
    BY DEF Reasons
  <2>3. CASE TimedOut \/ ModelFails
    BY <2>1, <2>2, <2>3 DEF TimedOut, ModelFails
  <2>4. CASE Concludes
    <3>1. PICK text \in BOOLEAN : Finish("concluded", text)
      BY <2>4 DEF Concludes
    <3> QED
      BY <2>1, <2>2, <2>4, <3>1 DEF Concludes
  <2> QED
    BY <1>1, <2>3, <2>4
<1>2. CASE AsksForTools
  <2>1. calls' \in Seq(Calls)
    BY <1>2, RepliesAreCalls DEF AsksForTools
  <2>2. /\ pc = "asking" /\ pc' = "running" /\ stop' = FALSE
        /\ UNCHANGED <<stoppedBecause, finding, late, refused>>
    BY <1>2 DEF AsksForTools
  <2> QED
    BY <2>1, <2>2 DEF ControlOK
<1>3. CASE Unreadable
  BY <1>3, HeadAndTail DEF Unreadable, NextCall, ControlOK
<1>4. CASE Refused
  BY <1>4, HeadAndTail DEF Refused, NextCall, ControlOK, Reasons
<1>5. CASE Attempt
  BY <1>5, HeadAndTail DEF Attempt, NextCall, StopKept, ControlOK
<1>6. CASE EndOfReply
  BY <1>6 DEF EndOfReply, ControlOK
<1>7. CASE FinalWord
  BY <1>7 DEF FinalWord, Finish, ControlOK
<1>8. CASE Raises
  BY <1>8 DEF Raises, ControlOK
<1>9. CASE TimePasses
  BY <1>9 DEF TimePasses, ControlOK
<1>10. CASE UNCHANGED vars
  BY <1>10 DEF vars, ControlOK
<1> QED
  BY <1>1, <1>2, <1>3, <1>4, <1>5, <1>6, <1>7, <1>8, <1>9, <1>10 DEF Next, Step

-----------------------------------------------------------------------------
(* Counters                                                                *)

(* A step leaves every counter alone or attempts a check. *)
LEMMA OnlyAttempts ==
  ASSUME ControlOK, [Next]_vars
  PROVE  \/ UNCHANGED <<counters, dispatched>> /\ (pc = "raised" => pc' = "raised")
         \/ pc # "raised" /\ \E c \in Checks : Attempts(c)
         \/ pc # "raised" /\ \E c \in Checks : LeftOver(c)
<1>1. CASE Attempt
  <2>1. Head(calls) \in Checks
    BY <1>1, HeadAndTail DEF Attempt, Calls
  <2>2. Attempts(Head(calls))
    BY <1>1 DEF Attempt, Attempts
  <2>3. pc # "raised"
    BY <1>1 DEF Attempt
  <2> QED
    BY <2>1, <2>2, <2>3
<1>2. CASE Raises
  <2>1. Head(calls) \in Checks
    BY <1>2, HeadAndTail DEF Raises, Calls
  <2> QED
    BY <1>2, <2>1 DEF Raises, LeftOver
<1>3. CASE ~Attempt /\ ~Raises
  BY <1>3 DEF Next, Step, TimedOut, ModelFails, Concludes, Finish, AsksForTools,
    Unreadable, Refused, EndOfReply, FinalWord, TimePasses, vars
<1> QED
  BY <1>1, <1>2, <1>3

(* What Budget.check says of the numbers. *)
LEMMA WithinNumbers ==
  ASSUME NEW c \in Checks, Within(c)
  PROVE  /\ diagnosticsRun < MaxDiagnostics /\ attempts < MaxAttempts
         /\ failedAttempts < MaxFailed /\ outputBytes < MaxOutput
         /\ signatures[c] < MaxRepeats
  BY DEF Within

LEMMA CountersStep ==
  ASSUME CountersOK, NEW c \in Checks, Attempts(c)
  PROVE  CountersOK'
<1>1. CASE RecordSuccess(c)
  <2>1. PICK bytes \in 0..MaxSize : outputBytes' = outputBytes + bytes
    BY <1>1 DEF RecordSuccess
  <2>2. bytes \in Nat
    BY <2>1, LimitsAssumption
  <2> QED
    BY <1>1, <2>1, <2>2 DEF RecordSuccess, Attempted, CountersOK, Attempts,
      Succeeds, FailsOrIsLost, NotDispatched, Dispatch
<1>2. CASE RecordFailure(c)
  BY <1>2 DEF RecordFailure, Attempted, CountersOK, Attempts,
      Succeeds, FailsOrIsLost, NotDispatched, Dispatch
<1> QED
  BY <1>1, <1>2 DEF Attempts, Succeeds, FailsOrIsLost, NotDispatched

LEMMA NothingSpent ==
  ASSUME Init
  PROVE  /\ diagnosticsRun = 0 /\ attempts = 0 /\ failedAttempts = 0 /\ outputBytes = 0
         /\ signatures = [c \in Checks |-> 0]
         /\ dispatched = [c \in Checks |-> 0]
  BY Zenon DEF Init

LEMMA CountersInit == Init => CountersOK
  BY NothingSpent DEF CountersOK

(* Every reachable state of a diagnosis is well typed, and a diagnosis     *)
(* that is reporting or finished says why it stopped.                      *)
THEOREM TypeCorrect == Spec => []TypeOK
<1> DEFINE Inv == ControlInv /\ CountersOK
<1>1. Init => Inv
  BY ControlInit, CountersInit
<1>2. Inv /\ [Next]_vars => Inv'
  <2> SUFFICES ASSUME ControlInv, CountersOK, [Next]_vars PROVE CountersOK'
    BY ControlStep
  <2>1. CASE UNCHANGED <<counters, dispatched>>
    BY <2>1 DEF CountersOK, counters
  <2>2. CASE \E c \in Checks : Attempts(c)
    BY <2>2, CountersStep
  <2>3. ASSUME NEW c \in Checks, LeftOver(c) PROVE CountersOK'
    BY <2>3 DEF LeftOver, Dispatch, CountersOK, counters
  <2> QED
    BY <2>1, <2>2, <2>3, OnlyAttempts DEF ControlInv
<1>3. Inv => TypeOK
  BY DEF ControlInv, TypeOK
<1> QED
  BY <1>1, <1>2, <1>3, PTL DEF Spec

(* Whatever the limits are, no diagnosis exceeds one, but for the output   *)
(* of its last successful check.                                           *)
THEOREM LimitsHold == Spec => []WithinLimits
<1>1. Init => WithinLimits
  BY NothingSpent, LimitsAssumption DEF WithinLimits
<1>2. TypeOK /\ WithinLimits /\ [Next]_vars => WithinLimits'
  <2> SUFFICES ASSUME ControlOK, CountersOK, WithinLimits, [Next]_vars
               PROVE  WithinLimits'
    BY DEF TypeOK
  <2>1. CASE UNCHANGED counters
    BY <2>1 DEF WithinLimits, counters
  <2>2. ASSUME NEW c \in Checks, Attempts(c) PROVE WithinLimits'
    <3>1. CASE RecordSuccess(c)
      <4>1. PICK bytes \in 0..MaxSize : outputBytes' = outputBytes + bytes
        BY <3>1 DEF RecordSuccess
      <4>2. outputBytes' < MaxOutput + MaxSize
        BY <2>2, <4>1, WithinNumbers, LimitsAssumption DEF Attempts, CountersOK
      <4> QED
        BY <2>2, <3>1, <4>2, WithinNumbers, LimitsAssumption
          DEF Attempts, Succeeds, FailsOrIsLost, NotDispatched, Dispatch,
              RecordSuccess, Attempted, CountersOK, WithinLimits
    <3>2. CASE RecordFailure(c)
      BY <2>2, <3>2, WithinNumbers, LimitsAssumption
        DEF Attempts, Succeeds, FailsOrIsLost, NotDispatched, Dispatch,
            RecordFailure, Attempted, CountersOK, WithinLimits
    <3> QED
      BY <2>2, <3>1, <3>2 DEF Attempts, Succeeds, FailsOrIsLost, NotDispatched
  <2> QED
    BY <2>1, <2>2, OnlyAttempts DEF LeftOver
<1> QED
  BY <1>1, <1>2, TypeCorrect, PTL DEF Spec

(* No job reaches the device without being counted as an attempt, but for  *)
(* the one whose answer made the client fail.                              *)
THEOREM DispatchesCounted == Spec => []DispatchesAreCounted
<1>1. Init => DispatchesAreCounted
  BY NothingSpent DEF DispatchesAreCounted
<1>2. TypeOK /\ DispatchesAreCounted /\ [Next]_vars => DispatchesAreCounted'
  <2> SUFFICES ASSUME ControlOK, CountersOK, DispatchesAreCounted, [Next]_vars
               PROVE  DispatchesAreCounted'
    BY DEF TypeOK
  <2>1. CASE UNCHANGED <<counters, dispatched>> /\ (pc = "raised" => pc' = "raised")
    BY <2>1 DEF DispatchesAreCounted, counters
  <2>2. ASSUME NEW c \in Checks, Attempts(c), pc # "raised"
        PROVE  DispatchesAreCounted'
    BY <2>2 DEF Attempts, Succeeds, FailsOrIsLost, NotDispatched, Dispatch,
      RecordSuccess, RecordFailure, Attempted, CountersOK, DispatchesAreCounted
  <2>3. ASSUME NEW c \in Checks, LeftOver(c), pc # "raised"
        PROVE  DispatchesAreCounted'
    BY <2>3 DEF LeftOver, Dispatch, counters, CountersOK, DispatchesAreCounted
  <2> QED
    BY <2>1, <2>2, <2>3, OnlyAttempts
<1> QED
  BY <1>1, <1>2, TypeCorrect, PTL DEF Spec

-----------------------------------------------------------------------------
(* Endings                                                                 *)

(* After a refusal the loop only runs the rest of its reply, and reports.  *)
CutOffInv ==
  refused => /\ stoppedBecause = "budget"
             /\ pc # "asking"
             /\ pc = "running" => stop

(* No diagnosis that the budget refused a check is reported as concluded.  *)
THEOREM CutOffsAreSaid == Spec => []CutOffIsSaid
<1>1. Init => CutOffInv
  BY DEF Init, CutOffInv
<1>2. CutOffInv /\ [Next]_vars => CutOffInv'
  <2> SUFFICES ASSUME CutOffInv, [Next]_vars PROVE CutOffInv'
    OBVIOUS
  <2> USE DEF CutOffInv, ending
  <2>1. CASE TimedOut \/ ModelFails \/ Concludes
    BY <2>1 DEF TimedOut, ModelFails, Concludes, Finish
  <2>2. CASE AsksForTools
    BY <2>2 DEF AsksForTools
  <2>3. CASE Unreadable
    BY <2>3 DEF Unreadable, NextCall
  <2>4. CASE Refused
    BY <2>4 DEF Refused, NextCall
  <2>5. CASE Attempt
    BY <2>5 DEF Attempt, NextCall, StopKept
  <2>6. CASE EndOfReply \/ Raises
    BY <2>6 DEF EndOfReply, Raises
  <2>7. CASE FinalWord
    BY <2>7 DEF FinalWord, Finish
  <2>8. CASE TimePasses
    BY <2>8 DEF TimePasses
  <2>9. CASE UNCHANGED vars
    BY <2>9 DEF vars
  <2> QED
    BY <2>1, <2>2, <2>3, <2>4, <2>5, <2>6, <2>7, <2>8, <2>9 DEF Next, Step
<1>3. CutOffInv => CutOffIsSaid
  BY DEF CutOffInv, CutOffIsSaid
<1> QED
  BY <1>1, <1>2, <1>3, PTL DEF Spec
=============================================================================
