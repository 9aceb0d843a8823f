------------------------ MODULE Investigation_proofs ------------------------
(***************************************************************************)
(* Proofs about Investigation, for any operators and any number of         *)
(* crashes: at most one repair runs, once, and it is the one an operator   *)
(* was shown and approved; decisions and ends of investigations stand.     *)
(***************************************************************************)
EXTENDS Investigation, TLAPS

(* Runs are counted: there is one more of them than there were crashes at  *)
(* most, and a queued investigation has one left.                          *)
RunsCounted ==
  /\ run <= crashes + 1
  /\ ~alive \/ status \in {"none", "queued"} => run <= crashes
  /\ status \notin {"none", "queued"} => run > 0

(* A worker is where its investigation's status says it is. *)
WorkersFit ==
  /\ ~alive => diagnosis = "idle" /\ repair = "idle"
  /\ diagnosis = "scheduled" => status = "queued"
  /\ diagnosis \in {"running", "saved"} => status = "investigating"
  /\ diagnosis \in {"planning", "stored"} => status = "planning"
  /\ repair # "idle" => status \in Applying

(* A diagnosis starts with nothing stored. *)
StoryFits ==
  status \in {"none", "queued"} => evidence = {} /\ \A p \in Runs : proposal[p] = "none"

(* What the status says of the proposal, its decision and its job. *)
StatusFits ==
  /\ status \in Diagnosing \cup {"none"} => \A p \in Runs : decision[p] = "none"
  /\ status = "awaiting_approval" =>
       proposal[run] = "proposed" /\ (alive => decision[run] = "none")
  /\ status \in Applying \cup {"resolved"} => decision[run] = "approve"
  /\ status = "resolved" \/ repair \in {"verifying", "resolved"} => job[run] = "ok"

(* Decision, job and executions of one proposal. *)
RepairFits == \A p \in Runs :
  /\ decision[p] # "none" =>
       /\ proposal[p] = "proposed"
       /\ decidedBy[p] \in Operators
       /\ p \in seen[decidedBy[p]]
  /\ job[p] # "none" => decision[p] = "approve"
  /\ job[p] = "none" => p \notin wire /\ ran[p] = 0
  /\ p \in wire => ran[p] = 0
  /\ p \in done \/ job[p] = "ok" => ran[p] = 1
  /\ ran[p] <= 1

IInv ==
  /\ TypeOK
  /\ RunsCounted
  /\ WorkersFit
  /\ StoryOfOneRun
  /\ StoryFits
  /\ StatusFits
  /\ RepairFits

-----------------------------------------------------------------------------
(* The one proposal there is                                               *)

LEMMA RunsAreNat == Runs \subseteq Nat /\ MaxCrashes + 1 \in Nat
  BY CrashesAssumption DEF Runs

LEMMA Counters ==
  ASSUME TypeOK
  PROVE  run \in Nat /\ crashes \in Nat
  BY CrashesAssumption DEF TypeOK

(* Once a diagnosis was started its run has a place in the tables. *)
LEMMA RunIsARun ==
  ASSUME IInv, status \notin {"none", "queued"}
  PROVE  run \in Runs
  BY CrashesAssumption DEF IInv, RunsCounted, TypeOK, Runs

LEMMA CurrentIsRun ==
  ASSUME StoryOfOneRun, NEW p \in Runs, Current(p)
  PROVE  p = run
  BY DEF StoryOfOneRun, Current

(* A proposal that is stored is the current one. *)
LEMMA StoredIsCurrent ==
  ASSUME StoryOfOneRun, NEW p \in Runs, proposal[p] # "none"
  PROVE  p = run /\ Current(p)
<1>1. \A q \in Runs : proposal[q] # "none" => q = p
  BY DEF StoryOfOneRun
<1>2. \A q \in Runs : proposal[q] # "none" => q <= p
  BY <1>1, RunsAreNat
<1> QED
  BY <1>2 DEF StoryOfOneRun, Current

(* While the repair's worker is under way its proposal is approved. *)
LEMMA ApplierFits ==
  ASSUME IInv, repair # "idle"
  PROVE  /\ status \in Applying
         /\ run \in Runs
         /\ decision[run] = "approve"
         /\ proposal[run] = "proposed"
<1>1. status \in Applying
  BY DEF IInv, WorkersFit
<1>2. run \in Runs
  BY <1>1, RunIsARun DEF Applying
<1>3. decision[run] = "approve"
  BY <1>1 DEF IInv, StatusFits
<1> QED
  BY <1>1, <1>2, <1>3 DEF IInv, RepairFits

-----------------------------------------------------------------------------
(* Types                                                                   *)

LEMMA InvariantInit == Init => IInv
<1> SUFFICES ASSUME Init PROVE IInv
  OBVIOUS
<1>1. TypeOK
  BY CrashesAssumption DEF Init, TypeOK
<1>2. RunsCounted
  BY CrashesAssumption DEF Init, RunsCounted
<1>3. WorkersFit /\ StoryOfOneRun /\ StoryFits
  BY DEF Init, WorkersFit, StoryOfOneRun, StoryFits, Applying
<1>4. StatusFits /\ RepairFits
  BY DEF Init, StatusFits, RepairFits, Applying, Diagnosing
<1> QED
  BY <1>1, <1>2, <1>3, <1>4 DEF IInv

(* A step keeps the types of the state. *)
LEMMA TypeStep == IInv /\ [Next]_vars => TypeOK'
<1> SUFFICES ASSUME IInv, [Next]_vars PROVE TypeOK'
  OBVIOUS
<1> USE CrashesAssumption DEF TypeOK, rows, workers, device
<1>0. TypeOK
  BY DEF IInv
<1>1. CASE Submit
  BY <1>0, <1>1 DEF Submit, Diagnosing
<1>2. ASSUME LoseMemory
      PROVE  /\ crashes' \in 0..MaxCrashes
             /\ alive' \in BOOLEAN /\ diagnosis' = "idle" /\ repair' = "idle"
             /\ UNCHANGED <<evidence, proposal, job, device, run, seen>>
  <2>1. crashes' \in 0..MaxCrashes
    BY <1>0, <1>2, SMT DEF LoseMemory
  <2>2. alive' \in BOOLEAN
    BY <1>2 DEF LoseMemory
  <2> QED
    BY <1>2, <2>1, <2>2 DEF LoseMemory
<1>3. CASE CrashInSubmit
  <2>1. status' \in Diagnosing /\ UNCHANGED <<outcome, decision, decidedBy, lapsed>>
    BY <1>3 DEF CrashInSubmit, Diagnosing
  <2>2. LoseMemory
    BY <1>3 DEF CrashInSubmit
  <2> QED
    BY <1>0, <1>2, <2>1, <2>2
<1>4. CASE Diagnosis
  <2>1. CASE Claim
    BY <1>0, <2>1 DEF Claim, IInv, RunsCounted, Diagnosing
  <2>2. diagnosis \in {"running", "saved", "planning", "stored"} => run \in Runs
    BY RunIsARun DEF IInv, WorkersFit
  <2>3. CASE SaveEvidence
    BY <1>0, <2>2, <2>3 DEF SaveEvidence
  <2>4. CASE DiagnosisFails \/ Conclude \/ Publish
    BY <1>0, <2>4 DEF DiagnosisFails, Failure, Conclude, Publish, Diagnosing, Finished
  <2>5. ASSUME NEW choice \in {"proposed", "no_action"}, StoreProposal(choice)
        PROVE  TypeOK'
    BY <1>0, <2>2, <2>5 DEF StoreProposal
  <2> QED
    BY <1>4, <2>1, <2>3, <2>4, <2>5 DEF Diagnosis
<1>5. CASE Deciding
  <2>1. PICK o \in Operators :
          \/ Look(o)
          \/ \E p \in Runs, d \in {"approve", "reject"} :
               Decide(o, p, d) \/ CrashInDecide(o, p, d)
    BY <1>5 DEF Deciding
  <2>2. CASE Look(o)
    BY <1>0, <2>2 DEF Look
  <2>3. ASSUME NEW p \in Runs, NEW d \in {"approve", "reject"}, Decide(o, p, d)
        PROVE  TypeOK'
    BY <1>0, <2>3 DEF Decide, Record, Applying, Finished
  <2>4. ASSUME NEW p \in Runs, NEW d \in {"approve", "reject"}, CrashInDecide(o, p, d)
        PROVE  TypeOK'
    BY <1>0, <1>2, <2>4 DEF CrashInDecide, Record
  <2> QED
    BY <2>1, <2>2, <2>3, <2>4
<1>6. CASE Apply
  <2>1. CASE StillBroken \/ NotConfirmed \/ PollFails \/ Verified \/ NotVerified
    BY <1>0, <2>1 DEF StillBroken, NotConfirmed, PollFails, Verified, NotVerified, ApplierAt
  <2>2. CASE Settle
    <3>1. outcome' \in {"not_applied", "resolved", "unresolved"}
      BY <2>2 DEF Settle, Settled
    <3>2. status' \in Finished
      BY <2>2 DEF Settle, Settled, Finished
    <3> QED
      BY <1>0, <2>2, <3>1, <3>2 DEF Settle
  <2>3. ASSUME NEW p \in Runs,
               \/ Authorize(p) \/ ApprovalLapsed(p) \/ DispatchRefused(p)
               \/ RepairDone(p) \/ RepairFailed(p)
        PROVE  TypeOK'
    BY <1>0, <2>3 DEF Authorize, ApprovalLapsed, DispatchRefused, RepairDone, RepairFailed,
       ApplierAt, Applying
  <2>4. ASSUME NEW p \in Runs, NEW answered \in BOOLEAN, Dispatch(p, answered)
        PROVE  TypeOK'
    BY <1>0, <2>4 DEF Dispatch
  <2>5. CASE ApplyBreaks
    BY <1>0, <2>5 DEF ApplyBreaks, Finished
  <2> QED
    BY <1>6, <2>1, <2>2, <2>3, <2>4, <2>5 DEF Apply
<1>7. CASE Device
  <2>1. CASE Drift
    BY <1>0, <2>1 DEF Drift
  <2>2. ASSUME NEW p \in Runs, DeviceRuns(p) \/ GiveUp(p) \/ Lapse(p)
        PROVE  TypeOK'
    BY <1>0, <2>2 DEF DeviceRuns, GiveUp, Lapse
  <2>3. ASSUME NEW p \in Runs, NEW end \in {"ok", "bad"}, Report(p, end)
        PROVE  TypeOK'
    BY <1>0, <2>3 DEF Report
  <2> QED
    BY <1>7, <2>1, <2>2, <2>3 DEF Device
<1>8. CASE Crash \/ CrashInSettle
  <2>1. /\ outcome' \in {"null", "not_applied", "resolved", "unresolved"}
        /\ UNCHANGED <<status, decision, decidedBy, lapsed>>
    BY <1>0, <1>8 DEF Crash, CrashInSettle, Settled
  <2>2. LoseMemory
    BY <1>8 DEF Crash, CrashInSettle
  <2> QED
    BY <1>0, <1>2, <2>1, <2>2
<1>9. CASE Recover
  <2>1. PICK d \in {"none", "approve", "reject"} : ServerStart(d)
    BY <1>9 DEF Recover
  <2>2. status' \in Diagnosing \cup Applying \cup Finished \cup {"none", "awaiting_approval"}
    BY <1>0, <2>1 DEF ServerStart, Recovered, Diagnosing, Applying, Finished
  <2>3. evidence' \subseteq Runs /\ proposal' \in [Runs -> {"none", "proposed", "no_action"}]
    BY <1>0, <2>1 DEF ServerStart, EvidenceLeft, ProposalsLeft
  <2>4. job' \in [Runs -> {"none", "active", "ok", "bad"}]
    BY <1>0, <2>1 DEF ServerStart
  <2>5. /\ diagnosis' \in {"idle", "scheduled"} /\ repair' \in {"idle", "scheduled"}
        /\ alive' \in BOOLEAN
        /\ outcome' \in {"null", "not_applied", "resolved", "unresolved"}
    BY <1>0, <2>1 DEF ServerStart, Resumes
  <2> QED
    BY <1>0, <2>1, <2>2, <2>3, <2>4, <2>5 DEF ServerStart
<1>10. CASE UNCHANGED vars
  BY <1>0, <1>10 DEF vars
<1> QED
  BY <1>1, <1>4, <1>5, <1>6, <1>7, <1>8, <1>9, <1>10, <1>3 DEF Next

-----------------------------------------------------------------------------
(* The inductive step                                                      *)

Parts == RunsCounted /\ WorkersFit /\ StoryOfOneRun /\ StoryFits /\ StatusFits /\ RepairFits

(* The report, and the server dying over it. *)
LEMMA SubmitStep ==
  ASSUME IInv, TypeOK', Submit \/ CrashInSubmit
  PROVE  Parts'
<1> USE DEF rows, device
<1>1. /\ status = "none" /\ status' = "queued"
      /\ UNCHANGED <<evidence, proposal, decision, decidedBy, job, wire, ran, done, run, seen>>
      /\ repair' = "idle" \/ repair' = repair
  BY DEF Submit, CrashInSubmit, LoseMemory
<1>2. repair' = "idle" /\ diagnosis' \in {"idle", "scheduled"}
  BY <1>1 DEF IInv, WorkersFit, Applying, Submit, CrashInSubmit, LoseMemory
<1>3. RunsCounted'
  BY <1>1, Counters DEF IInv, RunsCounted, Submit, CrashInSubmit, LoseMemory
<1>4. WorkersFit'
  BY <1>1, <1>2 DEF WorkersFit, Submit, CrashInSubmit, LoseMemory
<1>5. StoryOfOneRun' /\ StoryFits'
  BY <1>1 DEF IInv, StoryOfOneRun, StoryFits
<1>6. StatusFits'
  BY <1>1, <1>2 DEF IInv, StatusFits, Applying
<1>7. RepairFits'
  BY <1>1 DEF IInv, RepairFits
<1> QED
  BY <1>3, <1>4, <1>5, <1>6, <1>7 DEF Parts

(* The diagnosis worker. *)
LEMMA DiagnosisStep ==
  ASSUME IInv, TypeOK', Diagnosis
  PROVE  Parts'
<1> USE DEF device
<1>1. /\ UNCHANGED <<decision, decidedBy, job, wire, ran, done, seen, alive, repair, crashes>>
      /\ diagnosis # "idle"
  BY DEF Diagnosis, Claim, SaveEvidence, DiagnosisFails, Conclude, StoreProposal, Publish
<1>2. /\ status \in Diagnosing
      /\ alive
      /\ repair = "idle"
      /\ \A p \in Runs : decision[p] = "none"
      /\ diagnosis \notin {"idle", "scheduled"} => run \in Runs
  BY <1>1, RunIsARun DEF IInv, WorkersFit, StatusFits, Diagnosing, Applying, TypeOK
<1>3. RunsCounted'
  BY <1>1, <1>2 DEF IInv, RunsCounted, WorkersFit, TypeOK, Diagnosing, Diagnosis, Claim,
     SaveEvidence, DiagnosisFails, Failure, Conclude, StoreProposal, Publish
<1>4. WorkersFit'
  BY <1>1, <1>2 DEF IInv, WorkersFit, Diagnosis, Claim, SaveEvidence, DiagnosisFails,
     Conclude, StoreProposal, Publish
<1>5. StoryOfOneRun' /\ StoryFits'
  <2>1. CASE Claim
    BY <2>1 DEF Claim, IInv, StoryOfOneRun, StoryFits
  <2>2. CASE SaveEvidence \/ DiagnosisFails \/ Conclude \/ Publish
    BY <2>2 DEF SaveEvidence, DiagnosisFails, Failure, Conclude, Publish, IInv, WorkersFit,
       StoryOfOneRun, StoryFits
  <2>3. ASSUME NEW choice \in {"proposed", "no_action"}, StoreProposal(choice)
        PROVE  StoryOfOneRun' /\ StoryFits'
    BY <1>2, <2>3 DEF StoreProposal, IInv, TypeOK, WorkersFit, StoryOfOneRun, StoryFits
  <2> QED
    BY <2>1, <2>2, <2>3 DEF Diagnosis
<1>6. StatusFits'
  BY <1>1, <1>2 DEF StatusFits, Applying, Diagnosing, Diagnosis, Claim, SaveEvidence, DiagnosisFails,
     Failure, Conclude, StoreProposal, Publish
<1>7. RepairFits'
  BY <1>1, <1>2 DEF IInv, RepairFits
<1> QED
  BY <1>3, <1>4, <1>5, <1>6, <1>7 DEF Parts

(* The operators. *)
LEMMA DecidingStep ==
  ASSUME IInv, TypeOK', Deciding
  PROVE  Parts'
<1> USE DEF rows, device, workers
<1>1. PICK o \in Operators :
        \/ Look(o)
        \/ \E p \in Runs, d \in {"approve", "reject"} : Decide(o, p, d) \/ CrashInDecide(o, p, d)
  BY DEF Deciding
<1>2. CASE Look(o)
  <2>1. RunsCounted' /\ WorkersFit' /\ StoryOfOneRun' /\ StoryFits' /\ StatusFits'
    BY <1>2 DEF Look, IInv, RunsCounted, WorkersFit, StoryOfOneRun, StoryFits, StatusFits
  <2>2. \A q \in Operators : seen[q] \subseteq seen'[q]
    BY <1>2 DEF Look, IInv, TypeOK
  <2>3. RepairFits'
    BY <1>2, <2>2 DEF Look, IInv, RepairFits
  <2> QED
    BY <2>1, <2>3 DEF Parts
<1>3. ASSUME NEW p \in Runs, NEW d \in {"approve", "reject"},
             Decide(o, p, d) \/ CrashInDecide(o, p, d)
      PROVE  Parts'
  <2>1. /\ BindingMatches(o, p) /\ MayDecide(p, d) /\ Record(o, p, d) /\ alive
        /\ UNCHANGED <<evidence, proposal, job, wire, ran, done, run, seen>>
    BY <1>3 DEF Decide, CrashInDecide, LoseMemory
  <2>2. /\ status = "awaiting_approval" /\ p = run /\ p \in seen[o] /\ proposal[p] = "proposed"
        /\ decision[p] = "none"
    BY <2>1, CurrentIsRun DEF BindingMatches, MayDecide, IInv, StatusFits
  <2>3. /\ decision' = [decision EXCEPT ![p] = d]
        /\ decidedBy' = [decidedBy EXCEPT ![p] = o]
    BY <2>1, <2>2 DEF Record
  <2>4. repair = "idle" /\ diagnosis = "idle"
    BY <2>2 DEF IInv, WorkersFit, Applying, TypeOK
  <2>5. RunsCounted'
    BY <1>3, <2>2, Counters DEF IInv, RunsCounted, Decide, CrashInDecide, LoseMemory
  <2>6. WorkersFit'
    BY <1>3, <2>2, <2>4 DEF WorkersFit, Applying, Decide, CrashInDecide, LoseMemory, IInv
  <2>7. StoryOfOneRun' /\ StoryFits'
    BY <1>3, <2>1, <2>2 DEF IInv, StoryOfOneRun, StoryFits, Decide, CrashInDecide
  <2>8. StatusFits'
    BY <1>3, <2>1, <2>2, <2>3, <2>4 DEF IInv, TypeOK, StatusFits, Decide, CrashInDecide,
       LoseMemory, Applying, Diagnosing
  <2>9. RepairFits'
    BY <2>1, <2>2, <2>3 DEF IInv, TypeOK, RepairFits
  <2> QED
    BY <2>5, <2>6, <2>7, <2>8, <2>9 DEF Parts
<1> QED
  BY <1>1, <1>2, <1>3

(* The repair's worker. *)
LEMMA ApplyStep ==
  ASSUME IInv, TypeOK', Apply
  PROVE  Parts'
<1> USE DEF rows, device
<1>1. /\ UNCHANGED <<evidence, proposal, decision, decidedBy, ran, done, seen, run, alive,
                     crashes, diagnosis>>
      /\ repair # "idle"
  BY DEF Apply, StillBroken, NotConfirmed, PollFails, Verified, NotVerified, ApplyBreaks,
     Settle, Settled, Authorize, ApprovalLapsed, DispatchRefused, RepairDone, RepairFailed, Dispatch, ApplierAt
<1>2. /\ status \in Applying /\ run \in Runs
      /\ decision[run] = "approve" /\ proposal[run] = "proposed"
  BY <1>1, ApplierFits
<1>3. /\ alive
      /\ \A p \in Runs : Current(p) => p = run
      /\ diagnosis = "idle"
  BY <1>1, <1>2, CurrentIsRun DEF IInv, WorkersFit, Applying, TypeOK
<1>4. status' \in Applying \cup {"failed", "resolved", "unresolved"}
  BY <1>2 DEF Apply, StillBroken, NotConfirmed, PollFails, Verified, NotVerified, ApplyBreaks,
     Settle, Settled, Authorize, ApprovalLapsed, DispatchRefused, RepairDone, RepairFailed, Dispatch,
     Applying
<1>5. RunsCounted' /\ StoryOfOneRun' /\ StoryFits'
  BY <1>1, <1>2, <1>3, <1>4 DEF IInv, RunsCounted, StoryOfOneRun, StoryFits, Applying
<1>6. WorkersFit'
  <2>1. CASE Settle \/ ApplyBreaks
    BY <1>1, <1>3, <2>1 DEF WorkersFit, Settle, ApplyBreaks
  <2>2. CASE ~Settle /\ ~ApplyBreaks
    <3>1. status' \in Applying
      BY <1>2, <1>4, <2>2 DEF Apply, StillBroken, NotConfirmed, PollFails, Verified,
         NotVerified, Authorize, ApprovalLapsed, DispatchRefused, RepairDone, RepairFailed,
         Dispatch, Applying
    <3> QED
      BY <1>1, <1>3, <3>1 DEF WorkersFit
  <2> QED
    BY <2>1, <2>2
<1>7. StatusFits' /\ RepairFits'
  <2>1. CASE StillBroken \/ NotConfirmed \/ PollFails \/ Verified \/ NotVerified
    BY <1>2, <2>1 DEF StillBroken, NotConfirmed, PollFails, Verified, NotVerified, ApplierAt,
       IInv, StatusFits, RepairFits
  <2>2. CASE Settle
    BY <1>1, <1>2, <2>2 DEF Settle, Settled, IInv, StatusFits, RepairFits, Applying, Diagnosing
  <2>3. ASSUME NEW p \in Runs,
               \/ Authorize(p) \/ ApprovalLapsed(p) \/ DispatchRefused(p) \/ RepairFailed(p)
        PROVE  StatusFits' /\ RepairFits'
    BY <1>1, <1>2, <2>3 DEF Authorize, ApprovalLapsed, DispatchRefused, RepairFailed, ApplierAt,
       IInv, StatusFits, RepairFits
  <2>4. ASSUME NEW p \in Runs, RepairDone(p)
        PROVE  StatusFits' /\ RepairFits'
    BY <1>1, <1>2, <1>3, <2>4 DEF RepairDone, EndedWell, ApplierAt, IInv, StatusFits, RepairFits,
       Applying, Diagnosing
  <2>5. ASSUME NEW p \in Runs, NEW answered \in BOOLEAN, Dispatch(p, answered)
        PROVE  StatusFits' /\ RepairFits'
    <3>1. p = run /\ repair = "dispatching" /\ repair' \in {"waiting", "not_applied"}
      BY <1>3, <2>5 DEF Dispatch
    <3>2. StatusFits'
      BY <1>1, <1>2, <2>5, <3>1 DEF Dispatch, StatusFits, Applying, Diagnosing
    <3>3. CASE SentBefore(p)
      BY <2>5, <3>2, <3>3 DEF Dispatch, IInv, RepairFits
    <3>4. CASE ~SentBefore(p)
      BY <1>2, <2>5, <3>1, <3>2, <3>4 DEF Dispatch, SentBefore, IInv, TypeOK, RepairFits
    <3> QED
      BY <3>3, <3>4
  <2>6. CASE ApplyBreaks
    BY <1>1, <1>2, <2>6 DEF ApplyBreaks, IInv, StatusFits, RepairFits, Applying, Diagnosing
  <2> QED
    BY <2>1, <2>2, <2>3, <2>4, <2>5, <2>6 DEF Apply
<1> QED
  BY <1>5, <1>6, <1>7 DEF Parts

(* The device, the supervisor and the clock. *)
LEMMA DeviceStep ==
  ASSUME IInv, TypeOK', Device
  PROVE  Parts'
<1> USE DEF rows, device, workers
<1>1. /\ UNCHANGED <<status, evidence, proposal, decision, decidedBy, alive, diagnosis, repair,
                     run, seen, crashes>>
      /\ \A p \in Runs : job[p] = "ok" => job'[p] = "ok"
      /\ \A p \in Runs : job'[p] = "none" <=> job[p] = "none"
  BY DEF Device, Drift, DeviceRuns, GiveUp, Lapse, Report, IInv, TypeOK
<1>2. RunsCounted' /\ WorkersFit' /\ StoryOfOneRun' /\ StoryFits'
  BY <1>1 DEF IInv, RunsCounted, WorkersFit, StoryOfOneRun, StoryFits
<1>3. StatusFits'
  <2>1. repair # "idle" \/ status = "resolved" => run \in Runs
    BY RunIsARun, ApplierFits
  <2> QED
    BY <1>1, <2>1 DEF IInv, StatusFits
<1>4. RepairFits'
  <2>1. CASE Drift
    BY <2>1 DEF Drift, IInv, RepairFits
  <2>2. ASSUME NEW p \in Runs, DeviceRuns(p)
        PROVE  RepairFits'
    BY <2>2 DEF DeviceRuns, IInv, TypeOK, RepairFits
  <2>3. ASSUME NEW p \in Runs, GiveUp(p) \/ Lapse(p)
        PROVE  RepairFits'
    BY <2>3 DEF GiveUp, Lapse, IInv, TypeOK, RepairFits
  <2>4. ASSUME NEW p \in Runs, NEW end \in {"ok", "bad"}, Report(p, end)
        PROVE  RepairFits'
    BY <2>4 DEF Report, IInv, TypeOK, RepairFits
  <2> QED
    BY <2>1, <2>2, <2>3, <2>4 DEF Device
<1> QED
  BY <1>2, <1>3, <1>4 DEF Parts

(* The server dies, between two of its steps or within settling. *)
LEMMA CrashStep ==
  ASSUME IInv, TypeOK', Crash \/ CrashInSettle
  PROVE  Parts'
<1>1. LoseMemory /\ UNCHANGED <<status, decision, decidedBy>>
  BY DEF Crash, CrashInSettle
<1>2. RunsCounted'
  BY <1>1, Counters DEF IInv, RunsCounted, LoseMemory
<1>3. WorkersFit'
  BY <1>1 DEF LoseMemory, WorkersFit
<1>4. StoryOfOneRun' /\ StoryFits'
  BY <1>1 DEF IInv, StoryOfOneRun, StoryFits, LoseMemory
<1>5. StatusFits'
  BY <1>1 DEF IInv, StatusFits, LoseMemory
<1>6. RepairFits'
  BY <1>1 DEF IInv, RepairFits, LoseMemory, device
<1> QED
  BY <1>2, <1>3, <1>4, <1>5, <1>6 DEF Parts

(* The server starts again. *)
LEMMA RecoverStep ==
  ASSUME IInv, TypeOK', Recover
  PROVE  Parts'
<1> USE DEF device
<1>1. PICK d \in {"none", "approve", "reject"} : ServerStart(d)
  BY DEF Recover
<1>2. ~alive /\ run <= crashes
  BY <1>1 DEF ServerStart, IInv, RunsCounted
<1>3. ASSUME status \in Applying \cup {"awaiting_approval"}
      PROVE  run \in Runs /\ proposal[run] = "proposed" /\ d = decision[run]
  <2>1. run \in Runs
    BY <1>3, RunIsARun DEF Applying
  <2>2. proposal[run] = "proposed"
    BY <1>3, <2>1 DEF IInv, StatusFits, RepairFits
  <2>3. Current(run) /\ \A p \in Runs : Current(p) => p = run
    BY <2>1, <2>2, StoredIsCurrent, CurrentIsRun DEF IInv
  <2> QED
    BY <1>1, <2>1, <2>2, <2>3 DEF ServerStart
<1>4. status \in Diagnosing => \A p \in Runs : decision[p] = "none"
  BY DEF IInv, StatusFits
<1>5. RunsCounted'
  BY <1>1, <1>2, Counters DEF IInv, RunsCounted, ServerStart, Recovered, Applying, Diagnosing
<1>6. WorkersFit'
  BY <1>1 DEF WorkersFit, ServerStart, Resumes, Applying
<1>7. StoryOfOneRun' /\ StoryFits'
  BY <1>1, <1>4 DEF IInv, StoryOfOneRun, StoryFits, ServerStart, EvidenceLeft, ProposalsLeft,
     Recovered, Applying, Diagnosing
<1>8. StatusFits'
  <2>1. CASE status \in Diagnosing
    BY <1>1, <1>4, <2>1 DEF StatusFits, ServerStart, Recovered, Resumes, Applying, Diagnosing
  <2>2. CASE status \in Applying \cup {"awaiting_approval"}
    <3>1. proposal' = proposal /\ job'[run] = IF job[run] = "active" THEN "bad" ELSE job[run]
      BY <1>1, <1>3, <2>2 DEF IInv, TypeOK, ServerStart, ProposalsLeft, Applying, Diagnosing
    <3> QED
      BY <1>1, <1>3, <2>2, <3>1 DEF IInv, StatusFits, ServerStart, Recovered, Resumes, Applying,
         Diagnosing
  <2>3. CASE status \in Finished \cup {"none"}
    <3>1. status' = status /\ repair' = "idle"
      BY <1>1, <2>3 DEF ServerStart, Recovered, Resumes, Applying, Diagnosing, Finished
    <3>2. status = "resolved" => run \in Runs
      BY RunIsARun
    <3> QED
      BY <1>1, <2>3, <3>1, <3>2 DEF IInv, StatusFits, ServerStart, Applying, Diagnosing, Finished
  <2> QED
    BY <2>1, <2>2, <2>3 DEF IInv, TypeOK
<1>9. RepairFits'
  BY <1>1, <1>4 DEF IInv, TypeOK, RepairFits, ServerStart, ProposalsLeft
<1> QED
  BY <1>5, <1>6, <1>7, <1>8, <1>9 DEF Parts

LEMMA InvariantStep == IInv /\ [Next]_vars => IInv'
<1> SUFFICES ASSUME IInv, [Next]_vars PROVE IInv'
  OBVIOUS
<1>1. TypeOK'
  BY TypeStep
<1>2. CASE Next
  <2>1. Parts'
    BY <1>1, <1>2, SubmitStep, DiagnosisStep, DecidingStep, ApplyStep, DeviceStep, CrashStep,
       RecoverStep DEF Next
  <2> QED
    BY <1>1, <2>1 DEF Parts, IInv
<1>3. CASE UNCHANGED vars
  BY <1>3 DEF vars, rows, workers, device, IInv, TypeOK, RunsCounted, WorkersFit, StoryOfOneRun,
     StoryFits, StatusFits, RepairFits, Current
<1> QED
  BY <1>2, <1>3

LEMMA Invariant == Spec => []IInv
  BY InvariantInit, InvariantStep, PTL DEF Spec

-----------------------------------------------------------------------------
(* The theorems                                                            *)

(* Every variable keeps its type: in particular no more diagnoses are      *)
(* started than the report and the crashes account for                     *)
(* (claim_queued_investigation).                                           *)
THEOREM TypesKept == Spec => []TypeOK
<1>1. IInv => TypeOK
  BY DEF IInv
<1> QED
  BY <1>1, Invariant, PTL

(* One repair at most runs on the device, once at most, over any number of *)
(* crashes, lost answers and repeated diagnoses (recover_investigations).  *)
THEOREM OneRepairOnce == Spec => []RepairRunsAtMostOnce
<1>1. IInv => RepairRunsAtMostOnce
  <2> SUFFICES ASSUME IInv PROVE RepairRunsAtMostOnce
    OBVIOUS
  <2>1. \A p \in Runs : ran[p] <= 1
    BY DEF IInv, RepairFits
  <2>2. \A p \in Runs : ran[p] > 0 => p = run
    BY DEF IInv, TypeOK, RepairFits, StoryOfOneRun
  <2> QED
    BY <2>1, <2>2 DEF RepairRunsAtMostOnce
<1> QED
  BY <1>1, Invariant, PTL

(* What is sent to the device or was run there is the proposal an operator *)
(* was shown and approved (decide_investigation, authorize).               *)
THEOREM OnlyApprovedRepairs == Spec => []RepairWasApproved
<1>1. IInv => RepairWasApproved
  <2> SUFFICES ASSUME IInv, NEW p \in Runs, p \in wire \/ ran[p] > 0
               PROVE  /\ decision[p] = "approve"
                      /\ decidedBy[p] \in Operators
                      /\ p \in seen[decidedBy[p]]
    BY DEF RepairWasApproved
  <2>1. job[p] # "none"
    BY DEF IInv, TypeOK, RepairFits
  <2>2. decision[p] = "approve"
    BY <2>1 DEF IInv, RepairFits
  <2> QED
    BY <2>2 DEF IInv, RepairFits
<1> QED
  BY <1>1, Invariant, PTL

(* The evidence and the proposal shown come from one run, the last one     *)
(* (recover_investigations).                                               *)
THEOREM OneStory == Spec => []StoryOfOneRun
<1>1. IInv => StoryOfOneRun
  BY DEF IInv
<1> QED
  BY <1>1, Invariant, PTL

(* An investigation ends as resolved only when its approved repair was run *)
(* once and ended cleanly (_run_apply, Applier.apply).                     *)
THEOREM ResolvedByRepair == Spec => []ResolvedMeansRan
<1>1. IInv => ResolvedMeansRan
  <2> SUFFICES ASSUME IInv, status = "resolved"
               PROVE  \E p \in Runs : /\ Current(p) /\ decision[p] = "approve"
                                      /\ ran[p] = 1 /\ job[p] = "ok"
    BY DEF ResolvedMeansRan
  <2>1. run \in Runs /\ decision[run] = "approve" /\ job[run] = "ok"
    BY RunIsARun DEF IInv, StatusFits
  <2>2. proposal[run] = "proposed" /\ ran[run] = 1
    BY <2>1 DEF IInv, RepairFits
  <2>3. Current(run)
    BY <2>1, <2>2, StoredIsCurrent DEF IInv
  <2> QED
    BY <2>1, <2>2, <2>3
<1> QED
  BY <1>1, Invariant, PTL

(* An investigation that waits for an operator has a current proposal that *)
(* is undecided, and no worker (decide_investigation, recovery).           *)
THEOREM WaitingCanBeDecided == Spec => []WaitingIsDecidable
<1>1. IInv => WaitingIsDecidable
  <2> SUFFICES ASSUME IInv, alive, status = "awaiting_approval"
               PROVE  /\ \E p \in Runs : /\ Current(p) /\ proposal[p] = "proposed"
                                         /\ decision[p] = "none"
                      /\ diagnosis = "idle" /\ repair = "idle"
    BY DEF WaitingIsDecidable
  <2>1. run \in Runs /\ proposal[run] = "proposed" /\ decision[run] = "none"
    BY RunIsARun DEF IInv, StatusFits
  <2>2. Current(run)
    BY <2>1, StoredIsCurrent DEF IInv
  <2>3. diagnosis = "idle" /\ repair = "idle"
    BY DEF IInv, TypeOK, WorkersFit, Applying
  <2> QED
    BY <2>1, <2>2, <2>3
<1> QED
  BY <1>1, Invariant, PTL

(* No step changes a recorded decision, who took it, or the proposal it is *)
(* about (record_proposal_decision, recover_investigations).               *)
THEOREM DecisionsStand == Spec => DecisionStands
<1> DEFINE Stands == \A p \in Runs : decision[p] # "none" =>
                       /\ decision'[p] = decision[p]
                       /\ decidedBy'[p] = decidedBy[p]
                       /\ proposal'[p] = proposal[p]
<1>1. IInv /\ [Next]_vars => [Stands]_vars
  <2> SUFFICES ASSUME IInv, Next, NEW p \in Runs, decision[p] # "none"
               PROVE  /\ decision'[p] = decision[p]
                      /\ decidedBy'[p] = decidedBy[p]
                      /\ proposal'[p] = proposal[p]
    OBVIOUS
  <2> USE DEF rows, workers, device
  <2>1. status \notin Diagnosing \cup {"none"}
    BY DEF IInv, StatusFits
  <2>2. CASE Diagnosis
    <3>1. status \in Diagnosing
      BY <2>2 DEF Diagnosis, Claim, SaveEvidence, DiagnosisFails, Conclude, StoreProposal,
         Publish, IInv, WorkersFit, Diagnosing
    <3> QED
      BY <2>1, <3>1
  <2>3. CASE Deciding
    <3>1. PICK o \in Operators :
            \/ Look(o)
            \/ \E q \in Runs, d \in {"approve", "reject"} :
                 Decide(o, q, d) \/ CrashInDecide(o, q, d)
      BY <2>3 DEF Deciding
    <3>2. CASE Look(o)
      BY <3>2 DEF Look
    <3>3. ASSUME NEW q \in Runs, NEW d \in {"approve", "reject"},
                 Decide(o, q, d) \/ CrashInDecide(o, q, d)
          PROVE  /\ decision'[p] = decision[p]
                 /\ decidedBy'[p] = decidedBy[p]
                 /\ proposal'[p] = proposal[p]
      BY <3>3 DEF Decide, CrashInDecide, LoseMemory, MayDecide, Record, IInv, TypeOK
    <3> QED
      BY <3>1, <3>2, <3>3
  <2>4. CASE Apply \/ Device
    BY <2>4 DEF Apply, StillBroken, NotConfirmed, PollFails, Verified, NotVerified, ApplyBreaks,
       Settle, Authorize, ApprovalLapsed, DispatchRefused, RepairDone, RepairFailed, Dispatch,
       Device, Drift, DeviceRuns, GiveUp, Lapse, Report
  <2>5. CASE Recover
    BY <2>1, <2>5 DEF Recover, ServerStart, ProposalsLeft, IInv, TypeOK
  <2>6. CASE Submit \/ CrashInSubmit \/ Crash \/ CrashInSettle
    BY <2>6 DEF Submit, CrashInSubmit, Crash, CrashInSettle, LoseMemory
  <2> QED
    BY <2>2, <2>3, <2>4, <2>5, <2>6 DEF Next
<1> QED
  BY <1>1, Invariant, PTL DEF Spec, DecisionStands

(* No step takes a finished investigation up again or changes its outcome  *)
(* (set_investigation_outcome, recover_investigations).                    *)
THEOREM EndsAreFinal == Spec => FinishedIsFinal
<1>1. IInv /\ [Next]_vars =>
        [(status \in Finished) => (status' = status /\ outcome' = outcome)]_vars
  <2> SUFFICES ASSUME IInv, Next, status \in Finished
               PROVE  status' = status /\ outcome' = outcome
    OBVIOUS
  <2> USE DEF rows, Finished
  <2>1. diagnosis = "idle" /\ repair = "idle"
    BY DEF IInv, TypeOK, WorkersFit, Applying
  <2>2. CASE Diagnosis \/ Submit \/ CrashInSubmit
    BY <2>1, <2>2 DEF Diagnosis, Claim, SaveEvidence, DiagnosisFails, Conclude, StoreProposal,
       Publish, Submit, CrashInSubmit
  <2>3. CASE Deciding
    BY <2>3 DEF Deciding, Look, Decide, CrashInDecide, MayDecide
  <2>4. CASE Apply \/ CrashInSettle
    BY <2>1, <2>4 DEF Apply, StillBroken, NotConfirmed, PollFails, Verified, NotVerified,
       ApplyBreaks, Settle, Settled, Authorize, ApprovalLapsed, DispatchRefused, RepairDone,
       RepairFailed, Dispatch, ApplierAt, CrashInSettle
  <2>5. CASE Device \/ Crash
    BY <2>5 DEF Device, Drift, DeviceRuns, GiveUp, Lapse, Report, Crash
  <2>6. CASE Recover
    BY <2>6 DEF Recover, ServerStart, Recovered, Diagnosing, Applying
  <2> QED
    BY <2>2, <2>3, <2>4, <2>5, <2>6 DEF Next
<1> QED
  BY <1>1, Invariant, PTL DEF Spec, FinishedIsFinal
=============================================================================
