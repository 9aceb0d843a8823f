---------------------------- MODULE Investigation ----------------------------
(***************************************************************************)
(* One investigation, from the operator's problem report to the verified   *)
(* repair: the HTTP handlers of main.py, the background workers of         *)
(* server/investigations.py, the planner's and the applier's steps in      *)
(* driver/remediation.py, the rows of store.py, and recovery at startup.   *)
(* Investigations share no state but the device, so one of them is enough. *)
(*                                                                         *)
(* What the model says is abstracted: a diagnosis may fail, conclude, and  *)
(* propose a repair or none.  The repair's job is one of ControlPlane's;   *)
(* of that module what is kept is that a job is dispatched once, run at    *)
(* most once, and ends well or badly, at the latest by the supervisor.     *)
(* Proposals are named by the diagnosis run that made them.                *)
(***************************************************************************)
EXTENDS Naturals, FiniteSets

CONSTANTS
  Operators, Nobody, \* who decides
  LostCalls,         \* a worker's call to its own server may go unanswered or raise
  MaxCrashes         \* bound on server crashes

ASSUME NobodyAssumption    == Nobody \notin Operators
ASSUME LostCallsAssumption == LostCalls \in BOOLEAN
ASSUME CrashesAssumption   == MaxCrashes \in Nat

VARIABLES
  \* SQLite
  status,    \* investigations.status, "none" before INSERT
  outcome,   \* investigations.outcome: "null", "not_applied", "resolved", "unresolved"
  evidence,  \* the runs with rows in investigation_evidence
  proposal,  \* proposal[p]: row p of investigation_proposals: "none", "proposed", "no_action"
  decision,  \* decision[p]: decision_outcome: "none", "approve" or "reject"
  decidedBy, \* decidedBy[p]: decided_by
  job,       \* job[p]: the job under key repair-p: "none", "active", "ok" or "bad"
  \* server memory
  alive,     \* the process is running
  diagnosis, \* where _run_diagnosis_and_planning is
  repair,    \* where _run_apply is
  \* the device
  wire,      \* the repairs whose job is on its way there
  ran,       \* ran[p]: how often the repair's script was run
  done,      \* the repairs that ran and have not reported
  broken,    \* the condition the repair is for holds
  \* history and clock
  run,       \* how many diagnosis runs were started
  lapsed,    \* the 15 minutes to decide p, and once approved to apply it, are over
  seen,      \* seen[o]: the proposals operator o was shown
  crashes    \* number of server crashes so far

rows    == <<status, outcome, evidence, proposal, decision, decidedBy>>
workers == <<diagnosis, repair>>
device  == <<wire, ran, done, broken>>
vars    == <<rows, job, alive, workers, device, run, lapsed, seen, crashes>>

(* A run is started by the report and by each recovery. *)
Runs == 1..(MaxCrashes + 1)

Diagnosing == {"queued", "investigating", "planning"}
Applying   == {"applying", "verifying"}
Finished   == {"completed", "resolved", "unresolved", "failed", "rejected"}

TypeOK ==
  /\ status \in Diagnosing \cup Applying \cup Finished \cup {"none", "awaiting_approval"}
  /\ outcome \in {"null", "not_applied", "resolved", "unresolved"}
  /\ evidence \subseteq Runs
  /\ proposal \in [Runs -> {"none", "proposed", "no_action"}]
  /\ decision \in [Runs -> {"none", "approve", "reject"}]
  /\ decidedBy \in [Runs -> Operators \cup {Nobody}]
  /\ job \in [Runs -> {"none", "active", "ok", "bad"}]
  /\ alive \in BOOLEAN
  /\ diagnosis \in {"idle", "scheduled", "running", "saved", "planning", "stored"}
  /\ repair \in {"idle", "scheduled", "checking", "dispatching", "waiting", "verifying",
                 "not_applied", "resolved", "unresolved"}
  /\ wire \subseteq Runs
  /\ ran \in [Runs -> Nat]
  /\ done \subseteq Runs
  /\ broken \in BOOLEAN
  /\ run \in 0..(MaxCrashes + 1)
  /\ lapsed \subseteq Runs
  /\ seen \in [Operators -> SUBSET Runs]
  /\ crashes \in 0..MaxCrashes

Init ==
  /\ status = "none"
  /\ outcome = "null"
  /\ evidence = {}
  /\ proposal  = [p \in Runs |-> "none"]
  /\ decision  = [p \in Runs |-> "none"]
  /\ decidedBy = [p \in Runs |-> Nobody]
  /\ job       = [p \in Runs |-> "none"]
  /\ alive = TRUE
  /\ diagnosis = "idle"
  /\ repair = "idle"
  /\ wire = {}
  /\ ran = [p \in Runs |-> 0]
  /\ done = {}
  /\ broken = TRUE
  /\ run = 0
  /\ lapsed = {}
  /\ seen = [o \in Operators |-> {}]
  /\ crashes = 0

(* get_current_proposal: p is the newest row there is. *)
Current(p) == proposal[p] # "none" /\ \A q \in Runs : proposal[q] # "none" => q <= p

(* The rest of the state a crash costs: both workers. *)
LoseMemory ==
  /\ alive
  /\ crashes < MaxCrashes
  /\ crashes' = crashes + 1
  /\ alive' = FALSE
  /\ diagnosis' = "idle"
  /\ repair' = "idle"
  /\ UNCHANGED <<evidence, proposal, job, device, run, seen>>

-----------------------------------------------------------------------------
(* The report and its diagnosis                                            *)

(* create_investigation: the row is inserted, the diagnosis scheduled. *)
Submit ==
  /\ alive
  /\ status = "none"
  /\ status' = "queued"
  /\ diagnosis' = "scheduled"
  /\ UNCHANGED <<outcome, evidence, proposal, decision, decidedBy, job, alive, repair,
                 device, run, lapsed, seen, crashes>>

(* The server dies between the two. *)
CrashInSubmit ==
  /\ status = "none"
  /\ LoseMemory
  /\ status' = "queued"
  /\ UNCHANGED <<outcome, decision, decidedBy, lapsed>>

(* claim_queued_investigation *)
Claim ==
  /\ diagnosis = "scheduled"
  /\ status = "queued"
  /\ status' = "investigating"
  /\ diagnosis' = "running"
  /\ run' = run + 1
  /\ UNCHANGED <<outcome, evidence, proposal, decision, decidedBy, job, alive, repair,
                 device, lapsed, seen, crashes>>

(* The investigator's loop is over; its checks are stored. *)
SaveEvidence ==
  /\ diagnosis = "running"
  /\ evidence' = evidence \cup {run}
  /\ diagnosis' = "saved"
  /\ UNCHANGED <<status, outcome, proposal, decision, decidedBy, job, alive, repair,
                 device, run, lapsed, seen, crashes>>

(* Mutated form: a status the rest of the server does not know. *)
MisspeltFailure == "error"

(* What an unsuccessful diagnosis leaves behind. *)
Failure == "failed"

(* No model, no conclusion, or an unexpected error, also of the planner. *)
DiagnosisFails ==
  /\ diagnosis \in {"running", "saved", "planning"}
  /\ status' = Failure
  /\ diagnosis' = "idle"
  /\ UNCHANGED <<outcome, evidence, proposal, decision, decidedBy, job, alive, repair,
                 device, run, lapsed, seen, crashes>>

Conclude ==
  /\ diagnosis = "saved"
  /\ status' = "planning"
  /\ diagnosis' = "planning"
  /\ UNCHANGED <<outcome, evidence, proposal, decision, decidedBy, job, alive, repair,
                 device, run, lapsed, seen, crashes>>

(* The planner's choice, _store_proposal. *)
StoreProposal(choice) ==
  /\ diagnosis = "planning"
  /\ proposal' = [proposal EXCEPT ![run] = choice]
  /\ diagnosis' = "stored"
  /\ UNCHANGED <<status, outcome, evidence, decision, decidedBy, job, alive, repair,
                 device, run, lapsed, seen, crashes>>

Publish ==
  /\ diagnosis = "stored"
  /\ status' = IF proposal[run] = "proposed" THEN "awaiting_approval" ELSE "completed"
  /\ diagnosis' = "idle"
  /\ UNCHANGED <<outcome, evidence, proposal, decision, decidedBy, job, alive, repair,
                 device, run, lapsed, seen, crashes>>

-----------------------------------------------------------------------------
(* The decision                                                            *)

(* get_investigation: the proposal is shown as soon as its row is there. *)
Look(o) ==
  /\ alive
  /\ status # "queued"
  /\ \E p \in Runs : Current(p) /\ seen' = [seen EXCEPT ![o] = @ \cup {p}]
  /\ UNCHANGED <<rows, job, alive, workers, device, run, lapsed, crashes>>

(* Mutated form: the hash the operator was shown is not compared. *)
BindingIgnored(o, p) == Current(p) /\ proposal[p] = "proposed"

(* The proposal the operator was shown is the current one, and actionable. *)
BindingMatches(o, p) == Current(p) /\ proposal[p] = "proposed" /\ p \in seen[o]

(* Mutated form: a decision may be changed until the repair is over. *)
MayStillDecide(p, d) ==
  /\ status \in Applying \cup {"awaiting_approval"}
  /\ d = "approve" => p \notin lapsed

(* Nothing else was decided and the investigation waits for it; an expired *)
(* proposal can only be rejected.                                          *)
MayDecide(p, d) ==
  /\ decision[p] \in {"none", d}
  /\ status = "awaiting_approval"
  /\ decision[p] = "none" /\ d = "approve" => p \notin lapsed

(* record_proposal_decision: compare and set. *)
Record(o, p, d) ==
  /\ decision' = [decision EXCEPT ![p] = d]
  /\ decidedBy' = [decidedBy EXCEPT ![p] = IF decision[p] = d THEN @ ELSE o]
  /\ lapsed' = IF d = "approve" /\ decision[p] # d THEN lapsed \ {p} ELSE lapsed

(* decide_investigation: recorded, then the status, then scheduled. *)
Decide(o, p, d) ==
  /\ alive
  /\ BindingMatches(o, p)
  /\ MayDecide(p, d)
  /\ Record(o, p, d)
  /\ status' = IF d = "approve" THEN "applying" ELSE "rejected"
  /\ repair' = IF d = "approve" THEN "scheduled" ELSE repair
  /\ UNCHANGED <<outcome, evidence, proposal, job, alive, diagnosis, device, run, seen, crashes>>

(* The server dies after the decision is recorded. *)
CrashInDecide(o, p, d) ==
  /\ BindingMatches(o, p)
  /\ MayDecide(p, d)
  /\ LoseMemory
  /\ Record(o, p, d)
  /\ UNCHANGED <<status, outcome>>

(* Fifteen minutes pass. *)
Lapse(p) ==
  /\ proposal[p] = "proposed"
  /\ p \notin lapsed
  /\ lapsed' = lapsed \cup {p}
  /\ UNCHANGED <<rows, job, alive, workers, device, run, seen, crashes>>

-----------------------------------------------------------------------------
(* The repair: _run_apply and Applier.apply                                *)

ApplierAt(at, next) == repair = at /\ repair' = next

(* The approval is read back and still stands. *)
Authorize(p) ==
  /\ ApplierAt("scheduled", "checking")
  /\ status \in Applying
  /\ Current(p)
  /\ decision[p] = "approve"
  /\ p \notin lapsed
  /\ UNCHANGED <<rows, job, alive, diagnosis, device, run, lapsed, seen, crashes>>

ApprovalLapsed(p) ==
  /\ ApplierAt("scheduled", "not_applied")
  /\ Current(p)
  /\ p \in lapsed
  /\ UNCHANGED <<rows, job, alive, diagnosis, device, run, lapsed, seen, crashes>>

(* The precondition is evaluated on the device. *)
StillBroken ==
  /\ ApplierAt("checking", "dispatching")
  /\ broken
  /\ UNCHANGED <<rows, job, alive, diagnosis, device, run, lapsed, seen, crashes>>

(* It does not hold any more, or the check did not succeed: the device is  *)
(* silent, or the worker's own call is.                                    *)
NotConfirmed ==
  /\ ApplierAt("checking", "not_applied")
  /\ UNCHANGED <<rows, job, alive, diagnosis, device, run, lapsed, seen, crashes>>

(* Mutated form: the key does not name the proposal. *)
SentUnderNewKey(p) == FALSE

(* The repair was dispatched before, under key repair-p. *)
SentBefore(p) == job[p] # "none"

(* run_raw: POST .../jobs.  A lost answer fails the dispatch, but not the  *)
(* job it made.                                                            *)
Dispatch(p, answered) ==
  /\ repair = "dispatching"
  /\ Current(p)
  /\ answered \/ LostCalls
  /\ repair' = IF answered THEN "waiting" ELSE "not_applied"
  /\ IF SentBefore(p)
     THEN UNCHANGED <<job, wire>>
     ELSE job' = [job EXCEPT ![p] = "active"] /\ wire' = wire \cup {p}
  /\ UNCHANGED <<rows, alive, diagnosis, ran, done, broken, run, lapsed, seen, crashes>>

(* The device is revoked or not reachable; a repeated key is not refused. *)
DispatchRefused(p) ==
  /\ ApplierAt("dispatching", "not_applied")
  /\ Current(p)
  /\ ~SentBefore(p)
  /\ UNCHANGED <<rows, job, alive, diagnosis, device, run, lapsed, seen, crashes>>

(* _await_terminal: a poll that fails is not repeated. *)
PollFails ==
  /\ LostCalls
  /\ ApplierAt("waiting", "not_applied")
  /\ UNCHANGED <<rows, job, alive, diagnosis, device, run, lapsed, seen, crashes>>

(* Mutated form: any end of the job will do. *)
EndedSomehow(p) == job[p] \in {"ok", "bad"}

(* Completed, with exit code 0. *)
EndedWell(p) == job[p] = "ok"

RepairDone(p) ==
  /\ ApplierAt("waiting", "verifying")
  /\ Current(p)
  /\ EndedWell(p)
  /\ status' = "verifying"
  /\ UNCHANGED <<outcome, evidence, proposal, decision, decidedBy, job, alive, diagnosis,
                 device, run, lapsed, seen, crashes>>

RepairFailed(p) ==
  /\ ApplierAt("waiting", "unresolved")
  /\ Current(p)
  /\ job[p] = "bad"
  /\ UNCHANGED <<rows, job, alive, diagnosis, device, run, lapsed, seen, crashes>>

(* The verification diagnostic. *)
Verified ==
  /\ ApplierAt("verifying", "resolved")
  /\ ~broken
  /\ UNCHANGED <<rows, job, alive, diagnosis, device, run, lapsed, seen, crashes>>

NotVerified ==
  /\ ApplierAt("verifying", "unresolved")
  /\ UNCHANGED <<rows, job, alive, diagnosis, device, run, lapsed, seen, crashes>>

(* An error that neither client nor applier expects ends apply(): failed,  *)
(* without an outcome, whatever the device has done by then.               *)
ApplyBreaks ==
  /\ LostCalls
  /\ repair \in {"scheduled", "checking", "dispatching", "waiting", "verifying"}
  /\ status' = "failed"
  /\ repair' = "idle"
  /\ UNCHANGED <<outcome, evidence, proposal, decision, decidedBy, job, alive, diagnosis,
                 device, run, lapsed, seen, crashes>>

(* set_investigation_outcome, then set_investigation_status. *)
Settled == repair \in {"not_applied", "resolved", "unresolved"}

Settle ==
  /\ Settled
  /\ outcome' = repair
  /\ status' = IF repair = "not_applied" THEN "failed" ELSE repair
  /\ repair' = "idle"
  /\ UNCHANGED <<evidence, proposal, decision, decidedBy, job, alive, diagnosis,
                 device, run, lapsed, seen, crashes>>

(* The server dies between the two. *)
CrashInSettle ==
  /\ Settled
  /\ LoseMemory
  /\ outcome' = repair
  /\ UNCHANGED <<status, decision, decidedBy, lapsed>>

-----------------------------------------------------------------------------
(* The device and the job's supervisor                                     *)

(* The script runs, and may or may not help. *)
DeviceRuns(p) ==
  /\ p \in wire
  /\ wire' = wire \ {p}
  /\ ran' = [ran EXCEPT ![p] = @ + 1]
  /\ done' = done \cup {p}
  /\ broken' \in BOOLEAN
  /\ UNCHANGED <<rows, job, alive, workers, run, lapsed, seen, crashes>>

(* Its result comes in; it counts if the job is still active. *)
Report(p, end) ==
  /\ alive
  /\ p \in done
  /\ done' = done \ {p}
  /\ job' = [job EXCEPT ![p] = IF @ = "active" THEN end ELSE @]
  /\ UNCHANGED <<rows, alive, workers, wire, ran, broken, run, lapsed, seen, crashes>>

(* The supervisor ends a job that is late, or whose device went silent. *)
GiveUp(p) ==
  /\ alive
  /\ job[p] = "active"
  /\ job' = [job EXCEPT ![p] = "bad"]
  /\ UNCHANGED <<rows, alive, workers, device, run, lapsed, seen, crashes>>

(* Someone else changes the machine. *)
Drift ==
  /\ broken' = ~broken
  /\ UNCHANGED <<rows, job, alive, workers, wire, ran, done, run, lapsed, seen, crashes>>

-----------------------------------------------------------------------------
(* Crashes of the server                                                   *)

Crash == LoseMemory /\ UNCHANGED <<status, outcome, decision, decidedBy, lapsed>>

(* Mutated forms: an approval is not resumed; finished work is taken up    *)
(* again; evidence is kept; only diagnoses are scheduled.                  *)
ApprovalWaits(s, d) == IF s \in Diagnosing THEN "queued" ELSE s
ApprovedResumes(s, d) ==
  CASE s \in Diagnosing -> "queued"
    [] d = "approve"    -> "applying"
    [] d = "reject"     -> "rejected"
    [] OTHER            -> s
EvidenceKept == evidence
OnlyDiagnosis(s) == "idle"

(* recover_investigations: where status s goes, d being the decision on    *)
(* the current proposal.                                                   *)
Recovered(s, d) ==
  CASE s \in Diagnosing                                               -> "queued"
    [] s \in Applying \cup {"awaiting_approval"} /\ d = "approve"     -> "applying"
    [] s \in Applying \cup {"awaiting_approval"} /\ d = "reject"      -> "rejected"
    [] s \in Applying /\ d = "none"                                   -> "failed"
    [] OTHER                                                          -> s

(* An interrupted diagnosis starts from a clean snapshot. *)
EvidenceLeft == IF status \in Diagnosing THEN {} ELSE evidence

ProposalsLeft ==
  [p \in Runs |-> IF status \in Diagnosing /\ decision[p] = "none" THEN "none" ELSE proposal[p]]

(* The worker scheduled for status s. *)
Resumes(s) == IF s = "applying" THEN "scheduled" ELSE "idle"

(* lifespan: orphan_active_jobs, then recover.  d is the decision on the   *)
(* current proposal, if there is one.                                      *)
ServerStart(d) ==
  /\ ~alive
  /\ \/ \E p \in Runs : Current(p) /\ d = decision[p]
     \/ d = "none" /\ \A p \in Runs : ~Current(p)
  /\ alive' = TRUE
  /\ job' = [p \in Runs |-> IF job[p] = "active" THEN "bad" ELSE job[p]]
  /\ status' = Recovered(status, d)
  /\ evidence' = EvidenceLeft
  /\ proposal' = ProposalsLeft
  /\ outcome' = IF status \in Diagnosing THEN "null" ELSE outcome
  /\ diagnosis' = IF status' = "queued" THEN "scheduled" ELSE "idle"
  /\ repair' = Resumes(status')
  /\ UNCHANGED <<decision, decidedBy, device, run, lapsed, seen, crashes>>

-----------------------------------------------------------------------------
Diagnosis == \/ Claim \/ SaveEvidence \/ DiagnosisFails \/ Conclude
             \/ \E choice \in {"proposed", "no_action"} : StoreProposal(choice)
             \/ Publish

Deciding == \E o \in Operators :
              \/ Look(o)
              \/ \E p \in Runs, d \in {"approve", "reject"} :
                   Decide(o, p, d) \/ CrashInDecide(o, p, d)

Apply == \/ StillBroken \/ NotConfirmed \/ PollFails \/ Verified \/ NotVerified
         \/ ApplyBreaks \/ Settle
         \/ \E p \in Runs :
              \/ Authorize(p) \/ ApprovalLapsed(p) \/ DispatchRefused(p)
              \/ RepairDone(p) \/ RepairFailed(p)
              \/ \E answered \in BOOLEAN : Dispatch(p, answered)

Device == \/ Drift
          \/ \E p \in Runs : \/ DeviceRuns(p) \/ GiveUp(p) \/ Lapse(p)
                             \/ \E end \in {"ok", "bad"} : Report(p, end)

Recover == \E d \in {"none", "approve", "reject"} : ServerStart(d)

Next == \/ Submit \/ CrashInSubmit \/ Diagnosis \/ Deciding \/ Apply \/ Device
        \/ Crash \/ CrashInSettle \/ Recover

Spec == Init /\ [][Next]_vars

(* The workers' threads run, every call of theirs has a deadline, the      *)
(* supervisor ticks for ever, and a crashed server is started again.       *)
Fairness ==
  /\ WF_vars(Diagnosis)
  /\ WF_vars(Apply)
  /\ WF_vars(Recover)
  /\ \A p \in Runs : WF_vars(GiveUp(p))

FairSpec == Spec /\ Fairness

-----------------------------------------------------------------------------
(* Properties                                                              *)

(* An investigation runs at most one repair on the device, and runs it     *)
(* once, whatever crashes, lost answers and repeated diagnoses happen      *)
(* (recover_investigations: "a lost response cannot execute it twice").    *)
RepairRunsAtMostOnce ==
  /\ \A p \in Runs : ran[p] <= 1
  /\ \A p, q \in Runs : ran[p] > 0 /\ ran[q] > 0 => p = q

(* What runs on the device is the proposal an operator was shown and       *)
(* approved, never one of an earlier or a repeated diagnosis               *)
(* (decide_investigation, authorize).                                      *)
RepairWasApproved ==
  \A p \in Runs : p \in wire \/ ran[p] > 0 =>
    /\ decision[p] = "approve"
    /\ decidedBy[p] \in Operators
    /\ p \in seen[decidedBy[p]]

(* The evidence and the proposal an operator reads come from one and the   *)
(* same diagnosis run, the last one, also after a diagnosis was cut off by *)
(* a crash and repeated (recover_investigations).                          *)
StoryOfOneRun ==
  /\ evidence \subseteq {run}
  /\ \A p \in Runs : proposal[p] # "none" => p = run

(* An investigation reported as resolved had its approved repair run, once *)
(* and cleanly (_run_apply, Applier.apply).                                *)
ResolvedMeansRan ==
  status = "resolved" =>
    \E p \in Runs : Current(p) /\ decision[p] = "approve" /\ ran[p] = 1 /\ job[p] = "ok"

(* An investigation that waits for its operator can be decided: there is a *)
(* current proposal, undecided and not to be touched by a worker.          *)
WaitingIsDecidable ==
  alive /\ status = "awaiting_approval" =>
    /\ \E p \in Runs : Current(p) /\ proposal[p] = "proposed" /\ decision[p] = "none"
    /\ diagnosis = "idle" /\ repair = "idle"

(* A recorded decision is never changed, reassigned or lost with its row   *)
(* (record_proposal_decision, recover_investigations).                     *)
DecisionStands ==
  [][\A p \in Runs : decision[p] # "none" =>
       /\ decision'[p] = decision[p]
       /\ decidedBy'[p] = decidedBy[p]
       /\ proposal'[p] = proposal[p]]_vars

(* A finished investigation stays as it is, with its outcome: neither a    *)
(* repeated request nor a restart takes it up again.                       *)
FinishedIsFinal ==
  [][(status \in Finished) => (status' = status /\ outcome' = outcome)]_vars

(* Work in progress ends, or waits for the operator, over crashes too. *)
InvestigationEnds ==
  status \in Diagnosing \cup Applying ~> status \in Finished \cup {"awaiting_approval"}

(* docs/api.md: "`failed` covers investigation errors and repairs that     *)
(* were refused or could not be applied": a repair whose job completed     *)
(* cleanly was applied.                                                    *)
FailedWasNotApplied == status = "failed" => \A p \in Runs : job[p] # "ok"
=============================================================================
