---------------------------- MODULE Investigator ----------------------------
(***************************************************************************)
(* The diagnosis loop of driver/investigator.py under the budget of        *)
(* driver/limits.py: what a language model asks for, in replies of several *)
(* tool calls, is answered one call at a time until it concludes or a      *)
(* limit stops it.                                                         *)
(*                                                                         *)
(* A call is a check (a diagnostic with its arguments, what _signature     *)
(* tells apart) or one whose arguments are no JSON object.  The model may  *)
(* reply anything.  A check is a job of ControlPlane; what counts here is  *)
(* whether it was dispatched, and whether its answer came back.            *)
(***************************************************************************)
EXTENDS Naturals, Sequences

CONSTANTS
  Checks,          \* the checks a model may ask for
  BadJSON,         \* a call whose arguments cannot be read
  MaxDiagnostics,  \* Budget.max_diagnostics
  MaxAttempts,     \* Budget.max_attempts
  MaxFailed,       \* Budget.max_failed_attempts
  MaxRepeats,      \* Budget.max_repeats_per_diagnostic
  MaxOutput,       \* Budget.max_total_output_bytes
  MaxSize,         \* the most one answer may add to the output
  MaxCalls         \* bound on the calls of one reply

ASSUME BadJSONAssumption == BadJSON \notin Checks
ASSUME LimitsAssumption  ==
  /\ MaxDiagnostics \in Nat /\ MaxAttempts \in Nat /\ MaxFailed \in Nat
  /\ MaxRepeats \in Nat /\ MaxOutput \in Nat /\ MaxSize \in Nat /\ MaxCalls \in Nat

VARIABLES
  pc,             \* where investigate is
  calls,          \* the tool calls of the reply not yet run
  stop,           \* the loop's variable of that name
  stoppedBecause, \* Investigation.stopped_because
  finding,        \* Investigation.concluded: it has a text for a finding
  diagnosticsRun, attempts, failedAttempts, outputBytes, \* the Budget's counters
  signatures,     \* signatures[c]: how often c was attempted
  late,           \* max_wall_clock_seconds have passed
  dispatched,     \* history: dispatched[c], the jobs sent to the device for c
  refused         \* history: the budget refused a call

counters == <<diagnosticsRun, attempts, failedAttempts, outputBytes, signatures>>
ending   == <<stoppedBecause, finding>>
vars == <<pc, calls, stop, ending, counters, late, dispatched, refused>>

Calls   == Checks \cup {BadJSON}
Replies == UNION {[1..n -> Calls] : n \in 1..MaxCalls}
Reasons == {"", "time", "model", "concluded", "budget"}

ControlOK ==
  /\ pc \in {"asking", "running", "reporting", "finished", "raised"}
  /\ calls \in Seq(Calls)
  /\ stop \in BOOLEAN /\ late \in BOOLEAN /\ refused \in BOOLEAN
  /\ stoppedBecause \in Reasons
  \* a finished diagnosis says why
  /\ pc \in {"reporting", "finished"} => stoppedBecause # ""
  \* and has a finding of its own or after a limit only
  /\ finding \in BOOLEAN
  /\ finding => pc = "finished" /\ stoppedBecause \in {"concluded", "budget"}

CountersOK ==
  /\ diagnosticsRun \in Nat /\ attempts \in Nat
  /\ failedAttempts \in Nat /\ outputBytes \in Nat
  /\ signatures \in [Checks -> Nat]
  /\ dispatched \in [Checks -> Nat]

TypeOK == ControlOK /\ CountersOK

Init ==
  /\ pc = "asking"
  /\ calls = <<>>
  /\ stop = FALSE
  /\ stoppedBecause = ""
  /\ finding = FALSE
  /\ diagnosticsRun = 0 /\ attempts = 0 /\ failedAttempts = 0 /\ outputBytes = 0
  /\ signatures = [c \in Checks |-> 0]
  /\ late = FALSE
  /\ dispatched = [c \in Checks |-> 0]
  /\ refused = FALSE

-----------------------------------------------------------------------------
(* The wall clock passes the limit. *)
TimePasses ==
  /\ ~late
  /\ late' = TRUE
  /\ UNCHANGED <<pc, calls, stop, ending, counters, dispatched, refused>>

Finish(reason, found) ==
  /\ pc' = "finished"
  /\ stoppedBecause' = reason
  /\ finding' = found
  /\ UNCHANGED <<calls, stop, counters, late, dispatched, refused>>

(* Mutated form: the top of the loop does not look at the clock. *)
NotInTime == FALSE

(* The top of the loop: out of time. *)
OutOfTime == late

TimedOut == pc = "asking" /\ OutOfTime /\ Finish("time", FALSE)

(* The model cannot be reached, or replies without asking for a tool; its  *)
(* text may be empty.                                                      *)
ModelFails == pc = "asking" /\ ~OutOfTime /\ Finish("model", FALSE)

Concludes ==
  /\ pc = "asking"
  /\ ~OutOfTime
  /\ \E text \in BOOLEAN : Finish("concluded", text)

(* It asks for tools. *)
AsksForTools ==
  /\ pc = "asking"
  /\ ~OutOfTime
  /\ pc' = "running"
  /\ calls' \in Replies
  /\ stop' = FALSE
  /\ UNCHANGED <<ending, counters, late, dispatched, refused>>

(* Mutated form: limits are noticed once they are exceeded. *)
WithinOrAt(c) ==
  /\ diagnosticsRun <= MaxDiagnostics
  /\ attempts <= MaxAttempts
  /\ failedAttempts <= MaxFailed
  /\ ~late
  /\ outputBytes <= MaxOutput
  /\ signatures[c] <= MaxRepeats

(* Budget.check lets c pass. *)
Within(c) ==
  /\ diagnosticsRun < MaxDiagnostics
  /\ attempts < MaxAttempts
  /\ failedAttempts < MaxFailed
  /\ ~late
  /\ outputBytes < MaxOutput
  /\ signatures[c] < MaxRepeats

(* Budget.record_attempt. *)
Attempted(c) ==
  /\ attempts' = attempts + 1
  /\ signatures' = [signatures EXCEPT ![c] = @ + 1]

RecordSuccess(c) ==
  /\ Attempted(c)
  /\ diagnosticsRun' = diagnosticsRun + 1
  /\ \E bytes \in 0..MaxSize : outputBytes' = outputBytes + bytes
  /\ UNCHANGED failedAttempts

(* Mutated form: a failed attempt is not counted. *)
RecordNothing(c) == UNCHANGED counters

RecordFailure(c) ==
  /\ Attempted(c)
  /\ failedAttempts' = failedAttempts + 1
  /\ UNCHANGED <<diagnosticsRun, outputBytes>>

NextCall ==
  /\ calls' = Tail(calls)
  /\ UNCHANGED <<pc, late>>

(* A call that is no JSON is answered and nothing else. *)
Unreadable ==
  /\ pc = "running" /\ calls # <<>>
  /\ Head(calls) = BadJSON
  /\ NextCall
  /\ UNCHANGED <<stop, ending, counters, dispatched, refused>>

(* The budget refuses the call; those after it are run all the same. *)
Refused ==
  /\ pc = "running" /\ calls # <<>>
  /\ Head(calls) # BadJSON
  /\ ~Within(Head(calls))
  /\ NextCall
  /\ stop' = TRUE
  /\ stoppedBecause' = "budget"
  /\ refused' = TRUE
  /\ UNCHANGED <<finding, counters, dispatched>>

(* Mutated form: stop tells of the last call alone. *)
StopForgotten == stop' = FALSE

StopKept == UNCHANGED stop

(* Its job is dispatched. *)
Dispatch(c) == dispatched' = [dispatched EXCEPT ![c] = @ + 1]

(* Its script succeeds. *)
Succeeds(c) == Dispatch(c) /\ RecordSuccess(c)

(* Its script fails, or its answer does not come before the deadline. *)
FailsOrIsLost(c) == Dispatch(c) /\ RecordFailure(c)

(* Its arguments are refused, or the device or the server does not take it. *)
NotDispatched(c) == RecordFailure(c) /\ UNCHANGED dispatched

Attempt ==
  /\ pc = "running" /\ calls # <<>>
  /\ LET c == Head(calls)
     IN  /\ c # BadJSON
         /\ Within(c)
         /\ Succeeds(c) \/ FailsOrIsLost(c) \/ NotDispatched(c)
  /\ NextCall
  /\ StopKept
  /\ UNCHANGED <<ending, refused>>

(* The client fails in a way that _run_one does not catch (an answer cut   *)
(* off, or without a field it reads): investigate is left, and a job that  *)
(* was dispatched is not counted.                                          *)
Raises ==
  /\ pc = "running" /\ calls # <<>>
  /\ LET c == Head(calls)
     IN  /\ c # BadJSON
         /\ Within(c)
         /\ Dispatch(c) \/ UNCHANGED dispatched
  /\ pc' = "raised"
  /\ UNCHANGED <<calls, stop, ending, counters, late, refused>>

(* All calls of the reply are answered: the loop goes on, or the model is  *)
(* asked once more, without tools, for its finding.                        *)
EndOfReply ==
  /\ pc = "running" /\ calls = <<>>
  /\ pc' = IF stop THEN "reporting" ELSE "asking"
  /\ UNCHANGED <<calls, stop, ending, counters, late, dispatched, refused>>

(* _final_word: with what it says for the finding, without if it fails. *)
FinalWord ==
  /\ pc = "reporting"
  /\ \E text \in BOOLEAN : Finish(stoppedBecause, text)

Step ==
  \/ TimedOut \/ ModelFails \/ Concludes \/ AsksForTools
  \/ Unreadable \/ Refused \/ Attempt \/ Raises \/ EndOfReply \/ FinalWord

Next == Step \/ TimePasses

Spec == Init /\ [][Next]_vars

(* The worker's thread runs, its calls have deadlines, and time passes. *)
FairSpec == Spec /\ WF_vars(Step) /\ WF_vars(TimePasses)

-----------------------------------------------------------------------------
(* Properties                                                              *)

(* No limit is exceeded, however the model mixes its calls and whatever    *)
(* fails: only the output may pass its limit, by less than one answer      *)
(* (limits.py: "so exceeding one stops the investigation instead of being  *)
(* noticed afterwards").                                                   *)
WithinLimits ==
  /\ diagnosticsRun <= MaxDiagnostics
  /\ attempts <= MaxAttempts
  /\ failedAttempts <= MaxFailed
  /\ outputBytes < MaxOutput + MaxSize \/ outputBytes = 0
  /\ \A c \in Checks : signatures[c] <= MaxRepeats

(* Every job that reached the device was counted, answered or not: the     *)
(* limits on attempts limit dispatches ("An attempt that failed still cost *)
(* a dispatch", record_attempt).  Only the one that investigate was left   *)
(* over is not.                                                            *)
DispatchesAreCounted ==
  /\ \A c \in Checks : \/ dispatched[c] <= signatures[c]
                       \/ pc = "raised" /\ dispatched[c] = signatures[c] + 1
  /\ attempts = diagnosticsRun + failedAttempts

(* A diagnosis that was refused a check never says that it stopped because *)
(* it had concluded (investigate, stopped_because): not when the calls     *)
(* after the refused one are run.  Investigation.concluded, which the      *)
(* server goes by, does not tell them apart: it is finding, and the final  *)
(* word of a cut-off diagnosis is one.                                     *)
CutOffIsSaid == refused /\ pc = "finished" => stoppedBecause = "budget"

(* It ends, also when the model sends nothing but unreadable calls, which  *)
(* no counter counts.                                                      *)
DiagnosisEnds == <>(pc \in {"finished", "raised"})
=============================================================================
