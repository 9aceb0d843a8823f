------------------------------ MODULE Restarts ------------------------------
(***************************************************************************)
(* Tracked restarts of one device (server/reboots.py and the coroutines of *)
(* main.py that drive it): the request, the pending-reboot check it waits  *)
(* for, the restart command and its follower, the device going offline and *)
(* coming back, the watcher, and the machine itself.                       *)
(*                                                                         *)
(* Of the connection layer, which ControlPlane models, only what restarts  *)
(* can see is kept: whether the registered connection is open, dead but    *)
(* not yet noticed, or gone, and whether it was heard from in the last     *)
(* 30 s.  All waiting times are nondeterministic, with one fact about them *)
(* kept: the check times out after 35 s, so a device that still counts as  *)
(* reachable then has been heard from since the check was sent.            *)
(***************************************************************************)
EXTENDS Naturals, FiniteSets

CONSTANTS
  Restarts, NoRestart,  \* restart records, each with the job it may create
  Keys, NoKey,          \* idempotency keys of restart requests
  MaxBoots,             \* bound on the boots of the machine
  MaxCrashes            \* bound on server crashes

ASSUME NoRestartAssumption == NoRestart \notin Restarts
ASSUME NoKeyAssumption     == NoKey \notin Keys
ASSUME BootsAssumption     == MaxBoots \in Nat \ {0}
ASSUME CrashesAssumption   == MaxCrashes \in Nat

VARIABLES
  \* SQLite
  status,    \* status[r]: restarts.status, "none" before INSERT
  confirmed, \* confirmed[r]: restarts.boot_confirmed: "null", "yes" or "no"
  jobOf,     \* jobOf[r]: restarts.job_id, named by the record that made the job
  command,   \* command[r]: the restart job made for r
  keyOf,     \* keyOf[r]: its idempotency key
  seen,      \* the boot whose uptime devices.last_uptime_seconds is; 0 for NULL
  \* server memory
  alive,     \* the process is running
  asking,    \* the requests waiting in check_pending_reboot
  heard,     \* those of them since whose start the device was heard from
  following, \* the records a _follow_restart_command waits for
  link,      \* the registered connection: "none", "open" or "dead"
  fresh,     \* it was heard from in the last 30 s
  \* the machine
  up,        \* it is running
  boots,     \* how often it has booted
  booked,    \* the record whose shutdown is pending on it
  wire,      \* the records whose command is on its way there
  \* history
  askedAt,   \* askedAt[r]: the boot under way at the operator's request
  crashes    \* number of server crashes so far

rows    == <<status, confirmed, jobOf, command, keyOf>>
tasks   == <<asking, heard, following>>
machine == <<up, boots, booked>>
history == <<askedAt, crashes>>
vars    == <<rows, seen, alive, tasks, link, fresh, machine, wire, history>>

Open     == {"scheduling", "scheduled", "offline"}
Closed   == {"completed", "not_restarted", "failed"}
OpenRecords == {r \in Restarts : status[r] \in Open}

(* What detect_reboot can say when an endpoint reports the uptime of boot  *)
(* u, or none (0).  A boot the server has seen is not taken for a new one; *)
(* a new one may be missed when little uptime was lost to it.              *)
Verdicts(u) ==
  CASE u = 0 \/ seen = 0   -> {"unknown"}
    [] u # 0 /\ seen = u   -> {"same"}
    [] OTHER               -> {"rebooted", "same"}

Reachable == link # "none" /\ fresh

TypeOK ==
  /\ status \in [Restarts -> Open \cup Closed \cup {"none"}]
  /\ confirmed \in [Restarts -> {"null", "yes", "no"}]
  /\ jobOf \in [Restarts -> Restarts \cup {NoRestart}]
  /\ command \in [Restarts -> {"none", "active", "ok", "bad"}]
  /\ keyOf \in [Restarts -> Keys \cup {NoKey}]
  /\ seen \in 0..MaxBoots
  /\ alive \in BOOLEAN
  /\ asking \subseteq Restarts
  /\ heard \subseteq asking
  /\ following \subseteq Restarts
  /\ link \in {"none", "open", "dead"}
  /\ fresh \in BOOLEAN
  /\ up \in BOOLEAN
  /\ boots \in 1..MaxBoots
  /\ booked \in Restarts \cup {NoRestart}
  /\ wire \subseteq Restarts
  /\ askedAt \in [Restarts -> 0..MaxBoots]
  /\ crashes \in 0..MaxCrashes

(* The device has connected once, in its first boot. *)
Init ==
  /\ status    = [r \in Restarts |-> "none"]
  /\ confirmed = [r \in Restarts |-> "null"]
  /\ jobOf     = [r \in Restarts |-> NoRestart]
  /\ command   = [r \in Restarts |-> "none"]
  /\ keyOf     = [r \in Restarts |-> NoKey]
  /\ seen  = 1
  /\ alive = TRUE
  /\ asking = {} /\ heard = {} /\ following = {}
  /\ link  = "open"
  /\ fresh = TRUE
  /\ up = TRUE
  /\ boots = 1
  /\ booked = NoRestart
  /\ wire = {}
  /\ askedAt = [r \in Restarts |-> 0]
  /\ crashes = 0

-----------------------------------------------------------------------------
(* reboots.py: the status each transition leaves a record in               *)

(* restart_command_finished *)
CommandFinished(s, ok) ==
  CASE ok /\ s = "scheduling" -> "scheduled"
    [] ~ok /\ s \in Open      -> "failed"
    [] OTHER                  -> s

(* Mutated form: a restart that failed is tracked again. *)
WentOfflineUnlessDone(s) ==
  IF s \notin {"none", "completed", "not_restarted"} THEN "offline" ELSE s

(* Mutated form: a state the rest of the server does not know. *)
WentOfflineMisspelt(s) == IF s \in {"scheduling", "scheduled"} THEN "off" ELSE s

(* went_offline, on a clock that is not set back between the request and   *)
(* the disconnection (now >= requested_at).                                *)
WentOffline(s) == IF s \in {"scheduling", "scheduled"} THEN "offline" ELSE s

(* came_back *)
CameBack(s, v) ==
  CASE s \in Open /\ v = "rebooted"   -> "completed"
    [] s = "offline" /\ v = "same"    -> "not_restarted"
    [] s = "offline" /\ v = "unknown" -> "completed"
    [] OTHER                          -> s

BootConfirmed(s, v) ==
  CASE s \in Open /\ v = "rebooted" -> "yes"
    [] s = "offline" /\ v = "same"  -> "no"
    [] OTHER                        -> "null"

(* Mutated form: a machine that never returns is waited for for ever. *)
MayBeScheduledOverdue(s) == s = "scheduled"

(* overdue, given time enough; a record still scheduling never is. *)
MayBeOverdue(s) == s \in {"scheduled", "offline"}

-----------------------------------------------------------------------------
(* restart_device                                                          *)

(* job_for_idempotency_key: the records whose job has key k. *)
MadeUnder(k) == {r \in Restarts : k # NoKey /\ command[r] # "none" /\ keyOf[r] = k}

(* The boot the machine is in, or the one that ends its being down. *)
BootUnderWay == IF up THEN boots ELSE boots + 1

(* The request comes in: its key is unused, the device reachable, and the  *)
(* pending-reboot check goes out.  Nothing is recorded yet.  A request     *)
(* whose key is used is answered by the earlier one and has no action.     *)
Ask(r, k) ==
  /\ alive
  /\ status[r] = "none"
  /\ r \notin asking
  /\ MadeUnder(k) = {}
  /\ Reachable
  /\ asking' = asking \cup {r}
  /\ keyOf' = [keyOf EXCEPT ![r] = k]
  /\ askedAt' = [askedAt EXCEPT ![r] = BootUnderWay]
  /\ UNCHANGED <<status, confirmed, jobOf, command, seen, alive, heard, following,
                 link, fresh, machine, wire, crashes>>

(* Mutated form: the record is made without waiting for the check. *)
CheckNotAwaited(r) == r \in asking

(* The check's job has ended: answered, timed out or found unreachable. *)
CheckOver(r) == r \in asking /\ (r \in heard \/ ~Reachable)

Leave(r) == asking' = asking \ {r} /\ heard' = heard \ {r}

(* The record is inserted and the command sent. *)
Send(r) ==
  /\ alive
  /\ CheckOver(r)
  /\ Reachable
  /\ MadeUnder(keyOf[r]) = {}
  /\ Leave(r)
  /\ status'  = [status EXCEPT ![r] = "scheduling"]
  /\ jobOf'   = [jobOf EXCEPT ![r] = r]
  /\ command' = [command EXCEPT ![r] = "active"]
  /\ wire' = IF link = "open" THEN wire \cup {r} ELSE wire
  /\ following' = following \cup {r}
  /\ UNCHANGED <<confirmed, keyOf, seen, alive, link, fresh, machine, history>>

(* Another request used the key while this one waited: send_to_device      *)
(* answers with that one's job, and the new record follows it.             *)
SendDuplicate(r) ==
  /\ alive
  /\ CheckOver(r)
  /\ Leave(r)
  /\ status' = [status EXCEPT ![r] = "scheduling"]
  /\ \E i \in MadeUnder(keyOf[r]) : jobOf' = [jobOf EXCEPT ![r] = i]
  /\ following' = following \cup {r}
  /\ UNCHANGED <<confirmed, command, keyOf, seen, alive, link, fresh, machine, wire, history>>

(* The record is inserted and failed: the device is not reachable any      *)
(* more, or the key was meanwhile used for a request that is not the same. *)
SendRefused(r) ==
  /\ alive
  /\ CheckOver(r)
  /\ MadeUnder(keyOf[r]) = {} => ~Reachable
  /\ Leave(r)
  /\ status' = [status EXCEPT ![r] = "failed"]
  /\ UNCHANGED <<confirmed, jobOf, command, keyOf, seen, alive, following,
                 link, fresh, machine, wire, history>>

(* _follow_restart_command: the job has ended one way or the other.  That  *)
(* of an earlier request may be gone from memory when the following starts *)
(* (jobs.get): there is no job then, which counts as one that did not run. *)
Follow(r) ==
  /\ alive
  /\ r \in following
  /\ command[jobOf[r]] \in {"ok", "bad"}
  /\ following' = following \ {r}
  /\ \E job \in BOOLEAN :
       /\ jobOf[r] = r => job
       /\ status' = [status EXCEPT ![r] = CommandFinished(@, job /\ command[jobOf[r]] = "ok")]
  /\ UNCHANGED <<confirmed, jobOf, command, keyOf, seen, alive, asking, heard,
                 link, fresh, machine, wire, history>>

(* watch_restarts: one tick closes the records in late. *)
Watch(late) ==
  /\ alive
  /\ late # {}
  /\ \A r \in late : MayBeOverdue(status[r])
  /\ status' = [r \in Restarts |-> IF r \in late THEN "failed" ELSE status[r]]
  /\ UNCHANGED <<confirmed, jobOf, command, keyOf, seen, alive, tasks,
                 link, fresh, machine, wire, history>>

WatchTick  == \E late \in SUBSET Restarts : Watch(late)
Overdue(r) == \E late \in SUBSET Restarts : r \in late /\ Watch(late)

(* The supervisor gives the command up. *)
GiveUp(r) ==
  /\ alive
  /\ command[r] = "active"
  /\ command' = [command EXCEPT ![r] = "bad"]
  /\ UNCHANGED <<status, confirmed, jobOf, keyOf, seen, alive, tasks,
                 link, fresh, machine, wire, history>>

-----------------------------------------------------------------------------
(* The connection                                                          *)

(* Any message from the device: a heartbeat, or the answer to a check. *)
Message ==
  /\ alive
  /\ link = "open"
  /\ fresh' = TRUE
  /\ heard' = asking
  /\ UNCHANGED <<rows, seen, alive, asking, following, link, machine, wire, history>>

Silence ==
  /\ alive
  /\ fresh
  /\ fresh' = FALSE
  /\ UNCHANGED <<rows, seen, alive, tasks, link, machine, wire, history>>

(* The network drops: what was on the wire is lost. *)
Blip ==
  /\ link = "open"
  /\ link' = "dead"
  /\ wire' = {}
  /\ UNCHANGED <<rows, seen, alive, tasks, fresh, machine, history>>

(* The handler of the registered connection ends:                          *)
(* advance_restarts_on_disconnect.                                         *)
Disconnect ==
  /\ alive
  /\ link = "dead"
  /\ link' = "none"
  /\ fresh' = FALSE
  /\ status' = [r \in Restarts |-> WentOffline(status[r])]
  /\ UNCHANGED <<confirmed, jobOf, command, keyOf, seen, alive, tasks, machine, wire, history>>

(* Mutated form: any return is taken for a boot. *)
TakenForBoot(r, v) == IF status[r] \in Open /\ v = "same" THEN "yes" ELSE confirmed[r]

ConfirmedNow(r, v) == IF CameBack(status[r], v) # status[r] THEN BootConfirmed(status[r], v)
                      ELSE confirmed[r]

(* agent_connect: record_connection, then advance_restarts_on_return.  A   *)
(* connection that is dead but not noticed is replaced, and its handler    *)
(* will record nothing.                                                    *)
AgentConnect(u, v) ==
  /\ alive
  /\ up
  /\ link # "open"
  /\ v \in Verdicts(u)
  /\ link' = "open"
  /\ fresh' = TRUE
  /\ heard' = asking
  /\ seen' = u
  /\ status' = [r \in Restarts |-> CameBack(status[r], v)]
  /\ confirmed' = [r \in Restarts |-> ConfirmedNow(r, v)]
  /\ UNCHANGED <<jobOf, command, keyOf, alive, asking, following, machine, wire, history>>

-----------------------------------------------------------------------------
(* The machine                                                             *)

(* shutdown.exe books the restart, unless one is pending or it fails, and  *)
(* the result is reported; it is lost on the way, or comes after the       *)
(* supervisor gave the command up, or settles it.                          *)
RunCommand(r, ok) ==
  /\ link = "open"
  /\ r \in wire
  /\ ok => booked = NoRestart
  /\ wire' = wire \ {r}
  /\ booked' = IF ok THEN r ELSE booked
  /\ \/ UNCHANGED <<command, fresh, heard>>
     \/ /\ alive
        /\ fresh' = TRUE
        /\ heard' = asking
        /\ command' = [command EXCEPT ![r] = IF @ # "active" THEN @
                                             ELSE IF ok THEN "ok" ELSE "bad"]
  /\ UNCHANGED <<status, confirmed, jobOf, keyOf, seen, alive, asking, following,
                 link, up, boots, history>>

(* shutdown /a, on the machine. *)
Abort ==
  /\ up
  /\ booked # NoRestart
  /\ booked' = NoRestart
  /\ UNCHANGED <<rows, seen, alive, tasks, link, fresh, up, boots, wire, history>>

(* The booked restart, or anything else that takes the machine down. *)
GoDown ==
  /\ up
  /\ boots < MaxBoots
  /\ up' = FALSE
  /\ booked' = NoRestart
  /\ link' = IF link = "open" THEN "dead" ELSE link
  /\ wire' = {}
  /\ UNCHANGED <<rows, seen, alive, tasks, fresh, boots, history>>

Boot ==
  /\ ~up
  /\ up' = TRUE
  /\ boots' = boots + 1
  /\ UNCHANGED <<rows, seen, alive, tasks, link, fresh, booked, wire, history>>

-----------------------------------------------------------------------------
(* Crashes of the server                                                   *)

LoseMemory ==
  /\ alive
  /\ crashes < MaxCrashes
  /\ crashes' = crashes + 1
  /\ alive' = FALSE
  /\ asking' = {} /\ heard' = {} /\ following' = {}
  /\ link' = "none"
  /\ fresh' = FALSE
  /\ wire' = {}
  /\ UNCHANGED <<seen, machine, askedAt, confirmed, jobOf>>

Crash == LoseMemory /\ UNCHANGED <<status, command, keyOf>>

(* After insert_restart, with the job's row inserted or not: either way     *)
(* the record does not name a job.                                         *)
CrashInSend(r) ==
  /\ CheckOver(r)
  /\ LoseMemory
  /\ status' = [status EXCEPT ![r] = "scheduling"]
  /\ \/ UNCHANGED command
     \/ /\ Reachable
        /\ MadeUnder(keyOf[r]) = {}
        /\ command' = [command EXCEPT ![r] = "active"]
  /\ UNCHANGED keyOf

(* lifespan: orphan_active_jobs; the restart records are left as they are. *)
ServerStart ==
  /\ ~alive
  /\ alive' = TRUE
  /\ command' = [r \in Restarts |-> IF command[r] = "active" THEN "bad" ELSE command[r]]
  /\ UNCHANGED <<status, confirmed, jobOf, keyOf, seen, tasks, link, fresh, machine, wire, history>>

-----------------------------------------------------------------------------
Request(r) == \/ \E k \in Keys \cup {NoKey} : Ask(r, k)
              \/ Send(r) \/ SendDuplicate(r) \/ SendRefused(r) \/ Follow(r)
              \/ GiveUp(r) \/ CrashInSend(r)
              \/ \E ok \in BOOLEAN : RunCommand(r, ok)

Connection == \/ Message \/ Silence \/ Blip \/ Disconnect
              \/ \E u \in {0, boots}, v \in {"rebooted", "same", "unknown"} : AgentConnect(u, v)

Machine == Abort \/ GoDown \/ Boot

Next == \/ \E r \in Restarts : Request(r)
        \/ WatchTick \/ Connection \/ Machine \/ Crash \/ ServerStart

Spec == Init /\ [][Next]_vars

(* watch_restarts and the supervisor tick for ever, so an overdue record   *)
(* and a command without an answer are at last found, and a task that      *)
(* waits for an ended command goes on: of these steps of a record one is   *)
(* taken at last, which is enough.  A crashed server is started again.     *)
Progress(r) == GiveUp(r) \/ Follow(r) \/ Overdue(r)

Fairness == WF_vars(ServerStart) /\ \A r \in Restarts : WF_vars(Progress(r))

FairSpec == Spec /\ Fairness

-----------------------------------------------------------------------------
(* Properties                                                              *)

(* bootConfirmed is only ever true for a boot that began after the         *)
(* operator's request: not for one that was under way, or already over but *)
(* not yet reported, when the request came in, and not for the one that    *)
(* ends a shutdown begun before it (docs/api.md: "the server's             *)
(* own judgement, from the uptime the machine reports").  Records without  *)
(* a command of their own are left out: those that a crash cut short, and  *)
(* those that a repeated key gave the job of an earlier one.               *)
ConfirmedIsNewBoot ==
  \A r \in Restarts : confirmed[r] = "yes" /\ jobOf[r] = r => boots > askedAt[r]

(* The two columns that tell the end of a restart never contradict.        *)
ConfirmationFits ==
  \A r \in Restarts : /\ confirmed[r] = "yes" => status[r] = "completed"
                      /\ confirmed[r] = "no" <=> status[r] = "not_restarted"

(* A closed restart is never reopened or closed differently, by a follower *)
(* that is late, the watcher, a reconnect or a disconnection.              *)
ClosedIsFinal ==
  [][\A r \in Restarts : status[r] \in Closed =>
       status'[r] = status[r] /\ confirmed'[r] = confirmed[r]]_vars

(* Every restart the machine confirmed, or that went offline, is closed in *)
(* the end, over crashes of the server too; and so is one whose command    *)
(* was sent, unless a crash comes first: it then stays in scheduling.      *)
TrackedRestartCloses ==
  \A r \in Restarts :
    status[r] \in {"scheduled", "offline"} \/ r \in following ~>
      status[r] \in Closed \/ (status[r] = "scheduling" /\ ~alive)

(* main.py, restart_device: "A retry: answered by the earlier restart ...  *)
(* Nothing is checked or sent again": no two records track one job.        *)
OneRecordPerJob ==
  \A i, j \in Restarts : jobOf[i] = jobOf[j] /\ jobOf[i] # NoRestart => i = j

(* docs/api.md: a reconnect before the machine goes down does not count as *)
(* coming back: a restart still pending on the machine is not closed by    *)
(* one.                                                                    *)
PendingIsNotBack ==
  booked # NoRestart => status[booked] \notin {"completed", "not_restarted"}
=============================================================================
