---------------------------- MODULE ControlPlane ----------------------------
(***************************************************************************)
(* The job path of the control plane: operators' requests, the in-memory   *)
(* job table and its SQLite rows, the connection registry, one WebSocket   *)
(* handler per connection, the supervisor, revocation, crashes and         *)
(* restarts of the server, and the agent that runs the scripts.            *)
(*                                                                         *)
(* The server is one asyncio loop, so whatever a handler does between two  *)
(* awaits is one action here.  A crash may fall between two commits of the *)
(* same handler; those places have actions of their own.                   *)
(*                                                                         *)
(* Clocks are nondeterministic: a connection goes silent (30 s without a   *)
(* message), an active job is overdue (timeout plus 5 s) and a finished    *)
(* one is old enough to evict (60 s) at any moment a behaviour chooses.    *)
(***************************************************************************)
EXTENDS Naturals, Sequences, FiniteSets

CONSTANTS
  Devices,        \* enrolled devices
  Jobs,           \* job ids: a fresh uuid4 each
  Keys,           \* the idempotency keys requests carry; NoKey stands
  NoKey,          \*   for none, and is a member when some carry none
  Conns, NoConn,  \* WebSocket connections, each used once
  MaxCrashes,     \* bound on server crashes
  Reports,        \* the kinds of result the agents send
  HellosInOrder   \* TRUE: a hello never outlives the agent's own socket

ASSUME NoConnAssumption  == NoConn \notin Conns
ASSUME CrashesAssumption == MaxCrashes \in Nat
ASSUME ReportsAssumption == Reports \subseteq {"Completed", "Failed", "TimedOut", "Rejected"}
ASSUME HellosAssumption  == HellosInOrder \in BOOLEAN

VARIABLES
  \* SQLite
  db,        \* db[j]: the state column of row j, "none" before INSERT
  req,       \* req[j]: device and idempotency key of row j
  revoked,   \* revoked[d]: devices.revoked
  offline,   \* offline[d]: devices.last_disconnect_at is set
  \* server memory
  alive,     \* the process is running
  mem,       \* mem[j]: JobStore._jobs, "none" when absent
  registry,  \* registry[d]: DeviceRegistry._devices
  owner,     \* owner[c]: DeviceConnection.device_id
  phase,     \* phase[c]: how far agent_connect has got
  fresh,     \* fresh[c]: last_seen is under OFFLINE_AFTER_SECONDS ago
  barred,    \* barred[c]: DeviceConnection.revoked
  closing,   \* closing[c]: the event DeviceConnection.closed is set
  out,       \* out[c]: DeviceConnection.outbound, unbounded FIFO of jobs
  \* the network and the agents
  down,      \* down[c]: dispatches on the wire to the agent
  up,        \* up[c]: accepted/result messages on the wire to the server
  session,   \* session[d]: the socket the agent holds
  task,      \* task[d][j]: the agent's RunJobAsync for j
  runs,      \* runs[j]: history, the devices that started j's script
  crashes    \* number of server crashes so far

durable  == <<db, req, revoked, offline>>
flags    == <<fresh, barred, closing>>
conn     == <<owner, phase, flags>>
volatile == <<mem, registry, conn, out>>
agent    == <<down, session, task, runs>>
vars     == <<durable, alive, volatile, up, agent, crashes>>

Active    == {"Queued", "Dispatched", "Running"}
Terminal  == {"Completed", "TimedOut", "Unreachable", "Failed"}
JobStates == Active \cup Terminal \cup {"none"}
NoDevice  == "none"
NoReq     == [device |-> NoDevice, key |-> NoKey]

ASSUME NoDeviceAssumption == NoDevice \notin Devices

(* Reports: what the executor saw, or "Rejected": a report that           *)
(* verify_result or parse_result turns down (the device key was rebound    *)
(* while the job ran, or the agent cannot attest and it must).             *)
Messages == [kind : {"accepted"}, job : Jobs]
            \cup [kind : {"result"}, job : Jobs, report : Reports]

(* A connection is free, has a hello on its way, awaits its hello_ack send *)
(* ("acking"), is served by the sender and receiver tasks, was left in the *)
(* registry with no handler when that send raised ("leaked"), or is done.  *)
Phases == {"free", "hello", "acking", "serving", "leaked", "done"}

(* Mutated form: last_seen is not looked at. *)
ReachableWhenOpen(d) == registry[d] # NoConn /\ ~barred[registry[d]]

(* is_reachable of the registered connection. *)
Reachable(d) ==
  /\ registry[d] # NoConn
  /\ ~barred[registry[d]]
  /\ fresh[registry[d]]

(* GET /api/jobs/{id}: memory first, then the row. *)
View(j) == IF mem[j] # "none" THEN mem[j] ELSE db[j]

ActiveJobs   == {j \in Jobs : mem[j] \in Active}
FinishedJobs == {j \in Jobs : mem[j] \in Terminal}

RowsTypeOK ==
  /\ db \in [Jobs -> JobStates]
  /\ req \in [Jobs -> [device : Devices, key : Keys \cup {NoKey}] \cup {NoReq}]
  /\ revoked \in [Devices -> BOOLEAN]
  /\ offline \in [Devices -> BOOLEAN]

MemoryTypeOK ==
  /\ alive \in BOOLEAN
  /\ mem \in [Jobs -> JobStates]
  /\ registry \in [Devices -> Conns \cup {NoConn}]
  /\ out \in [Conns -> Seq(Jobs)]

ConnTypeOK ==
  /\ owner \in [Conns -> Devices \cup {NoDevice}]
  /\ phase \in [Conns -> Phases]
  /\ fresh   \in [Conns -> BOOLEAN]
  /\ barred  \in [Conns -> BOOLEAN]
  /\ closing \in [Conns -> BOOLEAN]

AgentTypeOK ==
  /\ down \in [Conns -> Seq(Jobs)]
  /\ session \in [Devices -> Conns \cup {NoConn}]
  /\ task \in [Devices -> [Jobs -> {"idle", "accepted", "running"}]]
  /\ runs \in [Jobs -> Seq(Devices)]

TypeOK ==
  /\ RowsTypeOK
  /\ MemoryTypeOK
  /\ ConnTypeOK
  /\ AgentTypeOK
  /\ up \in [Conns -> Seq(Messages)]
  /\ crashes \in 0..MaxCrashes

Init ==
  /\ db  = [j \in Jobs |-> "none"]
  /\ req = [j \in Jobs |-> NoReq]
  /\ revoked = [d \in Devices |-> FALSE]
  /\ offline = [d \in Devices |-> FALSE]
  /\ alive = TRUE
  /\ mem = [j \in Jobs |-> "none"]
  /\ registry = [d \in Devices |-> NoConn]
  /\ owner = [c \in Conns |-> NoDevice]
  /\ phase = [c \in Conns |-> "free"]
  /\ fresh   = [c \in Conns |-> FALSE]
  /\ barred  = [c \in Conns |-> FALSE]
  /\ closing = [c \in Conns |-> FALSE]
  /\ out  = [c \in Conns |-> <<>>]
  /\ down = [c \in Conns |-> <<>>]
  /\ up   = [c \in Conns |-> <<>>]
  /\ session = [d \in Devices |-> NoConn]
  /\ task = [d \in Devices |-> [j \in Jobs |-> "idle"]]
  /\ runs = [j \in Jobs |-> <<>>]
  /\ crashes = 0

-----------------------------------------------------------------------------
(* Operators' requests                                                     *)

(* Mutated form: a job that failed does not use up its key. *)
KeyUnusedUnlessFailed(k) ==
  k # NoKey => \A i \in Jobs : db[i] # "Failed" => req[i].key # k

(* job_for_idempotency_key finds nothing. *)
KeyUnused(k) == k # NoKey => \A i \in Jobs : req[i].key # k

(* send_to_device, past its refusals: the key is unused, the device is not *)
(* revoked and its registered connection is reachable.                     *)
MayDispatch(d, j, k) ==
  /\ alive
  /\ req[j] = NoReq
  /\ KeyUnused(k)
  /\ ~revoked[d]
  /\ Reachable(d)

(* A request that repeats a used key changes nothing: it is answered with  *)
(* the earlier job or refused, so it has no action.                        *)
Dispatch(d, j, k) ==
  /\ MayDispatch(d, j, k)
  /\ req' = [req EXCEPT ![j] = [device |-> d, key |-> k]]
  /\ db'  = [db  EXCEPT ![j] = "Dispatched"]
  /\ mem' = [mem EXCEPT ![j] = "Dispatched"]
  /\ out' = [out EXCEPT ![registry[d]] = Append(@, j)]
  /\ UNCHANGED <<revoked, offline, alive, registry, conn, up, agent, crashes>>

(* Mutated form: a job the device has begun is left to finish. *)
CancelledUnlessRunning(d) == {j \in Jobs : mem[j] = "Dispatched" /\ req[j].device = d}

Cancelled(d) == {j \in ActiveJobs : req[j].device = d}

(* Mutated form: the queue is left to the handler that is about to end. *)
KeepQueue(c) == out

(* drain_pending *)
Drained(c) == [x \in Conns |-> IF x = c THEN <<>> ELSE out[x]]

(* revoke_device.  Only the registered connection is drained and closed.   *)
Revoke(d) ==
  LET c == registry[d]
  IN  /\ alive
      /\ revoked' = [revoked EXCEPT ![d] = TRUE]
      /\ mem' = [j \in Jobs |-> IF j \in Cancelled(d) THEN "Unreachable" ELSE mem[j]]
      /\ db'  = [j \in Jobs |-> IF j \in Cancelled(d) THEN "Unreachable" ELSE db[j]]
      /\ out'  = Drained(c)
      /\ barred'  = [x \in Conns |-> x = c \/ barred[x]]
      /\ closing' = [x \in Conns |-> x = c \/ closing[x]]
      /\ UNCHANGED <<req, offline, alive, registry, owner, phase, fresh, up, agent, crashes>>

(* unrevoke_device also makes a connection that is already closing count   *)
(* as reachable again.                                                     *)
Unrevoke(d) ==
  /\ alive
  /\ revoked[d]
  /\ revoked' = [revoked EXCEPT ![d] = FALSE]
  /\ barred' = [x \in Conns |-> x # registry[d] /\ barred[x]]
  /\ UNCHANGED <<db, req, offline, alive, mem, registry, owner, phase, fresh, closing,
                 out, up, agent, crashes>>

-----------------------------------------------------------------------------
(* The supervisor                                                          *)

(* One tick of supervise(): evict what finished long enough ago, then fail *)
(* every active job whose device is unreachable, and of the others those   *)
(* in late, the ones past timeout and grace.                               *)
Lost(late) == {j \in ActiveJobs : ~Reachable(req[j].device) \/ j \in late}

Settled(j) == IF Reachable(req[j].device) THEN "TimedOut" ELSE "Unreachable"

Supervise(late, old) ==
  /\ alive
  /\ late \subseteq ActiveJobs
  /\ old  \subseteq FinishedJobs
  /\ Lost(late) \cup old # {}
  /\ mem' = [j \in Jobs |-> IF j \in old THEN "none"
                            ELSE IF j \in Lost(late) THEN Settled(j) ELSE mem[j]]
  /\ db'  = [j \in Jobs |-> IF j \in Lost(late) THEN Settled(j) ELSE db[j]]
  /\ UNCHANGED <<req, revoked, offline, alive, registry, conn, out, up, agent, crashes>>

SuperviseTick == \E late \in SUBSET ActiveJobs, old \in SUBSET FinishedJobs :
                   Supervise(late, old)

(* The ticks that find job j past its deadline. *)
Expire(j) == \E late \in SUBSET ActiveJobs, old \in SUBSET FinishedJobs :
               j \in late /\ Supervise(late, old)

-----------------------------------------------------------------------------
(* Connections                                                             *)

(* The agent opens a socket, gets the challenge and sends its hello. *)
AgentConnect(d, c) ==
  /\ alive
  /\ session[d] = NoConn
  /\ phase[c] = "free"
  /\ phase' = [phase EXCEPT ![c] = "hello"]
  /\ owner' = [owner EXCEPT ![c] = d]
  /\ session' = [session EXCEPT ![d] = c]
  /\ UNCHANGED <<durable, alive, mem, registry, flags, out, down, up, task, runs, crashes>>

(* agent_connect from the hello to the await of the hello_ack: register,   *)
(* replacing whatever was registered, and forget the disconnection.        *)
ServerHello(c) ==
  LET d == owner[c] IN
  /\ alive
  /\ phase[c] = "hello"
  /\ ~revoked[d]
  /\ phase' = [phase EXCEPT ![c] = "acking"]
  /\ fresh' = [fresh EXCEPT ![c] = TRUE]
  /\ registry' = [registry EXCEPT ![d] = c]
  /\ offline' = [offline EXCEPT ![d] = FALSE]
  /\ UNCHANGED <<db, req, revoked, alive, mem, owner, barred, closing, out, up, agent, crashes>>

(* The hello is turned down, or the socket ends before it is read. *)
HelloRefused(c) ==
  /\ alive
  /\ phase[c] = "hello"
  /\ revoked[owner[c]] \/ session[owner[c]] # c
  /\ phase' = [phase EXCEPT ![c] = "done"]
  /\ UNCHANGED <<durable, alive, mem, registry, owner, flags, out, up, agent, crashes>>

AckSent(c) ==
  /\ alive
  /\ phase[c] = "acking"
  /\ phase' = [phase EXCEPT ![c] = "serving"]
  /\ UNCHANGED <<durable, alive, mem, registry, owner, flags, out, up, agent, crashes>>

(* The hello_ack send raises: the exception leaves agent_connect before    *)
(* its try/finally, so the registration stays behind.                      *)
AckFails(c) ==
  /\ alive
  /\ phase[c] = "acking"
  /\ phase' = [phase EXCEPT ![c] = "leaked"]
  /\ UNCHANGED <<durable, alive, mem, registry, owner, flags, out, up, agent, crashes>>

(* Mutated form: every handler that ends reports the device gone. *)
NeverSuperseded(c) == FALSE

Superseded(c) == registry[owner[c]] # c

(* The connection objects that are of no further use. *)
Ends(cs) ==
  /\ phase'   = [c \in Conns |-> IF c \in cs THEN "done" ELSE phase[c]]
  /\ fresh'   = [c \in Conns |-> c \notin cs /\ fresh[c]]
  /\ barred'  = [c \in Conns |-> c \notin cs /\ barred[c]]
  /\ closing' = [c \in Conns |-> c \notin cs /\ closing[c]]
  /\ UNCHANGED owner

(* The handler ends -- socket error, closed event -- and its finally runs: *)
(* only the connection still registered may record the device offline.    *)
Cleanup(c) ==
  LET d == owner[c]
  IN  /\ alive
      /\ phase[c] = "serving"
      /\ Ends({c})
      /\ out'  = [out EXCEPT ![c] = <<>>]
      /\ up'   = [up EXCEPT ![c] = <<>>]
      /\ registry' = [registry EXCEPT ![d] = IF @ = c THEN NoConn ELSE @]
      /\ offline'  = [offline EXCEPT ![d] = @ \/ ~Superseded(c)]
      /\ UNCHANGED <<db, req, revoked, alive, mem, agent, crashes>>

(* OFFLINE_AFTER_SECONDS pass without a message. *)
Silence(c) ==
  /\ alive
  /\ fresh[c]
  /\ fresh' = [fresh EXCEPT ![c] = FALSE]
  /\ UNCHANGED <<durable, alive, mem, registry, owner, phase, barred, closing, out, up, agent, crashes>>

(* Mutated form: the head stays queued after it was sent. *)
StillQueued(c) == out[c]

Unsent(c) == Tail(out[c])

(* _send_loop: the head of the queue goes out on the socket, to be read if *)
(* the agent still holds the other end.                                    *)
SendLoop(c) ==
  /\ alive
  /\ phase[c] = "serving"
  /\ out[c] # <<>>
  /\ out'  = [out EXCEPT ![c] = Unsent(c)]
  /\ down' = IF session[owner[c]] = c
             THEN [down EXCEPT ![c] = Append(@, Head(out[c]))] ELSE down
  /\ UNCHANGED <<durable, alive, mem, registry, conn, up, session, task, runs, crashes>>

-----------------------------------------------------------------------------
(* _receive_loop: every message touches the connection.                    *)

Touch(c) == /\ fresh' = [fresh EXCEPT ![c] = TRUE]
            /\ UNCHANGED <<owner, phase, barred, closing>>

Heartbeat(c) ==
  /\ alive
  /\ phase[c] = "serving"
  /\ session[owner[c]] = c
  /\ ~fresh[c]
  /\ Touch(c)
  /\ UNCHANGED <<durable, alive, mem, registry, out, up, agent, crashes>>

(* _owned_job: still in memory, and dispatched to this device. *)
Owned(c, j) == mem[j] # "none" /\ req[j].device = owner[c]

Receives(c, kind) ==
  /\ alive
  /\ phase[c] = "serving"
  /\ up[c] # <<>>
  /\ Head(up[c]).kind = kind
  /\ up' = [up EXCEPT ![c] = Tail(@)]
  /\ Touch(c)

(* Mutated form: the row is not written. *)
SetInMemory(j, s) == mem' = [mem EXCEPT ![j] = s] /\ UNCHANGED db

SetState(j, s) ==
  /\ mem' = [mem EXCEPT ![j] = s]
  /\ db'  = [db  EXCEPT ![j] = s]

OnAccepted(c) ==
  /\ Receives(c, "accepted")
  /\ LET j == Head(up[c]).job IN
       IF Owned(c, j) /\ mem[j] = "Dispatched"
       THEN SetState(j, "Running") ELSE UNCHANGED <<mem, db>>
  /\ UNCHANGED <<req, revoked, offline, alive, registry, out, agent, crashes>>

(* Mutated form: a result is stored whatever the job has become. *)
CompletesAgain(c, j) == Owned(c, j)

(* JobStore.complete ignores a job already finished. *)
Completes(c, j) == Owned(c, j) /\ mem[j] \in Active

(* handle_result *)
OnResult(c) ==
  /\ Receives(c, "result")
  /\ LET m == Head(up[c]) IN
       IF Completes(c, m.job)
       THEN SetState(m.job, IF m.report = "Rejected" THEN "Failed" ELSE m.report)
       ELSE UNCHANGED <<mem, db>>
  /\ UNCHANGED <<req, revoked, offline, alive, registry, out, agent, crashes>>

-----------------------------------------------------------------------------
(* The agent                                                               *)

(* What the agent sends is lost once the server has ended the connection.  *)
Sent(c, m) == IF phase[c] = "serving"
              THEN [up EXCEPT ![c] = Append(@, m)] ELSE up

(* ReceiveLoopAsync starts a task, whose first act is to send job_accepted. *)
AgentReceive(d) ==
  LET c == session[d] IN
  /\ c # NoConn
  /\ down[c] # <<>>
  /\ down' = [down EXCEPT ![c] = Tail(@)]
  /\ task' = [task EXCEPT ![d][Head(down[c])] = "accepted"]
  /\ up' = Sent(c, [kind |-> "accepted", job |-> Head(down[c])])
  /\ UNCHANGED <<durable, alive, volatile, session, runs, crashes>>

(* ScriptExecutor starts the process. *)
AgentRun(d, j) ==
  /\ task[d][j] = "accepted"
  /\ task' = [task EXCEPT ![d][j] = "running"]
  /\ runs' = [runs EXCEPT ![j] = Append(@, d)]
  /\ UNCHANGED <<durable, alive, volatile, up, down, session, crashes>>

(* Mutated form: a task reports before its process was started. *)
HasTask(d, j) == task[d][j] # "idle"

HasRun(d, j) == task[d][j] = "running"

(* The process exits, times out or fails; the signed result is sent. *)
AgentFinish(d, j, report) ==
  /\ HasRun(d, j)
  /\ task' = [task EXCEPT ![d][j] = "idle"]
  /\ up' = Sent(session[d], [kind |-> "result", job |-> j, report |-> report])
  /\ UNCHANGED <<durable, alive, volatile, down, session, runs, crashes>>

(* RunSessionAsync ends: its token kills the running scripts, and their    *)
(* results and the unread dispatches are lost.                             *)
AgentDrop(d) ==
  LET c == session[d] IN
  /\ c # NoConn
  /\ session' = [session EXCEPT ![d] = NoConn]
  /\ down' = [down EXCEPT ![c] = <<>>]
  /\ task' = [task EXCEPT ![d] = [j \in Jobs |-> "idle"]]
  /\ phase' = IF HellosInOrder /\ phase[c] = "hello"
              THEN [phase EXCEPT ![c] = "done"] ELSE phase
  /\ UNCHANGED <<durable, alive, mem, registry, owner, flags, out, up, runs, crashes>>

-----------------------------------------------------------------------------
(* Crashes of the server                                                   *)

LoseMemory ==
  /\ crashes < MaxCrashes
  /\ crashes' = crashes + 1
  /\ alive' = FALSE
  /\ mem' = [j \in Jobs |-> "none"]
  /\ registry' = [d \in Devices |-> NoConn]
  /\ Ends({c \in Conns : phase[c] # "free"})
  /\ out' = [c \in Conns |-> <<>>]
  /\ up'  = [c \in Conns |-> <<>>]
  /\ UNCHANGED <<offline, agent>>

Crash == alive /\ LoseMemory /\ UNCHANGED <<db, req, revoked>>

(* Between insert_job and mark_dispatched, or between that and the answer. *)
CrashInDispatch(d, j, k) ==
  /\ MayDispatch(d, j, k)
  /\ LoseMemory
  /\ req' = [req EXCEPT ![j] = [device |-> d, key |-> k]]
  /\ \E s \in {"Queued", "Dispatched"} : db' = [db EXCEPT ![j] = s]
  /\ UNCHANGED revoked

(* After devices.revoked was committed, with the jobs in done failed. *)
CrashInRevoke(d) ==
  /\ alive
  /\ LoseMemory
  /\ revoked' = [revoked EXCEPT ![d] = TRUE]
  /\ \E done \in SUBSET Cancelled(d) :
       db' = [j \in Jobs |-> IF j \in done THEN "Unreachable" ELSE db[j]]
  /\ UNCHANGED req

(* With only some of the tick's jobs settled. *)
CrashInSupervise ==
  /\ alive
  /\ LoseMemory
  /\ \E done \in SUBSET ActiveJobs :
       db' = [j \in Jobs |-> IF j \in done THEN Settled(j) ELSE db[j]]
  /\ UNCHANGED <<req, revoked>>

(* Mutated form: what the agent has not begun is kept for a retry. *)
RequeuesDispatched(s) == IF s \in {"Dispatched", "Running"} THEN "Queued" ELSE s

(* Mutated form: Queued is taken for a state no row can be left in. *)
FailsDispatched(s) == IF s \in {"Dispatched", "Running"} THEN "Failed" ELSE s

(* orphan_active_jobs *)
Orphaned(s) == IF s \in Active THEN "Failed" ELSE s

(* lifespan: orphan_active_jobs before anything is served. *)
Restart ==
  /\ ~alive
  /\ alive' = TRUE
  /\ db' = [j \in Jobs |-> Orphaned(db[j])]
  /\ UNCHANGED <<req, revoked, offline, volatile, up, agent, crashes>>

-----------------------------------------------------------------------------
Operator(d) == Revoke(d) \/ Unrevoke(d)
               \/ \E j \in Jobs, k \in Keys : Dispatch(d, j, k)
Handler(c)  == ServerHello(c) \/ HelloRefused(c) \/ AckSent(c) \/ AckFails(c)
               \/ Cleanup(c) \/ Silence(c) \/ SendLoop(c)
               \/ Heartbeat(c) \/ OnAccepted(c) \/ OnResult(c)
Agent(d)    == AgentReceive(d) \/ AgentDrop(d)
               \/ \E c \in Conns : AgentConnect(d, c)
               \/ \E j \in Jobs : AgentRun(d, j)
                    \/ \E r \in Reports : AgentFinish(d, j, r)
Crashing    == Crash \/ CrashInSupervise
               \/ \E d \in Devices : CrashInRevoke(d)
                    \/ \E j \in Jobs, k \in Keys : CrashInDispatch(d, j, k)

Next == \/ \E d \in Devices : Operator(d) \/ Agent(d)
        \/ \E c \in Conns : Handler(c)
        \/ SuperviseTick \/ Crashing \/ Restart

Spec == Init /\ [][Next]_vars

(* supervise() ticks for ever, so a job still active is at last found      *)
(* overdue; a crashed server is started again by its service manager; a    *)
(* dead socket is noticed, and nothing refreshes a connection no agent     *)
(* holds.  Operators, agents and live sockets are promised nothing.        *)
Abandoned(c)   == owner[c] # NoDevice /\ session[owner[c]] # c
FadeAway(c)    == Abandoned(c) /\ Silence(c)
NoticeDeath(c) == Abandoned(c) /\ Cleanup(c)
Fairness == /\ WF_vars(Restart)
            /\ \A j \in Jobs : WF_vars(Expire(j))
            /\ \A c \in Conns : WF_vars(FadeAway(c)) /\ WF_vars(NoticeDeath(c))

FairSpec == Spec /\ Fairness

-----------------------------------------------------------------------------
(* Properties                                                              *)

(* A live server never forgets work in flight: an entry in memory agrees   *)
(* with its row, and only a finished job may be in the table alone (what   *)
(* evict_finished and view() rely on).                                     *)
MemoryMatchesRows ==
  alive => \A j \in Jobs :
    IF mem[j] = "none" THEN db[j] \notin Active ELSE mem[j] = db[j]

(* A script is started at most once, whatever is retried, dropped,         *)
(* superseded or crashes between dispatch and result.                      *)
RunsAtMostOnce == \A j \in Jobs : Len(runs[j]) <= 1

(* "Completed" is only ever stored for a script the job's own device ran.  *)
CompletedWasRun ==
  \A j \in Jobs : db[j] = "Completed" => runs[j] = <<req[j].device>>

(* From the moment of a revocation (revoke_device: "must take effect now") *)
(* the device has no active job and no connection that counts as reachable. *)
RevokedIsQuiet ==
  \A d \in Devices : alive /\ revoked[d] =>
    /\ ~Reachable(d)
    /\ \A j \in Jobs : req[j].device = d => mem[j] \notin Active

(* An idempotency key never names two jobs (job_for_idempotency_key), also *)
(* when a request is repeated over another connection after a crash in the *)
(* middle of its dispatch, or after its job was failed at startup.         *)
KeyNamesOneJob ==
  \A i, j \in Jobs : req[i].key = req[j].key /\ req[i].key # NoKey => i = j

(* A job answered as finished stays answered the same way: late results,   *)
(* eviction, crash recovery and revocation never change it.                *)
AnswerIsFinal ==
  [][\A j \in Jobs : View(j) \in Terminal => View(j)' = View(j)]_vars

(* A device whose agent is served on its current socket is not marked gone *)
(* by the cleanup of an older connection.                                  *)
LiveDeviceNotMarkedGone ==
  \A d \in Devices : offline[d] /\ session[d] # NoConn
                       => phase[session[d]] # "serving"

(* Nor does a revoked device keep a served socket that is not being closed *)
(* or a job still to be sent on it: "Revocation closes the socket,         *)
(* discards undispatched work" (docs/design.md).                           *)
RevokedIsCutOff ==
  \A d \in Devices : alive /\ revoked[d] /\ session[d] # NoConn =>
    LET c == session[d] IN
      phase[c] \in {"acking", "serving"} => closing[c] /\ out[c] = <<>>

(* Every job that exists is eventually finished. *)
EveryJobSettles == \A j \in Jobs : db[j] \in Active ~> db[j] \in Terminal

(* A device whose agent is gone does not count as reachable for ever, even *)
(* when its registration was left behind.                                  *)
GoneDeviceFades == \A d \in Devices : []<>(session[d] # NoConn \/ ~Reachable(d))

(* The control plane implements the contract. *)
Contract == INSTANCE JobContract WITH
  state <- db, starts <- [j \in Jobs |-> Len(runs[j])]
ImplementsContract == Contract!Spec
=============================================================================
