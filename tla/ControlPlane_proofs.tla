------------------------ MODULE ControlPlane_proofs ------------------------
(***************************************************************************)
(* What ControlPlane guarantees for every number of devices, jobs, keys,   *)
(* connections and crashes.                                                *)
(***************************************************************************)
EXTENDS ControlPlane, TLAPS

-----------------------------------------------------------------------------
(* Types                                                                   *)

(* Ending any set of connections keeps their fields well typed. *)
LEMMA EndsType ==
  ASSUME ConnTypeOK, NEW cs \in SUBSET Conns, Ends(cs)
  PROVE  ConnTypeOK'
<1>1. phase' \in [Conns -> Phases]
  BY DEF ConnTypeOK, Ends, Phases
<1>2. fresh' \in [Conns -> BOOLEAN]
  BY DEF ConnTypeOK, Ends
<1>3. barred' \in [Conns -> BOOLEAN]
  BY DEF ConnTypeOK, Ends
<1>4. closing' \in [Conns -> BOOLEAN]
  BY DEF ConnTypeOK, Ends
<1>5. owner' \in [Conns -> Devices \cup {NoDevice}]
  BY DEF ConnTypeOK, Ends
<1>6. QED
  BY <1>1, <1>2, <1>3, <1>4, <1>5 DEF ConnTypeOK

(* A crash keeps everything but the rows well typed. *)
LEMMA LoseMemoryType ==
  ASSUME TypeOK, LoseMemory
  PROVE  /\ MemoryTypeOK' /\ ConnTypeOK' /\ AgentTypeOK'
         /\ up' \in [Conns -> Seq(Messages)]
         /\ crashes' \in 0..MaxCrashes
         /\ offline' \in [Devices -> BOOLEAN]
<1>1. ConnTypeOK'
  BY EndsType DEF TypeOK, LoseMemory
<1>2. MemoryTypeOK'
  <2>1. alive' \in BOOLEAN /\ mem' \in [Jobs -> JobStates]
    BY DEF LoseMemory, JobStates
  <2>2. registry' \in [Devices -> Conns \cup {NoConn}]
    BY DEF LoseMemory
  <2>3. out' \in [Conns -> Seq(Jobs)]
    BY DEF LoseMemory
  <2>4. QED
    BY <2>1, <2>2, <2>3 DEF MemoryTypeOK
<1>3. AgentTypeOK' /\ offline' \in [Devices -> BOOLEAN]
  BY DEF TypeOK, LoseMemory, AgentTypeOK, RowsTypeOK, agent
<1>4. up' \in [Conns -> Seq(Messages)]
  BY DEF TypeOK, LoseMemory
<1>5. crashes' \in 0..MaxCrashes
  BY CrashesAssumption DEF TypeOK, LoseMemory
<1>6. QED
  BY <1>1, <1>2, <1>3, <1>4, <1>5

(* What _receive_loop takes off the wire is a message. *)
LEMMA HeadIsMessage ==
  ASSUME TypeOK, NEW c \in Conns, up[c] # <<>>
  PROVE  /\ Head(up[c]) \in Messages
         /\ Head(up[c]).job \in Jobs
         /\ Head(up[c]).kind = "result" => Head(up[c]).report \in Reports
<1>1. Head(up[c]) \in Messages
  BY DEF TypeOK
<1>2. QED
  BY <1>1 DEF Messages

(* Sending a message keeps the wire well typed. *)
LEMMA SentType ==
  ASSUME TypeOK, NEW c, NEW m \in Messages
  PROVE  Sent(c, m) \in [Conns -> Seq(Messages)]
<1>1. up \in [Conns -> Seq(Messages)]
  BY DEF TypeOK
<1>2. \A x \in Conns : Append(up[x], m) \in Seq(Messages)
  BY <1>1
<1>3. [up EXCEPT ![c] = Append(@, m)]
        = [x \in Conns |-> IF x = c THEN Append(up[x], m) ELSE up[x]]
  BY <1>1
<1>4. QED
  BY <1>1, <1>2, <1>3 DEF Sent

(* Taking a message keeps the wire and the connection well typed. *)
LEMMA ReceivesType ==
  ASSUME TypeOK, NEW c \in Conns, NEW kind, Receives(c, kind)
  PROVE  ConnTypeOK' /\ up' \in [Conns -> Seq(Messages)]
<1>1. up' \in [Conns -> Seq(Messages)]
  BY DEF TypeOK, Receives
<1>2. ConnTypeOK'
  BY DEF TypeOK, ConnTypeOK, Receives, Touch
<1>3. QED
  BY <1>1, <1>2

LEMMA TypeInit == Init => TypeOK
BY CrashesAssumption
   DEF Init, TypeOK, RowsTypeOK, MemoryTypeOK, ConnTypeOK, AgentTypeOK,
       JobStates, NoReq, Phases, NoDevice

(* Operators and the supervisor. *)
LEMMA TypeServer ==
  ASSUME TypeOK, \/ \E d \in Devices : Operator(d)
                 \/ SuperviseTick
                 \/ Restart
  PROVE  TypeOK'
<1> USE DEF TypeOK, RowsTypeOK, MemoryTypeOK, ConnTypeOK, AgentTypeOK, agent, conn, flags
<1>1. ASSUME NEW d \in Devices, NEW j \in Jobs, NEW k \in Keys, Dispatch(d, j, k)
      PROVE  TypeOK'
  BY <1>1 DEF Dispatch, MayDispatch, Reachable, JobStates, Active
<1>2. ASSUME NEW d \in Devices, Revoke(d)
      PROVE  TypeOK'
  BY <1>2 DEF Revoke, Drained, JobStates, Terminal
<1>3. ASSUME NEW d \in Devices, Unrevoke(d)
      PROVE  TypeOK'
  BY <1>3 DEF Unrevoke
<1>4. CASE SuperviseTick
  BY <1>4 DEF SuperviseTick, Supervise, Settled, JobStates, Terminal
<1>5. CASE Restart
  BY <1>5 DEF Restart, volatile, Orphaned, JobStates, Terminal
<1>6. QED
  BY <1>1, <1>2, <1>3, <1>4, <1>5 DEF Operator

(* The connection handlers. *)
LEMMA TypeHandler ==
  ASSUME TypeOK, NEW c \in Conns, Handler(c)
  PROVE  TypeOK'
<1> USE DEF TypeOK, RowsTypeOK, MemoryTypeOK, ConnTypeOK, AgentTypeOK, agent, flags, durable
<1>1. CASE ServerHello(c)
  BY <1>1 DEF ServerHello, Phases
<1>2. CASE HelloRefused(c) \/ AckSent(c) \/ AckFails(c)
  BY <1>2 DEF HelloRefused, AckSent, AckFails, Phases
<1>3. CASE Cleanup(c)
  <2>1. ConnTypeOK'
    BY <1>3, EndsType DEF Cleanup
  <2>2. RowsTypeOK' /\ MemoryTypeOK' /\ up' \in [Conns -> Seq(Messages)]
    <3>1. offline' \in [Devices -> BOOLEAN]
      BY <1>3 DEF Cleanup
    <3>2. registry' \in [Devices -> Conns \cup {NoConn}]
      BY <1>3 DEF Cleanup
    <3>3. out' \in [Conns -> Seq(Jobs)] /\ up' \in [Conns -> Seq(Messages)]
      BY <1>3 DEF Cleanup
    <3>4. QED
      BY <1>3, <3>1, <3>2, <3>3 DEF Cleanup
  <2>3. AgentTypeOK' /\ crashes' \in 0..MaxCrashes
    BY <1>3 DEF Cleanup
  <2>4. QED
    BY <2>1, <2>2, <2>3
<1>4. CASE Silence(c) \/ Heartbeat(c)
  BY <1>4 DEF Silence, Heartbeat, Touch
<1>5. CASE SendLoop(c)
  BY <1>5 DEF SendLoop, Unsent, conn
<1>6. CASE OnAccepted(c)
  <2>1. ConnTypeOK' /\ up' \in [Conns -> Seq(Messages)]
    BY <1>6, ReceivesType DEF OnAccepted
  <2>2. db' \in [Jobs -> JobStates] /\ mem' \in [Jobs -> JobStates]
    <3>1. CASE UNCHANGED <<mem, db>>
      BY <3>1
    <3>2. CASE SetState(Head(up[c]).job, "Running")
      BY <3>2 DEF SetState, JobStates, Active
    <3>3. QED
      BY <1>6, <3>1, <3>2 DEF OnAccepted
  <2>3. RowsTypeOK' /\ MemoryTypeOK' /\ AgentTypeOK' /\ crashes' \in 0..MaxCrashes
    BY <1>6, <2>2 DEF OnAccepted
  <2>4. QED
    BY <2>1, <2>3
<1>7. CASE OnResult(c)
  <2>1. ConnTypeOK' /\ up' \in [Conns -> Seq(Messages)]
    BY <1>7, ReceivesType DEF OnResult
  <2>2. up[c] # <<>> /\ Head(up[c]).kind = "result"
    BY <1>7 DEF OnResult, Receives
  <2>3. Head(up[c]).report \in Reports
    BY <2>2, HeadIsMessage
  <2>4. db' \in [Jobs -> JobStates] /\ mem' \in [Jobs -> JobStates]
    <3> DEFINE r == Head(up[c]).report
               s == IF r = "Rejected" THEN "Failed" ELSE r
    <3>1. s \in Terminal
      BY <2>3, ReportsAssumption DEF Terminal
    <3>2. CASE UNCHANGED <<mem, db>>
      BY <3>2
    <3>3. CASE SetState(Head(up[c]).job, s)
      BY <3>1, <3>3 DEF SetState, JobStates
    <3>4. QED
      BY <1>7, <3>2, <3>3 DEF OnResult
  <2>5. RowsTypeOK' /\ MemoryTypeOK' /\ AgentTypeOK' /\ crashes' \in 0..MaxCrashes
    BY <1>7, <2>4 DEF OnResult
  <2>6. QED
    BY <2>1, <2>5
<1>8. QED
  BY <1>1, <1>2, <1>3, <1>4, <1>5, <1>6, <1>7 DEF Handler

(* The agents. *)
LEMMA TypeAgent ==
  ASSUME TypeOK, NEW d \in Devices, Agent(d)
  PROVE  TypeOK'
<1> USE DEF TypeOK, RowsTypeOK, MemoryTypeOK, ConnTypeOK, AgentTypeOK, durable, volatile,
            conn, flags
<1>1. ASSUME NEW c \in Conns, AgentConnect(d, c)
      PROVE  TypeOK'
  BY <1>1 DEF AgentConnect, Phases
<1>2. CASE AgentReceive(d)
  BY <1>2 DEF AgentReceive, Sent, Messages
<1>3. ASSUME NEW j \in Jobs, AgentRun(d, j)
      PROVE  TypeOK'
  BY <1>3 DEF AgentRun
<1>4. ASSUME NEW j \in Jobs, NEW r \in Reports, AgentFinish(d, j, r)
      PROVE  TypeOK'
  <2>1. [kind |-> "result", job |-> j, report |-> r] \in Messages
    BY DEF Messages
  <2>2. up' \in [Conns -> Seq(Messages)]
    BY <1>4, <2>1, SentType DEF AgentFinish
  <2>3. AgentTypeOK'
    BY <1>4 DEF AgentFinish
  <2>4. QED
    BY <1>4, <2>2, <2>3 DEF AgentFinish
<1>5. CASE AgentDrop(d)
  BY <1>5 DEF AgentDrop, Phases
<1>6. QED
  BY <1>1, <1>2, <1>3, <1>4, <1>5 DEF Agent

(* Crashes of the server. *)
LEMMA TypeCrash ==
  ASSUME TypeOK, Crashing
  PROVE  TypeOK'
<1>1. LoseMemory
  BY DEF Crashing, Crash, CrashInSupervise, CrashInRevoke, CrashInDispatch
<1>2. RowsTypeOK'
  <2> USE DEF TypeOK, RowsTypeOK, JobStates, Active, Terminal
  <2>1. CASE Crash
    BY <1>1, <2>1, LoseMemoryType DEF Crash
  <2>2. CASE CrashInSupervise
    BY <1>1, <2>2, LoseMemoryType DEF CrashInSupervise, Settled
  <2>3. ASSUME NEW d \in Devices, CrashInRevoke(d)
        PROVE  RowsTypeOK'
    BY <1>1, <2>3, LoseMemoryType DEF CrashInRevoke
  <2>4. ASSUME NEW d \in Devices, NEW j \in Jobs, NEW k \in Keys,
               CrashInDispatch(d, j, k)
        PROVE  RowsTypeOK'
    BY <1>1, <2>4, LoseMemoryType DEF CrashInDispatch
  <2>5. QED
    BY <2>1, <2>2, <2>3, <2>4 DEF Crashing
<1>3. QED
  BY <1>1, <1>2, LoseMemoryType DEF TypeOK

LEMMA TypeStep == TypeOK /\ [Next]_vars => TypeOK'
<1>1. ASSUME TypeOK, UNCHANGED vars
      PROVE  TypeOK'
  BY <1>1 DEF TypeOK, RowsTypeOK, MemoryTypeOK, ConnTypeOK, AgentTypeOK,
              vars, durable, volatile, agent, conn, flags
<1>2. QED
  BY <1>1, TypeServer, TypeHandler, TypeAgent, TypeCrash DEF Next

(* Every variable keeps its type. *)
THEOREM TypeCorrect == Spec => []TypeOK
BY TypeInit, TypeStep, PTL DEF Spec

-----------------------------------------------------------------------------
(* Jobs in memory and in SQLite.  MemoryMatchesRows is not inductive alone: *)
(* a restart needs the memory of a dead server to be empty, and a dispatch  *)
(* needs a fresh id to be blank in both places.                             *)

MemoryIsGone  == ~alive => \A j \in Jobs : mem[j] = "none"
UnbornIsBlank == \A j \in Jobs : req[j] = NoReq => db[j] = "none" /\ mem[j] = "none"
RowsAgree     == MemoryMatchesRows /\ MemoryIsGone /\ UnbornIsBlank

(* The only ways a row changes; "Completed" comes from a result message. *)
ReportedDone(j) ==
  \E c \in Conns : up[c] # <<>>
     /\ Head(up[c]) = [kind |-> "result", job |-> j, report |-> "Completed"]
Forward(j) ==
  \/ db'[j] = db[j]
  \/ db[j] = "none"       /\ db'[j] \in {"Queued", "Dispatched"}
  \/ db[j] = "Dispatched" /\ db'[j] = "Running"
  \/ /\ db[j] \in Active  /\ db'[j] \in Terminal
     /\ db'[j] = "Completed" => ReportedDone(j)
RowsStep == RowsAgree' /\ \A j \in Jobs : Forward(j)

LEMMA RowsInit == Init => RowsAgree
BY DEF Init, RowsAgree, MemoryMatchesRows, MemoryIsGone, UnbornIsBlank, Active

(* The steps that leave every job alone. *)
LEMMA RowsFrame ==
  ASSUME RowsAgree, UNCHANGED <<alive, mem, db, req>>
  PROVE  RowsStep
BY DEF RowsAgree, MemoryMatchesRows, MemoryIsGone, UnbornIsBlank, RowsStep, Forward

(* The steps that move jobs while the server is up. *)
LEMMA RowsServing ==
  ASSUME TypeOK, RowsAgree,
         \/ \E d \in Devices, j \in Jobs, k \in Keys : Dispatch(d, j, k)
         \/ \E d \in Devices : Revoke(d)
         \/ SuperviseTick
  PROVE  RowsStep
<1> USE DEF TypeOK, RowsTypeOK, MemoryTypeOK, RowsAgree, MemoryMatchesRows, MemoryIsGone,
            UnbornIsBlank, RowsStep, Forward, Active, Terminal
<1>1. ASSUME NEW d \in Devices, NEW j \in Jobs, NEW k \in Keys, Dispatch(d, j, k)
      PROVE  RowsStep
  <2>1. [device |-> d, key |-> k] # NoReq
    BY NoDeviceAssumption DEF NoReq
  <2>2. QED
    BY <1>1, <2>1 DEF Dispatch, MayDispatch
<1>2. ASSUME NEW d \in Devices, Revoke(d)
      PROVE  RowsStep
  BY <1>2 DEF Revoke, Cancelled, ActiveJobs
<1>3. CASE SuperviseTick
  <2>1. PICK late \in SUBSET ActiveJobs, old \in SUBSET FinishedJobs : Supervise(late, old)
    BY <1>3 DEF SuperviseTick
  <2>2. \A j \in Jobs : Settled(j) \in {"TimedOut", "Unreachable"}
    BY DEF Settled
  <2>3. QED
    BY <2>1, <2>2 DEF Supervise, Lost, ActiveJobs, FinishedJobs
<1>4. QED
  BY <1>1, <1>2, <1>3

(* Messages from the agents. *)
LEMMA RowsMessage ==
  ASSUME TypeOK, RowsAgree, NEW c \in Conns, OnAccepted(c) \/ OnResult(c)
  PROVE  RowsStep
<1> DEFINE m == Head(up[c])
<1>1. alive /\ alive' /\ up[c] # <<>> /\ UNCHANGED req
  BY DEF OnAccepted, OnResult, Receives
<1>2. m \in Messages /\ m.job \in Jobs
  BY <1>1, HeadIsMessage
<1>3. CASE UNCHANGED <<mem, db>>
  BY <1>1, <1>3, RowsFrame
<1>4. CASE mem[m.job] = "Dispatched" /\ SetState(m.job, "Running")
  BY <1>1, <1>2, <1>4
     DEF SetState, TypeOK, RowsTypeOK, MemoryTypeOK, RowsAgree, MemoryMatchesRows,
         MemoryIsGone, UnbornIsBlank, RowsStep, Forward
<1>5. CASE OnResult(c) /\ ~UNCHANGED <<mem, db>>
  <2> DEFINE s == IF m.report = "Rejected" THEN "Failed" ELSE m.report
  <2>1. mem[m.job] \in Active /\ SetState(m.job, s) /\ m.kind = "result"
    BY <1>5 DEF OnResult, Completes, Receives
  <2>2. m = [kind |-> "result", job |-> m.job, report |-> m.report] /\ m.report \in Reports
    BY <1>2, <2>1 DEF Messages
  <2>3. s \in Terminal /\ (s = "Completed" => m.report = "Completed")
    BY <2>2, ReportsAssumption DEF Terminal
  <2>4. s = "Completed" => ReportedDone(m.job)
    BY <1>1, <2>2, <2>3 DEF ReportedDone
  <2> HIDE DEF s, m
  <2>5. QED
    BY <1>1, <1>2, <2>1, <2>3, <2>4
       DEF SetState, TypeOK, RowsTypeOK, MemoryTypeOK, RowsAgree, MemoryMatchesRows,
           MemoryIsGone, UnbornIsBlank, RowsStep, Forward, Active, Terminal
<1>6. QED
  BY <1>3, <1>4, <1>5 DEF OnAccepted

(* Crashes, and the restart that fails what was in flight. *)
LEMMA RowsCrash ==
  ASSUME TypeOK, RowsAgree, Crashing \/ Restart
  PROVE  RowsStep
<1> USE DEF TypeOK, RowsTypeOK, MemoryTypeOK, RowsAgree, MemoryMatchesRows, MemoryIsGone,
            UnbornIsBlank, RowsStep, Forward, Active, Terminal
<1>1. CASE Crash
  BY <1>1 DEF Crash, LoseMemory
<1>2. CASE CrashInSupervise
  <2>1. PICK done \in SUBSET ActiveJobs :
          db' = [j \in Jobs |-> IF j \in done THEN Settled(j) ELSE db[j]]
    BY <1>2 DEF CrashInSupervise
  <2>2. \A j \in Jobs : Settled(j) \in {"TimedOut", "Unreachable"}
    BY DEF Settled
  <2>3. QED
    BY <1>2, <2>1, <2>2 DEF CrashInSupervise, LoseMemory, ActiveJobs
<1>3. ASSUME NEW d \in Devices, CrashInRevoke(d)
      PROVE  RowsStep
  BY <1>3 DEF CrashInRevoke, LoseMemory, Cancelled, ActiveJobs
<1>4. ASSUME NEW d \in Devices, NEW j \in Jobs, NEW k \in Keys,
             CrashInDispatch(d, j, k)
      PROVE  RowsStep
  <2>1. [device |-> d, key |-> k] # NoReq
    BY NoDeviceAssumption DEF NoReq
  <2>2. QED
    BY <1>4, <2>1 DEF CrashInDispatch, MayDispatch, LoseMemory
<1>5. CASE Restart
  BY <1>5 DEF Restart, volatile, Orphaned
<1>6. QED
  BY <1>1, <1>2, <1>3, <1>4, <1>5 DEF Crashing

LEMMA RowsNext == TypeOK /\ RowsAgree /\ [Next]_vars => RowsStep
<1> SUFFICES ASSUME TypeOK, RowsAgree, [Next]_vars PROVE RowsStep
  OBVIOUS
<1>1. CASE UNCHANGED <<alive, mem, db, req>>
  BY <1>1, RowsFrame
<1>2. ASSUME NEW d \in Devices, Operator(d) PROVE RowsStep
  BY <1>2, RowsServing, RowsFrame DEF Operator, Unrevoke
<1>3. ASSUME NEW d \in Devices, Agent(d) PROVE UNCHANGED <<alive, mem, db, req>>
  BY <1>3 DEF Agent, AgentReceive, AgentDrop, AgentConnect, AgentRun, AgentFinish,
             durable, volatile
<1>4. ASSUME NEW c \in Conns, Handler(c) PROVE RowsStep
  <2>1. CASE OnAccepted(c) \/ OnResult(c)
    BY <2>1, RowsMessage
  <2>2. CASE ~(OnAccepted(c) \/ OnResult(c))
    BY <1>4, <2>2, RowsFrame
       DEF Handler, ServerHello, HelloRefused, AckSent, AckFails, Cleanup, Silence, SendLoop,
           Heartbeat, durable
  <2>3. QED
    BY <2>1, <2>2
<1>5. CASE UNCHANGED vars
  BY <1>1, <1>5 DEF vars, durable, volatile
<1>6. QED
  BY <1>1, <1>2, <1>3, <1>4, <1>5, RowsServing, RowsCrash DEF Next

(* A live server's memory and its rows agree, and nothing in flight is     *)
(* missing from memory.                                                    *)
THEOREM MemoryAgrees == Spec => []MemoryMatchesRows
<1>1. RowsAgree /\ TypeOK /\ [Next]_vars => RowsAgree'
  BY RowsNext DEF RowsStep
<1>2. RowsAgree => MemoryMatchesRows
  BY DEF RowsAgree
<1>3. QED
  BY RowsInit, TypeCorrect, <1>1, <1>2, PTL DEF Spec

(* view() answers what the row says, whether memory knows the job or not.  *)
LEMMA ViewIsRow ==
  ASSUME TypeOK, RowsAgree, NEW j \in Jobs
  PROVE  View(j) = db[j]
BY DEF View, TypeOK, MemoryTypeOK, RowsAgree, MemoryMatchesRows, MemoryIsGone

(* What a client is answered about a finished job never changes: the rows  *)
(* only move forward.                                                      *)
THEOREM AnswersAreFinal == Spec => AnswerIsFinal
<1>1. RowsAgree /\ TypeOK /\ [Next]_vars => RowsAgree'
  BY RowsNext DEF RowsStep
<1>2. ASSUME TypeOK, RowsAgree, [Next]_vars
      PROVE  [\A j \in Jobs : View(j) \in Terminal => View(j)' = View(j)]_vars
  <2> SUFFICES ASSUME NEW j \in Jobs, View(j) \in Terminal
               PROVE  View(j)' = View(j)
    OBVIOUS
  <2>1. View(j) = db[j]
    BY <1>2, ViewIsRow
  <2>2. TypeOK' /\ RowsAgree' /\ Forward(j)
    BY <1>2, TypeStep, RowsNext DEF RowsStep
  <2>3. View(j)' = db'[j]
    BY <2>2 DEF View, TypeOK, MemoryTypeOK, RowsAgree, MemoryMatchesRows, MemoryIsGone
  <2>4. QED
    BY <2>1, <2>2, <2>3 DEF Forward, Active, Terminal
<1>3. QED
  BY RowsInit, TypeCorrect, <1>1, <1>2, PTL DEF Spec, AnswerIsFinal

-----------------------------------------------------------------------------
(* Idempotency keys                                                        *)

(* A key never names two jobs: every request that creates a row looked for *)
(* its key among all rows first, those of a crashed dispatch included.     *)
THEOREM KeysNameOneJob == Spec => []KeyNamesOneJob
<1>1. Init => KeyNamesOneJob
  BY DEF Init, KeyNamesOneJob, NoReq
<1>2. ASSUME TypeOK, KeyNamesOneJob, [Next]_vars
      PROVE  KeyNamesOneJob'
  <2>1. CASE UNCHANGED req
    BY <1>2, <2>1 DEF KeyNamesOneJob
  <2>2. ASSUME NEW d \in Devices, NEW j \in Jobs, NEW k \in Keys,
               Dispatch(d, j, k) \/ CrashInDispatch(d, j, k)
        PROVE  KeyNamesOneJob'
    <3>1. req' = [req EXCEPT ![j] = [device |-> d, key |-> k]] /\ KeyUnused(k)
      BY <2>2 DEF Dispatch, CrashInDispatch, MayDispatch
    <3>2. \A i \in Jobs : req'[i].key = IF i = j THEN k ELSE req[i].key
      BY <1>2, <3>1 DEF TypeOK, RowsTypeOK
    <3>3. QED
      BY <1>2, <3>1, <3>2 DEF KeyNamesOneJob, KeyUnused
  <2>3. ASSUME NEW d \in Devices, Operator(d)
        PROVE  KeyNamesOneJob'
    BY <2>1, <2>2, <2>3 DEF Operator, Revoke, Unrevoke
  <2>4. ASSUME NEW d \in Devices, Agent(d)
        PROVE  UNCHANGED req
    BY <2>4 DEF Agent, AgentReceive, AgentDrop, AgentConnect, AgentRun, AgentFinish, durable
  <2>5. ASSUME NEW c \in Conns, Handler(c)
        PROVE  UNCHANGED req
    BY <2>5 DEF Handler, ServerHello, HelloRefused, AckSent, AckFails, Cleanup, Silence,
               SendLoop, Heartbeat, OnAccepted, OnResult, durable
  <2>6. CASE Crashing
    BY <2>1, <2>2, <2>6 DEF Crashing, Crash, CrashInSupervise, CrashInRevoke
  <2>7. QED
    BY <1>2, <2>1, <2>3, <2>4, <2>5, <2>6
       DEF Next, SuperviseTick, Supervise, Restart, vars, durable
<1>3. QED
  BY <1>1, <1>2, TypeCorrect, PTL DEF Spec

-----------------------------------------------------------------------------
(* Revocation.  RevokedIsQuiet speaks of the registered connection, so it   *)
(* needs to know that registrations are of the device's own connections     *)
(* and that no connection changes hands or comes back from "done".          *)

RegisteredIsOwn ==
  \A d \in Devices : registry[d] # NoConn =>
    owner[registry[d]] = d /\ phase[registry[d]] \in {"acking", "serving", "leaked"}
BarredWhileRevoked ==
  \A d \in Devices : alive /\ revoked[d] /\ registry[d] # NoConn => barred[registry[d]]
IdleWhileRevoked ==
  \A d \in Devices : alive /\ revoked[d] =>
    \A j \in Jobs : req[j].device = d => mem[j] \notin Active
RegistryIsGone == ~alive => \A d \in Devices : registry[d] = NoConn
RevokeInv == RegisteredIsOwn /\ BarredWhileRevoked /\ IdleWhileRevoked /\ RegistryIsGone

LEMMA RevokeInit == Init => RevokeInv
BY DEF Init, RevokeInv, RegisteredIsOwn, BarredWhileRevoked, IdleWhileRevoked, RegistryIsGone, Active

(* The steps that touch neither registrations, flags nor jobs' activity. *)
LEMMA RevokeFrame ==
  ASSUME RevokeInv, UNCHANGED <<alive, revoked, req, mem, registry, owner, phase, barred>>
  PROVE  RevokeInv'
BY DEF RevokeInv, RegisteredIsOwn, BarredWhileRevoked, IdleWhileRevoked, RegistryIsGone

LEMMA RevokeServer ==
  ASSUME TypeOK, RevokeInv, \/ \E d \in Devices : Operator(d)
                            \/ SuperviseTick
  PROVE  RevokeInv'
<1> USE DEF TypeOK, RowsTypeOK, MemoryTypeOK, ConnTypeOK,
            RevokeInv, RegisteredIsOwn, BarredWhileRevoked, IdleWhileRevoked, RegistryIsGone, Active, Terminal
<1>1. ASSUME NEW d \in Devices, NEW j \in Jobs, NEW k \in Keys, Dispatch(d, j, k)
      PROVE  RevokeInv'
  BY <1>1 DEF Dispatch, MayDispatch, conn, flags
<1>2. ASSUME NEW d \in Devices, Revoke(d)
      PROVE  RevokeInv'
  <2>1. RegisteredIsOwn' /\ RegistryIsGone'
    BY <1>2 DEF Revoke
  <2>2. IdleWhileRevoked'
    BY <1>2 DEF Revoke, Cancelled, ActiveJobs
  <2>3. ASSUME NEW e \in Devices, revoked'[e], registry[e] # NoConn
        PROVE  barred'[registry[e]]
    <3>1. registry[e] \in Conns /\ (e = d \/ barred[registry[e]])
      BY <1>2, <2>3 DEF Revoke
    <3>2. barred' = [x \in Conns |-> x = registry[d] \/ barred[x]]
      BY <1>2 DEF Revoke
    <3>3. barred'[registry[e]] = (registry[e] = registry[d] \/ barred[registry[e]])
      BY <3>1, <3>2, Zenon
    <3>4. QED
      BY <3>1, <3>3
  <2>4. BarredWhileRevoked'
    BY <1>2, <2>3 DEF Revoke
  <2>5. QED
    BY <2>1, <2>2, <2>4
<1>3. ASSUME NEW d \in Devices, Unrevoke(d)
      PROVE  RevokeInv'
  BY <1>3 DEF Unrevoke
<1>4. CASE SuperviseTick
  <2>1. \A j \in Jobs : Settled(j) \in Terminal
    BY DEF Settled
  <2>2. \A j \in Jobs : mem'[j] \in Active => mem[j] \in Active
    <3>1. PICK late \in SUBSET ActiveJobs, old \in SUBSET FinishedJobs : Supervise(late, old)
      BY <1>4 DEF SuperviseTick
    <3>2. \A j \in Jobs : mem'[j] \in Terminal \cup {"none", mem[j]}
      BY <2>1, <3>1 DEF Supervise
    <3>3. QED
      BY <3>2
  <2>3. UNCHANGED <<alive, revoked, req, registry, owner, phase, barred>>
    BY <1>4 DEF SuperviseTick, Supervise, conn, flags
  <2>4. QED
    BY <2>2, <2>3
<1>5. QED
  BY <1>1, <1>2, <1>3, <1>4 DEF Operator

LEMMA RevokeHandler ==
  ASSUME TypeOK, RevokeInv, NEW c \in Conns, Handler(c)
  PROVE  RevokeInv'
<1> USE DEF TypeOK, RowsTypeOK, MemoryTypeOK, ConnTypeOK,
            RevokeInv, RegisteredIsOwn, BarredWhileRevoked, IdleWhileRevoked, RegistryIsGone
<1>1. CASE ServerHello(c)
  <2>1. UNCHANGED <<alive, revoked, req, mem, owner, barred>> /\ alive /\ phase[c] = "hello"
    BY <1>1 DEF ServerHello
  <2>2. \A e \in Devices : registry'[e] = IF e = owner[c] THEN c ELSE registry[e]
    BY <1>1 DEF ServerHello
  <2>3. \A x \in Conns : phase'[x] = IF x = c THEN "acking" ELSE phase[x]
    BY <1>1 DEF ServerHello
  <2>4. ASSUME NEW e \in Devices, registry'[e] # NoConn
        PROVE  owner[registry'[e]] = e /\ phase'[registry'[e]] \in {"acking", "serving", "leaked"}
    <3>1. CASE e = owner[c]
      BY <2>2, <2>3, <3>1
    <3>2. CASE e # owner[c]
      <4>1. registry'[e] = registry[e] /\ registry[e] \in Conns
        BY <2>2, <2>4, <3>2
      <4>2. owner[registry[e]] = e /\ phase[registry[e]] \in {"acking", "serving", "leaked"}
        BY <2>4, <4>1
      <4>3. QED
        BY <2>1, <2>3, <3>2, <4>1, <4>2
    <3>3. QED
      BY <3>1, <3>2
  <2>6. RegisteredIsOwn' /\ RegistryIsGone'
    BY <2>1, <2>4
  <2>5. BarredWhileRevoked'
    BY <1>1, <2>1, <2>2 DEF ServerHello
  <2>7. QED
    BY <2>1, <2>5, <2>6
<1>2. CASE HelloRefused(c) \/ AckSent(c) \/ AckFails(c)
  <2>1. UNCHANGED <<alive, revoked, req, mem, registry, owner, barred>> /\ alive
    BY <1>2 DEF HelloRefused, AckSent, AckFails, durable, flags
  <2>2. \A x \in Conns : phase'[x] # phase[x] =>
          phase[x] = "hello" \/ phase'[x] \in {"serving", "leaked"}
    BY <1>2 DEF HelloRefused, AckSent, AckFails
  <2>3. ASSUME NEW e \in Devices, registry[e] # NoConn
        PROVE  phase'[registry[e]] \in {"acking", "serving", "leaked"}
    <3>1. registry[e] \in Conns /\ phase[registry[e]] \in {"acking", "serving", "leaked"}
      BY <2>3
    <3>2. QED
      BY <2>2, <3>1
  <2>4. QED
    BY <2>1, <2>3
<1>3. CASE Cleanup(c)
  <2>1. UNCHANGED <<alive, revoked, req, mem, owner>> /\ alive
    BY <1>3 DEF Cleanup, Ends
  <2>2. \A e \in Devices : registry'[e] = IF e = owner[c] /\ registry[e] = c
                                         THEN NoConn ELSE registry[e]
    BY <1>3 DEF Cleanup
  <2>3. \A e \in Devices : registry'[e] # NoConn => registry'[e] = registry[e] /\ registry[e] # c
    BY <2>2
  <2>4. \A x \in Conns : x # c => phase'[x] = phase[x] /\ barred'[x] = barred[x]
    BY <1>3 DEF Cleanup, Ends
  <2>5. QED
    BY <2>1, <2>3, <2>4
<1>4. CASE Silence(c) \/ Heartbeat(c) \/ SendLoop(c)
  BY <1>4, RevokeFrame DEF Silence, Heartbeat, SendLoop, Touch, durable, conn, flags
<1>5. CASE OnAccepted(c) \/ OnResult(c)
  <2>1. \A j \in Jobs : mem'[j] \in Active => mem[j] \in Active
    <3>1. CASE OnAccepted(c)
      BY <3>1 DEF OnAccepted, SetState, Active
    <3>2. CASE OnResult(c)
      BY <3>2 DEF OnResult, Completes, SetState
    <3>3. QED
      BY <1>5, <3>1, <3>2
  <2>2. UNCHANGED <<alive, revoked, req, registry, owner, phase, barred>>
    BY <1>5 DEF OnAccepted, OnResult, Receives, Touch
  <2>3. QED
    BY <2>1, <2>2
<1>6. QED
  BY <1>1, <1>2, <1>3, <1>4, <1>5 DEF Handler

LEMMA RevokeAgent ==
  ASSUME TypeOK, RevokeInv, NEW d \in Devices, Agent(d)
  PROVE  RevokeInv'
<1>1. ASSUME NEW c \in Conns, AgentConnect(d, c)
      PROVE  RevokeInv'
  BY <1>1 DEF AgentConnect, durable, flags, TypeOK, ConnTypeOK, MemoryTypeOK,
              RevokeInv, RegisteredIsOwn, BarredWhileRevoked, IdleWhileRevoked, RegistryIsGone
<1>2. CASE AgentDrop(d)
  BY <1>2 DEF AgentDrop, durable, flags, TypeOK, ConnTypeOK, MemoryTypeOK,
              RevokeInv, RegisteredIsOwn, BarredWhileRevoked, IdleWhileRevoked, RegistryIsGone
<1>3. QED
  BY <1>1, <1>2, RevokeFrame
     DEF Agent, AgentReceive, AgentRun, AgentFinish, durable, volatile, conn, flags

LEMMA RevokeStep == TypeOK /\ MemoryIsGone /\ RevokeInv /\ [Next]_vars => RevokeInv'
<1> SUFFICES ASSUME TypeOK, MemoryIsGone, RevokeInv, [Next]_vars
             PROVE  RevokeInv'
  OBVIOUS
<1>1. CASE Crashing
  <2>1. LoseMemory
    BY <1>1 DEF Crashing, Crash, CrashInSupervise, CrashInRevoke, CrashInDispatch
  <2>2. QED
    BY <2>1 DEF LoseMemory, RevokeInv, RegisteredIsOwn, BarredWhileRevoked, IdleWhileRevoked, RegistryIsGone
<1>2. CASE Restart
  <2>1. \A j \in Jobs : mem'[j] \notin Active
    BY <1>2 DEF Restart, volatile, MemoryIsGone, Active
  <2>2. QED
    BY <1>2, <2>1 DEF Restart, volatile, conn, flags, RevokeInv, RegisteredIsOwn,
                      BarredWhileRevoked, IdleWhileRevoked, RegistryIsGone
<1>3. CASE UNCHANGED vars
  BY <1>3, RevokeFrame DEF vars, durable, volatile, conn, flags
<1>4. QED
  BY <1>1, <1>2, <1>3, RevokeServer, RevokeHandler, RevokeAgent DEF Next

(* From the revocation on, a device has no active job and no connection    *)
(* that counts as reachable.                                               *)
THEOREM RevokedStaysQuiet == Spec => []RevokedIsQuiet
<1>1. RowsAgree /\ TypeOK /\ [Next]_vars => RowsAgree'
  BY RowsNext DEF RowsStep
<1>2. RowsAgree /\ RevokeInv /\ TypeOK /\ [Next]_vars => RevokeInv'
  BY RevokeStep DEF RowsAgree
<1>3. RevokeInv => RevokedIsQuiet
  BY DEF RevokeInv, RevokedIsQuiet, BarredWhileRevoked, IdleWhileRevoked, Reachable
<1>4. QED
  BY RowsInit, RevokeInit, TypeCorrect, <1>1, <1>2, <1>3, PTL DEF Spec

-----------------------------------------------------------------------------
(* Deliveries.  A job is at one place at most: queued on a connection, on  *)
(* the wire, or with a task of its own device.  What is queued or on the   *)
(* wire was not started yet, and what was reported was.                    *)

Positions(s) == 1..Len(s)

Unstarted(j) == runs[j] = <<>> /\ \A d \in Devices : task[d][j] = "idle"

(* Connections are used once, by the device that opened them. *)
ConnsFit ==
  /\ \A d \in Devices :
       session[d] # NoConn => owner[session[d]] = d /\ phase[session[d]] # "free"
  /\ \A c \in Conns :
       IF phase[c] = "free" THEN out[c] = <<>> /\ down[c] = <<>> /\ up[c] = <<>>
       ELSE owner[c] \in Devices

QueuesFit == \A c \in Conns :
  /\ \A i \in Positions(out[c]) :
       req[out[c][i]].device = owner[c] /\ Unstarted(out[c][i])
  /\ \A i \in Positions(down[c]) :
       req[down[c][i]].device = owner[c] /\ Unstarted(down[c][i])

OncePlaced == \A c, e \in Conns :
  /\ \A i \in Positions(out[c]), k \in Positions(out[e]) :
       out[c][i] = out[e][k] => c = e /\ i = k
  /\ \A i \in Positions(down[c]), k \in Positions(down[e]) :
       down[c][i] = down[e][k] => c = e /\ i = k
  /\ \A i \in Positions(out[c]), k \in Positions(down[e]) : out[c][i] # down[e][k]

TasksFit == \A d \in Devices, j \in Jobs :
  /\ task[d][j] # "idle" => req[j].device = d
  /\ task[d][j] = "accepted" => runs[j] = <<>>
  /\ task[d][j] = "running" => runs[j] = <<d>>

ResultsFit == \A c \in Conns : \A i \in Positions(up[c]) :
  up[c][i].kind = "result" =>
    runs[up[c][i].job] = <<owner[c]>> /\ req[up[c][i].job].device = owner[c]

RunsFit == \A j \in Jobs :
  /\ runs[j] # <<>> => req[j] # NoReq /\ runs[j] = <<req[j].device>>
  /\ req[j] # NoReq => db[j] # "none"

DeliveryInv == ConnsFit /\ QueuesFit /\ OncePlaced /\ TasksFit /\ ResultsFit /\ RunsFit

(* A queue of messages that was emptied, or lost its head. *)
Shrinks(s, t) == t \in {s, <<>>} \/ (s # <<>> /\ t = Tail(s))

(* What is left of a queue, element by element. *)
LEMMA TailElements ==
  ASSUME NEW S, NEW s \in Seq(S), s # <<>>
  PROVE  /\ Tail(s) \in Seq(S)
         /\ Len(s) \in Nat /\ Len(s) > 0
         /\ Len(Tail(s)) = Len(s) - 1
         /\ \A i \in Positions(Tail(s)) : i + 1 \in Positions(s) /\ Tail(s)[i] = s[i + 1]
         /\ Head(s) = s[1] /\ 1 \in Positions(s) /\ Head(s) \in S
  BY DEF Positions

LEMMA ShorterElements ==
  ASSUME NEW S, NEW s \in Seq(S),
         NEW t, Shrinks(s, t),
         NEW i \in Positions(t)
  PROVE  \E k \in Positions(s) : t[i] = s[k]
<1>1. CASE t \in {s, <<>>}
  BY <1>1 DEF Positions
<1>2. CASE s # <<>> /\ t = Tail(s)
  <2>1. i + 1 \in Positions(s) /\ Tail(s)[i] = s[i + 1]
    BY <1>2, TailElements
  <2> QED
    BY <1>2, <2>1
<1> QED
  BY <1>1, <1>2 DEF Shrinks

(* A longer queue, element by element. *)
LEMMA LongerElements ==
  ASSUME NEW S, NEW s \in Seq(S), NEW e \in S, NEW i \in Positions(Append(s, e))
  PROVE  \/ i \in Positions(s) /\ Append(s, e)[i] = s[i]
         \/ i = Len(s) + 1 /\ Append(s, e)[i] = e
<1>1. Len(Append(s, e)) = Len(s) + 1 /\ Len(s) \in Nat
  OBVIOUS
<1> QED
  BY <1>1 DEF Positions

LEMMA DeliveryInit == Init => DeliveryInv
  BY DEF Init, DeliveryInv, ConnsFit, QueuesFit, OncePlaced, TasksFit, ResultsFit, RunsFit,
     Positions, NoReq

(* The steps that at most empty queues, take messages off the wire, end    *)
(* sessions and tasks, and move connections and rows on.                   *)
OnlyShrinks ==
  /\ UNCHANGED <<req, runs, owner>>
  /\ \A c \in Conns : /\ out'[c]  \in {out[c], <<>>}
                      /\ down'[c] \in {down[c], <<>>}
                      /\ Shrinks(up[c], up'[c])
                      /\ phase'[c] = "free" <=> phase[c] = "free"
  /\ \A d \in Devices : session'[d] \in {session[d], NoConn}
  /\ \A d \in Devices, j \in Jobs : task'[d][j] \in {task[d][j], "idle"}
  /\ \A j \in Jobs : db'[j] = "none" => db[j] = "none"

LEMMA ResultsShrink ==
  ASSUME TypeOK, ResultsFit, UNCHANGED <<req, runs, owner>>,
         \A c \in Conns : Shrinks(up[c], up'[c])
  PROVE  ResultsFit'
<1> SUFFICES ASSUME NEW c \in Conns, NEW i \in Positions(up'[c]), up'[c][i].kind = "result"
             PROVE  /\ runs'[up'[c][i].job] = <<owner'[c]>>
                    /\ req'[up'[c][i].job].device = owner'[c]
  BY DEF ResultsFit
<1>1. up[c] \in Seq(Messages)
  BY DEF TypeOK
<1>2. PICK k \in Positions(up[c]) : up'[c][i] = up[c][k]
  BY <1>1, ShorterElements
<1> QED
  BY <1>2 DEF ResultsFit

LEMMA DeliveryFrame ==
  ASSUME TypeOK, DeliveryInv, OnlyShrinks
  PROVE  DeliveryInv'
<1> USE DEF DeliveryInv, OnlyShrinks
<1>1. ConnsFit'
  <2>1. ASSUME NEW d \in Devices, session'[d] # NoConn
        PROVE  owner'[session'[d]] = d /\ phase'[session'[d]] # "free"
    <3>1. session'[d] = session[d] /\ session[d] \in Conns
      BY <2>1 DEF TypeOK, AgentTypeOK
    <3>2. owner[session[d]] = d /\ phase[session[d]] # "free"
      BY <2>1, <3>1 DEF ConnsFit
    <3> QED
      BY <3>1, <3>2
  <2>2. ASSUME NEW c \in Conns
        PROVE  IF phase'[c] = "free" THEN out'[c] = <<>> /\ down'[c] = <<>> /\ up'[c] = <<>>
               ELSE owner'[c] \in Devices
    BY DEF ConnsFit, Shrinks
  <2> QED
    BY <2>1, <2>2 DEF ConnsFit
<1>2. \A c \in Conns : /\ \A i \in Positions(out'[c])  : i \in Positions(out[c])  /\ out'[c][i] = out[c][i]
                       /\ \A i \in Positions(down'[c]) : i \in Positions(down[c]) /\ down'[c][i] = down[c][i]
  BY DEF Positions
<1>3. \A c \in Conns : \A i \in Positions(out[c]) : out[c][i] \in Jobs
  BY DEF TypeOK, MemoryTypeOK, Positions
<1>4. \A c \in Conns : \A i \in Positions(down[c]) : down[c][i] \in Jobs
  BY DEF TypeOK, AgentTypeOK, Positions
<1>5. \A j \in Jobs : Unstarted(j) => Unstarted(j)'
  BY DEF Unstarted
<1>6. QueuesFit'
  BY <1>2, <1>3, <1>4, <1>5 DEF QueuesFit
<1>7. OncePlaced'
  BY <1>2 DEF OncePlaced
<1>8. TasksFit' /\ RunsFit'
  BY DEF TasksFit, RunsFit
<1>9. ResultsFit'
  BY ResultsShrink DEF TypeOK
<1> QED
  BY <1>1, <1>6, <1>7, <1>8, <1>9

(* An id that no request has is nowhere. *)
LEMMA FreshIsNowhere ==
  ASSUME TypeOK, DeliveryInv, NEW j \in Jobs, req[j] = NoReq
  PROVE  /\ Unstarted(j)
         /\ \A c \in Conns : /\ \A i \in Positions(out[c])  : out[c][i] # j
                             /\ \A i \in Positions(down[c]) : down[c][i] # j
<1> USE NoDeviceAssumption DEF DeliveryInv, NoReq
<1>1. Unstarted(j)
  BY DEF Unstarted, TasksFit, RunsFit, TypeOK, AgentTypeOK
<1>2. ASSUME NEW c \in Conns, phase[c] # "free"
      PROVE  owner[c] # NoDevice
  BY <1>2 DEF ConnsFit
<1>3. \A c \in Conns : phase[c] = "free" => Positions(out[c]) = {} /\ Positions(down[c]) = {}
  BY DEF ConnsFit, Positions
<1> QED
  BY <1>1, <1>2, <1>3 DEF QueuesFit

(* A dispatch, and the server dying over one. *)
LEMMA DeliveryDispatch ==
  ASSUME TypeOK, DeliveryInv, RevokeInv,
         NEW d \in Devices, NEW j \in Jobs, NEW k \in Keys,
         Dispatch(d, j, k) \/ CrashInDispatch(d, j, k)
  PROVE  DeliveryInv'
<1> DEFINE r == registry[d]
<1>1. /\ req[j] = NoReq /\ r \in Conns /\ owner[r] = d /\ phase[r] # "free"
      /\ req' = [req EXCEPT ![j] = [device |-> d, key |-> k]]
      /\ UNCHANGED <<down, session, task, runs, owner>>
  <2>1. MayDispatch(d, j, k)
    BY DEF Dispatch, CrashInDispatch
  <2>2. req[j] = NoReq /\ r # NoConn
    BY <2>1 DEF MayDispatch, Reachable
  <2>3. r \in Conns /\ owner[r] = d /\ phase[r] # "free"
    BY <2>2 DEF RevokeInv, RegisteredIsOwn, TypeOK, MemoryTypeOK
  <2>4. /\ req' = [req EXCEPT ![j] = [device |-> d, key |-> k]]
        /\ UNCHANGED <<down, session, task, runs, owner>>
    BY DEF Dispatch, CrashInDispatch, LoseMemory, Ends, agent, conn
  <2> QED
    BY <2>2, <2>3, <2>4
<1>2. /\ req'[j] = [device |-> d, key |-> k]
      /\ \A i \in Jobs : i # j => req'[i] = req[i]
  BY <1>1 DEF TypeOK, RowsTypeOK
<1>3. [device |-> d, key |-> k] # NoReq
  BY NoDeviceAssumption DEF NoReq
<1>4. \A c \in Conns : /\ up'[c] \in {up[c], <<>>}
                       /\ phase'[c] = "free" <=> phase[c] = "free"
  BY DEF Dispatch, CrashInDispatch, LoseMemory, Ends, conn
<1>5. \A c \in Conns : \/ out'[c] \in {out[c], <<>>}
                       \/ c = r /\ out'[c] = Append(out[c], j)
  BY <1>1 DEF Dispatch, CrashInDispatch, LoseMemory, TypeOK, MemoryTypeOK
<1>6. ConnsFit'
  BY <1>1, <1>4, <1>5 DEF DeliveryInv, ConnsFit, TypeOK, AgentTypeOK
<1>7. /\ Unstarted(j)
      /\ \A c \in Conns : /\ \A i \in Positions(out[c])  : out[c][i] # j
                          /\ \A i \in Positions(down[c]) : down[c][i] # j
  BY <1>1, FreshIsNowhere
<1>8. \A c \in Conns : \A i \in Positions(out'[c]) :
        \/ i \in Positions(out[c]) /\ out'[c][i] = out[c][i]
        \/ c = r /\ i = Len(out[c]) + 1 /\ out'[c][i] = j
  <2> SUFFICES ASSUME NEW c \in Conns, NEW i \in Positions(out'[c])
               PROVE  \/ i \in Positions(out[c]) /\ out'[c][i] = out[c][i]
                      \/ c = r /\ i = Len(out[c]) + 1 /\ out'[c][i] = j
    OBVIOUS
  <2>1. CASE out'[c] \in {out[c], <<>>}
    BY <2>1 DEF Positions
  <2>2. CASE c = r /\ out'[c] = Append(out[c], j)
    <3>1. out[c] \in Seq(Jobs)
      BY DEF TypeOK, MemoryTypeOK
    <3>2. i \in Positions(Append(out[c], j))
      BY <2>2
    <3>3. \/ i \in Positions(out[c]) /\ Append(out[c], j)[i] = out[c][i]
          \/ i = Len(out[c]) + 1 /\ Append(out[c], j)[i] = j
      BY <3>1, <3>2, LongerElements
    <3> QED
      BY <2>2, <3>3
  <2> QED
    BY <1>5, <2>1, <2>2
<1>9. \A i \in Jobs : Unstarted(i)' <=> Unstarted(i)
  BY <1>1 DEF Unstarted
<1>10. \A c \in Conns : /\ \A i \in Positions(out[c])  : out[c][i] \in Jobs
                        /\ \A i \in Positions(down[c]) : down[c][i] \in Jobs
  BY DEF TypeOK, MemoryTypeOK, AgentTypeOK, Positions
<1>11. QueuesFit'
  BY <1>1, <1>2, <1>7, <1>8, <1>9, <1>10 DEF DeliveryInv, QueuesFit
<1>12. OncePlaced'
  BY <1>1, <1>7, <1>8 DEF DeliveryInv, OncePlaced
<1>13. TasksFit'
  BY <1>1, <1>2, <1>7 DEF DeliveryInv, TasksFit, Unstarted
<1>14. ResultsFit'
  <2> SUFFICES ASSUME NEW c \in Conns, NEW i \in Positions(up'[c]), up'[c][i].kind = "result"
               PROVE  /\ runs[up'[c][i].job] = <<owner[c]>>
                      /\ req'[up'[c][i].job].device = owner[c]
    BY <1>1 DEF ResultsFit
  <2>1. i \in Positions(up[c]) /\ up'[c][i] = up[c][i]
    BY <1>4 DEF Positions
  <2>2. runs[up[c][i].job] = <<owner[c]>> /\ req[up[c][i].job].device = owner[c]
    BY <2>1 DEF DeliveryInv, ResultsFit
  <2>3. up[c][i].job \in Jobs
    BY <2>1 DEF TypeOK, Positions, Messages
  <2>4. up[c][i].job # j
    <3>1. runs[j] = <<>> /\ <<owner[c]>> # <<>>
      BY <1>7 DEF Unstarted
    <3> QED
      BY <2>2, <3>1
  <2> QED
    BY <1>2, <2>1, <2>2, <2>3, <2>4
<1>15. RunsFit'
  <2>1. db'[j] # "none" /\ \A i \in Jobs : i # j => db'[i] = db[i]
    BY DEF Dispatch, CrashInDispatch, TypeOK, RowsTypeOK
  <2> QED
    BY <1>1, <1>2, <1>3, <1>7, <2>1 DEF DeliveryInv, RunsFit, Unstarted
<1> QED
  BY <1>6, <1>11, <1>12, <1>13, <1>14, <1>15 DEF DeliveryInv

(* A new connection: nothing was on it. *)
LEMMA DeliveryConnect ==
  ASSUME TypeOK, DeliveryInv, NEW d \in Devices, NEW c \in Conns, AgentConnect(d, c)
  PROVE  DeliveryInv'
<1>1. /\ session[d] = NoConn /\ phase[c] = "free"
      /\ phase' = [phase EXCEPT ![c] = "hello"]
      /\ owner' = [owner EXCEPT ![c] = d]
      /\ session' = [session EXCEPT ![d] = c]
      /\ UNCHANGED <<out, down, up, task, runs, req, db>>
  BY DEF AgentConnect, durable
<1>2. /\ \A x \in Conns \ {c} : owner'[x] = owner[x] /\ phase'[x] = phase[x]
      /\ owner'[c] = d /\ phase'[c] = "hello"
      /\ \A e \in Devices \ {d} : session'[e] = session[e]
      /\ session'[d] = c
  BY <1>1 DEF TypeOK, ConnTypeOK, AgentTypeOK
<1>3. out[c] = <<>> /\ down[c] = <<>> /\ up[c] = <<>>
  BY <1>1 DEF DeliveryInv, ConnsFit
<1>4. Positions(out[c]) = {} /\ Positions(down[c]) = {} /\ Positions(up[c]) = {}
  BY <1>3 DEF Positions
<1>5. ConnsFit'
  <2>1. ASSUME NEW e \in Devices, session'[e] # NoConn
        PROVE  owner'[session'[e]] = e /\ phase'[session'[e]] # "free"
    <3>1. CASE e = d
      BY <1>2, <3>1
    <3>2. CASE e # d
      <4>1. session[e] \in Conns /\ session[e] # c
        BY <1>1, <1>2, <2>1, <3>2 DEF DeliveryInv, ConnsFit, TypeOK, AgentTypeOK
      <4> QED
        BY <1>2, <2>1, <3>2, <4>1 DEF DeliveryInv, ConnsFit
    <3> QED
      BY <3>1, <3>2
  <2>2. ASSUME NEW x \in Conns
        PROVE  IF phase'[x] = "free" THEN out'[x] = <<>> /\ down'[x] = <<>> /\ up'[x] = <<>>
               ELSE owner'[x] \in Devices
    BY <1>1, <1>2 DEF DeliveryInv, ConnsFit
  <2> QED
    BY <2>1, <2>2 DEF ConnsFit
<1>6. \A j : Unstarted(j)' <=> Unstarted(j)
  BY <1>1 DEF Unstarted
<1>7. QueuesFit'
  BY <1>1, <1>2, <1>4, <1>6 DEF DeliveryInv, QueuesFit
<1>8. OncePlaced' /\ TasksFit' /\ RunsFit'
  BY <1>1 DEF DeliveryInv, OncePlaced, TasksFit, RunsFit
<1>9. ResultsFit'
  BY <1>1, <1>2, <1>4 DEF DeliveryInv, ResultsFit
<1> QED
  BY <1>5, <1>7, <1>8, <1>9 DEF DeliveryInv

(* Where the jobs of a queue are after its head was taken off it. *)
LEMMA HeadIsGone ==
  ASSUME NEW S, NEW s \in Seq(S), s # <<>>,
         \A i, k \in Positions(s) : s[i] = s[k] => i = k
  PROVE  /\ Head(s) \in S /\ 1 \in Positions(s) /\ s[1] = Head(s)
         /\ \A i \in Positions(Tail(s)) : /\ i + 1 \in Positions(s) /\ Tail(s)[i] = s[i + 1]
                                          /\ Tail(s)[i] # Head(s)
<1>1. /\ Head(s) \in S /\ 1 \in Positions(s) /\ s[1] = Head(s)
      /\ \A i \in Positions(Tail(s)) : i + 1 \in Positions(s) /\ Tail(s)[i] = s[i + 1]
  BY TailElements
<1>2. ASSUME NEW i \in Positions(Tail(s)) PROVE i + 1 # 1
  BY <1>2 DEF Positions
<1> QED
  BY <1>1, <1>2

(* The head of a queue goes on the wire, or is lost. *)
LEMMA DeliverySend ==
  ASSUME TypeOK, DeliveryInv, NEW c \in Conns, SendLoop(c)
  PROVE  DeliveryInv'
<1> DEFINE h == Head(out[c])
<1>1. /\ phase[c] = "serving" /\ out[c] # <<>>
      /\ out' = [out EXCEPT ![c] = Tail(out[c])]
      /\ down' = [down EXCEPT ![c] = Append(@, h)] \/ down' = down
      /\ UNCHANGED <<up, task, runs, req, db, owner, phase, session>>
  BY DEF SendLoop, Unsent, conn, durable
<1>2. out[c] \in Seq(Jobs) /\ down[c] \in Seq(Jobs)
  BY DEF TypeOK, MemoryTypeOK, AgentTypeOK
<1>3. /\ \A x \in Conns \ {c} : out'[x] = out[x] /\ down'[x] = down[x]
      /\ out'[c] = Tail(out[c])
      /\ down'[c] = Append(down[c], h) \/ down'[c] = down[c]
  BY <1>1 DEF TypeOK, MemoryTypeOK, AgentTypeOK
<1>4. \A i, k \in Positions(out[c]) : out[c][i] = out[c][k] => i = k
  BY DEF DeliveryInv, OncePlaced
<1>5. /\ h \in Jobs /\ 1 \in Positions(out[c]) /\ out[c][1] = h
      /\ \A i \in Positions(Tail(out[c])) : /\ i + 1 \in Positions(out[c])
                                            /\ Tail(out[c])[i] = out[c][i + 1]
                                            /\ Tail(out[c])[i] # h
  BY <1>1, <1>2, <1>4, HeadIsGone
<1>6. \A i \in Positions(down'[c]) :
        \/ i \in Positions(down[c]) /\ down'[c][i] = down[c][i]
        \/ i = Len(down[c]) + 1 /\ down'[c][i] = h
  <2> SUFFICES ASSUME NEW i \in Positions(down'[c])
               PROVE  \/ i \in Positions(down[c]) /\ down'[c][i] = down[c][i]
                      \/ i = Len(down[c]) + 1 /\ down'[c][i] = h
    OBVIOUS
  <2>1. CASE down'[c] = down[c]
    BY <2>1
  <2>2. CASE down'[c] = Append(down[c], h)
    <3>1. i \in Positions(Append(down[c], h))
      BY <2>2
    <3>2. \/ i \in Positions(down[c]) /\ Append(down[c], h)[i] = down[c][i]
          \/ i = Len(down[c]) + 1 /\ Append(down[c], h)[i] = h
      BY <1>2, <1>5, <3>1, LongerElements
    <3> QED
      BY <2>2, <3>2
  <2> QED
    BY <1>3, <2>1, <2>2
<1> HIDE DEF h
<1>7. req[h].device = owner[c] /\ Unstarted(h)
  BY <1>5 DEF DeliveryInv, QueuesFit
<1>8. \A j : Unstarted(j)' <=> Unstarted(j)
  BY <1>1 DEF Unstarted
<1>9. QueuesFit'
  <2>1. ASSUME NEW x \in Conns, NEW i \in Positions(out'[x])
        PROVE  req[out'[x][i]].device = owner[x] /\ Unstarted(out'[x][i])
    <3>1. CASE x = c
      <4>1. i \in Positions(Tail(out[c])) /\ out'[x][i] = Tail(out[c])[i]
        BY <1>3, <3>1
      <4>2. i + 1 \in Positions(out[c]) /\ out'[x][i] = out[c][i + 1]
        BY <1>5, <4>1
      <4> QED
        BY <3>1, <4>2 DEF DeliveryInv, QueuesFit
    <3>2. CASE x # c
      BY <1>3, <3>2 DEF DeliveryInv, QueuesFit
    <3> QED
      BY <3>1, <3>2
  <2>2. ASSUME NEW x \in Conns, NEW i \in Positions(down'[x])
        PROVE  req[down'[x][i]].device = owner[x] /\ Unstarted(down'[x][i])
    BY <1>3, <1>6, <1>7, <2>2 DEF DeliveryInv, QueuesFit
  <2> QED
    BY <1>1, <1>8, <2>1, <2>2 DEF QueuesFit
<1>10. OncePlaced'
  <2>1. \A x \in Conns : \A i \in Positions(down[x]) : down[x][i] # h
    BY <1>5 DEF DeliveryInv, OncePlaced
  <2>2. \A x \in Conns \ {c} : \A i \in Positions(out[x]) : out[x][i] # h
    BY <1>5 DEF DeliveryInv, OncePlaced
  <2>3. \A x \in Conns : \A i \in Positions(out'[x]) :
          /\ out'[x][i] # h
          /\ IF x = c THEN i + 1 \in Positions(out[x]) /\ out'[x][i] = out[x][i + 1]
             ELSE i \in Positions(out[x]) /\ out'[x][i] = out[x][i]
    <3>1. \A i \in Positions(out'[c]) :
            /\ out'[c][i] # h
            /\ i + 1 \in Positions(out[c]) /\ out'[c][i] = out[c][i + 1]
      BY <1>3, <1>5
    <3>2. \A x \in Conns \ {c} : \A i \in Positions(out'[x]) :
            /\ out'[x][i] # h
            /\ i \in Positions(out[x]) /\ out'[x][i] = out[x][i]
      BY <1>3, <2>2
    <3> QED
      BY <3>1, <3>2
  <2>4. \A x \in Conns : \A i \in Positions(down'[x]) :
          \/ i \in Positions(down[x]) /\ down'[x][i] = down[x][i]
          \/ x = c /\ i = Len(down[c]) + 1 /\ down'[x][i] = h
    BY <1>3, <1>6
  <2>5. ASSUME NEW x \in Conns, NEW y \in Conns,
               NEW i \in Positions(out'[x]), NEW k \in Positions(out'[y]),
               out'[x][i] = out'[y][k]
        PROVE  x = y /\ i = k
    <3>1. i \in Nat /\ k \in Nat
      BY DEF Positions
    <3> QED
      BY <2>3, <2>5, <3>1 DEF DeliveryInv, OncePlaced
  <2>6. ASSUME NEW x \in Conns, NEW y \in Conns,
               NEW i \in Positions(down'[x]), NEW k \in Positions(down'[y]),
               down'[x][i] = down'[y][k]
        PROVE  x = y /\ i = k
    BY <2>1, <2>4, <2>6 DEF DeliveryInv, OncePlaced
  <2>7. ASSUME NEW x \in Conns, NEW y \in Conns,
               NEW i \in Positions(out'[x]), NEW k \in Positions(down'[y])
        PROVE  out'[x][i] # down'[y][k]
    BY <2>3, <2>4 DEF DeliveryInv, OncePlaced
  <2> QED
    BY <2>5, <2>6, <2>7 DEF OncePlaced
<1>11. ConnsFit'
  <2>1. \A x \in Conns : phase[x] = "free" => out'[x] = out[x] /\ down'[x] = down[x]
    BY <1>1, <1>3
  <2> QED
    BY <1>1, <2>1 DEF DeliveryInv, ConnsFit
<1>12. TasksFit' /\ ResultsFit' /\ RunsFit'
  BY <1>1 DEF DeliveryInv, TasksFit, ResultsFit, RunsFit
<1> QED
  BY <1>9, <1>10, <1>11, <1>12 DEF DeliveryInv

(* A message that an agent sends: whose it is, element by element. *)
LEMMA ResultsSent ==
  ASSUME TypeOK, ResultsFit, UNCHANGED <<req, runs, owner>>,
         NEW c \in Conns \cup {NoConn}, NEW m \in Messages, up' = Sent(c, m),
         c \in Conns /\ m.kind = "result" =>
           runs[m.job] = <<owner[c]>> /\ req[m.job].device = owner[c]
  PROVE  /\ ResultsFit'
         /\ \A x \in Conns : phase[x] = "free" => up'[x] = up[x]
<1>1. \A x \in Conns : \/ up'[x] = up[x]
                       \/ x = c /\ phase[c] = "serving" /\ up'[x] = Append(up[x], m)
  BY NoConnAssumption DEF Sent, TypeOK
<1>2. ASSUME NEW x \in Conns, NEW i \in Positions(up'[x]), up'[x][i].kind = "result"
      PROVE  runs[up'[x][i].job] = <<owner[x]>> /\ req[up'[x][i].job].device = owner[x]
  <2>1. CASE up'[x] = up[x]
    BY <1>2, <2>1 DEF ResultsFit
  <2>2. CASE x = c /\ up'[x] = Append(up[x], m)
    <3>1. up[x] \in Seq(Messages) /\ i \in Positions(Append(up[x], m))
      BY <2>2 DEF TypeOK
    <3>2. \/ i \in Positions(up[x]) /\ Append(up[x], m)[i] = up[x][i]
          \/ i = Len(up[x]) + 1 /\ Append(up[x], m)[i] = m
      BY <3>1, LongerElements
    <3>3. CASE i \in Positions(up[x]) /\ up'[x][i] = up[x][i]
      BY <1>2, <3>3 DEF ResultsFit
    <3>4. CASE up'[x][i] = m
      BY <1>2, <2>2, <3>4
    <3> QED
      BY <2>2, <3>2, <3>3, <3>4
  <2> QED
    BY <1>1, <2>1, <2>2
<1> QED
  BY <1>1, <1>2 DEF ResultsFit

(* The agent takes a dispatch off the wire and starts its task. *)
LEMMA DeliveryReceive ==
  ASSUME TypeOK, DeliveryInv, NEW d \in Devices, AgentReceive(d)
  PROVE  DeliveryInv'
<1> DEFINE c == session[d]
           h == Head(down[c])
           m == [kind |-> "accepted", job |-> h]
<1>1. /\ c \in Conns /\ down[c] # <<>>
      /\ down' = [down EXCEPT ![c] = Tail(@)]
      /\ task' = [task EXCEPT ![d][h] = "accepted"]
      /\ up' = Sent(c, m)
      /\ UNCHANGED <<out, runs, req, db, owner, phase, session>>
  BY DEF AgentReceive, TypeOK, AgentTypeOK, durable, volatile, conn
<1>2. owner[c] = d /\ phase[c] # "free"
  BY <1>1, NoConnAssumption DEF DeliveryInv, ConnsFit
<1>3. down[c] \in Seq(Jobs)
  BY <1>1 DEF TypeOK, AgentTypeOK
<1>4. \A i, k \in Positions(down[c]) : down[c][i] = down[c][k] => i = k
  BY <1>1 DEF DeliveryInv, OncePlaced
<1>5. /\ h \in Jobs /\ 1 \in Positions(down[c]) /\ down[c][1] = h
      /\ \A i \in Positions(Tail(down[c])) : /\ i + 1 \in Positions(down[c])
                                             /\ Tail(down[c])[i] = down[c][i + 1]
                                             /\ Tail(down[c])[i] # h
  BY <1>1, <1>3, <1>4, HeadIsGone
<1>6. m \in Messages /\ m.kind = "accepted"
  BY <1>5 DEF Messages
<1>7. ResultsFit' /\ \A x \in Conns : phase[x] = "free" => up'[x] = up[x]
  BY <1>1, <1>6, ResultsSent DEF DeliveryInv
<1> HIDE DEF m
<1>8. down'[c] = Tail(down[c]) /\ \A x \in Conns \ {c} : down'[x] = down[x]
  BY <1>1 DEF TypeOK, AgentTypeOK
<1>9. /\ task'[d][h] = "accepted"
      /\ \A e \in Devices, j \in Jobs : e # d \/ j # h => task'[e][j] = task[e][j]
  BY <1>1, <1>5 DEF TypeOK, AgentTypeOK
<1> HIDE DEF h
<1>10. req[h].device = d /\ Unstarted(h)
  BY <1>1, <1>2, <1>5 DEF DeliveryInv, QueuesFit
<1>11. \A j \in Jobs : Unstarted(j) /\ j # h => Unstarted(j)'
  BY <1>1, <1>9 DEF Unstarted
<1>12. \A x \in Conns \ {c} : \A i \in Positions(down[x]) : down[x][i] # h
  BY <1>1, <1>5 DEF DeliveryInv, OncePlaced
<1>13. \A x \in Conns : \A i \in Positions(out[x]) : out[x][i] # h
  BY <1>1, <1>5 DEF DeliveryInv, OncePlaced
<1>14. \A x \in Conns : \A i \in Positions(down'[x]) :
         /\ down'[x][i] # h
         /\ IF x = c THEN i + 1 \in Positions(down[x]) /\ down'[x][i] = down[x][i + 1]
            ELSE i \in Positions(down[x]) /\ down'[x][i] = down[x][i]
  <2>1. \A i \in Positions(down'[c]) :
          /\ down'[c][i] # h
          /\ i + 1 \in Positions(down[c]) /\ down'[c][i] = down[c][i + 1]
    BY <1>5, <1>8
  <2>2. \A x \in Conns \ {c} : \A i \in Positions(down'[x]) :
          /\ down'[x][i] # h
          /\ i \in Positions(down[x]) /\ down'[x][i] = down[x][i]
    BY <1>8, <1>12
  <2> QED
    BY <2>1, <2>2
<1>15. \A x \in Conns : /\ \A i \in Positions(out[x])  : out[x][i] \in Jobs
                        /\ \A i \in Positions(down[x]) : down[x][i] \in Jobs
  BY DEF TypeOK, MemoryTypeOK, AgentTypeOK, Positions
<1> HIDE DEF c
<1>16. QueuesFit'
  <2>1. ASSUME NEW x \in Conns, NEW i \in Positions(out[x])
        PROVE  /\ req[out[x][i]].device = owner[x] /\ Unstarted(out[x][i])
               /\ out[x][i] \in Jobs /\ out[x][i] # h
    BY <1>13, <1>15 DEF DeliveryInv, QueuesFit
  <2>2. ASSUME NEW x \in Conns, NEW i \in Positions(down'[x])
        PROVE  /\ req[down'[x][i]].device = owner[x] /\ Unstarted(down'[x][i])
               /\ down'[x][i] \in Jobs /\ down'[x][i] # h
    <3>1. \E k \in Positions(down[x]) : down'[x][i] = down[x][k]
      BY <1>14
    <3> QED
      BY <1>14, <1>15, <3>1 DEF DeliveryInv, QueuesFit
  <2> QED
    BY <1>1, <1>11, <2>1, <2>2 DEF QueuesFit
<1>17. OncePlaced'
  <2>1. ASSUME NEW x \in Conns, NEW y \in Conns,
               NEW i \in Positions(down'[x]), NEW k \in Positions(down'[y]),
               down'[x][i] = down'[y][k]
        PROVE  x = y /\ i = k
    <3>1. i \in Nat /\ k \in Nat
      BY DEF Positions
    <3> QED
      BY <1>14, <2>1, <3>1 DEF DeliveryInv, OncePlaced
  <2>2. ASSUME NEW x \in Conns, NEW y \in Conns,
               NEW i \in Positions(out[x]), NEW k \in Positions(down'[y])
        PROVE  out[x][i] # down'[y][k]
    BY <1>14 DEF DeliveryInv, OncePlaced
  <2>3. out' = out
    BY <1>1
  <2> QED
    BY <2>1, <2>2, <2>3 DEF DeliveryInv, OncePlaced
<1>18. TasksFit'
  BY <1>1, <1>9, <1>10 DEF DeliveryInv, TasksFit, Unstarted
<1>19. ConnsFit'
  <2>1. \A x \in Conns : phase[x] = "free" => down'[x] = down[x]
    BY <1>2, <1>8
  <2> QED
    BY <1>1, <1>7, <2>1 DEF DeliveryInv, ConnsFit
<1>20. RunsFit'
  BY <1>1 DEF DeliveryInv, RunsFit
<1> QED
  BY <1>7, <1>16, <1>17, <1>18, <1>19, <1>20 DEF DeliveryInv

(* The agent starts the script of a task. *)
LEMMA DeliveryRun ==
  ASSUME TypeOK, DeliveryInv, NEW d \in Devices, NEW j \in Jobs, AgentRun(d, j)
  PROVE  DeliveryInv'
<1>1. /\ task[d][j] = "accepted"
      /\ task' = [task EXCEPT ![d][j] = "running"]
      /\ runs' = [runs EXCEPT ![j] = Append(@, d)]
      /\ UNCHANGED <<out, down, up, req, db, owner, phase, session>>
  BY DEF AgentRun, durable, volatile, conn
<1>2. req[j].device = d /\ runs[j] = <<>>
  BY <1>1 DEF DeliveryInv, TasksFit
<1>3. req[j] # NoReq
  BY <1>2, NoDeviceAssumption DEF NoReq
<1>4. /\ runs'[j] = <<d>>
      /\ \A i \in Jobs : i # j => runs'[i] = runs[i]
  BY <1>1, <1>2 DEF TypeOK, AgentTypeOK
<1>5. /\ task'[d][j] = "running"
      /\ \A e \in Devices, i \in Jobs : e # d \/ i # j => task'[e][i] = task[e][i]
  BY <1>1 DEF TypeOK, AgentTypeOK
<1>6. \A i \in Jobs : Unstarted(i) => Unstarted(i)'
  <2> SUFFICES ASSUME NEW i \in Jobs, Unstarted(i) PROVE Unstarted(i)'
    OBVIOUS
  <2>1. i # j
    BY <1>1 DEF Unstarted
  <2> QED
    BY <1>4, <1>5, <2>1 DEF Unstarted
<1>7. \A x \in Conns : /\ \A i \in Positions(out[x])  : out[x][i] \in Jobs
                       /\ \A i \in Positions(down[x]) : down[x][i] \in Jobs
  BY DEF TypeOK, MemoryTypeOK, AgentTypeOK, Positions
<1>8. QueuesFit'
  BY <1>1, <1>6, <1>7 DEF DeliveryInv, QueuesFit
<1>9. OncePlaced' /\ ConnsFit'
  BY <1>1 DEF DeliveryInv, OncePlaced, ConnsFit
<1>10. TasksFit'
  BY <1>1, <1>2, <1>4, <1>5 DEF DeliveryInv, TasksFit
<1>11. RunsFit'
  BY <1>1, <1>2, <1>3, <1>4 DEF DeliveryInv, RunsFit
<1>12. ResultsFit'
  <2> SUFFICES ASSUME NEW x \in Conns, NEW i \in Positions(up[x]), up[x][i].kind = "result"
               PROVE  /\ runs'[up[x][i].job] = <<owner[x]>>
                      /\ req[up[x][i].job].device = owner[x]
    BY <1>1 DEF ResultsFit
  <2>1. runs[up[x][i].job] = <<owner[x]>> /\ req[up[x][i].job].device = owner[x]
    BY DEF DeliveryInv, ResultsFit
  <2>2. up[x][i].job \in Jobs
    BY DEF TypeOK, Positions, Messages
  <2>3. <<owner[x]>> # <<>>
    OBVIOUS
  <2> QED
    BY <1>2, <1>4, <2>1, <2>2, <2>3
<1> QED
  BY <1>8, <1>9, <1>10, <1>11, <1>12 DEF DeliveryInv

(* A script ends and its result is sent. *)
LEMMA DeliveryFinish ==
  ASSUME TypeOK, DeliveryInv, NEW d \in Devices, NEW j \in Jobs, NEW r \in Reports,
         AgentFinish(d, j, r)
  PROVE  DeliveryInv'
<1> DEFINE m == [kind |-> "result", job |-> j, report |-> r]
<1>1. /\ task[d][j] = "running"
      /\ task' = [task EXCEPT ![d][j] = "idle"]
      /\ up' = Sent(session[d], m)
      /\ UNCHANGED <<out, down, runs, req, db, owner, phase, session>>
  BY DEF AgentFinish, HasRun, durable, volatile, conn
<1>2. req[j].device = d /\ runs[j] = <<d>>
  BY <1>1 DEF DeliveryInv, TasksFit
<1>3. session[d] \in Conns => owner[session[d]] = d
  BY NoConnAssumption DEF DeliveryInv, ConnsFit
<1>4. m \in Messages /\ m.kind = "result" /\ m.job = j /\ session[d] \in Conns \cup {NoConn}
  BY DEF Messages, TypeOK, AgentTypeOK
<1> HIDE DEF m
<1>5. ResultsFit' /\ \A x \in Conns : phase[x] = "free" => up'[x] = up[x]
  BY <1>1, <1>2, <1>3, <1>4, ResultsSent DEF DeliveryInv
<1>6. \A e \in Devices, i \in Jobs : task'[e][i] \in {task[e][i], "idle"}
  BY <1>1 DEF TypeOK, AgentTypeOK
<1>7. \A i \in Jobs : Unstarted(i) => Unstarted(i)'
  BY <1>1, <1>6 DEF Unstarted
<1>8. \A x \in Conns : /\ \A i \in Positions(out[x])  : out[x][i] \in Jobs
                       /\ \A i \in Positions(down[x]) : down[x][i] \in Jobs
  BY DEF TypeOK, MemoryTypeOK, AgentTypeOK, Positions
<1>9. QueuesFit'
  BY <1>1, <1>7, <1>8 DEF DeliveryInv, QueuesFit
<1>10. OncePlaced' /\ ConnsFit'
  BY <1>1, <1>5 DEF DeliveryInv, OncePlaced, ConnsFit
<1>11. TasksFit' /\ RunsFit'
  BY <1>1, <1>6 DEF DeliveryInv, TasksFit, RunsFit
<1> QED
  BY <1>5, <1>9, <1>10, <1>11 DEF DeliveryInv

(* Everything else the handlers, the operators, the supervisor and a crash *)
(* do only empties queues and moves connections on.                        *)
LEMMA DeliveryHandler ==
  ASSUME TypeOK, DeliveryInv, \A j \in Jobs : Forward(j),
         NEW c \in Conns, Handler(c)
  PROVE  DeliveryInv'
<1>1. \A j \in Jobs : db'[j] = "none" => db[j] = "none"
  BY DEF Forward, Active, Terminal
<1>2. CASE SendLoop(c)
  BY <1>2, DeliverySend
<1>3. CASE ServerHello(c) \/ HelloRefused(c) \/ AckSent(c) \/ AckFails(c)
  <2>1. UNCHANGED <<req, runs, owner, out, down, up, session, task>>
    BY <1>3 DEF ServerHello, HelloRefused, AckSent, AckFails, durable, flags, agent
  <2>2. \A x \in Conns : phase'[x] = "free" <=> phase[x] = "free"
    BY <1>3 DEF ServerHello, HelloRefused, AckSent, AckFails, TypeOK, ConnTypeOK
  <2>3. OnlyShrinks
    BY <1>1, <2>1, <2>2 DEF OnlyShrinks, Shrinks
  <2> QED
    BY <2>3, DeliveryFrame
<1>4. CASE Cleanup(c)
  <2>1. UNCHANGED <<req, runs, owner, down, session, task>> /\ phase[c] = "serving"
    BY <1>4 DEF Cleanup, Ends, agent
  <2>2. \A x \in Conns : phase'[x] = "free" <=> phase[x] = "free"
    BY <1>4, <2>1 DEF Cleanup, Ends
  <2>3. \A x \in Conns : out'[x] \in {out[x], <<>>} /\ up'[x] \in {up[x], <<>>}
    BY <1>4 DEF Cleanup, TypeOK, MemoryTypeOK
  <2>4. OnlyShrinks
    BY <1>1, <2>1, <2>2, <2>3 DEF OnlyShrinks, Shrinks
  <2> QED
    BY <2>4, DeliveryFrame
<1>5. CASE Silence(c) \/ Heartbeat(c)
  <2>1. UNCHANGED <<req, runs, owner, phase, out, down, up, session, task>>
    BY <1>5 DEF Silence, Heartbeat, Touch, durable, agent
  <2>2. OnlyShrinks
    BY <1>1, <2>1 DEF OnlyShrinks, Shrinks
  <2> QED
    BY <2>2, DeliveryFrame
<1>6. CASE OnAccepted(c) \/ OnResult(c)
  <2>1. /\ UNCHANGED <<req, runs, owner, phase, out, down, session, task>>
        /\ up[c] # <<>> /\ up' = [up EXCEPT ![c] = Tail(@)]
    BY <1>6 DEF OnAccepted, OnResult, Receives, Touch, agent
  <2>2. \A x \in Conns : Shrinks(up[x], up'[x])
    BY <2>1 DEF Shrinks, TypeOK
  <2>3. OnlyShrinks
    BY <1>1, <2>1, <2>2 DEF OnlyShrinks
  <2> QED
    BY <2>3, DeliveryFrame
<1> QED
  BY <1>2, <1>3, <1>4, <1>5, <1>6 DEF Handler

LEMMA DeliveryServer ==
  ASSUME TypeOK, DeliveryInv, RevokeInv, \A j \in Jobs : Forward(j),
         \/ \E d \in Devices : Operator(d)
         \/ SuperviseTick \/ Crashing \/ Restart
  PROVE  DeliveryInv'
<1>1. \A j \in Jobs : db'[j] = "none" => db[j] = "none"
  BY DEF Forward, Active, Terminal
<1>2. ASSUME NEW d \in Devices, NEW j \in Jobs, NEW k \in Keys,
             Dispatch(d, j, k) \/ CrashInDispatch(d, j, k)
      PROVE  DeliveryInv'
  BY <1>2, DeliveryDispatch
<1>3. ASSUME NEW d \in Devices, Revoke(d) \/ Unrevoke(d)
      PROVE  DeliveryInv'
  <2>1. UNCHANGED <<req, runs, owner, phase, down, up, session, task>>
    BY <1>3 DEF Revoke, Unrevoke, agent
  <2>2. \A x \in Conns : out'[x] \in {out[x], <<>>}
    BY <1>3 DEF Revoke, Unrevoke, Drained
  <2>3. OnlyShrinks
    BY <1>1, <2>1, <2>2 DEF OnlyShrinks, Shrinks
  <2> QED
    BY <2>3, DeliveryFrame
<1>4. CASE SuperviseTick \/ Restart
  <2>1. UNCHANGED <<req, runs, owner, phase, out, down, up, session, task>>
    BY <1>4 DEF SuperviseTick, Supervise, Restart, conn, volatile, agent
  <2>2. OnlyShrinks
    BY <1>1, <2>1 DEF OnlyShrinks, Shrinks
  <2> QED
    BY <2>2, DeliveryFrame
<1>5. CASE LoseMemory /\ UNCHANGED req
  <2>1. UNCHANGED <<req, runs, owner, down, session, task>>
    BY <1>5 DEF LoseMemory, Ends, agent
  <2>2. \A x \in Conns : /\ phase'[x] = "free" <=> phase[x] = "free"
                         /\ out'[x] = <<>> /\ up'[x] = <<>>
    BY <1>5 DEF LoseMemory, Ends
  <2>3. OnlyShrinks
    BY <1>1, <2>1, <2>2 DEF OnlyShrinks, Shrinks
  <2> QED
    BY <2>3, DeliveryFrame
<1> QED
  BY <1>2, <1>3, <1>4, <1>5 DEF Operator, Crashing, Crash, CrashInSupervise, CrashInRevoke

LEMMA DeliveryDrop ==
  ASSUME TypeOK, DeliveryInv, \A j \in Jobs : Forward(j), NEW d \in Devices, AgentDrop(d)
  PROVE  DeliveryInv'
<1>1. \A j \in Jobs : db'[j] = "none" => db[j] = "none"
  BY DEF Forward, Active, Terminal
<1>2. /\ UNCHANGED <<req, runs, owner, out, up>>
      /\ session' = [session EXCEPT ![d] = NoConn]
      /\ down' = [down EXCEPT ![session[d]] = <<>>]
      /\ task' = [task EXCEPT ![d] = [j \in Jobs |-> "idle"]]
  BY DEF AgentDrop, durable
<1>3. \A x \in Conns : phase'[x] = "free" <=> phase[x] = "free"
  BY DEF AgentDrop, TypeOK, ConnTypeOK
<1>4. \A x \in Conns : down'[x] \in {down[x], <<>>}
  BY <1>2 DEF TypeOK, AgentTypeOK
<1>5. /\ \A e \in Devices : session'[e] \in {session[e], NoConn}
      /\ \A e \in Devices, j \in Jobs : task'[e][j] \in {task[e][j], "idle"}
  BY <1>2 DEF TypeOK, AgentTypeOK
<1>6. OnlyShrinks
  BY <1>1, <1>2, <1>3, <1>4, <1>5 DEF OnlyShrinks, Shrinks
<1> QED
  BY <1>6, DeliveryFrame

LEMMA DeliveryStep ==
  TypeOK /\ RowsAgree /\ RevokeInv /\ DeliveryInv /\ [Next]_vars => DeliveryInv'
<1> SUFFICES ASSUME TypeOK, RowsAgree, RevokeInv, DeliveryInv, [Next]_vars
             PROVE  DeliveryInv'
  OBVIOUS
<1>1. \A j \in Jobs : Forward(j)
  BY RowsNext DEF RowsStep
<1>2. ASSUME NEW d \in Devices, Agent(d) PROVE DeliveryInv'
  BY <1>1, <1>2, DeliveryReceive, DeliveryDrop, DeliveryConnect, DeliveryRun, DeliveryFinish
     DEF Agent
<1>3. CASE UNCHANGED vars
  <2>1. OnlyShrinks
    BY <1>3 DEF OnlyShrinks, Shrinks, vars, durable, volatile, conn, agent
  <2> QED
    BY <2>1, DeliveryFrame
<1> QED
  BY <1>1, <1>2, <1>3, DeliveryHandler, DeliveryServer DEF Next

(* What the proofs below use, at every state of a behaviour. *)
Safe == TypeOK /\ RowsAgree /\ RevokeInv /\ DeliveryInv

LEMMA SafeStep == Safe /\ [Next]_vars => Safe'
<1>1. TypeOK /\ RowsAgree /\ [Next]_vars => RowsAgree'
  BY RowsNext DEF RowsStep
<1>2. TypeOK /\ RowsAgree /\ RevokeInv /\ [Next]_vars => RevokeInv'
  BY RevokeStep DEF RowsAgree
<1> QED
  BY <1>1, <1>2, TypeStep, DeliveryStep DEF Safe

LEMMA AlwaysSafe == Spec => []Safe
<1>1. Init => Safe
  BY TypeInit, RowsInit, RevokeInit, DeliveryInit DEF Safe
<1> QED
  BY <1>1, SafeStep, PTL DEF Spec

LEMMA LengthOfRuns ==
  ASSUME NEW d, NEW s
  PROVE  /\ s = <<>>  => Len(s) = 0
         /\ s = <<d>> => Len(s) = 1
<1>1. CASE s = <<>>
  BY <1>1
<1>2. CASE s = <<d>>
  BY <1>2
<1> QED
  BY <1>1, <1>2

(* A job's script is started at most once, and only by a device that its   *)
(* dispatch reached: no dispatch is queued or sent twice, an id is never   *)
(* dispatched again after a crash, and a task ends with its session.       *)
THEOREM ScriptsRunOnce == Spec => []RunsAtMostOnce
<1>1. Safe => RunsAtMostOnce
  <2> SUFFICES ASSUME Safe, NEW j \in Jobs PROVE Len(runs[j]) <= 1
    BY DEF RunsAtMostOnce
  <2>1. runs[j] = <<>> \/ runs[j] = <<req[j].device>>
    BY DEF Safe, DeliveryInv, RunsFit
  <2>2. CASE runs[j] = <<>>
    BY <2>2
  <2>3. CASE runs[j] = <<req[j].device>>
    BY <2>3
  <2> QED
    BY <2>1, <2>2, <2>3
<1> QED
  BY <1>1, AlwaysSafe, PTL

(* A request is made once, and its script started once, after it was made. *)
RunsForward(j) ==
  /\ req'[j] = req[j] \/ req[j] = NoReq
  /\ \/ runs'[j] = runs[j]
     \/ runs[j] = <<>> /\ runs'[j] = <<req[j].device>> /\ db[j] # "none"

LEMMA RunsNext == Safe /\ [Next]_vars => \A j \in Jobs : RunsForward(j)
<1> SUFFICES ASSUME Safe, [Next]_vars, NEW j \in Jobs
             PROVE  RunsForward(j)
  OBVIOUS
<1>1. CASE UNCHANGED <<req, runs>>
  BY <1>1 DEF RunsForward
<1>2. ASSUME NEW d \in Devices, NEW i \in Jobs, NEW k \in Keys,
             Dispatch(d, i, k) \/ CrashInDispatch(d, i, k)
      PROVE  RunsForward(j)
  <2>1. /\ req[i] = NoReq /\ UNCHANGED runs
        /\ req' = [req EXCEPT ![i] = [device |-> d, key |-> k]]
    BY <1>2 DEF Dispatch, CrashInDispatch, MayDispatch, LoseMemory, agent
  <2> QED
    BY <2>1 DEF RunsForward, Safe, TypeOK, RowsTypeOK
<1>3. ASSUME NEW d \in Devices, NEW i \in Jobs, AgentRun(d, i)
      PROVE  RunsForward(j)
  <2>1. task[d][i] = "accepted" /\ UNCHANGED req /\ runs' = [runs EXCEPT ![i] = Append(@, d)]
    BY <1>3 DEF AgentRun, durable
  <2>2. req[i].device = d /\ runs[i] = <<>>
    BY <2>1 DEF Safe, DeliveryInv, TasksFit
  <2>3. db[i] # "none"
    <3>1. req[i] # NoReq
      BY <2>2, NoDeviceAssumption DEF NoReq
    <3> QED
      BY <3>1 DEF Safe, DeliveryInv, RunsFit
  <2>4. runs'[i] = <<d>> /\ \A x \in Jobs : x # i => runs'[x] = runs[x]
    BY <2>1, <2>2 DEF Safe, TypeOK, AgentTypeOK
  <2> QED
    BY <2>1, <2>2, <2>3, <2>4 DEF RunsForward
<1>4. ASSUME NEW d \in Devices, Operator(d)
      PROVE  RunsForward(j)
  BY <1>1, <1>2, <1>4 DEF Operator, Revoke, Unrevoke, agent
<1>5. ASSUME NEW d \in Devices, Agent(d)
      PROVE  RunsForward(j)
  BY <1>1, <1>3, <1>5 DEF Agent, AgentReceive, AgentDrop, AgentConnect, AgentFinish, durable
<1>6. ASSUME NEW c \in Conns, Handler(c)
      PROVE  UNCHANGED <<req, runs>>
  BY <1>6 DEF Handler, ServerHello, HelloRefused, AckSent, AckFails, Cleanup, Silence,
             SendLoop, Heartbeat, OnAccepted, OnResult, durable, agent
<1>7. CASE Crashing
  BY <1>1, <1>2, <1>7 DEF Crashing, Crash, CrashInSupervise, CrashInRevoke, LoseMemory, agent
<1> QED
  BY <1>1, <1>4, <1>5, <1>6, <1>7
     DEF Next, SuperviseTick, Supervise, Restart, vars, durable, agent

(* What is reported on the wire was run, by the job's own device. *)
LEMMA ReportedWasRun ==
  ASSUME Safe, NEW j \in Jobs, ReportedDone(j)
  PROVE  runs[j] = <<req[j].device>>
<1>1. PICK c \in Conns : up[c] # <<>>
        /\ Head(up[c]) = [kind |-> "result", job |-> j, report |-> "Completed"]
  BY DEF ReportedDone
<1>2. up[c] \in Seq(Messages)
  BY DEF Safe, TypeOK
<1>3. 1 \in Positions(up[c]) /\ up[c][1] = Head(up[c])
  BY <1>1, <1>2, TailElements
<1>4. up[c][1].kind = "result" /\ up[c][1].job = j
  BY <1>1, <1>3
<1> QED
  BY <1>3, <1>4 DEF Safe, DeliveryInv, ResultsFit

(* "Completed" is stored for no job that its own device did not run. *)
THEOREM CompletedMeansRun == Spec => []CompletedWasRun
<1>1. Init => CompletedWasRun
  BY DEF Init, CompletedWasRun
<1>2. ASSUME Safe, CompletedWasRun, [Next]_vars
      PROVE  CompletedWasRun'
  <2> SUFFICES ASSUME NEW j \in Jobs, db'[j] = "Completed"
               PROVE  runs'[j] = <<req'[j].device>>
    BY DEF CompletedWasRun
  <2>1. Forward(j) /\ RunsForward(j)
    BY <1>2, RowsNext, RunsNext DEF Safe, RowsStep
  <2>2. runs[j] = <<req[j].device>>
    <3>1. db[j] = "Completed" \/ ReportedDone(j)
      BY <2>1 DEF Forward
    <3> QED
      BY <1>2, <3>1, ReportedWasRun DEF CompletedWasRun
  <2>3. runs[j] # <<>> /\ req[j] # NoReq
    BY <1>2, <2>2 DEF Safe, DeliveryInv, RunsFit
  <2> QED
    BY <2>1, <2>2, <2>3 DEF RunsForward
<1> QED
  BY <1>1, <1>2, AlwaysSafe, PTL DEF Spec

-----------------------------------------------------------------------------
(* The contract, step by step.                                             *)

(* A job's share of a step of the control plane is one of the contract's.  *)
LEMMA MovesAsPromised ==
  ASSUME Safe, [Next]_vars, NEW j \in Jobs
  PROVE  Contract!Moves(j)
<1>1. Forward(j)
  BY RowsNext DEF Safe, RowsStep
<1>2. ReportedDone(j) => Len(runs[j]) = 1
  BY ReportedWasRun, LengthOfRuns
<1>3. [i \in Jobs |-> Len(runs[i])][j] = Len(runs[j])
  OBVIOUS
<1> QED
  BY <1>1, <1>2, <1>3 DEF Forward, Active, Terminal, Contract!Moves, Contract!Active,
     Contract!Terminal

LEMMA StartsAsPromised ==
  ASSUME Safe, [Next]_vars, NEW j \in Jobs
  PROVE  Contract!Starts(j)
<1>1. RunsForward(j)
  BY RunsNext
<1>2. [i \in Jobs |-> Len(runs[i])][j] = Len(runs[j])
  OBVIOUS
<1>3. [i \in Jobs |-> Len(runs'[i])][j] = Len(runs'[j])
  OBVIOUS
<1>4. runs[j] = <<>> /\ runs'[j] = <<req[j].device>> => Len(runs[j]) = 0 /\ Len(runs'[j]) = 1
  BY LengthOfRuns
<1> QED
  BY <1>1, <1>2, <1>3, <1>4 DEF RunsForward, Contract!Starts

(* The whole control plane -- connections, queues, agents, revocations,    *)
(* crashes and restarts -- implements what JobContract promises about a     *)
(* job: its row is the promised state, the length of its history the       *)
(* number of starts.                                                       *)
THEOREM ControlPlaneKeepsContract == Spec => ImplementsContract
<1>1. Init => Contract!Init
  BY DEF Init, Contract!Init
<1>2. Safe /\ [Next]_vars => [Contract!Next]_(Contract!vars)
  BY MovesAsPromised, StartsAsPromised DEF Contract!Next
<1> QED
  BY <1>1, <1>2, AlwaysSafe, PTL DEF Spec, ImplementsContract, Contract!Spec

-----------------------------------------------------------------------------
(* The registered connection is the one the agent holds.  That needs        *)
(* HellosInOrder: a hello read after its agent has come back on another     *)
(* socket registers the dead one.                                          *)

HelloIsCurrent == \A c \in Conns : phase[c] = "hello" => session[owner[c]] = c
SessionIsCurrent ==
  \A d \in Devices : session[d] # NoConn /\ phase[session[d]] \in {"acking", "serving", "leaked"}
                       => registry[d] = session[d] /\ ~offline[d]
RegisteredIsClosing ==
  \A d \in Devices : alive /\ revoked[d] /\ registry[d] # NoConn
                       => closing[registry[d]] /\ out[registry[d]] = <<>>
CurrentInv == HelloIsCurrent /\ SessionIsCurrent /\ RegisteredIsClosing

LEMMA CurrentInit == Init => CurrentInv
BY DEF Init, CurrentInv, HelloIsCurrent, SessionIsCurrent, RegisteredIsClosing

(* The steps that leave connections and sessions alone. *)
LEMMA CurrentFrame ==
  ASSUME CurrentInv, UNCHANGED <<alive, offline, registry, owner, phase, session, closing>>,
         \A d \in Devices : revoked'[d] => revoked[d],
         \A d \in Devices : registry[d] # NoConn /\ revoked[d] /\ out[registry[d]] = <<>>
                              => out'[registry[d]] = <<>>
  PROVE  CurrentInv'
BY DEF CurrentInv, HelloIsCurrent, SessionIsCurrent, RegisteredIsClosing

(* No two devices have the same connection registered. *)
LEMMA OwnRegistration ==
  ASSUME Safe, NEW d \in Devices, NEW e \in Devices, registry[d] # NoConn,
         registry[d] = registry[e]
  PROVE  d = e
BY DEF Safe, RevokeInv, RegisteredIsOwn

LEMMA CurrentServer ==
  ASSUME Safe, CurrentInv, \/ \E d \in Devices : Operator(d)
                           \/ SuperviseTick \/ Crashing \/ Restart
  PROVE  CurrentInv'
<1> USE DEF CurrentInv, HelloIsCurrent, SessionIsCurrent, RegisteredIsClosing
<1>1. ASSUME NEW d \in Devices, NEW j \in Jobs, NEW k \in Keys, Dispatch(d, j, k)
      PROVE  CurrentInv'
  <2>1. /\ UNCHANGED <<alive, offline, registry, owner, phase, session, closing, revoked>>
        /\ ~revoked[d] /\ out' = [out EXCEPT ![registry[d]] = Append(@, j)]
    BY <1>1 DEF Dispatch, MayDispatch, conn, flags, agent
  <2>2. ASSUME NEW e \in Devices, registry[e] # NoConn, revoked[e]
        PROVE  out'[registry[e]] = out[registry[e]]
    <3>1. registry[e] \in Conns /\ registry[e] # registry[d]
      BY <2>1, <2>2, OwnRegistration DEF Safe, TypeOK, MemoryTypeOK
    <3> QED
      BY <2>1, <3>1 DEF Safe, TypeOK, MemoryTypeOK
  <2> QED
    BY <2>1, <2>2, CurrentFrame
<1>2. ASSUME NEW d \in Devices, Revoke(d)
      PROVE  CurrentInv'
  <2>1. /\ UNCHANGED <<alive, offline, registry, owner, phase, session>>
        /\ \A e \in Devices \ {d} : revoked'[e] = revoked[e]
    BY <1>2 DEF Revoke, agent
  <2>2. \A c \in Conns : /\ c = registry[d] \/ closing[c] => closing'[c]
                         /\ c = registry[d] \/ out[c] = <<>> => out'[c] = <<>>
    BY <1>2 DEF Revoke, Drained
  <2>3. \A e \in Devices : registry[e] # NoConn => registry[e] \in Conns
    BY DEF Safe, TypeOK, MemoryTypeOK
  <2> QED
    BY <2>1, <2>2, <2>3
<1>3. ASSUME NEW d \in Devices, Unrevoke(d)
      PROVE  CurrentInv'
  <2>1. /\ UNCHANGED <<alive, offline, registry, owner, phase, session, closing, out>>
        /\ \A e \in Devices : revoked'[e] => revoked[e]
    BY <1>3 DEF Unrevoke, agent, Safe, TypeOK, RowsTypeOK
  <2> QED
    BY <2>1, CurrentFrame
<1>4. CASE SuperviseTick
  <2>1. UNCHANGED <<alive, offline, registry, owner, phase, session, closing, out, revoked>>
    BY <1>4 DEF SuperviseTick, Supervise, conn, flags, agent
  <2> QED
    BY <2>1, CurrentFrame
<1>5. CASE Crashing
  <2>1. LoseMemory
    BY <1>5 DEF Crashing, Crash, CrashInSupervise, CrashInRevoke, CrashInDispatch
  <2>2. ~alive' /\ UNCHANGED session
    BY <2>1 DEF LoseMemory, agent
  <2>3. \A c \in Conns : phase'[c] \in {"free", "done"}
    BY <2>1 DEF LoseMemory, Ends
  <2>4. \A d \in Devices : session[d] # NoConn => session[d] \in Conns
    BY DEF Safe, TypeOK, AgentTypeOK
  <2> QED
    BY <2>2, <2>3, <2>4
<1>6. CASE Restart
  <2>1. UNCHANGED <<offline, registry, owner, phase, session>> /\ ~alive
    BY <1>6 DEF Restart, volatile, conn, agent
  <2>2. \A d \in Devices : registry[d] = NoConn
    BY <2>1 DEF Safe, RevokeInv, RegistryIsGone
  <2> QED
    BY <2>1, <2>2
<1> QED
  BY <1>1, <1>2, <1>3, <1>4, <1>5, <1>6 DEF Operator

LEMMA CurrentHandler ==
  ASSUME Safe, CurrentInv, NEW c \in Conns, Handler(c)
  PROVE  CurrentInv'
<1> DEFINE d == owner[c]
<1>1. \A e \in Devices : session[e] # NoConn =>
        session[e] \in Conns /\ owner[session[e]] = e /\ phase[session[e]] # "free"
  BY DEF Safe, DeliveryInv, ConnsFit, TypeOK, AgentTypeOK
<1>2. phase[c] # "free" => d \in Devices
  BY DEF Safe, DeliveryInv, ConnsFit
<1>3. \A e \in Devices : registry[e] # NoConn =>
        registry[e] \in Conns /\ owner[registry[e]] = e
  BY DEF Safe, RevokeInv, RegisteredIsOwn, TypeOK, MemoryTypeOK
<1>4. CASE ServerHello(c)
  <2>1. /\ phase[c] = "hello" /\ ~revoked[d]
        /\ UNCHANGED <<alive, revoked, owner, session, closing, out>>
    BY <1>4 DEF ServerHello, agent
  <2>2. /\ \A x \in Conns : phase'[x] = IF x = c THEN "acking" ELSE phase[x]
        /\ \A e \in Devices : /\ registry'[e] = IF e = d THEN c ELSE registry[e]
                              /\ offline'[e] = IF e = d THEN FALSE ELSE offline[e]
    BY <1>4 DEF ServerHello, Safe, TypeOK, RowsTypeOK, MemoryTypeOK, ConnTypeOK
  <2>3. session[d] = c /\ d \in Devices
    BY <1>2, <2>1 DEF CurrentInv, HelloIsCurrent
  <2>4. HelloIsCurrent'
    BY <2>1, <2>2 DEF CurrentInv, HelloIsCurrent
  <2>5. ASSUME NEW e \in Devices, session[e] # NoConn,
               phase'[session[e]] \in {"acking", "serving", "leaked"}
        PROVE  registry'[e] = session[e] /\ ~offline'[e]
    <3>1. CASE e = d
      BY <2>2, <2>3, <3>1
    <3>2. CASE e # d
      <4>1. session[e] # c /\ phase'[session[e]] = phase[session[e]]
        BY <1>1, <2>2, <2>5, <3>2
      <4> QED
        BY <2>2, <2>5, <3>2, <4>1 DEF CurrentInv, SessionIsCurrent
    <3> QED
      BY <3>1, <3>2
  <2>6. RegisteredIsClosing'
    BY <2>1, <2>2 DEF CurrentInv, RegisteredIsClosing
  <2> QED
    BY <2>1, <2>4, <2>5, <2>6 DEF CurrentInv, SessionIsCurrent
<1>5. CASE HelloRefused(c) \/ AckSent(c) \/ AckFails(c)
  <2>1. UNCHANGED <<alive, revoked, offline, registry, owner, session, closing, out>>
    BY <1>5 DEF HelloRefused, AckSent, AckFails, durable, flags, agent
  <2>2. \A x \in Conns :
          /\ phase'[x] = "hello" => phase[x] = "hello"
          /\ phase'[x] \in {"acking", "serving", "leaked"} =>
               phase[x] \in {"acking", "serving", "leaked"}
    BY <1>5 DEF HelloRefused, AckSent, AckFails, Safe, TypeOK, ConnTypeOK
  <2> QED
    BY <1>1, <2>1, <2>2 DEF CurrentInv, HelloIsCurrent, SessionIsCurrent, RegisteredIsClosing
<1>6. CASE Cleanup(c)
  <2>1. phase[c] = "serving" /\ d \in Devices /\ UNCHANGED <<alive, revoked, owner, session>>
    <3>1. phase[c] = "serving" /\ UNCHANGED <<alive, revoked, owner, session>>
      BY <1>6 DEF Cleanup, Ends, agent
    <3> QED
      BY <1>2, <3>1
  <2>2. /\ phase'[c] = "done"
        /\ \A x \in Conns \ {c} : phase'[x] = phase[x] /\ out'[x] = out[x]
                                  /\ (closing[x] => closing'[x])
    BY <1>6 DEF Cleanup, Ends, Safe, TypeOK, MemoryTypeOK
  <2>3. \A e \in Devices :
          /\ registry'[e] = IF e = d /\ registry[e] = c THEN NoConn ELSE registry[e]
          /\ offline'[e] => offline[e] \/ (e = d /\ registry[d] = c)
    BY <1>6 DEF Cleanup, Superseded, Safe, TypeOK, RowsTypeOK, MemoryTypeOK
  <2>4. HelloIsCurrent'
    BY <2>1, <2>2 DEF CurrentInv, HelloIsCurrent
  <2>5. ASSUME NEW e \in Devices, session[e] # NoConn,
               phase'[session[e]] \in {"acking", "serving", "leaked"}
        PROVE  registry'[e] = session[e] /\ ~offline'[e]
    <3>1. session[e] # c /\ phase'[session[e]] = phase[session[e]]
      BY <1>1, <2>2, <2>5
    <3>2. registry[e] = session[e] /\ ~offline[e]
      BY <2>5, <3>1 DEF CurrentInv, SessionIsCurrent
    <3> QED
      BY <2>3, <3>1, <3>2
  <2>6. ASSUME NEW e \in Devices, alive, revoked[e], registry'[e] # NoConn
        PROVE  closing'[registry'[e]] /\ out'[registry'[e]] = <<>>
    <3>1. registry'[e] = registry[e] /\ registry[e] # NoConn
      BY <2>3, <2>6
    <3>2. registry[e] \in Conns /\ registry[e] # c
      BY <1>3, <2>3, <2>6, <3>1
    <3>3. closing[registry[e]] /\ out[registry[e]] = <<>>
      BY <2>6, <3>1 DEF CurrentInv, RegisteredIsClosing
    <3> QED
      BY <2>2, <3>1, <3>2, <3>3
  <2> QED
    BY <2>1, <2>4, <2>5, <2>6 DEF CurrentInv, SessionIsCurrent, RegisteredIsClosing
<1>7. CASE Silence(c) \/ Heartbeat(c) \/ OnAccepted(c) \/ OnResult(c)
  <2>1. UNCHANGED <<alive, revoked, offline, registry, owner, phase, session, closing, out>>
    BY <1>7 DEF Silence, Heartbeat, OnAccepted, OnResult, Receives, Touch, durable, agent
  <2> QED
    BY <2>1, CurrentFrame
<1>8. CASE SendLoop(c)
  <2>1. /\ UNCHANGED <<alive, revoked, offline, registry, owner, phase, session, closing>>
        /\ out[c] # <<>> /\ out' = [out EXCEPT ![c] = Unsent(c)]
    BY <1>8 DEF SendLoop, conn, flags, durable
  <2>2. \A x \in Conns : out[x] = <<>> => out'[x] = <<>>
    BY <2>1 DEF Safe, TypeOK, MemoryTypeOK
  <2> QED
    BY <1>3, <2>1, <2>2, CurrentFrame
<1> QED
  BY <1>4, <1>5, <1>6, <1>7, <1>8 DEF Handler

LEMMA CurrentAgent ==
  ASSUME HellosInOrder, Safe, CurrentInv, NEW d \in Devices, Agent(d)
  PROVE  CurrentInv'
<1>1. \A e \in Devices : session[e] # NoConn =>
        session[e] \in Conns /\ owner[session[e]] = e /\ phase[session[e]] # "free"
  BY DEF Safe, DeliveryInv, ConnsFit, TypeOK, AgentTypeOK
<1>2. ASSUME NEW c \in Conns, AgentConnect(d, c)
      PROVE  CurrentInv'
  <2>1. /\ session[d] = NoConn /\ phase[c] = "free"
        /\ UNCHANGED <<alive, revoked, offline, registry, closing, out>>
    BY <1>2 DEF AgentConnect, durable, flags
  <2>2. /\ \A x \in Conns : /\ phase'[x] = IF x = c THEN "hello" ELSE phase[x]
                            /\ owner'[x] = IF x = c THEN d ELSE owner[x]
        /\ \A e \in Devices : session'[e] = IF e = d THEN c ELSE session[e]
    BY <1>2 DEF AgentConnect, Safe, TypeOK, ConnTypeOK, AgentTypeOK
  <2>3. ASSUME NEW x \in Conns, phase'[x] = "hello"
        PROVE  session'[owner'[x]] = x
    <3>1. CASE x = c
      BY <2>2, <3>1
    <3>2. CASE x # c
      <4>1. session[owner[x]] = x /\ owner[x] \in Devices
        BY <2>2, <2>3, <3>2 DEF CurrentInv, HelloIsCurrent, Safe, DeliveryInv, ConnsFit
      <4>2. owner[x] # d
        BY <2>1, <4>1, NoConnAssumption
      <4> QED
        BY <2>2, <3>2, <4>1, <4>2
    <3> QED
      BY <3>1, <3>2
  <2>4. ASSUME NEW e \in Devices, session'[e] # NoConn,
               phase'[session'[e]] \in {"acking", "serving", "leaked"}
        PROVE  registry[e] = session'[e] /\ ~offline[e]
    <3>1. e # d
      BY <2>2, <2>4
    <3>2. session'[e] = session[e] /\ session[e] \in Conns /\ session[e] # c
      BY <1>1, <2>1, <2>2, <2>4, <3>1
    <3>3. phase'[session[e]] = phase[session[e]]
      BY <2>2, <3>2
    <3> QED
      BY <2>4, <3>2, <3>3 DEF CurrentInv, SessionIsCurrent
  <2> QED
    BY <2>1, <2>3, <2>4 DEF CurrentInv, HelloIsCurrent, SessionIsCurrent, RegisteredIsClosing
<1>3. CASE AgentDrop(d)
  <2> DEFINE c == session[d]
  <2>1. c \in Conns /\ UNCHANGED <<alive, revoked, offline, registry, owner, closing, out>>
    BY <1>1, <1>3 DEF AgentDrop, durable, flags
  <2>2. \A x \in Conns :
          phase'[x] = IF x = c /\ phase[x] = "hello" THEN "done" ELSE phase[x]
    BY <1>3, <2>1 DEF AgentDrop, Safe, TypeOK, ConnTypeOK
  <2>3. \A e \in Devices : session'[e] = IF e = d THEN NoConn ELSE session[e]
    BY <1>3 DEF AgentDrop, Safe, TypeOK, AgentTypeOK
  <2>4. ASSUME NEW x \in Conns, phase'[x] = "hello"
        PROVE  session'[owner[x]] = x
    <3>1. x # c /\ phase[x] = "hello"
      BY <2>2, <2>4
    <3>2. session[owner[x]] = x /\ owner[x] \in Devices
      BY <3>1 DEF CurrentInv, HelloIsCurrent, Safe, DeliveryInv, ConnsFit
    <3> QED
      BY <2>3, <3>1, <3>2
  <2>5. ASSUME NEW e \in Devices, session'[e] # NoConn,
               phase'[session'[e]] \in {"acking", "serving", "leaked"}
        PROVE  registry[e] = session'[e] /\ ~offline[e]
    <3>1. session'[e] = session[e] /\ session[e] \in Conns /\ session[e] # NoConn
      BY <1>1, <2>3, <2>5
    <3>2. phase[session[e]] \in {"acking", "serving", "leaked"}
      BY <2>2, <2>5, <3>1
    <3> QED
      BY <3>1, <3>2 DEF CurrentInv, SessionIsCurrent
  <2> QED
    BY <2>1, <2>4, <2>5 DEF CurrentInv, HelloIsCurrent, SessionIsCurrent, RegisteredIsClosing
<1>4. CASE AgentReceive(d) \/ \E j \in Jobs : AgentRun(d, j) \/ \E r \in Reports : AgentFinish(d, j, r)
  <2>1. UNCHANGED <<alive, revoked, offline, registry, owner, phase, session, closing, out>>
    BY <1>4 DEF AgentReceive, AgentRun, AgentFinish, durable, volatile, conn, flags
  <2> QED
    BY <2>1, CurrentFrame
<1> QED
  BY <1>2, <1>3, <1>4 DEF Agent

LEMMA AlwaysCurrent ==
  ASSUME HellosInOrder
  PROVE  Spec => []CurrentInv
<1>1. ASSUME Safe, CurrentInv, [Next]_vars
      PROVE  CurrentInv'
  <2>1. CASE UNCHANGED vars
    <3>1. UNCHANGED <<alive, revoked, offline, registry, owner, phase, session, closing, out>>
      BY <2>1 DEF vars, durable, volatile, conn, flags, agent
    <3> QED
      BY <1>1, <3>1, CurrentFrame
  <2> QED
    BY <1>1, <2>1, CurrentServer, CurrentHandler, CurrentAgent DEF Next
<1> QED
  BY <1>1, CurrentInit, AlwaysSafe, PTL DEF Spec

(* While no hello outlives its socket, a device whose agent is served is    *)
(* not marked gone by the cleanup of a connection it left earlier.          *)
THEOREM LiveDevicesAreNotGone ==
  ASSUME HellosInOrder
  PROVE  Spec => []LiveDeviceNotMarkedGone
<1>1. CurrentInv => LiveDeviceNotMarkedGone
  BY DEF CurrentInv, SessionIsCurrent, LiveDeviceNotMarkedGone
<1> QED
  BY <1>1, AlwaysCurrent, PTL

(* Nor does the agent of a revoked device hold a served socket that is not  *)
(* being closed, or a job that is still to be sent on it.                  *)
THEOREM RevokedDevicesAreCutOff ==
  ASSUME HellosInOrder
  PROVE  Spec => []RevokedIsCutOff
<1>1. Safe /\ CurrentInv => RevokedIsCutOff
  BY DEF CurrentInv, SessionIsCurrent, RegisteredIsClosing, RevokedIsCutOff
<1> QED
  BY <1>1, AlwaysSafe, AlwaysCurrent, PTL
=============================================================================
