# A verification of the RMM control plane, its agent and its AI driver

TLA+ models of the parts of this repository whose correctness depends on the
order in which things happen, the TLC runs that check them on small instances,
and TLAPS proofs of the facts that hold for every instance.

    tlc -workers 2 -config JobsTwo.cfg MCControlPlane.tla   # a run
    tlapm ControlPlane_proofs.tla                           # the proofs

`PROJECT.json` lists the components, the runs, for every definition the source
lines it stands for, the hazards and the findings.

## 1. The system

One Python process (FastAPI, one asyncio loop, one uvicorn worker) is the
control plane. It keeps SQLite rows and, in memory, the jobs in flight and the
connected devices. Windows machines run a C# agent that holds one WebSocket to
it. Operators use HTTP. An AI driver (worker threads of the same process that
call the process's own HTTP API) diagnoses problems and applies approved
repairs.

| Component | State | Operations | Hard because |
|---|---|---|---|
| Job dispatch and life cycle (`server/jobs.py`, `main.py`, `store.py`) | `jobs` rows; `JobStore._jobs`; idempotency keys | dispatch, accepted, result, evict, orphan at startup | two copies of every state; late and lost messages; a crash between two commits |
| Connections (`registry.py`, `agent_connect`) | registered connection of a device, its queue, `closed`, `last_seen` | hello, ack, send loop, receive loop, cleanup | the handlers of an old and a new socket overlap |
| Supervisor (`supervise`) | none | one tick: evict, fail unreachable and overdue jobs | races with every result |
| Revocation | `devices.revoked`, `DeviceConnection.revoked` | revoke, restore | must take effect on jobs queued, sent and running |
| Agent (`src/SquashRmm.Agent`) | the socket, a task per job, one gate around sending | receive, run, report, drop the session | the session ends in the middle of a script |
| Output capture (`OutputCapture.cs`, `ScriptExecutor.cs`, `limit_output`) | a bounded buffer per stream; the script's process and pipes | read, cut, time out, kill, report, check again | pipes that fill, processes left behind, a timeout at any moment; boundaries in bytes and characters |
| Enrollment (`main.py`, `Enrollment.cs`), installer, upgrade | tokens, devices, the agent's key, marker and token files, its service | mint, redeem, rebind, save, install, upgrade, remove | one-time tokens, a crash between server and disk, a setup that fails half way |
| Restart tracking (`reboots.py`) | `restarts` rows; the coroutines that wait | request, check, send, follow, offline, back, watch | every event may come late, early or never |
| Boot detection (`detect_reboot`) | last uptime and when it was observed | judge an uptime | arithmetic with tolerances and two clocks |
| Inventory (`inventory.py`) | snapshot and last attempt; one collection per device | collect, finish | a failed attempt beside an older snapshot |
| Investigations (`investigations.py`, `main.py`) | `investigations`, evidence and proposal rows; two workers | submit, claim, store, propose, decide, apply, recover | a crash between any two commits; two operators; lapsing approvals |
| Planner and applier (`driver/remediation.py`), client (`rmm.py`) | none | authorize, check, dispatch, wait, verify | a retry of what was already done |
| Investigator and budget (`investigator.py`, `limits.py`) | counters of one diagnosis | model turn, check, stop | several limits, checked at different places |
| Event-log query, lists, dashboard, catalogues, model client, fencing, redaction, tools | none of their own | | pure I/O or text |

How they interact: the HTTP routes of restarts, inventory, event logs, upgrades
and the driver all go through `send_to_device`, so every one of them is a job
of the first component. The end and the return of a connection call the
restart tracker. The supervisor ends the jobs that restarts and repairs wait
for. At startup `lifespan` fails every job in flight and hands interrupted
investigations back to their workers.

What makes each correct, in a sentence: a job starts at most once, its answer is
final and both copies of it agree; a connection's cleanup never speaks for its
successor; a revoked device does nothing; stored output is what the script
wrote, up to a limit and marked if it is less; a restart is never invented from
an interruption; a restart's record tells what the machine did and is closed in
the end; an inventory from before a restart is not shown as current; an investigation runs exactly the repair
a human approved, at most once, and ends.

## 2. Modules

| Module | What it is |
|---|---|
| `JobContract` | what callers are promised about jobs: the abstract specification |
| `ControlPlane` | jobs, connections, supervisor, revocation, agents, crashes; implements `JobContract` |
| `ControlPlane_proofs` | its TLAPS proofs |
| `JobOutput` | one job inside the agent: the script, its pipes, the readers, the timeout; and its result as the server stores it |
| `JobOutput_proofs` | its TLAPS proofs |
| `Restarts` | tracked restarts of one device, with the machine |
| `Restarts_proofs` | its TLAPS proofs |
| `BootTracking` | connections, uptimes and clocks of one device: how a restart is told from an interruption |
| `BootTracking_proofs` | its TLAPS proofs |
| `Inventory` | the stored inventory of a device, on top of `BootTracking` |
| `Inventory_proofs` | its TLAPS proofs, on top of those of `BootTracking` |
| `Investigation` | one investigation, from report to verified repair |
| `Investigation_proofs` | its TLAPS proofs |
| `Investigator` | one diagnosis: the loop with the model, under the budget |
| `Investigator_proofs` | its TLAPS proofs |
| `Enrollment` | how machines become devices: tokens, keys, the agent's files, installation, upgrade and removal |
| `Enrollment_proofs` | its TLAPS proofs |
| `MCControlPlane`, `MCRestarts`, `MCInvestigation`, `MCInvestigator`, `MCEnrollment` | model values for TLC; symmetry in `jobs_two` and in the last |

How they fit: `ControlPlane` shows that a job starts at most once, ends, and
answers finally; `JobOutput` opens the one step in which it runs. `Restarts`
and `Investigation` take from a job only its end. `BootTracking` justifies the
verdicts that `Restarts` chooses from, and `Inventory` extends it: every step
of `Inventory` is a step of `BootTracking` or leaves its variables alone
(proved), so what is shown of the verdicts holds in it.

**Conventions.** The server is one asyncio loop, so what a handler does between
two `await`s is one action. Where one handler commits twice, a crash may fall
between the commits; those places are the actions named `CrashIn...`. Worker
threads of investigations interleave with the loop at every store call. Clocks
are nondeterministic: a timeout may fire at any moment its guard allows, except
where a comment names the fact about time that is kept. Operators named
"Mutated form" play no part in the specifications: they are wrong versions of
the definition that follows them, kept to show that a property would notice.

### ControlPlane

| Code | Model |
|---|---|
| `jobs.state`, `JobStore._jobs` | `db`, `mem` ("none" when there is no row or entry) |
| `jobs.device_id`, `idempotency_key` | `req` |
| `DeviceRegistry._devices`; `DeviceConnection` | `registry`; `owner`, `fresh`, `barred`, `closing`, `out` |
| how far `agent_connect` is | `phase` |
| `devices.revoked`, `last_disconnect_at` | `revoked`, `offline` |
| the two directions of a socket, the agent's socket and tasks | `down`, `up`, `session`, `task`; `runs` is history |

A socket that dies loses what is on it. The agent's drop of its session does
not tell the server: the server's handler ends on its own (`Cleanup`), earlier
or later. A hello may outlive the socket it was sent on unless `HellosInOrder`
is TRUE: bytes the server has not read yet survive the agent's close.
`Keys` holds `NoKey` when some requests carry no idempotency key.

### Restarts

Records go "none", `scheduling`, `scheduled`, `offline`, and close as
`completed`, `not_restarted` or `failed`. `asking` holds the requests that
await the pending-reboot check: no record exists yet. The
connection is cut down to `link` and `fresh`. The machine has `boots`, `up`
and the shutdown that is `booked`. `Verdicts` is what `detect_reboot` may say:
a boot already seen is never called new; a new one may be missed. One fact
about time is kept: the check's job ends after 35 s at the latest, later than
the 30 s of silence after which a device is not reachable, so a device that is
still reachable after an unanswered check was heard from during it (`heard`).
Without it `ConfirmedIsNewBoot` fails. `askedAt` is the boot under way at the
request: the one the machine is in or, when it is down, the one that will end
that (`BootUnderWay`). A confirmed boot is later than it, so that neither a boot
that is over but unreported nor one that has just begun is taken for the one
asked for.

Left out: that `went_offline` passes over a record requested later than the
disconnection (`reboots.py:79`), which takes a clock that was set back. A record
of a retry may follow a job that has left memory (`Follow`); a key that was used
meanwhile for another request fails its record (`SendRefused`).

`Verdicts` is what `BootTracking` shows of the arithmetic, on its assumptions.
Not modelled here: the pending-reboot fields and the inventory refresh after a
reboot (that is in `Inventory`), on which no transition depends.

A record stays in `scheduling` for ever when the server stops between the
command's dispatch and the follower's start or end, and the machine then
neither goes down nor comes back: `reboots.overdue` has no clause for that
status. `TrackedRestartCloses` says that this is the only way.

### BootTracking

| Code | Model |
|---|---|
| `devices.last_uptime_seconds`, `..._observed_at`, `..._monotonic`, `..._epoch` | `row`; `rowBoot`, the boot it came from, is history |
| `OBSERVER_EPOCH`, `time.time()`, `time.monotonic()` | `epoch`, `now + adjust`, `now` |
| `UptimeSeconds` of a hello, `parse_reported_uptime` | `hello`; `Reports`: whole seconds, or none |
| the registered connection; the machine | `link`; `up`, `started` |

Time advances in whole seconds; a boot is named by when it began. The property
is a statement about the next verdict: whatever hello is on its way, handled
now or later, `Verdict` never calls one boot two, and calls two boots two when
the earlier lasted longer than `Missable`. Assumed, as named ASSUMEs: a hello
is handled within `MaxDelay` of the reading of the uptime it carries, and
`MaxDelay`, the rounding of the uptime and the adjustments of the server's wall
clock (`MaxAdjust`; they matter only across a restart of the server) fit in the
tolerances.
Hellos of one device are handled in the order they were sent: a hello that is
overtaken by a later one would be taken for a restart.

### Inventory

| Code | Model |
|---|---|
| `_inventory_in_flight` | `collecting` |
| the `_finish_inventory` tasks and their jobs | `waiting` |
| the row of `device_inventory` | `record`, with the time its script ran as history |
| `start_inventory`, `refresh_inventories`, `refresh_inventory`, `refresh_inventory_if_due` | `StartInventory`, `Refresh`, `RefreshNow`, `RefreshIfDue` |
| the task `agent_connect` makes for a collection, until it runs | `pending` |
| `_finish_inventory` | `Collected`, `NotCollected` |

The `try`/`finally` around the mark is one step with the dispatch, because
nothing awaits between them. `_finish_inventory` awaits the job and then stores
and unmarks in one step. A job's answer comes over the session it was sent on;
it may be handled after that session is over, but not after the machine has
booted again. `changed` (history) is set by a detected restart and cleared by the
next snapshot, or with the process: a restart of the server forgets what it had
detected, and the next collection is then due by age only. So does a refusal of
the forced collection, which takes a revocation in the one round of the loop
between the connection and its task. What `inventory.parse` checks is abstracted
to usable or not.

### JobOutput

| Code | Model |
|---|---|
| `RunAsync`, `ExecuteAsync` | `runner`, `expired` |
| `OutputCapture.ReadAsync` per stream, `Utf8Budget` | `reader`, `capture` |
| the script's process, what it has to write, the pipes | `process`, `todo`, `pipe`; `held`: another process holds the streams |
| `JobResult`; the stored row | `sent`, `stored` |

A character is told apart by its size in UTF-8, so that the limit falls before,
on or inside characters and surrogate pairs. Reads are one character at a time:
`Append` carries an unpaired half over from chunk to chunk, so the chunks make
no difference. An older agent (`legacy`) keeps to no limit in bytes; the server
cuts what it sends. `WaitForExitAsync` takes a token that has passed as
cancelled, so an exit is noticed only before the timeout. An exited script may
leave a process behind that holds its streams, which `TryKill` does not reach.

Not modelled: CLIXML, which `CliXml.Decode` unwraps from the error stream of
PowerShell; what the end of a session does to a running script, which is in
`ControlPlane`; the strings in which the agent explains a failure.

### Investigation

Investigations share only the device, so one is modelled. `diagnosis` and
`repair` are the places of the two workers, `wire`, `ran` and `done` follow the
repair's job to the device and back; of the job itself only its end is kept,
because `ControlPlane` shows what jobs do: they start at most once, and
the supervisor ends them. Proposals are named by the diagnosis run that made
them; a run is made by the report and by each recovery, so `MaxCrashes + 1` of
them suffice and no other bound is needed. `seen` records which proposals an operator was shown: the hash
that must come with a decision is known from nowhere else. `lapsed` is the
15-minute window of the proposal and, once approved, of the approval (both are
`APPROVAL_TTL_SECONDS`). Anyone may change the machine at any time (`Drift`).
With `LostCalls` a worker's call may go unanswered, which its client reports, or
raise something nobody expects, which ends the worker (`DiagnosisFails`,
`ApplyBreaks`).

The rebuilt script and its hashes are the proposal's identity here. The branch
of `decide_investigation` that heals a recorded but unscheduled decision is
folded into `Decide`; recovery runs before requests are served, so it never
finds one. The refusal of `_run_apply` for a missing device or an undecided
proposal (`investigations.py:314-319`) has no action either: no row of `devices`
is ever deleted, and a worker that applies has an approved proposal (`WorkersFit`
and `StatusFits`, proved).

### Investigator

`pc` says where `investigate` is: "asking" the model, "running" the calls of
its reply (`calls`), "reporting" (`_final_word`), "finished", or "raised" when
an exception has left it. The counters are
those of `Budget`. Each iteration of the inner loop is a step, because the
clock may pass the limit between two calls. A check ends in one of four ways:
its script succeeds; it fails or its answer is lost, which costs a job all the
same; it is not dispatched at all; or the client fails over its answer in a way
`_run_one` does not catch (`Raises`), which ends the diagnosis with a job that
is not counted. `dispatched` and `refused` are history.

`finding` is what `Investigation.concluded` tests. It says less than its name:
a diagnosis cut off by its budget whose final word is not empty has one too, and
the server, which goes by it (`investigations.py:202`), stores that diagnosis as
concluded and does not keep `stopped_because`. `CutOffIsSaid` is about
`stopped_because` alone.

What the model makes visible: calls whose arguments are no JSON object are
counted by nothing, so only the clock stops a model that sends nothing else;
the calls of a reply that follow a refused one are still run if the budget lets
them pass; the output is compared before a check and advanced after it, so it
may pass its limit by less than one answer. The client asks the hosted model
for one call per reply (`parallel_tool_calls`); the loop is written for
several, and is modelled with several.

### Enrollment

| Code | Model |
|---|---|
| `enrollment_tokens` | `token` ("live", "expired", "used"), `grant` (`allow_rebind`, `bound_device_id`) |
| `devices.public_key`, `devices.revoked` | `pubkey`, `revoked` |
| `state/device.key`, `state/enrolled`, `state/enroll.token` | `keyFile`, `marker`, `tokenFile` |
| `ExecuteAsync`'s loop, `EnsureEnrolledAsync`, `keyIsNew` | `phase`, `keyIsNew` |
| `install.ps1`, the scheduled `UPGRADE_SCRIPT`, `uninstall.ps1` | `Install`, `Upgrade`, `Uninstall`; `phase` "absent" is a machine without the service |
| requests whose agent no longer waits | `stray` |
| | `made`, `registered`: history |

The server answers `enroll` in one step of its loop and keeps nothing in
memory; a crash shows only between its two commits (`DiesOver`): token spent,
key not registered. On the agent a refusal, a lost answer and a marker that
cannot be written all throw, and the loop comes round; so does a token that
cannot be deleted, unless the error is an `IOException` (`DiscardFails`). Cloned machines share an
`id`. The setup scripts stop the agent wherever it is; an upgrade is the
installer without a token, run by a scheduled task some time after the job that
scheduled it. The installer deletes the service before it downloads the agent:
a download that fails leaves a machine whose agent is gone until somebody
installs again, an upgrade's too. Two setup scripts at once are left out. The
key file is lost only while the agent is down, since a running agent holds the
key in memory. The fallback `Enrollment:Token` of the configuration is a token
file that cannot be deleted, which `DiscardToken` allows.

No liveness is claimed: a lost answer spends the token, and the agent that
waited for it needs a new one (`docs/threat-model.md:98` says so).

## 3. Runs

| Run | Instance | Shows |
|---|---|---|
| `jobs_two` | 1 device, 2 jobs without a key, 2 connections, hellos in order, 1 crash | `MemoryMatchesRows`, `RevokedIsQuiet`, `RevokedIsCutOff`, `RunsAtMostOnce`, `CompletedWasRun`, `AnswerIsFinal`, `LiveDeviceNotMarkedGone`; the refinement `ImplementsContract` |
| `jobs_crash` | 2 requests under 1 key, 2 connections, 1 crash, fairness | `KeyNamesOneJob`, `EveryJobSettles`, `GoneDeviceFades` |
| `output` | scripts of up to 4 characters on 2 streams, pipes of 1, limit 4 bytes, fairness | `StoredFits`, `OutputIsDrained`, `TimeoutAnswers` |
| `restart_tracking` | 2 records, 1 key, 2 boots, 1 crash, fairness | `ConfirmationFits`, `ConfirmedIsNewBoot`, `ClosedIsFinal`, `TrackedRestartCloses` |
| `inventory` | 3 time units, 1 server restart, every clock setting | `VerdictIsSound`, `RebootShows`, `MarkHasTask`, `SnapshotMovesForward` |
| `repair` | 2 operators, 2 crashes, lost calls, fairness | the safety of repairs and decisions, `InvestigationEnds` |
| `diagnosis` | 3 checks, replies of up to 3 calls, fairness | `WithinLimits`, `DispatchesAreCounted`, `CutOffIsSaid`, `DiagnosisEnds` |
| `enrolment` | 2 machines, 2 ids, 2 tokens, 2 keys, 1 stray request | `OneKeyPerToken`, `MarkerWasEarned`, `ReplacedByRecovery`, `InstalledIsEnrolled` |

**Why the bounds are enough.** Jobs meet only in the idempotency key, the
queue of a connection and the agent's tasks: two show every pairing. Connections
meet only in the registry, where one replaces another: two show the overlap and
the cleanup of the first after the second has registered, and in `jobs_crash`
the connection on which a request is retried whose first dispatch a crash cut
off: a crash leaves no connection usable. A
second crash strikes what the recovery from the first has resumed, which only
an investigation resumes; nothing counts crashes. A limit of four bytes holds
one surrogate pair or four single bytes: it falls on every boundary of the
characters used, and a pipe of one character is full after every write. Three
units of time hold a boot, an interruption, another boot and a stale snapshot,
with tolerances of one and two; what they mean for every size is proved. They
are too few for a long boot on an unreliable clock (`Missable` exceeds
`MaxTime`): of that half of `VerdictIsSound` only the proof speaks. Two restart records meet in the key; one boot before and one
after the request are what a confirmation can confuse. Three diagnosis runs are
the first, a repeated one, and one repeated again. The limits of `diagnosis`
are small but distinct and in the order of the defaults of `Budget`, and a reply
is long enough to hit one limit and go on. Two machines are needed for clones
and two tokens for an ordinary one beside a recovery token, or a repeated
enrolment; with two keys, one machine may lose its key and make another, or each
may have one; one stray request may arrive after the one that replaced it.

**Violations.** These runs fail, each on one statement of the repository; the
traces are the findings of `PROJECT.json`.

| Run | What the trace shows |
|---|---|
| `restart_retry_race` | a retry during the pending-reboot check makes a second record for the same job |
| `restart_blip` | a network drop during the delay closes the restart as `not_restarted` while it is still pending |
| `repair_forgotten` | a crash after the repair completed: the resumed worker refuses it (fault gone, or approval lapsed) and stores "failed, not applied" |
| `output_cut_short` | the timeout falls between the script's exit and the end of its output: the rest is discarded, the job is Completed and not flagged as cut |

**Known without a run of its own.** With `HellosInOrder` FALSE in `JobsTwo.cfg`,
`LiveDeviceNotMarkedGone` fails: the hello of an abandoned socket is handled
after its successor's and takes the registration, and its cleanup marks a live
device gone (`main.py:931`, `973-976`). And a machine that lost its key but not
its marker, and whose agent is started twice before it enrols again, takes the
new key for an enrolled one the second time (`Enrollment.cs:21`: the marker is
not tied to a key): `MarkerWasEarned` therefore says only that a key of the
machine was registered. `docs/api.md` says of an upgrade that the agent
"reconnects": after a failed download it does not, see Enrollment.

**Fairness.** Only what the code schedules by itself is fair: the ticks of
`supervise` and `watch_restarts` (endless loops; weak fairness of the tick that
finds a given job overdue; for a restart record, that one of the steps that
advance it by themselves is taken), the start of a crashed server (its service
manager), the readers of a script's output, its cancelled wait and its report
(tasks of the agent), the script's own writing while it can, the noticing of a dead socket (TCP and the WebSocket ping),
and the workers of an investigation (threads whose calls all have deadlines),
among them the diagnosis loop, for which the clock must also advance.
Operators, devices, live sockets, the exit of a script and its timeout are
promised nothing.

Deadlock is not checked where a behaviour may run out of jobs, connections,
boots, keys, time and crashes, which are bounded, or is over (a diagnosis, the
output of a job); `repair` checks it.

## 4. Proofs

Every safety property that a run checks, invariant or action property, and the
refinement of `JobContract` are also proved, for every value of the constants
that meets the named assumptions. TLC checks the same properties on the instances
of section 3.

`ControlPlane_proofs` proves, for any sets of devices, jobs, keys and
connections and any bound on crashes:

| Theorem | States |
|---|---|
| `TypeCorrect` | `TypeOK` |
| `MemoryAgrees` | while the server runs, memory and rows agree and no active job is missing from memory |
| `AnswersAreFinal` | `AnswerIsFinal`: an answered end state never changes |
| `KeysNameOneJob` | a key never names two jobs |
| `RevokedStaysQuiet` | a revoked device has no active job and is not reachable |
| `ScriptsRunOnce` | `RunsAtMostOnce`: a job starts at most once, on its own device |
| `CompletedMeansRun` | `CompletedWasRun` |
| `ControlPlaneKeepsContract` | `ImplementsContract`: every step is a step or a stutter of `JobContract` |
| `LiveDevicesAreNotGone` | `LiveDeviceNotMarkedGone`, if `HellosInOrder` |
| `RevokedDevicesAreCutOff` | `RevokedIsCutOff`, if `HellosInOrder` |

They rest on the named assumptions of the module (`NoConn` and
"no device" lie outside their sets, `MaxCrashes` is a number, `Reports` are
kinds of result). All but the last two hold for either value of
`HellosInOrder`; those two assume it TRUE, as the run does that checks them:
without it the first is false (see "Known without a run of its own").

*Types.* `TypeOK` is inductive. The step is split by actor: server, handler,
agent, crash.

*Memory and rows.* `MemoryMatchesRows` is not inductive: it is silent while the
server is down, and a job id no row has might be in memory. `RowsAgree` adds
that memory is empty while the server is down and that an unused id has neither
a row nor an entry. The same pass over the actions shows for every job
`Forward(j)`, that no step leaves a terminal row; with `ViewIsRow` (what
`view` answers is the row, memory or not) this gives `AnswersAreFinal` with no
second case analysis.

*Keys.* `KeyNamesOneJob` is inductive by itself, since `Dispatch` and
`CrashInDispatch`, the only actions that name a key, ask for an unused one in
the rows, not in memory.

*Revocation.* Quiet means not reachable and no active job. The invariant says
more: the registered connection belongs to the device it is registered for,
it is barred while the device is revoked, no job of a revoked device is active
in memory, and the registry is empty while the server is down. A hello of a
revoked device is refused, hence nothing unbarred can be registered; the rest
follows by cases.

*Deliveries.* `RunsAtMostOnce` looks only at what has run; that it stays true
depends on every copy of the job that is still under way. `DeliveryInv` says
where those are: a job is at one place at most among all queues and sockets
(`OncePlaced`); what is queued or on the wire belongs to the connection's device
and was never started nor taken up by a task (`QueuesFit`); a task's state fits
the history of its job (`TasksFit`); a result on its way back was run by the
connection's owner (`ResultsFit`); connections are used once (`ConnsFit`).
Most actions only empty queues, lose messages or end tasks: `DeliveryFrame`
covers them together, and `Dispatch`, the sender, the agent's receipt, start and
report are left to be proved one by one.

*Contract.* The row of a job moves as `JobContract` allows (`Forward`), starts
are counted once (`RunsForward`), and only a job that ran can be reported as
completed (`ReportedWasRun`): together a step of the contract for every job
that is not a stutter.

*Connections.* `CurrentInv` says that a hello that waits is that of the socket
its agent still holds, that an agent's served socket is the one registered for
its device, and that the registered socket of a revoked device is being closed
and has an empty queue. The first part is where `HellosInOrder` is used: an
agent that leaves a socket takes its unread hello with it.

`Investigator_proofs` proves, for any checks and any limits:

| Theorem | States |
|---|---|
| `TypeCorrect` | `TypeOK`: also that a diagnosis that is over says why |
| `LimitsHold` | `WithinLimits` |
| `DispatchesCounted` | `DispatchesAreCounted` |
| `CutOffsAreSaid` | `CutOffIsSaid` |

It assumes that the limits are numbers and that the unreadable call is no
check. *Control and counters* are proved apart: `OnlyAttempts` shows that a
step leaves every counter alone, attempts a check, or is left over one
(`LeftOver`), so what holds of the
counters is proved over attempts and not over actions. Control needs
`StopHasReason`: a loop that is stopped was stopped by the budget, or it could
report without a reason, or with a finding of a diagnosis that has none. *Limits* hold because
the numbers are below them before an attempt and each advances by one; the
output advances by `MaxSize` at most. *Cut-offs* need `CutOffInv`: after a
refusal the loop never asks the model for tools again, for `stop` stays set
through the rest of the reply.

`Enrollment_proofs` proves, for any machines, ids, tokens, keys and bound on
stray requests:

| Theorem | States |
|---|---|
| `TypeCorrect` | `TypeOK`: also that a running agent has a key, and one that asks a token |
| `TokensAreSpent` | `OneKeyPerToken` |
| `MarkersAreEarned` | `MarkerWasEarned` |
| `KeysAreRecovered` | `ReplacedByRecovery`: a registered key is replaced by a recovery token of that device only |
| `InstallersTellTheTruth` | `InstalledIsEnrolled`: a token file disappears only after a registration of the key on disk |

`NoToken`, `NoKey` and `NoDevice` lie outside their sets. `OneKeyPerToken` is
inductive on top of the types: a registration needs a live token and leaves it
used, and a used token is never live again. `MarkerWasEarned` is not: it says
nothing of an agent that has its answer and is about to write the marker.
`MarkerInv` adds those, and that an agent's key is one its machine made;
`HistoryGrows` carries an earned registration through every other step. The
two action properties need one fact each about the state before the step:
`GrantsFit`, that a token which may rebind is bound to a device, which the
server only asks when it mints one; and `EnrolledInv`, that from the answer to
the end of the enrolment the key on disk is the registered one, although the
machine may lose its key or be installed over in any other phase.

`BootTracking_proofs` and `Inventory_proofs` prove, for any tolerances, delays,
ages and bounds that meet the named assumptions:

| Theorem | States |
|---|---|
| `BootTypeCorrect`, `TypeCorrect` | the types of the connections; `TypeOK` of the inventory |
| `VerdictsAreSound` | `VerdictIsSound` of connections alone: no restart invented, no long boot's end missed |
| `ForcedForReason` | the same of a device whose inventory is collected |
| `EveryMarkHasTask` | `MarkHasTask` |
| `RebootsShow` | `RebootShows` |
| `SnapshotsMoveForward` | `SnapshotMovesForward` |

*Verdicts.* `BootInv` ties the row and the hello on its way to the boots they
came from: an uptime is the time since its boot, up to rounding and delay, and
the boots are in the order of the row and the hello. From it `ElapsedFits`
bounds how far either clock is from the true time between two observations; the
two halves of `VerdictIsSound` are then inequalities over the assumptions, which
is where each assumption is used.

*Inventory.* Its steps are steps of the connections (`Connections`), which
brings the types and verdicts over. `MarkHasTask` is inductive, and the two that
follow lean on it: a collection is started only when none is waiting, so no
answer is older than the snapshot it replaces (`RanFits`), and the one that is
waiting when a restart is detected ends in an error or a snapshot taken later.
`RebootShows` also needs that a connection outlives the task made with it
(`LinkFits`), so that the forced collection is sent unless it is refused.

`JobOutput_proofs` proves, for any limits, pipes and scripts:

| Theorem | States |
|---|---|
| `TypeCorrect` | `TypeOK`: no capture exceeds its agent's limit, no pipe its size |
| `UnflaggedIsComplete` | `UnflaggedIsWhole`: what is stored without the flag, of a stream read to its end, is all that was written |
| `StoredOutputFits` | `StoredFits`: the longest whole-character part that fits the limit, flagged exactly if it is not all |

*Nothing lost.* The invariant of the second says that what was written is what
is captured, a half still waiting for its other half, and what is in the pipe,
unless the capture is marked as cut; a text within its limit is one that
`CutTo` leaves alone.

*Sizes.* The third needs to know what `Bytes` adds up. It is a fold that takes
the positions of a text in an order of its own. `SumsExist` gives a function
that sums over any set of positions in any order, built one position at a time;
`FoldIsSum` shows that the fold agrees with it, by a smallest counterexample;
both use induction over a set of numbers (`ReachesAll`, `LeastExists`), which
the library's `WFMin` provides. Hence one more character adds its size, a
surrogate pair adds four, and a longer beginning has no fewer bytes
(`BytesOfAppend`, `BytesOfPair`, `BytesGrow`).

*Cuts.* `CaptureInv` says that a capture is the beginning of what was written,
that its count of bytes is right, that it ends in no half of a pair once its
stream has ended, and that, if it is marked as cut, the very next character or
pair would exceed the limit of the agent (`Overflows`). Since that limit is no
less than the job's, the server cuts the capture where it would cut the whole
(`CutTwice`).

`Restarts_proofs` proves, for any records, keys, boots and bound on crashes:

| Theorem | States |
|---|---|
| `TypesKept` | `TypeOK` |
| `ConfirmationsFit` | `ConfirmationFits`: `boot_confirmed` never contradicts the status |
| `ConfirmedBootsAreNew` | `ConfirmedIsNewBoot`: a confirmed restart that was commanded is a boot after the request |
| `ClosedStaysClosed` | `ClosedIsFinal` |

It assumes that "no record" and "no key" lie outside their sets and that the
bounds are numbers, one boot at least. The transitions of `reboots.py` are taken
apart first: none touches a closed record or one that is not there
(`TransitionsKeepClosed`), only a return confirms, and it writes both columns
alike (`ReturnSaysHow`). `ConfirmedIsNewBoot` needs `BootsFit`: from the moment
a device is heard from during the pending-reboot check of a request, either it
has booted since or the server knows the boot it is in, and that boot is the one
that was under way at the request or a later one, so a verdict of "rebooted", which is only said of a boot not seen (`RebootIsUnseen`), is about a
later one. `MachineFits` ties what is known to the open connection.

`Investigation_proofs` proves, for any operators and any number of crashes:

| Theorem | States |
|---|---|
| `TypesKept` | `TypeOK` |
| `OneRepairOnce` | `RepairRunsAtMostOnce` |
| `OnlyApprovedRepairs` | `RepairWasApproved`: what is sent or ran was shown to an operator and approved |
| `OneStory` | `StoryOfOneRun`: evidence and proposal come from one run |
| `ResolvedByRepair` | `ResolvedMeansRan` |
| `WaitingCanBeDecided` | `WaitingIsDecidable` |
| `DecisionsStand` | `DecisionStands` |
| `EndsAreFinal` | `FinishedIsFinal` |

It assumes that `Nobody` is no operator, `LostCalls` a Boolean and the bound on
crashes a number. One invariant carries all of them. `RunsCounted` counts
diagnosis runs against crashes, so that a queued investigation always has one
left; `WorkersFit` says that a worker is where the status says it is;
`StatusFits` what a status says of the proposal, its decision and its job;
`RepairFits` how decision, job, the message on the wire and the executions of
one proposal go together, which is what makes a second dispatch after a crash
harmless; `StoryFits` that a diagnosis starts with nothing stored. That only
one proposal can ever be decided follows from `StoryOfOneRun`.

**Model-checked only.** Liveness: `EveryJobSettles`, `GoneDeviceFades`,
`OutputIsDrained`, `TimeoutAnswers`, `TrackedRestartCloses`,
`InvestigationEnds` and `DiagnosisEnds` need fairness and ENABLED, which are out
of the prover's reach; TLC checks them on the instances above. The other way
round, `TypeOK` of `ControlPlane`, `Enrollment`, `Investigator`, `Inventory` and
`JobOutput` is proved and not in a run.

## 5. Not modelled, and the plan

Not modelled: signatures and keys (taken as sound), the texts of scripts,
findings and events, redaction and fencing, the model and the HTTP of its
client, the catalogues of checks and repairs beyond an answer or none, lists
and paging, migrations of the schema, the dashboard, development tools and
packaging: they keep no state of their own or are text in, text out. An
event-log query is an ordinary job whose request waits for its end. Errors of
SQLite itself (a full disk, a lock) are left out: the worker of an investigation
whose error handler cannot write either (`investigations.py:152`) leaves its
investigation active until the next start.

Planned, in this order:

1. The waiting of a client for a job (`rmm.py`, the long poll of `get_job`,
   the event-log query's 502 and 504), against the end of that job.
2. What is promised about a restart and about an investigation as abstract
   specifications of their own, of the kind that `JobContract` is for jobs.
