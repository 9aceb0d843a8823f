---------------------------- MODULE BootTracking ----------------------------
(***************************************************************************)
(* How the server tells a restart of an endpoint from an interruption of   *)
(* its connection (main.py: record_connection, detect_reboot): it compares *)
(* the uptime of a hello with the one recorded before and with the time    *)
(* between the two, on a monotonic clock while the process lives and on    *)
(* the wall clock across a restart of the server.                          *)
(*                                                                         *)
(* One device, whole seconds.  A boot is named by the time it began.  What *)
(* the model grants is in the assumptions: how long a hello may be under   *)
(* way (MaxDelay), what the agent's conversion to whole seconds loses      *)
(* (Rounding), and how far the server's wall clock is adjusted in all      *)
(* (MaxAdjust).  Hellos are handled in the order they were sent.           *)
(***************************************************************************)
EXTENDS Integers

CONSTANTS
  Epsilon,      \* UPTIME_DECREASE_EPSILON_SECONDS
  Tolerance,    \* UPTIME_SHORTFALL_TOLERANCE_SECONDS
  LooseTolerance,  \* UNRELIABLE_ELAPSED_TOLERANCE_SECONDS
  Rounding,     \* loss of AgentHello.UptimeSeconds
  MaxDelay,     \* from reading the uptime to handling the hello
  MaxAdjust,    \* range of the wall clock's adjustments
  MaxTime,      \* bound on time
  MaxRestarts   \* bound on restarts of the server

ASSUME NumbersAssumption ==
  \A n \in {Epsilon, Tolerance, LooseTolerance, Rounding, MaxDelay, MaxAdjust,
            MaxTime, MaxRestarts} : n \in Nat
ASSUME RoundingAssumption  == Rounding <= Epsilon
ASSUME ToleranceAssumption == MaxDelay + Rounding <= Tolerance
ASSUME AdjustAssumption    == MaxDelay + Rounding + MaxAdjust <= LooseTolerance

VARIABLES
  now,        \* the time
  \* the machine
  up,         \* it is running
  started,    \* when its current boot, or its last one, began
  hello,      \* the hello on its way: [out, boot, sent, uptime]
  \* the server
  link,       \* the registered connection: "none", "open" or "dead"
  adjust,     \* its wall clock shows now + adjust
  epoch,      \* OBSERVER_EPOCH, counted
  row,        \* of devices: last_uptime_seconds, ..._observed_at, ..._monotonic, ..._epoch
  \* history
  rowBoot     \* the boot of the hello that row is from

machine == <<up, started>>
device  == <<row, rowBoot>>
bootVars == <<now, machine, hello, link, adjust, epoch, device>>

None == -1   \* NULL; no time and no uptime is negative

Times == 0..MaxTime
Hellos == [out : BOOLEAN, boot : Times, sent : Times, uptime : Times \cup {None}]
Rows == [uptime : Times \cup {None}, at : 0..(MaxTime + MaxAdjust) \cup {None},
         mono : Times, epoch : 0..MaxRestarts]
NoHello == [out |-> FALSE, boot |-> 0, sent |-> 0, uptime |-> None]

BootTypeOK ==
  /\ now \in Times
  /\ up \in BOOLEAN
  /\ started \in Times
  /\ hello \in Hellos
  /\ link \in {"none", "open", "dead"}
  /\ adjust \in 0..MaxAdjust
  /\ epoch \in 0..MaxRestarts
  /\ row \in Rows
  /\ rowBoot \in Times

(* An enrolled device that has never connected. *)
BootInit ==
  /\ now = 0
  /\ up = TRUE
  /\ started = 0
  /\ hello = NoHello
  /\ link = "none"
  /\ adjust \in 0..MaxAdjust
  /\ epoch = 0
  /\ row = [uptime |-> None, at |-> None, mono |-> 0, epoch |-> 0]
  /\ rowBoot = 0

WallClock == now + adjust

-----------------------------------------------------------------------------
(* main.py: elapsed_since_observation                                      *)

AtLeastZero(n) == IF n < 0 THEN 0 ELSE n

(* The recorded reading is of this process's monotonic clock. *)
Reliable == row.at # None /\ row.epoch = epoch

Elapsed == IF Reliable THEN AtLeastZero(now - row.mono)
           ELSE IF row.at = None THEN None
           ELSE AtLeastZero(WallClock - row.at)

(* Mutated form: one tolerance for both clocks. *)
OneTolerance(reliable) == Tolerance

Allowance(reliable) == IF reliable THEN Tolerance ELSE LooseTolerance

(* Mutated form: only a fall of the uptime counts. *)
OnlyDecreases(before, reported, elapsed, reliable) ==
  IF reported = None \/ before = None THEN "unknown"
  ELSE IF reported < before - Epsilon THEN "rebooted" ELSE "same"

(* detect_reboot *)
DetectReboot(before, reported, elapsed, reliable) ==
  IF reported = None \/ before = None THEN "unknown"
  ELSE IF \/ reported < before - Epsilon
          \/ elapsed # None /\ reported < before + elapsed - Allowance(reliable)
       THEN "rebooted"
       ELSE "same"

Verdict(reported) == DetectReboot(row.uptime, reported, Elapsed, Reliable)

-----------------------------------------------------------------------------
(* The machine and its agent                                               *)

(* What parse_reported_uptime makes of the uptime the agent sends: whole   *)
(* seconds, or nothing from an agent that sends none or sends nonsense.    *)
Reports == {n \in Times : n <= now - started /\ n + Rounding >= now - started} \cup {None}

(* A new session: the last one is over, on the agent's side at least. *)
SendHello(u) ==
  /\ up
  /\ link # "open"
  /\ ~hello.out
  /\ u \in Reports
  /\ hello' = [out |-> TRUE, boot |-> started, sent |-> now, uptime |-> u]
  /\ UNCHANGED <<now, machine, link, adjust, epoch, device>>

LoseHello ==
  /\ hello.out
  /\ hello' = NoHello
  /\ UNCHANGED <<now, machine, link, adjust, epoch, device>>

Unlinked == IF link = "open" THEN "dead" ELSE link

GoDown ==
  /\ up
  /\ up' = FALSE
  /\ link' = Unlinked
  /\ UNCHANGED <<now, started, hello, adjust, epoch, device>>

Boot ==
  /\ ~up
  /\ started < now
  /\ up' = TRUE
  /\ started' = now
  /\ UNCHANGED <<now, hello, link, adjust, epoch, device>>

-----------------------------------------------------------------------------
(* The server                                                              *)

(* Mutated form: an uptime the endpoint did not report leaves the old one. *)
RecordIfReported(u) == [uptime |-> IF u = None THEN row.uptime ELSE u,
                        at |-> WallClock, mono |-> now, epoch |-> epoch]

(* store.record_uptime *)
RecordUptime(u) == [uptime |-> u, at |-> WallClock, mono |-> now, epoch |-> epoch]

(* agent_connect, from the signature check on: the connection is           *)
(* registered and the uptime recorded; it returns Verdict(hello.uptime),   *)
(* judged before.                                                          *)
RecordConnection ==
  /\ hello.out
  /\ hello' = NoHello
  /\ link' = IF up /\ hello.boot = started THEN "open" ELSE "dead"
  /\ row' = RecordUptime(hello.uptime)
  /\ rowBoot' = hello.boot
  /\ UNCHANGED <<now, machine, adjust, epoch>>

(* The network drops, and later the handler ends. *)
Blip ==
  /\ link = "open"
  /\ link' = "dead"
  /\ UNCHANGED <<now, machine, hello, adjust, epoch, device>>

Disconnect ==
  /\ link = "dead"
  /\ link' = "none"
  /\ UNCHANGED <<now, machine, hello, adjust, epoch, device>>

(* A crash or a stop, and the next start: a new process with a new epoch. *)
ServerRestart ==
  /\ epoch < MaxRestarts
  /\ epoch' = epoch + 1
  /\ link' = "none"
  /\ hello' = NoHello
  /\ UNCHANGED <<now, machine, adjust, device>>

AdjustClock ==
  /\ adjust' \in 0..MaxAdjust
  /\ UNCHANGED <<now, machine, hello, link, epoch, device>>

(* A hello is handled or lost within MaxDelay. *)
Tick ==
  /\ now < MaxTime
  /\ hello.out => now - hello.sent < MaxDelay
  /\ now' = now + 1
  /\ UNCHANGED <<machine, hello, link, adjust, epoch, device>>

-----------------------------------------------------------------------------
BootNext == \/ \E u \in Times \cup {None} : SendHello(u)
            \/ LoseHello \/ GoDown \/ Boot
            \/ RecordConnection \/ Blip \/ Disconnect
            \/ ServerRestart \/ AdjustClock \/ Tick

BootSpec == BootInit /\ [][BootNext]_bootVars

-----------------------------------------------------------------------------
(* Properties                                                              *)

(* Within one boot no restart is ever reported: whenever the hello on its  *)
(* way is handled, be it a slow one, after an interruption of any length,  *)
(* a restart of the server or an adjustment of its clock (main.py: missing *)
(* a restart is "safer than inventing one").                               *)
NoRebootInvented ==
  hello.out /\ Verdict(hello.uptime) = "rebooted" => hello.boot # rowBoot

(* How long the earlier boot, with the time the machine was off after it,  *)
(* may have lasted for the verdict to miss that it ended.                  *)
Missable == MaxDelay + Rounding +
            IF Reliable THEN Tolerance ELSE LooseTolerance + MaxAdjust

(* A restart that ended a boot longer than that is never missed when both  *)
(* uptimes are known, however many boots there were in between and however *)
(* long the machine has been running since.                                *)
LongBootNotMissed ==
  hello.out /\ Verdict(hello.uptime) = "same" => hello.boot - rowBoot <= Missable

VerdictIsSound == NoRebootInvented /\ LongBootNotMissed
=============================================================================
