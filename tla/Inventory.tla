----------------------------- MODULE Inventory ------------------------------
(***************************************************************************)
(* The stored inventory of one device (server/inventory.py, main.py:       *)
(* start_inventory to refresh_inventory, Store.record_inventory), on top   *)
(* of the connections and reboots of BootTracking, which cause its         *)
(* collections and lose them.                                              *)
(*                                                                         *)
(* A collection is a job like any other: it is sent over the registered    *)
(* connection, and ends with an answer over the session it was sent to or  *)
(* when the supervisor gives it up.  inventory.parse's checks of an answer *)
(* are abstracted: it is usable or it is not.                              *)
(***************************************************************************)
EXTENDS BootTracking

CONSTANTS
  MaxAge,       \* MAX_AGE_SECONDS
  RetryAfter    \* RETRY_AFTER_FAILURE_SECONDS

ASSUME AgesAssumption == MaxAge \in Nat \ {0} /\ RetryAfter \in Nat

VARIABLES
  collecting, \* the device is in _inventory_in_flight
  waiting,    \* the collections a _finish_inventory waits for
  pending,    \* the task agent_connect made for a collection, "forced" or "if due"
  record,     \* the row of device_inventory
  \* history
  changed     \* a restart was detected, by this process, after the snapshot's script ran

ivars == <<collecting, waiting, pending, record, changed>>
vars  == <<bootVars, ivars>>

WallTimes == 0..(MaxTime + MaxAdjust)

(* A collection is on its way or running; or its script ran at the time    *)
(* ran, and the answer is on its way back; or it was lost with its session. *)
Collections == [stage : {"out", "ran", "lost"}, ran : Times]

Out  == [stage |-> "out", ran |-> 0]
Lost == [stage |-> "lost", ran |-> 0]

(* ran is history: when the script behind data ran.  Without a row,        *)
(* attempted_at is None.                                                   *)
Records == [data : BOOLEAN, collected_at : WallTimes \cup {None}, error : BOOLEAN,
            attempted_at : WallTimes \cup {None}, ran : Times]

TypeOK ==
  /\ BootTypeOK
  /\ collecting \in BOOLEAN
  /\ waiting \subseteq Collections
  /\ pending \in {"none", "if due", "forced"}
  /\ record \in Records
  /\ changed \in BOOLEAN

Init ==
  /\ BootInit
  /\ collecting = FALSE
  /\ waiting = {}
  /\ pending = "none"
  /\ record = [data |-> FALSE, collected_at |-> None, error |-> FALSE,
               attempted_at |-> None, ran |-> 0]
  /\ changed = FALSE

-----------------------------------------------------------------------------
(* inventory.py: when                                                      *)

(* stale *)
Stale == record.collected_at = None \/ WallClock - record.collected_at >= MaxAge

(* due *)
Due ==
  /\ ~ (record.error /\ WallClock - record.attempted_at < RetryAfter)
  /\ Stale

(* store.record_inventory, of a collection that succeeded ... *)
Success(ran) == [data |-> TRUE, collected_at |-> WallClock, error |-> FALSE,
                 attempted_at |-> WallClock, ran |-> ran]

(* ... or failed: the last good inventory is kept. *)
Failure == [record EXCEPT !.error = TRUE, !.attempted_at = WallClock]

-----------------------------------------------------------------------------
(* main.py: collecting                                                     *)

(* Mutated form: the flag is set before the job is sent, and stays. *)
RefusedInFlight == collecting' = TRUE /\ UNCHANGED waiting

(* start_inventory: send_to_device puts the job on the registered          *)
(* connection; one that is dead loses it.  Without one it is refused, and  *)
(* the flag taken back.                                                    *)
Refused == UNCHANGED <<collecting, waiting>>
Sent == /\ collecting' = TRUE
        /\ waiting' = waiting \cup {IF link' = "open" THEN Out ELSE Lost}

StartInventory == IF link' = "none" THEN Refused ELSE Sent

(* Mutated form: one collection does not wait for another. *)
AlwaysFree == TRUE

Free == ~collecting

(* refresh_inventories, one tick. *)
Refresh ==
  /\ link # "none"
  /\ Free
  /\ Due
  /\ UNCHANGED <<bootVars, pending, record, changed>>
  /\ StartInventory

(* refresh_inventory: an operator asks for it, whatever its age. *)
RefreshNow ==
  /\ Free
  /\ UNCHANGED <<bootVars, pending, record, changed>>
  /\ StartInventory

(* agent_connect: a detected restart forces a collection.  The task that   *)
(* starts it runs in the loop's next round, before the connection can end  *)
(* and before a second has passed.                                         *)
AgentConnect ==
  /\ pending = "none"
  /\ RecordConnection
  /\ LET rebooted == Verdict(hello.uptime) = "rebooted"
     IN /\ pending' = IF rebooted THEN "forced" ELSE "if due"
        /\ changed' = (changed \/ rebooted)
  /\ UNCHANGED <<collecting, waiting, record>>

(* Mutated form: a restart is no reason of its own. *)
WantedWhenDue == Free /\ Due

Wanted == Free /\ (pending = "forced" \/ Due)

(* refresh_inventory_if_due, in that task.  A revocation that came first   *)
(* has it refused: the detected restart is then forgotten.                 *)
RefreshIfDue ==
  /\ pending # "none"
  /\ pending' = "none"
  /\ UNCHANGED <<bootVars, record>>
  /\ \/ /\ IF Wanted THEN StartInventory ELSE UNCHANGED <<collecting, waiting>>
        /\ UNCHANGED changed
     \/ Wanted /\ Refused /\ changed' = (changed /\ pending = "if due")

(* The agent runs the script. *)
RunScript ==
  /\ link = "open"
  /\ Out \in waiting
  /\ waiting' = (waiting \ {Out}) \cup {[stage |-> "ran", ran |-> now]}
  /\ UNCHANGED <<bootVars, collecting, pending, record, changed>>

(* Whether parse makes an inventory of an answer. *)
Usable == BOOLEAN

(* _finish_inventory, its finally included. *)
Finished(c) == waiting' = waiting \ {c} /\ collecting' = FALSE /\ UNCHANGED pending

(* The answer is handled: the job completes, and what it brought is stored. *)
Collected(c, usable) ==
  /\ c \in waiting
  /\ c.stage = "ran"
  /\ Finished(c)
  /\ record' = IF usable THEN Success(c.ran) ELSE Failure
  /\ changed' = (changed /\ ~usable)
  /\ UNCHANGED bootVars

(* The supervisor ends the job, overdue or out of reach. *)
NotCollected(c) ==
  /\ c \in waiting
  /\ Finished(c)
  /\ record' = Failure
  /\ UNCHANGED <<bootVars, changed>>

-----------------------------------------------------------------------------
(* What the connections do to it                                           *)

(* The session ends, and with it the job on the agent; an answer that was  *)
(* sent may still be handled.                                              *)
SessionEnds ==
  /\ GoDown \/ Blip
  /\ \/ waiting' = {Lost : c \in waiting}
     \/ Out \notin waiting /\ UNCHANGED waiting
  /\ UNCHANGED <<collecting, pending, record, changed>>

(* An answer is handled before the machine that sent it has booted again,  *)
(* or never.                                                               *)
Startup ==
  /\ Boot
  /\ waiting' = {Lost : c \in waiting}
  /\ UNCHANGED <<collecting, pending, record, changed>>

(* The flag and the tasks are lost with the process. *)
Restart ==
  /\ ServerRestart
  /\ collecting' = FALSE
  /\ pending' = "none"
  /\ waiting' = {}
  /\ changed' = FALSE
  /\ UNCHANGED record

Elsewhere ==
  /\ \/ \E u \in Times \cup {None} : SendHello(u)
     \/ LoseHello \/ AdjustClock
     \/ pending = "none" /\ (Disconnect \/ Tick)
  /\ UNCHANGED ivars

-----------------------------------------------------------------------------
Collection == \/ Refresh \/ RefreshNow \/ AgentConnect \/ RefreshIfDue \/ RunScript
              \/ \E c \in waiting, usable \in Usable : Collected(c, usable)
              \/ \E c \in waiting : NotCollected(c)

Next == Collection \/ SessionEnds \/ Startup \/ Restart \/ Elsewhere

Spec == Init /\ [][Next]_vars

-----------------------------------------------------------------------------
(* Properties                                                              *)

(* Once a restart of the endpoint was detected, an inventory from before   *)
(* it is never shown as if nothing had happened: it is being collected, or *)
(* about to be, or says that the attempt failed (docs/design.md: collected *)
(* "after a detected reboot").  That the flag of a collection the restart  *)
(* cut off keeps the forced one from starting does not spoil this.  A      *)
(* restart of the server does, and so does a revocation before the task    *)
(* has run: both are where changed ends.                                   *)
RebootShows ==
  changed /\ record.data /\ ~collecting /\ pending # "forced" => record.error

(* The stored inventory is only ever replaced by one whose script ran      *)
(* later, and never erased or redated by an attempt that failed            *)
(* (docs/api.md: "one failed attempt never erases it").                    *)
SnapshotMovesForward ==
  [][record.data =>
       /\ record'.data
       /\ record'.ran >= record.ran
       /\ record'.error => /\ record'.ran = record.ran
                           /\ record'.collected_at = record.collected_at]_vars

(* A device is marked as collecting exactly while a task waits that will    *)
(* unmark it, and for one collection at a time: a mark without a task would *)
(* keep every later collection from starting (refresh_inventory_if_due).    *)
MarkHasTask ==
  /\ collecting <=> waiting # {}
  /\ \A c, d \in waiting : c = d
=============================================================================
