-------------------------- MODULE Inventory_proofs --------------------------
(***************************************************************************)
(* The stored inventory: what the runs check of it, for every value of the *)
(* constants.  Its connections behave as BootTracking says, so that the    *)
(* theorems about the verdicts hold of it as well.                         *)
(***************************************************************************)
EXTENDS Inventory, BootTracking_proofs

(* The parts of TypeOK that this module adds. *)
InventoryTypeOK ==
  /\ collecting \in BOOLEAN
  /\ waiting \subseteq Collections
  /\ pending \in {"none", "if due", "forced"}
  /\ record \in Records
  /\ changed \in BOOLEAN

(* No script ran in the future, and one whose answer is awaited ran no     *)
(* earlier than the one behind the stored snapshot.                        *)
RanFits ==
  /\ record.ran <= now
  /\ \A c \in waiting : c.stage = "ran" => record.ran <= c.ran /\ c.ran <= now

-----------------------------------------------------------------------------
LEMMA StepIsBootStep ==
  ASSUME [Next]_vars
  PROVE  [BootNext]_bootVars
<1>1. CASE UNCHANGED vars
  BY <1>1 DEF vars
<1>2. CASE Collection
  BY <1>2 DEF Collection, Refresh, RefreshNow, AgentConnect, RefreshIfDue, RunScript, Collected,
              NotCollected, BootNext
<1>3. CASE SessionEnds \/ Startup \/ Restart
  BY <1>3 DEF SessionEnds, Startup, Restart, BootNext
<1>4. CASE Elsewhere
  BY <1>4 DEF Elsewhere, BootNext
<1> QED
  BY <1>1, <1>2, <1>3, <1>4 DEF Next

(* What the collection does to the connections is what BootTracking says.  *)
LEMMA Connections == Spec => BootSpec
<1>1. Init => BootInit
  BY DEF Init
<1>2. [Next]_vars => [BootNext]_bootVars
  BY StepIsBootStep
<1> QED
  BY <1>1, <1>2, PTL DEF Spec, BootSpec

(* The verdicts that force a collection are sound.                         *)
THEOREM ForcedForReason == Spec => []VerdictIsSound
BY Connections, VerdictsAreSound, PTL

LEMMA BootTypesHold == Spec => []BootTypeOK
BY Connections, BootTypeCorrect, PTL

-----------------------------------------------------------------------------
LEMMA OutIsCollection == Out \in Collections /\ Lost \in Collections
BY ConstantsAreNumbers DEF Numbers, Out, Lost, Collections, Times

LEMMA WallClockShows ==
  ASSUME BootTypeOK
  PROVE  WallClock \in WallTimes
BY ConstantsAreNumbers DEF Numbers, BootTypeOK, WallClock, WallTimes, Times

LEMMA StartKeepsTypes ==
  ASSUME collecting \in BOOLEAN, waiting \subseteq Collections, StartInventory
  PROVE  collecting' \in BOOLEAN /\ waiting' \subseteq Collections
BY OutIsCollection DEF StartInventory, Refused, Sent

(* Every variable keeps its type.                                          *)
THEOREM TypeCorrect == Spec => []TypeOK
<1>1. Init => InventoryTypeOK
  <2>1. 0 \in Times /\ None \in WallTimes \cup {None}
    BY ConstantsAreNumbers DEF Numbers, Times
  <2>2. Init => record \in Records
    BY <2>1 DEF Init, Records
  <2>3. Init => /\ collecting \in BOOLEAN /\ changed \in BOOLEAN
                /\ waiting \subseteq Collections /\ pending = "none"
    BY DEF Init
  <2> QED
    BY <2>2, <2>3 DEF InventoryTypeOK
<1>2. BootTypeOK /\ InventoryTypeOK /\ [Next]_vars => InventoryTypeOK'
  <2> SUFFICES ASSUME BootTypeOK, InventoryTypeOK, [Next]_vars PROVE InventoryTypeOK'
    OBVIOUS
  <2> USE DEF InventoryTypeOK
  <2>1. CASE UNCHANGED vars
    BY <2>1 DEF vars, ivars
  <2>2. CASE Refresh \/ RefreshNow
    BY <2>2, StartKeepsTypes DEF Refresh, RefreshNow
  <2>3. CASE AgentConnect
    BY <2>3 DEF AgentConnect
  <2>4. CASE RunScript
    <3>1. [stage |-> "ran", ran |-> now] \in Collections
      BY DEF Collections, BootTypeOK
    <3> QED
      BY <2>4, <3>1 DEF RunScript
  <2>5. ASSUME NEW c \in waiting, NEW usable \in Usable, Collected(c, usable)
        PROVE  InventoryTypeOK'
    <3>1. c.ran \in Times
      BY DEF Collections
    <3>2. Success(c.ran) \in Records /\ Failure \in Records
      BY <3>1, WallClockShows DEF Success, Failure, Records
    <3> QED
      BY <2>5, <3>2 DEF Collected, Finished
  <2>6. ASSUME NEW c \in waiting, NotCollected(c)
        PROVE  InventoryTypeOK'
    <3>1. Failure \in Records
      BY WallClockShows DEF Failure, Records
    <3> QED
      BY <2>6, <3>1 DEF NotCollected, Finished
  <2>7. CASE SessionEnds \/ Startup
    BY <2>7, OutIsCollection DEF SessionEnds, Startup
  <2>8. CASE Restart
    BY <2>8 DEF Restart
  <2>9. CASE Elsewhere
    BY <2>9 DEF Elsewhere, ivars
  <2>10. CASE RefreshIfDue
    <3>1. collecting' \in BOOLEAN /\ waiting' \subseteq Collections
      BY <2>10, StartKeepsTypes DEF RefreshIfDue, Refused
    <3>2. changed' \in BOOLEAN /\ record' = record /\ pending' = "none"
      BY <2>10 DEF RefreshIfDue
    <3> QED
      BY <3>1, <3>2
  <2> QED
    BY <2>1, <2>2, <2>3, <2>4, <2>5, <2>6, <2>7, <2>8, <2>9, <2>10 DEF Next, Collection
<1> QED
  BY <1>1, <1>2, BootTypesHold, PTL DEF Spec, TypeOK, InventoryTypeOK

-----------------------------------------------------------------------------
(* A device is marked exactly while a task waits that will unmark it.      *)
THEOREM EveryMarkHasTask == Spec => []MarkHasTask
<1>1. Init => MarkHasTask
  BY DEF Init, MarkHasTask
<1>2. MarkHasTask /\ InventoryTypeOK /\ InventoryTypeOK' /\ [Next]_vars => MarkHasTask'
  <2> SUFFICES ASSUME MarkHasTask, InventoryTypeOK, InventoryTypeOK', [Next]_vars
               PROVE  MarkHasTask'
    OBVIOUS
  <2> USE DEF MarkHasTask
  <2>1. CASE UNCHANGED vars
    BY <2>1 DEF vars, ivars
  <2>2. ASSUME Free, StartInventory
        PROVE  MarkHasTask'
    <3>1. waiting = {}
      BY <2>2 DEF Free
    <3>2. CASE Refused
      BY <3>2 DEF Refused
    <3>3. CASE Sent
      BY <3>1, <3>3 DEF Sent
    <3> QED
      BY <2>2, <3>2, <3>3 DEF StartInventory
  <2>3. CASE Refresh \/ RefreshNow
    BY <2>2, <2>3 DEF Refresh, RefreshNow
  <2>4. CASE AgentConnect \/ RefreshIfDue
    <3>1. CASE UNCHANGED <<collecting, waiting>>
      BY <3>1
    <3>2. CASE Free /\ StartInventory
      BY <2>2, <3>2
    <3>3. UNCHANGED <<collecting, waiting>> \/ (Free /\ StartInventory)
      BY <2>4 DEF AgentConnect, RefreshIfDue, Refused, Wanted
    <3> QED
      BY <3>1, <3>2, <3>3
  <2>5. CASE RunScript
    BY <2>5 DEF RunScript
  <2>6. ASSUME NEW c \in waiting, Finished(c)
        PROVE  MarkHasTask'
    BY <2>6 DEF Finished
  <2>7. ASSUME NEW c \in waiting, NEW usable \in Usable, Collected(c, usable)
        PROVE  MarkHasTask'
    BY <2>6, <2>7 DEF Collected
  <2>8. ASSUME NEW c \in waiting, NotCollected(c)
        PROVE  MarkHasTask'
    BY <2>6, <2>8 DEF NotCollected
  <2>9. CASE SessionEnds \/ Startup
    BY <2>9 DEF SessionEnds, Startup
  <2>10. CASE Restart
    BY <2>10 DEF Restart
  <2>11. CASE Elsewhere
    BY <2>11 DEF Elsewhere, ivars
  <2> QED
    BY <2>1, <2>3, <2>4, <2>5, <2>7, <2>8, <2>9, <2>10, <2>11 DEF Next, Collection
<1> QED
  BY <1>1, <1>2, TypeCorrect, PTL DEF Spec, TypeOK, InventoryTypeOK

-----------------------------------------------------------------------------
(* A connection outlives the task that is made with it. *)
LinkFits == pending # "none" => link # "none"

LEMMA PendingIsLinked == Spec => []LinkFits
<1>1. Init => LinkFits
  BY DEF Init, LinkFits
<1>2. LinkFits /\ [Next]_vars => LinkFits'
  <2> SUFFICES ASSUME LinkFits, [Next]_vars PROVE LinkFits'
    OBVIOUS
  <2> USE DEF LinkFits, bootVars, ivars
  <2>1. CASE UNCHANGED vars
    BY <2>1 DEF vars
  <2>2. CASE Collection
    BY <2>2 DEF Collection, Refresh, RefreshNow, AgentConnect, RecordConnection, RefreshIfDue,
       RunScript, Collected, NotCollected, Finished
  <2>3. CASE SessionEnds \/ Startup \/ Restart
    BY <2>3 DEF SessionEnds, GoDown, Unlinked, Blip, Startup, Boot, Restart
  <2>4. CASE Elsewhere
    BY <2>4 DEF Elsewhere, SendHello, LoseHello, AdjustClock, Disconnect, Tick
  <2> QED
    BY <2>1, <2>2, <2>3, <2>4 DEF Next
<1> QED
  BY <1>1, <1>2, PTL DEF Spec

(* Once a restart was detected, an inventory from before it is not shown   *)
(* as if nothing had happened.                                             *)
THEOREM RebootsShow == Spec => []RebootShows
<1>1. Init => RebootShows
  BY DEF Init, RebootShows
<1>2. RebootShows /\ TypeOK /\ LinkFits /\ [Next]_vars => RebootShows'
  <2> SUFFICES ASSUME RebootShows, TypeOK, LinkFits, [Next]_vars PROVE RebootShows'
    OBVIOUS
  <2> USE DEF RebootShows
  <2>1. CASE UNCHANGED vars
    BY <2>1 DEF vars, ivars
  <2>2. CASE Refresh \/ RefreshNow
    BY <2>2 DEF Refresh, RefreshNow, StartInventory, Sent, Refused
  <2>3. CASE AgentConnect
    BY <2>3 DEF AgentConnect
  <2>4. CASE RunScript
    BY <2>4 DEF RunScript
  <2>5. ASSUME NEW c \in waiting, NEW usable \in Usable, Collected(c, usable)
        PROVE  RebootShows'
    <3>1. CASE usable
      BY <2>5, <3>1 DEF Collected
    <3>2. CASE ~usable
      <4>1. record'.error
        BY <2>5, <3>2 DEF Collected, Failure, TypeOK, Records
      <4> QED
        BY <4>1
    <3> QED
      BY <3>1, <3>2
  <2>6. ASSUME NEW c \in waiting, NotCollected(c)
        PROVE  RebootShows'
    BY <2>6 DEF NotCollected, Failure, TypeOK, Records
  <2>7. CASE SessionEnds \/ Startup
    BY <2>7 DEF SessionEnds, Startup
  <2>8. CASE Restart
    BY <2>8 DEF Restart
  <2>9. CASE Elsewhere
    BY <2>9 DEF Elsewhere, ivars
  <2>10. CASE RefreshIfDue
    <3>1. link' = link /\ UNCHANGED record /\ pending # "none" /\ pending' = "none"
      BY <2>10 DEF RefreshIfDue, bootVars
    <3>2. CASE UNCHANGED <<collecting, changed>> /\ (pending # "forced" \/ collecting)
      BY <3>1, <3>2
    <3>3. CASE ~changed'
      BY <3>3
    <3>4. CASE collecting'
      BY <3>4
    <3> QED
      BY <2>10, <3>1, <3>2, <3>3, <3>4
         DEF RefreshIfDue, LinkFits, Wanted, Free, StartInventory, Sent, Refused, TypeOK
  <2> QED
    BY <2>1, <2>2, <2>3, <2>4, <2>5, <2>6, <2>7, <2>8, <2>9, <2>10 DEF Next, Collection
<1> QED
  BY <1>1, <1>2, TypeCorrect, PendingIsLinked, PTL DEF Spec

-----------------------------------------------------------------------------
LEMMA StartKeepsRan ==
  ASSUME TypeOK, RanFits, StartInventory, UNCHANGED <<record, now>>
  PROVE  RanFits'
BY DEF RanFits, StartInventory, Refused, Sent, Out, Lost

LEMMA TimesAreNumbers ==
  ASSUME BootTypeOK, InventoryTypeOK
  PROVE  /\ now \in Int
         /\ record.ran \in Int
         /\ \A c \in waiting : c.ran \in Int
<1>1. Times \subseteq Int
  BY ConstantsAreNumbers DEF Numbers, Times
<1>2. now \in Times /\ record.ran \in Times
  BY DEF BootTypeOK, InventoryTypeOK, Records
<1>3. \A c \in waiting : c.ran \in Times
  BY DEF InventoryTypeOK, Collections
<1> QED
  BY <1>1, <1>2, <1>3

LEMMA RanFitsHolds == Spec => []RanFits
<1>1. Init => RanFits
  BY DEF Init, BootInit, RanFits
<1>2. RanFits /\ TypeOK /\ TypeOK' /\ MarkHasTask /\ [Next]_vars => RanFits'
  <2> SUFFICES ASSUME RanFits, TypeOK, TypeOK', MarkHasTask, [Next]_vars PROVE RanFits'
    OBVIOUS
  <2> USE DEF RanFits
  <2>0. /\ now \in Int /\ record.ran \in Int
        /\ \A c \in waiting : c.ran \in Int
    BY TimesAreNumbers DEF TypeOK, InventoryTypeOK
  <2>1. CASE UNCHANGED vars
    BY <2>1 DEF vars, bootVars, ivars
  <2>2. CASE Refresh \/ RefreshNow
    BY <2>2, StartKeepsRan DEF Refresh, RefreshNow, bootVars
  <2>3. CASE AgentConnect
    BY <2>3 DEF AgentConnect, RecordConnection
  <2>4. CASE RunScript
    BY <2>0, <2>4 DEF RunScript, bootVars
  <2>5. ASSUME NEW c \in waiting, NEW usable \in Usable, Collected(c, usable)
        PROVE  RanFits'
    <3>1. UNCHANGED now /\ c.stage = "ran" /\ waiting' = waiting \ {c}
      BY <2>5 DEF Collected, Finished, bootVars
    <3>2. record'.ran = IF usable THEN c.ran ELSE record.ran
      BY <2>5 DEF Collected, Success, Failure, TypeOK, Records
    <3>3. waiting' = {} \/ record'.ran = record.ran
      BY <3>1 DEF MarkHasTask
    <3> QED
      BY <3>1, <3>2, <3>3
  <2>6. ASSUME NEW c \in waiting, NotCollected(c)
        PROVE  RanFits'
    <3>1. record'.ran = record.ran
      BY <2>6 DEF NotCollected, Failure, TypeOK, Records
    <3> QED
      BY <2>6, <3>1 DEF NotCollected, Finished, bootVars
  <2>7. CASE SessionEnds \/ Startup
    BY <2>7 DEF SessionEnds, Startup, GoDown, Blip, Boot, Lost
  <2>8. CASE Restart
    BY <2>8 DEF Restart, ServerRestart
  <2>9. CASE Elsewhere
    <3>1. UNCHANGED <<waiting, record>>
      BY <2>9 DEF Elsewhere, ivars
    <3>2. UNCHANGED now \/ Tick
      BY <2>9 DEF Elsewhere, SendHello, LoseHello, Disconnect, AdjustClock
    <3>3. now' = now \/ now' = now + 1
      BY <3>2 DEF Tick
    <3> QED
      BY <2>0, <3>1, <3>3
  <2>10. CASE RefreshIfDue
    <3>1. UNCHANGED <<record, now>>
      BY <2>10 DEF RefreshIfDue, bootVars
    <3>2. UNCHANGED waiting \/ StartInventory
      BY <2>10 DEF RefreshIfDue, Refused
    <3> QED
      BY <3>1, <3>2, StartKeepsRan
  <2> QED
    BY <2>1, <2>2, <2>3, <2>4, <2>5, <2>6, <2>7, <2>8, <2>9, <2>10 DEF Next, Collection
<1> QED
  BY <1>1, <1>2, TypeCorrect, EveryMarkHasTask, PTL DEF Spec

(* The stored inventory is only replaced by one whose script ran later,    *)
(* and neither erased nor redated by an attempt that failed.               *)
THEOREM SnapshotsMoveForward == Spec => SnapshotMovesForward
<1> DEFINE Kept == /\ record'.data
                   /\ record'.ran >= record.ran
                   /\ record'.error => /\ record'.ran = record.ran
                                       /\ record'.collected_at = record.collected_at
<1>1. TypeOK /\ RanFits /\ [Next]_vars => (record.data => Kept) \/ UNCHANGED vars
  <2> SUFFICES ASSUME TypeOK, RanFits, record.data, Next PROVE Kept
    OBVIOUS
  <2>1. record.ran \in Int /\ \A c \in waiting : c.ran \in Int
    BY TimesAreNumbers DEF TypeOK, InventoryTypeOK
  <2>2. CASE UNCHANGED record
    BY <2>1, <2>2
  <2>3. CASE record' = Failure
    <3>1. record \in Records
      BY DEF TypeOK
    <3>2. /\ record'.data = record.data /\ record'.ran = record.ran
          /\ record'.collected_at = record.collected_at
      BY <2>3, <3>1 DEF Failure, Records
    <3> QED
      BY <2>1, <3>2
  <2>4. ASSUME NEW c \in waiting, c.stage = "ran", record' = Success(c.ran) PROVE Kept
    <3>1. record.ran <= c.ran
      BY <2>4 DEF RanFits
    <3>2. record'.data /\ ~record'.error /\ record'.ran = c.ran
      BY <2>4 DEF Success
    <3> QED
      BY <2>1, <3>1, <3>2
  <2>5. CASE Collection
    BY <2>2, <2>3, <2>4, <2>5
       DEF Collection, Refresh, RefreshNow, AgentConnect, RefreshIfDue, RunScript, Collected,
           NotCollected
  <2>6. CASE ~Collection
    BY <2>2, <2>6 DEF Next, SessionEnds, Startup, Restart, Elsewhere, ivars
  <2> QED
    BY <2>5, <2>6
<1> QED
  BY <1>1, TypeCorrect, RanFitsHolds, PTL DEF Spec, SnapshotMovesForward
=============================================================================
