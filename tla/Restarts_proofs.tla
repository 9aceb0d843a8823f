-------------------------- MODULE Restarts_proofs --------------------------
(***************************************************************************)
(* Proofs about Restarts, for any records, keys, boots and crashes: the    *)
(* two columns that tell how a restart ended agree, a closed restart stays *)
(* closed, and a confirmed one is a boot after the operator's request.     *)
(***************************************************************************)
EXTENDS Restarts, TLAPS

(* An open connection is to the running machine, whose boot it reported,   *)
(* if it reported any.                                                     *)
MachineFits ==
  /\ ~up => boots < MaxBoots
  /\ link = "open" => up /\ seen \in {0, boots}

(* A request that still waits has recorded nothing and made no job. *)
RequestFits == \A r \in Restarts :
  /\ r \in asking => status[r] = "none"
  /\ status[r] = "none" => jobOf[r] = NoRestart /\ command[r] = "none"

(* A verdict of "rebooted" would now be one of a boot after r's request. *)
BootKnown(r) == boots > askedAt[r] \/ seen \in {0, boots}

(* The device was heard from between a request and the job made for it:    *)
(* the boot under way at the request has begun by then.                    *)
BootsFit == \A r \in Restarts :
  /\ askedAt[r] <= BootUnderWay
  /\ r \in heard \/ jobOf[r] = r => askedAt[r] <= boots /\ BootKnown(r)

IInv ==
  /\ TypeOK
  /\ MachineFits
  /\ RequestFits
  /\ ConfirmationFits
  /\ BootsFit
  /\ ConfirmedIsNewBoot

Parts == MachineFits /\ RequestFits /\ ConfirmationFits /\ BootsFit /\ ConfirmedIsNewBoot

-----------------------------------------------------------------------------
(* The operators of reboots.py                                             *)

LEMMA TransitionsAreTyped ==
  ASSUME NEW s \in Open \cup Closed \cup {"none"}, NEW v
  PROVE  /\ CommandFinished(s, TRUE) \in Open \cup Closed \cup {"none"}
         /\ CommandFinished(s, FALSE) \in Open \cup Closed \cup {"none"}
         /\ WentOffline(s) \in Open \cup Closed \cup {"none"}
         /\ CameBack(s, v) \in Open \cup Closed \cup {"none"}
  BY DEF CommandFinished, WentOffline, CameBack, Open, Closed

(* No transition reopens a closed record or touches one that is not there. *)
LEMMA TransitionsKeepClosed ==
  ASSUME NEW s \in Closed \cup {"none"}, NEW v, NEW ok \in BOOLEAN
  PROVE  /\ CommandFinished(s, ok) = s
         /\ WentOffline(s) = s
         /\ CameBack(s, v) = s
  BY DEF CommandFinished, WentOffline, CameBack, Open, Closed

(* The command's end and a disconnection leave an open record open, or     *)
(* failed.                                                                 *)
LEMMA NeitherConfirms ==
  ASSUME NEW s \in Open, NEW ok \in BOOLEAN
  PROVE  /\ CommandFinished(s, ok) \in Open \cup {"failed"}
         /\ WentOffline(s) \in Open
  BY DEF CommandFinished, WentOffline, Open

(* A return that closes a record says how in both columns. *)
LEMMA ReturnSaysHow ==
  ASSUME NEW s \in Open, NEW v \in {"rebooted", "same", "unknown"}, CameBack(s, v) # s
  PROVE  /\ CameBack(s, v) \in {"completed", "not_restarted"}
         /\ CameBack(s, v) = "not_restarted" <=> BootConfirmed(s, v) = "no"
         /\ BootConfirmed(s, v) = "yes" <=> v = "rebooted"
         /\ BootConfirmed(s, v) \in {"null", "yes", "no"}
  BY DEF CameBack, BootConfirmed, Open

(* "rebooted" is only said of a boot the server has not seen. *)
LEMMA RebootIsUnseen ==
  ASSUME NEW u, "rebooted" \in Verdicts(u)
  PROVE  u # 0 /\ seen # 0 /\ seen # u
  BY DEF Verdicts

-----------------------------------------------------------------------------
LEMMA InvariantInit == Init => IInv
<1> SUFFICES ASSUME Init PROVE IInv
  OBVIOUS
<1>1. TypeOK
  BY BootsAssumption, CrashesAssumption DEF Init, TypeOK
<1>2. MachineFits /\ RequestFits /\ ConfirmationFits
  BY DEF Init, MachineFits, RequestFits, ConfirmationFits
<1>3. BootsFit /\ ConfirmedIsNewBoot
  BY NoRestartAssumption DEF Init, BootsFit, BootUnderWay, BootKnown, ConfirmedIsNewBoot
<1> QED
  BY <1>1, <1>2, <1>3 DEF IInv

LEMMA CrashTypes ==
  ASSUME TypeOK, LoseMemory
  PROVE  /\ crashes' \in 0..MaxCrashes /\ alive' \in BOOLEAN
         /\ asking' = {} /\ heard' = {} /\ following' = {} /\ wire' = {}
         /\ link' = "none" /\ fresh' \in BOOLEAN
         /\ UNCHANGED <<seen, machine, askedAt, confirmed, jobOf>>
<1>1. crashes' \in 0..MaxCrashes
  BY CrashesAssumption DEF TypeOK, LoseMemory
<1>2. alive' \in BOOLEAN /\ fresh' \in BOOLEAN
  BY DEF LoseMemory
<1> QED
  BY <1>1, <1>2 DEF LoseMemory

(* A step keeps the types of the state. *)
LEMMA TypeStep == IInv /\ [Next]_vars => TypeOK'
<1> SUFFICES ASSUME IInv, [Next]_vars PROVE TypeOK'
  OBVIOUS
<1> USE DEF rows, tasks, machine, history
<1>1. TypeOK
  BY DEF IInv
<1>2. ASSUME NEW r \in Restarts, Request(r) PROVE TypeOK'
  <2>1. ASSUME NEW k \in Keys \cup {NoKey}, Ask(r, k) PROVE TypeOK'
    <3>1. BootUnderWay \in 0..MaxBoots
      BY <1>1, BootsAssumption DEF TypeOK, IInv, MachineFits, BootUnderWay
    <3> QED
      BY <1>1, <2>1, <3>1 DEF TypeOK, Ask
  <2>2. CASE Send(r)
    BY <1>1, <2>2 DEF TypeOK, Send, Leave, CheckOver, Open
  <2>3. CASE SendDuplicate(r)
    BY <1>1, <2>3 DEF TypeOK, SendDuplicate, Leave, MadeUnder, Open
  <2>4. CASE SendRefused(r)
    BY <1>1, <2>4 DEF TypeOK, SendRefused, Leave, Closed
  <2>5. CASE Follow(r)
    <3>1. PICK ok \in BOOLEAN : status' = [status EXCEPT ![r] = CommandFinished(@, ok)]
      BY <2>5 DEF Follow
    <3>2. CommandFinished(status[r], ok) \in Open \cup Closed \cup {"none"}
      BY <1>1 DEF TypeOK, CommandFinished, Open, Closed
    <3> QED
      BY <1>1, <2>5, <3>1, <3>2 DEF TypeOK, Follow
  <2>6. CASE GiveUp(r)
    BY <1>1, <2>6 DEF TypeOK, GiveUp
  <2>7. CASE CrashInSend(r)
    BY <1>1, <2>7, CrashTypes DEF TypeOK, CrashInSend, Open
  <2>8. ASSUME NEW ok \in BOOLEAN, RunCommand(r, ok) PROVE TypeOK'
    BY <1>1, <2>8 DEF TypeOK, RunCommand
  <2> QED
    BY <1>2, <2>1, <2>2, <2>3, <2>4, <2>5, <2>6, <2>7, <2>8 DEF Request
<1>3. CASE WatchTick
  BY <1>1, <1>3 DEF TypeOK, WatchTick, Watch, Closed
<1>4. CASE Connection
  <2>1. CASE Message \/ Silence \/ Blip
    BY <1>1, <2>1 DEF TypeOK, Message, Silence, Blip
  <2>2. CASE Disconnect
    <3>1. status' \in [Restarts -> Open \cup Closed \cup {"none"}]
      BY <1>1, <2>2, TransitionsAreTyped DEF TypeOK, Disconnect
    <3> QED
      BY <1>1, <2>2, <3>1 DEF TypeOK, Disconnect
  <2>3. ASSUME NEW u \in {0, boots}, NEW v \in {"rebooted", "same", "unknown"}, AgentConnect(u, v)
        PROVE  TypeOK'
    <3>1. status' \in [Restarts -> Open \cup Closed \cup {"none"}]
      BY <1>1, <2>3, TransitionsAreTyped DEF TypeOK, AgentConnect
    <3>2. ASSUME NEW r \in Restarts PROVE ConfirmedNow(r, v) \in {"null", "yes", "no"}
      BY <1>1 DEF TypeOK, ConfirmedNow, BootConfirmed
    <3>3. confirmed' \in [Restarts -> {"null", "yes", "no"}]
      BY <2>3, <3>2 DEF AgentConnect
    <3>4. seen' \in 0..MaxBoots
      BY <1>1, <2>3, BootsAssumption DEF TypeOK, AgentConnect
    <3> QED
      BY <1>1, <2>3, <3>1, <3>3, <3>4 DEF TypeOK, AgentConnect
  <2> QED
    BY <1>4, <2>1, <2>2, <2>3 DEF Connection
<1>5. CASE Machine
  <2>1. CASE Abort \/ GoDown
    BY <1>1, <2>1 DEF TypeOK, Abort, GoDown
  <2>2. CASE Boot
    <3>1. boots < MaxBoots
      BY <2>2 DEF Boot, IInv, MachineFits
    <3>2. boots' \in 1..MaxBoots
      BY <1>1, <2>2, <3>1, BootsAssumption DEF TypeOK, Boot
    <3>3. up' \in BOOLEAN
      BY <2>2 DEF Boot
    <3> QED
      BY <1>1, <2>2, <3>2, <3>3 DEF TypeOK, Boot
  <2> QED
    BY <1>5, <2>1, <2>2 DEF Machine
<1>6. CASE Crash
  BY <1>1, <1>6, CrashTypes DEF TypeOK, Crash
<1>7. CASE ServerStart
  BY <1>1, <1>7 DEF TypeOK, ServerStart
<1>8. CASE UNCHANGED vars
  BY <1>1, <1>8 DEF TypeOK, vars
<1> QED
  BY <1>2, <1>3, <1>4, <1>5, <1>6, <1>7, <1>8 DEF Next

-----------------------------------------------------------------------------
(* The inductive step                                                      *)

(* The steps of a request. *)
LEMMA RequestStep ==
  ASSUME IInv, TypeOK', NEW r \in Restarts, Request(r)
  PROVE  Parts'
<1> USE DEF rows, tasks, machine, history
<1>1. ASSUME NEW k \in Keys \cup {NoKey}, Ask(r, k) PROVE Parts'
  <2>1. status[r] = "none" /\ jobOf[r] = NoRestart /\ confirmed[r] # "yes" /\ r \notin heard
    BY <1>1 DEF Ask, IInv, TypeOK, RequestFits, ConfirmationFits
  <2>2. MachineFits' /\ RequestFits' /\ ConfirmationFits'
    BY <1>1 DEF Ask, IInv, MachineFits, RequestFits, ConfirmationFits
  <2>3. BootsFit'
    BY <1>1, <2>1, NoRestartAssumption DEF Ask, IInv, TypeOK, BootsFit, BootUnderWay, BootKnown
  <2>4. ConfirmedIsNewBoot'
    BY <1>1, <2>1 DEF Ask, IInv, TypeOK, ConfirmedIsNewBoot
  <2> QED
    BY <2>2, <2>3, <2>4 DEF Parts
<1>2. CASE Send(r)
  <2>1. r \in heard /\ status[r] = "none" /\ confirmed[r] = "null"
    BY <1>2 DEF Send, CheckOver, IInv, TypeOK, RequestFits, ConfirmationFits
  <2>2. MachineFits'
    BY <1>2 DEF Send, IInv, MachineFits
  <2>3. RequestFits'
    BY <1>2 DEF Send, Leave, IInv, TypeOK, RequestFits
  <2>4. ConfirmationFits'
    BY <1>2, <2>1 DEF Send, IInv, TypeOK, ConfirmationFits
  <2>5. BootsFit'
    BY <1>2, <2>1 DEF Send, Leave, IInv, TypeOK, BootsFit, BootUnderWay, BootKnown
  <2>6. ConfirmedIsNewBoot'
    BY <1>2, <2>1 DEF Send, IInv, TypeOK, ConfirmedIsNewBoot
  <2> QED
    BY <2>2, <2>3, <2>4, <2>5, <2>6 DEF Parts
<1>3. CASE SendDuplicate(r)
  <2>1. status[r] = "none" /\ confirmed[r] = "null" /\ command[r] = "none"
    BY <1>3 DEF SendDuplicate, CheckOver, IInv, TypeOK, RequestFits, ConfirmationFits
  <2>2. PICK i \in Restarts \ {r} : jobOf' = [jobOf EXCEPT ![r] = i]
    BY <1>3, <2>1 DEF SendDuplicate, MadeUnder
  <2>3. MachineFits' /\ RequestFits'
    BY <1>3, <2>2 DEF SendDuplicate, Leave, IInv, TypeOK, MachineFits, RequestFits
  <2>4. ConfirmationFits'
    BY <1>3, <2>1 DEF SendDuplicate, IInv, TypeOK, ConfirmationFits
  <2>5. BootsFit'
    BY <1>3, <2>2 DEF SendDuplicate, Leave, IInv, TypeOK, BootsFit, BootUnderWay, BootKnown
  <2>6. ConfirmedIsNewBoot'
    BY <1>3, <2>1, <2>2 DEF SendDuplicate, IInv, TypeOK, ConfirmedIsNewBoot
  <2> QED
    BY <2>3, <2>4, <2>5, <2>6 DEF Parts
<1>4. CASE SendRefused(r)
  <2>1. status[r] = "none" /\ confirmed[r] = "null"
    BY <1>4 DEF SendRefused, CheckOver, IInv, TypeOK, RequestFits, ConfirmationFits
  <2>2. MachineFits' /\ RequestFits'
    BY <1>4 DEF SendRefused, Leave, IInv, TypeOK, MachineFits, RequestFits
  <2>3. ConfirmationFits'
    BY <1>4, <2>1 DEF SendRefused, IInv, TypeOK, ConfirmationFits
  <2>4. BootsFit' /\ ConfirmedIsNewBoot'
    BY <1>4 DEF SendRefused, Leave, IInv, TypeOK, BootsFit, BootUnderWay, BootKnown, ConfirmedIsNewBoot
  <2> QED
    BY <2>2, <2>3, <2>4 DEF Parts
<1>5. CASE Follow(r)
  <2>1. PICK ok \in BOOLEAN : status' = [status EXCEPT ![r] = CommandFinished(@, ok)]
    BY <1>5 DEF Follow
  <2>2. status'[r] = "none" <=> status[r] = "none"
    BY <2>1 DEF IInv, TypeOK, CommandFinished, Open
  <2>3. MachineFits' /\ RequestFits'
    BY <1>5, <2>1, <2>2 DEF Follow, IInv, TypeOK, MachineFits, RequestFits
  <2>4. ConfirmationFits'
    <3>1. CASE status[r] \in Open
      <4>1. confirmed[r] = "null"
        BY <3>1 DEF IInv, TypeOK, ConfirmationFits, Open
      <4>2. status'[r] \in Open \cup {"failed"}
        BY <2>1, <3>1, NeitherConfirms DEF IInv, TypeOK
      <4>3. status'[r] \notin {"completed", "not_restarted"}
        BY <4>2 DEF Open
      <4> QED
        BY <1>5, <2>1, <4>1, <4>3 DEF Follow, IInv, TypeOK, ConfirmationFits
    <3>2. CASE status[r] \notin Open
      <4>1. CommandFinished(status[r], ok) = status[r]
        BY <3>2, TransitionsKeepClosed DEF IInv, TypeOK
      <4>2. status' = status
        BY <2>1, <4>1 DEF IInv, TypeOK
      <4> QED
        BY <1>5, <4>2 DEF Follow, IInv, ConfirmationFits
    <3> QED
      BY <3>1, <3>2
  <2>5. BootsFit' /\ ConfirmedIsNewBoot'
    BY <1>5 DEF Follow, IInv, BootsFit, BootUnderWay, BootKnown, ConfirmedIsNewBoot
  <2> QED
    BY <2>3, <2>4, <2>5 DEF Parts
<1>6. CASE GiveUp(r)
  <2>1. RequestFits'
    BY <1>6 DEF GiveUp, IInv, TypeOK, RequestFits
  <2> QED
    BY <1>6, <2>1 DEF GiveUp, IInv, MachineFits, ConfirmationFits, BootsFit, BootUnderWay, BootKnown,
       ConfirmedIsNewBoot, Parts
<1>7. CASE CrashInSend(r)
  <2>1. /\ status[r] = "none" /\ confirmed[r] = "null"
        /\ status' = [status EXCEPT ![r] = "scheduling"]
    BY <1>7 DEF CrashInSend, CheckOver, IInv, TypeOK, RequestFits, ConfirmationFits
  <2>2. asking' = {} /\ heard' = {} /\ link' = "none"
        /\ UNCHANGED <<seen, up, boots, askedAt, confirmed, jobOf>>
    BY <1>7 DEF CrashInSend, LoseMemory
  <2>3. RequestFits'
    BY <1>7, <2>1, <2>2 DEF CrashInSend, IInv, TypeOK, RequestFits
  <2>4. ConfirmationFits'
    BY <2>1, <2>2 DEF IInv, TypeOK, ConfirmationFits
  <2>5. MachineFits' /\ BootsFit' /\ ConfirmedIsNewBoot'
    BY <2>2 DEF IInv, MachineFits, BootsFit, BootUnderWay, BootKnown, ConfirmedIsNewBoot
  <2> QED
    BY <2>3, <2>4, <2>5 DEF Parts
<1>8. ASSUME NEW ok \in BOOLEAN, RunCommand(r, ok) PROVE Parts'
  <2>1. RequestFits'
    BY <1>8 DEF RunCommand, IInv, TypeOK, RequestFits
  <2>2. BootsFit'
    BY <1>8 DEF RunCommand, IInv, MachineFits, BootsFit, BootUnderWay, BootKnown
  <2> QED
    BY <1>8, <2>1, <2>2 DEF RunCommand, IInv, MachineFits, ConfirmationFits, ConfirmedIsNewBoot,
       Parts
<1> QED
  BY <1>1, <1>2, <1>3, <1>4, <1>5, <1>6, <1>7, <1>8 DEF Request

(* The steps of the connection. *)
LEMMA ConnectionStep ==
  ASSUME IInv, TypeOK', Connection
  PROVE  Parts'
<1> USE DEF rows, tasks, machine, history
<1>1. CASE Message \/ Silence \/ Blip
  <2>1. MachineFits' /\ RequestFits' /\ ConfirmationFits' /\ ConfirmedIsNewBoot'
    BY <1>1 DEF Message, Silence, Blip, IInv, MachineFits, RequestFits, ConfirmationFits,
       ConfirmedIsNewBoot
  <2>2. BootsFit'
    BY <1>1 DEF Message, Silence, Blip, IInv, MachineFits, BootsFit, BootUnderWay, BootKnown
  <2> QED
    BY <2>1, <2>2 DEF Parts
<1>2. CASE Disconnect
  <2>1. \A r \in Restarts : status'[r] = WentOffline(status[r])
    BY <1>2 DEF Disconnect
  <2>2. MachineFits' /\ BootsFit' /\ ConfirmedIsNewBoot'
    BY <1>2 DEF Disconnect, IInv, MachineFits, BootsFit, BootUnderWay, BootKnown, ConfirmedIsNewBoot
  <2>3. RequestFits'
    BY <1>2, <2>1 DEF Disconnect, IInv, RequestFits, WentOffline
  <2>4. ConfirmationFits'
    BY <1>2, <2>1 DEF Disconnect, IInv, ConfirmationFits, WentOffline
  <2> QED
    BY <2>2, <2>3, <2>4 DEF Parts
<1>3. ASSUME NEW u \in {0, boots}, NEW v \in {"rebooted", "same", "unknown"}, AgentConnect(u, v)
      PROVE  Parts'
  <2>1. \A r \in Restarts : /\ status'[r] = CameBack(status[r], v)
                            /\ confirmed'[r] = ConfirmedNow(r, v)
    BY <1>3 DEF AgentConnect
  <2>2. MachineFits'
    BY <1>3 DEF AgentConnect, IInv, MachineFits
  <2>3. \A r \in Restarts : status'[r] = "none" <=> status[r] = "none"
    BY <2>1 DEF CameBack, Open
  <2>4. RequestFits'
    BY <1>3, <2>3 DEF AgentConnect, IInv, RequestFits
  <2>5. ASSUME NEW r \in Restarts
        PROVE  /\ confirmed'[r] = "yes" => status'[r] = "completed"
               /\ confirmed'[r] = "no" <=> status'[r] = "not_restarted"
    <3>1. CASE CameBack(status[r], v) = status[r]
      BY <2>1, <3>1 DEF ConfirmedNow, IInv, ConfirmationFits
    <3>2. CASE CameBack(status[r], v) # status[r]
      <4>1. status[r] \in Open
        BY <3>2 DEF CameBack, Open
      <4> QED
        BY <2>1, <3>2, <4>1, ReturnSaysHow DEF ConfirmedNow
    <3> QED
      BY <3>1, <3>2
  <2>6. BootsFit'
    BY <1>3 DEF AgentConnect, IInv, TypeOK, BootsFit, BootUnderWay, BootKnown
  <2>7. ASSUME NEW r \in Restarts, confirmed'[r] = "yes", jobOf'[r] = r
        PROVE  boots' > askedAt'[r]
    <3>1. jobOf[r] = r /\ UNCHANGED <<boots, askedAt>>
      BY <1>3, <2>7 DEF AgentConnect
    <3>2. CASE confirmed[r] = "yes"
      BY <3>1, <3>2 DEF IInv, ConfirmedIsNewBoot
    <3>3. CASE confirmed[r] # "yes"
      <4>1. v = "rebooted"
        BY <2>1, <2>7, <3>3 DEF ConfirmedNow, BootConfirmed
      <4>2. seen # 0 /\ seen # boots
        BY <1>3, <4>1, RebootIsUnseen DEF AgentConnect
      <4> QED
        BY <3>1, <4>2 DEF IInv, BootsFit, BootUnderWay, BootKnown
    <3> QED
      BY <3>2, <3>3
  <2> QED
    BY <2>2, <2>4, <2>5, <2>6, <2>7 DEF Parts, ConfirmationFits, ConfirmedIsNewBoot
<1> QED
  BY <1>1, <1>2, <1>3 DEF Connection

(* The watcher, the machine, and the server's end and start. *)
LEMMA OtherSteps ==
  ASSUME IInv, TypeOK', WatchTick \/ Machine \/ Crash \/ ServerStart
  PROVE  Parts'
<1> USE DEF rows, tasks, machine, history
<1>1. CASE WatchTick
  <2>1. PICK late \in SUBSET Restarts : Watch(late)
    BY <1>1 DEF WatchTick
  <2>2. \A r \in Restarts : \/ status'[r] = status[r]
                            \/ status[r] \in {"scheduled", "offline"} /\ status'[r] = "failed"
    BY <2>1 DEF Watch, MayBeOverdue
  <2>3. MachineFits' /\ BootsFit' /\ ConfirmedIsNewBoot'
    BY <2>1 DEF Watch, IInv, MachineFits, BootsFit, BootUnderWay, BootKnown, ConfirmedIsNewBoot
  <2>4. RequestFits' /\ ConfirmationFits'
    BY <2>1, <2>2 DEF Watch, IInv, RequestFits, ConfirmationFits
  <2> QED
    BY <2>3, <2>4 DEF Parts
<1>2. CASE Machine
  <2>1. MachineFits' /\ RequestFits' /\ ConfirmationFits'
    BY <1>2 DEF Machine, Abort, GoDown, Boot, IInv, MachineFits, RequestFits, ConfirmationFits
  <2>2. boots' \in {boots, boots + 1} /\ UNCHANGED <<askedAt, seen, heard, jobOf, confirmed>>
    BY <1>2 DEF Machine, Abort, GoDown, Boot
  <2>3. boots \in Nat /\ \A r \in Restarts : askedAt[r] \in Nat
    BY BootsAssumption DEF IInv, TypeOK
  <2>4. BootUnderWay <= BootUnderWay' /\ BootUnderWay \in Nat /\ BootUnderWay' \in Nat
    BY <1>2, <2>3 DEF Machine, Abort, GoDown, Boot, BootUnderWay
  <2>5. BootsFit'
    <3> SUFFICES ASSUME NEW r \in Restarts
                 PROVE  /\ askedAt'[r] <= BootUnderWay'
                        /\ r \in heard' \/ jobOf'[r] = r
                             => askedAt'[r] <= boots' /\ BootKnown(r)'
      BY DEF BootsFit
    <3>1. /\ askedAt[r] <= BootUnderWay
          /\ r \in heard \/ jobOf[r] = r => askedAt[r] <= boots /\ BootKnown(r)
      BY DEF IInv, BootsFit
    <3>2. askedAt'[r] <= BootUnderWay'
      BY <2>2, <2>3, <2>4, <3>1
    <3> QED
      BY <2>2, <2>3, <3>1, <3>2 DEF BootKnown
  <2>6. ConfirmedIsNewBoot'
    BY <2>2, <2>3 DEF IInv, ConfirmedIsNewBoot
  <2> QED
    BY <2>1, <2>5, <2>6 DEF Parts
<1>3. CASE Crash
  <2>1. asking' = {} /\ heard' = {} /\ link' = "none"
        /\ UNCHANGED <<status, command, seen, up, boots, askedAt, confirmed, jobOf>>
    BY <1>3 DEF Crash, LoseMemory
  <2> QED
    BY <2>1 DEF IInv, MachineFits, RequestFits, ConfirmationFits, BootsFit, BootUnderWay, BootKnown,
       ConfirmedIsNewBoot, Parts
<1>4. CASE ServerStart
  <2>1. \A r \in Restarts : command'[r] = "none" <=> command[r] = "none"
    BY <1>4 DEF ServerStart
  <2>2. RequestFits'
    BY <1>4, <2>1 DEF ServerStart, IInv, RequestFits
  <2> QED
    BY <1>4, <2>2 DEF ServerStart, IInv, MachineFits, ConfirmationFits, BootsFit, BootUnderWay, BootKnown,
       ConfirmedIsNewBoot, Parts
<1> QED
  BY <1>1, <1>2, <1>3, <1>4

LEMMA InvariantStep == IInv /\ [Next]_vars => IInv'
<1> SUFFICES ASSUME IInv, [Next]_vars PROVE IInv'
  OBVIOUS
<1>1. TypeOK'
  BY TypeStep
<1>2. CASE Next
  <2>1. Parts'
    BY <1>1, <1>2, RequestStep, ConnectionStep, OtherSteps DEF Next
  <2> QED
    BY <1>1, <2>1 DEF Parts, IInv
<1>3. CASE UNCHANGED vars
  BY <1>1, <1>3 DEF vars, rows, tasks, machine, history, IInv, MachineFits, RequestFits,
     ConfirmationFits, BootsFit, BootUnderWay, BootKnown, ConfirmedIsNewBoot
<1> QED
  BY <1>2, <1>3

LEMMA Invariant == Spec => []IInv
  BY InvariantInit, InvariantStep, PTL DEF Spec

-----------------------------------------------------------------------------
(* The theorems                                                            *)

(* Every variable keeps its type: a status is one of those reboots.py      *)
(* knows, and only requests that wait were heard for.                      *)
THEOREM TypesKept == Spec => []TypeOK
<1>1. IInv => TypeOK
  BY DEF IInv
<1> QED
  BY <1>1, Invariant, PTL

(* boot_confirmed never contradicts the status (came_back).                *)
THEOREM ConfirmationsFit == Spec => []ConfirmationFits
<1>1. IInv => ConfirmationFits
  BY DEF IInv
<1> QED
  BY <1>1, Invariant, PTL

(* A restart whose command was sent is only confirmed by a boot that came  *)
(* after the operator's request: restart_device waits for a check that the *)
(* device answers, over the connection on which it reported the boot it    *)
(* was in (restart_device, detect_reboot, advance_restarts_on_return).     *)
THEOREM ConfirmedBootsAreNew == Spec => []ConfirmedIsNewBoot
<1>1. IInv => ConfirmedIsNewBoot
  BY DEF IInv
<1> QED
  BY <1>1, Invariant, PTL

(* No step reopens a closed restart or closes it differently, whichever of *)
(* the follower, the watcher, a return and a disconnection comes last.     *)
THEOREM ClosedStaysClosed == Spec => ClosedIsFinal
<1>1. IInv /\ [Next]_vars =>
        [\A r \in Restarts : status[r] \in Closed =>
           status'[r] = status[r] /\ confirmed'[r] = confirmed[r]]_vars
  <2> SUFFICES ASSUME IInv, Next, NEW r \in Restarts, status[r] \in Closed
               PROVE  status'[r] = status[r] /\ confirmed'[r] = confirmed[r]
    OBVIOUS
  <2> USE DEF rows
  <2>1. status[r] \notin Open \cup {"none"} /\ r \notin asking
    BY DEF IInv, RequestFits, Closed, Open
  <2>2. ASSUME NEW q \in Restarts, Request(q)
        PROVE  status'[r] = status[r] /\ confirmed'[r] = confirmed[r]
    <3>1. CASE Follow(q)
      <4>1. PICK ok \in BOOLEAN : status' = [status EXCEPT ![q] = CommandFinished(@, ok)]
        BY <3>1 DEF Follow
      <4>2. CommandFinished(status[r], ok) = status[r]
        BY TransitionsKeepClosed
      <4> QED
        BY <3>1, <4>1, <4>2 DEF Follow, IInv, TypeOK
    <3>2. CASE CrashInSend(q)
      BY <2>1, <3>2 DEF CrashInSend, LoseMemory, CheckOver, IInv, TypeOK
    <3>3. CASE ~Follow(q) /\ ~CrashInSend(q)
      BY <2>1, <2>2, <3>3 DEF Request, Ask, Send, SendDuplicate, SendRefused, GiveUp, RunCommand,
         CheckOver, IInv, TypeOK
    <3> QED
      BY <3>1, <3>2, <3>3
  <2>3. CASE WatchTick
    BY <2>1, <2>3 DEF WatchTick, Watch, MayBeOverdue, Open
  <2>4. CASE Connection
    <3>1. CASE Message \/ Silence \/ Blip
      BY <3>1 DEF Message, Silence, Blip
    <3>2. CASE Disconnect
      <4>1. WentOffline(status[r]) = status[r]
        BY TransitionsKeepClosed
      <4> QED
        BY <3>2, <4>1 DEF Disconnect
    <3>3. ASSUME NEW u, NEW v, AgentConnect(u, v)
          PROVE  status'[r] = status[r] /\ confirmed'[r] = confirmed[r]
      <4>1. CameBack(status[r], v) = status[r]
        BY TransitionsKeepClosed
      <4>2. status'[r] = CameBack(status[r], v) /\ confirmed'[r] = ConfirmedNow(r, v)
        BY <3>3 DEF AgentConnect
      <4> QED
        BY <4>1, <4>2 DEF ConfirmedNow
    <3> QED
      BY <2>4, <3>1, <3>2, <3>3 DEF Connection
  <2>5. CASE Machine \/ Crash \/ ServerStart
    BY <2>5 DEF Machine, Abort, GoDown, Boot, Crash, LoseMemory, ServerStart
  <2> QED
    BY <2>2, <2>3, <2>4, <2>5 DEF Next
<1> QED
  BY <1>1, Invariant, PTL DEF Spec, ClosedIsFinal
=============================================================================
