------------------------ MODULE BootTracking_proofs -------------------------
(***************************************************************************)
(* The verdict of detect_reboot is sound, for any tolerances, delays and   *)
(* adjustments that meet the assumptions of BootTracking.                  *)
(***************************************************************************)
EXTENDS BootTracking, TLAPS

(* The hello on its way was read off the boot it names, not long ago, and  *)
(* after the row was recorded.                                             *)
HelloFits ==
  hello.out =>
    /\ hello.boot <= hello.sent
    /\ hello.sent <= now
    /\ now <= hello.sent + MaxDelay
    /\ hello.uptime # None => /\ hello.uptime <= hello.sent - hello.boot
                              /\ hello.uptime + Rounding >= hello.sent - hello.boot
    /\ rowBoot <= hello.boot
    /\ hello.boot <= started
    /\ row.mono <= hello.sent

(* The row is of the boot it is said to be of, up to the delay of its hello. *)
RowFits ==
  /\ row.mono <= now
  /\ rowBoot <= started
  /\ row.uptime # None =>
       /\ row.at # None
       /\ row.uptime <= row.mono - rowBoot
       /\ row.uptime + Rounding + MaxDelay >= row.mono - rowBoot
  /\ row.at # None => row.mono <= row.at /\ row.at <= row.mono + MaxAdjust

BootInv ==
  /\ BootTypeOK
  /\ started <= now
  /\ HelloFits
  /\ RowFits

Numbers ==
  /\ Epsilon \in Nat /\ Tolerance \in Nat /\ LooseTolerance \in Nat
  /\ Rounding \in Nat /\ MaxDelay \in Nat /\ MaxAdjust \in Nat
  /\ MaxTime \in Nat /\ MaxRestarts \in Nat

LEMMA ConstantsAreNumbers == Numbers
BY NumbersAssumption DEF Numbers

-----------------------------------------------------------------------------
(* Every variable keeps its type, whatever the constants.                  *)
THEOREM BootTypeCorrect == BootSpec => []BootTypeOK
<1>1. BootInit => BootTypeOK
  BY ConstantsAreNumbers DEF Numbers, BootInit, BootTypeOK, Times, Hellos, Rows, NoHello, None
<1>2. BootTypeOK /\ [BootNext]_bootVars => BootTypeOK'
  <2> SUFFICES ASSUME BootTypeOK, [BootNext]_bootVars PROVE BootTypeOK'
    OBVIOUS
  <2> USE ConstantsAreNumbers DEF Numbers, BootTypeOK, Times, None
  <2>1. CASE UNCHANGED bootVars
    BY <2>1 DEF bootVars, machine, device
  <2>2. ASSUME NEW u \in Times \cup {None}, SendHello(u) PROVE BootTypeOK'
    BY <2>2 DEF SendHello, Hellos, machine, device
  <2>3. CASE LoseHello
    BY <2>3 DEF LoseHello, NoHello, Hellos, machine, device
  <2>4. CASE GoDown
    BY <2>4 DEF GoDown, Unlinked, device
  <2>5. CASE Boot
    BY <2>5 DEF Boot, device
  <2>6. CASE RecordConnection
    BY <2>6 DEF RecordConnection, RecordUptime, NoHello, Hellos, Rows, WallClock, machine
  <2>7. CASE Blip \/ Disconnect
    BY <2>7 DEF Blip, Disconnect, machine, device
  <2>8. CASE ServerRestart
    BY <2>8 DEF ServerRestart, NoHello, Hellos, machine, device
  <2>9. CASE AdjustClock
    BY <2>9 DEF AdjustClock, machine, device
  <2>10. CASE Tick
    BY <2>10 DEF Tick, machine, device
  <2> QED
    BY <2>1, <2>2, <2>3, <2>4, <2>5, <2>6, <2>7, <2>8, <2>9, <2>10 DEF BootNext
<1> QED
  BY <1>1, <1>2, PTL DEF BootSpec

-----------------------------------------------------------------------------
LEMMA BootInvHolds == BootSpec => []BootInv
<1>1. BootInit => started <= now /\ HelloFits /\ RowFits
  BY ConstantsAreNumbers DEF Numbers, BootInit, HelloFits, RowFits, NoHello, None
<1>2. BootInv /\ BootTypeOK' /\ [BootNext]_bootVars => (started <= now /\ HelloFits /\ RowFits)'
  <2> SUFFICES ASSUME BootInv, BootTypeOK', [BootNext]_bootVars
               PROVE  (started <= now /\ HelloFits /\ RowFits)'
    OBVIOUS
  <2> USE ConstantsAreNumbers DEF Numbers, BootInv, BootTypeOK, Times, None
  <2>1. CASE UNCHANGED bootVars
    BY <2>1 DEF bootVars, machine, device, HelloFits, RowFits
  <2>2. ASSUME NEW u \in Times \cup {None}, SendHello(u)
        PROVE  (started <= now /\ HelloFits /\ RowFits)'
    BY <2>2 DEF SendHello, Reports, Hellos, Rows, machine, device, HelloFits, RowFits
  <2>3. CASE LoseHello
    BY <2>3 DEF LoseHello, NoHello, Hellos, Rows, machine, device, HelloFits, RowFits
  <2>4. CASE GoDown
    BY <2>4 DEF GoDown, Hellos, Rows, device, HelloFits, RowFits
  <2>5. CASE Boot
    BY <2>5 DEF Boot, Hellos, Rows, device, HelloFits, RowFits
  <2>6. CASE RecordConnection
    BY <2>6 DEF RecordConnection, RecordUptime, NoHello, Hellos, Rows, WallClock, machine,
                HelloFits, RowFits
  <2>7. CASE Blip \/ Disconnect
    BY <2>7 DEF Blip, Disconnect, Hellos, Rows, machine, device, HelloFits, RowFits
  <2>8. CASE ServerRestart
    BY <2>8 DEF ServerRestart, NoHello, Hellos, Rows, machine, device, HelloFits, RowFits
  <2>9. CASE AdjustClock
    BY <2>9 DEF AdjustClock, Hellos, Rows, machine, device, HelloFits, RowFits
  <2>10. CASE Tick
    BY <2>10 DEF Tick, Hellos, Rows, machine, device, HelloFits, RowFits
  <2> QED
    BY <2>1, <2>2, <2>3, <2>4, <2>5, <2>6, <2>7, <2>8, <2>9, <2>10 DEF BootNext
<1> QED
  BY <1>1, <1>2, BootTypeCorrect, PTL DEF BootSpec, BootInv

-----------------------------------------------------------------------------
(* What the clocks say of the time since the row was recorded: a reliable  *)
(* clock the truth, the wall clock the truth up to its adjustments.        *)
LEMMA ElapsedFits ==
  ASSUME BootInv, row.at # None
  PROVE  /\ Elapsed \in Nat
         /\ Reliable => Elapsed = now - row.mono
         /\ ~Reliable => /\ Elapsed <= now - row.mono + MaxAdjust
                         /\ Elapsed + MaxAdjust >= now - row.mono
BY ConstantsAreNumbers
   DEF Numbers, BootInv, BootTypeOK, RowFits, Rows, Times, None, Elapsed, Reliable,
       AtLeastZero, WallClock

(* Within one boot no restart is ever reported.                            *)
LEMMA NoneInvented ==
  ASSUME BootInv
  PROVE  NoRebootInvented
<1> SUFFICES ASSUME hello.out, hello.boot = rowBoot, Verdict(hello.uptime) = "rebooted"
             PROVE  FALSE
  BY DEF NoRebootInvented
<1>1. hello.uptime # None /\ row.uptime # None
  BY DEF Verdict, DetectReboot
<1>2. row.at # None
  BY <1>1 DEF BootInv, RowFits
<1> USE ConstantsAreNumbers DEF Numbers
<1>3. /\ hello.uptime \in Nat /\ row.uptime \in Nat /\ row.mono \in Nat /\ now \in Nat
      /\ hello.sent \in Nat /\ hello.boot \in Nat
  BY <1>1 DEF BootInv, BootTypeOK, Hellos, Rows, Times, None
<1>4. ~ (hello.uptime < row.uptime - Epsilon)
  BY <1>1, <1>3, RoundingAssumption DEF BootInv, HelloFits, RowFits
<1>5. hello.uptime < row.uptime + Elapsed - Allowance(Reliable)
  BY <1>1, <1>4 DEF Verdict, DetectReboot
<1>6. /\ row.uptime <= row.mono - hello.boot
      /\ hello.uptime + Rounding >= hello.sent - hello.boot
      /\ now <= hello.sent + MaxDelay
  BY <1>1 DEF BootInv, HelloFits, RowFits
<1>7. CASE Reliable
  <2>1. Elapsed = now - row.mono
    BY <1>2, <1>7, ElapsedFits
  <2> QED
    BY <1>3, <1>5, <1>6, <1>7, <2>1, ToleranceAssumption DEF Allowance
<1>8. CASE ~Reliable
  <2>1. Elapsed \in Nat /\ Elapsed <= now - row.mono + MaxAdjust
    BY <1>2, <1>8, ElapsedFits
  <2> QED
    BY <1>3, <1>5, <1>6, <1>8, <2>1, AdjustAssumption DEF Allowance
<1> QED
  BY <1>7, <1>8

(* A restart that ended a long boot is never missed.                       *)
LEMMA LongSeen ==
  ASSUME BootInv
  PROVE  LongBootNotMissed
<1> SUFFICES ASSUME hello.out, Verdict(hello.uptime) = "same"
             PROVE  hello.boot - rowBoot <= Missable
  BY DEF LongBootNotMissed
<1>1. hello.uptime # None /\ row.uptime # None
  BY DEF Verdict, DetectReboot
<1>2. row.at # None
  BY <1>1 DEF BootInv, RowFits
<1> USE ConstantsAreNumbers DEF Numbers
<1>3. /\ hello.uptime \in Nat /\ row.uptime \in Nat /\ row.mono \in Nat /\ now \in Nat
      /\ hello.sent \in Nat /\ hello.boot \in Nat /\ rowBoot \in Nat
  BY <1>1 DEF BootInv, BootTypeOK, Hellos, Rows, Times, None
<1>4. Elapsed \in Nat /\ Elapsed # None
  BY <1>2, ElapsedFits DEF None
<1>5. ~ (hello.uptime < row.uptime + Elapsed - Allowance(Reliable))
  BY <1>1, <1>4 DEF Verdict, DetectReboot
<1>6. /\ row.uptime + Rounding + MaxDelay >= row.mono - rowBoot
      /\ hello.uptime <= hello.sent - hello.boot
      /\ hello.sent <= now
  BY <1>1 DEF BootInv, HelloFits, RowFits
<1>7. CASE Reliable
  <2>1. Elapsed = now - row.mono
    BY <1>2, <1>7, ElapsedFits
  <2> QED
    BY <1>3, <1>5, <1>6, <1>7, <2>1 DEF Allowance, Missable
<1>8. CASE ~Reliable
  <2>1. Elapsed + MaxAdjust >= now - row.mono
    BY <1>2, <1>8, ElapsedFits
  <2> QED
    BY <1>3, <1>4, <1>5, <1>6, <1>8, <2>1 DEF Allowance, Missable
<1> QED
  BY <1>7, <1>8

(* detect_reboot never invents a restart and never misses one that ended a *)
(* long boot, whatever the tolerances, as long as they cover the delay of  *)
(* a hello, the rounding of the uptime and the adjustments of the clock.   *)
THEOREM VerdictsAreSound == BootSpec => []VerdictIsSound
<1>1. BootInv => VerdictIsSound
  BY NoneInvented, LongSeen DEF VerdictIsSound
<1> QED
  BY <1>1, BootInvHolds, PTL
=============================================================================
