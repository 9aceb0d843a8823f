------------------------- MODULE Enrollment_proofs -------------------------
(***************************************************************************)
(* Proofs about Enrollment, for any machines, devices, tokens and keys:    *)
(* types, that a token registers one key at most, and that a marker was    *)
(* earned by a registration.                                               *)
(***************************************************************************)
EXTENDS Enrollment, TLAPS

(* What enroll may do with request r. *)
Answers(r) == Accepts(r) \/ Refuses(r) \/ DiesOver(r)

LEMMA RequestsAreRequests ==
  ASSUME TypeOK, NEW m \in Machines, phase[m] = "asking"
  PROVE  Request(m) \in Requests
<1>1. keyFile[m] \in Keys /\ tokenFile[m] \in Tokens /\ id[m] \in Devices
  BY DEF TypeOK, Running
<1> QED
  BY <1>1 DEF Request, Requests

LEMMA TypeInit == Init => TypeOK
  BY DEF Init, TypeOK, Grants, Phases, Running

(* An answer keeps the server's rows well typed. *)
ServerOK ==
  /\ token \in [Tokens -> {"none", "live", "expired", "used"}]
  /\ grant \in [Tokens -> Grants]
  /\ pubkey \in [Devices -> Keys \cup {NoKey}]
  /\ revoked \in [Devices -> BOOLEAN]
  /\ registered \subseteq Requests

LEMMA AnswerTypes ==
  ASSUME TypeOK, NEW r \in Requests, Answers(r)
  PROVE  ServerOK'
<1>1. r.token \in Tokens /\ r.device \in Devices /\ r.key \in Keys
  BY DEF Requests
<1>2. ServerOK
  BY DEF TypeOK, ServerOK
<1>3. CASE Accepts(r)
  BY <1>1, <1>2, <1>3 DEF Accepts, Spent, Registers, ServerOK
<1>4. CASE Refuses(r)
  BY <1>1, <1>2, <1>4 DEF Refuses, Spent, ServerOK
<1>5. CASE DiesOver(r)
  BY <1>1, <1>2, <1>5 DEF DiesOver, Spent, ServerOK
<1> QED
  BY <1>3, <1>4, <1>5 DEF Answers

LEMMA TypeStep == TypeOK /\ [Next]_vars => TypeOK'
<1> SUFFICES ASSUME TypeOK, [Next]_vars PROVE TypeOK'
  OBVIOUS
<1>1. ASSUME NEW t \in Tokens, Mint(t) PROVE TypeOK'
  <2>1. grant' \in [Tokens -> Grants]
    BY <1>1 DEF Mint, TypeOK
  <2> QED
    BY <1>1, <2>1 DEF Mint, TypeOK, disk
<1>2. ASSUME NEW t \in Tokens, Expire(t) PROVE TypeOK'
  BY <1>2 DEF Expire, TypeOK, disk
<1>3. ASSUME NEW d \in Devices, Revoke(d) \/ Restore(d) PROVE TypeOK'
  BY <1>3 DEF Revoke, Restore, SetRevoked, TypeOK, disk
<1>4. CASE HandleStray
  <2>1. PICK r \in stray :
          /\ stray' = stray \ {r}
          /\ Answers(r)
          /\ UNCHANGED <<disk, id, phase, keyIsNew, made>>
    BY <1>4 DEF HandleStray, Answers
  <2>2. ServerOK'
    BY <2>1, AnswerTypes DEF TypeOK
  <2> QED
    BY <2>1, <2>2 DEF TypeOK, ServerOK, disk
<1>5. ASSUME NEW m \in Machines, Agent(m) PROVE TypeOK'
  <2>1. CASE StartAgent(m)
    <3>1. CASE keyFile[m] # NoKey /\ UNCHANGED <<keyFile, made>>
      BY <1>5, <2>1, <3>1 DEF StartAgent, TypeOK, server, Phases, Running
    <3>2. CASE \E k \in Keys : /\ keyFile' = [keyFile EXCEPT ![m] = k]
                              /\ made' = [made EXCEPT ![m] = @ \cup {k}]
      <4>1. PICK k \in Keys : /\ keyFile' = [keyFile EXCEPT ![m] = k]
                              /\ made' = [made EXCEPT ![m] = @ \cup {k}]
        BY <3>2
      <4>2. k # NoKey /\ made' \in [Machines -> SUBSET Keys]
        BY <1>5, <4>1, NoKeyAssumption DEF TypeOK
      <4>3. keyIsNew' \in [Machines -> BOOLEAN]
        BY <1>5, <2>1 DEF StartAgent, TypeOK
      <4> QED
        BY <1>5, <2>1, <4>1, <4>2, <4>3 DEF StartAgent, TypeOK, server, Phases, Running
    <3> QED
      BY <2>1, <3>1, <3>2 DEF StartAgent
  <2>2. CASE Skip(m)
    BY <1>5, <2>2 DEF Skip, TypeOK, server, disk, Phases, Running
  <2>3. CASE Ask(m)
    BY <1>5, <2>3 DEF Ask, HasToken, TypeOK, server, disk, Phases, Running
  <2>4. CASE Answered(m)
    <3>1. ServerOK'
      BY <1>5, <2>4, AnswerTypes, RequestsAreRequests DEF Answered, Answers
    <3> QED
      BY <1>5, <2>4, <3>1 DEF Answered, TypeOK, ServerOK, disk, Phases, Running
  <2>5. CASE GiveUp(m)
    BY <1>5, <2>5, RequestsAreRequests DEF GiveUp, TypeOK, server, disk, Phases, Running
  <2>6. CASE WriteMarker(m)
    BY <1>5, <2>6 DEF WriteMarker, TypeOK, server, Phases, Running
  <2>7. CASE DiscardToken(m)
    BY <1>5, <2>7 DEF DiscardToken, TypeOK, server, Phases, Running
  <2>8. CASE DiscardFails(m) \/ SessionEnds(m)
    BY <1>5, <2>8 DEF DiscardFails, SessionEnds, TypeOK, server, disk, Phases, Running
  <2>9. CASE StopAgent(m)
    BY <1>5, <2>9 DEF StopAgent, TypeOK, server, disk, Phases, Running
  <2> QED
    BY <1>5, <2>1, <2>2, <2>3, <2>4, <2>5, <2>6, <2>7, <2>8, <2>9 DEF Agent
<1>6. ASSUME NEW m \in Machines, Admin(m) PROVE TypeOK'
  <2>1. ASSUME NEW t \in Tokens \cup {NoToken}, Install(m, t) PROVE TypeOK'
    BY <1>6, <2>1 DEF Install, RunInstaller, TypeOK, server, Phases, Running
  <2>2. CASE Upgrade(m)
    BY <1>6, <2>2 DEF Upgrade, RunInstaller, TypeOK, server, Phases, Running
  <2>3. CASE Uninstall(m)
    BY <1>6, <2>3 DEF Uninstall, TypeOK, server, Phases, Running
  <2>4. CASE LoseKey(m)
    BY <1>6, <2>4 DEF LoseKey, TypeOK, server
  <2> QED
    BY <1>6, <2>1, <2>2, <2>3, <2>4 DEF Admin
<1>7. CASE UNCHANGED vars
  BY <1>7 DEF vars, server, disk, TypeOK
<1> QED
  BY <1>1, <1>2, <1>3, <1>4, <1>5, <1>6, <1>7 DEF Next

(* Every reachable state of enrolment is well typed; an agent that runs    *)
(* has a key, and one that asks the server has a token.                    *)
THEOREM TypeCorrect == Spec => []TypeOK
BY TypeInit, TypeStep, PTL DEF Spec

-----------------------------------------------------------------------------
(* Tokens                                                                  *)

LEMMA AnswerKeepsTokens ==
  ASSUME TypeOK, OneKeyPerToken, NEW r \in Requests, Answers(r)
  PROVE  OneKeyPerToken'
<1>1. r.token \in Tokens /\ \A s \in registered : s.token \in Tokens
  BY DEF Requests, TypeOK
<1>2. CASE Accepts(r)
  \* the token was live, hence not one of a key that is registered
  <2>1. \A s \in registered : s.token # r.token
    BY <1>2 DEF Accepts, Redeemable, OneKeyPerToken
  <2> QED
    BY <1>1, <1>2, <2>1
      DEF Accepts, Redeemable, Spent, Registers, OneKeyPerToken, TypeOK
<1>3. CASE Refuses(r)
  BY <1>1, <1>3 DEF Refuses, Spent, OneKeyPerToken, TypeOK
<1>4. CASE DiesOver(r)
  BY <1>1, <1>4 DEF DiesOver, Spent, OneKeyPerToken, TypeOK
<1> QED
  BY <1>2, <1>3, <1>4 DEF Answers

(* No token ever registers two keys, or a key for a device it is not bound *)
(* to: not when requests are repeated, late, or cut off by a crash.        *)
THEOREM TokensAreSpent == Spec => []OneKeyPerToken
<1>1. Init => OneKeyPerToken
  BY DEF Init, OneKeyPerToken
<1>2. TypeOK /\ OneKeyPerToken /\ [Next]_vars => OneKeyPerToken'
  <2> SUFFICES ASSUME TypeOK, OneKeyPerToken, [Next]_vars PROVE OneKeyPerToken'
    OBVIOUS
  <2>1. ASSUME NEW t \in Tokens, Mint(t) PROVE OneKeyPerToken'
    <3>1. \A s \in registered : s.token # t
      BY <2>1 DEF Mint, OneKeyPerToken
    <3>2. PICK g \in Grants : grant' = [grant EXCEPT ![t] = g]
      BY <2>1 DEF Mint
    <3>3. token' = [token EXCEPT ![t] = "live"] /\ registered' = registered
      BY <2>1 DEF Mint
    <3> QED
      BY <3>1, <3>2, <3>3 DEF OneKeyPerToken, TypeOK, Requests
  <2>2. ASSUME NEW t \in Tokens, Expire(t) PROVE OneKeyPerToken'
    BY <2>2 DEF Expire, OneKeyPerToken, TypeOK, Requests
  <2>3. CASE HandleStray
    BY <2>3, AnswerKeepsTokens DEF HandleStray, Answers, TypeOK
  <2>4. ASSUME NEW m \in Machines, Answered(m) PROVE OneKeyPerToken'
    BY <2>4, AnswerKeepsTokens, RequestsAreRequests DEF Answered, Answers
  <2>5. CASE UNCHANGED <<token, grant, registered>>
    BY <2>5 DEF OneKeyPerToken
  <2> QED
    BY <2>1, <2>2, <2>3, <2>4, <2>5
      DEF Next, Agent, Admin, Revoke, Restore, SetRevoked, StartAgent, Skip, Ask, GiveUp, WriteMarker,
        DiscardToken, DiscardFails, SessionEnds, StopAgent, Install, Upgrade, RunInstaller, Uninstall, LoseKey, vars, server
<1> QED
  BY <1>1, <1>2, TypeCorrect, PTL DEF Spec

-----------------------------------------------------------------------------
(* Markers                                                                 *)

(* Machine m once had a key of its own registered. *)
Earned(m) == \E r \in registered : r.device = id[m] /\ r.key \in made[m]

(* The marker is written after the answer: the agent that has the answer   *)
(* has earned it, and its key file is one it generated.                    *)
MarkerInv ==
  \A m \in Machines :
    /\ keyFile[m] # NoKey => keyFile[m] \in made[m]
    /\ marker[m] \/ phase[m] = "accepted" => Earned(m)

(* What is earned is kept. *)
LEMMA HistoryGrows ==
  ASSUME TypeOK, [Next]_vars
  PROVE  /\ registered \subseteq registered'
         /\ id' = id
         /\ \A m \in Machines : made[m] \subseteq made'[m]
<1>1. registered \subseteq registered' /\ id' = id
  BY DEF Next, Agent, Admin, Mint, Expire, Revoke, Restore, SetRevoked, HandleStray, Accepts, Refuses,
    DiesOver, Registers, StartAgent, Skip, Ask, Answered, GiveUp, WriteMarker,
    DiscardToken, DiscardFails, SessionEnds, StopAgent, Install, Upgrade, RunInstaller, Uninstall, LoseKey, vars, server
<1>2. ASSUME NEW m \in Machines, StartAgent(m)
      PROVE  \A n \in Machines : made[n] \subseteq made'[n]
  BY <1>2 DEF StartAgent, TypeOK
<1>3. ASSUME UNCHANGED made PROVE \A m \in Machines : made[m] \subseteq made'[m]
  BY <1>3
<1> QED
  BY <1>1, <1>2, <1>3 DEF Next, Agent, Admin, Mint, Expire, Revoke, Restore, SetRevoked, HandleStray,
    Skip, Ask, Answered, GiveUp, WriteMarker, DiscardToken, DiscardFails, SessionEnds, StopAgent,
    Install, Upgrade, RunInstaller, Uninstall, LoseKey, vars

LEMMA EarnedIsKept ==
  ASSUME TypeOK, [Next]_vars, NEW m \in Machines, Earned(m)
  PROVE  Earned(m)'
BY HistoryGrows DEF Earned

(* A machine with the marker had a key of its own registered, whatever     *)
(* answers are lost, requests are late, or clones register.                *)
THEOREM MarkersAreEarned == Spec => []MarkerWasEarned
<1>1. Init => MarkerInv
  BY DEF Init, MarkerInv
<1>2. TypeOK /\ MarkerInv /\ [Next]_vars => MarkerInv'
  <2> SUFFICES ASSUME TypeOK, MarkerInv, [Next]_vars, NEW m \in Machines
               PROVE  /\ keyFile'[m] # NoKey => keyFile'[m] \in made'[m]
                      /\ marker'[m] \/ phase'[m] = "accepted" => Earned(m)'
    BY DEF MarkerInv
  <2>1. keyFile'[m] # NoKey => keyFile'[m] \in made'[m]
    <3>1. ASSUME NEW n \in Machines, StartAgent(n) \/ Uninstall(n) \/ LoseKey(n)
          PROVE  keyFile'[m] # NoKey => keyFile'[m] \in made'[m]
      <4>1. CASE StartAgent(n)
        BY <4>1 DEF StartAgent, MarkerInv, TypeOK
      <4>2. CASE Uninstall(n) \/ LoseKey(n)
        BY <4>2 DEF Uninstall, LoseKey, MarkerInv, TypeOK
      <4> QED
        BY <3>1, <4>1, <4>2
    <3>2. ASSUME UNCHANGED <<keyFile, made>>
          PROVE  keyFile'[m] # NoKey => keyFile'[m] \in made'[m]
      BY <3>2 DEF MarkerInv
    <3> QED
      BY <3>1, <3>2 DEF Next, Agent, Admin, Mint, Expire, Revoke, Restore, SetRevoked, HandleStray,
        Skip, Ask, Answered, GiveUp, WriteMarker, DiscardToken, DiscardFails, SessionEnds, StopAgent,
        Install, Upgrade, RunInstaller, vars, disk
  <2>2. ASSUME NEW n \in Machines, Answered(n), phase'[m] = "accepted"
        PROVE  Earned(m)'
    <3>1. CASE m = n
      <4>1. phase[m] = "asking" /\ Accepts(Request(m))
        <5>1. CASE phase' = [phase EXCEPT ![n] = "deciding"]
          BY <2>2, <3>1, <5>1 DEF TypeOK
        <5>2. CASE phase' # [phase EXCEPT ![n] = "deciding"]
          BY <2>2, <3>1, <5>2 DEF Answered
        <5> QED
          BY <5>1, <5>2
      <4>2. Request(m) \in registered' /\ keyFile[m] \in made[m]
        BY <4>1 DEF Accepts, Registers, MarkerInv, TypeOK, Running
      <4>3. Request(m).device = id[m] /\ Request(m).key = keyFile[m]
        BY DEF Request
      <4> QED
        BY <4>2, <4>3, HistoryGrows DEF Earned
    <3>2. CASE m # n
      BY <2>2, <3>2, EarnedIsKept DEF Answered, MarkerInv, TypeOK
    <3> QED
      BY <3>1, <3>2
  <2>3. CASE marker[m] \/ phase[m] = "accepted"
    BY <2>1, <2>3, EarnedIsKept DEF MarkerInv
  <2>4. CASE ~marker[m] /\ phase[m] # "accepted"
    <3>1. ~marker'[m]
      BY <2>4 DEF Next, Agent, Admin, Mint, Expire, Revoke, Restore, SetRevoked, HandleStray, StartAgent,
        Skip, Ask, Answered, GiveUp, WriteMarker, DiscardToken, DiscardFails, SessionEnds, StopAgent,
        Install, Upgrade, RunInstaller, Uninstall, LoseKey, vars, disk, TypeOK
    <3>2. phase'[m] = "accepted" => \E n \in Machines : Answered(n)
      BY <2>4 DEF Next, Agent, Admin, Mint, Expire, Revoke, Restore, SetRevoked, HandleStray, StartAgent,
        Skip, Ask, GiveUp, WriteMarker, DiscardToken, DiscardFails, SessionEnds, StopAgent,
        Install, Upgrade, RunInstaller, Uninstall, LoseKey, vars, TypeOK
    <3> QED
      BY <2>1, <2>2, <3>1, <3>2
  <2> QED
    BY <2>3, <2>4
<1>3. MarkerInv => MarkerWasEarned
  BY DEF MarkerInv, MarkerWasEarned, Earned
<1> QED
  BY <1>1, <1>2, <1>3, TypeCorrect, PTL DEF Spec

-----------------------------------------------------------------------------
(* Recovery                                                                *)

(* A token that may rebind names its device. *)
GrantsFit == \A t \in Tokens : grant[t].rebind => grant[t].bound # NoDevice

LEMMA GrantsStep == TypeOK /\ GrantsFit /\ [Next]_vars => GrantsFit'
<1> SUFFICES ASSUME TypeOK, GrantsFit, [Next]_vars PROVE GrantsFit'
  OBVIOUS
<1>1. ASSUME NEW t \in Tokens, Mint(t) PROVE GrantsFit'
  <2>1. PICK g \in Grants : /\ g.rebind => g.bound # NoDevice
                            /\ grant' = [grant EXCEPT ![t] = g]
    BY <1>1 DEF Mint
  <2> QED
    BY <2>1 DEF GrantsFit, TypeOK
<1>2. CASE UNCHANGED grant
  BY <1>2 DEF GrantsFit
<1> QED
  BY <1>1, <1>2
    DEF Next, Agent, Admin, Expire, Revoke, Restore, SetRevoked, HandleStray, Answered, Accepts,
      Refuses, DiesOver, StartAgent, Skip, Ask, GiveUp, WriteMarker, DiscardToken, DiscardFails, SessionEnds,
      StopAgent, Install, Upgrade, RunInstaller, Uninstall, LoseKey, vars, server

(* A key in the place of another came by a recovery token, of a device     *)
(* that is not revoked.                                                    *)
Replacement(d) ==
  pubkey[d] # NoKey /\ pubkey'[d] # pubkey[d] =>
    /\ ~revoked[d]
    /\ \E t \in Tokens : /\ grant[t] = [rebind |-> TRUE, bound |-> d]
                         /\ token[t] = "live" /\ token'[t] = "used"

LEMMA AnswersReplace ==
  ASSUME TypeOK, GrantsFit, NEW r \in Requests, Answers(r), NEW d \in Devices
  PROVE  Replacement(d)
<1>1. r.token \in Tokens /\ r.device \in Devices
  BY DEF Requests
<1>2. CASE UNCHANGED pubkey
  BY <1>2 DEF Replacement
<1>3. CASE Accepts(r) /\ pubkey[d] # NoKey /\ pubkey'[d] # pubkey[d]
  <2>1. d = r.device
    BY <1>1, <1>3 DEF Accepts, Registers, TypeOK
  <2>2. ~revoked[d] /\ grant[r.token].rebind
    BY <1>3, <2>1 DEF Accepts, MayRegister
  <2>3. grant[r.token] \in Grants /\ grant[r.token].bound = d
    BY <1>1, <1>3, <2>1, <2>2 DEF Accepts, Redeemable, GrantsFit, TypeOK
  <2>4. grant[r.token] = [rebind |-> TRUE, bound |-> d]
    BY <2>2, <2>3 DEF Grants
  <2>5. token[r.token] = "live" /\ token'[r.token] = "used"
    BY <1>1, <1>3 DEF Accepts, Redeemable, Spent, TypeOK
  <2> QED
    BY <1>1, <2>2, <2>4, <2>5 DEF Replacement
<1> QED
  BY <1>2, <1>3 DEF Answers, Refuses, DiesOver, Replacement

(* The key of an enrolled device is replaced only by a recovery token that *)
(* was minted for that device, and never while the device is revoked.      *)
THEOREM KeysAreRecovered == Spec => ReplacedByRecovery
<1>1. Init => GrantsFit
  BY DEF Init, GrantsFit
<1>2. ASSUME TypeOK, GrantsFit, [Next]_vars
      PROVE  \A d \in Devices : Replacement(d)
  <2>1. CASE HandleStray
    BY <1>2, <2>1, AnswersReplace DEF HandleStray, Answers, TypeOK
  <2>2. ASSUME NEW m \in Machines, Answered(m)
        PROVE  \A d \in Devices : Replacement(d)
    BY <1>2, <2>2, AnswersReplace, RequestsAreRequests DEF Answered, Answers
  <2>3. CASE UNCHANGED pubkey
    BY <2>3 DEF Replacement
  <2> QED
    BY <1>2, <2>1, <2>2, <2>3
      DEF Next, Agent, Admin, Mint, Expire, Revoke, Restore, SetRevoked, StartAgent, Skip, Ask,
        GiveUp, WriteMarker, DiscardToken, DiscardFails, SessionEnds, StopAgent, Install, Upgrade,
        RunInstaller, Uninstall, LoseKey, vars, server
<1>3. ASSUME TypeOK, GrantsFit, [Next]_vars
      PROVE  [\A d \in Devices : Replacement(d)]_vars
  BY <1>2, <1>3
<1>4. TypeOK /\ GrantsFit /\ [Next]_vars => GrantsFit'
  BY GrantsStep
<1> QED
  BY <1>1, <1>3, <1>4, TypeCorrect, PTL DEF Spec, ReplacedByRecovery, Replacement

-----------------------------------------------------------------------------
(* What the installer waits for                                            *)

(* The key that machine m now holds is registered for it. *)
Enrolled(m) == \E r \in registered : r.device = id[m] /\ r.key = keyFile[m]

(* From the answer to the end of the enrolment the key stays as it was. *)
EnrolledInv == \A m \in Machines : phase[m] \in {"accepted", "marked"} => Enrolled(m)

LEMMA EnrolledIsKept ==
  ASSUME TypeOK, [Next]_vars, NEW m \in Machines, Enrolled(m), keyFile'[m] = keyFile[m]
  PROVE  Enrolled(m)'
BY HistoryGrows DEF Enrolled

LEMMA EnrolledStep == TypeOK /\ EnrolledInv /\ [Next]_vars => EnrolledInv'
<1> SUFFICES ASSUME TypeOK, EnrolledInv, [Next]_vars,
                    NEW m \in Machines, phase'[m] \in {"accepted", "marked"}
             PROVE  Enrolled(m)'
  BY DEF EnrolledInv
<1>1. keyFile'[m] = keyFile[m]
  BY DEF Next, Agent, Admin, Mint, Expire, Revoke, Restore, SetRevoked, HandleStray, StartAgent,
    Skip, Ask, Answered, GiveUp, WriteMarker, DiscardToken, DiscardFails, SessionEnds, StopAgent, Install,
    Upgrade, RunInstaller, Uninstall, LoseKey, vars, disk, TypeOK, Running
<1>2. CASE phase[m] \in {"accepted", "marked"}
  BY <1>1, <1>2, EnrolledIsKept DEF EnrolledInv
<1>3. CASE phase[m] \notin {"accepted", "marked"}
  <2>1. phase[m] = "asking" /\ Accepts(Request(m))
    <3>1. Answered(m)
      BY <1>3 DEF Next, Agent, Admin, Mint, Expire, Revoke, Restore, SetRevoked, HandleStray,
        StartAgent, Skip, Ask, Answered, GiveUp, WriteMarker, DiscardToken, DiscardFails, SessionEnds, StopAgent,
        Install, Upgrade, RunInstaller, Uninstall, LoseKey, vars, TypeOK
    <3>2. phase' # [phase EXCEPT ![m] = "deciding"]
      BY DEF TypeOK
    <3> QED
      BY <3>1, <3>2 DEF Answered
  <2>2. Request(m) \in registered' /\ Request(m).device = id[m] /\ Request(m).key = keyFile[m]
    BY <2>1 DEF Accepts, Registers, Request
  <2> QED
    BY <1>1, <2>2, HistoryGrows DEF Enrolled
<1> QED
  BY <1>2, <1>3

(* An agent deletes its token only when the key it holds is registered, so *)
(* the "Installed and enrolled." of install.ps1 is true when it is said.   *)
THEOREM InstallersTellTheTruth == Spec => InstalledIsEnrolled
<1>1. Init => EnrolledInv
  BY DEF Init, EnrolledInv
<1>2. ASSUME TypeOK, EnrolledInv, [Next]_vars,
             NEW m \in Machines,
             tokenFile[m] # NoToken, tokenFile'[m] = NoToken, phase'[m] \in Running
      PROVE  Enrolled(m)
  <2>1. phase[m] = "marked"
    BY <1>2 DEF Next, Agent, Admin, Mint, Expire, Revoke, Restore, SetRevoked, HandleStray,
      StartAgent, Skip, Ask, Answered, GiveUp, WriteMarker, DiscardToken, DiscardFails, SessionEnds, StopAgent,
      Install, Upgrade, RunInstaller, Uninstall, LoseKey, vars, disk, TypeOK, Running
  <2> QED
    BY <1>2, <2>1 DEF EnrolledInv
<1>3. ASSUME TypeOK, EnrolledInv, [Next]_vars
      PROVE  [\A m \in Machines :
                tokenFile[m] # NoToken /\ tokenFile'[m] = NoToken /\ phase'[m] \in Running =>
                  \E r \in registered : r.device = id[m] /\ r.key = keyFile[m]]_vars
  BY <1>2, <1>3 DEF Enrolled
<1>4. TypeOK /\ EnrolledInv /\ [Next]_vars => EnrolledInv'
  BY EnrolledStep
<1> QED
  BY <1>1, <1>3, <1>4, TypeCorrect, PTL DEF Spec, InstalledIsEnrolled
=============================================================================
