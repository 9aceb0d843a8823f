----------------------------- MODULE Enrollment -----------------------------
(***************************************************************************)
(* How a machine becomes a device of the server: one-time tokens and the   *)
(* registered key (server/main.py, store.py), the agent's files and its    *)
(* enrolment (Enrollment.cs, DeviceCredential.cs, AgentWorker.cs), and the *)
(* installer and uninstaller that write and remove those files.            *)
(*                                                                         *)
(* A key pair is a model value, the same on both sides; a signature is     *)
(* taken as proof of the key.  The server answers a request in one step of *)
(* its loop and keeps nothing in memory, so a restart of it shows only     *)
(* where it falls between the two commits of one request.                  *)
(***************************************************************************)
EXTENDS Naturals, FiniteSets

CONSTANTS
  Machines,  \* the Windows machines
  Devices,   \* the ids they may have
  Tokens,    \* enrolment tokens: bound on how many are minted
  Keys,      \* key pairs: bound on how many are generated
  MaxStray,  \* bound on the abandoned requests under way at a time
  NoToken, NoKey, NoDevice

ASSUME NoTokenAssumption  == NoToken \notin Tokens
ASSUME NoKeyAssumption    == NoKey \notin Keys
ASSUME NoDeviceAssumption == NoDevice \notin Devices
ASSUME StrayAssumption    == MaxStray \in Nat

VARIABLES
  \* SQLite
  token,     \* token[t]: row t of enrollment_tokens: "none", "live", "expired" or "used"
  grant,     \* grant[t]: its allow_rebind and bound_device_id
  pubkey,    \* pubkey[d]: devices.public_key, NoKey without a row
  revoked,   \* revoked[d]: devices.revoked
  \* the machines' disks
  keyFile,   \* keyFile[m]: state/device.key
  marker,    \* marker[m]: state/enrolled exists
  tokenFile, \* tokenFile[m]: state/enroll.token
  \* the agents
  id,        \* id[m]: the device id of machine m; clones share one
  phase,     \* phase[m]: how far the agent is
  keyIsNew,  \* keyIsNew[m]: the agent's variable of that name
  \* the network
  stray,     \* enrolment requests whose agent waits no more
  \* history
  made,       \* made[m]: the keys machine m has generated
  registered  \* the registrations the server made: token, device, key

server == <<token, grant, pubkey, revoked, registered>>
disk   == <<keyFile, marker, tokenFile>>
vars   == <<server, disk, id, phase, keyIsNew, stray, made>>

Grants   == [rebind : BOOLEAN, bound : Devices \cup {NoDevice}]
Requests == [token : Tokens, device : Devices, key : Keys]

(* "deciding" is the top of ExecuteAsync's loop, "asking" awaits the       *)
(* server's answer, "accepted" has it, "marked" has written the marker,    *)
(* "enrolled" goes on to RunSessionAsync.  An agent that does not run is   *)
(* "down", or "absent" when there is no service to start it.               *)
Running == {"deciding", "asking", "accepted", "marked", "enrolled"}
Phases  == Running \cup {"down", "absent"}

(* Enrolment is neither needed nor tried by this agent. *)
TakenForEnrolled(m) == ~keyIsNew[m] /\ marker[m]

(* What the agent on m posts: its token file, its id and its key. *)
Request(m) == [token |-> tokenFile[m], device |-> id[m], key |-> keyFile[m]]

TypeOK ==
  /\ token \in [Tokens -> {"none", "live", "expired", "used"}]
  /\ grant \in [Tokens -> Grants]
  /\ pubkey \in [Devices -> Keys \cup {NoKey}]
  /\ revoked \in [Devices -> BOOLEAN]
  /\ keyFile \in [Machines -> Keys \cup {NoKey}]
  /\ marker \in [Machines -> BOOLEAN]
  /\ tokenFile \in [Machines -> Tokens \cup {NoToken}]
  /\ id \in [Machines -> Devices]
  /\ phase \in [Machines -> Phases]
  /\ keyIsNew \in [Machines -> BOOLEAN]
  /\ stray \subseteq Requests
  /\ made \in [Machines -> SUBSET Keys]
  /\ registered \subseteq Requests
  \* an agent that runs has a key, one that asks a token too
  /\ \A m \in Machines : phase[m] \in Running => keyFile[m] # NoKey
  /\ \A m \in Machines : phase[m] = "asking" => tokenFile[m] # NoToken

Init ==
  /\ token = [t \in Tokens |-> "none"]
  /\ grant = [t \in Tokens |-> [rebind |-> FALSE, bound |-> NoDevice]]
  /\ pubkey = [d \in Devices |-> NoKey]
  /\ revoked = [d \in Devices |-> FALSE]
  /\ keyFile = [m \in Machines |-> NoKey]
  /\ marker = [m \in Machines |-> FALSE]
  /\ tokenFile = [m \in Machines |-> NoToken]
  /\ id \in [Machines -> Devices]
  /\ phase = [m \in Machines |-> "absent"]
  /\ keyIsNew = [m \in Machines |-> FALSE]
  /\ stray = {}
  /\ made = [m \in Machines |-> {}]
  /\ registered = {}

-----------------------------------------------------------------------------
(* The server                                                              *)

(* The operator mints a token; one that may rebind must name its device. *)
Mint(t) ==
  /\ token[t] = "none"
  /\ \E g \in Grants :
       /\ g.rebind => g.bound # NoDevice
       /\ grant' = [grant EXCEPT ![t] = g]
  /\ token' = [token EXCEPT ![t] = "live"]
  /\ UNCHANGED <<pubkey, revoked, registered, disk, id, phase, keyIsNew, stray, made>>

(* The hour the token is good for is over. *)
Expire(t) ==
  /\ token[t] = "live"
  /\ token' = [token EXCEPT ![t] = "expired"]
  /\ UNCHANGED <<grant, pubkey, revoked, registered, disk, id, phase, keyIsNew, stray, made>>

(* Mutated form: a used token counts. *)
RedeemableAgain(r) ==
  /\ token[r.token] \in {"live", "used"}
  /\ grant[r.token].bound \in {NoDevice, r.device}

(* redeem_enrollment_token accepts the token of request r. *)
Redeemable(r) ==
  /\ token[r.token] = "live"
  /\ grant[r.token].bound \in {NoDevice, r.device}

(* Mutated form: any token replaces the key of an enrolled device. *)
MayReplace(r) == pubkey[r.device] = NoKey \/ ~revoked[r.device]

(* enroll lets a redeemed request register its key: a first enrolment, or  *)
(* the recovery of a device that is not revoked.                           *)
MayRegister(r) ==
  pubkey[r.device] = NoKey \/ (~revoked[r.device] /\ grant[r.token].rebind)

(* The rows after request r: the token is spent even when the registration *)
(* is then refused, or is lost with a crash between the two commits.       *)
Spent(r) == token' = [token EXCEPT ![r.token] = "used"]

Registers(r) ==
  /\ pubkey' = [pubkey EXCEPT ![r.device] = r.key]
  /\ registered' = registered \cup {r}

(* enroll answers r with 201, having registered its key. *)
Accepts(r) ==
  /\ Redeemable(r)
  /\ MayRegister(r)
  /\ Spent(r)
  /\ Registers(r)
  /\ UNCHANGED <<grant, revoked>>

(* enroll answers r with 403 or 409. *)
Refuses(r) ==
  /\ \/ ~Redeemable(r) /\ UNCHANGED token
     \/ Redeemable(r) /\ ~MayRegister(r) /\ Spent(r)
  /\ UNCHANGED <<grant, pubkey, revoked, registered>>

(* The server dies after the first commit. *)
DiesOver(r) ==
  /\ Redeemable(r)
  /\ MayRegister(r)
  /\ Spent(r)
  /\ UNCHANGED <<grant, pubkey, revoked, registered>>

(* An operator revokes a device, or restores it. *)
SetRevoked(d, r) ==
  /\ pubkey[d] # NoKey
  /\ revoked' = [revoked EXCEPT ![d] = r]
  /\ UNCHANGED <<token, grant, pubkey, registered, disk, id, phase, keyIsNew, stray, made>>

Revoke(d)  == SetRevoked(d, TRUE)
Restore(d) == SetRevoked(d, FALSE)

(* A request whose agent has given up on it reaches the server late. *)
HandleStray ==
  \E r \in stray :
    /\ stray' = stray \ {r}
    /\ Accepts(r) \/ Refuses(r) \/ DiesOver(r)
    /\ UNCHANGED <<disk, id, phase, keyIsNew, made>>

-----------------------------------------------------------------------------
(* The agent                                                               *)

(* The service starts: LoadOrCreate takes the key file or writes one. *)
StartAgent(m) ==
  /\ phase[m] = "down"
  /\ phase' = [phase EXCEPT ![m] = "deciding"]
  /\ \/ /\ keyFile[m] # NoKey
        /\ keyIsNew' = [keyIsNew EXCEPT ![m] = FALSE]
        /\ UNCHANGED <<keyFile, made>>
     \/ /\ keyFile[m] = NoKey
        /\ \E k \in Keys \ UNION {made[n] : n \in Machines} :
             /\ keyFile' = [keyFile EXCEPT ![m] = k]
             /\ made' = [made EXCEPT ![m] = @ \cup {k}]
        /\ keyIsNew' = [keyIsNew EXCEPT ![m] = TRUE]
  /\ UNCHANGED <<server, marker, tokenFile, id, stray>>

(* Mutated form: it deletes the token it has no use for. *)
SkipAndDiscard(m) ==
  /\ phase[m] = "deciding"
  /\ TakenForEnrolled(m)
  /\ phase' = [phase EXCEPT ![m] = "enrolled"]
  /\ tokenFile' = [tokenFile EXCEPT ![m] = NoToken]
  /\ UNCHANGED <<server, keyFile, marker, id, keyIsNew, stray, made>>

(* EnsureEnrolledAsync finds nothing to do. *)
Skip(m) ==
  /\ phase[m] = "deciding"
  /\ TakenForEnrolled(m)
  /\ phase' = [phase EXCEPT ![m] = "enrolled"]
  /\ UNCHANGED <<server, disk, id, keyIsNew, stray, made>>

(* There is a token to post; without one it throws and the loop comes      *)
(* round.                                                                  *)
HasToken(m) == tokenFile[m] # NoToken

Ask(m) ==
  /\ phase[m] = "deciding"
  /\ ~TakenForEnrolled(m)
  /\ HasToken(m)
  /\ phase' = [phase EXCEPT ![m] = "asking"]
  /\ UNCHANGED <<server, disk, id, keyIsNew, stray, made>>

(* Mutated form: the status of the answer is not looked at. *)
AnsweredSomehow(m) ==
  /\ phase[m] = "asking"
  /\ Accepts(Request(m)) \/ Refuses(Request(m)) \/ DiesOver(Request(m))
  /\ phase' = [phase EXCEPT ![m] = "accepted"]
  /\ UNCHANGED <<disk, id, keyIsNew, stray, made>>

(* The server's answer.  A refusal, an answer that is lost on the way, and *)
(* a marker that cannot be written all throw: the loop comes round, with   *)
(* keyIsNew as it was.                                                     *)
Answered(m) ==
  /\ phase[m] = "asking"
  /\ \/ /\ Accepts(Request(m))
        /\ \E next \in {"accepted", "deciding"} : phase' = [phase EXCEPT ![m] = next]
     \/ /\ Refuses(Request(m)) \/ DiesOver(Request(m))
        /\ phase' = [phase EXCEPT ![m] = "deciding"]
  /\ UNCHANGED <<disk, id, keyIsNew, stray, made>>

(* HttpClient times out or the connection fails; the request is lost, or   *)
(* still on its way to the server.                                         *)
GiveUp(m) ==
  /\ phase[m] = "asking"
  /\ \/ UNCHANGED stray
     \/ Cardinality(stray) < MaxStray /\ stray' = stray \cup {Request(m)}
  /\ phase' = [phase EXCEPT ![m] = "deciding"]
  /\ UNCHANGED <<server, disk, id, keyIsNew, made>>

WriteMarker(m) ==
  /\ phase[m] = "accepted"
  /\ phase' = [phase EXCEPT ![m] = "marked"]
  /\ marker' = [marker EXCEPT ![m] = TRUE]
  /\ UNCHANGED <<server, keyFile, tokenFile, id, keyIsNew, stray, made>>

(* The spent token is deleted, or cannot be, which is only logged. *)
DiscardToken(m) ==
  /\ phase[m] = "marked"
  /\ phase' = [phase EXCEPT ![m] = "enrolled"]
  /\ keyIsNew' = [keyIsNew EXCEPT ![m] = FALSE]
  /\ \/ tokenFile' = [tokenFile EXCEPT ![m] = NoToken]
     \/ UNCHANGED tokenFile
  /\ UNCHANGED <<server, keyFile, marker, id, stray, made>>

(* The deletion fails with more than an IOException: it throws, the loop   *)
(* comes round, and a new key is taken to the server again.                *)
DiscardFails(m) ==
  /\ phase[m] = "marked"
  /\ phase' = [phase EXCEPT ![m] = "deciding"]
  /\ UNCHANGED <<server, disk, id, keyIsNew, stray, made>>

(* A session ends: the loop comes round. *)
SessionEnds(m) ==
  /\ phase[m] = "enrolled"
  /\ phase' = [phase EXCEPT ![m] = "deciding"]
  /\ UNCHANGED <<server, disk, id, keyIsNew, stray, made>>

(* The service or the machine stops, at any point. *)
StopAgent(m) ==
  /\ phase[m] \in Running
  /\ phase' = [phase EXCEPT ![m] = "down"]
  /\ keyIsNew' = [keyIsNew EXCEPT ![m] = FALSE]
  /\ UNCHANGED <<server, disk, id, stray, made>>

-----------------------------------------------------------------------------
(* The setup of the machine                                                *)

(* install.ps1: key and marker are taken for an identity. *)
HasIdentity(m) == keyFile[m] # NoKey /\ marker[m]

(* install.ps1 stops the service, deletes it, downloads and registers it   *)
(* again, with a token t beside it or none.  No agent runs meanwhile, so   *)
(* this is one step.  When the download fails, or is not what the server   *)
(* says it is, there is no service any more and the files are left.        *)
RunInstaller(m, t) ==
  /\ keyIsNew' = [keyIsNew EXCEPT ![m] = FALSE]
  /\ \/ /\ phase' = [phase EXCEPT ![m] = "absent"]
        /\ UNCHANGED tokenFile
     \/ /\ phase' = [phase EXCEPT ![m] = "down"]
        /\ tokenFile' = IF t = NoToken THEN tokenFile ELSE [tokenFile EXCEPT ![m] = t]
  /\ UNCHANGED <<server, keyFile, marker, id, stray, made>>

(* An administrator installs, with a token unless there is an identity. *)
Install(m, t) ==
  /\ t = NoToken => HasIdentity(m)
  /\ t \in Tokens => token[t] # "none"
  /\ RunInstaller(m, t)

(* upgrade_device: its job found a service and scheduled the installer,    *)
(* which runs later, with no token.                                        *)
Upgrade(m) ==
  /\ phase[m] # "absent"
  /\ HasIdentity(m)
  /\ RunInstaller(m, NoToken)

(* uninstall.ps1 stops and deletes the service and removes the folder. *)
Uninstall(m) ==
  /\ phase' = [phase EXCEPT ![m] = "absent"]
  /\ keyIsNew' = [keyIsNew EXCEPT ![m] = FALSE]
  /\ keyFile' = [keyFile EXCEPT ![m] = NoKey]
  /\ marker' = [marker EXCEPT ![m] = FALSE]
  /\ tokenFile' = [tokenFile EXCEPT ![m] = NoToken]
  /\ UNCHANGED <<server, id, stray, made>>

(* The key file is lost and the marker is not: what keyIsNew is there for. *)
LoseKey(m) ==
  /\ phase[m] \notin Running
  /\ keyFile[m] # NoKey
  /\ keyFile' = [keyFile EXCEPT ![m] = NoKey]
  /\ UNCHANGED <<server, marker, tokenFile, id, phase, keyIsNew, stray, made>>

-----------------------------------------------------------------------------
Agent(m) ==
  \/ StartAgent(m) \/ Skip(m) \/ Ask(m) \/ Answered(m) \/ GiveUp(m)
  \/ WriteMarker(m) \/ DiscardToken(m) \/ DiscardFails(m) \/ SessionEnds(m) \/ StopAgent(m)

Admin(m) ==
  \/ \E t \in Tokens \cup {NoToken} : Install(m, t)
  \/ Upgrade(m) \/ Uninstall(m) \/ LoseKey(m)

Next ==
  \/ \E t \in Tokens : Mint(t) \/ Expire(t)
  \/ \E d \in Devices : Revoke(d) \/ Restore(d)
  \/ HandleStray
  \/ \E m \in Machines : Agent(m) \/ Admin(m)

Spec == Init /\ [][Next]_vars

-----------------------------------------------------------------------------
(* Properties                                                              *)

(* A token registers one key at most, for the device it is bound to, and   *)
(* is spent with it, whatever requests are repeated, late or cut off       *)
(* (docs/threat-model.md: tokens "can be redeemed only once").             *)
OneKeyPerToken ==
  \A r \in registered :
    /\ token[r.token] = "used"
    /\ grant[r.token].bound \in {NoDevice, r.device}
    /\ \A s \in registered : s.token = r.token => s = r

(* The key of an enrolled device changes only by a recovery token minted   *)
(* for that very device, and not while the device is revoked               *)
(* (docs/threat-model.md: "An ordinary token cannot replace an enrolled    *)
(* device's key"; "Revoked devices cannot ... re-enroll").                 *)
ReplacedByRecovery ==
  [][\A d \in Devices : pubkey[d] # NoKey /\ pubkey'[d] # pubkey[d] =>
       /\ ~revoked[d]
       /\ \E t \in Tokens : /\ grant[t] = [rebind |-> TRUE, bound |-> d]
                            /\ token[t] = "live" /\ token'[t] = "used"]_vars

(* A machine with the marker once had a key of its own registered under    *)
(* its id, also when its answers are lost, its requests arrive late or its *)
(* clone registers (EnsureEnrolledAsync).                                  *)
MarkerWasEarned ==
  \A m \in Machines : marker[m] =>
    \E r \in registered : r.device = id[m] /\ r.key \in made[m]

(* The agent deletes a token file only when the key it now holds is        *)
(* registered: install.ps1 waits for that file to go and then says         *)
(* "Installed and enrolled."                                               *)
InstalledIsEnrolled ==
  [][\A m \in Machines :
       tokenFile[m] # NoToken /\ tokenFile'[m] = NoToken /\ phase'[m] \in Running =>
         \E r \in registered : r.device = id[m] /\ r.key = keyFile[m]]_vars
=============================================================================
