---------------------------- MODULE JobContract ----------------------------
(***************************************************************************)
(* What the control plane promises about the jobs it hands out ids for,    *)
(* with no connections, queues, agents or crashes in sight (docs/design.md *)
(* "Command flow", docs/api.md section 6).  A job is submitted once, its   *)
(* state only moves forward, a terminal state is final, and "Completed" is *)
(* answered only for a script that an endpoint started, at most once.      *)
(***************************************************************************)
EXTENDS Naturals

CONSTANT Jobs

VARIABLES
  state,   \* what GET /api/jobs/{id} answers; "none" before the job exists
  starts   \* how many times an endpoint started the job's script

vars == <<state, starts>>

Active   == {"Queued", "Dispatched", "Running"}
Terminal == {"Completed", "TimedOut", "Unreachable", "Failed"}

Init == /\ state  = [j \in Jobs |-> "none"]
        /\ starts = [j \in Jobs |-> 0]

(* One job's share of a step: the server's supervisor, a revocation and a  *)
(* restart settle several jobs at once.                                    *)
Moves(j) ==
  \/ state'[j] = state[j]
  \/ /\ state[j] = "none"       /\ state'[j] \in {"Queued", "Dispatched"}
  \/ /\ state[j] = "Dispatched" /\ state'[j] = "Running"
  \/ /\ state[j] \in Active     /\ state'[j] \in Terminal
     /\ state'[j] = "Completed" => starts[j] = 1

Starts(j) ==
  \/ starts'[j] = starts[j]
  \/ state[j] # "none" /\ starts[j] = 0 /\ starts'[j] = 1

Next == \A j \in Jobs : Moves(j) /\ Starts(j)

Spec == Init /\ [][Next]_vars
=============================================================================
