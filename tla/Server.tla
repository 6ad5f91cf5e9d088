------------------------------- MODULE Server -------------------------------
(***************************************************************************)
(* The life of the server process as a browser and an orchestrator see it: *)
(* main() in cmd/server, the readiness endpoint, the container's health    *)
(* check, and of the inspector and the hub only what they show outside (   *)
(* the newest snapshot fanned out, and whether a connection slot is free). *)
(* Hub.tla and Inspector.tla have their insides.                           *)
(***************************************************************************)
EXTENDS Naturals

CONSTANTS Networks, Nodes, Services,  \* ids of what a swarm can hold
          Retries,                    \* failed health checks in a row that stop a container
          MaxFaults                   \* bound on the disturbances of a behaviour

Ids == Networks \cup Nodes \cup Services
Snapshots == SUBSET Ids

\* A frame, or none: the set of the snapshots it carries.
NoFrame == {}
Frame(s) == {s}
Frames == {NoFrame} \cup {Frame(s) : s \in Snapshots}

ASSUME ServerAssumption ==
    /\ Retries \in Nat \ {0}
    /\ MaxFaults \in Nat

VARIABLES process,     \* "down", "up", or "draining" once main has its signal
          lastFanned,  \* Hub.lastFanned of the running process
          cluster,     \* what the swarm holds now
          room,        \* whether the other clients leave a slot free
          failures,    \* health checks failed in a row
          faults       \* disturbances so far

serverVars == <<process, lastFanned, cluster, room, failures, faults>>

ServerInit ==
    /\ process = "up"
    /\ lastFanned = NoFrame
    /\ cluster \in Snapshots
    /\ room = TRUE
    /\ failures = 0
    /\ faults = 0

ServerTypeOK ==
    /\ process \in {"down", "up", "draining"}
    /\ lastFanned \in Frames
    /\ cluster \in Snapshots
    /\ room \in BOOLEAN
    /\ failures \in 0..Retries
    /\ faults \in 0..MaxFaults

Disturb == faults < MaxFaults /\ faults' = faults + 1

ReadyWhileCurrent == lastFanned = Frame(cluster)

\* Hub.Ready, which /healthz answers with 200 or 503.
Ready == lastFanned # NoFrame

\* ListenAndServe takes connections until Shutdown closes the listener.
Accepts == process = "up"

----------------------------------------------------------------------------
\* A new process: newHub has fanned nothing out, its container is not yet judged.
Start ==
    /\ process = "down"
    /\ process' = "up"
    /\ lastFanned' = NoFrame
    /\ failures' = 0
    /\ UNCHANGED <<cluster, room, faults>>

\* SIGTERM from whoever redeploys the service: Shutdown refuses newcomers, but
\* knows nothing of the WebSockets, which are hijacked, nor of the inspector.
Terminate ==
    /\ process = "up"
    /\ process' = "draining"
    /\ Disturb
    /\ UNCHANGED <<lastFanned, cluster, room, failures>>

\* main returns, or log.Fatal ends the process at once.
Exit ==
    /\ \/ process = "draining" /\ UNCHANGED faults
       \/ process = "up" /\ Disturb
    /\ process' = "down"
    /\ UNCHANGED <<lastFanned, cluster, room, failures>>

\* The inspector publishes, and the hub fans out, a snapshot unlike the last.
Publish ==
    /\ process # "down"
    /\ lastFanned # Frame(cluster)
    /\ lastFanned' = Frame(cluster)
    /\ UNCHANGED <<process, cluster, room, failures, faults>>

SwarmChanges ==
    /\ Disturb
    /\ cluster' \in Snapshots \ {cluster}
    /\ UNCHANGED <<process, lastFanned, room, failures>>

\* Other clients take the last slot, or give one back.
RoomChanges ==
    /\ room' = ~room
    /\ UNCHANGED <<process, lastFanned, cluster, failures, faults>>

\* cmd/healthcheck asks /healthz: exit status 0 on a 200, 1 on all else, a
\* listener that Shutdown has closed included.
Probe ==
    /\ process # "down"
    /\ failures < Retries
    /\ failures' = IF Accepts /\ Ready THEN 0 ELSE failures + 1
    /\ UNCHANGED <<process, lastFanned, cluster, room, faults>>

\* The orchestrator stops a container that has failed Retries checks in a row.
StopUnhealthy ==
    /\ process = "up"
    /\ failures = Retries
    /\ process' = "draining"
    /\ Disturb
    /\ UNCHANGED <<lastFanned, cluster, room, failures>>
=============================================================================
