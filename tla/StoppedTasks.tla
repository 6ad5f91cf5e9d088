---------------------------- MODULE StoppedTasks ----------------------------
(***************************************************************************)
(* getTasksInfo of internal/docker/inspect.go and its stoppedTaskCache:    *)
(* running tasks are shown as Docker lists them, stopped ones stay in the  *)
(* view for a grace period, the newest one per slot only.                  *)
(*                                                                         *)
(* Times are ages that saturate at Grace, so no run of the clock is cut    *)
(* short.  A poll is one step: the goroutine owns the cache, and the list  *)
(* is one call to the Docker API.                                          *)
(***************************************************************************)
EXTENDS Integers

CONSTANTS Tasks,    \* task ids, never reused
          SlotOf,   \* service and slot (or node, for a global service)
          Created,  \* CreatedAt
          Grace     \* failedTaskGracePeriod

ASSUME StoppedTasksAssumption ==
    /\ Created \in [Tasks -> Nat]
    /\ Grace \in Nat \ {0}

VARIABLES
    status,   \* not created, stopped (failed or complete), live (any other
              \* state), or gone from Docker's list
    desired,  \* DesiredState is running or accepted
    updated,  \* age of UpdatedAt
    stopped,  \* age of the stop itself, Grace without one
    stoppedTaskCache,  \* the ids in it
    firstSeen,  \* age of the cache entry's firstSeen, 0 without an entry
    running,  \* tasks of the last result with a live desired state
    shown     \* stopped tasks appended to it

taskVars == <<status, desired, updated, stopped, stoppedTaskCache, firstSeen, running, shown>>

Ages == 0..Grace

TasksTypeOK ==
    /\ status \in [Tasks -> {"absent", "live", "stopped", "gone"}]
    /\ desired \in [Tasks -> BOOLEAN]
    /\ updated \in [Tasks -> Ages] /\ stopped \in [Tasks -> Ages]
    /\ stoppedTaskCache \subseteq Tasks /\ firstSeen \in [Tasks -> Ages]
    /\ running \subseteq Tasks /\ shown \subseteq Tasks

\* The server may start at any time: some tasks run, some stopped long ago.
TasksInit ==
    /\ status \in [Tasks -> {"absent", "live", "stopped"}]
    /\ desired = [t \in Tasks |-> status[t] = "live"]
    /\ updated = [t \in Tasks |-> Grace] /\ stopped = [t \in Tasks |-> Grace]
    /\ stoppedTaskCache = {} /\ firstSeen = [t \in Tasks |-> 0]
    /\ running = {} /\ shown = {}
-----------------------------------------------------------------------------
(* getTasksInfo.                                                           *)

Stopped == {t \in Tasks : status[t] = "stopped"}

RestampSeen(t) == t \in Stopped \/ t \notin stoppedTaskCache

\* An entry that exists keeps its firstSeen; others get the time of the poll.
Restamped(t) == t \notin stoppedTaskCache

EvictUnlisted == (stoppedTaskCache \cup {t \in Stopped : updated[t] < Grace}) \cap Stopped

\* Stopped tasks that are cached already, or were updated recently.
Cached == stoppedTaskCache \cup {t \in Stopped : updated[t] < Grace}

NewSeen == [t \in Tasks |-> IF t \in Cached /\ Restamped(t) THEN 0 ELSE firstSeen[t]]

EvictEarly == {t \in Cached : NewSeen[t] < Grace - 1}

\* What is left after the expired entries are evicted.
Kept == {t \in Cached : NewSeen[t] < Grace}

Result == {t \in Tasks : status[t] \in {"live", "stopped"} /\ desired[t]}

AllCandidates == Kept

\* A task the result already has is not appended a second time.
Candidates == Kept \ Result

\* For each slot one of its most recently created candidates: which one,
\* between equals, is up to the order of the range over the map.
Newest(S) ==
    /\ S \subseteq Candidates
    /\ \A t \in Candidates : \E u \in S : SlotOf[u] = SlotOf[t] /\ Created[u] >= Created[t]
    /\ \A t, u \in S : SlotOf[t] = SlotOf[u] => t = u

Poll ==
    /\ stoppedTaskCache' = Kept
    /\ firstSeen' = [t \in Tasks |-> IF t \in Kept THEN NewSeen[t] ELSE 0]
    /\ running' = Result
    /\ \E S \in SUBSET Candidates : Newest(S) /\ shown' = S
    /\ UNCHANGED <<status, desired, updated, stopped>>
-----------------------------------------------------------------------------
(* The swarm.  Docker stamps UpdatedAt on every change of a task.          *)

Create(t) ==
    /\ status[t] = "absent"
    /\ status' = [status EXCEPT ![t] = "live"]
    /\ desired' = [desired EXCEPT ![t] = TRUE]
    /\ updated' = [updated EXCEPT ![t] = 0]
    /\ UNCHANGED <<stopped, stoppedTaskCache, firstSeen, running, shown>>

Stop(t) ==
    /\ status[t] = "live"
    /\ status' = [status EXCEPT ![t] = "stopped"]
    /\ updated' = [updated EXCEPT ![t] = 0]
    /\ stopped' = [stopped EXCEPT ![t] = 0]
    /\ UNCHANGED <<desired, stoppedTaskCache, firstSeen, running, shown>>

\* The orchestrator gives the task up, before or after it stops, or changes
\* anything else about a task it has given up.
Update(t) ==
    /\ status[t] \in {"live", "stopped"}
    /\ desired' = [desired EXCEPT ![t] = FALSE]
    /\ updated' = [updated EXCEPT ![t] = 0]
    /\ UNCHANGED <<status, stopped, stoppedTaskCache, firstSeen, running, shown>>

\* The task leaves Docker's history.
Prune(t) ==
    /\ status[t] \in {"live", "stopped"} /\ ~desired[t]
    /\ status' = [status EXCEPT ![t] = "gone"]
    /\ updated' = [updated EXCEPT ![t] = Grace]
    /\ stopped' = [stopped EXCEPT ![t] = Grace]
    /\ UNCHANGED <<desired, stoppedTaskCache, firstSeen, running, shown>>

Older(a) == IF a < Grace THEN a + 1 ELSE Grace

Tick ==
    /\ updated' = [t \in Tasks |-> Older(updated[t])]
    /\ stopped' = [t \in Tasks |-> Older(stopped[t])]
    /\ firstSeen' = [t \in Tasks |-> IF t \in stoppedTaskCache THEN Older(firstSeen[t]) ELSE 0]
    /\ UNCHANGED <<status, desired, stoppedTaskCache, running, shown>>

TasksNext ==
    \/ Poll \/ Tick
    \/ \E t \in Tasks : Create(t) \/ Stop(t) \/ Update(t) \/ Prune(t)

TasksSpec == TasksInit /\ [][TasksNext]_taskVars

\* Time passes and the inspector polls.
FairTasksSpec == TasksSpec /\ WF_taskVars(Tick) /\ WF_taskVars(Poll)

\* Time can pass while an entry is young, and a poll can take an old task out of
\* the view: what the proof of progress has to know of ENABLED.
ClockCanRun ==
    /\ (\E t \in stoppedTaskCache : firstSeen[t] < Grace) => ENABLED <<Tick>>_taskVars
    /\ (\E t \in shown : firstSeen[t] >= Grace) => ENABLED <<Poll>>_taskVars
-----------------------------------------------------------------------------
\* No task is in the result twice, although a stopped task can still have a
\* live desired state and be in the cache at the same time.
NoDuplicates == running \cap shown = {}

\* A newer stopped task of the same slot stands for t after the step.
Superseded(t) == \E u \in shown' : SlotOf[u] = SlotOf[t] /\ Created[u] >= Created[t]

\* A task that stopped less than a grace period ago is in the result of every
\* poll, unless a newer one of its slot is.
RecentStopShown ==
    [][Poll => \A t \in Stopped : stopped[t] < Grace => t \in running' \/ Superseded(t)]_taskVars

\* A stopped task leaves the view only when its grace period is over or a
\* newer one takes its place, also when Docker no longer lists it.
NoEarlyDrop ==
    [][\A t \in shown \ shown' : firstSeen[t] >= Grace \/ Superseded(t)]_taskVars

\* No stopped task stays in the view for ever.
Expires == \A t \in Tasks : (t \in shown) ~> (t \notin shown)
=============================================================================
