----------------------------- MODULE Inspector -----------------------------
(***************************************************************************)
(* The inspectSwarmServices goroutine of internal/docker/inspect.go: it    *)
(* polls the Docker API on two tickers, caches each group, and publishes   *)
(* the assembled snapshot when it differs from the previous one.           *)
(*                                                                         *)
(* world counts the changes of the swarm.  A fetch of group g yields the   *)
(* number of changes it has seen, and Content[g][w] is what is left of the *)
(* group at that moment after sanitizing and clearing: a change of another *)
(* group, or of a hidden field only, leaves it the same.  Stopped tasks    *)
(* come out of a map range, so the tasks also have an order.               *)
(***************************************************************************)
EXTENDS Integers

CONSTANTS MaxChanges,  \* bound: how often the swarm changes
          Content,     \* visible content of each group after each change
          Orders       \* the orders a range over newestStopped can have

Structural == {"nodes", "services", "networks"}
Groups == Structural \cup {"tasks"}

ASSUME InspectorAssumption ==
    /\ MaxChanges \in Nat
    /\ Content \in [Groups -> [0..MaxChanges -> Nat \ {0}]]
    /\ Orders # {}

VARIABLES
    world,       \* how often the swarm has changed
    ipc,         \* where the goroutine is
    boot,        \* it has not entered its select loop yet
    got,         \* results of the calls of the structural refresh under way
    cache,       \* nodes, services, networks and tasks
    order,       \* the order of the stopped tasks in tasks
    last,        \* lastPublished
    broadcast,   \* the hub's channel
    sent,        \* the last snapshot that went into it
    taskTick,    \* taskTicker.C holds a tick
    structTick   \* structuralTicker.C holds a tick

vars == <<world, ipc, boot, got, cache, order, last, broadcast, sent, taskTick, structTick>>

None == -1     \* an error, or nothing fetched yet
Stamps == 0..MaxChanges
NoFrame == [order |-> {}]
Frames == [nodes : Nat, services : Nat, networks : Nat, tasks : Nat, order : Orders]

TypeOK ==
    /\ world \in Stamps
    /\ ipc \in {"nodes", "services", "networks", "tasks", "publish", "send", "select"}
    /\ boot \in BOOLEAN
    /\ got \in [Structural -> Stamps \cup {None}]
    /\ cache \in [Groups -> Stamps \cup {None}]
    /\ order \in Orders
    /\ last \in Frames \cup {NoFrame}
    /\ broadcast \in Frames \cup {NoFrame}
    /\ sent \in Frames \cup {NoFrame}
    /\ taskTick \in BOOLEAN /\ structTick \in BOOLEAN

Init ==
    /\ world = 0 /\ ipc = "nodes" /\ boot = TRUE
    /\ got = [g \in Structural |-> None]
    /\ cache = [g \in Groups |-> None]
    /\ order \in Orders
    /\ last = NoFrame /\ broadcast = NoFrame /\ sent = NoFrame
    /\ taskTick = FALSE /\ structTick = FALSE
-----------------------------------------------------------------------------
\* What a call to the Docker API returns: the group as it is now, or an error.
Outcomes == {world, None}

\* getNodesInfo and getServicesInfo; an error does not stop the refresh yet.
Fetch(g, next) ==
    /\ ipc = g
    /\ \E w \in Outcomes : got' = [got EXCEPT ![g] = w]
    /\ ipc' = next
    /\ UNCHANGED <<world, boot, cache, order, last, broadcast, sent, taskTick, structTick>>

FetchNodes == Fetch("nodes", "services")
FetchServices == Fetch("services", "networks")

CommitEach(g, w) ==
    [h \in Groups |-> LET r == [got EXCEPT ![g] = w] IN
        IF h \in Structural /\ r[h] # None THEN r[h] ELSE cache[h]]

\* The cache after the last call g of a refresh returned w: all three groups
\* are replaced, or none.
Commit(g, w) ==
    LET r == [got EXCEPT ![g] = w] IN
    IF \A h \in Structural : r[h] # None
      THEN [h \in Groups |-> IF h \in Structural THEN r[h] ELSE cache[h]]
      ELSE cache

\* getNetworksInfo and the end of refreshStructural.
FetchNetworks ==
    /\ ipc = "networks"
    /\ \E w \in Outcomes :
        /\ got' = [got EXCEPT !.networks = w]
        /\ cache' = Commit("networks", w)
        /\ ipc' = IF boot THEN "tasks"
                  ELSE IF \A h \in Structural : got'[h] # None THEN "publish" ELSE "select"
    /\ UNCHANGED <<world, boot, order, last, broadcast, sent, taskTick, structTick>>

\* refreshTasks.
FetchTasks ==
    /\ ipc = "tasks"
    /\ \E w \in Outcomes :
        /\ cache' = IF w = None THEN cache ELSE [cache EXCEPT !.tasks = w]
        /\ IF w = None THEN order' = order ELSE order' \in Orders
        /\ ipc' = IF w # None \/ boot THEN "publish" ELSE "select"
    /\ UNCHANGED <<world, boot, got, last, broadcast, sent, taskTick, structTick>>
-----------------------------------------------------------------------------
HaveAny == cache.nodes # None \/ cache.tasks # None

\* haveStructural && haveTasks
HaveAll == cache.nodes # None /\ cache.tasks # None

\* What a cached group shows once the configured paths are cleared; 0 for nil.
Visible(g) == IF cache[g] = None THEN 0 ELSE Content[g][cache[g]]

\* The assembled snapshot.
Data ==
    [nodes |-> Visible("nodes"), services |-> Visible("services"),
     networks |-> Visible("networks"), tasks |-> Visible("tasks"), order |-> order]

AlwaysChanged == TRUE

\* lastPublished == nil || !reflect.DeepEqual(data, *lastPublished)
Changed == last = NoFrame \/ Data # last

\* publish returns early: a group is missing, or nothing changed.
PublishNothing ==
    /\ ipc = "publish" /\ ~(HaveAll /\ Changed)
    /\ ipc' = "select" /\ boot' = FALSE
    /\ UNCHANGED <<world, got, cache, order, last, broadcast, sent, taskTick, structTick>>

RememberUnsent == last' = Data

ForgetUnsent == UNCHANGED last

\* json.Marshal fails: lastPublished is left alone, so the next tick tries again.
MarshalFails ==
    /\ ipc = "publish" /\ HaveAll /\ Changed
    /\ ForgetUnsent
    /\ ipc' = "select" /\ boot' = FALSE
    /\ UNCHANGED <<world, got, cache, order, broadcast, sent, taskTick, structTick>>

Marshal ==
    /\ ipc = "publish" /\ HaveAll /\ Changed
    /\ last' = Data
    /\ ipc' = "send" /\ boot' = FALSE
    /\ UNCHANGED <<world, got, cache, order, broadcast, sent, taskTick, structTick>>

\* hub.Publish blocks until the channel has room.
Send ==
    /\ ipc = "send" /\ broadcast = NoFrame
    /\ broadcast' = last /\ sent' = last
    /\ ipc' = "select"
    /\ UNCHANGED <<world, boot, got, cache, order, last, taskTick, structTick>>

OnTaskTick ==
    /\ ipc = "select" /\ taskTick
    /\ taskTick' = FALSE /\ ipc' = "tasks"
    /\ UNCHANGED <<world, boot, got, cache, order, last, broadcast, sent, structTick>>

OnStructuralTick ==
    /\ ipc = "select" /\ structTick
    /\ structTick' = FALSE /\ ipc' = "nodes"
    /\ UNCHANGED <<world, boot, got, cache, order, last, broadcast, sent, taskTick>>
-----------------------------------------------------------------------------
(* The rest of the world.                                                  *)

SwarmChanges ==
    /\ world < MaxChanges
    /\ world' = world + 1
    /\ UNCHANGED <<ipc, boot, got, cache, order, last, broadcast, sent, taskTick, structTick>>

\* The tickers start after the initial fetch; a tick that finds its channel
\* full is dropped.
TickTasks ==
    /\ ~boot /\ taskTick' = TRUE
    /\ UNCHANGED <<world, ipc, boot, got, cache, order, last, broadcast, sent, structTick>>

TickStructural ==
    /\ ~boot /\ structTick' = TRUE
    /\ UNCHANGED <<world, ipc, boot, got, cache, order, last, broadcast, sent, taskTick>>

\* runBroadcasts takes the frame.
Consume ==
    /\ broadcast # NoFrame
    /\ broadcast' = NoFrame
    /\ UNCHANGED <<world, ipc, boot, got, cache, order, last, sent, taskTick, structTick>>

Inspect ==
    \/ FetchNodes \/ FetchServices \/ FetchNetworks \/ FetchTasks
    \/ PublishNothing \/ MarshalFails \/ Marshal \/ Send

Next ==
    \/ Inspect \/ OnTaskTick \/ OnStructuralTick
    \/ SwarmChanges \/ TickTasks \/ TickStructural \/ Consume

Spec == Init /\ [][Next]_vars

(* The goroutine runs, both tickers fire, select starves neither of them    *)
(* (it chooses at random), runBroadcasts keeps receiving, and marshalling   *)
(* the same data does not fail for ever.                                    *)
Fairness ==
    /\ WF_vars(Inspect) /\ SF_vars(OnTaskTick) /\ SF_vars(OnStructuralTick)
    /\ WF_vars(TickTasks) /\ WF_vars(TickStructural) /\ WF_vars(Consume)
    /\ SF_vars(Marshal)

FairSpec == Spec /\ Fairness

\* Where publish has something to send, marshalling it is a step: what the proof
\* of Fresh has to know of ENABLED, which the proof system cannot compute.
MarshalCanRun == ipc = "publish" /\ HaveAll /\ Changed => ENABLED <<Marshal>>_vars
-----------------------------------------------------------------------------
\* In what is published the networks are never older than the services, nor
\* these than the nodes, however calls fail: a network a shown service uses
\* is missing only if the swarm removed it since.
NetworksNotOlder == cache.nodes <= cache.services /\ cache.services <= cache.networks

\* No snapshot goes out before every group has been fetched once.
NeverPartial == sent # NoFrame => \A g \in Groups : sent[g] # 0

\* Change detection compares with what really went to the hub, although
\* lastPublished is set before the blocking send and marshalling may fail.
LastIsSent == ipc # "send" => last = sent

\* Every snapshot that goes out differs from the one that went out before it,
\* in a group or in the order of the stopped tasks (inspect.go:102); failed
\* marshalling and the blocking send between the two do not get in the way.
NoRepeat == [][Send => last # sent]_vars

\* Docker answers whole rounds of calls again and again.
StructuralOK == FetchNetworks /\ \A g \in Structural : got'[g] # None
TasksOK == FetchTasks /\ cache'.tasks = world
DockerAnswers == []<><<StructuralOK>>_vars /\ []<><<TasksOK>>_vars

\* When the swarm has come to rest and Docker answers now and then, the hub
\* ends up with the swarm as it is.
Fresh == DockerAnswers => <>[](\A g \in Groups : sent # NoFrame /\ sent[g] = Content[g][world])
=============================================================================
