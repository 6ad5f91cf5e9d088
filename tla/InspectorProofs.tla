-------------------------- MODULE InspectorProofs --------------------------
(***************************************************************************)
(* What the inspector publishes, for any history of the swarm and any      *)
(* failures of the Docker API, and what getTasksInfo shows, for any tasks, *)
(* slots and grace period.                                                 *)
(***************************************************************************)
EXTENDS Inspector, StoppedTasks, TLAPS

\* Nothing is from the future, and the calls of the refresh under way were
\* made in the order nodes, services, networks.
CallsInOrder ==
    /\ \A g \in Structural : got[g] <= world
    /\ ipc = "networks" /\ got.nodes # None /\ got.services # None => got.nodes <= got.services

\* The structural groups are loaded together.
LoadedTogether ==
    /\ cache.nodes = None <=> cache.services = None
    /\ cache.nodes = None <=> cache.networks = None

Complete(f) == f # NoFrame => \A g \in Groups : f[g] # 0

\* What waits for room in the hub's channel is not what went into it last.
ToSendIsNew == ipc = "send" => last # sent

IInv ==
    /\ TypeOK /\ CallsInOrder /\ LoadedTogether /\ NetworksNotOlder
    /\ LastIsSent /\ Complete(last) /\ Complete(sent)
    /\ ToSendIsNew

LEMMA InitIInv == Init => IInv
  <1> SUFFICES ASSUME Init PROVE IInv
    OBVIOUS
  <1>1. boot \in BOOLEAN /\ taskTick \in BOOLEAN /\ structTick \in BOOLEAN
    BY DEF Init
  <1>2. world \in Stamps /\ got \in [Structural -> Stamps \cup {None}]
        /\ cache \in [Groups -> Stamps \cup {None}]
    BY InspectorAssumption DEF Init, Stamps
  <1>3. TypeOK
    BY <1>1, <1>2 DEF Init, TypeOK
  <1>4. CallsInOrder
    BY DEF Init, CallsInOrder, None
  <1>5. LoadedTogether /\ NetworksNotOlder
    BY DEF Init, LoadedTogether, NetworksNotOlder, None, Groups, Structural
  <1> QED
    BY <1>3, <1>4, <1>5 DEF Init, IInv, LastIsSent, Complete, ToSendIsNew

\* A snapshot assembled from loaded groups shows all of them.
LEMMA DataComplete ==
  ASSUME TypeOK, LoadedTogether, HaveAll
  PROVE  Data \in Frames /\ Complete(Data)
  <1>1. \A g \in Groups : cache[g] \in Stamps /\ cache[g] # None
    BY DEF TypeOK, LoadedTogether, HaveAll, Groups, Structural
  <1>2. \A g \in Groups : Visible(g) \in Nat /\ Visible(g) # 0
    BY <1>1, InspectorAssumption DEF Visible, Stamps
  <1> QED
    BY <1>2 DEF Data, Frames, Complete, Groups, Structural, TypeOK

LEMMA Step == IInv /\ [Next]_vars => IInv'
  <1> SUFFICES ASSUME IInv, [Next]_vars PROVE IInv'
    OBVIOUS
  <1> USE InspectorAssumption DEF IInv, TypeOK, Stamps
  <1>1. CASE FetchNodes \/ FetchServices
    <2>1. UNCHANGED <<world, boot, cache, order, last, broadcast, sent, taskTick, structTick>>
      BY <1>1 DEF FetchNodes, FetchServices, Fetch
    <2>2. ipc # "send" /\ ipc' \in {"services", "networks"}
      BY <1>1 DEF FetchNodes, FetchServices, Fetch
    <2>3. (got \in [Structural -> Stamps \cup {None}])'
      BY <1>1 DEF FetchNodes, FetchServices, Fetch, Outcomes
    <2>4. CallsInOrder'
      <3>1. CASE FetchNodes
        BY <3>1, <2>1 DEF FetchNodes, Fetch, Outcomes, CallsInOrder, None, Structural
      <3>2. CASE FetchServices
        BY <3>2, <2>1 DEF FetchServices, Fetch, Outcomes, CallsInOrder, None, Structural
      <3> QED
        BY <1>1, <3>1, <3>2
    <2> QED
      BY <2>1, <2>2, <2>3, <2>4 DEF LoadedTogether, NetworksNotOlder, LastIsSent, Complete, ToSendIsNew
  <1>2. CASE FetchNetworks
    <2> PICK w \in Outcomes :
          /\ got' = [got EXCEPT !.networks = w]
          /\ cache' = Commit("networks", w)
          /\ ipc' \in {"tasks", "publish", "select"}
      BY <1>2 DEF FetchNetworks
    <2>1. UNCHANGED <<world, boot, order, last, broadcast, sent, taskTick, structTick>>
      BY <1>2 DEF FetchNetworks
    <2>2. (got \in [Structural -> Stamps \cup {None}])' /\ CallsInOrder'
      BY <2>1 DEF Outcomes, CallsInOrder, None, Structural
    <2>3. CASE cache' = cache
      BY <1>2, <2>1, <2>2, <2>3 DEF FetchNetworks, LoadedTogether, NetworksNotOlder, LastIsSent, Complete, ToSendIsNew
    <2>4. CASE cache' # cache
      <3>1. /\ got.nodes # None /\ got.services # None /\ w # None
            /\ cache' = [h \in Groups |-> IF h \in Structural THEN got'[h] ELSE cache[h]]
        BY <2>4 DEF Commit, Structural
      <3>2. got'.nodes = got.nodes /\ got'.services = got.services /\ got'.networks = world
        BY <3>1 DEF Outcomes, Structural
      <3>3. (cache \in [Groups -> Stamps \cup {None}])'
        BY <2>2, <3>1, <2>1 DEF Structural, Groups
      <3>4. LoadedTogether' /\ NetworksNotOlder'
        BY <1>2, <3>1, <3>2 DEF LoadedTogether, NetworksNotOlder, CallsInOrder, FetchNetworks, None,
           Structural, Groups
      <3> QED
        BY <1>2, <2>1, <2>2, <3>3, <3>4 DEF FetchNetworks, LastIsSent, Complete, ToSendIsNew
    <2> QED
      BY <2>3, <2>4
  <1>3. CASE FetchTasks
    <2>1. UNCHANGED <<world, boot, got, last, broadcast, sent, taskTick, structTick>>
      BY <1>3 DEF FetchTasks
    <2>2. ipc # "send" /\ ipc' \in {"publish", "select"} /\ order' \in Orders
      BY <1>3 DEF FetchTasks
    <2>3. (cache \in [Groups -> Stamps \cup {None}])'
      BY <1>3 DEF FetchTasks, Outcomes
    <2>4. \A g \in Structural : cache'[g] = cache[g]
      BY <1>3 DEF FetchTasks, Structural, Groups
    <2>5. LoadedTogether' /\ NetworksNotOlder'
      BY <2>4 DEF LoadedTogether, NetworksNotOlder, Structural
    <2> QED
      BY <2>1, <2>2, <2>3, <2>5 DEF CallsInOrder, LastIsSent, Complete, ToSendIsNew
  <1>4. CASE PublishNothing \/ MarshalFails
    BY <1>4 DEF PublishNothing, MarshalFails, ForgetUnsent, CallsInOrder, LoadedTogether,
                NetworksNotOlder, LastIsSent, Complete, ToSendIsNew
  <1>5. CASE Marshal
    <2>1. last' \in Frames /\ Complete(last')
      BY <1>5, DataComplete DEF Marshal
    <2>2. last' # last
      <3>1. Data # NoFrame
        BY DEF Data, NoFrame
      <3> QED
        BY <1>5, <3>1 DEF Marshal, Changed
    <2> QED
      BY <1>5, <2>1, <2>2 DEF Marshal, CallsInOrder, LoadedTogether, NetworksNotOlder, LastIsSent, Complete, ToSendIsNew
  <1>6. CASE Send
    BY <1>6 DEF Send, CallsInOrder, LoadedTogether, NetworksNotOlder, LastIsSent, Complete, ToSendIsNew
  <1>7. CASE OnTaskTick \/ OnStructuralTick \/ TickTasks \/ TickStructural \/ Consume
    <2>1. UNCHANGED <<world, got, cache, order, last, sent>>
      BY <1>7 DEF OnTaskTick, OnStructuralTick, TickTasks, TickStructural, Consume
    <2>2. boot' \in BOOLEAN /\ taskTick' \in BOOLEAN /\ structTick' \in BOOLEAN
      BY <1>7 DEF OnTaskTick, OnStructuralTick, TickTasks, TickStructural, Consume
    <2>3. /\ broadcast' \in Frames \cup {NoFrame}
          /\ ipc' = ipc \/ (ipc = "select" /\ ipc' \in {"tasks", "nodes"})
      BY <1>7 DEF OnTaskTick, OnStructuralTick, TickTasks, TickStructural, Consume
    <2>4. TypeOK'
      BY <2>1, <2>2, <2>3
    <2>5. CallsInOrder' /\ LoadedTogether' /\ NetworksNotOlder'
      BY <2>1, <2>3 DEF CallsInOrder, LoadedTogether, NetworksNotOlder
    <2>6. LastIsSent' /\ Complete(last)' /\ Complete(sent)' /\ ToSendIsNew'
      BY <2>1, <2>3 DEF LastIsSent, Complete, ToSendIsNew
    <2> QED
      BY <2>4, <2>5, <2>6
  <1>8. CASE SwarmChanges
    BY <1>8 DEF SwarmChanges, CallsInOrder, LoadedTogether, NetworksNotOlder, LastIsSent, Complete, ToSendIsNew,
                None, Structural, Groups
  <1>9. CASE UNCHANGED vars
    <2>1. TypeOK'
      BY <1>9 DEF vars
    <2>2. CallsInOrder' /\ LoadedTogether' /\ NetworksNotOlder'
      BY <1>9 DEF vars, CallsInOrder, LoadedTogether, NetworksNotOlder
    <2>3. LastIsSent' /\ Complete(last)' /\ Complete(sent)' /\ ToSendIsNew'
      BY <1>9 DEF vars, LastIsSent, Complete, ToSendIsNew
    <2> QED
      BY <2>1, <2>2, <2>3
  <1> QED
    BY <1>1, <1>2, <1>3, <1>4, <1>5, <1>6, <1>7, <1>8, <1>9 DEF Next, Inspect

LEMMA Invariance == Spec => []IInv
  BY InitIInv, Step, PTL DEF Spec

\* Before the first round of calls that begins after the swarm has come to rest
\* at w there may be older results under way.
RoundAt(w) ==
    /\ ipc = "services" => got.nodes \in {w, None}
    /\ ipc = "networks" => got.nodes \in {w, None} /\ got.services \in {w, None}

StructuralAt(w) == RoundAt(w) /\ \A g \in Structural : cache[g] = w
CacheAt(w) == StructuralAt(w) /\ cache.tasks = w
AtPublish == ipc = "publish"
Booting == boot /\ ipc = "tasks"
Shows(f, w) == f # NoFrame /\ \A g \in Groups : f[g] = Content[g][w]

\* Once the swarm rests, nothing older gets into the results or the cache again.
LEMMA RestStep ==
  ASSUME NEW w \in Stamps, IInv, world = w, [Next]_vars
  PROVE  /\ RoundAt(w) => RoundAt(w)'
         /\ StructuralAt(w) => StructuralAt(w)'
         /\ CacheAt(w) => CacheAt(w)'
  <1> USE InspectorAssumption DEF IInv, TypeOK, Stamps
  <1>1. CASE FetchNodes \/ FetchServices
    <2>1. cache' = cache
      BY <1>1 DEF FetchNodes, FetchServices, Fetch
    <2>2. RoundAt(w) => RoundAt(w)'
      <3>1. CASE FetchNodes
        BY <3>1 DEF FetchNodes, Fetch, Outcomes, RoundAt, Structural
      <3>2. CASE FetchServices
        BY <3>2 DEF FetchServices, Fetch, Outcomes, RoundAt, Structural
      <3> QED
        BY <1>1, <3>1, <3>2
    <2> QED
      BY <2>1, <2>2 DEF StructuralAt, CacheAt
  <1>2. CASE FetchNetworks
    <2> PICK v \in Outcomes : got' = [got EXCEPT !.networks = v] /\ cache' = Commit("networks", v)
      BY <1>2 DEF FetchNetworks
    <2>1. RoundAt(w)' /\ cache'.tasks = cache.tasks
      BY <1>2 DEF FetchNetworks, RoundAt, Commit, Groups, Structural
    <2>2. StructuralAt(w) => \A g \in Structural : cache'[g] = w
      BY <1>2 DEF FetchNetworks, StructuralAt, RoundAt, Commit, Groups, Structural, Outcomes
    <2> QED
      BY <2>1, <2>2 DEF StructuralAt, CacheAt
  <1>3. CASE FetchTasks
    <2>1. /\ \A g \in Structural : cache'[g] = cache[g]
          /\ cache'.tasks \in {cache.tasks, w}
      BY <1>3 DEF FetchTasks, Outcomes, Groups, Structural
    <2>2. RoundAt(w)'
      BY <1>3 DEF FetchTasks, RoundAt
    <2> QED
      BY <2>1, <2>2 DEF StructuralAt, CacheAt
  <1>4. CASE PublishNothing \/ MarshalFails \/ Marshal \/ Send \/ OnTaskTick \/ OnStructuralTick
    <2>1. ipc' \notin {"services", "networks"} /\ cache' = cache
      BY <1>4 DEF PublishNothing, MarshalFails, Marshal, Send, OnTaskTick, OnStructuralTick
    <2> QED
      BY <2>1 DEF RoundAt, StructuralAt, CacheAt
  <1>5. CASE SwarmChanges \/ TickTasks \/ TickStructural \/ Consume \/ UNCHANGED vars
    <2>1. UNCHANGED <<ipc, got, cache>>
      BY <1>5 DEF SwarmChanges, TickTasks, TickStructural, Consume, vars
    <2> QED
      BY <2>1 DEF RoundAt, StructuralAt, CacheAt
  <1> QED
    BY <1>1, <1>2, <1>3, <1>4, <1>5 DEF Next, Inspect

\* A round of calls that began at rest and succeeds fills the cache.
LEMMA RestRound ==
  ASSUME NEW w \in Stamps, IInv, world = w
  PROVE  /\ StructuralOK => RoundAt(w)'
         /\ RoundAt(w) /\ StructuralOK => StructuralAt(w)'
         /\ TasksOK => cache'.tasks = w
         /\ StructuralOK => ~Booting /\ (AtPublish' \/ Booting')
  <1> USE InspectorAssumption DEF IInv, TypeOK, Stamps
  <1>1. StructuralOK => RoundAt(w)'
    BY DEF StructuralOK, FetchNetworks, RoundAt
  <1>2. ASSUME RoundAt(w), StructuralOK PROVE \A g \in Structural : cache'[g] = w
    <2> PICK v \in Outcomes : got' = [got EXCEPT !.networks = v] /\ cache' = Commit("networks", v)
      BY <1>2 DEF StructuralOK, FetchNetworks
    <2>1. got.nodes # None /\ got.services # None /\ v # None
      BY <1>2 DEF StructuralOK, Structural
    <2>2. got.nodes = w /\ got.services = w /\ v = w
      BY <1>2, <2>1 DEF StructuralOK, FetchNetworks, RoundAt, Outcomes
    <2> QED
      BY <2>1, <2>2 DEF Commit, Groups, Structural, None
  <1>3. TasksOK => cache'.tasks = w
    BY DEF TasksOK
  <1>4. StructuralOK => ~Booting /\ (AtPublish' \/ Booting')
    BY DEF StructuralOK, FetchNetworks, Booting, AtPublish
  <1> QED
    BY <1>1, <1>2, <1>3, <1>4 DEF StructuralAt

\* After the first round of calls the tasks are fetched, and publish runs.
LEMMA BootStep == Booting /\ [Next]_vars => Booting' \/ AtPublish'
  BY DEF Booting, AtPublish, Next, Inspect, FetchNodes, FetchServices, Fetch, FetchNetworks, FetchTasks,
         PublishNothing, MarshalFails, Marshal, Send, OnTaskTick, OnStructuralTick, SwarmChanges,
         TickTasks, TickStructural, Consume, vars

\* With the cache at w only the swarm as it is can be compared, remembered and sent.
LEMMA RestPublish ==
  ASSUME NEW w \in Stamps, IInv, CacheAt(w), [Next]_vars
  PROVE  /\ HaveAll /\ Shows(Data, w)
         /\ ~Shows(last, w) => Changed
         /\ Shows(last, w) => Shows(last', w)
         /\ Marshal => Shows(last', w)
         /\ Shows(last, w) /\ Shows(sent, w) => Shows(sent', w)
         /\ Shows(last, w) /\ AtPublish => Shows(sent, w)
  <1>1. \A g \in Groups : cache[g] = w /\ w # None
    BY InspectorAssumption DEF CacheAt, StructuralAt, Groups, Stamps, None
  <1>2. HaveAll
    BY <1>1 DEF HaveAll, Groups, Structural
  <1>3. Shows(Data, w)
    <2>1. \A g \in Groups : Visible(g) = Content[g][w]
      BY <1>1 DEF Visible
    <2>2. Data # NoFrame
      BY DEF Data, NoFrame
    <2> QED
      BY <2>1, <2>2 DEF Shows, Data, Groups, Structural
  <1>4. /\ last' = last \/ (Marshal /\ last' = Data)
        /\ sent' = sent \/ sent' = last
        /\ Marshal => last' = Data
    BY DEF Next, Inspect, FetchNodes, FetchServices, Fetch, FetchNetworks, FetchTasks, PublishNothing,
           MarshalFails, ForgetUnsent, Marshal, Send, OnTaskTick, OnStructuralTick, SwarmChanges,
           TickTasks, TickStructural, Consume, vars
  <1>5. AtPublish => last = sent
    BY DEF IInv, LastIsSent, AtPublish
  <1>6. ~Shows(last, w) => Changed
    BY <1>3 DEF Changed
  <1> QED
    BY <1>2, <1>3, <1>4, <1>5, <1>6

\* The variables of the inspector keep their types.
THEOREM TypeCorrect == Spec => []TypeOK
  <1>1. IInv => TypeOK
    BY DEF IInv
  <1> QED
    BY <1>1, Invariance, PTL

\* However calls fail, the cached groups come from one refresh, in call order.
THEOREM OneRefresh == Spec => []NetworksNotOlder
  <1>1. IInv => NetworksNotOlder
    BY DEF IInv
  <1> QED
    BY <1>1, Invariance, PTL

\* Every snapshot the hub gets has all four groups.
THEOREM CompleteSnapshots == Spec => []NeverPartial
  <1>1. IInv => NeverPartial
    BY DEF IInv, Complete, NeverPartial
  <1> QED
    BY <1>1, Invariance, PTL

\* Change detection never compares with a snapshot the hub did not get.
THEOREM ComparedWithSent == Spec => []LastIsSent
  <1>1. IInv => LastIsSent
    BY DEF IInv
  <1> QED
    BY <1>1, Invariance, PTL

\* No snapshot goes out that equals the one before it, whatever fails between
\* the comparison and the send.
THEOREM ChangesOnly == Spec => NoRepeat
  <1>1. IInv => (Send => last # sent)
    BY DEF IInv, ToSendIsNew, Send
  <1>2. Spec => [][Send => last # sent]_vars
    BY <1>1, Invariance, PTL
  <1> QED
    BY <1>2 DEF NoRepeat

\* When the swarm has come to rest, whatever was under way and whatever calls
\* fail in between, the hub ends up with the swarm as it is, provided Docker
\* answers whole rounds now and then (inspect.go:129-205).
THEOREM FreshThm ==
  ASSUME NEW w \in Stamps
  PROVE  FairSpec /\ []MarshalCanRun /\ <>[](world = w) => Fresh
  <1> DEFINE Rest == world = w
             Sent == Shows(sent, w)
             Last == Shows(last, w)
  <1>1. /\ IInv /\ Rest /\ [Next]_vars => (RoundAt(w) => RoundAt(w)')
        /\ IInv /\ Rest /\ [Next]_vars => (StructuralAt(w) => StructuralAt(w)')
        /\ IInv /\ Rest /\ [Next]_vars => (CacheAt(w) => CacheAt(w)')
    BY RestStep
  <1>2. /\ IInv /\ Rest /\ <<StructuralOK>>_vars => RoundAt(w)'
        /\ IInv /\ Rest /\ RoundAt(w) /\ <<StructuralOK>>_vars => StructuralAt(w)'
    BY RestRound
  <1>3. /\ IInv /\ Rest /\ <<StructuralOK>>_vars => ~Booting /\ (AtPublish' \/ Booting')
        /\ Booting /\ [Next]_vars => Booting' \/ AtPublish'
    BY RestRound, BootStep
  <1>4. IInv /\ Rest /\ StructuralAt(w) /\ <<TasksOK>>_vars /\ [Next]_vars => CacheAt(w)'
    BY RestRound, RestStep DEF CacheAt
  <1>5. IInv /\ CacheAt(w) /\ [Next]_vars =>
          /\ Last => Last'
          /\ <<Marshal>>_vars => Last'
          /\ Last /\ Sent => Sent'
          /\ Last /\ AtPublish => Sent
    BY RestPublish
  <1>6. MarshalCanRun /\ IInv /\ CacheAt(w) /\ [Next]_vars /\ AtPublish /\ ~Last => ENABLED <<Marshal>>_vars
    BY RestPublish DEF MarshalCanRun, AtPublish
  <1>7. Rest /\ Sent => \A g \in Groups : sent # NoFrame /\ sent[g] = Content[g][world]
    BY DEF Shows
  <1>8. Fairness => SF_vars(Marshal)
    BY PTL DEF Fairness
  <1>9. FairSpec /\ []MarshalCanRun /\ <>[]Rest /\ []<><<StructuralOK>>_vars /\ []<><<TasksOK>>_vars
          => <>[](Rest /\ Sent)
    <2> HIDE DEF Rest, Sent, Last
    <2>1. Spec /\ <>[]Rest /\ []<><<StructuralOK>>_vars => <>[](Rest /\ RoundAt(w))
      BY <1>1, <1>2, Invariance, PTL DEF Spec
    <2>2. Spec /\ <>[](Rest /\ RoundAt(w)) /\ []<><<StructuralOK>>_vars => <>[](Rest /\ StructuralAt(w))
      BY <1>1, <1>2, Invariance, PTL DEF Spec
    <2>3. Spec /\ <>[](Rest /\ StructuralAt(w)) /\ []<><<TasksOK>>_vars => <>[](Rest /\ CacheAt(w))
      BY <1>1, <1>4, Invariance, PTL DEF Spec
    <2>4. Spec /\ <>[]Rest /\ []<><<StructuralOK>>_vars => []<>AtPublish
      BY <1>3, Invariance, PTL DEF Spec
    <2>5. Spec /\ SF_vars(Marshal) /\ []MarshalCanRun /\ <>[](Rest /\ CacheAt(w)) /\ []<>AtPublish
            => <>[](Rest /\ CacheAt(w) /\ Last)
      BY <1>5, <1>6, Invariance, PTL DEF Spec
    <2>6. Spec /\ <>[](Rest /\ CacheAt(w) /\ Last) /\ []<>AtPublish => <>[](Rest /\ Sent)
      BY <1>5, Invariance, PTL DEF Spec
    <2> QED
      BY <1>8, <2>1, <2>2, <2>3, <2>4, <2>5, <2>6, PTL DEF FairSpec
  <1>10. <>[](Rest /\ Sent) => <>[](\A g \in Groups : sent # NoFrame /\ sent[g] = Content[g][world])
    BY <1>7, PTL
  <1> QED
    BY <1>9, <1>10, PTL DEF Fresh, DockerAnswers
-----------------------------------------------------------------------------
(* The stopped tasks.                                                        *)

\* UpdatedAt is not before the stop, and a stop is not noticed before it
\* happens.
AgesOrdered ==
    \A t \in Stopped : updated[t] <= stopped[t] /\ (t \in stoppedTaskCache => firstSeen[t] <= stopped[t])

\* What is shown is cached, has stopped, and has been given up by the swarm.
ShownIsDone ==
    /\ shown \subseteq stoppedTaskCache
    /\ \A t \in stoppedTaskCache : status[t] \in {"stopped", "gone"}
    /\ \A t \in shown : status[t] = "gone" \/ ~desired[t]

TasksIInv == TasksTypeOK /\ AgesOrdered /\ ShownIsDone

LEMMA TasksInitIInv == TasksInit => TasksIInv
  BY StoppedTasksAssumption DEF TasksInit, TasksIInv, TasksTypeOK, AgesOrdered, ShownIsDone, Stopped, Ages

LEMMA TasksStep == TasksIInv /\ [TasksNext]_taskVars => TasksIInv'
  <1> SUFFICES ASSUME TasksIInv, [TasksNext]_taskVars PROVE TasksIInv'
    OBVIOUS
  <1> USE StoppedTasksAssumption DEF TasksIInv, TasksTypeOK, Ages
  <1>1. CASE Poll
    <2>1. TasksTypeOK'
      <3>1. Kept \subseteq Tasks /\ Candidates \subseteq Tasks /\ Result \subseteq Tasks
        BY DEF Kept, Cached, Stopped, Candidates, Result
      <3>2. \A t \in Tasks : NewSeen[t] \in 0..Grace
        BY DEF NewSeen
      <3>3. (firstSeen \in [Tasks -> 0..Grace])'
        BY <1>1, <3>2 DEF Poll
      <3> QED
        BY <1>1, <3>1, <3>3 DEF Poll
    <2>2. AgesOrdered'
      <3> SUFFICES ASSUME NEW t \in Tasks, status[t] = "stopped"
                   PROVE  updated[t] <= stopped[t] /\ firstSeen'[t] <= stopped[t]
        BY <1>1 DEF Poll, AgesOrdered, Stopped
      <3>1. updated[t] <= stopped[t] /\ (t \in stoppedTaskCache => firstSeen[t] <= stopped[t])
        BY DEF AgesOrdered, Stopped
      <3>2. NewSeen[t] = 0 \/ (t \in stoppedTaskCache /\ NewSeen[t] = firstSeen[t]) \/ t \notin Kept
        BY DEF NewSeen, Restamped, Kept
      <3> QED
        BY <1>1, <3>1, <3>2 DEF Poll
    <2>3. ShownIsDone'
      <3>1. shown' \subseteq Candidates /\ stoppedTaskCache' = Kept /\ UNCHANGED <<status, desired>>
        BY <1>1 DEF Poll
      <3>2. \A t \in Kept : status[t] \in {"stopped", "gone"}
        BY DEF Kept, Cached, Stopped, ShownIsDone
      <3> QED
        BY <3>1, <3>2 DEF ShownIsDone, Candidates, Result, Kept, Cached, Stopped
    <2> QED
      BY <2>1, <2>2, <2>3
  <1>2. CASE Tick
    BY <1>2 DEF Tick, Older, AgesOrdered, ShownIsDone, Stopped
  <1>3. ASSUME NEW t \in Tasks, Create(t) PROVE TasksIInv'
    BY <1>3 DEF Create, AgesOrdered, ShownIsDone, Stopped
  <1>4. ASSUME NEW t \in Tasks, Stop(t) PROVE TasksIInv'
    BY <1>4 DEF Stop, AgesOrdered, ShownIsDone, Stopped
  <1>5. ASSUME NEW t \in Tasks, Update(t) PROVE TasksIInv'
    BY <1>5 DEF Update, AgesOrdered, ShownIsDone, Stopped
  <1>6. ASSUME NEW t \in Tasks, Prune(t) PROVE TasksIInv'
    BY <1>6 DEF Prune, AgesOrdered, ShownIsDone, Stopped
  <1>7. CASE UNCHANGED taskVars
    BY <1>7 DEF taskVars, AgesOrdered, ShownIsDone, Stopped
  <1> QED
    BY <1>1, <1>2, <1>3, <1>4, <1>5, <1>6, <1>7 DEF TasksNext

LEMMA TasksInvariance == TasksSpec => []TasksIInv
  BY TasksInitIInv, TasksStep, PTL DEF TasksSpec

\* The cache and the result hold known tasks, and every age is within the
\* grace period.
THEOREM TasksTypeCorrect == TasksSpec => []TasksTypeOK
  <1>1. TasksIInv => TasksTypeOK
    BY DEF TasksIInv
  <1> QED
    BY <1>1, TasksInvariance, PTL

\* A poll appends nothing that its result already has.
LEMMA DuplicatesStep == NoDuplicates /\ [TasksNext]_taskVars => NoDuplicates'
  BY DEF NoDuplicates, TasksNext, taskVars, Poll, Candidates, Tick, Create, Stop, Update, Prune

\* No task is in the result of getTasksInfo twice.
THEOREM NoDuplicateTask == TasksSpec => []NoDuplicates
  <1>1. TasksInit => NoDuplicates
    BY DEF TasksInit, NoDuplicates
  <1> QED
    BY <1>1, DuplicatesStep, PTL DEF TasksSpec

\* In a poll, a cached candidate is shown or another of its slot is.
LEMMA CandidateStands ==
  ASSUME Poll, NEW t \in Candidates
  PROVE  Superseded(t)
  BY DEF Poll, Newest, Superseded

\* A recent stop is in the result of every poll, or a newer one of its slot.
THEOREM RecentStops == TasksSpec => RecentStopShown
  <1>1. ASSUME TasksIInv, Poll, NEW t \in Stopped, stopped[t] < Grace
        PROVE  t \in running' \/ Superseded(t)
    <2> USE StoppedTasksAssumption DEF TasksIInv, TasksTypeOK, Ages
    <2>1. updated[t] < Grace /\ (t \in stoppedTaskCache => firstSeen[t] < Grace)
      BY <1>1 DEF AgesOrdered, Stopped
    <2>2. t \in Kept
      BY <1>1, <2>1 DEF Kept, Cached, NewSeen, Restamped, Stopped
    <2>3. CASE t \in Result
      BY <1>1, <2>3 DEF Poll
    <2>4. CASE t \notin Result
      BY <1>1, <2>2, <2>4, CandidateStands DEF Candidates
    <2> QED
      BY <2>3, <2>4
  <1>2. TasksIInv /\ [TasksNext]_taskVars
          => [Poll => \A t \in Stopped : stopped[t] < Grace => t \in running' \/ Superseded(t)]_taskVars
    BY <1>1
  <1> QED
    BY <1>2, TasksInvariance, PTL DEF TasksSpec, RecentStopShown

\* A stopped task is dropped only for its age or for a newer one, whatever
\* Docker does with it.
THEOREM KeptInView == TasksSpec => NoEarlyDrop
  <1>1. ASSUME TasksIInv, Poll, NEW t \in shown, t \notin shown'
        PROVE  firstSeen[t] >= Grace \/ Superseded(t)
    <2> USE StoppedTasksAssumption DEF TasksIInv, TasksTypeOK, Ages
    <2>1. t \in stoppedTaskCache /\ t \notin Result /\ t \in Tasks /\ firstSeen[t] \in 0..Grace
      BY <1>1 DEF ShownIsDone, Result
    <2>2. CASE firstSeen[t] < Grace
      <3>1. t \in Candidates
        BY <2>1, <2>2 DEF Candidates, Kept, Cached, NewSeen, Restamped
      <3> QED
        BY <1>1, <3>1, CandidateStands
    <2> QED
      BY <2>1, <2>2
  <1>2. ASSUME TasksIInv, [TasksNext]_taskVars, ~Poll PROVE shown' = shown
    BY <1>2 DEF TasksNext, taskVars, Tick, Create, Stop, Update, Prune
  <1>3. TasksIInv /\ [TasksNext]_taskVars
          => [\A t \in shown \ shown' : firstSeen[t] >= Grace \/ Superseded(t)]_taskVars
    BY <1>1, <1>2
  <1> QED
    BY <1>3, TasksInvariance, PTL DEF TasksSpec, NoEarlyDrop
-----------------------------------------------------------------------------
\* A task in the view, k units after the poll that first saw it stopped.
AtAge(t, k) == t \in shown /\ firstSeen[t] = k
Onward(t, k) == t \notin shown \/ (k < Grace /\ AtAge(t, k + 1))

\* No step makes a shown task younger again, and the clock makes it older.
LEMMA AgeStep ==
  ASSUME TasksIInv, [TasksNext]_taskVars, NEW t \in Tasks, NEW k \in Ages, AtAge(t, k)
  PROVE  /\ AtAge(t, k)' \/ Onward(t, k)'
         /\ Tick /\ k < Grace => Onward(t, k)'
         /\ Poll /\ k = Grace => Onward(t, k)'
  <1> USE StoppedTasksAssumption DEF TasksIInv, TasksTypeOK, Ages, AtAge, Onward
  <1>1. t \in stoppedTaskCache
    BY DEF ShownIsDone
  <1>2. ASSUME Poll, k < Grace PROVE AtAge(t, k)' \/ Onward(t, k)'
    <2>1. t \in Kept /\ NewSeen[t] = k
      BY <1>1, <1>2 DEF Kept, Cached, NewSeen, Restamped
    <2>2. firstSeen'[t] = k
      BY <1>2, <2>1 DEF Poll
    <2> QED
      BY <2>2
  <1>3. ASSUME Poll, k = Grace PROVE Onward(t, k)'
    <2>1. t \notin Candidates
      BY <1>1, <1>3 DEF Candidates, Kept, Cached, NewSeen, Restamped
    <2> QED
      BY <1>3, <2>1 DEF Poll
  <1>4. ASSUME Tick PROVE shown' = shown /\ firstSeen'[t] = Older(k)
    BY <1>1, <1>4 DEF Tick
  <1>5. ASSUME Tick PROVE AtAge(t, k)' \/ Onward(t, k)'
    BY <1>4, <1>5 DEF Older
  <1>6. ASSUME Tick, k < Grace PROVE Onward(t, k)'
    BY <1>4, <1>6 DEF Older
  <1>7. ASSUME UNCHANGED taskVars \/ \E u \in Tasks : Create(u) \/ Stop(u) \/ Update(u) \/ Prune(u)
        PROVE  AtAge(t, k)'
    BY <1>7 DEF taskVars, Create, Stop, Update, Prune
  <1>8. k < Grace \/ k = Grace
    OBVIOUS
  <1> QED
    <2> HIDE DEF TasksIInv, TasksTypeOK, AtAge, Onward
    <2> QED
      BY <1>2, <1>3, <1>5, <1>6, <1>7, <1>8 DEF TasksNext

\* A stopped task in the view gets one unit older, until its grace period is
\* over, and then leaves (eviction in getTasksInfo): polls, changes of the task
\* and its removal from Docker's list never restart its grace period.  Chained
\* over the ages 0..Grace this is Expires.
THEOREM AgesOut ==
  ASSUME NEW t \in Tasks, NEW k \in Ages
  PROVE  FairTasksSpec /\ []ClockCanRun => (AtAge(t, k) ~> Onward(t, k))
  <1>1. TasksIInv /\ [TasksNext]_taskVars => (AtAge(t, k) => AtAge(t, k)' \/ Onward(t, k)')
    BY AgeStep
  <1>2. CASE k < Grace
    <2>1. TasksIInv /\ ClockCanRun => (AtAge(t, k) => ENABLED <<Tick>>_taskVars)
      BY <1>2 DEF TasksIInv, ShownIsDone, AtAge, ClockCanRun
    <2>2. TasksIInv /\ [TasksNext]_taskVars /\ <<Tick>>_taskVars => (AtAge(t, k) => Onward(t, k)')
      BY <1>2, AgeStep
    <2> QED
      BY <1>1, <2>1, <2>2, TasksInvariance, PTL DEF FairTasksSpec, TasksSpec
  <1>3. CASE k = Grace
    <2>1. ClockCanRun => (AtAge(t, k) => ENABLED <<Poll>>_taskVars)
      BY <1>3, StoppedTasksAssumption DEF AtAge, ClockCanRun
    <2>2. TasksIInv /\ [TasksNext]_taskVars /\ <<Poll>>_taskVars => (AtAge(t, k) => Onward(t, k)')
      BY <1>3, AgeStep
    <2> QED
      BY <1>1, <2>1, <2>2, TasksInvariance, PTL DEF FairTasksSpec, TasksSpec
  <1> QED
    BY <1>2, <1>3, StoppedTasksAssumption DEF Ages
=============================================================================
