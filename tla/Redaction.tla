----------------------------- MODULE Redaction -----------------------------
(***************************************************************************)
(* What is taken out of the Docker data before it is sent                  *)
(* (internal/docker/inspect.go): the sanitizers run on every fetch, by     *)
(* configuration and by labels of the service; publish clears the          *)
(* configured paths in place, in slices it keeps between polls and that    *)
(* the previously published snapshot may still share.  A task that has     *)
(* stopped is copied into stoppedTaskCache, and from there into the slices *)
(* of later polls: the copies share one ContainerSpec, in memory.          *)
(*                                                                         *)
(* The swarm is one service with its tasks, one node and one network       *)
(* besides ingress; one ContainerSpec stands for the service's and for     *)
(* those of the tasks that Docker lists, which are decoded one by one.     *)
(* Docker's default filters list only containers, so it is never nil.  The *)
(* others of a swarm are the labels of its node and its network.  When a   *)
(* stopped task is cached or evicted, and which of a slot is shown, is the *)
(* subject of StoppedTasks: here any may be evicted, and each has a slot.  *)
(***************************************************************************)
EXTENDS ClearByPath, Sanitizers

CONSTANTS Configs, Swarms,  \* the configurations, and for each the states of the swarm
          Slices, Specs     \* where a slice, or a ContainerSpec, can be in memory

Nil == 0
Unloaded == -1

\* A configuration has the texts of its paths and, for reference, the parts they
\* are meant to have.
IsSequence(s) == s \in Seq({s[i] : i \in DOMAIN s})
ASSUME RedactionAssumption ==
    /\ Slices \cap {Nil, Unloaded} = {} /\ Own \notin Specs
    /\ \A c \in Configs :
        /\ IsSequence(c.parts) /\ IsSequence(c.paths) /\ Len(c.paths) = Len(c.parts)
        /\ \A i \in 1..Len(c.parts) : IsSequence(c.parts[i])
        /\ c.hideAll \subseteq Hideable

\* The texts are written as README.md:101 says, with tokens among these.
AsWritten(Tok) ==
    \A c \in Configs : \A i \in 1..Len(c.parts) :
        LET parts == c.parts[i] IN
        /\ c.paths[i] = Write(parts)
        /\ parts \in Seq(Seq(Tok)) /\ \A j \in 1..Len(parts) : Unquoted(parts[j])
        /\ parts # <<>> => parts[Len(parts)] # <<>>

VARIABLES
    cfg,            \* the configuration
    heap,           \* heap[g][n]: the slice of group g that is at n
    cache,          \* nodes, services, networks and tasks: where their slices are
    kept,           \* stoppedTaskCache: the tasks there
    zeroed,         \* the cells of shared ContainerSpecs that are set to zero
    data,           \* the SwarmData that is being assembled; Nil for a nil slice
    lastPublished,  \* the SwarmData published last, None before
    sent,           \* what was marshalled and published last
    pc,             \* where the goroutine is: select, publish, in clearRecursive, or down
    item,           \* the path to clear next
    depth,          \* in clearRecursive: how many parts of it are consumed
    reached,        \* the leaves below the values it has reached with them
    fetched,        \* history: what the last fetches returned
    seen            \* history: the swarm they saw

dataVars == <<heap, cache, kept, zeroed, data, lastPublished, sent>>
walkVars == <<pc, item, depth, reached>>
vars == <<cfg, dataVars, walkVars, fetched, seen>>

Groups == {"networks", "nodes", "services", "tasks"}
Structural == {"networks", "nodes", "services"}
None == [g \in Groups |-> Unloaded]
Nothing == [g \in Groups |-> {}]
Unallocated == [g \in Groups |-> [n \in Slices |-> {}]]

-----------------------------------------------------------------------------
Fields(names) == [i \in DOMAIN names |-> {<<names[i]>>}]
LabelTree(labels) == Map([l \in DOMAIN labels |-> Leaf(labels[l])])
Annotated(labels) == Struct(Fields(<<"Labels">>), <<LabelTree(labels)>>)
Words(s) == Slice([i \in DOMAIN s |-> Leaf(s[i])])

ContainerTree(p, c) ==
    Ptr(p, Struct(Fields(<<"Labels", "Env", "Mounts", "Secrets", "Configs">>),
        <<LabelTree(c.Labels), Words([i \in DOMAIN c.Env |-> {c.Env[i].key} \cup c.Env[i].val]),
          Slice([i \in DOMAIN c.Mounts |->
                   Struct(Fields(<<"Source", "Target">>), <<Leaf(c.Mounts[i]), Leaf({<<"target">>})>>)]),
          Words(c.Secrets), Words(c.Configs)>>))

\* network.Summary embeds Network.
NetworkTree(name, labels) ==
    Struct(Fields(<<"Network">>),
        <<Struct(Fields(<<"Name", "Labels">>), <<Leaf({name}), LabelTree(labels)>>)>>)

\* time.Time has no field that is exported.
TimeTree == Struct(<<{}>>, <<Leaf({<<"time">>})>>)

NodeTree(labels) ==
    Struct(Fields(<<"Meta", "Spec", "Description">>),
        <<Struct(Fields(<<"CreatedAt">>), <<TimeTree>>),
          Struct(Fields(<<"Annotations">>), <<Annotated(labels)>>),
          Struct(Fields(<<"TLSInfo">>), <<Leaf({<<"certificate">>})>>)>>)

ServiceTree(s) ==
    Struct(Fields(<<"Spec">>), <<
        Struct(Fields(<<"Annotations", "TaskTemplate">>), <<Annotated(s.labels),
            Struct(Fields(<<"ContainerSpec">>), <<ContainerTree(Own, s.container)>>)>>)>>)

\* A task has an id and a ContainerSpec, at spec.
TaskTree(conf, t) ==
    Struct(Fields(<<"ID", "Spec">>), <<Leaf({t.id}),
        Struct(Fields(<<"ContainerSpec">>),
               <<ContainerTree(t.spec, StripContainer(conf, t.container))>>)>>)

\* getNetworksInfo, getNodesInfo and getServicesInfo.
Fetch(conf, s, g) ==
    CASE g = "networks" ->
            LET names == SelectSeq(s.networks, LAMBDA n : n # <<"ingress">>) IN
            Slice([i \in DOMAIN names |->
                     NetworkTree(names[i], LabelsOf(conf, s.others, "network"))])
      [] g = "nodes" -> Slice(<<NodeTree(LabelsOf(conf, s.others, "node"))>>)
      [] g = "services" -> Slice(<<ServiceTree(SanitizeService(conf, s))>>)

\* The result of getTasksInfo, sanitized.
FetchTasks(conf, tasks) == Slice([i \in DOMAIN tasks |-> TaskTree(conf, tasks[i])])

\* The fields of SwarmData: the parts that select them, and what is in them.
GoName == [networks |-> "Networks", nodes |-> "Nodes", services |-> "Services", tasks |-> "Tasks"]
Selectors(g) == {Star, <<g>>, <<GoName[g]>>}
At(g, n) ==
    IF n \in Slices THEN {l \in heap[g][n] : g = "tasks" => l.cell \notin zeroed} ELSE {}

\* The values themselves, wherever they are in memory.
Shown(leaves) == {[at |-> l.at, val |-> l.val] : l \in leaves}

ReuseSlice(g, n) == n \in Slices

\* A fetch returns a slice of its own; the one that lastPublished refers to is
\* not garbage.
Allocates(g, n) == n \in Slices /\ n # lastPublished[g]

\* Nor are the ContainerSpecs of cached tasks and of the tasks it refers to.
InUse ==
    {t.spec : t \in kept}
    \cup (IF lastPublished["tasks"] \in Slices
            THEN {l.cell[1] : l \in {m \in heap["tasks"][lastPublished["tasks"]] : m.cell # <<>>}} ELSE {})

\* A refresh has succeeded: the slices, which are all at n of their groups, are
\* cached, and publish begins, unless some group was never loaded.
Returns(groups, n, result, swarm) ==
    /\ \A g \in groups : Allocates(g, n)
    /\ cache' = [g \in Groups |-> IF g \in groups THEN n ELSE cache[g]]
    /\ heap' = [g \in Groups |-> IF g \in groups THEN [heap[g] EXCEPT ![n] = result[g]] ELSE heap[g]]
    /\ fetched' = [g \in Groups |-> IF g \in groups THEN result[g] ELSE fetched[g]]
    /\ seen' = [g \in Groups |-> IF g \in groups THEN swarm ELSE seen[g]]
    /\ IF cache' \in [Groups -> Slices] THEN pc' = "publish" /\ data' = cache'
       ELSE UNCHANGED <<pc, data>>
    /\ item' = 1
    /\ UNCHANGED <<cfg, lastPublished, sent, depth, reached>>

RefreshStructural ==
    /\ pc = "select"
    /\ \E swarm \in Swarms[cfg], n \in Slices :
        Returns(Structural, n, [g \in Structural |-> Fetch(cfg, swarm, g)], swarm)
    /\ UNCHANGED <<kept, zeroed>>

\* What Docker lists of a task.  The ContainerSpec of one that is not stopped is
\* not copied to the cache: only the slice refers to it.
TaskOf(swarm, spec, id) ==
    [id |-> id, container |-> swarm.container, spec |-> IF id \in swarm.stopped THEN spec[id] ELSE Own]

\* refreshTasks: the tasks that are stopped are cached, some are evicted, and the
\* cached ones that are not among the running are appended, in the order of a map.
RefreshTasks ==
    /\ pc = "select"
    /\ \E swarm \in Swarms[cfg], n \in Slices :
       \E spec \in {f \in [swarm.stopped -> Specs \ InUse] : IsInjective(f)} :
        LET cached == {t \in kept : t.id \notin swarm.stopped}
                      \cup {TaskOf(swarm, spec, id) : id \in swarm.stopped}
            running == [i \in DOMAIN swarm.running |-> TaskOf(swarm, spec, swarm.running[i])]
        IN  /\ kept' \in SUBSET cached
            /\ \E rest \in SetToSeqs({t \in kept' : t.id \notin Range(swarm.running)}) :
                Returns({"tasks"}, n, [g \in {"tasks"} |-> FetchTasks(cfg, running \o rest)], swarm)
    /\ zeroed' = {c \in zeroed : c[1] \in InUse}

-----------------------------------------------------------------------------
(* publish clears one path after the other.                                *)

Parts == SplitPath(cfg.paths[item])

NextItem == pc' = "publish" /\ item' = item + 1 /\ depth' = 0 /\ reached' = Nothing

\* clearRecursive returns at once.
ClearNothing ==
    /\ pc = "publish" /\ item <= Len(cfg.paths) /\ Len(Parts) = 0
    /\ NextItem
    /\ UNCHANGED <<cfg, dataVars, fetched, seen>>

\* A path of one part clears fields of data itself: the slices there are let go
\* of, and what the cache refers to stays as it is.
ClearGroups ==
    /\ pc = "publish" /\ item <= Len(cfg.paths) /\ Len(Parts) = 1
    /\ data' = [g \in Groups |-> IF Parts[1] \in Selectors(g) THEN Nil ELSE data[g]]
    /\ NextItem
    /\ UNCHANGED <<cfg, heap, cache, kept, zeroed, lastPublished, sent, fetched, seen>>

\* clearRecursive enters the groups that the first part selects,
EnterGroups ==
    /\ pc = "publish" /\ item <= Len(cfg.paths) /\ Len(Parts) > 1
    /\ reached' = [g \in Groups |-> IF Parts[1] \in Selectors(g) THEN At(g, data[g]) ELSE {}]
    /\ pc' = "clear" /\ depth' = 1
    /\ UNCHANGED <<cfg, dataVars, item, fetched, seen>>

\* goes down one level with each part that is not the last,
Descend ==
    /\ pc = "clear" /\ depth + 1 < Len(Parts)
    /\ reached' = [g \in Groups |-> Enter(reached[g], depth, Parts[depth + 1])]
    /\ depth' = depth + 1
    /\ UNCHANGED <<cfg, dataVars, pc, item, fetched, seen>>

Hits(g) == Enter(reached[g], depth, Parts[depth + 1])

\* element, Spec, ContainerSpec: the parts that lead from tasks to what is shared.
ToSpec == 3

\* and sets to zero what the last one selects, where it is in memory.
ClearHits ==
    /\ pc = "clear" /\ depth + 1 = Len(Parts)
    /\ \A g \in Groups : \A l \in Hits(g) : Settable(l, depth)
    /\ heap' = [g \in Groups |-> IF data[g] = Nil THEN heap[g]
                  ELSE [heap[g] EXCEPT ![data[g]] = @ \ Hits(g)]]
    /\ zeroed' = zeroed \cup (IF depth > ToSpec THEN {l.cell : l \in Hits("tasks")} \ {<<>>} ELSE {})
    /\ NextItem
    /\ UNCHANGED <<cfg, cache, kept, data, lastPublished, sent, fetched, seen>>

\* reflect panics, and nothing recovers.  (A time that was cleared has no leaves
\* here: that it would panic as well is left out.)
Panic ==
    /\ pc = "clear" /\ depth + 1 = Len(Parts)
    /\ \E g \in Groups : \E l \in Hits(g) : ~Settable(l, depth)
    /\ pc' = "down"
    /\ UNCHANGED <<cfg, dataVars, item, depth, reached, fetched, seen>>

\* reflect.DeepEqual.
Same == lastPublished # None /\ \A g \in Groups : Shown(At(g, data[g])) = Shown(At(g, lastPublished[g]))

Done == pc = "publish" /\ item > Len(cfg.paths) /\ pc' = "select" /\ item' = 1

\* reflect.DeepEqual finds nothing new.
PublishNothing ==
    /\ Done /\ Same
    /\ UNCHANGED <<cfg, dataVars, depth, reached, fetched, seen>>

\* DeepEqual tells nil from empty as well, which the leaves do not show: data with
\* the same leaves may be published again.
Publish ==
    /\ Done
    /\ lastPublished' = data
    /\ sent' = [g \in Groups |-> Shown(At(g, data[g]))]
    /\ UNCHANGED <<cfg, heap, cache, kept, zeroed, data, depth, reached, fetched, seen>>

-----------------------------------------------------------------------------
\* The process begins; no group is loaded.
Init ==
    /\ cfg \in Configs
    /\ heap = Unallocated /\ cache = None /\ kept = {} /\ zeroed = {}
    /\ data = None /\ lastPublished = None /\ sent = Nothing
    /\ pc = "select" /\ item = 1 /\ depth = 0 /\ reached = Nothing
    /\ fetched = Nothing /\ seen = None

\* Docker starts the container again, with the same configuration.
Restart ==
    /\ pc = "down"
    /\ heap' = Unallocated /\ cache' = None /\ kept' = {} /\ zeroed' = {}
    /\ data' = None /\ lastPublished' = None /\ sent' = Nothing
    /\ pc' = "select" /\ item' = 1 /\ depth' = 0 /\ reached' = Nothing
    /\ fetched' = Nothing /\ seen' = None
    /\ UNCHANGED cfg

Next ==
    \/ RefreshTasks \/ RefreshStructural
    \/ ClearNothing \/ ClearGroups \/ EnterGroups \/ Descend \/ ClearHits
    \/ PublishNothing \/ Publish
    \/ Panic \/ Restart

Spec == Init /\ [][Next]_vars
-----------------------------------------------------------------------------
\* The reference: the leaves of group g that a path with these parts covers.
Covers(parts, g, l) ==
    /\ parts # <<>> /\ parts[1] \in Selectors(g)
    /\ \A i \in 2..Len(parts) : i - 1 \in DOMAIN l.at /\ parts[i] \in l.at[i - 1]

\* Some path of the configuration covers the leaf.
Covered(g, l) == \E i \in 1..Len(cfg.parts) : Covers(cfg.parts[i], g, l)

\* No path into a ContainerSpec goes by the index of a task.
ByWildcard ==
    \A i \in 1..Len(cfg.parts) :
        LET parts == cfg.parts[i] IN
        Len(parts) > ToSpec + 1 /\ parts[1] \in Selectors("tasks") => parts[2] = Star
Unshifted(g) == g = "tasks" => ByWildcard

Settled == pc = "select" /\ lastPublished # None

\* Nothing that the configured paths cover is sent, however often the cached
\* slices were cleared, whatever the order of the paths, and quotes included
\* (utils.go:10); and nothing else is missing, unless a path by index has met a
\* ContainerSpec that was at that index in an earlier poll.
ClearsExactly ==
    Settled => \A g \in Groups :
        /\ \A l \in sent[g] : ~Covered(g, l)
        /\ Unshifted(g) => sent[g] = Shown({l \in fetched[g] : ~Covered(g, l)})

\* Clearing the cached slices again does not alter the snapshot that was
\* published from them, at no point of publish, if no path goes into a
\* ContainerSpec by the index of a task (inspect.go:108).
PublishedKept ==
    lastPublished # None => \A g \in Groups :
        Unshifted(g) => sent[g] = Shown(At(g, lastPublished[g]))

\* Re-applying the paths "leaves that snapshot's bytes unchanged"
\* (inspect.go:111), whatever the paths are.
PublishedUntouched ==
    lastPublished # None => \A g \in Groups : sent[g] = Shown(At(g, lastPublished[g]))

\* The way to a leaf in the JSON output: the fields of an embedded struct are
\* those of the struct around it.
Embedded == {<<"Annotations">>, <<"Meta">>, <<"Network">>}
JsonWay(at) == SelectSeq(at, LAMBDA step : step \cap Embedded = {})

\* To remove a value, "Examine the JSON output and find and specify the path to
\* remove" (README.md:101).
JsonPathsClear ==
    Settled => \A g \in Groups : \A l \in sent[g] : \A i \in 1..Len(cfg.parts) :
        ~Covers(cfg.parts[i], g, [l EXCEPT !.at = JsonWay(@)])

\* What the labels of a service ask to hide: values of environment variables,
\* and of labels of the service or its container.
SecretsOf(s) ==
    (IF HideEnvs \in DOMAIN s.labels
       THEN UNION {IF s.container.Env[i].key \in s.labels[HideEnvs] THEN s.container.Env[i].val ELSE {}
                   : i \in DOMAIN s.container.Env}
       ELSE {})
    \cup UNION {IF HideLabels \in DOMAIN m
                  THEN UNION {m[l] : l \in (m[HideLabels] \cap DOMAIN m) \ {HideEnvs, HideLabels}}
                  ELSE {}
                : m \in {s.labels, s.container.Labels}}

\* What is written in a service where its labels hide nothing, and whether that
\* leaves out what they hide elsewhere.
OpenLabels(m) == UNION {m[l] : l \in DOMAIN m \ Listed(m, HideLabels)}
OpenEntry(e, hidden) == {e.key} \cup (IF e.key \in hidden THEN {} ELSE e.val)
OpenEnv(env, hidden) == UNION {OpenEntry(env[i], hidden) : i \in DOMAIN env}
OpenIn(s) ==
    LET c == s.container
    IN  Sanitized \cup {<<"target">>} \cup OpenLabels(s.labels) \cup OpenLabels(c.Labels)
        \cup OpenEnv(c.Env, Listed(s.labels, HideEnvs))
        \cup UNION (Range(c.Configs) \cup Range(c.Mounts) \cup Range(c.Secrets))
SecretsStandOut(s) == OpenIn(s) \cap SecretsOf(s) = {}

\* What the labels of a service hide is not in the service that is sent, even
\* if they hide each other, unless HIDE_LABELS has removed them unread.
HiddenInServices ==
    Settled /\ ~Hides(cfg, "service") /\ ~Hides(cfg, "container") =>
        \A l \in sent["services"] : l.val \cap SecretsOf(seen["services"]) = {}

\* The values hidden by its labels are removed "from the output" (README.md:99),
\* from the service and from its tasks alike.
HiddenInOutput ==
    Settled /\ seen["tasks"] = seen["services"] =>
        \A g \in Groups : \A l \in sent[g] : l.val \cap SecretsOf(seen["services"]) = {}
=============================================================================
