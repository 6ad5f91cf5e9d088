-------------------------- MODULE RedactionProofs --------------------------
(***************************************************************************)
(* What publish sends of the Docker data, for any configuration, any       *)
(* answers of the Docker API and any history of polls, what the sanitizers *)
(* leave of a service, and what splitPath reads.                           *)
(***************************************************************************)
EXTENDS Redaction, SequenceTheorems, WellFoundedInduction, TLAPS

\* splitPath reads the configured paths as they are meant.
Readable ==
    \A c \in Configs : \A i \in 1..Len(c.parts) : SplitPath(c.paths[i]) = c.parts[i]

\* publish is under way.
Busy == pc \in {"publish", "clear"}

TypeInv ==
    /\ cfg \in Configs
    /\ pc \in {"select", "publish", "clear", "down"}
    /\ item \in 1..(Len(cfg.parts) + 1) /\ depth \in Nat
    /\ cache \in [Groups -> Slices \cup {Unloaded}]
    /\ Busy \/ lastPublished # None => cache \in [Groups -> Slices]
    /\ Busy => data \in [Groups -> Slices \cup {Nil}]
    /\ lastPublished = None \/ lastPublished \in [Groups -> Slices \cup {Nil}]
    /\ heap = [g \in Groups |-> [n \in Slices |-> heap[g][n]]]

\* The way from the element of a slice of tasks to a cell.
SpecStep == {Star} \cup (Fields(<<"ID", "Spec">>)[2] \ UNION {Fields(<<"ID", "Spec">>)[j] : j \in 1..(2 - 1)})
ContainerStep == {Star} \cup (Fields(<<"ContainerSpec">>)[1] \ UNION {Fields(<<"ContainerSpec">>)[j] : j \in 1..(1 - 1)})
Below(cell) == <<SpecStep>> \o (<<ContainerStep>> \o cell[2])

\* The way to a leaf of a task says which cell it is, and at which index.
Shaped(l) ==
    l.cell # <<>> => IsSequence(Below(l.cell)) /\ \E e : Star \in e /\ l.at = <<e>> \o Below(l.cell)

ShapeInv ==
    /\ \A n \in Slices : \A l \in heap["tasks"][n] : Shaped(l)
    /\ \A l \in fetched["tasks"] : Shaped(l)

\* What is zero in a shared ContainerSpec is covered at whatever index it is.
ZeroedInv ==
    /\ <<>> \notin zeroed
    /\ ByWildcard => \A l : Shaped(l) /\ l.cell \in zeroed => Covered("tasks", l)

\* A cached slice is what was fetched, less some leaves that are covered.
CacheInv ==
    \A g \in Groups :
        /\ At(g, cache[g]) \subseteq fetched[g]
        /\ Unshifted(g) => \A l \in fetched[g] : l \in At(g, cache[g]) \/ Covered(g, l)

\* In publish, data refers to the cached slices, but for groups cleared whole.
DataInv ==
    Busy => \A g \in Groups :
        data[g] = cache[g] \/ (data[g] = Nil /\ \A l \in fetched[g] : Covered(g, l))

\* The paths before item are cleared in data.
ClearedInv ==
    Busy => \A i \in 1..(item - 1) : \A g \in Groups : \A l \in At(g, data[g]) :
        ~Covers(cfg.parts[i], g, l)

\* The first n parts select the way to the leaf, from its group on.
Follows(parts, n, g, l) ==
    /\ parts[1] \in Selectors(g)
    /\ \A i \in 2..n : i - 1 \in DOMAIN l.at /\ parts[i] \in l.at[i - 1]

\* clearRecursive has reached exactly what the parts consumed so far select.
WalkInv ==
    pc = "clear" =>
        /\ item <= Len(cfg.parts) /\ depth \in 1..(Len(cfg.parts[item]) - 1)
        /\ \A g \in Groups :
            reached[g] = {l \in At(g, data[g]) : Follows(cfg.parts[item], depth, g, l)}

\* What was published is still there, and has nothing left that is covered.
SentInv ==
    /\ PublishedKept
    /\ lastPublished # None => \A g \in Groups : \A l \in sent[g] : ~Covered(g, l)

MemoryInv == ShapeInv /\ ZeroedInv
IInv ==
    /\ TypeInv /\ MemoryInv /\ CacheInv /\ DataInv /\ ClearedInv /\ WalkInv /\ SentInv /\ ClearsExactly

-----------------------------------------------------------------------------
(* Where the leaves of tasks are.                                            *)

LEMMA NodeLeaves ==
  ASSUME NEW selectors, NEW kids, NEW l \in Node(selectors, kids)
  PROVE  \E k, x : /\ k \in DOMAIN kids /\ x \in kids[k]
                   /\ l.at = <<selectors[k]>> \o x.at /\ l.val = x.val /\ l.cell = x.cell
  <1>1. PICK k \in DOMAIN kids :
          l \in {[at |-> <<selectors[k]>> \o x.at, val |-> x.val, cell |-> x.cell] : x \in kids[k]}
    BY DEF Node
  <1>2. PICK x \in kids[k] : l = [at |-> <<selectors[k]>> \o x.at, val |-> x.val, cell |-> x.cell]
    BY <1>1
  <1> QED
    BY <1>2

LEMMA LongerSequence ==
  ASSUME NEW e, NEW s, IsSequence(s)
  PROVE  IsSequence(<<e>> \o s)
  <1> DEFINE S == {s[i] : i \in DOMAIN s} \cup {e}
             t == <<e>> \o s
  <1>1. s \in Seq(S)
    <2>1. s \in Seq({s[i] : i \in DOMAIN s})
      BY DEF IsSequence
    <2> QED
      BY <2>1
  <1>2. t \in Seq(S)
    BY <1>1
  <1>3. t \in Seq({t[i] : i \in DOMAIN t})
    <2> HIDE DEF t, S
    <2>1. Len(t) \in Nat /\ DOMAIN t = 1..Len(t) /\ t = [i \in 1..Len(t) |-> t[i]]
      BY <1>2
    <2>2. t \in [1..Len(t) -> {t[i] : i \in DOMAIN t}]
      BY <2>1
    <2> QED
      BY <2>1, <2>2
  <1> QED
    BY <1>3 DEF IsSequence

\* The ways to the leaves are sequences.
Sequential(tree) == \A l \in tree : IsSequence(l.at)

LEMMA NodeSequential ==
  ASSUME NEW selectors, NEW kids, \A k \in DOMAIN kids : Sequential(kids[k])
  PROVE  Sequential(Node(selectors, kids))
  <1> SUFFICES ASSUME NEW l \in Node(selectors, kids) PROVE IsSequence(l.at)
    BY DEF Sequential
  <1>1. PICK k, x : k \in DOMAIN kids /\ x \in kids[k] /\ l.at = <<selectors[k]>> \o x.at
    BY NodeLeaves
  <1>2. IsSequence(x.at)
    BY <1>1 DEF Sequential
  <1> QED
    BY <1>1, <1>2, LongerSequence

LEMMA TreeSequential ==
  ASSUME NEW names, NEW kids, \A k \in DOMAIN kids : Sequential(kids[k])
  PROVE  Sequential(Struct(names, kids)) /\ Sequential(Map(kids)) /\ Sequential(Slice(kids))
  BY NodeSequential DEF Struct, Map, Slice

LEMMA LeafSequential == ASSUME NEW x PROVE Sequential(Leaf(x))
  <1>1. IsSequence(<<>>)
    BY DEF IsSequence
  <1> QED
    BY <1>1 DEF Leaf, Sequential

LEMMA WordsSequential ==
  ASSUME NEW s
  PROVE  Sequential(Words(s)) /\ Sequential(LabelTree(s))
  <1> DEFINE kids == [i \in DOMAIN s |-> Leaf(s[i])]
  <1>1. \A k \in DOMAIN kids : Sequential(kids[k])
    BY LeafSequential
  <1>2. Sequential(Slice(kids)) /\ Sequential(Map(kids))
    <2> HIDE DEF kids
    <2> QED
      BY <1>1, TreeSequential
  <1> QED
    BY <1>2 DEF Words, LabelTree

LEMMA ContainerCells ==
  ASSUME NEW p, NEW c, NEW l \in ContainerTree(p, c)
  PROVE  l.cell = <<>> \/ (l.cell[2] = l.at /\ IsSequence(l.at))
  <1> DEFINE envs == [i \in DOMAIN c.Env |-> {c.Env[i].key} \cup c.Env[i].val]
             mounts == [i \in DOMAIN c.Mounts |->
                          Struct(Fields(<<"Source", "Target">>), <<Leaf(c.Mounts[i]), Leaf({<<"target">>})>>)]
             kids == <<LabelTree(c.Labels), Words(envs), Slice(mounts), Words(c.Secrets), Words(c.Configs)>>
             names == Fields(<<"Labels", "Env", "Mounts", "Secrets", "Configs">>)
  <1>1. Sequential(Slice(mounts))
    <2>1. ASSUME NEW i \in DOMAIN mounts PROVE Sequential(mounts[i])
      <3> DEFINE two == <<Leaf(c.Mounts[i]), Leaf({<<"target">>})>>
      <3>1. \A k \in DOMAIN two : Sequential(two[k])
        BY LeafSequential
      <3>2. Sequential(Struct(Fields(<<"Source", "Target">>), two))
        <4> HIDE DEF two
        <4> QED
          BY <3>1, TreeSequential
      <3> QED
        BY <3>2
    <2> HIDE DEF mounts
    <2> QED
      BY <2>1, TreeSequential
  <1>2. Sequential(Struct(names, kids))
    <2>1. \A k \in DOMAIN kids : Sequential(kids[k])
      <3> HIDE DEF envs, mounts
      <3> QED
        BY <1>1, WordsSequential
    <2> HIDE DEF kids, names
    <2> QED
      BY <2>1, TreeSequential
  <1>3. l \in Ptr(p, Struct(names, kids))
    BY DEF ContainerTree
  <1> HIDE DEF names, kids
  <1>4. PICK x \in Struct(names, kids) :
          l = [at |-> x.at, val |-> x.val, cell |-> IF p = Own THEN <<>> ELSE <<p, x.at>>]
    BY <1>3 DEF Ptr
  <1>5. IsSequence(x.at)
    BY <1>2 DEF Sequential
  <1> QED
    BY <1>4, <1>5

LEMMA TaskCells ==
  ASSUME NEW conf, NEW t, NEW l \in TaskTree(conf, t)
  PROVE  l.cell = <<>> \/ (l.at = Below(l.cell) /\ IsSequence(l.at))
  <1> DEFINE tree == ContainerTree(t.spec, StripContainer(conf, t.container))
             inner == Struct(Fields(<<"ContainerSpec">>), <<tree>>)
             kids == <<Leaf({t.id}), inner>>
  <1>1. PICK k, x : /\ k \in {1, 2} /\ x \in kids[k] /\ l.cell = x.cell
                    /\ k = 2 => l.at = <<SpecStep>> \o x.at
    <2> DEFINE names == Fields(<<"ID", "Spec">>)
               sel == [i \in DOMAIN names |-> {Star} \cup (names[i] \ UNION {names[j] : j \in 1..(i - 1)})]
    <2>1. l \in Node(sel, kids)
      BY DEF TaskTree, Struct
    <2>2. PICK k, x : k \in DOMAIN kids /\ x \in kids[k] /\ l.at = <<sel[k]>> \o x.at /\ l.cell = x.cell
      <3> HIDE DEF sel, kids
      <3> QED
        BY <2>1, NodeLeaves
    <2>3. sel[2] = SpecStep
      BY DEF SpecStep, Fields
    <2>4. k \in {1, 2}
      BY <2>2
    <2> HIDE DEF sel, kids
    <2> QED
      BY <2>2, <2>3, <2>4
  <1>3. CASE k = 1
    <2>1. x \in Leaf({t.id})
      BY <1>1, <1>3
    <2> QED
      BY <1>1, <2>1 DEF Leaf
  <1>4. CASE k = 2
    <2>1. x \in inner /\ l.at = <<SpecStep>> \o x.at
      <3> HIDE DEF inner
      <3> QED
        BY <1>1, <1>4
    <2>2. PICK y \in tree : x.at = <<ContainerStep>> \o y.at /\ x.cell = y.cell
      <3> DEFINE names == Fields(<<"ContainerSpec">>)
                 sel == [i \in DOMAIN names |-> {Star} \cup (names[i] \ UNION {names[j] : j \in 1..(i - 1)})]
                 one == <<tree>>
      <3>1. x \in Node(sel, one)
        BY <2>1 DEF Struct
      <3>2. PICK j, y : j \in DOMAIN one /\ y \in one[j] /\ x.at = <<sel[j]>> \o y.at /\ x.cell = y.cell
        <4> HIDE DEF sel, one
        <4> QED
          BY <3>1, NodeLeaves
      <3>3. sel[1] = ContainerStep
        BY DEF ContainerStep, Fields
      <3>4. j = 1 /\ y \in tree
        <4> HIDE DEF tree, sel
        <4> QED
          BY <3>2
      <3> HIDE DEF tree, sel
      <3> QED
        BY <3>2, <3>3, <3>4
    <2>3. y.cell = <<>> \/ (y.cell[2] = y.at /\ IsSequence(y.at))
      BY <2>2, ContainerCells
    <2>4. ASSUME IsSequence(y.at) PROVE IsSequence(l.at)
      <3>1. IsSequence(x.at)
        BY <2>2, <2>4, LongerSequence
      <3> QED
        BY <2>1, <3>1, LongerSequence
    <2> QED
      BY <1>1, <2>1, <2>2, <2>3, <2>4 DEF Below
  <1> QED
    BY <1>1, <1>3, <1>4

LEMMA TasksShaped ==
  ASSUME NEW conf, NEW tasks, NEW l \in FetchTasks(conf, tasks)
  PROVE  Shaped(l)
  <1> DEFINE kids == [i \in DOMAIN tasks |-> TaskTree(conf, tasks[i])]
             sel == [i \in DOMAIN kids |-> {Star, <<ToString(i - 1)>>}]
  <1>1. l \in Node(sel, kids)
    BY DEF FetchTasks, Slice
  <1>2. PICK k, x : k \in DOMAIN kids /\ x \in kids[k] /\ l.at = <<sel[k]>> \o x.at /\ l.cell = x.cell
    <2> HIDE DEF sel, kids
    <2> QED
      BY <1>1, NodeLeaves
  <1>3. x \in TaskTree(conf, tasks[k]) /\ Star \in sel[k]
    BY <1>2
  <1>4. x.cell = <<>> \/ (x.at = Below(x.cell) /\ IsSequence(x.at))
    BY <1>3, TaskCells
  <1> HIDE DEF sel, kids
  <1> QED
    BY <1>2, <1>3, <1>4 DEF Shaped

\* A path into a ContainerSpec that goes through the wildcard covers a cell at
\* all indices or at none.
LEMMA SameCell ==
  ASSUME NEW P, P[2] = Star, Len(P) \in Nat, NEW l, NEW m, Shaped(l), Shaped(m),
         l.cell = m.cell, l.cell # <<>>, Covers(P, "tasks", l)
  PROVE  Covers(P, "tasks", m)
  <1> DEFINE b == Below(l.cell)
  <1>1. IsSequence(b)
    BY DEF Shaped
  <1>2. PICK e : l.at = <<e>> \o b
    BY DEF Shaped
  <1>3. PICK f : Star \in f /\ m.at = <<f>> \o b
    BY DEF Shaped
  <1>4. b \in Seq({b[i] : i \in DOMAIN b})
    BY <1>1 DEF IsSequence
  <1> HIDE DEF b
  <1>5. /\ DOMAIN l.at = 1..(Len(b) + 1) /\ DOMAIN m.at = 1..(Len(b) + 1) /\ Len(b) \in Nat
        /\ m.at[1] = f
    <2> DEFINE S == {b[i] : i \in DOMAIN b} \cup {e, f}
    <2>1. b \in Seq(S)
      BY <1>4
    <2> HIDE DEF S
    <2> QED
      BY <1>2, <1>3, <2>1, <1>4
  <1>6. \A i \in 2..(Len(b) + 1) : l.at[i] = m.at[i]
    BY <1>2, <1>3, <1>4, <1>5
  <1> SUFFICES ASSUME NEW i \in 2..Len(P) PROVE i - 1 \in DOMAIN m.at /\ P[i] \in m.at[i - 1]
    BY DEF Covers
  <1>7. i - 1 \in DOMAIN l.at /\ P[i] \in l.at[i - 1]
    BY DEF Covers
  <1>8. CASE i = 2
    BY <1>3, <1>5, <1>8
  <1>9. CASE i # 2
    <2>1. i - 1 \in 2..(Len(b) + 1)
      BY <1>5, <1>7, <1>9
    <2> QED
      BY <1>5, <1>6, <1>7, <2>1
  <1> QED
    BY <1>8, <1>9

-----------------------------------------------------------------------------
\* The parts of the paths are sequences, and Parts are those of the current one.
LEMMA PathParts ==
    ASSUME Readable, TypeInv
    PROVE  /\ Len(cfg.parts) \in Nat /\ Len(cfg.paths) = Len(cfg.parts)
           /\ \A i \in 1..Len(cfg.parts) :
                /\ Len(cfg.parts[i]) \in Nat
                /\ cfg.parts[i] = <<>> <=> Len(cfg.parts[i]) = 0
           /\ item <= Len(cfg.paths) => item \in 1..Len(cfg.parts) /\ Parts = cfg.parts[item]
<1>1. cfg \in Configs
  BY DEF TypeInv
<1>2. Len(cfg.parts) \in Nat /\ Len(cfg.paths) = Len(cfg.parts)
  <2>1. IsSequence(cfg.parts) /\ Len(cfg.paths) = Len(cfg.parts)
    BY <1>1, RedactionAssumption
  <2> QED
    BY <2>1 DEF IsSequence
<1>3. ASSUME NEW i \in 1..Len(cfg.parts)
      PROVE  Len(cfg.parts[i]) \in Nat /\ (cfg.parts[i] = <<>> <=> Len(cfg.parts[i]) = 0)
  <2>1. IsSequence(cfg.parts[i])
    BY <1>1, RedactionAssumption
  <2> QED
    BY <2>1 DEF IsSequence
<1>4. ASSUME item <= Len(cfg.paths) PROVE item \in 1..Len(cfg.parts) /\ Parts = cfg.parts[item]
  <2>1. item \in 1..Len(cfg.parts)
    BY <1>2, <1>4 DEF TypeInv
  <2> QED
    BY <1>1, <2>1 DEF Parts, Readable
<1> QED
  BY <1>2, <1>3, <1>4

\* Whom a path covers is decided by all of its parts.
LEMMA CoversFollows ==
    ASSUME NEW parts, parts # <<>>, NEW g, NEW l
    PROVE  Covers(parts, g, l) <=> Follows(parts, Len(parts), g, l)
BY DEF Covers, Follows

\* One part more.
LEMMA FollowsOneMore ==
    ASSUME NEW parts, NEW n \in Nat \ {0}, NEW g, NEW l
    PROVE  Follows(parts, n + 1, g, l) <=>
             Follows(parts, n, g, l) /\ n \in DOMAIN l.at /\ parts[n + 1] \in l.at[n]
<1>1. 2..(n + 1) = (2..n) \cup {n + 1} /\ (n + 1) - 1 = n
  OBVIOUS
<1> QED
  BY <1>1 DEF Follows

\* The configured paths are the same, and so is whom they cover.
LEMMA SameConfig ==
  ASSUME UNCHANGED cfg
  PROVE  /\ \A g, l : Covered(g, l)' <=> Covered(g, l)
         /\ ByWildcard' <=> ByWildcard
         /\ \A g : Unshifted(g)' <=> Unshifted(g)
  BY DEF Covered, ByWildcard, Unshifted

\* Nothing is loaded, and nothing was published.
LEMMA FreshIInv ==
  ASSUME cfg \in Configs, heap = Unallocated, cache = None, zeroed = {}, lastPublished = None,
         pc = "select", item = 1, depth = 0, fetched = Nothing
  PROVE  IInv
<1>1. Len(cfg.parts) \in Nat
  BY RedactionAssumption DEF IsSequence
<1>2. TypeInv
  <2>1. heap = [g \in Groups |-> [n \in Slices |-> heap[g][n]]]
    BY DEF Unallocated
  <2>2. cache \in [Groups -> Slices \cup {Unloaded}]
    BY DEF None
  <2> QED
    BY <1>1, <2>1, <2>2 DEF TypeInv, Busy
<1>3. MemoryInv
  BY DEF MemoryInv, ShapeInv, ZeroedInv, Unallocated, Nothing, Groups
<1>4. CacheInv
  <2>1. \A g \in Groups : cache[g] \notin Slices /\ fetched[g] = {}
    BY RedactionAssumption DEF None, Nothing
  <2> QED
    BY <2>1 DEF CacheInv, At
<1>5. DataInv /\ ClearedInv /\ WalkInv
  BY DEF DataInv, ClearedInv, WalkInv, Busy
<1>6. SentInv /\ ClearsExactly
  BY DEF SentInv, PublishedKept, ClearsExactly, Settled
<1> QED
  BY <1>2, <1>3, <1>4, <1>5, <1>6 DEF IInv

LEMMA InitIInv == Init => IInv
  BY FreshIInv DEF Init

\* A restart is the same in the next state.
LEMMA RestartIInv == ASSUME IInv, Restart PROVE IInv'
<1>1. /\ cfg' = cfg /\ heap' = Unallocated /\ cache' = None /\ zeroed' = {} /\ lastPublished' = None
      /\ pc' = "select" /\ item' = 1 /\ depth' = 0 /\ fetched' = Nothing
  BY DEF Restart
<1>2. Len(cfg.parts) \in Nat /\ cfg \in Configs
  BY RedactionAssumption DEF IsSequence, IInv, TypeInv
<1>3. TypeInv'
  <2>1. heap' = [g \in Groups |-> [n \in Slices |-> heap'[g][n]]]
    BY <1>1 DEF Unallocated
  <2>2. cache' \in [Groups -> Slices \cup {Unloaded}]
    BY <1>1 DEF None
  <2> QED
    BY <1>1, <1>2, <2>1, <2>2 DEF TypeInv, Busy
<1>4. MemoryInv'
  BY <1>1 DEF MemoryInv, ShapeInv, ZeroedInv, Unallocated, Nothing, Groups
<1>5. CacheInv'
  <2>1. \A g \in Groups : cache'[g] \notin Slices /\ fetched'[g] = {}
    BY <1>1, RedactionAssumption DEF None, Nothing
  <2> QED
    BY <2>1 DEF CacheInv, At
<1>6. DataInv' /\ ClearedInv' /\ WalkInv'
  BY <1>1 DEF DataInv, ClearedInv, WalkInv, Busy
<1>7. SentInv' /\ ClearsExactly'
  BY <1>1 DEF SentInv, PublishedKept, ClearsExactly, Settled
<1> QED
  BY <1>3, <1>4, <1>5, <1>6, <1>7 DEF IInv

\* A fetch writes to slices that lastPublished does not refer to.
LEMMA ReturnsIInv ==
    ASSUME Readable, IInv, pc = "select", NEW groups \in SUBSET Groups, NEW n \in Slices,
           NEW result, NEW swarm, Returns(groups, n, result, swarm),
           zeroed' \subseteq zeroed, "tasks" \notin groups => zeroed' = zeroed,
           "tasks" \in groups => \A l \in result["tasks"] : Shaped(l),
           \A m \in Slices : m = lastPublished["tasks"] =>
             \A l \in heap["tasks"][m] : l.cell \in zeroed => l.cell \in zeroed'
    PROVE  IInv'
<1> USE DEF IInv
<1>1. /\ \A g \in groups : n # lastPublished[g]
      /\ cache' = [g \in Groups |-> IF g \in groups THEN n ELSE cache[g]]
      /\ heap' = [g \in Groups |-> IF g \in groups THEN [heap[g] EXCEPT ![n] = result[g]] ELSE heap[g]]
      /\ fetched' = [g \in Groups |-> IF g \in groups THEN result[g] ELSE fetched[g]]
  BY DEF Returns, Allocates
<1>2. /\ item' = 1 /\ UNCHANGED <<cfg, lastPublished, sent, depth, reached>>
      /\ IF cache' \in [Groups -> Slices] THEN pc' = "publish" /\ data' = cache'
         ELSE pc' = "select" /\ data' = data
  BY DEF Returns
<1>3. Len(cfg.parts) \in Nat
  BY PathParts
<1>same. /\ \A g, l : Covered(g, l)' <=> Covered(g, l)
         /\ ByWildcard' <=> ByWildcard
         /\ \A g : Unshifted(g)' <=> Unshifted(g)
  BY <1>2, SameConfig
<1>4. TypeInv'
  <2>1. cache' \in [Groups -> Slices \cup {Unloaded}] /\ (cache \in [Groups -> Slices] => cache' \in [Groups -> Slices])
    BY <1>1 DEF TypeInv
  <2>2. ASSUME NEW g \in Groups PROVE heap'[g] = [m \in Slices |-> heap'[g][m]]
    <3>1. heap[g] = [m \in Slices |-> heap[g][m]]
      BY DEF TypeInv
    <3> QED
      BY <1>1, <3>1
  <2>3. heap' = [g \in Groups |-> [m \in Slices |-> heap'[g][m]]]
    BY <1>1, <2>2
  <2> QED
    BY <1>2, <1>3, <2>1, <2>3 DEF TypeInv, Busy
<1>5. ASSUME NEW g \in Groups
      PROVE  /\ g \in groups => heap'[g][n] = result[g] /\ cache'[g] = n /\ fetched'[g] = result[g]
             /\ g \notin groups => heap'[g] = heap[g] /\ cache'[g] = cache[g] /\ fetched'[g] = fetched[g]
             /\ \A m \in Slices : m # n => heap'[g][m] = heap[g][m]
  <2>1. DOMAIN heap[g] = Slices
    BY DEF TypeInv
  <2> QED
    BY <1>1, <2>1
<1>6. MemoryInv'
  <2>0. "tasks" \in Groups
    BY DEF Groups
  <2>1. ASSUME NEW m \in Slices, NEW l \in heap'["tasks"][m] PROVE Shaped(l)
    <3>1. CASE "tasks" \in groups /\ m = n
      BY <1>5, <2>0, <3>1
    <3>2. CASE ~("tasks" \in groups /\ m = n)
      <4>1. l \in heap["tasks"][m]
        BY <1>5, <2>0, <2>1, <3>2
      <4> QED
        BY <4>1 DEF MemoryInv, ShapeInv
    <3> QED
      BY <3>1, <3>2
  <2>2. \A l \in fetched'["tasks"] : Shaped(l)
    BY <1>5, <2>0 DEF MemoryInv, ShapeInv
  <2>3. ZeroedInv'
    BY <1>same DEF MemoryInv, ZeroedInv
  <2> QED
    BY <2>1, <2>2, <2>3 DEF MemoryInv, ShapeInv
<1>7. CacheInv'
  <2> SUFFICES ASSUME NEW g \in Groups
               PROVE  /\ At(g, cache[g])' \subseteq fetched'[g]
                      /\ Unshifted(g) => \A l \in fetched'[g] : l \in At(g, cache[g])' \/ Covered(g, l)
    BY <1>same DEF CacheInv
  <2>1. CASE g \in groups
    <3>1. At(g, cache[g])' = {l \in result[g] : g = "tasks" => l.cell \notin zeroed'}
      BY <1>5, <2>1 DEF At
    <3>2. ASSUME NEW l \in result[g], g = "tasks", l.cell \in zeroed', ByWildcard PROVE Covered(g, l)
      BY <2>1, <3>2 DEF MemoryInv, ZeroedInv
    <3> QED
      BY <1>5, <2>1, <3>1, <3>2 DEF Unshifted
  <2>2. CASE g \notin groups
    <3>1. At(g, cache[g])' = At(g, cache[g])
      BY <1>5, <2>2 DEF At
    <3> QED
      BY <1>5, <2>2, <3>1 DEF CacheInv
  <2> QED
    BY <2>1, <2>2
<1>8. DataInv' /\ ClearedInv' /\ WalkInv'
  BY <1>2, <1>3 DEF DataInv, ClearedInv, WalkInv, Busy
<1>9. ClearsExactly'
  <2>1. lastPublished # None => pc' = "publish"
    <3>1. lastPublished # None => cache' \in [Groups -> Slices]
      BY <1>1 DEF TypeInv
    <3> QED
      BY <1>2, <3>1
  <2> QED
    BY <1>2, <2>1 DEF ClearsExactly, Settled
<1>10. SentInv'
  <2> SUFFICES ASSUME lastPublished # None PROVE SentInv'
    BY <1>2 DEF SentInv, PublishedKept
  <2>1. ASSUME NEW g \in Groups PROVE At(g, lastPublished[g])' = At(g, lastPublished[g])
    <3>1. CASE lastPublished[g] \notin Slices
      BY <1>2, <3>1 DEF At
    <3>2. CASE lastPublished[g] \in Slices
      <4> DEFINE m == lastPublished[g]
      <4>1. heap'[g][m] = heap[g][m]
        BY <1>1, <1>5, <3>2
      <4>2. \A l \in heap[g][m] : g = "tasks" => (l.cell \in zeroed <=> l.cell \in zeroed')
        BY <3>2
      <4> QED
        BY <1>2, <3>2, <4>1, <4>2 DEF At
    <3> QED
      BY <3>1, <3>2
  <2> QED
    BY <1>2, <1>same, <2>1 DEF SentInv, PublishedKept
<1> QED
  BY <1>4, <1>6, <1>7, <1>8, <1>9, <1>10

LEMMA RefreshIInv ==
    ASSUME Readable, IInv, RefreshTasks \/ RefreshStructural
    PROVE  IInv'
<1>1. CASE RefreshStructural
  <2>1. PICK swarm \in Swarms[cfg], n \in Slices :
          Returns(Structural, n, [g \in Structural |-> Fetch(cfg, swarm, g)], swarm)
    BY <1>1 DEF RefreshStructural
  <2>2. pc = "select" /\ zeroed' = zeroed
    BY <1>1 DEF RefreshStructural
  <2>3. Structural \in SUBSET Groups /\ "tasks" \notin Structural
    BY DEF Structural, Groups
  <2> DEFINE result == [g \in Structural |-> Fetch(cfg, swarm, g)]
  <2>4. Returns(Structural, n, result, swarm)
    BY <2>1
  <2> HIDE DEF result
  <2> QED
    BY <2>2, <2>3, <2>4, ReturnsIInv
<1>2. CASE RefreshTasks
  <2>1. PICK swarm \in Swarms[cfg], n \in Slices : \E tasks :
          Returns({"tasks"}, n, [g \in {"tasks"} |-> FetchTasks(cfg, tasks)], swarm)
    BY <1>2 DEF RefreshTasks
  <2>2. PICK tasks : Returns({"tasks"}, n, [g \in {"tasks"} |-> FetchTasks(cfg, tasks)], swarm)
    BY <2>1
  <2>3. pc = "select" /\ zeroed' = {c \in zeroed : c[1] \in InUse}
    BY <1>2 DEF RefreshTasks
  <2>4. ASSUME NEW m \in Slices, m = lastPublished["tasks"], NEW l \in heap["tasks"][m], l.cell \in zeroed
        PROVE  l.cell \in zeroed'
    <3>1. l.cell # <<>>
      BY <2>4 DEF IInv, MemoryInv, ZeroedInv
    <3>2. l.cell[1] \in InUse
      BY <2>4, <3>1 DEF InUse
    <3> QED
      BY <2>3, <2>4, <3>2
  <2> DEFINE result == [g \in {"tasks"} |-> FetchTasks(cfg, tasks)]
  <2>5. \A l \in result["tasks"] : Shaped(l)
    BY TasksShaped
  <2>6. Returns({"tasks"}, n, result, swarm)
    BY <2>2
  <2>7. {"tasks"} \in SUBSET Groups /\ zeroed' \subseteq zeroed
    BY <2>3 DEF Groups
  <2> HIDE DEF result
  <2> QED
    BY <2>3, <2>4, <2>5, <2>6, <2>7, ReturnsIInv
<1> QED
  BY <1>1, <1>2

\* What does not depend on the walk through the paths.
LEMMA Unmoved ==
  ASSUME IInv, UNCHANGED <<cfg, heap, cache, zeroed, lastPublished, sent, fetched>>
  PROVE  MemoryInv' /\ CacheInv' /\ SentInv'
<1>1. /\ \A g, l : Covered(g, l)' <=> Covered(g, l)
      /\ ByWildcard' <=> ByWildcard
      /\ \A g : Unshifted(g)' <=> Unshifted(g)
  BY SameConfig
<1>2. \A g, n : At(g, n)' = At(g, n)
  BY DEF At
<1>3. MemoryInv'
  BY <1>1 DEF IInv, MemoryInv, ShapeInv, ZeroedInv
<1>4. CacheInv'
  BY <1>1 DEF IInv, CacheInv, At
<1>5. SentInv'
  BY <1>1 DEF IInv, SentInv, PublishedKept, At
<1> QED
  BY <1>3, <1>4, <1>5

\* A path without parts covers nothing.
LEMMA NothingIInv == ASSUME Readable, IInv, ClearNothing PROVE IInv'
<1> USE DEF IInv
<1>1. /\ pc = "publish" /\ item \in 1..Len(cfg.parts) /\ cfg.parts[item] = <<>>
      /\ Len(cfg.parts) \in Nat
  BY PathParts DEF ClearNothing
<1>2. pc' = "publish" /\ item' = item + 1 /\ depth' = 0 /\ UNCHANGED <<cfg, dataVars, fetched>>
  BY DEF ClearNothing, NextItem
<1>3. UNCHANGED <<heap, cache, zeroed, data, lastPublished, sent>>
  BY <1>2 DEF dataVars
<1>4. TypeInv'
  BY <1>1, <1>2, <1>3 DEF TypeInv, Busy
<1>5. MemoryInv' /\ CacheInv' /\ SentInv'
  BY <1>2, <1>3, Unmoved
<1>a. DataInv'
  BY <1>1, <1>2, <1>3 DEF DataInv, Covered, Busy
<1>6. ClearedInv'
  <2> SUFFICES ASSUME NEW i \in 1..item, NEW g \in Groups, NEW l \in At(g, data[g])
               PROVE  ~Covers(cfg.parts[i], g, l)
    <3>1. item' - 1 = item
      BY <1>1, <1>2
    <3>2. \A g : At(g, data[g])' = At(g, data[g])
      BY <1>3 DEF At
    <3> QED
      BY <1>2, <3>1, <3>2 DEF ClearedInv, Busy
  <2>1. CASE i = item
    BY <1>1, <2>1 DEF Covers
  <2>2. CASE i \in 1..(item - 1)
    BY <1>1, <2>2 DEF ClearedInv, Busy
  <2> QED
    BY <1>1, <2>1, <2>2
<1>7. WalkInv' /\ ClearsExactly'
  BY <1>2 DEF WalkInv, ClearsExactly, Settled
<1> QED
  BY <1>4, <1>5, <1>a, <1>6, <1>7

\* A path of one part covers all of a group or nothing of it.
LEMMA GroupsIInv == ASSUME Readable, IInv, ClearGroups PROVE IInv'
<1> USE DEF IInv
<1> DEFINE P == cfg.parts[item]
<1>1. /\ pc = "publish" /\ item \in 1..Len(cfg.parts) /\ Len(P) = 1 /\ P # <<>>
      /\ Len(cfg.parts) \in Nat
      /\ data' = [g \in Groups |-> IF P[1] \in Selectors(g) THEN Nil ELSE data[g]]
  BY PathParts DEF ClearGroups
<1>2. /\ pc' = "publish" /\ item' = item + 1 /\ depth' = 0
      /\ UNCHANGED <<cfg, heap, cache, zeroed, lastPublished, sent, fetched>>
  BY DEF ClearGroups, NextItem
<1>3. \A g \in Groups : \A l : Covers(P, g, l) <=> P[1] \in Selectors(g)
  BY <1>1 DEF Covers
<1>4. TypeInv'
  <2>1. data' \in [Groups -> Slices \cup {Nil}]
    BY <1>1 DEF TypeInv, Busy
  <2> QED
    BY <1>1, <1>2, <2>1 DEF TypeInv, Busy
<1>5. MemoryInv' /\ CacheInv' /\ SentInv'
  BY <1>2, Unmoved
<1>6. DataInv'
  <2> SUFFICES ASSUME NEW g \in Groups
               PROVE  data'[g] = cache[g] \/ (data'[g] = Nil /\ \A l \in fetched[g] : Covered(g, l))
    BY <1>2 DEF DataInv, Covered
  <2>1. CASE P[1] \in Selectors(g)
    BY <1>1, <1>3, <2>1 DEF Covered
  <2>2. CASE P[1] \notin Selectors(g)
    BY <1>1, <2>2 DEF DataInv, Busy
  <2> QED
    BY <2>1, <2>2
<1>7. ClearedInv'
  <2>a. item' - 1 = item
    BY <1>1, <1>2
  <2> SUFFICES ASSUME NEW i \in 1..item, NEW g \in Groups, NEW l \in At(g, data[g])'
               PROVE  ~Covers(cfg.parts[i], g, l)
    BY <1>2, <2>a DEF ClearedInv
  <2>1. P[1] \notin Selectors(g) /\ l \in At(g, data[g])
    BY <1>1, <1>2, RedactionAssumption DEF At
  <2>2. CASE i = item
    BY <1>3, <2>1, <2>2
  <2>3. CASE i \in 1..(item - 1)
    BY <1>1, <2>1, <2>3 DEF ClearedInv, Busy
  <2> QED
    BY <1>1, <2>2, <2>3
<1>8. WalkInv' /\ ClearsExactly'
  BY <1>2 DEF WalkInv, ClearsExactly, Settled
<1> QED
  BY <1>4, <1>5, <1>6, <1>7, <1>8

\* Going down a level only moves reached.
LEMMA WalkIInv ==
    ASSUME Readable, IInv, EnterGroups \/ Descend
    PROVE  IInv'
<1> USE DEF IInv
<1> DEFINE P == cfg.parts[item]
<1>1. /\ Busy /\ pc' = "clear" /\ item' = item
      /\ item \in 1..Len(cfg.parts) /\ Len(cfg.parts) \in Nat /\ Len(P) \in Nat /\ Parts = P
      /\ UNCHANGED <<cfg, heap, cache, zeroed, data, lastPublished, sent, fetched>>
  BY PathParts DEF EnterGroups, Descend, dataVars, WalkInv, TypeInv, Busy
<1>2. depth' \in 1..(Len(P) - 1)
  BY <1>1 DEF EnterGroups, Descend, WalkInv
<1>3. ASSUME NEW g \in Groups
      PROVE  reached'[g] = {l \in At(g, data[g]) : Follows(P, depth', g, l)}
  <2>1. CASE EnterGroups
    <3>1. depth' = 1 /\ reached'[g] = IF P[1] \in Selectors(g) THEN At(g, data[g]) ELSE {}
      BY <1>1, <2>1 DEF EnterGroups
    <3>2. \A l : Follows(P, 1, g, l) <=> P[1] \in Selectors(g)
      BY DEF Follows
    <3> QED
      BY <3>1, <3>2
  <2>2. CASE Descend
    <3>1. /\ depth' = depth + 1 /\ depth \in Nat \ {0}
          /\ reached'[g] = {l \in reached[g] : depth \in DOMAIN l.at /\ P[depth + 1] \in l.at[depth]}
          /\ reached[g] = {l \in At(g, data[g]) : Follows(P, depth, g, l)}
      BY <1>1, <2>2 DEF Descend, Enter, WalkInv
    <3>2. \A l : Follows(P, depth + 1, g, l) <=>
                   Follows(P, depth, g, l) /\ depth \in DOMAIN l.at /\ P[depth + 1] \in l.at[depth]
      BY <3>1, FollowsOneMore
    <3> QED
      BY <3>1, <3>2
  <2> QED
    BY <2>1, <2>2
<1>4. TypeInv'
  BY <1>1, <1>2 DEF TypeInv, Busy
<1>5. MemoryInv' /\ CacheInv' /\ SentInv'
  BY <1>1, Unmoved
<1>6. DataInv' /\ ClearedInv' /\ ClearsExactly'
  BY <1>1 DEF DataInv, Covered, At, ClearedInv, ClearsExactly, Settled, Busy
<1>7. WalkInv'
  BY <1>1, <1>2, <1>3 DEF WalkInv, At
<1> QED
  BY <1>4, <1>5, <1>6, <1>7

\* What is cleared is what the path covers; lastPublished has nothing of it,
\* unless it shares a cell that the path reaches at another index.
LEMMA HitsIInv == ASSUME Readable, IInv, ClearHits PROVE IInv'
<1> USE DEF IInv
<1> DEFINE P == cfg.parts[item]
           hits(g) == {l \in At(g, data[g]) : Covers(P, g, l)}
<1>1. /\ pc = "clear" /\ Busy /\ item \in 1..Len(cfg.parts) /\ Len(cfg.parts) \in Nat
      /\ Len(P) \in Nat /\ depth \in Nat \ {0} /\ depth + 1 = Len(P) /\ Parts = P /\ P # <<>>
  BY PathParts DEF ClearHits, WalkInv, TypeInv, Busy
<1>2. /\ pc' = "publish" /\ item' = item + 1 /\ depth' = 0
      /\ UNCHANGED <<cfg, cache, data, lastPublished, sent, fetched>>
  BY DEF ClearHits, NextItem
<1>same. /\ \A g, l : Covered(g, l)' <=> Covered(g, l)
         /\ ByWildcard' <=> ByWildcard
         /\ \A g : Unshifted(g)' <=> Unshifted(g)
  BY <1>2, SameConfig
<1>tasks. "tasks" \in Groups
  BY DEF Groups
<1>3. ASSUME NEW g \in Groups PROVE Hits(g) = hits(g)
  <2>1. reached[g] = {l \in At(g, data[g]) : Follows(P, depth, g, l)}
    BY <1>1 DEF WalkInv
  <2>2. \A l : Follows(P, depth + 1, g, l) <=>
                 Follows(P, depth, g, l) /\ depth \in DOMAIN l.at /\ P[depth + 1] \in l.at[depth]
    BY <1>1, FollowsOneMore
  <2>3. \A l : Covers(P, g, l) <=> Follows(P, depth + 1, g, l)
    BY <1>1, CoversFollows
  <2>4. Hits(g) = Enter(reached[g], depth, P[depth + 1])
    BY <1>1 DEF Hits
  <2> QED
    BY <2>1, <2>2, <2>3, <2>4 DEF Enter
<1>4. ASSUME NEW g \in Groups
      PROVE  heap'[g] = IF data[g] = Nil THEN heap[g]
                        ELSE [heap[g] EXCEPT ![data[g]] = @ \ hits(g)]
  BY <1>3 DEF ClearHits
<1>5. ASSUME NEW g \in Groups, NEW n \in Slices
      PROVE  heap'[g][n] = IF n = data[g] THEN heap[g][n] \ hits(g) ELSE heap[g][n]
  <2>1. DOMAIN heap[g] = Slices /\ data[g] \in Slices \cup {Nil} /\ Nil \notin Slices
    BY <1>1, RedactionAssumption DEF TypeInv
  <2> QED
    BY <1>4, <1>5, <2>1
<1>6. /\ zeroed \subseteq zeroed'
      /\ \A c \in zeroed' \ zeroed : c # <<>> /\ depth > ToSpec /\ \E l \in hits("tasks") : l.cell = c
  BY <1>3, <1>tasks DEF ClearHits
<1>7. TypeInv'
  <2>1. ASSUME NEW g \in Groups PROVE heap'[g] = [n \in Slices |-> heap'[g][n]]
    <3>1. heap[g] = [n \in Slices |-> heap[g][n]]
      BY DEF TypeInv
    <3> QED
      BY <1>4, <3>1
  <2>2. heap' = [g \in Groups |-> heap'[g]]
    BY DEF ClearHits
  <2>3. heap' = [g \in Groups |-> [n \in Slices |-> heap'[g][n]]]
    BY <2>1, <2>2
  <2> QED
    BY <1>1, <1>2, <2>3 DEF TypeInv, Busy
<1>8. ASSUME NEW m, Shaped(m), m.cell \in zeroed' \ zeroed, ByWildcard
      PROVE  Covers(P, "tasks", m)
  <2>1. PICK l \in hits("tasks") : l.cell = m.cell /\ l.cell # <<>>
    BY <1>6, <1>8
  <2>2. Covers(P, "tasks", l) /\ depth > ToSpec
    BY <1>6, <1>8, <2>1
  <2>3. Shaped(l)
    BY <2>1 DEF At, MemoryInv, ShapeInv
  <2>4. P[2] = Star
    <3>1. Len(P) > ToSpec + 1 /\ P[1] \in Selectors("tasks")
      BY <1>1, <2>2 DEF Covers, ToSpec
    <3> QED
      BY <1>1, <1>8, <3>1 DEF ByWildcard
  <2> HIDE DEF P
  <2> QED
    BY <1>1, <1>8, <2>1, <2>2, <2>3, <2>4, SameCell
<1>9. MemoryInv'
  <2>1. ASSUME NEW n \in Slices, NEW l \in heap'["tasks"][n] PROVE Shaped(l)
    <3>1. l \in heap["tasks"][n]
      BY <1>5, <1>tasks, <2>1
    <3> QED
      BY <3>1 DEF MemoryInv, ShapeInv
  <2>2. ShapeInv'
    BY <1>2, <2>1 DEF MemoryInv, ShapeInv
  <2>3. ASSUME ByWildcard, NEW l, Shaped(l), l.cell \in zeroed' PROVE Covered("tasks", l)
    <3>1. CASE l.cell \in zeroed
      BY <2>3, <3>1 DEF MemoryInv, ZeroedInv
    <3>2. CASE l.cell \notin zeroed
      BY <1>1, <1>8, <2>3, <3>2 DEF Covered
    <3> QED
      BY <3>1, <3>2
  <2>4. <<>> \notin zeroed'
    BY <1>6 DEF MemoryInv, ZeroedInv
  <2>5. ZeroedInv'
    BY <1>same, <2>3, <2>4 DEF ZeroedInv
  <2> QED
    BY <2>2, <2>5 DEF MemoryInv
<1> DEFINE after(g, n) ==
      IF n \in Slices THEN {l \in heap'[g][n] : g = "tasks" => l.cell \notin zeroed'} ELSE {}
<1>after. ASSUME NEW g \in Groups
          PROVE  /\ At(g, cache[g])' = after(g, cache[g])
                 /\ At(g, data[g])' = after(g, data[g])
                 /\ At(g, lastPublished[g])' = after(g, lastPublished[g])
  BY <1>2 DEF At
<1>10. ASSUME NEW g \in Groups, NEW n, NEW l \in after(g, n)
       PROVE  l \in At(g, n) /\ (n = data[g] => ~Covers(P, g, l))
  <2>1. n \in Slices /\ l \in heap'[g][n] /\ (g = "tasks" => l.cell \notin zeroed')
    BY <1>10
  <2>2. l \in heap[g][n] /\ (g = "tasks" => l.cell \notin zeroed)
    BY <1>5, <1>6, <2>1
  <2>3. l \in At(g, n)
    BY <2>1, <2>2 DEF At
  <2> QED
    BY <1>5, <2>1, <2>3
<1>11. ASSUME NEW g \in Groups, NEW n, NEW l \in At(g, n), Unshifted(g), ~Covered(g, l)
       PROVE  l \in after(g, n)
  <2>1. n \in Slices /\ l \in heap[g][n] /\ (g = "tasks" => l.cell \notin zeroed)
    BY <1>11 DEF At
  <2>2. ~Covers(P, g, l)
    BY <1>1, <1>11 DEF Covered
  <2>3. l \in heap'[g][n]
    BY <1>5, <2>1, <2>2
  <2>4. g = "tasks" => l.cell \notin zeroed'
    <3> SUFFICES ASSUME g = "tasks", l.cell \in zeroed' PROVE FALSE
      OBVIOUS
    <3>1. Shaped(l) /\ l.cell \in zeroed' \ zeroed /\ ByWildcard
      BY <1>11, <2>1 DEF MemoryInv, ShapeInv, Unshifted
    <3> QED
      BY <1>8, <2>2, <3>1
  <2> QED
    BY <2>1, <2>3, <2>4
<1> HIDE DEF after
<1>12. CacheInv'
  <2> SUFFICES ASSUME NEW g \in Groups
               PROVE  /\ At(g, cache[g])' \subseteq fetched[g]
                      /\ Unshifted(g) => \A l \in fetched[g] : l \in At(g, cache[g])' \/ Covered(g, l)
    BY <1>2, <1>same DEF CacheInv
  <2>1. At(g, cache[g]) \subseteq fetched[g]
    BY DEF CacheInv
  <2>2. Unshifted(g) => \A l \in fetched[g] : l \in At(g, cache[g]) \/ Covered(g, l)
    BY DEF CacheInv
  <2>3. \A l \in after(g, cache[g]) : l \in At(g, cache[g])
    BY <1>10
  <2>4. Unshifted(g) => \A l \in At(g, cache[g]) : l \in after(g, cache[g]) \/ Covered(g, l)
    BY <1>11
  <2> QED
    BY <1>after, <2>1, <2>2, <2>3, <2>4
<1>13. DataInv'
  BY <1>1, <1>2 DEF DataInv, Covered, Busy
<1>14. ClearedInv'
  <2>a. item' - 1 = item
    BY <1>1, <1>2
  <2> SUFFICES ASSUME NEW i \in 1..item, NEW g \in Groups, NEW l \in At(g, data[g])'
               PROVE  ~Covers(cfg.parts[i], g, l)
    BY <1>2, <2>a DEF ClearedInv
  <2>1. l \in At(g, data[g]) /\ ~Covers(P, g, l)
    <3>1. l \in after(g, data[g])
      BY <1>after
    <3> QED
      BY <1>10, <3>1
  <2>2. CASE i = item
    BY <2>1, <2>2
  <2>3. CASE i \in 1..(item - 1)
    BY <1>1, <2>1, <2>3 DEF ClearedInv
  <2> QED
    BY <1>1, <2>2, <2>3
<1>15. SentInv'
  <2> SUFFICES ASSUME lastPublished # None PROVE SentInv'
    BY <1>2 DEF SentInv, PublishedKept
  <2>1. ASSUME NEW g \in Groups, Unshifted(g)
        PROVE  At(g, lastPublished[g])' = At(g, lastPublished[g])
    <3> DEFINE n == lastPublished[g]
    <3>1. \A l \in At(g, n) : ~Covered(g, l)
      <4> SUFFICES ASSUME NEW l \in At(g, n) PROVE ~Covered(g, l)
        OBVIOUS
      <4>1. [at |-> l.at, val |-> l.val] \in sent[g]
        BY <2>1 DEF SentInv, PublishedKept, Shown
      <4>2. ~Covered(g, [at |-> l.at, val |-> l.val])
        BY <4>1 DEF SentInv
      <4> QED
        BY <4>2 DEF Covered, Covers
    <3>2. after(g, n) \subseteq At(g, n)
      BY <1>10
    <3>3. At(g, n) \subseteq after(g, n)
      BY <1>11, <2>1, <3>1
    <3> QED
      BY <1>after, <3>2, <3>3
  <2> QED
    BY <1>2, <1>same, <2>1 DEF SentInv, PublishedKept
<1>16. WalkInv' /\ ClearsExactly'
  BY <1>2 DEF WalkInv, ClearsExactly, Settled
<1> QED
  BY <1>7, <1>9, <1>12, <1>13, <1>14, <1>15, <1>16

\* A panic loses everything.
LEMMA PanicIInv == ASSUME IInv, Panic PROVE IInv'
<1> USE DEF IInv
<1>1. pc' = "down" /\ UNCHANGED <<cfg, heap, cache, zeroed, data, lastPublished, sent, item, depth, fetched>>
  BY DEF Panic, dataVars
<1>2. TypeInv' /\ DataInv' /\ ClearedInv' /\ WalkInv' /\ ClearsExactly'
  BY <1>1 DEF TypeInv, DataInv, ClearedInv, WalkInv, ClearsExactly, Settled, Busy
<1>3. MemoryInv' /\ CacheInv' /\ SentInv'
  BY <1>1, Unmoved
<1> QED
  BY <1>2, <1>3

\* When all paths are cleared, data has nothing that is covered, and what was
\* fetched and is not.
LEMMA AllCleared ==
    ASSUME Readable, IInv, pc = "publish", item > Len(cfg.paths), NEW g \in Groups
    PROVE  /\ \A l \in At(g, data[g]) : ~Covered(g, l)
           /\ Unshifted(g) => At(g, data[g]) = {l \in fetched[g] : ~Covered(g, l)}
<1> USE DEF IInv
<1>1. Len(cfg.parts) \in Nat /\ item - 1 = Len(cfg.parts)
  BY PathParts DEF TypeInv
<1>2. \A l \in At(g, data[g]) : ~Covered(g, l)
  BY <1>1 DEF ClearedInv, Covered, Busy
<1>3. CASE data[g] = cache[g]
  BY <1>2, <1>3 DEF CacheInv
<1>4. CASE data[g] = Nil /\ \A l \in fetched[g] : Covered(g, l)
  BY <1>4, RedactionAssumption DEF At
<1> QED
  BY <1>2, <1>3, <1>4 DEF DataInv, Busy

LEMMA PublishIInv == ASSUME Readable, IInv, PublishNothing \/ Publish PROVE IInv'
<1> USE DEF IInv
<1>1. /\ pc = "publish" /\ item > Len(cfg.paths) /\ pc' = "select" /\ item' = 1
      /\ UNCHANGED <<cfg, heap, cache, zeroed, data, depth, fetched>>
  BY DEF PublishNothing, Publish, Done, dataVars
<1>2. ASSUME NEW g \in Groups
      PROVE  /\ \A l \in At(g, data[g]) : ~Covered(g, l)
             /\ Unshifted(g) => At(g, data[g]) = {l \in fetched[g] : ~Covered(g, l)}
  BY <1>1, AllCleared
<1>3. Len(cfg.parts) \in Nat
  BY PathParts
<1>same. /\ \A g, l : Covered(g, l)' <=> Covered(g, l)
         /\ ByWildcard' <=> ByWildcard
         /\ \A g : Unshifted(g)' <=> Unshifted(g)
  BY <1>1, SameConfig
<1>4. TypeInv'
  <2>1. lastPublished' = lastPublished \/ lastPublished' = data
    BY DEF PublishNothing, Publish, dataVars
  <2> QED
    BY <1>1, <1>3, <2>1 DEF TypeInv, Busy
<1>5. DataInv' /\ ClearedInv' /\ WalkInv'
  BY <1>1 DEF DataInv, ClearedInv, WalkInv, Busy
<1>6. MemoryInv' /\ CacheInv'
  <2>1. \A g, n : At(g, n)' = At(g, n)
    BY <1>1 DEF At
  <2>2. MemoryInv'
    BY <1>1, <1>same DEF MemoryInv, ShapeInv, ZeroedInv
  <2>3. CacheInv'
    BY <1>1, <1>same DEF CacheInv, At
  <2> QED
    BY <2>2, <2>3
<1>7. CASE Publish
  <2>1. lastPublished' = data /\ sent' = [g \in Groups |-> Shown(At(g, data[g]))]
    BY <1>7 DEF Publish
  <2>2. ASSUME NEW g \in Groups, NEW l \in sent'[g] PROVE ~Covered(g, l)
    <3>1. PICK m \in At(g, data[g]) : l = [at |-> m.at, val |-> m.val]
      BY <2>1, <2>2 DEF Shown
    <3>2. ~Covered(g, m) /\ l.at = m.at
      BY <1>2, <3>1
    <3> QED
      BY <3>2 DEF Covered, Covers
  <2>3. ASSUME NEW g \in Groups PROVE sent'[g] = Shown(At(g, lastPublished[g])')
    BY <1>1, <2>1 DEF At
  <2>4. ASSUME NEW g \in Groups, Unshifted(g) PROVE sent'[g] = Shown({l \in fetched[g] : ~Covered(g, l)})
    BY <1>2, <2>1, <2>4
  <2>5. SentInv'
    <3>1. PublishedKept'
      BY <1>same, <2>3 DEF PublishedKept, Shown
    <3> QED
      BY <1>same, <2>2, <3>1 DEF SentInv
  <2>6. ClearsExactly'
    <3>1. \A g \in Groups : Shown({l \in fetched[g] : ~Covered(g, l)})' = Shown({l \in fetched[g] : ~Covered(g, l)})
      BY <1>1, <1>same DEF Shown
    <3> QED
      BY <1>same, <2>2, <2>4, <3>1 DEF ClearsExactly
  <2> QED
    BY <1>4, <1>5, <1>6, <2>5, <2>6
<1>8. CASE PublishNothing
  <2>1. /\ lastPublished' = lastPublished /\ sent' = sent /\ lastPublished # None
        /\ \A g \in Groups : Shown(At(g, data[g])) = Shown(At(g, lastPublished[g]))
    BY <1>8 DEF PublishNothing, Same, dataVars
  <2>2. SentInv'
    BY <1>1, <2>1, Unmoved
  <2>3. ASSUME NEW g \in Groups, Unshifted(g) PROVE sent[g] = Shown({l \in fetched[g] : ~Covered(g, l)})
    BY <1>2, <2>1, <2>3 DEF SentInv, PublishedKept
  <2>4. ClearsExactly'
    <3>1. \A g \in Groups : Shown({l \in fetched[g] : ~Covered(g, l)})' = Shown({l \in fetched[g] : ~Covered(g, l)})
      BY <1>1, <1>same DEF Shown
    <3>2. \A g \in Groups : \A l \in sent[g] : ~Covered(g, l)
      BY <2>1 DEF SentInv
    <3> QED
      BY <1>same, <2>1, <2>3, <3>1, <3>2 DEF ClearsExactly
  <2> QED
    BY <1>4, <1>5, <1>6, <2>2, <2>4
<1> QED
  BY <1>7, <1>8

LEMMA Invariance == ASSUME Readable PROVE Spec => []IInv
<1>1. IInv /\ [Next]_vars => IInv'
  <2> SUFFICES ASSUME IInv, [Next]_vars PROVE IInv'
    OBVIOUS
  <2>1. CASE UNCHANGED vars
    <3>1. UNCHANGED <<cfg, heap, cache, zeroed, data, lastPublished, sent, pc, item, depth, reached, fetched>>
      BY <2>1 DEF vars, dataVars, walkVars
    <3>2. MemoryInv' /\ CacheInv' /\ SentInv'
      BY <3>1, Unmoved
    <3>3. TypeInv' /\ DataInv'
      BY <3>1 DEF IInv, TypeInv, DataInv, Covered, Busy
    <3>4. ClearedInv' /\ WalkInv'
      BY <3>1 DEF IInv, ClearedInv, WalkInv, At, Busy
    <3>5. ClearsExactly'
      BY <3>1 DEF IInv, ClearsExactly, Settled, Covered, Unshifted, ByWildcard, Shown
    <3> QED
      BY <3>2, <3>3, <3>4, <3>5 DEF IInv
  <2> QED
    BY <2>1, RefreshIInv, NothingIInv, GroupsIInv, WalkIInv, HitsIInv, PublishIInv, PanicIInv, RestartIInv
       DEF Next
<1> QED
  BY <1>1, InitIInv, PTL DEF Spec

\* Nothing that the paths cover is sent, and nothing else is missing, whatever
\* the configuration, the data and the history of polls; of tasks, nothing else
\* is missing if no path goes into their ContainerSpecs by index (publish,
\* ClearByPath, getTasksInfo).
THEOREM ClearsExactlyHolds == ASSUME Readable PROVE Spec => []ClearsExactly
<1>1. IInv => ClearsExactly
  BY DEF IInv
<1> QED
  BY <1>1, Invariance, PTL

\* Clearing the cached slices, and the ContainerSpecs of cached tasks, does not
\* alter what was published from them, if no path goes into a ContainerSpec by
\* the index of a task (the comment on inspectSwarmServices).
THEOREM PublishedKeptHolds == ASSUME Readable PROVE Spec => []PublishedKept
<1>1. IInv => PublishedKept
  BY DEF IInv, SentInv
<1> QED
  BY <1>1, Invariance, PTL
-----------------------------------------------------------------------------
(* What the sanitizers take out of a service, for every configuration and    *)
(* every service.                                                            *)

LEMMA SameMasked ==
  ASSUME NEW m, NEW n, Listed(m, HideLabels) = Listed(n, HideLabels),
         SameLabels(Listed(m, HideLabels), m, n)
  PROVE  MaskLabels(m) = MaskLabels(n)
  BY DEF SameLabels, MaskLabels

LEMMA SameMaskedEnvs ==
  ASSUME NEW Text, NEW e \in Seq(Entries(Text)), NEW f \in Seq(Entries(Text)),
         NEW m, NEW n, Listed(m, HideEnvs) = Listed(n, HideEnvs),
         SameEnv(Listed(m, HideEnvs), e, f)
  PROVE  MaskEnvs(e, m) = MaskEnvs(f, n)
  <1>1. \A i \in DOMAIN e : e[i] \in Entries(Text) /\ f[i] \in Entries(Text)
    BY DEF SameEnv
  <1>2. \A i \in DOMAIN e :
          e[i].key \in Listed(m, HideEnvs) =>
            [e[i] EXCEPT !.val = Sanitized] = [f[i] EXCEPT !.val = Sanitized]
    BY <1>1 DEF SameEnv, Entries
  <1>3. \A i \in DOMAIN e : e[i].key \notin Listed(m, HideEnvs) => e[i] = f[i]
    BY <1>1 DEF SameEnv, Entries
  <1> QED
    BY <1>2, <1>3 DEF SameEnv, MaskEnvs

ContainerFields == {"Labels", "Env", "Mounts", "Secrets", "Configs"}

\* What StripContainer leaves, field by field.
LeavesOf(conf, c) ==
    LET d == StripContainer(conf, c)
    IN  /\ d = [f \in ContainerFields |-> d[f]]
        /\ d.Labels = IF Hides(conf, "container") THEN <<>> ELSE c.Labels
        /\ \A f \in {"Env", "Configs", "Mounts", "Secrets"} :
              d[f] = IF f \in conf.hideAll THEN <<>> ELSE c[f]

LEMMA Stripped ==
  ASSUME NEW Text, NEW conf, conf.hideAll \subseteq Hideable, NEW c, IsContainer(Text, c)
  PROVE  LeavesOf(conf, c)
  <1>1. DOMAIN c = ContainerFields
    BY DEF IsContainer, ContainerFields
  <1>2. "Labels" \notin conf.hideAll
    BY DEF Hideable
  <1> QED
    BY <1>1, <1>2 DEF StripContainer, ContainerFields, LeavesOf

\* sanitizeServices, field by field.
FieldByField(conf, s) ==
    LET m == LabelsOf(conf, s.labels, "service")
        c == StripContainer(conf, s.container)
        r == SanitizeService(conf, s)
    IN  /\ r = [labels |-> MaskLabels(m), container |-> r.container]
        /\ r.labels = MaskLabels(m)
        /\ r.container = [f \in ContainerFields |-> r.container[f]]
        /\ r.container.Env = MaskEnvs(c.Env, m)
        /\ r.container.Labels = MaskLabels(c.Labels)
        /\ \A f \in {"Configs", "Mounts", "Secrets"} : r.container[f] = c[f]

LEMMA SanitizedFields ==
  ASSUME NEW Text, NEW conf, conf.hideAll \subseteq Hideable, NEW s, IsService(Text, s)
  PROVE  FieldByField(conf, s)
  <1> DEFINE m == LabelsOf(conf, s.labels, "service")
             c == StripContainer(conf, s.container)
             d == [c EXCEPT !.Env = MaskEnvs(c.Env, m), !.Labels = MaskLabels(c.Labels)]
  <1>1. c = [f \in ContainerFields |-> c[f]]
    <2>1. LeavesOf(conf, s.container)
      BY Stripped DEF IsService
    <2> QED
      BY <2>1 DEF LeavesOf
  <1>2. SanitizeService(conf, s) = [labels |-> MaskLabels(m), container |-> d]
    BY DEF SanitizeService
  <1>3. /\ d = [f \in ContainerFields |-> d[f]]
        /\ d.Env = MaskEnvs(c.Env, m) /\ d.Labels = MaskLabels(c.Labels)
        /\ \A f \in {"Configs", "Mounts", "Secrets"} : d[f] = c[f]
    <2> HIDE DEF c, m
    <2> QED
      BY <1>1 DEF ContainerFields
  <1>4. /\ SanitizeService(conf, s).labels = MaskLabels(m)
        /\ SanitizeService(conf, s).container = d
    <2> HIDE DEF d, m
    <2> QED
      BY <1>2
  <1> QED
    BY <1>2, <1>3, <1>4, Zenon DEF FieldByField

\* What is hidden does not show: services that differ only in what the
\* configuration or their labels hide are the same once sanitized, so nothing in
\* what the browsers get depends on it.
THEOREM NonInterference ==
  ASSUME NEW Text, NEW conf, conf.hideAll \subseteq Hideable,
         NEW s, IsService(Text, s), NEW t, IsService(Text, t),
         LooksTheSame(conf, s, t), HideTheSame(conf, s, t)
  PROVE  SanitizeService(conf, s) = SanitizeService(conf, t)
  <1> DEFINE m == LabelsOf(conf, s.labels, "service")
             n == LabelsOf(conf, t.labels, "service")
             c == StripContainer(conf, s.container)
             d == StripContainer(conf, t.container)
             q == SanitizeService(conf, s).container
             r == SanitizeService(conf, t).container
  <1>fields. FieldByField(conf, s) /\ FieldByField(conf, t)
    BY SanitizedFields
  <1>1. IsContainer(Text, s.container) /\ IsContainer(Text, t.container)
    BY DEF IsService
  <1>stripped. LeavesOf(conf, s.container) /\ LeavesOf(conf, t.container)
    BY <1>1, Stripped
  <1>2. MaskLabels(m) = MaskLabels(n)
    <2>1. CASE Hides(conf, "service")
      BY <2>1 DEF LabelsOf
    <2>2. CASE ~Hides(conf, "service")
      BY <2>2, SameMasked DEF LabelsOf, LooksTheSame, HideTheSame, HiddenLabels
    <2> QED
      BY <2>1, <2>2
  <1>3. MaskEnvs(c.Env, m) = MaskEnvs(d.Env, n)
    <2>1. CASE "Env" \in conf.hideAll
      <3>1. c.Env = <<>> /\ d.Env = <<>>
        BY <2>1, <1>stripped DEF LeavesOf
      <3> QED
        BY <3>1 DEF MaskEnvs
    <2>2. CASE "Env" \notin conf.hideAll
      <3>1. c.Env = s.container.Env /\ d.Env = t.container.Env
        BY <2>2, <1>stripped DEF LeavesOf
      <3>2. SameEnv(Listed(m, HideEnvs), c.Env, d.Env)
        BY <2>2, <3>1 DEF LooksTheSame, HiddenEnvs
      <3>3. Listed(m, HideEnvs) = Listed(n, HideEnvs)
        BY DEF HideTheSame, HiddenEnvs
      <3>4. c.Env \in Seq(Entries(Text)) /\ d.Env \in Seq(Entries(Text))
        BY <3>1, <1>1 DEF IsContainer
      <3> QED
        BY <3>2, <3>3, <3>4, SameMaskedEnvs
    <2> QED
      BY <2>1, <2>2
  <1>4. MaskLabels(c.Labels) = MaskLabels(d.Labels)
    <2>1. CASE Hides(conf, "container")
      <3>1. c.Labels = <<>> /\ d.Labels = <<>>
        BY <2>1, <1>stripped DEF LeavesOf
      <3> QED
        BY <3>1
    <2>2. CASE ~Hides(conf, "container")
      <3>1. c.Labels = s.container.Labels /\ d.Labels = t.container.Labels
        BY <2>2, <1>stripped DEF LeavesOf
      <3> QED
        BY <2>2, <3>1, SameMasked DEF LooksTheSame, HideTheSame, HiddenInContainer, LabelsOf
    <2> QED
      BY <2>1, <2>2
  <1>5. \A f \in {"Mounts", "Secrets", "Configs"} : c[f] = d[f]
    BY <1>stripped DEF LeavesOf, LooksTheSame
  <1>6. /\ q = [f \in ContainerFields |-> q[f]] /\ r = [f \in ContainerFields |-> r[f]]
        /\ q.Env = MaskEnvs(c.Env, m) /\ r.Env = MaskEnvs(d.Env, n)
        /\ q.Labels = MaskLabels(c.Labels) /\ r.Labels = MaskLabels(d.Labels)
        /\ \A f \in {"Configs", "Mounts", "Secrets"} : q[f] = c[f] /\ r[f] = d[f]
    BY <1>fields DEF FieldByField
  <1>7. /\ SanitizeService(conf, s) = [labels |-> MaskLabels(m), container |-> q]
        /\ SanitizeService(conf, t) = [labels |-> MaskLabels(n), container |-> r]
    BY <1>fields DEF FieldByField
  <1> HIDE DEF c, d, m, n, q, r
  <1>8. q = r
    BY <1>3, <1>4, <1>5, <1>6 DEF ContainerFields
  <1> QED
    BY <1>2, <1>7, <1>8

\* Nothing else is taken out: to somebody who may not see what is hidden, the
\* sanitized service is the service.
THEOREM NothingElseHidden ==
  ASSUME NEW Text, NEW conf, conf.hideAll \subseteq Hideable, NEW s, IsService(Text, s)
  PROVE  LooksTheSame(conf, s, SanitizeService(conf, s))
  <1> DEFINE m == LabelsOf(conf, s.labels, "service")
             c == StripContainer(conf, s.container)
             r == SanitizeService(conf, s)
  <1>fields. FieldByField(conf, s)
    BY SanitizedFields
  <1>1. IsContainer(Text, s.container)
    BY DEF IsService
  <1>stripped. LeavesOf(conf, s.container)
    BY <1>1, Stripped
  <1>2. /\ r.labels = MaskLabels(m)
        /\ r.container.Env = MaskEnvs(c.Env, m) /\ r.container.Labels = MaskLabels(c.Labels)
        /\ \A f \in {"Configs", "Mounts", "Secrets"} : r.container[f] = c[f]
    BY <1>fields DEF FieldByField
  <1>3. Hides(conf, "service") \/ SameLabels(HiddenLabels(conf, s), s.labels, r.labels)
    BY <1>2 DEF LabelsOf, HiddenLabels, SameLabels, MaskLabels
  <1>4. ASSUME ~Hides(conf, "container")
        PROVE  SameLabels(HiddenInContainer(conf, s), s.container.Labels, r.container.Labels)
    <2>1. c.Labels = s.container.Labels
      BY <1>stripped, <1>4 DEF LeavesOf
    <2> QED
      BY <1>4, <2>1, <1>2 DEF LabelsOf, HiddenInContainer, SameLabels, MaskLabels
  <1>5. ASSUME "Env" \notin conf.hideAll
        PROVE  SameEnv(HiddenEnvs(conf, s), s.container.Env, r.container.Env)
    <2>1. c.Env = s.container.Env
      BY <1>stripped, <1>5 DEF LeavesOf
    <2>2. \A i \in DOMAIN s.container.Env : s.container.Env[i] \in Entries(Text)
      BY <1>1 DEF IsContainer
    <2> DEFINE e == s.container.Env
               x == MaskEnvs(e, m)
    <2>3. DOMAIN x = DOMAIN e
      BY DEF MaskEnvs
    <2>4. ASSUME NEW i \in DOMAIN e
          PROVE  x[i].key = e[i].key /\ (e[i].key \in HiddenEnvs(conf, s) \/ e[i].val = x[i].val)
      <3>1. CASE e[i].key \in HiddenEnvs(conf, s)
        <4>1. x[i] = [e[i] EXCEPT !.val = Sanitized]
          BY <3>1 DEF MaskEnvs, HiddenEnvs
        <4> QED
          BY <3>1, <4>1, <2>2 DEF Entries
      <3>2. CASE e[i].key \notin HiddenEnvs(conf, s)
        BY <3>2 DEF MaskEnvs, HiddenEnvs
      <3> QED
        BY <3>1, <3>2
    <2> QED
      BY <1>2, <2>1, <2>3, <2>4 DEF SameEnv
  <1>6. \A f \in {"Configs", "Mounts", "Secrets"} \ conf.hideAll : s.container[f] = r.container[f]
    BY <1>stripped, <1>2 DEF LeavesOf
  <1> QED
    BY <1>3, <1>4, <1>5, <1>6 DEF LooksTheSame
-----------------------------------------------------------------------------
(* What of a service is sent.                                                *)

\* The leaves have no words but these.
Within(tree, words) == \A l \in tree : l.val \subseteq words

LEMMA NodeWithin ==
  ASSUME NEW selectors, NEW kids, NEW words, \A k \in DOMAIN kids : Within(kids[k], words)
  PROVE  Within(Node(selectors, kids), words)
  <1> SUFFICES ASSUME NEW l \in Node(selectors, kids) PROVE l.val \subseteq words
    BY DEF Within
  <1>1. PICK k, x : /\ k \in DOMAIN kids /\ x \in kids[k]
                    /\ l.at = <<selectors[k]>> \o x.at /\ l.val = x.val
    BY NodeLeaves
  <1> QED
    BY <1>1 DEF Within

LEMMA TreeWithin ==
  ASSUME NEW names, NEW kids, NEW words, \A k \in DOMAIN kids : Within(kids[k], words)
  PROVE  /\ Within(Struct(names, kids), words)
         /\ Within(Map(kids), words)
         /\ Within(Slice(kids), words)
  BY NodeWithin DEF Struct, Map, Slice

LEMMA LeafWithin ==
  ASSUME NEW words, NEW x, x \subseteq words
  PROVE  Within(Leaf(x), words)
  BY DEF Leaf, Within

LEMMA LabelsWithin ==
  ASSUME NEW m, NEW words, Sanitized \subseteq words,
         \A l \in DOMAIN m \ Listed(m, HideLabels) : m[l] \subseteq words
  PROVE  Within(LabelTree(MaskLabels(m)), words)
  <1>1. \A l \in DOMAIN m : Within(Leaf(MaskLabels(m)[l]), words)
    BY LeafWithin DEF MaskLabels
  <1> QED
    BY <1>1, TreeWithin DEF LabelTree, MaskLabels

LEMMA WordsWithin ==
  ASSUME NEW s, NEW words, \A i \in DOMAIN s : s[i] \subseteq words
  PROVE  Within(Words(s), words)
  <1>1. \A i \in DOMAIN s : Within(Leaf(s[i]), words)
    BY LeafWithin
  <1> QED
    BY <1>1, TreeWithin DEF Words

LEMMA EnvWithin ==
  ASSUME NEW Text, NEW e \in Seq(Entries(Text)), NEW m, NEW words, Sanitized \subseteq words,
         \A i \in DOMAIN e : OpenEntry(e[i], Listed(m, HideEnvs)) \subseteq words
  PROVE  LET x == MaskEnvs(e, m) IN Within(Words([i \in DOMAIN x |-> {x[i].key} \cup x[i].val]), words)
  <1> DEFINE x == MaskEnvs(e, m)
  <1>1. DOMAIN x = DOMAIN e
    BY DEF MaskEnvs
  <1>2. ASSUME NEW i \in DOMAIN e PROVE {x[i].key} \cup x[i].val \subseteq words
    <2>1. e[i] \in Entries(Text)
      OBVIOUS
    <2>2. CASE e[i].key \in Listed(m, HideEnvs)
      <3>1. x[i] = [e[i] EXCEPT !.val = Sanitized]
        BY <2>2 DEF MaskEnvs
      <3>2. x[i].key = e[i].key /\ x[i].val = Sanitized
        BY <2>1, <3>1 DEF Entries
      <3> QED
        BY <3>2 DEF OpenEntry
    <2>3. CASE e[i].key \notin Listed(m, HideEnvs)
      BY <2>3 DEF MaskEnvs, OpenEntry
    <2> QED
      BY <2>2, <2>3
  <1> DEFINE w == [i \in DOMAIN x |-> {x[i].key} \cup x[i].val]
  <1>3. \A i \in DOMAIN w : w[i] \subseteq words
    BY <1>1, <1>2
  <1>4. Within(Words(w), words)
    <2> HIDE DEF w
    <2> QED
      BY <1>3, WordsWithin
  <1> QED
    BY <1>4

\* The words of a sanitized service are ones that its labels do not hide.
LEMMA ServiceWithin ==
  ASSUME NEW Text, NEW conf, conf.hideAll \subseteq Hideable, NEW s, IsService(Text, s),
         ~Hides(conf, "service"), ~Hides(conf, "container")
  PROVE  Within(Slice(<<ServiceTree(SanitizeService(conf, s))>>), OpenIn(s))
  <1> DEFINE words == OpenIn(s)
             c == StripContainer(conf, s.container)
             r == SanitizeService(conf, s)
             q == r.container
             envs == [i \in DOMAIN q.Env |-> {q.Env[i].key} \cup q.Env[i].val]
             mounts == [i \in DOMAIN q.Mounts |->
                          Struct(Fields(<<"Source", "Target">>), <<Leaf(q.Mounts[i]), Leaf({<<"target">>})>>)]
  <1>1. FieldByField(conf, s)
    BY SanitizedFields
  <1>2. IsContainer(Text, s.container)
    BY DEF IsService
  <1>stripped. LeavesOf(conf, s.container)
    BY <1>2, Stripped
  <1>3. /\ r.labels = MaskLabels(s.labels) /\ q.Labels = MaskLabels(s.container.Labels)
        /\ q.Env = MaskEnvs(c.Env, s.labels)
        /\ c.Env = <<>> \/ c.Env = s.container.Env
        /\ \A f \in {"Configs", "Mounts", "Secrets"} : q[f] = <<>> \/ q[f] = s.container[f]
    BY <1>1, <1>stripped DEF FieldByField, LabelsOf, LeavesOf
  <1>4. Sanitized \subseteq words /\ {<<"target">>} \subseteq words
    BY DEF OpenIn
  <1>5. Within(LabelTree(r.labels), words)
    <2>1. \A l \in DOMAIN s.labels \ Listed(s.labels, HideLabels) : s.labels[l] \subseteq words
      <3>1. OpenLabels(s.labels) \subseteq words
        BY DEF OpenIn
      <3> QED
        BY <3>1 DEF OpenLabels
    <2> HIDE DEF words, r
    <2> QED
      BY <1>3, <1>4, <2>1, LabelsWithin
  <1>6. Within(LabelTree(q.Labels), words)
    <2> DEFINE m == s.container.Labels
    <2>1. \A l \in DOMAIN m \ Listed(m, HideLabels) : m[l] \subseteq words
      <3>1. OpenLabels(m) \subseteq words
        BY DEF OpenIn
      <3> QED
        BY <3>1 DEF OpenLabels
    <2> HIDE DEF words, q, m
    <2>2. Within(LabelTree(MaskLabels(m)), words)
      BY <1>4, <2>1, LabelsWithin
    <2> QED
      BY <1>3, <2>2 DEF m
  <1>7. Within(Words(envs), words)
    <2> DEFINE hidden == Listed(s.labels, HideEnvs)
    <2>1. \A i \in DOMAIN s.container.Env : OpenEntry(s.container.Env[i], hidden) \subseteq words
      <3>1. OpenEnv(s.container.Env, hidden) \subseteq words
        BY DEF OpenIn
      <3> QED
        BY <3>1 DEF OpenEnv
    <2>2. c.Env \in Seq(Entries(Text))
      <3>1. s.container.Env \in Seq(Entries(Text)) /\ <<>> \in Seq(Entries(Text))
        BY <1>2 DEF IsContainer
      <3> HIDE DEF c
      <3> QED
        BY <1>3, <3>1
    <2>3. \A i \in DOMAIN c.Env : OpenEntry(c.Env[i], hidden) \subseteq words
      <3> HIDE DEF words, c, hidden
      <3> QED
        BY <1>3, <2>1
    <2> HIDE DEF words, q, c
    <2> QED
      BY <1>3, <1>4, <2>2, <2>3, EnvWithin
  <1>8. \A f \in {"Configs", "Mounts", "Secrets"} : \A i \in DOMAIN q[f] : q[f][i] \subseteq words
    <2> DEFINE d == s.container
    <2>1. UNION Range(d.Configs) \subseteq words /\ UNION Range(d.Mounts) \subseteq words
          /\ UNION Range(d.Secrets) \subseteq words
      BY DEF OpenIn
    <2>2. \A f \in {"Configs", "Mounts", "Secrets"} : \A i \in DOMAIN s.container[f] :
            s.container[f][i] \subseteq words
      BY <2>1 DEF Range
    <2> HIDE DEF words, q
    <2> QED
      BY <1>3, <2>2
  <1> HIDE DEF words
  <1>9. Within(Words(q.Secrets), words) /\ Within(Words(q.Configs), words)
    BY <1>8, WordsWithin
  <1>10. Within(Slice(mounts), words)
    <2>1. ASSUME NEW i \in DOMAIN q.Mounts PROVE Within(mounts[i], words)
      <3> DEFINE kids == <<Leaf(q.Mounts[i]), Leaf({<<"target">>})>>
      <3>1. Within(Leaf(q.Mounts[i]), words) /\ Within(Leaf({<<"target">>}), words)
        BY <1>4, <1>8, LeafWithin
      <3>2. \A k \in DOMAIN kids : Within(kids[k], words)
        BY <3>1
      <3> HIDE DEF kids
      <3>3. Within(Struct(Fields(<<"Source", "Target">>), kids), words)
        BY <3>2, TreeWithin
      <3> QED
        BY <3>3 DEF kids
    <2> HIDE DEF mounts
    <2> QED
      BY <2>1, TreeWithin DEF mounts
  <1>11. Within(ContainerTree(Own, q), words)
    <2> DEFINE kids == <<LabelTree(q.Labels), Words(envs), Slice(mounts), Words(q.Secrets), Words(q.Configs)>>
    <2>1. \A k \in DOMAIN kids : Within(kids[k], words)
      <3> HIDE DEF envs, mounts, q
      <3> QED
        BY <1>6, <1>7, <1>9, <1>10
    <2> HIDE DEF kids
    <2>2. Within(Struct(Fields(<<"Labels", "Env", "Mounts", "Secrets", "Configs">>), kids), words)
      BY <2>1, TreeWithin
    <2>3. \A tree : Within(tree, words) => Within(Ptr(Own, tree), words)
      BY DEF Within, Ptr
    <2> QED
      BY <2>2, <2>3 DEF kids, ContainerTree
  <1> HIDE DEF q
  <1>12. ASSUME NEW names, NEW tree, Within(tree, words)
         PROVE  Within(Struct(names, <<tree>>), words) /\ Within(Slice(<<tree>>), words)
    <2> DEFINE kids == <<tree>>
    <2>1. \A k \in DOMAIN kids : Within(kids[k], words)
      BY <1>12
    <2> HIDE DEF kids
    <2>2. Within(Struct(names, kids), words) /\ Within(Slice(kids), words)
      BY <2>1, TreeWithin
    <2> QED
      BY <2>2 DEF kids
  <1>13. Within(ServiceTree(r), words)
    <2> DEFINE labels == Annotated(r.labels)
               container == Struct(Fields(<<"ContainerSpec">>), <<ContainerTree(Own, q)>>)
               kids == <<labels, container>>
    <2>1. Within(labels, words) /\ Within(container, words)
      BY <1>5, <1>11, <1>12 DEF Annotated
    <2>2. \A k \in DOMAIN kids : Within(kids[k], words)
      <3> HIDE DEF labels, container
      <3> QED
        BY <2>1
    <2> HIDE DEF kids
    <2>3. Within(Struct(Fields(<<"Annotations", "TaskTemplate">>), kids), words)
      BY <2>2, TreeWithin
    <2>4. Within(Struct(Fields(<<"Spec">>), <<Struct(Fields(<<"Annotations", "TaskTemplate">>), kids)>>), words)
      BY <2>3, <1>12
    <2> QED
      BY <2>4 DEF kids, ServiceTree, q
  <1> QED
    BY <1>12, <1>13 DEF words

\* What was fetched is what the sanitizers leave of a swarm.
FetchedInv ==
    /\ cfg \in Configs
    /\ cache["services"] \in Slices =>
         seen["services"] \in Swarms[cfg] /\ fetched["services"] = Fetch(cfg, seen["services"], "services")

LEMMA FetchedInvariance == Spec => []FetchedInv
  <1>g. "services" \in Groups /\ "services" \in Structural /\ "services" # "tasks"
    BY DEF Groups, Structural
  <1>n. None["services"] \notin Slices
    BY <1>g, RedactionAssumption DEF None
  <1>1. Init => FetchedInv
    BY <1>n DEF Init, FetchedInv
  <1>2. FetchedInv /\ [Next]_vars => FetchedInv'
    <2> SUFFICES ASSUME FetchedInv, [Next]_vars PROVE FetchedInv'
      OBVIOUS
    <2>1. CASE RefreshStructural
      <3>1. PICK swarm \in Swarms[cfg], n \in Slices :
              Returns(Structural, n, [g \in Structural |-> Fetch(cfg, swarm, g)], swarm)
        BY <2>1 DEF RefreshStructural
      <3>2. cfg' = cfg /\ seen'["services"] = swarm /\ fetched'["services"] = Fetch(cfg, swarm, "services")
        BY <1>g, <3>1 DEF Returns
      <3> QED
        BY <3>2 DEF FetchedInv
    <2>2. CASE RefreshTasks
      <3>1. PICK swarm \in Swarms[cfg], n \in Slices : \E result : Returns({"tasks"}, n, result, swarm)
        BY <2>2 DEF RefreshTasks
      <3>2. /\ cfg' = cfg /\ cache'["services"] = cache["services"]
            /\ seen'["services"] = seen["services"] /\ fetched'["services"] = fetched["services"]
        BY <1>g, <3>1 DEF Returns
      <3> QED
        BY <3>2 DEF FetchedInv
    <2>3. CASE Restart
      BY <1>n, <2>3 DEF Restart, FetchedInv
    <2>4. CASE UNCHANGED <<cfg, cache, fetched, seen>>
      BY <2>4 DEF FetchedInv
    <2>5. ASSUME \/ ClearNothing \/ ClearGroups \/ EnterGroups \/ Descend \/ ClearHits
                 \/ PublishNothing \/ Publish \/ Panic \/ UNCHANGED vars
          PROVE  UNCHANGED <<cfg, cache, fetched, seen>>
      BY <2>5 DEF ClearNothing, ClearGroups, EnterGroups, Descend, ClearHits, PublishNothing, Publish, Panic,
                  vars, dataVars
    <2> QED
      BY <2>1, <2>2, <2>3, <2>4, <2>5 DEF Next
  <1> QED
    BY <1>1, <1>2, PTL DEF Spec

\* What is sent of the service.
LEMMA SentOfService ==
  ASSUME FetchedInv, IInv, Settled
  PROVE  /\ cfg \in Configs /\ seen["services"] \in Swarms[cfg]
         /\ sent["services"] = Shown({l \in Fetch(cfg, seen["services"], "services") : ~Covered("services", l)})
  <1>1. "services" \in Groups /\ Unshifted("services")
    BY DEF Groups, Unshifted
  <1>2. cache["services"] \in Slices
    BY <1>1 DEF IInv, TypeInv, Settled
  <1> QED
    BY <1>1, <1>2 DEF FetchedInv, IInv, ClearsExactly

\* What the labels of a service hide is not in what is sent of it, if it is not
\* also written where nothing hides it (sanitizeServices, publish).
THEOREM HiddenInServicesHolds ==
  ASSUME Readable, NEW Text,
         \A c \in Configs : \A s \in Swarms[c] : IsService(Text, s) /\ SecretsStandOut(s)
  PROVE  Spec => []HiddenInServices
  <1>1. FetchedInv /\ IInv => HiddenInServices
    <2> SUFFICES ASSUME FetchedInv, IInv, Settled,
                        ~Hides(cfg, "service"), ~Hides(cfg, "container"),
                        NEW l \in sent["services"]
                 PROVE  l.val \cap SecretsOf(seen["services"]) = {}
      BY DEF HiddenInServices
    <2> DEFINE s == seen["services"]
    <2>1. IsService(Text, s) /\ SecretsStandOut(s) /\ cfg.hideAll \subseteq Hideable
      BY SentOfService, RedactionAssumption
    <2>2. PICK x \in Fetch(cfg, s, "services") : l.val = x.val
      BY SentOfService DEF Shown
    <2>3. x \in Slice(<<ServiceTree(SanitizeService(cfg, s))>>)
      BY <2>2 DEF Fetch
    <2>4. x.val \subseteq OpenIn(s)
      BY <2>1, <2>3, ServiceWithin DEF Within
    <2> QED
      BY <2>1, <2>2, <2>4 DEF SecretsStandOut
  <1> QED
    BY <1>1, FetchedInvariance, Invariance, PTL

\* What is sent of a service does not depend on what the configuration or its
\* labels hide: it is what would be sent of any service that looks the same
\* without that (sanitizeServices, publish).
THEOREM SentNonInterference ==
  ASSUME Readable, NEW Text, \A c \in Configs : \A s \in Swarms[c] : IsService(Text, s),
         NEW t, IsService(Text, t)
  PROVE  Spec => [](Settled /\ LooksTheSame(cfg, seen["services"], t)
                    /\ HideTheSame(cfg, seen["services"], t) =>
                      sent["services"] = Shown({l \in Fetch(cfg, t, "services") : ~Covered("services", l)}))
  <1> DEFINE Unaffected == Settled /\ LooksTheSame(cfg, seen["services"], t)
                      /\ HideTheSame(cfg, seen["services"], t) =>
                        sent["services"] = Shown({l \in Fetch(cfg, t, "services") : ~Covered("services", l)})
  <1>1. FetchedInv /\ IInv => Unaffected
    <2> SUFFICES ASSUME FetchedInv, IInv, Settled,
                        LooksTheSame(cfg, seen["services"], t), HideTheSame(cfg, seen["services"], t)
                 PROVE  sent["services"] = Shown({l \in Fetch(cfg, t, "services") : ~Covered("services", l)})
      OBVIOUS
    <2>1. IsService(Text, seen["services"]) /\ cfg.hideAll \subseteq Hideable
      BY SentOfService, RedactionAssumption
    <2>2. SanitizeService(cfg, seen["services"]) = SanitizeService(cfg, t)
      BY <2>1, NonInterference
    <2>3. Fetch(cfg, seen["services"], "services") = Fetch(cfg, t, "services")
      BY <2>2 DEF Fetch
    <2> QED
      BY <2>3, SentOfService
  <1> QED
    BY <1>1, FetchedInvariance, Invariance, PTL
-----------------------------------------------------------------------------
(* What splitPath reads.  The least element of a non-empty set of numbers    *)
(* (WFMin) is what its induction rests on.                                   *)

\* Induction on the natural numbers up to a bound, for sets.
LEMMA SetInduction ==
  ASSUME NEW N \in Nat, NEW T, 0 \in T, \A n \in 0..(N - 1) : n \in T => n + 1 \in T
  PROVE  \A n \in 0..N : n \in T
  <1> DEFINE R == {ss \in Nat \X Nat : ss[1] < ss[2]}
             Rest == {n \in 0..N : n \notin T}
  <1> SUFFICES ASSUME Rest # {} PROVE FALSE
    OBVIOUS
  <1>1. PICK n \in Rest : \A m \in Rest : ~(<<m, n>> \in R)
    <2>1. IsWellFoundedOn(R, Nat) /\ Rest \subseteq Nat
      BY NatLessThanWellFounded DEF OpToRel
    <2> HIDE DEF R, Rest
    <2> QED
      BY <2>1, WFMin
  <1>2. n \in 1..N /\ n - 1 \in 0..(N - 1) /\ (n - 1) + 1 = n
    OBVIOUS
  <1>3. n - 1 \notin T
    BY <1>2
  <1>4. n - 1 \in Rest
    BY <1>2, <1>3
  <1>5. <<n - 1, n>> \in R
    BY <1>2
  <1> QED
    BY <1>1, <1>4, <1>5

\* The loop of splitPath is well defined.
IsLoop(f, path) ==
    f = [n \in 0..Len(path) |-> IF n = 0 THEN Unread ELSE Read(f[n - 1], path[n])]

LEMMA LoopExists ==
  ASSUME NEW path, Len(path) \in Nat
  PROVE  \E f : IsLoop(f, path)
  <1> DEFINE N == Len(path)
             Upto(f, n) == f = [k \in 0..n |-> IF k = 0 THEN Unread ELSE Read(f[k - 1], path[k])]
             T == {n \in 0..N : \E f : Upto(f, n)}
  <1>1. 0 \in T
    <2> DEFINE f == [k \in 0..0 |-> Unread]
    <2>1. Upto(f, 0)
      OBVIOUS
    <2> HIDE DEF f, Upto
    <2> QED
      BY <2>1
  <1>2. ASSUME NEW n \in 0..(N - 1), n \in T PROVE n + 1 \in T
    <2>1. PICK f : Upto(f, n)
      BY <1>2
    <2> DEFINE g == [k \in 0..(n + 1) |-> IF k = n + 1 THEN Read(f[n], path[n + 1]) ELSE f[k]]
    <2>2. \A k \in 0..n : f[k] = IF k = 0 THEN Unread ELSE Read(f[k - 1], path[k])
      BY <2>1
    <2>3. ASSUME NEW k \in 0..(n + 1) PROVE g[k] = IF k = 0 THEN Unread ELSE Read(g[k - 1], path[k])
      <3>1. CASE k = n + 1
        <4>1. g[n + 1] = Read(f[n], path[n + 1]) /\ g[n] = f[n] /\ k # 0 /\ k - 1 = n
          BY <3>1
        <4> HIDE DEF g
        <4> QED
          BY <3>1, <4>1
      <3>2. CASE k \in 1..n
        <4>1. g[k] = f[k] /\ g[k - 1] = f[k - 1] /\ k # 0 /\ k \in 0..n
          BY <3>2
        <4> HIDE DEF g
        <4> QED
          BY <2>2, <4>1
      <3>3. CASE k = 0
        <4>1. g[k] = f[k] /\ 0 \in 0..n
          BY <3>3
        <4> HIDE DEF g
        <4> QED
          BY <2>2, <3>3, <4>1
      <3> QED
        BY <3>1, <3>2, <3>3
    <2>4. g = [k \in 0..(n + 1) |-> g[k]]
      OBVIOUS
    <2>5. Upto(g, n + 1)
      <3> HIDE DEF g
      <3> QED
        BY <2>3, <2>4
    <2> HIDE DEF g, Upto
    <2> QED
      BY <2>5
  <1>3. N \in T
    <2> HIDE DEF T, N
    <2>1. N \in Nat /\ N \in 0..N
      BY DEF N
    <2> QED
      BY <1>1, <1>2, <2>1, SetInduction
  <1> QED
    BY <1>3 DEF IsLoop
LEMMA SplitEquations ==
  ASSUME NEW path, Len(path) \in Nat
  PROVE  \E f : /\ f[0] = Unread /\ \A n \in 1..Len(path) : f[n] = Read(f[n - 1], path[n])
                /\ SplitPath(path) = IF f[Len(path)].buf = <<>> THEN f[Len(path)].parts
                                     ELSE Append(f[Len(path)].parts, f[Len(path)].buf)
  <1> DEFINE f == CHOOSE g : IsLoop(g, path)
  <1>1. IsLoop(f, path)
    BY LoopExists
  <1>2. SplitPath(path) = IF f[Len(path)].buf = <<>> THEN f[Len(path)].parts
                          ELSE Append(f[Len(path)].parts, f[Len(path)].buf)
    BY DEF SplitPath, IsLoop
  <1> HIDE DEF f
  <1>3. f[0] = Unread /\ \A n \in 1..Len(path) : f[n] = Read(f[n - 1], path[n])
    BY <1>1 DEF IsLoop
  <1> QED
    BY <1>2, <1>3

\* What Write adds with each part.
IsText(f, parts) ==
    f = [n \in 0..Len(parts) |->
            IF n = 0 THEN <<>>
            ELSE (IF n = 1 THEN <<>> ELSE Append(f[n - 1], Dot)) \o Quoted(parts[n])]

LEMMA TextExists ==
  ASSUME NEW parts, Len(parts) \in Nat
  PROVE  \E f : IsText(f, parts)
  <1> DEFINE N == Len(parts)
             Add(x, k) == (IF k = 1 THEN <<>> ELSE Append(x, Dot)) \o Quoted(parts[k])
             Upto(f, n) == f = [k \in 0..n |-> IF k = 0 THEN <<>> ELSE Add(f[k - 1], k)]
             T == {n \in 0..N : \E f : Upto(f, n)}
  <1> HIDE DEF Add
  <1>1. 0 \in T
    <2> DEFINE f == [k \in 0..0 |-> <<>>]
    <2>1. Upto(f, 0)
      OBVIOUS
    <2> HIDE DEF f, Upto
    <2> QED
      BY <2>1
  <1>2. ASSUME NEW n \in 0..(N - 1), n \in T PROVE n + 1 \in T
    <2>1. PICK f : Upto(f, n)
      BY <1>2
    <2> DEFINE g == [k \in 0..(n + 1) |-> IF k = n + 1 THEN Add(f[n], n + 1) ELSE f[k]]
    <2>2. \A k \in 0..n : f[k] = IF k = 0 THEN <<>> ELSE Add(f[k - 1], k)
      BY <2>1
    <2>3. ASSUME NEW k \in 0..(n + 1) PROVE g[k] = IF k = 0 THEN <<>> ELSE Add(g[k - 1], k)
      <3>1. CASE k = n + 1
        <4>1. g[n + 1] = Add(f[n], n + 1) /\ g[n] = f[n] /\ k # 0 /\ k - 1 = n
          BY <3>1
        <4> HIDE DEF g
        <4> QED
          BY <3>1, <4>1
      <3>2. CASE k \in 1..n
        <4>1. g[k] = f[k] /\ g[k - 1] = f[k - 1] /\ k # 0 /\ k \in 0..n
          BY <3>2
        <4> HIDE DEF g
        <4> QED
          BY <2>2, <4>1
      <3>3. CASE k = 0
        <4>1. g[k] = f[k] /\ 0 \in 0..n
          BY <3>3
        <4> HIDE DEF g
        <4> QED
          BY <2>2, <3>3, <4>1
      <3> QED
        BY <3>1, <3>2, <3>3
    <2>4. g = [k \in 0..(n + 1) |-> g[k]]
      OBVIOUS
    <2>5. Upto(g, n + 1)
      <3> HIDE DEF g
      <3> QED
        BY <2>3, <2>4
    <2> HIDE DEF g, Upto
    <2> QED
      BY <2>5
  <1>3. N \in T
    <2> HIDE DEF T, N
    <2>1. N \in Nat /\ N \in 0..N
      BY DEF N
    <2> QED
      BY <1>1, <1>2, <2>1, SetInduction
  <1> QED
    BY <1>3 DEF IsText, Add

LEMMA WriteEquations ==
  ASSUME NEW parts, Len(parts) \in Nat
  PROVE  \E f : /\ f[0] = <<>>
                /\ \A n \in 1..Len(parts) :
                     f[n] = (IF n = 1 THEN <<>> ELSE Append(f[n - 1], Dot)) \o Quoted(parts[n])
                /\ Write(parts) = f[Len(parts)]
  <1> DEFINE f == CHOOSE g : IsText(g, parts)
  <1>1. IsText(f, parts)
    BY TextExists
  <1>2. Write(parts) = f[Len(parts)]
    BY DEF Write, IsText
  <1> HIDE DEF f
  <1> DEFINE Add(n) == (IF n = 1 THEN <<>> ELSE Append(f[n - 1], Dot)) \o Quoted(parts[n])
  <1>3. f = [n \in 0..Len(parts) |-> IF n = 0 THEN <<>> ELSE Add(n)]
    BY <1>1 DEF IsText
  <1>4. f[0] = <<>> /\ \A n \in 1..Len(parts) : f[n] = Add(n)
    <2> HIDE DEF Add
    <2> QED
      BY <1>3
  <1> QED
    BY <1>2, <1>4
Reading(f, path) == \A n \in 1..Len(path) : f[n] = Read(f[n - 1], path[n])

\* After k tokens of the path comes s.
Comes(path, k, s) == k + Len(s) <= Len(path) /\ \A j \in 1..Len(s) : path[k + j] = s[j]

Undotted(p) == \A j \in 1..Len(p) : p[j] # Dot

States(Tok) == [parts : Seq(Seq(Tok)), buf : Seq(Tok), inQuotes : BOOLEAN]
HasRead(Tok, s, parts, buf) == s \in States(Tok) /\ s.parts = parts /\ s.buf = buf /\ ~s.inQuotes

\* Reading a part that has no quotes, and no dots unless it is quoted.
LEMMA ReadPart ==
  ASSUME NEW Tok, NEW path \in Seq(Tok), NEW f, Reading(f, path),
         NEW p \in Seq(Tok), Unquoted(p), NEW k \in Nat, Comes(path, k, p),
         f[k] \in States(Tok), f[k].buf = <<>>, f[k].inQuotes \/ Undotted(p)
  PROVE  f[k + Len(p)] = [f[k] EXCEPT !.buf = p]
  <1> DEFINE s(b) == [f[k] EXCEPT !.buf = b]
             P(j) == f[k + j] = s(SubSeq(p, 1, j))
             T == {j \in 0..Len(p) : P(j)}
  <1>0. Len(p) \in Nat /\ Len(path) \in Nat
    OBVIOUS
  <1>1. 0 \in T
    <2>1. SubSeq(p, 1, 0) = <<>> /\ k + 0 = k
      BY SubSeqEmpty
    <2>2. f[k] = s(<<>>)
      BY DEF States
    <2>3. P(0)
      <3> HIDE DEF s
      <3> QED
        BY <2>1, <2>2
    <2> HIDE DEF P
    <2> QED
      BY <1>0, <2>3
  <1>2. ASSUME NEW j \in 0..(Len(p) - 1), j \in T PROVE j + 1 \in T
    <2> DEFINE b == SubSeq(p, 1, j)
               c == p[j + 1]
    <2>1. f[k + (j + 1)] = Read(f[k + j], path[k + (j + 1)])
      <3>1. k + (j + 1) \in 1..Len(path) /\ (k + (j + 1)) - 1 = k + j
        BY <1>0 DEF Comes
      <3> QED
        BY <3>1 DEF Reading
    <2>2. path[k + (j + 1)] = c /\ c # Quote /\ (c # Dot \/ f[k].inQuotes)
      <3>1. j + 1 \in 1..Len(p)
        BY <1>0
      <3> QED
        BY <3>1 DEF Comes, Unquoted, Undotted
    <2>3. f[k + j] = s(b)
      BY <1>2
    <2>4. Read(s(b), c) = s(Append(b, c))
      <3> HIDE DEF b, c
      <3>1. /\ s(b).buf = b /\ s(b).inQuotes = f[k].inQuotes
            /\ [s(b) EXCEPT !.buf = Append(b, c)] = s(Append(b, c))
        BY DEF States
      <3> HIDE DEF s
      <3> QED
        BY <2>2, <3>1 DEF Read, Keep
    <2>5. Append(b, c) = SubSeq(p, 1, j + 1)
      BY <1>0
    <2>6. P(j + 1)
      <3> HIDE DEF b, c, s
      <3> QED
        BY <2>1, <2>2, <2>3, <2>4, <2>5
    <2> HIDE DEF P, b
    <2> QED
      BY <1>0, <2>6
  <1>3. Len(p) \in T
    <2> HIDE DEF T
    <2>1. \A n \in 0..Len(p) : n \in T
      BY <1>0, <1>1, <1>2, SetInduction, Zenon
    <2> QED
      BY <1>0, <2>1
  <1>4. SubSeq(p, 1, Len(p)) = p
    BY SubSeqFull
  <1> QED
    BY <1>3, <1>4

\* The same with the quotes that it may have.
LEMMA ReadQuoted ==
  ASSUME NEW Tok, {Dot, Quote} \subseteq Tok, NEW path \in Seq(Tok), NEW f, Reading(f, path),
         NEW p \in Seq(Tok), Unquoted(p), NEW k \in Nat, Comes(path, k, Quoted(p)),
         f[k] \in States(Tok), f[k].buf = <<>>, ~f[k].inQuotes
  PROVE  f[k + Len(Quoted(p))] = [f[k] EXCEPT !.buf = p]
  <1>0. Len(p) \in Nat /\ Len(path) \in Nat /\ DOMAIN p = 1..Len(p)
    OBVIOUS
  <1>1. CASE Undotted(p)
    <2>1. Quoted(p) = p
      BY <1>1 DEF Quoted, Undotted
    <2> QED
      BY <1>1, <2>1, ReadPart
  <1>2. CASE ~Undotted(p)
    <2> DEFINE x == <<Quote>> \o p \o <<Quote>>
               n == Len(p)
               s == [f[k] EXCEPT !.inQuotes = TRUE]
    <2>1. Quoted(p) = x
      BY <1>2 DEF Quoted, Undotted
    <2>2. /\ Len(x) = n + 2 /\ x[1] = Quote /\ x[n + 2] = Quote
          /\ \A j \in 1..n : x[j + 1] = p[j]
      BY <1>0
    <2> HIDE DEF x
    <2>3. /\ path[k + 1] = Quote /\ path[k + (n + 2)] = Quote
          /\ \A j \in 1..n : path[k + (j + 1)] = p[j]
          /\ k + (n + 2) <= Len(path)
      <3>1. 1 \in 1..(n + 2) /\ n + 2 \in 1..(n + 2) /\ \A j \in 1..n : j + 1 \in 1..(n + 2)
        BY <1>0
      <3> QED
        BY <2>1, <2>2, <3>1 DEF Comes
    <2>4. f[k + 1] = s /\ s \in States(Tok) /\ s.buf = <<>> /\ s.inQuotes
      <3>1. k + 1 \in 1..Len(path) /\ (k + 1) - 1 = k
        BY <1>0, <2>3
      <3>2. f[k + 1] = Read(f[k], Quote)
        BY <2>3, <3>1 DEF Reading
      <3> QED
        BY <3>2 DEF Read, States
    <2>5. f[(k + 1) + n] = [f[k + 1] EXCEPT !.buf = p]
      <3>1. k + 1 \in Nat /\ Comes(path, k + 1, p)
        <4>1. \A j \in 1..n : (k + 1) + j = k + (j + 1)
          BY <1>0
        <4>2. (k + 1) + n <= Len(path)
          BY <1>0, <2>3
        <4> QED
          BY <2>3, <4>1, <4>2 DEF Comes
      <3>2. f[k + 1] \in States(Tok) /\ f[k + 1].buf = <<>> /\ f[k + 1].inQuotes
        BY <2>4
      <3> QED
        BY <3>1, <3>2, ReadPart
    <2>6. f[k + (n + 2)] = Read([s EXCEPT !.buf = p], Quote)
      <3>1. k + (n + 2) \in 1..Len(path) /\ (k + (n + 2)) - 1 = (k + 1) + n
        <4>1. n \in Nat /\ k + (n + 2) <= Len(path)
          BY <1>0, <2>3
        <4> HIDE DEF n
        <4> QED
          BY <1>0, <4>1
      <3> QED
        BY <2>3, <2>4, <2>5, <3>1 DEF Reading
    <2>7. Read([s EXCEPT !.buf = p], Quote) = [f[k] EXCEPT !.buf = p]
      BY DEF Read, States
    <2> QED
      BY <2>1, <2>2, <2>6, <2>7
  <1> QED
    BY <1>1, <1>2

\* A path that is written with quotes around the parts that have dots is read as
\* it is meant (README.md:101, splitPath).
THEOREM PathsAsWritten ==
  ASSUME NEW Tok, {Dot, Quote} \subseteq Tok, NEW parts \in Seq(Seq(Tok)),
         \A i \in 1..Len(parts) : Unquoted(parts[i]),
         parts # <<>> => parts[Len(parts)] # <<>>
  PROVE  SplitPath(Write(parts)) = parts
  <1> DEFINE N == Len(parts)
  <1>0. N \in Nat /\ \A i \in 1..N : parts[i] \in Seq(Tok)
    OBVIOUS
  <1>1. PICK t : /\ t[0] = <<>>
                 /\ \A n \in 1..N : t[n] = (IF n = 1 THEN <<>> ELSE Append(t[n - 1], Dot)) \o Quoted(parts[n])
                 /\ Write(parts) = t[N]
    BY <1>0, WriteEquations
  <1>2. \A i \in 1..N : Quoted(parts[i]) \in Seq(Tok)
    BY <1>0 DEF Quoted
  <1> DEFINE Typed(n) == t[n] \in Seq(Tok)
  <1>3. \A n \in 0..N : Typed(n)
    <2> DEFINE T == {n \in 0..N : Typed(n)}
    <2>1. 0 \in T
      <3>1. Typed(0)
        BY <1>1
      <3> QED
        BY <1>0, <3>1
    <2>2. ASSUME NEW n \in 0..(N - 1), n \in T PROVE n + 1 \in T
      <3>1. n + 1 \in 1..N /\ n + 1 \in 0..N /\ (n + 1) - 1 = n
        BY <1>0
      <3>2. t[n] \in Seq(Tok) /\ Append(t[n], Dot) \in Seq(Tok)
        BY <2>2
      <3>3. t[n + 1] = (IF n + 1 = 1 THEN <<>> ELSE Append(t[n], Dot)) \o Quoted(parts[n + 1])
        BY <1>1, <3>1
      <3>4. Typed(n + 1)
        BY <1>2, <3>1, <3>2, <3>3
      <3> QED
        BY <3>1, <3>4
    <2> HIDE DEF T, N
    <2>3. \A n \in 0..N : n \in T
      BY <1>0, <2>1, <2>2, SetInduction, Zenon
    <2> QED
      BY <2>3 DEF T
  <1> DEFINE Begins(path, s) == Len(s) <= Len(path) /\ \A j \in 1..Len(s) : path[j] = s[j]
             Got(s, n) == IF n = 0 THEN s = Unread ELSE HasRead(Tok, s, SubSeq(parts, 1, n - 1), parts[n])
             P(n) == \A path \in Seq(Tok) : \A f :
                        f[0] = Unread /\ Reading(f, path) /\ Begins(path, t[n]) => Got(f[Len(t[n])], n)
  <1>4. \A n \in 0..N : P(n)
    <2> DEFINE T == {n \in 0..N : P(n)}
    <2>1. P(0)
      BY <1>1
    <2>2. ASSUME NEW n \in 0..(N - 1), P(n) PROVE P(n + 1)
      <3> SUFFICES ASSUME NEW path \in Seq(Tok), NEW f, f[0] = Unread /\ Reading(f, path), Begins(path, t[n + 1])
                   PROVE  Got(f[Len(t[n + 1])], n + 1)
        OBVIOUS
      <3> DEFINE p == parts[n + 1]
                 x == Quoted(p)
                 u == t[n]
      <3>1. n + 1 \in 1..N /\ (n + 1) - 1 = n /\ n \in 0..N
        BY <1>0
      <3>2. p \in Seq(Tok) /\ x \in Seq(Tok) /\ u \in Seq(Tok) /\ t[n + 1] \in Seq(Tok)
        BY <1>0, <1>2, <1>3, <3>1
      <3>3. Unquoted(p)
        BY <3>1
      <3>4. t[n + 1] = (IF n + 1 = 1 THEN <<>> ELSE Append(u, Dot)) \o x
        BY <1>1, <3>1
      <3>5. Len(path) \in Nat /\ Len(x) \in Nat /\ Len(u) \in Nat
        BY <3>2
      <3> DEFINE ps == SubSeq(parts, 1, n)
      <3>6. ps \in Seq(Seq(Tok))
        BY <1>0, <3>1
      <3>7. ASSUME NEW k \in Nat, HasRead(Tok, f[k], ps, <<>>), Len(t[n + 1]) = k + Len(x),
                   \A j \in 1..Len(x) : t[n + 1][k + j] = x[j]
            PROVE  Got(f[Len(t[n + 1])], n + 1)
        <4>1. Comes(path, k, x)
          <5>1. Len(t[n + 1]) = k + Len(x) /\ Len(t[n + 1]) <= Len(path)
            BY <3>7
          <5>2. \A j \in 1..Len(x) : k + j \in 1..Len(t[n + 1])
            <6> HIDE DEF x
            <6> QED
              BY <3>5, <5>1
          <5>3. \A j \in 1..Len(x) : path[k + j] = x[j]
            <6> HIDE DEF x
            <6> QED
              BY <3>7, <5>2
          <5> QED
            BY <5>1, <5>3 DEF Comes
        <4>2. HasRead(Tok, f[k + Len(x)], ps, p)
          <5> HIDE DEF p, ps, P, T, Got, Begins
          <5>1. Comes(path, k, Quoted(p)) /\ Reading(f, path) /\ p \in Seq(Tok)
            BY <3>2, <4>1
          <5>2. f[k] \in States(Tok) /\ f[k].buf = <<>> /\ ~f[k].inQuotes /\ f[k].parts = ps
            BY <3>7 DEF HasRead
          <5>3. f[k + Len(Quoted(p))] = [f[k] EXCEPT !.buf = p]
            <6> HIDE DEF x, u, N, Typed
            <6> QED
              BY <3>3, <5>1, <5>2, ReadQuoted
          <5> QED
            BY <5>1, <5>2, <5>3 DEF HasRead, States
        <4>3. n + 1 # 0
          OBVIOUS
        <4> HIDE DEF p, x, HasRead
        <4> QED
          BY <3>1, <3>7, <4>2, <4>3 DEF p
      <3>8. CASE n = 0
        <4>1. ps = <<>>
          BY <3>8, SubSeqEmpty
        <4>2. HasRead(Tok, f[0], ps, <<>>)
          <5>1. Unread \in States(Tok)
            BY DEF Unread, States
          <5>2. f[0] = Unread
            OBVIOUS
          <5>3. Unread.parts = <<>> /\ Unread.buf = <<>> /\ ~Unread.inQuotes
            BY DEF Unread
          <5> HIDE DEF ps
          <5> QED
            BY <4>1, <5>1, <5>2, <5>3 DEF HasRead
        <4>3. t[n + 1] = x
          BY <3>2, <3>4, <3>8
        <4>4. Len(t[n + 1]) = 0 + Len(x) /\ \A j \in 1..Len(x) : t[n + 1][0 + j] = x[j]
          BY <3>5, <4>3
        <4> QED
          BY <3>7, <4>2, <4>4
      <3>9. CASE n # 0
        <4>1. t[n + 1] = Append(u, Dot) \o x
          <5>1. n + 1 # 1
            BY <3>9
          <5> HIDE DEF u, x
          <5> QED
            BY <3>4, <5>1
        <4>2. /\ Len(t[n + 1]) = (Len(u) + 1) + Len(x)
              /\ \A j \in 1..Len(x) : t[n + 1][(Len(u) + 1) + j] = x[j]
              /\ \A j \in 1..Len(u) : t[n + 1][j] = u[j]
              /\ t[n + 1][Len(u) + 1] = Dot
          <5> HIDE DEF u, x
          <5> QED
            BY <3>2, <4>1
        <4>3. Begins(path, u) /\ path[Len(u) + 1] = Dot /\ Len(u) + 1 \in 1..Len(path)
          <5>0. Len(t[n + 1]) <= Len(path) /\ \A j \in 1..Len(t[n + 1]) : path[j] = t[n + 1][j]
            OBVIOUS
          <5>1. Len(u) + 1 \in 1..Len(t[n + 1]) /\ Len(u) + 1 \in 1..Len(path) /\ Len(t[n + 1]) <= Len(path)
            <6> HIDE DEF u, x
            <6> QED
              BY <3>5, <4>2, <5>0
          <5>2. \A j \in 1..(Len(u) + 1) : path[j] = t[n + 1][j]
            <6> HIDE DEF u, x
            <6>1. \A j \in 1..(Len(u) + 1) : j \in 1..Len(t[n + 1])
              BY <3>5, <4>2
            <6> QED
              BY <5>0, <6>1
          <5>3. \A j \in 1..Len(u) : j \in 1..(Len(u) + 1)
            BY <3>5
          <5>4. Len(u) <= Len(path) /\ Len(u) + 1 \in 1..(Len(u) + 1)
            BY <3>5, <5>1
          <5> HIDE DEF u, x
          <5> QED
            BY <4>2, <5>1, <5>2, <5>3, <5>4
        <4>4. HasRead(Tok, f[Len(u)], SubSeq(parts, 1, n - 1), parts[n])
          BY <2>2, <3>9, <4>3
        <4>5. f[Len(u) + 1] = Read(f[Len(u)], Dot)
          <5>1. (Len(u) + 1) - 1 = Len(u)
            BY <3>5
          <5> QED
            BY <4>3, <5>1 DEF Reading
        <4>6. Append(SubSeq(parts, 1, n - 1), parts[n]) = ps
          BY <1>0, <3>1, <3>9
        <4>7. HasRead(Tok, f[Len(u) + 1], ps, <<>>)
          <5>1. Read(f[Len(u)], Dot) = Cut(f[Len(u)])
            BY <4>4 DEF Read, HasRead, Dot, Quote
          <5>2. ASSUME NEW s \in States(Tok), Append(s.parts, s.buf) = ps, ~s.inQuotes
                PROVE  HasRead(Tok, Cut(s), ps, <<>>)
            <6> HIDE DEF ps
            <6>1. Cut(s) = [s EXCEPT !.parts = ps, !.buf = <<>>]
              BY <5>2 DEF Cut
            <6>2. <<>> \in Seq(Tok)
              OBVIOUS
            <6>3. Cut(s) \in States(Tok)
              BY <3>6, <5>2, <6>1, <6>2 DEF States
            <6>4. Cut(s).parts = ps /\ Cut(s).buf = <<>> /\ Cut(s).inQuotes = s.inQuotes
              BY <6>1 DEF States
            <6> QED
              BY <5>2, <6>3, <6>4 DEF HasRead
          <5> QED
            BY <4>4, <4>5, <4>6, <5>1, <5>2 DEF HasRead
        <4>8. Len(u) + 1 \in Nat
          BY <3>5
        <4> HIDE DEF u, x, ps, Got
        <4> QED
          BY <3>7, <4>2, <4>7, <4>8
      <3> QED
        BY <3>8, <3>9
    <2> HIDE DEF P, N
    <2>3. 0 \in T /\ \A n \in 0..(N - 1) : n \in T => n + 1 \in T
      BY <1>0, <2>1, <2>2
    <2>4. \A n \in 0..N : n \in T
      <3> HIDE DEF T
      <3> QED
        BY <1>0, <2>3, SetInduction, Zenon
    <2> QED
      BY <2>4
  <1> DEFINE text == t[N]
  <1>5. text \in Seq(Tok) /\ Len(text) \in Nat
    BY <1>0, <1>3
  <1>6. PICK f : /\ f[0] = Unread /\ Reading(f, text)
                 /\ SplitPath(text) = IF f[Len(text)].buf = <<>> THEN f[Len(text)].parts
                                      ELSE Append(f[Len(text)].parts, f[Len(text)].buf)
    BY <1>5, SplitEquations DEF Reading
  <1>7. Got(f[Len(text)], N)
    <2>1. Begins(text, text)
      BY <1>5
    <2>2. P(N)
      <3>1. N \in 0..N
        BY <1>0
      <3> HIDE DEF P
      <3> QED
        BY <1>4, <3>1
    <2> QED
      BY <1>5, <1>6, <2>1, <2>2
  <1>8. CASE N = 0
    <2>1. parts = <<>>
      BY <1>8
    <2> QED
      BY <1>1, <1>6, <1>7, <1>8, <2>1 DEF Unread
  <1>9. CASE N # 0
    <2>1. f[Len(text)].parts = SubSeq(parts, 1, N - 1) /\ f[Len(text)].buf = parts[N] /\ parts[N] # <<>>
      BY <1>7, <1>9 DEF HasRead
    <2>2. Append(SubSeq(parts, 1, N - 1), parts[N]) = parts
      BY <1>0, <1>9
    <2> QED
      BY <1>1, <1>6, <2>1, <2>2
  <1> QED
    BY <1>8, <1>9

\* So the theorems above hold of all configurations that are written like this.
THEOREM WrittenAreReadable ==
  ASSUME NEW Tok, {Dot, Quote} \subseteq Tok, AsWritten(Tok)
  PROVE  Readable
  <1> SUFFICES ASSUME NEW c \in Configs, NEW i \in 1..Len(c.parts)
               PROVE  SplitPath(c.paths[i]) = c.parts[i]
    BY DEF Readable
  <1> QED
    BY PathsAsWritten DEF AsWritten
=============================================================================
