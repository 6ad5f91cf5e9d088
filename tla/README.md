# A verification project for swarm-visualizer

swarm-visualizer is a small Go server that polls the Docker API of a swarm
manager and pushes snapshots of nodes, services, networks and tasks to
browsers over WebSockets, behind an optional OpenID Connect login. This
directory models its concurrent and stateful parts in TLA+, checks the models
with TLC on small instances and proves their safety, and most of their
progress, with TLAPS for all instances.

## The system

| part | code | state | operations |
|---|---|---|---|
| WebSocket hub | `internal/docker/handlers.go` | `clients`, `lastFanned`, the `broadcast` channel, one `send` channel and two goroutines per client | `Publish`, `runBroadcasts`/`enqueue`, `handleConnections` (`atCapacity`, upgrade, `validate`, `register`, read loop, `unregister`), `writePump` |
| Swarm inspector | `internal/docker/inspect.go` | cached groups, `lastPublished` | two tickers; `refreshStructural`, `refreshTasks`, `publish` |
| Stopped-task cache | `internal/docker/inspect.go` | `stoppedTaskCache` | `getTasksInfo` |
| Sanitizers | `internal/docker/inspect.go`, `internal/utils.go` | none of their own; they write into the inspector's cached slices | `sanitizeNodes/Networks/Services/Tasks`, `ClearByPath` |
| JWKS key store | `internal/oauth/jwks.go` | `keys`, `lastRefresh` | `key`, `refreshIfStale`, `refresh`, `refreshLoop` |
| Login flow | `internal/oauth/oauth.go`, `idtoken.go` | state, nonce and session cookies in the browser | `/login`, `/callback`, `/logout`, `ValidateToken` |
| Rate limiter | `internal/oauth/oauth.go` | a token bucket per address | `clientIP`, `authLimiter`, `cleanupLimiters` |
| Keepalive | `internal/docker/handlers.go` | read deadline, write deadlines, ping ticker of a connection | pong handler, read loop, `writePump` |
| Browser | `web/static/websocket.js`, `index.html` | connection, back-off, selections in `localStorage` | connect, event handlers, reconnect, `updateReceivedData`, the user's choices |
| Server | `cmd/server/main.go` | readiness, HTTP server | start, `/healthz`, signal, drain, exit |
| Health check | `cmd/healthcheck/main.go` | none | one probe; the orchestrator counts failures |

How they interact. One goroutine runs the inspector; it calls the Docker API
and hands each changed snapshot to `Hub.Publish`, which blocks while the
channel of capacity 1 is full. One goroutine runs `runBroadcasts`; it holds
`h.mu` while it puts the frame into every client's `send` buffer, also of
capacity 1. Every connection has the HTTP handler's goroutine, which
registers, reads until an error and unregisters, and a `writePump`, which owns
all writes. With authentication on, the handler calls `ValidateToken`, which
looks the signing key up in the key store; a miss may fetch the JWKS document,
concurrently with other validations and with the hourly refresh loop.

What is hard. Three goroutines share each `send` channel, one of them closes
it, and none may block for long. The capacity check is made twice and is stale
the first time. A client registers while a frame is being fanned out. The
inspector's view is put together from separate calls that fail one by one.
Stopped tasks outlive Docker's own list, on the clock of the server and by
time stamps of Docker's. JWKS refreshes overlap. Limiters are deleted between
their lookup and their use. Pings share a goroutine with slow writes. Paths are
cleared in place, in slices that the last published snapshot still refers to. A
tab outlives connections, cookies and server processes. `PROJECT.json` lists each
hazard at its line, with the property that covers it.

What makes each part correct:

- hub: nobody misses the latest snapshot, sees an older one after a newer one,
  or takes a slot beyond the cap or without a token; no client stalls the
  others; everything a connection used is released;
- inspector: what is published is complete, from one refresh, different from
  the snapshot before, and in the end what the swarm is;
- stopped tasks: a stop is shown for its grace period, once, and not for ever;
- key store: rotation is picked up, no failure loses a key, the identity
  provider is not flooded;
- login: a session belongs to a login of the same browser, a login that was
  answered is not used again, and one that nothing interferes with is not
  refused;
- rate limiter: deleting idle limiters is invisible, no address gets more than
  its rate, none is kept for ever;
- keepalive: a responsive peer is not reaped while its pings get their turn, a
  silent one is in time;
- sanitizers: what is to be hidden is not sent, and nothing else is missing;
- browser and server: one connection at a time, at a decent pace, the user's
  selections kept, and in the end a current picture, or the login page once a
  navigation is fast enough; a process that serves does not turn unhealthy.

## Modules

| module | models | checked by | proved in |
|---|---|---|---|
| `SnapshotFeed` | what the hub promises: an abstract feed | refined by `Hub` | `HubProofs` |
| `Hub` | the hub | `MCHub` | `HubProofs` |
| `Inspector` | the inspector | `MCInspector` | `InspectorProofs` |
| `StoppedTasks` | `getTasksInfo` and its cache | `MCStoppedTasks` | `InspectorProofs` |
| `KeyStore` | the JWKS key store | `MCKeyStore`, `MCKeyStoreDocs` | `KeyStoreProofs` |
| `LoginFlow` | the login flow and the token check | `MCLoginFlow` | `LoginFlowProofs` |
| `TokenBuckets` | what the limiter promises: a bucket per address, never forgotten | refined by `RateLimiter` | `RateLimiterProofs` |
| `RateLimiter` | the map of limiters and its clean-up | `MCClocks` | `RateLimiterProofs` |
| `Keepalive` | the clocks of one connection | `MCClocks`, `MCKeepalive` | `KeepaliveProofs` |
| `ClearByPath` | `internal/utils.go`: paths, and which leaves of a value they select | `MCRedaction` | `RedactionProofs` |
| `Sanitizers` | `sanitizeServices` and its like on one service | `MCRedaction` | `RedactionProofs` |
| `Redaction` | the fetches with their sanitizers, and what `publish` does to shared slices | `MCRedaction`, `MCRedactionDocs` | `RedactionProofs` |
| `Server` | the process: start, readiness, probes, drain, exit | `MCBrowser` | `BrowserProofs` |
| `Browser` | a tab, composed with `Server` | `MCBrowser` | `BrowserProofs` |

A definition that stands directly before another and is not used by the
specification is a faulty variant of it (`FullOffByOne` before `Full`): putting
it in the place of the original must violate a property, and `PROJECT.json`
says which.

### Hub

A snapshot is the number of its publication, 0 is nil and an empty channel.
`bpc`, `handler[c]` and `pump[c]` are the places of `runBroadcasts`, of the
handler of connection `c` and of its `writePump`. Every statement another
goroutine can observe is a step: `enqueue`'s three selects are `TrySend`,
`Drain` and `Retry`; `writePump`'s receive and write are `PumpTake` and
`PumpWrite`. `h.mu` is `MuFree`: only `runBroadcasts` holds it over several
steps. `todo` is the part of the map its range has still to visit, in any
order. `conn[c]` is `dead` when the peer closed the connection or vanished; a
read then fails in the end, by an error or by the read deadline. A 503 for a
full server changes nothing and is not an action. A write or a ping can fail
at any time. An element of `Conns` is used again for a later connection when
both goroutines of the earlier one have ended.

`SnapshotFeed` has one latest snapshot and viewers whose picture moves only
forward (`Safe`) and catches up (`Delivery`). The refinement mapping takes
`lastFanned` for `latest`, the connections that are registered or whose
`writePump` still runs for `open`, and `written` for `view`.

### Inspector

The swarm is a counter of changes; a successful call returns the count it saw,
and `Content` says what of a group is visible after so many changes, so that
some changes are invisible after clearing. Each Docker call is a step that may
fail. `refreshStructural` makes all three calls, then commits all or nothing
(`FetchNetworks` ends it). `publish` returns early, fails to marshal, or sets
`lastPublished` and then blocks in `Send`. The tickers have channels of
capacity 1 and drop ticks. `order` is the order in which the range over
`newestStopped` yields the stopped tasks.

### StoppedTasks

Ages saturate at the grace period, so time is not bounded. `Poll` is the whole
of `getTasksInfo`: cache update, eviction, newest per slot. Docker's side
creates tasks, stops them, updates them (each update moves `UpdatedAt`) and
prunes them. `live` stands for every state but failed and complete.

### KeyStore

Each critical section of `ks.mu` is a step; a refresh is stamp
(`StartRefresh`), answer (`Respond` or `FetchFails`) and `Store`. `age`, the
time since `lastRefresh`, saturates at the throttle, and no request outlives
the HTTP client's timeout, so time is not bounded here either. `Published`
lists the documents the identity provider serves one after the other; entries
outside `Usable` are the ones `refresh` skips. `reply` is the document a refresh
got, for as long as its goroutine is at it.

### LoginFlow

A login is a number that stands for its state and its nonce, both fresh random
strings; `owner` is the browser it was started in. `jar` holds a browser's
cookies. A callback request carries the flow cookies of the moment it is sent
(`Callback`), is checked, exchanges its code and has its token validated on
the server, and changes the jar when its answer arrives (`Respond`), so logins,
logouts and other answers can come in between. The exchange may fail, time out
or return any token: of another login, without nonce, or with any defect
`validateRawToken` looks for. The callback URL of a login can be opened in any
browser and again; a browser may lose any cookie. A refusal by the rate limiter
(`Limited`) changes no cookie. `answered` and `disturbed` are history: which
logins had their callback answered in their own browser, and whose cookies a
later login, an answer or an eviction touched.

### RateLimiter

`limiters` is the map, an entry of which is the identity of a `*rate.Limiter`;
`tokens` is what each limiter has left, in units of time, so that a token is
worth `Interval`. `Lookup` is `clientIP` and `authLimiter` (one critical
section), `Allow` the decision after the unlock, and `Cleanup` may come between
them; `call` holds the requests in between. `Delay` bounds that time: a handler
has nothing to wait for there. `rate.Limiter` itself is external. The history
variable `window` watches one untrusted peer from an arbitrary instant on.
`TokenBuckets` has one bucket per address that is never deleted; the mapping
takes a missing entry for a full bucket, and for a bucket in use its tokens.

### Keepalive

One registered connection in discrete time. Time passes (`Elapse`) only when
nothing is due. `writePump` is in `select`, in one of three writes, or done;
each write has its deadline (`left`) and succeeds, fails or times out. The
ticker drops ticks while its channel is full. When both a tick and a snapshot
are ready, Go's `select` chooses at random, so `WriteFrame` may pass the tick over
any number of times. `Margin` is how many slow snapshots ahead of a ping the
timings leave room for, two with the code's; the history variable `starved`
notes that `select` has exceeded it since the last pong. Only a pong extends the
read deadline (`PongExtends`).
`Hub` has the same connection without the clock, as outcomes.

### ClearByPath, Sanitizers and Redaction

A Go value is the set of its non-empty leaves, each with the way that leads
there: for every field, entry or element on it, the parts of a path that select
it (the JSON name and the Go name, the key, the index, the wildcard). Text is a
sequence of tokens, because only dots, quotes and whole words matter.
`SplitPath` is the loop of `splitPath`, one token per turn, as a recursive
function. `Enter` is one call of `clearRecursive` on all values it has reached.
`Sanitizers` takes out of a service what the configuration and its labels ask
for, and says in its second half what that is.

In `Redaction` the slices of the four groups lie in a `heap`; `cache`, `data`
(the `SwarmData` being assembled) and `lastPublished` say where.
`RefreshStructural` and `RefreshTasks` are the two polls: each sees some state of
the swarm (one of `Swarms[cfg]`), sanitizes what it fetches and puts it into slices that `lastPublished`
does not refer to. The slices are new, but not all that is in them: a task that
has stopped is copied into `stoppedTaskCache` (`kept`) and from there into the
slices of later polls, at any index and also when Docker has pruned it, and the
copies share one ContainerSpec. So a leaf below such a pointer has a `cell`, and
the cells that were set to zero (`zeroed`) are empty in every slice that refers
to them, that of `lastPublished` included. When a task is evicted is left open:
`StoppedTasks` has that.

`publish` is taken in steps. For each path, `ClearNothing` is the empty one,
`ClearGroups` one of a single part, which sets fields of `data` to nil and leaves
the cache alone, and `EnterGroups`, `Descend` and `ClearHits` follow a longer one
down and zero what it selects, in memory that `cache` and `lastPublished` may
share. A wildcard that ends on a field that is not exported, as in `time.Time`,
makes reflect panic: `Panic` ends the process and `Restart` begins with nothing
loaded. Then come `PublishNothing` and `Publish`. `reflect.DeepEqual` tells nil
from empty, which leaves do not show, so `Publish` may also repeat what looks the
same. `fetched` and `seen` are history: what the last fetches returned, and of
which swarm. `Covers` says what ought to be missing, without any walk over the
value; embedded structs (`Annotations`, `Meta`, `Network`) are fields, as
reflection sees them, and `JsonWay` is the way to a leaf in the JSON, where they
are flattened.

### Server and Browser

`Server` is `main` as seen from outside, with of hub and inspector only what they
show: the newest snapshot fanned out, and whether a slot is free. `Browser` adds
the tab and the server's side of its one connection. `wire` holds the events the
socket has yet to deliver; every handler of `websocket.js` and `index.html` is an
action that takes the first of them. `timers` is a sequence, so that a second
timer would be seen. `page` is `leaving` from the assignment to
`window.location` until the navigation is through, which may take any of
`NavTimes`, more than the shortest wait before a redial included: the page runs on
in between, dials again, is told again and begins the navigation anew. `filters` is what lies in `localStorage`. The three kinds of
selection behave alike except for the entry `(none)`; `muted` is history: what
the user switched off since it appeared. `MaxFaults` bounds restarts, drops,
swarm changes, expiries and reloads together; taking and freeing slots is not
bounded, nor are retries (attempts saturate where the interval does).

## Runs

| run | instance | shows |
|---|---|---|
| `hub_safety` | 3 connections, cap 2, 3 snapshots, auth on | cap, no missed frame, no rollback, no send on a closed channel, no unauthorized client |
| `hub_live` | 2 connections, cap 2, 3 snapshots, auth on | fan-out never stalls, slots are freed, nothing leaks, the hub implements `SnapshotFeed` |
| `keystore` | 2 validations and the loop, 3 documents | one refresh per validation and period, no stable key lost, convergence after the last rotation |
| `inspector` | 2 changes, 2 orders of the stopped tasks | one refresh, complete, no repeated snapshot; the hub catches up with the swarm |
| `stopped` | 2 tasks of one slot, grace 3 | no duplicate, recent stops shown, none dropped early, all expire |
| `login` | 2 browsers, 2 logins, 2 callbacks at a time, no issuer in discovery | sessions and exchanges belong to own logins, no replay, only an overlap refuses a login, no callback hangs |
| `clocks` | a connection with the code's timings in units of 5 s; a client and a trusted proxy, 2 requests at a time, 3 limiters | a responsive peer stays unless its ping is passed over three times in a row, a silent one goes in time; no peer gets more than its rate, idle entries go, the map implements `TokenBuckets` |
| `redaction` | 1 service, 12 configurations with 3 states of its labels and 2 with 2 tasks that run, stop or are pruned; 2 slices, 3 ContainerSpecs | nothing covered is sent, and but for indices into shared memory nothing else is missing or altered in the published snapshot; labels hide in services |
| `browser` | 1 id, 3 faults, first wait 2 s, limit 6 s | one line, pace of redials and navigations, selections, health, login page reached by a navigation that is fast enough, picture in the end current |

Three runs are expected to fail, each because code and text disagree. Where texts
promise several things, the run asks whether at least one of them is kept: a
history variable (`broken`) collects what was not, so the one behaviour that TLC
finds refutes every line quoted.

`keystore_docs` (`ThrottledOrRotated`), 2 validations and a rotation:

- `jwks.go:67` promises a refresh "only if the last attempt was more than
  jwksRefreshThrottle ago", but the check and the stamp are separate critical
  sections, and every validation that passes the check before the first stamp
  refreshes (`TooSoon`). `OneAttemptEach` is what is left of the throttle.
- `jwks_test.go:215` expects a rotated key "to be picked up via on-demand
  refresh", but a refresh answered earlier can be stored later, and put old keys
  back between an on-demand refresh and its retry (`Missed`). `Converges` shows
  that this does not last.

`keepalive_starved` (`PingsKeepAlive`): "writePump's pings keep a live peer's
deadline fresh" (`handlers.go:175`), unless `select` prefers three snapshots in a
row to the ready ping, each as slow as its deadline allows. `ResponsiveKept` is
what holds otherwise.

`redaction_docs` (`HidesClearsOrKeeps`), 2 tasks, a label that hides a variable,
a path by index and one read off the JSON:

- The labels `hide-envs` and `hide-labels` are to remove values "from the output"
  (`README.md:99`), but `sanitizeTasks` does not look at them, and each task
  carries a copy of the container spec with those values (`HiddenInOutput`).
- "Examine the JSON output and find and specify the path to remove"
  (`README.md:101`), but a path through an embedded struct, such as
  `services.*.Spec.Labels` or `networks.*.Name`, finds no field and clears nothing
  (`JsonPathsClear`).
- Re-applying the paths "leaves that snapshot's bytes unchanged"
  (`inspect.go:111`), unless a path names the index of a task and a cached stopped
  task has moved there: its ContainerSpec is the one the published snapshot has
  (`PublishedUntouched`). `PublishedKept` is what holds with wildcards. What was
  sent is not altered by it, only what the next snapshot is compared with.

### Bounds

Three connections and a cap of two are the least with which a handler can pass
`atCapacity`, lose its place and be refused while two others are registered;
three snapshots put one in the socket, one in `writePump` and one in `send`,
with a fan-out under way. Three documents give a rotation over an unusable
one; timeout < throttle < interval keeps the order of the real 10 s, 60 s and
3600 s, and a request may take a tick of the clock. The two changes of the swarm concern two groups each and
change nothing to see in the others; two orders of the stopped tasks let an unchanged
swarm look changed. Two tasks of one slot give
an older and a newer stop; tasks of different slots do not affect each other,
and the proofs are for any number. Two logins and two callbacks are a second
tab's login during the first one's callback, or a login elsewhere; without an
issuer one more kind of token is accepted. Three limiters are one more than
there are addresses, so a deleted one may still be held while another takes its
place; an idle time one unit more than refill and delay leaves the clean-up just room. The
keepalive has the real proportions of 30, 60 and 5 s, which leave a margin of two
slow snapshots, and no bound on the choices of `select`. Connection and limiter
share no state, and what `clocks` checks of them is safety, so in each of its
behaviours one moves while the other rests (`MCClocks`). The paths of `redaction`
are the default ones (with three settings of the flags), three into services and
two into tasks, two at a time in either order, by tag, Go name, index, key and
wildcard, one inside another, an empty one, and one that panics; two slices are
the published one and a new one. With the other two configurations one task runs
and the other has stopped, then the first stops as well, so indices shift; three
ContainerSpecs are one in the published slice, one in the cache and a new one. One id shows all an id can do to a
selection, since ids do not affect each other (the proof is for any sets; two
ids with two faults passed as well); three faults are a restart, a swarm change
and a lost connection or cookie in one behaviour; navigations of one and three
seconds are faster and slower than the first redial. `hub_live` has as many slots
as connections, so the refusal after the upgrade is fired by `hub_safety` only.
Ages and intervals are relative, so clocks
run on without bound. Symmetry is used in `hub_safety` (connections), `clocks`
(identities of limiters) and the runs of `Redaction` (places in memory), which
check no liveness.

### Fairness

`Hub`: goroutines that can run do run; unregistering is strongly fair because
a `sync.Mutex` hands itself to a waiter that starves; a read on a dead peer
fails in the end because `handleConnections` sets a read deadline that only a
pong extends. Publishing and connecting are not fair. `KeyStore`: time passes,
goroutines run, and an identity provider the loop asks again and again answers
some time. `Inspector`: both tickers fire, `select` chooses at random among the
ready ones, so both receives are strongly fair; `Fresh` assumes in its
statement that Docker answers whole rounds again and again. `StoppedTasks`:
time passes and the inspector polls. `LoginFlow`: the handler runs, the
context's 10 s end the exchange and the answer arrives or is lost; the identity
provider need not answer. `Browser`: the page's event loop, the network, the server's goroutines
and the clock run on; user, orchestrator, restarts and faults are not fair, and
`CatchesUp` says in its premise that the server is up, has a slot free and takes
the cookie from some time on; that Docker goes on answering the inspector is in
the fairness of `FanOut`. `LoginReached` asks nothing of the login page but that
one navigation is faster than the redial (`InTime`). `RateLimiter`,
`Keepalive` and `Redaction` state safety only; in the first two time does not
pass what is due.

## Proofs

Safety is proved by invariance, and the types of the variables are part of
every invariant: an inductive invariant `IInv`, that `Init` implies
it, that each action keeps it, and that it implies the property.

- `HubProofs`. `UpToDate` and `InOrder` are inductive only together with
  `Registry` (which goroutines of a connection can be where, and that a
  registered client's channel is open), `FanOut` (the clients still to be
  served are registered; no one else is in a critical section meanwhile; a
  drained buffer stays empty until the retry, because only the broadcaster
  fills it), `Counting` (frames leave the channel in order) and `Behind` (a
  client still to be served has only older frames, so the new one is newer).
  `NoSendOnClosed` follows. The cap is a separate induction over the size of a
  finite registry; authorization one over the trail from `validate` on.
  `HubImplementsFeed` proves the safety half of the refinement: `Lock` is the
  feed's `FanOut`, `Register` its `Join`, `PumpWrite` its `Show`, the later of
  `Unregister` and the exit of `writePump` its `Leave`, all else stutters.
- `KeyStoreProofs`. `Throttled`: a validation past the check has made no
  refresh since the store was last stale, and as long as anyone has, the store
  is fresh. `FromDocument`: the keys are always those of one usable document.
- `InspectorProofs`. `CallsInOrder` and `LoadedTogether` carry the order of
  the calls of one refresh into the cache; `LastIsSent` and completeness of
  snapshots go along. `ToSendIsNew` carries the comparison of `publish` over
  marshalling to the blocking send, for `NoRepeat`.
- The second half of `InspectorProofs` is about the stopped tasks (`TasksIInv`).
  `AgesOrdered` (`UpdatedAt` is not before the stop,
  `firstSeen` neither) makes a recent stop unexpired; `ShownIsDone` keeps what
  is shown out of the running tasks. `RecentStopShown` and `NoEarlyDrop` are
  action properties.
- `LoginFlowProofs`. `CookiesOwn` (flow cookies are of the browser's own,
  unanswered logins) goes into each request when it is sent and stays in
  `RequestsOK`, which also remembers the checks it has passed; with `Undisturbed`
  (a login nothing touched still has both cookies) the four safety properties
  follow. `SlotStep` and `JarStep` prove once what a step on a request, and one
  on a jar, preserves.
- `RateLimiterProofs`. `Refilled` bounds the tokens of an entry from below by its
  age, so that one idle long enough to be deleted is full: this is where
  `Full + Delay <= IdleAfter` is used (60 s and the handler's delay against 10
  minutes). `AllHeldOK` says that a limiter held by a handler is the one in the
  map, `Apart` that no two addresses share one; then each step maps to a step of
  `TokenBuckets` or a stutter. `Accounted` relates what a peer was granted to the
  level of its bucket, and `CleanupDue` the age of an entry to the next clean-up.
- `KeepaliveProofs`. `PongAhead`: somewhere on the way from the ticker through
  `writePump` and the peer and back there is a pong that arrives before the read
  deadline, in each place of `writePump`, unless `select` has starved the ping;
  this is where `PingPeriod + Margin * WriteTimeout + 2 * WriteTimeout + RoundTrip
  < PongWait` is used. It says which `Margin` goes with the timings, and bounds
  nothing that the code does. `Silence` bounds the silence by the deadline and the pongs still in
  flight.
- `BrowserProofs`. `LineInv`: a page with a socket has no timer, one without has
  exactly one, and a close event comes last and only on a line that has ended.
  `PaceInv`: what a timer has waited and has still to wait is the interval of its
  attempt, which is at least twice the wait before; `IntervalBounds` and
  `IntervalDoubles` are the lemmas on the back-off. `ViewInv`: the selected ids
  are the known ones less the muted, and what is shown is known. `ReadyInv`: a
  frame that waits or was sent comes from a process that is ready.

Of the tab there is one more result than the runs check. `NothingMissed`: while
the server serves it, the newest snapshot in its buffer, on the wire or on the
page is the one last fanned out. `WireInv` is what makes it inductive (nothing
is sent on a line before it is served, and what was sent ends the wire until
the page has it). `DrainedIsCurrent` follows, which says that the state
`CatchesUp` ends in is right. `NavigationPaceHolds` is about the way to the login
page, for navigations of any length: a page that waits for it is told to log in
again only after two seconds without a connection. `RefusedInv` says that a
refused connection has nothing but its end behind the 401, and `AskedInv` that a
page which leaves has no line, or one that is ending, or has waited its two
seconds; `PaceInv` gives the wait. TLC confirmed these invariants on the instance
of `browser`.

`RedactionProofs` is about what is sent of the Docker data, for any
configuration, any swarms and any history of polls. `CacheInv` relates the
cached slices to what was fetched: nothing is in them that was not, and nothing
is missing that no path covers, in tasks if `ByWildcard` (no path goes into a
ContainerSpec by the index of a task). `DataInv` says that a field of `data` is the
cached slice or nil, and nil only if a path covers the group. `ClearedInv`: the
paths before `item` are through, so what they cover is gone from `data`.
`WalkInv`: the leaves reached are those of `data` that the parts consumed so far
select. `SentInv`: what `lastPublished` refers to is what was sent, and nothing
of that is covered, so clearing a shared slice again finds nothing to clear.
Shared ContainerSpecs need two more. `ShapeInv`: the way to a leaf of a task is
its index and the way to its cell, whichever slice it is in (`TasksShaped`, from
the trees of tasks). `ZeroedInv`: what is zero in a shared ContainerSpec is
covered at every index, because a path that goes through the wildcard covers a
cell at all indices or at none (`SameCell`). Hence `ClearsExactlyHolds` and
`PublishedKeptHolds`; what `ByWildcard` leaves out is a finding of
`redaction_docs`. They assume
`Readable`: `splitPath` returns the parts that each path is meant to have.
`WrittenAreReadable` proves that for every path written as `README.md:101` says,
from `PathsAsWritten`: reading what `Write` has written gives the parts back,
for any number of parts of any length, dots in them included. This is an
induction over both loops. The induction theorems of the library take an
operator, which the provers cannot instantiate; `SetInduction` derives the same
from the least element of a set of numbers (`WFMin`), and the recursive
functions are shown to exist by it (`LoopExists`, `TextExists`).

The sanitizers are pure, and proved for any text. `NonInterference`: two
services that differ only in what is to be hidden (`LooksTheSame`,
`HideTheSame`) are equal once sanitized, so nothing that is sent depends on it.
`NothingElseHidden`: to somebody who may not see what is hidden, the sanitized
service is the service. `SentNonInterference` takes the first to the end: what
is sent of the services would be the same, had the swarm been another that
differs only in what is to be hidden. `HiddenInServicesHolds` states the
property of the run, in terms of words: it needs `SecretsStandOut`, that a
hidden word is not written openly elsewhere in the same service, where nobody
asks to hide it. TLC evaluates these hypotheses on the instance
(`MCRedactionAssumption`). That tasks are not sanitized this way is a finding
of `redaction_docs`.

### Progress

The proof system has a decision procedure for propositional temporal logic, but
knows nothing of `ENABLED` and has no induction on temporal formulas. So each
liveness theorem has the form `FairSpec /\ []CanRun => Property`, where
`CanRun` is a state predicate of the component's module that says which steps
are possible where (`GoroutinesCanRun`, `RefreshesCanRun`, `MarshalCanRun`,
`ClockCanRun`, `HandlersCanRun`, `NavigationCanRun`): a goroutine that waits for nothing can take
its next step. It can be read off the actions, and TLC confirms it as an
invariant of the instances of the runs. Quantified fairness is named
(`ConnFairness(c)`, `CallFairness(c)`, `RefreshFairness(p)`) so that the provers
can pick one instance.

- `NoLeakThm`. `TornDown` (a connection without a handler is closed or its
  channel is) is invariant; after that only `writePump` touches the connection
  (`LeftAlone`) and each of its steps gets closer to the end (`LeftPump`).
- `SlotFreedThm` and `FrameFannedOutThm` assume besides that `h.mu` is free again
  and again (`[]<>MuFree`). Why it is: `LockHeldBriefly`, each step of the fan-out
  in its critical section leaves less work there and nobody adds to it, and
  `LockReleased`, from `n` units of work it gets to fewer or lets go. Chaining
  that over all `n` is the induction the prover does not have; TLC checks
  `[]<>MuFree` with the properties, since neither holds without it.
- `HubDelivers` proves the whole of `FeedSpec`, `Delivery` included, from
  `<>[]Quiet`: publications end, being `MaxFrames` at most, and the fan-out comes
  to rest. `OwedCases` lists where a viewer can be that has yet to get a
  snapshot; `ViewerStep` is the graph of its moves, which has no cycle; every
  edge is driven by the fairness of one goroutine, and a viewer whose handler is
  gone leaves by `LeftEnds`. With `HubImplementsFeed` this is the refinement.
- `FreshThm` has the rest state as a hypothesis (`<>[](world = w)`; the changes of
  a swarm are bounded in the model). A refresh begun then carries only `w`
  (`RestRound`), `publish` compares with what was sent, so it either sends `w` or
  has sent it (`RestPublish`), and from then on stays there (`RestStep`).
- `ConvergesThm` has the last rotation (`<>[](idp = d)`), the ticker's ticks
  (`[]<>due`) and the end of late replies as hypotheses. `LateReplyStored` proves
  the last of these for each goroutine; that they all hold from one time on needs
  the number of goroutines to be finite, by induction again. Then the loop asks
  again and again, is answered in the end (strong fairness of `Respond(Loop)`)
  and stores the current keys, which every later store keeps.
- `AnsweredThm`: each step of a callback's handler leads on to the answer, and no
  other browser or callback moves it back.
- `AgesOut` is one unit of `Expires`: a stopped task of age `k` in the view gets
  older or leaves, and at the grace period it leaves. Polls, updates and pruning
  never make it younger.
- `NavigationAdvances` is one tick of `LoginReached`: a page that is in time
  (`InTime`: its navigation is faster than its next dial), `k` ticks before the
  end, gets to `k - 1` and stays in time, and at zero it is gone, once it has
  handled the last events of its socket (`LeavingStep`). Slower navigations are
  not excluded; nothing is promised of them.

The assumptions are the named ones of each module: `Conns` is finite, bounds
are numbers, the first JWKS document has a usable key (the server does not
start otherwise), contents are positive numbers, intervals are positive, the
inequalities between the timings just named, and that a configuration has as many
paths as it has lists of parts and hides only fields that can be hidden. `PowersOfTwo` states two facts of arithmetic on
`2^n` that the provers lack; TLC evaluates it.

Only model-checked: the `CanRun` predicates; the temporal inductions just named,
which turn `LockReleased` into `[]<>MuFree`, `AgesOut` into `Expires`,
`NavigationAdvances` into `LoginReached` and `LateReplyStored` into a statement on
all goroutines (`SetInduction` does not help there: the set of the numbers for
which a temporal formula holds is not a set the provers can form); and
`CatchesUp`, which drains a wire of any length.

## Observations

Met while modelling; none of them breaks a property above.

- With two stopped tasks in the view, their order comes from a map range
  (`inspect.go:306`) and `reflect.DeepEqual` sees a change where there is none:
  an unchanged swarm is published again on about every other poll, although
  `inspect.go:102` says a snapshot is published "whenever it changes".
- `inspect.go:269` says "Only cache tasks that stopped recently", but the test is
  on `UpdatedAt`, which later updates move: a task evicted long ago can come back
  for a grace period.
- `handlers.go:88-92` says "any frame" extends the read deadline; only the pong
  handler does (`handlers.go:179`). Browsers send nothing but pongs.
- With `HIDE_LABELS=service` or `all` the service's labels are dropped before
  `hide-envs` is read (`inspect.go:344`, `352`), so its values stay.
- A path that ends in a wildcard over a struct with unexported fields, such as
  `nodes.*.Meta.CreatedAt.*` over `time.Time`, panics in
  `utils.go:40`; nothing recovers, so the process ends, and again after each
  restart.
- `websocket.js` resets its back-off in `onopen`, before the server has validated
  the token. A page that was told to log in dials again after two seconds, is told
  again, and starts the navigation anew: as long as the login page takes longer than
  that it is not reached. The run has such navigations; `LoginReached` promises the
  end of one that is faster, and `NavigationPace` that each has two seconds.
- The first snapshot selects all networks but not the entry `(none)`, so tasks
  without a network are hidden until the user asks for them.
- Two tabs share `localStorage`. When both write at once each takes over the
  other's value, and a tab that is a snapshot behind prunes ids the other just
  learnt; `SelectionKept` is a property of one tab.
- A server that vanishes without closing leaves the page connected to nothing:
  the page has no timer for silence. `CatchesUp` assumes the loss is noticed.
- `beforeDestroy` is a hook of Vue 2; the page uses Vue 3 and never runs it.
- `Server.Shutdown` does not know the hijacked WebSockets: they end with the
  process, and clients see a broken connection.

## Not modelled

- Several tabs on one `localStorage`: how values travel between them is VueUse's
  doing, which is not in the repository.
- Of the login flow, discovery (`fetchWellKnownOIDCConfig`, once, before the
  server listens) and a bearer header in place of the cookie.
- `Inspector` composed with `Hub` in one module. `Inspector` has the hub's
  channel and its receiver (`Consume`), `Hub` has the publisher, and both meet at
  a channel of capacity 1; `Fresh` and the feed's `Delivery` compose to the
  end-to-end statement that `CatchesUp` checks with both reduced to what they
  show.
- Reading the configuration (environment and files, once), what is only drawn
  (`details.js`, `task.js`, `node.js`, `utils.js`, sorting and filtering in
  `index.html`), and build and deployment files: no state to speak of, or no
  program logic.
