-------------------------------- MODULE Hub --------------------------------
(***************************************************************************)
(* The WebSocket hub of internal/docker/handlers.go: the registry of       *)
(* connected clients, the goroutine that fans snapshots out to them, and   *)
(* the two goroutines each client has (the HTTP handler, which reads, and  *)
(* writePump, which writes).                                               *)
(*                                                                         *)
(* A snapshot is its publication number; 0 stands for nil and for an empty *)
(* channel.  Both channels have capacity 1, so a channel is one number.    *)
(* h.mu is held across several steps only by runBroadcasts: every other    *)
(* critical section is one step, enabled while that goroutine is not in    *)
(* its own.  An element of Conns names a connection until both of its      *)
(* goroutines have ended, and then a later one.                            *)
(***************************************************************************)
EXTENDS Integers, FiniteSets

CONSTANTS Conns,        \* names of connections
          MaxClients,   \* h.maxClients; 0 or less means unlimited
          AuthEnabled,  \* cfg.AuthEnabled
          MaxFrames     \* bound: how many snapshots are published

ASSUME HubAssumption ==
    /\ IsFiniteSet(Conns)
    /\ MaxClients \in Int
    /\ AuthEnabled \in BOOLEAN
    /\ MaxFrames \in Nat

VARIABLES
    published,   \* number of the last snapshot handed to Publish
    broadcast,   \* h.broadcast
    clients,     \* h.clients
    lastFanned,  \* h.lastFanned
    bpc,         \* where runBroadcasts is
    msg,         \* its loop variable
    todo,        \* clients its inner loop has still to serve
    cur,         \* the clients (one or none) enqueue found with a full buffer
    handler,     \* where each handleConnections call is
    conn,        \* the socket: open, dead (the peer is gone), or closed by us
    authorized,  \* what validate answered
    send,        \* c.send
    closed,      \* whether c.send has been closed
    pump,        \* where each writePump is
    inflight,    \* the frame writePump has taken from send
    written      \* the last frame written to the socket

bvars == <<bpc, msg, todo, cur>>
cvars == <<handler, conn, authorized>>
pvars == <<pump, inflight, written>>
vars == <<published, broadcast, clients, lastFanned, bvars, cvars, send, closed, pvars>>

BPC == {"recv", "lock", "range", "drain", "retry"}
HPC == {"none", "upgrade", "validate", "register", "start", "read", "unregister"}
PPC == {"off", "select", "write", "exited"}

TypeOK ==
    /\ published \in Nat /\ broadcast \in Nat /\ lastFanned \in Nat
    /\ clients \subseteq Conns
    /\ bpc \in BPC /\ msg \in Nat /\ todo \subseteq Conns /\ cur \subseteq Conns
    /\ handler \in [Conns -> HPC]
    /\ conn \in [Conns -> {"open", "dead", "closed"}]
    /\ authorized \in [Conns -> BOOLEAN]
    /\ send \in [Conns -> Nat]
    /\ closed \in [Conns -> BOOLEAN]
    /\ pump \in [Conns -> PPC]
    /\ inflight \in [Conns -> Nat]
    /\ written \in [Conns -> Nat]

Init ==
    /\ published = 0 /\ broadcast = 0 /\ lastFanned = 0
    /\ clients = {}
    /\ bpc = "recv" /\ msg = 0 /\ todo = {} /\ cur = {}
    /\ handler = [c \in Conns |-> "none"]
    /\ conn = [c \in Conns |-> "closed"]
    /\ authorized = [c \in Conns |-> FALSE]
    /\ send = [c \in Conns |-> 0]
    /\ closed = [c \in Conns |-> FALSE]
    /\ pump = [c \in Conns |-> "off"]
    /\ inflight = [c \in Conns |-> 0]
    /\ written = [c \in Conns |-> 0]
-----------------------------------------------------------------------------
(* The inspector's side of the channel, and runBroadcasts.                 *)

\* Publish blocks while the channel holds a frame.
Publish ==
    /\ published < MaxFrames
    /\ broadcast = 0
    /\ broadcast' = published + 1
    /\ published' = published + 1
    /\ UNCHANGED <<clients, lastFanned, bvars, cvars, send, closed, pvars>>

Receive ==
    /\ bpc = "recv" /\ broadcast # 0
    /\ msg' = broadcast
    /\ broadcast' = 0
    /\ bpc' = "lock"
    /\ UNCHANGED <<published, clients, lastFanned, todo, cur, cvars, send, closed, pvars>>

Lock ==
    /\ bpc = "lock"
    /\ lastFanned' = msg
    /\ todo' = clients
    /\ bpc' = "range"
    /\ UNCHANGED <<published, broadcast, clients, msg, cur, cvars, send, closed, pvars>>

\* enqueue without its drop-the-stale-frame branch.
TrySendBlocks(c) ==
    /\ bpc = "range" /\ c \in todo
    /\ send[c] = 0
    /\ send' = [send EXCEPT ![c] = msg]
    /\ todo' = todo \ {c}
    /\ UNCHANGED <<published, broadcast, clients, lastFanned, bpc, msg, cur, cvars, closed, pvars>>

\* enqueue's first select; the range over the map visits clients in any order.
TrySend(c) ==
    /\ bpc = "range" /\ c \in todo
    /\ \/ /\ send[c] = 0
          /\ send' = [send EXCEPT ![c] = msg]
          /\ todo' = todo \ {c}
          /\ UNCHANGED <<bpc, cur>>
       \/ /\ send[c] # 0
          /\ cur' = {c}
          /\ bpc' = "drain"
          /\ UNCHANGED <<send, todo>>
    /\ UNCHANGED <<published, broadcast, clients, lastFanned, msg, cvars, closed, pvars>>

KeepStale(c) == send

DropStale(c) == [send EXCEPT ![c] = 0]

\* enqueue's second select: writePump may have emptied the buffer meanwhile.
Drain(c) ==
    /\ bpc = "drain" /\ c \in cur
    /\ send' = DropStale(c)
    /\ bpc' = "retry"
    /\ UNCHANGED <<published, broadcast, clients, lastFanned, msg, todo, cur, cvars, closed, pvars>>

\* enqueue's third select: a buffer that is still full loses the new frame.
Retry(c) ==
    /\ bpc = "retry" /\ c \in cur
    /\ send' = [send EXCEPT ![c] = IF @ = 0 THEN msg ELSE @]
    /\ todo' = todo \ {c}
    /\ cur' = {}
    /\ bpc' = "range"
    /\ UNCHANGED <<published, broadcast, clients, lastFanned, msg, cvars, closed, pvars>>

Unlock ==
    /\ bpc = "range" /\ todo = {}
    /\ bpc' = "recv"
    /\ UNCHANGED <<published, broadcast, clients, lastFanned, msg, todo, cur, cvars, send, closed, pvars>>

RunBroadcasts ==
    Receive \/ Lock \/ Unlock \/ \E c \in Conns : TrySend(c) \/ Drain(c) \/ Retry(c)
-----------------------------------------------------------------------------
(* handleConnections, one call per connection.                             *)

NoLock == TRUE

\* h.mu is free: runBroadcasts is outside its critical section.
MuFree == bpc \in {"recv", "lock"}

FullOffByOne == MaxClients > 0 /\ Cardinality(clients) > MaxClients

\* The test of atCapacity and of register.
Full == MaxClients > 0 /\ Cardinality(clients) >= MaxClients

\* Entry and the best-effort capacity check: 503 when full.
Connect(c) ==
    /\ handler[c] = "none" /\ pump[c] \in {"off", "exited"}
    /\ MaxClients > 0 => MuFree
    /\ ~Full
    /\ handler' = [handler EXCEPT ![c] = "upgrade"]
    /\ authorized' = [authorized EXCEPT ![c] = FALSE]
    /\ send' = [send EXCEPT ![c] = 0]
    /\ closed' = [closed EXCEPT ![c] = FALSE]
    /\ pump' = [pump EXCEPT ![c] = "off"]
    /\ inflight' = [inflight EXCEPT ![c] = 0]
    /\ written' = [written EXCEPT ![c] = 0]
    /\ UNCHANGED <<published, broadcast, clients, lastFanned, bvars, conn>>

UpgradeFails(c) ==
    /\ handler[c] = "upgrade"
    /\ handler' = [handler EXCEPT ![c] = "none"]
    /\ UNCHANGED <<published, broadcast, clients, lastFanned, bvars, conn, authorized, send, closed, pvars>>

Upgrade(c) ==
    /\ handler[c] = "upgrade"
    /\ conn' = [conn EXCEPT ![c] = "open"]
    /\ handler' = [handler EXCEPT ![c] = IF AuthEnabled THEN "validate" ELSE "register"]
    /\ UNCHANGED <<published, broadcast, clients, lastFanned, bvars, authorized, send, closed, pvars>>

ValidateLogsOnly(c) ==
    /\ handler[c] = "validate"
    /\ \E ok \in BOOLEAN : authorized' = [authorized EXCEPT ![c] = ok]
    /\ handler' = [handler EXCEPT ![c] = "register"]
    /\ UNCHANGED <<published, broadcast, clients, lastFanned, bvars, conn, send, closed, pvars>>

\* A token that is not accepted gets the in-band 401 and the socket is closed.
Validate(c) ==
    /\ handler[c] = "validate"
    /\ \E ok \in BOOLEAN :
        /\ authorized' = [authorized EXCEPT ![c] = ok]
        /\ handler' = [handler EXCEPT ![c] = IF ok THEN "register" ELSE "none"]
        /\ conn' = [conn EXCEPT ![c] = IF ok THEN @ ELSE "closed"]
    /\ UNCHANGED <<published, broadcast, clients, lastFanned, bvars, send, closed, pvars>>

\* register refuses: capacity was reached since the first check.
RegisterRefused(c) ==
    /\ handler[c] = "register" /\ MuFree
    /\ Full
    /\ conn' = [conn EXCEPT ![c] = "closed"]
    /\ handler' = [handler EXCEPT ![c] = "none"]
    /\ UNCHANGED <<published, broadcast, clients, lastFanned, bvars, authorized, send, closed, pvars>>

SeedNewest == published

Seed == lastFanned

\* register: into the map and seeded with lastFanned (nothing when nil).
Register(c) ==
    /\ handler[c] = "register" /\ MuFree
    /\ ~Full
    /\ clients' = clients \cup {c}
    /\ send' = [send EXCEPT ![c] = Seed]
    /\ handler' = [handler EXCEPT ![c] = "start"]
    /\ UNCHANGED <<published, broadcast, lastFanned, bvars, conn, authorized, closed, pvars>>

\* go c.writePump(), then the read deadline and the read loop.
Start(c) ==
    /\ handler[c] = "start"
    /\ handler' = [handler EXCEPT ![c] = "read"]
    /\ pump' = [pump EXCEPT ![c] = "select"]
    /\ UNCHANGED <<published, broadcast, clients, lastFanned, bvars, conn, authorized, send, closed, inflight, written>>

ReadErrorNoDeadline(c) == conn[c] = "closed"

\* We closed the socket, or the peer closed it, or its read deadline passed.
ReadError(c) == conn[c] # "open"

\* ReadMessage returns an error: the loop ends.
ReadFails(c) ==
    /\ handler[c] = "read"
    /\ ReadError(c)
    /\ handler' = [handler EXCEPT ![c] = "unregister"]
    /\ UNCHANGED <<published, broadcast, clients, lastFanned, bvars, conn, authorized, send, closed, pvars>>

KeepSendOpen(c) == closed

CloseSend(c) == [closed EXCEPT ![c] = TRUE]

Unregister(c) ==
    /\ handler[c] = "unregister" /\ MuFree
    /\ clients' = clients \ {c}
    /\ closed' = IF c \in clients THEN CloseSend(c) ELSE closed
    /\ handler' = [handler EXCEPT ![c] = "none"]
    /\ UNCHANGED <<published, broadcast, lastFanned, bvars, conn, authorized, send, pvars>>
-----------------------------------------------------------------------------
(* writePump.  A ping that succeeds changes nothing here.                  *)

PumpTake(c) ==
    /\ pump[c] = "select" /\ send[c] # 0
    /\ inflight' = [inflight EXCEPT ![c] = send[c]]
    /\ send' = [send EXCEPT ![c] = 0]
    /\ pump' = [pump EXCEPT ![c] = "write"]
    /\ UNCHANGED <<published, broadcast, clients, lastFanned, bvars, cvars, closed, written>>

PumpWrite(c) ==
    /\ pump[c] = "write"
    /\ written' = [written EXCEPT ![c] = inflight[c]]
    /\ inflight' = [inflight EXCEPT ![c] = 0]
    /\ pump' = [pump EXCEPT ![c] = "select"]
    /\ UNCHANGED <<published, broadcast, clients, lastFanned, bvars, cvars, send, closed>>

\* Close the socket and return; the reader will notice and unregister.
PumpExit(c) ==
    /\ conn' = [conn EXCEPT ![c] = "closed"]
    /\ inflight' = [inflight EXCEPT ![c] = 0]
    /\ pump' = [pump EXCEPT ![c] = "exited"]
    /\ UNCHANGED <<published, broadcast, clients, lastFanned, bvars, handler, authorized, send, closed, written>>

\* A write fails on a dead peer, or exceeds its deadline on a slow one.
PumpWriteFails(c) == pump[c] = "write" /\ PumpExit(c)

PumpPingFails(c) == pump[c] = "select" /\ PumpExit(c)

\* A closed channel still yields the frame it holds before it reports !ok.
PumpClosed(c) == pump[c] = "select" /\ closed[c] /\ send[c] = 0 /\ PumpExit(c)

WritePump(c) == PumpTake(c) \/ PumpWrite(c) \/ PumpWriteFails(c) \/ PumpClosed(c)
-----------------------------------------------------------------------------
\* The peer closes, or vanishes silently: it answers no more.
PeerLeaves(c) ==
    /\ conn[c] = "open"
    /\ conn' = [conn EXCEPT ![c] = "dead"]
    /\ UNCHANGED <<published, broadcast, clients, lastFanned, bvars, handler, authorized, send, closed, pvars>>

HandleConnections(c) ==
    \/ Connect(c) \/ UpgradeFails(c) \/ Upgrade(c) \/ Validate(c)
    \/ RegisterRefused(c) \/ Register(c) \/ Start(c) \/ ReadFails(c) \/ Unregister(c)

Next ==
    \/ Publish
    \/ RunBroadcasts
    \/ \E c \in Conns :
        HandleConnections(c) \/ WritePump(c) \/ PumpPingFails(c) \/ PeerLeaves(c)

Spec == Init /\ [][Next]_vars

(* Goroutines that can run do run; a goroutine waiting for h.mu gets it     *)
(* although runBroadcasts takes it again and again (sync.Mutex hands the    *)
(* lock over to a starving waiter); a read on a dead peer fails in the end  *)
(* (read deadline).  Nothing is assumed of browsers, nor of the inspector.  *)
ConnFairness(c) ==
    /\ WF_vars(Start(c)) /\ WF_vars(ReadFails(c)) /\ SF_vars(Unregister(c))
    /\ WF_vars(WritePump(c))

FanOutFairness == WF_vars(RunBroadcasts)

Fairness == FanOutFairness /\ \A c \in Conns : ConnFairness(c)

FairSpec == Spec /\ Fairness

\* A goroutine that waits for nothing can take its next step: what the proofs of
\* liveness have to know of ENABLED, which the proof system cannot compute.
GoroutinesCanRun ==
    /\ bpc # "recv" \/ broadcast # 0 => ENABLED <<RunBroadcasts>>_vars
    /\ \A c \in Conns :
        /\ handler[c] = "start" => ENABLED <<Start(c)>>_vars
        /\ handler[c] = "read" /\ ReadError(c) => ENABLED <<ReadFails(c)>>_vars
        /\ handler[c] = "unregister" /\ MuFree => ENABLED <<Unregister(c)>>_vars
        /\ pump[c] = "write" \/ (pump[c] = "select" /\ (send[c] # 0 \/ closed[c]))
             => ENABLED <<WritePump(c)>>_vars
-----------------------------------------------------------------------------
(* Safety.                                                                 *)

\* maxClients bounds the registry although the check before the upgrade is
\* stale by the time register runs, and any number of handlers race to it.
CapRespected == MaxClients > 0 => Cardinality(clients) <= MaxClients

\* The newest frame on its way to, or already at, the peer of c.
Newest(c) == IF send[c] # 0 THEN send[c] ELSE IF inflight[c] # 0 THEN inflight[c] ELSE written[c]

\* No registered client misses a snapshot: whenever the fan-out is done with a
\* client, the newest thing its buffer, its writePump or its socket holds is
\* the frame last fanned out, however enqueue's three selects interleave with
\* writePump's receive and registrations with broadcasts.
UpToDate ==
    \A c \in clients \ todo : pump[c] # "exited" => Newest(c) = lastFanned

\* A client never rolls back: what waits in send is newer than what writePump
\* holds, which is newer than what the peer has, and none of it is ahead of
\* the frame last fanned out (the reason register seeds lastFanned).
InOrder ==
    \A c \in Conns :
        /\ send[c] # 0 => inflight[c] < send[c] /\ written[c] < send[c]
        /\ inflight[c] # 0 => written[c] < inflight[c]
        /\ send[c] <= lastFanned /\ inflight[c] <= lastFanned /\ written[c] <= lastFanned

\* The fan-out never sends on a channel unregister has closed (a panic).
NoSendOnClosed == \A c \in todo : ~closed[c]

\* With authentication on, no snapshot reaches a peer whose token validate
\* has not accepted, nor does such a peer take a slot.
OnlyAuthorized ==
    AuthEnabled => \A c \in Conns : c \in clients \/ written[c] # 0 => authorized[c]
-----------------------------------------------------------------------------
(* Liveness.                                                               *)

\* No client, slow, dead or half torn down, holds up the fan-out: every
\* published snapshot becomes lastFanned.
FrameFannedOut == \A f \in 1..MaxFrames : (published >= f) ~> (lastFanned >= f)

\* A registered client whose socket is dead or closed frees its slot.
SlotFreed == \A c \in Conns : (c \in clients /\ conn[c] # "open") ~> (c \notin clients)

\* Once a handler has returned, nothing of its connection is left: the socket
\* is closed and no writePump goroutine waits on it.
NoLeak ==
    \A c \in Conns :
        (handler[c] = "none") ~> (conn[c] = "closed" /\ pump[c] \in {"off", "exited"})
-----------------------------------------------------------------------------
(* The hub implements the abstract feed.                                   *)

\* A connection is being served from its registration until both of its
\* goroutines are done with it.
Serving == {c \in Conns : handler[c] \in {"start", "read", "unregister"} \/ pump[c] \in {"select", "write"}}

Shown == [c \in Conns |-> IF c \in Serving THEN written[c] ELSE 0]

Feed == INSTANCE SnapshotFeed
            WITH Viewers <- Conns, latest <- lastFanned, open <- Serving, view <- Shown

\* Seen from outside, the hub is a feed in which every viewer's picture moves
\* only forward, through fanned-out snapshots, and catches up with each one.
FeedSpec == Feed!Spec
=============================================================================

