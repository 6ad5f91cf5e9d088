----------------------------- MODULE Keepalive -----------------------------
(***************************************************************************)
(* The clocks of one registered WebSocket connection                       *)
(* (internal/docker/handlers.go): the read loop of handleConnections with  *)
(* its deadline, and writePump, which sends snapshots and pings in turn,   *)
(* each write with a deadline of its own.                                  *)
(*                                                                         *)
(* Time elapses only when nothing is due: both goroutines are              *)
(* taken to run at once.  A responsive peer takes every write within the   *)
(* write deadline and answers a ping within RoundTrip.  A silent one never *)
(* answers; what is written to it may fill a buffer or run into the        *)
(* deadline.                                                               *)
(***************************************************************************)
EXTENDS Integers

CONSTANTS
    PingPeriod, PongWait, WriteTimeout,   \* 30, 60 and 5 s in the code
    RoundTrip,                            \* of a responsive peer
    Margin   \* how many slow snapshots ahead of a ping the timings leave room for

\* The room that a pingPeriod shorter than pongWait (handlers.go:90-91) leaves.
\* This says which Margin goes with the timings; select is free to exceed it.
ASSUME KeepaliveAssumption ==
    /\ PingPeriod \in Nat \ {0} /\ PongWait \in Nat /\ WriteTimeout \in Nat
    /\ RoundTrip \in Nat /\ Margin \in Nat
    /\ PingPeriod + Margin * WriteTimeout + 2 * WriteTimeout + RoundTrip < PongWait

VARIABLES
    registered, \* the read loop runs and the client holds its slot
    deadline,   \* time left to the read deadline
    ticker,     \* time left to the next tick
    ticked,     \* ticker.C holds a tick
    send,       \* the send channel holds a snapshot; it is closed iff ~registered
    pushed,     \* the hub has sent a snapshot in this unit of time
    pump,       \* what writePump does
    left,       \* time left to the deadline of the write
    skips,      \* how often the tick in ticker.C was passed over, up to Margin
    starved,    \* history: it was passed over more often since the last pong
    flight,     \* ages of the pings that a pong may still answer
    peer,       \* what the peer does
    silentFor   \* history: how long it has been silent

keepaliveVars == <<registered, deadline, ticker, ticked, send, pushed, pump, left, skips,
                   starved, flight, peer, silentFor>>

Writing == {"frame", "ping", "close"}
MaxSilence == PongWait + RoundTrip + 1

KeepaliveTypeOK ==
    /\ registered \in BOOLEAN /\ ticked \in BOOLEAN /\ send \in BOOLEAN /\ pushed \in BOOLEAN
    /\ starved \in BOOLEAN
    /\ deadline \in 0..PongWait /\ ticker \in 0..PingPeriod
    /\ pump \in Writing \cup {"select", "done"}
    /\ left \in 0..WriteTimeout /\ skips \in 0..Margin
    /\ flight \subseteq 0..RoundTrip
    /\ peer \in {"responsive", "silent", "closed"}
    /\ silentFor \in 0..MaxSilence

\* register, go writePump and SetReadDeadline, one right after the other.
KeepaliveInit ==
    /\ registered = TRUE /\ deadline = PongWait
    /\ ticker = PingPeriod /\ ticked = FALSE
    /\ send \in BOOLEAN /\ pushed = FALSE
    /\ pump = "select" /\ left = 0 /\ skips = 0 /\ starved = FALSE
    /\ flight = {} /\ peer = "responsive" /\ silentFor = 0
-----------------------------------------------------------------------------
\* The hub puts a snapshot in the channel, over an older one if need be.  The
\* inspector publishes at most once per unit of time.
Push ==
    /\ registered /\ ~pushed
    /\ send' = TRUE /\ pushed' = TRUE
    /\ UNCHANGED <<registered, deadline, ticker, ticked, pump, left, skips, starved, flight, peer, silentFor>>

\* time.Ticker: a tick is dropped when the last one was not received.
Fire ==
    /\ ticker = 0 /\ pump # "done"
    /\ ticker' = PingPeriod /\ ticked' = TRUE
    /\ UNCHANGED <<registered, deadline, send, pushed, pump, left, skips, starved, flight, peer, silentFor>>

\* select takes a snapshot, although a tick may be ready too: it chooses at
\* random, so it may do so any number of times in a row.
WriteFrame ==
    /\ pump = "select" /\ send
    /\ send' = FALSE
    /\ pump' = "frame" /\ left' = WriteTimeout
    /\ skips' = IF ~ticked THEN 0 ELSE IF skips < Margin THEN skips + 1 ELSE skips
    /\ starved' = (starved \/ (ticked /\ skips = Margin))
    /\ UNCHANGED <<registered, deadline, ticker, ticked, pushed, flight, peer, silentFor>>

WritePing ==
    /\ pump = "select" /\ ticked
    /\ ticked' = FALSE /\ skips' = 0
    /\ pump' = "ping" /\ left' = WriteTimeout
    /\ UNCHANGED <<registered, deadline, ticker, send, pushed, starved, flight, peer, silentFor>>

\* The channel is closed and what it held has been received.
ChannelClosed == ~registered /\ ~send

WriteClose ==
    /\ pump = "select" /\ ChannelClosed
    /\ pump' = "close" /\ left' = WriteTimeout
    /\ UNCHANGED <<registered, deadline, ticker, ticked, send, pushed, skips, starved, flight, peer, silentFor>>

WrittenExtends ==
    /\ pump \in Writing
    /\ pump' = IF pump = "close" THEN "done" ELSE "select"
    /\ left' = 0 /\ deadline' = PongWait
    /\ flight' = IF pump = "ping" /\ peer = "responsive" THEN flight \cup {0} ELSE flight
    /\ UNCHANGED <<registered, ticker, ticked, send, pushed, skips, starved, peer, silentFor>>

\* WriteMessage returns.
Written ==
    /\ pump \in Writing
    /\ pump' = IF pump = "close" THEN "done" ELSE "select"
    /\ left' = 0
    /\ flight' = IF pump = "ping" /\ peer = "responsive" THEN flight \cup {0} ELSE flight
    /\ UNCHANGED <<registered, deadline, ticker, ticked, send, pushed, skips, starved, peer, silentFor>>

\* WriteMessage returns an error, by its deadline or before; the pump closes
\* the connection and returns.
WriteFails ==
    /\ pump \in Writing /\ peer # "responsive"
    /\ pump' = "done" /\ left' = 0
    /\ UNCHANGED <<registered, deadline, ticker, ticked, send, pushed, skips, starved, flight, peer, silentFor>>
-----------------------------------------------------------------------------
PongKeeps == deadline

\* The pong handler's SetReadDeadline.
PongExtends == PongWait

Pong(a) ==
    /\ registered /\ pump # "done" /\ peer # "closed"
    /\ deadline' = PongExtends
    /\ flight' = flight \ {a} /\ starved' = FALSE
    /\ UNCHANGED <<registered, ticker, ticked, send, pushed, pump, left, skips, peer, silentFor>>

\* ReadMessage fails: the deadline is over, or either side has closed the
\* connection.  The read loop ends in unregister, which closes the channel.
ReadFails ==
    /\ registered /\ (deadline = 0 \/ pump = "done" \/ peer = "closed")
    /\ registered' = FALSE
    /\ UNCHANGED <<deadline, ticker, ticked, send, pushed, pump, left, skips, starved, flight, peer, silentFor>>

\* The peer is closed in order, or it vanishes (sleep, a dropped route).
PeerLeaves ==
    /\ peer = "responsive" /\ peer' \in {"silent", "closed"}
    /\ UNCHANGED <<registered, deadline, ticker, ticked, send, pushed, pump, left, skips,
                   starved, flight, silentFor>>

Over ==
    /\ pump = "done" /\ ~registered
    /\ UNCHANGED keepaliveVars

\* Something is to happen before time passes.
Due ==
    \/ pump # "done" /\ ticker = 0
    \/ pump = "select" /\ (send \/ ticked \/ ChannelClosed)
    \/ pump \in Writing /\ left = 0
    \/ registered /\ (deadline = 0 \/ pump = "done" \/ peer = "closed")
    \/ registered /\ peer = "responsive" /\ RoundTrip \in flight
    \/ pump = "done" /\ ~registered

Elapse ==
    /\ ~Due
    /\ deadline' = IF registered THEN deadline - 1 ELSE deadline
    /\ ticker' = ticker - 1
    /\ left' = IF pump \in Writing THEN left - 1 ELSE 0
    /\ flight' = {a + 1 : a \in flight \ {RoundTrip}}
    /\ pushed' = FALSE
    /\ silentFor' = IF peer = "silent" /\ silentFor < MaxSilence THEN silentFor + 1 ELSE silentFor
    /\ UNCHANGED <<registered, ticked, send, pump, skips, starved, peer>>

Pump == WriteFrame \/ WritePing \/ WriteClose \/ Written \/ WriteFails

KeepaliveNext ==
    \/ Push \/ Fire \/ Pump \/ ReadFails \/ PeerLeaves \/ Over \/ Elapse
    \/ \E a \in flight : Pong(a)

KeepaliveSpec == KeepaliveInit /\ [][KeepaliveNext]_keepaliveVars
-----------------------------------------------------------------------------
\* A peer that answers pings and takes snapshots keeps its connection, as long
\* as select has not passed a ready ping over more than Margin times in a row
\* since the last pong, each time for a snapshot as slow as its deadline allows
\* (handlers.go:205-221).
ResponsiveKept ==
    peer = "responsive" /\ ~starved => registered /\ pump \notin {"close", "done"}

\* handlers.go:175: "writePump's pings keep a live peer's deadline fresh."
PingsKeepAlive == peer = "responsive" => registered /\ pump \notin {"close", "done"}

\* A peer that vanished holds its slot against maxClients no longer than
\* the pong wait after the last pong that was under way (handlers.go:174-177).
SilentReaped == registered => silentFor <= PongWait + RoundTrip
=============================================================================
