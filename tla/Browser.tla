------------------------------ MODULE Browser -------------------------------
(***************************************************************************)
(* One browser tab on the application's page, and the server it talks to:  *)
(* websocket.js (dial, event handlers, back-off), the parts of index.html  *)
(* that keep state (updateReceivedData, the selections, the way to the     *)
(* login page), and the server's side of the one connection.  The socket's *)
(* events reach the page in order, each handler runs to its end, and the   *)
(* selections live in localStorage, so they outlast the page.              *)
(***************************************************************************)
EXTENDS Server, Sequences

CONSTANTS Standalone,         \* the entry "(none)" of the networks' list
          Second,             \* the 1000 ms of websocket.js, in ticks of the clock
          MaxInterval,        \* maxReconnectInterval
          MaxAttempts,        \* attempts from here on wait alike: MaxInterval
          NavTimes,           \* ticks that a navigation may take to leave the page
          MaxWire             \* bound: snapshots on their way to the tab

ASSUME BrowserAssumption ==
    /\ Standalone \notin Ids
    /\ Second \in Nat \ {0} /\ MaxInterval \in Nat /\ MaxInterval >= 2 * Second
    /\ MaxAttempts \in Nat /\ Second * 2^MaxAttempts >= MaxInterval
    /\ NavTimes \subseteq Nat /\ NavTimes # {}
    /\ MaxWire \in Nat

\* Arithmetic that the provers have no rules for: what doubling does.
ASSUME PowersOfTwo ==
    \A n \in 0..MaxAttempts : 2^n \in Nat \ {0} /\ 2^(n + 1) = 2 * 2^n

VARIABLES page,       \* "app", "leaving" once it asked for the login page, "away"
          nav,        \* ticks until the navigation is through
          line,       \* "none", "dialling", "upgraded", "served" or "ended"
          wire,       \* events on their way to the tab
          pending,    \* the connection's send buffer on the server
          cookie,     \* whether the server takes the browser's token
          connected, reconnectAttempts,  \* of the WebSocket component
          timers,     \* ticks left of each setTimeout
          shown,      \* ids of the snapshot on the page
          filters,    \* in localStorage: initialized, known ids, selected ids
          muted,      \* history: ids the user switched off since they appeared
          quiet,      \* history: ticks since the last line ended
          waited,     \* history: the wait before the last dial, 0 after an onopen
          sent,       \* history: whether this connection has been sent a snapshot
          fed         \* history: whether this process has sent one to the tab

lineVars == <<line, wire, pending, sent, fed>>
tabVars == <<page, nav, connected, reconnectAttempts, timers, quiet, waited>>
viewVars == <<shown, filters, muted>>
vars == <<serverVars, lineVars, tabVars, viewVars, cookie>>

Min(a, b) == IF a < b THEN a ELSE b

Kinds == {"open", "401", "update", "error", "close"}
Events == [kind : Kinds, ids : Snapshots]
Event(kind) == [kind |-> kind, ids |-> {}]
Update(s) == [kind |-> "update", ids |-> s]

\* What the tab sees of a connection that ends: browsers differ on the error.
Endings == {<<Event("close")>>, <<Event("error"), Event("close")>>}

----------------------------------------------------------------------------
(* websocket.js *)

\* connectWebSocket: a new socket, whatever became of the one before.
Dial ==
    /\ line' = "dialling"
    /\ wire' = <<>>
    /\ pending' = NoFrame
    /\ sent' = FALSE
    /\ UNCHANGED fed

\* mounted(), on a page just loaded: only the selections are from before.
Load ==
    /\ page' = "app" /\ nav' = 0
    /\ connected' = FALSE /\ reconnectAttempts' = 0 /\ timers' = <<>>
    /\ quiet' = 0 /\ waited' = 0
    /\ shown' = {}
    /\ Dial

UncappedInterval(attempts) == Second * 2^attempts

Interval(attempts) == Min(Second * 2^attempts, MaxInterval)

\* reconnectWebSocket
Reconnect ==
    /\ reconnectAttempts' = Min(reconnectAttempts + 1, MaxAttempts)
    /\ timers' = Append(timers, Interval(reconnectAttempts'))
    /\ quiet' = 0

\* The handler of the event that comes next runs, and the event is gone.
Handles(kind) ==
    /\ page # "away"
    /\ wire # <<>>
    /\ Head(wire).kind = kind
    /\ wire' = Tail(wire)

OnOpen ==
    /\ Handles("open")
    /\ connected' = TRUE
    /\ reconnectAttempts' = 0
    /\ waited' = 0
    /\ UNCHANGED <<serverVars, line, pending, sent, fed, page, nav, timers, quiet,
                   viewVars, cookie>>

\* '401-Unauthorized': getAuthorized sets window.location, which begins a
\* navigation, however long it takes, and drops one that is under way; the page
\* runs on till then.
OnUnauthorized ==
    /\ Handles("401")
    /\ page' = "leaving"
    /\ nav' \in NavTimes
    /\ UNCHANGED <<serverVars, line, pending, sent, fed, connected, reconnectAttempts,
                   timers, quiet, waited, viewVars, cookie>>

OnErrorReconnects ==
    /\ Handles("error")
    /\ Reconnect
    /\ UNCHANGED <<serverVars, line, pending, sent, fed, page, nav, connected, waited,
                   viewVars, cookie>>

\* onerror only writes to the console: onclose always follows it.
OnError ==
    /\ Handles("error")
    /\ UNCHANGED <<serverVars, line, pending, sent, fed, tabVars, viewVars, cookie>>

OnCloseRedials ==
    /\ page # "away" /\ wire # <<>> /\ Head(wire).kind = "close"
    /\ connected' = FALSE
    /\ IF connected THEN Dial /\ UNCHANGED <<timers, quiet, reconnectAttempts>>
                    ELSE Reconnect /\ line' = "none" /\ wire' = <<>> /\ UNCHANGED <<pending, sent, fed>>
    /\ UNCHANGED <<serverVars, page, nav, waited, viewVars, cookie>>

OnClose ==
    /\ Handles("close")
    /\ line' = "none"
    /\ connected' = FALSE
    /\ Reconnect
    /\ UNCHANGED <<serverVars, pending, sent, fed, page, nav, waited, viewVars, cookie>>

TimerFires ==
    /\ page # "away"
    /\ timers # <<>> /\ Head(timers) = 0
    /\ timers' = Tail(timers)
    /\ waited' = quiet
    /\ Dial
    /\ UNCHANGED <<serverVars, page, nav, connected, reconnectAttempts, quiet,
                   viewVars, cookie>>

----------------------------------------------------------------------------
(* index.html *)

Filters == [initialized : BOOLEAN, known : Snapshots, selected : SUBSET (Ids \cup {Standalone})]

\* The selections after updateReceivedData has seen a snapshot: all of the first
\* one, later what is new; and nothing that the snapshot lacks.
Selected(f, s) ==
    IF f.initialized THEN (f.selected \cup (s \ f.known)) \cap (s \cup {Standalone}) ELSE s

KnownForever(f, s) == f.known \cup s

Known(f, s) == (f.known \cup s) \cap s

OnUpdate ==
    /\ Handles("update")
    /\ LET s == Head(wire).ids
       IN  /\ shown' = s
           /\ filters' = [initialized |-> TRUE, known |-> Known(filters, s),
                          selected |-> Selected(filters, s)]
           /\ muted' = muted \cap s
    /\ UNCHANGED <<serverVars, line, pending, sent, fed, tabVars, cookie>>

\* The user's part: on and off for some ids.
SwitchOn(ids) ==
    /\ filters' = [filters EXCEPT !.selected = @ \cup ids]
    /\ muted' = muted \ ids
    /\ UNCHANGED <<serverVars, lineVars, tabVars, shown, cookie>>

SwitchOff(ids) ==
    /\ filters' = [filters EXCEPT !.selected = @ \ ids]
    /\ muted' = muted \cup ((filters.selected \cap ids) \ {Standalone})
    /\ UNCHANGED <<serverVars, lineVars, tabVars, shown, cookie>>

\* The networks' list has one entry more than the snapshot.
Entries(kind) == kind \cup (IF kind = Networks THEN {Standalone} ELSE {})

\* selectNetworks, selectNodes, selectServices: 'all' takes the ids on the page,
\* anything else empties the selection, ids that are not on the page included.
Select(kind) ==
    /\ page # "away"
    /\ \/ SwitchOn(Entries(kind) \cap (shown \cup {Standalone}))
       \/ SwitchOff(Entries(kind))

\* One entry of a list, or the services of a stack (toggleStack).
Toggle ==
    /\ page # "away"
    /\ \E ids \in {{i} : i \in shown \cup {Standalone}} \cup SUBSET (shown \cap Services) :
           SwitchOn(ids) \/ SwitchOff(ids)

\* The navigation ends with the page: its socket and its timers go with it.
Leave ==
    /\ page = "leaving" /\ nav = 0
    /\ page' = "away"
    /\ line' = "none" /\ wire' = <<>> /\ pending' = NoFrame /\ sent' = FALSE
    /\ timers' = <<>>
    /\ connected' = FALSE
    /\ UNCHANGED <<serverVars, fed, nav, reconnectAttempts, quiet, waited, viewVars, cookie>>

\* The login succeeds, and its callback sends the browser back to the page.
LoggedIn ==
    /\ page = "away"
    /\ Accepts
    /\ cookie' = TRUE
    /\ Load
    /\ UNCHANGED <<serverVars, filters, muted>>

Reload ==
    /\ page # "away"
    /\ Accepts
    /\ Disturb
    /\ Load
    /\ UNCHANGED <<process, lastFanned, cluster, room, failures, filters, muted, cookie>>

----------------------------------------------------------------------------
(* The server's side of the connection *)

\* No listener, or 503 before the upgrade: the tab sees a failure, never an onopen.
Refuse ==
    /\ line = "dialling"
    /\ ~Accepts \/ ~room
    /\ line' = "ended"
    /\ wire' = <<Event("error"), Event("close")>>
    /\ UNCHANGED <<serverVars, pending, sent, fed, tabVars, viewVars, cookie>>

Upgrade ==
    /\ line = "dialling"
    /\ Accepts /\ room
    /\ line' = "upgraded"
    /\ wire' = <<Event("open")>>
    /\ UNCHANGED <<serverVars, pending, sent, fed, tabVars, viewVars, cookie>>

RegisterWithoutLast ==
    /\ line = "upgraded"
    /\ process # "down"
    /\ cookie /\ room
    /\ line' = "served"
    /\ UNCHANGED <<serverVars, wire, pending, sent, fed, tabVars, viewVars, cookie>>

\* Validation and register, after the upgrade: a refusal comes in band.
Register ==
    /\ line = "upgraded"
    /\ process # "down"
    /\ \/ /\ ~cookie
          /\ line' = "ended"
          /\ \E end \in Endings : wire' = Append(wire, Event("401")) \o end
          /\ UNCHANGED pending
       \/ /\ cookie /\ ~room
          /\ line' = "ended"
          /\ \E end \in Endings : wire' = wire \o end
          /\ UNCHANGED pending
       \/ /\ cookie /\ room
          /\ line' = "served"
          /\ pending' = lastFanned
          /\ UNCHANGED wire
    /\ UNCHANGED <<serverVars, sent, fed, tabVars, viewVars, cookie>>

\* writePump: the newest snapshot that waits, if any.
Flush ==
    /\ line = "served"
    /\ Len(wire) < MaxWire
    /\ \E s \in pending : wire' = Append(wire, Update(s))
    /\ pending' = NoFrame
    /\ sent' = TRUE /\ fed' = TRUE
    /\ UNCHANGED <<serverVars, line, tabVars, viewVars, cookie>>

FanOut ==
    /\ Publish
    /\ pending' = IF line = "served" THEN Frame(cluster) ELSE pending
    /\ UNCHANGED <<line, wire, sent, fed, tabVars, viewVars, cookie>>

Hangs == line \in {"dialling", "upgraded", "served"}

CutOff ==
    /\ line' = IF Hangs THEN "ended" ELSE line
    /\ IF Hangs THEN \E end \in Endings : wire' = wire \o end ELSE UNCHANGED wire
    /\ pending' = NoFrame

ProcessEnds ==
    /\ Exit
    /\ CutOff
    /\ sent' = FALSE /\ fed' = FALSE
    /\ UNCHANGED <<tabVars, viewVars, cookie>>

\* The network, or a peer that closes, breaks the connection.
Drop ==
    /\ Hangs
    /\ Disturb
    /\ CutOff
    /\ UNCHANGED <<process, lastFanned, cluster, room, failures, sent, fed,
                   tabVars, viewVars, cookie>>

CookieExpires ==
    /\ cookie
    /\ Disturb
    /\ cookie' = FALSE
    /\ UNCHANGED <<process, lastFanned, cluster, room, failures,
                   lineVars, tabVars, viewVars>>

ServerAlone ==
    /\ Start \/ Terminate \/ SwarmChanges \/ RoomChanges \/ Probe \/ StopUnhealthy
    /\ UNCHANGED <<lineVars, tabVars, viewVars, cookie>>

----------------------------------------------------------------------------
\* A tick of the clock while something waits for it: what is due comes first.
Tick ==
    /\ timers # <<>> \/ (page = "leaving" /\ nav > 0)
    /\ \A i \in DOMAIN timers : timers[i] > 0
    /\ page = "leaving" => nav > 0
    /\ page # "away"
    /\ timers' = [i \in DOMAIN timers |-> timers[i] - 1]
    /\ nav' = IF page = "leaving" THEN nav - 1 ELSE nav
    /\ quiet' = IF line = "none" THEN quiet + 1 ELSE quiet
    /\ UNCHANGED <<serverVars, lineVars, page, connected, reconnectAttempts, waited,
                   viewVars, cookie>>

Init ==
    /\ ServerInit
    /\ page = "app" /\ nav = 0
    /\ line = "dialling" /\ wire = <<>> /\ pending = NoFrame /\ sent = FALSE /\ fed = FALSE
    /\ cookie = TRUE
    /\ connected = FALSE /\ reconnectAttempts = 0 /\ timers = <<>>
    /\ shown = {}
    /\ filters = [initialized |-> FALSE, known |-> {}, selected |-> {}]
    /\ muted = {} /\ quiet = 0 /\ waited = 0

TabStep ==
    \/ OnOpen \/ OnUnauthorized \/ OnError \/ OnClose \/ OnUpdate
    \/ TimerFires \/ Leave

LineStep == Refuse \/ Upgrade \/ Register \/ Flush \/ FanOut

UserStep ==
    \/ \E kind \in {Networks, Nodes, Services} : Select(kind)
    \/ Toggle \/ LoggedIn \/ Reload

Next ==
    \/ TabStep \/ LineStep \/ UserStep \/ Tick
    \/ ProcessEnds \/ Drop \/ CookieExpires \/ ServerAlone

Spec == Init /\ [][Next]_vars

\* The page's event loop, the network, the server's goroutines and the clock run
\* on, and Docker answers the inspector (FanOut).
FairSpec == Spec /\ WF_vars(TabStep) /\ WF_vars(LineStep) /\ WF_vars(Tick)

\* A navigation goes on with the clock, and ends when its time is over: what the
\* proof of progress has to know of ENABLED.
NavigationCanRun ==
    page = "leaving" =>
        /\ nav > 0 /\ (\A i \in DOMAIN timers : timers[i] > 0) => ENABLED <<Tick>>_vars
        /\ nav = 0 => ENABLED <<TabStep>>_vars

----------------------------------------------------------------------------
(* Properties *)

TypeOK ==
    /\ ServerTypeOK
    /\ page \in {"app", "leaving", "away"}
    /\ nav \in Nat
    /\ line \in {"none", "dialling", "upgraded", "served", "ended"}
    /\ wire \in Seq(Events)
    /\ pending \in Frames
    /\ cookie \in BOOLEAN /\ connected \in BOOLEAN
    /\ sent \in BOOLEAN /\ fed \in BOOLEAN
    /\ reconnectAttempts \in 0..MaxAttempts
    /\ timers \in Seq(Nat)
    /\ shown \in Snapshots /\ muted \in Snapshots
    /\ filters \in Filters
    /\ quiet \in Nat /\ waited \in Nat

\* However connections fail, a page has exactly one socket or one timer that will
\* make the next: it never multiplies its connections, and is never left without
\* a way back (onopen, onerror and onclose of websocket.js).
OneLine ==
    Len(timers) + (IF line = "none" THEN 0 ELSE 1) = (IF page = "away" THEN 0 ELSE 1)

\* A redial comes no sooner than two seconds after the end of a connection and no
\* later than maxReconnectInterval; and as long as no handshake succeeds, each
\* wait is twice the one before, up to that limit (reconnectWebSocket, onopen).
RetryPace ==
    [][TimerFires => /\ quiet \in (2 * Second)..MaxInterval
                     /\ quiet >= Min(2 * waited, MaxInterval)]_vars

\* What is selected of a page's snapshot is all but what the user switched off
\* since it appeared: across snapshots, lost connections, server restarts and
\* reloads, no switched-off id comes back by itself and no new one stays hidden
\* (updateReceivedData of index.html).
SelectionKept == shown \cap filters.selected = shown \ muted

\* A process that has once sent the tab a snapshot fails no health check until it
\* is told to stop, whatever the Docker API and its clients do later (Hub.Ready,
\* healthzHandler).
ServingIsHealthy == [][process = "up" /\ failures' > failures => ~fed]_vars

\* The page asks for the login page again while it still waits for it only after
\* two seconds without a connection: however slow the navigations are, each has
\* that long to itself (getAuthorized of index.html, reconnectWebSocket).
NavigationPace == [][OnUnauthorized /\ page = "leaving" => quiet >= 2 * Second]_vars

\* The navigation under way is faster than the next dial, which is at least two
\* seconds away while the error and the close of a refused connection are still
\* to come.
InTime ==
    /\ page = "leaving"
    /\ \A i \in 1..Len(timers) : timers[i] > nav
    /\ line = "ended" => nav < 2 * Second
    /\ line \in {"none", "ended"}
    /\ Len(wire) <= 2 /\ \A i \in 1..Len(wire) : wire[i].kind \in {"error", "close"}

\* A page that was told 401-Unauthorized gets away to the login page as soon as
\* one navigation is faster than the redial, also after slower ones that its own
\* redials have cut short (getAuthorized of index.html).
LoginReached == InTime ~> page # "leaving"

Serving == process = "up" /\ room /\ cookie

\* If the server stays up with a free slot and takes the cookie, the page is in
\* the end connected and shows what the swarm holds, whatever came before.
CatchesUp == <>[]Serving => <>[](connected /\ shown = cluster)
=============================================================================
