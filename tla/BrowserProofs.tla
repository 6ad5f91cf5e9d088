--------------------------- MODULE BrowserProofs ----------------------------
(***************************************************************************)
(* Proofs about Browser.tla for every set of ids, every back-off and every *)
(* bound: one line per page, its pace, the selections, and the health of a *)
(* process that serves.                                                    *)
(***************************************************************************)
EXTENDS Browser, TLAPS

----------------------------------------------------------------------------
(* Facts about the operators *)

\* Doubling keeps the waits of websocket.js between none and the limit; from the
\* first attempt on they are two seconds at least.
LEMMA IntervalBounds ==
    ASSUME NEW a \in 0..MaxAttempts
    PROVE  /\ Interval(a) \in 0..MaxInterval
           /\ a > 0 => Interval(a) >= 2 * Second
<1>1. 2^a \in Nat \ {0}
  BY PowersOfTwo
<1>2. PICK p \in Nat \ {0} : p = 2^a
  BY <1>1
<1>3. Second * p \in Nat
  BY <1>2, BrowserAssumption
<1>4. Interval(a) \in 0..MaxInterval
  BY <1>2, <1>3, BrowserAssumption DEF Interval, Min
<1>5. ASSUME a > 0 PROVE Interval(a) >= 2 * Second
  <2>1. a - 1 \in 0..MaxAttempts /\ (a - 1) + 1 = a
    BY <1>5, BrowserAssumption
  <2>2. 2^(a - 1) \in Nat \ {0} /\ 2^a = 2 * 2^(a - 1)
    BY <2>1, PowersOfTwo
  <2>3. PICK q \in Nat \ {0} : q = 2^(a - 1)
    BY <2>2
  <2>4. p = 2 * q
    BY <2>2, <2>3, <1>2
  <2>5. Second * p >= 2 * Second
    BY <2>4, BrowserAssumption
  <2> QED
    BY <2>5, <1>2, <1>3, BrowserAssumption DEF Interval, Min
<1> QED
  BY <1>4, <1>5

\* One attempt more doubles the wait, up to the limit (reconnectWebSocket).
LEMMA IntervalDoubles ==
    ASSUME NEW a \in 0..MaxAttempts, NEW w \in Nat, w <= Interval(a)
    PROVE  Interval(Min(a + 1, MaxAttempts)) >= Min(2 * w, MaxInterval)
<1>1. PICK p \in Nat \ {0} : p = 2^a
  BY PowersOfTwo
<1>2. 2^(a + 1) = 2 * p
  BY <1>1, PowersOfTwo
<1>3. Second * p \in Nat /\ Second * (2 * p) = 2 * (Second * p)
  BY <1>1, BrowserAssumption
<1>4. w <= Second * p /\ w <= MaxInterval
  BY <1>1, <1>3, BrowserAssumption DEF Interval, Min
<1>5. CASE a < MaxAttempts
  <2>1. Min(a + 1, MaxAttempts) = a + 1
    BY <1>5, BrowserAssumption DEF Min
  <2>2. Interval(a + 1) = Min(2 * (Second * p), MaxInterval)
    BY <1>2, <1>3 DEF Interval
  <2>3. Min(2 * (Second * p), MaxInterval) >= Min(2 * w, MaxInterval)
    BY <1>3, <1>4, BrowserAssumption DEF Min
  <2> QED
    BY <2>1, <2>2, <2>3
<1>6. CASE a = MaxAttempts
  <2>1. Min(a + 1, MaxAttempts) = a
    BY <1>6, BrowserAssumption DEF Min
  <2>2. Interval(a) = MaxInterval
    BY <1>1, <1>3, <1>6, BrowserAssumption DEF Interval, Min
  <2> QED
    BY <2>1, <2>2, BrowserAssumption DEF Min
<1> QED
  BY <1>5, <1>6, BrowserAssumption

\* The limit lies above the unit, so there is an attempt to count.
LEMMA ManyAttempts == MaxAttempts > 0
<1>1. SUFFICES ASSUME MaxAttempts = 0 PROVE FALSE
  BY BrowserAssumption
<1>2. 2^0 \in Nat /\ 2^(0 + 1) = 2 * 2^0
  BY <1>1, PowersOfTwo
<1> QED
  BY <1>1, <1>2, BrowserAssumption

\* The endings of a connection are one or two events, of which only the last is
\* the close.
LEMMA EndingsShape ==
    ASSUME NEW end \in Endings
    PROVE  /\ end \in Seq(Events)
           /\ Len(end) \in 1..2
           /\ \A i \in 1..Len(end) : end[i].kind = "close" <=> i = Len(end)
<1>1. {} \in Snapshots
  BY DEF Snapshots
<1>2. Event("close") \in Events /\ Event("error") \in Events
  BY <1>1 DEF Event, Events, Kinds
<1>3. Event("close").kind = "close" /\ Event("error").kind = "error"
  BY DEF Event
<1>4. CASE end = <<Event("close")>>
  BY <1>2, <1>3, <1>4
<1>5. CASE end = <<Event("error"), Event("close")>>
  <2>1. Len(end) = 2 /\ end[1] = Event("error") /\ end[2] = Event("close")
    BY <1>5
  <2>2. end \in Seq(Events)
    BY <1>2, <1>5
  <2> QED
    BY <2>1, <2>2, <1>3
<1> QED
  BY <1>4, <1>5 DEF Endings

----------------------------------------------------------------------------
(* Type correctness *)

LEMMA EventsInType ==
    /\ \A k \in Kinds : Event(k) \in Events
    /\ \A s \in Snapshots : Update(s) \in Events
BY DEF Event, Update, Events, Kinds, Snapshots

\* A handler takes one event off the wire.
LEMMA HandlesType ==
    ASSUME TypeOK, NEW k, Handles(k)
    PROVE  wire' \in Seq(Events) /\ Head(wire) \in Events
BY DEF TypeOK, Handles

\* A frame carries a snapshot.
LEMMA FrameType ==
    /\ \A f \in Frames : \A s \in f : s \in Snapshots
    /\ \A s \in Snapshots : Frame(s) \in Frames
    /\ NoFrame \in Frames
BY DEF Frames, Frame, NoFrame

\* One step of Next keeps every variable in its range.
LEMMA TypeNext == TypeOK /\ [Next]_vars => TypeOK'
<1> SUFFICES ASSUME TypeOK, [Next]_vars PROVE TypeOK'
  OBVIOUS
<1>a. ASSUME UNCHANGED serverVars PROVE ServerTypeOK'
  BY <1>a DEF TypeOK, ServerTypeOK, serverVars
<1>b. ASSUME Disturb, UNCHANGED <<process, lastFanned, cluster, room, failures>>
      PROVE  ServerTypeOK'
  BY <1>b, ServerAssumption DEF TypeOK, ServerTypeOK, Disturb
<1>c. ASSUME Dial
      PROVE  /\ line' \in {"none", "dialling", "upgraded", "served", "ended"}
             /\ wire' \in Seq(Events) /\ pending' \in Frames
             /\ sent' \in BOOLEAN /\ fed' \in BOOLEAN
  <2>1. line' = "dialling" /\ wire' \in Seq(Events)
    BY <1>c DEF Dial
  <2>2. pending' \in Frames
    BY <1>c, FrameType DEF Dial
  <2>3. sent' \in BOOLEAN /\ fed' \in BOOLEAN
    BY <1>c DEF Dial, TypeOK
  <2> QED
    BY <2>1, <2>2, <2>3
<1>d. ASSUME Reconnect
      PROVE  reconnectAttempts' \in 0..MaxAttempts /\ timers' \in Seq(Nat) /\ quiet' \in Nat
  <2>1. reconnectAttempts' \in 0..MaxAttempts
    BY <1>d, BrowserAssumption DEF Reconnect, TypeOK, Min
  <2>2. Interval(reconnectAttempts') \in Nat
    BY <2>1, IntervalBounds, BrowserAssumption
  <2> QED
    BY <1>d, <2>1, <2>2 DEF Reconnect, TypeOK
<1>h. ASSUME Load, ServerTypeOK', cookie' \in BOOLEAN, UNCHANGED <<filters, muted>>
      PROVE  TypeOK'
  <2>1. nav' \in Nat /\ reconnectAttempts' \in 0..MaxAttempts
    BY <1>h, BrowserAssumption DEF Load
  <2>2. timers' \in Seq(Nat) /\ shown' \in Snapshots /\ quiet' \in Nat /\ waited' \in Nat
    BY <1>h DEF Load, Snapshots
  <2>3. connected' \in BOOLEAN /\ page' \in {"app", "leaving", "away"}
    BY <1>h DEF Load
  <2>4. Dial
    BY <1>h DEF Load
  <2> QED
    BY <1>h, <1>c, <2>1, <2>2, <2>3, <2>4 DEF TypeOK
<1>1. CASE OnOpen
  BY <1>1, <1>a, HandlesType, BrowserAssumption DEF OnOpen, TypeOK, viewVars
<1>2. CASE OnUnauthorized
  BY <1>2, <1>a, HandlesType, BrowserAssumption DEF OnUnauthorized, TypeOK, viewVars
<1>3. CASE OnError
  BY <1>3, <1>a, HandlesType DEF OnError, TypeOK, viewVars, tabVars
<1>4. CASE OnClose
  BY <1>4, <1>a, <1>d, HandlesType DEF OnClose, TypeOK, viewVars
<1>5. CASE OnUpdate
  <2> DEFINE s == Head(wire).ids
  <2>1. s \in Snapshots /\ wire' \in Seq(Events)
    BY <1>5, HandlesType DEF OnUpdate, Events
  <2>2. shown' \in Snapshots /\ muted' \in Snapshots
    BY <1>5, <2>1 DEF OnUpdate, TypeOK, Snapshots
  <2>3. Known(filters, s) \in Snapshots
    BY <2>1 DEF Known, Snapshots
  <2>4. Selected(filters, s) \in SUBSET (Ids \cup {Standalone})
    BY <2>1 DEF Selected, Snapshots
  <2>5. filters' \in Filters
    BY <1>5, <2>3, <2>4 DEF OnUpdate, Filters
  <2> QED
    BY <1>5, <1>a, <2>1, <2>2, <2>5 DEF OnUpdate, TypeOK, tabVars
<1>6. CASE TimerFires
  BY <1>6, <1>a, <1>c DEF TimerFires, TypeOK, viewVars
<1>7. CASE Leave
  <2>1. pending' \in Frames /\ wire' \in Seq(Events) /\ timers' \in Seq(Nat)
    BY <1>7, FrameType DEF Leave
  <2>2. sent' \in BOOLEAN /\ connected' \in BOOLEAN
    BY <1>7 DEF Leave
  <2> QED
    BY <1>7, <1>a, <2>1, <2>2 DEF Leave, TypeOK, viewVars
<1>8. CASE Refuse
  <2>1. wire' \in Seq(Events)
    BY <1>8, EventsInType DEF Refuse, Kinds
  <2> QED
    BY <1>8, <1>a, <2>1 DEF Refuse, TypeOK, viewVars, tabVars
<1>9. CASE Upgrade
  <2>1. wire' \in Seq(Events)
    BY <1>9, EventsInType DEF Upgrade, Kinds
  <2> QED
    BY <1>9, <1>a, <2>1 DEF Upgrade, TypeOK, viewVars, tabVars
<1>10. CASE Register
  <2>1. wire' \in Seq(Events)
    <3>1. Event("401") \in Events /\ wire \in Seq(Events)
      BY EventsInType DEF TypeOK, Kinds
    <3>2. Append(wire, Event("401")) \in Seq(Events)
      BY <3>1
    <3>3. \A end \in Endings : wire \o end \in Seq(Events)
                             /\ Append(wire, Event("401")) \o end \in Seq(Events)
      BY <3>1, <3>2, EndingsShape
    <3> QED
      BY <1>10, <3>1, <3>3 DEF Register
  <2>2. pending' \in Frames /\ line' \in {"ended", "served"}
    BY <1>10 DEF Register, TypeOK, ServerTypeOK
  <2> QED
    BY <1>10, <1>a, <2>1, <2>2 DEF Register, TypeOK, viewVars, tabVars
<1>11. CASE Flush
  <2>1. wire' \in Seq(Events)
    BY <1>11, EventsInType, FrameType DEF Flush, TypeOK
  <2> QED
    BY <1>11, <1>a, <2>1, FrameType DEF Flush, TypeOK, viewVars, tabVars
<1>12. CASE FanOut
  <2>1. Frame(cluster) \in Frames
    BY FrameType DEF TypeOK, ServerTypeOK
  <2>2. ServerTypeOK'
    BY <1>12, <2>1 DEF FanOut, Publish, TypeOK, ServerTypeOK
  <2> QED
    BY <1>12, <2>1, <2>2 DEF FanOut, TypeOK, viewVars, tabVars
<1>e. ASSUME NEW ids, SwitchOn(ids), ids \subseteq shown \cup {Standalone} PROVE TypeOK'
  <2>1. muted' \in Snapshots /\ filters' \in Filters
    BY <1>e DEF SwitchOn, TypeOK, Snapshots, Filters
  <2> QED
    BY <1>e, <1>a, <2>1 DEF SwitchOn, TypeOK, lineVars, tabVars
<1>f. ASSUME NEW ids, SwitchOff(ids) PROVE TypeOK'
  <2>1. muted' \in Snapshots /\ filters' \in Filters
    BY <1>f DEF SwitchOff, TypeOK, Snapshots, Filters
  <2> QED
    BY <1>f, <1>a, <2>1 DEF SwitchOff, TypeOK, lineVars, tabVars
<1>13. ASSUME NEW kind, Select(kind) PROVE TypeOK'
  BY <1>13, <1>e, <1>f DEF Select
<1>14. CASE Toggle
  BY <1>14, <1>e, <1>f DEF Toggle
<1>15. CASE LoggedIn
  <2>1. ServerTypeOK' /\ cookie' \in BOOLEAN
    BY <1>15, <1>a DEF LoggedIn
  <2> QED
    BY <1>15, <1>h, <2>1 DEF LoggedIn, TypeOK
<1>16. CASE Reload
  BY <1>16, <1>b, <1>h DEF Reload, TypeOK
<1>17. CASE Tick
  <2>1. timers' \in Seq(Nat)
    <3>1. timers \in Seq(Nat)
      BY DEF TypeOK
    <3>2. DOMAIN timers = 1..Len(timers) /\ Len(timers) \in Nat
      BY <3>1
    <3>3. \A i \in 1..Len(timers) : timers[i] \in Nat /\ timers[i] > 0
      BY <1>17, <3>1, <3>2 DEF Tick
    <3>4. timers' = [i \in 1..Len(timers) |-> timers[i] - 1]
      BY <1>17, <3>2 DEF Tick
    <3> QED
      BY <3>2, <3>3, <3>4
  <2>2. nav' \in Nat /\ quiet' \in Nat
    BY <1>17, BrowserAssumption DEF Tick, TypeOK
  <2> QED
    BY <1>17, <1>a, <2>1, <2>2 DEF Tick, TypeOK, viewVars, lineVars
<1>g. ASSUME CutOff
      PROVE  /\ line' \in {"none", "dialling", "upgraded", "served", "ended"}
             /\ wire' \in Seq(Events) /\ pending' \in Frames
  <2>1. \A end \in Endings : wire \o end \in Seq(Events)
    BY EndingsShape DEF TypeOK
  <2>2. wire' \in Seq(Events) /\ pending' \in Frames
    BY <1>g, <2>1, FrameType DEF CutOff, TypeOK
  <2> QED
    BY <1>g, <2>2 DEF CutOff, TypeOK
<1>18. CASE ProcessEnds
  <2>1. ServerTypeOK'
    BY <1>18, ServerAssumption DEF ProcessEnds, Exit, Disturb, TypeOK, ServerTypeOK
  <2> QED
    BY <1>18, <1>g, <2>1 DEF ProcessEnds, TypeOK, viewVars, tabVars
<1>19. CASE Drop
  BY <1>19, <1>b, <1>g DEF Drop, TypeOK, viewVars, tabVars
<1>20. CASE CookieExpires
  BY <1>20, <1>b DEF CookieExpires, TypeOK, viewVars, tabVars, lineVars
<1>21. CASE ServerAlone
  <2>1. ServerTypeOK'
    <3>1. CASE Start \/ Probe
      BY <3>1, ServerAssumption, FrameType DEF Start, Probe, TypeOK, ServerTypeOK
    <3>2. CASE RoomChanges
      BY <3>2 DEF RoomChanges, TypeOK, ServerTypeOK
    <3>3. CASE Terminate \/ SwarmChanges \/ StopUnhealthy
      BY <3>3, ServerAssumption
         DEF Terminate, SwarmChanges, StopUnhealthy, Disturb, TypeOK, ServerTypeOK
    <3> QED
      BY <1>21, <3>1, <3>2, <3>3 DEF ServerAlone
  <2> QED
    BY <1>21, <2>1 DEF ServerAlone, TypeOK, viewVars, tabVars, lineVars
<1>22. CASE UNCHANGED vars
  BY <1>22, <1>a DEF vars, TypeOK, viewVars, tabVars, lineVars
<1> QED
  BY <1>1, <1>2, <1>3, <1>4, <1>5, <1>6, <1>7, <1>8, <1>9, <1>10, <1>11, <1>12, <1>13,
     <1>14, <1>15, <1>16, <1>17, <1>18, <1>19, <1>20, <1>21, <1>22
     DEF Next, TabStep, LineStep, UserStep

LEMMA TypeInit == Init => TypeOK
<1> SUFFICES ASSUME Init PROVE TypeOK
  OBVIOUS
<1>1. ServerTypeOK
  BY ServerAssumption, FrameType DEF Init, ServerInit, ServerTypeOK
<1>2. shown \in Snapshots /\ muted \in Snapshots /\ filters \in Filters
  BY DEF Init, Snapshots, Filters
<1>3. wire \in Seq(Events) /\ timers \in Seq(Nat) /\ pending \in Frames
  BY FrameType DEF Init
<1>4. cookie \in BOOLEAN /\ connected \in BOOLEAN /\ sent \in BOOLEAN /\ fed \in BOOLEAN
  BY DEF Init
<1>5. nav \in Nat /\ reconnectAttempts \in 0..MaxAttempts
  BY BrowserAssumption DEF Init
<1> QED
  BY <1>1, <1>2, <1>3, <1>4, <1>5 DEF Init, TypeOK

\* Every variable of the tab, of its connection and of the server stays in range.
THEOREM TypeCorrect == Spec => []TypeOK
BY TypeInit, TypeNext, PTL DEF Spec

----------------------------------------------------------------------------
(* One line per page *)

\* A page has its one socket or its one timer; a page that is gone has neither;
\* and a close is the last event of a socket that has ended.
LineInv ==
    /\ line = "none" => wire = <<>>
    /\ line # "none" => page # "away" /\ Len(timers) = 0
    /\ line = "none" => Len(timers) = IF page = "away" THEN 0 ELSE 1
    /\ \A i \in 1..Len(wire) : wire[i].kind = "close" => line = "ended" /\ i = Len(wire)

\* A handler other than onclose takes its event and leaves the rest as it is.
LEMMA HandlesLine ==
    ASSUME TypeOK, LineInv, NEW k, Handles(k), UNCHANGED line
    PROVE  /\ line # "none"
           /\ \A i \in 1..Len(wire') : wire'[i].kind = "close" => line' = "ended" /\ i = Len(wire')
<1>1. wire \in Seq(Events) /\ wire # <<>> /\ wire' = Tail(wire)
  BY DEF TypeOK, Handles
<1>2. Len(wire') = Len(wire) - 1 /\ \A i \in 1..Len(wire') : wire'[i] = wire[i + 1]
  BY <1>1
<1>3. \A i \in 1..Len(wire') : i + 1 \in 1..Len(wire)
  BY <1>1, <1>2
<1>4. line # "none"
  BY <1>1 DEF LineInv
<1>5. ASSUME NEW i \in 1..Len(wire'), wire'[i].kind = "close"
      PROVE  line' = "ended" /\ i = Len(wire')
  <2>1. line = "ended" /\ i + 1 = Len(wire)
    BY <1>2, <1>3, <1>5 DEF LineInv
  <2>2. Len(wire) \in Nat /\ i \in Nat
    BY <1>1, <1>5
  <2> QED
    BY <1>2, <2>1, <2>2
<1> QED
  BY <1>4, <1>5

\* What ends a connection appends the only close there is.
LEMMA EndLine ==
    ASSUME NEW w \in Seq(Events), \A i \in 1..Len(w) : w[i].kind # "close", NEW end \in Endings
    PROVE  \A i \in 1..Len(w \o end) : (w \o end)[i].kind = "close" => i = Len(w \o end)
<1>1. end \in Seq(Events) /\ \A i \in 1..Len(end) : end[i].kind = "close" <=> i = Len(end)
  BY EndingsShape
<1>2. Len(w \o end) = Len(w) + Len(end) /\ Len(w) \in Nat /\ Len(end) \in Nat
  BY <1>1
<1>3. \A i \in 1..Len(w \o end) :
        (w \o end)[i] = IF i <= Len(w) THEN w[i] ELSE end[i - Len(w)]
  BY <1>1
<1>4. \A i \in 1..Len(w \o end) : i > Len(w) => i - Len(w) \in 1..Len(end)
  BY <1>2
<1>5. ASSUME NEW i \in 1..Len(w \o end), (w \o end)[i].kind = "close"
      PROVE  i = Len(w \o end)
  <2>1. i > Len(w)
    BY <1>2, <1>3, <1>5
  <2>2. i - Len(w) \in 1..Len(end) /\ end[i - Len(w)].kind = "close"
    BY <1>2, <1>3, <1>4, <1>5, <2>1
  <2>3. i - Len(w) = Len(end)
    BY <1>1, <2>2
  <2> QED
    BY <1>2, <2>3
<1> QED
  BY <1>5

LEMMA LineNext == TypeOK /\ LineInv /\ [Next]_vars => LineInv'
<1> SUFFICES ASSUME TypeOK, LineInv, [Next]_vars PROVE LineInv'
  OBVIOUS
<1>t. wire \in Seq(Events) /\ timers \in Seq(Nat)
  BY DEF TypeOK
<1>a. ASSUME UNCHANGED <<page, line, wire, timers>> PROVE LineInv'
  BY <1>a DEF LineInv
<1>b. ASSUME NEW k, Handles(k), UNCHANGED <<line, timers>>, page' # "away" PROVE LineInv'
  BY <1>b, HandlesLine DEF LineInv
<1>1. CASE OnOpen
  BY <1>1, <1>b DEF OnOpen, Handles
<1>2. CASE OnUnauthorized
  BY <1>2, <1>b DEF OnUnauthorized, Handles
<1>3. CASE OnError
  BY <1>3, <1>b DEF OnError, Handles, tabVars
<1>4. CASE OnClose
  <2>1. wire # <<>> /\ wire[1].kind = "close" /\ page # "away"
    BY <1>4, <1>t DEF OnClose, Handles
  <2>2. Len(wire) = 1 /\ line = "ended"
    <3>1. 1 \in 1..Len(wire)
      BY <1>t, <2>1
    <3> QED
      BY <2>1, <3>1 DEF LineInv
  <2>3. wire' = <<>>
    BY <1>4, <1>t, <2>2 DEF OnClose, Handles
  <2>4. Len(timers') = 1
    BY <1>4, <1>t, <2>2 DEF OnClose, Reconnect, LineInv
  <2> QED
    BY <1>4, <2>1, <2>3, <2>4 DEF OnClose, LineInv
<1>5. CASE OnUpdate
  BY <1>5, <1>b DEF OnUpdate, Handles, tabVars
<1>6. CASE TimerFires
  <2>1. Len(timers') = Len(timers) - 1 /\ Len(timers) > 0
    BY <1>6, <1>t DEF TimerFires
  <2>2. Len(timers') = 0
    <3>1. line = "none" /\ page # "away"
      BY <1>6, <2>1 DEF LineInv, TimerFires
    <3>2. Len(timers) = 1
      BY <3>1 DEF LineInv
    <3> QED
      BY <2>1, <3>2
  <2> QED
    BY <1>6, <2>2 DEF TimerFires, Dial, LineInv
<1>7. CASE Leave
  BY <1>7 DEF Leave, LineInv
<1>c. ASSUME Load PROVE LineInv'
  BY <1>c DEF Load, Dial, LineInv
<1>8. CASE LoggedIn
  BY <1>8, <1>c DEF LoggedIn
<1>9. CASE Reload
  BY <1>9, <1>c DEF Reload
<1>10. CASE Refuse
  <2>1. page' # "away" /\ Len(timers') = 0
    BY <1>10 DEF Refuse, LineInv, tabVars
  <2>2. Event("error").kind = "error" /\ Event("close").kind = "close"
    BY DEF Event
  <2>3. Len(wire') = 2 /\ wire'[1].kind = "error" /\ line' = "ended"
    BY <1>10, <2>2 DEF Refuse
  <2> QED
    BY <2>1, <2>3 DEF LineInv
<1>11. CASE Upgrade
  <2>1. page' # "away" /\ Len(timers') = 0
    BY <1>11 DEF Upgrade, LineInv, tabVars
  <2>2. Len(wire') = 1 /\ wire'[1].kind = "open" /\ line' = "upgraded"
    BY <1>11 DEF Upgrade, Event
  <2> QED
    BY <2>1, <2>2 DEF LineInv
<1>12. CASE Register
  <2>1. page' # "away" /\ Len(timers') = 0 /\ \A i \in 1..Len(wire) : wire[i].kind # "close"
    BY <1>12 DEF Register, LineInv, tabVars
  <2> DEFINE w == Append(wire, Event("401"))
  <2>2. w \in Seq(Events) /\ \A i \in 1..Len(w) : w[i].kind # "close"
    <3>1. Event("401") \in Events /\ Event("401").kind # "close"
      BY EventsInType DEF Kinds, Event
    <3> QED
      BY <3>1, <2>1, <1>t
  <2>3. CASE ~cookie
    <3>1. PICK end \in Endings : wire' = w \o end
      BY <1>12, <2>3 DEF Register
    <3> QED
      BY <1>12, <2>1, <2>2, <2>3, <3>1, EndLine DEF Register, LineInv
  <2>4. CASE cookie /\ ~room
    <3>1. PICK end \in Endings : wire' = wire \o end
      BY <1>12, <2>4 DEF Register
    <3> QED
      BY <1>12, <1>t, <2>1, <2>4, <3>1, EndLine DEF Register, LineInv
  <2>5. CASE cookie /\ room
    BY <1>12, <2>1, <2>5 DEF Register, LineInv
  <2> QED
    BY <2>3, <2>4, <2>5
<1>13. CASE Flush
  <2>1. PICK s \in pending : wire' = Append(wire, Update(s))
    BY <1>13 DEF Flush
  <2>2. Update(s) \in Events /\ Update(s).kind # "close"
    BY <2>1, EventsInType, FrameType DEF Update, TypeOK
  <2>3. \A i \in 1..Len(wire) : wire[i].kind # "close"
    BY <1>13 DEF Flush, LineInv
  <2>4. \A i \in 1..Len(wire') : wire'[i].kind # "close"
    BY <1>t, <2>1, <2>2, <2>3
  <2> QED
    BY <1>13, <2>4 DEF Flush, LineInv, tabVars
<1>d. ASSUME CutOff, UNCHANGED tabVars PROVE LineInv'
  <2>1. CASE ~Hangs
    BY <1>d, <2>1 DEF CutOff, tabVars, LineInv
  <2>2. CASE Hangs
    <3>1. PICK end \in Endings : wire' = wire \o end
      BY <1>d, <2>2 DEF CutOff
    <3>2. \A i \in 1..Len(wire) : wire[i].kind # "close"
      BY <2>2 DEF Hangs, LineInv
    <3> QED
      BY <1>d, <1>t, <2>2, <3>1, <3>2, EndLine DEF CutOff, Hangs, tabVars, LineInv
  <2> QED
    BY <2>1, <2>2
<1>14. CASE ProcessEnds
  BY <1>14, <1>d DEF ProcessEnds
<1>15. CASE Drop
  BY <1>15, <1>d DEF Drop
<1>16. CASE Tick
  <2>1. Len(timers') = Len(timers)
    BY <1>16, <1>t DEF Tick
  <2> QED
    BY <1>16, <2>1 DEF Tick, lineVars, LineInv
<1>17. CASE FanOut \/ CookieExpires \/ ServerAlone \/ UNCHANGED vars
  BY <1>17, <1>a DEF FanOut, CookieExpires, ServerAlone, vars, lineVars, tabVars
<1>18. CASE Toggle \/ \E kind \in {Networks, Nodes, Services} : Select(kind)
  BY <1>18, <1>a DEF Toggle, Select, SwitchOn, SwitchOff, lineVars, tabVars
<1> QED
  BY <1>1, <1>2, <1>3, <1>4, <1>5, <1>6, <1>7, <1>8, <1>9, <1>10, <1>11, <1>12, <1>13,
     <1>14, <1>15, <1>16, <1>17, <1>18 DEF Next, TabStep, LineStep, UserStep

\* However its connections fail, a page has exactly one socket or one timer
\* (connectWebSocket, onclose and reconnectWebSocket of websocket.js).
THEOREM OneLineHolds == Spec => []OneLine
<1>1. Init => LineInv
  BY DEF Init, LineInv
<1>2. TypeOK /\ LineInv => OneLine
  <2> SUFFICES ASSUME TypeOK, LineInv PROVE OneLine
    OBVIOUS
  <2>1. CASE line = "none" /\ page = "away"
    BY <2>1 DEF LineInv, OneLine
  <2>2. CASE line = "none" /\ page # "away"
    <3>1. Len(timers) = 1
      BY <2>2 DEF LineInv
    <3> QED
      BY <2>2, <3>1 DEF OneLine
  <2>3. CASE line # "none"
    BY <2>3 DEF LineInv, OneLine
  <2> QED
    BY <2>1, <2>2, <2>3
<1> QED
  BY <1>1, <1>2, LineNext, TypeCorrect, PTL DEF Spec

----------------------------------------------------------------------------
(* The pace of the attempts *)

\* While a page waits, its timer and the time since the end of the last line add
\* up to the wait of its attempt, which is twice the wait before, or the limit.
PaceInv ==
    /\ line = "none" /\ page # "away" =>
          /\ timers[1] + quiet = Interval(reconnectAttempts)
          /\ reconnectAttempts > 0
          /\ Interval(reconnectAttempts) >= Min(2 * waited, MaxInterval)
    /\ line # "none" => waited <= Interval(reconnectAttempts)

\* The wait that a due timer ends is that of its attempt.
LEMMA FiresOnTime ==
    ASSUME TypeOK, LineInv, PaceInv, TimerFires
    PROVE  /\ quiet = Interval(reconnectAttempts)
           /\ reconnectAttempts > 0
           /\ quiet >= Min(2 * waited, MaxInterval)
<1>1. timers \in Seq(Nat) /\ Len(timers) > 0 /\ timers[1] = 0 /\ page # "away"
  BY DEF TypeOK, TimerFires
<1>2. line = "none"
  BY <1>1 DEF LineInv
<1>3. quiet \in Nat
  BY DEF TypeOK
<1> QED
  BY <1>1, <1>2, <1>3 DEF PaceInv

LEMMA PaceNext == TypeOK /\ LineInv /\ LineInv' /\ PaceInv /\ [Next]_vars => PaceInv'
<1> SUFFICES ASSUME TypeOK, LineInv, LineInv', PaceInv, [Next]_vars PROVE PaceInv'
  OBVIOUS
<1>t. /\ wire \in Seq(Events) /\ timers \in Seq(Nat) /\ quiet \in Nat /\ waited \in Nat
      /\ reconnectAttempts \in 0..MaxAttempts
  BY DEF TypeOK
<1>a. ASSUME UNCHANGED tabVars, line' # "none" \/ UNCHANGED line, line # "none" \/ UNCHANGED line
      PROVE  PaceInv'
  BY <1>a DEF PaceInv, tabVars
<1>b. ASSUME NEW k, Handles(k) PROVE line # "none"
  BY <1>b DEF Handles, LineInv
<1>1. CASE OnOpen
  <2>1. line' # "none" /\ waited' = 0 /\ reconnectAttempts' = 0
    BY <1>1, <1>b DEF OnOpen
  <2>2. Interval(0) >= 0
    BY IntervalBounds, BrowserAssumption
  <2> QED
    BY <2>1, <2>2 DEF PaceInv
<1>2. CASE OnUnauthorized
  BY <1>2, <1>b DEF OnUnauthorized, PaceInv
<1>3. CASE OnError \/ OnUpdate
  BY <1>3, <1>a DEF OnError, OnUpdate
<1>4. CASE OnClose
  <2>1. line # "none" /\ Len(timers) = 0
    BY <1>4, <1>b DEF OnClose, LineInv
  <2>2. waited <= Interval(reconnectAttempts)
    BY <2>1 DEF PaceInv
  <2>3. /\ reconnectAttempts' = Min(reconnectAttempts + 1, MaxAttempts)
        /\ quiet' = 0 /\ waited' = waited
        /\ timers' = Append(timers, Interval(reconnectAttempts'))
    BY <1>4 DEF OnClose, Reconnect
  <2>4. Interval(reconnectAttempts') >= Min(2 * waited', MaxInterval)
    BY <1>t, <2>2, <2>3, IntervalDoubles
  <2>5. reconnectAttempts' \in 0..MaxAttempts /\ reconnectAttempts' > 0
    <3>1. MaxAttempts > 0
      BY BrowserAssumption, ManyAttempts
    <3> QED
      BY <1>t, <2>3, <3>1, BrowserAssumption DEF Min
  <2>6. Interval(reconnectAttempts') \in Nat
    BY <2>5, IntervalBounds, BrowserAssumption
  <2>7. timers'[1] = Interval(reconnectAttempts')
    BY <1>t, <2>1, <2>3, <2>6
  <2>8. line' = "none"
    BY <1>4 DEF OnClose
  <2> QED
    BY <2>3, <2>4, <2>5, <2>6, <2>7, <2>8 DEF PaceInv
<1>5. CASE TimerFires
  <2>1. waited' = Interval(reconnectAttempts) /\ line' = "dialling" /\ UNCHANGED reconnectAttempts
    BY <1>5, FiresOnTime DEF TimerFires, Dial
  <2>2. Interval(reconnectAttempts) \in Nat
    BY <1>t, IntervalBounds, BrowserAssumption
  <2> QED
    BY <2>1, <2>2 DEF PaceInv
<1>6. CASE Leave
  BY <1>6 DEF Leave, PaceInv
<1>7. CASE LoggedIn \/ Reload
  <2>1. line' # "none" /\ waited' = 0 /\ reconnectAttempts' = 0
    BY <1>7 DEF LoggedIn, Reload, Load, Dial
  <2>2. Interval(0) >= 0
    BY IntervalBounds, BrowserAssumption
  <2> QED
    BY <2>1, <2>2 DEF PaceInv
<1>8. CASE Refuse \/ Upgrade \/ Register \/ Flush \/ FanOut
  BY <1>8, <1>a DEF Refuse, Upgrade, Register, Flush, FanOut
<1>9. CASE ProcessEnds \/ Drop
  BY <1>9, <1>a DEF ProcessEnds, Drop, CutOff, Hangs
<1>10. CASE Tick
  <2>1. CASE line # "none"
    BY <1>10, <2>1 DEF Tick, lineVars, PaceInv
  <2>2. CASE line = "none"
    <3>1. page # "away" /\ Len(timers) = 1
      BY <1>10, <2>2 DEF Tick, LineInv
    <3>2. timers[1] \in Nat /\ 1 \in DOMAIN timers
      <4>1. DOMAIN timers = 1..Len(timers)
        BY <1>t
      <4>2. 1 \in DOMAIN timers
        BY <3>1, <4>1
      <4> QED
        BY <1>t, <4>2
    <3>3. timers'[1] = timers[1] - 1 /\ quiet' = quiet + 1
      BY <1>10, <2>2, <3>2 DEF Tick
    <3>4. timers'[1] + quiet' = timers[1] + quiet
      BY <1>t, <3>2, <3>3
    <3> QED
      BY <1>10, <2>2, <3>1, <3>4 DEF Tick, lineVars, PaceInv
  <2> QED
    BY <2>1, <2>2
<1>11. CASE CookieExpires \/ ServerAlone \/ UNCHANGED vars
  BY <1>11, <1>a DEF CookieExpires, ServerAlone, vars, lineVars
<1>12. CASE Toggle \/ \E kind \in {Networks, Nodes, Services} : Select(kind)
  BY <1>12, <1>a DEF Toggle, Select, SwitchOn, SwitchOff, lineVars
<1> QED
  BY <1>1, <1>2, <1>3, <1>4, <1>5, <1>6, <1>7, <1>8, <1>9, <1>10, <1>11, <1>12
     DEF Next, TabStep, LineStep, UserStep

\* No redial comes sooner than two seconds after the end of a connection, none
\* later than the limit, and without a handshake the wait doubles up to it
\* (reconnectWebSocket and onopen of websocket.js).
THEOREM RetryPaceHolds == Spec => RetryPace
<1>1. Init => LineInv /\ PaceInv
  <2>1. Interval(0) >= 0
    BY IntervalBounds, BrowserAssumption
  <2> QED
    BY <2>1 DEF Init, LineInv, PaceInv
<1>2. TypeOK /\ LineInv /\ PaceInv /\ [Next]_vars =>
        [TimerFires => /\ quiet \in (2 * Second)..MaxInterval
                       /\ quiet >= Min(2 * waited, MaxInterval)]_vars
  <2> SUFFICES ASSUME TypeOK, LineInv, PaceInv, TimerFires
               PROVE  /\ quiet \in (2 * Second)..MaxInterval
                      /\ quiet >= Min(2 * waited, MaxInterval)
    OBVIOUS
  <2>1. reconnectAttempts \in 0..MaxAttempts /\ quiet \in Nat
    BY DEF TypeOK
  <2> QED
    BY <2>1, FiresOnTime, IntervalBounds, BrowserAssumption
<1> QED
  BY <1>1, <1>2, LineNext, PaceNext, TypeCorrect, PTL DEF Spec, RetryPace

----------------------------------------------------------------------------
(* The selections *)

\* Of the ids the browser knows, the selection holds all that are not switched
\* off; the page shows, and the user switched off, known ids only.
ViewInv ==
    /\ shown \subseteq filters.known
    /\ muted \subseteq filters.known
    /\ filters.selected \cap Ids = filters.known \ muted
    /\ ~filters.initialized => filters.known = {}

LEMMA ViewNext == TypeOK /\ ViewInv /\ [Next]_vars => ViewInv'
<1> SUFFICES ASSUME TypeOK, ViewInv, [Next]_vars PROVE ViewInv'
  OBVIOUS
<1>t. /\ filters \in Filters /\ shown \subseteq Ids /\ muted \subseteq Ids
      /\ filters.known \subseteq Ids /\ Standalone \notin Ids
  BY BrowserAssumption DEF TypeOK, Filters, Snapshots
<1>a. ASSUME UNCHANGED viewVars PROVE ViewInv'
  BY <1>a DEF viewVars, ViewInv
<1>b. ASSUME Load, UNCHANGED <<filters, muted>> PROVE ViewInv'
  BY <1>b DEF Load, ViewInv
<1>1. CASE OnUpdate
  <2> DEFINE s == Head(wire).ids
  <2>1. s \subseteq Ids
    BY <1>1, HandlesType DEF OnUpdate, Events, Snapshots
  <2>2. /\ shown' = s /\ muted' = muted \cap s
        /\ filters'.initialized = TRUE /\ filters'.known = Known(filters, s)
        /\ filters'.selected = Selected(filters, s)
    BY <1>1 DEF OnUpdate
  <2> HIDE DEF s
  <2>3. Known(filters, s) = s
    BY DEF Known
  <2>4. Selected(filters, s) \cap Ids = s \ (muted \cap s)
    <3>1. CASE filters.initialized
      BY <3>1, <1>t, <2>1 DEF Selected, ViewInv
    <3>2. CASE ~filters.initialized
      BY <3>2, <2>1 DEF Selected, ViewInv
    <3> QED
      BY <3>1, <3>2
  <2> QED
    BY <2>2, <2>3, <2>4 DEF ViewInv
<1>c. ASSUME NEW ids, SwitchOn(ids), ids \subseteq shown \cup {Standalone} PROVE ViewInv'
  <2>1. /\ shown' = shown /\ muted' = muted \ ids
        /\ filters'.initialized = filters.initialized /\ filters'.known = filters.known
        /\ filters'.selected = filters.selected \cup ids
    BY <1>c, <1>t DEF SwitchOn, Filters
  <2> QED
    BY <1>c, <1>t, <2>1 DEF ViewInv
<1>d. ASSUME NEW ids, SwitchOff(ids) PROVE ViewInv'
  <2>1. /\ shown' = shown /\ muted' = muted \cup ((filters.selected \cap ids) \ {Standalone})
        /\ filters'.initialized = filters.initialized /\ filters'.known = filters.known
        /\ filters'.selected = filters.selected \ ids
    BY <1>d, <1>t DEF SwitchOff, Filters
  <2>2. filters.selected \subseteq Ids \cup {Standalone}
    BY <1>t DEF Filters
  <2> QED
    BY <1>t, <2>1, <2>2 DEF ViewInv
<1>2. ASSUME NEW kind, Select(kind) PROVE ViewInv'
  BY <1>2, <1>c, <1>d DEF Select
<1>3. CASE Toggle
  BY <1>3, <1>c, <1>d DEF Toggle
<1>4. CASE LoggedIn \/ Reload
  BY <1>4, <1>b DEF LoggedIn, Reload
<1>5. CASE OnOpen \/ OnUnauthorized \/ OnError \/ OnClose \/ TimerFires \/ Leave
  BY <1>5, <1>a DEF OnOpen, OnUnauthorized, OnError, OnClose, TimerFires, Leave
<1>6. CASE LineStep
  BY <1>6, <1>a DEF LineStep, Refuse, Upgrade, Register, Flush, FanOut
<1>7. CASE Tick \/ ProcessEnds \/ Drop \/ CookieExpires \/ ServerAlone \/ UNCHANGED vars
  BY <1>7, <1>a DEF Tick, ProcessEnds, Drop, CookieExpires, ServerAlone, vars
<1> QED
  BY <1>1, <1>2, <1>3, <1>4, <1>5, <1>6, <1>7 DEF Next, TabStep, UserStep

\* What a page shows is selected unless the user switched it off since it
\* appeared (updateReceivedData of index.html).
THEOREM SelectionKeptHolds == Spec => []SelectionKept
<1>1. Init => ViewInv
  BY DEF Init, ViewInv
<1>2. TypeOK /\ ViewInv => SelectionKept
  BY DEF TypeOK, Snapshots, ViewInv, SelectionKept
<1> QED
  BY <1>1, <1>2, ViewNext, TypeCorrect, PTL DEF Spec

----------------------------------------------------------------------------
(* The health of a process that serves *)

\* A process has a frame for a client, or has sent one, only once it is Ready.
ReadyInv ==
    /\ pending # NoFrame => process # "down" /\ Ready
    /\ fed => process # "down" /\ Ready

LEMMA ReadyNext == ReadyInv /\ [Next]_vars => ReadyInv'
<1> SUFFICES ASSUME ReadyInv, [Next]_vars PROVE ReadyInv'
  OBVIOUS
<1> USE DEF ReadyInv, Ready
<1>1. CASE TabStep
  BY <1>1 DEF TabStep, OnOpen, OnUnauthorized, OnError, OnClose, OnUpdate, TimerFires,
     Leave, Dial, serverVars
<1>2. CASE Refuse \/ Upgrade \/ Register
  BY <1>2 DEF Refuse, Upgrade, Register, serverVars
<1>3. CASE Flush
  <2>1. pending # NoFrame
    BY <1>3 DEF Flush, NoFrame
  <2> QED
    BY <1>3, <2>1 DEF Flush, serverVars
<1>4. CASE FanOut
  <2>1. Frame(cluster) # NoFrame
    BY DEF Frame, NoFrame
  <2> QED
    BY <1>4, <2>1 DEF FanOut, Publish
<1>5. CASE UserStep
  BY <1>5 DEF UserStep, Select, Toggle, SwitchOn, SwitchOff, LoggedIn, Reload, Load, Dial,
     serverVars, lineVars
<1>6. CASE Tick \/ CookieExpires \/ UNCHANGED vars
  BY <1>6 DEF Tick, CookieExpires, vars, serverVars, lineVars
<1>7. CASE ProcessEnds \/ Drop
  BY <1>7 DEF ProcessEnds, Drop, CutOff
<1>8. CASE ServerAlone
  BY <1>8 DEF ServerAlone, Start, Terminate, SwarmChanges, RoomChanges, Probe, StopUnhealthy,
     lineVars
<1> QED
  BY <1>1, <1>2, <1>3, <1>4, <1>5, <1>6, <1>7, <1>8 DEF Next, LineStep

\* A process that has sent a snapshot fails no health check while it is up
\* (Hub.Ready, healthzHandler and cmd/healthcheck).
THEOREM ServingIsHealthyHolds == Spec => ServingIsHealthy
<1>1. Init => ReadyInv
  BY DEF Init, ServerInit, ReadyInv
<1>2. TypeOK /\ ReadyInv /\ [Next]_vars => [process = "up" /\ failures' > failures => ~fed]_vars
  <2> SUFFICES ASSUME TypeOK, ReadyInv, Next, process = "up", failures' > failures PROVE ~fed
    OBVIOUS
  <2>1. failures \in Nat
    BY ServerAssumption DEF TypeOK, ServerTypeOK
  <2>2. UNCHANGED failures \/ Start \/ Probe
    BY DEF Next, TabStep, OnOpen, OnUnauthorized, OnError, OnClose, OnUpdate, TimerFires,
       Leave, LineStep, Refuse, Upgrade, Register, Flush, FanOut, Publish, UserStep, Select,
       Toggle, SwitchOn, SwitchOff, LoggedIn, Reload, Tick, ProcessEnds, Exit, Drop,
       CookieExpires, ServerAlone, Terminate, SwarmChanges, RoomChanges, StopUnhealthy,
       serverVars
  <2>3. CASE Probe
    BY <2>1, <2>3 DEF Probe, Accepts, ReadyInv
  <2> QED
    BY <2>1, <2>2, <2>3 DEF Start
<1> QED
  BY <1>1, <1>2, ReadyNext, TypeCorrect, PTL DEF Spec, ServingIsHealthy

----------------------------------------------------------------------------
(* A served tab misses nothing *)

LastIsUpdate == wire # <<>> /\ wire[Len(wire)].kind = "update"

\* The newest snapshot for the tab: in its buffer on the server, on the wire, or
\* on the page.
NewestFrame ==
    IF pending # NoFrame THEN pending
    ELSE IF LastIsUpdate THEN Frame(wire[Len(wire)].ids)
    ELSE IF sent THEN Frame(shown) ELSE NoFrame

\* While the server serves the tab, the newest snapshot anywhere on the way to the
\* page, or on it, is the one last fanned out.
NothingMissed == line = "served" => NewestFrame = lastFanned

\* A line is served by a live process; before that nothing has been sent on it;
\* and what has been sent on it ends the wire until the page has it all.
WireInv ==
    /\ line = "served" => process # "down"
    /\ line \in {"dialling", "upgraded"} =>
         ~sent /\ pending = NoFrame /\ \A i \in 1..Len(wire) : wire[i].kind # "update"
    /\ line = "served" =>
         /\ sent /\ wire # <<>> => LastIsUpdate
         /\ (\E i \in 1..Len(wire) : wire[i].kind = "update") => sent

MissInv == WireInv /\ NothingMissed

\* A handler takes the first event; the last one stays last, if there is another.
LEMMA TakeFirst ==
    ASSUME TypeOK, NEW k, Handles(k)
    PROVE  /\ wire # <<>> /\ (wire' # <<>> => wire'[Len(wire')] = wire[Len(wire)])
           /\ wire' = <<>> /\ LastIsUpdate => k = "update" /\ wire[Len(wire)] = Head(wire)
           /\ \A i \in 1..Len(wire') : i + 1 \in 1..Len(wire) /\ wire'[i] = wire[i + 1]
           /\ k = "update" => wire # <<>> /\ 1 \in 1..Len(wire) /\ wire[1].kind = "update"
<1>1. wire \in Seq(Events) /\ wire # <<>> /\ wire' = Tail(wire) /\ Head(wire).kind = k
  BY DEF TypeOK, Handles
<1>2. Len(wire) \in Nat /\ Len(wire) > 0 /\ Head(wire) = wire[1]
  BY <1>1
<1>3. Len(wire') = Len(wire) - 1 /\ \A i \in 1..Len(wire') : wire'[i] = wire[i + 1]
  BY <1>1
<1>4. \A i \in 1..Len(wire') : i + 1 \in 1..Len(wire)
  BY <1>2, <1>3
<1>5. wire' \in Seq(Events)
  BY HandlesType
<1>6. wire' = <<>> <=> Len(wire) = 1
  BY <1>2, <1>3, <1>5
<1>7. ASSUME wire' # <<>> PROVE wire'[Len(wire')] = wire[Len(wire)]
  <2>1. Len(wire') \in 1..Len(wire') /\ Len(wire') + 1 = Len(wire)
    BY <1>2, <1>3, <1>6, <1>7
  <2> QED
    BY <1>3, <2>1
<1>8. ASSUME wire' = <<>>, LastIsUpdate PROVE k = "update" /\ wire[Len(wire)] = Head(wire)
  BY <1>1, <1>2, <1>6, <1>8 DEF LastIsUpdate
<1>9. k = "update" => 1 \in 1..Len(wire) /\ wire[1].kind = "update"
  BY <1>1, <1>2
<1> QED
  BY <1>1, <1>3, <1>4, <1>7, <1>8, <1>9

LEMMA MissNext == TypeOK /\ MissInv /\ [Next]_vars => MissInv'
<1> SUFFICES ASSUME TypeOK, MissInv, [Next]_vars PROVE MissInv'
  OBVIOUS
<1>a. ASSUME UNCHANGED <<line, wire, pending, sent, process, lastFanned>>, line = "served" => shown' = shown
      PROVE  MissInv'
  BY <1>a DEF MissInv, WireInv, NothingMissed, NewestFrame, LastIsUpdate
<1>b. ASSUME line' = "none" \/ line' = "ended" PROVE MissInv'
  BY <1>b DEF MissInv, WireInv, NothingMissed
<1>c. ASSUME Dial PROVE MissInv'
  BY <1>c DEF Dial, MissInv, WireInv, NothingMissed
<1>d. ASSUME NEW k, Handles(k), k # "update", UNCHANGED <<line, pending, sent, process, lastFanned, shown>>
      PROVE  MissInv'
  BY <1>d, TakeFirst DEF MissInv, WireInv, NothingMissed, NewestFrame, LastIsUpdate
<1>1. CASE OnOpen
  BY <1>1, <1>d DEF OnOpen, serverVars, viewVars
<1>2. CASE OnUnauthorized
  BY <1>2, <1>d DEF OnUnauthorized, serverVars, viewVars
<1>3. CASE OnError
  BY <1>3, <1>d DEF OnError, serverVars, viewVars
<1>4. CASE OnUpdate
  <2>1. Handles("update") /\ UNCHANGED <<line, pending, sent, process, lastFanned>> /\ shown' = Head(wire).ids
    BY <1>4 DEF OnUpdate, serverVars
  <2> QED
    BY <2>1, TakeFirst DEF MissInv, WireInv, NothingMissed, NewestFrame, LastIsUpdate
<1>5. CASE OnClose \/ Leave \/ Refuse
  BY <1>5, <1>b DEF OnClose, Leave, Refuse
<1>6. CASE TimerFires
  BY <1>6, <1>c DEF TimerFires
<1>7. CASE Upgrade
  BY <1>7 DEF Upgrade, serverVars, Event, MissInv, WireInv, NothingMissed
<1>8. CASE Register
  <2>1. CASE line' = "served"
    BY <1>8, <2>1 DEF Register, serverVars, MissInv, WireInv, NothingMissed, NewestFrame, LastIsUpdate
  <2> QED
    BY <1>8, <2>1, <1>b DEF Register
<1>9. CASE Flush
  <2>1. PICK s \in pending : wire' = Append(wire, Update(s))
    BY <1>9 DEF Flush
  <2>2. pending = Frame(s) /\ pending # NoFrame /\ s \in Snapshots
    BY <2>1 DEF TypeOK, Frames, Frame, NoFrame
  <2>3. Update(s) \in Events /\ Update(s).kind = "update" /\ Update(s).ids = s
    BY <2>2 DEF Update, Events, Kinds
  <2>4. wire' # <<>> /\ wire'[Len(wire')] = Update(s)
    BY <2>1, <2>3 DEF TypeOK
  <2> QED
    BY <1>9, <2>2, <2>3, <2>4 DEF Flush, serverVars, MissInv, WireInv, NothingMissed, NewestFrame, LastIsUpdate
<1>10. CASE FanOut
  <2>1. Frame(cluster) # NoFrame
    BY DEF Frame, NoFrame
  <2> QED
    BY <1>10, <2>1 DEF FanOut, Publish, tabVars, viewVars, MissInv, WireInv, NothingMissed, NewestFrame, LastIsUpdate
<1>11. CASE UserStep
  <2>1. ASSUME NEW ids, SwitchOn(ids) \/ SwitchOff(ids) PROVE MissInv'
    BY <2>1, <1>a DEF SwitchOn, SwitchOff, serverVars, lineVars
  <2>2. CASE LoggedIn \/ Reload
    BY <2>2, <1>c DEF LoggedIn, Reload, Load
  <2> QED
    BY <1>11, <2>1, <2>2 DEF UserStep, Select, Toggle
<1>12. CASE Tick \/ CookieExpires \/ UNCHANGED vars
  BY <1>12, <1>a DEF Tick, CookieExpires, vars, serverVars, lineVars, viewVars
<1>13. CASE ProcessEnds \/ Drop
  <2>1. line' \notin {"dialling", "upgraded", "served"}
    BY <1>13 DEF ProcessEnds, Drop, CutOff, Hangs
  <2> QED
    BY <2>1 DEF MissInv, WireInv, NothingMissed
<1>14. CASE ServerAlone
  <2>1. CASE Start
    BY <1>14, <2>1 DEF ServerAlone, Start, lineVars, viewVars, MissInv, WireInv, NothingMissed
  <2>2. CASE ~Start
    <3>1. lastFanned' = lastFanned /\ (process # "down" => process' # "down")
      BY <1>14, <2>2 DEF ServerAlone, Terminate, SwarmChanges, RoomChanges, Probe, StopUnhealthy
    <3> QED
      BY <1>14, <3>1 DEF ServerAlone, lineVars, viewVars, MissInv, WireInv, NothingMissed, NewestFrame, LastIsUpdate
  <2> QED
    BY <2>1, <2>2
<1> QED
  BY <1>1, <1>2, <1>3, <1>4, <1>5, <1>6, <1>7, <1>8, <1>9, <1>10, <1>11, <1>12, <1>13, <1>14
     DEF Next, TabStep, LineStep

\* No snapshot is lost between the hub and the page: through the buffer that keeps
\* only the newest one, the socket and the page's handlers, what a served tab will
\* show last is what was fanned out last (register, enqueue, writePump and
\* onmessage), also when it registers between two snapshots.
THEOREM NothingMissedHolds == Spec => []NothingMissed
<1>1. Init => MissInv
  BY DEF Init, ServerInit, MissInv, WireInv, NothingMissed
<1>2. MissInv => NothingMissed
  BY DEF MissInv
<1> QED
  BY <1>1, <1>2, MissNext, TypeCorrect, PTL DEF Spec

\* A served tab with nothing left on its way shows what the swarm holds, once the
\* inspector has published it: the state that CatchesUp ends in is right.
THEOREM DrainedIsCurrent ==
    Spec => [](/\ line = "served" /\ pending = NoFrame /\ wire = <<>>
               /\ lastFanned = Frame(cluster)
               => shown = cluster)
<1>1. NothingMissed =>
        (/\ line = "served" /\ pending = NoFrame /\ wire = <<>>
         /\ lastFanned = Frame(cluster)
         => shown = cluster)
  BY DEF NothingMissed, NewestFrame, LastIsUpdate, Frame, NoFrame
<1> QED
  BY <1>1, NothingMissedHolds, PTL

----------------------------------------------------------------------------
(* The way to the login page *)

Ends == {"error", "close"}

\* After a 401 a socket brings only its end.
RefusedInv ==
    \A i \in 1..Len(wire) : wire[i].kind = "401" =>
        line = "ended" /\ Len(wire) <= i + 2 /\ \A j \in 1..Len(wire) : j > i => wire[j].kind \in Ends

\* A page that waits for the login page has a socket that could tell it to ask
\* again only after two seconds without one.
AskedInv ==
    page = "leaving" =>
        \/ line = "none"
        \/ line = "ended" /\ \A i \in 1..Len(wire) : wire[i].kind \in Ends
        \/ quiet >= 2 * Second

\* What a handler leaves on the wire.
LEMMA TakeOne ==
    ASSUME TypeOK, NEW k, Handles(k)
    PROVE  /\ 1 \in 1..Len(wire) /\ wire[1].kind = k
           /\ Len(wire) \in Nat /\ Len(wire') = Len(wire) - 1
           /\ \A i \in 1..Len(wire') : i + 1 \in 1..Len(wire) /\ wire'[i] = wire[i + 1]
<1>1. wire \in Seq(Events) /\ wire # <<>> /\ wire' = Tail(wire) /\ Head(wire).kind = k
  BY DEF TypeOK, Handles
<1>2. Len(wire) \in Nat /\ Len(wire) > 0 /\ Head(wire) = wire[1]
  BY <1>1
<1>3. Len(wire') = Len(wire) - 1 /\ \A i \in 1..Len(wire') : wire'[i] = wire[i + 1]
  BY <1>1
<1>4. \A i \in 1..Len(wire') : i + 1 \in 1..Len(wire)
  BY <1>2, <1>3
<1> QED
  BY <1>1, <1>2, <1>3, <1>4

\* The end of a connection, after something that holds a 401 at its end or none.
LEMMA EndRefused ==
    ASSUME NEW w \in Seq(Events), NEW end \in Endings,
           \A i \in 1..Len(w) : w[i].kind = "401" => i = Len(w)
    PROVE  /\ Len(w \o end) \in Nat
           /\ \A i \in 1..Len(w \o end) : (w \o end)[i].kind = "401" =>
                /\ Len(w \o end) <= i + 2
                /\ \A j \in 1..Len(w \o end) : j > i => (w \o end)[j].kind \in Ends
<1>1. end \in Seq(Events) /\ Len(end) \in 1..2
  BY EndingsShape
<1>2. \A i \in 1..Len(end) : end[i].kind \in Ends
  <2>1. Event("close").kind = "close" /\ Event("error").kind = "error"
    BY DEF Event
  <2>2. CASE end = <<Event("close")>>
    BY <2>1, <2>2 DEF Ends
  <2>3. CASE end = <<Event("error"), Event("close")>>
    <3>1. Len(end) = 2 /\ end[1] = Event("error") /\ end[2] = Event("close")
      BY <2>3
    <3> QED
      BY <2>1, <3>1 DEF Ends
  <2> QED
    BY <2>2, <2>3 DEF Endings
<1>3. Len(w \o end) = Len(w) + Len(end) /\ Len(w) \in Nat /\ Len(end) \in Nat
  BY <1>1
<1>4. \A i \in 1..Len(w \o end) :
        (w \o end)[i] = IF i <= Len(w) THEN w[i] ELSE end[i - Len(w)]
  BY <1>1
<1>5. \A i \in 1..Len(w \o end) : i > Len(w) => i - Len(w) \in 1..Len(end)
  BY <1>3
<1>6. \A j \in 1..Len(w \o end) : j > Len(w) => (w \o end)[j].kind \in Ends
  BY <1>2, <1>3, <1>4, <1>5
<1>7. ASSUME NEW i \in 1..Len(w \o end), (w \o end)[i].kind = "401" PROVE i = Len(w)
  BY <1>3, <1>4, <1>6, <1>7 DEF Ends
<1>8. Len(w \o end) \in Nat /\ Len(w \o end) <= Len(w) + 2
  <2> DEFINE m == Len(w)  n == Len(end)
  <2>1. m \in Nat /\ n \in 1..2 /\ Len(w \o end) = m + n
    BY <1>1, <1>3
  <2> HIDE DEF m, n
  <2>2. m + n \in Nat /\ m + n <= m + 2
    BY <2>1
  <2> QED
    BY <2>1, <2>2 DEF m
<1> QED
  BY <1>6, <1>7, <1>8

LEMMA RefusedNext == TypeOK /\ LineInv /\ RefusedInv /\ [Next]_vars => RefusedInv'
<1> SUFFICES ASSUME TypeOK, LineInv, RefusedInv, [Next]_vars PROVE RefusedInv'
  OBVIOUS
<1>t. wire \in Seq(Events) /\ Len(wire) \in Nat
  BY DEF TypeOK
<1>a. ASSUME UNCHANGED <<line, wire>> PROVE RefusedInv'
  BY <1>a DEF RefusedInv
<1>b. ASSUME NEW k, Handles(k), UNCHANGED line PROVE RefusedInv'
  <2> SUFFICES ASSUME NEW i \in 1..Len(wire'), wire'[i].kind = "401"
               PROVE  /\ line' = "ended" /\ Len(wire') <= i + 2
                      /\ \A j \in 1..Len(wire') : j > i => wire'[j].kind \in Ends
    BY DEF RefusedInv
  <2>1. i + 1 \in 1..Len(wire) /\ wire[i + 1].kind = "401"
    BY <1>b, TakeOne
  <2>2. /\ line = "ended" /\ Len(wire) <= i + 3
        /\ \A j \in 1..Len(wire) : j > i + 1 => wire[j].kind \in Ends
    BY <2>1 DEF RefusedInv
  <2> QED
    BY <1>b, <2>2, TakeOne
<1>d. ASSUME wire' = <<>> PROVE RefusedInv'
  BY <1>d DEF RefusedInv
<1>1. CASE OnOpen \/ OnUnauthorized \/ OnError \/ OnUpdate
  BY <1>1, <1>b DEF OnOpen, OnUnauthorized, OnError, OnUpdate
<1>2. CASE OnClose
  <2>1. Handles("close")
    BY <1>2 DEF OnClose
  <2>2. Len(wire) = 1
    BY <2>1, TakeOne DEF LineInv
  <2> QED
    BY <2>1, <2>2, TakeOne DEF RefusedInv
<1>3. CASE TimerFires \/ Leave \/ LoggedIn \/ Reload
  BY <1>3, <1>d DEF TimerFires, Leave, LoggedIn, Reload, Load, Dial
<1>f. ASSUME line # "ended" PROVE \A i \in 1..Len(wire) : wire[i].kind # "401"
  BY <1>f DEF RefusedInv
<1>8. CASE Refuse
  <2>1. Len(wire') = 2 /\ wire'[1] = Event("error") /\ wire'[2] = Event("close")
    BY <1>8 DEF Refuse
  <2> QED
    BY <2>1 DEF RefusedInv, Event
<1>9. CASE Upgrade
  <2>1. Len(wire') = 1 /\ wire'[1] = Event("open")
    BY <1>9 DEF Upgrade
  <2> QED
    BY <2>1 DEF RefusedInv, Event
<1>10. CASE Register
  <2> DEFINE w == Append(wire, Event("401"))
  <2>1. \A i \in 1..Len(wire) : wire[i].kind # "401"
    BY <1>10, <1>f DEF Register
  <2>2. CASE ~cookie
    <3>1. Event("401") \in Events
      BY EventsInType DEF Kinds
    <3>2. w \in Seq(Events) /\ Len(w) = Len(wire) + 1 /\ \A i \in 1..Len(wire) : w[i] = wire[i]
      BY <1>t, <3>1
    <3>3. \A i \in 1..Len(w) : w[i].kind = "401" => i = Len(w)
      BY <1>t, <2>1, <3>2
    <3>4. PICK end \in Endings : wire' = w \o end
      BY <1>10, <2>2 DEF Register
    <3> HIDE DEF w
    <3> QED
      BY <1>10, <2>2, <3>2, <3>3, <3>4, EndRefused DEF RefusedInv, Register
  <2>3. CASE cookie /\ ~room
    <3>1. PICK end \in Endings : wire' = wire \o end
      BY <1>10, <2>3 DEF Register
    <3> QED
      BY <1>10, <1>t, <2>1, <2>3, <3>1, EndRefused DEF RefusedInv, Register
  <2>4. CASE cookie /\ room
    BY <1>10, <2>1, <2>4 DEF Register, RefusedInv
  <2> QED
    BY <2>2, <2>3, <2>4
<1>11. CASE Flush
  <2>1. PICK s \in pending : wire' = Append(wire, Update(s))
    BY <1>11 DEF Flush
  <2>2. Update(s) \in Events /\ Update(s).kind # "401"
    BY <2>1, EventsInType, FrameType DEF Update, TypeOK
  <2>3. \A i \in 1..Len(wire) : wire[i].kind # "401"
    BY <1>11, <1>f DEF Flush
  <2>4. \A i \in 1..Len(wire') : wire'[i].kind # "401"
    BY <1>t, <2>1, <2>2, <2>3
  <2> QED
    BY <2>4 DEF RefusedInv
<1>g. ASSUME CutOff PROVE RefusedInv'
  <2>1. CASE ~Hangs
    BY <1>g, <2>1, <1>a DEF CutOff
  <2>2. CASE Hangs
    <3>1. PICK end \in Endings : wire' = wire \o end
      BY <1>g, <2>2 DEF CutOff
    <3>2. \A i \in 1..Len(wire) : wire[i].kind # "401"
      BY <2>2, <1>f DEF Hangs
    <3> QED
      BY <1>g, <1>t, <2>2, <3>1, <3>2, EndRefused DEF RefusedInv, CutOff
  <2> QED
    BY <2>1, <2>2
<1>12. CASE ProcessEnds \/ Drop
  BY <1>12, <1>g DEF ProcessEnds, Drop
<1>13. CASE Tick \/ FanOut \/ CookieExpires \/ ServerAlone \/ UNCHANGED vars
  BY <1>13, <1>a DEF Tick, FanOut, CookieExpires, ServerAlone, vars, lineVars
<1>14. CASE Toggle \/ \E kind \in {Networks, Nodes, Services} : Select(kind)
  BY <1>14, <1>a DEF Toggle, Select, SwitchOn, SwitchOff, lineVars
<1> QED
  BY <1>1, <1>2, <1>3, <1>8, <1>9, <1>10, <1>11, <1>12, <1>13, <1>14
     DEF Next, TabStep, LineStep, UserStep

LEMMA AskedNext ==
    TypeOK /\ LineInv /\ PaceInv /\ RefusedInv /\ AskedInv /\ [Next]_vars => AskedInv'
<1> SUFFICES ASSUME TypeOK, LineInv, PaceInv, RefusedInv, AskedInv, [Next]_vars PROVE AskedInv'
  OBVIOUS
<1>t. quiet \in Nat /\ Len(wire) \in Nat /\ wire \in Seq(Events)
  BY DEF TypeOK
<1>a. ASSUME UNCHANGED <<page, line, wire, quiet>> PROVE AskedInv'
  BY <1>a DEF AskedInv
<1>b. ASSUME NEW k, Handles(k), UNCHANGED <<page, line, quiet>> PROVE AskedInv'
  BY <1>b, TakeOne DEF AskedInv
<1>1. CASE OnOpen \/ OnError \/ OnUpdate
  BY <1>1, <1>b DEF OnOpen, OnError, OnUpdate, tabVars
<1>2. CASE OnUnauthorized
  <2>1. Handles("401") /\ UNCHANGED line
    BY <1>2 DEF OnUnauthorized
  <2>2. line = "ended" /\ \A j \in 1..Len(wire) : j > 1 => wire[j].kind \in Ends
    BY <2>1, TakeOne DEF RefusedInv
  <2>3. \A i \in 1..Len(wire') : wire'[i].kind \in Ends
    BY <2>1, <2>2, TakeOne
  <2> QED
    BY <2>1, <2>2, <2>3 DEF AskedInv
<1>3. CASE OnClose
  BY <1>3 DEF OnClose, AskedInv
<1>4. CASE TimerFires
  <2>1. quiet >= 2 * Second
    BY <1>4, FiresOnTime, IntervalBounds, BrowserAssumption DEF TypeOK
  <2> QED
    BY <1>4, <2>1 DEF TimerFires, AskedInv
<1>5. CASE Leave \/ LoggedIn \/ Reload
  BY <1>5 DEF Leave, LoggedIn, Reload, Load, AskedInv
<1>c. ASSUME line \in {"dialling", "upgraded", "served"}, UNCHANGED <<page, quiet>> PROVE AskedInv'
  BY <1>c DEF AskedInv
<1>6. CASE Refuse \/ Upgrade \/ Register \/ Flush
  BY <1>6, <1>c DEF Refuse, Upgrade, Register, Flush, tabVars
<1>7. CASE ProcessEnds \/ Drop
  BY <1>7, <1>a, <1>c DEF ProcessEnds, Drop, CutOff, Hangs, tabVars
<1>8. CASE Tick
  BY <1>8, <1>t, BrowserAssumption DEF Tick, lineVars, AskedInv
<1>9. CASE FanOut \/ CookieExpires \/ ServerAlone \/ UNCHANGED vars
  BY <1>9, <1>a DEF FanOut, CookieExpires, ServerAlone, vars, lineVars, tabVars
<1>10. CASE Toggle \/ \E kind \in {Networks, Nodes, Services} : Select(kind)
  BY <1>10, <1>a DEF Toggle, Select, SwitchOn, SwitchOff, lineVars, tabVars
<1> QED
  BY <1>1, <1>2, <1>3, <1>4, <1>5, <1>6, <1>7, <1>8, <1>9, <1>10
     DEF Next, TabStep, LineStep, UserStep

LEMMA AskedInvariance == Spec => [](TypeOK /\ LineInv /\ PaceInv /\ RefusedInv /\ AskedInv)
<1>1. Init => LineInv /\ PaceInv /\ RefusedInv /\ AskedInv
  <2>1. Interval(0) >= 0
    BY IntervalBounds, BrowserAssumption
  <2> QED
    BY <2>1 DEF Init, LineInv, PaceInv, RefusedInv, AskedInv
<1> QED
  BY <1>1, LineNext, PaceNext, RefusedNext, AskedNext, TypeCorrect, PTL DEF Spec

\* A page asks for the login page again only after two seconds without a
\* connection, however long its navigations take and however often they are cut
\* short: no navigation of less than that is ever restarted.
THEOREM NavigationPaceHolds == Spec => NavigationPace
<1>1. TypeOK /\ LineInv /\ AskedInv /\ [Next]_vars =>
        [OnUnauthorized /\ page = "leaving" => quiet >= 2 * Second]_vars
  <2> SUFFICES ASSUME TypeOK, LineInv, AskedInv, OnUnauthorized, page = "leaving"
               PROVE  quiet >= 2 * Second
    OBVIOUS
  <2>1. 1 \in 1..Len(wire) /\ wire[1].kind = "401"
    BY TakeOne DEF OnUnauthorized
  <2>2. wire # <<>>
    BY <2>1
  <2> QED
    BY <2>1, <2>2 DEF AskedInv, LineInv, Ends
<1> QED
  BY <1>1, AskedInvariance, PTL DEF Spec, NavigationPace

\* What happens to a page whose navigation is in time: the clock, the end of its
\* socket, or nothing, until it has left.
LEMMA LeavingStep ==
    ASSUME TypeOK, LineInv, InTime, [Next]_vars
    PROVE  /\ Tick => page' = page /\ nav > 0 /\ nav' = nav - 1 /\ line' = line /\ wire' = wire
           /\ TabStep => \/ page' # "leaving"
                         \/ nav' = nav /\ Len(wire') = Len(wire) - 1
           /\ \/ Tick \/ TabStep \/ page' # "leaving"
              \/ UNCHANGED <<page, nav, line, wire, timers>>
           /\ page' # "leaving" \/ InTime'
<1>t. /\ timers \in Seq(Nat) /\ nav \in Nat /\ wire \in Seq(Events)
      /\ Len(wire) \in Nat /\ Len(timers) \in Nat
  BY DEF TypeOK
<1>k. /\ page = "leaving" /\ line \in {"none", "ended"}
      /\ \A i \in 1..Len(wire) : wire[i].kind \in Ends
  BY DEF InTime, Ends
<1>1. ASSUME Tick
      PROVE  /\ page' = page /\ nav > 0 /\ nav' = nav - 1 /\ line' = line /\ wire' = wire
             /\ InTime'
  <2>1. page' = page /\ nav > 0 /\ nav' = nav - 1 /\ line' = line /\ wire' = wire
    BY <1>1, <1>k DEF Tick, lineVars
  <2>2. Len(timers') = Len(timers) /\ \A i \in 1..Len(timers) : timers'[i] = timers[i] - 1
    BY <1>1, <1>t DEF Tick
  <2>3. \A i \in 1..Len(timers) : timers[i] \in Nat
    BY <1>t
  <2>4. InTime'
    BY <1>t, <2>1, <2>2, <2>3, BrowserAssumption DEF InTime
  <2> QED
    BY <2>1, <2>4
<1>2. ASSUME NEW k, Handles(k) PROVE k \in Ends /\ Len(wire') = Len(wire) - 1
  BY <1>2, <1>k, TakeOne
<1>3. ~OnOpen /\ ~OnUnauthorized /\ ~OnUpdate
  BY <1>2 DEF OnOpen, OnUnauthorized, OnUpdate, Ends
<1>4. ~TimerFires
  <2> SUFFICES ASSUME TimerFires PROVE FALSE
    OBVIOUS
  <2>1. 1 \in 1..Len(timers) /\ timers[1] = 0
    BY <1>t DEF TimerFires
  <2> QED
    BY <1>t, <2>1 DEF InTime
<1>5. ASSUME OnError \/ OnClose PROVE nav' = nav /\ Len(wire') = Len(wire) - 1
  BY <1>5, <1>2 DEF OnError, OnClose, tabVars
<1>6. OnError => InTime'
  <2> SUFFICES ASSUME OnError PROVE InTime'
    OBVIOUS
  <2>1. Handles("error") /\ UNCHANGED <<page, nav, line, timers>>
    BY DEF OnError, tabVars
  <2> QED
    BY <1>t, <2>1, TakeOne DEF InTime
<1>7. OnClose => InTime'
  <2> SUFFICES ASSUME OnClose PROVE InTime'
    OBVIOUS
  <2>1. Handles("close") /\ line' = "none" /\ UNCHANGED <<page, nav>>
    BY DEF OnClose
  <2>2. Len(wire) = 1 /\ line = "ended"
    BY <2>1, TakeOne DEF LineInv
  <2>3. Len(wire') = 0
    BY <2>1, <2>2, TakeOne
  <2>4. timers = <<>>
    BY <2>2, <1>t DEF LineInv
  <2>5. reconnectAttempts' \in 0..MaxAttempts /\ reconnectAttempts' > 0
    BY ManyAttempts, BrowserAssumption DEF OnClose, Reconnect, Min, TypeOK
  <2>6. Interval(reconnectAttempts') \in Nat /\ Interval(reconnectAttempts') >= 2 * Second
    BY <2>5, IntervalBounds, BrowserAssumption
  <2>7. Interval(reconnectAttempts') > nav
    BY <1>t, <2>2, <2>6, BrowserAssumption DEF InTime
  <2>8. Len(timers') = 1 /\ timers'[1] = Interval(reconnectAttempts')
    BY <2>4 DEF OnClose, Reconnect
  <2> QED
    BY <1>k, <2>1, <2>3, <2>7, <2>8 DEF InTime
<1>8. Leave => page' # "leaving"
  BY DEF Leave
<1> DEFINE Same == UNCHANGED <<page, nav, line, wire, timers>>
<1>9. LineStep => Same
  BY <1>k DEF LineStep, Refuse, Upgrade, Register, Flush, FanOut, tabVars
<1>10. UserStep => page' # "leaving" \/ Same
  BY DEF UserStep, Select, Toggle, SwitchOn, SwitchOff, LoggedIn, Reload, Load, lineVars, tabVars
<1>11. ProcessEnds \/ Drop => Same
  BY <1>k DEF ProcessEnds, Drop, CutOff, Hangs, tabVars
<1>12. CookieExpires \/ ServerAlone \/ UNCHANGED vars => Same
  BY DEF CookieExpires, ServerAlone, vars, lineVars, tabVars
<1>13. Same => InTime'
  BY DEF InTime
<1> HIDE DEF Same
<1>14. TabStep => page' # "leaving" \/ (nav' = nav /\ Len(wire') = Len(wire) - 1 /\ InTime')
  BY <1>3, <1>4, <1>5, <1>6, <1>7, <1>8 DEF TabStep
<1>15. Tick \/ TabStep \/ page' # "leaving" \/ Same
  BY <1>9, <1>10, <1>11, <1>12 DEF Next
<1>16. page' # "leaving" \/ InTime'
  BY <1>1, <1>13, <1>14, <1>15
<1>17. Tick \/ TabStep \/ page' # "leaving" \/ UNCHANGED <<page, nav, line, wire, timers>>
  BY <1>15 DEF Same
<1> QED
  BY <1>1, <1>14, <1>16, <1>17

\* A navigation in time, k ticks before it is through, with n events on the wire.
Navigating(k) == InTime /\ nav = k
Through(n) == Navigating(0) /\ Len(wire) = n

\* The lengths a wire of at most two events can have.
LEMMA AtMostTwo == ASSUME NEW n \in Nat, n <= 2 PROVE n \in {0, 1, 2}
  OBVIOUS

\* A navigation that is faster than the next dial comes closer to its end with the
\* clock, stays faster, and at its end the page is gone once the last events of its
\* socket are handled.  Chained over the ticks that it takes this is LoginReached.
THEOREM NavigationAdvances ==
    ASSUME NEW k \in Nat
    PROVE  FairSpec /\ []NavigationCanRun =>
             (Navigating(k) ~> (page # "leaving" \/ (k > 0 /\ Navigating(k - 1))))
<1> DEFINE Inv == TypeOK /\ LineInv
<1>1. CASE k > 0
  <2>1. Inv /\ [Next]_vars /\ Navigating(k) =>
          Navigating(k)' \/ (page # "leaving")' \/ Navigating(k - 1)'
    <3> SUFFICES ASSUME Inv, [Next]_vars, InTime, nav = k, page' = "leaving"
                 PROVE  InTime' /\ (nav' = k \/ nav' = k - 1)
      BY DEF Navigating
    <3> QED
      BY LeavingStep
  <2>2. Inv /\ [Next]_vars /\ Navigating(k) /\ <<Tick>>_vars => Navigating(k - 1)'
    <3> SUFFICES ASSUME Inv, [Next]_vars, InTime, nav = k, Tick
                 PROVE  InTime' /\ nav' = k - 1
      BY DEF Navigating
    <3>1. page = "leaving"
      BY DEF InTime
    <3> QED
      BY <3>1, LeavingStep
  <2>3. Inv /\ NavigationCanRun /\ Navigating(k) => ENABLED <<Tick>>_vars
    <3> SUFFICES ASSUME Inv, NavigationCanRun, Navigating(k) PROVE ENABLED <<Tick>>_vars
      OBVIOUS
    <3>1. \A i \in DOMAIN timers : timers[i] > 0
      BY <1>1 DEF TypeOK, InTime, Navigating
    <3> QED
      BY <1>1, <3>1 DEF NavigationCanRun, Navigating, InTime
  <2>4. FairSpec /\ []NavigationCanRun =>
          (Navigating(k) ~> (page # "leaving" \/ Navigating(k - 1)))
    BY <2>1, <2>2, <2>3, AskedInvariance, PTL DEF FairSpec, Spec
  <2>5. page # "leaving" \/ Navigating(k - 1) => page # "leaving" \/ (k > 0 /\ Navigating(k - 1))
    BY <1>1
  <2> QED
    BY <2>4, <2>5, PTL
<1>2. CASE k = 0
  <2>a. ASSUME TypeOK PROVE Len(wire) \in Nat
    BY <2>a DEF TypeOK
  <2>b. ASSUME TypeOK, [Next]_vars PROVE Len(wire') \in Nat
    <3>1. TypeOK'
      BY <2>b, TypeNext
    <3> QED
      BY <3>1 DEF TypeOK
  <2>c. ASSUME Inv, [Next]_vars, InTime, nav = 0
        PROVE  /\ TabStep => page' # "leaving" \/ (nav' = 0 /\ Len(wire') = Len(wire) - 1)
               /\ TabStep \/ page' # "leaving" \/ (page' = "leaving" /\ nav' = 0 /\ wire' = wire)
    BY <2>c, LeavingStep
  <2>1. Inv /\ Navigating(k) => Through(0) \/ Through(1) \/ Through(2)
    <3> SUFFICES ASSUME Inv, InTime, nav = k PROVE Len(wire) \in {0, 1, 2}
      BY <1>2 DEF Navigating, Through
    <3>1. Len(wire) <= 2
      BY DEF InTime
    <3>2. Len(wire) \in Nat
      BY <2>a
    <3> QED
      BY <3>1, <3>2, AtMostTwo
  <2>d. ASSUME Inv, [Next]_vars, NEW n \in {0, 1, 2}, Through(n), page' = "leaving"
        PROVE  InTime' /\ nav' = 0 /\ ((~TabStep /\ Len(wire') = n) \/ (Len(wire') = n - 1 /\ n > 0))
    <3>1. InTime /\ page = "leaving" /\ nav = 0 /\ Len(wire) = n
      BY <2>d DEF Through, Navigating, InTime
    <3>0. InTime'
      BY <2>d, <3>1, LeavingStep
    <3>2. wire' = wire => Len(wire') = n
      BY <3>1
    <3>3. n - 1 \in Nat => n > 0
      OBVIOUS
    <3>4. Len(wire') \in Nat
      BY <2>b, <2>d
    <3>5. /\ TabStep => nav' = 0 /\ Len(wire') = Len(wire) - 1
          /\ TabStep \/ (nav' = 0 /\ wire' = wire)
      BY <2>c, <2>d, <3>1
    <3>6. TabStep => Len(wire') = n - 1 /\ n - 1 \in Nat
      BY <3>1, <3>4, <3>5
    <3>7. CASE TabStep
      <4>1. n > 0
        BY <3>3, <3>6, <3>7
      <4> QED
        BY <3>0, <3>5, <3>6, <3>7, <4>1
    <3>8. CASE ~TabStep
      <4>1. nav' = 0 /\ Len(wire') = n
        BY <3>2, <3>5, <3>8
      <4> QED
        BY <3>0, <3>8, <4>1
    <3> QED
      BY <3>7, <3>8
  <2>e. 2 - 1 = 1 /\ 1 - 1 = 0 /\ ~(0 > 0)
    OBVIOUS
  <2>2. ASSUME Inv, [Next]_vars
        PROVE  /\ Through(2) => Through(2)' \/ Through(1)' \/ (page # "leaving")'
               /\ Through(1) => Through(1)' \/ Through(0)' \/ (page # "leaving")'
               /\ Through(0) => Through(0)' \/ (page # "leaving")'
    <3>1. Through(2) /\ page' = "leaving" => InTime' /\ nav' = 0 /\ (Len(wire') = 2 \/ Len(wire') = 1)
      BY <2>2, <2>d, <2>e
    <3>2. Through(1) /\ page' = "leaving" => InTime' /\ nav' = 0 /\ (Len(wire') = 1 \/ Len(wire') = 0)
      BY <2>2, <2>d, <2>e
    <3>3. Through(0) /\ page' = "leaving" => InTime' /\ nav' = 0 /\ Len(wire') = 0
      BY <2>2, <2>d, <2>e
    <3> QED
      BY <3>1, <3>2, <3>3 DEF Through, Navigating
  <2>3. ASSUME Inv, [Next]_vars, <<TabStep>>_vars
        PROVE  /\ Through(2) => Through(1)' \/ (page # "leaving")'
               /\ Through(1) => Through(0)' \/ (page # "leaving")'
               /\ Through(0) => (page # "leaving")'
    <3>1. Through(2) /\ page' = "leaving" => InTime' /\ nav' = 0 /\ Len(wire') = 1
      BY <2>3, <2>d, <2>e
    <3>2. Through(1) /\ page' = "leaving" => InTime' /\ nav' = 0 /\ Len(wire') = 0
      BY <2>3, <2>d, <2>e
    <3>3. Through(0) => page' # "leaving"
      BY <2>3, <2>d, <2>e
    <3> QED
      BY <3>1, <3>2, <3>3 DEF Through, Navigating
  <2>4. NavigationCanRun =>
          (Through(0) \/ Through(1) \/ Through(2) => ENABLED <<TabStep>>_vars)
    BY DEF NavigationCanRun, Navigating, Through, InTime
  <2>5. FairSpec /\ []NavigationCanRun => (Navigating(k) ~> page # "leaving")
    BY <2>1, <2>2, <2>3, <2>4, AskedInvariance, PTL DEF FairSpec, Spec
  <2> QED
    BY <2>5, PTL
<1> QED
  BY <1>1, <1>2
=============================================================================
