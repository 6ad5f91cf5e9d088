-------------------------- MODULE KeepaliveProofs --------------------------
(* Proofs of the safety properties of Keepalive, for all timings that       *)
(* satisfy KeepaliveAssumption.                                             *)
EXTENDS Keepalive, TLAPS

\* The longest n snapshots can take to write.
Wait(n) == n * WriteTimeout

\* Somewhere on the way from the ticker through the pump and the peer and back
\* is a pong that arrives before the read deadline.
PongAhead ==
    \/ \E a \in flight : deadline > RoundTrip - a
    \/ pump = "ping" /\ deadline > left + RoundTrip
    \/ ticked /\ deadline > left + Wait(Margin - skips) + WriteTimeout + RoundTrip
    \/ ~ticked /\ deadline > ticker + Wait(Margin) + 2 * WriteTimeout + RoundTrip

SkipsOfTick == ~ticked => skips = 0

\* Nothing but the read deadline takes a responsive peer's connection away.
Open == peer = "responsive" /\ registered => pump \notin {"close", "done"}

Kept == peer = "responsive" /\ ~starved => registered /\ PongAhead

\* No pong left a silent peer, so each one under way is older than its silence.
Silence ==
    /\ peer # "silent" => silentFor = 0
    /\ peer = "silent" => \A a \in flight : a >= silentFor
    /\ registered => silentFor + deadline <= PongWait + RoundTrip

IInv == KeepaliveTypeOK /\ SkipsOfTick /\ Open /\ Kept /\ Silence
-----------------------------------------------------------------------------
\* Wait is additive and grows: the arithmetic of the pump's delays.
LEMMA WaitFacts ==
    /\ Wait(Margin) = Margin * WriteTimeout
    /\ \A n \in 0..Margin : Wait(n) \in Nat /\ Wait(n) <= Wait(Margin)
    /\ \A n \in 1..Margin : Wait(n - 1) + WriteTimeout = Wait(n)
  <1> USE KeepaliveAssumption
  <1>1. \A n \in 0..Margin : n * WriteTimeout \in Nat
    OBVIOUS
  <1>2. \A n \in 0..Margin : (Margin - n) * WriteTimeout \in Nat
    OBVIOUS
  <1>3. \A n \in 0..Margin :
            Margin * WriteTimeout = n * WriteTimeout + (Margin - n) * WriteTimeout
    OBVIOUS
  <1>4. \A n \in 1..Margin : (n - 1) * WriteTimeout + WriteTimeout = n * WriteTimeout
    OBVIOUS
  <1>5. \A n \in 0..Margin : n * WriteTimeout <= Margin * WriteTimeout
    BY <1>1, <1>2, <1>3
  <1> QED
    BY <1>1, <1>4, <1>5 DEF Wait

\* The assumption on the timings, in terms of Wait.
LEMMA Timings ==
    PingPeriod + Wait(Margin) + 2 * WriteTimeout + RoundTrip < PongWait
  BY KeepaliveAssumption DEF Wait

\* A fresh read deadline leaves room for the next pong, whatever the pump does.
LEMMA FreshDeadline ==
    KeepaliveTypeOK /\ SkipsOfTick /\ deadline = PongWait => PongAhead
  <1> SUFFICES ASSUME KeepaliveTypeOK, SkipsOfTick, deadline = PongWait PROVE PongAhead
    OBVIOUS
  <1> USE KeepaliveAssumption, WaitFacts, Timings
  <1>1. CASE ticked
    <2>1. left <= WriteTimeout /\ left \in Nat /\ Margin - skips \in 0..Margin
      BY DEF KeepaliveTypeOK
    <2>2. Wait(Margin - skips) \in Nat /\ Wait(Margin - skips) <= Wait(Margin)
          /\ Wait(Margin) \in Nat
      BY <2>1
    <2>3. deadline > left + Wait(Margin - skips) + WriteTimeout + RoundTrip
      BY <2>1, <2>2
    <2> QED
      BY <1>1, <2>3 DEF PongAhead
  <1>2. CASE ~ticked
    <2>1. ticker \in 0..PingPeriod /\ Wait(Margin) \in Nat
      BY DEF KeepaliveTypeOK
    <2>2. deadline > ticker + Wait(Margin) + 2 * WriteTimeout + RoundTrip
      BY <2>1
    <2> QED
      BY <1>2, <2>2 DEF PongAhead
  <1> QED
    BY <1>1, <1>2

\* A connection just registered has its whole pong wait ahead.
LEMMA InitIInv == KeepaliveInit => IInv
  <1> SUFFICES ASSUME KeepaliveInit PROVE IInv
    OBVIOUS
  <1> USE KeepaliveAssumption
  <1>1. KeepaliveTypeOK
    <2>1. registered \in BOOLEAN /\ ticked \in BOOLEAN /\ send \in BOOLEAN /\ pushed \in BOOLEAN
          /\ starved \in BOOLEAN
      BY Zenon DEF KeepaliveInit
    <2>2. /\ deadline \in 0..PongWait /\ ticker \in 0..PingPeriod
          /\ left \in 0..WriteTimeout /\ skips \in 0..Margin
          /\ flight \subseteq 0..RoundTrip /\ silentFor \in 0..MaxSilence
      BY DEF KeepaliveInit, MaxSilence
    <2> QED
      BY <2>1, <2>2 DEF KeepaliveInit, KeepaliveTypeOK
  <1>2. SkipsOfTick /\ Silence
    BY DEF KeepaliveInit, SkipsOfTick, Silence
  <1>3. PongAhead
    BY <1>1, <1>2, FreshDeadline DEF KeepaliveInit
  <1>4. Open /\ Kept
    BY <1>3 DEF KeepaliveInit, Open, Kept
  <1> QED
    BY <1>1, <1>2, <1>4 DEF IInv

\* The deadline of a responsive peer that gets its pings is never over.
LEMMA DeadlineAhead ==
    ASSUME IInv, peer = "responsive", ~starved
    PROVE  deadline > 0
  <1> USE KeepaliveAssumption
  <1>1. KeepaliveTypeOK /\ PongAhead
    BY DEF IInv, Kept
  <1>2. left \in Nat /\ ticker \in Nat /\ deadline \in Nat /\ \A a \in flight : a \in 0..RoundTrip
    BY <1>1 DEF KeepaliveTypeOK
  <1>3. Margin - skips \in 0..Margin
    BY <1>1 DEF KeepaliveTypeOK
  <1>4. Wait(Margin - skips) \in Nat /\ Wait(Margin) \in Nat
    BY <1>3, WaitFacts
  <1> QED
    BY <1>1, <1>2, <1>4 DEF PongAhead

\* What the pump and the ticker do never takes the next pong away, unless it
\* starves the ping.
LEMMA PumpKeepsPong ==
    ASSUME IInv, PongAhead, ~starved',
           \/ Push \/ Fire \/ WriteFrame \/ WritePing
           \/ Written /\ peer = "responsive" /\ pump # "close"
    PROVE  PongAhead'
  <1> USE KeepaliveAssumption
  <1>1. /\ left \in 0..WriteTimeout /\ ticker \in 0..PingPeriod /\ deadline \in Nat
        /\ skips \in 0..Margin /\ ticked \in BOOLEAN
        /\ \A a \in flight : a \in 0..RoundTrip
    BY DEF IInv, KeepaliveTypeOK
  <1>2. Margin - skips \in 0..Margin /\ Margin \in 0..Margin
    BY <1>1
  <1>3. /\ Wait(Margin - skips) \in Nat /\ Wait(Margin) \in Nat
        /\ Wait(Margin - skips) <= Wait(Margin)
    BY <1>2, WaitFacts
  <1>4. deadline' = deadline /\ flight \subseteq flight'
    BY DEF Push, Fire, WriteFrame, WritePing, Written
  <1>5. CASE \E a \in flight : deadline > RoundTrip - a
    BY <1>4, <1>5 DEF PongAhead
  <1>6. CASE pump = "ping" /\ deadline > left + RoundTrip
    <2>1. CASE Push \/ Fire
      BY <2>1, <1>6, <1>4 DEF Push, Fire, PongAhead
    <2>2. CASE WriteFrame \/ WritePing
      BY <2>2, <1>6 DEF WriteFrame, WritePing
    <2>3. CASE Written /\ peer = "responsive"
      <3>1. 0 \in flight' /\ deadline > RoundTrip - 0
        BY <2>3, <1>1, <1>6 DEF Written
      <3> QED
        BY <3>1, <1>4 DEF PongAhead
    <2> QED
      BY <2>1, <2>2, <2>3
  <1>7. CASE ticked /\ deadline > left + Wait(Margin - skips) + WriteTimeout + RoundTrip
    <2>1. CASE Push \/ Fire
      BY <2>1, <1>7, <1>4 DEF Push, Fire, PongAhead
    <2>2. CASE WriteFrame
      <3>0. skips # Margin
        BY <2>2, <1>7, Zenon DEF WriteFrame
      <3>1. /\ skips' = skips + 1 /\ skips < Margin /\ left' = WriteTimeout
            /\ UNCHANGED ticked
        BY <2>2, <3>0, <1>1, <1>7 DEF WriteFrame
      <3>2. Margin - skips \in 1..Margin /\ (Margin - skips) - 1 = Margin - skips'
            /\ Margin - skips' \in 0..Margin
        BY <3>1, <1>1
      <3>3. Wait(Margin - skips') + WriteTimeout = Wait(Margin - skips)
            /\ Wait(Margin - skips') \in Nat
        BY <3>2, WaitFacts
      <3>4. deadline' > left' + Wait(Margin - skips') + WriteTimeout + RoundTrip
        BY <3>1, <3>3, <1>1, <1>3, <1>4, <1>7
      <3> QED
        BY <3>1, <3>4, <1>7 DEF PongAhead, Wait
    <2>3. CASE WritePing
      <3>1. pump' = "ping" /\ left' = WriteTimeout
        BY <2>3 DEF WritePing
      <3>2. deadline' > left' + RoundTrip
        BY <3>1, <1>1, <1>3, <1>4, <1>7
      <3> QED
        BY <3>1, <3>2 DEF PongAhead
    <2>4. CASE Written
      <3>1. left' = 0 /\ UNCHANGED <<ticked, skips>>
        BY <2>4 DEF Written
      <3>2. deadline' > left' + Wait(Margin - skips) + WriteTimeout + RoundTrip
        BY <3>1, <1>1, <1>3, <1>4, <1>7
      <3> QED
        BY <3>1, <3>2, <1>7 DEF PongAhead, Wait
    <2> QED
      BY <2>1, <2>2, <2>3, <2>4
  <1>8. CASE ~ticked /\ deadline > ticker + Wait(Margin) + 2 * WriteTimeout + RoundTrip
    <2>1. CASE Push
      BY <2>1, <1>8, <1>4 DEF Push, PongAhead, Wait
    <2>2. CASE Fire
      <3>1. ticked' /\ skips' = 0 /\ left' = left /\ ticker = 0
        BY <2>2, <1>8 DEF Fire, IInv, SkipsOfTick
      <3>2. Margin - skips' = Margin
        BY <3>1
      <3>3. deadline' > left' + Wait(Margin) + WriteTimeout + RoundTrip
        BY <3>1, <1>1, <1>3, <1>4, <1>8
      <3> QED
        BY <3>1, <3>2, <3>3 DEF PongAhead, Wait
    <2>3. CASE WriteFrame \/ Written
      BY <2>3, <1>8, <1>4 DEF WriteFrame, Written, PongAhead, Wait
    <2>4. CASE WritePing
      BY <2>4, <1>8 DEF WritePing
    <2> QED
      BY <2>1, <2>2, <2>3, <2>4
  <1> QED
    BY <1>5, <1>6, <1>7, <1>8 DEF PongAhead

\* Time brings the next pong as much nearer as the deadline.
LEMMA TickKeepsPong ==
    ASSUME IInv, PongAhead, peer = "responsive", ~starved, Elapse
    PROVE  PongAhead'
  <1> USE KeepaliveAssumption
  <1>1. /\ left \in 0..WriteTimeout /\ ticker \in 0..PingPeriod /\ deadline \in Nat
        /\ skips \in 0..Margin /\ \A a \in flight : a \in 0..RoundTrip
    BY DEF IInv, KeepaliveTypeOK
  <1>2. registered /\ pump \in Writing \cup {"select"}
    BY DEF IInv, KeepaliveTypeOK, Open, Kept, Writing
  <1>3. /\ deadline' = deadline - 1 /\ ticker' = ticker - 1
        /\ UNCHANGED <<ticked, skips, pump>>
    BY <1>2 DEF Elapse
  <1>4. Margin - skips \in 0..Margin /\ Margin \in 0..Margin
    BY <1>1
  <1>5. Wait(Margin - skips) \in Nat /\ Wait(Margin) \in Nat
    BY <1>4, WaitFacts
  <1>6. CASE \E a \in flight : deadline > RoundTrip - a
    <2>1. PICK a \in flight : deadline > RoundTrip - a
      BY <1>6
    <2>2. a # RoundTrip
      BY <1>2 DEF Elapse, Due
    <2>3. a + 1 \in flight'
      BY <2>2 DEF Elapse
    <2>4. deadline' > RoundTrip - (a + 1)
      BY <2>1, <1>1, <1>3
    <2> QED
      BY <2>3, <2>4 DEF PongAhead
  <1>7. CASE pump = "ping" /\ deadline > left + RoundTrip
    <2>1. left' = left - 1
      BY <1>7 DEF Elapse, Writing
    <2>2. deadline' > left' + RoundTrip
      BY <2>1, <1>1, <1>3, <1>7
    <2> QED
      BY <2>2, <1>3, <1>7 DEF PongAhead
  <1>8. CASE ticked /\ deadline > left + Wait(Margin - skips) + WriteTimeout + RoundTrip
    <2>1. left' = left - 1
      BY <1>2, <1>8 DEF Elapse, Due
    <2>2. deadline' > left' + Wait(Margin - skips) + WriteTimeout + RoundTrip
      BY <2>1, <1>1, <1>3, <1>5, <1>8
    <2> QED
      BY <2>2, <1>3, <1>8 DEF PongAhead, Wait
  <1>9. CASE ~ticked /\ deadline > ticker + Wait(Margin) + 2 * WriteTimeout + RoundTrip
    <2>1. deadline' > ticker' + Wait(Margin) + 2 * WriteTimeout + RoundTrip
      BY <1>1, <1>3, <1>5, <1>9
    <2> QED
      BY <2>1, <1>3, <1>9 DEF PongAhead, Wait
  <1> QED
    BY <1>6, <1>7, <1>8, <1>9 DEF PongAhead
-----------------------------------------------------------------------------
\* Every step keeps the types.
LEMMA TypeStep == KeepaliveTypeOK /\ [KeepaliveNext]_keepaliveVars => KeepaliveTypeOK'
  <1> SUFFICES ASSUME KeepaliveTypeOK, [KeepaliveNext]_keepaliveVars PROVE KeepaliveTypeOK'
    OBVIOUS
  <1> USE KeepaliveAssumption
  <1> DEFINE Flags == /\ registered \in BOOLEAN /\ ticked \in BOOLEAN
                      /\ send \in BOOLEAN /\ pushed \in BOOLEAN /\ starved \in BOOLEAN
             Rest == /\ deadline \in 0..PongWait /\ ticker \in 0..PingPeriod
                     /\ pump \in Writing \cup {"select", "done"}
                     /\ left \in 0..WriteTimeout /\ skips \in 0..Margin
                     /\ flight \subseteq 0..RoundTrip
                     /\ peer \in {"responsive", "silent", "closed"}
                     /\ silentFor \in 0..MaxSilence
  <1>1. Rest
    BY DEF KeepaliveTypeOK
  <1>2. Flags'
    BY Zenon DEF KeepaliveTypeOK, KeepaliveNext, keepaliveVars, Pump, Push, Fire, WriteFrame, WritePing, WriteClose,
                 Written, WriteFails, Pong, ReadFails, PeerLeaves, Over, Elapse
  <1>3. Push \/ Fire \/ WritePing \/ WriteClose => Rest'
    <2>1. Push => Rest'
      BY <1>1 DEF Push
    <2>2. Fire => Rest'
      <3>1. PingPeriod \in 0..PingPeriod
        OBVIOUS
      <3> QED
        BY <1>1, <3>1 DEF Fire
    <2>3. WritePing => Rest'
      BY <1>1 DEF WritePing, Writing
    <2>4. WriteClose => Rest'
      BY <1>1 DEF WriteClose, Writing
    <2> QED
      BY <2>1, <2>2, <2>3, <2>4
  <1>4. WriteFrame => Rest'
    BY <1>1 DEF WriteFrame, Writing
  <1>5. Written \/ WriteFails => Rest'
    <2>1. ASSUME Written PROVE Rest'
      <3>1. flight' \subseteq 0..RoundTrip
        <4>1. flight' \subseteq flight \cup {0}
          BY <2>1 DEF Written
        <4>2. 0 \in 0..RoundTrip
          OBVIOUS
        <4> QED
          BY <4>1, <4>2, <1>1
      <3>2. pump' \in Writing \cup {"select", "done"} /\ left' \in 0..WriteTimeout
        BY <2>1 DEF Written
      <3> QED
        BY <3>1, <3>2, <2>1, <1>1 DEF Written
    <2>2. WriteFails => Rest'
      BY <1>1 DEF WriteFails
    <2> QED
      BY <2>1, <2>2
  <1>6. ReadFails \/ PeerLeaves => Rest'
    BY <1>1 DEF ReadFails, PeerLeaves
  <1>7. ASSUME NEW a \in flight, Pong(a) PROVE Rest'
    BY <1>1, <1>7 DEF Pong, PongExtends
  <1>8. ASSUME Elapse PROVE Rest'
    <2>1. deadline' \in 0..PongWait /\ ticker' \in 0..PingPeriod /\ left' \in 0..WriteTimeout
      BY <1>1, <1>8 DEF Elapse, Due, Writing
    <2>2. flight' \subseteq 0..RoundTrip
      <3>1. \A a \in flight \ {RoundTrip} : a + 1 \in 0..RoundTrip
        BY <1>1
      <3>2. flight' = {a + 1 : a \in flight \ {RoundTrip}}
        BY <1>8 DEF Elapse
      <3> QED
        BY <3>1, <3>2
    <2>3. silentFor' \in 0..MaxSilence
      BY <1>1, <1>8 DEF Elapse, MaxSilence
    <2> QED
      BY <2>1, <2>2, <2>3, <1>1, <1>8 DEF Elapse
  <1>9. Over \/ UNCHANGED keepaliveVars => Rest'
    BY <1>1 DEF Over, keepaliveVars
  <1>10. Rest'
    <2> HIDE DEF Rest
    <2> QED
      BY <1>3, <1>4, <1>5, <1>6, <1>7, <1>8, <1>9 DEF KeepaliveNext, Pump
  <1> QED
    BY <1>2, <1>10 DEF KeepaliveTypeOK

LEMMA StepIInv == IInv /\ [KeepaliveNext]_keepaliveVars => IInv'
  <1> SUFFICES ASSUME IInv, [KeepaliveNext]_keepaliveVars PROVE IInv'
    OBVIOUS
  <1> USE KeepaliveAssumption
  <1>1. KeepaliveTypeOK /\ KeepaliveTypeOK'
    BY TypeStep DEF IInv
  <1>2. CASE Push \/ Fire \/ WriteFrame \/ WritePing
    <2>1. SkipsOfTick'
      BY <1>2 DEF IInv, SkipsOfTick, Push, Fire, WriteFrame, WritePing
    <2>2. Silence'
      BY <1>2 DEF IInv, Silence, Push, Fire, WriteFrame, WritePing
    <2>3. Open'
      BY <1>2 DEF IInv, Open, Push, Fire, WriteFrame, WritePing
    <2>4. starved => starved'
      BY <1>2 DEF Push, Fire, WriteFrame, WritePing
    <2>5. Kept'
      BY <1>2, <2>4, PumpKeepsPong DEF IInv, Kept, Push, Fire, WriteFrame, WritePing
    <2> QED
      BY <2>1, <2>2, <2>3, <2>5, <1>1 DEF IInv
  <1>3. CASE WriteClose \/ WriteFails
    <2>1. ~(peer = "responsive" /\ registered)
      BY <1>3 DEF WriteClose, WriteFails, ChannelClosed
    <2>2. SkipsOfTick' /\ Silence' /\ Open' /\ Kept'
      BY <1>3, <2>1 DEF IInv, SkipsOfTick, Silence, Open, Kept, WriteClose, WriteFails
    <2> QED
      BY <2>2, <1>1 DEF IInv
  <1>4. CASE Written
    <2>1. SkipsOfTick'
      BY <1>4 DEF IInv, SkipsOfTick, Written
    <2>2. Silence'
      BY <1>4 DEF IInv, Silence, Written
    <2>3. Open'
      BY <1>4 DEF IInv, Open, Written, Writing
    <2>4. Kept'
      BY <1>4, PumpKeepsPong DEF IInv, Open, Kept, Written, Writing
    <2> QED
      BY <2>1, <2>2, <2>3, <2>4, <1>1 DEF IInv
  <1>5. ASSUME NEW a \in flight, Pong(a) PROVE IInv'
    <2>1. deadline' = PongWait /\ UNCHANGED <<registered, ticked, skips, peer, pump, silentFor>>
          /\ flight' = flight \ {a}
      BY <1>5 DEF Pong, PongExtends
    <2>2. SkipsOfTick'
      BY <2>1 DEF IInv, SkipsOfTick
    <2>3. PongAhead'
      <3>1. (KeepaliveTypeOK /\ SkipsOfTick /\ deadline = PongWait => PongAhead)'
        BY FreshDeadline, PTL
      <3> QED
        BY <3>1, <2>1, <2>2, <1>1
    <2>4. Open' /\ Kept'
      BY <2>1, <2>3, <1>5 DEF IInv, Open, Kept, Pong
    <2>5. silentFor <= RoundTrip
      <3>1. a \in 0..RoundTrip /\ silentFor \in Nat
        BY <1>1 DEF KeepaliveTypeOK, MaxSilence
      <3> QED
        BY <3>1 DEF IInv, Silence
    <2>6. Silence'
      BY <2>1, <2>5, <1>1 DEF IInv, Silence, KeepaliveTypeOK, MaxSilence
    <2> QED
      BY <2>2, <2>4, <2>6, <1>1 DEF IInv
  <1>6. CASE ReadFails
    <2>1. ~(peer = "responsive" /\ ~starved)
      BY <1>6, DeadlineAhead, <1>1 DEF ReadFails, IInv, Open, KeepaliveTypeOK
    <2> QED
      BY <2>1, <1>1, <1>6 DEF IInv, SkipsOfTick, Open, Kept, Silence, ReadFails
  <1>7. CASE PeerLeaves
    <2>1. SkipsOfTick' /\ Open' /\ Kept'
      BY <1>7 DEF IInv, SkipsOfTick, Open, Kept, PeerLeaves
    <2>2. \A a \in flight : a >= 0
      BY <1>1 DEF KeepaliveTypeOK
    <2>3. Silence'
      BY <1>7, <2>2 DEF IInv, Silence, PeerLeaves
    <2> QED
      BY <2>1, <2>3, <1>1 DEF IInv
  <1>8. CASE Elapse
    <2>1. SkipsOfTick'
      BY <1>8 DEF IInv, SkipsOfTick, Elapse
    <2>2. Open' /\ Kept'
      BY <1>8, TickKeepsPong DEF IInv, Open, Kept, Elapse
    <2>3. silentFor \in Nat /\ deadline \in Nat /\ silentFor' \in Nat /\ deadline' \in Nat
          /\ silentFor' <= silentFor + 1
      BY <1>1, <1>8 DEF KeepaliveTypeOK, MaxSilence, Elapse
    <2>4. peer = "silent" => \A a \in flight' : a >= silentFor'
      <3> SUFFICES ASSUME peer = "silent", NEW a \in flight' PROVE a >= silentFor'
        OBVIOUS
      <3>1. PICK b \in flight : a = b + 1
        BY <1>8 DEF Elapse
      <3>2. b >= silentFor /\ b \in Nat
        BY <1>1 DEF IInv, Silence, KeepaliveTypeOK
      <3> QED
        BY <3>1, <3>2, <2>3
    <2>5. Silence'
      BY <2>3, <2>4, <1>8 DEF IInv, Silence, Elapse
    <2> QED
      BY <2>1, <2>2, <2>5, <1>1 DEF IInv
  <1>9. CASE Over \/ UNCHANGED keepaliveVars
    <2>1. UNCHANGED keepaliveVars
      BY <1>9 DEF Over
    <2>2. SkipsOfTick' /\ Open' /\ Kept' /\ Silence'
      BY <2>1 DEF IInv, SkipsOfTick, Open, Kept, PongAhead, Silence, keepaliveVars, Wait
    <2> QED
      BY <2>2, <1>1 DEF IInv
  <1> QED
    BY <1>2, <1>3, <1>4, <1>5, <1>6, <1>7, <1>8, <1>9 DEF KeepaliveNext, Pump

LEMMA Invariance == KeepaliveSpec => []IInv
  BY InitIInv, StepIInv, PTL DEF KeepaliveSpec
-----------------------------------------------------------------------------
\* The timers, the pump and the deadlines have their types.
THEOREM TypeCorrect == KeepaliveSpec => []KeepaliveTypeOK
  <1>1. IInv => KeepaliveTypeOK
    BY DEF IInv
  <1> QED
    BY <1>1, Invariance, PTL

\* writePump's pings keep a live peer's deadline fresh, for every choice of
\* timings, until one of them is passed over more often than they leave room for.
THEOREM ResponsiveKeptHolds == KeepaliveSpec => []ResponsiveKept
  <1>1. IInv => ResponsiveKept
    BY DEF IInv, Open, Kept, ResponsiveKept
  <1> QED
    BY <1>1, Invariance, PTL

\* The read deadline frees the slot of a vanished peer in bounded time.
THEOREM SilentReapedHolds == KeepaliveSpec => []SilentReaped
  <1>1. IInv => SilentReaped
    <2> SUFFICES ASSUME IInv, registered PROVE silentFor <= PongWait + RoundTrip
      BY DEF SilentReaped
    <2>1. silentFor \in Nat /\ deadline \in Nat
      BY DEF IInv, KeepaliveTypeOK, MaxSilence
    <2> QED
      BY <2>1, KeepaliveAssumption DEF IInv, Silence
  <1> QED
    BY <1>1, Invariance, PTL
=============================================================================
