----------------------------- MODULE HubProofs -----------------------------
(***************************************************************************)
(* The safety of the hub for any set of connections, any cap and any       *)
(* number of snapshots.                                                    *)
(***************************************************************************)
EXTENDS Hub, FiniteSetTheorems, TLAPS

InClients == {"start", "read", "unregister"}

\* Which goroutines of a connection run, and what they may still touch.
Registry ==
    \A c \in Conns :
        /\ c \in clients <=> handler[c] \in InClients
        /\ c \in clients => ~closed[c]
        /\ handler[c] \in {"upgrade", "validate", "register", "start"} => pump[c] = "off"
        /\ handler[c] \in {"upgrade", "validate", "register"} => written[c] = 0 /\ ~closed[c]
        /\ handler[c] \in {"read", "unregister"} => pump[c] # "off"
        /\ pump[c] \in {"off", "exited"} => inflight[c] = 0
        /\ pump[c] = "write" => inflight[c] # 0
        /\ pump[c] = "select" => inflight[c] = 0

\* Where runBroadcasts is, and what it holds.
FanOut ==
    /\ todo \subseteq clients /\ cur \subseteq todo
    /\ \A c, d \in cur : c = d
    /\ bpc \in {"recv", "lock"} => todo = {}
    /\ bpc \in {"recv", "lock", "range"} => cur = {}
    /\ bpc \in {"range", "drain", "retry"} => msg = lastFanned
    /\ bpc = "retry" => \A c \in cur : send[c] = 0

\* Frames leave the channel in the order of Publish, none lost, none twice.
Counting ==
    /\ broadcast # 0 => broadcast = published
    /\ bpc = "lock" => msg = lastFanned + 1
    /\ published = lastFanned + (IF bpc = "lock" THEN 1 ELSE 0) + (IF broadcast # 0 THEN 1 ELSE 0)

\* A client still to be served has only older frames.
Behind == \A c \in todo : send[c] < lastFanned /\ inflight[c] < lastFanned /\ written[c] < lastFanned

IInv == TypeOK /\ Registry /\ FanOut /\ Counting /\ Behind /\ InOrder /\ UpToDate
-----------------------------------------------------------------------------
LEMMA InitIInv == Init => IInv
  BY DEF Init, IInv, TypeOK, Registry, FanOut, Counting, Behind, InOrder, UpToDate, Newest,
         InClients, BPC, HPC, PPC

LEMMA Step == IInv /\ [Next]_vars => IInv'
  <1> SUFFICES ASSUME IInv, [Next]_vars PROVE IInv'
    OBVIOUS
  <1> USE DEF IInv, TypeOK, BPC, HPC, PPC, bvars, cvars, pvars
  <1>1. CASE Publish
    BY <1>1 DEF Publish, Registry, FanOut, Counting, Behind, InOrder, UpToDate, Newest, InClients
  <1>2. CASE Receive
    BY <1>2 DEF Receive, Registry, FanOut, Counting, Behind, InOrder, UpToDate, Newest, InClients
  <1>3. CASE Lock
    <2>1. TypeOK'
      BY <1>3 DEF Lock
    <2>2. Registry'
      BY <1>3 DEF Lock, Registry, InClients
    <2>3. FanOut'
      BY <1>3 DEF Lock, FanOut, Counting
    <2>4. Counting'
      BY <1>3 DEF Lock, Counting, FanOut
    <2>5. Behind'
      BY <1>3 DEF Lock, Behind, InOrder, Counting, FanOut
    <2>6. InOrder'
      BY <1>3 DEF Lock, InOrder, Counting
    <2>7. UpToDate'
      BY <1>3 DEF Lock, UpToDate, Newest
    <2> QED
      BY <2>1, <2>2, <2>3, <2>4, <2>5, <2>6, <2>7
  <1>4. CASE Unlock
    BY <1>4 DEF Unlock, Registry, FanOut, Counting, Behind, InOrder, UpToDate, Newest, InClients
  <1>5. ASSUME NEW c \in Conns, TrySend(c) PROVE IInv'
    <2>1. TypeOK'
      BY <1>5 DEF TrySend
    <2>2. Registry'
      BY <1>5 DEF TrySend, Registry, InClients
    <2>3. FanOut'
      BY <1>5 DEF TrySend, FanOut
    <2>4. Counting'
      BY <1>5 DEF TrySend, Counting
    <2>5. Behind'
      BY <1>5 DEF TrySend, Behind, InOrder
    <2>6. InOrder'
      BY <1>5 DEF TrySend, InOrder, FanOut, Behind
    <2>7. UpToDate'
      BY <1>5 DEF TrySend, UpToDate, Newest, FanOut, Behind
    <2> QED
      BY <2>1, <2>2, <2>3, <2>4, <2>5, <2>6, <2>7
  <1>6. ASSUME NEW c \in Conns, Drain(c) PROVE IInv'
    <2>1. TypeOK'
      BY <1>6 DEF Drain, DropStale
    <2>2. Registry'
      BY <1>6 DEF Drain, DropStale, Registry, InClients
    <2>3. FanOut'
      BY <1>6 DEF Drain, DropStale, FanOut
    <2>4. Counting'
      BY <1>6 DEF Drain, DropStale, Counting
    <2>5. Behind'
      BY <1>6 DEF Drain, DropStale, Behind, InOrder
    <2>6. InOrder'
      BY <1>6 DEF Drain, DropStale, InOrder, FanOut, Behind
    <2>7. UpToDate'
      BY <1>6 DEF Drain, DropStale, UpToDate, Newest, FanOut
    <2> QED
      BY <2>1, <2>2, <2>3, <2>4, <2>5, <2>6, <2>7
  <1>7. ASSUME NEW c \in Conns, Retry(c) PROVE IInv'
    <2>1. TypeOK'
      BY <1>7 DEF Retry
    <2>2. Registry'
      BY <1>7 DEF Retry, Registry, InClients
    <2>3. FanOut'
      BY <1>7 DEF Retry, FanOut
    <2>4. Counting'
      BY <1>7 DEF Retry, Counting
    <2>5. Behind'
      BY <1>7 DEF Retry, Behind, InOrder
    <2>6. InOrder'
      BY <1>7 DEF Retry, InOrder, FanOut, Behind
    <2>7. UpToDate'
      BY <1>7 DEF Retry, UpToDate, Newest, FanOut, Behind
    <2> QED
      BY <2>1, <2>2, <2>3, <2>4, <2>5, <2>6, <2>7
  <1>8. ASSUME NEW c \in Conns, Connect(c) PROVE IInv'
    <2>1. TypeOK'
      BY <1>8 DEF Connect
    <2>2. Registry'
      BY <1>8 DEF Connect, Registry, InClients
    <2>3. FanOut'
      BY <1>8 DEF Connect, FanOut, Registry, InClients
    <2>4. Counting'
      BY <1>8 DEF Connect, Counting
    <2>5. Behind'
      BY <1>8 DEF Connect, Behind, InOrder, FanOut, Registry, InClients
    <2>6. InOrder'
      BY <1>8 DEF Connect, InOrder
    <2>7. UpToDate'
      BY <1>8 DEF Connect, UpToDate, Newest, Registry, InClients
    <2> QED
      BY <2>1, <2>2, <2>3, <2>4, <2>5, <2>6, <2>7
  <1>9. ASSUME NEW c \in Conns, UpgradeFails(c) PROVE IInv'
    BY <1>9 DEF UpgradeFails, Registry, FanOut, Counting, Behind, InOrder, UpToDate, Newest, InClients
  <1>10. ASSUME NEW c \in Conns, Upgrade(c) PROVE IInv'
    BY <1>10 DEF Upgrade, Registry, FanOut, Counting, Behind, InOrder, UpToDate, Newest, InClients
  <1>11. ASSUME NEW c \in Conns, Validate(c) PROVE IInv'
    BY <1>11 DEF Validate, Registry, FanOut, Counting, Behind, InOrder, UpToDate, Newest, InClients
  <1>12. ASSUME NEW c \in Conns, RegisterRefused(c) PROVE IInv'
    BY <1>12 DEF RegisterRefused, Registry, FanOut, Counting, Behind, InOrder, UpToDate, Newest, InClients
  <1>13. ASSUME NEW c \in Conns, Register(c) PROVE IInv'
    <2>1. TypeOK'
      BY <1>13 DEF Register, MuFree, Seed
    <2>2. Registry'
      BY <1>13 DEF Register, MuFree, Seed, Registry, InClients
    <2>3. FanOut'
      BY <1>13 DEF Register, MuFree, Seed, FanOut, Registry
    <2>4. Counting'
      BY <1>13 DEF Register, MuFree, Seed, Counting
    <2>5. Behind'
      BY <1>13 DEF Register, MuFree, Seed, Behind, InOrder, FanOut
    <2>6. InOrder'
      BY <1>13 DEF Register, MuFree, Seed, InOrder, Registry, InClients
    <2>7. UpToDate'
      BY <1>13 DEF Register, MuFree, Seed, UpToDate, Newest, Registry, InClients, FanOut
    <2> QED
      BY <2>1, <2>2, <2>3, <2>4, <2>5, <2>6, <2>7
  <1>14. ASSUME NEW c \in Conns, Start(c) PROVE IInv'
    BY <1>14 DEF Start, Registry, FanOut, Counting, Behind, InOrder, UpToDate, Newest, InClients
  <1>15. ASSUME NEW c \in Conns, ReadFails(c) PROVE IInv'
    BY <1>15 DEF ReadFails, Registry, FanOut, Counting, Behind, InOrder, UpToDate, Newest, InClients
  <1>16. ASSUME NEW c \in Conns, Unregister(c) PROVE IInv'
    <2>1. TypeOK'
      BY <1>16 DEF Unregister, MuFree, CloseSend
    <2>2. Registry'
      BY <1>16 DEF Unregister, MuFree, CloseSend, Registry, InClients
    <2>3. FanOut'
      BY <1>16 DEF Unregister, MuFree, CloseSend, FanOut
    <2>4. Counting'
      BY <1>16 DEF Unregister, MuFree, CloseSend, Counting
    <2>5. Behind'
      BY <1>16 DEF Unregister, MuFree, CloseSend, Behind, InOrder, FanOut
    <2>6. InOrder'
      BY <1>16 DEF Unregister, MuFree, CloseSend, InOrder
    <2>7. UpToDate'
      BY <1>16 DEF Unregister, MuFree, CloseSend, UpToDate, Newest
    <2> QED
      BY <2>1, <2>2, <2>3, <2>4, <2>5, <2>6, <2>7
  <1>17. ASSUME NEW c \in Conns, PumpTake(c) PROVE IInv'
    <2>1. TypeOK'
      BY <1>17 DEF PumpTake
    <2>2. Registry'
      BY <1>17 DEF PumpTake, Registry, InClients
    <2>3. FanOut'
      BY <1>17 DEF PumpTake, FanOut, Registry
    <2>4. Counting'
      BY <1>17 DEF PumpTake, Counting
    <2>5. Behind'
      BY <1>17 DEF PumpTake, Behind, InOrder, Registry
    <2>6. InOrder'
      BY <1>17 DEF PumpTake, InOrder, Registry
    <2>7. UpToDate'
      BY <1>17 DEF PumpTake, UpToDate, Newest, Registry
    <2> QED
      BY <2>1, <2>2, <2>3, <2>4, <2>5, <2>6, <2>7
  <1>18. ASSUME NEW c \in Conns, PumpWrite(c) PROVE IInv'
    <2>1. TypeOK'
      BY <1>18 DEF PumpWrite
    <2>2. Registry'
      BY <1>18 DEF PumpWrite, Registry, InClients
    <2>3. FanOut'
      BY <1>18 DEF PumpWrite, FanOut
    <2>4. Counting'
      BY <1>18 DEF PumpWrite, Counting
    <2>5. Behind'
      BY <1>18 DEF PumpWrite, Behind, InOrder, Registry
    <2>6. InOrder'
      BY <1>18 DEF PumpWrite, InOrder, Registry
    <2>7. UpToDate'
      BY <1>18 DEF PumpWrite, UpToDate, Newest, Registry, InOrder
    <2> QED
      BY <2>1, <2>2, <2>3, <2>4, <2>5, <2>6, <2>7
  <1>19. ASSUME NEW c \in Conns, PumpExit(c), pump[c] \in {"select", "write"} PROVE IInv'
    BY <1>19 DEF PumpExit, Registry, FanOut, Counting, Behind, InOrder, UpToDate, Newest, InClients
  <1>20. ASSUME NEW c \in Conns, PeerLeaves(c) PROVE IInv'
    BY <1>20 DEF PeerLeaves, Registry, FanOut, Counting, Behind, InOrder, UpToDate, Newest, InClients
  <1>21. CASE UNCHANGED vars
    BY <1>21 DEF vars, Registry, FanOut, Counting, Behind, InOrder, UpToDate, Newest, InClients
  <1> QED
    BY <1>1, <1>2, <1>3, <1>4, <1>5, <1>6, <1>7, <1>8, <1>9, <1>10, <1>11, <1>12, <1>13, <1>14, <1>15, <1>16, <1>17, <1>18, <1>19, <1>20, <1>21
       DEF Next, RunBroadcasts, HandleConnections, WritePump, PumpWriteFails, PumpPingFails, PumpClosed

LEMMA Invariance == Spec => []IInv
  <1> QED
    BY InitIInv, Step, PTL DEF Spec

\* The variables of the hub keep their types: channels hold at most one
\* frame, and every goroutine is at one of its steps.
THEOREM TypeCorrect == Spec => []TypeOK
  <1>1. IInv => TypeOK
    BY DEF IInv
  <1> QED
    BY <1>1, Invariance, PTL

\* No registered client misses a snapshot (runBroadcasts, enqueue, register
\* and writePump in any interleaving).
THEOREM NoMissedFrame == Spec => []UpToDate
  <1>1. IInv => UpToDate
    BY DEF IInv
  <1> QED
    BY <1>1, Invariance, PTL

\* No client is ever given a frame older than one it already has: the claim
\* of the comments at Hub.lastFanned and in register.
THEOREM NoRollback == Spec => []InOrder
  <1>1. IInv => InOrder
    BY DEF IInv
  <1> QED
    BY <1>1, Invariance, PTL

\* enqueue never sends on a channel that unregister has closed: the claim of
\* the comment in unregister.
THEOREM NoPanic == Spec => []NoSendOnClosed
  <1>1. IInv => NoSendOnClosed
    BY DEF IInv, TypeOK, FanOut, Registry, NoSendOnClosed
  <1> QED
    BY <1>1, Invariance, PTL
-----------------------------------------------------------------------------
\* Only register adds to the registry, and only below the cap.
LEMMA CapStep == TypeOK /\ CapRespected /\ [Next]_vars => CapRespected'
  <1> SUFFICES ASSUME TypeOK, CapRespected, [Next]_vars, MaxClients > 0
               PROVE  Cardinality(clients') <= MaxClients
    BY DEF CapRespected
  <1>1. Cardinality(clients) <= MaxClients /\ MaxClients \in Int
    BY HubAssumption DEF CapRespected
  <1>2. IsFiniteSet(clients) /\ Cardinality(clients) \in Nat
    BY HubAssumption, FS_Subset, FS_CardinalityType DEF TypeOK
  <1>3. ASSUME NEW c \in Conns, Register(c) PROVE Cardinality(clients') <= MaxClients
    <2>1. clients' = clients \cup {c} /\ Cardinality(clients) < MaxClients
      BY <1>1, <1>2, <1>3 DEF Register, Full
    <2>2. Cardinality(clients \cup {c}) <= Cardinality(clients) + 1
      BY <1>2, FS_AddElement
    <2> QED
      BY <1>1, <1>2, <2>1, <2>2, FS_AddElement, FS_CardinalityType
  <1>4. ASSUME NEW c \in Conns, Unregister(c) PROVE Cardinality(clients') <= MaxClients
    <2>1. clients' \subseteq clients
      BY <1>4 DEF Unregister
    <2> QED
      BY <1>1, <1>2, <2>1, FS_Subset, FS_CardinalityType
  <1>5. CASE UNCHANGED clients
    BY <1>1, <1>5
  <1>6. \/ UNCHANGED clients
        \/ \E c \in Conns : Register(c) \/ Unregister(c)
    BY DEF Next, vars, Publish, RunBroadcasts, Receive, Lock, Unlock, TrySend, Drain, Retry,
           HandleConnections, Connect, UpgradeFails, Upgrade, Validate, RegisterRefused, Start,
           ReadFails, WritePump, PumpTake, PumpWrite, PumpWriteFails, PumpPingFails, PumpClosed,
           PumpExit, PeerLeaves
  <1> QED
    BY <1>3, <1>4, <1>5, <1>6

\* The registry never exceeds maxClients, for every number of handlers racing
\* between atCapacity and register.
THEOREM CapHolds == Spec => []CapRespected
  <1>1. Init => CapRespected
    BY HubAssumption, FS_EmptySet DEF Init, CapRespected
  <1> QED
    BY <1>1, CapStep, TypeCorrect, PTL DEF Spec
-----------------------------------------------------------------------------
\* From validate on, every trace of a connection implies an accepted token.
AuthTrail ==
    AuthEnabled =>
        \A c \in Conns :
            handler[c] \in {"register"} \cup InClients \/ pump[c] # "off" \/ written[c] # 0
                => authorized[c]

LEMMA AuthStep == IInv /\ AuthTrail /\ [Next]_vars => AuthTrail'
  <1> SUFFICES ASSUME IInv, AuthTrail, [Next]_vars, AuthEnabled PROVE AuthTrail'
    BY DEF AuthTrail
  <1> USE DEF IInv, TypeOK, AuthTrail, InClients, HPC, PPC, bvars, cvars, pvars
  <1>1. CASE Publish \/ Receive \/ Lock \/ Unlock
    BY <1>1 DEF Publish, Receive, Lock, Unlock
  <1>2. ASSUME NEW c \in Conns, TrySend(c) \/ Drain(c) \/ Retry(c) PROVE AuthTrail'
    BY <1>2 DEF TrySend, Drain, Retry
  <1>3. ASSUME NEW c \in Conns, Connect(c) PROVE AuthTrail'
    BY <1>3 DEF Connect
  <1>4. ASSUME NEW c \in Conns, UpgradeFails(c) \/ Upgrade(c) PROVE AuthTrail'
    BY <1>4 DEF UpgradeFails, Upgrade
  <1>5. ASSUME NEW c \in Conns, Validate(c) PROVE AuthTrail'
    BY <1>5 DEF Validate, Registry
  <1>6. ASSUME NEW c \in Conns, RegisterRefused(c) \/ Register(c) \/ Start(c) PROVE AuthTrail'
    BY <1>6 DEF RegisterRefused, Register, Start
  <1>7. ASSUME NEW c \in Conns, ReadFails(c) \/ Unregister(c) PROVE AuthTrail'
    BY <1>7 DEF ReadFails, Unregister
  <1>8. ASSUME NEW c \in Conns, PumpTake(c) \/ PumpWrite(c) PROVE AuthTrail'
    BY <1>8 DEF PumpTake, PumpWrite
  <1>9. ASSUME NEW c \in Conns, PumpExit(c), pump[c] \in {"select", "write"} PROVE AuthTrail'
    BY <1>9 DEF PumpExit
  <1>10. CASE UNCHANGED vars \/ \E c \in Conns : PeerLeaves(c)
    BY <1>10 DEF vars, PeerLeaves
  <1> QED
    BY <1>1, <1>2, <1>3, <1>4, <1>5, <1>6, <1>7, <1>8, <1>9, <1>10
       DEF Next, RunBroadcasts, HandleConnections, WritePump, PumpWriteFails, PumpPingFails, PumpClosed

\* With authentication enabled, slots and snapshots go only to peers whose
\* token was accepted (handleConnections closes the socket on an error).
THEOREM AuthHolds == Spec => []OnlyAuthorized
  <1>1. Init => AuthTrail
    BY DEF Init, AuthTrail, InClients
  <1>2. IInv /\ AuthTrail => OnlyAuthorized
    BY DEF IInv, AuthTrail, OnlyAuthorized, Registry
  <1> QED
    BY <1>1, <1>2, AuthStep, Invariance, PTL DEF Spec
-----------------------------------------------------------------------------
(* The hub implements the safety half of SnapshotFeed.                     *)

LEMMA FeedInit == Init => Feed!Init
  BY DEF Init, Feed!Init, Serving, Shown

LEMMA FeedStep == IInv /\ [Next]_vars => [Feed!Next]_Feed!feedVars
  <1> SUFFICES ASSUME IInv, [Next]_vars PROVE [Feed!Next]_Feed!feedVars
    OBVIOUS
  <1> DEFINE Same == UNCHANGED <<lastFanned, Serving, Shown>>
  <1> USE DEF IInv, TypeOK, HPC, PPC, bvars, cvars, pvars, Serving, Shown
  <1>1. CASE Lock
    <2>1. lastFanned' = lastFanned + 1 /\ UNCHANGED <<Serving, Shown>>
      BY <1>1 DEF Lock, Counting
    <2> QED
      BY <2>1 DEF Feed!Next, Feed!FanOut
  <1>2. ASSUME NEW c \in Conns, Register(c) PROVE Feed!Join(c)
    BY <1>2 DEF Register, Registry, Feed!Join
  <1>3. ASSUME NEW c \in Conns, PumpWrite(c) PROVE Feed!Show(c)
    <2>1. c \in Serving /\ UNCHANGED <<lastFanned, Serving>>
      BY <1>3 DEF PumpWrite
    <2>2. inflight[c] \in (Shown[c] + 1)..lastFanned
      BY <1>3 DEF PumpWrite, Registry, InOrder
    <2>3. Shown' = [Shown EXCEPT ![c] = inflight[c]]
      BY <1>3 DEF PumpWrite
    <2> QED
      BY <2>1, <2>2, <2>3 DEF Feed!Show
  <1>4. ASSUME NEW c \in Conns, PumpExit(c), pump[c] \in {"select", "write"}
        PROVE  Same \/ Feed!Leave(c)
    <2>1. CASE handler[c] \in InClients
      BY <1>4, <2>1 DEF PumpExit, InClients
    <2>2. CASE handler[c] \notin InClients
      <3>1. c \in Serving /\ lastFanned' = lastFanned
        BY <1>4 DEF PumpExit
      <3>2. Serving' = Serving \ {c}
        BY <1>4, <2>2 DEF PumpExit, InClients
      <3>3. Shown' = [Shown EXCEPT ![c] = 0]
        BY <1>4, <2>2 DEF PumpExit, InClients
      <3> QED
        BY <3>1, <3>2, <3>3 DEF Feed!Leave
    <2> QED
      BY <2>1, <2>2
  <1>5. ASSUME NEW c \in Conns, Unregister(c) PROVE Same \/ Feed!Leave(c)
    <2>1. CASE pump[c] \in {"select", "write"}
      BY <1>5, <2>1 DEF Unregister
    <2>2. CASE pump[c] \notin {"select", "write"}
      BY <1>5, <2>2 DEF Unregister, Feed!Leave
    <2> QED
      BY <2>1, <2>2
  <1>6. ASSUME NEW c \in Conns, Connect(c) PROVE Same
    BY <1>6 DEF Connect
  <1>7. ASSUME NEW c \in Conns,
               UpgradeFails(c) \/ Upgrade(c) \/ Validate(c) \/ RegisterRefused(c)
        PROVE  Same
    BY <1>7 DEF UpgradeFails, Upgrade, Validate, RegisterRefused, Registry
  <1>8. ASSUME NEW c \in Conns, Start(c) \/ ReadFails(c) \/ PumpTake(c) \/ PeerLeaves(c)
        PROVE  Same
    BY <1>8 DEF Start, ReadFails, PumpTake, PeerLeaves
  <1>9. CASE Publish \/ Receive \/ Unlock \/ \E c \in Conns : TrySend(c) \/ Drain(c) \/ Retry(c)
    <2> Same
      BY <1>9 DEF Publish, Receive, Unlock, TrySend, Drain, Retry
    <2> QED
      BY DEF Feed!feedVars
  <1>10. CASE UNCHANGED vars
    BY <1>10 DEF vars, Feed!feedVars
  <1> QED
    <2> HIDE DEF IInv, TypeOK, Serving, Shown
    <2> QED
      BY <1>1, <1>2, <1>3, <1>4, <1>5, <1>6, <1>7, <1>8, <1>9, <1>10
         DEF Next, RunBroadcasts, HandleConnections, WritePump, PumpWriteFails, PumpPingFails,
             PumpClosed, Feed!Next, Feed!feedVars

\* Every behaviour of the hub is, seen through Serving and Shown, one of the
\* abstract feed: pictures move only forward, to fanned-out snapshots.
THEOREM HubImplementsFeed == Spec => Feed!Safe
  BY FeedInit, FeedStep, Invariance, PTL DEF Spec, Feed!Safe
-----------------------------------------------------------------------------
(* Progress.  What holds of a connection at each step of its way out.      *)

\* A connection without a handler is closed, or its writePump is about to learn
\* it; a writePump that has returned has closed the socket.
TornDown ==
    \A c \in Conns :
        /\ pump[c] = "exited" => conn[c] = "closed"
        /\ handler[c] \in {"none", "upgrade"} /\ pump[c] \in {"off", "exited"} => conn[c] = "closed"
        /\ handler[c] = "none" /\ pump[c] \in {"select", "write"} => closed[c]

LEMMA TornStep == IInv /\ TornDown /\ [Next]_vars => TornDown'
  <1> SUFFICES ASSUME IInv, TornDown, [Next]_vars PROVE TornDown'
    OBVIOUS
  <1> USE DEF IInv, TypeOK, TornDown, HPC, PPC, bvars, cvars, pvars
  <1>1. CASE Publish \/ Receive \/ Lock \/ Unlock
    BY <1>1 DEF Publish, Receive, Lock, Unlock
  <1>2. ASSUME NEW c \in Conns, TrySend(c) \/ Drain(c) \/ Retry(c) PROVE TornDown'
    BY <1>2 DEF TrySend, Drain, Retry
  <1>3. ASSUME NEW c \in Conns, Connect(c) PROVE TornDown'
    BY <1>3 DEF Connect
  <1>4. ASSUME NEW c \in Conns, UpgradeFails(c) \/ Upgrade(c) PROVE TornDown'
    BY <1>4 DEF UpgradeFails, Upgrade, Registry
  <1>5. ASSUME NEW c \in Conns, Validate(c) \/ RegisterRefused(c) PROVE TornDown'
    BY <1>5 DEF Validate, RegisterRefused, Registry
  <1>6. ASSUME NEW c \in Conns, Register(c) \/ Start(c) \/ ReadFails(c) PROVE TornDown'
    BY <1>6 DEF Register, Start, ReadFails
  <1>7. ASSUME NEW c \in Conns, Unregister(c) PROVE TornDown'
    BY <1>7 DEF Unregister, CloseSend, Registry, InClients
  <1>8. ASSUME NEW c \in Conns, PumpTake(c) \/ PumpWrite(c) PROVE TornDown'
    BY <1>8 DEF PumpTake, PumpWrite
  <1>9. ASSUME NEW c \in Conns, PumpExit(c) PROVE TornDown'
    BY <1>9 DEF PumpExit
  <1>10. CASE UNCHANGED vars \/ \E c \in Conns : PeerLeaves(c)
    BY <1>10 DEF vars, PeerLeaves
  <1> QED
    BY <1>1, <1>2, <1>3, <1>4, <1>5, <1>6, <1>7, <1>8, <1>9, <1>10
       DEF Next, RunBroadcasts, HandleConnections, WritePump, PumpWriteFails, PumpPingFails, PumpClosed

LEMMA TornInvariance == Spec => []TornDown
  <1>1. Init => TornDown
    BY DEF Init, TornDown
  <1> QED
    BY <1>1, TornStep, Invariance, PTL DEF Spec

\* The handler has returned, and writePump is at p with or without a last frame
\* in the closed channel.
LeftFull(c, p) == handler[c] = "none" /\ pump[c] = p /\ closed[c] /\ send[c] # 0
LeftEmpty(c, p) == handler[c] = "none" /\ pump[c] = p /\ closed[c] /\ send[c] = 0
Gone(c) == handler[c] = "none" /\ conn[c] = "closed" /\ pump[c] \in {"off", "exited"}

\* Nobody but its writePump touches such a connection.
LEMMA LeftAlone ==
  ASSUME IInv, [Next]_vars, NEW c \in Conns, handler[c] = "none", pump[c] \in {"select", "write"}
  PROVE  \/ UNCHANGED <<handler[c], pump[c], closed[c], send[c]>>
         \/ WritePump(c)
         \/ PumpPingFails(c)
  <1> DEFINE Same == UNCHANGED <<handler[c], pump[c], closed[c], send[c]>>
  <1> USE DEF IInv, TypeOK, HPC, PPC, bvars, cvars, pvars
  <1>1. c \notin clients /\ c \notin todo /\ c \notin cur
    BY DEF Registry, InClients, FanOut
  <1>2. CASE Publish \/ Receive \/ Lock \/ Unlock \/ UNCHANGED vars
    BY <1>2 DEF Publish, Receive, Lock, Unlock, vars
  <1>3. ASSUME NEW d \in Conns, TrySend(d) \/ Drain(d) \/ Retry(d) PROVE Same
    BY <1>1, <1>3 DEF TrySend, Drain, DropStale, Retry
  <1>4. ASSUME NEW d \in Conns, HandleConnections(d) PROVE Same
    <2>1. d # c
      BY <1>4 DEF HandleConnections, Connect, UpgradeFails, Upgrade, Validate, RegisterRefused, Register,
                  Start, ReadFails, Unregister
    <2> QED
      BY <1>4, <2>1 DEF HandleConnections, Connect, UpgradeFails, Upgrade, Validate, RegisterRefused,
                        Register, Start, ReadFails, Unregister, CloseSend
  <1>5. ASSUME NEW d \in Conns, d # c, WritePump(d) \/ PumpPingFails(d) PROVE Same
    BY <1>5 DEF WritePump, PumpTake, PumpWrite, PumpWriteFails, PumpPingFails, PumpClosed, PumpExit
  <1>6. ASSUME NEW d \in Conns, PeerLeaves(d) PROVE Same
    BY <1>6 DEF PeerLeaves
  <1> QED
    <2> HIDE DEF IInv, TypeOK
    <2> QED
      BY <1>2, <1>3, <1>4, <1>5, <1>6 DEF Next, RunBroadcasts

\* What writePump does with it.
LEMMA LeftPump ==
  ASSUME IInv, NEW c \in Conns, WritePump(c) \/ PumpPingFails(c)
  PROVE  /\ LeftFull(c, "write") => LeftFull(c, "select")' \/ Gone(c)'
         /\ LeftFull(c, "select") => LeftEmpty(c, "write")' \/ Gone(c)'
         /\ LeftEmpty(c, "write") => LeftEmpty(c, "select")' \/ Gone(c)'
         /\ LeftEmpty(c, "select") => Gone(c)'
  <1> USE DEF IInv, TypeOK, cvars, LeftFull, LeftEmpty, Gone
  <1>1. CASE PumpTake(c)
    BY <1>1 DEF PumpTake
  <1>2. CASE PumpWrite(c)
    BY <1>2 DEF PumpWrite
  <1>3. CASE PumpExit(c)
    BY <1>3 DEF PumpExit
  <1> QED
    BY <1>1, <1>2, <1>3 DEF WritePump, PumpWriteFails, PumpPingFails, PumpClosed

\* After the handler has returned the connection is gone in the end.
LEMMA LeftEnds ==
  ASSUME NEW c \in Conns
  PROVE  FairSpec /\ []GoroutinesCanRun => (handler[c] = "none" ~> Gone(c))
  <1>1. Fairness => ConnFairness(c)
    BY DEF Fairness
  <1>2. GoroutinesCanRun =>
          (LeftFull(c, "write") \/ LeftFull(c, "select") \/ LeftEmpty(c, "write") \/ LeftEmpty(c, "select")
             => ENABLED <<WritePump(c)>>_vars)
    BY DEF GoroutinesCanRun, LeftFull, LeftEmpty
  <1>3. IInv /\ TornDown /\ handler[c] = "none" =>
          \/ LeftFull(c, "write") \/ LeftFull(c, "select")
          \/ LeftEmpty(c, "write") \/ LeftEmpty(c, "select")
          \/ Gone(c)
    BY DEF IInv, TypeOK, PPC, TornDown, LeftFull, LeftEmpty, Gone
  <1>4. IInv /\ [Next]_vars =>
          /\ LeftFull(c, "write") => LeftFull(c, "write")' \/ LeftFull(c, "select")' \/ Gone(c)'
          /\ LeftFull(c, "select") => LeftFull(c, "select")' \/ LeftEmpty(c, "write")' \/ Gone(c)'
          /\ LeftEmpty(c, "write") => LeftEmpty(c, "write")' \/ LeftEmpty(c, "select")' \/ Gone(c)'
          /\ LeftEmpty(c, "select") => LeftEmpty(c, "select")' \/ Gone(c)'
    <2> SUFFICES ASSUME IInv, [Next]_vars,
                        \E p \in {"select", "write"} : LeftFull(c, p) \/ LeftEmpty(c, p)
                 PROVE  /\ LeftFull(c, "write") => LeftFull(c, "write")' \/ LeftFull(c, "select")' \/ Gone(c)'
                        /\ LeftFull(c, "select") => LeftFull(c, "select")' \/ LeftEmpty(c, "write")' \/ Gone(c)'
                        /\ LeftEmpty(c, "write") => LeftEmpty(c, "write")' \/ LeftEmpty(c, "select")' \/ Gone(c)'
                        /\ LeftEmpty(c, "select") => LeftEmpty(c, "select")' \/ Gone(c)'
      OBVIOUS
    <2>1. CASE UNCHANGED <<handler[c], pump[c], closed[c], send[c]>>
      BY <2>1 DEF LeftFull, LeftEmpty
    <2>2. CASE WritePump(c) \/ PumpPingFails(c)
      BY <2>2, LeftPump
    <2>3. handler[c] = "none" /\ pump[c] \in {"select", "write"}
      BY DEF LeftFull, LeftEmpty
    <2> QED
      BY <2>1, <2>2, <2>3, LeftAlone
  <1>5. IInv /\ <<WritePump(c)>>_vars =>
          /\ LeftFull(c, "write") => LeftFull(c, "select")' \/ Gone(c)'
          /\ LeftFull(c, "select") => LeftEmpty(c, "write")' \/ Gone(c)'
          /\ LeftEmpty(c, "write") => LeftEmpty(c, "select")' \/ Gone(c)'
          /\ LeftEmpty(c, "select") => Gone(c)'
    BY LeftPump
  <1> QED
    BY <1>1, <1>2, <1>3, <1>4, <1>5, Invariance, TornInvariance, PTL DEF FairSpec, Spec, ConnFairness

\* Once its handler has returned, the socket of a connection gets closed and its
\* writePump ends, whatever is left in its channel and although nobody waits for
\* either (unregister closes send, writePump closes the socket).
THEOREM NoLeakThm == FairSpec /\ []GoroutinesCanRun => NoLeak
  <1> SUFFICES ASSUME NEW c \in Conns
               PROVE  FairSpec /\ []GoroutinesCanRun =>
                        ((handler[c] = "none") ~> (conn[c] = "closed" /\ pump[c] \in {"off", "exited"}))
    BY DEF NoLeak
  <1>1. FairSpec /\ []GoroutinesCanRun => (handler[c] = "none" ~> Gone(c))
    BY LeftEnds
  <1>2. Gone(c) => (conn[c] = "closed" /\ pump[c] \in {"off", "exited"})
    BY DEF Gone
  <1> QED
    BY <1>1, <1>2, PTL

\* How many more steps runBroadcasts needs until it lets go of h.mu: three at
\* most for every client it has still to serve.
Work == 3 * Cardinality(todo) + (IF bpc = "range" THEN 3 ELSE IF bpc = "drain" THEN 2 ELSE 1)

\* While it holds the lock, each of its steps brings it nearer to the end, none
\* waits for a client, and nobody else sets it back; it is out of the lock
\* before Work is used up.
LockHeldBriefly ==
    [][~MuFree => /\ Work \in Nat \ {0}
                  /\ RunBroadcasts => MuFree' \/ Work' < Work
                  /\ ~RunBroadcasts => bpc' = bpc /\ Work' = Work]_vars

LEMMA WorkStep ==
  ASSUME IInv, [Next]_vars, ~MuFree
  PROVE  /\ Work \in Nat \ {0}
         /\ RunBroadcasts => MuFree' \/ Work' < Work
         /\ ~RunBroadcasts => bpc' = bpc /\ Work' = Work
  <1> USE DEF IInv, TypeOK, BPC, MuFree
  <1>1. bpc \in {"range", "drain", "retry"}
    OBVIOUS
  <1>2. IsFiniteSet(todo) /\ Cardinality(todo) \in Nat
    BY HubAssumption, FS_Subset, FS_CardinalityType
  <1>3. Work \in Nat \ {0}
    BY <1>2 DEF Work
  <1>4. ASSUME NEW c \in todo PROVE Cardinality(todo \ {c}) = Cardinality(todo) - 1
    BY <1>2, FS_RemoveElement
  <1>5. ASSUME RunBroadcasts PROVE MuFree' \/ Work' < Work
    <2>1. CASE Receive \/ Lock
      BY <2>1, <1>1 DEF Receive, Lock
    <2>2. CASE Unlock
      BY <2>2 DEF Unlock
    <2>3. ASSUME NEW c \in Conns, TrySend(c) PROVE Work' < Work
      <3>1. CASE todo' = todo \ {c} /\ bpc' = bpc
        BY <2>3, <3>1, <1>2, <1>4 DEF TrySend, Work
      <3>2. CASE todo' = todo /\ bpc' = "drain"
        BY <2>3, <3>2, <1>2 DEF TrySend, Work
      <3> QED
        BY <2>3, <3>1, <3>2 DEF TrySend
    <2>4. ASSUME NEW c \in Conns, Drain(c) PROVE Work' < Work
      BY <2>4, <1>2 DEF Drain, Work
    <2>5. ASSUME NEW c \in Conns, Retry(c) PROVE Work' < Work
      BY <2>5, <1>2, <1>4 DEF Retry, Work, FanOut
    <2> QED
      BY <1>5, <2>1, <2>2, <2>3, <2>4, <2>5 DEF RunBroadcasts
  <1>6. ASSUME ~RunBroadcasts PROVE bpc' = bpc /\ Work' = Work
    <2>1. UNCHANGED bvars
      BY <1>6 DEF Next, vars, Publish, HandleConnections, Connect, UpgradeFails, Upgrade, Validate,
                  RegisterRefused, Register, Start, ReadFails, Unregister, WritePump, PumpTake, PumpWrite,
                  PumpWriteFails, PumpPingFails, PumpClosed, PumpExit, PeerLeaves
    <2> QED
      BY <2>1 DEF bvars, Work
  <1> QED
    BY <1>3, <1>5, <1>6

\* No client, slow, dead or half torn down, keeps the fan-out in its critical
\* section: enqueue's three selects never block (runBroadcasts, enqueue).
THEOREM LockHeldBrieflyThm == Spec => LockHeldBriefly
  <1>1. IInv /\ [Next]_vars =>
          [~MuFree => /\ Work \in Nat \ {0}
                      /\ RunBroadcasts => MuFree' \/ Work' < Work
                      /\ ~RunBroadcasts => bpc' = bpc /\ Work' = Work]_vars
    BY WorkStep
  <1>2. Spec => [][~MuFree => /\ Work \in Nat \ {0}
                              /\ RunBroadcasts => MuFree' \/ Work' < Work
                              /\ ~RunBroadcasts => bpc' = bpc /\ Work' = Work]_vars
    BY <1>1, Invariance, PTL DEF Spec
  <1> QED
    BY <1>2 DEF LockHeldBriefly

Holding(n) == ~MuFree /\ Work = n
HoldingLess(n) == ~MuFree /\ Work < n

\* The goroutine that holds h.mu does take those steps: from n of them left it
\* gets to fewer, or out.  As Work is a natural number, the lock is let go of
\* again and again, which is the hypothesis []<>MuFree of the theorems below.
THEOREM LockReleased ==
  ASSUME NEW n \in Nat
  PROVE  FairSpec /\ []GoroutinesCanRun => (Holding(n) ~> (MuFree \/ HoldingLess(n)))
  <1>1. IInv /\ [Next]_vars /\ Holding(n) => Holding(n)' \/ MuFree' \/ HoldingLess(n)'
    BY WorkStep DEF Holding, HoldingLess, MuFree
  <1>2. IInv /\ [Next]_vars /\ Holding(n) /\ <<RunBroadcasts>>_vars => MuFree' \/ HoldingLess(n)'
    BY WorkStep DEF Holding, HoldingLess
  <1>3. GoroutinesCanRun /\ Holding(n) => ENABLED <<RunBroadcasts>>_vars
    BY DEF GoroutinesCanRun, Holding, MuFree
  <1>4. Fairness => FanOutFairness
    BY DEF Fairness
  <1> QED
    BY <1>1, <1>2, <1>3, <1>4, Invariance, PTL DEF FairSpec, Spec, FanOutFairness

\* A registered client that is past saving, at a step of its handler.
Doomed(c, h) == c \in clients /\ conn[c] # "open" /\ handler[c] = h

LEMMA DoomedStep ==
  ASSUME IInv, [Next]_vars, NEW c \in Conns, NEW h \in InClients, Doomed(c, h)
  PROVE  \/ Doomed(c, h)'
         \/ Start(c) /\ Doomed(c, "read")'
         \/ ReadFails(c) /\ Doomed(c, "unregister")'
         \/ Unregister(c) /\ c \notin clients'
  <1> USE DEF IInv, TypeOK, HPC, PPC, bvars, cvars, pvars, Doomed, InClients
  <1>1. CASE Publish \/ Receive \/ Lock \/ Unlock \/ UNCHANGED vars
    BY <1>1 DEF Publish, Receive, Lock, Unlock, vars
  <1>2. ASSUME NEW d \in Conns, TrySend(d) \/ Drain(d) \/ Retry(d) PROVE Doomed(c, h)'
    BY <1>2 DEF TrySend, Drain, Retry
  <1>3. ASSUME NEW d \in Conns,
               Connect(d) \/ UpgradeFails(d) \/ Upgrade(d) \/ Validate(d) \/ RegisterRefused(d) \/ Register(d)
        PROVE  Doomed(c, h)'
    <2>1. d # c
      BY <1>3 DEF Connect, UpgradeFails, Upgrade, Validate, RegisterRefused, Register
    <2> QED
      BY <1>3, <2>1 DEF Connect, UpgradeFails, Upgrade, Validate, RegisterRefused, Register
  <1>4. ASSUME NEW d \in Conns, d # c, Start(d) \/ ReadFails(d) \/ Unregister(d) PROVE Doomed(c, h)'
    BY <1>4 DEF Start, ReadFails, Unregister
  <1>5. Start(c) => Doomed(c, "read")'
    BY DEF Start
  <1>6. ReadFails(c) => Doomed(c, "unregister")'
    BY DEF ReadFails
  <1>7. Unregister(c) => c \notin clients'
    BY DEF Unregister
  <1>8. ASSUME NEW d \in Conns, WritePump(d) \/ PumpPingFails(d) \/ PeerLeaves(d) PROVE Doomed(c, h)'
    BY <1>8 DEF WritePump, PumpTake, PumpWrite, PumpWriteFails, PumpPingFails, PumpClosed, PumpExit, PeerLeaves
  <1> QED
    <2> HIDE DEF IInv, TypeOK, Doomed
    <2> QED
      BY <1>1, <1>2, <1>3, <1>4, <1>5, <1>6, <1>7, <1>8 DEF Next, RunBroadcasts, HandleConnections

\* A dead or closed connection gives up its slot: the handler notices, and gets
\* the lock to unregister in competition with the fan-out (ReadMessage's error,
\* unregister).  That the fan-out lets go of the lock is LockReleased.
THEOREM SlotFreedThm == FairSpec /\ []GoroutinesCanRun /\ []<>MuFree => SlotFreed
  <1> SUFFICES ASSUME NEW c \in Conns
               PROVE  FairSpec /\ []GoroutinesCanRun /\ []<>MuFree =>
                        ((c \in clients /\ conn[c] # "open") ~> (c \notin clients))
    BY DEF SlotFreed
  <1>1. Fairness => ConnFairness(c)
    BY DEF Fairness
  <1>2. GoroutinesCanRun =>
          /\ Doomed(c, "start") => ENABLED <<Start(c)>>_vars
          /\ Doomed(c, "read") => ENABLED <<ReadFails(c)>>_vars
          /\ Doomed(c, "unregister") /\ MuFree => ENABLED <<Unregister(c)>>_vars
    BY DEF GoroutinesCanRun, Doomed, ReadError
  <1>3. IInv /\ c \in clients /\ conn[c] # "open" =>
          Doomed(c, "start") \/ Doomed(c, "read") \/ Doomed(c, "unregister")
    BY DEF IInv, Registry, InClients, Doomed
  <1>4. IInv /\ [Next]_vars =>
          /\ Doomed(c, "start") => Doomed(c, "start")' \/ Doomed(c, "read")'
          /\ Doomed(c, "read") => Doomed(c, "read")' \/ Doomed(c, "unregister")'
          /\ Doomed(c, "unregister") => Doomed(c, "unregister")' \/ (c \notin clients)'
    BY DoomedStep DEF InClients, Doomed, Start, ReadFails, Unregister
  <1>5. IInv =>
          /\ Doomed(c, "start") /\ <<Start(c)>>_vars => Doomed(c, "read")'
          /\ Doomed(c, "read") /\ <<ReadFails(c)>>_vars => Doomed(c, "unregister")'
          /\ <<Unregister(c)>>_vars => (c \notin clients)'
    BY DEF IInv, TypeOK, Doomed, Start, ReadFails, Unregister
  <1> QED
    BY <1>1, <1>2, <1>3, <1>4, <1>5, Invariance, PTL DEF FairSpec, Spec, ConnFairness

\* The way of snapshot f from Publish to the clients: behind another one that
\* runBroadcasts holds, in the channel while it fans out or waits, in its hands.
Second(f) == lastFanned = f - 2 /\ bpc = "lock" /\ published >= f
Queued(f) == lastFanned = f - 1 /\ bpc \in {"range", "drain", "retry"} /\ published >= f
Ready(f) == lastFanned = f - 1 /\ bpc = "recv" /\ published >= f
InHand(f) == lastFanned = f - 1 /\ bpc = "lock" /\ published >= f
Fanned(f) == lastFanned >= f

LEMMA FrameStep ==
  ASSUME IInv, [Next]_vars, NEW f \in 1..MaxFrames
  PROVE  /\ Second(f) => (~RunBroadcasts /\ Second(f)') \/ Queued(f)'
         /\ Queued(f) => Queued(f)' \/ Ready(f)'
         /\ Ready(f) => (~RunBroadcasts /\ Ready(f)') \/ InHand(f)'
         /\ InHand(f) => (~RunBroadcasts /\ InHand(f)') \/ Fanned(f)'
  <1> USE HubAssumption DEF IInv, TypeOK, BPC, Counting, Second, Queued, Ready, InHand, Fanned
  <1>1. published' >= published /\ published' \in Nat
    BY DEF Next, vars, Publish, RunBroadcasts, Receive, Lock, Unlock, TrySend, Drain, Retry,
           HandleConnections, Connect, UpgradeFails, Upgrade, Validate, RegisterRefused, Register, Start,
           ReadFails, Unregister, WritePump, PumpTake, PumpWrite, PumpWriteFails, PumpPingFails,
           PumpClosed, PumpExit, PeerLeaves
  <1>2. \/ ~RunBroadcasts /\ UNCHANGED <<bpc, lastFanned>>
        \/ bpc = "recv" /\ bpc' = "lock" /\ lastFanned' = lastFanned
        \/ bpc = "lock" /\ bpc' = "range" /\ lastFanned' = lastFanned + 1
        \/ /\ bpc \in {"range", "drain", "retry"} /\ bpc' \in {"range", "drain", "retry", "recv"}
           /\ lastFanned' = lastFanned
    <2>1. CASE ~RunBroadcasts
      BY <2>1 DEF Next, vars, bvars, Publish, HandleConnections, Connect, UpgradeFails, Upgrade, Validate,
                  RegisterRefused, Register, Start, ReadFails, Unregister, WritePump, PumpTake, PumpWrite,
                  PumpWriteFails, PumpPingFails, PumpClosed, PumpExit, PeerLeaves
    <2>2. CASE RunBroadcasts
      BY <2>2 DEF RunBroadcasts, Receive, Lock, Unlock, TrySend, Drain, Retry
    <2> QED
      BY <2>1, <2>2
  <1> QED
    BY <1>1, <1>2

\* Every published snapshot is fanned out (Publish, runBroadcasts), given that
\* the lock is let go of, which LockReleased is about.
THEOREM FrameFannedOutThm == FairSpec /\ []GoroutinesCanRun /\ []<>MuFree => FrameFannedOut
  <1> SUFFICES ASSUME NEW f \in 1..MaxFrames
               PROVE  FairSpec /\ []GoroutinesCanRun /\ []<>MuFree =>
                        ((published >= f) ~> (lastFanned >= f))
    BY DEF FrameFannedOut
  <1>1. GoroutinesCanRun /\ IInv =>
          (Second(f) \/ Ready(f) \/ InHand(f) => ENABLED <<RunBroadcasts>>_vars)
    BY HubAssumption DEF GoroutinesCanRun, Second, Ready, InHand, IInv, TypeOK, Counting
  <1>2. IInv /\ published >= f => Second(f) \/ Queued(f) \/ Ready(f) \/ InHand(f) \/ Fanned(f)
    BY HubAssumption DEF IInv, TypeOK, BPC, Counting, Second, Queued, Ready, InHand, Fanned
  <1>3. IInv /\ [Next]_vars =>
          /\ Second(f) => Second(f)' \/ Queued(f)'
          /\ Queued(f) => Queued(f)' \/ Ready(f)'
          /\ Ready(f) => Ready(f)' \/ InHand(f)'
          /\ InHand(f) => InHand(f)' \/ Fanned(f)'
    BY FrameStep
  <1>4. IInv /\ [Next]_vars /\ <<RunBroadcasts>>_vars =>
          /\ Second(f) => Queued(f)'
          /\ Ready(f) => InHand(f)'
          /\ InHand(f) => Fanned(f)'
    BY FrameStep
  <1>5. Queued(f) => ~MuFree
    BY DEF Queued, MuFree
  <1>6. Fanned(f) => lastFanned >= f
    BY DEF Fanned
  <1>7. Fairness => FanOutFairness
    BY DEF Fairness
  <1> QED
    BY <1>1, <1>2, <1>3, <1>4, <1>5, <1>6, <1>7, Invariance, PTL DEF FairSpec, Spec, FanOutFairness
-----------------------------------------------------------------------------
(* The hub implements the whole feed once the fan-out has come to rest.     *)

Quiet == bpc = "recv"

\* A viewer that has to get snapshot f: before its writePump starts, while it
\* runs with or without a frame in the buffer, and after it has given up.
Owed(c, f) == c \in Serving /\ lastFanned >= f /\ written[c] < f
Starting(c, f) == Owed(c, f) /\ handler[c] = "start"
Pumping(c, f, p) ==
    Owed(c, f) /\ handler[c] \in {"read", "unregister"} /\ pump[c] = p
Loaded(c, f, p) == Pumping(c, f, p) /\ send[c] # 0
Sending(c, f) == Pumping(c, f, "write") /\ send[c] = 0
Dying(c, f, h) == Owed(c, f) /\ handler[c] = h /\ pump[c] = "exited" /\ conn[c] = "closed"
Leaving(c, f) ==
    Owed(c, f) /\ \E p \in {"select", "write"} : LeftFull(c, p) \/ LeftEmpty(c, p)
Served(c, f) == c \notin Serving \/ written[c] >= f

\* Outside the critical section a viewer is in one of these states.
LEMMA OwedCases ==
  ASSUME IInv, TornDown, Quiet, NEW c \in Conns, NEW f \in 1..MaxFrames, Owed(c, f)
  PROVE  \/ Starting(c, f)
         \/ Loaded(c, f, "select") \/ Loaded(c, f, "write") \/ Sending(c, f)
         \/ Dying(c, f, "read") \/ Dying(c, f, "unregister")
         \/ Leaving(c, f)
  <1> USE HubAssumption DEF IInv, TypeOK, HPC, PPC, Quiet, Owed, Registry, InClients, FanOut, TornDown
  <1>1. CASE handler[c] = "start"
    BY <1>1 DEF Starting
  <1>2. CASE handler[c] \in {"read", "unregister"}
    <2>1. c \in clients \ todo /\ pump[c] \in {"select", "write", "exited"}
      BY <1>2
    <2>2. CASE pump[c] = "exited"
      BY <1>2, <2>2 DEF Dying
    <2>3. CASE pump[c] \in {"select", "write"}
      <3>1. Newest(c) = lastFanned
        BY <2>1, <2>3 DEF UpToDate
      <3> QED
        BY <1>2, <2>3, <3>1 DEF Loaded, Sending, Pumping, Newest
    <2> QED
      BY <2>1, <2>2, <2>3
  <1>3. CASE handler[c] \notin InClients
    <2>1. pump[c] \in {"select", "write"} /\ handler[c] = "none"
      BY <1>3 DEF Serving
    <2> QED
      BY <2>1 DEF Leaving, LeftFull, LeftEmpty
  <1> QED
    BY <1>1, <1>2, <1>3

\* At rest only its own two goroutines touch what a viewer gets.
LEMMA ViewerAlone ==
  ASSUME IInv, [Next]_vars, Quiet, Quiet', NEW c \in Conns
  PROVE  /\ lastFanned' = lastFanned
         /\ \/ /\ UNCHANGED <<handler[c], pump[c], send[c], inflight[c], written[c], closed[c]>>
               /\ conn[c] = "closed" => conn'[c] = "closed"
            \/ HandleConnections(c)
            \/ WritePump(c)
            \/ PumpPingFails(c)
  <1> DEFINE Same == /\ UNCHANGED <<handler[c], pump[c], send[c], inflight[c], written[c], closed[c]>>
                     /\ conn[c] = "closed" => conn'[c] = "closed"
  <1> USE DEF IInv, TypeOK, HPC, PPC, BPC, bvars, cvars, pvars, Quiet
  <1>1. CASE Publish \/ UNCHANGED vars
    BY <1>1 DEF Publish, vars
  <1>2. ~RunBroadcasts
    BY DEF RunBroadcasts, Receive, Lock, Unlock, TrySend, Drain, Retry
  <1>3. ASSUME NEW d \in Conns, d # c, HandleConnections(d) PROVE Same
    BY <1>3 DEF HandleConnections, Connect, UpgradeFails, Upgrade, Validate, RegisterRefused, Register,
                Start, ReadFails, Unregister, CloseSend
  <1>4. ASSUME NEW d \in Conns, d # c, WritePump(d) \/ PumpPingFails(d) PROVE Same
    BY <1>4 DEF WritePump, PumpTake, PumpWrite, PumpWriteFails, PumpPingFails, PumpClosed, PumpExit
  <1>5. ASSUME NEW d \in Conns, PeerLeaves(d) PROVE Same
    BY <1>5 DEF PeerLeaves
  <1>6. ASSUME NEW d \in Conns, HandleConnections(d) \/ WritePump(d) \/ PumpPingFails(d) \/ PeerLeaves(d)
        PROVE  lastFanned' = lastFanned
    BY <1>6 DEF HandleConnections, Connect, UpgradeFails, Upgrade, Validate, RegisterRefused, Register,
                Start, ReadFails, Unregister, WritePump, PumpTake, PumpWrite, PumpWriteFails,
                PumpPingFails, PumpClosed, PumpExit, PeerLeaves
  <1> QED
    <2> HIDE DEF IInv, TypeOK
    <2> QED
      BY <1>1, <1>2, <1>3, <1>4, <1>5, <1>6 DEF Next

\* What writePump does for a viewer that is owed f.
LEMMA ViewerPump ==
  ASSUME IInv, Quiet, NEW c \in Conns, NEW f \in 1..MaxFrames, lastFanned' = lastFanned,
         WritePump(c) \/ PumpPingFails(c)
  PROVE  /\ Loaded(c, f, "write") => \/ Loaded(c, f, "select")' \/ Served(c, f)'
                                     \/ Dying(c, f, "read")' \/ Dying(c, f, "unregister")'
         /\ Loaded(c, f, "select") => \/ Sending(c, f)'
                                      \/ Dying(c, f, "read")' \/ Dying(c, f, "unregister")'
         /\ Sending(c, f) => \/ Served(c, f)'
                             \/ Dying(c, f, "read")' \/ Dying(c, f, "unregister")'
         /\ ~Starting(c, f) /\ \A h \in InClients : ~Dying(c, f, h)
  <1> USE HubAssumption DEF IInv, TypeOK, HPC, PPC, cvars, Quiet, Serving, Owed, Registry, InClients
  <1>1. CASE PumpTake(c)
    BY <1>1 DEF PumpTake, Loaded, Sending, Pumping, Starting, Dying
  <1>2. CASE PumpWrite(c)
    <2>1. ASSUME Sending(c, f) PROVE written'[c] >= f
      <3>1. c \in clients \ todo /\ pump[c] = "write" /\ send[c] = 0
        BY <2>1 DEF Sending, Pumping, FanOut
      <3>2. inflight[c] = lastFanned
        BY <3>1 DEF UpToDate, Newest
      <3> QED
        BY <1>2, <2>1, <3>2 DEF PumpWrite, Sending, Pumping
    <2>2. ~Loaded(c, f, "select") /\ ~Starting(c, f) /\ \A h \in InClients : ~Dying(c, f, h)
      BY <1>2 DEF PumpWrite, Loaded, Pumping, Starting, Dying
    <2>3. ASSUME Loaded(c, f, "write") PROVE Loaded(c, f, "select")' \/ Served(c, f)'
      BY <1>2, <2>3 DEF PumpWrite, Loaded, Pumping, Served
    <2> QED
      BY <2>1, <2>2, <2>3 DEF Served
  <1>3. CASE PumpExit(c) /\ pump[c] \in {"select", "write"}
    BY <1>3 DEF PumpExit, Loaded, Sending, Pumping, Starting, Dying
  <1> QED
    BY <1>1, <1>2, <1>3 DEF WritePump, PumpWriteFails, PumpPingFails, PumpClosed

\* What its handler does.
LEMMA ViewerHandler ==
  ASSUME IInv, TornDown, Quiet, NEW c \in Conns, NEW f \in 1..MaxFrames, lastFanned' = lastFanned,
         HandleConnections(c)
  PROVE  /\ Starting(c, f) => Loaded(c, f, "select")'
         /\ \A p \in {"select", "write"} : Loaded(c, f, p) => Loaded(c, f, p)' \/ Leaving(c, f)'
         /\ Sending(c, f) => Sending(c, f)' \/ Leaving(c, f)'
         /\ Dying(c, f, "read") => Dying(c, f, "unregister")'
         /\ Dying(c, f, "unregister") => Served(c, f)'
  <1> USE HubAssumption DEF IInv, TypeOK, HPC, PPC, bvars, cvars, pvars, Quiet, Serving, Owed, Registry, InClients
  <1>1. CASE Start(c)
    <2>1. ASSUME Starting(c, f) PROVE send[c] # 0
      <3>1. c \in clients \ todo /\ pump[c] = "off"
        BY <2>1 DEF Starting, FanOut
      <3> QED
        BY <2>1, <3>1 DEF UpToDate, Newest, Starting
    <2> QED
      BY <1>1, <2>1 DEF Start, Starting, Loaded, Sending, Pumping, Dying
  <1>2. CASE ReadFails(c)
    BY <1>2 DEF ReadFails, Starting, Loaded, Sending, Pumping, Dying
  <1>3. CASE Unregister(c)
    <2>1. ~Starting(c, f) /\ ~Dying(c, f, "read")
      BY <1>3 DEF Unregister, Starting, Dying
    <2>2. Dying(c, f, "unregister") => Served(c, f)'
      BY <1>3 DEF Unregister, Dying, Served
    <2>3. ASSUME NEW p \in {"select", "write"}, Pumping(c, f, p)
          PROVE  Owed(c, f)' /\ (LeftFull(c, p) \/ LeftEmpty(c, p))'
      BY <1>3, <2>3 DEF Unregister, CloseSend, Pumping, LeftFull, LeftEmpty
    <2> QED
      BY <2>1, <2>2, <2>3 DEF Loaded, Sending, Leaving
  <1>4. CASE handler[c] \notin InClients
    BY <1>4 DEF Starting, Loaded, Sending, Pumping, Dying
  <1> QED
    BY <1>1, <1>2, <1>3, <1>4
       DEF HandleConnections, Connect, UpgradeFails, Upgrade, Validate, RegisterRefused, Register

\* A viewer that is owed f moves only along its way to it, or leaves.
LEMMA ViewerStep ==
  ASSUME IInv, TornDown, [Next]_vars, Quiet, Quiet', NEW c \in Conns, NEW f \in 1..MaxFrames
  PROVE  /\ Starting(c, f) => Starting(c, f)' \/ Loaded(c, f, "select")'
         /\ Loaded(c, f, "write") => \/ Loaded(c, f, "write")' \/ Loaded(c, f, "select")' \/ Served(c, f)'
                                     \/ Dying(c, f, "read")' \/ Dying(c, f, "unregister")' \/ Leaving(c, f)'
         /\ Loaded(c, f, "select") => \/ Loaded(c, f, "select")' \/ Sending(c, f)'
                                      \/ Dying(c, f, "read")' \/ Dying(c, f, "unregister")' \/ Leaving(c, f)'
         /\ Sending(c, f) => \/ Sending(c, f)' \/ Served(c, f)'
                             \/ Dying(c, f, "read")' \/ Dying(c, f, "unregister")' \/ Leaving(c, f)'
         /\ Dying(c, f, "read") => Dying(c, f, "read")' \/ Dying(c, f, "unregister")'
         /\ Dying(c, f, "unregister") => Dying(c, f, "unregister")' \/ Served(c, f)'
  <1>1. lastFanned' = lastFanned
    BY ViewerAlone
  <1>2. CASE /\ UNCHANGED <<handler[c], pump[c], send[c], inflight[c], written[c], closed[c]>>
             /\ conn[c] = "closed" => conn'[c] = "closed"
    BY <1>1, <1>2 DEF Starting, Loaded, Sending, Dying, Pumping, Owed, Serving
  <1>3. CASE HandleConnections(c)
    BY <1>1, <1>3, ViewerHandler
  <1>4. CASE WritePump(c) \/ PumpPingFails(c)
    BY <1>1, <1>4, ViewerPump DEF InClients
  <1> QED
    BY <1>2, <1>3, <1>4, ViewerAlone

\* What it is owed it gets, at rest or not, or it is still owed it.
LEMMA OwedStep ==
  ASSUME IInv, [Next]_vars, NEW c \in Conns, NEW f \in 1..MaxFrames, Owed(c, f)
  PROVE  Owed(c, f)' \/ Served(c, f)'
  <1>1. IInv'
    BY Step
  <1>2. lastFanned' >= lastFanned
    <2> USE HubAssumption DEF IInv, TypeOK, Counting
    <2>1. CASE RunBroadcasts
      BY <2>1 DEF RunBroadcasts, Receive, Lock, Unlock, TrySend, Drain, Retry
    <2>2. CASE ~RunBroadcasts
      BY <2>2 DEF Next, vars, bvars, Publish, HandleConnections, Connect, UpgradeFails, Upgrade, Validate,
                  RegisterRefused, Register, Start, ReadFails, Unregister, WritePump, PumpTake, PumpWrite,
                  PumpWriteFails, PumpPingFails, PumpClosed, PumpExit, PeerLeaves
    <2> QED
      BY <2>1, <2>2
  <1> QED
    BY <1>1, <1>2 DEF IInv, TypeOK, Owed, Served

\* What the feed promises of one viewer and one snapshot.
Delivered(c, f) == (c \in Serving /\ lastFanned >= f) ~> (c \notin Serving \/ Shown[c] >= f)

\* The hub implements the whole feed: every viewer that stays is shown each
\* snapshot fanned out or a newer one, through its buffer and writePump, and
\* however a slow or dead peer is torn down meanwhile (enqueue, writePump,
\* handleConnections).  Publications end, and with them the fan-out.
THEOREM HubDelivers == FairSpec /\ []GoroutinesCanRun /\ <>[]Quiet => FeedSpec
  <1>1. ASSUME NEW c \in Conns, NEW f \in 1..MaxFrames
        PROVE  FairSpec /\ []GoroutinesCanRun /\ <>[]Quiet => Delivered(c, f)
    <2>1. Fairness => ConnFairness(c)
      BY <1>1 DEF Fairness
    <2>2. GoroutinesCanRun /\ Quiet =>
            /\ Starting(c, f) => ENABLED <<Start(c)>>_vars
            /\ Loaded(c, f, "write") \/ Loaded(c, f, "select") \/ Sending(c, f) => ENABLED <<WritePump(c)>>_vars
            /\ Dying(c, f, "read") => ENABLED <<ReadFails(c)>>_vars
            /\ Dying(c, f, "unregister") => ENABLED <<Unregister(c)>>_vars
      BY <1>1 DEF GoroutinesCanRun, Starting, Loaded, Sending, Pumping, Dying, ReadError, MuFree, Quiet
    <2>3. IInv /\ TornDown /\ Quiet /\ Owed(c, f) =>
            \/ Starting(c, f)
            \/ Loaded(c, f, "select") \/ Loaded(c, f, "write") \/ Sending(c, f)
            \/ Dying(c, f, "read") \/ Dying(c, f, "unregister")
            \/ Leaving(c, f)
      BY <1>1, OwedCases
    <2>4. IInv /\ TornDown /\ [Next]_vars /\ Quiet /\ Quiet' =>
            /\ Starting(c, f) => Starting(c, f)' \/ Loaded(c, f, "select")'
            /\ Loaded(c, f, "write") => \/ Loaded(c, f, "write")' \/ Loaded(c, f, "select")' \/ Served(c, f)'
                                        \/ Dying(c, f, "read")' \/ Dying(c, f, "unregister")' \/ Leaving(c, f)'
            /\ Loaded(c, f, "select") => \/ Loaded(c, f, "select")' \/ Sending(c, f)'
                                         \/ Dying(c, f, "read")' \/ Dying(c, f, "unregister")' \/ Leaving(c, f)'
            /\ Sending(c, f) => \/ Sending(c, f)' \/ Served(c, f)'
                                \/ Dying(c, f, "read")' \/ Dying(c, f, "unregister")' \/ Leaving(c, f)'
            /\ Dying(c, f, "read") => Dying(c, f, "read")' \/ Dying(c, f, "unregister")'
            /\ Dying(c, f, "unregister") => Dying(c, f, "unregister")' \/ Served(c, f)'
      BY <1>1, ViewerStep
    <2>5. IInv /\ TornDown /\ [Next]_vars /\ Quiet /\ Quiet' =>
            /\ Starting(c, f) /\ <<Start(c)>>_vars => Loaded(c, f, "select")'
            /\ Loaded(c, f, "write") /\ <<WritePump(c)>>_vars =>
                 \/ Loaded(c, f, "select")' \/ Served(c, f)'
                 \/ Dying(c, f, "read")' \/ Dying(c, f, "unregister")'
            /\ Loaded(c, f, "select") /\ <<WritePump(c)>>_vars =>
                 Sending(c, f)' \/ Dying(c, f, "read")' \/ Dying(c, f, "unregister")'
            /\ Sending(c, f) /\ <<WritePump(c)>>_vars =>
                 Served(c, f)' \/ Dying(c, f, "read")' \/ Dying(c, f, "unregister")'
            /\ Dying(c, f, "read") /\ <<ReadFails(c)>>_vars => Dying(c, f, "unregister")'
            /\ Dying(c, f, "unregister") /\ <<Unregister(c)>>_vars => Served(c, f)'
      BY <1>1, ViewerAlone, ViewerPump, ViewerHandler DEF HandleConnections
    <2>6. IInv /\ [Next]_vars /\ Owed(c, f) => Owed(c, f)' \/ Served(c, f)'
      BY <1>1, OwedStep
    <2>7. Leaving(c, f) => handler[c] = "none"
      BY DEF Leaving, LeftFull, LeftEmpty
    <2>8. Gone(c) => Served(c, f)
      BY DEF Gone, Served, Serving
    <2>9. IInv /\ c \in Serving /\ lastFanned >= f => Owed(c, f) \/ Served(c, f)
      BY <1>1 DEF IInv, TypeOK, Owed, Served
    <2>10. Served(c, f) => (c \notin Serving \/ Shown[c] >= f)
      BY <1>1 DEF Served, Shown
    <2>11. FairSpec /\ []GoroutinesCanRun => (handler[c] = "none" ~> Gone(c))
      BY <1>1, LeftEnds
    <2> DEFINE Fair == FairSpec /\ []GoroutinesCanRun
    <2>12. Fair => ([]Quiet /\ Leaving(c, f) ~> Served(c, f))
      BY <2>7, <2>8, <2>11, PTL
    <2>13. Fair => ([]Quiet /\ Dying(c, f, "unregister") ~> Served(c, f))
      BY <2>1, <2>2, <2>4, <2>5, Invariance, TornInvariance, PTL DEF FairSpec, Spec, ConnFairness
    <2>14. Fair => ([]Quiet /\ Dying(c, f, "read") ~> Served(c, f))
      <3>1. Fair => ([]Quiet /\ Dying(c, f, "read") ~> []Quiet /\ Dying(c, f, "unregister"))
        BY <2>1, <2>2, <2>4, <2>5, Invariance, TornInvariance, PTL DEF FairSpec, Spec, ConnFairness
      <3> QED
        BY <3>1, <2>13, PTL
    <2> DEFINE Out == Served(c, f) \/ Dying(c, f, "read") \/ Dying(c, f, "unregister") \/ Leaving(c, f)
    <2>15. Fair => ([]Quiet /\ Out ~> Served(c, f))
      BY <2>12, <2>13, <2>14, PTL
    <2>16. Fair => ([]Quiet /\ Sending(c, f) ~> Served(c, f))
      <3>1. Fair => ([]Quiet /\ Sending(c, f) ~> []Quiet /\ Out)
        BY <2>1, <2>2, <2>4, <2>5, Invariance, TornInvariance, PTL DEF FairSpec, Spec, ConnFairness
      <3> QED
        BY <3>1, <2>15, PTL
    <2>17. Fair => ([]Quiet /\ Loaded(c, f, "select") ~> Served(c, f))
      <3>1. Fair => ([]Quiet /\ Loaded(c, f, "select") ~> []Quiet /\ (Out \/ Sending(c, f)))
        BY <2>1, <2>2, <2>4, <2>5, Invariance, TornInvariance, PTL DEF FairSpec, Spec, ConnFairness
      <3> QED
        BY <3>1, <2>15, <2>16, PTL
    <2>18. Fair => ([]Quiet /\ Loaded(c, f, "write") ~> Served(c, f))
      <3>1. Fair => ([]Quiet /\ Loaded(c, f, "write") ~> []Quiet /\ (Out \/ Loaded(c, f, "select")))
        BY <2>1, <2>2, <2>4, <2>5, Invariance, TornInvariance, PTL DEF FairSpec, Spec, ConnFairness
      <3> QED
        BY <3>1, <2>15, <2>17, PTL
    <2>19. Fair => ([]Quiet /\ Starting(c, f) ~> Served(c, f))
      <3>1. Fair => ([]Quiet /\ Starting(c, f) ~> []Quiet /\ Loaded(c, f, "select"))
        BY <2>1, <2>2, <2>4, <2>5, Invariance, TornInvariance, PTL DEF FairSpec, Spec, ConnFairness
      <3> QED
        BY <3>1, <2>17, PTL
    <2>20. Fair => ([]Quiet /\ Owed(c, f) ~> Served(c, f))
      BY <2>3, <2>12, <2>13, <2>14, <2>16, <2>17, <2>18, <2>19, Invariance, TornInvariance, PTL DEF FairSpec
    <2> QED
      BY <2>6, <2>9, <2>10, <2>20, Invariance, PTL DEF FairSpec, Spec, Delivered
  <1>2. FairSpec /\ []GoroutinesCanRun /\ <>[]Quiet => Feed!Delivery
    <2> SUFFICES ASSUME NEW v \in Conns, NEW f \in 1..MaxFrames
                 PROVE  FairSpec /\ []GoroutinesCanRun /\ <>[]Quiet =>
                          ((v \in Serving /\ lastFanned >= f) ~> (v \notin Serving \/ Shown[v] >= f))
      BY DEF Feed!Delivery
    <2>1. FairSpec /\ []GoroutinesCanRun /\ <>[]Quiet => Delivered(v, f)
      BY <1>1
    <2> QED
      BY <2>1, PTL DEF Delivered
  <1> QED
    BY <1>2, HubImplementsFeed, PTL DEF FeedSpec, Feed!Spec, FairSpec
=============================================================================
