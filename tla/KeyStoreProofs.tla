--------------------------- MODULE KeyStoreProofs ---------------------------
(***************************************************************************)
(* The safety of the key store for any number of concurrent validations,   *)
(* any sequence of documents and any timing.                               *)
(***************************************************************************)
EXTENDS KeyStore, TLAPS

\* A validation past the check has not refreshed since the store was stale,
\* and while anyone has, the store is fresh.
Throttled ==
    \A r \in Reqs :
        /\ attempts[r] <= 1
        /\ pc[r] = "refresh" => attempts[r] = 0
        /\ attempts[r] # 0 => age < Throttle

\* The keys are those of some document served so far.
FromDocument ==
    /\ \E d \in 1..idp : keys = NewKeys(d) /\ keys # {}
    /\ \A p \in Procs : reply[p] \in 0..idp
    /\ \A p \in Procs : pc[p] = "store" => reply[p] # 0

\* Only validations go through the lookups, only one goroutine is the loop.
LoopSteps == pc[Loop] \in {"idle", "fetch", "store"}

IInv == TypeOK /\ Throttled /\ FromDocument /\ LoopSteps

LEMMA InitIInv == Init => IInv
  <1> SUFFICES ASSUME Init PROVE IInv
    OBVIOUS
  <1> USE KeyStoreAssumption DEF Init
  <1>1. Len(Published) \in Nat /\ Published[1] \subseteq Kids
    OBVIOUS
  <1>2. idp \in Docs /\ keys \subseteq Kids /\ age \in 0..Throttle /\ timer \in 1..Interval
    BY <1>1 DEF Docs, NewKeys
  <1>3. /\ due \in BOOLEAN
        /\ pc \in [Procs -> {"idle", "check", "refresh", "fetch", "store", "retry"}]
        /\ answer \in [Reqs -> BOOLEAN]
    OBVIOUS
  <1>4. /\ spent \in [Procs -> 0..Timeout] /\ reply \in [Procs -> 0..Len(Published)]
        /\ attempts \in [Reqs -> Nat]
    BY <1>1
  <1>5. Throttled /\ LoopSteps
    BY DEF Throttled, LoopSteps, Procs
  <1>6. FromDocument
    BY <1>1 DEF FromDocument, NewKeys
  <1> QED
    BY <1>2, <1>3, <1>4, <1>5, <1>6 DEF IInv, TypeOK

LEMMA Step == IInv /\ [Next]_vars => IInv'
  <1> SUFFICES ASSUME IInv, [Next]_vars PROVE IInv'
    OBVIOUS
  <1> USE KeyStoreAssumption DEF IInv, TypeOK, Procs, Docs
  <1>1. ASSUME NEW r \in Reqs, Lookup(r) PROVE IInv'
    BY <1>1 DEF Lookup, Throttled, FromDocument, LoopSteps
  <1>2. ASSUME NEW r \in Reqs, Check(r) PROVE IInv'
    BY <1>2 DEF Check, Fresh, Throttled, FromDocument, LoopSteps
  <1>3. ASSUME NEW r \in Reqs, OnDemand(r) PROVE IInv'
    <2>1. TypeOK'
      <3>1. age' \in 0..Throttle /\ (spent \in [Procs -> 0..Timeout])'
        BY <1>3 DEF OnDemand, StartRefresh
      <3>2. (reply \in [Procs -> 0..Len(Published)])' /\ (attempts \in [Reqs -> Nat])'
        BY <1>3 DEF OnDemand, StartRefresh
      <3>3. (pc \in [Procs -> {"idle", "check", "refresh", "fetch", "store", "retry"}])'
        BY <1>3 DEF OnDemand, StartRefresh
      <3> QED
        BY <1>3, <3>1, <3>2, <3>3 DEF OnDemand, StartRefresh
    <2>2. Throttled'
      BY <1>3 DEF OnDemand, StartRefresh, Throttled
    <2>3. FromDocument' /\ LoopSteps'
      BY <1>3 DEF OnDemand, StartRefresh, FromDocument, LoopSteps
    <2> QED
      BY <2>1, <2>2, <2>3
  <1>4. CASE Periodic
    <2>1. TypeOK'
      <3>1. (due \in BOOLEAN)'
        BY <1>4 DEF Periodic
      <3>2. age' \in 0..Throttle /\ (spent \in [Procs -> 0..Timeout])'
        BY <1>4 DEF Periodic, StartRefresh
      <3>3. (reply \in [Procs -> 0..Len(Published)])'
        BY <1>4 DEF Periodic, StartRefresh
      <3>4. (pc \in [Procs -> {"idle", "check", "refresh", "fetch", "store", "retry"}])'
        BY <1>4 DEF Periodic, StartRefresh
      <3> QED
        BY <1>4, <3>1, <3>2, <3>3, <3>4 DEF Periodic, StartRefresh
    <2>2. Throttled'
      BY <1>4 DEF Periodic, StartRefresh, Throttled
    <2>3. FromDocument' /\ LoopSteps'
      BY <1>4 DEF Periodic, StartRefresh, FromDocument, LoopSteps
    <2> QED
      BY <2>1, <2>2, <2>3
  <1>5. ASSUME NEW p \in Procs, Respond(p) PROVE IInv'
    BY <1>5 DEF Respond, Throttled, FromDocument, LoopSteps
  <1>6. ASSUME NEW p \in Procs, FetchFails(p) PROVE IInv'
    BY <1>6 DEF FetchFails, AfterRefresh, Throttled, FromDocument, LoopSteps
  <1>7. ASSUME NEW p \in Procs, Store(p) PROVE IInv'
    <2>1. TypeOK'
      BY <1>7 DEF Store, AfterRefresh, NewKeys
    <2>2. Throttled' /\ LoopSteps'
      BY <1>7 DEF Store, AfterRefresh, Throttled, LoopSteps
    <2>3. \E d \in 1..idp : keys' = NewKeys(d) /\ keys' # {}
      <3>1. CASE NewKeys(reply[p]) = {}
        BY <1>7, <3>1 DEF Store, FromDocument
      <3>2. CASE NewKeys(reply[p]) # {}
        BY <1>7, <3>2 DEF Store, FromDocument
      <3> QED
        BY <3>1, <3>2
    <2>4. idp \in Nat /\ idp' = idp
      BY <1>7 DEF Store
    <2>5. ASSUME NEW q \in Procs
          PROVE  reply'[q] \in 0..idp /\ (pc'[q] = "store" => reply'[q] # 0)
      <3>1. reply'[q] = IF q = p /\ p = Loop THEN 0 ELSE reply[q]
        BY <1>7 DEF Store
      <3>2. pc'[q] = IF q = p THEN AfterRefresh(p) ELSE pc[q]
        BY <1>7 DEF Store
      <3> QED
        BY <2>4, <3>1, <3>2 DEF AfterRefresh, FromDocument
    <2>6. FromDocument'
      BY <2>3, <2>4, <2>5 DEF FromDocument, NewKeys
    <2> QED
      BY <2>1, <2>2, <2>6
  <1>8. ASSUME NEW r \in Reqs, Retry(r) PROVE IInv'
    BY <1>8 DEF Retry, Throttled, FromDocument, LoopSteps
  <1>9. CASE Rotate
    <2>1. TypeOK' /\ Throttled' /\ LoopSteps'
      BY <1>9 DEF Rotate, Throttled, LoopSteps
    <2>2. idp' \in Nat /\ idp \in Nat /\ idp' = idp + 1
      BY <1>9 DEF Rotate
    <2>3. PICK d \in 1..idp : keys = NewKeys(d) /\ keys # {}
      BY DEF FromDocument
    <2>4. d \in 1..idp' /\ keys' = NewKeys(d) /\ keys' # {}
      BY <1>9, <2>2, <2>3 DEF Rotate
    <2>5. \A p \in Procs : reply'[p] \in 0..idp' /\ (pc'[p] = "store" => reply'[p] # 0)
      BY <1>9, <2>2 DEF Rotate, FromDocument
    <2>6. FromDocument'
      BY <2>4, <2>5 DEF FromDocument, NewKeys
    <2> QED
      BY <2>1, <2>6
  <1>10. CASE Tick
    <2>1. TypeOK'
      <3>1. (spent \in [Procs -> 0..Timeout])'
        <4>1. ASSUME NEW p \in Procs
              PROVE  (IF pc[p] = "fetch" THEN spent[p] + 1 ELSE spent[p]) \in 0..Timeout
          <5>1. spent[p] \in 0..Timeout /\ Timeout \in Nat
            OBVIOUS
          <5>2. pc[p] = "fetch" => spent[p] < Timeout
            BY <1>10 DEF Tick, WithinTimeout
          <5>3. pc[p] = "fetch" => spent[p] + 1 \in 0..Timeout
            BY <5>1, <5>2
          <5> QED
            BY <5>1, <5>3
        <4> QED
          BY <1>10, <4>1 DEF Tick
      <3>2. age' \in 0..Throttle /\ timer' \in 1..Interval
        BY <1>10 DEF Tick
      <3>3. (due \in BOOLEAN)'
        BY <1>10 DEF Tick
      <3>4. (attempts \in [Reqs -> Nat])'
        BY <1>10 DEF Tick
      <3> QED
        BY <1>10, <3>1, <3>2, <3>3, <3>4 DEF Tick
    <2>2. Throttled'
      BY <1>10 DEF Tick, Throttled
    <2>3. FromDocument' /\ LoopSteps'
      BY <1>10 DEF Tick, FromDocument, LoopSteps, NewKeys
    <2> QED
      BY <2>1, <2>2, <2>3
  <1>11. CASE UNCHANGED vars
    BY <1>11 DEF vars, Throttled, FromDocument, LoopSteps, NewKeys
  <1> QED
    BY <1>1, <1>2, <1>3, <1>4, <1>5, <1>6, <1>7, <1>8, <1>9, <1>10, <1>11 DEF Next, Key, Refresh

LEMMA Invariance == Spec => []IInv
  BY InitIInv, Step, PTL DEF Spec

\* The variables of the key store keep their types; no request to the identity
\* provider lasts longer than the client's timeout.
THEOREM TypeCorrect == Spec => []TypeOK
  <1>1. IInv => TypeOK
    BY DEF IInv
  <1> QED
    BY <1>1, Invariance, PTL

\* However many validations race through refreshIfStale, each refreshes at
\* most once per throttle period.
THEOREM ThrottleHolds == Spec => []OneAttemptEach
  <1>1. IInv => OneAttemptEach
    BY DEF IInv, Throttled, OneAttemptEach
  <1> QED
    BY <1>1, Invariance, PTL

\* No refresh, failed, empty, concurrent or late, loses a key that every
\* usable document has had.
THEOREM StableKeys == Spec => []StableKeyKnown
  <1>1. IInv => StableKeyKnown
    BY DEF IInv, FromDocument, StableKeyKnown
  <1> QED
    BY <1>1, Invariance, PTL
-----------------------------------------------------------------------------
(* Convergence after the last rotation.                                     *)

\* A goroutine is about to store a document the identity provider has replaced.
Late(p, d) == pc[p] = "store" /\ reply[p] # d

\* While the provider serves d, no goroutine gets another document.
LEMMA LateStep ==
  ASSUME IInv, [Next]_vars, NEW p \in Procs, NEW d \in Docs, idp = d
  PROVE  /\ ~Late(p, d) => ~Late(p, d)'
         /\ Late(p, d) /\ Refresh(p) => ~Late(p, d)'
  <1> USE DEF IInv, TypeOK, Procs, Late
  <1>1. ASSUME NEW q \in Procs, Refresh(q), ~Late(p, d) PROVE ~Late(p, d)'
    BY <1>1 DEF Refresh, Respond, FetchFails, Store, AfterRefresh
  <1>2. ASSUME Refresh(p), Late(p, d) PROVE ~Late(p, d)'
    BY <1>2 DEF Refresh, Respond, FetchFails, Store, AfterRefresh
  <1>3. ASSUME NEW r \in Reqs, Lookup(r) \/ Key(r), ~Late(p, d) PROVE ~Late(p, d)'
    BY <1>3 DEF Lookup, Key, Check, OnDemand, StartRefresh, Retry
  <1>4. ASSUME Periodic \/ Rotate \/ Tick \/ UNCHANGED vars, ~Late(p, d) PROVE ~Late(p, d)'
    BY <1>4 DEF Periodic, StartRefresh, Rotate, Tick, vars
  <1> QED
    <2> HIDE DEF IInv, TypeOK, Procs, Late
    <2> QED
      BY <1>1, <1>2, <1>3, <1>4 DEF Next

\* After the last rotation every refresh that is still under way stores what it
\* got before it, if anything, and from then on its goroutine stores only the
\* current document (refresh, which replaces ks.keys without comparing).
THEOREM LateReplyStored ==
  ASSUME NEW p \in Procs, NEW d \in Docs
  PROVE  FairSpec /\ []RefreshesCanRun /\ <>[](idp = d) => <>[]~Late(p, d)
  <1>1. Fairness => RefreshFairness(p)
    BY DEF Fairness
  <1>2. RefreshesCanRun => (Late(p, d) => ENABLED <<Refresh(p)>>_vars)
    BY DEF RefreshesCanRun, RefreshCanRun, Late
  <1>3. IInv /\ [Next]_vars /\ idp = d => (~Late(p, d) => ~Late(p, d)')
    BY LateStep
  <1>4. IInv /\ [Next]_vars /\ idp = d /\ <<Refresh(p)>>_vars => (Late(p, d) => ~Late(p, d)')
    BY LateStep
  <1> QED
    BY <1>1, <1>2, <1>3, <1>4, Invariance, PTL DEF FairSpec, Spec, RefreshFairness

\* The provider serves d, whose keys are usable, and nothing else is in flight.
Settling(d) == idp = d /\ NewKeys(d) # {} /\ \A p \in Procs : ~Late(p, d)

LEMMA SettlingStep ==
  ASSUME IInv, [Next]_vars, NEW d \in Docs, Settling(d)
  PROVE  /\ keys = NewKeys(d) => keys' = NewKeys(d)
         /\ Refresh(Loop) /\ pc[Loop] = "store" => keys' = NewKeys(d)
  <1> USE DEF Settling, Late, Procs
  <1>1. ASSUME NEW p \in Procs, Store(p) PROVE keys' = NewKeys(d)
    BY <1>1 DEF Store
  <1>2. ASSUME NEW p \in Procs, Refresh(p), ~Store(p) PROVE keys' = keys /\ pc[p] # "store"
    BY <1>2 DEF Refresh, Respond, FetchFails
  <1>3. ASSUME NEW r \in Reqs, Lookup(r) \/ Key(r) PROVE keys' = keys
    BY <1>3 DEF Lookup, Key, Check, OnDemand, StartRefresh, Retry
  <1>4. ASSUME Periodic \/ Rotate \/ Tick \/ UNCHANGED vars PROVE keys' = keys
    BY <1>4 DEF Periodic, StartRefresh, Rotate, Tick, vars
  <1> QED
    BY <1>1, <1>2, <1>3, <1>4 DEF Next

\* The loop's steps are its own.
LEMMA LoopStep ==
  ASSUME IInv, [Next]_vars
  PROVE  /\ pc[Loop] = "idle" => (pc[Loop] = "idle")' \/ (pc[Loop] = "fetch")'
         /\ pc[Loop] = "idle" /\ due => (pc[Loop] = "idle" /\ due)' \/ (pc[Loop] = "fetch")'
         /\ pc[Loop] = "store" => (pc[Loop] = "store")' \/ Refresh(Loop)
         /\ Periodic => (pc[Loop] = "fetch")'
         /\ Refresh(Loop) => (pc[Loop] # "fetch")'
         /\ Refresh(Loop) /\ pc[Loop] = "store" => (pc[Loop] = "idle")'
         /\ Respond(Loop) => (pc[Loop] = "store")'
  <1> USE KeyStoreAssumption DEF IInv, TypeOK, Procs
  <1>1. Periodic => pc[Loop] = "idle" /\ (pc[Loop] = "fetch")'
    BY DEF Periodic, StartRefresh
  <1>2. Refresh(Loop) =>
          /\ (pc[Loop] # "fetch")' /\ pc[Loop] # "idle"
          /\ pc[Loop] = "store" => (pc[Loop] = "idle")'
    BY DEF Refresh, Respond, FetchFails, Store, AfterRefresh
  <1>3. Respond(Loop) => (pc[Loop] = "store")'
    BY DEF Respond
  <1> DEFINE Alone == pc'[Loop] = pc[Loop] /\ (due => due')
  <1>4. ASSUME NEW p \in Procs, p # Loop, Refresh(p) PROVE Alone
    BY <1>4 DEF Refresh, Respond, FetchFails, Store
  <1>5. ASSUME NEW r \in Reqs, Lookup(r) \/ Key(r) PROVE Alone
    BY <1>5 DEF Lookup, Key, Check, OnDemand, StartRefresh, Retry
  <1>6. ASSUME Rotate \/ UNCHANGED vars PROVE Alone
    BY <1>6 DEF Rotate, vars
  <1>7. ASSUME Tick PROVE Alone
    BY <1>7 DEF Tick
  <1>8. Alone \/ Periodic \/ Refresh(Loop)
    <2> HIDE DEF IInv, TypeOK, Procs, Alone
    <2> QED
      BY <1>4, <1>5, <1>6, <1>7 DEF Next
  <1> QED
    BY <1>1, <1>2, <1>3, <1>8, Zenon

\* The store ends up with the current keys and keeps them: refreshLoop asks
\* again at every tick, the provider answers in the end, and by then no late
\* reply is left to overwrite the answer (refreshLoop, refresh).
THEOREM ConvergesThm ==
  ASSUME NEW d \in Docs
  PROVE  /\ FairSpec /\ []RefreshesCanRun /\ []<>due
         /\ <>[](idp = d) /\ <>[](\A p \in Procs : ~Late(p, d))
         => Converges
  <1> DEFINE Clean == \A p \in Procs : ~Late(p, d)
             Keyed == NewKeys(idp) # {}
             Has == keys = NewKeys(d)
             Good == keys = NewKeys(idp)
  <1>1. Fairness => LoopFairness /\ RefreshFairness(Loop)
    BY DEF Fairness, Procs
  <1>2. RefreshesCanRun => RefreshCanRun(Loop)
    BY DEF RefreshesCanRun, Procs
  <1>3. RefreshesCanRun =>
          /\ pc[Loop] = "idle" /\ due => ENABLED <<Periodic>>_vars
          /\ pc[Loop] = "fetch" => ENABLED <<Respond(Loop)>>_vars
          /\ pc[Loop] = "fetch" \/ pc[Loop] = "store" => ENABLED <<Refresh(Loop)>>_vars
    BY <1>2 DEF RefreshesCanRun, RefreshCanRun
  <1>4. IInv => pc[Loop] = "idle" \/ pc[Loop] = "fetch" \/ pc[Loop] = "store"
    BY DEF IInv, LoopSteps
  <1>5. IInv /\ [Next]_vars =>
          /\ pc[Loop] = "idle" => (pc[Loop] = "idle")' \/ (pc[Loop] = "fetch")'
          /\ pc[Loop] = "idle" /\ due => (pc[Loop] = "idle" /\ due)' \/ (pc[Loop] = "fetch")'
          /\ <<Periodic>>_vars => (pc[Loop] = "fetch")'
          /\ <<Refresh(Loop)>>_vars => (pc[Loop] # "fetch")'
          /\ <<Refresh(Loop)>>_vars /\ pc[Loop] = "store" => (pc[Loop] = "idle")'
          /\ <<Respond(Loop)>>_vars => (pc[Loop] = "store")'
    BY LoopStep
  <1>6. IInv /\ [Next]_vars => (pc[Loop] = "store" => (pc[Loop] = "store")' \/ Refresh(Loop))
    BY LoopStep
  <1>7. IInv /\ [Next]_vars /\ idp = d /\ Clean /\ Keyed =>
          /\ Has => Has'
          /\ Refresh(Loop) /\ pc[Loop] = "store" => Has'
          /\ <<Refresh(Loop)>>_vars /\ pc[Loop] = "store" => Has'
    BY SettlingStep DEF Settling, NewKeys
  <1>8. idp = d /\ Has => Good
    OBVIOUS
  <1> HIDE DEF Clean, Keyed, Has, Good
  <1> DEFINE Fair == FairSpec /\ []RefreshesCanRun /\ []<>due
  <1>9. Fair => []<>(pc[Loop] = "fetch")
    BY <1>1, <1>3, <1>4, <1>5, Invariance, PTL DEF FairSpec, Spec, LoopFairness, RefreshFairness
  <1>10. Fair => []<>(pc[Loop] = "store")
    BY <1>1, <1>3, <1>5, <1>9, Invariance, PTL DEF FairSpec, Spec, LoopFairness
  <1>11. Fair /\ <>[](idp = d) /\ <>[]Clean /\ <>[]Keyed => <>[]Has
    BY <1>1, <1>3, <1>6, <1>7, <1>10, Invariance, PTL DEF FairSpec, Spec, RefreshFairness
  <1>12. Fair /\ <>[](idp = d) /\ <>[]Clean /\ <>[]Keyed => <>[]Good
    BY <1>8, <1>11, PTL
  <1> QED
    BY <1>12, PTL DEF Converges, Clean, Keyed, Good
=============================================================================
