------------------------- MODULE RateLimiterProofs -------------------------
(* Proofs of the properties of RateLimiter, for every choice of rate, burst *)
(* and clean-up times that satisfies RateLimiterAssumption.                 *)
EXTENDS RateLimiter, TLAPS

\* A request holds the limiter of its address, whose entry was refreshed when
\* the request looked it up or later.
HeldOK(r) ==
    /\ r.key \in Addrs /\ r.limiter \in Limiters
    /\ limiters[r.key] = r.limiter
    /\ age[r.key] <= r.waited
    /\ r.remote \notin Trusted => r.key = r.remote

AllHeldOK == \A c \in Calls : call[c] # NoCall => HeldOK(call[c])

Apart ==
    \A a, b \in Addrs : limiters[a] # None /\ limiters[a] = limiters[b] => a = b

\* A limiter is full, or was last asked at most Delay after it was last seen.
Refilled ==
    \A a \in Addrs :
        limiters[a] # None =>
            tokens[limiters[a]] = Full \/ tokens[limiters[a]] + Delay >= age[a]

\* The clean-up comes before an entry is older than IdleAreForgotten allows.
CleanupDue ==
    \A a \in Addrs : limiters[a] # None => age[a] + sleep <= IdleAfter + SleepFor

\* What the watched peer was granted is missing from its bucket.
Accounted == window.spent + Level[window.remote] <= Full + window.elapsed

IInv == TypeOK /\ AllHeldOK /\ Apart /\ Refilled /\ CleanupDue /\ Accounted
-----------------------------------------------------------------------------
\* A new server has no entry and has granted nothing.
LEMMA InitIInv == Init => IInv
  <1> SUFFICES ASSUME Init PROVE IInv
    OBVIOUS
  <1> USE RateLimiterAssumption
  <1>1. TypeOK
    BY DEF Init, TypeOK, NoCall, Opened, MaxAge
  <1>2. AllHeldOK /\ Apart /\ Refilled /\ CleanupDue
    BY DEF Init, AllHeldOK, Apart, Refilled, CleanupDue
  <1>3. Accounted
    BY <1>1 DEF Init, Accounted, Level, Opened, TypeOK
  <1> QED
    BY <1>1, <1>2, <1>3 DEF IInv

\* A lookup leaves every bucket as it was, a new entry being full.
LEMMA LookupIInv ==
    ASSUME IInv, NEW c \in Calls, NEW remote \in Addrs,
           NEW realIP \in Addrs \cup {None}, NEW forwarded \in Addrs \cup {None},
           NEW l \in Limiters, Lookup(c, remote, realIP, forwarded, l)
    PROVE  IInv' /\ Level' = Level
  <1> USE RateLimiterAssumption
  <1> DEFINE a == ClientIP(remote, realIP, forwarded)
             r == [limiter |-> l, key |-> a, remote |-> remote, waited |-> 0]
  <1>1. a \in Addrs /\ (remote \notin Trusted => a = remote)
    BY DEF ClientIP
  <1> HIDE DEF a
  <1>2. /\ age' = [age EXCEPT ![a] = 0] /\ call' = [call EXCEPT ![c] = r]
        /\ UNCHANGED <<sleep, answer, window>>
    BY DEF Lookup, AuthLimiter, Seen, a
  <1>3. /\ limiters' = [limiters EXCEPT ![a] = l]
        /\ \/ limiters[a] = l /\ UNCHANGED tokens
           \/ /\ limiters[a] = None /\ l \in Unused
              /\ tokens' = [tokens EXCEPT ![l] = Full]
    BY <1>1 DEF Lookup, AuthLimiter, a, IInv, TypeOK
  <1>4. TypeOK
    BY DEF IInv
  <1>5. TypeOK'
    BY <1>1, <1>2, <1>3, <1>4 DEF TypeOK, MaxAge
  <1>6. \A b \in Addrs : b # a => limiters'[b] = limiters[b] /\ age'[b] = age[b]
    BY <1>1, <1>2, <1>3, <1>4 DEF TypeOK
  <1>7. limiters'[a] = l /\ age'[a] = 0
    BY <1>1, <1>2, <1>3, <1>4 DEF TypeOK
  <1>8. \A b \in Addrs : b # a => limiters[b] # l
    <2>1. CASE limiters[a] = l
      BY <2>1, <1>1 DEF IInv, Apart
    <2>2. CASE l \in Unused
      BY <2>2 DEF Unused
    <2> QED
      BY <2>1, <2>2, <1>3
  <1>9. \A b \in Addrs : limiters[b] # None /\ b # a => tokens'[limiters[b]] = tokens[limiters[b]]
    BY <1>3, <1>4, <1>8 DEF TypeOK
  <1>10. tokens'[l] = IF limiters[a] = None THEN Full ELSE tokens[limiters[a]]
    BY <1>3, <1>4 DEF TypeOK
  <1>11. AllHeldOK'
    <2> SUFFICES ASSUME NEW d \in Calls, call'[d] # NoCall PROVE HeldOK(call[d])'
      BY DEF AllHeldOK, NoCall
    <2>1. CASE d = c
      <3>1. call'[d] = r
        BY <2>1, <1>2, <1>4 DEF TypeOK
      <3> QED
        BY <3>1, <1>1, <1>7 DEF HeldOK
    <2>2. CASE d # c
      <3>1. call'[d] = call[d] /\ HeldOK(call[d])
        BY <2>2, <1>2, <1>4 DEF TypeOK, IInv, AllHeldOK
      <3>2. call[d].key = a => limiters[a] = l
        BY <3>1, <1>3 DEF HeldOK
      <3>3. call[d].waited \in 0..Delay
        BY <1>4 DEF TypeOK
      <3> QED
        BY <3>1, <3>2, <3>3, <1>6, <1>7 DEF HeldOK
    <2> QED
      BY <2>1, <2>2
  <1>12. Apart'
    BY <1>6, <1>7, <1>8 DEF Apart, IInv
  <1>13. Refilled'
    <2> SUFFICES ASSUME NEW b \in Addrs, limiters'[b] # None
                 PROVE  \/ tokens'[limiters'[b]] = Full
                        \/ tokens'[limiters'[b]] + Delay >= age'[b]
      BY DEF Refilled
    <2>1. CASE b = a
      BY <2>1, <1>5, <1>7 DEF TypeOK
    <2>2. CASE b # a
      BY <2>2, <1>6, <1>9 DEF IInv, Refilled
    <2> QED
      BY <2>1, <2>2
  <1>14. CleanupDue'
    <2> SUFFICES ASSUME NEW b \in Addrs, limiters'[b] # None
                 PROVE  age'[b] + sleep' <= IdleAfter + SleepFor
      BY DEF CleanupDue
    <2>1. CASE b = a
      BY <2>1, <1>2, <1>4, <1>7 DEF TypeOK
    <2>2. CASE b # a
      BY <2>2, <1>2, <1>6 DEF IInv, CleanupDue
    <2> QED
      BY <2>1, <2>2
  <1>15. Level' = Level
    <2> SUFFICES ASSUME NEW b \in Addrs PROVE Level'[b] = Level[b]
      BY DEF Level
    <2>1. CASE b = a
      BY <2>1, <1>7, <1>10 DEF Level
    <2>2. CASE b # a
      BY <2>2, <1>6, <1>9 DEF Level
    <2> QED
      BY <2>1, <2>2
  <1>16. Accounted'
    BY <1>2, <1>15 DEF Accounted, IInv
  <1> QED
    BY <1>5, <1>11, <1>12, <1>13, <1>14, <1>15, <1>16 DEF IInv

\* Allow takes a token from the bucket of the request's address alone, and
\* answers as that bucket does.
LEMMA AllowIInv ==
    ASSUME IInv, NEW c \in Calls, Allow(c)
    PROVE  IInv' /\ Buckets!Request(call[c].key)
  <1> USE RateLimiterAssumption
  <1> DEFINE r == call[c]
             k == r.key
             l == r.limiter
             ok == tokens[l] >= Interval
  <1>1. TypeOK /\ HeldOK(r)
    BY DEF IInv, AllHeldOK, Allow
  <1>2. k \in Addrs /\ l \in Limiters /\ limiters[k] = l /\ age[k] <= Delay
    BY <1>1 DEF HeldOK, TypeOK
  <1>3. /\ UNCHANGED <<limiters, age, sleep>> /\ call' = [call EXCEPT ![c] = NoCall]
        /\ answer' = <<k, ok>>
        /\ tokens' = [tokens EXCEPT ![l] = IF ok THEN tokens[l] - Interval ELSE tokens[l]]
        /\ window' = IF ok /\ r.remote = window.remote
                       THEN [window EXCEPT !.spent = @ + Interval] ELSE window
    BY DEF Allow
  <1>4. tokens[l] \in 0..Full
    BY <1>1, <1>2 DEF TypeOK
  <1>5. TypeOK'
    <2>1. tokens' \in [Limiters -> 0..Full]
      <3>1. (IF ok THEN tokens[l] - Interval ELSE tokens[l]) \in 0..Full
        BY <1>4
      <3> HIDE DEF ok, l
      <3> QED
        BY <3>1, <1>1, <1>3 DEF TypeOK
    <2>2. window' \in [remote : Addrs \ Trusted, spent : Nat, elapsed : 0..MaxWindow]
      BY <1>1, <1>3 DEF TypeOK
    <2> QED
      BY <2>1, <2>2, <1>1, <1>3 DEF TypeOK, NoCall
  <1>6. AllHeldOK' /\ Apart' /\ CleanupDue'
    BY <1>1, <1>3 DEF IInv, AllHeldOK, HeldOK, Apart, CleanupDue, TypeOK, NoCall
  <1>7. \A b \in Addrs : b # k /\ limiters[b] # None => limiters[b] # l
    BY <1>2 DEF IInv, Apart
  <1>8. Refilled'
    <2> SUFFICES ASSUME NEW b \in Addrs, limiters[b] # None
                 PROVE  \/ tokens'[limiters[b]] = Full
                        \/ tokens'[limiters[b]] + Delay >= age[b]
      BY <1>3 DEF Refilled
    <2>1. CASE b = k
      BY <2>1, <1>2, <1>1, <1>5 DEF TypeOK
    <2>2. CASE b # k
      BY <2>2, <1>1, <1>3, <1>7 DEF TypeOK, IInv, Refilled
    <2> QED
      BY <2>1, <2>2
  <1>9. Level[k] = tokens[l] /\ l # None
    BY <1>2 DEF Level
  <1>10. Level' = [Level EXCEPT ![k] = IF ok THEN @ - Interval ELSE @]
    <2> SUFFICES ASSUME NEW b \in Addrs
                 PROVE  Level'[b] = IF b = k THEN IF ok THEN Level[b] - Interval ELSE Level[b]
                                    ELSE Level[b]
      BY DEF Level
    <2>1. CASE b = k
      BY <2>1, <1>1, <1>2, <1>3, <1>9 DEF Level, TypeOK
    <2>2. CASE b # k
      BY <2>2, <1>1, <1>3, <1>7 DEF Level, TypeOK
    <2> QED
      BY <2>1, <2>2
  <1>11. Accounted'
    <2> DEFINE w == window.remote
    <2>1. w \in Addrs \ Trusted /\ window'.remote = w /\ window'.elapsed = window.elapsed
          /\ window.spent \in Nat /\ window.elapsed \in Nat
      BY <1>1, <1>3 DEF TypeOK
    <2>2. Level[w] \in Nat /\ Level'[w] \in Nat
      BY <2>1, <1>1, <1>5 DEF Level, TypeOK
    <2>3. CASE ok /\ r.remote = w
      <3>1. k = w
        BY <2>1, <2>3, <1>1 DEF HeldOK
      <3>2. Level'[w] = Level[w] - Interval
        BY <3>1, <2>1, <2>3, <1>10 DEF Level
      <3>3. window'.spent = window.spent + Interval
        BY <2>3, <1>1, <1>3 DEF TypeOK
      <3> QED
        BY <3>2, <3>3, <2>1, <2>2 DEF IInv, Accounted
    <2>4. CASE ~(ok /\ r.remote = w)
      <3>1. Level'[w] <= Level[w]
        BY <2>1, <2>2, <1>10 DEF Level
      <3>2. window' = window
        BY <2>4, <1>3
      <3> QED
        BY <3>1, <3>2, <2>1, <2>2 DEF IInv, Accounted
    <2> QED
      BY <2>3, <2>4
  <1>12. Buckets!Request(k)
    BY <1>3, <1>9, <1>10 DEF Buckets!Request
  <1> QED
    BY <1>5, <1>6, <1>8, <1>11, <1>12 DEF IInv

\* The clean-up deletes only limiters that are full and that nobody holds.
LEMMA CleanupIInv ==
    ASSUME IInv, Cleanup
    PROVE  IInv' /\ Level' = Level
  <1> USE RateLimiterAssumption
  <1>1. TypeOK
    BY DEF IInv
  <1>2. TypeOK'
    BY <1>1 DEF TypeOK, Cleanup
  <1>3. AllHeldOK'
    <2> SUFFICES ASSUME NEW c \in Calls, call[c] # NoCall PROVE HeldOK(call[c])'
      BY DEF AllHeldOK, Cleanup, NoCall
    <2>1. HeldOK(call[c]) /\ call[c].waited \in 0..Delay
      BY <1>1 DEF IInv, AllHeldOK, TypeOK
    <2>2. ~Idle(call[c].key)
      BY <2>1, <1>1 DEF HeldOK, Idle, TypeOK, MaxAge
    <2> QED
      BY <2>1, <2>2 DEF HeldOK, Cleanup
  <1>4. Apart' /\ Refilled'
    BY DEF IInv, Apart, Refilled, Cleanup
  <1>5. CleanupDue'
    <2> SUFFICES ASSUME NEW a \in Addrs, limiters'[a] # None
                 PROVE  age[a] + SleepFor <= IdleAfter + SleepFor
      BY DEF CleanupDue, Cleanup
    <2>1. ~Idle(a) /\ age[a] \in Nat
      BY <1>1 DEF Cleanup, TypeOK, MaxAge
    <2> QED
      BY <2>1 DEF Idle
  <1>6. Level' = Level
    <2> SUFFICES ASSUME NEW a \in Addrs PROVE Level'[a] = Level[a]
      BY DEF Level
    <2>1. CASE Idle(a) /\ limiters[a] # None
      <3>1. tokens[limiters[a]] \in 0..Full /\ age[a] \in Nat /\ age[a] > IdleAfter
        BY <2>1, <1>1 DEF TypeOK, Idle, MaxAge
      <3>2. tokens[limiters[a]] = Full
        BY <3>1, <2>1 DEF IInv, Refilled
      <3> QED
        BY <3>2, <2>1 DEF Level, Cleanup
    <2>2. CASE ~(Idle(a) /\ limiters[a] # None)
      BY <2>2 DEF Level, Cleanup
    <2> QED
      BY <2>1, <2>2
  <1>7. Accounted'
    BY <1>6 DEF IInv, Accounted, Cleanup
  <1> QED
    BY <1>2, <1>3, <1>4, <1>5, <1>6, <1>7 DEF IInv

\* Time fills the buckets of all addresses alike.
LEMMA TickIInv ==
    ASSUME IInv, Tick
    PROVE  IInv' /\ Buckets!Tick
  <1> USE RateLimiterAssumption
  <1>1. TypeOK
    BY DEF IInv
  <1>2. \A c \in Calls : /\ call[c] = NoCall => call'[c] = NoCall
                         /\ call[c] # NoCall =>
                              /\ call[c].waited + 1 <= Delay
                              /\ call'[c] = [call[c] EXCEPT !.waited = call[c].waited + 1]
    BY <1>1 DEF Tick, TypeOK
  <1>3. TypeOK'
    <2>1. call' \in [Calls -> [limiter : Limiters \cup {None}, key : Addrs \cup {None},
                               remote : Addrs \cup {None}, waited : 0..Delay]]
      <3>1. call' = [c \in Calls |-> call'[c]]
        BY DEF Tick
      <3>2. \A c \in Calls : call'[c] \in [limiter : Limiters \cup {None}, key : Addrs \cup {None},
                               remote : Addrs \cup {None}, waited : 0..Delay]
        <4> SUFFICES ASSUME NEW c \in Calls
                     PROVE  call'[c] \in [limiter : Limiters \cup {None}, key : Addrs \cup {None},
                                          remote : Addrs \cup {None}, waited : 0..Delay]
          OBVIOUS
        <4>1. CASE call[c] = NoCall
          BY <4>1, <1>1, <1>2 DEF TypeOK
        <4>2. CASE call[c] # NoCall
          <5>1. call[c] \in [limiter : Limiters \cup {None}, key : Addrs \cup {None},
                             remote : Addrs \cup {None}, waited : 0..Delay]
            BY <1>1 DEF TypeOK
          <5>2. call[c].waited \in 0..Delay
            BY <5>1
          <5>3. call[c].waited + 1 <= Delay
            BY <4>2, <1>2
          <5>4. call[c].waited + 1 \in 0..Delay
            BY <5>2, <5>3
          <5>5. call'[c] = [call[c] EXCEPT !.waited = call[c].waited + 1]
            BY <4>2, <1>2
          <5> QED
            BY <5>1, <5>4, <5>5
        <4> QED
          BY <4>1, <4>2
      <3> QED
        BY <3>1, <3>2
    <2>2. tokens' \in [Limiters -> 0..Full] /\ age' \in [Addrs -> 0..MaxAge]
      BY <1>1 DEF Tick, TypeOK, MaxAge
    <2>3. window' \in [remote : Addrs \ Trusted, spent : Nat, elapsed : 0..MaxWindow]
      BY <1>1 DEF Tick, TypeOK, Opened
    <2> QED
      BY <2>1, <2>2, <2>3, <1>1 DEF Tick, TypeOK
  <1>4. \A a \in Addrs : age'[a] <= age[a] + 1 /\ age[a] \in Nat /\ age'[a] \in Nat
    BY <1>1 DEF Tick, TypeOK, MaxAge
  <1>5. \A l \in Limiters : /\ tokens[l] \in 0..Full
                            /\ tokens'[l] = IF tokens[l] < Full THEN tokens[l] + 1 ELSE Full
    BY <1>1 DEF Tick, TypeOK
  <1>6. AllHeldOK'
    <2> SUFFICES ASSUME NEW c \in Calls, call'[c] # NoCall PROVE HeldOK(call[c])'
      BY DEF AllHeldOK, NoCall
    <2>1. /\ HeldOK(call[c]) /\ call[c].waited \in Nat
          /\ call'[c] = [call[c] EXCEPT !.waited = call[c].waited + 1]
      BY <1>1, <1>2 DEF IInv, AllHeldOK, TypeOK
    <2>2. /\ call'[c].key = call[c].key /\ call'[c].limiter = call[c].limiter
          /\ call'[c].remote = call[c].remote /\ call'[c].waited = call[c].waited + 1
      BY <2>1, <1>1 DEF TypeOK
    <2> QED
      BY <2>1, <2>2, <1>4 DEF HeldOK, Tick
  <1>7. Apart'
    BY DEF IInv, Apart, Tick
  <1>8. Refilled'
    <2> SUFFICES ASSUME NEW a \in Addrs, limiters[a] # None
                 PROVE  \/ tokens'[limiters[a]] = Full
                        \/ tokens'[limiters[a]] + Delay >= age'[a]
      BY DEF Refilled, Tick
    <2>1. limiters[a] \in Limiters
      BY <1>1 DEF TypeOK
    <2>2. \/ tokens[limiters[a]] = Full
          \/ tokens[limiters[a]] + Delay >= age[a]
      BY DEF IInv, Refilled
    <2> QED
      BY <2>1, <2>2, <1>4, <1>5
  <1>9. CleanupDue'
    <2> SUFFICES ASSUME NEW a \in Addrs, limiters[a] # None
                 PROVE  age'[a] + sleep' <= IdleAfter + SleepFor
      BY DEF CleanupDue, Tick
    <2>1. sleep' = sleep - 1 /\ sleep \in Nat
      BY <1>1 DEF Tick, TypeOK
    <2>2. age[a] + sleep <= IdleAfter + SleepFor
      BY DEF IInv, CleanupDue
    <2> QED
      BY <2>1, <2>2, <1>4
  <1>10. Level' = [a \in Addrs |-> IF Level[a] < Full THEN Level[a] + 1 ELSE Full]
    <2>1. limiters' = limiters
      BY DEF Tick
    <2>2. \A a \in Addrs : limiters[a] # None => limiters[a] \in Limiters
      BY <1>1 DEF TypeOK
    <2> QED
      BY <2>1, <2>2, <1>5 DEF Level
  <1>11. Accounted'
    <2>1. /\ window.remote \in Addrs /\ window.spent \in Nat /\ window.elapsed \in 0..MaxWindow
          /\ window'.remote = window.remote
      BY <1>1 DEF TypeOK, Tick, Opened
    <2>2. Level[window.remote] \in Nat
      BY <2>1, <1>1 DEF TypeOK, Level
    <2>3. Level'[window.remote] <= Level[window.remote] + 1 /\ Level'[window.remote] <= Full
          /\ Level'[window.remote] \in Nat
      BY <2>1, <2>2, <1>10
    <2>4. CASE window.elapsed < MaxWindow
      <3>1. window'.spent = window.spent /\ window'.elapsed = window.elapsed + 1
        BY <2>4, <1>1 DEF Tick, TypeOK
      <3> QED
        BY <3>1, <2>1, <2>2, <2>3 DEF IInv, Accounted
    <2>5. CASE ~(window.elapsed < MaxWindow)
      <3>1. window'.spent = 0 /\ window'.elapsed = 0
        BY <2>5 DEF Tick, Opened
      <3> QED
        BY <3>1, <2>1, <2>3 DEF Accounted
    <2> QED
      BY <2>4, <2>5
  <1>12. Buckets!Tick
    BY <1>10 DEF Buckets!Tick, Tick
  <1> QED
    BY <1>3, <1>6, <1>7, <1>8, <1>9, <1>11, <1>12 DEF IInv

\* A window can be opened at any instant.
LEMMA OpenWindowIInv ==
    ASSUME IInv, NEW a \in Addrs \ Trusted, OpenWindow(a)
    PROVE  IInv' /\ UNCHANGED <<Level, answer>>
  <1> USE RateLimiterAssumption
  <1>1. TypeOK'
    BY DEF IInv, TypeOK, OpenWindow, Opened
  <1>2. AllHeldOK' /\ Apart' /\ Refilled' /\ CleanupDue' /\ Level' = Level
    BY DEF IInv, AllHeldOK, HeldOK, Apart, Refilled, CleanupDue, OpenWindow, Level
  <1>3. Level'[a] \in Nat /\ Level'[a] <= Full
    BY <1>1 DEF TypeOK, Level
  <1>4. Accounted'
    BY <1>3 DEF Accounted, OpenWindow, Opened
  <1> QED
    BY <1>1, <1>2, <1>4 DEF IInv, OpenWindow

\* Every step keeps the invariant and is a step of the buckets or none.
LEMMA StepIInv ==
    ASSUME IInv, [Next]_vars
    PROVE  IInv' /\ [Buckets!Next]_<<Level, answer>>
  <1>1. ASSUME NEW c \in Calls, Allow(c) PROVE IInv' /\ Buckets!Next
    BY <1>1, AllowIInv DEF IInv, AllHeldOK, HeldOK, Allow, Buckets!Next
  <1>2. ASSUME NEW c \in Calls, NEW remote \in Addrs, NEW realIP \in Addrs \cup {None},
               NEW forwarded \in Addrs \cup {None}, NEW l \in Limiters,
               Lookup(c, remote, realIP, forwarded, l)
        PROVE  IInv' /\ UNCHANGED <<Level, answer>>
    BY <1>2, LookupIInv DEF Lookup
  <1>3. CASE Cleanup
    BY <1>3, CleanupIInv DEF Cleanup
  <1>4. CASE Tick
    BY <1>4, TickIInv DEF Buckets!Next
  <1>5. ASSUME NEW a \in Addrs \ Trusted, OpenWindow(a)
        PROVE  IInv' /\ UNCHANGED <<Level, answer>>
    BY <1>5, OpenWindowIInv
  <1>6. CASE UNCHANGED vars
    BY <1>6 DEF vars, IInv, TypeOK, AllHeldOK, HeldOK, Apart, Refilled, CleanupDue,
               Accounted, Level
  <1> QED
    BY <1>1, <1>2, <1>3, <1>4, <1>5, <1>6 DEF Next

LEMMA Invariance == Spec => []IInv
  <1>1. Init => IInv
    BY InitIInv
  <1>2. IInv /\ [Next]_vars => IInv'
    BY StepIInv
  <1> QED
    BY <1>1, <1>2, PTL DEF Spec
-----------------------------------------------------------------------------
\* authLimiter never hands out a limiter that the clean-up drops from the map
\* before it is asked, provided Delay and the refill fit into IdleAfter.
THEOREM HeldIsCurrentHolds == Spec => []HeldIsCurrent
  <1>1. IInv => HeldIsCurrent
    BY DEF IInv, AllHeldOK, HeldOK, HeldIsCurrent
  <1> QED
    BY <1>1, Invariance, PTL

\* In no window does an untrusted peer get more than the burst and the rate.
THEOREM RateKeptHolds == Spec => []RateKept
  <1>1. IInv => RateKept
    <2> SUFFICES ASSUME IInv PROVE RateKept
      OBVIOUS
    <2>1. /\ window.remote \in Addrs /\ window.spent \in Nat /\ window.elapsed \in Nat
      BY DEF IInv, TypeOK
    <2>2. Level[window.remote] \in Nat
      BY <2>1, RateLimiterAssumption DEF IInv, TypeOK, Level
    <2> QED
      BY <2>1, <2>2, RateLimiterAssumption DEF IInv, Accounted, RateKept
  <1> QED
    BY <1>1, Invariance, PTL

\* cleanupLimiters bounds the life of an idle entry.
THEOREM IdleAreForgottenHolds == Spec => []IdleAreForgotten
  <1>1. IInv => IdleAreForgotten
    <2> SUFFICES ASSUME IInv, NEW a \in Addrs, limiters[a] # None
                 PROVE  age[a] <= IdleAfter + SleepFor
      BY DEF IdleAreForgotten
    <2>1. age[a] \in Nat /\ sleep \in Nat
      BY DEF IInv, TypeOK, MaxAge
    <2>2. age[a] + sleep <= IdleAfter + SleepFor
      BY DEF IInv, CleanupDue
    <2> QED
      BY <2>1, <2>2, RateLimiterAssumption
  <1> QED
    BY <1>1, Invariance, PTL

\* The map of limiters with its clean-up implements one everlasting bucket per
\* address: deletion never gives an address a token it would not have had.
THEOREM NeverForgetsHolds == Spec => NeverForgets
  <1>1. Init => Buckets!Init
    BY DEF Init, Buckets!Init, Level
  <1>2. IInv /\ [Next]_vars => [Buckets!Next]_<<Level, answer>>
    BY StepIInv
  <1> QED
    BY <1>1, <1>2, Invariance, PTL DEF Spec, NeverForgets, Buckets!Spec
=============================================================================
