------------------------------ MODULE KeyStore ------------------------------
(***************************************************************************)
(* The JWKS key store of internal/oauth/jwks.go: concurrent lookups by     *)
(* token validations, their throttled on-demand refreshes, and the         *)
(* periodic refresh loop, against an identity provider that rotates its    *)
(* keys and may fail to answer.                                            *)
(*                                                                         *)
(* Every critical section of ks.mu is one step; the HTTP round trip lies   *)
(* between two of them.  Time is discrete and relative: age saturates at   *)
(* Throttle, so no run of the clock is cut short.                          *)
(***************************************************************************)
EXTENDS Integers, Sequences, FiniteSets

CONSTANTS Reqs,       \* token validations that can run at the same time
          Loop,       \* the refreshLoop goroutine
          Kids,       \* key ids
          Published,  \* the key ids of each JWKS document, in order of rotation
          Usable,     \* the key ids whose x5c entry yields an RSA key
          Throttle,   \* jwksRefreshThrottle
          Interval,   \* jwksRefreshInterval
          Timeout     \* the HTTP client's timeout

ASSUME KeyStoreAssumption ==
    /\ Loop \notin Reqs
    /\ Published \in Seq(SUBSET Kids) /\ Len(Published) > 0
    /\ Usable \subseteq Kids
    /\ Throttle \in Nat \ {0} /\ Interval \in Nat \ {0} /\ Timeout \in Nat
    /\ Published[1] \cap Usable # {}

VARIABLES
    idp,      \* the document the identity provider serves now
    keys,     \* ks.keys
    age,      \* time since ks.lastRefresh, up to Throttle
    timer,    \* time to the next tick of refreshLoop's ticker
    due,      \* a tick waits in the ticker's channel
    pc,       \* where each goroutine is
    kid,      \* the key id a validation asks for
    spent,    \* how long its request to the identity provider has taken, 0 without one
    reply,    \* the document its refresh got, 0 for none, until the call returns
    answer,   \* what the last call of key returned
    attempts  \* on-demand refreshes since the store was last stale

vars == <<idp, keys, age, timer, due, pc, kid, spent, reply, answer, attempts>>

Procs == Reqs \cup {Loop}
Docs == 1..Len(Published)

\* newKeys: entries without a usable certificate are skipped.
NewKeys(d) == Published[d] \cap Usable

TypeOK ==
    /\ idp \in Docs /\ keys \subseteq Kids
    /\ age \in 0..Throttle /\ timer \in 1..Interval /\ due \in BOOLEAN
    /\ pc \in [Procs -> {"idle", "check", "refresh", "fetch", "store", "retry"}]
    /\ kid \in [Reqs -> Kids]
    /\ spent \in [Procs -> 0..Timeout]
    /\ reply \in [Procs -> 0..Len(Published)]
    /\ answer \in [Reqs -> BOOLEAN]
    /\ attempts \in [Reqs -> Nat]

\* As newKeyStore and the first refresh leave it: the server does not start
\* unless that refresh succeeds.
Init ==
    /\ idp = 1 /\ keys = NewKeys(1)
    /\ age = 0 /\ timer = Interval /\ due = FALSE
    /\ pc = [p \in Procs |-> "idle"]
    /\ kid \in [Reqs -> Kids]
    /\ spent = [p \in Procs |-> 0]
    /\ reply = [p \in Procs |-> 0]
    /\ answer = [r \in Reqs |-> FALSE]
    /\ attempts = [r \in Reqs |-> 0]
-----------------------------------------------------------------------------
\* key: the first lookup.
Lookup(r) ==
    /\ pc[r] = "idle"
    /\ \E k \in Kids :
        /\ kid' = [kid EXCEPT ![r] = k]
        /\ answer' = [answer EXCEPT ![r] = k \in keys]
        /\ pc' = [pc EXCEPT ![r] = IF k \in keys THEN "idle" ELSE "check"]
    /\ UNCHANGED <<idp, keys, age, timer, due, spent, reply, attempts>>

NeverFresh == FALSE

\* time.Since(ks.lastRefresh) < jwksRefreshThrottle
Fresh == age < Throttle

\* refreshIfStale reads lastRefresh and lets go of the lock.
Check(r) ==
    /\ pc[r] = "check"
    /\ pc' = [pc EXCEPT ![r] = IF Fresh THEN "idle" ELSE "refresh"]
    /\ UNCHANGED <<idp, keys, age, timer, due, kid, spent, reply, answer, attempts>>

\* refresh records the attempt before the request, so failures count.
StartRefresh(p) ==
    /\ age' = 0
    /\ pc' = [pc EXCEPT ![p] = "fetch"]
    /\ spent' = [spent EXCEPT ![p] = 0]
    /\ reply' = [reply EXCEPT ![p] = 0]
    /\ UNCHANGED <<idp, keys, timer, kid, answer>>

OnDemand(r) ==
    /\ pc[r] = "refresh"
    /\ StartRefresh(r)
    /\ attempts' = [attempts EXCEPT ![r] = @ + 1]
    /\ UNCHANGED due

Periodic ==
    /\ pc[Loop] = "idle" /\ due
    /\ StartRefresh(Loop)
    /\ due' = FALSE
    /\ UNCHANGED attempts

LoopReturns(p) == "retry"

\* Where a goroutine goes when its refresh is over.
AfterRefresh(p) == IF p = Loop THEN "idle" ELSE "retry"

\* The identity provider answers with the document it serves at that moment.
Respond(p) ==
    /\ pc[p] = "fetch"
    /\ reply' = [reply EXCEPT ![p] = idp]
    /\ pc' = [pc EXCEPT ![p] = "store"]
    /\ spent' = [spent EXCEPT ![p] = 0]
    /\ UNCHANGED <<idp, keys, age, timer, due, kid, answer, attempts>>

\* An error, a timeout, or a body that does not decode.
FetchFails(p) ==
    /\ pc[p] = "fetch"
    /\ pc' = [pc EXCEPT ![p] = AfterRefresh(p)]
    /\ spent' = [spent EXCEPT ![p] = 0]
    /\ UNCHANGED <<idp, keys, age, timer, due, kid, reply, answer, attempts>>

StoreAnything(p) ==
    /\ pc[p] = "store"
    /\ keys' = NewKeys(reply[p])
    /\ pc' = [pc EXCEPT ![p] = AfterRefresh(p)]
    /\ reply' = IF p = Loop THEN [reply EXCEPT ![p] = 0] ELSE reply
    /\ UNCHANGED <<idp, age, timer, due, kid, spent, answer, attempts>>

\* A document without a usable key is an error and changes nothing.
Store(p) ==
    /\ pc[p] = "store"
    /\ keys' = IF NewKeys(reply[p]) = {} THEN keys ELSE NewKeys(reply[p])
    /\ pc' = [pc EXCEPT ![p] = AfterRefresh(p)]
    /\ reply' = IF p = Loop THEN [reply EXCEPT ![p] = 0] ELSE reply
    /\ UNCHANGED <<idp, age, timer, due, kid, spent, answer, attempts>>

\* key: the second lookup, whether or not the refresh succeeded.
Retry(r) ==
    /\ pc[r] = "retry"
    /\ answer' = [answer EXCEPT ![r] = kid[r] \in keys]
    /\ pc' = [pc EXCEPT ![r] = "idle"]
    /\ reply' = [reply EXCEPT ![r] = 0]
    /\ UNCHANGED <<idp, keys, age, timer, due, kid, spent, attempts>>
-----------------------------------------------------------------------------
Rotate ==
    /\ idp < Len(Published)
    /\ idp' = idp + 1
    /\ UNCHANGED <<keys, age, timer, due, pc, kid, spent, reply, answer, attempts>>

\* No request outlives the client's timeout.
WithinTimeout == \A p \in Procs : pc[p] = "fetch" => spent[p] < Timeout

\* A tick that finds the ticker's channel full is dropped.
Tick ==
    /\ WithinTimeout
    /\ spent' = [p \in Procs |-> IF pc[p] = "fetch" THEN spent[p] + 1 ELSE spent[p]]
    /\ age' = IF age < Throttle THEN age + 1 ELSE Throttle
    /\ attempts' = IF age' = Throttle THEN [r \in Reqs |-> 0] ELSE attempts
    /\ timer' = IF timer = 1 THEN Interval ELSE timer - 1
    /\ due' = (due \/ timer = 1)
    /\ UNCHANGED <<idp, keys, pc, kid, reply, answer>>

Key(r) == Check(r) \/ OnDemand(r) \/ Retry(r)
Refresh(p) == Respond(p) \/ FetchFails(p) \/ Store(p)

Next ==
    \/ \E r \in Reqs : Lookup(r) \/ Key(r)
    \/ Periodic
    \/ \E p \in Procs : Refresh(p)
    \/ Rotate \/ Tick

Spec == Init /\ [][Next]_vars

(* Goroutines run, time passes, and an identity provider that the loop asks *)
(* again and again answers in the end.  Nothing is assumed of who connects. *)
ClockFairness == WF_vars(Tick)
LoopFairness == WF_vars(Periodic) /\ SF_vars(Respond(Loop))
KeyFairness(r) == WF_vars(Key(r))
RefreshFairness(p) == WF_vars(Refresh(p))

Fairness ==
    /\ ClockFairness /\ LoopFairness
    /\ \A r \in Reqs : KeyFairness(r)
    /\ \A p \in Procs : RefreshFairness(p)

FairSpec == Spec /\ Fairness

\* A refresh that waits for nothing can take its next step: what the proofs of
\* progress have to know of ENABLED.
RefreshCanRun(p) == pc[p] \in {"fetch", "store"} => ENABLED <<Refresh(p)>>_vars

RefreshesCanRun ==
    /\ pc[Loop] = "idle" /\ due => ENABLED <<Periodic>>_vars
    /\ pc[Loop] = "fetch" => ENABLED <<Respond(Loop)>>_vars
    /\ \A p \in Procs : RefreshCanRun(p)
-----------------------------------------------------------------------------
\* What is left of the throttle when validations overlap: from one attempt
\* until the store has been left alone for a whole throttle period, each
\* validation makes at most one on-demand refresh (jwks.go:68, a flood of
\* bogus tokens cannot hammer the JWKS endpoint), however long a request takes.
OneAttemptEach == \A r \in Reqs : attempts[r] <= 1

\* A key that was in every usable document so far stays known: failed,
\* empty, concurrent and reordered refreshes never lose it.
StableKeyKnown ==
    \A k \in Kids :
        (\A d \in 1..idp : NewKeys(d) # {} => k \in NewKeys(d)) => k \in keys

\* After the last rotation the store ends up with the identity provider's
\* keys and keeps them, although a late reply may roll it back for a while.
Converges == <>[](NewKeys(idp) # {}) => <>[](keys = NewKeys(idp))
=============================================================================
