---------------------------- MODULE RateLimiter ----------------------------
(***************************************************************************)
(* The per-address rate limiter in front of /login and /callback           *)
(* (internal/oauth/oauth.go): a map of limiters, made on demand and        *)
(* deleted when idle.  A handler looks its limiter up under the lock and   *)
(* asks it only after the unlock, so the clean-up may run in between.      *)
(*                                                                         *)
(* Time passes in Ticks and is kept as ages.  tokens counts in ticks, as   *)
(* in TokenBuckets.  The clean-up is taken to run on time.                 *)
(***************************************************************************)
EXTENDS Integers

CONSTANTS
    Addrs, Trusted,        \* addresses, and those of the trusted proxies
    Limiters, None,        \* identities of *rate.Limiter, and nil
    Calls,                 \* bound on the requests between lookup and Allow
    Interval, Burst,       \* a token per Interval, at most Burst of them
    IdleAfter, SleepFor,   \* 10 and 5 minutes in the code
    Delay,                 \* most time from authLimiter's return to Allow
    MaxWindow              \* bound on the length of an observed window

Full == Burst * Interval

\* In the code: 60 s + Delay against 10 minutes.
ASSUME RateLimiterAssumption ==
    /\ None \notin Limiters /\ None \notin Addrs
    /\ Interval \in Nat /\ Full \in Nat /\ Delay \in Nat
    /\ IdleAfter \in Nat /\ SleepFor \in Nat /\ MaxWindow \in Nat
    /\ Full + Delay <= IdleAfter

VARIABLES
    limiters,   \* the map a.limiters; None for no entry
    age,        \* time since the entry's lastSeen, counted up to MaxAge
    tokens,     \* what each limiter has left
    call,       \* the requests between lookup and Allow
    sleep,      \* what is left of the clean-up's sleep
    answer,     \* history: the last request decided, and how
    window      \* history: granted to one untrusted peer since some instant

vars == <<limiters, age, tokens, call, sleep, answer, window>>

MaxAge == IdleAfter + SleepFor + 1
NoCall == [limiter |-> None, key |-> None, remote |-> None, waited |-> 0]

TypeOK ==
    /\ limiters \in [Addrs -> Limiters \cup {None}]
    /\ age \in [Addrs -> 0..MaxAge]
    /\ tokens \in [Limiters -> 0..Full]
    /\ call \in [Calls -> [limiter : Limiters \cup {None}, key : Addrs \cup {None},
                           remote : Addrs \cup {None}, waited : 0..Delay]]
    /\ sleep \in 0..SleepFor
    /\ window \in [remote : Addrs \ Trusted, spent : Nat, elapsed : 0..MaxWindow]

Opened(a) == [remote |-> a, spent |-> 0, elapsed |-> 0]

Init ==
    /\ limiters = [a \in Addrs |-> None]
    /\ age = [a \in Addrs |-> 0]
    /\ tokens = [l \in Limiters |-> Full]
    /\ call = [c \in Calls |-> NoCall]
    /\ sleep = SleepFor
    /\ answer = <<>>
    /\ window \in {Opened(a) : a \in Addrs \ Trusted}
-----------------------------------------------------------------------------
HeaderWins(remote, realIP, forwarded) ==
    IF realIP # None THEN realIP ELSE IF forwarded # None THEN forwarded ELSE remote

\* clientIP.  forwarded is the first address of X-Forwarded-For.
ClientIP(remote, realIP, forwarded) ==
    IF remote \notin Trusted THEN remote
    ELSE IF realIP # None THEN realIP
    ELSE IF forwarded # None THEN forwarded
    ELSE remote

Unused == {l \in Limiters : /\ \A a \in Addrs : limiters[a] # l
                            /\ \A c \in Calls : call[c].limiter # l}

Seen(a) == [age EXCEPT ![a] = 0]

\* authLimiter(ip): the entry of the address, or a new one.
AuthLimiter(a, l) ==
    /\ \/ /\ limiters[a] = l
          /\ UNCHANGED <<limiters, tokens>>
       \/ /\ limiters[a] = None /\ l \in Unused
          /\ limiters' = [limiters EXCEPT ![a] = l]
          /\ tokens' = [tokens EXCEPT ![l] = Full]
    /\ age' = Seen(a)

\* The handler of /login or /callback gets its limiter.
Lookup(c, remote, realIP, forwarded, l) ==
    LET a == ClientIP(remote, realIP, forwarded) IN
    /\ call[c] = NoCall
    /\ AuthLimiter(a, l)
    /\ call' = [call EXCEPT ![c] =
                  [limiter |-> l, key |-> a, remote |-> remote, waited |-> 0]]
    /\ UNCHANGED <<sleep, answer, window>>

\* Allow, then 429 or the handler proper.
Allow(c) ==
    LET r == call[c] ok == tokens[r.limiter] >= Interval IN
    /\ r # NoCall
    /\ tokens' = [tokens EXCEPT ![r.limiter] = IF ok THEN @ - Interval ELSE @]
    /\ answer' = <<r.key, ok>>
    /\ window' = IF ok /\ r.remote = window.remote
                   THEN [window EXCEPT !.spent = @ + Interval] ELSE window
    /\ call' = [call EXCEPT ![c] = NoCall]
    /\ UNCHANGED <<limiters, age, sleep>>

IdleSoon(a) == age[a] > SleepFor

LongIdle(a) == age[a] > IdleAfter + 1

Idle(a) == age[a] > IdleAfter

\* One round of cleanupLimiters.
Cleanup ==
    /\ sleep = 0
    /\ limiters' = [a \in Addrs |-> IF Idle(a) THEN None ELSE limiters[a]]
    /\ sleep' = SleepFor
    /\ UNCHANGED <<age, tokens, call, answer, window>>

\* One unit of time: rate.Limiter refills, everything ages.
Tick ==
    /\ sleep > 0 /\ \A c \in Calls : call[c].waited < Delay \/ call[c] = NoCall
    /\ sleep' = sleep - 1
    /\ tokens' = [l \in Limiters |-> IF tokens[l] < Full THEN tokens[l] + 1 ELSE Full]
    /\ age' = [a \in Addrs |-> IF age[a] < MaxAge THEN age[a] + 1 ELSE MaxAge]
    /\ call' = [c \in Calls |-> IF call[c] = NoCall THEN NoCall
                                ELSE [call[c] EXCEPT !.waited = @ + 1]]
    /\ window' = IF window.elapsed < MaxWindow
                   THEN [window EXCEPT !.elapsed = @ + 1] ELSE Opened(window.remote)
    /\ UNCHANGED <<limiters, answer>>

\* History only: start to watch an untrusted peer.
OpenWindow(a) ==
    /\ window' = Opened(a)
    /\ UNCHANGED <<limiters, age, tokens, call, sleep, answer>>

Next ==
    \/ \E c \in Calls :
          \/ Allow(c)
          \/ \E remote \in Addrs, realIP, forwarded \in Addrs \cup {None}, l \in Limiters :
                Lookup(c, remote, realIP, forwarded, l)
    \/ Cleanup \/ Tick
    \/ \E a \in Addrs \ Trusted : OpenWindow(a)

Spec == Init /\ [][Next]_vars
-----------------------------------------------------------------------------
Level == [a \in Addrs |-> IF limiters[a] = None THEN Full ELSE tokens[limiters[a]]]

Buckets == INSTANCE TokenBuckets WITH level <- Level

\* Deleting idle entries is invisible: every request is decided as one bucket
\* per address, kept for ever, would decide it (oauth.go:98).
NeverForgets == Buckets!Spec

\* From any instant on, and whatever headers it sends, a peer that is not a
\* trusted proxy is granted at most Burst requests and one per Interval of
\* the time since (oauth.go:78, "5 requests per minute with a burst of 5").
RateKept == window.spent <= Full + window.elapsed

\* The limiter a handler is about to ask is the one in the map, so no two
\* requests of one address are counted apart.
HeldIsCurrent ==
    \A c \in Calls : call[c] # NoCall => limiters[call[c].key] = call[c].limiter

\* No address keeps an entry longer than one clean-up past its idle time.
IdleAreForgotten ==
    \A a \in Addrs : limiters[a] # None => age[a] <= IdleAfter + SleepFor
=============================================================================
