--------------------------- MODULE MCKeyStoreDocs ---------------------------
(* What the comments and the tests of the key store say of it, against what  *)
(* KeyStore does, with one rotation.                                         *)
EXTENDS KeyStore

MCKids == {"s", "b"}
MCPublished == <<{"s"}, {"s", "b"}>>

VARIABLE broken     \* history: what did not hold at some time

\* "refreshIfStale refreshes the JWKS only if the last attempt was more than
\* jwksRefreshThrottle ago" (jwks.go:67), but an attempt finds the store fresh.
TooSoon(r) == OnDemand(r) /\ Fresh

\* TestKeyStore_RefreshesOnUnknownKid: "expected rotated key rsa2 to be picked up
\* via on-demand refresh" (jwks_test.go:215), but a retry misses a key that its
\* own refresh has fetched.
Missed(r) == Retry(r) /\ reply[r] # 0 /\ kid[r] \in NewKeys(reply[r]) /\ ~answer'[r]

DocsInit == Init /\ broken = {}

DocsNext ==
    /\ Next
    /\ broken' = broken \cup (IF \E r \in Reqs : TooSoon(r) THEN {"throttle"} ELSE {})
                        \cup (IF \E r \in Reqs : Missed(r) THEN {"rotation"} ELSE {})

DocsSpec == DocsInit /\ [][DocsNext]_<<vars, broken>>

\* The store keeps to its throttle and picks rotated keys up (jwks.go:67,
\* jwks_test.go:215): so it keeps at least one of the two.
ThrottledOrRotated == broken # {"throttle", "rotation"}
=============================================================================
