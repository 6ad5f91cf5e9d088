---------------------------- MODULE TokenBuckets ----------------------------
(***************************************************************************)
(* What the auth endpoints promise each address: one token bucket that is  *)
(* never forgotten.  Burst tokens to begin with, one more per Interval     *)
(* units of time, and a request passes exactly when it finds a token.      *)
(* level counts in time units: a token is worth Interval of them.          *)
(***************************************************************************)
EXTENDS Integers

CONSTANTS Addrs, Interval, Full

VARIABLES level, answer   \* answer: the last request decided, and how

Init ==
    /\ level = [a \in Addrs |-> Full]
    /\ answer = <<>>

Request(a) ==
    LET ok == level[a] >= Interval IN
    /\ level' = [level EXCEPT ![a] = IF ok THEN @ - Interval ELSE @]
    /\ answer' = <<a, ok>>

Tick ==
    /\ level' = [a \in Addrs |-> IF level[a] < Full THEN level[a] + 1 ELSE Full]
    /\ UNCHANGED answer

Next == Tick \/ \E a \in Addrs : Request(a)

Spec == Init /\ [][Next]_<<level, answer>>
=============================================================================
