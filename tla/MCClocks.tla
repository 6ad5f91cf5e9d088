----------------------------- MODULE MCClocks -----------------------------
(* The two components that live by the clock, one connection's keepalive    *)
(* (timings of the code, in units of five seconds) and the rate limiter     *)
(* (one trusted proxy and one other address).  They share no state, and     *)
(* what is checked of each is safety: in a behaviour one of them moves and  *)
(* the other rests.  Limiters are told apart only by identity: permuting    *)
(* them changes nothing.                                                    *)
EXTENDS Keepalive, RateLimiter, TLC

VARIABLE moves   \* which of the two this behaviour is about

ClocksInit == KeepaliveInit /\ Init /\ moves \in {"connection", "limiter"}

ClocksNext ==
    /\ UNCHANGED moves
    /\ \/ moves = "connection" /\ KeepaliveNext /\ UNCHANGED vars
       \/ moves = "limiter" /\ Next /\ UNCHANGED keepaliveVars

ClocksSpec == ClocksInit /\ [][ClocksNext]_<<vars, keepaliveVars, moves>>

LimiterSymmetry == Permutations(Limiters)
=============================================================================
