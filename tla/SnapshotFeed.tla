---------------------------- MODULE SnapshotFeed ----------------------------
(***************************************************************************)
(* What the WebSocket hub promises its clients, with no channel, lock or   *)
(* goroutine: there is one latest snapshot, and an open viewer's picture   *)
(* only ever moves forward, to a snapshot that has been fanned out.        *)
(***************************************************************************)
EXTENDS Naturals

CONSTANTS Viewers,    \* the connections a browser can hold
          MaxFrames   \* bound: how many snapshots are ever fanned out

VARIABLES latest,     \* number of the newest snapshot fanned out, 0 for none
          open,       \* the viewers being served
          view        \* the snapshot each viewer shows, 0 for none

feedVars == <<latest, open, view>>

Init ==
    /\ latest = 0
    /\ open = {}
    /\ view = [v \in Viewers |-> 0]

\* Snapshots are fanned out one by one: none is skipped, none repeated.
FanOut ==
    /\ latest' = latest + 1
    /\ UNCHANGED <<open, view>>

Join(v) ==
    /\ v \notin open
    /\ open' = open \cup {v}
    /\ UNCHANGED <<latest, view>>

\* A viewer may miss snapshots, but never shows an older or the same one again.
Show(v) ==
    /\ v \in open
    /\ \E f \in (view[v] + 1)..latest : view' = [view EXCEPT ![v] = f]
    /\ UNCHANGED <<latest, open>>

Leave(v) ==
    /\ v \in open
    /\ open' = open \ {v}
    /\ view' = [view EXCEPT ![v] = 0]
    /\ UNCHANGED latest

Next == FanOut \/ \E v \in Viewers : Join(v) \/ Show(v) \/ Leave(v)

\* The safety half of the promise.
Safe == Init /\ [][Next]_feedVars

\* A viewer that stays gets every snapshot or a newer one.
Delivery ==
    \A v \in Viewers, f \in 1..MaxFrames :
        (v \in open /\ latest >= f) ~> (v \notin open \/ view[v] >= f)

Spec == Safe /\ Delivery
=============================================================================
