-------------------------- MODULE MCRedactionDocs --------------------------
(* What README.md and a comment of inspect.go say of the redaction, against  *)
(* what Redaction does: with a path by the index of a task, one that is read *)
(* off the JSON output, and a label that hides an environment variable; of   *)
(* two tasks one has stopped, and then the other is gone.                    *)
EXTENDS MCRedaction

VARIABLE broken     \* history: what did not hold at some time

DocConfigs == {Config(<<{}, {}>>, <<IndexPath, JsonPath>>)}
DocSwarms ==
    [c \in DocConfigs |->
       {Swarm(<<t1>>, {t2}, HideEnvs :> {<<"E1">>}, <<>>), Swarm(<<>>, {}, HideEnvs :> {<<"E1">>}, <<>>)}]

Broken ==
    (IF HiddenInOutput THEN {} ELSE {"labels"})
    \cup (IF JsonPathsClear THEN {} ELSE {"paths"})
    \cup (IF PublishedUntouched THEN {} ELSE {"snapshot"})

DocsInit == Init /\ broken = {}
DocsNext == Next /\ broken' = broken \cup Broken'
DocsSpec == DocsInit /\ [][DocsNext]_<<vars, broken>>

\* Labels hide values in all of the output (README.md:99, HiddenInOutput), paths
\* that are read off it clear (README.md:101, JsonPathsClear), and clearing again
\* leaves the published snapshot as it is (inspect.go:111, PublishedUntouched): so
\* at least one of the three holds all the time.
HidesClearsOrKeeps == broken # {"labels", "paths", "snapshot"}
=============================================================================
