---------------------------- MODULE MCInspector ----------------------------
(* Inspector with a swarm that changes twice, each time in two groups, with   *)
(* nothing to see in the others.                                              *)
EXTENDS Inspector, Sequences

Table(s) == [w \in 0..MaxChanges |-> s[w + 1]]

MCContent ==
    [nodes    |-> Table(<<1, 1, 2>>), services |-> Table(<<1, 2, 2>>),
     networks |-> Table(<<1, 2, 2>>), tasks    |-> Table(<<1, 1, 2>>)]
=============================================================================
