---------------------------- MODULE MCUpqueries ----------------------------
(* Instances of Upqueries for TLC.                                          *)
EXTENDS Upqueries

\* Every reader is a node of its own.
OwnNode == [r \in Readers |-> r]

\* All readers are replicas of one node.
OneNode == [r \in Readers |-> "reader"]

TheNode == {"reader"}
NoNode == {}

Points == [r \in Readers |-> {{k} : k \in Keys}]

\* Ranges of two neighbours and the whole key space.
Ranges == [r \in Readers |-> {{k, k + 1} : k \in 1..(N - 1)} \cup {Keys}]

\* A point in the middle and the whole key space: once the point is filled, a
\* lookup of the whole misses in two runs, on either side of it.
PointAndRange == [r \in Readers |-> {{2}, Keys}]
=============================================================================
