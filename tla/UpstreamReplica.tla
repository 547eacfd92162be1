--------------------------- MODULE UpstreamReplica ---------------------------
(***************************************************************************)
(* What replication promises of each base table, as long as nobody drops   *)
(* it: it is at some position of the upstream log, it holds exactly what   *)
(* the upstream table held there, and it only moves forward.  A table that *)
(* is not at any position yet is not promised anything.                    *)
(***************************************************************************)
EXTENDS UpstreamLog

CONSTANTS
  Entries,
  Absent     \* a table that is at no position

VARIABLES log, replica

At(t, p) == [at |-> p, rows |-> Content(log, t, p)]

Init == log \in Seq(Entries) /\ replica = [t \in Tables |-> Absent]

Upstream ==
  /\ Len(log') = Len(log) + 1
  /\ SubSeq(log', 1, Len(log)) = log
  /\ UNCHANGED replica

(* A table is copied, moves forward, or is removed.                        *)
Move(t) ==
  /\ \E p \in 0..Len(log) :
       /\ replica[t] # Absent => p >= replica[t].at
       /\ replica'[t] = At(t, p)
  /\ \A u \in Tables \ {t} : replica'[u] = replica[u]
  /\ UNCHANGED log

Remove ==
  /\ \A t \in Tables : replica'[t] \in {Absent, replica[t]}
  /\ UNCHANGED log

Next == Upstream \/ Remove \/ \E t \in Tables : Move(t)

Spec == Init /\ [][Next]_<<log, replica>>
=============================================================================
