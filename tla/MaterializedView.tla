-------------------------- MODULE MaterializedView --------------------------
(***************************************************************************)
(* What building a full materialization below a union promises: at some     *)
(* moment the view exists and holds a prefix of the writes of every parent, *)
(* and from then on it takes each further write once, in order.  There is   *)
(* no state in which it has only some of the rows it was built from, a row  *)
(* twice, or a gap.                                                         *)
(***************************************************************************)
EXTENDS Naturals

CONSTANTS Parents,
          Unbuilt,    \* the view does not exist yet
          MaxWrites   \* bound on the writes of a parent

VARIABLES written,  \* number of writes of each parent
          view      \* how many of them the view has, or Unbuilt

vars == <<written, view>>

Init ==
  /\ written = [p \in Parents |-> 0]
  /\ view = Unbuilt

Write(p) ==
  /\ written[p] < MaxWrites
  /\ written' = [written EXCEPT ![p] = @ + 1]
  /\ UNCHANGED view

Build ==
  /\ view = Unbuilt
  /\ view' # Unbuilt
  /\ view' \in {v \in [Parents -> 0..MaxWrites] : \A p \in Parents : v[p] <= written[p]}
  /\ UNCHANGED written

Apply(p) ==
  /\ view # Unbuilt
  /\ view[p] < written[p]
  /\ view' = [view EXCEPT ![p] = @ + 1]
  /\ UNCHANGED written

Next == Build \/ \E p \in Parents : Write(p) \/ Apply(p)

Has(p, n) == view # Unbuilt /\ view[p] >= n

\* The view is built, and every write comes to it.
Liveness ==
  /\ <>(view # Unbuilt)
  /\ \A p \in Parents, n \in 1..MaxWrites : written[p] >= n ~> Has(p, n)

Spec == Init /\ [][Next]_vars /\ Liveness
=============================================================================
