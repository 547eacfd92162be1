------------------------------- MODULE Waiting -------------------------------
(***************************************************************************)
(* The bookkeeping of a domain for replays that missed (struct Waiting in   *)
(* domain/mod.rs).  A replay that misses is remembered as a redo; every     *)
(* hole it missed in is backfilled once, however many redos need it; the    *)
(* redo runs again when the last of its holes is filled.                    *)
(*                                                                         *)
(* A value w of the structure is a record of two maps:                      *)
(*   w.redos: hole -> the redos waiting for it                              *)
(*   w.holes: redo -> how many holes it still waits for.                    *)
(* A map is a function and its entries are the function's domain.  The code *)
(* removes the structure of a node when the last entry goes, so "no Waiting *)
(* for the node" is the record of two empty maps.                           *)
(***************************************************************************)
EXTENDS Integers, FiniteSets

NoWaiting == [redos |-> <<>>, holes |-> <<>>]

is_waiting(w) == DOMAIN w.redos # {}

RedosOf(w, h) == IF h \in DOMAIN w.redos THEN w.redos[h] ELSE {}

HolesLeft(w, r) == IF r \in DOMAIN w.holes THEN w.holes[r] ELSE 0

(***************************************************************************)
(* on_replay_misses: `missed' is a set of pairs <<hole, redo>>.  A pair     *)
(* already known changes nothing; a new one adds 1 to what the redo waits   *)
(* for.                                                                     *)
(***************************************************************************)
HolesIn(missed) == {p[1] : p \in missed}

RedosIn(missed) == {p[2] : p \in missed}

MissedBy(missed, h) == {r \in RedosIn(missed) : <<h, r>> \in missed}

NewHoles(w, missed, r) ==
  {h \in HolesIn(missed) : <<h, r>> \in missed /\ r \notin RedosOf(w, h)}

\* Mutant: the redo is counted for a vacant hole only, as if joining a
\* backfill that is already under way did not have to be waited for.
on_replay_misses_VacantOnly(w, missed) ==
  [redos |-> [h \in DOMAIN w.redos \cup HolesIn(missed) |->
                RedosOf(w, h) \cup MissedBy(missed, h)],
   holes |-> [r \in DOMAIN w.holes \cup RedosIn(missed) |->
                HolesLeft(w, r)
                  + Cardinality({h \in HolesIn(missed) : <<h, r>> \in missed
                                    /\ h \notin DOMAIN w.redos})]]

on_replay_misses(w, missed) ==
  [redos |-> [h \in DOMAIN w.redos \cup HolesIn(missed) |->
                RedosOf(w, h) \cup MissedBy(missed, h)],
   holes |-> [r \in DOMAIN w.holes \cup RedosIn(missed) |->
                HolesLeft(w, r) + Cardinality(NewHoles(w, missed, r))]]

\* Mutant: every redo asks for its holes, whoever asked before.
needed_replays_All(w, missed) == HolesIn(missed)

\* The holes nobody has asked to backfill yet: only those are requested.
needed_replays(w, missed) == HolesIn(missed) \ DOMAIN w.redos

(***************************************************************************)
(* The end of handle_replay: a backfill of the holes in `filled' arrived.   *)
(***************************************************************************)
FilledFor(w, filled, r) == {h \in filled : r \in RedosOf(w, h)}

\* The redos whose last hole is among those filled.
redos_ready(w, filled) ==
  {r \in DOMAIN w.holes : /\ FilledFor(w, filled, r) # {}
                          /\ w.holes[r] = Cardinality(FilledFor(w, filled, r))}

after_backfill(w, filled) ==
  [redos |-> [h \in DOMAIN w.redos \ filled |-> w.redos[h]],
   holes |-> [r \in DOMAIN w.holes \ redos_ready(w, filled) |->
                w.holes[r] - Cardinality(FilledFor(w, filled, r))]]

(***************************************************************************)
(* Both maps describe the same set of (hole, redo) pairs: no hole without a *)
(* redo, and every redo counts exactly the holes that name it.  The two     *)
(* assertions at the end of handle_replay, "there are still holes, so there *)
(* must still be pending redos" and its converse, and the unwrap() of the   *)
(* counter all rest on this.                                                *)
(***************************************************************************)
Consistent(w) ==
  /\ \A h \in DOMAIN w.redos : w.redos[h] # {} /\ w.redos[h] \subseteq DOMAIN w.holes
  /\ \A r \in DOMAIN w.holes :
       /\ w.holes[r] > 0
       /\ w.holes[r] = Cardinality({h \in DOMAIN w.redos : r \in w.redos[h]})
=============================================================================
