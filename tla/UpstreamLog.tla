----------------------------- MODULE UpstreamLog -----------------------------
(***************************************************************************)
(* The log of the upstream database: a sequence of entries, each of a kind *)
(* and for a table.  A position is the number of entries before it.  What  *)
(* a table holds is, for each entry, how often it was applied: an entry    *)
(* that is lost, and one that is applied twice, both show.                 *)
(***************************************************************************)
EXTENDS Integers, Sequences, FiniteSets, FiniteSetsExt

CONSTANTS
  Tables,
  MaxLog      \* bound on the length of the log

Positions == 1..MaxLog

Of(log, t, p, kinds) == {i \in 1..p : log[i].table = t /\ log[i].kind \in kinds}

Exists(log, t, p) ==
  LET last == Max({0} \cup Of(log, t, p, {"create", "drop"}))
  IN last > 0 /\ log[last].kind = "create"

(* The entries that make up the table at a position.                       *)
Content(log, t, p) ==
  LET since == Max({0} \cup Of(log, t, p, {"create"}))
      entries == {i \in Of(log, t, p, {"write", "alter", "unsupported"}) : i > since}
  IN [i \in Positions |-> IF i \in entries THEN 1 ELSE 0]

(* Its definition: every CREATE TABLE makes the same one.                  *)
Body(log, t, p) ==
  Max({0} \cup {i \in Of(log, t, p, {"alter"}) :
                  \A j \in Of(log, t, p, {"create"}) : j < i})

NoRows == [i \in Positions |-> 0]
=============================================================================
