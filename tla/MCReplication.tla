---------------------------- MODULE MCReplication ----------------------------
(***************************************************************************)
(* The instances of Replication for TLC.                                   *)
(***************************************************************************)
EXTENDS Replication

CONSTANTS MySqlKinds, PostgresKinds

Created(t) == [kind |-> "create", table |-> t]

MCKinds == [d \in Databases |-> IF d = "MySQL" THEN MySqlKinds ELSE PostgresKinds]

(* Both tables are there from the start unless they can be created later.  *)
MCBefore ==
  [d \in Databases |-> IF "create" \in MCKinds[d]
                       THEN <<Created("a"), [kind |-> "write", table |-> "a"]>>
                       ELSE <<Created("a"), Created("b")>>]
=============================================================================
