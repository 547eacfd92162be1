-------------------------------- MODULE Base --------------------------------
(***************************************************************************)
(* A base table node: how it turns a batch of table operations into the    *)
(* signed records it stores and forwards (node/special/base.rs).           *)
(*                                                                         *)
(* A row has two columns, "k" (the primary key when there is one) and "v". *)
(* An operation is a record whose field op is the name of the variant of   *)
(* TableOperation.  Rows are complete: tables whose columns change are     *)
(* recreated by the replicator, so fix() leaves every row as it is.        *)
(***************************************************************************)
EXTENDS Integers, Sequences, SequencesExt, FiniteSets, Bags, BagsExt

CONSTANTS
  None      \* no row, no offset

Cols == {"k", "v"}

Positive(row) == [sign |-> 1, row |-> row]
Negative(row) == [sign |-> -1, row |-> row]

(* The value of a column after a Modification.                             *)
Modified(old, m) ==
  CASE m.op = "Set" -> m.to
    [] m.op = "Add" -> old + m.to
    [] m.op = "Sub" -> old - m.to
    [] m.op = "None" -> old

Updated(row, update) == [c \in Cols |-> Modified(row[c], update[c])]

Unkeyed == {"SetReplicationOffset", "SetSnapshotMode", "Truncate"}

(* The primary key an operation is about.                                  *)
key_of(op) ==
  IF op.op \in {"DeleteByKey", "Update"} THEN op.key ELSE op.row.k

OpsNamed(ops, name) == SelectSeq(ops, LAMBDA op : op.op = name)

(* The largest replication offset of the batch takes precedence.           *)
replication_offset(ops) ==
  LET os == {op.offset : op \in Range(OpsNamed(ops, "SetReplicationOffset"))}
  IN IF os = {} THEN None ELSE CHOOSE o \in os : \A p \in os : p <= o

(* The last change of snapshot mode of the batch.                          *)
set_snapshot_mode(ops) ==
  LET ms == OpsNamed(ops, "SetSnapshotMode")
  IN IF ms = <<>> THEN None ELSE Last(ms).mode

BaseWrite(ops, records) ==
  [records |-> records,
   replication_offset |-> replication_offset(ops),
   set_snapshot_mode |-> set_snapshot_mode(ops)]

(* A table without a primary key: inserts and deletes become records as    *)
(* they come.  A truncation, or an operation that names a key, is an error *)
(* of the whole batch, which is None here.                                 *)
process_unkeyed(ops) ==
  LET rows == SelectSeq(ops, LAMBDA op : op.op \in {"Insert", "DeleteRow"})
      other == SelectSeq(ops, LAMBDA op : op.op \in (Unkeyed \ {"Truncate"}))
  IN IF Len(rows) + Len(other) < Len(ops) THEN None
     ELSE BaseWrite(ops,
            [i \in 1..Len(rows) |-> IF rows[i].op = "Insert"
                                    THEN Positive(rows[i].row)
                                    ELSE Negative(rows[i].row)])

(* The row of one key after an operation on that key.  An operation that   *)
(* does not fit the row is counted in the log of failed operations and     *)
(* otherwise has no effect: the log is an error only for permissive_writes,*)
(* which is off when there is an upstream.                                 *)
ApplyOp(value, op) ==
  CASE op.op = "Insert" -> IF value = None THEN op.row ELSE value
    [] op.op = "DeleteRow" -> IF value = op.row THEN None ELSE value
    [] op.op = "DeleteByKey" -> None
    [] op.op = "InsertOrUpdate" ->
         IF value = None THEN op.row ELSE Updated(value, op.update)
    [] op.op = "Update" ->
         IF value = None THEN None ELSE Updated(value, op.update)

(* The records that turn the stored row of a key into its new row.         *)
\* Mutant: an update gives the new row and not the removal of the old one.
RecordsOf_NoNegative(old, new) ==
  <<IF new = None THEN Negative(old) ELSE Positive(new)>>
RecordsOf(old, new) ==
  (IF old = None THEN <<>> ELSE <<Negative(old)>>)
    \o (IF new = None THEN <<>> ELSE <<Positive(new)>>)

(* One group of operations on one key.  acc.touched holds the rows that    *)
(* earlier groups of the batch wrote or deleted; stored maps the keys of   *)
(* the table to their rows.  In snapshot mode they are not looked up.      *)
ProcessGroup(acc, key, ops, stored, snapshotting) ==
  LET old == IF snapshotting THEN None
             ELSE IF key \in DOMAIN acc.touched THEN acc.touched[key]
             ELSE IF key \in DOMAIN stored THEN stored[key] ELSE None
      new == FoldLeft(ApplyOp, old, ops)
  IN IF old = new THEN acc
     ELSE [touched |->
             (IF new = None THEN [k \in {} |-> None] ELSE new.k :> new)
             @@ (IF old = None THEN [k \in {} |-> None] ELSE key :> None)
             @@ acc.touched,
           records |-> acc.records \o RecordsOf(old, new)]

(* A table with a primary key.  The batch is sorted by key, stably, with   *)
(* the operations that have no key in front, so the keyed operations are   *)
(* applied key by key in ascending order and in batch order within a key.  *)
(* A truncate, wherever it stands, removes every stored row before any     *)
(* keyed operation, which are still compared with the rows stored.         *)
(* rows is the sequence of the stored rows.                                *)
process_keyed(ops, rows, stored, snapshotting) ==
  LET keyed == SelectSeq(ops, LAMBDA op : op.op \notin Unkeyed)
      keys == SetToSortSeq({key_of(op) : op \in Range(keyed)}, <)
      truncated == IF OpsNamed(ops, "Truncate") = <<>> THEN <<>>
                   ELSE [i \in 1..Len(rows) |-> Negative(rows[i])]
      Step(acc, key) ==
        ProcessGroup(acc, key, SelectSeq(keyed, LAMBDA op : key_of(op) = key),
                     stored, snapshotting)
      end == FoldLeft(Step, [touched |-> [k \in {} |-> None],
                             records |-> truncated], keys)
  IN BaseWrite(ops, end.records)

=============================================================================
