----------------------------- MODULE MCBaseTable -----------------------------
(***************************************************************************)
(* The instances of BaseTable for TLC: the batches the replicator sends.   *)
(***************************************************************************)
EXTENDS BaseTable

CONSTANTS
  KeyUpdates    \* whether an update may change the primary key

Row(k, v) == [k |-> k, v |-> v]

Keep == [op |-> "None"]
Set(n) == [op |-> "Set", to |-> n]
Add(n) == [op |-> "Add", to |-> n]

KeyedRows == {Row(1, 1), Row(1, 2), Row(2, 1)}

UpdateOp(k, update) == [op |-> "Update", key |-> k, update |-> update]

KeyedOps ==
  {Insert(r) : r \in KeyedRows}
  \cup {[op |-> "DeleteRow", row |-> r] : r \in KeyedRows}
  \cup {[op |-> "DeleteByKey", key |-> k] : k \in 1..2}
  \cup {[op |-> "InsertOrUpdate", row |-> Row(k, 1),
         update |-> [k |-> Keep, v |-> Add(1)]] : k \in 1..2}
  \cup {UpdateOp(k, [k |-> Keep, v |-> Set(2)]) : k \in 1..2}

(* An update of the key, followed by an operation on the new key.          *)
KeyUpdateBatches ==
  {<<UpdateOp(k, [k |-> Set(3 - k), v |-> Keep]),
     [op |-> "DeleteByKey", key |-> 3 - k]>> : k \in 1..2}

(* The connector for Postgres puts a truncation behind what it queued.     *)
Truncate == [op |-> "Truncate"]
TruncateBatches == {<<Truncate>>} \cup {<<op, Truncate>> : op \in KeyedOps}

(* A table without a primary key gets inserts and deletes of whole rows    *)
(* that the upstream table has at the time, of the batch's own rows too.   *)
UnkeyedRows == {Row(1, 1), Row(1, 2), Row(Null, 1)}
UnkeyedOps ==
  {Insert(r) : r \in UnkeyedRows}
  \cup {[op |-> "DeleteRow", row |-> r] : r \in UnkeyedRows}

ValidUnkeyed(b, ops) ==
  LET dels == {i \in 1..Len(ops) : ops[i].op = "DeleteRow"}
      after(i) == ExecutedAll(b, SubSeq(ops, 1, i))
  IN /\ \A i \in dels : ops[i].row \in DOMAIN after(i - 1)
     /\ kind = "unique" =>
          \A i \in 1..Len(ops) : Cardinality({r \in DOMAIN after(i) : r.k = 1}) <= 1
     /\ kind = "unique" => \A i \in 1..Len(ops) : \A r \in DOMAIN after(i) :
                              r.k = 1 => after(i)[r] = 1

(* What a table without a primary key refuses: a truncation, and a delete  *)
(* by the unique key that is the table's replica identity.                 *)
RefusedBatches(k) ==
  {<<Truncate>>, <<Insert(Row(Null, 1)), Truncate>>}
  \cup IF k = "unique" THEN {<<[op |-> "DeleteByKey", key |-> 1]>>} ELSE {}

OneOrTwo(ops) == {<<op>> : op \in ops} \cup {<<op1, op2>> : op1, op2 \in ops}

MCBatches(k) ==
  IF k = "primary"
  THEN OneOrTwo(KeyedOps) \cup TruncateBatches
         \cup (IF KeyUpdates THEN KeyUpdateBatches ELSE {})
  ELSE {ops \in OneOrTwo(UnkeyedOps) : ValidUnkeyed(Upstream, ops)} \cup RefusedBatches(k)

MCTargets(k) ==
  CASE k = "primary" -> {SetToBag({Row(1, 1), Row(2, 1)})}
    [] k = "unique" -> {BagAdd(SetToBag({Row(1, 1), Row(Null, 1)}), Row(Null, 1))}
    [] k = "none" -> {BagAdd(SetToBag({Row(1, 1)}), Row(1, 1))}

MCIndices == {IndexOf("v", "HashMap"), IndexOf("k", "BTreeMap")}
=============================================================================
