---------------------------- MODULE MCReaderMap ----------------------------
(* An instance of ReaderMap for TLC: the operations the writer chooses from. *)
EXTENDS ReaderMap

\* Every kind of operation, on two keys, with values that land before and
\* after each other, and ranges that cover a hole and a filled key.
SomeOps ==
       {[op |-> "Add", key |-> 1, val |-> v] : v \in {1, 2}}
  \cup {[op |-> "Add", key |-> 2, val |-> 1]}
  \cup {[op |-> "RemoveValue", key |-> 1, val |-> v] : v \in {1, 2}}
  \cup {[op |-> "Clear", key |-> 1]}
  \cup {[op |-> "Retain", key |-> 1, keep |-> {1}]}
  \cup {[op |-> "AddRange", keys |-> {1, 2}]}
  \cup {[op |-> "Remove", keys |-> S] : S \in {{1}, {1, 2}}}
  \cup {[op |-> "SetStamp", stamp |-> t] : t \in Stamps}
=============================================================================
