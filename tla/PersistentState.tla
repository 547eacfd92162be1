-------------------------- MODULE PersistentState --------------------------
(***************************************************************************)
(* The RocksDB state of one base table (dataflow-state/persistent_state.rs)*)
(* and what of it survives a crash of the process.                         *)
(*                                                                         *)
(* The domain's thread is the only one that changes the state.  A call     *)
(* updates the fields in memory and leaves, in todo, the calls into        *)
(* RocksDB it goes on to make, in order; a crash may fall between any two  *)
(* of them.  RocksDB itself is external: a column family is a function     *)
(* from keys to values, cfs is what reads see and disk is what opening the *)
(* database again would find.  A write that goes to the write ahead log    *)
(* reaches both, one that bypasses it reaches only cfs until its family is *)
(* flushed, and families are created and dropped durably.                  *)
(***************************************************************************)
EXTENDS Base

CONSTANTS
  Null          \* the SQL value NULL

VARIABLES
  unique_keys,  \* the columns with a unique key, in order: <<>> or <<"k">>
  indices,      \* the indices, the primary one first
  offset,       \* the replication offset, None before the first one
  shared,       \* the offset that all handles of the database see
  epoch,        \* incremented each time the database is opened
  seq,          \* makes keys of a primary index that is not unique distinct
  snapshot_mode,
  cfs,          \* the column families as reads see them, by number
  disk,         \* the column families and the meta key as a crash leaves them
  todo          \* the calls into RocksDB still to be made

memory == <<indices, offset, shared, epoch, seq, snapshot_mode>>
storage == <<cfs, disk, todo>>

IndexOf(col, type) == [col |-> col, type |-> type]

PK_CF == 1

Meta(is, e, o) == [indices |-> is, epoch |-> e, offset |-> o]

(*--------------------------- RocksDB (external) --------------------------*)

SaveMeta(meta) == [call |-> "write", puts |-> <<>>, meta |-> meta, wal |-> TRUE]
WriteBatch(puts, meta, wal) ==
  [call |-> "write", puts |-> puts, meta |-> meta, wal |-> wal]
CreateCf(i) == [call |-> "create", cf |-> i]
DropCf(i) == [call |-> "drop", cf |-> i]
FlushCf(i) == [call |-> "flush", cf |-> i]

Put(cf, key, val) == [cf |-> cf, key |-> key, val |-> val]
Delete(cf, key) == [cf |-> cf, key |-> key, val |-> None]

NoKeys == [x \in {} |-> None]

WrittenOne(fs, p) ==
  [fs EXCEPT ![p.cf] = IF p.val = None
                       THEN Restrict(@, DOMAIN @ \ {p.key})
                       ELSE (p.key :> p.val) @@ @]
Written(fs, puts) == FoldLeft(WrittenOne, fs, puts)

(* The next call into RocksDB.                                             *)
Call ==
  /\ todo # <<>>
  /\ todo' = Tail(todo)
  /\ LET c == Head(todo) IN
     CASE c.call = "write" ->
            /\ cfs' = Written(cfs, c.puts)
            /\ disk' = [cfs |-> IF c.wal THEN Written(disk.cfs, c.puts)
                                ELSE disk.cfs,
                        meta |-> IF c.meta = None THEN disk.meta ELSE c.meta]
       [] c.call = "create" ->
            /\ cfs' = (c.cf :> NoKeys) @@ cfs
            /\ disk' = [disk EXCEPT !.cfs = (c.cf :> NoKeys) @@ @]
       [] c.call = "drop" ->
            /\ cfs' = Restrict(cfs, DOMAIN cfs \ {c.cf})
            /\ disk' = [disk EXCEPT !.cfs = Restrict(@, DOMAIN @ \ {c.cf})]
       [] c.call = "flush" ->
            /\ cfs' = cfs
            /\ disk' = [disk EXCEPT !.cfs[c.cf] = cfs[c.cf]]
  /\ UNCHANGED <<unique_keys, memory>>

(* RocksDB may flush the memtable of a family whenever it wants.           *)
BackgroundFlush(i) ==
  /\ i \in DOMAIN cfs
  /\ disk.cfs[i] # cfs[i]
  /\ disk' = [disk EXCEPT !.cfs[i] = cfs[i]]
  /\ UNCHANGED <<unique_keys, memory, cfs, todo>>

(*------------------------------- the indices -----------------------------*)

(* An index is unique if it holds the columns of a unique key.             *)
check_if_index_is_unique(index) == index.col \in Range(unique_keys)

(* A key of an index is one that at most one row can have.                 *)
Single(index, val) == check_if_index_is_unique(index) /\ val # Null

SecondaryKey(index, row, pk) ==
  IF Single(index, row[index.col]) THEN <<row[index.col]>>
  ELSE <<row[index.col], pk>>

(* insert: the row goes to the primary family and its key to the others.   *)
(* acc carries the batch and the counter seq.                              *)
insert(acc, row) ==
  LET val == row[indices[PK_CF].col]
      single == Single(indices[PK_CF], val)
      n == IF single THEN acc.seq ELSE acc.seq + 1
      pk == IF single THEN <<val>> ELSE <<val, epoch, n>>
  IN [acc EXCEPT
        !.seq = n,
        !.puts = @ \o <<Put(PK_CF, pk, row)>>
                   \o [i \in 1..(Len(indices) - 1) |->
                         Put(i + 1, SecondaryKey(indices[i + 1], row, pk), pk)]]

(* The keys under which a row can be found in the primary family.  Without *)
(* a unique key the stored keys are searched, not the pending batch.       *)
StoredKeys(row) ==
  LET val == row[indices[PK_CF].col] IN
  IF Single(indices[PK_CF], val) THEN {<<val>>}
  ELSE {pk \in DOMAIN cfs[PK_CF] : cfs[PK_CF][pk] = row}

\* Mutant: the keys of a removed row stay in the other families.
remove_PrimaryOnly(acc, row) ==
  IF StoredKeys(row) = {} THEN [acc EXCEPT !.failed = TRUE]
  ELSE [acc EXCEPT
          !.puts = Append(@, Delete(PK_CF, CHOOSE key \in StoredKeys(row) : TRUE))]

(* remove: the row's primary key and its key in each other family go.      *)
(* There is no such key only when the row is absent, which is an error of  *)
(* the whole batch.                                                        *)
remove(acc, row) ==
  IF StoredKeys(row) = {} THEN [acc EXCEPT !.failed = TRUE]
  ELSE LET pk == CHOOSE key \in StoredKeys(row) : TRUE
       IN [acc EXCEPT
             !.puts = @ \o <<Delete(PK_CF, pk)>>
                        \o [i \in 1..(Len(indices) - 1) |->
                              Delete(i + 1, SecondaryKey(indices[i + 1], row, pk))]]

BatchStep(acc, r) ==
  IF r.sign = 1 THEN insert(acc, r.row) ELSE remove(acc, r.row)

(* A handle that is behind the database misses (Option's order: None is    *)
(* the least).                                                             *)
Behind == shared # None /\ (offset = None \/ offset < shared)

(* do_lookup: the rows of an index with a value, through the primary       *)
(* family if the index is another one; None is a consistency miss.         *)
do_lookup(i, val) ==
  LET pks == IF Single(indices[i], val)
             THEN DOMAIN cfs[i] \cap {<<val>>}
             ELSE {key \in DOMAIN cfs[i] : key[1] = val}
      pkOf(key) == IF i = PK_CF THEN key ELSE cfs[i][key]
  IN IF Behind THEN None
     ELSE [key \in pks |-> IF pkOf(key) \in DOMAIN cfs[PK_CF]
                           THEN cfs[PK_CF][pkOf(key)] ELSE None]

(*---------------------------- the operations -----------------------------*)

(* The flushes made before the offset that ends a snapshot is written: the *)
(* rows before it bypassed the log.                                        *)
\* Mutant: none, because the write of the offset is synchronous.
SnapshotFlushes_None(new) == <<>>
SnapshotFlushes(new) ==
  IF snapshot_mode /\ new # None
  THEN [i \in 1..Len(indices) |-> FlushCf(i)] ELSE <<>>

(* The batch that the records make.                                        *)
BatchOf(records) ==
  FoldLeft(BatchStep, [puts |-> <<>>, seq |-> seq, failed |-> FALSE], records)

(* There is nothing to do: no record and no offset, or an offset that the  *)
(* table has passed.                                                       *)
Skipped(records, new) ==
  \/ records = <<>> /\ new = None
  \/ new # None /\ offset # None /\ new <= offset

(* A row to remove is absent: an error, and nothing is written.            *)
Fails(records, new) == ~Skipped(records, new) /\ BatchOf(records).failed

(* process_records: a batch of signed records and, possibly, the           *)
(* replication offset they bring the table to.                             *)
process_records(records, new) ==
  LET acc == BatchOf(records)
      bypass == snapshot_mode /\ new = None
      meta == IF new = None THEN None ELSE Meta(indices, epoch, new)
  IN IF Skipped(records, new) THEN UNCHANGED <<unique_keys, memory, storage>>
     ELSE /\ seq' = acc.seq
          /\ IF acc.failed
             THEN UNCHANGED <<offset, shared, todo>>
             ELSE /\ offset' = IF new = None THEN offset ELSE new
                  /\ shared' = IF new = None THEN shared ELSE new
                  /\ todo' = SnapshotFlushes(new)
                               \o <<WriteBatch(acc.puts, meta, ~bypass)>>
          /\ UNCHANGED <<unique_keys, indices, epoch, snapshot_mode, cfs, disk>>

(* set_snapshot_mode(true): forget the offset of the handle, then empty    *)
(* every family by dropping it and creating it anew.                       *)
enable_snapshot_mode ==
  /\ snapshot_mode' = TRUE
  /\ offset' = None
  /\ todo' = <<SaveMeta(Meta(indices, epoch, None))>>
               \o FlattenSeq([i \in 1..Len(indices) |-> <<DropCf(i), CreateCf(i)>>])
  /\ UNCHANGED <<unique_keys, indices, shared, epoch, seq, cfs, disk>>

(* set_snapshot_mode(false): compaction changes no data.                   *)
disable_snapshot_mode ==
  /\ snapshot_mode' = FALSE
  /\ UNCHANGED <<unique_keys, indices, offset, shared, epoch, seq, storage>>

(* The calls that create the primary index, and those that create another  *)
(* one from the rows of the primary family: the index is in the meta key   *)
(* before its family exists, the rows bypass the log, in batches, and are  *)
(* flushed at the end.                                                     *)
PrimaryIndexCalls(is, e, o) ==
  <<SaveMeta(Meta(is, e, o)), CreateCf(PK_CF)>>

Reindexed(index, i) ==
  LET pks == SetToSeq(DOMAIN cfs[PK_CF]) IN
  [n \in 1..Len(pks) |->
     WriteBatch(<<Put(i, SecondaryKey(index, cfs[PK_CF][pks[n]], pks[n]), pks[n])>>,
                None, FALSE)]

SecondaryIndexCalls(index, is, rows) ==
  <<SaveMeta(Meta(is, epoch, offset)), CreateCf(Len(is))>>
    \o rows \o <<FlushCf(Len(is))>>

add_key(index) ==
  /\ IF index \in Range(indices) THEN UNCHANGED <<indices, todo>>
     ELSE IF indices # <<>>
     THEN /\ indices' = Append(indices, index)
          /\ todo' = SecondaryIndexCalls(index, indices',
                                         Reindexed(index, Len(indices')))
     ELSE LET primary == <<IndexOf(index.col, "HashMap")>> IN
          IF index.type = "HashMap"
          THEN /\ indices' = primary
               /\ todo' = PrimaryIndexCalls(primary, epoch, offset)
          ELSE /\ indices' = Append(primary, index)
               /\ todo' = PrimaryIndexCalls(primary, epoch, offset)
                            \o SecondaryIndexCalls(index, indices', <<>>)
  /\ UNCHANGED <<unique_keys, offset, shared, epoch, seq, snapshot_mode, cfs, disk>>

\* Mutant: the epoch is not incremented, and seq starts from 0 again.
IncrementEpoch_Keep(meta) == meta
IncrementEpoch(meta) == [meta EXCEPT !.epoch = @ + 1]

(* new: open what the disk holds.  A listed family that is missing is      *)
(* created, and the first unique key becomes the primary index.  (A family *)
(* that the meta key does not list makes the code panic before it could    *)
(* drop it: "Unknown column family".)                                      *)
Opened(d, keys) ==
  LET meta == IncrementEpoch(d.meta)
      primary == IF meta.indices = <<>> /\ keys # <<>>
                 THEN <<IndexOf(Head(keys), "HashMap")>> ELSE <<>>
      missing == SetToSeq((1..Len(meta.indices)) \ DOMAIN d.cfs)
  IN [meta |-> [meta EXCEPT !.indices = @ \o primary],
      calls |-> <<SaveMeta(meta)>>
                  \o [n \in 1..Len(missing) |-> CreateCf(missing[n])]
                  \o (IF primary = <<>> THEN <<>>
                      ELSE PrimaryIndexCalls(primary, meta.epoch, meta.offset))]

KnownFamilies(d) == DOMAIN d.cfs \subseteq 1..Len(d.meta.indices)

(* A crash, and the state opened again from the disk.                      *)
Restart ==
  LET o == Opened(disk, unique_keys) IN
  /\ KnownFamilies(disk)
  /\ indices' = o.meta.indices
  /\ offset' = o.meta.offset
  /\ shared' = o.meta.offset
  /\ epoch' = o.meta.epoch
  /\ seq' = 0
  /\ snapshot_mode' = FALSE
  /\ cfs' = disk.cfs
  /\ todo' = o.calls
  /\ UNCHANGED <<unique_keys, disk>>

EmptyDisk == [cfs |-> NoKeys, meta |-> Meta(<<>>, 0, None)]

(* The state of a table that is new.                                       *)
NewState ==
  LET o == Opened(EmptyDisk, unique_keys) IN
  /\ indices = o.meta.indices
  /\ offset = None
  /\ shared = None
  /\ epoch = o.meta.epoch
  /\ seq = 0
  /\ snapshot_mode = FALSE
  /\ cfs = NoKeys
  /\ disk = EmptyDisk
  /\ todo = o.calls

=============================================================================
