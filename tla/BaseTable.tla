------------------------------ MODULE BaseTable ------------------------------
(***************************************************************************)
(* A base table as the replicator sees it: a base node (Base) over its     *)
(* RocksDB state (PersistentState), fed with batches of table operations,  *)
(* given indices by migrations, and restarted after crashes.               *)
(*                                                                         *)
(* The replicator is the environment.  It either snapshots the table       *)
(* (snapshot mode on, the rows without an offset, the offset, snapshot     *)
(* mode off) or streams batches that carry their offset, and it snapshots  *)
(* again whenever a restart finds the table without an offset.  It waits   *)
(* for the acknowledgement of each batch; log keeps the batch without one, *)
(* to be sent again.  hist keeps the rows the upstream table has at the    *)
(* offsets that matter: the bag that executing its operations one after    *)
(* the other leaves.                                                       *)
(***************************************************************************)
EXTENDS PersistentState

CONSTANTS
  Batches(_),         \* the batches of operations tried, by kind of table
  Targets(_),         \* the bags of rows tried as the subject of a snapshot
  Indices,            \* the indices that migrations add
  MaxOffset,          \* bound on the replication offset
  MaxFaults,          \* bound on the crashes, the acknowledgements lost and the
                      \* snapshots started over
  CrashWhileIndexing  \* whether a crash may fall into add_key

VARIABLES
  kind,      \* "primary" key, only a "unique" key, or "none"
  phase,     \* "fresh", "snapshot", "stream", "lost" (no offset left), or
             \* "stopped" (the domain ended with an error)
  log,       \* the batch whose acknowledgement the replicator misses, by offset
  hist,      \* the upstream rows at the offset in memory and that on disk
  left,      \* the rows the snapshot has still to copy
  down,      \* what the records forwarded add up to, by row
  skewed,    \* history: the offsets of batches that the node reorders
  resent,    \* history: a batch was forwarded a second time
  faults

ghosts == <<kind, phase, log, hist, left, down, skewed, resent, faults>>
vars == <<unique_keys, memory, storage, ghosts>>

Idle == todo = <<>>

UniqueKeys(k) == IF k = "none" THEN <<>> ELSE <<"k">>

Bag(f) == [r \in Range(f) |-> Cardinality({x \in DOMAIN f : f[x] = r})]

(* The rows in the primary family.                                         *)
Contents(fs) == IF PK_CF \in DOMAIN fs THEN Bag(fs[PK_CF]) ELSE EmptyBag

RowOf(b, key) == IF \E r \in DOMAIN b : r.k = key
                 THEN CHOOSE r \in DOMAIN b : r.k = key ELSE None

(* What one operation does to the upstream table.                          *)
Executed(b, op) ==
  LET old == IF op.op = "DeleteByKey" \/ (kind = "primary" /\ op.op # "Truncate")
             THEN RowOf(b, key_of(op)) ELSE None
      changed(row) == BagAdd(BagRemove(b, old), row)
  IN CASE op.op = "Insert" /\ old = None -> BagAdd(b, op.row)
       [] op.op = "DeleteRow" -> BagRemove(b, op.row)
       [] op.op = "DeleteByKey" -> BagRemove(b, old)
       [] op.op = "InsertOrUpdate" /\ old = None -> BagAdd(b, op.row)
       [] op.op \in {"InsertOrUpdate", "Update"} /\ old # None ->
            changed([c \in Cols |-> Modified(old[c], op.update[c])])
       [] op.op = "Truncate" -> EmptyBag
       [] OTHER -> b

ExecutedAll(b, ops) == FoldLeft(Executed, b, ops)

(* process_ops of the base node, on the rows stored now.                   *)
process_ops(ops) ==
  IF kind # "primary" THEN process_unkeyed(ops)
  ELSE LET f == cfs[PK_CF]
           stored == [key \in {k[1] : k \in DOMAIN f} |-> f[<<key>>]]
           keys == SetToSeq(DOMAIN f)
       IN process_keyed(ops, [i \in 1..Len(keys) |-> f[keys[i]]],
                        stored, snapshot_mode)

Forward(d, r) ==
  LET n == r.sign + IF r.row \in DOMAIN d THEN d[r.row] ELSE 0
  IN IF n = 0 THEN Restrict(d, DOMAIN d \ {r.row}) ELSE (r.row :> n) @@ d

(* The domain's thread ends with the error of a batch, and the worker      *)
(* panics.                                                                 *)
Refused(ops) ==
  LET w == process_ops(ops) IN w = None \/ Fails(w.records, w.replication_offset)

(* Node::process of a base node: enter snapshot mode, materialize the      *)
(* records, leave snapshot mode, forward the records.  A batch that        *)
(* changes the mode holds nothing else (Table::set_snapshot_mode).         *)
Input(ops) ==
  LET w == process_ops(ops) IN
  /\ Idle
  /\ CASE w = None -> UNCHANGED <<unique_keys, memory, storage>>
       [] w # None /\ w.set_snapshot_mode = FALSE -> disable_snapshot_mode
       [] OTHER -> process_records(w.records, w.replication_offset)
  /\ down' = IF Refused(ops) THEN down ELSE FoldLeft(Forward, down, w.records)

SetReplicationOffset(o) == [op |-> "SetReplicationOffset", offset |-> o]
SetSnapshotMode(m) == [op |-> "SetSnapshotMode", mode |-> m]
Insert(row) == [op |-> "Insert", row |-> row]

Init ==
  /\ kind \in {"primary", "unique", "none"}
  /\ unique_keys = UniqueKeys(kind)
  /\ NewState
  /\ phase = "fresh"
  /\ log = <<>>
  /\ hist = [o \in {} |-> EmptyBag]
  /\ left = EmptyBag
  /\ down = EmptyBag
  /\ skewed = {}
  /\ resent = FALSE
  /\ faults = 0

(* The offset of the next batch, and the upstream rows before it.          *)
NextOffset == IF offset = None THEN 1 ELSE offset + 1
Upstream == IF offset = None THEN EmptyBag ELSE hist[offset]

(* A truncation behind operations that change rows: the node truncates     *)
(* first, so their rows are there afterwards.                              *)
TruncatesLate(ops) ==
  LET others == SelectSeq(ops, LAMBDA op : op.op # "Truncate") IN
  /\ kind = "primary"
  /\ others # ops
  /\ others # <<>> /\ process_ops(others).records # <<>>

(* Two copies of a row removed by one batch: both removals find the same   *)
(* stored row.                                                             *)
RemovesTwice(ops) ==
  /\ kind # "primary"
  /\ \E i, j \in DOMAIN ops : /\ i # j
                              /\ ops[i].op = "DeleteRow" /\ ops[j].op = "DeleteRow"
                              /\ ops[i].row = ops[j].row

(* A batch of upstream writes with its offset: the one that follows the    *)
(* table's offset, which is the same one when it is sent again.            *)
Stream ==
  /\ phase \in {"fresh", "stream"}
  /\ indices # <<>>
  /\ NextOffset <= MaxOffset
  /\ \E ops \in IF NextOffset \in DOMAIN log THEN {log[NextOffset]} ELSE Batches(kind) :
       LET sent == Append(ops, SetReplicationOffset(NextOffset)) IN
       /\ Input(sent)
       /\ log' = (NextOffset :> ops)
       /\ hist' = (NextOffset :> ExecutedAll(Upstream, ops))
                    @@ (IF offset = None THEN <<>> ELSE offset :> hist[offset])
       /\ phase' = IF Refused(sent) THEN "stopped" ELSE "stream"
       /\ skewed' = IF TruncatesLate(ops) \/ RemovesTwice(ops)
                    THEN skewed \cup {NextOffset} ELSE skewed
  /\ UNCHANGED <<kind, left, resent, faults>>

(* The next call into RocksDB.  The one that writes a batch ends Input: it *)
(* is acknowledged, and the acknowledgement may be lost.                   *)
Step ==
  /\ Call
  /\ IF disk'.meta.offset # disk.meta.offset /\ disk'.meta.offset \in DOMAIN log
     THEN \/ log' = <<>> /\ UNCHANGED faults
          \/ faults < MaxFaults /\ faults' = faults + 1 /\ UNCHANGED log
     ELSE UNCHANGED <<log, faults>>
  /\ UNCHANGED <<kind, phase, hist, left, down, skewed, resent>>

(* A batch that was delivered before is delivered again.  Its rows are not *)
(* written a second time, but what it amounts to now is forwarded.         *)
Redeliver ==
  /\ phase = "stream"
  /\ \E o \in DOMAIN log :
       /\ o <= offset
       /\ Input(Append(log[o], SetReplicationOffset(o)))
  /\ resent' = (resent \/ down' # down)
  /\ log' = <<>>
  /\ UNCHANGED <<kind, phase, hist, left, skewed, faults>>

(* The replicator starts, or starts over, a snapshot of the table: Input   *)
(* of <<SetSnapshotMode(TRUE)>>.  Views are followed from here on: the     *)
(* base node does not tell them that it dropped its rows.                  *)
EnterSnapshot ==
  /\ phase \in {"fresh", "lost", "snapshot"}
  /\ offset = None
  /\ indices # <<>>
  /\ Idle /\ enable_snapshot_mode
  /\ phase = "snapshot" => faults < MaxFaults
  /\ faults' = IF phase = "snapshot" THEN faults + 1 ELSE faults
  /\ phase' = "snapshot"
  /\ left' \in Targets(kind)
  /\ log' = <<>>
  /\ hist' = 1 :> left'
  /\ down' = EmptyBag
  /\ skewed' = {}
  /\ resent' = FALSE
  /\ UNCHANGED kind

CopyRow ==
  /\ phase = "snapshot" /\ snapshot_mode
  /\ \E row \in DOMAIN left :
       /\ Input(<<Insert(row)>>)
       /\ left' = BagRemove(left, row)
  /\ UNCHANGED <<kind, phase, log, hist, skewed, resent, faults>>

(* All rows are copied: the table gets the offset of the snapshot.         *)
FinishRows ==
  /\ phase = "snapshot" /\ snapshot_mode
  /\ left = EmptyBag
  /\ offset = None
  /\ Input(<<SetReplicationOffset(1)>>)
  /\ UNCHANGED <<kind, phase, log, hist, left, skewed, resent, faults>>

LeaveSnapshot ==
  /\ phase = "snapshot"
  /\ offset # None
  /\ Input(<<SetSnapshotMode(FALSE)>>)
  /\ phase' = "stream"
  /\ UNCHANGED <<kind, log, hist, left, skewed, resent, faults>>

(* A migration adds an index.                                              *)
AddKey ==
  /\ Idle /\ phase # "stopped"
  /\ \E index \in Indices : add_key(index)
  /\ UNCHANGED ghosts

Indexing == ~Idle /\ Last(todo).call = "flush"

(* The process dies between two calls into RocksDB, or by a batch it       *)
(* refused, and starts again: the views are built again from the rows that *)
(* are left, and the replicator goes on from the offset it finds.          *)
Crash ==
  /\ faults < MaxFaults
  /\ CrashWhileIndexing \/ ~Indexing
  /\ Restart
  /\ faults' = faults + 1
  /\ phase' = IF disk.meta.offset = None THEN "lost" ELSE "stream"
  /\ hist' = Restrict(hist, DOMAIN hist \cap {disk.meta.offset})
  /\ left' = EmptyBag
  /\ down' = Contents(disk.cfs)
  /\ skewed' = {o \in skewed : disk.meta.offset # None /\ o <= disk.meta.offset}
  /\ resent' = FALSE
  /\ log' = IF disk.meta.offset = None THEN <<>>
            ELSE Restrict(log, {o \in DOMAIN log : disk.meta.offset < o})
  /\ UNCHANGED kind

Next ==
  \/ Stream \/ Redeliver
  \/ EnterSnapshot \/ CopyRow \/ FinishRows \/ LeaveSnapshot
  \/ AddKey
  \/ Crash
  \/ Step
  \/ \E i \in DOMAIN cfs : BackgroundFlush(i) /\ UNCHANGED ghosts

Spec == Init /\ [][Next]_vars

-----------------------------------------------------------------------------

(* Every piece of state has its type: the families that reads see are the  *)
(* ones on disk, their number never exceeds that of the indices, and the   *)
(* bags of the upstream table hold rows.                                   *)
TypeOK ==
  /\ kind \in {"primary", "unique", "none"}
  /\ phase \in {"fresh", "snapshot", "stream", "lost", "stopped"}
  /\ Range(indices) \subseteq [col : Cols, type : {"HashMap", "BTreeMap"}]
  /\ offset \in 1..MaxOffset \cup {None} /\ shared \in 1..MaxOffset \cup {None}
  /\ epoch \in 1..(MaxFaults + 1) /\ seq \in Nat
  /\ snapshot_mode \in BOOLEAN
  /\ DOMAIN cfs = DOMAIN disk.cfs /\ DOMAIN cfs \subseteq 1..Len(indices)
  /\ DOMAIN log \subseteq 1..MaxOffset
  /\ DOMAIN hist \subseteq 1..MaxOffset
  /\ \A o \in DOMAIN hist : IsABag(hist[o])
  /\ IsABag(left)
  /\ \A r \in DOMAIN down : down[r] \in Int \ {0}
  /\ skewed \subseteq 1..MaxOffset /\ resent \in BOOLEAN

(* The table is in use: nothing is pending and it has left snapshot mode.  *)
InUse == Idle /\ ~snapshot_mode /\ offset # None

(* No batch up to offset o was one that the node reorders.                 *)
Straight(o) == \A p \in skewed : o < p

(* A table in use holds exactly the rows that the upstream table has at    *)
(* the table's replication offset: process_ops and process_records apply   *)
(* every batch once, whatever was delivered twice, refused and sent again, *)
(* and wherever the process died, and rows without a unique key never      *)
(* overwrite each other.  The batches the node reorders (TruncatesLate,    *)
(* RemovesTwice) are the exception, until the next snapshot.               *)
RowsExact == InUse /\ Straight(offset) => Contents(cfs) = hist[offset]

(* The same without the exception.  It does not hold, and no run checks    *)
(* it: <<Insert, Truncate>> leaves the row, and of two copies of a row that*)
(* one batch removes one stays.                                            *)
AllRowsExact == InUse => Contents(cfs) = hist[offset]

(* A lookup in a table in use finds, in every index, exactly the rows with *)
(* the value looked up, and never a consistency miss: the secondary        *)
(* families never miss a row nor keep the key of one that is gone.         *)
LookupsExact ==
  InUse => \A i \in 1..Len(indices) :
             \A val \in {r[indices[i].col] : r \in DOMAIN Contents(cfs)} \cup {1, 2} :
               /\ do_lookup(i, val) # None
               /\ Bag(do_lookup(i, val)) =
                    Restrict(Contents(cfs), {r \in DOMAIN Contents(cfs) :
                                               r[indices[i].col] = val})

(* Whenever the process may die, the offset it would find on disk and the  *)
(* rows it would find belong together: never an offset whose rows were     *)
(* only in memory, nor rows of a batch whose offset was not written.       *)
DurableOffset ==
  disk.meta.offset # None =>
    /\ disk.meta.offset \in DOMAIN hist
    /\ Straight(disk.meta.offset) => Contents(disk.cfs) = hist[disk.meta.offset]

(* What a table in use has acknowledged is on disk, in every family, and   *)
(* so is the meta key that describes it.                                   *)
AcknowledgedIsDurable ==
  InUse => /\ disk.cfs = cfs
           /\ disk.meta = Meta(indices, epoch, offset)

(* Opening the table never meets a column family that the meta key does    *)
(* not list, on which new() panics.                                        *)
FamiliesKnown == KnownFamilies(disk)

(* The records a table forwards add up to its rows, so the views computed  *)
(* from the forwarded records follow the table.  The exceptions are the    *)
(* batches the node reorders, and a batch that arrives again and still     *)
(* amounts to a change: its rows are dropped, its records are forwarded.   *)
ForwardsTheChange ==
  InUse /\ Straight(offset) /\ ~resent => down = hist[offset]

(* The same for batches that arrive again.  It does not hold, and no run   *)
(* checks it: a table without a primary key forwards every such batch.     *)
ForwardsOnce ==
  InUse /\ Straight(offset) => down = hist[offset]
=============================================================================
