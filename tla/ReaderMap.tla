------------------------------ MODULE ReaderMap ------------------------------
(***************************************************************************)
(* The map behind every reader node (crate reader-map): a multi-value map   *)
(* kept in two copies.  Readers take a guard on the published copy without  *)
(* a lock; the single writer queues operations and, on publish(), replays   *)
(* them on the other copy and swaps the two.                                *)
(*                                                                         *)
(* Every queued operation is applied twice: by absorb_first on the copy     *)
(* about to be published, which also records in the operation the index it  *)
(* inserted at or removed from, and one publish later by absorb_second on   *)
(* the other copy, which reuses that index without searching.               *)
(*                                                                         *)
(* The pointer swap, the epochs and the operation log are those of the      *)
(* left-right crate (external).  A key of the map is filled when it is in   *)
(* DOMAIN data; every other key is a hole.  RemoveEntry, RemoveRange and    *)
(* Purge differ only in the set of keys they drop, and meta and timestamp   *)
(* only in name: "stamp" stands for both.                                   *)
(***************************************************************************)
EXTENDS Integers, Sequences, FiniteSets

CONSTANTS Keys,     \* keys of the map, numbers so that ranges make sense
          Vals,     \* rows stored under a key, numbers since they are sorted
          Readers,  \* threads holding a ReadHandle
          Stamps,   \* values of meta / timestamp
          NoStamp,  \* the value given to Options when the map is constructed
          NoCopy,   \* a reader without a guard
          Ops,      \* the operations the writer may queue
          MaxOps    \* bound on the number of operations ever queued

Operations ==
       [op : {"Add", "RemoveValue"}, key : Keys, val : Vals]
  \cup [op : {"Clear"}, key : Keys]
  \cup [op : {"Retain"}, key : Keys, keep : SUBSET Vals]
  \cup [op : {"AddRange", "Remove"}, keys : SUBSET Keys]
  \cup [op : {"SetStamp"}, stamp : Stamps]

ASSUME ReaderMapAssumption ==
  /\ Keys \subseteq Int
  /\ Vals \subseteq Int
  /\ Ops \subseteq Operations
  /\ NoStamp \notin Stamps
  /\ NoCopy \notin {1, 2}
  /\ MaxOps \in Nat

VARIABLES copies,      \* the two Inner values
          w,           \* index of the copy owned by the writer
          oplog,       \* operations at least one copy has not seen
          swap_index,  \* prefix of oplog the published copy has seen
          first,       \* no publish has happened yet
          second,      \* at most one publish has happened
          wpc,         \* where the writer is inside publish() / evict_keys()
          next,        \* oplog position absorb_first has reached
          evicting,    \* publish() was called by evict_keys()
          rpc,         \* where each reader is inside enter()
          guard,       \* the copy each reader's guard points to
          pinned,      \* readers publish() has to wait for
          hist,        \* history: the contents after each queued operation
          pos          \* history: operations reflected by each copy

writerVars == <<oplog, swap_index, first, second, next, evicting>>
readerVars == <<rpc, guard>>
vars == <<copies, w, writerVars, wpc, readerVars, pinned, hist, pos>>

NoIdx == 0

-----------------------------------------------------------------------------
(* Values: a sorted vector per key.                                         *)

\* Where slice::binary_search inserts v in the sorted vector s.
InsertIdx(s, v) == Cardinality({i \in DOMAIN s : s[i] < v}) + 1

\* The index of v in s, or NoIdx when binary_search returns Err.
FindIdx(s, v) ==
  IF \E i \in DOMAIN s : s[i] = v THEN InsertIdx(s, v) ELSE NoIdx

\* Vec::insert and Vec::remove.
InsertAt(s, i, v) == SubSeq(s, 1, i - 1) \o <<v>> \o SubSeq(s, i, Len(s))
RemoveAt(s, i) == SubSeq(s, 1, i - 1) \o SubSeq(s, i + 1, Len(s))

\* data_entry: an existing value set, or an empty one for a hole.
DataEntry(data, k) == IF k \in DOMAIN data THEN data[k] ELSE <<>>

Fill(data, k, vs) ==
  [x \in DOMAIN data \cup {k} |-> IF x = k THEN vs ELSE data[x]]

\* The index absorb_first stores in the operation.
SearchIdx(data, o) ==
  CASE o.op = "Add" -> InsertIdx(DataEntry(data, o.key), o.val)
    [] o.op = "RemoveValue" -> FindIdx(DataEntry(data, o.key), o.val)
    [] OTHER -> NoIdx

\* Effect of an operation on the data, given the index for Add and RemoveValue.
ApplyAt(data, o, idx) ==
  CASE o.op = "Add" ->
         Fill(data, o.key, InsertAt(DataEntry(data, o.key), idx, o.val))
    [] o.op = "RemoveValue" ->
         IF o.key \in DOMAIN data /\ idx # NoIdx
         THEN [data EXCEPT ![o.key] = RemoveAt(@, idx)]
         ELSE data
    [] o.op = "Clear" -> Fill(data, o.key, <<>>)
    [] o.op = "Retain" ->
         IF o.key \in DOMAIN data
         THEN [data EXCEPT ![o.key] = SelectSeq(@, LAMBDA v : v \in o.keep)]
         ELSE data
    [] o.op = "AddRange" ->
         [k \in DOMAIN data \cup o.keys |-> DataEntry(data, k)]
    [] o.op = "Remove" -> [k \in DOMAIN data \ o.keys |-> data[k]]
    [] OTHER -> data

StampAfter(inner, o) == IF o.op = "SetStamp" THEN o.stamp ELSE inner.stamp

absorb_first(inner, o) ==
  [data  |-> ApplyAt(inner.data, o, SearchIdx(inner.data, o)),
   stamp |-> StampAfter(inner, o),
   ready |-> inner.ready]

\* idx is the index stored by absorb_first, NoIdx when there is none: only
\* then does absorb_second search.
absorb_second(inner, o, idx) ==
  [data  |-> ApplyAt(inner.data, o, IF idx = NoIdx THEN SearchIdx(inner.data, o)
                                                   ELSE idx),
   stamp |-> StampAfter(inner, o),
   ready |-> inner.ready]

\* Mutant: sync_with forgets the data.
sync_with_ready_only(inner, published) ==
  [data |-> inner.data, stamp |-> inner.stamp, ready |-> published.ready]

\* sync_with: the copy not published by the first publish() catches up.
sync_with(inner, published) ==
  [data |-> published.data, stamp |-> inner.stamp, ready |-> published.ready]

-----------------------------------------------------------------------------
Empty == [data |-> <<>>, stamp |-> NoStamp, ready |-> FALSE]

\* construct(): left_right::new_from_empty, then MarkReady on the write copy.
Init ==
  /\ copies = [c \in {1, 2} |-> [Empty EXCEPT !.ready = (c = 1)]]
  /\ w = 1
  /\ oplog = <<>>
  /\ swap_index = 0
  /\ first = TRUE
  /\ second = TRUE
  /\ wpc = "idle"
  /\ next = 1
  /\ evicting = FALSE
  /\ rpc = [r \in Readers |-> "out"]
  /\ guard = [r \in Readers |-> NoCopy]
  /\ pinned = {}
  /\ hist = <<Empty>>
  /\ pos = [c \in {1, 2} |-> 1]

r_copy == 3 - w

\* What the operations queued so far amount to.
Latest == hist[Len(hist)]

\* left_right's extend: before the first publish the operation goes straight
\* to the write copy, later it is queued.
Extend(o) ==
  /\ Len(hist) <= MaxOps
  /\ hist' = Append(hist, absorb_first(Latest, o))
  /\ IF first
     THEN /\ copies' = [copies EXCEPT ![w] = absorb_second(@, o, NoIdx)]
          /\ pos' = [pos EXCEPT ![w] = @ + 1]
          /\ oplog' = oplog
     ELSE /\ oplog' = Append(oplog, [o |-> o, idx |-> NoIdx])
          /\ UNCHANGED <<copies, pos>>

\* insert, remove_value, clear, retain, insert_range, remove_entry,
\* remove_range, purge, set_meta, set_timestamp.
AddOp ==
  /\ wpc = "idle"
  /\ \E o \in Ops : Extend(o)
  /\ UNCHANGED <<w, swap_index, first, second, next, evicting, wpc,
                 readerVars, pinned>>

\* Mutant: evict_keys does not publish before it picks keys.
PublishCall_EvictUnpublished(evict) ==
  /\ wpc = "idle"
  /\ evicting' = evict
  /\ wpc' = IF evict THEN "evict" ELSE "wait"
  /\ UNCHANGED <<copies, w, oplog, swap_index, first, second, next,
                 readerVars, pinned, hist, pos>>

\* publish() is called, by itself or by evict_keys().
PublishCall(evict) ==
  /\ wpc = "idle"
  /\ evicting' = evict
  /\ wpc' = "wait"
  /\ UNCHANGED <<copies, w, oplog, swap_index, first, second, next,
                 readerVars, pinned, hist, pos>>

\* With the write copy to itself, publish() makes up for the first publish.
PublishSync ==
  /\ wpc = "wait"
  /\ first' = FALSE
  /\ second' = first
  /\ copies' = [copies EXCEPT ![w] = IF second /\ ~first
                                     THEN sync_with(@, copies[r_copy])
                                     ELSE @]
  /\ pos' = [pos EXCEPT ![w] = IF second /\ ~first THEN pos[r_copy] ELSE @]
  /\ wpc' = IF first THEN "swap" ELSE "second"
  /\ UNCHANGED <<w, oplog, swap_index, next, evicting, readerVars, pinned,
                 hist>>

\* Mutant: the writer does not wait for the readers of the last swap.
PublishWait_NoWait == PublishSync

\* Mutant: the writer waits until no reader at all is inside.
PublishWait_AnyReader ==
  /\ \A r \in Readers : rpc[r] = "out"
  /\ PublishSync

\* publish() waits until no reader that was inside at the last swap is still
\* there: no one else can be using the write copy.
PublishWait ==
  /\ pinned = {}
  /\ PublishSync

\* Operations the published copy has already seen are drained.
AbsorbSecond ==
  /\ wpc = "second"
  /\ swap_index > 0
  /\ copies' = [copies EXCEPT
                  ![w] = absorb_second(@, oplog[1].o, oplog[1].idx)]
  /\ pos' = [pos EXCEPT ![w] = @ + 1]
  /\ oplog' = Tail(oplog)
  /\ swap_index' = swap_index - 1
  /\ UNCHANGED <<w, first, second, next, evicting, wpc, readerVars, pinned,
                 hist>>

\* New operations stay in the log for the other copy, with their index.
AbsorbFirst ==
  /\ \/ wpc = "second" /\ swap_index = 0 /\ next = 1
     \/ wpc = "first"
  /\ next <= Len(oplog)
  /\ copies' = [copies EXCEPT ![w] = absorb_first(@, oplog[next].o)]
  /\ pos' = [pos EXCEPT ![w] = @ + 1]
  /\ oplog' = [oplog EXCEPT
                 ![next].idx = SearchIdx(copies[w].data, oplog[next].o)]
  /\ next' = next + 1
  /\ wpc' = "first"
  /\ UNCHANGED <<w, swap_index, first, second, evicting, readerVars, pinned,
                 hist>>

\* The pointer swap that makes the write copy visible.
Swap ==
  /\ \/ wpc = "swap"
     \/ wpc \in {"second", "first"} /\ swap_index = 0 /\ next > Len(oplog)
  /\ w' = r_copy
  /\ swap_index' = Len(oplog)
  /\ next' = 1
  /\ wpc' = "epochs"
  /\ UNCHANGED <<copies, oplog, first, second, evicting, readerVars, pinned,
                 hist, pos>>

\* The writer reads every reader's epoch: the ones inside are waited for by
\* the next publish().
RecordEpochs ==
  /\ wpc = "epochs"
  /\ pinned' = {r \in Readers : rpc[r] # "out"}
  /\ wpc' = IF evicting THEN "evict" ELSE "idle"
  /\ UNCHANGED <<copies, w, writerVars, readerVars, hist, pos>>

\* evict_keys: after its publish(), the strategy picks filled keys of the
\* published copy, whose removal is queued.
EvictKeys ==
  /\ wpc = "evict"
  /\ \/ UNCHANGED <<copies, oplog, hist, pos>>
     \/ \E S \in SUBSET DOMAIN copies[r_copy].data :
          S # {} /\ Extend([op |-> "Remove", keys |-> S])
  /\ evicting' = FALSE
  /\ wpc' = "idle"
  /\ UNCHANGED <<w, swap_index, first, second, next, readerVars, pinned>>

\* enter(): the epoch is made odd, then the pointer is loaded.
EnterEpoch(r) ==
  /\ rpc[r] = "out"
  /\ rpc' = [rpc EXCEPT ![r] = "entering"]
  /\ UNCHANGED <<copies, w, writerVars, wpc, guard, pinned, hist, pos>>

EnterLoad(r) ==
  /\ rpc[r] = "entering"
  /\ rpc' = [rpc EXCEPT ![r] = "in"]
  /\ guard' = [guard EXCEPT ![r] = r_copy]
  /\ UNCHANGED <<copies, w, writerVars, wpc, pinned, hist, pos>>

\* The guard is dropped: the epoch changes and the writer stops waiting.
Leave(r) ==
  /\ rpc[r] = "in"
  /\ rpc' = [rpc EXCEPT ![r] = "out"]
  /\ guard' = [guard EXCEPT ![r] = NoCopy]
  /\ pinned' = pinned \ {r}
  /\ UNCHANGED <<copies, w, writerVars, wpc, hist, pos>>

Publish == \E evict \in BOOLEAN : PublishCall(evict)

WriterStep ==
  PublishWait \/ AbsorbSecond \/ AbsorbFirst \/ Swap \/ RecordEpochs \/ EvictKeys

Next ==
  \/ AddOp
  \/ Publish
  \/ WriterStep
  \/ \E r \in Readers : EnterEpoch(r) \/ EnterLoad(r) \/ Leave(r)

Spec == Init /\ [][Next]_vars

\* publish() runs on the domain's thread without giving it up, and a guard
\* lives for one lookup: neither side waits for an event of its own.
Fairness ==
  /\ WF_vars(WriterStep)
  /\ \A r \in Readers : WF_vars(EnterLoad(r)) /\ WF_vars(Leave(r))

FairSpec == Spec /\ Fairness

-----------------------------------------------------------------------------
(* Properties.                                                              *)

\* The type invariant.
TypeOK ==
  /\ \A c \in {1, 2} :
       /\ DOMAIN copies[c].data \subseteq Keys
       /\ \A k \in DOMAIN copies[c].data : copies[c].data[k] \in Seq(Vals)
       /\ copies[c].stamp \in Stamps \cup {NoStamp}
  /\ w \in {1, 2}
  /\ oplog \in Seq([o : Operations, idx : Nat])
  /\ swap_index \in 0 .. Len(oplog)
  /\ first \in BOOLEAN /\ second \in BOOLEAN /\ evicting \in BOOLEAN
  /\ wpc \in {"idle", "wait", "swap", "second", "first", "epochs", "evict"}
  /\ next \in 1 .. Len(oplog) + 1
  /\ rpc \in [Readers -> {"out", "entering", "in"}]
  /\ guard \in [Readers -> {1, 2, NoCopy}]
  /\ pinned \subseteq Readers
  /\ pos \in [{1, 2} -> 1 .. Len(hist)]

\* While a guard lives, the map it gives access to does not change under the
\* reader (read_ref.rs: "the map remains immutable while this lives"), however
\* many operations and publishes the writer performs meanwhile.
GuardedCopyStable ==
  [][\A r \in Readers :
       rpc[r] = "in" => copies'[guard[r]] = copies[guard[r]]]_vars

\* The index cached by absorb_first is still right when absorb_second uses it
\* one publish later: the two copies go through the same contents.
CopiesConverge ==
  \A c \in {1, 2} : copies[c].data = hist[pos[c]].data

\* publish() is atomic and complete: the contents readers see change only to
\* the result of all operations queued before it.
PublishExposesAll ==
  [][copies'[3 - w'].data # copies[3 - w].data
       => copies'[3 - w'].data = Latest.data]_vars

\* The keys evict_keys picks, and whose sizes it reports as freed, are the
\* ones its operations will remove: nothing else is queued at that point.
EvictSeesLatest == wpc = "evict" => copies[r_copy].data = Latest.data

\* A publish waits for the readers of one moment only: readers that keep
\* coming in cannot hold it up for ever.
PublishTerminates == wpc = "wait" ~> wpc = "idle"
=============================================================================
