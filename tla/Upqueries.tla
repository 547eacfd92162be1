------------------------------ MODULE Upqueries ------------------------------
(***************************************************************************)
(* Partial state and the upqueries that fill it, across three domains:      *)
(*                                                                         *)
(*   base table  --->  partial node "mid"  --->  reader domains             *)
(*                                                                         *)
(* Writes flow down as Messages.  A reader that misses asks its domain to   *)
(* replay the key; the request goes up to mid, and to the base table when   *)
(* mid misses too; the answer flows down as a ReplayPiece on the same       *)
(* channel as the writes.  mid and the readers evict keys at any time, and  *)
(* mid tells the readers below with EvictKeys.                              *)
(*                                                                         *)
(* A row is only counted: base[k] is the number of rows of key k, mid[k]    *)
(* and read[r][k] the number of them a materialization holds, or Hole.      *)
(* A KeyComparison is a non-empty set of keys: a singleton under a hash     *)
(* index, a run of neighbours under a BTree index (Ordered).  A channel     *)
(* between two domains keeps the order of its packets (replica.rs drains    *)
(* one queue per destination); nothing orders two channels.  Each action is *)
(* one Domain::handle of one packet; publishing the reader map is atomic    *)
(* here and taken apart in ReaderMap.                                       *)
(***************************************************************************)
EXTENDS Waiting, Sequences, Functions, FiniteSetsExt

CONSTANTS N,             \* keys are 1..N
          Ordered,       \* the index is a BTreeMap: ranges can be looked up
          Readers,       \* reader domains: readers, and replicas of a reader
          NodeOf,        \* the reader node a reader domain is a replica of
          Filtered,      \* reader nodes with a packet filter in mid's egress
          Requests,      \* the KeyComparisons clients look up in each reader
          Hole,          \* an unfilled key
          MaxAsked,      \* bound on the requests of clients queued at a reader
          MaxWrites,     \* bound on the number of writes
          MaxEvictions   \* bound on the number of evictions

Keys == 1..N
Nodes == {NodeOf[r] : r \in Readers}

ASSUME UpqueriesAssumption ==
  /\ N \in Nat
  /\ Ordered \in BOOLEAN
  /\ IsFiniteSet(Readers)
  /\ Filtered \subseteq Nodes
  /\ Requests \in [Readers -> SUBSET ((SUBSET Keys) \ {{}})]
  /\ Hole \notin Nat
  /\ MaxAsked \in Nat
  /\ MaxWrites \in Nat
  /\ MaxEvictions \in Nat

VARIABLES base,       \* rows per key in the base table
          mid,        \* rows per key in the partial node, or Hole
          waiting,    \* mid's Waiting
          delayed,    \* mid's delayed_for_self
          allow,      \* egress packet filter: keys replayed to a reader node
          read,       \* rows per key in each reader, or Hole
          triggered,  \* reader_triggered: keys each reader domain waits for
          asked,      \* RequestReaderReplay packets not yet handled
          toBase,     \* RequestPartialReplay packets from mid to base
          toMid,      \* packets from base to mid
          up,         \* RequestPartialReplay packets from a reader to mid
          down,       \* packets from mid to a reader
          failed,     \* domains stopped by an internal error or a panic
          evictions,  \* number of evictions so far
          seen        \* history: the last count each reader published per key

midVars == <<mid, waiting, delayed, allow>>
readerVars == <<read, triggered, asked, seen>>
vars == <<base, midVars, readerVars, toBase, toMid, up, down, failed, evictions>>

-----------------------------------------------------------------------------
(* Keys and packets.                                                        *)

Between(i, j) == (i..j) \cup (j..i)

\* The KeyComparisons that make up a set of keys: the maximal runs of it under
\* a BTree index, its points under a hash index.
Runs(S) ==
  IF Ordered THEN {{j \in S : Between(i, j) \subseteq S} : i \in S}
             ELSE {{i} : i \in S}

Filled(state) == {k \in Keys : state[k] # Hole}

\* The rows a lookup of k returns.
Rows(state, k) == IF state[k] = Hole THEN 0 ELSE state[k]

Message(k) == [type |-> "Message", key |-> k]
EvictKeys(K) == [type |-> "EvictKeys", keys |-> K]

ReplayPiece(F, state) ==
  [type |-> "ReplayPiece", for_keys |-> F,
   data |-> [k \in UNION F |-> Rows(state, k)]]

Redo(r, K) == [replica |-> r, replay_key |-> K]

\* The rows that survive when for_keys is pruned from F to G: they are looked
\* at only when the number of keys changed.
Retained(data, F, G) ==
  IF Cardinality(F) = Cardinality(G) THEN data
  ELSE [k \in DOMAIN data \cap UNION G |-> data[k]]

Data(d, k) == IF k \in DOMAIN d THEN d[k] ELSE 0

-----------------------------------------------------------------------------
Init ==
  /\ base = [k \in Keys |-> 0]
  /\ mid = [k \in Keys |-> Hole]
  /\ waiting = NoWaiting
  /\ delayed = <<>>
  /\ allow = [n \in Nodes |-> {}]
  /\ read = [r \in Readers |-> [k \in Keys |-> Hole]]
  /\ triggered = [r \in Readers |-> {}]
  /\ asked = [r \in Readers |-> {}]
  /\ toBase = <<>>
  /\ toMid = <<>>
  /\ up = [r \in Readers |-> <<>>]
  /\ down = [r \in Readers |-> <<>>]
  /\ failed = {}
  /\ evictions = 0
  /\ seen = [r \in Readers |-> [k \in Keys |-> 0]]

-----------------------------------------------------------------------------
(* The domain of the base table.                                            *)

Writes == MapThenSumSet(LAMBDA k : base[k], Keys)

\* A write reaches the base table and is forwarded.
BaseWrite(k) ==
  /\ Writes < MaxWrites
  /\ base' = [base EXCEPT ![k] = @ + 1]
  /\ toMid' = Append(toMid, Message(k))
  /\ UNCHANGED <<midVars, readerVars, toBase, up, down, failed, evictions>>

\* Mutant: the replay overtakes the writes sent before it.
BaseReplay_Overtakes ==
  /\ toBase # <<>>
  /\ toBase' = Tail(toBase)
  /\ toMid' = <<ReplayPiece(Head(toBase), base)>> \o toMid
  /\ UNCHANGED <<base, midVars, readerVars, up, down, failed, evictions>>

\* RequestPartialReplay: a base table is fully materialized and never misses.
BaseReplay ==
  /\ toBase # <<>>
  /\ toBase' = Tail(toBase)
  /\ toMid' = Append(toMid, ReplayPiece(Head(toBase), base))
  /\ UNCHANGED <<base, midVars, readerVars, up, down, failed, evictions>>

-----------------------------------------------------------------------------
(* The domain of mid.                                                       *)

MidIdle == "mid" \notin failed /\ delayed = <<>>

\* The egress sends p to every replica of every reader node.
ToAll(p) == [r \in Readers |-> Append(down[r], p)]

\* PacketFilter::process for a Message: a filtered node only gets the rows of
\* keys that were replayed to it.
Passes(n, k) == n \in Filtered => k \in UNION allow[n]

\* PacketFilter::process for a ReplayPiece.
Allow(r, F) ==
  [allow EXCEPT ![NodeOf[r]] = IF NodeOf[r] \in Filtered THEN @ \cup F ELSE @]

\* Mutant: a run is forgotten when a key inside it is evicted.
Disallow_Overlapping(K) ==
  [n \in Nodes |-> {F \in allow[n] : F \cap K = {}}]

\* PacketFilter::process for EvictKeys: only a KeyComparison equal to an
\* evicted one is forgotten.
Disallow(K) == [n \in Nodes |-> allow[n] \ {{k} : k \in K}]

\* dispatch: the row is stored and forwarded if its key is filled, and dropped
\* by process_records if it is a hole.
MidMessage ==
  /\ MidIdle
  /\ toMid # <<>>
  /\ Head(toMid).type = "Message"
  /\ toMid' = Tail(toMid)
  /\ LET k == Head(toMid).key
     IN \/ /\ mid[k] = Hole
           /\ UNCHANGED <<mid, down>>
        \/ /\ mid[k] # Hole
           /\ mid' = [mid EXCEPT ![k] = @ + 1]
           /\ down' = [r \in Readers |-> IF Passes(NodeOf[r], k)
                                         THEN Append(down[r], Message(k))
                                         ELSE down[r]]
  /\ UNCHANGED <<base, waiting, delayed, allow, readerVars, toBase, up, failed,
                 evictions>>

\* seed_all, for the KeyComparisons `keys' that reader r asked for: those that
\* hit are replayed to r, those that miss become redos and their holes are
\* backfilled from the base table.  (A request for no key changes nothing at
\* the base table and is left out.)
seed_all(r, keys) ==
  LET found  == {K \in keys : K \subseteq Filled(mid)}
      missed == UNION {{<<h, Redo(r, K)>> : h \in Runs(K \ Filled(mid))} :
                         K \in keys \ found}
      needed == needed_replays(waiting, missed)
  IN /\ waiting' = IF missed = {} THEN waiting ELSE on_replay_misses(waiting, missed)
     /\ toBase' = IF needed = {} THEN toBase ELSE Append(toBase, needed)
     /\ down' = IF found = {} THEN down
                ELSE [down EXCEPT ![r] = Append(@, ReplayPiece(found, mid))]
     /\ allow' = IF found = {} THEN allow ELSE Allow(r, found)

\* RequestPartialReplay from a reader.
MidRequest(r) ==
  /\ MidIdle
  /\ up[r] # <<>>
  /\ up' = [up EXCEPT ![r] = Tail(@)]
  /\ seed_all(r, Head(up[r]))
  /\ UNCHANGED <<base, mid, delayed, readerVars, toMid, failed, evictions>>

\* RequestPartialReplay that mid sent to itself: handle_packet drains these
\* before it takes the next packet.
MidDelayed ==
  /\ "mid" \notin failed
  /\ delayed # <<>>
  /\ delayed' = Tail(delayed)
  /\ seed_all(Head(delayed).replica, Head(delayed).keys)
  /\ UNCHANGED <<base, mid, readerVars, toMid, up, failed, evictions>>

\* The KeyComparisons of a backfill mid is waiting for; a domain that waits for
\* nothing prunes nothing.
MidExpected(F) == IF is_waiting(waiting) THEN F \cap DOMAIN waiting.redos ELSE F

\* mark_filled panics when the point was filled before; a range is merged.
MidFillPanics(G) == ~Ordered /\ (UNION G) \cap Filled(mid) # {}

\* Mutant: only one of the replicas that wait for a hole is answered.
Batches_One(ready) ==
  IF ready = {} THEN {}
  ELSE {[replica |-> d.replica, keys |-> {d.replay_key}] : d \in {CHOOSE e \in ready : TRUE}}

\* The redos that can run again, batched by replica.
Batches(ready) ==
  {[replica |-> r, keys |-> {d.replay_key : d \in {e \in ready : e.replica = r}}] :
     r \in {d.replica : d \in ready}}

\* handle_replay for a backfill of mid; the batches of redos are queued in any
\* order.  A replay nobody waits for ("got unexpected replay") is an error.
MidReplayPiece ==
  /\ MidIdle
  /\ toMid # <<>>
  /\ Head(toMid).type = "ReplayPiece"
  /\ toMid' = Tail(toMid)
  /\ LET F == Head(toMid).for_keys
         G == MidExpected(F)
         d == Retained(Head(toMid).data, F, G)
         error == G # {} /\ (MidFillPanics(G) \/ ~is_waiting(waiting))
         done == IF error THEN {} ELSE G
         again == Batches(redos_ready(waiting, done))
     IN /\ mid' = [k \in Keys |-> IF k \in UNION done
                                  THEN Rows(mid, k) + Data(d, k) ELSE mid[k]]
        /\ waiting' = after_backfill(waiting, done)
        /\ delayed' \in Bijection(1..Cardinality(again), again)
        /\ failed' = IF error THEN failed \cup {"mid"} ELSE failed
  /\ UNCHANGED <<base, allow, readerVars, toBase, up, down, evictions>>

\* Mutant: the eviction is not passed on to the readers.
MidEvict_NotForwarded(K) ==
  /\ MidIdle
  /\ evictions < MaxEvictions
  /\ K # {} /\ K \subseteq Filled(mid)
  /\ evictions' = evictions + 1
  /\ mid' = [k \in Keys |-> IF k \in K THEN Hole ELSE mid[k]]
  /\ UNCHANGED <<base, waiting, delayed, allow, readerVars, toBase, toMid, up, down,
                 failed>>

\* Evict: evict_bytes picks keys at random; trigger_downstream_evictions walks
\* every path that starts at mid.
MidEvict(K) ==
  /\ MidIdle
  /\ evictions < MaxEvictions
  /\ K # {} /\ K \subseteq Filled(mid)
  /\ evictions' = evictions + 1
  /\ mid' = [k \in Keys |-> IF k \in K THEN Hole ELSE mid[k]]
  /\ down' = ToAll(EvictKeys(K))
  /\ allow' = Disallow(K)
  /\ UNCHANGED <<base, waiting, delayed, readerVars, toBase, toMid, up, failed>>

-----------------------------------------------------------------------------
(* The domain of a reader.                                                  *)

\* swap(): publish the new contents of reader r.
swap(r, contents) ==
  /\ read' = [read EXCEPT ![r] = contents]
  /\ seen' = [seen EXCEPT ![r] =
                [k \in Keys |-> IF contents[k] = Hole THEN @[k] ELSE contents[k]]]

\* A client's lookup of K misses in some keys of it; the reader triggers a
\* RequestReaderReplay for those.
Ask(r, K) ==
  /\ Cardinality(asked[r]) < MaxAsked
  /\ K \ Filled(read[r]) # {}
  /\ asked' = [asked EXCEPT ![r] = @ \cup {Runs(K \ Filled(read[r]))}]
  /\ UNCHANGED <<base, midVars, read, triggered, seen, toBase, toMid, up, down,
                 failed, evictions>>

Missing(r, P) == UNION {Runs(K \ Filled(read[r])) : K \in P}

\* RequestedKeys::extend: what is not requested already.
Unrequested(r, P) == UNION {Runs(K \ triggered[r]) : K \in P}

\* RequestReaderReplay: ask for what still misses and was not asked for.
ReaderRequest(r, P) ==
  /\ r \notin failed
  /\ P \in asked[r]
  /\ asked' = [asked EXCEPT ![r] = @ \ {P}]
  /\ LET keys == Unrequested(r, Missing(r, P))
     IN /\ triggered' = [triggered EXCEPT ![r] = @ \cup UNION keys]
        /\ up' = IF keys = {} THEN up ELSE [up EXCEPT ![r] = Append(@, keys)]
  /\ UNCHANGED <<base, midVars, read, seen, toBase, toMid, down, failed, evictions>>

\* The next packet for reader r.
Receive(r, type) ==
  /\ r \notin failed
  /\ down[r] # <<>>
  /\ Head(down[r]).type = type
  /\ down' = [down EXCEPT ![r] = Tail(@)]

\* Reader::process for a Message: a row that hits a hole is dropped.
ReaderMessage(r) ==
  /\ Receive(r, "Message")
  /\ LET k == Head(down[r]).key
     IN swap(r, [read[r] EXCEPT ![k] = IF @ = Hole THEN Hole ELSE @ + 1])
  /\ UNCHANGED <<base, midVars, triggered, asked, toBase, toMid, up, failed, evictions>>

\* RequestedKeys::filter_keys, which is skipped while nothing is requested.
ReaderExpected(r, F) ==
  IF triggered[r] = {} THEN F ELSE UNION {Runs(K \cap triggered[r]) : K \in F}

\* handle_replay for a reader.  mark_filled refuses a key that is filled
\* (KeyAlreadyFilled, RangeAlreadyFilled); Reader::process drops the rows of
\* filled keys and inserts all others, which fills their key.
ReaderReplayPiece(r) ==
  /\ Receive(r, "ReplayPiece")
  /\ LET F == Head(down[r]).for_keys
         G == ReaderExpected(r, F)
         error == (UNION G) \cap Filled(read[r]) # {}
         done == IF error THEN {} ELSE UNION G
         d == IF done = {} THEN <<>> ELSE Retained(Head(down[r]).data, F, G)
     IN /\ swap(r, [k \in Keys |->
                      IF k \in done \/ (read[r][k] = Hole /\ Data(d, k) > 0)
                      THEN Data(d, k) ELSE read[r][k]])
        /\ triggered' = [triggered EXCEPT ![r] = @ \ done]
        /\ failed' = IF error THEN failed \cup {r} ELSE failed
  /\ UNCHANGED <<base, midVars, asked, toBase, toMid, up, evictions>>

\* Removing keys from a reader.
Emptied(r, K) == [k \in Keys |-> IF k \in K THEN Hole ELSE read[r][k]]

\* EvictKeys: process_eviction of the reader node.
ReaderEvictKeys(r) ==
  /\ Receive(r, "EvictKeys")
  /\ swap(r, Emptied(r, Head(down[r]).keys))
  /\ UNCHANGED <<base, midVars, triggered, asked, toBase, toMid, up, failed, evictions>>

\* Evict, and the timed purge of a reader beyond the materialization frontier.
ReaderEvict(r, K) ==
  /\ r \notin failed
  /\ evictions < MaxEvictions
  /\ K # {} /\ K \subseteq Filled(read[r])
  /\ evictions' = evictions + 1
  /\ swap(r, Emptied(r, K))
  /\ UNCHANGED <<base, midVars, triggered, asked, toBase, toMid, up, down, failed>>

-----------------------------------------------------------------------------
Environment ==
  \/ \E k \in Keys : BaseWrite(k)
  \/ \E K \in SUBSET Keys : MidEvict(K)
  \/ \E r \in Readers, K \in SUBSET Keys : ReaderEvict(r, K)
  \/ \E r \in Readers : \E K \in Requests[r] : Ask(r, K)

MidStep == MidMessage \/ MidReplayPiece \/ MidDelayed

ReaderStep(r) == ReaderMessage(r) \/ ReaderReplayPiece(r) \/ ReaderEvictKeys(r)

TakeRequest(r) == \E P \in asked[r] : ReaderRequest(r, P)

Next ==
  \/ Environment
  \/ BaseReplay
  \/ MidStep
  \/ \E r \in Readers : MidRequest(r) \/ ReaderStep(r) \/ TakeRequest(r)

Spec == Init /\ [][Next]_vars

\* A domain keeps handling the packets of each of its channels.
Fairness ==
  /\ WF_vars(BaseReplay)
  /\ WF_vars(MidStep)
  /\ \A r \in Readers : WF_vars(MidRequest(r)) /\ WF_vars(ReaderStep(r))

FairSpec == Spec /\ Fairness
-----------------------------------------------------------------------------
(* Properties.                                                              *)

Counts == [Keys -> Nat \cup {Hole}]
KeySets == SUBSET (SUBSET Keys)

IsPacket(p) ==
  \/ p.type = "Message" /\ p.key \in Keys
  \/ p.type = "EvictKeys" /\ p.keys \subseteq Keys
  \/ /\ p.type = "ReplayPiece"
     /\ p.for_keys \in KeySets
     /\ p.data \in [UNION p.for_keys -> Nat]

\* The type invariant.
TypeOK ==
  /\ base \in [Keys -> Nat]
  /\ mid \in Counts
  /\ \A h \in DOMAIN waiting.redos :
       h \subseteq Keys /\ \A d \in waiting.redos[h] : d.replica \in Readers
  /\ \A i \in DOMAIN delayed : delayed[i].replica \in Readers /\ delayed[i].keys \in KeySets
  /\ allow \in [Nodes -> KeySets]
  /\ read \in [Readers -> Counts]
  /\ triggered \in [Readers -> SUBSET Keys]
  /\ asked \in [Readers -> SUBSET KeySets]
  /\ toBase \in Seq(KeySets)
  /\ \A i \in DOMAIN toMid : IsPacket(toMid[i])
  /\ \A r \in Readers : up[r] \in Seq(KeySets) /\ \A i \in DOMAIN down[r] : IsPacket(down[r][i])
  /\ failed \subseteq Readers \cup {"mid"}
  /\ evictions \in 0..MaxEvictions
  /\ seen \in [Readers -> [Keys -> Nat]]

\* No domain ever reaches one of its internal errors, assertions or panics:
\* State::mark_filled of a filled point, "got unexpected replay", a replay into
\* a filled key of a reader (KeyAlreadyFilled, RangeAlreadyFilled).
NoDomainFails == failed = {}

\* The two maps of mid's Waiting agree with each other.
WaitingConsistent == Consistent(waiting)

\* Rows of key k on their way in a channel.
InFlight(ch, k) ==
  Cardinality({i \in DOMAIN ch : ch[i].type = "Message" /\ ch[i].key = k})

EvictionPending(r, k) ==
  \E i \in DOMAIN down[r] : down[r][i].type = "EvictKeys" /\ k \in down[r][i].keys

\* A filled key of mid lacks exactly the rows still on their way to it: no
\* write is lost or applied twice by a backfill that races with it.
MidCurrent ==
  \A k \in Filled(mid) : mid[k] + InFlight(toMid, k) = base[k]

\* A filled key of a reader is either about to be evicted or filled in mid as
\* well, and lacks exactly the rows on their way to it.  In particular mid and
\* the egress filter drop only rows whose key is a hole below.
ReaderCurrent ==
  \A r \in Readers : \A k \in Filled(read[r]) :
    EvictionPending(r, k)
      \/ (k \in Filled(mid) /\ read[r][k] + InFlight(down[r], k) = mid[k])

\* Reads of one reader are monotonic, also across an eviction and the replay
\* that fills the key again: no count is ever published below an earlier one.
MonotonicReads ==
  [][\A r \in Readers, k \in Keys :
       read'[r][k] # Hole => read'[r][k] >= seen[r][k]]_vars

\* How many packets of a channel satisfy a test.
Packets(ch, Test(_)) == Cardinality({i \in DOMAIN ch : Test(ch[i])})

\* Every hole mid waits for has exactly one backfill under way, as a request or
\* as its answer: none is lost, none is asked for twice.
BackfillUnderWay ==
  \A h \in DOMAIN waiting.redos :
    Packets(toBase, LAMBDA F : h \in F)
      + Packets(toMid, LAMBDA p : p.type = "ReplayPiece" /\ h \in p.for_keys) = 1

\* Every key a reader domain waits for is in exactly one place: a request to
\* mid, a redo of mid, or a replay on its way down.
RequestUnderWay ==
  \A r \in Readers : \A k \in triggered[r] :
    Packets(up[r], LAMBDA F : k \in UNION F)
      + Packets(delayed, LAMBDA b : b.replica = r /\ k \in UNION b.keys)
      + Cardinality({d \in DOMAIN waiting.holes : d.replica = r /\ k \in d.replay_key})
      + Packets(down[r], LAMBDA p : p.type = "ReplayPiece" /\ k \in UNION p.for_keys) = 1

\* A key that was requested is eventually answered, once evictions stop.
RequestsAnswered ==
  \A r \in Readers, k \in Keys : k \in triggered[r] ~> k \notin triggered[r]

\* The backfills under way that bring key k: the requests of mid to the base
\* table, and their answers.
RequestsOf(k) ==
  UNION {{<<"toBase", i, h>> : h \in {g \in toBase[i] : k \in g}} : i \in DOMAIN toBase}

AnswersWith(k) ==
  UNION {{<<"toMid", i, h>> : h \in {g \in toMid[i].for_keys : k \in g}} :
           i \in {j \in DOMAIN toMid : toMid[j].type = "ReplayPiece"}}

Backfills(k) == RequestsOf(k) \cup AnswersWith(k)

\* "If two replays both hit the *same* hole, we should only request a backfill
\* of it once" (struct Waiting): no key is brought by two backfills under way,
\* whoever waits for it and whatever was evicted meanwhile.  It holds for points;
\* two ranges that overlap are two holes to the code, and the keys they share are
\* backfilled twice.
HoleBackfilledOnce ==
  \A k \in Keys : \A b, c \in Backfills(k) : b = c
=============================================================================
