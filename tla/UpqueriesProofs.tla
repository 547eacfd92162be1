-------------------------- MODULE UpqueriesProofs ---------------------------
(***************************************************************************)
(* Proofs about Waiting, whose two operations keep its two maps consistent *)
(* for any finite set of holes and any set of redos, and about Upqueries for*)
(* any number of keys and readers, either kind of index and without bounds *)
(* on writes, evictions and requests.                                      *)
(***************************************************************************)
EXTENDS Upqueries, FiniteSetTheorems, TLAPS

\* Zenon proves the leaves that do not name the SMT solver.
USE ZenonT(30)

(* The two operations of Waiting.                                          *)

\* The holes that name redo r.
HolesOf(w, r) == {h \in DOMAIN w.redos : r \in w.redos[h]}

\* The cardinality of a disjoint union is the sum of the cardinalities.
LEMMA DisjointUnion ==
  ASSUME NEW S, IsFiniteSet(S), NEW T, IsFiniteSet(T), S \cap T = {}
  PROVE  /\ Cardinality(S) \in Nat /\ Cardinality(T) \in Nat
         /\ IsFiniteSet(S \cup T)
         /\ Cardinality(S \cup T) = Cardinality(S) + Cardinality(T)
<1>1. Cardinality(S) \in Nat /\ Cardinality(T) \in Nat
  BY FS_CardinalityType
<1>2. /\ IsFiniteSet(S \cup T)
      /\ Cardinality(S \cup T) = Cardinality(S) + Cardinality(T) - Cardinality({})
  BY FS_Union, SMTT(30)
<1>3. Cardinality({}) = 0
  BY FS_EmptySet
<1> QED
  BY <1>1, <1>2, <1>3, SMTT(30)

\* The counter of a redo is the number of its holes, also for a redo that is
\* not there.
LEMMA HolesLeftCounts ==
  ASSUME NEW w, Consistent(w), NEW r
  PROVE  HolesLeft(w, r) = Cardinality(HolesOf(w, r))
<1>1. CASE r \in DOMAIN w.holes
  BY <1>1 DEF Consistent, HolesLeft, HolesOf
<1>2. CASE r \notin DOMAIN w.holes
  <2>1. HolesOf(w, r) = {}
    BY <1>2 DEF Consistent, HolesOf
  <2> QED
    BY <1>2, <2>1, FS_EmptySet DEF HolesLeft
<1> QED
  BY <1>1, <1>2

\* on_replay_misses keeps Waiting consistent: a redo's counter grows by the
\* holes that did not name it before, whether they were vacant or not.
LEMMA MissesKeepConsistent ==
  ASSUME NEW w, Consistent(w), IsFiniteSet(DOMAIN w.redos),
         NEW missed, IsFiniteSet(HolesIn(missed)),
         \A p \in missed : p = <<p[1], p[2]>>
  PROVE  Consistent(on_replay_misses(w, missed))
<1> DEFINE v == on_replay_misses(w, missed)
<1>1. /\ DOMAIN v.redos = DOMAIN w.redos \cup HolesIn(missed)
      /\ \A h \in DOMAIN v.redos : v.redos[h] = RedosOf(w, h) \cup MissedBy(missed, h)
      /\ DOMAIN v.holes = DOMAIN w.holes \cup RedosIn(missed)
      /\ \A r \in DOMAIN v.holes :
           v.holes[r] = HolesLeft(w, r) + Cardinality(NewHoles(w, missed, r))
  BY DEF on_replay_misses
<1> HIDE DEF v
<1>2. ASSUME NEW h \in DOMAIN v.redos
      PROVE  v.redos[h] # {} /\ v.redos[h] \subseteq DOMAIN v.holes
  <2>1. v.redos[h] \subseteq DOMAIN v.holes
    BY <1>1, <1>2 DEF Consistent, RedosOf, MissedBy
  <2>2. CASE h \in DOMAIN w.redos
    BY <1>1, <2>1, <2>2 DEF Consistent, RedosOf
  <2>3. CASE h \in HolesIn(missed)
    <3>1. PICK p \in missed : p[1] = h
      BY <2>3 DEF HolesIn
    <3>2. p[2] \in MissedBy(missed, h)
      BY <3>1 DEF MissedBy, RedosIn
    <3> QED
      BY <1>1, <2>1, <3>2
  <2> QED
    BY <1>1, <2>2, <2>3
<1>3. ASSUME NEW r \in DOMAIN v.holes
      PROVE  v.holes[r] > 0 /\ v.holes[r] = Cardinality(HolesOf(v, r))
  <2> DEFINE Old == HolesOf(w, r)
             New == NewHoles(w, missed, r)
  <2>1. IsFiniteSet(Old) /\ IsFiniteSet(New)
    <3>1. Old \in SUBSET DOMAIN w.redos /\ New \in SUBSET HolesIn(missed)
      BY DEF HolesOf, NewHoles
    <3> QED
      BY <3>1, FS_Subset
  <2>2. HolesOf(v, r) = Old \cup New
    BY <1>1, SMTT(30) DEF HolesOf, NewHoles, RedosOf, MissedBy, HolesIn, RedosIn
  <2>3. Old \cap New = {}
    BY DEF HolesOf, NewHoles, RedosOf
  <2>4. v.holes[r] = Cardinality(Old) + Cardinality(New)
    BY <1>1, <1>3, HolesLeftCounts
  <2>5. Old \cup New # {}
    <3>1. CASE r \in DOMAIN w.holes
      <4>1. Cardinality(Old) > 0
        BY <3>1 DEF Consistent, HolesOf
      <4> QED
        BY <4>1, <2>1, FS_EmptySet, SMTT(30)
    <3>2. CASE r \in RedosIn(missed) /\ r \notin DOMAIN w.holes
      <4>1. PICK p \in missed : p[2] = r
        BY <3>2 DEF RedosIn
      <4>2. p[1] \in New
        BY <4>1, <3>2 DEF NewHoles, HolesIn, RedosOf, Consistent
      <4> QED
        BY <4>2
    <3> QED
      BY <1>1, <1>3, <3>1, <3>2
  <2>6. /\ Cardinality(Old) \in Nat /\ Cardinality(New) \in Nat
        /\ IsFiniteSet(Old \cup New)
        /\ Cardinality(Old \cup New) = Cardinality(Old) + Cardinality(New)
    BY <2>1, <2>3, DisjointUnion
  <2>7. Cardinality(Old \cup New) # 0
    BY <2>5, <2>6, FS_EmptySet
  <2> QED
    BY <2>2, <2>4, <2>6, <2>7, SMTT(30)
<1> QED
  BY <1>2, <1>3 DEF Consistent, HolesOf, v

\* The end of handle_replay keeps Waiting consistent: the holes filled are
\* taken off every counter, and exactly the redos left without a hole go.
LEMMA BackfillKeepsConsistent ==
  ASSUME NEW w, Consistent(w), IsFiniteSet(DOMAIN w.redos), NEW filled
  PROVE  Consistent(after_backfill(w, filled))
<1> DEFINE v == after_backfill(w, filled)
<1>1. /\ DOMAIN v.redos = DOMAIN w.redos \ filled
      /\ \A h \in DOMAIN v.redos : v.redos[h] = w.redos[h]
      /\ DOMAIN v.holes = DOMAIN w.holes \ redos_ready(w, filled)
      /\ \A r \in DOMAIN v.holes :
           v.holes[r] = w.holes[r] - Cardinality(FilledFor(w, filled, r))
  BY DEF after_backfill
<1> HIDE DEF v
<1>2. ASSUME NEW r \in DOMAIN w.holes
      PROVE  /\ Cardinality(HolesOf(w, r)) \in Nat
             /\ Cardinality(FilledFor(w, filled, r)) \in Nat
             /\ w.holes[r] = Cardinality(HolesOf(w, r))
             /\ w.holes[r] = Cardinality(FilledFor(w, filled, r))
                               + Cardinality(HolesOf(v, r))
             /\ Cardinality(HolesOf(v, r)) \in Nat
             /\ Cardinality(HolesOf(v, r)) = 0 <=> HolesOf(v, r) = {}
  <2>1. /\ HolesOf(w, r) = FilledFor(w, filled, r) \cup HolesOf(v, r)
        /\ FilledFor(w, filled, r) \cap HolesOf(v, r) = {}
    BY <1>1 DEF HolesOf, FilledFor, RedosOf
  <2>2. IsFiniteSet(HolesOf(w, r))
    <3>1. HolesOf(w, r) \in SUBSET DOMAIN w.redos
      BY DEF HolesOf
    <3> QED
      BY <3>1, FS_Subset
  <2>3. IsFiniteSet(FilledFor(w, filled, r)) /\ IsFiniteSet(HolesOf(v, r))
    <3>1. /\ FilledFor(w, filled, r) \in SUBSET HolesOf(w, r)
          /\ HolesOf(v, r) \in SUBSET HolesOf(w, r)
      BY <2>1
    <3> QED
      BY <2>2, <3>1, FS_Subset
  <2>4. w.holes[r] = Cardinality(HolesOf(w, r))
    BY <1>2 DEF Consistent, HolesOf
  <2>5. Cardinality(HolesOf(w, r)) = Cardinality(FilledFor(w, filled, r))
                                       + Cardinality(HolesOf(v, r))
    BY <2>1, <2>3, DisjointUnion
  <2> QED
    BY <2>2, <2>3, <2>4, <2>5, FS_CardinalityType, FS_EmptySet
<1>3. ASSUME NEW h \in DOMAIN v.redos
      PROVE  v.redos[h] # {} /\ v.redos[h] \subseteq DOMAIN v.holes
  <2>1. v.redos[h] # {} /\ v.redos[h] \subseteq DOMAIN w.holes
    BY <1>1, <1>3 DEF Consistent
  <2>2. ASSUME NEW r \in v.redos[h] PROVE r \notin redos_ready(w, filled)
    <3>1. HolesOf(v, r) # {}
      BY <1>3, <2>2 DEF HolesOf
    <3> QED
      BY <1>2, <2>1, <3>1, SMTT(30) DEF redos_ready
  <2> QED
    BY <1>1, <2>1, <2>2
<1>4. ASSUME NEW r \in DOMAIN v.holes
      PROVE  v.holes[r] > 0 /\ v.holes[r] = Cardinality(HolesOf(v, r))
  <2>1. r \in DOMAIN w.holes /\ r \notin redos_ready(w, filled)
    BY <1>1, <1>4
  <2>2. v.holes[r] = Cardinality(HolesOf(v, r))
    BY <1>1, <1>2, <1>4, <2>1, SMTT(30)
  <2>3. w.holes[r] > 0
    BY <2>1 DEF Consistent
  <2>4. CASE FilledFor(w, filled, r) = {}
    <3>1. Cardinality(FilledFor(w, filled, r)) = 0
      BY <2>4, FS_EmptySet
    <3> QED
      BY <1>2, <2>1, <2>2, <2>3, <3>1, SMTT(30)
  <2>5. CASE FilledFor(w, filled, r) # {}
    BY <1>2, <2>1, <2>2, <2>5, SMTT(30) DEF redos_ready
  <2> QED
    BY <2>2, <2>4, <2>5
<1> QED
  BY <1>3, <1>4 DEF Consistent, HolesOf, v

-----------------------------------------------------------------------------
(* The types of Upqueries, and that its waits stay consistent.             *)

\* The packets that travel down.
PacketSet ==
  [type : {"Message"}, key : Keys]
    \cup [type : {"EvictKeys"}, keys : SUBSET Keys]
    \cup UNION {[type : {"ReplayPiece"}, for_keys : {F}, data : [UNION F -> Nat]] :
                  F \in KeySets}

RedoSet == [replica : Readers, replay_key : SUBSET Keys]

\* The state of mid that its Waiting depends on.
MidTypes ==
  /\ mid \in Counts
  /\ DOMAIN waiting.redos \subseteq SUBSET Keys
  /\ DOMAIN waiting.holes \subseteq RedoSet
  /\ delayed \in Seq([replica : Readers, keys : KeySets])
  /\ allow \in [Nodes -> KeySets]

ReaderTypes ==
  /\ read \in [Readers -> Counts]
  /\ triggered \in [Readers -> SUBSET Keys]
  /\ asked \in [Readers -> SUBSET KeySets]
  /\ seen \in [Readers -> [Keys -> Nat]]

ChannelTypes ==
  /\ toBase \in Seq(KeySets)
  /\ toMid \in Seq(PacketSet)
  /\ up \in [Readers -> Seq(KeySets)]
  /\ down \in [Readers -> Seq(PacketSet)]

Bookkeeping ==
  /\ base \in [Keys -> Nat]
  /\ failed \subseteq Readers \cup {"mid"}
  /\ evictions \in 0..MaxEvictions
  /\ MidTypes
  /\ ReaderTypes
  /\ ChannelTypes
  /\ Consistent(waiting)

-----------------------------------------------------------------------------
(* Operators.                                                               *)

\* The runs of a set of keys are sets of keys.
LEMMA RunsType ==
  ASSUME NEW S \in SUBSET Keys PROVE Runs(S) \in KeySets
BY DEF Runs, KeySets

\* The KeyComparisons that RequestReaderReplay computes are sets of keys.
LEMMA RequestType ==
  ASSUME NEW r, NEW P \in KeySets
  PROVE  Missing(r, P) \in KeySets /\ Unrequested(r, P) \in KeySets
<1>1. ASSUME NEW K \in P, NEW T, NEW S \in Runs(K \ T) PROVE S \in SUBSET Keys
  <2>1. K \ T \in SUBSET Keys
    BY DEF KeySets
  <2> QED
    BY <2>1, RunsType DEF KeySets
<1>2. ASSUME NEW S \in Missing(r, P) PROVE S \in SUBSET Keys
  <2>1. PICK K \in P : S \in Runs(K \ Filled(read[r]))
    BY <1>2 DEF Missing
  <2> QED
    BY <1>1, <2>1
<1>3. ASSUME NEW S \in Unrequested(r, P) PROVE S \in SUBSET Keys
  <2>1. PICK K \in P : S \in Runs(K \ triggered[r])
    BY <1>3 DEF Unrequested
  <2> QED
    BY <1>1, <2>1
<1> QED
  BY <1>2, <1>3 DEF KeySets

\* A lookup returns a number of rows.
LEMMA RowsType ==
  ASSUME NEW state \in Counts, NEW k \in Keys PROVE Rows(state, k) \in Nat
BY DEF Rows, Counts

\* Applying a row to a filled key.
LEMMA IncrementType ==
  ASSUME NEW state \in Counts, NEW k \in Keys, state[k] # Hole
  PROVE  [state EXCEPT ![k] = state[k] + 1] \in Counts
BY SMTT(30) DEF Counts

\* A replay of keys is a packet.
LEMMA ReplayPieceType ==
  ASSUME NEW F \in KeySets, NEW state \in Counts
  PROVE  ReplayPiece(F, state) \in PacketSet
<1>1. [k \in UNION F |-> Rows(state, k)] \in [UNION F -> Nat]
  BY RowsType DEF KeySets
<1> QED
  BY <1>1, SMTT(30) DEF ReplayPiece, PacketSet

\* A write and an eviction are packets.
LEMMA OtherPacketsType ==
  /\ \A k \in Keys : Message(k) \in PacketSet
  /\ \A K \in SUBSET Keys : EvictKeys(K) \in PacketSet
BY DEF Message, EvictKeys, PacketSet

\* What a domain finds in a packet.
LEMMA PacketFields ==
  ASSUME NEW p \in PacketSet
  PROVE  /\ p.type \in {"Message", "EvictKeys", "ReplayPiece"}
         /\ p.type = "Message" => p.key \in Keys
         /\ p.type = "EvictKeys" => p.keys \in SUBSET Keys
         /\ p.type = "ReplayPiece" =>
              p.for_keys \in KeySets /\ p.data \in [UNION p.for_keys -> Nat]
<1>1. CASE p \in [type : {"Message"}, key : Keys]
  BY <1>1
<1>2. CASE p \in [type : {"EvictKeys"}, keys : SUBSET Keys]
  BY <1>2
<1>3. CASE \E F \in KeySets :
             p \in [type : {"ReplayPiece"}, for_keys : {F}, data : [UNION F -> Nat]]
  <2>1. PICK F \in KeySets :
          p \in [type : {"ReplayPiece"}, for_keys : {F}, data : [UNION F -> Nat]]
    BY <1>3
  <2>2. p.type = "ReplayPiece" /\ p.for_keys = F /\ p.data \in [UNION F -> Nat]
    BY <2>1
  <2> QED
    BY <2>2
<1> QED
  BY <1>1, <1>2, <1>3 DEF PacketSet

\* Every packet of the set is one of the three kinds of the type invariant.
LEMMA PacketIsPacket ==
  ASSUME NEW p \in PacketSet PROVE IsPacket(p)
BY PacketFields DEF IsPacket

\* The rows left after pruning are counts.
LEMMA RetainedType ==
  ASSUME NEW F, NEW G, NEW D, NEW d \in [D -> Nat], NEW k
  PROVE  Data(Retained(d, F, G), k) \in Nat
BY DEF Data, Retained

\* Sending a packet on a channel.
LEMMA AppendType ==
  ASSUME NEW S, NEW s \in Seq(S), NEW e \in S PROVE Append(s, e) \in Seq(S)
BY SMTT(30)

\* Changing one of the channels.
LEMMA ChannelType ==
  ASSUME NEW T, NEW c \in [Readers -> T], NEW r \in Readers, NEW s \in T
  PROVE  [c EXCEPT ![r] = s] \in [Readers -> T]
OBVIOUS

\* Emptying some keys.
LEMMA EmptiedType ==
  ASSUME NEW state \in Counts, NEW K
  PROVE  [k \in Keys |-> IF k \in K THEN Hole ELSE state[k]] \in Counts
BY DEF Counts

\* Counting an eviction.
LEMMA EvictionsType ==
  ASSUME NEW n \in 0..MaxEvictions, n < MaxEvictions PROVE n + 1 \in 0..MaxEvictions
BY UpqueriesAssumption, SMTT(30)

\* Taking the next packet of a channel.
LEMMA HeadTailType ==
  ASSUME NEW S, NEW s \in Seq(S), s # <<>>
  PROVE  Head(s) \in S /\ Tail(s) \in Seq(S)
BY SMTT(30)

\* The elements of a channel.
LEMMA ElementType ==
  ASSUME NEW S, NEW s \in Seq(S) PROVE \A i \in DOMAIN s : s[i] \in S
BY SMTT(30)

\* Enumerating a finite set gives a sequence over any set that includes it.
LEMMA EnumerationType ==
  ASSUME NEW S, NEW T, IsFiniteSet(S), S \subseteq T,
         NEW s \in Bijection(1..Cardinality(S), S)
  PROVE  s \in Seq(T)
<1>1. Cardinality(S) \in Nat
  BY FS_CardinalityType
<1>2. s \in [1..Cardinality(S) -> S]
  BY DEF Bijection, Injection
<1> QED
  BY <1>1, <1>2, SMTT(30)

\* The redos that run again, batched by replica, are finitely many requests.
LEMMA BatchesType ==
  ASSUME NEW ready \in SUBSET RedoSet
  PROVE  /\ Batches(ready) \subseteq [replica : Readers, keys : KeySets]
         /\ IsFiniteSet(Batches(ready))
<1> DEFINE R == {d.replica : d \in ready}
           keys(r) == {d.replay_key : d \in {e \in ready : e.replica = r}}
           f == [r \in R |-> [replica |-> r, keys |-> keys(r)]]
<1>1. R \in SUBSET Readers
  BY DEF RedoSet
<1>2. IsFiniteSet(R)
  BY <1>1, UpqueriesAssumption, FS_Subset
<1>3. f \in Surjection(R, Batches(ready))
  BY DEF Surjection, Batches
<1>4. IsFiniteSet(Batches(ready))
  BY <1>2, <1>3, FS_Surjection
<1>5. \A r \in R : keys(r) \in KeySets
  BY SMTT(30) DEF RedoSet, KeySets
<1> QED
  <2>1. ASSUME NEW b \in Batches(ready)
        PROVE  b \in [replica : Readers, keys : KeySets]
    <3>1. PICK r \in R : b = [replica |-> r, keys |-> keys(r)]
      BY DEF Batches
    <3> QED
      BY <1>1, <1>5, <3>1
  <2> QED
    BY <1>4, <2>1

-----------------------------------------------------------------------------
(* Steps.                                                                   *)

\* The pairs of a hole and a redo that seed_all misses in.
Misses(r, keys, T) ==
  UNION {{<<h, Redo(r, K)>> : h \in Runs(K \ T)} : K \in keys}

\* There are finitely many sets of keys.
LEMMA FiniteKeySets == IsFiniteSet(SUBSET Keys)
<1>1. N \in Int /\ 1 \in Int
  BY UpqueriesAssumption, SMTT(30)
<1>2. IsFiniteSet(Keys)
  BY <1>1, FS_Interval DEF Keys
<1> QED
  BY <1>2, FS_SUBSET

\* The misses of seed_all are pairs of a set of keys and a redo.
LEMMA MissesType ==
  ASSUME NEW r \in Readers, NEW keys \in KeySets, NEW T
  PROVE  /\ \A p \in Misses(r, keys, T) : p = <<p[1], p[2]>>
         /\ HolesIn(Misses(r, keys, T)) \in KeySets
         /\ RedosIn(Misses(r, keys, T)) \subseteq RedoSet
         /\ IsFiniteSet(HolesIn(Misses(r, keys, T)))
<1> DEFINE missed == Misses(r, keys, T)
<1>1. ASSUME NEW p \in missed
      PROVE  p = <<p[1], p[2]>> /\ p[1] \in SUBSET Keys /\ p[2] \in RedoSet
  <2>1. PICK K \in keys : p \in {<<h, Redo(r, K)>> : h \in Runs(K \ T)}
    BY <1>1 DEF Misses
  <2>2. PICK h \in Runs(K \ T) : p = <<h, Redo(r, K)>>
    BY <2>1
  <2>3. K \in SUBSET Keys /\ K \ T \in SUBSET Keys
    BY DEF KeySets
  <2>4. h \in SUBSET Keys
    BY <2>3, RunsType DEF KeySets
  <2> QED
    BY <2>2, <2>3, <2>4 DEF Redo, RedoSet
<1>2. HolesIn(missed) \in SUBSET (SUBSET Keys) /\ RedosIn(missed) \subseteq RedoSet
  BY <1>1 DEF HolesIn, RedosIn
<1>3. IsFiniteSet(HolesIn(missed))
  BY <1>2, FiniteKeySets, FS_Subset
<1> QED
  BY <1>1, <1>2, <1>3 DEF KeySets

\* seed_all keeps the types and the consistency of Waiting.
LEMMA SeedAllKeeps ==
  ASSUME Bookkeeping, NEW r \in Readers, NEW keys \in KeySets, seed_all(r, keys)
  PROVE  /\ DOMAIN waiting'.redos \subseteq SUBSET Keys
         /\ DOMAIN waiting'.holes \subseteq RedoSet
         /\ Consistent(waiting')
         /\ allow' \in [Nodes -> KeySets]
         /\ toBase' \in Seq(KeySets)
         /\ down' \in [Readers -> Seq(PacketSet)]
<1> DEFINE found  == {K \in keys : K \subseteq Filled(mid)}
           missed == Misses(r, keys \ found, Filled(mid))
           needed == needed_replays(waiting, missed)
<1>1. /\ waiting' = IF missed = {} THEN waiting ELSE on_replay_misses(waiting, missed)
      /\ toBase' = IF needed = {} THEN toBase ELSE Append(toBase, needed)
      /\ down' = IF found = {} THEN down
                 ELSE [down EXCEPT ![r] = Append(@, ReplayPiece(found, mid))]
      /\ allow' = IF found = {} THEN allow ELSE Allow(r, found)
  BY DEF seed_all, Misses
<1>2. found \in KeySets /\ keys \ found \in KeySets
  BY DEF KeySets
<1>3. /\ \A p \in missed : p = <<p[1], p[2]>>
      /\ HolesIn(missed) \in KeySets
      /\ RedosIn(missed) \subseteq RedoSet
      /\ IsFiniteSet(HolesIn(missed))
  BY <1>2, MissesType
<1> HIDE DEF found, missed, needed
<1>4. /\ DOMAIN waiting'.redos \subseteq SUBSET Keys
      /\ DOMAIN waiting'.holes \subseteq RedoSet
      /\ Consistent(waiting')
  <2>1. CASE missed = {}
    BY <1>1, <2>1 DEF Bookkeeping, MidTypes
  <2>2. CASE missed # {}
    <3>1. /\ waiting'.redos = on_replay_misses(waiting, missed).redos
          /\ waiting'.holes = on_replay_misses(waiting, missed).holes
          /\ waiting' = on_replay_misses(waiting, missed)
      BY <1>1, <2>2
    <3>2. IsFiniteSet(DOMAIN waiting.redos)
      BY FiniteKeySets, FS_Subset DEF Bookkeeping, MidTypes
    <3>3. Consistent(on_replay_misses(waiting, missed))
      BY <1>3, <3>2, MissesKeepConsistent DEF Bookkeeping
    <3>4. /\ DOMAIN waiting'.redos = DOMAIN waiting.redos \cup HolesIn(missed)
          /\ DOMAIN waiting'.holes = DOMAIN waiting.holes \cup RedosIn(missed)
      BY <3>1 DEF on_replay_misses
    <3> QED
      BY <1>3, <3>1, <3>3, <3>4 DEF Bookkeeping, MidTypes, KeySets
  <2> QED
    BY <2>1, <2>2
<1>5. toBase' \in Seq(KeySets)
  <2>1. needed \in KeySets
    BY <1>3 DEF needed, needed_replays, KeySets
  <2> QED
    BY <1>1, <2>1, SMTT(30) DEF Bookkeeping, ChannelTypes
<1>6. down' \in [Readers -> Seq(PacketSet)]
  <2>1. ReplayPiece(found, mid) \in PacketSet
    BY <1>2, ReplayPieceType DEF Bookkeeping, MidTypes
  <2> QED
    BY <1>1, <2>1, SMTT(30) DEF Bookkeeping, ChannelTypes
<1>7. allow' \in [Nodes -> KeySets]
  BY <1>1, <1>2 DEF Allow, Bookkeeping, MidTypes, Nodes, KeySets
<1> QED
  BY <1>4, <1>5, <1>6, <1>7

\* Publishing new contents keeps the types of a reader.
LEMMA SwapKeeps ==
  ASSUME ReaderTypes, NEW r \in Readers, NEW contents \in Counts, swap(r, contents)
  PROVE  read' \in [Readers -> Counts] /\ seen' \in [Readers -> [Keys -> Nat]]
<1>1. [k \in Keys |-> IF contents[k] = Hole THEN seen[r][k] ELSE contents[k]]
         \in [Keys -> Nat]
  BY DEF ReaderTypes, Counts
<1> QED
  BY <1>1 DEF swap, ReaderTypes

\* A backfill that arrives at mid.
LEMMA MidReplayPieceKeeps ==
  ASSUME Bookkeeping, MidReplayPiece PROVE Bookkeeping'
<1> DEFINE p == Head(toMid)
           F == p.for_keys
           G == MidExpected(F)
           d == Retained(p.data, F, G)
           error == G # {} /\ (MidFillPanics(G) \/ ~is_waiting(waiting))
           done == IF error THEN {} ELSE G
           again == Batches(redos_ready(waiting, done))
<1>1. /\ toMid # <<>> /\ p.type = "ReplayPiece" /\ toMid' = Tail(toMid)
      /\ mid' = [k \in Keys |-> IF k \in UNION done
                                THEN Rows(mid, k) + Data(d, k) ELSE mid[k]]
      /\ waiting' = after_backfill(waiting, done)
      /\ delayed' \in Bijection(1..Cardinality(again), again)
      /\ failed' = IF error THEN failed \cup {"mid"} ELSE failed
      /\ UNCHANGED <<base, allow, readerVars, toBase, up, down, evictions>>
  BY DEF MidReplayPiece
<1>2. p \in PacketSet /\ toMid' \in Seq(PacketSet)
  <2>1. toMid # <<>> /\ toMid \in Seq(PacketSet)
    BY <1>1 DEF Bookkeeping, ChannelTypes
  <2>2. Head(toMid) \in PacketSet /\ Tail(toMid) \in Seq(PacketSet)
    BY <2>1, HeadTailType
  <2> QED
    BY <1>1, <2>2
<1>3. F \in KeySets /\ p.data \in [UNION F -> Nat]
  BY <1>1, <1>2, PacketFields
<1>4. mid' \in Counts
  <2>1. \A k \in Keys : Data(d, k) \in Nat /\ Rows(mid, k) \in Nat
    BY <1>3, RetainedType, RowsType DEF Bookkeeping, MidTypes
  <2> HIDE DEF d, done
  <2> QED
    BY <1>1, <2>1, SMTT(30) DEF Counts, Bookkeeping, MidTypes
<1> HIDE DEF done, error
<1>5. Consistent(waiting')
  <2>1. IsFiniteSet(DOMAIN waiting.redos)
    BY FiniteKeySets, FS_Subset DEF Bookkeeping, MidTypes
  <2> QED
    BY <1>1, <2>1, BackfillKeepsConsistent DEF Bookkeeping
<1>6. /\ DOMAIN waiting'.redos \subseteq SUBSET Keys
      /\ DOMAIN waiting'.holes \subseteq RedoSet
  BY <1>1 DEF after_backfill, Bookkeeping, MidTypes
<1>7. delayed' \in Seq([replica : Readers, keys : KeySets])
  <2>1. redos_ready(waiting, done) \in SUBSET RedoSet
    BY DEF redos_ready, Bookkeeping, MidTypes
  <2> QED
    BY <1>1, <2>1, BatchesType, EnumerationType
<1>8. failed' \subseteq Readers \cup {"mid"}
  BY <1>1 DEF Bookkeeping
<1> QED
  BY <1>1, <1>2, <1>4, <1>5, <1>6, <1>7, <1>8
     DEF Bookkeeping, MidTypes, ReaderTypes, ChannelTypes, readerVars

\* A replay that arrives at a reader.
LEMMA ReaderReplayPieceKeeps ==
  ASSUME Bookkeeping, NEW r \in Readers, ReaderReplayPiece(r) PROVE Bookkeeping'
<1> DEFINE p == Head(down[r])
           F == p.for_keys
           G == ReaderExpected(r, F)
           error == (UNION G) \cap Filled(read[r]) # {}
           done == IF error THEN {} ELSE UNION G
           d == IF done = {} THEN <<>> ELSE Retained(p.data, F, G)
           contents == [k \in Keys |->
                          IF k \in done \/ (read[r][k] = Hole /\ Data(d, k) > 0)
                          THEN Data(d, k) ELSE read[r][k]]
<1>1. /\ down[r] # <<>> /\ p.type = "ReplayPiece"
      /\ down' = [down EXCEPT ![r] = Tail(@)]
      /\ swap(r, contents)
      /\ triggered' = [triggered EXCEPT ![r] = @ \ done]
      /\ failed' = IF error THEN failed \cup {r} ELSE failed
      /\ UNCHANGED <<base, midVars, asked, toBase, toMid, up, evictions>>
  BY DEF ReaderReplayPiece, Receive
<1>2. p \in PacketSet /\ Tail(down[r]) \in Seq(PacketSet)
  <2>1. down[r] # <<>> /\ down[r] \in Seq(PacketSet)
    BY <1>1 DEF Bookkeeping, ChannelTypes
  <2> QED
    BY <2>1, HeadTailType
<1>3. F \in KeySets /\ p.data \in [UNION F -> Nat]
  BY <1>1, <1>2, PacketFields
<1>4. \A k \in Keys : Data(d, k) \in Nat
  <2>1. \A k \in Keys : Data(<<>>, k) \in Nat
    BY SMTT(30) DEF Data
  <2>2. \A k \in Keys : Data(Retained(p.data, F, G), k) \in Nat
    BY <1>3, RetainedType
  <2> QED
    BY <2>1, <2>2
<1>5. contents \in Counts
  <2> HIDE DEF d, done
  <2> QED
    BY <1>4, SMTT(30) DEF Counts, Bookkeeping, ReaderTypes
<1>6. read' \in [Readers -> Counts] /\ seen' \in [Readers -> [Keys -> Nat]]
  <2> HIDE DEF contents
  <2> QED
    BY <1>1, <1>5, SwapKeeps DEF Bookkeeping
<1> HIDE DEF done, error, contents
<1>7. /\ triggered' \in [Readers -> SUBSET Keys]
      /\ failed' \subseteq Readers \cup {"mid"}
      /\ down' \in [Readers -> Seq(PacketSet)]
  BY <1>1, <1>2 DEF Bookkeeping, ReaderTypes, ChannelTypes
<1> QED
  BY <1>1, <1>6, <1>7
     DEF Bookkeeping, MidTypes, ReaderTypes, ChannelTypes, midVars

\* The inductive invariant: every structure keeps its type, and the two maps
\* of mid's Waiting stay consistent under each packet the domains handle.
LEMMA BookkeepingInductive == Bookkeeping /\ [Next]_vars => Bookkeeping'
<1> SUFFICES ASSUME Bookkeeping, [Next]_vars PROVE Bookkeeping'
  OBVIOUS
<1>0. /\ base \in [Keys -> Nat]
      /\ failed \subseteq Readers \cup {"mid"}
      /\ evictions \in 0..MaxEvictions
      /\ mid \in Counts
      /\ DOMAIN waiting.redos \subseteq SUBSET Keys
      /\ DOMAIN waiting.holes \subseteq RedoSet
      /\ Consistent(waiting)
      /\ delayed \in Seq([replica : Readers, keys : KeySets])
      /\ allow \in [Nodes -> KeySets]
      /\ ReaderTypes
      /\ read \in [Readers -> Counts]
      /\ triggered \in [Readers -> SUBSET Keys]
      /\ asked \in [Readers -> SUBSET KeySets]
      /\ seen \in [Readers -> [Keys -> Nat]]
      /\ toBase \in Seq(KeySets)
      /\ toMid \in Seq(PacketSet)
      /\ up \in [Readers -> Seq(KeySets)]
      /\ down \in [Readers -> Seq(PacketSet)]
  BY DEF Bookkeeping, MidTypes, ReaderTypes, ChannelTypes
<1>1. ASSUME NEW k \in Keys, BaseWrite(k) PROVE Bookkeeping'
  <2>1. /\ base' = [base EXCEPT ![k] = @ + 1]
        /\ toMid' = Append(toMid, Message(k))
        /\ UNCHANGED <<mid, waiting, delayed, allow, read, triggered, asked, seen,
                       toBase, up, down, failed, evictions>>
    BY <1>1 DEF BaseWrite, midVars, readerVars
  <2>2. base' \in [Keys -> Nat]
    BY <1>0, <2>1, SMTT(30)
  <2>3. toMid' \in Seq(PacketSet)
    BY <1>0, <2>1, OtherPacketsType, AppendType
  <2> QED
    BY <1>0, <2>1, <2>2, <2>3 DEF Bookkeeping, MidTypes, ReaderTypes, ChannelTypes
<1>2. ASSUME NEW K \in SUBSET Keys, MidEvict(K) PROVE Bookkeeping'
  <2>1. /\ evictions < MaxEvictions /\ evictions' = evictions + 1
        /\ mid' = [k \in Keys |-> IF k \in K THEN Hole ELSE mid[k]]
        /\ down' = ToAll(EvictKeys(K))
        /\ allow' = Disallow(K)
        /\ UNCHANGED <<base, waiting, delayed, read, triggered, asked, seen, toBase,
                       toMid, up, failed>>
    BY <1>2 DEF MidEvict, readerVars
  <2>2. EvictKeys(K) \in PacketSet
    BY OtherPacketsType
  <2>3. down' \in [Readers -> Seq(PacketSet)]
    <3>1. \A r \in Readers : Append(down[r], EvictKeys(K)) \in Seq(PacketSet)
      BY <1>0, <2>2, AppendType
    <3> QED
      BY <2>1, <3>1 DEF ToAll
  <2>4. mid' \in Counts
    BY <1>0, <2>1, EmptiedType
  <2>5. evictions' \in 0..MaxEvictions
    BY <1>0, <2>1, EvictionsType
  <2>6. allow' \in [Nodes -> KeySets]
    BY <1>0, <2>1 DEF Disallow, KeySets
  <2> QED
    BY <1>0, <2>1, <2>3, <2>4, <2>5, <2>6
       DEF Bookkeeping, MidTypes, ReaderTypes, ChannelTypes
<1>3. ASSUME NEW r \in Readers, NEW K \in SUBSET Keys, ReaderEvict(r, K)
      PROVE  Bookkeeping'
  <2>1. /\ evictions < MaxEvictions /\ evictions' = evictions + 1
        /\ swap(r, Emptied(r, K))
        /\ UNCHANGED <<base, mid, waiting, delayed, allow, triggered, asked, toBase,
                       toMid, up, down, failed>>
    BY <1>3 DEF ReaderEvict, midVars
  <2>2. Emptied(r, K) \in Counts
    <3>1. read[r] \in Counts
      BY <1>0
    <3> QED
      BY <3>1, EmptiedType DEF Emptied
  <2>3. read' \in [Readers -> Counts] /\ seen' \in [Readers -> [Keys -> Nat]]
    BY <1>0, <2>1, <2>2, SwapKeeps
  <2>4. evictions' \in 0..MaxEvictions
    BY <1>0, <2>1, EvictionsType
  <2> QED
    BY <1>0, <2>1, <2>3, <2>4 DEF Bookkeeping, MidTypes, ReaderTypes, ChannelTypes
<1>4. ASSUME NEW r \in Readers, NEW K \in Requests[r], Ask(r, K) PROVE Bookkeeping'
  <2>1. /\ asked' = [asked EXCEPT ![r] = @ \cup {Runs(K \ Filled(read[r]))}]
        /\ UNCHANGED <<base, mid, waiting, delayed, allow, read, triggered, seen,
                       toBase, toMid, up, down, failed, evictions>>
    BY <1>4 DEF Ask, midVars
  <2>2. K \ Filled(read[r]) \in SUBSET Keys
    BY UpqueriesAssumption
  <2>3. Runs(K \ Filled(read[r])) \in KeySets
    BY <2>2, RunsType
  <2>4. asked' \in [Readers -> SUBSET KeySets]
    BY <1>0, <2>1, <2>3
  <2> QED
    BY <1>0, <2>1, <2>4 DEF Bookkeeping, MidTypes, ReaderTypes, ChannelTypes
<1>5. ASSUME BaseReplay PROVE Bookkeeping'
  <2>1. /\ toBase # <<>> /\ toBase' = Tail(toBase)
        /\ toMid' = Append(toMid, ReplayPiece(Head(toBase), base))
        /\ UNCHANGED <<base, mid, waiting, delayed, allow, read, triggered, asked, seen,
                       up, down, failed, evictions>>
    BY <1>5 DEF BaseReplay, midVars, readerVars
  <2>2. Head(toBase) \in KeySets /\ Tail(toBase) \in Seq(KeySets)
    BY <1>0, <2>1, HeadTailType
  <2>3. base \in Counts
    BY <1>0 DEF Counts
  <2>4. ReplayPiece(Head(toBase), base) \in PacketSet
    BY <2>2, <2>3, ReplayPieceType
  <2>5. toMid' \in Seq(PacketSet)
    BY <1>0, <2>1, <2>4, AppendType
  <2> QED
    BY <1>0, <2>1, <2>2, <2>5 DEF Bookkeeping, MidTypes, ReaderTypes, ChannelTypes
<1>6. ASSUME MidMessage PROVE Bookkeeping'
  <2> DEFINE k == Head(toMid).key
  <2>1. /\ toMid # <<>> /\ Head(toMid).type = "Message" /\ toMid' = Tail(toMid)
        /\ \/ mid[k] = Hole /\ mid' = mid /\ down' = down
           \/ /\ mid[k] # Hole
              /\ mid' = [mid EXCEPT ![k] = @ + 1]
              /\ down' = [r \in Readers |-> IF Passes(NodeOf[r], k)
                                            THEN Append(down[r], Message(k))
                                            ELSE down[r]]
        /\ UNCHANGED <<base, waiting, delayed, allow, read, triggered, asked, seen,
                       toBase, up, failed, evictions>>
    BY <1>6 DEF MidMessage, readerVars
  <2>2. Head(toMid) \in PacketSet /\ Tail(toMid) \in Seq(PacketSet)
    BY <1>0, <2>1, HeadTailType
  <2>3. k \in Keys /\ Message(k) \in PacketSet
    BY <2>1, <2>2, PacketFields, OtherPacketsType
  <2> HIDE DEF k
  <2>4. mid' \in Counts
    <3>1. mid[k] # Hole => [mid EXCEPT ![k] = mid[k] + 1] \in Counts
      BY <1>0, <2>3, IncrementType
    <3> QED
      BY <1>0, <2>1, <3>1
  <2>5. down' \in [Readers -> Seq(PacketSet)]
    <3>1. \A r \in Readers : down[r] \in Seq(PacketSet)
      BY <1>0
    <3>2. \A r \in Readers : Append(down[r], Message(k)) \in Seq(PacketSet)
      BY <2>3, <3>1, AppendType
    <3>3. CASE mid[k] = Hole
      BY <1>0, <2>1, <3>3
    <3>4. CASE mid[k] # Hole
      <4>1. down' = [r \in Readers |-> IF Passes(NodeOf[r], k)
                                       THEN Append(down[r], Message(k)) ELSE down[r]]
        BY <2>1, <3>4
      <4> QED
        BY <3>1, <3>2, <4>1
    <3> QED
      BY <3>3, <3>4
  <2> QED
    BY <1>0, <2>1, <2>2, <2>4, <2>5
       DEF Bookkeeping, MidTypes, ReaderTypes, ChannelTypes
<1>7. ASSUME MidReplayPiece PROVE Bookkeeping'
  BY <1>7, MidReplayPieceKeeps
<1>8. ASSUME MidDelayed PROVE Bookkeeping'
  <2>1. /\ delayed # <<>> /\ delayed' = Tail(delayed)
        /\ seed_all(Head(delayed).replica, Head(delayed).keys)
        /\ UNCHANGED <<base, mid, read, triggered, asked, seen, toMid, up, failed,
                       evictions>>
    BY <1>8 DEF MidDelayed, readerVars
  <2>2. /\ Head(delayed) \in [replica : Readers, keys : KeySets]
        /\ Tail(delayed) \in Seq([replica : Readers, keys : KeySets])
    BY <1>0, <2>1, HeadTailType
  <2>3. Head(delayed).replica \in Readers /\ Head(delayed).keys \in KeySets
    BY <2>2
  <2>4. /\ DOMAIN waiting'.redos \subseteq SUBSET Keys
        /\ DOMAIN waiting'.holes \subseteq RedoSet
        /\ Consistent(waiting')
        /\ allow' \in [Nodes -> KeySets]
        /\ toBase' \in Seq(KeySets)
        /\ down' \in [Readers -> Seq(PacketSet)]
    BY <2>1, <2>3, SeedAllKeeps
  <2> QED
    BY <1>0, <2>1, <2>2, <2>4 DEF Bookkeeping, MidTypes, ReaderTypes, ChannelTypes
<1>9. ASSUME NEW r \in Readers, MidRequest(r) PROVE Bookkeeping'
  <2>1. /\ up[r] # <<>> /\ up' = [up EXCEPT ![r] = Tail(@)]
        /\ seed_all(r, Head(up[r]))
        /\ UNCHANGED <<base, mid, delayed, read, triggered, asked, seen, toMid, failed,
                       evictions>>
    BY <1>9 DEF MidRequest, readerVars
  <2>2. Head(up[r]) \in KeySets /\ Tail(up[r]) \in Seq(KeySets)
    <3>1. up[r] \in Seq(KeySets)
      BY <1>0
    <3> QED
      BY <2>1, <3>1, HeadTailType
  <2>3. up' \in [Readers -> Seq(KeySets)]
    BY <1>0, <2>1, <2>2, ChannelType
  <2>4. /\ DOMAIN waiting'.redos \subseteq SUBSET Keys
        /\ DOMAIN waiting'.holes \subseteq RedoSet
        /\ Consistent(waiting')
        /\ allow' \in [Nodes -> KeySets]
        /\ toBase' \in Seq(KeySets)
        /\ down' \in [Readers -> Seq(PacketSet)]
    BY <2>1, <2>2, SeedAllKeeps
  <2> QED
    BY <1>0, <2>1, <2>3, <2>4 DEF Bookkeeping, MidTypes, ReaderTypes, ChannelTypes
<1>10. ASSUME NEW r \in Readers, ReaderMessage(r) PROVE Bookkeeping'
  <2> DEFINE k == Head(down[r]).key
             contents == [read[r] EXCEPT ![k] = IF @ = Hole THEN Hole ELSE @ + 1]
  <2>1. /\ down[r] # <<>> /\ Head(down[r]).type = "Message"
        /\ down' = [down EXCEPT ![r] = Tail(@)]
        /\ swap(r, contents)
        /\ UNCHANGED <<base, mid, waiting, delayed, allow, triggered, asked, toBase,
                       toMid, up, failed, evictions>>
    BY <1>10 DEF ReaderMessage, Receive, midVars
  <2>2. read[r] \in Counts /\ down[r] \in Seq(PacketSet)
    BY <1>0
  <2>3. Head(down[r]) \in PacketSet /\ Tail(down[r]) \in Seq(PacketSet)
    BY <2>1, <2>2, HeadTailType
  <2>4. k \in Keys
    BY <2>1, <2>3, PacketFields
  <2>5. contents \in Counts
    <3> HIDE DEF k
    <3> QED
      BY <2>2, <2>4, SMTT(30) DEF Counts
  <2> HIDE DEF k, contents
  <2>6. read' \in [Readers -> Counts] /\ seen' \in [Readers -> [Keys -> Nat]]
    BY <1>0, <2>1, <2>5, SwapKeeps
  <2>7. down' \in [Readers -> Seq(PacketSet)]
    BY <1>0, <2>1, <2>3, ChannelType
  <2> QED
    BY <1>0, <2>1, <2>6, <2>7 DEF Bookkeeping, MidTypes, ReaderTypes, ChannelTypes
<1>11. ASSUME NEW r \in Readers, ReaderReplayPiece(r) PROVE Bookkeeping'
  BY <1>11, ReaderReplayPieceKeeps
<1>12. ASSUME NEW r \in Readers, ReaderEvictKeys(r) PROVE Bookkeeping'
  <2>1. /\ down[r] # <<>> /\ down' = [down EXCEPT ![r] = Tail(@)]
        /\ swap(r, Emptied(r, Head(down[r]).keys))
        /\ UNCHANGED <<base, mid, waiting, delayed, allow, triggered, asked, toBase,
                       toMid, up, failed, evictions>>
    BY <1>12 DEF ReaderEvictKeys, Receive, midVars
  <2>2. read[r] \in Counts /\ down[r] \in Seq(PacketSet)
    BY <1>0
  <2>3. Tail(down[r]) \in Seq(PacketSet)
    BY <2>1, <2>2, HeadTailType
  <2>4. Emptied(r, Head(down[r]).keys) \in Counts
    BY <2>2, EmptiedType DEF Emptied
  <2>5. read' \in [Readers -> Counts] /\ seen' \in [Readers -> [Keys -> Nat]]
    BY <1>0, <2>1, <2>4, SwapKeeps
  <2>6. down' \in [Readers -> Seq(PacketSet)]
    BY <1>0, <2>1, <2>3, ChannelType
  <2> QED
    BY <1>0, <2>1, <2>5, <2>6 DEF Bookkeeping, MidTypes, ReaderTypes, ChannelTypes
<1>13. ASSUME NEW r \in Readers, NEW P \in asked[r], ReaderRequest(r, P)
       PROVE  Bookkeeping'
  <2> DEFINE keys == Unrequested(r, Missing(r, P))
  <2>1. /\ asked' = [asked EXCEPT ![r] = @ \ {P}]
        /\ triggered' = [triggered EXCEPT ![r] = @ \cup UNION keys]
        /\ up' = IF keys = {} THEN up ELSE [up EXCEPT ![r] = Append(@, keys)]
        /\ UNCHANGED <<base, mid, waiting, delayed, allow, read, seen, toBase, toMid,
                       down, failed, evictions>>
    BY <1>13 DEF ReaderRequest, midVars
  <2>2. P \in KeySets
    BY <1>0
  <2>3. keys \in KeySets
    <3>1. Missing(r, P) \in KeySets
      BY <2>2, RequestType
    <3> QED
      BY <3>1, RequestType
  <2> HIDE DEF keys
  <2>4. UNION keys \in SUBSET Keys
    BY <2>3 DEF KeySets
  <2>5. asked' \in [Readers -> SUBSET KeySets]
    BY <1>0, <2>1
  <2>6. triggered' \in [Readers -> SUBSET Keys]
    BY <1>0, <2>1, <2>4
  <2>7. up' \in [Readers -> Seq(KeySets)]
    <3>1. up[r] \in Seq(KeySets)
      BY <1>0
    <3>2. Append(up[r], keys) \in Seq(KeySets)
      BY <2>3, <3>1, AppendType
    <3> QED
      BY <1>0, <2>1, <3>2, ChannelType
  <2> QED
    BY <1>0, <2>1, <2>5, <2>6, <2>7
       DEF Bookkeeping, MidTypes, ReaderTypes, ChannelTypes
<1>14. ASSUME UNCHANGED vars PROVE Bookkeeping'
  BY <1>0, <1>14
     DEF vars, midVars, readerVars, Bookkeeping, MidTypes, ReaderTypes, ChannelTypes
<1> QED
  BY <1>1, <1>2, <1>3, <1>4, <1>5, <1>6, <1>7, <1>8, <1>9, <1>10, <1>11, <1>12,
     <1>13, <1>14
     DEF Next, Environment, MidStep, ReaderStep, TakeRequest

\* Bookkeeping holds in every reachable state, whatever the numbers of keys,
\* readers, writes, evictions and requests.
THEOREM BookkeepingInvariant == Spec => []Bookkeeping
<1>1. Init => Bookkeeping
  BY UpqueriesAssumption, SMTT(30)
     DEF Init, Bookkeeping, MidTypes, ReaderTypes, ChannelTypes, Counts, KeySets,
         NoWaiting, Consistent
<1> QED
  BY <1>1, BookkeepingInductive, PTL DEF Spec

\* The type invariant of the model.
THEOREM UpqueriesTyped == Spec => []TypeOK
<1>1. Bookkeeping => TypeOK
  <2> SUFFICES ASSUME Bookkeeping PROVE TypeOK
    OBVIOUS
  <2>0. /\ toMid \in Seq(PacketSet)
        /\ down \in [Readers -> Seq(PacketSet)]
        /\ up \in [Readers -> Seq(KeySets)]
        /\ delayed \in Seq([replica : Readers, keys : KeySets])
    BY DEF Bookkeeping, MidTypes, ChannelTypes
  <2>1. \A h \in DOMAIN waiting.redos :
          h \subseteq Keys /\ \A d \in waiting.redos[h] : d.replica \in Readers
    BY DEF Bookkeeping, MidTypes, Consistent, RedoSet
  <2>2. \A i \in DOMAIN toMid : IsPacket(toMid[i])
    <3>1. \A i \in DOMAIN toMid : toMid[i] \in PacketSet
      BY <2>0, ElementType
    <3> QED
      BY <3>1, PacketIsPacket
  <2>3. ASSUME NEW r \in Readers
        PROVE  up[r] \in Seq(KeySets) /\ \A i \in DOMAIN down[r] : IsPacket(down[r][i])
    <3>1. up[r] \in Seq(KeySets) /\ down[r] \in Seq(PacketSet)
      BY <2>0
    <3>2. \A i \in DOMAIN down[r] : down[r][i] \in PacketSet
      BY <3>1, ElementType
    <3> QED
      BY <3>1, <3>2, PacketIsPacket
  <2>4. \A i \in DOMAIN delayed :
          delayed[i].replica \in Readers /\ delayed[i].keys \in KeySets
    <3>1. \A i \in DOMAIN delayed : delayed[i] \in [replica : Readers, keys : KeySets]
      BY <2>0, ElementType
    <3> QED
      BY <3>1
  <2> QED
    BY <2>1, <2>2, <2>3, <2>4
       DEF TypeOK, Bookkeeping, MidTypes, ReaderTypes, ChannelTypes
<1> QED
  BY <1>1, BookkeepingInvariant, PTL

\* The two maps of a domain's Waiting always describe the same pairs: no redo
\* is forgotten, none runs while one of its holes is open, and the assertions
\* at the end of handle_replay never fire.
THEOREM WaitingStaysConsistent == Spec => []WaitingConsistent
<1>1. Bookkeeping => WaitingConsistent
  BY DEF Bookkeeping, WaitingConsistent
<1> QED
  BY <1>1, BookkeepingInvariant, PTL
=============================================================================
