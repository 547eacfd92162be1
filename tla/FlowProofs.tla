------------------------------ MODULE FlowProofs ------------------------------
(***************************************************************************)
(* Proofs about Upqueries under a hash index, for any number of keys,      *)
(* replicas and readers and without bounds on writes, evictions and        *)
(* requests: mid holds the rows of the base table but for the ones on      *)
(* their way, a reader holds those of mid, and no hole is backfilled twice *)
(* at a time.  Both rest on one fact about a FIFO channel of writes,       *)
(* evictions and replays, Flow, which every operation on such a channel    *)
(* keeps.                                                                  *)
(***************************************************************************)
EXTENDS UpqueriesProofs

\* Zenon proves the leaves that do not name the SMT solver.
USE ZenonT(30)

(* What a channel owes to the state behind it.                              *)

\* The rows of key k among the packets of a channel behind the first i.
After(ch, i, k) ==
  {j \in DOMAIN ch : j > i /\ ch[j].type = "Message" /\ ch[j].key = k}

\* An eviction of key k is among the packets behind the first i.
EvictedAfter(ch, i, k) ==
  \E j \in DOMAIN ch : j > i /\ ch[j].type = "EvictKeys" /\ k \in ch[j].keys

\* Whoever holds n rows of key k once it has handled the first i packets of the
\* channel will hold all of the source's, or will have to forget the key.
Follows(ch, i, k, n, source, open) ==
  \/ EvictedAfter(ch, i, k)
  \/ /\ source[k] # Hole
     /\ k \in open
     /\ n + Cardinality(After(ch, i, k)) = source[k]

\* `state' is at the end of a channel from `source', which lets the rows of the
\* keys in `open' pass: every filled key of the state, and every key of a replay
\* on its way, follows the source.
Flow(ch, state, source, open) ==
  /\ \A k \in Keys : state[k] # Hole => Follows(ch, 0, k, state[k], source, open)
  /\ \A i \in DOMAIN ch : ch[i].type = "ReplayPiece" =>
       \A k \in UNION ch[i].for_keys : Follows(ch, i, k, ch[i].data[k], source, open)

-----------------------------------------------------------------------------
(* Counting packets.                                                        *)

\* The rows in a channel are finitely many.
LEMMA AfterFinite ==
  ASSUME NEW ch \in Seq(PacketSet), NEW i, NEW k
  PROVE  IsFiniteSet(After(ch, i, k)) /\ Cardinality(After(ch, i, k)) \in Nat
<1>1. Len(ch) \in Int /\ 1 \in Int /\ DOMAIN ch = 1..Len(ch)
  BY SMTT(30)
<1>2. IsFiniteSet(1..Len(ch))
  BY <1>1, FS_Interval
<1>3. After(ch, i, k) \subseteq 1..Len(ch)
  BY <1>1 DEF After
<1>4. IsFiniteSet(After(ch, i, k))
  BY <1>2, <1>3, FS_Subset
<1> QED
  BY <1>4, FS_CardinalityType

\* A row sent is one more behind every position.
LEMMA AfterSend ==
  ASSUME NEW ch \in Seq(PacketSet), NEW p \in PacketSet, NEW i \in 0..Len(ch), NEW k
  PROVE  /\ ~(p.type = "Message" /\ p.key = k) => After(Append(ch, p), i, k) = After(ch, i, k)
         /\ p.type = "Message" /\ p.key = k =>
              Cardinality(After(Append(ch, p), i, k)) = Cardinality(After(ch, i, k)) + 1
<1> DEFINE new == Append(ch, p)
<1>1. /\ DOMAIN new = 1..(Len(ch) + 1) /\ DOMAIN ch = 1..Len(ch) /\ Len(ch) \in Nat
      /\ new[Len(ch) + 1] = p
      /\ \A j \in 1..Len(ch) : new[j] = ch[j]
  BY SMTT(30)
<1> HIDE DEF new
<1>2. ASSUME ~(p.type = "Message" /\ p.key = k)
      PROVE  After(new, i, k) = After(ch, i, k)
  BY <1>1, <1>2, SMTT(30) DEF After
<1>3. ASSUME p.type = "Message", p.key = k
      PROVE  Cardinality(After(new, i, k)) = Cardinality(After(ch, i, k)) + 1
  <2>1. After(new, i, k) = After(ch, i, k) \cup {Len(ch) + 1}
    BY <1>1, <1>3, SMTT(30) DEF After
  <2>2. Len(ch) + 1 \notin After(ch, i, k)
    BY <1>1, SMTT(30) DEF After
  <2> QED
    BY <2>1, <2>2, AfterFinite, FS_AddElement
<1> QED
  BY <1>2, <1>3 DEF new

\* Taking the first packet moves every position by one.
LEMMA AfterReceive ==
  ASSUME NEW ch \in Seq(PacketSet), ch # <<>>, NEW i \in 0..(Len(ch) - 1), NEW k
  PROVE  Cardinality(After(Tail(ch), i, k)) = Cardinality(After(ch, i + 1, k))
<1> DEFINE T == Tail(ch)
           f == [j \in After(T, i, k) |-> j + 1]
<1>1. /\ Len(ch) \in Nat /\ Len(ch) > 0
      /\ DOMAIN T = 1..(Len(ch) - 1) /\ DOMAIN ch = 1..Len(ch)
      /\ T \in Seq(PacketSet)
      /\ \A j \in 1..(Len(ch) - 1) : T[j] = ch[j + 1]
  BY SMTT(30)
<1> HIDE DEF T
<1>2. \A j \in After(T, i, k) : j \in Nat /\ j + 1 \in After(ch, i + 1, k)
  BY <1>1, SMTT(30) DEF After
<1>3. \A j \in After(ch, i + 1, k) : j - 1 \in After(T, i, k) /\ j = (j - 1) + 1
  BY <1>1, SMTT(30) DEF After
<1>4. f \in Bijection(After(T, i, k), After(ch, i + 1, k))
  <2>1. f \in [After(T, i, k) -> After(ch, i + 1, k)]
    BY <1>2
  <2>2. IsInjective(f)
    BY <1>2, SMTT(30) DEF IsInjective
  <2>3. \A b \in After(ch, i + 1, k) : \E a \in After(T, i, k) : f[a] = b
    BY <1>3
  <2> QED
    BY <2>1, <2>2, <2>3 DEF Bijection, Injection, Surjection
<1>5. IsFiniteSet(After(T, i, k))
  BY <1>1, AfterFinite
<1>6. ExistsBijection(After(T, i, k), After(ch, i + 1, k))
  BY <1>4 DEF ExistsBijection
<1> QED
  BY <1>5, <1>6, FS_Bijection DEF T

\* The rows behind no packet are those behind the first and the first.
LEMMA AfterFirst ==
  ASSUME NEW ch \in Seq(PacketSet), ch # <<>>, NEW k
  PROVE  /\ ~(Head(ch).type = "Message" /\ Head(ch).key = k) =>
              After(ch, 0, k) = After(ch, 1, k)
         /\ Head(ch).type = "Message" /\ Head(ch).key = k =>
              Cardinality(After(ch, 0, k)) = Cardinality(After(ch, 1, k)) + 1
<1>1. Len(ch) \in Nat /\ Len(ch) > 0 /\ DOMAIN ch = 1..Len(ch) /\ Head(ch) = ch[1]
  BY SMTT(30)
<1>2. ASSUME ~(Head(ch).type = "Message" /\ Head(ch).key = k)
      PROVE  After(ch, 0, k) = After(ch, 1, k)
  BY <1>1, <1>2, SMTT(30) DEF After
<1>3. ASSUME Head(ch).type = "Message", Head(ch).key = k
      PROVE  Cardinality(After(ch, 0, k)) = Cardinality(After(ch, 1, k)) + 1
  <2>1. After(ch, 0, k) = After(ch, 1, k) \cup {1}
    BY <1>1, <1>3, SMTT(30) DEF After
  <2>2. 1 \notin After(ch, 1, k)
    BY SMTT(30) DEF After
  <2> QED
    BY <2>1, <2>2, AfterFinite, FS_AddElement
<1> QED
  BY <1>2, <1>3

\* An eviction is behind a position of a channel.
LEMMA EvictedSend ==
  ASSUME NEW ch \in Seq(PacketSet), NEW p \in PacketSet, NEW i \in 0..Len(ch), NEW k
  PROVE  EvictedAfter(Append(ch, p), i, k)
           <=> EvictedAfter(ch, i, k) \/ (p.type = "EvictKeys" /\ k \in p.keys)
<1> DEFINE new == Append(ch, p)
<1>1. /\ DOMAIN new = 1..(Len(ch) + 1) /\ DOMAIN ch = 1..Len(ch) /\ Len(ch) \in Nat
      /\ new[Len(ch) + 1] = p
      /\ \A j \in 1..Len(ch) : new[j] = ch[j]
  BY SMTT(30)
<1> HIDE DEF new
<1>2. EvictedAfter(new, i, k)
        => EvictedAfter(ch, i, k) \/ (p.type = "EvictKeys" /\ k \in p.keys)
  BY <1>1, SMTT(30) DEF EvictedAfter
<1>3. EvictedAfter(ch, i, k) => EvictedAfter(new, i, k)
  BY <1>1, SMTT(30) DEF EvictedAfter
<1>4. p.type = "EvictKeys" /\ k \in p.keys => EvictedAfter(new, i, k)
  BY <1>1, SMTT(30) DEF EvictedAfter
<1> QED
  BY <1>2, <1>3, <1>4 DEF new

LEMMA EvictedReceive ==
  ASSUME NEW ch \in Seq(PacketSet), ch # <<>>, NEW i \in 0..(Len(ch) - 1), NEW k
  PROVE  EvictedAfter(ch, i + 1, k) => EvictedAfter(Tail(ch), i, k)
<1> DEFINE T == Tail(ch)
<1>1. /\ Len(ch) \in Nat /\ Len(ch) > 0
      /\ DOMAIN T = 1..(Len(ch) - 1) /\ DOMAIN ch = 1..Len(ch)
      /\ \A j \in 1..(Len(ch) - 1) : T[j] = ch[j + 1]
  BY SMTT(30)
<1> HIDE DEF T
<1> SUFFICES ASSUME EvictedAfter(ch, i + 1, k) PROVE EvictedAfter(T, i, k)
  BY DEF T
<1>2. PICK j \in DOMAIN ch : j > i + 1 /\ ch[j].type = "EvictKeys" /\ k \in ch[j].keys
  BY DEF EvictedAfter
<1>3. j - 1 \in DOMAIN T /\ j - 1 > i /\ T[j - 1] = ch[j]
  BY <1>1, <1>2, SMTT(30)
<1> QED
  BY <1>2, <1>3 DEF EvictedAfter

LEMMA EvictedFirst ==
  ASSUME NEW ch \in Seq(PacketSet), ch # <<>>, NEW k, EvictedAfter(ch, 0, k),
         ~(Head(ch).type = "EvictKeys" /\ k \in Head(ch).keys)
  PROVE  EvictedAfter(ch, 1, k)
<1>1. Len(ch) \in Nat /\ Len(ch) > 0 /\ DOMAIN ch = 1..Len(ch) /\ Head(ch) = ch[1]
  BY SMTT(30)
<1> QED
  BY <1>1, SMTT(30) DEF EvictedAfter

-----------------------------------------------------------------------------
(* Following the source through one step.                                   *)

\* A packet that does not concern the key changes nothing for it.
LEMMA FollowsSend ==
  ASSUME NEW ch \in Seq(PacketSet), NEW p \in PacketSet, NEW i \in 0..Len(ch),
         NEW k, NEW n, NEW source, NEW open, NEW new_source, NEW new_open,
         Follows(ch, i, k, n, source, open),
         ~(p.type = "Message" /\ p.key = k),
         source[k] # Hole /\ k \in open =>
           \/ p.type = "EvictKeys" /\ k \in p.keys
           \/ new_source[k] = source[k] /\ k \in new_open
  PROVE  Follows(Append(ch, p), i, k, n, new_source, new_open)
<1>1. EvictedAfter(ch, i, k) \/ (p.type = "EvictKeys" /\ k \in p.keys)
        => EvictedAfter(Append(ch, p), i, k)
  BY EvictedSend
<1>2. After(Append(ch, p), i, k) = After(ch, i, k)
  BY AfterSend
<1> QED
  BY <1>1, <1>2 DEF Follows

\* The row of a key is forwarded.
LEMMA FollowsRow ==
  ASSUME NEW ch \in Seq(PacketSet), NEW i \in 0..Len(ch),
         NEW k \in Keys, NEW n \in Nat, NEW source, NEW open, NEW new_source,
         Follows(ch, i, k, n, source, open),
         source[k] # Hole => new_source[k] # Hole /\ new_source[k] = source[k] + 1
  PROVE  Follows(Append(ch, Message(k)), i, k, n, new_source, open)
<1>1. Message(k) \in PacketSet /\ Message(k).type = "Message" /\ Message(k).key = k
  BY OtherPacketsType DEF Message
<1>2. EvictedAfter(ch, i, k) => EvictedAfter(Append(ch, Message(k)), i, k)
  BY <1>1, EvictedSend
<1>3. Cardinality(After(Append(ch, Message(k)), i, k)) = Cardinality(After(ch, i, k)) + 1
  BY <1>1, AfterSend
<1>4. Cardinality(After(ch, i, k)) \in Nat
  BY AfterFinite
<1> QED
  BY <1>2, <1>3, <1>4, SMTT(30) DEF Follows

\* The source changed without a packet.
LEMMA FollowsSource ==
  ASSUME NEW ch, NEW i, NEW k, NEW n, NEW source, NEW open, NEW new_source, NEW new_open,
         Follows(ch, i, k, n, source, open),
         source[k] # Hole /\ k \in open => new_source[k] = source[k] /\ k \in new_open
  PROVE  Follows(ch, i, k, n, new_source, new_open)
BY DEF Follows

\* The first packet is taken: what held behind it holds of what is left.
LEMMA FollowsReceive ==
  ASSUME NEW ch \in Seq(PacketSet), ch # <<>>, NEW i \in 0..(Len(ch) - 1),
         NEW k, NEW n, NEW source, NEW open,
         Follows(ch, i + 1, k, n, source, open)
  PROVE  Follows(Tail(ch), i, k, n, source, open)
BY AfterReceive, EvictedReceive DEF Follows

\* The first packet does not concern the key.
LEMMA FollowsSkip ==
  ASSUME NEW ch \in Seq(PacketSet), ch # <<>>, NEW k, NEW n, NEW source, NEW open,
         Follows(ch, 0, k, n, source, open),
         ~(Head(ch).type = "EvictKeys" /\ k \in Head(ch).keys),
         ~(Head(ch).type = "Message" /\ Head(ch).key = k)
  PROVE  Follows(ch, 1, k, n, source, open)
<1>1. EvictedAfter(ch, 0, k) => EvictedAfter(ch, 1, k)
  BY EvictedFirst
<1>2. After(ch, 0, k) = After(ch, 1, k)
  BY AfterFirst
<1> QED
  BY <1>1, <1>2 DEF Follows

\* The first packet is a row of the key.
LEMMA FollowsApply ==
  ASSUME NEW ch \in Seq(PacketSet), ch # <<>>, NEW k, NEW n \in Nat, NEW source, NEW open,
         Follows(ch, 0, k, n, source, open),
         Head(ch).type = "Message", Head(ch).key = k
  PROVE  Follows(ch, 1, k, n + 1, source, open)
<1>1. EvictedAfter(ch, 0, k) => EvictedAfter(ch, 1, k)
  BY EvictedFirst
<1>2. Cardinality(After(ch, 0, k)) = Cardinality(After(ch, 1, k)) + 1
  BY AfterFirst
<1>3. Cardinality(After(ch, 1, k)) \in Nat
  BY AfterFinite
<1> QED
  BY <1>1, <1>2, <1>3, SMTT(30) DEF Follows

-----------------------------------------------------------------------------
(* The flow through a channel, step by step.                                *)

\* The keys of a replay.
LEMMA PieceFields ==
  ASSUME NEW ch \in Seq(PacketSet), NEW i \in DOMAIN ch, ch[i].type = "ReplayPiece",
         NEW k \in UNION ch[i].for_keys
  PROVE  k \in Keys /\ ch[i].data[k] \in Nat
<1>1. ch[i] \in PacketSet
  BY ElementType
<1>2. ch[i].for_keys \in KeySets /\ ch[i].data \in [UNION ch[i].for_keys -> Nat]
  BY <1>1, PacketFields
<1> QED
  BY <1>2 DEF KeySets

\* An eviction or a replay is sent.
LEMMA FlowSend ==
  ASSUME NEW ch \in Seq(PacketSet), NEW p \in PacketSet, p.type # "Message",
         NEW state, NEW source, NEW open, NEW new_source, NEW new_open,
         Flow(ch, state, source, open),
         \A k \in Keys : source[k] # Hole /\ k \in open =>
           \/ p.type = "EvictKeys" /\ k \in p.keys
           \/ new_source[k] = source[k] /\ k \in new_open,
         p.type = "ReplayPiece" =>
           \A k \in UNION p.for_keys :
             /\ new_source[k] # Hole /\ k \in new_open
             /\ p.data[k] = new_source[k] /\ p.data[k] \in Nat
  PROVE  Flow(Append(ch, p), state, new_source, new_open)
<1> DEFINE new == Append(ch, p)
<1>1. /\ DOMAIN new = 1..(Len(ch) + 1) /\ DOMAIN ch = 1..Len(ch) /\ Len(ch) \in Nat
      /\ new[Len(ch) + 1] = p /\ new \in Seq(PacketSet)
      /\ \A j \in 1..Len(ch) : new[j] = ch[j]
  BY SMTT(30)
<1>2. ASSUME NEW i \in 0..Len(ch), NEW k \in Keys, NEW n,
             Follows(ch, i, k, n, source, open)
      PROVE  Follows(new, i, k, n, new_source, new_open)
  BY <1>2, FollowsSend
<1> HIDE DEF new
<1>3. ASSUME NEW k \in Keys, state[k] # Hole
      PROVE  Follows(new, 0, k, state[k], new_source, new_open)
  <2>1. Follows(ch, 0, k, state[k], source, open) /\ 0 \in 0..Len(ch)
    BY <1>1, <1>3, SMTT(30) DEF Flow
  <2> QED
    BY <2>1, <1>2
<1>4. ASSUME NEW i \in DOMAIN new, new[i].type = "ReplayPiece",
             NEW k \in UNION new[i].for_keys
      PROVE  Follows(new, i, k, new[i].data[k], new_source, new_open)
  <2>1. CASE i \in 1..Len(ch)
    <3>1. i \in DOMAIN ch /\ new[i] = ch[i] /\ i \in 0..Len(ch)
      BY <1>1, <2>1, SMTT(30)
    <3>2. Follows(ch, i, k, ch[i].data[k], source, open)
      BY <1>4, <3>1 DEF Flow
    <3>3. k \in Keys
      BY <1>4, <3>1, PieceFields
    <3> QED
      BY <1>2, <3>1, <3>2, <3>3
  <2>2. CASE i = Len(ch) + 1
    <3>1. new[i] = p /\ p.type = "ReplayPiece" /\ k \in UNION p.for_keys
      BY <1>1, <1>4, <2>2
    <3>2. After(new, i, k) = {}
      BY <1>1, <2>2, SMTT(30) DEF After
    <3>3. Cardinality(After(new, i, k)) = 0
      BY <3>2, FS_EmptySet
    <3> QED
      BY <3>1, <3>3, SMTT(30) DEF Follows
  <2> QED
    BY <1>1, <2>1, <2>2, SMTT(30)
<1> QED
  BY <1>3, <1>4 DEF Flow, new

\* A row is applied to the source and forwarded.
LEMMA FlowRow ==
  ASSUME NEW ch \in Seq(PacketSet), NEW state \in Counts, NEW source, NEW open,
         NEW new_source, NEW k \in Keys,
         Flow(ch, state, source, open),
         source[k] # Hole => new_source[k] # Hole /\ new_source[k] = source[k] + 1,
         \A l \in Keys \ {k} : new_source[l] = source[l]
  PROVE  Flow(Append(ch, Message(k)), state, new_source, open)
<1> DEFINE p == Message(k)
           new == Append(ch, p)
<1>0. p \in PacketSet /\ p.type = "Message" /\ p.key = k
  BY OtherPacketsType DEF Message
<1>2. ASSUME NEW i \in 0..Len(ch), NEW l \in Keys, NEW n \in Nat,
             Follows(ch, i, l, n, source, open)
      PROVE  Follows(new, i, l, n, new_source, open)
  <2>1. CASE l = k
    BY <1>2, <2>1, FollowsRow
  <2>2. CASE l # k
    <3>1. new_source[l] = source[l]
      BY <2>2
    <3> HIDE DEF p
    <3> QED
      BY <1>0, <1>2, <2>2, <3>1, FollowsSend
  <2> QED
    BY <2>1, <2>2
<1> HIDE DEF p
<1>1. /\ DOMAIN new = 1..(Len(ch) + 1) /\ DOMAIN ch = 1..Len(ch) /\ Len(ch) \in Nat
      /\ new[Len(ch) + 1] = p
      /\ \A j \in 1..Len(ch) : new[j] = ch[j]
  BY <1>0, SMTT(30)
<1> HIDE DEF new
<1>3. ASSUME NEW l \in Keys, state[l] # Hole
      PROVE  Follows(new, 0, l, state[l], new_source, open)
  <2>1. Follows(ch, 0, l, state[l], source, open) /\ 0 \in 0..Len(ch) /\ state[l] \in Nat
    BY <1>1, <1>3, SMTT(30) DEF Flow, Counts
  <2> QED
    BY <2>1, <1>2
<1>4. ASSUME NEW i \in DOMAIN new, new[i].type = "ReplayPiece",
             NEW l \in UNION new[i].for_keys
      PROVE  Follows(new, i, l, new[i].data[l], new_source, open)
  <2>1. i # Len(ch) + 1
    BY <1>0, <1>1, <1>4
  <2>2. i \in DOMAIN ch /\ new[i] = ch[i] /\ i \in 0..Len(ch)
    BY <1>1, <2>1, SMTT(30)
  <2>3. Follows(ch, i, l, ch[i].data[l], source, open)
    BY <1>4, <2>2 DEF Flow
  <2>4. l \in Keys /\ ch[i].data[l] \in Nat
    BY <1>4, <2>2, PieceFields
  <2> QED
    BY <1>2, <2>2, <2>3, <2>4
<1> QED
  BY <1>3, <1>4 DEF Flow, new, p

\* The source changes, and nothing is sent.
LEMMA FlowSource ==
  ASSUME NEW ch \in Seq(PacketSet), NEW state, NEW source, NEW open,
         NEW new_source, NEW new_open,
         Flow(ch, state, source, open),
         \A k \in Keys : source[k] # Hole /\ k \in open =>
           new_source[k] = source[k] /\ k \in new_open
  PROVE  Flow(ch, state, new_source, new_open)
<1>1. \A i \in DOMAIN ch : ch[i].type = "ReplayPiece" => UNION ch[i].for_keys \subseteq Keys
  BY PieceFields
<1> QED
  BY <1>1, FollowsSource DEF Flow

\* The first packet is handled.
LEMMA FlowReceive ==
  ASSUME NEW ch \in Seq(PacketSet), ch # <<>>, NEW state, NEW source, NEW open,
         NEW new_state,
         Flow(ch, state, source, open),
         \A k \in Keys : new_state[k] # Hole =>
           Follows(ch, 1, k, new_state[k], source, open)
  PROVE  Flow(Tail(ch), new_state, source, open)
<1> DEFINE T == Tail(ch)
<1>1. /\ Len(ch) \in Nat /\ Len(ch) > 0
      /\ DOMAIN T = 1..(Len(ch) - 1) /\ DOMAIN ch = 1..Len(ch)
      /\ \A j \in 1..(Len(ch) - 1) : T[j] = ch[j + 1]
  BY SMTT(30)
<1>2. ASSUME NEW i \in 0..(Len(ch) - 1), NEW k, NEW n,
             Follows(ch, i + 1, k, n, source, open)
      PROVE  Follows(T, i, k, n, source, open)
  BY <1>2, FollowsReceive
<1> HIDE DEF T
<1>3. ASSUME NEW k \in Keys, new_state[k] # Hole
      PROVE  Follows(T, 0, k, new_state[k], source, open)
  <2>1. 0 \in 0..(Len(ch) - 1) /\ 0 + 1 = 1
    BY <1>1, SMTT(30)
  <2> QED
    BY <1>2, <1>3, <2>1
<1>4. ASSUME NEW i \in DOMAIN T, T[i].type = "ReplayPiece", NEW k \in UNION T[i].for_keys
      PROVE  Follows(T, i, k, T[i].data[k], source, open)
  <2>1. i + 1 \in DOMAIN ch /\ T[i] = ch[i + 1] /\ i \in 0..(Len(ch) - 1)
    BY <1>1, SMTT(30)
  <2>2. Follows(ch, i + 1, k, ch[i + 1].data[k], source, open)
    BY <1>4, <2>1 DEF Flow
  <2> QED
    BY <1>2, <2>1, <2>2
<1> QED
  BY <1>3, <1>4 DEF Flow, T

\* Keys are evicted from the state.
LEMMA FlowForget ==
  ASSUME NEW ch, NEW state, NEW source, NEW open, NEW new_state,
         Flow(ch, state, source, open),
         \A k \in Keys : new_state[k] \in {state[k], Hole}
  PROVE  Flow(ch, new_state, source, open)
BY DEF Flow

\* A row arrives: it is applied to a filled key, and dropped by a hole.
LEMMA FlowTakesRow ==
  ASSUME NEW ch \in Seq(PacketSet), ch # <<>>, NEW state \in Counts, NEW source, NEW open,
         Flow(ch, state, source, open), Head(ch).type = "Message",
         NEW new_state,
         \A l \in Keys : l # Head(ch).key => new_state[l] = state[l],
         state[Head(ch).key] = Hole => new_state[Head(ch).key] = Hole,
         state[Head(ch).key] # Hole => new_state[Head(ch).key] = state[Head(ch).key] + 1
  PROVE  Flow(Tail(ch), new_state, source, open)
<1>1. ASSUME NEW k \in Keys, new_state[k] # Hole
      PROVE  Follows(ch, 1, k, new_state[k], source, open)
  <2>1. CASE k = Head(ch).key
    <3>1. state[k] # Hole /\ new_state[k] = state[k] + 1
      BY <1>1, <2>1
    <3>2. state[k] \in Nat
      BY <3>1 DEF Counts
    <3>3. Follows(ch, 0, k, state[k], source, open)
      BY <3>1 DEF Flow
    <3> QED
      BY <2>1, <3>1, <3>2, <3>3, FollowsApply
  <2>2. CASE k # Head(ch).key
    <3>1. new_state[k] = state[k]
      BY <2>2
    <3>2. Follows(ch, 0, k, state[k], source, open)
      BY <1>1, <3>1 DEF Flow
    <3>3. Head(ch).type # "EvictKeys"
      OBVIOUS
    <3> QED
      BY <2>2, <3>1, <3>2, <3>3, FollowsSkip
  <2> QED
    BY <2>1, <2>2
<1> QED
  BY <1>1, FlowReceive

\* A replay arrives: whatever it fills is filled with its rows.
LEMMA FlowTakesPiece ==
  ASSUME NEW ch \in Seq(PacketSet), ch # <<>>, NEW state \in Counts, NEW source, NEW open,
         Flow(ch, state, source, open), Head(ch).type = "ReplayPiece",
         NEW new_state,
         \A k \in Keys :
           \/ new_state[k] = state[k]
           \/ k \in UNION Head(ch).for_keys /\ new_state[k] = Head(ch).data[k]
  PROVE  Flow(Tail(ch), new_state, source, open)
<1>0. 1 \in DOMAIN ch /\ ch[1] = Head(ch)
  BY SMTT(30)
<1>1. ASSUME NEW k \in Keys, new_state[k] # Hole
      PROVE  Follows(ch, 1, k, new_state[k], source, open)
  <2>1. CASE new_state[k] = state[k]
    <3>1. Follows(ch, 0, k, state[k], source, open)
      BY <1>1, <2>1 DEF Flow
    <3>2. Head(ch).type # "EvictKeys" /\ Head(ch).type # "Message"
      OBVIOUS
    <3> QED
      BY <2>1, <3>1, <3>2, FollowsSkip
  <2>2. CASE k \in UNION Head(ch).for_keys /\ new_state[k] = Head(ch).data[k]
    BY <1>0, <2>2 DEF Flow
  <2> QED
    BY <2>1, <2>2
<1> QED
  BY <1>1, FlowReceive

\* An eviction arrives.
LEMMA FlowTakesEviction ==
  ASSUME NEW ch \in Seq(PacketSet), ch # <<>>, NEW state \in Counts, NEW source, NEW open,
         Flow(ch, state, source, open), Head(ch).type = "EvictKeys",
         NEW new_state,
         \A k \in Keys : new_state[k] = IF k \in Head(ch).keys THEN Hole ELSE state[k]
  PROVE  Flow(Tail(ch), new_state, source, open)
<1>1. ASSUME NEW k \in Keys, new_state[k] # Hole
      PROVE  Follows(ch, 1, k, new_state[k], source, open)
  <2>1. new_state[k] = state[k] /\ k \notin Head(ch).keys
    BY <1>1
  <2>2. Follows(ch, 0, k, state[k], source, open)
    BY <1>1, <2>1 DEF Flow
  <2>3. Head(ch).type # "Message"
    OBVIOUS
  <2> QED
    BY <2>1, <2>2, <2>3, FollowsSkip
<1> QED
  BY <1>1, FlowReceive

\* Pruning a replay keeps the rows of the keys that stay and no others.
LEMMA RetainedExact ==
  ASSUME NEW F \in KeySets, NEW G \in SUBSET F, NEW d \in [UNION F -> Nat], NEW k
  PROVE  Data(Retained(d, F, G), k) = IF k \in UNION G THEN d[k] ELSE 0
<1>1. IsFiniteSet(F)
  BY FiniteKeySets, FS_Subset DEF KeySets
<1>2. CASE Cardinality(F) = Cardinality(G)
  <2>1. F = G
    BY <1>1, <1>2, FS_Subset
  <2> QED
    BY <1>2, <2>1 DEF Data, Retained
<1>3. CASE Cardinality(F) # Cardinality(G)
  <2>1. UNION G \subseteq UNION F
    OBVIOUS
  <2> QED
    BY <1>3, <2>1 DEF Data, Retained
<1> QED
  BY <1>2, <1>3

-----------------------------------------------------------------------------
(* Under a hash index every KeyComparison is a point.                       *)

Singletons == {{k} : k \in Keys}

PointRedos == {d \in RedoSet : d.replay_key \in Singletons}
PointRequests == [replica : Readers, keys : SUBSET Singletons]

PiecesOfPoints(ch) ==
  \A i \in DOMAIN ch : ch[i].type = "ReplayPiece" => ch[i].for_keys \subseteq Singletons

PointKeys ==
  /\ DOMAIN waiting.redos \subseteq Singletons
  /\ DOMAIN waiting.holes \subseteq PointRedos
  /\ delayed \in Seq(PointRequests)
  /\ allow \in [Nodes -> SUBSET Singletons]
  /\ up \in [Readers -> Seq(SUBSET Singletons)]
  /\ \A r \in Readers : PiecesOfPoints(down[r])

\* A hash index knows points only.
LEMMA RunsOfPoints ==
  ASSUME ~Ordered, NEW S \in SUBSET Keys PROVE Runs(S) = {{k} : k \in S}
BY DEF Runs

\* A point is a set of keys.
LEMMA PointsAreKeySets == SUBSET Singletons \subseteq KeySets
BY DEF Singletons, KeySets

LEMMA PiecesSend ==
  ASSUME NEW ch \in Seq(PacketSet), NEW p \in PacketSet, PiecesOfPoints(ch),
         p.type = "ReplayPiece" => p.for_keys \subseteq Singletons
  PROVE  PiecesOfPoints(Append(ch, p))
<1>1. /\ DOMAIN Append(ch, p) = 1..(Len(ch) + 1) /\ DOMAIN ch = 1..Len(ch)
      /\ Append(ch, p)[Len(ch) + 1] = p /\ Len(ch) \in Nat
      /\ \A j \in 1..Len(ch) : Append(ch, p)[j] = ch[j]
  BY SMTT(30)
<1> QED
  BY <1>1, SMTT(30) DEF PiecesOfPoints

LEMMA PiecesReceive ==
  ASSUME NEW ch \in Seq(PacketSet), ch # <<>>, PiecesOfPoints(ch)
  PROVE  PiecesOfPoints(Tail(ch))
<1>1. /\ DOMAIN Tail(ch) = 1..(Len(ch) - 1) /\ DOMAIN ch = 1..Len(ch) /\ Len(ch) \in Nat
      /\ \A j \in 1..(Len(ch) - 1) : Tail(ch)[j] = ch[j + 1]
  BY SMTT(30)
<1> QED
  BY <1>1, SMTT(30) DEF PiecesOfPoints

\* seed_all misses in points, for redos of points.
LEMMA MissesOfPoints ==
  ASSUME ~Ordered, NEW r \in Readers, NEW keys \in SUBSET Singletons, NEW T
  PROVE  /\ HolesIn(Misses(r, keys, T)) \subseteq Singletons
         /\ RedosIn(Misses(r, keys, T)) \subseteq PointRedos
<1> DEFINE missed == Misses(r, keys, T)
<1>1. ASSUME NEW p \in missed PROVE p[1] \in Singletons /\ p[2] \in PointRedos
  <2>1. PICK K \in keys : p \in {<<h, Redo(r, K)>> : h \in Runs(K \ T)}
    BY <1>1 DEF Misses
  <2>2. PICK h \in Runs(K \ T) : p = <<h, Redo(r, K)>>
    BY <2>1
  <2>3. K \in Singletons /\ K \in SUBSET Keys /\ K \ T \in SUBSET Keys
    BY DEF Singletons
  <2>4. h \in Singletons
    BY <2>3, RunsOfPoints, SMTT(30) DEF Singletons
  <2> QED
    BY <2>2, <2>3, <2>4 DEF Redo, RedoSet, PointRedos
<1> QED
  BY <1>1 DEF HolesIn, RedosIn

\* seed_all keeps to points.
LEMMA SeedAllOfPoints ==
  ASSUME ~Ordered, Bookkeeping, PointKeys, NEW r \in Readers,
         NEW keys \in SUBSET Singletons, seed_all(r, keys)
  PROVE  /\ DOMAIN waiting'.redos \subseteq Singletons
         /\ DOMAIN waiting'.holes \subseteq PointRedos
         /\ allow' \in [Nodes -> SUBSET Singletons]
         /\ \A s \in Readers : PiecesOfPoints(down'[s])
<1> DEFINE found  == {K \in keys : K \subseteq Filled(mid)}
           missed == Misses(r, keys \ found, Filled(mid))
<1>1. /\ waiting' = IF missed = {} THEN waiting ELSE on_replay_misses(waiting, missed)
      /\ down' = IF found = {} THEN down
                 ELSE [down EXCEPT ![r] = Append(@, ReplayPiece(found, mid))]
      /\ allow' = IF found = {} THEN allow ELSE Allow(r, found)
  BY DEF seed_all, Misses
<1>2. found \in SUBSET Singletons /\ keys \ found \in SUBSET Singletons
  OBVIOUS
<1>3. HolesIn(missed) \subseteq Singletons /\ RedosIn(missed) \subseteq PointRedos
  BY <1>2, MissesOfPoints
<1> HIDE DEF found, missed
<1>4. DOMAIN waiting'.redos \subseteq Singletons /\ DOMAIN waiting'.holes \subseteq PointRedos
  <2>1. CASE missed = {}
    BY <1>1, <2>1 DEF PointKeys
  <2>2. CASE missed # {}
    <3>1. /\ waiting'.redos = on_replay_misses(waiting, missed).redos
          /\ waiting'.holes = on_replay_misses(waiting, missed).holes
      BY <1>1, <2>2
    <3>2. /\ DOMAIN waiting'.redos = DOMAIN waiting.redos \cup HolesIn(missed)
          /\ DOMAIN waiting'.holes = DOMAIN waiting.holes \cup RedosIn(missed)
      BY <3>1 DEF on_replay_misses
    <3> QED
      BY <1>3, <3>2 DEF PointKeys
  <2> QED
    BY <2>1, <2>2
<1>5. allow' \in [Nodes -> SUBSET Singletons]
  BY <1>1, <1>2 DEF Allow, PointKeys, Nodes
<1>6. ASSUME NEW s \in Readers PROVE PiecesOfPoints(down'[s])
  <2> DEFINE p == ReplayPiece(found, mid)
  <2>1. found \in KeySets /\ mid \in Counts
    BY <1>2, PointsAreKeySets DEF Bookkeeping, MidTypes
  <2>2. p \in PacketSet
    BY <2>1, ReplayPieceType
  <2>3. p.for_keys = found
    BY DEF ReplayPiece
  <2> HIDE DEF p
  <2>4. down \in [Readers -> Seq(PacketSet)] /\ PiecesOfPoints(down[s])
    BY DEF Bookkeeping, ChannelTypes, PointKeys
  <2>5. down[s] \in Seq(PacketSet)
    BY <2>4
  <2>6. PiecesOfPoints(Append(down[s], p))
    BY <1>2, <2>2, <2>3, <2>4, <2>5, PiecesSend
  <2>7. down'[s] \in {down[s], Append(down[s], p)}
    BY <1>1, <2>4 DEF p
  <2> QED
    BY <2>4, <2>6, <2>7
<1> QED
  BY <1>4, <1>5, <1>6

\* A packet sent to some of the readers.
LEMMA PiecesSendTo ==
  ASSUME Bookkeeping, PointKeys, NEW p \in PacketSet, p.type # "ReplayPiece",
         NEW s \in Readers, down'[s] \in {down[s], Append(down[s], p)}
  PROVE  PiecesOfPoints(down'[s])
<1>1. down[s] \in Seq(PacketSet) /\ PiecesOfPoints(down[s])
  BY DEF Bookkeeping, ChannelTypes, PointKeys
<1>2. PiecesOfPoints(Append(down[s], p))
  BY <1>1, PiecesSend
<1> QED
  BY <1>1, <1>2

\* A reader takes its next packet.
LEMMA PiecesReceiveAt ==
  ASSUME Bookkeeping, PointKeys, NEW r \in Readers, down[r] # <<>>,
         down' = [down EXCEPT ![r] = Tail(@)]
  PROVE  \A s \in Readers : PiecesOfPoints(down'[s])
<1>1. down \in [Readers -> Seq(PacketSet)] /\ \A s \in Readers : PiecesOfPoints(down[s])
  BY DEF Bookkeeping, ChannelTypes, PointKeys
<1>2. down[r] \in Seq(PacketSet)
  BY <1>1
<1>3. PiecesOfPoints(Tail(down[r]))
  BY <1>1, <1>2, PiecesReceive
<1>4. \A s \in Readers : down'[s] = IF s = r THEN Tail(down[r]) ELSE down[s]
  BY <1>1
<1> QED
  BY <1>1, <1>3, <1>4

\* The redos of points run again as requests for points.
LEMMA BatchesOfPoints ==
  ASSUME NEW ready \in SUBSET PointRedos
  PROVE  Batches(ready) \subseteq PointRequests /\ IsFiniteSet(Batches(ready))
<1>1. ready \in SUBSET RedoSet
  BY DEF PointRedos
<1>2. ASSUME NEW b \in Batches(ready) PROVE b \in PointRequests
  <2>1. PICK r \in {d.replica : d \in ready} :
          b = [replica |-> r,
               keys |-> {d.replay_key : d \in {e \in ready : e.replica = r}}]
    BY <1>2 DEF Batches
  <2>2. r \in Readers
    BY <1>1, <2>1 DEF RedoSet
  <2>3. {d.replay_key : d \in {e \in ready : e.replica = r}} \in SUBSET Singletons
    BY DEF PointRedos
  <2> QED
    BY <2>1, <2>2, <2>3 DEF PointRequests
<1> QED
  BY <1>1, <1>2, BatchesType

\* RequestReaderReplay asks for points.
LEMMA RequestOfPoints ==
  ASSUME ~Ordered, NEW r, NEW P \in KeySets
  PROVE  Unrequested(r, P) \in SUBSET Singletons
<1>1. ASSUME NEW S \in Unrequested(r, P) PROVE S \in Singletons
  <2>1. PICK K \in P : S \in Runs(K \ triggered[r])
    BY <1>1 DEF Unrequested
  <2>2. K \ triggered[r] \in SUBSET Keys
    BY DEF KeySets
  <2> QED
    BY <2>1, <2>2, RunsOfPoints, SMTT(30) DEF Singletons
<1> QED
  BY <1>1

\* Under a hash index the domains exchange points only.
LEMMA PointKeysInductive ==
  ASSUME ~Ordered, Bookkeeping, PointKeys, [Next]_vars PROVE PointKeys'
<1>0. /\ DOMAIN waiting.redos \subseteq Singletons
      /\ DOMAIN waiting.holes \subseteq PointRedos
      /\ delayed \in Seq(PointRequests)
      /\ allow \in [Nodes -> SUBSET Singletons]
      /\ up \in [Readers -> Seq(SUBSET Singletons)]
      /\ \A r \in Readers : PiecesOfPoints(down[r])
      /\ down \in [Readers -> Seq(PacketSet)]
      /\ toMid \in Seq(PacketSet)
      /\ asked \in [Readers -> SUBSET KeySets]
  BY DEF Bookkeeping, ReaderTypes, ChannelTypes, PointKeys
<1>1. ASSUME UNCHANGED <<waiting, delayed, allow, up, down>> PROVE PointKeys'
  BY <1>0, <1>1 DEF PointKeys
<1>2. ASSUME NEW K \in SUBSET Keys, MidEvict(K) PROVE PointKeys'
  <2>1. /\ down' = ToAll(EvictKeys(K)) /\ allow' = Disallow(K)
        /\ UNCHANGED <<waiting, delayed, up>>
    BY <1>2 DEF MidEvict
  <2>2. EvictKeys(K) \in PacketSet /\ EvictKeys(K).type # "ReplayPiece"
    BY OtherPacketsType DEF EvictKeys
  <2>3. \A s \in Readers : down'[s] = Append(down[s], EvictKeys(K))
    BY <2>1 DEF ToAll
  <2>4. \A s \in Readers : PiecesOfPoints(down'[s])
    BY <2>2, <2>3, PiecesSendTo
  <2>5. allow' \in [Nodes -> SUBSET Singletons]
    BY <1>0, <2>1 DEF Disallow
  <2> QED
    BY <1>0, <2>1, <2>4, <2>5 DEF PointKeys
<1>3. ASSUME MidMessage PROVE PointKeys'
  <2> DEFINE k == Head(toMid).key
  <2>1. /\ toMid # <<>> /\ Head(toMid).type = "Message"
        /\ UNCHANGED <<waiting, delayed, allow, up>>
        /\ \/ down' = down
           \/ down' = [r \in Readers |-> IF Passes(NodeOf[r], k)
                                         THEN Append(down[r], Message(k)) ELSE down[r]]
    BY <1>3 DEF MidMessage
  <2>2. Message(k) \in PacketSet /\ Message(k).type # "ReplayPiece"
    <3>1. Head(toMid) \in PacketSet
      BY <1>0, <2>1, HeadTailType
    <3>2. k \in Keys
      BY <2>1, <3>1, PacketFields
    <3> QED
      BY <3>2, OtherPacketsType DEF Message
  <2>3. \A s \in Readers : down'[s] \in {down[s], Append(down[s], Message(k))}
    BY <2>1
  <2>4. \A s \in Readers : PiecesOfPoints(down'[s])
    BY <2>2, <2>3, PiecesSendTo
  <2> QED
    BY <1>0, <2>1, <2>4 DEF PointKeys
<1>4. ASSUME MidReplayPiece PROVE PointKeys'
  <2>1. PICK done :
          /\ waiting' = after_backfill(waiting, done)
          /\ delayed' \in Bijection(1..Cardinality(Batches(redos_ready(waiting, done))),
                                    Batches(redos_ready(waiting, done)))
          /\ UNCHANGED <<allow, up, down>>
    BY <1>4 DEF MidReplayPiece
  <2>2. redos_ready(waiting, done) \in SUBSET PointRedos
    BY <1>0 DEF redos_ready
  <2>3. delayed' \in Seq(PointRequests)
    BY <2>1, <2>2, BatchesOfPoints, EnumerationType
  <2>4. /\ DOMAIN waiting'.redos \subseteq Singletons
        /\ DOMAIN waiting'.holes \subseteq PointRedos
    BY <1>0, <2>1 DEF after_backfill
  <2> QED
    BY <1>0, <2>1, <2>3, <2>4 DEF PointKeys
<1>5. ASSUME MidDelayed PROVE PointKeys'
  <2>1. /\ delayed # <<>> /\ delayed' = Tail(delayed) /\ UNCHANGED up
        /\ seed_all(Head(delayed).replica, Head(delayed).keys)
    BY <1>5 DEF MidDelayed
  <2>2. Head(delayed) \in PointRequests /\ Tail(delayed) \in Seq(PointRequests)
    BY <1>0, <2>1, HeadTailType
  <2>3. Head(delayed).replica \in Readers /\ Head(delayed).keys \in SUBSET Singletons
    BY <2>2 DEF PointRequests
  <2>4. /\ DOMAIN waiting'.redos \subseteq Singletons
        /\ DOMAIN waiting'.holes \subseteq PointRedos
        /\ allow' \in [Nodes -> SUBSET Singletons]
        /\ \A s \in Readers : PiecesOfPoints(down'[s])
    BY <2>1, <2>3, SeedAllOfPoints
  <2> QED
    BY <1>0, <2>1, <2>2, <2>4 DEF PointKeys
<1>6. ASSUME NEW r \in Readers, MidRequest(r) PROVE PointKeys'
  <2>1. /\ up[r] # <<>> /\ up' = [up EXCEPT ![r] = Tail(@)] /\ UNCHANGED delayed
        /\ seed_all(r, Head(up[r]))
    BY <1>6 DEF MidRequest
  <2>2. Head(up[r]) \in SUBSET Singletons /\ Tail(up[r]) \in Seq(SUBSET Singletons)
    <3>1. up[r] \in Seq(SUBSET Singletons)
      BY <1>0
    <3> QED
      BY <2>1, <3>1, HeadTailType
  <2>3. up' \in [Readers -> Seq(SUBSET Singletons)]
    BY <1>0, <2>1, <2>2, ChannelType
  <2>4. /\ DOMAIN waiting'.redos \subseteq Singletons
        /\ DOMAIN waiting'.holes \subseteq PointRedos
        /\ allow' \in [Nodes -> SUBSET Singletons]
        /\ \A s \in Readers : PiecesOfPoints(down'[s])
    BY <2>1, <2>2, SeedAllOfPoints
  <2> QED
    BY <1>0, <2>1, <2>3, <2>4 DEF PointKeys
<1>7. ASSUME NEW r \in Readers, ReaderStep(r) PROVE PointKeys'
  <2>1. /\ down[r] # <<>> /\ down' = [down EXCEPT ![r] = Tail(@)]
        /\ UNCHANGED <<waiting, delayed, allow, up>>
    BY <1>7
       DEF ReaderStep, ReaderMessage, ReaderReplayPiece, ReaderEvictKeys, Receive, midVars
  <2>2. \A s \in Readers : PiecesOfPoints(down'[s])
    BY <2>1, PiecesReceiveAt
  <2> QED
    BY <1>0, <2>1, <2>2 DEF PointKeys
<1>8. ASSUME NEW r \in Readers, NEW P \in asked[r], ReaderRequest(r, P) PROVE PointKeys'
  <2> DEFINE keys == Unrequested(r, Missing(r, P))
  <2>1. /\ up' = IF keys = {} THEN up ELSE [up EXCEPT ![r] = Append(@, keys)]
        /\ UNCHANGED <<waiting, delayed, allow, down>>
    BY <1>8 DEF ReaderRequest, midVars
  <2>2. keys \in SUBSET Singletons
    <3>1. P \in KeySets
      BY <1>0
    <3>2. Missing(r, P) \in KeySets
      BY <3>1, RequestType
    <3> QED
      BY <3>2, RequestOfPoints
  <2> HIDE DEF keys
  <2>3. up' \in [Readers -> Seq(SUBSET Singletons)]
    <3>1. up[r] \in Seq(SUBSET Singletons)
      BY <1>0
    <3>2. Append(up[r], keys) \in Seq(SUBSET Singletons)
      BY <2>2, <3>1, AppendType
    <3> QED
      BY <1>0, <2>1, <3>2, ChannelType
  <2> QED
    BY <1>0, <2>1, <2>3 DEF PointKeys
<1>9. CASE \E k \in Keys : BaseWrite(k)
  BY <1>1, <1>9 DEF BaseWrite, midVars
<1>10. CASE \E r \in Readers, K \in SUBSET Keys : ReaderEvict(r, K)
  BY <1>1, <1>10 DEF ReaderEvict, midVars
<1>11. CASE \E r \in Readers : \E K \in Requests[r] : Ask(r, K)
  BY <1>1, <1>11 DEF Ask, midVars
<1>12. CASE BaseReplay
  BY <1>1, <1>12 DEF BaseReplay, midVars
<1>13. CASE UNCHANGED vars
  BY <1>1, <1>13 DEF vars, midVars
<1> QED
  BY <1>2, <1>3, <1>4, <1>5, <1>6, <1>7, <1>8, <1>9, <1>10, <1>11, <1>12, <1>13
     DEF Next, Environment, MidStep, TakeRequest

-----------------------------------------------------------------------------
(* Both channels of a reader's data, from the base table to the reader.     *)

\* The keys whose rows pass the egress to reader r.
Open(r) == {k \in Keys : Passes(NodeOf[r], k)}

NoEvictions(ch) == \A i \in DOMAIN ch : ch[i].type # "EvictKeys"

Flows ==
  /\ NoEvictions(toMid)
  /\ Flow(toMid, mid, base, Keys)
  /\ \A r \in Readers : Flow(down[r], read[r], mid, Open(r))

LEMMA NoEvictionsSend ==
  ASSUME NEW ch \in Seq(PacketSet), NEW p \in PacketSet, NoEvictions(ch),
         p.type # "EvictKeys"
  PROVE  NoEvictions(Append(ch, p))
<1>1. /\ DOMAIN Append(ch, p) = 1..(Len(ch) + 1) /\ DOMAIN ch = 1..Len(ch)
      /\ Append(ch, p)[Len(ch) + 1] = p /\ Len(ch) \in Nat
      /\ \A j \in 1..Len(ch) : Append(ch, p)[j] = ch[j]
  BY SMTT(30)
<1> QED
  BY <1>1, SMTT(30) DEF NoEvictions

LEMMA NoEvictionsReceive ==
  ASSUME NEW ch \in Seq(PacketSet), ch # <<>>, NoEvictions(ch)
  PROVE  NoEvictions(Tail(ch))
<1>1. /\ DOMAIN Tail(ch) = 1..(Len(ch) - 1) /\ DOMAIN ch = 1..Len(ch) /\ Len(ch) \in Nat
      /\ \A j \in 1..(Len(ch) - 1) : Tail(ch)[j] = ch[j + 1]
  BY SMTT(30)
<1> QED
  BY <1>1, SMTT(30) DEF NoEvictions

\* A replay carries the rows of its keys.
LEMMA ReplayPieceRows ==
  ASSUME NEW F, NEW state, NEW k \in UNION F, state[k] # Hole
  PROVE  /\ ReplayPiece(F, state).type = "ReplayPiece"
         /\ ReplayPiece(F, state).for_keys = F
         /\ ReplayPiece(F, state).data[k] = state[k]
BY DEF ReplayPiece, Rows

\* seed_all: what it replays is what mid holds, and the egress lets the keys
\* pass from then on.
LEMMA SeedAllFlows ==
  ASSUME Bookkeeping, PointKeys, Flows, NEW r \in Readers,
         NEW keys \in KeySets, seed_all(r, keys)
  PROVE  \A s \in Readers : Flow(down'[s], read[s], mid, Open(s)')
<1> DEFINE found == {K \in keys : K \subseteq Filled(mid)}
           p == ReplayPiece(found, mid)
<1>1. /\ down' = IF found = {} THEN down ELSE [down EXCEPT ![r] = Append(@, p)]
      /\ allow' = IF found = {} THEN allow ELSE Allow(r, found)
  BY DEF seed_all
<1>2. found \in KeySets /\ mid \in Counts /\ down \in [Readers -> Seq(PacketSet)]
  BY DEF KeySets, Bookkeeping, MidTypes, ChannelTypes
<1>3. p \in PacketSet /\ p.type = "ReplayPiece" /\ p.for_keys = found
  BY <1>2, ReplayPieceType DEF ReplayPiece
<1>4. \A k \in UNION found : k \in Keys /\ mid[k] # Hole /\ p.data[k] = mid[k] /\ mid[k] \in Nat
  <2>1. \A k \in UNION found : k \in Filled(mid)
    OBVIOUS
  <2>2. \A k \in UNION found : k \in Keys /\ mid[k] # Hole
    BY <2>1 DEF Filled
  <2>3. \A k \in UNION found : p.data[k] = mid[k]
    BY <2>2, ReplayPieceRows, SMTT(30)
  <2> QED
    BY <1>2, <2>2, <2>3 DEF Counts
<1> HIDE DEF found, p
<1>5. \A s \in Readers : Open(s) \subseteq Open(s)'
  <2>1. allow \in [Nodes -> SUBSET Singletons]
    BY DEF PointKeys
  <2>2. \A n \in Nodes : allow[n] \subseteq allow'[n]
    BY <1>1, <2>1 DEF Allow
  <2>3. \A s \in Readers : NodeOf[s] \in Nodes
    BY DEF Nodes
  <2> QED
    BY <2>2, <2>3 DEF Open, Passes
<1>6. found # {} => UNION found \subseteq Open(r)'
  <2>1. allow \in [Nodes -> SUBSET Singletons] /\ NodeOf[r] \in Nodes
    BY DEF PointKeys, Nodes
  <2>2. found # {} /\ NodeOf[r] \in Filtered => found \subseteq allow'[NodeOf[r]]
    BY <1>1, <2>1 DEF Allow
  <2> QED
    BY <1>4, <2>2 DEF Open, Passes
<1>7. ASSUME NEW s \in Readers PROVE Flow(down'[s], read[s], mid, Open(s)')
  <2>1. down[s] \in Seq(PacketSet) /\ Flow(down[s], read[s], mid, Open(s))
    BY <1>2 DEF Flows
  <2>2. Flow(down[s], read[s], mid, Open(s)')
    BY <1>5, <2>1, FlowSource
  <2>3. CASE found = {} \/ s # r
    <3>1. down'[s] = down[s]
      BY <1>1, <1>2, <2>3
    <3> QED
      BY <2>2, <3>1
  <2>4. CASE found # {} /\ s = r
    <3>1. down'[s] = Append(down[s], p)
      BY <1>1, <1>2, <2>4
    <3>2. \A k \in UNION p.for_keys :
             /\ mid[k] # Hole /\ k \in Open(s)'
             /\ p.data[k] = mid[k] /\ p.data[k] \in Nat
      BY <1>3, <1>4, <1>6, <2>4
    <3>3. \A k \in Keys : mid[k] # Hole /\ k \in Open(s) => mid[k] = mid[k] /\ k \in Open(s)'
      BY <1>5
    <3>4. Flow(Append(down[s], p), read[s], mid, Open(s)')
      BY <1>3, <2>1, <3>2, <3>3, FlowSend
    <3> QED
      BY <3>1, <3>4
  <2> QED
    BY <2>3, <2>4
<1> QED
  BY <1>7

\* A backfill fills holes of mid with the rows of the base table.
LEMMA MidReplayPieceFills ==
  ASSUME ~Ordered, Bookkeeping, MidReplayPiece, NEW k \in Keys
  PROVE  \/ mid'[k] = mid[k]
         \/ /\ mid[k] = Hole
            /\ k \in UNION Head(toMid).for_keys /\ mid'[k] = Head(toMid).data[k]
<1> DEFINE p == Head(toMid)
           F == p.for_keys
           G == MidExpected(F)
           d == Retained(p.data, F, G)
           error == G # {} /\ (MidFillPanics(G) \/ ~is_waiting(waiting))
           done == IF error THEN {} ELSE G
<1>1. /\ toMid # <<>> /\ p.type = "ReplayPiece"
      /\ mid' = [l \in Keys |-> IF l \in UNION done
                                THEN Rows(mid, l) + Data(d, l) ELSE mid[l]]
  BY DEF MidReplayPiece
<1>2. toMid \in Seq(PacketSet)
  BY DEF Bookkeeping, ChannelTypes
<1>3. p \in PacketSet
  BY <1>1, <1>2, HeadTailType
<1>4. F \in KeySets /\ p.data \in [UNION F -> Nat]
  BY <1>1, <1>3, PacketFields
<1>5. CASE k \notin UNION done
  <2> HIDE DEF done
  <2> QED
    BY <1>1, <1>5
<1>6. CASE k \in UNION done
  <2>1. ~error /\ k \in UNION G /\ ~MidFillPanics(G)
    BY <1>6
  <2>2. mid[k] = Hole
    BY <2>1 DEF MidFillPanics, Filled
  <2>3. G \in SUBSET F
    BY DEF MidExpected
  <2>4. Data(d, k) = p.data[k]
    BY <1>4, <2>1, <2>3, RetainedExact, SMTT(30)
  <2>5. k \in UNION F /\ p.data[k] \in Nat
    BY <1>4, <2>1, <2>3
  <2>6. mid'[k] = Rows(mid, k) + Data(d, k)
    <3> HIDE DEF done, d
    <3> QED
      BY <1>1, <1>6
  <2>7. mid'[k] = p.data[k]
    <3> HIDE DEF d, p
    <3> QED
      BY <2>2, <2>4, <2>5, <2>6, SMTT(30) DEF Rows
  <2> QED
    BY <2>2, <2>5, <2>7
<1> QED
  BY <1>5, <1>6

\* A replay fills holes of a reader with the rows of mid.
LEMMA ReaderReplayPieceFills ==
  ASSUME ~Ordered, Bookkeeping, PointKeys, NEW r \in Readers, ReaderReplayPiece(r),
         NEW k \in Keys
  PROVE  \/ read'[r][k] = read[r][k]
         \/ k \in UNION Head(down[r]).for_keys /\ read'[r][k] = Head(down[r]).data[k]
<1> DEFINE p == Head(down[r])
           F == p.for_keys
           G == ReaderExpected(r, F)
           error == (UNION G) \cap Filled(read[r]) # {}
           done == IF error THEN {} ELSE UNION G
           d == IF done = {} THEN <<>> ELSE Retained(p.data, F, G)
           contents == [l \in Keys |->
                          IF l \in done \/ (read[r][l] = Hole /\ Data(d, l) > 0)
                          THEN Data(d, l) ELSE read[r][l]]
<1>1. down[r] # <<>> /\ p.type = "ReplayPiece" /\ swap(r, contents)
  BY DEF ReaderReplayPiece, Receive
<1>2. down[r] \in Seq(PacketSet) /\ PiecesOfPoints(down[r])
  BY DEF Bookkeeping, ChannelTypes, PointKeys
<1>3. p \in PacketSet /\ p = down[r][1] /\ 1 \in DOMAIN down[r]
  <2>1. \A s \in Seq(PacketSet) : s # <<>> => /\ Head(s) \in PacketSet /\ Head(s) = s[1]
                                              /\ 1 \in DOMAIN s
    BY SMTT(30)
  <2> QED
    BY <1>1, <1>2, <2>1
<1>4. F \in KeySets /\ p.data \in [UNION F -> Nat] /\ F \in SUBSET Singletons
  BY <1>1, <1>2, <1>3, PacketFields DEF PiecesOfPoints
<1>5. G \in SUBSET F
  <2>1. ASSUME NEW K \in F, NEW S \in Runs(K \cap triggered[r]) PROVE S \in F
    <3>1. PICK l \in Keys : K = {l}
      BY <1>4 DEF Singletons
    <3>2. S \in {{j} : j \in K \cap triggered[r]}
      BY <3>1, RunsOfPoints
    <3> QED
      BY <3>1, <3>2
  <2> QED
    BY <2>1 DEF ReaderExpected
<1>6. /\ k \in UNION G => Data(Retained(p.data, F, G), k) = p.data[k]
      /\ k \notin UNION G => Data(Retained(p.data, F, G), k) = 0
  <2> DEFINE x == p.data
  <2>1. F \in KeySets /\ G \in SUBSET F /\ x \in [UNION F -> Nat]
    BY <1>4, <1>5
  <2> HIDE DEF x, p, F, G
  <2>2. k \in UNION G => Data(Retained(x, F, G), k) = x[k]
    BY <2>1, RetainedExact, SMTT(30)
  <2>3. k \notin UNION G => Data(Retained(x, F, G), k) = 0
    BY <2>1, RetainedExact
  <2> QED
    BY <2>2, <2>3 DEF x
<1>7. read'[r][k] = contents[k]
  <2> HIDE DEF contents
  <2>1. read \in [Readers -> Counts]
    BY DEF Bookkeeping, ReaderTypes
  <2> QED
    BY <1>1, <2>1 DEF swap
<1>8. CASE done = {}
  <2>1. Data(d, k) = 0
    <3>1. d = <<>>
      BY <1>8
    <3> HIDE DEF d, done
    <3> QED
      BY <3>1, SMTT(30) DEF Data
  <2>2. contents[k] = read[r][k]
    <3> HIDE DEF d, done
    <3> QED
      BY <1>8, <2>1, SMTT(30)
  <2> QED
    BY <1>7, <2>2
<1>9. CASE done # {}
  <2>1. done = UNION G /\ d = Retained(p.data, F, G)
    BY <1>9
  <2>2. Data(d, k) = IF k \in done THEN p.data[k] ELSE 0
    BY <1>6, <2>1
  <2>3. contents[k] = IF k \in done THEN p.data[k] ELSE read[r][k]
    <3> HIDE DEF p, d, done
    <3>1. contents[k] = IF k \in done \/ (read[r][k] = Hole /\ Data(d, k) > 0)
                        THEN Data(d, k) ELSE read[r][k]
      OBVIOUS
    <3> HIDE DEF contents
    <3> QED
      BY <2>2, <3>1, SMTT(30)
  <2>4. k \in done => k \in UNION F
    BY <1>5, <2>1
  <2> HIDE DEF contents, done
  <2> QED
    BY <1>7, <2>3, <2>4
<1> QED
  BY <1>8, <1>9

\* A step of a reader leaves the other readers alone.
LEMMA FlowsAtReader ==
  ASSUME Bookkeeping, Flows, NEW r \in Readers,
         UNCHANGED <<toMid, mid, base, allow>>,
         down' = [down EXCEPT ![r] = down'[r]], read' = [read EXCEPT ![r] = read'[r]],
         Flow(down'[r], read'[r], mid, Open(r))
  PROVE  Flows'
<1>1. \A s \in Readers : Open(s)' = Open(s)
  BY DEF Open, Passes
<1>2. down \in [Readers -> Seq(PacketSet)] /\ read \in [Readers -> Counts]
  BY DEF Bookkeeping, ReaderTypes, ChannelTypes
<1>3. ASSUME NEW s \in Readers PROVE Flow(down'[s], read'[s], mid', Open(s)')
  <2>1. CASE s = r
    BY <1>1, <2>1
  <2>2. CASE s # r
    <3>1. down'[s] = down[s] /\ read'[s] = read[s]
      BY <1>2, <2>2
    <3>2. Flow(down[s], read[s], mid, Open(s))
      BY DEF Flows
    <3> QED
      BY <1>1, <3>1, <3>2
  <2> QED
    BY <2>1, <2>2
<1> QED
  BY <1>3 DEF Flows

\* Rows, replays and evictions keep every filled key in step with its source.
LEMMA FlowsInductive ==
  ASSUME ~Ordered, Bookkeeping, PointKeys, Flows, [Next]_vars PROVE Flows'
<1>0. /\ base \in [Keys -> Nat] /\ mid \in Counts /\ read \in [Readers -> Counts]
      /\ toBase \in Seq(KeySets) /\ toMid \in Seq(PacketSet)
      /\ down \in [Readers -> Seq(PacketSet)]
      /\ allow \in [Nodes -> SUBSET Singletons]
      /\ NoEvictions(toMid) /\ Flow(toMid, mid, base, Keys)
      /\ \A r \in Readers : Flow(down[r], read[r], mid, Open(r))
      /\ Hole \notin Nat
  BY UpqueriesAssumption
     DEF Bookkeeping, MidTypes, ReaderTypes, ChannelTypes, PointKeys, Flows
<1>01. \A r \in Readers : read[r] \in Counts /\ down[r] \in Seq(PacketSet)
  BY <1>0
<1>1. ASSUME UNCHANGED <<base, mid, allow, read, toMid, down>> PROVE Flows'
  <2>1. \A s \in Readers : Open(s)' = Open(s)
    BY <1>1 DEF Open, Passes
  <2> QED
    BY <1>0, <1>1, <2>1 DEF Flows
<1>2. ASSUME NEW k \in Keys, BaseWrite(k) PROVE Flows'
  <2>1. /\ base' = [base EXCEPT ![k] = @ + 1] /\ toMid' = Append(toMid, Message(k))
        /\ UNCHANGED <<mid, allow, read, down>>
    BY <1>2 DEF BaseWrite, midVars, readerVars
  <2>2. /\ base'[k] # Hole /\ base'[k] = base[k] + 1
        /\ \A l \in Keys \ {k} : base'[l] = base[l]
    BY <1>0, <2>1, SMTT(30)
  <2>3. Flow(Append(toMid, Message(k)), mid, base', Keys)
    BY <1>0, <2>2, FlowRow
  <2>4. NoEvictions(Append(toMid, Message(k)))
    <3>1. Message(k) \in PacketSet /\ Message(k).type # "EvictKeys"
      BY OtherPacketsType DEF Message
    <3> QED
      BY <1>0, <3>1, NoEvictionsSend
  <2>5. \A s \in Readers : Open(s)' = Open(s)
    BY <2>1 DEF Open, Passes
  <2> QED
    BY <1>0, <2>1, <2>3, <2>4, <2>5 DEF Flows
<1>3. ASSUME BaseReplay PROVE Flows'
  <2> DEFINE p == ReplayPiece(Head(toBase), base)
  <2>1. /\ toBase # <<>> /\ toMid' = Append(toMid, p)
        /\ UNCHANGED <<base, mid, allow, read, down>>
    BY <1>3 DEF BaseReplay, midVars, readerVars
  <2>2. Head(toBase) \in KeySets /\ base \in Counts
    BY <1>0, <2>1, HeadTailType DEF Counts
  <2>3. p \in PacketSet /\ p.type = "ReplayPiece" /\ p.for_keys = Head(toBase)
    BY <2>2, ReplayPieceType DEF ReplayPiece
  <2>4. \A k \in UNION p.for_keys : /\ base[k] # Hole /\ k \in Keys
                                    /\ p.data[k] = base[k] /\ p.data[k] \in Nat
    <3>1. \A k \in UNION p.for_keys : k \in Keys /\ base[k] \in Nat /\ base[k] # Hole
      <4>1. UNION p.for_keys \subseteq Keys
        BY <2>2, <2>3 DEF KeySets
      <4>2. \A k \in Keys : base[k] \in Nat /\ base[k] # Hole
        BY <1>0
      <4> QED
        BY <4>1, <4>2
    <3>2. \A k \in UNION p.for_keys : p.data[k] = base[k]
      BY <2>3, <3>1, ReplayPieceRows, SMTT(30)
    <3> QED
      BY <3>1, <3>2
  <2> HIDE DEF p
  <2>5. Flow(Append(toMid, p), mid, base, Keys)
    BY <1>0, <2>3, <2>4, FlowSend
  <2>6. NoEvictions(Append(toMid, p))
    BY <1>0, <2>3, NoEvictionsSend
  <2>7. \A s \in Readers : Open(s)' = Open(s)
    BY <2>1 DEF Open, Passes
  <2> QED
    BY <1>0, <2>1, <2>5, <2>6, <2>7 DEF Flows
<1>4. ASSUME MidMessage PROVE Flows'
  <2> DEFINE k == Head(toMid).key
  <2>1. /\ toMid # <<>> /\ Head(toMid).type = "Message" /\ toMid' = Tail(toMid)
        /\ \/ mid[k] = Hole /\ mid' = mid /\ down' = down
           \/ /\ mid[k] # Hole
              /\ mid' = [mid EXCEPT ![k] = @ + 1]
              /\ down' = [r \in Readers |-> IF Passes(NodeOf[r], k)
                                            THEN Append(down[r], Message(k))
                                            ELSE down[r]]
        /\ UNCHANGED <<base, allow, read>>
    BY <1>4 DEF MidMessage, readerVars
  <2>2. k \in Keys
    <3>1. Head(toMid) \in PacketSet
      BY <1>0, <2>1, HeadTailType
    <3> QED
      BY <2>1, <3>1, PacketFields
  <2>3. /\ \A l \in Keys : l # k => mid'[l] = mid[l]
        /\ mid[k] = Hole => mid'[k] = Hole
        /\ mid[k] # Hole => mid'[k] = mid[k] + 1 /\ mid'[k] # Hole
    <3> HIDE DEF k
    <3>1. mid[k] # Hole => mid[k] \in Nat
      BY <1>0, <2>2 DEF Counts
    <3>2. mid \in [Keys -> Nat \cup {Hole}]
      BY <1>0 DEF Counts
    <3> QED
      BY <1>0, <2>1, <2>2, <3>1, <3>2, SMTT(30)
  <2>4. Flow(Tail(toMid), mid', base, Keys)
    BY <1>0, <2>1, <2>3, FlowTakesRow
  <2>5. NoEvictions(Tail(toMid))
    BY <1>0, <2>1, NoEvictionsReceive
  <2> HIDE DEF k
  <2>6. ASSUME NEW r \in Readers PROVE Flow(down'[r], read[r], mid', Open(r))
    <3>1. CASE mid[k] = Hole
      BY <1>0, <2>1, <3>1
    <3>2. CASE mid[k] # Hole /\ k \in Open(r)
      <4>1. down'[r] = Append(down[r], Message(k))
        BY <2>1, <3>2 DEF Open
      <4>2. Flow(Append(down[r], Message(k)), read[r], mid', Open(r))
        BY <1>0, <1>01, <2>2, <2>3, <3>2, FlowRow
      <4> QED
        BY <4>1, <4>2
    <3>3. CASE mid[k] # Hole /\ k \notin Open(r)
      <4>1. down'[r] = down[r]
        BY <2>1, <2>2, <3>3 DEF Open
      <4>2. Flow(down[r], read[r], mid', Open(r))
        BY <1>0, <1>01, <2>3, <3>3, FlowSource
      <4> QED
        BY <4>1, <4>2
    <3> QED
      BY <3>1, <3>2, <3>3
  <2>7. \A s \in Readers : Open(s)' = Open(s)
    BY <2>1 DEF Open, Passes
  <2> QED
    BY <2>1, <2>4, <2>5, <2>6, <2>7 DEF Flows
<1>5. ASSUME MidReplayPiece PROVE Flows'
  <2>1. /\ toMid # <<>> /\ Head(toMid).type = "ReplayPiece" /\ toMid' = Tail(toMid)
        /\ UNCHANGED <<base, allow, read, down>>
    BY <1>5 DEF MidReplayPiece, readerVars
  <2>2. \A k \in Keys :
          \/ mid'[k] = mid[k]
          \/ /\ mid[k] = Hole
             /\ k \in UNION Head(toMid).for_keys /\ mid'[k] = Head(toMid).data[k]
    BY <1>5, MidReplayPieceFills
  <2>3. Flow(Tail(toMid), mid', base, Keys)
    BY <1>0, <2>1, <2>2, FlowTakesPiece
  <2>4. NoEvictions(Tail(toMid))
    BY <1>0, <2>1, NoEvictionsReceive
  <2>5. \A r \in Readers : Flow(down[r], read[r], mid', Open(r))
    BY <1>0, <1>01, <2>2, FlowSource
  <2>6. \A s \in Readers : Open(s)' = Open(s)
    BY <2>1 DEF Open, Passes
  <2> QED
    BY <2>1, <2>3, <2>4, <2>5, <2>6 DEF Flows
<1>6. ASSUME NEW r \in Readers, NEW keys \in KeySets, seed_all(r, keys),
             UNCHANGED <<base, mid, read, toMid>>
      PROVE  Flows'
  <2>1. \A s \in Readers : Flow(down'[s], read[s], mid, Open(s)')
    BY <1>6, SeedAllFlows
  <2> QED
    BY <1>0, <1>6, <2>1 DEF Flows
<1>7. ASSUME MidDelayed PROVE Flows'
  <2>1. /\ delayed # <<>> /\ seed_all(Head(delayed).replica, Head(delayed).keys)
        /\ UNCHANGED <<base, mid, read, toMid>>
    BY <1>7 DEF MidDelayed, readerVars
  <2>2. delayed \in Seq([replica : Readers, keys : KeySets])
    BY DEF Bookkeeping, MidTypes
  <2>3. Head(delayed) \in [replica : Readers, keys : KeySets]
    BY <2>1, <2>2, HeadTailType
  <2>4. Head(delayed).replica \in Readers /\ Head(delayed).keys \in KeySets
    BY <2>3
  <2> QED
    BY <1>6, <2>1, <2>4
<1>8. ASSUME NEW r \in Readers, MidRequest(r) PROVE Flows'
  <2>1. up[r] # <<>> /\ seed_all(r, Head(up[r])) /\ UNCHANGED <<base, mid, read, toMid>>
    BY <1>8 DEF MidRequest, readerVars
  <2>2. up[r] \in Seq(KeySets)
    BY DEF Bookkeeping, ChannelTypes
  <2>3. Head(up[r]) \in KeySets
    BY <2>1, <2>2, HeadTailType
  <2> QED
    BY <1>6, <2>1, <2>3
<1>9. ASSUME NEW K \in SUBSET Keys, MidEvict(K) PROVE Flows'
  <2> DEFINE p == EvictKeys(K)
  <2>1. /\ mid' = [k \in Keys |-> IF k \in K THEN Hole ELSE mid[k]]
        /\ down' = ToAll(p) /\ allow' = Disallow(K)
        /\ UNCHANGED <<base, read, toMid>>
    BY <1>9 DEF MidEvict, readerVars
  <2>2. p \in PacketSet /\ p.type = "EvictKeys" /\ p.keys = K
    BY OtherPacketsType DEF EvictKeys
  <2> HIDE DEF p
  <2>3. \A k \in Keys : mid'[k] \in {mid[k], Hole}
    BY <2>1
  <2>4. Flow(toMid, mid', base, Keys)
    BY <1>0, <2>3, FlowForget
  <2>5. ASSUME NEW r \in Readers PROVE Flow(down'[r], read[r], mid', Open(r)')
    <3>1. down'[r] = Append(down[r], p)
      BY <2>1 DEF ToAll
    <3>2. ASSUME NEW k \in Keys, k \in Open(r), k \notin K PROVE k \in Open(r)'
      <4>1. CASE NodeOf[r] \notin Filtered
        BY <4>1 DEF Open, Passes
      <4>2. CASE NodeOf[r] \in Filtered
        <5>1. PICK F \in allow[NodeOf[r]] : k \in F
          BY <3>2, <4>2 DEF Open, Passes
        <5>2. NodeOf[r] \in Nodes
          BY DEF Nodes
        <5>3. F = {k}
          BY <1>0, <5>1, <5>2, SMTT(30) DEF Singletons
        <5>4. F \in allow'[NodeOf[r]]
          BY <2>1, <3>2, <5>1, <5>2, <5>3 DEF Disallow
        <5> QED
          BY <5>1, <5>4 DEF Open, Passes
      <4> QED
        BY <4>1, <4>2
    <3>3. \A k \in Keys : mid[k] # Hole /\ k \in Open(r) =>
            \/ p.type = "EvictKeys" /\ k \in p.keys
            \/ mid'[k] = mid[k] /\ k \in Open(r)'
      BY <2>1, <2>2, <3>2
    <3>4. Flow(Append(down[r], p), read[r], mid', Open(r)')
      BY <1>0, <1>01, <2>2, <3>3, FlowSend
    <3> QED
      BY <3>1, <3>4
  <2> QED
    BY <1>0, <2>1, <2>4, <2>5 DEF Flows
<1>10. ASSUME NEW r \in Readers, ReaderMessage(r) PROVE Flows'
  <2> DEFINE k == Head(down[r]).key
             contents == [read[r] EXCEPT ![k] = IF @ = Hole THEN Hole ELSE @ + 1]
  <2>1. /\ down[r] # <<>> /\ Head(down[r]).type = "Message"
        /\ down' = [down EXCEPT ![r] = Tail(@)] /\ swap(r, contents)
        /\ UNCHANGED <<base, mid, allow, toMid>>
    BY <1>10 DEF ReaderMessage, Receive, midVars
  <2>2. k \in Keys
    <3>1. Head(down[r]) \in PacketSet
      BY <1>01, <2>1, HeadTailType
    <3> QED
      BY <2>1, <3>1, PacketFields
  <2>3. /\ \A l \in Keys : l # k => contents[l] = read[r][l]
        /\ read[r][k] = Hole => contents[k] = Hole
        /\ read[r][k] # Hole => contents[k] = read[r][k] + 1
    <3> HIDE DEF k
    <3>1. read[r] \in [Keys -> Nat \cup {Hole}]
      BY <1>0 DEF Counts
    <3> QED
      BY <2>2, <3>1
  <2> HIDE DEF contents
  <2>4. Flow(Tail(down[r]), contents, mid, Open(r))
    BY <1>0, <1>01, <2>1, <2>3, FlowTakesRow
  <2>5. down'[r] = Tail(down[r]) /\ read' = [read EXCEPT ![r] = contents]
    BY <1>0, <2>1 DEF swap
  <2>6. read'[r] = contents
    BY <1>0, <2>5
  <2> QED
    BY <2>1, <2>4, <2>5, <2>6, FlowsAtReader
<1>11. ASSUME NEW r \in Readers, ReaderReplayPiece(r) PROVE Flows'
  <2>1. /\ down[r] # <<>> /\ Head(down[r]).type = "ReplayPiece"
        /\ down' = [down EXCEPT ![r] = Tail(@)]
        /\ \E contents : read' = [read EXCEPT ![r] = contents]
        /\ UNCHANGED <<base, mid, allow, toMid>>
    BY <1>11 DEF ReaderReplayPiece, Receive, midVars, swap
  <2>2. \A k \in Keys :
          \/ read'[r][k] = read[r][k]
          \/ k \in UNION Head(down[r]).for_keys /\ read'[r][k] = Head(down[r]).data[k]
    BY <1>11, ReaderReplayPieceFills
  <2>3. Flow(Tail(down[r]), read'[r], mid, Open(r))
    BY <1>0, <1>01, <2>1, <2>2, FlowTakesPiece
  <2>4. down'[r] = Tail(down[r]) /\ read' = [read EXCEPT ![r] = read'[r]]
    BY <1>0, <2>1
  <2> QED
    BY <2>1, <2>3, <2>4, FlowsAtReader
<1>12. ASSUME NEW r \in Readers, ReaderEvictKeys(r) PROVE Flows'
  <2> DEFINE contents == Emptied(r, Head(down[r]).keys)
  <2>1. /\ down[r] # <<>> /\ Head(down[r]).type = "EvictKeys"
        /\ down' = [down EXCEPT ![r] = Tail(@)] /\ swap(r, contents)
        /\ UNCHANGED <<base, mid, allow, toMid>>
    BY <1>12 DEF ReaderEvictKeys, Receive, midVars
  <2>2. \A k \in Keys : contents[k] = IF k \in Head(down[r]).keys THEN Hole ELSE read[r][k]
    BY DEF Emptied
  <2> HIDE DEF contents
  <2>3. Flow(Tail(down[r]), contents, mid, Open(r))
    BY <1>0, <1>01, <2>1, <2>2, FlowTakesEviction
  <2>4. down'[r] = Tail(down[r]) /\ read' = [read EXCEPT ![r] = contents]
    BY <1>0, <2>1 DEF swap
  <2>5. read'[r] = contents
    BY <1>0, <2>4
  <2> QED
    BY <2>1, <2>3, <2>4, <2>5, FlowsAtReader
<1>13. ASSUME NEW r \in Readers, NEW K \in SUBSET Keys, ReaderEvict(r, K) PROVE Flows'
  <2> DEFINE contents == Emptied(r, K)
  <2>1. swap(r, contents) /\ UNCHANGED <<base, mid, allow, toMid, down>>
    BY <1>13 DEF ReaderEvict, midVars
  <2>2. \A k \in Keys : contents[k] \in {read[r][k], Hole}
    BY DEF Emptied
  <2> HIDE DEF contents
  <2>3. Flow(down[r], contents, mid, Open(r))
    BY <1>0, <2>2, FlowForget
  <2>4. read' = [read EXCEPT ![r] = contents] /\ down' = [down EXCEPT ![r] = down'[r]]
    BY <1>0, <2>1 DEF swap
  <2>5. read'[r] = contents
    BY <1>0, <2>4
  <2> QED
    BY <2>1, <2>3, <2>4, <2>5, FlowsAtReader
<1>14. CASE \E r \in Readers : \E K \in Requests[r] : Ask(r, K)
  BY <1>1, <1>14 DEF Ask, midVars
<1>15. CASE \E r \in Readers : \E P \in asked[r] : ReaderRequest(r, P)
  BY <1>1, <1>15 DEF ReaderRequest, midVars
<1>16. CASE UNCHANGED vars
  BY <1>1, <1>16 DEF vars, midVars, readerVars
<1> QED
  BY <1>2, <1>3, <1>4, <1>5, <1>7, <1>8, <1>9, <1>10, <1>11, <1>12, <1>13, <1>14,
     <1>15, <1>16
     DEF Next, Environment, MidStep, ReaderStep, TakeRequest

HashInvariant == Bookkeeping /\ PointKeys /\ Flows

\* With a hash index, every filled key and every replay on its way follows its
\* source in every reachable state.
LEMMA HashInvariantHolds == ASSUME ~Ordered PROVE Spec => []HashInvariant
<1>1. Init => PointKeys
  <2> SUFFICES ASSUME Init PROVE PointKeys
    OBVIOUS
  <2>1. /\ waiting = NoWaiting /\ delayed = <<>> /\ allow = [n \in Nodes |-> {}]
        /\ up = [r \in Readers |-> <<>>] /\ down = [r \in Readers |-> <<>>]
    BY DEF Init
  <2>2. DOMAIN waiting.redos = {} /\ DOMAIN waiting.holes = {}
    BY <2>1, SMTT(30) DEF NoWaiting
  <2>3. \A r \in Readers : PiecesOfPoints(down[r])
    BY <2>1, SMTT(30) DEF PiecesOfPoints
  <2> QED
    BY <2>1, <2>2, <2>3, SMTT(30) DEF PointKeys
<1>2. Init => Flows
  <2> SUFFICES ASSUME Init PROVE Flows
    OBVIOUS
  <2>1. /\ toMid = <<>> /\ mid = [k \in Keys |-> Hole]
        /\ \A r \in Readers : down[r] = <<>> /\ read[r] = [k \in Keys |-> Hole]
    BY DEF Init
  <2>2. \A source, open : Flow(<<>>, [k \in Keys |-> Hole], source, open)
    BY SMTT(30) DEF Flow
  <2>3. NoEvictions(toMid)
    BY <2>1, SMTT(30) DEF NoEvictions
  <2> QED
    BY <2>1, <2>2, <2>3 DEF Flows
<1>3. Bookkeeping /\ PointKeys /\ Flows /\ [Next]_vars => PointKeys' /\ Flows'
  BY PointKeysInductive, FlowsInductive
<1> QED
  BY <1>1, <1>2, <1>3, BookkeepingInvariant, PTL DEF Spec, HashInvariant

\* The rows on their way in a channel.
LEMMA InFlightIsAfter ==
  ASSUME NEW ch \in Seq(PacketSet), NEW k
  PROVE  InFlight(ch, k) = Cardinality(After(ch, 0, k))
<1>1. {i \in DOMAIN ch : ch[i].type = "Message" /\ ch[i].key = k} = After(ch, 0, k)
  <2>1. \A i \in DOMAIN ch : i > 0
    BY SMTT(30)
  <2> QED
    BY <2>1 DEF After
<1> QED
  BY <1>1 DEF InFlight

\* A filled key of mid lacks exactly the rows on their way to it.
LEMMA FlowsMidCurrent == Bookkeeping /\ Flows => MidCurrent
<1> SUFFICES ASSUME Bookkeeping, Flows, NEW k \in Filled(mid)
             PROVE  mid[k] + InFlight(toMid, k) = base[k]
  BY DEF MidCurrent
<1>1. k \in Keys /\ mid[k] # Hole /\ toMid \in Seq(PacketSet)
  BY DEF Filled, Bookkeeping, ChannelTypes
<1>2. Follows(toMid, 0, k, mid[k], base, Keys) /\ ~EvictedAfter(toMid, 0, k)
  BY <1>1 DEF Flows, Flow, NoEvictions, EvictedAfter
<1> QED
  BY <1>1, <1>2, InFlightIsAfter DEF Follows

\* With a hash index mid neither loses a write nor applies one twice, however
\* backfills, evictions and writes interleave.
THEOREM MidStaysCurrent == ASSUME ~Ordered PROVE Spec => []MidCurrent
BY HashInvariantHolds, FlowsMidCurrent, PTL DEF HashInvariant

\* With a hash index the rows of a reader are those of mid but for the ones on
\* their way, unless the key is about to be evicted: for any numbers of keys,
\* readers, replicas and filtered nodes, neither an eviction nor the egress
\* filter nor a replay that races with writes loses a row or duplicates one.
THEOREM ReadersStayCurrent == ASSUME ~Ordered PROVE Spec => []ReaderCurrent
<1>1. HashInvariant => ReaderCurrent
  <2> SUFFICES ASSUME Bookkeeping, Flows, NEW r \in Readers, NEW k \in Filled(read[r])
               PROVE  \/ EvictionPending(r, k)
                      \/ k \in Filled(mid) /\ read[r][k] + InFlight(down[r], k) = mid[k]
    BY DEF HashInvariant, ReaderCurrent
  <2>1. k \in Keys /\ read[r][k] # Hole /\ down[r] \in Seq(PacketSet)
    BY DEF Filled, Bookkeeping, ChannelTypes
  <2>2. Follows(down[r], 0, k, read[r][k], mid, Open(r))
    BY <2>1 DEF Flows, Flow
  <2>3. EvictedAfter(down[r], 0, k) => EvictionPending(r, k)
    BY DEF EvictedAfter, EvictionPending
  <2> QED
    BY <2>1, <2>2, <2>3, InFlightIsAfter DEF Follows, Filled
<1> QED
  BY <1>1, HashInvariantHolds, PTL

-----------------------------------------------------------------------------
(* The backfills under way.                                                 *)

\* The holes a packet for mid fills.
Fills(p) == IF p.type = "ReplayPiece" THEN p.for_keys ELSE {}

\* Every hole that is asked for, or answered, is one mid waits for, and it is so
\* in one place.  This also holds for ranges: a hole is its key comparison.
HolesOnce ==
  /\ \A i \in DOMAIN toBase : toBase[i] \subseteq DOMAIN waiting.redos
  /\ \A i \in DOMAIN toMid : Fills(toMid[i]) \subseteq DOMAIN waiting.redos
  /\ \A i, j \in DOMAIN toBase : i # j => toBase[i] \cap toBase[j] = {}
  /\ \A i, j \in DOMAIN toMid : i # j => Fills(toMid[i]) \cap Fills(toMid[j]) = {}
  /\ \A i \in DOMAIN toBase, j \in DOMAIN toMid : toBase[i] \cap Fills(toMid[j]) = {}

\* The places of a channel whose first packet was taken.
LEMMA TailPlaces ==
  ASSUME NEW S, NEW s \in Seq(S), s # <<>>
  PROVE  /\ 1 \in DOMAIN s /\ Head(s) = s[1]
         /\ \A i \in DOMAIN Tail(s) : /\ i + 1 \in DOMAIN s /\ i + 1 # 1
                                      /\ Tail(s)[i] = s[i + 1]
         /\ \A i, j \in DOMAIN Tail(s) : i # j => i + 1 # j + 1
BY SMTT(30)

\* seed_all asks only for holes that nobody asked for.
LEMMA SeedAllAsksOnce ==
  ASSUME Bookkeeping, HolesOnce, NEW r \in Readers, NEW keys \in KeySets,
         seed_all(r, keys), toMid' = toMid
  PROVE  HolesOnce'
<1> DEFINE found  == {K \in keys : K \subseteq Filled(mid)}
           missed == Misses(r, keys \ found, Filled(mid))
           needed == needed_replays(waiting, missed)
<1>1. /\ waiting' = IF missed = {} THEN waiting ELSE on_replay_misses(waiting, missed)
      /\ toBase' = IF needed = {} THEN toBase ELSE Append(toBase, needed)
  BY DEF seed_all, Misses
<1> HIDE DEF found, missed
<1>2. /\ DOMAIN waiting.redos \subseteq DOMAIN waiting'.redos
      /\ needed \subseteq DOMAIN waiting'.redos
      /\ needed \cap DOMAIN waiting.redos = {}
  <2>1. CASE missed = {}
    <3>1. HolesIn(missed) = {}
      BY <2>1 DEF HolesIn
    <3> QED
      BY <1>1, <2>1, <3>1 DEF needed_replays
  <2>2. CASE missed # {}
    <3>1. waiting'.redos = on_replay_misses(waiting, missed).redos
      BY <1>1, <2>2
    <3>2. DOMAIN waiting'.redos = DOMAIN waiting.redos \cup HolesIn(missed)
      BY <3>1 DEF on_replay_misses
    <3> QED
      BY <3>2 DEF needed_replays
  <2> QED
    BY <2>1, <2>2
<1> HIDE DEF needed
<1>3. CASE needed = {}
  <2>1. toBase' = toBase
    BY <1>1, <1>3
  <2> QED
    BY <1>2, <2>1 DEF HolesOnce
<1>4. CASE needed # {}
  <2>1. toBase' = Append(toBase, needed)
    BY <1>1, <1>4
  <2>2. toBase \in Seq(KeySets) /\ needed \in KeySets
    <3>1. DOMAIN waiting'.redos \subseteq SUBSET Keys
      BY SeedAllKeeps
    <3> QED
      BY <1>2, <3>1 DEF Bookkeeping, ChannelTypes, KeySets
  <2> DEFINE n == Len(toBase) + 1
  <2>3. /\ n \notin DOMAIN toBase /\ DOMAIN Append(toBase, needed) = DOMAIN toBase \cup {n}
        /\ Append(toBase, needed)[n] = needed
        /\ \A i \in DOMAIN toBase : Append(toBase, needed)[i] = toBase[i]
    BY <2>2, SMTT(30)
  <2> HIDE DEF n
  <2>4. /\ n \notin DOMAIN toBase /\ DOMAIN toBase' = DOMAIN toBase \cup {n}
        /\ toBase'[n] = needed
        /\ \A i \in DOMAIN toBase : toBase'[i] = toBase[i]
    BY <2>1, <2>3
  <2>5. /\ \A i \in DOMAIN toBase : toBase[i] \cap needed = {}
        /\ \A i \in DOMAIN toMid : Fills(toMid[i]) \cap needed = {}
    BY <1>2 DEF HolesOnce
  <2>6. \A i \in DOMAIN toBase' : toBase'[i] \subseteq DOMAIN waiting'.redos
    BY <1>2, <2>4 DEF HolesOnce
  <2>7. \A i, j \in DOMAIN toBase' : i # j => toBase'[i] \cap toBase'[j] = {}
    BY <2>4, <2>5 DEF HolesOnce
  <2>8. \A i \in DOMAIN toBase', j \in DOMAIN toMid : toBase'[i] \cap Fills(toMid[j]) = {}
    BY <2>4, <2>5 DEF HolesOnce
  <2> QED
    BY <1>2, <2>6, <2>7, <2>8 DEF HolesOnce
<1> QED
  BY <1>3, <1>4

\* A packet that fills nothing leaves the backfills as they are.
LEMMA SendKeepsOnce ==
  ASSUME Bookkeeping, HolesOnce, NEW p \in PacketSet, p.type # "ReplayPiece",
         toMid' = Append(toMid, p), UNCHANGED <<waiting, toBase>>
  PROVE  HolesOnce'
<1>1. toMid \in Seq(PacketSet)
  BY DEF Bookkeeping, ChannelTypes
<1> DEFINE n == Len(toMid) + 1
<1>2. /\ n \notin DOMAIN toMid /\ DOMAIN Append(toMid, p) = DOMAIN toMid \cup {n}
      /\ Append(toMid, p)[n] = p
      /\ \A i \in DOMAIN toMid : Append(toMid, p)[i] = toMid[i]
  BY <1>1, SMTT(30)
<1> HIDE DEF n
<1>3. /\ n \notin DOMAIN toMid /\ DOMAIN toMid' = DOMAIN toMid \cup {n}
      /\ toMid'[n] = p
      /\ \A i \in DOMAIN toMid : toMid'[i] = toMid[i]
  BY <1>2
<1>4. Fills(toMid'[n]) = {} /\ \A i \in DOMAIN toMid : Fills(toMid'[i]) = Fills(toMid[i])
  BY <1>3 DEF Fills
<1> QED
  BY <1>3, <1>4 DEF HolesOnce

\* The base table answers a request: its holes move from one channel to the other.
LEMMA BaseReplayKeepsOnce ==
  ASSUME Bookkeeping, HolesOnce, BaseReplay PROVE HolesOnce'
<1> DEFINE p == ReplayPiece(Head(toBase), base)
<1>1. /\ toBase # <<>> /\ toBase' = Tail(toBase) /\ toMid' = Append(toMid, p)
      /\ UNCHANGED waiting
  BY DEF BaseReplay, midVars
<1>2. toBase \in Seq(KeySets) /\ toMid \in Seq(PacketSet)
  BY DEF Bookkeeping, ChannelTypes
<1>3. Head(toBase) \in KeySets
  BY <1>1, <1>2, HeadTailType
<1>4. p \in PacketSet
  <2>1. base \in Counts
    BY DEF Bookkeeping, Counts
  <2> QED
    BY <1>3, <2>1, ReplayPieceType
<1>5. Fills(p) = Head(toBase)
  BY DEF Fills, ReplayPiece
<1> HIDE DEF p
<1> DEFINE n == Len(toMid) + 1
<1>6. /\ n \notin DOMAIN toMid /\ DOMAIN Append(toMid, p) = DOMAIN toMid \cup {n}
      /\ Append(toMid, p)[n] = p
      /\ \A i \in DOMAIN toMid : Append(toMid, p)[i] = toMid[i]
  BY <1>2, <1>4, SMTT(30)
<1> HIDE DEF n
<1>7. /\ n \notin DOMAIN toMid /\ DOMAIN toMid' = DOMAIN toMid \cup {n}
      /\ toMid'[n] = p
      /\ \A i \in DOMAIN toMid : toMid'[i] = toMid[i]
  BY <1>1, <1>6
<1>8. /\ 1 \in DOMAIN toBase /\ Head(toBase) = toBase[1]
      /\ \A i \in DOMAIN toBase' : /\ i + 1 \in DOMAIN toBase /\ i + 1 # 1
                                   /\ toBase'[i] = toBase[i + 1]
      /\ \A i, j \in DOMAIN toBase' : i # j => i + 1 # j + 1
  BY <1>1, <1>2, TailPlaces
<1>9. Fills(toMid'[n]) = toBase[1] /\ \A i \in DOMAIN toMid : Fills(toMid'[i]) = Fills(toMid[i])
  BY <1>5, <1>7, <1>8
<1>10. /\ \A i \in DOMAIN toBase' : toBase'[i] \subseteq DOMAIN waiting'.redos
       /\ \A i \in DOMAIN toMid' : Fills(toMid'[i]) \subseteq DOMAIN waiting'.redos
  <2>1. waiting' = waiting
    BY <1>1
  <2>2. \A i \in DOMAIN toBase' : toBase'[i] \subseteq DOMAIN waiting.redos
    BY <1>8 DEF HolesOnce
  <2>3. \A i \in DOMAIN toMid' : Fills(toMid'[i]) \subseteq DOMAIN waiting.redos
    <3>1. Fills(toMid'[n]) \subseteq DOMAIN waiting.redos
      BY <1>8, <1>9 DEF HolesOnce
    <3>2. \A i \in DOMAIN toMid : Fills(toMid'[i]) \subseteq DOMAIN waiting.redos
      BY <1>9 DEF HolesOnce
    <3> QED
      BY <1>7, <3>1, <3>2
  <2> QED
    BY <2>1, <2>2, <2>3
<1>11. \A i, j \in DOMAIN toBase' : i # j => toBase'[i] \cap toBase'[j] = {}
  BY <1>8 DEF HolesOnce
<1>12. \A i, j \in DOMAIN toMid' : i # j => Fills(toMid'[i]) \cap Fills(toMid'[j]) = {}
  <2>1. \A j \in DOMAIN toMid : Fills(toMid'[n]) \cap Fills(toMid'[j]) = {}
    BY <1>8, <1>9 DEF HolesOnce
  <2>2. \A i, j \in DOMAIN toMid : i # j => Fills(toMid'[i]) \cap Fills(toMid'[j]) = {}
    BY <1>9 DEF HolesOnce
  <2> QED
    BY <1>7, <2>1, <2>2
<1>13. \A i \in DOMAIN toBase', j \in DOMAIN toMid' : toBase'[i] \cap Fills(toMid'[j]) = {}
  <2>1. \A i \in DOMAIN toBase' : toBase'[i] \cap Fills(toMid'[n]) = {}
    BY <1>8, <1>9 DEF HolesOnce
  <2>2. \A i \in DOMAIN toBase', j \in DOMAIN toMid : toBase'[i] \cap Fills(toMid'[j]) = {}
    BY <1>8, <1>9 DEF HolesOnce
  <2> QED
    BY <1>7, <2>1, <2>2
<1> QED
  BY <1>10, <1>11, <1>12, <1>13 DEF HolesOnce

\* mid takes a packet, and waits no longer for holes that the packet filled.
LEMMA ReceiveKeepsOnce ==
  ASSUME Bookkeeping, HolesOnce, toMid # <<>>, toMid' = Tail(toMid), UNCHANGED toBase,
         DOMAIN waiting.redos \ Fills(Head(toMid)) \subseteq DOMAIN waiting'.redos
  PROVE  HolesOnce'
<1>1. toMid \in Seq(PacketSet)
  BY DEF Bookkeeping, ChannelTypes
<1>2. /\ 1 \in DOMAIN toMid /\ Head(toMid) = toMid[1]
      /\ \A i \in DOMAIN toMid' : /\ i + 1 \in DOMAIN toMid /\ i + 1 # 1
                                  /\ toMid'[i] = toMid[i + 1]
      /\ \A i, j \in DOMAIN toMid' : i # j => i + 1 # j + 1
  BY <1>1, TailPlaces
<1>3. \A i \in DOMAIN toBase : toBase[i] \subseteq DOMAIN waiting'.redos
  BY <1>2 DEF HolesOnce
<1>4. \A i \in DOMAIN toMid' : Fills(toMid'[i]) \subseteq DOMAIN waiting'.redos
  <2> SUFFICES ASSUME NEW i \in DOMAIN toMid'
               PROVE  Fills(toMid'[i]) \subseteq DOMAIN waiting'.redos
    OBVIOUS
  <2>1. i + 1 \in DOMAIN toMid /\ i + 1 # 1 /\ toMid'[i] = toMid[i + 1]
    BY <1>2
  <2>2. Fills(toMid[i + 1]) \subseteq DOMAIN waiting.redos
    BY <2>1 DEF HolesOnce
  <2>3. Fills(toMid[i + 1]) \cap Fills(toMid[1]) = {}
    BY <1>2, <2>1 DEF HolesOnce
  <2> QED
    BY <1>2, <2>1, <2>2, <2>3
<1>5. \A i, j \in DOMAIN toMid' : i # j => Fills(toMid'[i]) \cap Fills(toMid'[j]) = {}
  <2> SUFFICES ASSUME NEW i \in DOMAIN toMid', NEW j \in DOMAIN toMid', i # j
               PROVE  Fills(toMid'[i]) \cap Fills(toMid'[j]) = {}
    OBVIOUS
  <2>1. /\ i + 1 \in DOMAIN toMid /\ toMid'[i] = toMid[i + 1]
        /\ j + 1 \in DOMAIN toMid /\ toMid'[j] = toMid[j + 1] /\ i + 1 # j + 1
    BY <1>2
  <2>2. Fills(toMid[i + 1]) \cap Fills(toMid[j + 1]) = {}
    BY <2>1 DEF HolesOnce
  <2> QED
    BY <2>1, <2>2
<1>6. \A i \in DOMAIN toBase, j \in DOMAIN toMid' : toBase[i] \cap Fills(toMid'[j]) = {}
  BY <1>2 DEF HolesOnce
<1> QED
  BY <1>3, <1>4, <1>5, <1>6 DEF HolesOnce

\* No step asks twice for a hole.
LEMMA HolesOnceInductive ==
  ASSUME Bookkeeping, HolesOnce, [Next]_vars PROVE HolesOnce'
<1>0. /\ delayed \in Seq([replica : Readers, keys : KeySets])
      /\ toMid \in Seq(PacketSet) /\ up \in [Readers -> Seq(KeySets)]
  BY DEF Bookkeeping, MidTypes, ChannelTypes
<1>1. ASSUME UNCHANGED <<waiting, toBase, toMid>> PROVE HolesOnce'
  BY <1>1 DEF HolesOnce
<1>2. ASSUME NEW k \in Keys, BaseWrite(k) PROVE HolesOnce'
  <2>1. toMid' = Append(toMid, Message(k)) /\ UNCHANGED <<waiting, toBase>>
    BY <1>2 DEF BaseWrite, midVars
  <2>2. Message(k) \in PacketSet /\ Message(k).type # "ReplayPiece"
    BY OtherPacketsType DEF Message
  <2> QED
    BY <2>1, <2>2, SendKeepsOnce
<1>3. ASSUME MidMessage PROVE HolesOnce'
  <2>1. toMid # <<>> /\ toMid' = Tail(toMid) /\ UNCHANGED <<waiting, toBase>>
    BY <1>3 DEF MidMessage
  <2> QED
    BY <2>1, ReceiveKeepsOnce
<1>4. ASSUME MidReplayPiece PROVE HolesOnce'
  <2>1. PICK done : /\ done \subseteq Head(toMid).for_keys
                    /\ toMid # <<>> /\ Head(toMid).type = "ReplayPiece"
                    /\ toMid' = Tail(toMid) /\ UNCHANGED toBase
                    /\ waiting' = after_backfill(waiting, done)
    BY <1>4 DEF MidReplayPiece, MidExpected
  <2>2. DOMAIN waiting'.redos = DOMAIN waiting.redos \ done
    BY <2>1 DEF after_backfill
  <2>3. DOMAIN waiting.redos \ Fills(Head(toMid)) \subseteq DOMAIN waiting'.redos
    BY <2>1, <2>2 DEF Fills
  <2> QED
    BY <2>1, <2>3, ReceiveKeepsOnce
<1>5. ASSUME MidDelayed PROVE HolesOnce'
  <2>1. /\ delayed # <<>> /\ seed_all(Head(delayed).replica, Head(delayed).keys)
        /\ toMid' = toMid
    BY <1>5 DEF MidDelayed
  <2>2. Head(delayed) \in [replica : Readers, keys : KeySets]
    BY <1>0, <2>1, HeadTailType
  <2> QED
    BY <2>1, <2>2, SeedAllAsksOnce
<1>6. ASSUME NEW r \in Readers, MidRequest(r) PROVE HolesOnce'
  <2>1. up[r] # <<>> /\ seed_all(r, Head(up[r])) /\ toMid' = toMid
    BY <1>6 DEF MidRequest
  <2>2. up[r] \in Seq(KeySets)
    BY <1>0
  <2>3. Head(up[r]) \in KeySets
    BY <2>1, <2>2, HeadTailType
  <2> QED
    BY <2>1, <2>3, SeedAllAsksOnce
<1>7. CASE \E r \in Readers : ReaderStep(r) \/ TakeRequest(r)
  BY <1>1, <1>7 DEF ReaderStep, ReaderMessage, ReaderReplayPiece, ReaderEvictKeys,
                    TakeRequest, ReaderRequest, midVars
<1>8. CASE \/ \E K \in SUBSET Keys : MidEvict(K)
           \/ \E r \in Readers, K \in SUBSET Keys : ReaderEvict(r, K)
           \/ \E r \in Readers : \E K \in Requests[r] : Ask(r, K)
  BY <1>1, <1>8 DEF MidEvict, ReaderEvict, Ask, midVars
<1>9. CASE BaseReplay
  BY <1>9, BaseReplayKeepsOnce
<1>10. CASE UNCHANGED vars
  BY <1>1, <1>10 DEF vars, midVars
<1> QED
  BY <1>2, <1>3, <1>4, <1>5, <1>6, <1>7, <1>8, <1>9, <1>10 DEF Next, Environment, MidStep

\* With a hash index no key is brought by two backfills under way, as the comment
\* on Waiting says, however many replicas wait for it and whenever it is evicted.
THEOREM PointsBackfilledOnce == ASSUME ~Ordered PROVE Spec => []HoleBackfilledOnce
<1>1. Init => HolesOnce
  <2> SUFFICES ASSUME Init PROVE HolesOnce
    OBVIOUS
  <2>1. DOMAIN toBase = {} /\ DOMAIN toMid = {}
    BY SMTT(30) DEF Init
  <2> QED
    BY <2>1 DEF HolesOnce
<1>2. HashInvariant /\ HolesOnce => HoleBackfilledOnce
  <2> SUFFICES ASSUME HashInvariant, HolesOnce, NEW k \in Keys,
                      NEW b \in Backfills(k), NEW c \in Backfills(k)
               PROVE  b = c
    BY DEF HoleBackfilledOnce
  <2>1. DOMAIN waiting.redos \subseteq Singletons
    BY DEF HashInvariant, PointKeys
  <2>2. ASSUME NEW x \in Backfills(k)
        PROVE  \/ \E i \in DOMAIN toBase : x = <<"toBase", i, {k}>> /\ {k} \in toBase[i]
               \/ \E i \in DOMAIN toMid : x = <<"toMid", i, {k}>> /\ {k} \in Fills(toMid[i])
    <3>1. CASE \E i \in DOMAIN toBase : \E h \in toBase[i] : k \in h /\ x = <<"toBase", i, h>>
      <4>1. PICK i \in DOMAIN toBase : \E h \in toBase[i] : k \in h /\ x = <<"toBase", i, h>>
        BY <3>1
      <4>2. PICK h \in toBase[i] : k \in h /\ x = <<"toBase", i, h>>
        BY <4>1
      <4>3. toBase[i] \subseteq DOMAIN waiting.redos
        BY DEF HolesOnce
      <4>4. h \in Singletons
        BY <2>1, <4>3
      <4>5. h = {k}
        BY <4>2, <4>4 DEF Singletons
      <4> QED
        BY <4>2, <4>5
    <3>2. CASE \E i \in DOMAIN toMid : \E h \in Fills(toMid[i]) : k \in h /\ x = <<"toMid", i, h>>
      <4>1. PICK i \in DOMAIN toMid : \E h \in Fills(toMid[i]) : k \in h /\ x = <<"toMid", i, h>>
        BY <3>2
      <4>2. PICK h \in Fills(toMid[i]) : k \in h /\ x = <<"toMid", i, h>>
        BY <4>1
      <4>3. Fills(toMid[i]) \subseteq DOMAIN waiting.redos
        BY DEF HolesOnce
      <4>4. h \in Singletons
        BY <2>1, <4>3
      <4>5. h = {k}
        BY <4>2, <4>4 DEF Singletons
      <4> QED
        BY <4>2, <4>5
    <3>3. \/ \E i \in DOMAIN toBase : \E h \in toBase[i] : k \in h /\ x = <<"toBase", i, h>>
          \/ \E i \in DOMAIN toMid : /\ toMid[i].type = "ReplayPiece"
                                     /\ \E h \in toMid[i].for_keys :
                                          k \in h /\ x = <<"toMid", i, h>>
      <4>1. CASE x \in RequestsOf(k)
        <5>1. PICK i \in DOMAIN toBase : x \in {<<"toBase", i, h>> : h \in {g \in toBase[i] : k \in g}}
          BY <4>1 DEF RequestsOf
        <5>2. PICK h \in {g \in toBase[i] : k \in g} : x = <<"toBase", i, h>>
          BY <5>1
        <5> QED
          BY <5>2
      <4>2. CASE x \in AnswersWith(k)
        <5>1. PICK i \in {j \in DOMAIN toMid : toMid[j].type = "ReplayPiece"} :
                x \in {<<"toMid", i, h>> : h \in {g \in toMid[i].for_keys : k \in g}}
          BY <4>2 DEF AnswersWith
        <5>2. PICK h \in {g \in toMid[i].for_keys : k \in g} : x = <<"toMid", i, h>>
          BY <5>1
        <5> QED
          BY <5>2
      <4> QED
        BY <2>2, <4>1, <4>2 DEF Backfills
    <3>4. \A i \in DOMAIN toMid : toMid[i].type = "ReplayPiece" =>
                                 toMid[i].for_keys = Fills(toMid[i])
      BY DEF Fills
    <3> QED
      BY <3>1, <3>2, <3>3, <3>4
  <2>3. CASE \E i \in DOMAIN toBase : b = <<"toBase", i, {k}>> /\ {k} \in toBase[i]
    BY <2>2, <2>3 DEF HolesOnce
  <2>4. CASE \E i \in DOMAIN toMid : b = <<"toMid", i, {k}>> /\ {k} \in Fills(toMid[i])
    BY <2>2, <2>4 DEF HolesOnce
  <2> QED
    BY <2>2, <2>3, <2>4
<1>3. Bookkeeping /\ HolesOnce /\ [Next]_vars => HolesOnce'
  BY HolesOnceInductive
<1> QED
  BY <1>1, <1>2, <1>3, BookkeepingInvariant, HashInvariantHolds, PTL DEF Spec
=============================================================================
