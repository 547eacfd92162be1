------------------------ MODULE MonotonicReadsProofs ------------------------
(***************************************************************************)
(* A reader of Upqueries under a hash index never shows fewer rows than it *)
(* has shown, although an eviction makes it forget and a later replay      *)
(* brings the key back: what a channel still brings of a key never falls   *)
(* below what was shown of it, and neither does what mid will hold.        *)
(***************************************************************************)
EXTENDS FlowProofs

\* Zenon proves the leaves that do not name the SMT solver.
USE ZenonT(30)

(* Monotonic reads.                                                         *)

RowsBehind(ch, i, k) == Cardinality(After(ch, i, k))

\* The replays of key k in a channel.
Pieces(ch, k) == {i \in DOMAIN ch : ch[i].type = "ReplayPiece" /\ k \in UNION ch[i].for_keys}

\* What a state that takes the replay at position i will have shown when the
\* channel is empty.
Level(ch, i, k) == ch[i].data[k] + RowsBehind(ch, i, k)

\* Along a channel of a key of which n rows were shown, and m have passed the
\* source, the levels never fall.
Rises(ch, k, n, m) ==
  /\ n + RowsBehind(ch, 0, k) <= m
  /\ \A i \in Pieces(ch, k) : n + RowsBehind(ch, 0, k) <= Level(ch, i, k) /\ Level(ch, i, k) <= m
  /\ \A i, j \in Pieces(ch, k) : i < j => Level(ch, i, k) <= Level(ch, j, k)

\* A replay has a level.
LEMMA LevelType ==
  ASSUME NEW ch \in Seq(PacketSet), NEW k
  PROVE  /\ RowsBehind(ch, 0, k) \in Nat /\ RowsBehind(ch, 1, k) \in Nat
         /\ \A i \in Pieces(ch, k) : /\ i \in 1..Len(ch) /\ k \in Keys
                                     /\ ch[i].data[k] \in Nat
                                     /\ RowsBehind(ch, i, k) \in Nat /\ Level(ch, i, k) \in Nat
<1>1. \A i : RowsBehind(ch, i, k) \in Nat
  BY AfterFinite DEF RowsBehind
<1>2. \A i \in Pieces(ch, k) : i \in 1..Len(ch) /\ k \in Keys /\ ch[i].data[k] \in Nat
  BY PieceFields, SMTT(30) DEF Pieces
<1> QED
  BY <1>1, <1>2, SMTT(30) DEF Level

\* An empty channel has neither rows nor replays.
LEMMA EmptyChannel ==
  ASSUME NEW k
  PROVE  RowsBehind(<<>>, 0, k) = 0 /\ Pieces(<<>>, k) = {}
<1>1. DOMAIN <<>> = {}
  BY SMTT(30)
<1>2. After(<<>>, 0, k) = {} /\ Pieces(<<>>, k) = {}
  BY <1>1 DEF After, Pieces
<1>3. Cardinality({}) = 0
  BY FS_EmptySet
<1> QED
  BY <1>2, <1>3 DEF RowsBehind

\* A row of the key is sent, and counted as passed.
LEMMA RisesRow ==
  ASSUME NEW ch \in Seq(PacketSet), NEW k \in Keys, NEW n \in Nat, NEW m \in Nat,
         Rises(ch, k, n, m)
  PROVE  Rises(Append(ch, Message(k)), k, n, m + 1)
<1> DEFINE p == Message(k)
           new == Append(ch, p)
<1>0. p \in PacketSet /\ p.type = "Message" /\ p.key = k
  BY OtherPacketsType DEF Message
<1> HIDE DEF p
<1>1. /\ DOMAIN new = 1..(Len(ch) + 1) /\ DOMAIN ch = 1..Len(ch) /\ Len(ch) \in Nat
      /\ new[Len(ch) + 1] = p
      /\ \A j \in 1..Len(ch) : new[j] = ch[j]
  BY <1>0, SMTT(30)
<1>2. \A i \in 0..Len(ch) : RowsBehind(new, i, k) = RowsBehind(ch, i, k) + 1
  BY <1>0, AfterSend DEF RowsBehind
<1> HIDE DEF new
<1>3. Pieces(new, k) = Pieces(ch, k)
  BY <1>0, <1>1, SMTT(30) DEF Pieces
<1>4. ASSUME NEW i \in Pieces(ch, k) PROVE Level(new, i, k) = Level(ch, i, k) + 1
  <2>1. i \in 1..Len(ch) /\ ch[i].data[k] \in Nat /\ RowsBehind(ch, i, k) \in Nat
    BY LevelType
  <2>2. new[i] = ch[i] /\ RowsBehind(new, i, k) = RowsBehind(ch, i, k) + 1
    BY <1>1, <1>2, <2>1, SMTT(30)
  <2>3. Level(new, i, k) = ch[i].data[k] + (RowsBehind(ch, i, k) + 1)
    BY <2>2 DEF Level
  <2>4. Level(ch, i, k) = ch[i].data[k] + RowsBehind(ch, i, k)
    BY DEF Level
  <2>5. \A a, b \in Nat : a + (b + 1) = (a + b) + 1
    BY SMTT(30)
  <2>6. ch[i].data[k] + (RowsBehind(ch, i, k) + 1) = (ch[i].data[k] + RowsBehind(ch, i, k)) + 1
    BY <2>1, <2>5
  <2> QED
    BY <2>3, <2>4, <2>6
<1>5. RowsBehind(new, 0, k) = RowsBehind(ch, 0, k) + 1
  BY <1>1, <1>2, SMTT(30)
<1> QED
  BY <1>3, <1>4, <1>5, LevelType, SMTT(30) DEF Rises, new, p

\* Another packet is sent; a replay of the key carries all the rows that passed.
LEMMA RisesSend ==
  ASSUME NEW ch \in Seq(PacketSet), NEW p \in PacketSet,
         NEW k \in Keys, NEW n \in Nat, NEW m \in Nat,
         Rises(ch, k, n, m), ~(p.type = "Message" /\ p.key = k),
         p.type = "ReplayPiece" /\ k \in UNION p.for_keys => p.data[k] = m
  PROVE  Rises(Append(ch, p), k, n, m)
<1> DEFINE new == Append(ch, p)
<1>1. /\ DOMAIN new = 1..(Len(ch) + 1) /\ DOMAIN ch = 1..Len(ch) /\ Len(ch) \in Nat
      /\ new[Len(ch) + 1] = p
      /\ \A j \in 1..Len(ch) : new[j] = ch[j]
  BY SMTT(30)
<1>2. \A i \in 0..Len(ch) : RowsBehind(new, i, k) = RowsBehind(ch, i, k)
  BY AfterSend DEF RowsBehind
<1> HIDE DEF new
<1>3. \A i \in Pieces(new, k) : i \in Pieces(ch, k) \/ (i = Len(ch) + 1 /\ p.data[k] = m)
  BY <1>1, SMTT(30) DEF Pieces
<1>4. \A i \in Pieces(ch, k) : Level(new, i, k) = Level(ch, i, k) /\ i < Len(ch) + 1
  <2>1. \A i \in Pieces(ch, k) :
          i \in 1..Len(ch) /\ new[i] = ch[i] /\ RowsBehind(new, i, k) = RowsBehind(ch, i, k)
    BY <1>1, <1>2, LevelType, SMTT(30)
  <2> QED
    BY <1>1, <2>1, SMTT(30) DEF Level
<1>5. p.data[k] = m => Level(new, Len(ch) + 1, k) = m
  <2>1. After(new, Len(ch) + 1, k) = {}
    BY <1>1, SMTT(30) DEF After
  <2>2. RowsBehind(new, Len(ch) + 1, k) = 0
    BY <2>1, FS_EmptySet DEF RowsBehind
  <2> QED
    BY <1>1, <2>2, SMTT(30) DEF Level
<1>6. RowsBehind(new, 0, k) = RowsBehind(ch, 0, k)
  BY <1>1, <1>2, SMTT(30)
<1>7. n + RowsBehind(new, 0, k) <= m
  BY <1>6 DEF Rises
<1>8. ASSUME NEW i \in Pieces(new, k)
      PROVE  n + RowsBehind(new, 0, k) <= Level(new, i, k) /\ Level(new, i, k) <= m
  <2>1. CASE i \in Pieces(ch, k)
    BY <1>4, <1>6, <2>1 DEF Rises
  <2>2. CASE i = Len(ch) + 1 /\ p.data[k] = m
    BY <1>5, <1>7, <2>2, SMTT(30)
  <2> QED
    BY <1>3, <2>1, <2>2
<1>9. ASSUME NEW i \in Pieces(new, k), NEW j \in Pieces(new, k), i < j
      PROVE  Level(new, i, k) <= Level(new, j, k)
  <2>1. CASE j \in Pieces(ch, k)
    <3>1. i \in Pieces(ch, k)
      BY <1>1, <1>3, <1>4, <1>9, <2>1, LevelType, SMTT(30)
    <3> QED
      BY <1>4, <1>9, <2>1, <3>1 DEF Rises
  <2>2. CASE j = Len(ch) + 1 /\ p.data[k] = m
    BY <1>5, <1>8, <2>2
  <2> QED
    BY <1>3, <2>1, <2>2
<1> QED
  BY <1>7, <1>8, <1>9 DEF Rises, new

\* More rows pass the source.
LEMMA RisesSource ==
  ASSUME NEW ch \in Seq(PacketSet), NEW k, NEW n \in Nat, NEW m \in Nat,
         NEW new_m \in Nat, m <= new_m, Rises(ch, k, n, m)
  PROVE  Rises(ch, k, n, new_m)
BY LevelType, SMTT(30) DEF Rises

\* The first packet is taken, and what it shows is no more than it promises.
LEMMA RisesReceive ==
  ASSUME NEW ch \in Seq(PacketSet), ch # <<>>, NEW k, NEW n \in Nat, NEW m \in Nat,
         NEW new_n \in Nat, Rises(ch, k, n, m),
         \/ new_n + RowsBehind(ch, 1, k) <= n + RowsBehind(ch, 0, k)
         \/ 1 \in Pieces(ch, k) /\ new_n = ch[1].data[k]
  PROVE  Rises(Tail(ch), k, new_n, m)
<1> DEFINE T == Tail(ch)
<1>1. /\ Len(ch) \in Nat /\ Len(ch) > 0
      /\ DOMAIN T = 1..(Len(ch) - 1) /\ DOMAIN ch = 1..Len(ch)
      /\ \A j \in 1..(Len(ch) - 1) : T[j] = ch[j + 1]
  BY SMTT(30)
<1>2. \A i \in 0..(Len(ch) - 1) : RowsBehind(T, i, k) = RowsBehind(ch, i + 1, k)
  BY AfterReceive DEF RowsBehind
<1> HIDE DEF T
<1>3. \A i \in Pieces(T, k) : i \in Nat /\ i > 0 /\ i + 1 \in Pieces(ch, k)
  BY <1>1, SMTT(30) DEF Pieces
<1>4. \A i \in Pieces(T, k) : Level(T, i, k) = Level(ch, i + 1, k)
  <2>1. \A i \in Pieces(T, k) : T[i] = ch[i + 1] /\ i \in 0..(Len(ch) - 1)
    BY <1>1, SMTT(30) DEF Pieces
  <2> QED
    BY <1>2, <2>1 DEF Level
<1>5. RowsBehind(T, 0, k) = RowsBehind(ch, 1, k)
  BY <1>1, <1>2, SMTT(30)
<1>6. CASE new_n + RowsBehind(ch, 1, k) <= n + RowsBehind(ch, 0, k)
  <2>1. new_n + RowsBehind(T, 0, k) <= m
    BY <1>5, <1>6, LevelType, SMTT(30) DEF Rises
  <2>2. \A i \in Pieces(T, k) :
          new_n + RowsBehind(T, 0, k) <= Level(T, i, k) /\ Level(T, i, k) <= m
    BY <1>3, <1>4, <1>5, <1>6, LevelType, SMTT(30) DEF Rises
  <2>3. \A i, j \in Pieces(T, k) : i < j => Level(T, i, k) <= Level(T, j, k)
    BY <1>3, <1>4, SMTT(30) DEF Rises
  <2> QED
    BY <2>1, <2>2, <2>3 DEF Rises, T
<1>7. CASE 1 \in Pieces(ch, k) /\ new_n = ch[1].data[k]
  <2>0. new_n + RowsBehind(T, 0, k) = Level(ch, 1, k)
    BY <1>5, <1>7 DEF Level
  <2>1. new_n + RowsBehind(T, 0, k) <= m
    BY <1>7, <2>0 DEF Rises
  <2>2. \A i \in Pieces(T, k) :
          new_n + RowsBehind(T, 0, k) <= Level(T, i, k) /\ Level(T, i, k) <= m
    BY <1>3, <1>4, <1>7, <2>0, SMTT(30) DEF Rises
  <2>3. \A i, j \in Pieces(T, k) : i < j => Level(T, i, k) <= Level(T, j, k)
    BY <1>3, <1>4, SMTT(30) DEF Rises
  <2> QED
    BY <2>1, <2>2, <2>3 DEF Rises, T
<1> QED
  BY <1>6, <1>7

\* The writes to key k that mid has seen, as rows it stored or dropped.
Passed(k) == base[k] - RowsBehind(toMid, 0, k)

Rising ==
  \A r \in Readers, k \in Keys :
    /\ read[r][k] # Hole => seen[r][k] = read[r][k]
    /\ Rises(down[r], k, seen[r][k], Passed(k))

NeverFalls ==
  \A r \in Readers, k \in Keys : read'[r][k] # Hole => read'[r][k] >= seen[r][k]

\* A write counts as passed when mid takes it.
LEMMA PassedType ==
  ASSUME Bookkeeping, NEW k \in Keys PROVE Passed(k) \in Int
<1>1. base[k] \in Nat /\ toMid \in Seq(PacketSet)
  BY DEF Bookkeeping, ChannelTypes
<1> QED
  BY <1>1, LevelType, SMTT(30) DEF Passed

\* As long as a reader exists, no more is in flight than was written.
LEMMA PassedNat ==
  ASSUME Bookkeeping, Rising, NEW r \in Readers, NEW k \in Keys
  PROVE  Passed(k) \in Nat /\ seen[r][k] \in Nat
<1>1. seen[r][k] \in Nat /\ down[r] \in Seq(PacketSet)
  BY DEF Bookkeeping, ReaderTypes, ChannelTypes
<1>2. RowsBehind(down[r], 0, k) \in Nat
  BY <1>1, LevelType
<1>3. seen[r][k] + RowsBehind(down[r], 0, k) <= Passed(k)
  BY DEF Rising, Rises
<1> QED
  BY <1>1, <1>2, <1>3, PassedType, SMTT(30)

\* Sending to mid changes nothing of what passed.
LEMMA PassedSend ==
  ASSUME Bookkeeping, NEW k \in Keys, NEW p \in PacketSet, toMid' = Append(toMid, p),
         ~(p.type = "Message" /\ p.key = k) => base'[k] = base[k],
         p.type = "Message" /\ p.key = k => base'[k] = base[k] + 1
  PROVE  Passed(k)' = Passed(k)
<1>1. base[k] \in Nat /\ toMid \in Seq(PacketSet) /\ 0 \in 0..Len(toMid)
  BY SMTT(30) DEF Bookkeeping, ChannelTypes
<1>2. RowsBehind(toMid, 0, k) \in Nat
  BY <1>1, LevelType
<1>3. CASE ~(p.type = "Message" /\ p.key = k)
  <2>1. RowsBehind(Append(toMid, p), 0, k) = RowsBehind(toMid, 0, k)
    BY <1>1, <1>3, AfterSend DEF RowsBehind
  <2> QED
    BY <1>3, <2>1 DEF Passed
<1>4. CASE p.type = "Message" /\ p.key = k
  <2>1. RowsBehind(Append(toMid, p), 0, k) = RowsBehind(toMid, 0, k) + 1
    BY <1>1, <1>4, AfterSend DEF RowsBehind
  <2>2. Passed(k)' = (base[k] + 1) - (RowsBehind(toMid, 0, k) + 1)
    BY <1>4, <2>1 DEF Passed
  <2> QED
    BY <1>1, <1>2, <2>2, SMTT(30) DEF Passed
<1> QED
  BY <1>3, <1>4

LEMMA PassedReceive ==
  ASSUME Bookkeeping, NEW k \in Keys, toMid # <<>>, toMid' = Tail(toMid), UNCHANGED base
  PROVE  /\ ~(Head(toMid).type = "Message" /\ Head(toMid).key = k) => Passed(k)' = Passed(k)
         /\ Head(toMid).type = "Message" /\ Head(toMid).key = k => Passed(k)' = Passed(k) + 1
<1>1. base[k] \in Nat /\ toMid \in Seq(PacketSet) /\ 0 \in 0..(Len(toMid) - 1) /\ 0 + 1 = 1
  BY SMTT(30) DEF Bookkeeping, ChannelTypes
<1>2. RowsBehind(toMid, 0, k) \in Nat /\ RowsBehind(toMid, 1, k) \in Nat
  BY <1>1, LevelType
<1>3. RowsBehind(Tail(toMid), 0, k) = RowsBehind(toMid, 1, k)
  BY <1>1, AfterReceive DEF RowsBehind
<1>4. Passed(k)' = base[k] - RowsBehind(toMid, 1, k)
  BY <1>3 DEF Passed
<1>5. CASE ~(Head(toMid).type = "Message" /\ Head(toMid).key = k)
  <2>1. RowsBehind(toMid, 0, k) = RowsBehind(toMid, 1, k)
    BY <1>1, <1>5, AfterFirst DEF RowsBehind
  <2> QED
    BY <1>4, <1>5, <2>1 DEF Passed
<1>6. CASE Head(toMid).type = "Message" /\ Head(toMid).key = k
  <2>1. RowsBehind(toMid, 0, k) = RowsBehind(toMid, 1, k) + 1
    BY <1>1, <1>6, AfterFirst DEF RowsBehind
  <2>2. Passed(k) = base[k] - (RowsBehind(toMid, 1, k) + 1)
    BY <2>1 DEF Passed
  <2> QED
    BY <1>1, <1>2, <1>4, <1>6, <2>2, SMTT(30)
<1> QED
  BY <1>5, <1>6

\* A step that shows nothing new.
LEMMA RisingElsewhere ==
  ASSUME Rising, UNCHANGED <<read, seen>>,
         \A r \in Readers, k \in Keys : Rises(down'[r], k, seen[r][k], Passed(k)')
  PROVE  Rising'
BY DEF Rising

LEMMA NothingFalls ==
  ASSUME Bookkeeping, Rising, UNCHANGED read PROVE NeverFalls
<1> SUFFICES ASSUME NEW r \in Readers, NEW k \in Keys, read[r][k] # Hole
             PROVE  read[r][k] >= seen[r][k]
  BY DEF NeverFalls
<1>1. seen[r][k] = read[r][k] /\ seen[r][k] \in Nat
  BY DEF Rising, Bookkeeping, ReaderTypes
<1> QED
  BY <1>1, SMTT(30)

\* A step of a reader that publishes new contents.
LEMMA RisingAtReader ==
  ASSUME Bookkeeping, Rising, NEW r \in Readers, NEW contents \in Counts,
         UNCHANGED <<toMid, base>>, swap(r, contents),
         down' = [down EXCEPT ![r] = down'[r]],
         \A k \in Keys :
           /\ contents[k] # Hole => contents[k] >= seen[r][k]
           /\ Rises(down'[r], k, IF contents[k] = Hole THEN seen[r][k] ELSE contents[k],
                    Passed(k))
  PROVE  Rising' /\ NeverFalls
<1>1. /\ down \in [Readers -> Seq(PacketSet)] /\ read \in [Readers -> Counts]
      /\ seen \in [Readers -> [Keys -> Nat]]
  BY DEF Bookkeeping, ReaderTypes, ChannelTypes
<1>2. \A k \in Keys : Passed(k)' = Passed(k)
  BY DEF Passed
<1>3. ASSUME NEW s \in Readers, s # r
      PROVE  down'[s] = down[s] /\ read'[s] = read[s] /\ seen'[s] = seen[s]
  BY <1>1, <1>3 DEF swap
<1>4. /\ read'[r] = contents
      /\ \A k \in Keys : seen'[r][k] = IF contents[k] = Hole THEN seen[r][k] ELSE contents[k]
  BY <1>1 DEF swap
<1>5. ASSUME NEW s \in Readers, NEW k \in Keys
      PROVE  /\ read'[s][k] # Hole => seen'[s][k] = read'[s][k]
             /\ Rises(down'[s], k, seen'[s][k], Passed(k)')
             /\ read'[s][k] # Hole => read'[s][k] >= seen[s][k]
  <2>1. CASE s = r
    <3>1. Rises(down'[r], k, seen'[r][k], Passed(k))
      BY <1>4
    <3> QED
      BY <1>2, <1>4, <2>1, <3>1
  <2>2. CASE s # r
    <3>1. /\ read[s][k] # Hole => seen[s][k] = read[s][k]
          /\ Rises(down[s], k, seen[s][k], Passed(k))
          /\ seen[s][k] \in Nat
      BY <1>1, SMTT(30) DEF Rising
    <3>2. seen[s][k] >= seen[s][k]
      BY <3>1, SMTT(30)
    <3> QED
      BY <1>2, <1>3, <2>2, <3>1, <3>2
  <2> QED
    BY <2>1, <2>2
<1> QED
  BY <1>5 DEF Rising, NeverFalls

\* Writes, replays and evictions that race never make a reader show less than
\* it has shown.
LEMMA RisingInductive ==
  ASSUME ~Ordered, HashInvariant, Rising, [Next]_vars PROVE Rising' /\ NeverFalls
<1>0. /\ Bookkeeping /\ PointKeys /\ Flows
      /\ base \in [Keys -> Nat] /\ mid \in Counts /\ read \in [Readers -> Counts]
      /\ seen \in [Readers -> [Keys -> Nat]]
      /\ toBase \in Seq(KeySets) /\ toMid \in Seq(PacketSet)
      /\ down \in [Readers -> Seq(PacketSet)]
  BY DEF HashInvariant, Bookkeeping, MidTypes, ReaderTypes, ChannelTypes
<1>01. \A r \in Readers : read[r] \in Counts /\ down[r] \in Seq(PacketSet)
  BY <1>0
<1>02. ASSUME NEW r \in Readers, NEW k \in Keys
       PROVE  /\ Passed(k) \in Nat /\ seen[r][k] \in Nat
              /\ Rises(down[r], k, seen[r][k], Passed(k))
              /\ read[r][k] # Hole => seen[r][k] = read[r][k] /\ read[r][k] >= seen[r][k]
  <2>1. Passed(k) \in Nat /\ seen[r][k] \in Nat
    BY <1>0, PassedNat
  <2> QED
    BY <2>1, SMTT(30) DEF Rising
<1>1. ASSUME UNCHANGED <<read, seen, down>>,
             \A k \in Keys : Passed(k)' = Passed(k)
      PROVE  Rising' /\ NeverFalls
  <2>1. \A r \in Readers, k \in Keys : Rises(down'[r], k, seen[r][k], Passed(k)')
    BY <1>1, <1>02
  <2> QED
    BY <1>0, <1>1, <2>1, RisingElsewhere, NothingFalls
<1>2. ASSUME NEW k \in Keys, BaseWrite(k) PROVE Rising' /\ NeverFalls
  <2>1. /\ base' = [base EXCEPT ![k] = @ + 1] /\ toMid' = Append(toMid, Message(k))
        /\ UNCHANGED <<read, seen, down>>
    BY <1>2 DEF BaseWrite, midVars, readerVars
  <2>2. Message(k) \in PacketSet /\ Message(k).type = "Message" /\ Message(k).key = k
    BY OtherPacketsType DEF Message
  <2>3. \A l \in Keys : Passed(l)' = Passed(l)
    BY <1>0, <2>1, <2>2, PassedSend
  <2> QED
    BY <1>1, <2>1, <2>3
<1>3. ASSUME BaseReplay PROVE Rising' /\ NeverFalls
  <2> DEFINE p == ReplayPiece(Head(toBase), base)
  <2>1. /\ toBase # <<>> /\ toMid' = Append(toMid, p)
        /\ UNCHANGED <<base, read, seen, down>>
    BY <1>3 DEF BaseReplay, midVars, readerVars
  <2>2. Head(toBase) \in KeySets /\ base \in Counts
    BY <1>0, <2>1, HeadTailType DEF Counts
  <2>3. p \in PacketSet /\ p.type = "ReplayPiece"
    BY <2>2, ReplayPieceType DEF ReplayPiece
  <2> HIDE DEF p
  <2>4. \A l \in Keys : Passed(l)' = Passed(l)
    BY <1>0, <2>1, <2>3, PassedSend
  <2> QED
    BY <1>1, <2>1, <2>4
<1>4. ASSUME MidMessage PROVE Rising' /\ NeverFalls
  <2>1. PICK k :
          /\ toMid # <<>> /\ Head(toMid).type = "Message" /\ toMid' = Tail(toMid)
          /\ k = Head(toMid).key
          /\ \/ down' = down
             \/ down' = [r \in Readers |-> IF Passes(NodeOf[r], k)
                                           THEN Append(down[r], Message(k))
                                           ELSE down[r]]
          /\ UNCHANGED <<base, read, seen>>
    BY <1>4 DEF MidMessage, readerVars
  <2>2. k \in Keys
    <3>1. Head(toMid) \in PacketSet
      BY <1>0, <2>1, HeadTailType
    <3> QED
      BY <2>1, <3>1, PacketFields
  <2>3. /\ Passed(k)' = Passed(k) + 1
        /\ \A l \in Keys : l # k => Passed(l)' = Passed(l)
    BY <1>0, <2>1, <2>2, PassedReceive
  <2>4. Message(k) \in PacketSet /\ Message(k).type = "Message" /\ Message(k).key = k
    BY <2>2, OtherPacketsType DEF Message
  <2>5. ASSUME NEW r \in Readers, NEW l \in Keys
        PROVE  Rises(down'[r], l, seen[r][l], Passed(l)')
    <3>1. down'[r] \in {down[r], Append(down[r], Message(k))}
      BY <2>1
    <3>2. CASE l = k
      <4>1. Rises(Append(down[r], Message(k)), k, seen[r][k], Passed(k) + 1)
        BY <1>01, <1>02, <2>2, RisesRow
      <4>2. Passed(k) + 1 \in Nat /\ Passed(k) <= Passed(k) + 1
        BY <1>02, <2>2, SMTT(30)
      <4>3. Rises(down[r], k, seen[r][k], Passed(k) + 1)
        BY <1>01, <1>02, <2>2, <4>2, RisesSource
      <4> QED
        BY <2>3, <3>1, <3>2, <4>1, <4>3
    <3>3. CASE l # k
      <4>1. Rises(Append(down[r], Message(k)), l, seen[r][l], Passed(l))
        BY <1>01, <1>02, <2>4, <3>3, RisesSend
      <4> QED
        BY <1>02, <2>3, <3>1, <3>3, <4>1
    <3> QED
      BY <3>2, <3>3
  <2> QED
    BY <1>0, <2>1, <2>5, RisingElsewhere, NothingFalls
<1>5. ASSUME MidReplayPiece PROVE Rising' /\ NeverFalls
  <2>1. /\ toMid # <<>> /\ Head(toMid).type = "ReplayPiece" /\ toMid' = Tail(toMid)
        /\ UNCHANGED <<base, read, seen, down>>
    BY <1>5 DEF MidReplayPiece, readerVars
  <2>2. \A l \in Keys : Passed(l)' = Passed(l)
    BY <1>0, <2>1, PassedReceive
  <2> QED
    BY <1>1, <2>1, <2>2
<1>6. ASSUME NEW r \in Readers, NEW keys \in KeySets, seed_all(r, keys),
             UNCHANGED <<base, mid, read, seen, toMid>>
      PROVE  Rising' /\ NeverFalls
  <2> DEFINE found == {K \in keys : K \subseteq Filled(mid)}
             p == ReplayPiece(found, mid)
  <2>1. down' = IF found = {} THEN down ELSE [down EXCEPT ![r] = Append(@, p)]
    BY <1>6 DEF seed_all
  <2>2. p \in PacketSet /\ p.type = "ReplayPiece" /\ p.for_keys = found
    BY <1>0, ReplayPieceType DEF ReplayPiece, KeySets
  <2>3. \A k \in UNION found : p.data[k] = Passed(k)
    <3> SUFFICES ASSUME NEW k \in UNION found PROVE p.data[k] = Passed(k)
      OBVIOUS
    <3>1. k \in Filled(mid)
      OBVIOUS
    <3>2. k \in Keys /\ mid[k] # Hole /\ mid[k] \in Nat /\ base[k] \in Nat
      BY <1>0, <3>1 DEF Filled, Counts
    <3>3. p.data[k] = mid[k]
      BY <3>2, ReplayPieceRows, SMTT(30)
    <3>4. mid[k] + InFlight(toMid, k) = base[k]
      BY <1>0, <3>1, FlowsMidCurrent DEF MidCurrent
    <3>5. mid[k] + RowsBehind(toMid, 0, k) = base[k] /\ RowsBehind(toMid, 0, k) \in Nat
      BY <1>0, <3>4, InFlightIsAfter, LevelType DEF RowsBehind
    <3> QED
      BY <3>2, <3>3, <3>5, SMTT(30) DEF Passed
  <2> HIDE DEF found, p
  <2>4. \A k \in Keys : Passed(k)' = Passed(k)
    BY <1>6 DEF Passed
  <2>5. ASSUME NEW s \in Readers, NEW k \in Keys
        PROVE  Rises(down'[s], k, seen[s][k], Passed(k)')
    <3>1. down'[s] \in {down[s], Append(down[s], p)}
      BY <1>0, <2>1
    <3>2. Rises(Append(down[s], p), k, seen[s][k], Passed(k))
      BY <1>01, <1>02, <2>2, <2>3, RisesSend
    <3> QED
      BY <1>02, <2>4, <3>1, <3>2
  <2> QED
    BY <1>0, <1>6, <2>5, RisingElsewhere, NothingFalls
<1>7. ASSUME MidDelayed PROVE Rising' /\ NeverFalls
  <2>1. /\ delayed # <<>> /\ seed_all(Head(delayed).replica, Head(delayed).keys)
        /\ UNCHANGED <<base, mid, read, seen, toMid>>
    BY <1>7 DEF MidDelayed, readerVars
  <2>2. delayed \in Seq([replica : Readers, keys : KeySets])
    BY <1>0 DEF Bookkeeping, MidTypes
  <2>3. Head(delayed) \in [replica : Readers, keys : KeySets]
    BY <2>1, <2>2, HeadTailType
  <2>4. Head(delayed).replica \in Readers /\ Head(delayed).keys \in KeySets
    BY <2>3
  <2> QED
    BY <1>6, <2>1, <2>4
<1>8. ASSUME NEW r \in Readers, MidRequest(r) PROVE Rising' /\ NeverFalls
  <2>1. /\ up[r] # <<>> /\ seed_all(r, Head(up[r]))
        /\ UNCHANGED <<base, mid, read, seen, toMid>>
    BY <1>8 DEF MidRequest, readerVars
  <2>2. up[r] \in Seq(KeySets)
    BY <1>0 DEF Bookkeeping, ChannelTypes
  <2>3. Head(up[r]) \in KeySets
    BY <2>1, <2>2, HeadTailType
  <2> QED
    BY <1>6, <2>1, <2>3
<1>9. ASSUME NEW K \in SUBSET Keys, MidEvict(K) PROVE Rising' /\ NeverFalls
  <2> DEFINE p == EvictKeys(K)
  <2>1. down' = ToAll(p) /\ UNCHANGED <<base, read, seen, toMid>>
    BY <1>9 DEF MidEvict, readerVars
  <2>2. p \in PacketSet /\ p.type = "EvictKeys"
    BY OtherPacketsType DEF EvictKeys
  <2> HIDE DEF p
  <2>3. \A k \in Keys : Passed(k)' = Passed(k)
    BY <2>1 DEF Passed
  <2>4. ASSUME NEW s \in Readers, NEW k \in Keys
        PROVE  Rises(down'[s], k, seen[s][k], Passed(k)')
    <3>1. down'[s] = Append(down[s], p)
      BY <2>1 DEF ToAll
    <3>2. Rises(Append(down[s], p), k, seen[s][k], Passed(k))
      BY <1>01, <1>02, <2>2, RisesSend
    <3> QED
      BY <2>3, <3>1, <3>2
  <2> QED
    BY <1>0, <2>1, <2>4, RisingElsewhere, NothingFalls
<1>10. ASSUME NEW r \in Readers, ReaderMessage(r) PROVE Rising' /\ NeverFalls
  <2> DEFINE ch == down[r]
             k == Head(ch).key
             contents == [read[r] EXCEPT ![k] = IF @ = Hole THEN Hole ELSE @ + 1]
             shown(l) == IF contents[l] = Hole THEN seen[r][l] ELSE contents[l]
  <2>1. /\ ch # <<>> /\ Head(ch).type = "Message"
        /\ down' = [down EXCEPT ![r] = Tail(@)] /\ swap(r, contents)
        /\ UNCHANGED <<base, toMid>>
    BY <1>10 DEF ReaderMessage, Receive
  <2>2. k \in Keys /\ ch \in Seq(PacketSet)
    <3>1. Head(down[r]) \in PacketSet
      BY <1>01, <2>1, HeadTailType
    <3> QED
      BY <1>01, <2>1, <3>1, PacketFields
  <2>3. /\ contents \in Counts
        /\ \A l \in Keys : l # k => contents[l] = read[r][l]
        /\ read[r][k] = Hole => contents[k] = Hole
        /\ read[r][k] # Hole => contents[k] = read[r][k] + 1 /\ contents[k] # Hole
    <3> HIDE DEF k
    <3>1. read[r] \in [Keys -> Nat \cup {Hole}] /\ Hole \notin Nat
      BY <1>0, UpqueriesAssumption DEF Counts
    <3> QED
      BY <2>2, <3>1, SMTT(30) DEF Counts
  <2>4. ASSUME NEW l \in Keys
        PROVE  /\ contents[l] # Hole => contents[l] >= seen[r][l]
               /\ shown(l) \in Nat
               /\ shown(l) + RowsBehind(ch, 1, l) <= seen[r][l] + RowsBehind(ch, 0, l)
    <3> HIDE DEF contents
    <3>1. RowsBehind(ch, 0, l) \in Nat /\ RowsBehind(ch, 1, l) \in Nat /\ seen[r][l] \in Nat
      BY <1>02, <2>2, LevelType
    <3>2. /\ l # k => RowsBehind(ch, 0, l) = RowsBehind(ch, 1, l)
          /\ l = k => RowsBehind(ch, 0, l) = RowsBehind(ch, 1, l) + 1
      BY <2>1, <2>2, AfterFirst DEF RowsBehind
    <3>3. CASE l # k \/ read[r][k] = Hole
      <4>1. contents[l] = Hole \/ (contents[l] = read[r][l] /\ contents[l] = seen[r][l])
        BY <1>02, <2>3, <3>3
      <4>2. shown(l) = seen[r][l]
        BY <4>1
      <4> HIDE DEF shown, ch, k
      <4> QED
        BY <3>1, <3>2, <4>1, <4>2, SMTT(30)
    <3>4. CASE l = k /\ read[r][k] # Hole
      <4>1. shown(l) = seen[r][l] + 1 /\ contents[l] = seen[r][l] + 1
        BY <1>02, <2>2, <2>3, <3>4
      <4> HIDE DEF shown, ch, k
      <4> QED
        BY <3>1, <3>2, <3>4, <4>1, SMTT(30)
    <3> QED
      BY <3>3, <3>4
  <2> HIDE DEF contents, k
  <2>5. \A l \in Keys : Rises(Tail(ch), l, shown(l), Passed(l))
    <3> HIDE DEF shown, ch
    <3>1. \A l \in Keys : Rises(ch, l, seen[r][l], Passed(l))
      BY <1>02 DEF ch
    <3> QED
      BY <1>02, <2>1, <2>2, <2>4, <3>1, RisesReceive
  <2>6. down'[r] = Tail(ch) /\ down' = [down EXCEPT ![r] = down'[r]]
    BY <1>0, <2>1
  <2> QED
    BY <1>0, <2>1, <2>3, <2>4, <2>5, <2>6, RisingAtReader
<1>11. ASSUME NEW r \in Readers, NEW contents \in Counts, swap(r, contents),
              \A l \in Keys : contents[l] \in {Hole, read[r][l]},
              UNCHANGED <<base, toMid>>,
              \/ UNCHANGED down
              \/ /\ down[r] # <<>> /\ Head(down[r]).type # "Message"
                 /\ down' = [down EXCEPT ![r] = Tail(@)]
       PROVE  Rising' /\ NeverFalls
  <2> DEFINE ch == down[r]
             shown(l) == IF contents[l] = Hole THEN seen[r][l] ELSE contents[l]
  <2>1. ASSUME NEW l \in Keys
        PROVE  shown(l) = seen[r][l] /\ (contents[l] # Hole => contents[l] >= seen[r][l])
    BY <1>02, <1>11
  <2>2. ASSUME NEW l \in Keys PROVE Rises(down'[r], l, shown(l), Passed(l))
    <3>1. Rises(ch, l, seen[r][l], Passed(l)) /\ seen[r][l] \in Nat /\ Passed(l) \in Nat
      BY <1>02
    <3>2. CASE UNCHANGED down
      BY <2>1, <3>1, <3>2
    <3>3. CASE /\ ch # <<>> /\ Head(ch).type # "Message"
               /\ down' = [down EXCEPT ![r] = Tail(@)]
      <4>1. ch \in Seq(PacketSet) /\ down'[r] = Tail(ch)
        BY <1>0, <3>3
      <4> HIDE DEF ch
      <4>2. RowsBehind(ch, 0, l) = RowsBehind(ch, 1, l) /\ RowsBehind(ch, 1, l) \in Nat
        BY <3>3, <4>1, AfterFirst, LevelType DEF RowsBehind
      <4>3. seen[r][l] + RowsBehind(ch, 1, l) <= seen[r][l] + RowsBehind(ch, 0, l)
        BY <3>1, <4>2, SMTT(30)
      <4>4. Rises(Tail(ch), l, seen[r][l], Passed(l))
        BY <3>1, <3>3, <4>1, <4>3, RisesReceive
      <4> QED
        BY <2>1, <4>1, <4>4
    <3> QED
      BY <1>11, <3>2, <3>3
  <2>3. down' = [down EXCEPT ![r] = down'[r]]
    BY <1>0, <1>11
  <2> QED
    BY <1>0, <1>11, <2>1, <2>2, <2>3, RisingAtReader
<1>12. ASSUME NEW r \in Readers, ReaderEvictKeys(r) PROVE Rising' /\ NeverFalls
  <2> DEFINE contents == Emptied(r, Head(down[r]).keys)
  <2>1. /\ down[r] # <<>> /\ Head(down[r]).type # "Message"
        /\ down' = [down EXCEPT ![r] = Tail(@)] /\ swap(r, contents)
        /\ UNCHANGED <<base, toMid>>
    BY <1>12 DEF ReaderEvictKeys, Receive
  <2>2. contents \in Counts /\ \A l \in Keys : contents[l] \in {Hole, read[r][l]}
    BY <1>01, EmptiedType DEF Emptied
  <2> HIDE DEF contents
  <2> QED
    BY <1>11, <2>1, <2>2
<1>13. ASSUME NEW r \in Readers, NEW K \in SUBSET Keys, ReaderEvict(r, K)
       PROVE  Rising' /\ NeverFalls
  <2> DEFINE contents == Emptied(r, K)
  <2>1. swap(r, contents) /\ UNCHANGED <<base, toMid, down>>
    BY <1>13 DEF ReaderEvict
  <2>2. contents \in Counts /\ \A l \in Keys : contents[l] \in {Hole, read[r][l]}
    BY <1>01, EmptiedType DEF Emptied
  <2> HIDE DEF contents
  <2> QED
    BY <1>11, <2>1, <2>2
<1>14. ASSUME NEW r \in Readers, ReaderReplayPiece(r) PROVE Rising' /\ NeverFalls
  <2> DEFINE ch == down[r]
  <2>1. /\ ch # <<>> /\ Head(ch).type = "ReplayPiece"
        /\ down' = [down EXCEPT ![r] = Tail(@)]
        /\ \E contents : swap(r, contents)
        /\ UNCHANGED <<base, toMid>>
    BY <1>14 DEF ReaderReplayPiece, Receive
  <2>2. PICK contents : swap(r, contents)
    BY <2>1
  <2>3. read'[r] = contents
    BY <1>0, <2>2 DEF swap
  <2>4. contents \in Counts
    <3>1. Bookkeeping'
      BY <1>0, <1>14, ReaderReplayPieceKeeps
    <3> QED
      BY <2>3, <3>1 DEF Bookkeeping, ReaderTypes
  <2>5. ASSUME NEW l \in Keys
        PROVE  \/ contents[l] = read[r][l]
               \/ l \in UNION Head(ch).for_keys /\ contents[l] = Head(ch).data[l]
    <3>1. \/ read'[r][l] = read[r][l]
          \/ l \in UNION Head(down[r]).for_keys /\ read'[r][l] = Head(down[r]).data[l]
      BY <1>0, <1>14, ReaderReplayPieceFills
    <3> QED
      BY <2>3, <3>1
  <2>6. ch \in Seq(PacketSet) /\ 1 \in DOMAIN ch /\ Head(ch) = ch[1] /\ down'[r] = Tail(ch)
    BY <1>0, <1>01, <2>1, SMTT(30)
  <2>7. ASSUME NEW l \in Keys
        PROVE  /\ contents[l] # Hole => contents[l] >= seen[r][l]
               /\ Rises(Tail(ch), l, IF contents[l] = Hole THEN seen[r][l] ELSE contents[l],
                        Passed(l))
    <3>0. /\ Rises(ch, l, seen[r][l], Passed(l)) /\ seen[r][l] \in Nat /\ Passed(l) \in Nat
          /\ read[r][l] # Hole => seen[r][l] = read[r][l] /\ read[r][l] >= seen[r][l]
      BY <1>02
    <3> HIDE DEF ch
    <3>1. RowsBehind(ch, 0, l) = RowsBehind(ch, 1, l) /\ RowsBehind(ch, 1, l) \in Nat
      BY <2>1, <2>6, AfterFirst, LevelType DEF RowsBehind
    <3>2. CASE contents[l] = read[r][l]
      <4>1. seen[r][l] + RowsBehind(ch, 1, l) <= seen[r][l] + RowsBehind(ch, 0, l)
        BY <3>0, <3>1, SMTT(30)
      <4>2. Rises(Tail(ch), l, seen[r][l], Passed(l))
        BY <2>1, <2>6, <3>0, <4>1, RisesReceive
      <4> QED
        BY <3>0, <3>2, <4>2
    <3>3. CASE l \in UNION Head(ch).for_keys /\ contents[l] = Head(ch).data[l]
      <4>1. 1 \in Pieces(ch, l)
        BY <2>1, <2>6, <3>3 DEF Pieces
      <4>2. contents[l] = ch[1].data[l] /\ contents[l] \in Nat /\ contents[l] # Hole
        <5>1. ch[1].data[l] \in Nat /\ Hole \notin Nat
          BY <2>6, <4>1, LevelType, UpqueriesAssumption
        <5> QED
          BY <2>6, <3>3, <5>1
      <4>3. Rises(Tail(ch), l, contents[l], Passed(l))
        BY <2>1, <2>6, <3>0, <4>1, <4>2, RisesReceive
      <4>4. seen[r][l] + RowsBehind(ch, 0, l) <= Level(ch, 1, l)
        BY <3>0, <4>1 DEF Rises
      <4>5. contents[l] >= seen[r][l]
        BY <3>0, <3>1, <4>2, <4>4, SMTT(30) DEF Level
      <4> QED
        BY <4>2, <4>3, <4>5
    <3> QED
      BY <2>5, <3>2, <3>3
  <2>8. down' = [down EXCEPT ![r] = down'[r]]
    BY <1>0, <2>1
  <2> HIDE DEF ch
  <2> QED
    BY <1>0, <2>1, <2>2, <2>4, <2>6, <2>7, <2>8, RisingAtReader
<1>15. CASE \E r \in Readers : \E K \in Requests[r] : Ask(r, K)
  BY <1>1, <1>15 DEF Ask, Passed
<1>16. CASE \E r \in Readers : \E P \in asked[r] : ReaderRequest(r, P)
  BY <1>1, <1>16 DEF ReaderRequest, Passed
<1>17. CASE UNCHANGED vars
  BY <1>1, <1>17 DEF vars, readerVars, Passed
<1> QED
  BY <1>2, <1>3, <1>4, <1>5, <1>7, <1>8, <1>9, <1>10, <1>12, <1>13, <1>14, <1>15,
     <1>16, <1>17
     DEF Next, Environment, MidStep, ReaderStep, TakeRequest

\* With a hash index the reads of a reader are monotonic, also across evictions
\* and the replays that fill a key again.
THEOREM ReadsAreMonotonic == ASSUME ~Ordered PROVE Spec => MonotonicReads
<1>1. Init => Rising
  <2> SUFFICES ASSUME Init, NEW r \in Readers, NEW k \in Keys
               PROVE  read[r][k] = Hole /\ Rises(down[r], k, seen[r][k], Passed(k))
    BY DEF Rising
  <2>1. read[r][k] = Hole /\ down[r] = <<>> /\ seen[r][k] = 0 /\ toMid = <<>> /\ base[k] = 0
    BY DEF Init
  <2>2. RowsBehind(<<>>, 0, k) = 0 /\ Pieces(<<>>, k) = {}
    BY EmptyChannel
  <2>3. Passed(k) = 0 /\ seen[r][k] + RowsBehind(down[r], 0, k) = 0
    BY <2>1, <2>2, SMTT(30) DEF Passed
  <2> QED
    BY <2>1, <2>2, <2>3, SMTT(30) DEF Rises
<1>2. HashInvariant /\ Rising /\ [Next]_vars => Rising' /\ NeverFalls
  BY RisingInductive
<1>3. NeverFalls =>
        [\A r \in Readers, k \in Keys : read'[r][k] # Hole => read'[r][k] >= seen[r][k]]_vars
  BY DEF NeverFalls
<1> QED
  BY <1>1, <1>2, <1>3, HashInvariantHolds, PTL DEF Spec, MonotonicReads
=============================================================================
