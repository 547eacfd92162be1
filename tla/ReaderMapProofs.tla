-------------------------- MODULE ReaderMapProofs --------------------------
(***************************************************************************)
(* Proofs about ReaderMap for every set of readers, keys, values and        *)
(* operations and without a bound on the length of a behaviour.             *)
(***************************************************************************)
EXTENDS ReaderMap, TLAPS

\* Zenon proves the leaves that do not name the SMT solver.
USE ZenonT(30)

ProtocolTypes ==
  /\ DOMAIN copies = {1, 2}
  /\ w \in {1, 2}
  /\ first \in BOOLEAN
  /\ wpc \in {"idle", "wait", "swap", "second", "first", "epochs", "evict"}
  /\ rpc \in [Readers -> {"out", "entering", "in"}]
  /\ guard \in [Readers -> {1, 2, NoCopy}]
  /\ pinned \subseteq Readers

\* A reader has a guard exactly while it is inside.
GuardsInside == \A r \in Readers : rpc[r] = "in" <=> guard[r] # NoCopy

\* A reader still on the write copy is one the next publish waits for, unless
\* the swap has just happened and the epochs have not been read yet.
StaleReadersPinned ==
  \A r \in Readers : guard[r] = w => wpc = "epochs" \/ r \in pinned

\* Nobody is pinned while the writer works on its copy, and before the first
\* publish there is nothing to be pinned to.
WriterAlone ==
  /\ wpc \in {"swap", "second", "first"} => pinned = {}
  /\ first => pinned = {} /\ wpc \in {"idle", "wait"}

Isolation ==
  ProtocolTypes /\ GuardsInside /\ StaleReadersPinned /\ WriterAlone

\* The inductive invariant behind GuardedCopyStable: no reader is on the copy
\* that publish(), or an operation before the first publish, writes to.
THEOREM IsolationInvariant == Spec => []Isolation
<1>1. Init => Isolation
  BY ReaderMapAssumption, SMTT(30)
     DEF Init, Isolation, ProtocolTypes, GuardsInside, StaleReadersPinned,
         WriterAlone
<1>2. Isolation /\ [Next]_vars => Isolation'
  <2> SUFFICES ASSUME Isolation, [Next]_vars PROVE Isolation'
    OBVIOUS
  <2> USE ReaderMapAssumption
      DEF Isolation, ProtocolTypes, GuardsInside, StaleReadersPinned,
          WriterAlone, readerVars, writerVars, r_copy
  <2>1. CASE AddOp
    BY <2>1 DEF AddOp, Extend
  <2>2. CASE Publish
    BY <2>2, SMTT(30) DEF Publish, PublishCall
  <2>3. CASE PublishWait
    BY <2>3 DEF PublishWait, PublishSync
  <2>4. CASE AbsorbSecond
    BY <2>4 DEF AbsorbSecond
  <2>5. CASE AbsorbFirst
    BY <2>5 DEF AbsorbFirst
  <2>6. CASE Swap
    BY <2>6, SMTT(30) DEF Swap
  <2>7. CASE RecordEpochs
    BY <2>7 DEF RecordEpochs
  <2>8. CASE EvictKeys
    BY <2>8 DEF EvictKeys, Extend
  <2>9. ASSUME NEW r \in Readers, EnterEpoch(r) PROVE Isolation'
    BY <2>9 DEF EnterEpoch
  <2>10. ASSUME NEW r \in Readers, EnterLoad(r) PROVE Isolation'
    BY <2>10, SMTT(30) DEF EnterLoad
  <2>11. ASSUME NEW r \in Readers, Leave(r) PROVE Isolation'
    BY <2>11 DEF Leave
  <2>12. CASE UNCHANGED vars
    BY <2>12 DEF vars
  <2> QED
    BY <2>1, <2>2, <2>3, <2>4, <2>5, <2>6, <2>7, <2>8, <2>9, <2>10, <2>11,
       <2>12 DEF Next, WriterStep
<1> QED
  BY <1>1, <1>2, PTL DEF Spec

\* What a guard gives access to never changes while it is held, whatever the
\* writer queues and publishes: no step writes to a copy with a reader on it.
THEOREM GuardedCopyNeverWritten == Spec => GuardedCopyStable
<1> DEFINE Stable ==
      \A r \in Readers : rpc[r] = "in" => copies'[guard[r]] = copies[guard[r]]
<1>1. Isolation /\ [Next]_vars => [Stable]_vars
  <2> SUFFICES ASSUME Isolation, Next, NEW r \in Readers, rpc[r] = "in"
               PROVE  copies'[guard[r]] = copies[guard[r]]
    BY DEF vars
  <2> USE DEF Isolation, ProtocolTypes, GuardsInside, StaleReadersPinned,
              WriterAlone
  <2>0. guard[r] \in {1, 2}
    OBVIOUS
  <2>1. CASE AddOp
    BY <2>0, <2>1 DEF AddOp, Extend
  <2>2. CASE PublishWait
    BY <2>0, <2>2 DEF PublishWait, PublishSync
  <2>3. CASE AbsorbSecond
    BY <2>0, <2>3 DEF AbsorbSecond
  <2>4. CASE AbsorbFirst
    BY <2>0, <2>4 DEF AbsorbFirst
  <2>5. CASE EvictKeys
    BY <2>0, <2>5 DEF EvictKeys, Extend
  <2>6. CASE \/ Publish \/ Swap \/ RecordEpochs
             \/ \E q \in Readers : EnterEpoch(q) \/ EnterLoad(q) \/ Leave(q)
    BY <2>6 DEF Publish, PublishCall, Swap, RecordEpochs, EnterEpoch,
                EnterLoad, Leave
  <2> QED
    BY <2>1, <2>2, <2>3, <2>4, <2>5, <2>6 DEF Next, WriterStep
<1> QED
  BY <1>1, IsolationInvariant, PTL DEF Spec, GuardedCopyStable

-----------------------------------------------------------------------------
(* The two copies go through the same contents.                             *)

\* A sequence, of whatever is in it.
IsSequence(s) == s \in Seq({s[i] : i \in 1 .. Len(s)})

\* How many contents there were before the first entry of the log.
Drained == Len(hist) - Len(oplog)

\* Entry j of the log leads from one of the contents to the next, and the index
\* it holds, if any, is the one that a search in the former finds.
EntryFits(j) ==
  LET before == hist[Drained + j - 1].data
      found  == SearchIdx(before, oplog[j].o)
  IN  /\ oplog[j] = [o |-> oplog[j].o, idx |-> oplog[j].idx]
      /\ oplog[j].idx \in {NoIdx, found}
      /\ hist[Drained + j].data = ApplyAt(before, oplog[j].o, found)

LogTypes ==
  /\ IsSequence(hist) /\ IsSequence(oplog)
  /\ Len(oplog) < Len(hist)
  /\ swap_index \in 0 .. Len(oplog)
  /\ next \in 1 .. Len(oplog) + 1
  /\ second \in BOOLEAN
  /\ pos \in [{1, 2} -> 1 .. Len(hist)]
  /\ copies \in [{1, 2} -> {copies[1], copies[2]}]

\* How far publish() is, seen from the log.
LogPhases ==
  /\ first \/ wpc = "swap" =>
       second /\ oplog = <<>> /\ pos[w] = Len(hist)
  /\ wpc = "swap" => ~first
  /\ second => swap_index = 0 /\ wpc \notin {"second", "first"}
  /\ wpc = "first" => swap_index = 0
  /\ next # 1 => wpc = "first"
  /\ wpc \in {"epochs", "evict"} => ~first /\ swap_index = Len(oplog)

\* The published copy has seen the log up to swap_index, the other, from the
\* second publish on, up to next.
Positions ==
  /\ ~first /\ wpc # "swap" => pos[r_copy] = Drained + swap_index
  /\ ~second => pos[w] = Drained + next - 1

Convergence ==
  /\ ProtocolTypes /\ WriterAlone /\ LogTypes /\ LogPhases /\ Positions
  /\ \A j \in 1 .. Len(oplog) : EntryFits(j)
  /\ CopiesConverge

\* A function on an initial segment of the naturals is a sequence.
LEMMA SequenceIs ==
  ASSUME NEW s, NEW n \in Nat, DOMAIN s = 1 .. n, s = [i \in 1 .. n |-> s[i]]
  PROVE  IsSequence(s) /\ Len(s) = n
<1> DEFINE S == {s[i] : i \in 1 .. n}
<1>1. s \in [1 .. n -> S]
  OBVIOUS
<1>2. s \in Seq(S) /\ Len(s) = n
  BY <1>1, SMTT(30)
<1> QED
  BY <1>2 DEF IsSequence

\* And the other way round.
LEMMA SequenceOf ==
  ASSUME NEW S, NEW s \in Seq(S)
  PROVE  /\ Len(s) \in Nat /\ DOMAIN s = 1 .. Len(s) /\ s = [i \in 1 .. Len(s) |-> s[i]]
         /\ IsSequence(s)
<1>1. Len(s) \in Nat /\ DOMAIN s = 1 .. Len(s) /\ s = [i \in 1 .. Len(s) |-> s[i]]
  BY SMTT(30)
<1> QED
  BY <1>1, SequenceIs

\* What Append does.
LEMMA AppendIs ==
  ASSUME NEW s, IsSequence(s), NEW e
  PROVE  /\ IsSequence(Append(s, e)) /\ Len(Append(s, e)) = Len(s) + 1
         /\ \A i \in 1 .. Len(s) : Append(s, e)[i] = s[i]
         /\ Append(s, e)[Len(s) + 1] = e
<1> DEFINE S == {s[i] : i \in 1 .. Len(s)} \cup {e}
           t == Append(s, e)
<1>1. s \in Seq(S) /\ e \in S
  BY SMTT(30) DEF IsSequence
<1>2. /\ t \in Seq(S) /\ Len(t) = Len(s) + 1 /\ t[Len(s) + 1] = e
      /\ \A i \in 1 .. Len(s) : t[i] = s[i]
  BY <1>1, SMTT(30)
<1>3. IsSequence(t)
  BY <1>2, SequenceOf
<1> QED
  BY <1>2, <1>3

\* What Tail does.
LEMMA TailIs ==
  ASSUME NEW s, IsSequence(s), Len(s) > 0
  PROVE  /\ IsSequence(Tail(s)) /\ Len(Tail(s)) = Len(s) - 1
         /\ \A i \in 1 .. Len(s) - 1 : Tail(s)[i] = s[i + 1]
<1> DEFINE S == {s[i] : i \in 1 .. Len(s)}
           t == Tail(s)
<1>1. s \in Seq(S) /\ Len(s) \in Nat /\ s # <<>>
  BY SMTT(30) DEF IsSequence
<1>2. /\ t \in Seq(S) /\ Len(t) = Len(s) - 1
      /\ \A i \in 1 .. Len(s) - 1 : t[i] = s[i + 1]
  BY <1>1, SMTT(30)
<1>3. IsSequence(t)
  BY <1>2, SequenceOf
<1> QED
  BY <1>2, <1>3

\* Before the first operation both copies are empty.
LEMMA ConvergenceInit ==
  ASSUME Init PROVE Convergence
<1>1. IsSequence(<<Empty>>) /\ Len(<<Empty>>) = 1 /\ <<Empty>>[1] = Empty
  <2>1. <<Empty>> \in Seq({Empty})
    BY SMTT(30)
  <2>2. IsSequence(<<Empty>>)
    BY <2>1, SequenceOf
  <2> QED
    BY <2>2
<1>2. IsSequence(<<>>) /\ Len(<<>>) = 0
  <2>1. <<>> \in Seq({})
    BY SMTT(30)
  <2>2. IsSequence(<<>>)
    BY <2>1, SequenceOf
  <2> QED
    BY <2>2
<1>3. \A c \in {1, 2} : copies[c].data = <<>>
  BY DEF Init, Empty
<1>4. Empty.data = <<>>
  BY DEF Empty
<1> HIDE DEF Empty
<1>5. LogTypes
  BY <1>1, <1>2, SMTT(30) DEF Init, LogTypes
<1> QED
  BY <1>1, <1>2, <1>3, <1>4, <1>5, ReaderMapAssumption, SMTT(30)
     DEF Init, Convergence, ProtocolTypes, WriterAlone, LogPhases, Positions, CopiesConverge

\* The types, for the steps below.
LEMMA ConvergenceTypes ==
  ASSUME Convergence
  PROVE  /\ Len(hist) \in Nat \ {0} /\ Len(oplog) \in Nat /\ Len(oplog) < Len(hist)
         /\ swap_index \in 0 .. Len(oplog) /\ next \in 1 .. Len(oplog) + 1
         /\ pos \in [{1, 2} -> 1 .. Len(hist)]
         /\ w \in {1, 2} /\ r_copy \in {1, 2} /\ r_copy # w
         /\ copies \in [{1, 2} -> {copies[1], copies[2]}]
         /\ Drained \in Nat \ {0}
<1>1. IsSequence(hist) /\ IsSequence(oplog)
  BY DEF Convergence, LogTypes
<1>2. Len(hist) \in Nat /\ Len(oplog) \in Nat
  BY <1>1, SequenceOf DEF IsSequence
<1>3. w \in {1, 2} /\ r_copy \in {1, 2} /\ r_copy # w
  BY SMTT(30) DEF Convergence, ProtocolTypes, r_copy
<1> QED
  BY <1>2, <1>3, SMTT(30) DEF Convergence, LogTypes, Drained

\* What is queued is either applied to the write copy at once, before the first
\* publish, or becomes the last entry of the log.
LEMMA ExtendConverges ==
  ASSUME Convergence, NEW o, Extend(o), wpc \in {"idle", "evict"}, wpc' = "idle",
         UNCHANGED <<w, swap_index, first, second, next, readerVars, pinned>>
  PROVE  Convergence'
<1> DEFINE new == absorb_first(Latest, o)
<1>1. /\ hist' = Append(hist, new)
      /\ new.data = ApplyAt(Latest.data, o, SearchIdx(Latest.data, o))
  BY DEF Extend, absorb_first
<1> HIDE DEF new
<1>2. /\ IsSequence(hist') /\ Len(hist') = Len(hist) + 1 /\ hist'[Len(hist) + 1] = new
      /\ \A i \in 1 .. Len(hist) : hist'[i] = hist[i]
  BY <1>1, AppendIs, SMTT(30) DEF Convergence, LogTypes
<1>3. /\ Len(hist) \in Nat \ {0} /\ Len(oplog) \in Nat /\ Len(oplog) < Len(hist)
      /\ swap_index \in 0 .. Len(oplog) /\ next \in 1 .. Len(oplog) + 1
      /\ pos \in [{1, 2} -> 1 .. Len(hist)]
      /\ w \in {1, 2} /\ r_copy \in {1, 2} /\ r_copy # w /\ r_copy' = r_copy
      /\ copies \in [{1, 2} -> {copies[1], copies[2]}]
  BY ConvergenceTypes DEF r_copy
<1>4. CASE first
  <2>1. /\ copies' = [copies EXCEPT ![w] = absorb_second(@, o, NoIdx)]
        /\ pos' = [pos EXCEPT ![w] = @ + 1] /\ oplog' = oplog
    BY <1>4 DEF Extend
  <2>2. oplog = <<>> /\ pos[w] = Len(hist) /\ second
    BY <1>4 DEF Convergence, LogPhases
  <2>3. copies'[w].data = ApplyAt(copies[w].data, o, SearchIdx(copies[w].data, o))
    BY <1>3, <2>1 DEF absorb_second
  <2>4. copies[w].data = Latest.data
    BY <1>3, <2>2, SMTT(30) DEF Convergence, CopiesConverge, Latest
  <2>5. \A c \in {1, 2} : copies'[c].data = hist'[pos'[c]].data
    BY <1>1, <1>2, <1>3, <2>1, <2>2, <2>3, <2>4, SMTT(30) DEF Convergence, CopiesConverge
  <2>6. LogTypes'
    BY <1>2, <1>3, <2>1, <2>2, SMTT(30) DEF Convergence, LogTypes
  <2>7. LogPhases' /\ Positions'
    BY <1>2, <1>3, <1>4, <2>1, <2>2 DEF Convergence, LogPhases, Positions
  <2>8. ProtocolTypes' /\ WriterAlone'
    BY <1>3, <2>1 DEF Convergence, ProtocolTypes, WriterAlone, readerVars
  <2>9. Len(oplog') = 0
    BY <2>1, <2>2
  <2> QED
    BY <2>5, <2>6, <2>7, <2>8, <2>9, SMTT(30) DEF Convergence, CopiesConverge
<1>5. CASE ~first
  <2> DEFINE entry == [o |-> o, idx |-> NoIdx]
  <2>1. oplog' = Append(oplog, entry) /\ UNCHANGED <<copies, pos>>
    BY <1>5 DEF Extend
  <2>2. /\ IsSequence(oplog') /\ Len(oplog') = Len(oplog) + 1
        /\ oplog'[Len(oplog) + 1] = entry
        /\ \A i \in 1 .. Len(oplog) : oplog'[i] = oplog[i]
    BY <2>1, AppendIs, SMTT(30) DEF Convergence, LogTypes
  <2>3. Drained' = Drained /\ Drained \in Nat \ {0}
    BY <1>2, <1>3, <2>2, SMTT(30) DEF Drained
  <2>4. ASSUME NEW j \in 1 .. Len(oplog) PROVE EntryFits(j)'
    <3>1. /\ Drained + j \in 1 .. Len(hist) /\ Drained + j - 1 \in 1 .. Len(hist)
      <4>1. Drained = Len(hist) - Len(oplog) /\ Len(hist) \in Nat /\ Len(oplog) \in Nat
        BY <1>3 DEF Drained
      <4> QED
        BY <2>3, <2>4, <4>1, SMTT(30)
    <3>2. /\ oplog'[j] = oplog[j] /\ hist'[Drained' + j] = hist[Drained + j]
          /\ hist'[Drained' + j - 1] = hist[Drained + j - 1]
      BY <1>2, <2>2, <2>3, <2>4, <3>1
    <3>3. EntryFits(j)
      BY <2>4 DEF Convergence
    <3> QED
      BY <3>2, <3>3 DEF EntryFits
  <2>5. ASSUME NEW j, j = Len(oplog) + 1 PROVE EntryFits(j)'
    <3>1. Drained + j = Len(hist) + 1 /\ Drained + j - 1 = Len(hist)
      BY <1>3, <2>5, SMTT(30) DEF Drained
    <3>2. hist'[Drained' + j] = new /\ hist'[Drained' + j - 1] = Latest
      BY <1>2, <1>3, <2>3, <3>1, SMTT(30) DEF Latest
    <3>3. oplog'[j] = entry
      BY <2>2, <2>5
    <3>4. entry.o = o /\ entry.idx = NoIdx /\ entry = [o |-> entry.o, idx |-> entry.idx]
      OBVIOUS
    <3> HIDE DEF entry
    <3> QED
      BY <1>1, <3>2, <3>3, <3>4 DEF EntryFits
  <2>6. LogTypes'
    BY <1>2, <1>3, <2>1, <2>2, SMTT(30) DEF Convergence, LogTypes
  <2>7. LogPhases' /\ Positions'
    BY <1>2, <1>3, <1>5, <2>1, <2>2, <2>3 DEF Convergence, LogPhases, Positions
  <2>8. ProtocolTypes' /\ WriterAlone'
    BY <1>3, <2>1 DEF Convergence, ProtocolTypes, WriterAlone, readerVars
  <2>9. CopiesConverge'
    BY <1>2, <1>3, <2>1 DEF Convergence, CopiesConverge
  <2>10. \A j \in 1 .. Len(oplog') : EntryFits(j)'
    BY <1>3, <2>2, <2>4, <2>5, SMTT(30)
  <2> QED
    BY <2>6, <2>7, <2>8, <2>9, <2>10 DEF Convergence
<1> QED
  BY <1>4, <1>5

\* Draining an entry brings the write copy to the contents after it: the stored
\* index is what a search would find.
LEMMA AbsorbSecondConverges ==
  ASSUME Convergence, AbsorbSecond PROVE Convergence'
<1> DEFINE o == oplog[1].o
           before == hist[Drained].data
<1>1. /\ Len(hist) \in Nat \ {0} /\ Len(oplog) \in Nat /\ Len(oplog) < Len(hist)
      /\ swap_index \in 0 .. Len(oplog) /\ next \in 1 .. Len(oplog) + 1
      /\ pos \in [{1, 2} -> 1 .. Len(hist)]
      /\ w \in {1, 2} /\ r_copy \in {1, 2} /\ r_copy # w /\ r_copy' = r_copy
      /\ copies \in [{1, 2} -> {copies[1], copies[2]}]
      /\ Drained \in Nat \ {0}
  BY ConvergenceTypes DEF AbsorbSecond, r_copy
<1>2. /\ wpc = "second" /\ swap_index > 0 /\ ~second /\ ~first /\ next = 1
      /\ pos[w] = Drained /\ pos[r_copy] = Drained + swap_index
  BY <1>1, SMTT(30) DEF AbsorbSecond, Convergence, LogPhases, Positions
<1>3. /\ copies' = [copies EXCEPT ![w] = absorb_second(@, oplog[1].o, oplog[1].idx)]
      /\ pos' = [pos EXCEPT ![w] = @ + 1] /\ oplog' = Tail(oplog)
      /\ swap_index' = swap_index - 1
      /\ UNCHANGED <<w, first, second, next, wpc, rpc, guard, pinned, hist>>
  BY DEF AbsorbSecond, readerVars
<1>4. /\ IsSequence(oplog') /\ Len(oplog') = Len(oplog) - 1
      /\ \A i \in 1 .. Len(oplog) - 1 : oplog'[i] = oplog[i + 1]
  BY <1>1, <1>2, <1>3, TailIs, SMTT(30) DEF Convergence, LogTypes
<1>5. Drained' = Drained + 1 /\ Drained + 1 \in 1 .. Len(hist)
  <2>1. Drained = Len(hist) - Len(oplog) /\ Drained' = Len(hist') - Len(oplog')
    BY DEF Drained
  <2> QED
    BY <1>1, <1>2, <1>3, <1>4, <2>1, SMTT(30)
<1>6. EntryFits(1)
  BY <1>1, <1>2, SMTT(30) DEF Convergence
<1>7. /\ oplog[1].idx \in {NoIdx, SearchIdx(before, o)}
      /\ hist[Drained + 1].data = ApplyAt(before, o, SearchIdx(before, o))
  <2>1. Drained + 1 - 1 = Drained
    BY <1>1, SMTT(30)
  <2> QED
    BY <1>6, <2>1 DEF EntryFits
<1>8. copies[w].data = before
  BY <1>1, <1>2 DEF Convergence, CopiesConverge
<1>9. copies'[w].data = hist[Drained + 1].data
  <2>1. copies'[w].data = ApplyAt(copies[w].data, o,
          IF oplog[1].idx = NoIdx THEN SearchIdx(copies[w].data, o) ELSE oplog[1].idx)
    BY <1>1, <1>3 DEF absorb_second
  <2> HIDE DEF o, before
  <2> QED
    BY <1>7, <1>8, <2>1
<1>10. pos'[w] = Drained + 1 /\ pos'[r_copy] = pos[r_copy] /\ copies'[r_copy] = copies[r_copy]
  BY <1>1, <1>2, <1>3
<1>11. CopiesConverge'
  <2>1. ASSUME NEW c \in {1, 2} PROVE copies'[c].data = hist'[pos'[c]].data
    <3>1. c = w \/ c = r_copy
      BY <1>1 DEF r_copy
    <3>2. copies[r_copy].data = hist[pos[r_copy]].data
      BY <1>1 DEF Convergence, CopiesConverge
    <3> QED
      BY <1>3, <1>9, <1>10, <3>1, <3>2
  <2> QED
    BY <2>1 DEF CopiesConverge
<1>12. ASSUME NEW j \in 1 .. Len(oplog') PROVE EntryFits(j)'
  <2>1. j + 1 \in 1 .. Len(oplog) /\ oplog'[j] = oplog[j + 1]
    <3>1. j \in 1 .. Len(oplog) - 1
      BY <1>4, <1>12
    <3>2. Len(oplog) \in Nat
      BY <1>1
    <3>3. j + 1 \in 1 .. Len(oplog)
      BY <3>1, <3>2, SMTT(30)
    <3> QED
      BY <1>4, <3>1, <3>3
  <2>2. Drained' + j = Drained + (j + 1) /\ Drained' + j - 1 = Drained + (j + 1) - 1
    <3>1. j \in Int /\ Drained \in Int
      BY <1>1, SMTT(30)
    <3> QED
      BY <1>5, <3>1, SMTT(30)
  <2>3. EntryFits(j + 1)
    BY <2>1 DEF Convergence
  <2> QED
    BY <1>3, <2>1, <2>2, <2>3 DEF EntryFits
<1>13. LogTypes'
  <2>1. pos' = [pos EXCEPT ![w] = Drained + 1] /\ hist' = hist
    BY <1>2, <1>3
  <2>2. pos' \in [{1, 2} -> 1 .. Len(hist')]
    BY <1>1, <1>5, <2>1
  <2>3. copies' \in [{1, 2} -> {copies'[1], copies'[2]}]
    BY <1>1, <1>3
  <2>4. /\ swap_index' \in 0 .. Len(oplog') /\ next' \in 1 .. Len(oplog') + 1
        /\ Len(oplog') < Len(hist')
    <3>1. /\ Len(oplog) \in Nat /\ Len(hist) \in Nat /\ Len(oplog) < Len(hist)
          /\ swap_index \in 0 .. Len(oplog) /\ swap_index > 0 /\ next = 1
      BY <1>1, <1>2
    <3>2. /\ Len(oplog') = Len(oplog) - 1 /\ hist' = hist /\ next' = next
          /\ swap_index' = swap_index - 1
      BY <1>3, <1>4
    <3> QED
      BY <3>1, <3>2, SMTT(30)
  <2> QED
    BY <1>3, <1>4, <2>2, <2>3, <2>4 DEF Convergence, LogTypes
<1>14. LogPhases' /\ Positions'
  <2>1. LogPhases'
    <3>1. /\ ~first' /\ wpc' = "second" /\ ~second' /\ next' = 1 /\ first' = first
          /\ second' = second
      BY <1>2, <1>3
    <3> QED
      BY <3>1 DEF LogPhases
  <2>2. Positions'
    <3>1. pos'[r_copy'] = Drained' + swap_index'
      <4>1. /\ swap_index \in Int /\ Drained \in Int /\ swap_index' = swap_index - 1
            /\ r_copy' = r_copy
        BY <1>1, <1>3, SMTT(30)
      <4> QED
        BY <1>2, <1>5, <1>10, <4>1, SMTT(30)
    <3>2. pos'[w'] = Drained' + next' - 1
      <4>1. w' = w /\ next' = 1 /\ Drained \in Int
        BY <1>1, <1>2, <1>3, SMTT(30)
      <4> QED
        BY <1>5, <1>10, <4>1, SMTT(30)
    <3> QED
      BY <3>1, <3>2 DEF Positions
  <2> QED
    BY <2>1, <2>2
<1>15. ProtocolTypes' /\ WriterAlone'
  BY <1>1, <1>3 DEF Convergence, ProtocolTypes, WriterAlone
<1> QED
  BY <1>11, <1>12, <1>13, <1>14, <1>15 DEF Convergence

\* A new entry brings the write copy to the contents after it, and keeps the
\* index found on the way.
LEMMA AbsorbFirstConverges ==
  ASSUME Convergence, AbsorbFirst PROVE Convergence'
<1> DEFINE o == oplog[next].o
           before == hist[Drained + next - 1].data
           found == SearchIdx(before, o)
<1>1. /\ Len(hist) \in Nat \ {0} /\ Len(oplog) \in Nat /\ Len(oplog) < Len(hist)
      /\ swap_index \in 0 .. Len(oplog) /\ next \in 1 .. Len(oplog)
      /\ pos \in [{1, 2} -> 1 .. Len(hist)]
      /\ w \in {1, 2} /\ r_copy \in {1, 2} /\ r_copy # w /\ r_copy' = r_copy
      /\ copies \in [{1, 2} -> {copies[1], copies[2]}]
      /\ Drained \in Nat \ {0} /\ Drained + next \in 1 .. Len(hist)
  BY ConvergenceTypes, SMTT(30) DEF AbsorbFirst, r_copy, Drained
<1>2. /\ wpc \in {"second", "first"} /\ swap_index = 0 /\ ~second /\ ~first
      /\ pos[w] = Drained + next - 1 /\ pos[r_copy] = Drained + swap_index
  BY <1>1 DEF AbsorbFirst, Convergence, LogPhases, Positions
<1>3. /\ copies' = [copies EXCEPT ![w] = absorb_first(@, oplog[next].o)]
      /\ pos' = [pos EXCEPT ![w] = @ + 1]
      /\ oplog' = [oplog EXCEPT ![next].idx = SearchIdx(copies[w].data, oplog[next].o)]
      /\ next' = next + 1 /\ wpc' = "first"
      /\ UNCHANGED <<w, swap_index, first, second, rpc, guard, pinned, hist>>
  BY DEF AbsorbFirst, readerVars
<1>4. copies[w].data = before
  BY <1>1, <1>2, SMTT(30) DEF Convergence, CopiesConverge
<1>5. EntryFits(next)
  BY <1>1 DEF Convergence
<1>6. /\ oplog[next] = [o |-> oplog[next].o, idx |-> oplog[next].idx]
      /\ hist[Drained + next].data = ApplyAt(before, o, found)
  BY <1>5 DEF EntryFits
<1>7. copies'[w].data = hist[Drained + next].data
  <2>1. copies'[w].data = ApplyAt(copies[w].data, o, SearchIdx(copies[w].data, o))
    BY <1>1, <1>3 DEF absorb_first
  <2> QED
    BY <1>4, <1>6, <2>1
<1>8. /\ IsSequence(oplog') /\ Len(oplog') = Len(oplog)
      /\ \A i \in 1 .. Len(oplog) : i # next => oplog'[i] = oplog[i]
      /\ oplog'[next] = [o |-> o, idx |-> found]
  <2>1. IsSequence(oplog)
    BY DEF Convergence, LogTypes
  <2>2. Len(oplog) \in Nat /\ DOMAIN oplog = 1 .. Len(oplog)
        /\ oplog = [i \in 1 .. Len(oplog) |-> oplog[i]]
    BY <2>1, SequenceOf, SMTT(30) DEF IsSequence
  <2>3. oplog' = [oplog EXCEPT ![next].idx = found]
    BY <1>3, <1>4
  <2> HIDE DEF found
  <2>4. DOMAIN oplog' = 1 .. Len(oplog) /\ oplog' = [i \in 1 .. Len(oplog) |-> oplog'[i]]
    BY <2>2, <2>3
  <2>5. IsSequence(oplog') /\ Len(oplog') = Len(oplog)
    BY <2>2, <2>4, SequenceIs
  <2>6. \A i \in 1 .. Len(oplog) : i # next => oplog'[i] = oplog[i]
    BY <2>2, <2>3
  <2>7. oplog'[next] = [oplog[next] EXCEPT !.idx = found]
    BY <1>1, <2>2, <2>3
  <2>8. [[o |-> oplog[next].o, idx |-> oplog[next].idx] EXCEPT !.idx = found]
          = [o |-> oplog[next].o, idx |-> found]
    BY SMTT(30)
  <2>9. oplog'[next] = [o |-> o, idx |-> found]
    BY <1>6, <2>7, <2>8
  <2> QED
    BY <2>5, <2>6, <2>9
<1>9. Drained' = Drained
  BY <1>3, <1>8 DEF Drained
<1>10. pos'[w] = Drained + next /\ pos'[r_copy] = pos[r_copy] /\ copies'[r_copy] = copies[r_copy]
  BY <1>1, <1>2, <1>3, SMTT(30)
<1>11. CopiesConverge'
  <2>1. ASSUME NEW c \in {1, 2} PROVE copies'[c].data = hist'[pos'[c]].data
    <3>1. c = w \/ c = r_copy
      BY <1>1 DEF r_copy
    <3>2. copies[r_copy].data = hist[pos[r_copy]].data
      BY <1>1 DEF Convergence, CopiesConverge
    <3> QED
      BY <1>3, <1>7, <1>10, <3>1, <3>2
  <2> QED
    BY <2>1 DEF CopiesConverge
<1>12. ASSUME NEW j \in 1 .. Len(oplog') PROVE EntryFits(j)'
  <2>1. CASE j = next
    <3>1. /\ oplog'[j].o = o /\ oplog'[j].idx = found
          /\ oplog'[j] = [o |-> oplog'[j].o, idx |-> oplog'[j].idx]
      BY <1>8, <2>1, SMTT(30)
    <3>2. /\ hist'[Drained' + j - 1].data = before
          /\ hist'[Drained' + j].data = ApplyAt(before, o, found)
      BY <1>3, <1>6, <1>9, <2>1
    <3> HIDE DEF o, before
    <3> QED
      BY <3>1, <3>2 DEF EntryFits
  <2>2. CASE j # next
    <3>1. oplog'[j] = oplog[j] /\ EntryFits(j)
      BY <1>8, <1>12, <2>2 DEF Convergence
    <3> QED
      BY <1>3, <1>9, <3>1 DEF EntryFits
  <2> QED
    BY <2>1, <2>2
<1>13. LogTypes'
  <2>1. next' \in 1 .. Len(oplog') + 1 /\ swap_index' \in 0 .. Len(oplog')
    <3>1. Len(oplog) \in Nat /\ next \in 1 .. Len(oplog) /\ swap_index \in 0 .. Len(oplog)
      BY <1>1
    <3>2. Len(oplog') = Len(oplog) /\ next' = next + 1 /\ swap_index' = swap_index
      BY <1>3, <1>8
    <3> QED
      BY <3>1, <3>2, SMTT(30)
  <2>2. pos' \in [{1, 2} -> 1 .. Len(hist')]
    <3>1. pos[w] + 1 = Drained + next
      BY <1>1, <1>2, SMTT(30)
    <3>2. pos' = [pos EXCEPT ![w] = Drained + next] /\ hist' = hist
      BY <1>3, <3>1
    <3> QED
      BY <1>1, <3>2
  <2>3. copies' \in [{1, 2} -> {copies'[1], copies'[2]}]
    BY <1>1, <1>3
  <2> QED
    BY <1>1, <1>3, <1>8, <2>1, <2>2, <2>3 DEF Convergence, LogTypes
<1>14. LogPhases' /\ Positions'
  BY <1>1, <1>2, <1>3, <1>8, <1>9, <1>10, SMTT(30) DEF Convergence, LogPhases, Positions
<1>15. ProtocolTypes' /\ WriterAlone'
  BY <1>1, <1>2, <1>3 DEF Convergence, ProtocolTypes, WriterAlone
<1> QED
  BY <1>11, <1>12, <1>13, <1>14, <1>15 DEF Convergence

\* The second publish copies the published contents; a publish with nothing of
\* its own to make up leaves the copies alone.
LEMMA PublishWaitConverges ==
  ASSUME Convergence, PublishWait PROVE Convergence'
<1>1. /\ Len(hist) \in Nat \ {0} /\ Len(oplog) \in Nat /\ Len(oplog) < Len(hist)
      /\ pos \in [{1, 2} -> 1 .. Len(hist)]
      /\ w \in {1, 2} /\ r_copy \in {1, 2} /\ r_copy # w /\ r_copy' = r_copy
      /\ copies \in [{1, 2} -> {copies[1], copies[2]}]
  BY ConvergenceTypes DEF PublishWait, PublishSync, r_copy
<1>2. /\ wpc = "wait" /\ next = 1 /\ first \in BOOLEAN /\ second \in BOOLEAN
      /\ first => second /\ oplog = <<>> /\ pos[w] = Len(hist)
      /\ second => swap_index = 0
      /\ ~first => pos[r_copy] = Drained + swap_index
      /\ ~second => pos[w] = Drained + next - 1
  BY DEF PublishWait, PublishSync, Convergence, LogPhases, Positions, ProtocolTypes, LogTypes
<1>3. /\ first' = FALSE /\ second' = first /\ pinned = {}
      /\ wpc' = IF first THEN "swap" ELSE "second"
      /\ UNCHANGED <<w, oplog, swap_index, next, rpc, guard, pinned, hist>>
  BY DEF PublishWait, PublishSync, readerVars
<1>4. CASE second /\ ~first
  <2>1. /\ copies' = [copies EXCEPT ![w] = sync_with(@, copies[r_copy])]
        /\ pos' = [pos EXCEPT ![w] = pos[r_copy]]
    BY <1>4 DEF PublishWait, PublishSync
  <2>2. /\ copies'[w].data = copies[r_copy].data /\ copies'[r_copy] = copies[r_copy]
        /\ pos'[w] = pos[r_copy] /\ pos'[r_copy] = pos[r_copy]
    BY <1>1, <2>1 DEF sync_with
  <2>3. CopiesConverge'
    <3>1. ASSUME NEW c \in {1, 2} PROVE copies'[c].data = hist'[pos'[c]].data
      <4>1. c = w \/ c = r_copy
        BY <1>1 DEF r_copy
      <4>2. copies[r_copy].data = hist[pos[r_copy]].data
        BY <1>1 DEF Convergence, CopiesConverge
      <4> QED
        BY <1>3, <2>2, <4>1, <4>2
    <3> QED
      BY <3>1 DEF CopiesConverge
  <2>4. LogTypes'
    <3>1. pos' \in [{1, 2} -> 1 .. Len(hist')]
      BY <1>1, <1>3, <2>1
    <3>2. copies' \in [{1, 2} -> {copies'[1], copies'[2]}]
      BY <1>1, <2>1
    <3> QED
      BY <1>2, <1>3, <3>1, <3>2 DEF Convergence, LogTypes
  <2>5. LogPhases' /\ Positions'
    <3>1. Drained' = Drained /\ Drained \in Nat
      BY <1>1, <1>3, SMTT(30) DEF Drained
    <3> QED
      BY <1>1, <1>2, <1>3, <1>4, <2>2, <3>1, SMTT(30) DEF LogPhases, Positions
  <2>6. ProtocolTypes' /\ WriterAlone'
    BY <1>1, <1>3, <1>4, <2>1 DEF Convergence, ProtocolTypes, WriterAlone
  <2>7. \A j \in 1 .. Len(oplog') : EntryFits(j)'
    BY <1>3 DEF Convergence, EntryFits, Drained
  <2> QED
    BY <2>3, <2>4, <2>5, <2>6, <2>7 DEF Convergence
<1>5. CASE ~(second /\ ~first)
  <2>1. copies' = copies /\ pos' = pos
    BY <1>1, <1>5 DEF PublishWait, PublishSync
  <2>2. CopiesConverge'
    BY <1>3, <2>1 DEF Convergence, CopiesConverge
  <2>3. LogTypes'
    BY <1>2, <1>3, <2>1 DEF Convergence, LogTypes
  <2>4. Drained' = Drained
    BY <1>3 DEF Drained
  <2>5. LogPhases' /\ Positions'
    BY <1>1, <1>2, <1>3, <1>5, <2>1, <2>4 DEF Convergence, LogPhases, Positions
  <2>6. ProtocolTypes' /\ WriterAlone'
    BY <1>1, <1>2, <1>3, <2>1 DEF Convergence, ProtocolTypes, WriterAlone
  <2>7. \A j \in 1 .. Len(oplog') : EntryFits(j)'
    BY <1>3 DEF Convergence, EntryFits, Drained
  <2> QED
    BY <2>2, <2>3, <2>5, <2>6, <2>7 DEF Convergence
<1> QED
  BY <1>4, <1>5

\* A swap publishes a copy that has seen everything.
LEMMA SwapConverges ==
  ASSUME Convergence, Swap PROVE Convergence'
<1>1. /\ Len(hist) \in Nat \ {0} /\ Len(oplog) \in Nat /\ Len(oplog) < Len(hist)
      /\ pos \in [{1, 2} -> 1 .. Len(hist)] /\ next \in 1 .. Len(oplog) + 1
      /\ w \in {1, 2} /\ r_copy \in {1, 2} /\ r_copy # w
      /\ Drained = Len(hist) - Len(oplog)
  BY ConvergenceTypes DEF Drained
<1>2. /\ w' = r_copy /\ swap_index' = Len(oplog) /\ next' = 1 /\ wpc' = "epochs"
      /\ UNCHANGED <<copies, oplog, first, second, rpc, guard, pinned, hist, pos>>
  BY DEF Swap, readerVars
<1>3. r_copy' = w /\ Drained' = Drained
  BY <1>1, <1>2, SMTT(30) DEF r_copy, Drained
<1>4. /\ ~first /\ pos[w] = Len(hist)
      /\ second => oplog = <<>>
      /\ ~second => swap_index = 0 /\ pos[r_copy] = Drained
  BY <1>1, SMTT(30) DEF Swap, Convergence, WriterAlone, LogPhases, Positions
<1>5. CopiesConverge' /\ \A j \in 1 .. Len(oplog') : EntryFits(j)'
  BY <1>2 DEF Convergence, CopiesConverge, EntryFits, Drained
<1>6. LogTypes'
  BY <1>1, <1>2, SMTT(30) DEF Convergence, LogTypes
<1>7. LogPhases' /\ Positions'
  BY <1>1, <1>2, <1>3, <1>4, SMTT(30) DEF Convergence, LogPhases, Positions
<1>8. ProtocolTypes' /\ WriterAlone'
  BY <1>1, <1>2, <1>4 DEF Convergence, ProtocolTypes, WriterAlone
<1> QED
  BY <1>5, <1>6, <1>7, <1>8 DEF Convergence

\* The other steps touch neither the contents nor the log.
LEMMA OthersConverge ==
  ASSUME Convergence,
         UNCHANGED <<copies, w, oplog, swap_index, first, second, next, hist, pos>>,
         ProtocolTypes', WriterAlone',
         \/ wpc' = wpc
         \/ wpc' \in {"idle", "wait"} /\ next = 1 /\ wpc # "swap"
         \/ wpc = "epochs" /\ wpc' = "evict"
  PROVE  Convergence'
<1>1. CopiesConverge' /\ \A j \in 1 .. Len(oplog') : EntryFits(j)'
  BY DEF Convergence, CopiesConverge, EntryFits, Drained
<1>2. LogTypes'
  BY DEF Convergence, LogTypes
<1>3. LogPhases' /\ Positions'
  BY DEF Convergence, LogPhases, Positions, Drained, r_copy
<1> QED
  BY <1>1, <1>2, <1>3 DEF Convergence

\* Every step keeps the copies on their way.
LEMMA ConvergenceInductive ==
  ASSUME Convergence, Isolation', [Next]_vars PROVE Convergence'
<1>1. ProtocolTypes' /\ WriterAlone'
  BY DEF Isolation
<1>2. /\ wpc \in {"idle", "wait", "epochs", "evict"} => next = 1
      /\ wpc \in {"idle", "wait", "swap", "second", "first", "epochs", "evict"}
  BY DEF Convergence, LogPhases, ProtocolTypes
<1>3. CASE AddOp
  BY <1>3, ExtendConverges DEF AddOp
<1>4. CASE Publish
  BY <1>1, <1>2, <1>4, OthersConverge DEF Publish, PublishCall
<1>5. CASE RecordEpochs
  BY <1>1, <1>2, <1>5, OthersConverge DEF RecordEpochs, writerVars
<1>6. CASE EvictKeys
  <2>1. CASE UNCHANGED <<copies, oplog, hist, pos>>
    BY <1>1, <1>2, <1>6, <2>1, OthersConverge DEF EvictKeys
  <2>2. CASE \E S \in SUBSET DOMAIN copies[r_copy].data :
               Extend([op |-> "Remove", keys |-> S])
    BY <1>6, <2>2, ExtendConverges DEF EvictKeys
  <2> QED
    BY <1>6, <2>1, <2>2 DEF EvictKeys
<1>7. CASE \/ \E r \in Readers : EnterEpoch(r) \/ EnterLoad(r) \/ Leave(r)
           \/ UNCHANGED vars
  BY <1>1, <1>7, OthersConverge DEF EnterEpoch, EnterLoad, Leave, writerVars, vars
<1> QED
  BY <1>3, <1>4, <1>5, <1>6, <1>7, PublishWaitConverges, AbsorbSecondConverges,
     AbsorbFirstConverges, SwapConverges DEF Next, WriterStep

\* Each copy holds what the operations it has seen amount to, for any readers,
\* keys, values and operations: the index that absorb_first stored is right when
\* absorb_second uses it, and sync_with makes up for the first publish.
THEOREM CopiesAgreeWithHistory == Spec => []CopiesConverge
<1>1. Init => Convergence
  BY ConvergenceInit
<1>2. Convergence /\ Isolation' /\ [Next]_vars => Convergence'
  BY ConvergenceInductive
<1>3. Convergence => CopiesConverge
  BY DEF Convergence
<1> QED
  BY <1>1, <1>2, <1>3, IsolationInvariant, PTL DEF Spec

\* When evict_keys picks keys, the copy it looks at holds the result of all that
\* was queued.
THEOREM EvictionSeesLatest == Spec => []EvictSeesLatest
<1>1. Init => Convergence
  BY ConvergenceInit
<1>2. Convergence /\ Isolation' /\ [Next]_vars => Convergence'
  BY ConvergenceInductive
<1>3. Convergence => EvictSeesLatest
  <2>1. SUFFICES ASSUME Convergence, wpc = "evict"
                 PROVE  copies[r_copy].data = hist[Len(hist)].data
    BY DEF EvictSeesLatest, Latest
  <2>2. r_copy \in {1, 2} /\ Len(hist) \in Nat /\ Len(oplog) \in Nat
    BY <2>1, ConvergenceTypes
  <2>3. pos[r_copy] = Len(hist)
    BY <2>1, <2>2, SMTT(30) DEF Convergence, LogPhases, Positions, Drained
  <2> QED
    BY <2>1, <2>2, <2>3, SMTT(30) DEF Convergence, CopiesConverge
<1> QED
  BY <1>1, <1>2, <1>3, IsolationInvariant, PTL DEF Spec

\* What readers see changes only to the result of all that was queued before the
\* publish: one publish() shows everything or nothing of it.
THEOREM PublishIsAtomic == Spec => PublishExposesAll
<1> DEFINE Exposes == copies'[3 - w'].data # copies[3 - w].data
                        => copies'[3 - w'].data = Latest.data
<1>1. Init => Convergence
  BY ConvergenceInit
<1>2. Convergence /\ Isolation' /\ [Next]_vars => Convergence'
  BY ConvergenceInductive
<1>3. Convergence /\ [Next]_vars => [Exposes]_vars
  <2>1. SUFFICES ASSUME Convergence, Next PROVE Exposes
    BY DEF vars
  <2>2. /\ w \in {1, 2} /\ copies \in [{1, 2} -> {copies[1], copies[2]}]
        /\ 3 - w \in {1, 2} /\ 3 - w # w /\ Len(hist) \in Nat /\ Len(oplog) \in Nat
        /\ next \in 1 .. Len(oplog) + 1
    BY <2>1, ConvergenceTypes, SMTT(30)
  <2>3. CASE Swap
    <3>1. w' = 3 - w /\ copies' = copies
      BY <2>3 DEF Swap, r_copy
    <3>2. pos[w] = Len(hist)
      BY <2>1, <2>2, <2>3, SMTT(30) DEF Swap, Convergence, WriterAlone, LogPhases, Positions, Drained
    <3>3. copies[w].data = Latest.data
      BY <2>1, <2>2, <3>2, SMTT(30) DEF Convergence, CopiesConverge, Latest
    <3>4. 3 - (3 - w) = w
      BY <2>2, SMTT(30)
    <3> QED
      BY <3>1, <3>3, <3>4
  <2>4. CASE ~Swap
    <3>1. w' = w /\ copies'[3 - w] = copies[3 - w]
      <4>1. CASE AddOp \/ EvictKeys
        BY <2>2, <4>1 DEF AddOp, EvictKeys, Extend
      <4>2. CASE PublishWait \/ AbsorbSecond \/ AbsorbFirst
        BY <2>2, <4>2 DEF PublishWait, PublishSync, AbsorbSecond, AbsorbFirst
      <4>3. CASE \/ Publish \/ RecordEpochs
                 \/ \E q \in Readers : EnterEpoch(q) \/ EnterLoad(q) \/ Leave(q)
        BY <4>3 DEF Publish, PublishCall, RecordEpochs, EnterEpoch, EnterLoad, Leave
      <4> QED
        BY <2>1, <2>4, <4>1, <4>2, <4>3 DEF Next, WriterStep
    <3> QED
      BY <3>1
  <2> QED
    BY <2>3, <2>4
<1> QED
  BY <1>1, <1>2, <1>3, IsolationInvariant, PTL DEF Spec, PublishExposesAll
=============================================================================
