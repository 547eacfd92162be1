---------------------------- MODULE UnionReplay ----------------------------
(***************************************************************************)
(* Partial replays through a union (ops/union.rs).                          *)
(*                                                                         *)
(*   parent p1 --->\                                                        *)
(*                  union ---> reader                                       *)
(*   parent p2 --->/                                                        *)
(*                                                                         *)
(* A reader has a domain of its own; the union shares the domain of its     *)
(* Local parents (assignment.rs places it with the first); the other parents*)
(* are partial nodes of other domains.  A reader that misses asks every     *)
(* parent for the key, and the union must hand on one replay for the answers*)
(* of all of them: it buffers the pieces until the last one is in, adds to a*)
(* buffered piece the writes that follow it, and notes the evictions that   *)
(* follow it.                                                               *)
(*                                                                         *)
(* A row is only counted, per parent and key.  A key is a point: the union  *)
(* compares the KeyComparison of a piece as a whole.  Holes of a parent are *)
(* filled in one step; Upqueries takes that step apart.                     *)
(***************************************************************************)
EXTENDS Naturals, FiniteSets, Sequences, FiniteSetsExt, SequencesExt

CONSTANTS Keys,
          Parents,       \* the ancestors of the union: `required' many
          Local,         \* parents in the domain of the union
          First,         \* the parent whose path comes first in the plan
          Hole,          \* an unfilled key of the reader
          MaxWrites,     \* bound on the number of writes
          MaxEvictions   \* bound on the number of evictions

ASSUME UnionAssumption ==
  /\ IsFiniteSet(Keys)
  /\ IsFiniteSet(Parents)
  /\ Local \subseteq Parents
  /\ First \in Parents
  /\ Hole \notin [Parents -> Nat]
  /\ MaxWrites \in Nat
  /\ MaxEvictions \in Nat

VARIABLES rows,       \* rows per parent and key
          filled,     \* keys each parent has filled
          redos,      \* keys each parent is to replay once they are filled
          requests,   \* RequestPartialReplay packets to each parent
          chan,       \* packets from each parent to the union
          pieces,     \* replay_pieces: the pieces buffered for each key
          down,       \* packets from the union to the reader
          view,       \* rows per key in the reader, per parent, or Hole
          triggered,  \* reader_triggered: keys the reader waits for
          failed,     \* domains stopped by a panic or an internal error
          evictions,  \* number of evictions so far
          passed      \* history: parents whose eviction of a key came to the
                      \* union after their buffered piece

parentVars == <<rows, filled, redos>>
readerVars == <<view, triggered>>
vars == <<parentVars, requests, chan, pieces, down, readerVars, failed, evictions, passed>>

Message(k) == [type |-> "Message", key |-> k]
EvictKeys(K, tag) == [type |-> "EvictKeys", keys |-> K, tag |-> tag]
ReplayPiece(K, data) == [type |-> "ReplayPiece", for_keys |-> K, data |-> data]

\* A replay path per parent: its tag is the parent.
Tag(p) == p

\* force_tag_to: the paths of all parents are one path below the union, and
\* share the tag of the first.
ForceTag == Tag(First)

\* ReplayPieces without a piece: there is no entry for the key.
NoPieces == [buffered |-> <<>>, evict |-> FALSE]

HasPiece(p, k) == p \in DOMAIN pieces[k].buffered

required == Cardinality(Parents)

-----------------------------------------------------------------------------
Init ==
  /\ rows = [p \in Parents |-> [k \in Keys |-> 0]]
  /\ filled = [p \in Parents |-> {}]
  /\ redos = [p \in Parents |-> {}]
  /\ requests = [p \in Parents |-> <<>>]
  /\ chan = [p \in Parents |-> <<>>]
  /\ pieces = [k \in Keys |-> NoPieces]
  /\ down = <<>>
  /\ view = [k \in Keys |-> Hole]
  /\ triggered = {}
  /\ failed = {}
  /\ evictions = 0
  /\ passed = [k \in Keys |-> {}]

-----------------------------------------------------------------------------
(* A parent.                                                                *)

\* A packet of a Local parent goes through the union before its domain takes
\* the next packet.
Idle == "union" \notin failed /\ \A p \in Local : chan[p] = <<>>

ParentIdle(p) == p \in Local => Idle

Send(p, packet) == chan' = [chan EXCEPT ![p] = Append(@, packet)]

Writes == MapThenSumSet(LAMBDA p : MapThenSumSet(LAMBDA k : rows[p][k], Keys), Parents)

\* A write: forwarded if its key is filled, dropped otherwise.
Write(p, k) ==
  /\ ParentIdle(p)
  /\ Writes < MaxWrites
  /\ rows' = [rows EXCEPT ![p][k] = @ + 1]
  /\ IF k \in filled[p] THEN Send(p, Message(k)) ELSE UNCHANGED chan
  /\ UNCHANGED <<filled, redos, requests, pieces, down, readerVars, failed, evictions,
                 passed>>

Piece(p, K) == ReplayPiece(K, [k \in K |-> rows[p][k]])

\* RequestPartialReplay: seed_all replays the keys that hit and remembers the
\* others.
Seed(p) ==
  /\ ParentIdle(p)
  /\ requests[p] # <<>>
  /\ requests' = [requests EXCEPT ![p] = Tail(@)]
  /\ LET keys == Head(requests[p])
         found == keys \cap filled[p]
     IN /\ IF found = {} THEN UNCHANGED chan ELSE Send(p, Piece(p, found))
        /\ redos' = [redos EXCEPT ![p] = @ \cup (keys \ found)]
  /\ UNCHANGED <<rows, filled, pieces, down, readerVars, failed, evictions, passed>>

\* A hole of the parent is filled, for the reader below or for another child,
\* and the replay that waited for it is sent.
Backfill(p, k) ==
  /\ ParentIdle(p)
  /\ k \notin filled[p]
  /\ filled' = [filled EXCEPT ![p] = @ \cup {k}]
  /\ redos' = [redos EXCEPT ![p] = @ \ {k}]
  /\ IF k \in redos[p] THEN Send(p, Piece(p, {k})) ELSE UNCHANGED chan
  /\ UNCHANGED <<rows, requests, pieces, down, readerVars, failed, evictions, passed>>

\* The parent evicts a key; trigger_downstream_evictions sends EvictKeys with
\* the tag of the path.
ParentEvict(p, k) ==
  /\ ParentIdle(p)
  /\ evictions < MaxEvictions
  /\ k \in filled[p]
  /\ evictions' = evictions + 1
  /\ filled' = [filled EXCEPT ![p] = @ \ {k}]
  /\ Send(p, EvictKeys({k}, Tag(p)))
  /\ UNCHANGED <<rows, redos, requests, pieces, down, readerVars, failed, passed>>

-----------------------------------------------------------------------------
(* The union.                                                               *)

Receive(p, type) ==
  /\ "union" \notin failed
  /\ p \in Local \/ Idle
  /\ chan[p] # <<>>
  /\ Head(chan[p]).type = type
  /\ chan' = [chan EXCEPT ![p] = Tail(@)]

\* Mutant: a row is not added to the pieces it follows.
Absorb_Nothing(p, k) == pieces

\* on_input_raw outside a replay: a row joins the buffered piece it follows.
Absorb(p, k) ==
  IF HasPiece(p, k) THEN [pieces EXCEPT ![k].buffered[p] = @ + 1] ELSE pieces

\* A Message: the row is kept for the replay, and forwarded.
UnionMessage(p) ==
  /\ Receive(p, "Message")
  /\ LET k == Head(chan[p]).key
     IN /\ pieces' = Absorb(p, k)
        /\ down' = Append(down, [type |-> "Message", key |-> k, from |-> p])
  /\ UNCHANGED <<parentVars, requests, readerVars, failed, evictions, passed>>

\* The entry of k with the piece of p, of n rows.
WithPiece(k, p, n) ==
  [pieces[k] EXCEPT !.buffered =
     [q \in DOMAIN @ \cup {p} |-> IF q = p THEN n ELSE @[q]]]

\* Mutant: a replay is released when every piece was buffered before.
Released_Late(K) == {k \in K : Cardinality(DOMAIN pieces[k].buffered) = required}

\* The keys of a piece for which the pieces of all other parents are in.
Released(K) == {k \in K : Cardinality(DOMAIN pieces[k].buffered) = required - 1}

\* The rows of a replay that is released; `evict' is only logged.
ReleasedRows(k, p, n) ==
  [q \in Parents |-> IF q \in DOMAIN WithPiece(k, p, n).buffered
                     THEN WithPiece(k, p, n).buffered[q] ELSE 0]

\* A ReplayPiece: on_input_raw in a partial replay captures the keys that miss
\* a piece and releases the others.  A second piece of the same parent is a
\* panic.
UnionReplayPiece(p) ==
  /\ Receive(p, "ReplayPiece")
  /\ LET K == Head(chan[p]).for_keys
         data == Head(chan[p]).data
         panic == \E k \in K : HasPiece(p, k)
         done == IF panic THEN {} ELSE Released(K)
         captured == IF panic THEN {} ELSE K \ done
     IN /\ pieces' = [k \in Keys |->
                        IF k \in done THEN NoPieces
                        ELSE IF k \in captured THEN WithPiece(k, p, data[k])
                        ELSE pieces[k]]
        /\ down' = IF done = {} THEN down
                   ELSE Append(down, ReplayPiece(done,
                                 [k \in done |-> ReleasedRows(k, p, data[k])]))
        /\ failed' = IF panic THEN failed \cup {"union"} ELSE failed
  /\ UNCHANGED <<parentVars, requests, readerVars, evictions, passed>>

\* on_eviction: the pieces are found under the tag of the packet, which
\* walk_path does not force to that of the group.
on_eviction(p, K, tag) ==
  [k \in Keys |-> IF k \in K /\ tag = ForceTag /\ HasPiece(p, k)
                  THEN [pieces[k] EXCEPT !.evict = TRUE] ELSE pieces[k]]

\* EvictKeys: walk_path goes through the union and on to the reader.
UnionEvictKeys(p) ==
  /\ Receive(p, "EvictKeys")
  /\ LET K == Head(chan[p]).keys
     IN /\ pieces' = on_eviction(p, K, Head(chan[p]).tag)
        /\ down' = Append(down, Head(chan[p]))
        /\ passed' = [k \in Keys |-> IF k \in K /\ HasPiece(p, k)
                                     THEN passed[k] \cup {p} ELSE passed[k]]
  /\ UNCHANGED <<parentVars, requests, readerVars, failed, evictions>>

-----------------------------------------------------------------------------
(* The domain of the reader.                                                *)

\* The keys of a RequestReaderReplay that are still holes, without those that
\* are requested already.
Unrequested(K) == {k \in K : view[k] = Hole} \ triggered

\* RequestReaderReplay for the keys some lookup missed, now or earlier.
\* find_tags_and_replay asks along the path of every parent.
RequestReaderReplay(K) ==
  /\ "reader" \notin failed
  /\ Unrequested(K) # {}
  /\ triggered' = triggered \cup Unrequested(K)
  /\ requests' = [p \in Parents |-> Append(requests[p], Unrequested(K))]
  /\ UNCHANGED <<parentVars, chan, pieces, down, view, failed, evictions, passed>>

ReaderReceive(type) ==
  /\ "reader" \notin failed
  /\ down # <<>>
  /\ Head(down).type = type
  /\ down' = Tail(down)

\* Reader::process for a Message: a row that hits a hole is dropped.
ReaderMessage ==
  /\ ReaderReceive("Message")
  /\ LET k == Head(down).key
     IN view' = IF view[k] = Hole THEN view ELSE [view EXCEPT ![k][Head(down).from] = @ + 1]
  /\ UNCHANGED <<parentVars, requests, chan, pieces, triggered, failed, evictions, passed>>

\* handle_replay prunes the keys the reader does not wait for, unless it waits
\* for none at all.
Expected(K) == IF triggered = {} THEN K ELSE K \cap triggered

\* The released replay fills holes of the reader; mark_filled refuses a key
\* that is filled.
ReaderReplayPiece ==
  /\ ReaderReceive("ReplayPiece")
  /\ LET K == Expected(Head(down).for_keys)
         error == \E k \in K : view[k] # Hole
         done == IF error THEN {} ELSE K
     IN /\ view' = [k \in Keys |-> IF k \in done THEN Head(down).data[k] ELSE view[k]]
        /\ triggered' = triggered \ done
        /\ failed' = IF error THEN failed \cup {"reader"} ELSE failed
  /\ UNCHANGED <<parentVars, requests, chan, pieces, evictions, passed>>

\* The reader has lost the keys K: what passed the union for them is settled,
\* unless their next replay is on its way through it.
Evicted(K) ==
  /\ view' = [k \in Keys |-> IF k \in K THEN Hole ELSE view[k]]
  /\ passed' = [k \in Keys |-> IF k \in K /\ view[k] # Hole THEN {} ELSE passed[k]]

\* EvictKeys: process_eviction of the reader.
ReaderEvictKeys ==
  /\ ReaderReceive("EvictKeys")
  /\ Evicted(Head(down).keys)
  /\ UNCHANGED <<parentVars, requests, chan, pieces, triggered, failed, evictions>>

\* The reader evicts a key of its own.
ReaderEvict(k) ==
  /\ "reader" \notin failed
  /\ evictions < MaxEvictions
  /\ view[k] # Hole
  /\ evictions' = evictions + 1
  /\ Evicted({k})
  /\ UNCHANGED <<parentVars, requests, chan, pieces, down, triggered, failed>>

-----------------------------------------------------------------------------
Environment ==
  \/ \E p \in Parents, k \in Keys : Write(p, k) \/ ParentEvict(p, k)
  \/ \E k \in Keys : ReaderEvict(k)
  \/ \E K \in SUBSET Keys : RequestReaderReplay(K)

UnionStep(p) == UnionMessage(p) \/ UnionReplayPiece(p) \/ UnionEvictKeys(p)

ReaderStep == ReaderMessage \/ ReaderReplayPiece \/ ReaderEvictKeys

Next ==
  \/ Environment
  \/ \E p \in Parents : Seed(p) \/ UnionStep(p)
  \/ \E p \in Parents, k \in Keys : Backfill(p, k)
  \/ ReaderStep

Spec == Init /\ [][Next]_vars

\* Domains take the packets of each channel, and a parent answers the replays
\* it owes.
Fairness ==
  /\ \A p \in Parents :
       /\ WF_vars(Seed(p))
       /\ WF_vars(UnionStep(p))
       /\ \A k \in Keys : WF_vars(k \in redos[p] /\ Backfill(p, k))
  /\ WF_vars(ReaderStep)

FairSpec == Spec /\ Fairness

-----------------------------------------------------------------------------
(* Properties.                                                              *)

\* The type invariant; a key whose pieces are all in is not buffered.
TypeOK ==
  /\ \A p \in Parents : rows[p] \in [Keys -> 0..MaxWrites]
  /\ filled \in [Parents -> SUBSET Keys]
  /\ redos \in [Parents -> SUBSET Keys]
  /\ \A p \in Parents : \A K \in ToSet(requests[p]) : K # {} /\ K \subseteq Keys
  /\ \A p \in Parents : \A m \in ToSet(chan[p]) :
       \/ m.type = "Message" /\ m.key \in Keys
       \/ m.type = "EvictKeys" /\ m.keys \subseteq Keys /\ m.tag \in Parents
       \/ /\ m.type = "ReplayPiece" /\ m.for_keys \subseteq Keys
          /\ m.data \in [m.for_keys -> 0..MaxWrites]
  /\ \A k \in Keys : /\ DOMAIN pieces[k].buffered \subseteq Parents
                     /\ DOMAIN pieces[k].buffered # Parents
                     /\ pieces[k].evict \in BOOLEAN
  /\ \A m \in ToSet(down) :
       \/ m.type = "Message" /\ m.key \in Keys /\ m.from \in Parents
       \/ m.type = "EvictKeys" /\ m.keys \subseteq Keys
       \/ /\ m.type = "ReplayPiece" /\ m.for_keys \subseteq Keys
          /\ m.data \in [m.for_keys -> [Parents -> 0..MaxWrites]]
  /\ \A k \in Keys : view[k] = Hole \/ view[k] \in [Parents -> 0..MaxWrites]
  /\ triggered \subseteq Keys
  /\ failed \subseteq {"union", "reader"}
  /\ evictions \in 0..MaxEvictions
  /\ passed \in [Keys -> SUBSET Parents]

\* Never do two pieces of one parent meet in the union, which would stop its
\* domain ("downstream shard double-requested key"), and never does a replay
\* reach a filled key of the reader.
NoDoublePiece == failed = {}

Carrying(channel, k) ==
  Cardinality({i \in DOMAIN channel : /\ channel[i].type = "ReplayPiece"
                                      /\ k \in channel[i].for_keys})

Occurrences(p, k) ==
  Cardinality({i \in DOMAIN requests[p] : k \in requests[p][i]})
  + (IF k \in redos[p] THEN 1 ELSE 0)
  + Carrying(chan[p], k)
  + (IF HasPiece(p, k) THEN 1 ELSE 0)
  + Carrying(down, k)

\* For every key the reader waits for, each parent's answer is in exactly one
\* place: a request, a redo, a packet, the union's buffer, or the released
\* replay.  For other keys there is none: the union keeps nothing behind, and
\* no answer is lost or asked for twice.
OneAnswerPerParent ==
  failed = {} =>
    \A p \in Parents, k \in Keys :
      Occurrences(p, k) = IF k \in triggered THEN 1 ELSE 0

\* The writes of p to k that the reader is still to see.
InFlight(p, k) ==
  Len(SelectSeq(chan[p], LAMBDA m : m = Message(k)))
  + Len(SelectSeq(down, LAMBDA m : m.type = "Message" /\ m.key = k /\ m.from = p))

Evicting(p, k) ==
  \E m \in ToSet(chan[p]) \cup ToSet(down) : m.type = "EvictKeys" /\ k \in m.keys

\* A filled key of the reader has exactly the rows of every parent, but for the
\* writes on their way: the released replay has each row once, whether it was
\* in a piece or came while another piece was missing.  A parent that evicted
\* the key behind its own buffered piece is excepted, as are evictions under
\* way.
ViewCurrent ==
  \A k \in Keys : view[k] # Hole =>
    \A p \in Parents :
      p \in passed[k] \/ Evicting(p, k) \/ view[k][p] + InFlight(p, k) = rows[p][k]

\* Every key that was asked for is answered, under evictions and writes.
ReplaysReleased == \A k \in Keys : k \in triggered ~> k \notin triggered
=============================================================================
