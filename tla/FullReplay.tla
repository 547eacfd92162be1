----------------------------- MODULE FullReplay -----------------------------
(***************************************************************************)
(* Building a new full materialization below a union while writes go on.    *)
(*                                                                         *)
(* The controller tells each parent to StartReplay.  A parent copies its    *)
(* state, announces the replay with an empty piece, and a thread sends the  *)
(* copy back to its domain in chunks, which are replayed down among the     *)
(* writes.  The union holds the replay back until every parent has started  *)
(* (FullWait), and the domain of the new node, the target, drops writes     *)
(* until the first piece and buffers those after it until the last.  On its *)
(* way a piece that is empty and not the last is dropped by the domain that *)
(* would hand it to a second node of the path.                              *)
(*                                                                         *)
(* With one parent the union stands for any operator that only hands on.    *)
(* A row is the pair of its parent and its number there; bags of rows tell  *)
(* a row that is there twice.                                               *)
(***************************************************************************)
EXTENDS Naturals, FiniteSets, Sequences, SequencesExt, Bags

CONSTANTS Parents,       \* the ancestors of the union: `required' many
          Local,         \* parents in the domain of the union
          SameDomain,    \* the target is in the domain of the union, too
          BATCH_SIZE,    \* rows per chunk
          Unbuilt,       \* no view: the target is not ready
          MaxWrites      \* bound on the writes of a parent

ASSUME FullReplayAssumption ==
  /\ IsFiniteSet(Parents) /\ Parents # {}
  /\ Local \subseteq Parents
  /\ SameDomain \in BOOLEAN
  /\ BATCH_SIZE \in Nat \ {0}
  /\ Unbuilt \notin [Parents -> Nat]
  /\ MaxWrites \in Nat

VARIABLES rows,       \* number of rows of each parent
          asked,      \* parents that were told to StartReplay
          chunks,     \* what the chunker thread of each parent is to send
          chan,       \* packets from each parent to the union
          wait,       \* the union's full_wait_state
          down,       \* packets from the union to the domain of the target
          mode,       \* DomainMode of the domain of the target
          buffered,   \* rows buffered while it is Replaying
          not_ready,  \* the target is in not_ready
          target,     \* the rows of the target
          replay_completed,
          status,     \* where the migration is: replaying, done, ready
          copied,     \* history: rows in the copied state of each parent
          unheralded  \* history: rows that went down before any piece did

parentVars == <<rows, asked, chunks>>
targetVars == <<mode, buffered, not_ready, target, replay_completed>>
history == <<copied, unheralded>>
vars == <<parentVars, chan, wait, down, targetVars, status, history>>

Row(p, i) == <<p, i>>
Message(row) == [type |-> "Message", row |-> row]
ReplayPiece(data, last) == [type |-> "ReplayPiece", data |-> data, last |-> last]

\* FullWait::None: no parent has started.
NoWait == [started |-> {}, finished |-> 0, buffered |-> EmptyBag]

required == Cardinality(Parents)

-----------------------------------------------------------------------------
Init ==
  /\ rows = [p \in Parents |-> 0]
  /\ asked = {}
  /\ chunks = [p \in Parents |-> <<>>]
  /\ chan = [p \in Parents |-> <<>>]
  /\ wait = NoWait
  /\ down = <<>>
  /\ mode = "Forwarding"
  /\ buffered = <<>>
  /\ not_ready = TRUE
  /\ target = EmptyBag
  /\ replay_completed = FALSE
  /\ status = "replaying"
  /\ copied = [p \in Parents |-> 0]
  /\ unheralded = {}

-----------------------------------------------------------------------------
(* A parent.                                                                *)

\* What a Local parent sends goes through the union before its domain takes
\* the next packet.
Idle == \A p \in Local : chan[p] = <<>>

ParentIdle(p) == p \in Local => Idle

Send(p, packet) == chan' = [chan EXCEPT ![p] = Append(@, packet)]

Write(p) ==
  /\ ParentIdle(p)
  /\ rows[p] < MaxWrites
  /\ rows' = [rows EXCEPT ![p] = @ + 1]
  /\ Send(p, Message(Row(p, rows[p] + 1)))
  /\ UNCHANGED <<asked, chunks, wait, down, targetVars, status, history>>

\* The rows of p cut into batches.
Batches(p) ==
  [c \in 1..((rows[p] + BATCH_SIZE - 1) \div BATCH_SIZE) |->
     {Row(p, i) : i \in {j \in 1..rows[p] : (j - 1) \div BATCH_SIZE = c - 1}}]

\* StartReplay: the state is cloned and the replay announced in one step.
StartReplay(p) ==
  /\ ParentIdle(p)
  /\ p \notin asked
  /\ asked' = asked \cup {p}
  /\ chunks' = [chunks EXCEPT ![p] = Batches(p)]
  /\ Send(p, ReplayPiece({}, rows[p] = 0))
  /\ copied' = [copied EXCEPT ![p] = rows[p]]
  /\ UNCHANGED <<rows, wait, down, targetVars, status, unheralded>>

\* A chunk of the thread comes to the domain of p, which replays it.
Chunk(p) ==
  /\ ParentIdle(p)
  /\ chunks[p] # <<>>
  /\ chunks' = [chunks EXCEPT ![p] = Tail(@)]
  /\ Send(p, ReplayPiece(Head(chunks[p]), Len(chunks[p]) = 1))
  /\ UNCHANGED <<rows, asked, wait, down, targetVars, status, history>>

-----------------------------------------------------------------------------
(* The domain of the target, which may also be that of the union.           *)

\* dispatch to the target: buffered while Replaying, dropped while not ready.
TargetMessage(row) ==
  /\ buffered' = IF mode = "Replaying" THEN Append(buffered, row) ELSE buffered
  /\ target' = IF mode = "Replaying" \/ not_ready THEN target
               ELSE target (+) SetToBag({row})
  /\ UNCHANGED <<mode, not_ready, replay_completed>>

\* handle_replay of a piece that does not come to the target, captured by the
\* union or dropped: the domain is Replaying all the same.
TargetSkipped ==
  /\ mode' = "Replaying"
  /\ UNCHANGED <<buffered, not_ready, target, replay_completed>>

SeqToBag(s) == FoldLeft(LAMBDA b, row : b (+) SetToBag({row}), EmptyBag, s)

\* Mutant: what was buffered is thrown away with the buffer.
TargetReplayPiece_Drop(data, last) ==
  /\ mode' = IF last THEN "Forwarding" ELSE "Replaying"
  /\ not_ready' = (not_ready /\ ~last)
  /\ buffered' = IF last THEN <<>> ELSE buffered
  /\ target' = target (+) data
  /\ replay_completed' = (replay_completed \/ last)

\* handle_replay of a piece.  The last one makes the target ready; the Finish
\* packets that follow, all handled with it, dispatch what was buffered.
TargetReplayPiece(data, last) ==
  /\ mode' = IF last THEN "Forwarding" ELSE "Replaying"
  /\ not_ready' = (not_ready /\ ~last)
  /\ buffered' = IF last THEN <<>> ELSE buffered
  /\ target' = target (+) data (+) (IF last THEN SeqToBag(buffered) ELSE EmptyBag)
  /\ replay_completed' = (replay_completed \/ last)

\* A packet from the union, which is in another domain.
TargetReceive ==
  /\ down # <<>>
  /\ down' = Tail(down)
  /\ LET m == Head(down)
     IN IF m.type = "Message" THEN TargetMessage(m.row)
                              ELSE TargetReplayPiece(m.data, m.last)
  /\ UNCHANGED <<parentVars, chan, wait, status, history>>

-----------------------------------------------------------------------------
(* The union.                                                               *)

Receive(p, type) ==
  /\ p \in Local \/ Idle
  /\ chan[p] # <<>>
  /\ Head(chan[p]).type = type
  /\ chan' = [chan EXCEPT ![p] = Tail(@)]

\* on_input_raw outside a replay: a write that follows the first piece of its
\* parent is added to the captured replay.
Absorb(p, row) ==
  IF p \in wait.started /\ Cardinality(wait.started) # required
  THEN [wait EXCEPT !.buffered = @ (+) SetToBag({row})]
  ELSE wait

\* The target's domain has had a piece, or will before what is sent to it now.
Heralded ==
  \/ mode = "Replaying"
  \/ ~not_ready
  \/ \E i \in DOMAIN down : down[i].type = "ReplayPiece"

\* A write is forwarded, absorbed or not.
UnionMessage(p) ==
  /\ Receive(p, "Message")
  /\ LET row == Head(chan[p]).row
         absorbing == p \in wait.started /\ Cardinality(wait.started) # required
     IN /\ wait' = Absorb(p, row)
        /\ IF SameDomain
           THEN TargetMessage(row) /\ UNCHANGED down
           ELSE down' = Append(down, Message(row)) /\ UNCHANGED targetVars
        /\ unheralded' = IF p \in asked /\ row[2] > copied[p] /\ ~Heralded /\ ~absorbing
                         THEN unheralded \cup {row} ELSE unheralded
  /\ UNCHANGED <<parentVars, status, copied>>

\* Mutant: the first replay is released when the first parent has started.
Complete_Eager(started) == started # {}

\* The replay of every parent has started.
Complete(started) == Cardinality(started) = required

\* Mutant: the count of last pieces is compared before it is raised.
Finished_Late(n) == n > required

\* Every parent has sent its last piece.
Finished(n) == n = required

\* A piece that handle_replay does not take to the next node of the path.
Dropped(data, last) == data = EmptyBag /\ ~last

\* handle_replay in the union's domain takes a piece to the target, or to the
\* egress, unless the union captured it or it is dropped.
Forward(data, last, captured) ==
  LET skipped == captured \/ Dropped(data, last)
  IN IF SameDomain
     THEN /\ IF skipped THEN TargetSkipped ELSE TargetReplayPiece(data, last)
          /\ UNCHANGED down
     ELSE /\ down' = IF skipped THEN down ELSE Append(down, ReplayPiece(data, last))
          /\ UNCHANGED targetVars

\* The piece is dropped behind the ingress, before the union: the announcement
\* of a parent in another domain.
IngressReplayPiece(p) ==
  /\ p \notin Local
  /\ Receive(p, "ReplayPiece")
  /\ Dropped(SetToBag(Head(chan[p]).data), Head(chan[p]).last)
  /\ Forward(EmptyBag, FALSE, FALSE)
  /\ UNCHANGED <<parentVars, wait, status, history>>

\* on_input_raw in a full replay.  A piece is captured until every parent has
\* started; what is released carries all that was captured, and is the last
\* piece when every parent has sent its last.
UnionReplayPiece(p) ==
  /\ Receive(p, "ReplayPiece")
  /\ p \in Local \/ ~Dropped(SetToBag(Head(chan[p]).data), Head(chan[p]).last)
  /\ LET m == Head(chan[p])
         started == wait.started \cup {p}
         finished == wait.finished + (IF m.last THEN 1 ELSE 0)
         data == wait.buffered (+) SetToBag(m.data)
         last == Finished(finished)
         captured == ~last /\ ~Complete(started)
     IN /\ wait' = IF last \/ required = 1 THEN NoWait
                   ELSE [started |-> started, finished |-> finished,
                         buffered |-> IF captured THEN data ELSE EmptyBag]
        /\ Forward(data, last, captured)
  /\ UNCHANGED <<parentVars, status, history>>

-----------------------------------------------------------------------------
(* The controller.                                                          *)

\* QueryReplayDone, polled until it answers true.
QueryReplayDone ==
  /\ status = "replaying"
  /\ asked = Parents
  /\ replay_completed
  /\ replay_completed' = FALSE
  /\ status' = "done"
  /\ UNCHANGED <<parentVars, chan, wait, down, mode, buffered, not_ready, target, history>>

\* Ready, which the domain refuses while it is Replaying.
Ready ==
  /\ status = "done"
  /\ status' = IF mode = "Forwarding" THEN "ready" ELSE "failed"
  /\ not_ready' = (not_ready /\ mode # "Forwarding")
  /\ UNCHANGED <<parentVars, chan, wait, down, mode, buffered, target, replay_completed,
                 history>>

UnionStep(p) == UnionMessage(p) \/ IngressReplayPiece(p) \/ UnionReplayPiece(p)

Controller == (\E p \in Parents : StartReplay(p)) \/ QueryReplayDone \/ Ready

Next ==
  \/ \E p \in Parents : Write(p) \/ Chunk(p) \/ UnionStep(p)
  \/ TargetReceive
  \/ Controller

Spec == Init /\ [][Next]_vars

\* Domains take the packets of each channel, the chunker threads run, and the
\* controller goes through the migration.
Fairness ==
  /\ \A p \in Parents : /\ WF_vars(Chunk(p))
                        /\ WF_vars(UnionStep(p))
                        /\ WF_vars(StartReplay(p))
  /\ WF_vars(TargetReceive)
  /\ WF_vars(QueryReplayDone)
  /\ WF_vars(Ready)

FairSpec == Spec /\ Fairness

-----------------------------------------------------------------------------
(* Properties.                                                              *)

AllRows == {Row(p, i) : p \in Parents, i \in 1..MaxWrites}

Written == UNION {{Row(p, i) : i \in 1..rows[p]} : p \in Parents}

\* The type invariant; the count of last pieces stays below `required'.
TypeOK ==
  /\ rows \in [Parents -> 0..MaxWrites]
  /\ asked \subseteq Parents
  /\ \A p \in Parents : ToSet(chunks[p]) \subseteq SUBSET AllRows
  /\ \A p \in Parents : \A m \in ToSet(chan[p]) :
       \/ m.type = "Message" /\ m.row \in AllRows
       \/ m.type = "ReplayPiece" /\ m.data \subseteq AllRows /\ m.last \in BOOLEAN
  /\ wait.started \subseteq Parents /\ wait.finished \in 0..required - 1
  /\ IsABag(wait.buffered) /\ BagToSet(wait.buffered) \subseteq AllRows
  /\ \A m \in ToSet(down) :
       \/ m.type = "Message" /\ m.row \in AllRows
       \/ m.type = "ReplayPiece" /\ BagToSet(m.data) \subseteq AllRows
  /\ mode \in {"Forwarding", "Replaying"}
  /\ ToSet(buffered) \subseteq AllRows
  /\ not_ready \in BOOLEAN
  /\ IsABag(target) /\ BagToSet(target) \subseteq AllRows
  /\ replay_completed \in BOOLEAN
  /\ status \in {"replaying", "done", "ready", "failed"}
  /\ copied \in [Parents -> 0..MaxWrites]
  /\ unheralded \subseteq AllRows

Messages(channel) ==
  {channel[i].row : i \in {j \in DOMAIN channel : channel[j].type = "Message"}}

InFlight == Messages(down) \cup UNION {Messages(chan[p]) : p \in Parents}

\* Once the target is ready it has every row exactly once, but for the writes
\* on their way and those that passed the union before anything told it or the
\* target of the replay: no write is both in a copy and in what was absorbed or
\* buffered behind the first piece, and none is in neither.
TargetExact == ~not_ready => target = SetToBag(Written \ (InFlight \cup unheralded))

\* Once the target is ready no row is missing in it but those on their way: the
\* announcement made it buffer every write that is not in a copied state.
\* It does not hold with a target in another domain, and no run checks it: the
\* announcement is an empty piece, and is dropped on its way.
NothingLost == ~not_ready => Written \ InFlight \subseteq BagToSet(target)

\* The migration cannot hang: when every parent was told to start and all that
\* this set off has been handled, the target has had its last piece, however the
\* pieces of the parents came in between one another; and once the controller
\* heard of it, no piece puts the domain back into Replaying, where it would
\* buffer for ever and refuse Ready.
ReplayCompletes ==
  /\ (/\ asked = Parents
      /\ down = <<>>
      /\ \A p \in Parents : chunks[p] = <<>> /\ chan[p] = <<>>)
       => (replay_completed \/ status # "replaying")
  /\ status # "replaying" => mode = "Forwarding" /\ status # "failed"

Prefix(p) ==
  LET mine == {r \in BagToSet(target) : r[1] = p}
  IN IF /\ mine = {Row(p, i) : i \in 1..Cardinality(mine)}
        /\ \A r \in mine : CopiesIn(r, target) = 1
     THEN Cardinality(mine) ELSE MaxWrites + 1

\* The view: the target once it is ready.
View == INSTANCE MaterializedView
  WITH written <- rows,
       view <- IF not_ready THEN Unbuilt ELSE [p \in Parents |-> Prefix(p)]

\* The replay implements the atomic construction of the view: clients of the
\* target never see it half built, and each later write comes to it once and
\* in the order of its parent.
BuildsView == View!Spec
=============================================================================
