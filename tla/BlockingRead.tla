---------------------------- MODULE BlockingRead -----------------------------
(***************************************************************************)
(* Reads of a partial reader that miss and block until the miss is filled.  *)
(*                                                                         *)
(* Three kinds of threads work on one reader:                               *)
(*  - the request handler of a connection looks up the keys, subscribes to  *)
(*    the reader's notifications, triggers the replay of what missed and    *)
(*    hands the read over to the connection's retry task;                   *)
(*  - the retry task takes the blocked reads of its connection one by one   *)
(*    and checks the read again after every notification;                   *)
(*  - the reader's domain fills and evicts keys, publishes the map and      *)
(*    notifies.                                                             *)
(*                                                                         *)
(* The map is only known by its filled keys.  A receiver of the             *)
(* notification channel is known by whether it holds a message it has not   *)
(* received: the channel has capacity 1 and every message carries the       *)
(* eviction epoch, so only the last one counts.  The replay itself (taken   *)
(* apart in Upqueries) is a key that is requested until it is answered.     *)
(***************************************************************************)
EXTENDS Integers, Sequences, Functions

CONSTANTS Keys,
          Connections,
          Workloads,     \* the readers and their use: see below
          MaxReads       \* bound on the reads of one connection

\* A workload says what a connection may ask, whether the reader is beyond the
\* materialization frontier, and bounds the number of evictions.
ASSUME BlockingReadAssumption ==
  /\ \A w \in Workloads :
       /\ w.queries \subseteq [keys : (SUBSET Keys) \ {{}}, stamped : BOOLEAN, block : BOOLEAN]
       /\ w.frontier \in BOOLEAN
       /\ w.evictions \in Nat
  /\ MaxReads \in Nat

VARIABLES workload,   \* never changes
          status,     \* "new" until the first publish, "ready", "removed"
          filled,     \* keys of the published map
          stamp,      \* its timestamp satisfies the one that reads ask for
          asked,      \* RequestReaderReplay packets queued at the domain
          triggered,  \* reader_triggered: keys whose replay was requested
          notifying,  \* the domain has published and is about to notify
          epoch,      \* WriteHandle::eviction_epoch
          purges,     \* timed_purges of the domain
          failed,     \* the domain stopped with an error
          call,       \* what the request handler of a connection is doing
          handle,     \* its SingleReadHandle
          pending,    \* the blocked reads of a connection, in order
          task,       \* what the retry task of a connection is doing
          cache,      \* the retry task's SingleReadHandle
          reads       \* number of reads of a connection so far

domainVars == <<workload, status, filled, stamp, asked, triggered, notifying, epoch, purges,
                failed>>
handlerVars == <<call, handle, reads>>
taskVars == <<task, cache>>
vars == <<domainVars, handlerVars, taskVars, pending>>

-----------------------------------------------------------------------------
\* A SingleReadHandle; it is cloned from the one in the global map of readers,
\* whose epoch is never refreshed, when it is first needed.
NoHandle == [cloned |-> FALSE, unseen |-> FALSE, epoch |-> 0]
Clone == [cloned |-> TRUE, unseen |-> FALSE, epoch |-> 0]

\* SingleReadHandle::eviction_epoch: receive what there is.
Refreshed(h) == IF h.unseen THEN [h EXCEPT !.unseen = FALSE, !.epoch = epoch] ELSE h

NoQuery == [keys |-> {}, stamped |-> FALSE, block |-> FALSE]

\* A request handler between two calls, and a retry task between two checks.
NoCall == [pc |-> "idle", query |-> NoQuery, consistency_miss |-> FALSE,
           misses |-> {}, receiver |-> FALSE, unseen |-> FALSE, swapped |-> FALSE]
NoTask == [pc |-> "idle", consistency_miss |-> FALSE, misses |-> {}]

Init ==
  /\ workload \in Workloads
  /\ status = "new"
  /\ filled = {}
  /\ stamp = FALSE
  /\ asked = <<>>
  /\ triggered = {}
  /\ notifying = FALSE
  /\ epoch = 0
  /\ purges = <<>>
  /\ failed = FALSE
  /\ call = [c \in Connections |-> NoCall]
  /\ handle = [c \in Connections |-> NoHandle]
  /\ pending = [c \in Connections |-> <<>>]
  /\ task = [c \in Connections |-> NoTask]
  /\ cache = [c \in Connections |-> NoHandle]
  /\ reads = [c \in Connections |-> 0]

-----------------------------------------------------------------------------
(* The request handler.                                                     *)

\* ~has_sufficient_timestamp
StaleFor(q) == q.stamped /\ ~(stamp /\ status = "ready")

\* handle_normal_read_query: take the handle from the cache, compare the
\* timestamps.
Call(c, q) ==
  /\ call[c].pc = "idle"
  /\ reads[c] < MaxReads
  /\ reads' = [reads EXCEPT ![c] = @ + 1]
  /\ handle' = [handle EXCEPT ![c] =
                  IF @.cloned /\ status # "removed" THEN @ ELSE Clone]
  /\ call' = [call EXCEPT ![c] =
                [NoCall EXCEPT !.pc = "lookup", !.query = q,
                               !.consistency_miss = StaleFor(q)]]
  /\ UNCHANGED <<domainVars, taskVars, pending>>

\* get_multi_and_map_error: enter the map and look the keys up.  A map that is
\* not ready is an error, a hit is the answer.
Lookup(c) ==
  /\ call[c].pc = "lookup"
  /\ LET misses == call[c].query.keys \ filled
     IN call' = [call EXCEPT ![c] =
                   IF status # "ready" \/ (misses = {} /\ ~@.consistency_miss)
                   THEN NoCall
                   ELSE [@ EXCEPT !.pc = "subscribe", !.misses = misses]]
  /\ UNCHANGED <<domainVars, handle, reads, taskVars, pending>>

\* The closure of a miss, still under the read guard: resubscribe().  A read
\* that misses its timestamp does not keep the receiver.
Subscribe(c) ==
  /\ call[c].pc = "subscribe"
  /\ call' = [call EXCEPT ![c] =
                [@ EXCEPT !.pc = "trigger",
                          !.receiver = call[c].misses # {} /\ ~call[c].consistency_miss]]
  /\ UNCHANGED <<domainVars, handle, reads, taskVars, pending>>

\* SingleReadHandle::trigger.
Request(keys) == IF keys = {} THEN asked ELSE Append(asked, keys)

\* Trigger the replay; a read that does not block is answered with the miss.
Trigger(c) ==
  /\ call[c].pc = "trigger"
  /\ asked' = Request(call[c].misses)
  /\ call' = [call EXCEPT ![c] =
                IF @.query.block THEN [@ EXCEPT !.pc = "enqueue"] ELSE NoCall]
  /\ UNCHANGED <<workload, status, filled, stamp, triggered, notifying, epoch, purges, failed,
                 handle, reads, taskVars, pending>>

\* The read and the eviction epoch of this moment go to the retry task.
Enqueue(c) ==
  /\ call[c].pc = "enqueue"
  /\ handle' = [handle EXCEPT ![c] = Refreshed(@)]
  /\ pending' = [pending EXCEPT ![c] =
                   Append(@, [keys |-> call[c].query.keys,
                              stamped |-> call[c].query.stamped,
                              receiver |-> call[c].receiver,
                              unseen |-> call[c].unseen,
                              epoch |-> handle'[c].epoch,
                              late |-> FALSE,
                              swapped |-> call[c].swapped])]
  /\ call' = [call EXCEPT ![c] = NoCall]
  /\ UNCHANGED <<domainVars, reads, taskVars>>

-----------------------------------------------------------------------------
(* The retry task.                                                          *)

\* upquery_timeout passes for the read at the head.
Expire(c) ==
  /\ pending[c] # <<>>
  /\ ~Head(pending[c]).late
  /\ pending' = [pending EXCEPT ![c] = <<[Head(@) EXCEPT !.late = TRUE]>> \o Tail(@)]
  /\ UNCHANGED <<domainVars, handlerVars, taskVars>>

\* A notification, or the end of the channel, wakes the task, which then drains
\* the receiver.  Without a receiver the task sleeps RETRY_TIMEOUT.
Wake(c) ==
  /\ task[c].pc = "idle"
  /\ pending[c] # <<>>
  /\ LET p == Head(pending[c])
     IN /\ p.receiver => p.unseen \/ status = "removed"
        /\ pending' = [pending EXCEPT ![c] =
                         <<[p EXCEPT !.unseen = FALSE]>> \o Tail(@)]
  /\ task' = [task EXCEPT ![c] = [NoTask EXCEPT !.pc = "check"]]
  /\ UNCHANGED <<domainVars, handlerVars, cache>>

\* BlockingRead::check: the cached handle and the timestamp.
Check(c) ==
  /\ task[c].pc = "check"
  /\ cache' = [cache EXCEPT ![c] = IF @.cloned THEN @ ELSE Clone]
  /\ task' = [task EXCEPT ![c] =
                [NoTask EXCEPT !.pc = "lookup",
                               !.consistency_miss = StaleFor(Head(pending[c]))]]
  /\ UNCHANGED <<domainVars, handlerVars, pending>>

\* The lookup of check: a destroyed map is an error, a hit is the answer.
CheckLookup(c) ==
  /\ task[c].pc = "lookup"
  /\ LET misses == Head(pending[c]).keys \ filled
         answered == status # "ready" \/ (misses = {} /\ ~task[c].consistency_miss)
     IN /\ task' = [task EXCEPT ![c] = IF answered THEN NoTask
                                       ELSE [@ EXCEPT !.pc = "retrigger",
                                                      !.misses = misses]]
        /\ pending' = IF answered THEN [pending EXCEPT ![c] = Tail(@)] ELSE pending
  /\ UNCHANGED <<domainVars, handlerVars, cache>>

\* Mutant: the timeout is not checked.
Recheck_Forever(c) ==
  /\ task[c].pc = "retrigger"
  /\ cache' = [cache EXCEPT ![c] = Refreshed(@)]
  /\ LET p == Head(pending[c])
         evicted == cache'[c].epoch > p.epoch
     IN /\ asked' = IF evicted THEN Request(task[c].misses) ELSE asked
        /\ pending' = [pending EXCEPT ![c] =
                         <<[p EXCEPT !.epoch = IF evicted THEN cache'[c].epoch ELSE @]>>
                           \o Tail(@)]
  /\ task' = [task EXCEPT ![c] = NoTask]
  /\ UNCHANGED <<workload, status, filled, stamp, triggered, notifying, epoch, purges, failed,
                 handlerVars>>

\* The rest of check: trigger again if there was an eviction since the last
\* time, and give up when upquery_timeout has passed.
Recheck(c) ==
  /\ task[c].pc = "retrigger"
  /\ cache' = [cache EXCEPT ![c] = Refreshed(@)]
  /\ LET p == Head(pending[c])
         evicted == cache'[c].epoch > p.epoch
     IN /\ asked' = IF evicted THEN Request(task[c].misses) ELSE asked
        /\ pending' = [pending EXCEPT ![c] =
                         IF p.late THEN Tail(@)
                         ELSE <<[p EXCEPT !.epoch = IF evicted THEN cache'[c].epoch
                                                    ELSE @]>> \o Tail(@)]
  /\ task' = [task EXCEPT ![c] = NoTask]
  /\ UNCHANGED <<workload, status, filled, stamp, triggered, notifying, epoch, purges, failed,
                 handlerVars>>

-----------------------------------------------------------------------------
(* The reader's domain.                                                     *)

DomainIdle == ~notifying /\ ~failed /\ status # "removed"

\* Ready: the first publish.
Ready ==
  /\ DomainIdle
  /\ status = "new"
  /\ status' = "ready"
  /\ UNCHANGED <<workload, filled, stamp, asked, triggered, notifying, epoch, purges, failed,
                 handlerVars, taskVars, pending>>

\* A Timestamp packet: publish a timestamp that satisfies the reads.
Timestamp ==
  /\ DomainIdle
  /\ ~stamp
  /\ stamp' = TRUE
  /\ UNCHANGED <<workload, status, filled, asked, triggered, notifying, epoch, purges, failed,
                 handlerVars, taskVars, pending>>

\* RequestReaderReplay: request the replay of what still misses and is not
\* requested yet.  The node may be gone, which is an error.
RequestReaderReplay ==
  /\ ~notifying /\ ~failed
  /\ asked # <<>>
  /\ asked' = Tail(asked)
  /\ triggered' = triggered \cup (Head(asked) \ filled)
  /\ failed' = (status = "removed")
  /\ UNCHANGED <<workload, status, filled, stamp, notifying, epoch, purges, handlerVars,
                 taskVars, pending>>

\* Publish the map with these keys filled.  History: remember the reads whose
\* handler has looked up its keys and has not subscribed yet.
swap(keys) ==
  /\ filled' = keys
  /\ call' = [c \in Connections |->
                [call[c] EXCEPT !.swapped = @ \/ call[c].pc = "subscribe"]]

\* A replay of the requested keys K arrives: fill and swap; the notification
\* is the next step of the domain.
Fill(K) ==
  /\ DomainIdle
  /\ status = "ready"
  /\ K # {} /\ K \subseteq triggered
  /\ swap(filled \cup K)
  /\ triggered' = triggered \ K
  /\ notifying' = TRUE
  /\ purges' = IF workload.frontier THEN Append(purges, K) ELSE purges
  /\ UNCHANGED <<workload, status, stamp, asked, epoch, failed, handle, reads, taskVars, pending>>

\* Evict and EvictKeys: empty the keys, swap, advance the epoch.
Evict(K) ==
  /\ DomainIdle
  /\ status = "ready"
  /\ K # {}
  /\ epoch < workload.evictions
  /\ swap(filled \ K)
  /\ epoch' = epoch + 1
  /\ notifying' = TRUE
  /\ UNCHANGED <<workload, status, stamp, asked, triggered, purges, failed, handle, reads,
                 taskVars, pending>>

\* handle_timed_purges: empty the keys and swap; nobody is notified.
TimedPurge ==
  /\ DomainIdle
  /\ purges # <<>>
  /\ purges' = Tail(purges)
  /\ swap(filled \ Head(purges))
  /\ UNCHANGED <<workload, status, stamp, asked, triggered, notifying, epoch, failed,
                 handle, reads, taskVars, pending>>

\* A receiver exists from resubscribe() on.
Subscribed(c) == call[c].pc \in {"trigger", "enqueue"}

\* Mutant: the message reaches the handles only.
notify_readers_HandlesOnly ==
  /\ notifying
  /\ notifying' = FALSE
  /\ handle' = [c \in Connections |-> [handle[c] EXCEPT !.unseen = handle[c].cloned]]
  /\ cache' = [c \in Connections |-> [cache[c] EXCEPT !.unseen = cache[c].cloned]]
  /\ UNCHANGED <<workload, status, filled, stamp, asked, triggered, epoch, purges, failed, call,
                 pending, reads, task>>

\* notify_readers: every receiver gets the message.
notify_readers ==
  /\ notifying
  /\ notifying' = FALSE
  /\ handle' = [c \in Connections |-> [handle[c] EXCEPT !.unseen = handle[c].cloned]]
  /\ cache' = [c \in Connections |-> [cache[c] EXCEPT !.unseen = cache[c].cloned]]
  /\ call' = [c \in Connections |-> [call[c] EXCEPT !.unseen = Subscribed(c)]]
  /\ pending' = [c \in Connections |->
                   [i \in DOMAIN pending[c] |->
                      [pending[c][i] EXCEPT !.unseen = pending[c][i].receiver]]]
  /\ UNCHANGED <<workload, status, filled, stamp, asked, triggered, epoch, purges, failed, reads,
                 task>>

\* RemoveNodes: the write handle is dropped, which destroys the map and closes
\* the channel.
RemoveNodes ==
  /\ DomainIdle
  /\ status = "ready"
  /\ status' = "removed"
  /\ UNCHANGED <<workload, filled, stamp, asked, triggered, notifying, epoch, purges, failed,
                 handlerVars, taskVars, pending>>

-----------------------------------------------------------------------------
HandlerStep(c) == Lookup(c) \/ Subscribe(c) \/ Trigger(c) \/ Enqueue(c)

TaskStep(c) == Wake(c) \/ Check(c) \/ CheckLookup(c) \/ Recheck(c)

Replay == \E K \in SUBSET triggered : Fill(K)

Environment ==
  \/ \E c \in Connections, q \in workload.queries : Call(c, q)
  \/ \E K \in SUBSET Keys : Evict(K)
  \/ Ready \/ Timestamp \/ TimedPurge \/ RemoveNodes

Next ==
  \/ Environment
  \/ \E c \in Connections : HandlerStep(c) \/ TaskStep(c) \/ Expire(c)
  \/ RequestReaderReplay \/ Replay \/ notify_readers

Spec == Init /\ [][Next]_vars

\* Threads and tasks keep running, time passes, packets are handled and a
\* requested replay is answered (RequestsAnswered in Upqueries).
Fairness ==
  /\ \A c \in Connections :
       WF_vars(HandlerStep(c)) /\ WF_vars(TaskStep(c)) /\ WF_vars(Expire(c))
  /\ WF_vars(RequestReaderReplay) /\ WF_vars(Replay) /\ WF_vars(notify_readers)

FairSpec == Spec /\ Fairness
-----------------------------------------------------------------------------
(* Properties.                                                              *)

Handles == [cloned : BOOLEAN, unseen : BOOLEAN, epoch : Nat]

Reads == [keys : SUBSET Keys, stamped : BOOLEAN, receiver : BOOLEAN,
          unseen : BOOLEAN, epoch : Nat, late : BOOLEAN, swapped : BOOLEAN]

\* The type invariant.
TypeOK ==
  /\ workload \in Workloads
  /\ status \in {"new", "ready", "removed"}
  /\ filled \subseteq Keys
  /\ stamp \in BOOLEAN
  /\ asked \in Seq(SUBSET Keys)
  /\ triggered \subseteq Keys
  /\ notifying \in BOOLEAN
  /\ epoch \in 0..workload.evictions
  /\ purges \in Seq(SUBSET Keys)
  /\ failed \in BOOLEAN
  /\ call \in [Connections ->
              [pc : {"idle", "lookup", "subscribe", "trigger", "enqueue"},
               query : workload.queries \cup {NoQuery}, consistency_miss : BOOLEAN,
               misses : SUBSET Keys, receiver : BOOLEAN, unseen : BOOLEAN,
               swapped : BOOLEAN]]
  /\ handle \in [Connections -> Handles]
  /\ pending \in [Connections -> Seq(Reads)]
  /\ task \in [Connections -> [pc : {"idle", "check", "lookup", "retrigger"},
                               consistency_miss : BOOLEAN, misses : SUBSET Keys]]
  /\ cache \in [Connections -> Handles]
  /\ reads \in [Connections -> 0..MaxReads]

\* A key whose replay is requested is a hole: otherwise the replay would reach
\* a filled key and mark_filled would stop the domain with KeyAlreadyFilled,
\* although two reads may trigger the same key and a fill may come in between.
RequestedKeysAreHoles == triggered \cap filled = {}

\* The i-th blocked read of c has a check ahead that will see the map of now.
CheckAhead(c, i) ==
  \/ pending[c][i].unseen
  \/ notifying
  \/ status = "removed"
  \/ i = 1 /\ task[c].pc \in {"check", "lookup"}

\* No lost wake-up: a blocked read whose keys are all filled will be checked
\* again, provided the map was not published between its lookup and its
\* subscription.
NoLostWakeup ==
  \A c \in Connections : \A i \in DOMAIN pending[c] :
    LET p == pending[c][i]
    IN p.receiver /\ ~p.swapped /\ p.keys \subseteq filled => CheckAhead(c, i)

\* No key was taken from the reader: nothing evicted, no timed purges.
Undisturbed == epoch = 0 /\ ~workload.frontier

\* As long as no key is taken away, every key a blocked read waits for is
\* filled or on its way: in a request at the domain, or in a replay.
MissingKeysRequested ==
  Undisturbed =>
    \A c \in Connections : \A i \in DOMAIN pending[c] :
      pending[c][i].keys \subseteq filled \cup triggered \cup UNION Range(asked)

\* Blocked reads that subscribed in time are answered, if no key is taken away:
\* the wake-ups of several keys, requested by several reads and filled apart,
\* do not miss one another.
SubscribedReadsAnswered ==
  \A c \in Connections :
    pending[c] # <<>>
      ~> \/ pending[c] = <<>>
         \/ ~Undisturbed
         \/ \E i \in DOMAIN pending[c] : pending[c][i].swapped

\* A read that waits for a timestamp polls, and is answered or times out.
PolledReadsAnswered ==
  \A c \in Connections :
    (pending[c] # <<>> /\ ~Head(pending[c]).receiver)
      ~> (pending[c] = <<>> \/ Head(pending[c]).receiver)

\* "repeating reads that could not be immediately served from cache, until they
\* succeed" (retry_misses).  Holds only as long as no key is taken away, and no run
\* checks it: see SubscribedReadsAnswered.
ReadsAnswered == \A c \in Connections : pending[c] # <<>> ~> pending[c] = <<>>
=============================================================================
