-------------------------- MODULE BlockingReadProofs --------------------------
(***************************************************************************)
(* No wake-up of a blocked read is lost, for any number of connections,     *)
(* keys and reads.                                                          *)
(***************************************************************************)
EXTENDS BlockingRead, TLAPS

\* Zenon proves the leaves that do not name the SMT solver.
USE ZenonT(30)

\* A read that is to be woken through its receiver.
Waits(u) == u.receiver /\ ~u.swapped

\* A query that does not wait for a timestamp any more.
Stamped(q) == q.stamped => stamp /\ status # "new"

\* A call: its lookup is current until the map is published; a call that waits
\* for keys does not wait for a timestamp; and once it has subscribed it hears
\* of what fills its keys.
CallHears(u) ==
  /\ u.pc = "subscribe" /\ ~u.swapped => u.misses = u.query.keys \ filled
  /\ u.pc # "idle" /\ ~u.consistency_miss => Stamped(u.query)
  /\ u.receiver => ~u.consistency_miss
  /\ u.pc \in {"trigger", "enqueue"} /\ Waits(u) /\ u.query.keys \subseteq filled =>
       u.unseen \/ notifying \/ status = "removed"

\* The i-th of the blocked reads s is checked again, when the retry task is at t.
Ahead(s, t, i) ==
  \/ s[i].unseen \/ notifying \/ status = "removed"
  \/ i = 1 /\ t.pc \in {"check", "lookup"}

\* The blocked reads s of a connection, when its retry task is at t: the check
\* of a read that subscribed does not fail for its timestamp.
ReadsHear(s, t) ==
  /\ t.pc # "idle" => s # <<>>
  /\ t.pc = "lookup" /\ t.consistency_miss /\ s[1].receiver => status = "removed"
  /\ \A i \in 1 .. Len(s) :
       /\ s[i].receiver => Stamped(s[i])
       /\ Waits(s[i]) /\ s[i].keys \subseteq filled => Ahead(s, t, i)

Wakeups ==
  /\ TypeOK
  /\ \A c \in Connections : CallHears(call[c]) /\ ReadsHear(pending[c], task[c])

-----------------------------------------------------------------------------
(* Sequences and records.                                                   *)

\* What replacing the head of a sequence does.
LEMMA HeadReplaced ==
  ASSUME NEW S, NEW s \in Seq(S), s # <<>>, NEW x \in S
  PROVE  /\ <<x>> \o Tail(s) \in Seq(S) /\ Len(<<x>> \o Tail(s)) = Len(s)
         /\ (<<x>> \o Tail(s))[1] = x
         /\ \A i \in 2 .. Len(s) : (<<x>> \o Tail(s))[i] = s[i]
         /\ Len(s) \in Nat \ {0} /\ Head(s) = s[1] /\ s[1] \in S
<1>1. Tail(s) \in Seq(S) /\ <<x>> \in Seq(S) /\ Len(s) \in Nat \ {0}
  BY SMTT(30)
<1>2. /\ Len(Tail(s)) = Len(s) - 1 /\ Len(<<x>>) = 1 /\ <<x>>[1] = x
      /\ \A i \in 1 .. Len(s) - 1 : Tail(s)[i] = s[i + 1]
  BY SMTT(30)
<1> DEFINE a == <<x>>
           b == Tail(s)
<1> HIDE DEF a, b
<1>3. /\ a \o b \in Seq(S) /\ Len(a \o b) = Len(a) + Len(b)
      /\ \A i \in 1 .. Len(a) + Len(b) :
           (a \o b)[i] = IF i <= Len(a) THEN a[i] ELSE b[i - Len(a)]
  BY <1>1, SMTT(30) DEF a, b
<1>4. ASSUME NEW i \in 2 .. Len(s) PROVE (a \o b)[i] = s[i]
  <2>1. i - 1 \in 1 .. Len(s) - 1 /\ (i - 1) + 1 = i /\ ~(i <= 1)
    BY <1>1, SMTT(30)
  <2>2. b[i - 1] = s[i]
    BY <1>2, <2>1 DEF b
  <2>3. Len(a) = 1 /\ Len(b) = Len(s) - 1
    BY <1>2 DEF a, b
  <2> QED
    BY <1>1, <1>3, <2>1, <2>2, <2>3, SMTT(30)
<1>5. (a \o b)[1] = x /\ Len(a \o b) = Len(s)
  BY <1>1, <1>2, <1>3, SMTT(30) DEF a, b
<1>6. Head(s) = s[1] /\ s[1] \in S
  BY <1>1, SMTT(30)
<1> QED
  BY <1>1, <1>3, <1>4, <1>5, <1>6 DEF a, b

\* What Tail and Append do.
LEMMA TailIs ==
  ASSUME NEW S, NEW s \in Seq(S), s # <<>>
  PROVE  /\ Tail(s) \in Seq(S) /\ Len(Tail(s)) = Len(s) - 1 /\ Len(s) \in Nat \ {0}
         /\ \A i \in 1 .. Len(s) - 1 : Tail(s)[i] = s[i + 1]
         /\ Head(s) = s[1] /\ s[1] \in S
BY SMTT(30)

LEMMA AppendIs ==
  ASSUME NEW S, NEW s \in Seq(S), NEW x \in S
  PROVE  /\ Append(s, x) \in Seq(S) /\ Len(Append(s, x)) = Len(s) + 1 /\ Len(s) \in Nat
         /\ \A i \in 1 .. Len(s) : Append(s, x)[i] = s[i]
         /\ Append(s, x)[Len(s) + 1] = x
BY SMTT(30)

Calls ==
  [pc : {"idle", "lookup", "subscribe", "trigger", "enqueue"},
   query : workload.queries \cup {NoQuery}, consistency_miss : BOOLEAN,
   misses : SUBSET Keys, receiver : BOOLEAN, unseen : BOOLEAN, swapped : BOOLEAN]

\* The fields of a call.
LEMMA CallFields ==
  ASSUME TypeOK, NEW u \in Calls
  PROVE  /\ u.pc \in {"idle", "lookup", "subscribe", "trigger", "enqueue"}
         /\ u.query \in [keys : SUBSET Keys, stamped : BOOLEAN, block : BOOLEAN]
         /\ u.query \in workload.queries \cup {NoQuery}
         /\ u.query.keys \subseteq Keys /\ u.query.stamped \in BOOLEAN
         /\ u.consistency_miss \in BOOLEAN /\ u.misses \subseteq Keys
         /\ u.receiver \in BOOLEAN /\ u.unseen \in BOOLEAN /\ u.swapped \in BOOLEAN
         /\ u = [pc |-> u.pc, query |-> u.query, consistency_miss |-> u.consistency_miss,
                 misses |-> u.misses, receiver |-> u.receiver, unseen |-> u.unseen,
                 swapped |-> u.swapped]
<1>1. workload.queries \subseteq [keys : (SUBSET Keys) \ {{}}, stamped : BOOLEAN, block : BOOLEAN]
  BY BlockingReadAssumption DEF TypeOK
<1>2. NoQuery \in [keys : SUBSET Keys, stamped : BOOLEAN, block : BOOLEAN]
  BY DEF NoQuery
<1>3. /\ u.pc \in {"idle", "lookup", "subscribe", "trigger", "enqueue"}
      /\ u.query \in workload.queries \cup {NoQuery}
      /\ u.consistency_miss \in BOOLEAN /\ u.misses \subseteq Keys
      /\ u.receiver \in BOOLEAN /\ u.unseen \in BOOLEAN /\ u.swapped \in BOOLEAN
      /\ u = [pc |-> u.pc, query |-> u.query, consistency_miss |-> u.consistency_miss,
              misses |-> u.misses, receiver |-> u.receiver, unseen |-> u.unseen,
              swapped |-> u.swapped]
  BY DEF Calls
<1>4. u.query \in [keys : SUBSET Keys, stamped : BOOLEAN, block : BOOLEAN]
  BY <1>1, <1>2, <1>3
<1>5. u.query.keys \subseteq Keys /\ u.query.stamped \in BOOLEAN
  BY <1>4
<1> QED
  BY <1>3, <1>4, <1>5

\* A call between two requests.
LEMMA NoCallFields ==
  /\ NoCall \in Calls /\ NoCall.pc = "idle" /\ ~NoCall.receiver /\ ~NoCall.unseen
  /\ ~NoCall.swapped /\ ~NoCall.consistency_miss
BY DEF NoCall, Calls


Tasks == [pc : {"idle", "check", "lookup", "retrigger"}, consistency_miss : BOOLEAN,
          misses : SUBSET Keys]

\* What TypeOK says of a connection.
LEMMA ConnectionTypes ==
  ASSUME TypeOK, NEW c \in Connections
  PROVE  /\ call[c] \in Calls /\ handle[c] \in Handles /\ pending[c] \in Seq(Reads)
         /\ task[c] \in Tasks /\ cache[c] \in Handles /\ reads[c] \in 0 .. MaxReads
         /\ asked \in Seq(SUBSET Keys) /\ epoch \in Nat /\ MaxReads \in Nat
         /\ call = [call EXCEPT ![c] = call[c]] /\ task = [task EXCEPT ![c] = task[c]]
         /\ pending = [pending EXCEPT ![c] = pending[c]]
<1>1. workload.evictions \in Nat /\ MaxReads \in Nat
  BY BlockingReadAssumption DEF TypeOK
<1>2. /\ call \in [Connections -> Calls] /\ task \in [Connections -> Tasks]
      /\ pending \in [Connections -> Seq(Reads)] /\ handle \in [Connections -> Handles]
      /\ cache \in [Connections -> Handles] /\ reads \in [Connections -> 0 .. MaxReads]
  BY DEF TypeOK, Calls, Tasks
<1>3. asked \in Seq(SUBSET Keys) /\ epoch \in Nat
  BY <1>1, SMTT(30) DEF TypeOK
<1> QED
  BY <1>1, <1>2, <1>3

\* A step of one connection, from what it leaves behind there.
LEMMA LocalStep ==
  ASSUME Wakeups, NEW c \in Connections, NEW v \in Calls, NEW s \in Seq(Reads),
         NEW t \in Tasks, CallHears(v), ReadsHear(s, t),
         call' = [call EXCEPT ![c] = v], pending' = [pending EXCEPT ![c] = s],
         task' = [task EXCEPT ![c] = t],
         asked' \in Seq(SUBSET Keys), handle' \in [Connections -> Handles],
         cache' \in [Connections -> Handles], reads' \in [Connections -> 0 .. MaxReads],
         UNCHANGED <<workload, status, filled, stamp, triggered, notifying, epoch, purges,
                     failed>>
  PROVE  Wakeups'
<1>1. /\ call \in [Connections -> Calls] /\ task \in [Connections -> Tasks]
      /\ pending \in [Connections -> Seq(Reads)]
  BY DEF Wakeups, TypeOK, Calls, Tasks
<1>2. /\ call' \in [Connections -> Calls] /\ task' \in [Connections -> Tasks]
      /\ pending' \in [Connections -> Seq(Reads)] /\ Calls' = Calls
  BY <1>1 DEF Calls
<1>3. TypeOK'
  BY <1>2 DEF Wakeups, TypeOK, Calls, Tasks
<1>4. ASSUME NEW d \in Connections
      PROVE  CallHears(call[d])' /\ ReadsHear(pending[d], task[d])'
  <2>1. CallHears(call'[d]) /\ ReadsHear(pending'[d], task'[d])
    <3>1. CASE d = c
      BY <1>1, <3>1
    <3>2. CASE d # c
      BY <1>1, <3>2 DEF Wakeups
    <3> QED
      BY <3>1, <3>2
  <2> QED
    BY <2>1 DEF CallHears, ReadsHear, Ahead, Waits, Stamped
<1> QED
  BY <1>3, <1>4 DEF Wakeups

-----------------------------------------------------------------------------
(* The request handler.                                                     *)

LEMMA CallWakes ==
  ASSUME Wakeups, NEW c \in Connections, NEW q \in workload.queries, Call(c, q)
  PROVE  Wakeups'
<1> DEFINE v == [NoCall EXCEPT !.pc = "lookup", !.query = q, !.consistency_miss = StaleFor(q)]
<1>1. TypeOK /\ ReadsHear(pending[c], task[c])
  BY DEF Wakeups
<1>2. StaleFor(q) \in BOOLEAN /\ (~StaleFor(q) => Stamped(q))
  BY DEF StaleFor, Stamped
<1>3. v \in Calls /\ v.pc = "lookup" /\ v.query = q /\ v.consistency_miss = StaleFor(q)
      /\ ~v.receiver
  <2> HIDE DEF StaleFor
  <2> QED
    BY <1>2 DEF NoCall, Calls
<1>4. CallHears(v)
  BY <1>2, <1>3 DEF CallHears
<1>5. /\ call' = [call EXCEPT ![c] = v] /\ reads' = [reads EXCEPT ![c] = @ + 1]
      /\ reads[c] < MaxReads
      /\ handle' = [handle EXCEPT ![c] = IF @.cloned /\ status # "removed" THEN @ ELSE Clone]
      /\ UNCHANGED <<domainVars, taskVars, pending>>
  BY DEF Call
<1>6. /\ UNCHANGED <<workload, status, filled, stamp, asked, triggered, notifying, epoch,
                     purges, failed, task, cache, pending>>
  BY <1>5 DEF domainVars, taskVars
<1>7. handle' \in [Connections -> Handles] /\ cache' \in [Connections -> Handles]
  <2>1. Clone \in Handles
    BY DEF Clone, Handles
  <2> QED
    BY <1>1, <1>5, <1>6, <2>1 DEF TypeOK
<1>8. reads' \in [Connections -> 0 .. MaxReads]
  BY <1>1, <1>5, ConnectionTypes, SMTT(30) DEF TypeOK
<1> HIDE DEF v
<1> QED
  BY <1>1, <1>3, <1>4, <1>5, <1>6, <1>7, <1>8, ConnectionTypes, LocalStep

\* What a step leaves alone that changes neither handles nor reads.
LEMMA HandlesSame ==
  ASSUME TypeOK, UNCHANGED <<handle, reads, cache>>
  PROVE  /\ handle' \in [Connections -> Handles] /\ cache' \in [Connections -> Handles]
         /\ reads' \in [Connections -> 0 .. MaxReads]
BY DEF TypeOK

\* A read with misses subscribes next; its lookup was of the map of now.
LEMMA LookupWakes ==
  ASSUME Wakeups, NEW c \in Connections, Lookup(c) PROVE Wakeups'
<1> DEFINE u == call[c]
           misses == u.query.keys \ filled
           v == IF status # "ready" \/ (misses = {} /\ ~u.consistency_miss) THEN NoCall
                ELSE [u EXCEPT !.pc = "subscribe", !.misses = misses]
<1>1. TypeOK /\ CallHears(u) /\ ReadsHear(pending[c], task[c]) /\ u \in Calls
  BY ConnectionTypes DEF Wakeups
<1>2. /\ u.pc = "lookup" /\ call' = [call EXCEPT ![c] = v]
      /\ UNCHANGED <<domainVars, handle, reads, taskVars, pending>>
  BY ConnectionTypes DEF Lookup, Wakeups, TypeOK
<1>3. UNCHANGED <<workload, status, filled, stamp, asked, triggered, notifying, epoch,
                  purges, failed, handle, reads, task, cache, pending>>
  BY <1>2 DEF domainVars, taskVars
<1>4. v \in Calls /\ CallHears(v)
  <2>1. CASE v = NoCall
    BY <2>1, NoCallFields DEF CallHears
  <2>2. CASE v # NoCall
    <3>1. v = [u EXCEPT !.pc = "subscribe", !.misses = misses]
      BY <2>2
    <3>2. misses \subseteq Keys
      BY <1>1, CallFields
    <3> HIDE DEF u, misses, v
    <3>3. /\ v \in Calls /\ v.pc = "subscribe" /\ v.misses = misses /\ v.query = u.query
          /\ v.consistency_miss = u.consistency_miss /\ v.receiver = u.receiver
      BY <1>1, <3>1, <3>2 DEF Calls
    <3> QED
      BY <1>1, <1>2, <3>3 DEF CallHears, misses
  <2> QED
    BY <2>1, <2>2
<1> HIDE DEF v
<1> QED
  BY <1>1, <1>2, <1>3, <1>4, ConnectionTypes, HandlesSame, LocalStep

\* A read subscribes to wait for a key that is missing now.
LEMMA SubscribeWakes ==
  ASSUME Wakeups, NEW c \in Connections, Subscribe(c) PROVE Wakeups'
<1> DEFINE u == call[c]
           hears == u.misses # {} /\ ~u.consistency_miss
           v == [u EXCEPT !.pc = "trigger", !.receiver = hears]
<1>1. TypeOK /\ CallHears(u) /\ ReadsHear(pending[c], task[c]) /\ u \in Calls
  BY ConnectionTypes DEF Wakeups
<1>2. /\ u.pc = "subscribe" /\ call' = [call EXCEPT ![c] = v]
      /\ UNCHANGED <<domainVars, handle, reads, taskVars, pending>>
  BY ConnectionTypes DEF Subscribe, Wakeups, TypeOK
<1>3. UNCHANGED <<workload, status, filled, stamp, asked, triggered, notifying, epoch,
                  purges, failed, handle, reads, task, cache, pending>>
  BY <1>2 DEF domainVars, taskVars
<1>4. /\ v \in Calls /\ v.pc = "trigger" /\ v.receiver = hears /\ v.query = u.query
      /\ v.consistency_miss = u.consistency_miss /\ v.swapped = u.swapped
      /\ v.misses = u.misses
  <2>1. hears \in BOOLEAN
    OBVIOUS
  <2> HIDE DEF hears, u
  <2> QED
    BY <1>1, <2>1 DEF Calls
<1>5. CallHears(v)
  <2> HIDE DEF u, v
  <2> QED
    BY <1>1, <1>2, <1>4 DEF CallHears, Waits
<1> HIDE DEF v
<1> QED
  BY <1>1, <1>2, <1>3, <1>4, <1>5, ConnectionTypes, HandlesSame, LocalStep

\* The requests at the domain are sets of keys.
LEMMA RequestTyped ==
  ASSUME TypeOK, NEW keys \in SUBSET Keys PROVE Request(keys) \in Seq(SUBSET Keys)
BY SMTT(30) DEF TypeOK, Request

LEMMA TriggerWakes ==
  ASSUME Wakeups, NEW c \in Connections, Trigger(c) PROVE Wakeups'
<1> DEFINE u == call[c]
           v == IF u.query.block THEN [u EXCEPT !.pc = "enqueue"] ELSE NoCall
<1>1. TypeOK /\ CallHears(u) /\ ReadsHear(pending[c], task[c]) /\ u \in Calls
  BY ConnectionTypes DEF Wakeups
<1>2. /\ u.pc = "trigger" /\ call' = [call EXCEPT ![c] = v] /\ asked' = Request(u.misses)
      /\ UNCHANGED <<workload, status, filled, stamp, triggered, notifying, epoch, purges,
                     failed, handle, reads, taskVars, pending>>
  BY ConnectionTypes DEF Trigger, Wakeups, TypeOK
<1>3. UNCHANGED <<task, cache>>
  BY <1>2 DEF taskVars
<1>4. v \in Calls /\ CallHears(v)
  <2>1. CASE v = NoCall
    BY <2>1, NoCallFields DEF CallHears
  <2>2. CASE v # NoCall
    <3>1. v = [u EXCEPT !.pc = "enqueue"]
      BY <2>2
    <3> HIDE DEF u, v
    <3>2. /\ v \in Calls /\ v.pc = "enqueue" /\ v.query = u.query /\ v.receiver = u.receiver
          /\ v.consistency_miss = u.consistency_miss /\ v.swapped = u.swapped
          /\ v.unseen = u.unseen
      BY <1>1, <3>1 DEF Calls
    <3> QED
      BY <1>1, <1>2, <3>2 DEF CallHears, Waits
  <2> QED
    BY <2>1, <2>2
<1>5. asked' \in Seq(SUBSET Keys)
  <2>1. u.misses \in SUBSET Keys
    BY <1>1, CallFields
  <2> QED
    BY <1>1, <1>2, <2>1, RequestTyped
<1> HIDE DEF v
<1> QED
  BY <1>1, <1>2, <1>3, <1>4, <1>5, ConnectionTypes, HandlesSame, LocalStep

\* A handle that has received what there is.
LEMMA RefreshedTyped ==
  ASSUME TypeOK, NEW h \in Handles PROVE Refreshed(h) \in Handles /\ Refreshed(h).epoch \in Nat
<1>1. epoch \in Nat
  BY BlockingReadAssumption, SMTT(30) DEF TypeOK
<1> QED
  BY <1>1 DEF Refreshed, Handles

\* The blocked read takes what its handler heard along.
LEMMA EnqueueWakes ==
  ASSUME Wakeups, NEW c \in Connections, Enqueue(c) PROVE Wakeups'
<1> DEFINE u == call[c]
           e == handle'[c].epoch
           p == [keys |-> u.query.keys, stamped |-> u.query.stamped,
                 receiver |-> u.receiver, unseen |-> u.unseen, epoch |-> e,
                 late |-> FALSE, swapped |-> u.swapped]
           s == Append(pending[c], p)
           t == task[c]
<1>1. /\ TypeOK /\ CallHears(u) /\ ReadsHear(pending[c], t) /\ u \in Calls
      /\ pending[c] \in Seq(Reads) /\ t \in Tasks /\ handle[c] \in Handles
  BY ConnectionTypes DEF Wakeups
<1>2. /\ u.pc = "enqueue" /\ call' = [call EXCEPT ![c] = NoCall]
      /\ handle' = [handle EXCEPT ![c] = Refreshed(@)]
      /\ pending' = [pending EXCEPT ![c] = s]
      /\ UNCHANGED <<domainVars, reads, taskVars>>
  BY ConnectionTypes DEF Enqueue, Wakeups, TypeOK
<1>3. UNCHANGED <<workload, status, filled, stamp, asked, triggered, notifying, epoch,
                  purges, failed, reads, task, cache>>
  BY <1>2 DEF domainVars, taskVars
<1>4. handle' \in [Connections -> Handles] /\ e \in Nat
  <2>1. Refreshed(handle[c]) \in Handles /\ Refreshed(handle[c]).epoch \in Nat
    BY <1>1, RefreshedTyped
  <2>2. handle' = [handle EXCEPT ![c] = Refreshed(handle[c])]
    BY <1>2
  <2> QED
    BY <1>1, <2>1, <2>2 DEF TypeOK
<1>5. cache' \in [Connections -> Handles] /\ reads' \in [Connections -> 0 .. MaxReads]
  BY <1>1, <1>3 DEF TypeOK
<1>6. /\ p \in Reads /\ p.keys = u.query.keys /\ p.stamped = u.query.stamped
      /\ p.receiver = u.receiver /\ p.unseen = u.unseen /\ p.swapped = u.swapped
  <2> HIDE DEF u, e
  <2>1. u.query.keys \in SUBSET Keys /\ u.query.stamped \in BOOLEAN
    BY <1>1, CallFields
  <2>2. u.receiver \in BOOLEAN /\ u.unseen \in BOOLEAN /\ u.swapped \in BOOLEAN
    BY <1>1, CallFields
  <2> QED
    BY <1>4, <2>1, <2>2 DEF Reads
<1> HIDE DEF p, u, t
<1>7. /\ s \in Seq(Reads) /\ Len(s) = Len(pending[c]) + 1 /\ Len(pending[c]) \in Nat
      /\ \A i \in 1 .. Len(pending[c]) : s[i] = pending[c][i]
      /\ s[Len(pending[c]) + 1] = p
  BY <1>1, <1>6, AppendIs, SMTT(30)
<1>8. ReadsHear(s, t)
  <2> HIDE DEF s
  <2>1. t.pc # "idle" => s # <<>> /\ s[1] = pending[c][1]
    <3>1. t.pc # "idle" => Len(pending[c]) > 0
      BY <1>1, SMTT(30) DEF ReadsHear
    <3> QED
      BY <1>7, <3>1, SMTT(30)
  <2>2. t.pc = "lookup" /\ t.consistency_miss /\ s[1].receiver => status = "removed"
    BY <1>1, <2>1 DEF ReadsHear
  <2>3. ASSUME NEW i \in 1 .. Len(s)
        PROVE  /\ s[i].receiver => Stamped(s[i])
               /\ Waits(s[i]) /\ s[i].keys \subseteq filled => Ahead(s, t, i)
    <3>1. CASE i = Len(pending[c]) + 1
      <4>1. s[i] = p
        BY <1>7, <3>1
      <4>2. p.receiver => Stamped(p)
        BY <1>1, <1>2, <1>6 DEF CallHears, Stamped
      <4>3. Waits(p) /\ p.keys \subseteq filled => p.unseen \/ notifying \/ status = "removed"
        BY <1>1, <1>2, <1>6 DEF CallHears, Waits
      <4> QED
        BY <4>1, <4>2, <4>3 DEF Ahead
    <3>2. CASE i # Len(pending[c]) + 1
      <4>1. i \in 1 .. Len(pending[c]) /\ s[i] = pending[c][i]
        BY <1>7, <2>3, <3>2, SMTT(30)
      <4> QED
        BY <1>1, <4>1 DEF ReadsHear, Ahead
    <3> QED
      BY <3>1, <3>2
  <2> QED
    BY <2>1, <2>2, <2>3 DEF ReadsHear
<1>9. CallHears(NoCall) /\ NoCall \in Calls
  BY NoCallFields DEF CallHears
<1>10. task' = [task EXCEPT ![c] = t] /\ asked' \in Seq(SUBSET Keys)
  BY <1>1, <1>3, ConnectionTypes DEF t
<1> HIDE DEF s
<1> QED
  BY <1>1, <1>2, <1>3, <1>4, <1>5, <1>7, <1>8, <1>9, <1>10, LocalStep

-----------------------------------------------------------------------------
(* The retry task.                                                          *)

\* A step at the head of the blocked reads, from what it leaves there.
LEMMA HeadHears ==
  ASSUME NEW s \in Seq(Reads), s # <<>>, NEW x \in Reads, NEW t, NEW t2, ReadsHear(s, t),
         x.receiver = s[1].receiver, x.stamped = s[1].stamped, x.swapped = s[1].swapped,
         x.keys = s[1].keys,
         t2.pc = "lookup" /\ t2.consistency_miss /\ x.receiver => status = "removed",
         Waits(x) /\ x.keys \subseteq filled =>
           x.unseen \/ notifying \/ status = "removed" \/ t2.pc \in {"check", "lookup"}
  PROVE  <<x>> \o Tail(s) \in Seq(Reads) /\ ReadsHear(<<x>> \o Tail(s), t2)
<1> DEFINE r == <<x>> \o Tail(s)
<1>1. /\ r \in Seq(Reads) /\ Len(r) = Len(s) /\ r[1] = x /\ Len(s) \in Nat \ {0}
      /\ \A i \in 2 .. Len(s) : r[i] = s[i]
  BY HeadReplaced, SMTT(30)
<1> HIDE DEF r
<1>2. ASSUME NEW i \in 1 .. Len(r)
      PROVE  /\ r[i].receiver => Stamped(r[i])
             /\ Waits(r[i]) /\ r[i].keys \subseteq filled => Ahead(r, t2, i)
  <2>1. CASE i = 1
    <3>1. s[1].receiver => Stamped(s[1])
      BY <1>1, SMTT(30) DEF ReadsHear
    <3> QED
      BY <1>1, <2>1, <3>1 DEF Ahead, Stamped
  <2>2. CASE i # 1
    <3>1. i \in 2 .. Len(s) /\ r[i] = s[i]
      BY <1>1, <1>2, <2>2, SMTT(30)
    <3>2. i \in 1 .. Len(s)
      BY <1>1, <1>2
    <3> QED
      BY <2>2, <3>1, <3>2 DEF Ahead, ReadsHear
  <2> QED
    BY <2>1, <2>2
<1>3. r # <<>>
  BY <1>1
<1>4. ReadsHear(r, t2)
  BY <1>1, <1>2, <1>3 DEF ReadsHear
<1> QED
  BY <1>1, <1>4 DEF r

\* The task between two checks.
LEMMA NoTaskFields == NoTask \in Tasks /\ NoTask.pc = "idle" /\ ~NoTask.consistency_miss
BY DEF NoTask, Tasks

\* The read at the head is answered: the next one waits for its own wake-up.
LEMMA TailHears ==
  ASSUME NEW s \in Seq(Reads), s # <<>>, NEW t, ReadsHear(s, t)
  PROVE  Tail(s) \in Seq(Reads) /\ ReadsHear(Tail(s), NoTask)
<1> DEFINE r == Tail(s)
<1>1. /\ r \in Seq(Reads) /\ Len(r) = Len(s) - 1 /\ Len(s) \in Nat \ {0}
      /\ \A i \in 1 .. Len(s) - 1 : r[i] = s[i + 1]
  BY TailIs
<1> HIDE DEF r
<1>2. ASSUME NEW i \in 1 .. Len(r)
      PROVE  /\ r[i].receiver => Stamped(r[i])
             /\ Waits(r[i]) /\ r[i].keys \subseteq filled => Ahead(r, NoTask, i)
  <2>1. i + 1 \in 1 .. Len(s) /\ r[i] = s[i + 1] /\ i + 1 # 1
    BY <1>1, <1>2, SMTT(30)
  <2> QED
    BY <2>1 DEF Ahead, ReadsHear
<1>3. ReadsHear(r, NoTask)
  BY <1>2, NoTaskFields DEF ReadsHear
<1> QED
  BY <1>1, <1>3 DEF r

\* A step of the retry task of c.
LEMMA TaskStepWakes ==
  ASSUME Wakeups, NEW c \in Connections, NEW s \in Seq(Reads), NEW t \in Tasks,
         ReadsHear(s, t), pending' = [pending EXCEPT ![c] = s],
         task' = [task EXCEPT ![c] = t], asked' \in Seq(SUBSET Keys),
         cache' \in [Connections -> Handles],
         UNCHANGED <<workload, status, filled, stamp, triggered, notifying, epoch, purges,
                     failed, call, handle, reads>>
  PROVE  Wakeups'
<1>1. /\ TypeOK /\ CallHears(call[c]) /\ call[c] \in Calls
      /\ call' = [call EXCEPT ![c] = call[c]]
  BY ConnectionTypes DEF Wakeups
<1>2. handle' \in [Connections -> Handles] /\ reads' \in [Connections -> 0 .. MaxReads]
  BY <1>1 DEF TypeOK
<1> QED
  BY <1>1, <1>2, LocalStep

\* The timeout of a read does not take its wake-up away.
LEMMA ExpireWakes ==
  ASSUME Wakeups, NEW c \in Connections, Expire(c) PROVE Wakeups'
<1> DEFINE s == pending[c]
           t == task[c]
           x == [s[1] EXCEPT !.late = TRUE]
<1>1. /\ TypeOK /\ s \in Seq(Reads) /\ t \in Tasks /\ ReadsHear(s, t)
  BY ConnectionTypes DEF Wakeups
<1>2. s # <<>> /\ pending' = [pending EXCEPT ![c] = <<[Head(s) EXCEPT !.late = TRUE]>> \o Tail(s)]
      /\ UNCHANGED <<domainVars, handlerVars, taskVars>>
  BY <1>1 DEF Expire, TypeOK
<1>3. Head(s) = s[1] /\ s[1] \in Reads /\ Len(s) \in Nat \ {0}
  BY <1>1, <1>2, TailIs
<1>4. UNCHANGED <<workload, status, filled, stamp, asked, triggered, notifying, epoch,
                  purges, failed, call, handle, reads, task, cache>>
  BY <1>2 DEF domainVars, handlerVars, taskVars
<1>5. pending' = [pending EXCEPT ![c] = <<x>> \o Tail(s)]
  BY <1>2, <1>3
<1> HIDE DEF s, t
<1>6. /\ x \in Reads /\ x.receiver = s[1].receiver /\ x.stamped = s[1].stamped
      /\ x.swapped = s[1].swapped /\ x.keys = s[1].keys /\ x.unseen = s[1].unseen
  BY <1>3 DEF Reads
<1> HIDE DEF x
<1>7. /\ t.pc = "lookup" /\ t.consistency_miss /\ x.receiver => status = "removed"
      /\ Waits(x) /\ x.keys \subseteq filled =>
           x.unseen \/ notifying \/ status = "removed" \/ t.pc \in {"check", "lookup"}
  BY <1>1, <1>3, <1>6, SMTT(30) DEF ReadsHear, Ahead, Waits
<1>8. <<x>> \o Tail(s) \in Seq(Reads) /\ ReadsHear(<<x>> \o Tail(s), t)
  BY <1>1, <1>2, <1>6, <1>7, HeadHears
<1>9. task' = [task EXCEPT ![c] = t] /\ asked' \in Seq(SUBSET Keys)
      /\ cache' \in [Connections -> Handles]
  BY <1>1, <1>4, ConnectionTypes DEF t, TypeOK
<1> QED
  BY <1>1, <1>4, <1>5, <1>8, <1>9, TaskStepWakes

\* The head is woken, and its check is ahead.
LEMMA WakeWakes ==
  ASSUME Wakeups, NEW c \in Connections, Wake(c) PROVE Wakeups'
<1> DEFINE s == pending[c]
           t == [NoTask EXCEPT !.pc = "check"]
           x == [s[1] EXCEPT !.unseen = FALSE]
<1>1. /\ TypeOK /\ s \in Seq(Reads) /\ ReadsHear(s, task[c])
  BY ConnectionTypes DEF Wakeups
<1>2. /\ s # <<>> /\ pending' = [pending EXCEPT ![c] = <<[Head(s) EXCEPT !.unseen = FALSE]>> \o Tail(s)]
      /\ task' = [task EXCEPT ![c] = t]
      /\ UNCHANGED <<domainVars, handlerVars, cache>>
  BY <1>1 DEF Wake, TypeOK
<1>3. Head(s) = s[1] /\ s[1] \in Reads /\ Len(s) \in Nat \ {0}
  BY <1>1, <1>2, TailIs
<1>4. UNCHANGED <<workload, status, filled, stamp, asked, triggered, notifying, epoch,
                  purges, failed, call, handle, reads, cache>>
  BY <1>2 DEF domainVars, handlerVars
<1>5. pending' = [pending EXCEPT ![c] = <<x>> \o Tail(s)]
  BY <1>2, <1>3
<1>6. t \in Tasks /\ t.pc = "check"
  BY DEF NoTask, Tasks
<1> HIDE DEF s, t
<1>7. /\ x \in Reads /\ x.receiver = s[1].receiver /\ x.stamped = s[1].stamped
      /\ x.swapped = s[1].swapped /\ x.keys = s[1].keys
  BY <1>3 DEF Reads
<1> HIDE DEF x
<1>8. <<x>> \o Tail(s) \in Seq(Reads) /\ ReadsHear(<<x>> \o Tail(s), t)
  BY <1>1, <1>2, <1>6, <1>7, HeadHears
<1>9. asked' \in Seq(SUBSET Keys) /\ cache' \in [Connections -> Handles]
  BY <1>1, <1>4 DEF TypeOK
<1> QED
  BY <1>1, <1>2, <1>4, <1>5, <1>6, <1>8, <1>9, TaskStepWakes

\* A read that subscribed does not wait for a timestamp, so that only a reader
\* that is gone makes its check a consistency miss.
LEMMA CheckWakes ==
  ASSUME Wakeups, NEW c \in Connections, Check(c) PROVE Wakeups'
<1> DEFINE s == pending[c]
           t == [NoTask EXCEPT !.pc = "lookup", !.consistency_miss = StaleFor(Head(s))]
<1>1. /\ TypeOK /\ s \in Seq(Reads) /\ ReadsHear(s, task[c])
  BY ConnectionTypes DEF Wakeups
<1>2. /\ task[c].pc = "check" /\ task' = [task EXCEPT ![c] = t]
      /\ cache' = [cache EXCEPT ![c] = IF @.cloned THEN @ ELSE Clone]
      /\ UNCHANGED <<domainVars, handlerVars, pending>>
  BY <1>1 DEF Check, TypeOK
<1>3. s # <<>> /\ Head(s) = s[1] /\ s[1] \in Reads /\ Len(s) \in Nat \ {0}
  <2>1. s # <<>>
    BY <1>1, <1>2 DEF ReadsHear
  <2> QED
    BY <1>1, <2>1, TailIs
<1>4. UNCHANGED <<workload, status, filled, stamp, asked, triggered, notifying, epoch,
                  purges, failed, call, handle, reads, pending>>
  BY <1>2 DEF domainVars, handlerVars
<1>5. /\ StaleFor(Head(s)) \in BOOLEAN
      /\ s[1].receiver /\ StaleFor(Head(s)) => status = "removed"
  <2>1. s[1].receiver => Stamped(s[1])
    BY <1>1, <1>3, SMTT(30) DEF ReadsHear
  <2>2. status \in {"new", "ready", "removed"}
    BY <1>1 DEF TypeOK
  <2> QED
    BY <1>3, <2>1, <2>2 DEF StaleFor, Stamped
<1>6. t \in Tasks /\ t.pc = "lookup" /\ t.consistency_miss = StaleFor(Head(s))
  <2> HIDE DEF s
  <2> HIDE DEF StaleFor
  <2> QED
    BY <1>5 DEF NoTask, Tasks
<1>7. cache' \in [Connections -> Handles] /\ asked' \in Seq(SUBSET Keys)
  <2>1. Clone \in Handles
    BY DEF Clone, Handles
  <2> QED
    BY <1>1, <1>2, <1>4, <2>1 DEF TypeOK
<1>8. pending' = [pending EXCEPT ![c] = s]
  BY <1>1, <1>4, ConnectionTypes
<1> HIDE DEF s, t
<1>9. ReadsHear(s, t)
  <2>1. ASSUME NEW i \in 1 .. Len(s)
        PROVE  /\ s[i].receiver => Stamped(s[i])
               /\ Waits(s[i]) /\ s[i].keys \subseteq filled => Ahead(s, t, i)
    BY <1>1, <1>6 DEF ReadsHear, Ahead
  <2> QED
    BY <1>3, <1>5, <1>6, <2>1 DEF ReadsHear
<1> QED
  BY <1>1, <1>2, <1>4, <1>6, <1>7, <1>8, <1>9, TaskStepWakes

\* A lookup that does not answer the read saw a key missing.
LEMMA CheckLookupWakes ==
  ASSUME Wakeups, NEW c \in Connections, CheckLookup(c) PROVE Wakeups'
<1> DEFINE s == pending[c]
           t == task[c]
           misses == Head(s).keys \ filled
           answered == status # "ready" \/ (misses = {} /\ ~t.consistency_miss)
           t2 == [t EXCEPT !.pc = "retrigger", !.misses = misses]
<1>1. /\ TypeOK /\ s \in Seq(Reads) /\ t \in Tasks /\ ReadsHear(s, t)
  BY ConnectionTypes DEF Wakeups
<1>2. /\ t.pc = "lookup" /\ UNCHANGED <<domainVars, handlerVars, cache>>
      /\ answered => task' = [task EXCEPT ![c] = NoTask] /\ pending' = [pending EXCEPT ![c] = Tail(s)]
      /\ ~answered => task' = [task EXCEPT ![c] = t2] /\ pending' = pending
  BY <1>1 DEF CheckLookup, TypeOK
<1>3. s # <<>> /\ Head(s) = s[1] /\ s[1] \in Reads /\ Len(s) \in Nat \ {0}
  <2>1. s # <<>>
    BY <1>1, <1>2 DEF ReadsHear
  <2> QED
    BY <1>1, <2>1, TailIs
<1>4. UNCHANGED <<workload, status, filled, stamp, asked, triggered, notifying, epoch,
                  purges, failed, call, handle, reads, cache>>
  BY <1>2 DEF domainVars, handlerVars
<1>5. cache' \in [Connections -> Handles] /\ asked' \in Seq(SUBSET Keys)
  BY <1>1, <1>4 DEF TypeOK
<1>6. CASE answered
  <2>1. Tail(s) \in Seq(Reads) /\ ReadsHear(Tail(s), NoTask)
    BY <1>1, <1>3, TailHears
  <2> HIDE DEF s, t, answered
  <2> QED
    BY <1>1, <1>2, <1>4, <1>5, <1>6, <2>1, NoTaskFields, TaskStepWakes
<1>7. CASE ~answered
  <2>1. pending' = [pending EXCEPT ![c] = s]
    BY <1>1, <1>2, <1>7, ConnectionTypes
  <2>2. misses \in SUBSET Keys
    BY <1>3 DEF Reads
  <2> HIDE DEF s, t, misses
  <2>3. t2 \in Tasks /\ t2.pc = "retrigger"
    BY <1>1, <2>2 DEF Tasks
  <2>4. status = "ready" /\ (misses = {} => t.consistency_miss)
    BY <1>1, <1>7 DEF Tasks
  <2> HIDE DEF t2, answered
  <2>5. ASSUME NEW i \in 1 .. Len(s)
        PROVE  /\ s[i].receiver => Stamped(s[i])
               /\ Waits(s[i]) /\ s[i].keys \subseteq filled => Ahead(s, t2, i)
    <3>1. Waits(s[i]) /\ s[i].keys \subseteq filled => i # 1
      <4>1. s[1].keys \subseteq filled => misses = {}
        BY <1>3 DEF misses
      <4> QED
        BY <1>1, <1>2, <2>4, <4>1 DEF ReadsHear, Waits
    <3> QED
      BY <1>1, <2>5, <3>1 DEF ReadsHear, Ahead
  <2>6. ReadsHear(s, t2)
    BY <1>3, <2>3, <2>5 DEF ReadsHear
  <2> QED
    BY <1>1, <1>2, <1>4, <1>5, <1>7, <2>1, <2>3, <2>6, TaskStepWakes
<1> QED
  BY <1>6, <1>7

\* Either the read has timed out, or only its epoch changes.
LEMMA RecheckWakes ==
  ASSUME Wakeups, NEW c \in Connections, Recheck(c) PROVE Wakeups'
<1> DEFINE s == pending[c]
           t == task[c]
           e == cache'[c].epoch
           evicted == e > Head(s).epoch
           x == [s[1] EXCEPT !.epoch = IF evicted THEN e ELSE @]
<1>1. /\ TypeOK /\ s \in Seq(Reads) /\ t \in Tasks /\ ReadsHear(s, t) /\ cache[c] \in Handles
  BY ConnectionTypes DEF Wakeups
<1>2. /\ t.pc = "retrigger" /\ cache' = [cache EXCEPT ![c] = Refreshed(@)]
      /\ asked' = IF evicted THEN Request(t.misses) ELSE asked
      /\ pending' = [pending EXCEPT ![c] =
                       IF Head(s).late THEN Tail(s)
                       ELSE <<[Head(s) EXCEPT !.epoch = IF evicted THEN e ELSE @]>> \o Tail(s)]
      /\ task' = [task EXCEPT ![c] = NoTask]
      /\ UNCHANGED <<workload, status, filled, stamp, triggered, notifying, epoch, purges,
                     failed, handlerVars>>
  BY <1>1 DEF Recheck, TypeOK
<1>3. s # <<>> /\ Head(s) = s[1] /\ s[1] \in Reads /\ Len(s) \in Nat \ {0}
  <2>1. s # <<>>
    BY <1>1, <1>2 DEF ReadsHear
  <2> QED
    BY <1>1, <2>1, TailIs
<1>4. UNCHANGED <<call, handle, reads>>
  BY <1>2 DEF handlerVars
<1>5. cache' \in [Connections -> Handles] /\ e \in Nat
  <2>1. Refreshed(cache[c]) \in Handles /\ Refreshed(cache[c]).epoch \in Nat
    BY <1>1, RefreshedTyped
  <2>2. cache' = [cache EXCEPT ![c] = Refreshed(cache[c])]
    BY <1>2
  <2> QED
    BY <1>1, <2>1, <2>2 DEF TypeOK
<1>6. asked' \in Seq(SUBSET Keys)
  <2>1. t.misses \in SUBSET Keys
    BY <1>1 DEF Tasks
  <2> HIDE DEF t
  <2>2. Request(t.misses) \in Seq(SUBSET Keys) /\ asked \in Seq(SUBSET Keys)
    BY <1>1, <2>1, RequestTyped DEF TypeOK
  <2> QED
    BY <1>2, <2>2
<1> DEFINE r == IF s[1].late THEN Tail(s) ELSE <<x>> \o Tail(s)
<1>7. pending' = [pending EXCEPT ![c] = r]
  BY <1>2, <1>3, SMTT(30)
<1>8. r \in Seq(Reads) /\ ReadsHear(r, NoTask)
  <2>1. CASE s[1].late
    BY <1>1, <1>3, <2>1, TailHears
  <2>2. CASE ~s[1].late
    <3> HIDE DEF s, t, e
    <3>1. evicted \in BOOLEAN
      BY SMTT(30)
    <3> HIDE DEF evicted
    <3>2. /\ x \in Reads /\ x.receiver = s[1].receiver /\ x.stamped = s[1].stamped
          /\ x.swapped = s[1].swapped /\ x.keys = s[1].keys /\ x.unseen = s[1].unseen
      BY <1>3, <1>5 DEF Reads
    <3> HIDE DEF x
    <3>3. Waits(x) /\ x.keys \subseteq filled => x.unseen \/ notifying \/ status = "removed"
      <4>1. Waits(s[1]) /\ s[1].keys \subseteq filled => Ahead(s, t, 1)
        BY <1>1, <1>3, SMTT(30) DEF ReadsHear
      <4> QED
        BY <1>2, <3>2, <4>1 DEF Ahead, Waits
    <3>4. <<x>> \o Tail(s) \in Seq(Reads) /\ ReadsHear(<<x>> \o Tail(s), NoTask)
      BY <1>1, <1>3, <3>2, <3>3, NoTaskFields, HeadHears
    <3> QED
      BY <2>2, <3>4
  <2> QED
    BY <2>1, <2>2
<1> HIDE DEF r, s, t
<1> QED
  BY <1>1, <1>2, <1>4, <1>5, <1>6, <1>7, <1>8, NoTaskFields, TaskStepWakes

-----------------------------------------------------------------------------
(* The domain.                                                              *)

\* Steps that publish a timestamp or a first map, or handle a request, change
\* nothing a read waits for.
LEMMA QuietWakes ==
  ASSUME Wakeups, Ready \/ Timestamp \/ RequestReaderReplay PROVE Wakeups'
<1>1. /\ UNCHANGED <<workload, filled, notifying, epoch, purges, call, handle, pending, task,
                     cache, reads>>
      /\ stamp => stamp'
      /\ status' # status => status = "new" /\ status' = "ready"
  BY DEF Ready, Timestamp, RequestReaderReplay, handlerVars, taskVars, Wakeups, TypeOK
<1>2. TypeOK'
  <2>1. status' \in {"new", "ready", "removed"} /\ stamp' \in BOOLEAN /\ failed' \in BOOLEAN
    BY DEF Wakeups, TypeOK, Ready, Timestamp, RequestReaderReplay
  <2>2. asked' \in Seq(SUBSET Keys) /\ triggered' \subseteq Keys
    <3>1. CASE RequestReaderReplay
      <4>1. asked \in Seq(SUBSET Keys) /\ asked # <<>> /\ triggered \subseteq Keys
        BY <3>1 DEF RequestReaderReplay, Wakeups, TypeOK
      <4>2. Tail(asked) \in Seq(SUBSET Keys) /\ Head(asked) \in SUBSET Keys
        BY <4>1, SMTT(30)
      <4> QED
        BY <3>1, <4>1, <4>2 DEF RequestReaderReplay
    <3>2. CASE Ready \/ Timestamp
      BY <3>2 DEF Ready, Timestamp, Wakeups, TypeOK
    <3> QED
      BY <3>1, <3>2
  <2> QED
    BY <1>1, <2>1, <2>2 DEF Wakeups, TypeOK
<1>3. ASSUME NEW c \in Connections
      PROVE  CallHears(call[c])' /\ ReadsHear(pending[c], task[c])'
  <2>1. CallHears(call[c]) /\ ReadsHear(pending[c], task[c])
    BY DEF Wakeups
  <2>2. \A q : Stamped(q) => Stamped(q)'
    BY <1>1 DEF Stamped
  <2>3. status = "removed" => status' = "removed"
    BY <1>1
  <2>4. CallHears(call[c])'
    BY <1>1, <2>1, <2>2, <2>3 DEF CallHears, Waits
  <2>5. ReadsHear(pending[c], task[c])'
    BY <1>1, <2>1, <2>2, <2>3 DEF ReadsHear, Ahead, Waits
  <2> QED
    BY <2>4, <2>5
<1> QED
  BY <1>2, <1>3 DEF Wakeups

LEMMA RemoveNodesWakes ==
  ASSUME Wakeups, RemoveNodes PROVE Wakeups'
<1>1. /\ UNCHANGED <<workload, filled, stamp, asked, triggered, notifying, epoch, purges, failed,
                     call, handle, pending, task, cache, reads>>
      /\ status' = "removed" /\ status = "ready"
  BY DEF RemoveNodes, handlerVars, taskVars
<1>2. TypeOK'
  BY <1>1 DEF Wakeups, TypeOK
<1>3. ASSUME NEW c \in Connections
      PROVE  CallHears(call[c])' /\ ReadsHear(pending[c], task[c])'
  <2>1. CallHears(call[c]) /\ ReadsHear(pending[c], task[c])
    BY DEF Wakeups
  <2>2. \A q : Stamped(q) => Stamped(q)'
    BY <1>1 DEF Stamped
  <2>3. CallHears(call[c])'
    BY <1>1, <2>1, <2>2 DEF CallHears, Waits
  <2>4. ReadsHear(pending[c], task[c])'
    BY <1>1, <2>1, <2>2 DEF ReadsHear, Ahead, Waits
  <2> QED
    BY <2>3, <2>4
<1> QED
  BY <1>2, <1>3 DEF Wakeups

\* What a publish does to a call.
LEMMA SwapCalls ==
  ASSUME TypeOK, NEW keys, swap(keys), NEW c \in Connections
  PROVE  /\ call'[c] \in Calls /\ call'[c].pc = call[c].pc /\ call'[c].query = call[c].query
         /\ call'[c].consistency_miss = call[c].consistency_miss
         /\ call'[c].misses = call[c].misses /\ call'[c].receiver = call[c].receiver
         /\ call'[c].unseen = call[c].unseen
         /\ call'[c].swapped = (call[c].swapped \/ call[c].pc = "subscribe")
<1> DEFINE u == call[c]
           b == u.swapped \/ u.pc = "subscribe"
<1>1. u \in Calls /\ b \in BOOLEAN
  BY ConnectionTypes
<1>2. call'[c] = [u EXCEPT !.swapped = b]
  BY DEF swap
<1> HIDE DEF u, b
<1>3. LET v == [u EXCEPT !.swapped = b] IN
      /\ v \in Calls /\ v.pc = u.pc /\ v.query = u.query
      /\ v.consistency_miss = u.consistency_miss /\ v.misses = u.misses
      /\ v.receiver = u.receiver /\ v.unseen = u.unseen /\ v.swapped = b
  BY <1>1 DEF Calls
<1> QED
  BY <1>2, <1>3 DEF u, b

\* Types after a step that publishes the map.
LEMMA SwapTyped ==
  ASSUME TypeOK, NEW keys \in SUBSET Keys, swap(keys), triggered' \subseteq Keys,
         notifying' \in BOOLEAN, epoch' \in 0 .. workload.evictions,
         purges' \in Seq(SUBSET Keys),
         UNCHANGED <<workload, status, stamp, asked, failed, handle, reads, task, cache,
                     pending>>
  PROVE  TypeOK'
<1>1. \A c \in Connections : call'[c] \in Calls
  BY SwapCalls
<1>2. call' = [c \in Connections |-> call'[c]] /\ filled' \in SUBSET Keys
  BY DEF swap
<1>3. call' \in [Connections -> Calls]
  BY <1>1, <1>2
<1> QED
  BY <1>2, <1>3 DEF TypeOK, Calls

\* A step that publishes: the domain is about to notify, or takes keys away.
LEMMA PublishWakes ==
  ASSUME Wakeups, NEW keys \in SUBSET Keys, swap(keys), triggered' \subseteq Keys,
         notifying' \in BOOLEAN, epoch' \in 0 .. workload.evictions,
         purges' \in Seq(SUBSET Keys), notifying' \/ keys \subseteq filled,
         notifying => notifying',
         UNCHANGED <<workload, status, stamp, asked, failed, handle, reads, task, cache,
                     pending>>
  PROVE  Wakeups'
<1>1. TypeOK /\ TypeOK'
  BY SwapTyped DEF Wakeups
<1>2. filled' = keys
  BY DEF swap
<1>3. ASSUME NEW c \in Connections
      PROVE  CallHears(call[c])' /\ ReadsHear(pending[c], task[c])'
  <2>1. CallHears(call[c]) /\ ReadsHear(pending[c], task[c])
    BY DEF Wakeups
  <2>2. \A q : Stamped(q)' <=> Stamped(q)
    BY DEF Stamped
  <2>3. CallHears(call[c])'
    <3> DEFINE u == call[c]
               v == call'[c]
    <3>1. /\ v.pc = u.pc /\ v.query = u.query /\ v.consistency_miss = u.consistency_miss
          /\ v.receiver = u.receiver /\ v.unseen = u.unseen
          /\ v.swapped = (u.swapped \/ u.pc = "subscribe")
      BY <1>1, SwapCalls
    <3>2. v.pc = "subscribe" => v.swapped
      BY <3>1
    <3>3. v.pc # "idle" /\ ~v.consistency_miss => Stamped(v.query)
      BY <2>1, <3>1 DEF CallHears
    <3>4. v.receiver => ~v.consistency_miss
      BY <2>1, <3>1 DEF CallHears
    <3>5. v.pc \in {"trigger", "enqueue"} /\ Waits(v) /\ v.query.keys \subseteq keys =>
            v.unseen \/ notifying' \/ status' = "removed"
      BY <2>1, <3>1 DEF CallHears, Waits
    <3> QED
      BY <1>2, <3>2, <3>3, <3>4, <3>5 DEF CallHears, Waits, Stamped
  <2>4. ReadsHear(pending[c], task[c])'
    <3>1. ASSUME NEW i \in 1 .. Len(pending[c])
          PROVE  /\ pending[c][i].receiver => Stamped(pending[c][i])'
                 /\ Waits(pending[c][i]) /\ pending[c][i].keys \subseteq keys =>
                      Ahead(pending[c], task[c], i)'
      BY <2>1, <2>2 DEF ReadsHear, Ahead
    <3> QED
      BY <1>2, <2>1, <3>1 DEF ReadsHear, Waits
  <2> QED
    BY <2>3, <2>4
<1> QED
  BY <1>1, <1>3 DEF Wakeups

LEMMA FillWakes ==
  ASSUME Wakeups, NEW K \in SUBSET triggered, Fill(K) PROVE Wakeups'
<1>1. TypeOK
  BY DEF Wakeups
<1>2. /\ swap(filled \cup K) /\ triggered' = triggered \ K /\ notifying' = TRUE
      /\ purges' = (IF workload.frontier THEN Append(purges, K) ELSE purges)
      /\ UNCHANGED <<workload, status, stamp, asked, epoch, failed, handle, reads, task, cache,
                     pending>>
  BY DEF Fill, taskVars
<1>3. filled \cup K \in SUBSET Keys /\ triggered' \subseteq Keys /\ K \in SUBSET Keys
  BY <1>1, <1>2 DEF TypeOK
<1>4. purges' \in Seq(SUBSET Keys) /\ epoch' \in 0 .. workload.evictions
  BY <1>1, <1>2, <1>3, SMTT(30) DEF TypeOK
<1> QED
  BY <1>2, <1>3, <1>4, PublishWakes

LEMMA EvictWakes ==
  ASSUME Wakeups, NEW K \in SUBSET Keys, Evict(K) PROVE Wakeups'
<1>1. TypeOK /\ workload.evictions \in Nat
  BY BlockingReadAssumption DEF Wakeups, TypeOK
<1>2. /\ swap(filled \ K) /\ epoch' = epoch + 1 /\ epoch < workload.evictions
      /\ notifying' = TRUE
      /\ UNCHANGED <<workload, status, stamp, asked, triggered, purges, failed, handle, reads,
                     task, cache, pending>>
  BY DEF Evict, taskVars
<1>3. filled \ K \in SUBSET Keys /\ triggered' \subseteq Keys /\ purges' \in Seq(SUBSET Keys)
  BY <1>1, <1>2 DEF TypeOK
<1>4. epoch' \in 0 .. workload.evictions
  BY <1>1, <1>2, SMTT(30) DEF TypeOK
<1> QED
  BY <1>2, <1>3, <1>4, PublishWakes

LEMMA TimedPurgeWakes ==
  ASSUME Wakeups, TimedPurge PROVE Wakeups'
<1>1. TypeOK
  BY DEF Wakeups
<1>2. /\ purges # <<>> /\ purges' = Tail(purges) /\ swap(filled \ Head(purges))
      /\ UNCHANGED <<workload, status, stamp, asked, triggered, notifying, epoch, failed,
                     handle, reads, task, cache, pending>>
  BY DEF TimedPurge, taskVars
<1>3. filled \ Head(purges) \in SUBSET Keys /\ triggered' \subseteq Keys
  BY <1>1, <1>2 DEF TypeOK
<1>4. /\ purges' \in Seq(SUBSET Keys) /\ epoch' \in 0 .. workload.evictions
      /\ notifying' \in BOOLEAN
  <2>1. /\ purges \in Seq(SUBSET Keys) /\ epoch \in 0 .. workload.evictions
        /\ notifying \in BOOLEAN
    BY <1>1 DEF TypeOK
  <2>2. Tail(purges) \in Seq(SUBSET Keys)
    BY <1>2, <2>1, SMTT(30)
  <2> QED
    BY <1>2, <2>1, <2>2
<1> QED
  BY <1>2, <1>3, <1>4, PublishWakes

\* Every receiver gets the message.
LEMMA NotifyWakes ==
  ASSUME Wakeups, notify_readers PROVE Wakeups'
<1>1. /\ TypeOK /\ notifying' = FALSE
      /\ handle' = [c \in Connections |-> [handle[c] EXCEPT !.unseen = handle[c].cloned]]
      /\ cache' = [c \in Connections |-> [cache[c] EXCEPT !.unseen = cache[c].cloned]]
      /\ call' = [c \in Connections |-> [call[c] EXCEPT !.unseen = Subscribed(c)]]
      /\ pending' = [c \in Connections |->
                       [i \in DOMAIN pending[c] |->
                          [pending[c][i] EXCEPT !.unseen = pending[c][i].receiver]]]
      /\ UNCHANGED <<workload, status, filled, stamp, asked, triggered, epoch, purges, failed,
                     reads, task>>
  BY DEF notify_readers, Wakeups
<1>2. ASSUME NEW h \in Handles PROVE [h EXCEPT !.unseen = h.cloned] \in Handles
  BY DEF Handles
<1>3. handle' \in [Connections -> Handles] /\ cache' \in [Connections -> Handles]
  <2>1. \A c \in Connections : handle[c] \in Handles /\ cache[c] \in Handles
    BY <1>1, ConnectionTypes
  <2> QED
    BY <1>1, <1>2, <2>1
<1>4. ASSUME NEW c \in Connections
      PROVE  /\ call'[c] \in Calls /\ CallHears(call[c])'
             /\ pending'[c] \in Seq(Reads) /\ ReadsHear(pending[c], task[c])'
  <2> DEFINE u == call[c]
             v == call'[c]
             s == pending[c]
             r == pending'[c]
             t == task[c]
  <2>1. /\ u \in Calls /\ CallHears(u) /\ s \in Seq(Reads) /\ ReadsHear(s, t)
    BY <1>1, ConnectionTypes DEF Wakeups
  <2>2. Subscribed(c) \in BOOLEAN /\ (Subscribed(c) <=> u.pc \in {"trigger", "enqueue"})
    BY SMTT(30) DEF Subscribed
  <2>3. /\ v \in Calls /\ v.pc = u.pc /\ v.query = u.query /\ v.misses = u.misses
        /\ v.consistency_miss = u.consistency_miss /\ v.receiver = u.receiver
        /\ v.unseen = Subscribed(c) /\ v.swapped = u.swapped
    <3>1. v = [u EXCEPT !.unseen = Subscribed(c)]
      BY <1>1
    <3> HIDE DEF u, v
    <3> QED
      BY <2>1, <2>2, <3>1 DEF Calls
  <2>4. CallHears(v)
    <3> HIDE DEF u, v
    <3> QED
      BY <2>1, <2>2, <2>3 DEF CallHears, Waits
  <2>5. v.pc \in {"trigger", "enqueue"} => v.unseen
    BY <2>2, <2>3
  <2>6. CallHears(call[c])'
    BY <1>1, <2>4, <2>5 DEF CallHears, Waits, Stamped
  <2>7. /\ r \in Seq(Reads) /\ Len(r) = Len(s) /\ Len(s) \in Nat
        /\ \A i \in 1 .. Len(s) : r[i] = [s[i] EXCEPT !.unseen = s[i].receiver]
    <3>1. DOMAIN s = 1 .. Len(s) /\ Len(s) \in Nat /\ \A i \in 1 .. Len(s) : s[i] \in Reads
      BY <2>1, SMTT(30)
    <3>2. r = [i \in DOMAIN s |-> [s[i] EXCEPT !.unseen = s[i].receiver]]
      BY <1>1
    <3> HIDE DEF r, s
    <3>3. ASSUME NEW x \in Reads PROVE [x EXCEPT !.unseen = x.receiver] \in Reads
      BY DEF Reads
    <3>4. r \in [1 .. Len(s) -> Reads]
      BY <3>1, <3>2, <3>3
    <3> QED
      BY <3>1, <3>2, <3>4, SMTT(30)
  <2>8. ASSUME NEW i \in 1 .. Len(s)
        PROVE  /\ r[i].receiver = s[i].receiver /\ r[i].unseen = s[i].receiver
               /\ r[i].stamped = s[i].stamped /\ r[i].keys = s[i].keys
               /\ r[i].swapped = s[i].swapped
    <3>1. s[i] \in Reads /\ r[i] = [s[i] EXCEPT !.unseen = s[i].receiver]
      BY <2>1, <2>7, SMTT(30)
    <3> DEFINE x == s[i]
    <3> HIDE DEF x, r, s
    <3>2. x \in Reads => LET y == [x EXCEPT !.unseen = x.receiver] IN
            /\ y.receiver = x.receiver /\ y.unseen = x.receiver /\ y.stamped = x.stamped
            /\ y.keys = x.keys /\ y.swapped = x.swapped
      BY DEF Reads
    <3> QED
      BY <3>1, <3>2 DEF x
  <2>9. ReadsHear(pending[c], task[c])'
    <3>1. t.pc # "idle" => r # <<>> /\ Len(s) > 0
      <4>1. t.pc # "idle" => Len(s) > 0
        BY <2>1, SMTT(30) DEF ReadsHear
      <4> QED
        BY <2>7, <4>1, SMTT(30)
    <3>2. t.pc = "lookup" /\ t.consistency_miss /\ r[1].receiver => status = "removed"
      <4>1. Len(s) > 0 => 1 \in 1 .. Len(s)
        BY <2>7, SMTT(30)
      <4> QED
        BY <2>1, <2>8, <3>1, <4>1 DEF ReadsHear
    <3>3. ASSUME NEW i \in 1 .. Len(r)
          PROVE  (r[i].receiver => Stamped(r[i])) /\ (Waits(r[i]) => r[i].unseen)
      <4>1. i \in 1 .. Len(s)
        BY <2>7, <3>3
      <4> QED
        BY <2>1, <2>8, <4>1 DEF ReadsHear, Waits, Stamped
    <3> QED
      BY <1>1, <3>1, <3>2, <3>3 DEF ReadsHear, Ahead, Waits, Stamped
  <2> QED
    BY <2>3, <2>6, <2>7, <2>9
<1>5. call' \in [Connections -> Calls] /\ pending' \in [Connections -> Seq(Reads)]
  BY <1>1, <1>4
<1>6. TypeOK'
  BY <1>1, <1>3, <1>5 DEF TypeOK, Calls
<1> QED
  BY <1>4, <1>6 DEF Wakeups

-----------------------------------------------------------------------------
(* The theorems.                                                            *)

LEMMA WakeupsInit == Init => Wakeups
<1> SUFFICES ASSUME Init PROVE Wakeups
  OBVIOUS
<1>1. /\ NoCall \in Calls /\ NoTask \in Tasks /\ NoHandle \in Handles
      /\ <<>> \in Seq(Reads) /\ <<>> \in Seq(SUBSET Keys)
  BY NoCallFields, NoTaskFields, SMTT(30) DEF NoHandle, Handles
<1>2. workload \in Workloads /\ workload.evictions \in Nat /\ MaxReads \in Nat
  BY BlockingReadAssumption DEF Init
<1>3. TypeOK
  <2>1. /\ call \in [Connections -> Calls] /\ task \in [Connections -> Tasks]
        /\ pending \in [Connections -> Seq(Reads)] /\ handle \in [Connections -> Handles]
        /\ cache \in [Connections -> Handles] /\ reads \in [Connections -> 0 .. MaxReads]
    BY <1>1, <1>2, SMTT(30) DEF Init
  <2>2. /\ status \in {"new", "ready", "removed"} /\ filled \subseteq Keys
        /\ stamp \in BOOLEAN /\ triggered \subseteq Keys /\ notifying \in BOOLEAN
        /\ epoch \in 0 .. workload.evictions /\ failed \in BOOLEAN
        /\ asked \in Seq(SUBSET Keys) /\ purges \in Seq(SUBSET Keys)
    <3>1. /\ status = "new" /\ filled = {} /\ stamp = FALSE /\ triggered = {}
          /\ notifying = FALSE /\ epoch = 0 /\ failed = FALSE /\ asked = <<>>
          /\ purges = <<>>
      BY DEF Init
    <3>2. epoch \in 0 .. workload.evictions
      BY <1>2, <3>1, SMTT(30)
    <3> QED
      BY <1>1, <3>1, <3>2
  <2> QED
    BY <1>2, <2>1, <2>2 DEF TypeOK, Calls, Tasks
<1>4. ASSUME NEW c \in Connections PROVE CallHears(call[c]) /\ ReadsHear(pending[c], task[c])
  <2>1. call[c] = NoCall /\ pending[c] = <<>> /\ task[c] = NoTask
    BY DEF Init
  <2>2. CallHears(NoCall)
    BY NoCallFields DEF CallHears
  <2>3. ReadsHear(<<>>, NoTask)
    BY NoTaskFields, SMTT(30) DEF ReadsHear
  <2> QED
    BY <2>1, <2>2, <2>3
<1> QED
  BY <1>3, <1>4 DEF Wakeups

LEMMA WakeupsInductive ==
  ASSUME Wakeups, [Next]_vars PROVE Wakeups'
<1>1. CASE Environment
  <2>1. ASSUME NEW c \in Connections, NEW q \in workload.queries, Call(c, q) PROVE Wakeups'
    BY <2>1, CallWakes
  <2>2. ASSUME NEW K \in SUBSET Keys, Evict(K) PROVE Wakeups'
    BY <2>2, EvictWakes
  <2> QED
    BY <1>1, <2>1, <2>2, QuietWakes, TimedPurgeWakes, RemoveNodesWakes DEF Environment
<1>2. ASSUME NEW c \in Connections, HandlerStep(c) \/ TaskStep(c) \/ Expire(c) PROVE Wakeups'
  <2>1. CASE HandlerStep(c)
    BY <2>1, LookupWakes, SubscribeWakes, TriggerWakes, EnqueueWakes DEF HandlerStep
  <2>2. CASE TaskStep(c)
    BY <2>2, WakeWakes, CheckWakes, CheckLookupWakes, RecheckWakes DEF TaskStep
  <2>3. CASE Expire(c)
    BY <2>3, ExpireWakes
  <2> QED
    BY <1>2, <2>1, <2>2, <2>3
<1>3. CASE RequestReaderReplay \/ notify_readers
  BY <1>3, QuietWakes, NotifyWakes
<1>4. CASE Replay
  <2>1. PICK K \in SUBSET triggered : Fill(K)
    BY <1>4 DEF Replay
  <2> QED
    BY <2>1, FillWakes
<1>5. CASE UNCHANGED vars
  <2>1. UNCHANGED <<workload, status, filled, stamp, asked, triggered, notifying, epoch, purges,
                    failed, call, handle, reads, task, cache, pending>>
    BY <1>5 DEF vars, domainVars, handlerVars, taskVars
  <2>2. TypeOK'
    BY <2>1 DEF TypeOK, Wakeups
  <2>3. ASSUME NEW c \in Connections
        PROVE  CallHears(call[c])' /\ ReadsHear(pending[c], task[c])'
    <3>1. CallHears(call[c]) /\ ReadsHear(pending[c], task[c])
      BY DEF Wakeups
    <3> QED
      BY <2>1, <3>1 DEF CallHears, ReadsHear, Ahead, Waits, Stamped
  <2> QED
    BY <2>2, <2>3 DEF Wakeups
<1> QED
  BY <1>1, <1>2, <1>3, <1>4, <1>5 DEF Next

\* No wake-up is lost: whatever the order of the lookups, the subscriptions, the
\* fills, the evictions and the notifications, a blocked read whose keys are all
\* filled is checked again, unless the map was published between its lookup and
\* its subscription.
THEOREM NoWakeupLost == Spec => []NoLostWakeup
<1>1. Wakeups => NoLostWakeup
  <2> SUFFICES ASSUME Wakeups, NEW c \in Connections, NEW i \in DOMAIN pending[c],
                      Waits(pending[c][i]), pending[c][i].keys \subseteq filled
               PROVE  CheckAhead(c, i)
    BY DEF NoLostWakeup, Waits
  <2>1. pending[c] \in Seq(Reads) /\ ReadsHear(pending[c], task[c])
    BY ConnectionTypes DEF Wakeups
  <2>2. i \in 1 .. Len(pending[c])
    BY <2>1, SMTT(30)
  <2>3. Ahead(pending[c], task[c], i)
    BY <2>1, <2>2 DEF ReadsHear
  <2> QED
    BY <2>3 DEF Ahead, CheckAhead
<1> QED
  BY <1>1, WakeupsInit, WakeupsInductive, PTL DEF Spec

\* Every variable keeps its type, for every value of the constants.
THEOREM BlockingReadTyped == Spec => []TypeOK
<1>1. Wakeups => TypeOK
  BY DEF Wakeups
<1> QED
  BY <1>1, WakeupsInit, WakeupsInductive, PTL DEF Spec

\* No replay is requested of a key that is filled, although two reads may ask for
\* one key and a fill may come in between: mark_filled does not meet a filled key.
THEOREM RequestsAreForHoles == Spec => []RequestedKeysAreHoles
<1>1. Init => RequestedKeysAreHoles
  BY DEF Init, RequestedKeysAreHoles
<1>2. RequestedKeysAreHoles /\ [Next]_vars => RequestedKeysAreHoles'
  <2> SUFFICES ASSUME RequestedKeysAreHoles, [Next]_vars PROVE RequestedKeysAreHoles'
    OBVIOUS
  <2>1. CASE UNCHANGED <<filled, triggered>>
    BY <2>1 DEF RequestedKeysAreHoles
  <2>2. CASE RequestReaderReplay
    BY <2>2 DEF RequestReaderReplay, RequestedKeysAreHoles
  <2>3. ASSUME NEW K, Fill(K) PROVE RequestedKeysAreHoles'
    BY <2>3 DEF Fill, swap, RequestedKeysAreHoles
  <2>4. ASSUME NEW K, Evict(K) PROVE RequestedKeysAreHoles'
    BY <2>4 DEF Evict, swap, RequestedKeysAreHoles
  <2>5. CASE TimedPurge
    BY <2>5 DEF TimedPurge, swap, RequestedKeysAreHoles
  <2>6. ASSUME NEW c, HandlerStep(c) \/ TaskStep(c) \/ Expire(c)
        PROVE  UNCHANGED <<filled, triggered>>
    BY <2>6 DEF HandlerStep, TaskStep, Expire, Lookup, Subscribe, Trigger, Enqueue,
          Wake, Check, CheckLookup, Recheck, domainVars
  <2>7. ASSUME NEW c, NEW q, Call(c, q) PROVE UNCHANGED <<filled, triggered>>
    BY <2>7 DEF Call, domainVars
  <2>8. ASSUME Ready \/ Timestamp \/ RemoveNodes \/ notify_readers \/ UNCHANGED vars
        PROVE  UNCHANGED <<filled, triggered>>
    BY <2>8 DEF Ready, Timestamp, RemoveNodes, notify_readers, vars, domainVars
  <2> QED
    BY <2>1, <2>2, <2>3, <2>4, <2>5, <2>6, <2>7, <2>8 DEF Next, Environment, Replay
<1> QED
  BY <1>1, <1>2, PTL DEF Spec

-----------------------------------------------------------------------------
(* The keys that blocked reads wait for are on their way.                   *)

OnTheWay == filled \cup triggered \cup UNION Range(asked)

\* A call that missed asks for what it missed, and has asked once it is enqueued.
CallAsks(u) ==
  /\ u.pc \in {"subscribe", "trigger"} => u.query.keys \subseteq filled \cup u.misses
  /\ u.pc = "enqueue" => u.query.keys \subseteq OnTheWay

ReadsAsked(s) == \A i \in 1 .. Len(s) : s[i].keys \subseteq OnTheWay

Requests ==
  /\ Wakeups
  /\ ~workload.frontier => purges = <<>>
  /\ Undisturbed => \A c \in Connections : CallAsks(call[c]) /\ ReadsAsked(pending[c])

LEMMA UnionWith == ASSUME NEW A, NEW k PROVE UNION (A \cup {k}) = (UNION A) \cup k
OBVIOUS

\* What the domain has been asked for after one more request.
LEMMA RequestRange ==
  ASSUME TypeOK, NEW keys \in SUBSET Keys
  PROVE  UNION Range(Request(keys)) = (UNION Range(asked)) \cup keys
<1>1. CASE keys = {}
  BY <1>1 DEF Request
<1>2. CASE keys # {}
  <2>1. asked \in Seq(SUBSET Keys) /\ Request(keys) = Append(asked, keys)
    BY <1>2 DEF TypeOK, Request
  <2> DEFINE r == Append(asked, keys)
  <2>2. /\ r \in Seq(SUBSET Keys) /\ Len(r) = Len(asked) + 1 /\ Len(asked) \in Nat
        /\ \A i \in 1 .. Len(asked) : r[i] = asked[i]
        /\ r[Len(asked) + 1] = keys
    BY <2>1, AppendIs, SMTT(30)
  <2>3. DOMAIN asked = 1 .. Len(asked) /\ DOMAIN r = 1 .. Len(asked) + 1
    BY <2>1, <2>2, SMTT(30)
  <2> HIDE DEF r
  <2>4. Range(r) = Range(asked) \cup {keys}
    <3>1. ASSUME NEW x \in Range(r) PROVE x \in Range(asked) \cup {keys}
      <4>1. PICK i \in 1 .. Len(asked) + 1 : x = r[i]
        BY <2>3, <3>1 DEF Range
      <4>2. i = Len(asked) + 1 \/ i \in 1 .. Len(asked)
        BY <2>2, SMTT(30)
      <4> QED
        BY <2>2, <2>3, <4>1, <4>2 DEF Range
    <3>2. ASSUME NEW x \in Range(asked) PROVE x \in Range(r)
      <4>1. PICK i \in 1 .. Len(asked) : x = asked[i]
        BY <2>3, <3>2 DEF Range
      <4>2. i \in 1 .. Len(asked) + 1 /\ r[i] = x
        BY <2>2, <4>1, SMTT(30)
      <4> QED
        BY <2>3, <4>2 DEF Range
    <3>3. keys \in Range(r)
      <4>1. Len(asked) + 1 \in DOMAIN r
        BY <2>2, <2>3, SMTT(30)
      <4> QED
        BY <2>2, <4>1 DEF Range
    <3> QED
      BY <3>1, <3>2, <3>3
  <2>5. UNION Range(r) = (UNION Range(asked)) \cup keys
    BY <2>4, UnionWith
  <2> QED
    BY <2>1, <2>5 DEF r
<1> QED
  BY <1>1, <1>2

\* What it has been asked for when it takes the first request.
LEMMA TakenRange ==
  ASSUME NEW S, NEW s \in Seq(S), s # <<>>
  PROVE  UNION Range(s) = Head(s) \cup UNION Range(Tail(s))
<1> DEFINE r == Tail(s)
<1>1. /\ r \in Seq(S) /\ Len(r) = Len(s) - 1 /\ Len(s) \in Nat \ {0}
      /\ \A i \in 1 .. Len(s) - 1 : r[i] = s[i + 1]
      /\ Head(s) = s[1]
  BY TailIs
<1>2. DOMAIN s = 1 .. Len(s) /\ DOMAIN r = 1 .. Len(s) - 1
  BY <1>1, SMTT(30)
<1> HIDE DEF r
<1>3. ASSUME NEW x \in Range(s) PROVE x \in Range(r) \cup {s[1]}
  <2>1. PICK i \in 1 .. Len(s) : x = s[i]
    BY <1>2, <1>3 DEF Range
  <2>2. CASE i = 1
    BY <2>1, <2>2
  <2>3. CASE i # 1
    <3>1. i - 1 \in 1 .. Len(s) - 1 /\ (i - 1) + 1 = i
      BY <1>1, <2>3, SMTT(30)
    <3>2. r[i - 1] = x
      BY <1>1, <2>1, <3>1
    <3> QED
      BY <1>2, <3>1, <3>2 DEF Range
  <2> QED
    BY <2>2, <2>3
<1>4. ASSUME NEW x \in Range(r) PROVE x \in Range(s)
  <2>1. PICK i \in 1 .. Len(s) - 1 : x = r[i]
    BY <1>2, <1>4 DEF Range
  <2>2. i + 1 \in 1 .. Len(s) /\ s[i + 1] = x
    BY <1>1, <2>1, SMTT(30)
  <2> QED
    BY <1>2, <2>2 DEF Range
<1>5. s[1] \in Range(s)
  <2>1. 1 \in DOMAIN s
    BY <1>1, <1>2, SMTT(30)
  <2> QED
    BY <2>1 DEF Range
<1>6. Range(s) = Range(r) \cup {s[1]}
  BY <1>3, <1>4, <1>5
<1> QED
  BY <1>1, <1>6, UnionWith, SMTT(30) DEF r

\* As long as no key is taken away, what is on its way stays so or arrives.
LEMMA OnTheWayGrows ==
  ASSUME Requests, [Next]_vars, Undisturbed'
  PROVE  Undisturbed /\ filled \subseteq filled' /\ OnTheWay \subseteq OnTheWay'
<1>1. TypeOK /\ epoch \in Nat
  <2>1. TypeOK
    BY DEF Requests, Wakeups
  <2>2. workload \in Workloads /\ epoch \in 0 .. workload.evictions
    BY <2>1 DEF TypeOK
  <2>3. workload.evictions \in Nat
    BY <2>2, BlockingReadAssumption
  <2> QED
    BY <2>1, <2>2, <2>3, SMTT(30)
<1>2. CASE UNCHANGED <<workload, epoch, filled, asked, triggered>>
  BY <1>2 DEF Undisturbed, OnTheWay
<1>3. ASSUME NEW keys \in SUBSET Keys, asked' = Request(keys),
             UNCHANGED <<workload, epoch, filled, triggered>>
      PROVE  Undisturbed /\ filled \subseteq filled' /\ OnTheWay \subseteq OnTheWay'
  <2>1. UNION Range(asked') = (UNION Range(asked)) \cup keys
    BY <1>1, <1>3, RequestRange
  <2> QED
    BY <1>3, <2>1 DEF Undisturbed, OnTheWay
<1>4. CASE RequestReaderReplay
  <2>1. /\ asked # <<>> /\ asked' = Tail(asked)
        /\ triggered' = triggered \cup (Head(asked) \ filled)
        /\ UNCHANGED <<workload, epoch, filled>>
    BY <1>4 DEF RequestReaderReplay
  <2>2. UNION Range(asked) = Head(asked) \cup UNION Range(asked')
    BY <1>1, <2>1, TakenRange DEF TypeOK
  <2> QED
    BY <2>1, <2>2 DEF Undisturbed, OnTheWay
<1>5. ASSUME NEW K, Fill(K)
      PROVE  Undisturbed /\ filled \subseteq filled' /\ OnTheWay \subseteq OnTheWay'
  <2>1. /\ filled' = filled \cup K /\ triggered' = triggered \ K
        /\ UNCHANGED <<workload, epoch, asked>>
    BY <1>5 DEF Fill, swap
  <2> QED
    BY <2>1 DEF Undisturbed, OnTheWay
<1>6. ASSUME NEW K PROVE ~Evict(K)
  BY <1>1, SMTT(30) DEF Evict, Undisturbed
<1>7. ~TimedPurge
  BY DEF TimedPurge, Undisturbed, Requests
<1>8. ASSUME NEW c \in Connections, Trigger(c) \/ Recheck(c)
      PROVE  Undisturbed /\ filled \subseteq filled' /\ OnTheWay \subseteq OnTheWay'
  <2>1. call[c].misses \in SUBSET Keys /\ task[c].misses \in SUBSET Keys
    <3>1. call[c] \in Calls /\ task[c] \in Tasks
      BY <1>1, ConnectionTypes
    <3> QED
      BY <3>1 DEF Calls, Tasks
  <2>2. /\ asked' \in {asked, Request(call[c].misses), Request(task[c].misses)}
        /\ UNCHANGED <<workload, epoch, filled, triggered>>
    BY <1>8 DEF Trigger, Recheck
  <2> QED
    BY <1>2, <1>3, <2>1, <2>2
<1>9. ASSUME NEW c \in Connections,
             Lookup(c) \/ Subscribe(c) \/ Enqueue(c) \/ Wake(c) \/ Check(c) \/ CheckLookup(c)
               \/ Expire(c) \/ \E q \in workload.queries : Call(c, q)
      PROVE  UNCHANGED <<workload, epoch, filled, asked, triggered>>
  BY <1>9 DEF Lookup, Subscribe, Enqueue, Wake, Check, CheckLookup, Expire, Call,
        domainVars
<1>10. ASSUME Ready \/ Timestamp \/ RemoveNodes \/ notify_readers \/ UNCHANGED vars
       PROVE  UNCHANGED <<workload, epoch, filled, asked, triggered>>
  BY <1>10 DEF Ready, Timestamp, RemoveNodes, notify_readers, vars, domainVars
<1> QED
  BY <1>2, <1>4, <1>5, <1>6, <1>7, <1>8, <1>9, <1>10
     DEF Next, Environment, HandlerStep, TaskStep, Replay

\* What a step may do to a call.
CallSteps(u, v) ==
  \/ v.pc \in {"idle", "lookup"}
  \/ v.pc = u.pc /\ v.query = u.query /\ v.misses = u.misses
  \/ v.pc = "subscribe" /\ v.misses = v.query.keys \ filled
  \/ u.pc = "subscribe" /\ v.pc = "trigger" /\ v.query = u.query /\ v.misses = u.misses
  \/ /\ u.pc = "trigger" /\ v.pc = "enqueue" /\ v.query = u.query
     /\ asked' = Request(u.misses)

LEMMA CallsStep ==
  ASSUME Wakeups, [Next]_vars, NEW c \in Connections
  PROVE  CallSteps(call[c], call'[c])
<1> DEFINE u == call[c]
           v == call'[c]
<1>1. TypeOK /\ u \in Calls /\ call \in [Connections -> Calls]
  BY ConnectionTypes DEF Wakeups, TypeOK, Calls
<1>2. CASE v = u
  BY <1>2 DEF CallSteps
<1>3. ASSUME NEW d \in Connections, NEW q, Call(d, q) PROVE CallSteps(u, v)
  <2>1. call' = [call EXCEPT ![d] = [NoCall EXCEPT !.pc = "lookup", !.query = q,
                                       !.consistency_miss = StaleFor(q)]]
    BY <1>3 DEF Call
  <2>2. CASE d = c
    <3>1. v = [NoCall EXCEPT !.pc = "lookup", !.query = q, !.consistency_miss = StaleFor(q)]
      BY <1>1, <2>1, <2>2
    <3>2. v.pc = "lookup"
      <4> HIDE DEF v
      <4> QED
        BY <3>1 DEF NoCall
    <3> QED
      BY <3>2 DEF CallSteps
  <2>3. CASE d # c
    BY <1>1, <1>2, <2>1, <2>3
  <2> QED
    BY <2>2, <2>3
<1>4. ASSUME NEW d \in Connections, HandlerStep(d) PROVE CallSteps(u, v)
  <2>1. CASE d # c
    <3>1. v = u
      BY <1>1, <1>4, <2>1 DEF HandlerStep, Lookup, Subscribe, Trigger, Enqueue
    <3> QED
      BY <1>2, <3>1
  <2>2. CASE d = c /\ Lookup(c)
    <3> DEFINE misses == u.query.keys \ filled
    <3>1. v = NoCall \/ v = [u EXCEPT !.pc = "subscribe", !.misses = misses]
      BY <1>1, <2>2 DEF Lookup
    <3> HIDE DEF v, u, misses
    <3>2. v.pc = "idle" \/ (v.pc = "subscribe" /\ v.misses = misses /\ v.query = u.query)
      BY <1>1, <3>1, NoCallFields DEF Calls
    <3> QED
      BY <3>2 DEF CallSteps, misses
  <2>3. CASE d = c /\ Subscribe(c)
    <3> DEFINE hears == u.misses # {} /\ ~u.consistency_miss
    <3>1. u.pc = "subscribe" /\ v = [u EXCEPT !.pc = "trigger", !.receiver = hears]
      BY <1>1, <2>3 DEF Subscribe
    <3> HIDE DEF v, u, hears
    <3>2. v.pc = "trigger" /\ v.misses = u.misses /\ v.query = u.query
      BY <1>1, <3>1 DEF Calls
    <3> QED
      BY <3>1, <3>2 DEF CallSteps
  <2>4. CASE d = c /\ Trigger(c)
    <3>1. u.pc = "trigger" /\ asked' = Request(u.misses)
          /\ (v = [u EXCEPT !.pc = "enqueue"] \/ v = NoCall)
      BY <1>1, <2>4 DEF Trigger
    <3> HIDE DEF v, u
    <3>2. v.pc = "idle" \/ (v.pc = "enqueue" /\ v.query = u.query)
      BY <1>1, <3>1, NoCallFields DEF Calls
    <3> QED
      BY <3>1, <3>2 DEF CallSteps
  <2>5. CASE d = c /\ Enqueue(c)
    <3>1. v = NoCall
      BY <1>1, <2>5 DEF Enqueue
    <3> QED
      BY <3>1, NoCallFields DEF CallSteps
  <2> QED
    BY <1>4, <2>1, <2>2, <2>3, <2>4, <2>5 DEF HandlerStep
<1>5. ASSUME NEW keys, swap(keys) PROVE CallSteps(u, v)
  BY <1>1, <1>5, SwapCalls DEF CallSteps
<1>6. CASE notify_readers
  <2> DEFINE b == Subscribed(c)
  <2>1. v = [u EXCEPT !.unseen = b]
    BY <1>6 DEF notify_readers
  <2> HIDE DEF u, v, b
  <2>2. v.pc = u.pc /\ v.query = u.query /\ v.misses = u.misses
    BY <1>1, <2>1 DEF Calls
  <2> QED
    BY <2>2 DEF CallSteps, u, v
<1>7. ASSUME NEW d, TaskStep(d) \/ Expire(d) PROVE v = u
  BY <1>7 DEF TaskStep, Wake, Check, CheckLookup, Recheck, Expire, handlerVars
<1>8. ASSUME Ready \/ Timestamp \/ RemoveNodes \/ RequestReaderReplay \/ UNCHANGED vars
      PROVE  v = u
  BY <1>8 DEF Ready, Timestamp, RemoveNodes, RequestReaderReplay, vars, handlerVars
<1>9. ASSUME TimedPurge \/ Replay \/ \E K \in SUBSET Keys : Evict(K) PROVE CallSteps(u, v)
  BY <1>5, <1>9 DEF TimedPurge, Replay, Evict, Fill
<1> QED
  BY <1>2, <1>3, <1>4, <1>6, <1>7, <1>8, <1>9 DEF Next, Environment

\* The keys of the blocked reads r are those of reads among s.
KeysFrom(r, s) == \A i \in 1 .. Len(r) : \E j \in 1 .. Len(s) : r[i].keys = s[j].keys

LEMMA HeadKeysFrom ==
  ASSUME NEW s \in Seq(Reads), s # <<>>, NEW x \in Reads, x.keys = s[1].keys
  PROVE  KeysFrom(<<x>> \o Tail(s), s) /\ KeysFrom(Tail(s), s)
<1> DEFINE r == <<x>> \o Tail(s)
           t == Tail(s)
<1>1. /\ Len(r) = Len(s) /\ r[1] = x /\ Len(s) \in Nat \ {0}
      /\ \A i \in 2 .. Len(s) : r[i] = s[i]
  BY HeadReplaced, SMTT(30)
<1>2. Len(t) = Len(s) - 1 /\ \A i \in 1 .. Len(s) - 1 : t[i] = s[i + 1]
  BY TailIs
<1> HIDE DEF r, t
<1>3. KeysFrom(r, s)
  <2> SUFFICES ASSUME NEW i \in 1 .. Len(s) PROVE r[i].keys = s[i].keys
    BY <1>1 DEF KeysFrom
  <2>1. i = 1 \/ i \in 2 .. Len(s)
    BY <1>1, SMTT(30)
  <2> QED
    BY <1>1, <2>1
<1>4. KeysFrom(t, s)
  <2> SUFFICES ASSUME NEW i \in 1 .. Len(s) - 1
               PROVE  i + 1 \in 1 .. Len(s) /\ t[i].keys = s[i + 1].keys
    BY <1>2 DEF KeysFrom
  <2> QED
    BY <1>1, <1>2, SMTT(30)
<1> QED
  BY <1>3, <1>4 DEF r, t

\* The blocked reads of a connection keep their keys; only Enqueue adds one.
LEMMA ReadsStep ==
  ASSUME Wakeups, [Next]_vars, NEW c \in Connections,
         ~(Enqueue(c))
  PROVE  KeysFrom(pending'[c], pending[c])
<1> DEFINE s == pending[c]
           r == pending'[c]
<1>1. /\ TypeOK /\ s \in Seq(Reads) /\ pending \in [Connections -> Seq(Reads)]
      /\ ReadsHear(s, task[c])
  BY ConnectionTypes DEF Wakeups, TypeOK
<1>2. ASSUME r = s PROVE KeysFrom(r, s)
  BY <1>2 DEF KeysFrom
<1>3. ASSUME NEW d \in Connections, Wake(d) \/ CheckLookup(d) \/ Recheck(d) \/ Expire(d)
      PROVE  KeysFrom(r, s)
  <2>1. CASE d # c
    <3>1. r = s
      BY <1>1, <1>3, <2>1 DEF Wake, CheckLookup, Recheck, Expire
    <3> QED
      BY <1>2, <3>1
  <2>2. CASE d = c
    <3>1. s # <<>>
      BY <1>1, <1>3, <2>2 DEF Wake, CheckLookup, Recheck, Expire, ReadsHear
    <3>2. Head(s) = s[1] /\ s[1] \in Reads
      BY <1>1, <3>1, TailIs
    <3> DEFINE e == cache'[c].epoch
               evicted == e > Head(s).epoch
    <3>3. \/ r = s
          \/ r = Tail(s)
          \/ r = <<[s[1] EXCEPT !.late = TRUE]>> \o Tail(s)
          \/ r = <<[s[1] EXCEPT !.unseen = FALSE]>> \o Tail(s)
          \/ Recheck(c) /\ r = <<[s[1] EXCEPT !.epoch = IF evicted THEN e ELSE @]>> \o Tail(s)
      <4>1. CASE Wake(c)
        BY <1>1, <3>2, <4>1 DEF Wake
      <4>2. CASE CheckLookup(c)
        BY <1>1, <4>2 DEF CheckLookup
      <4>3. CASE Recheck(c)
        <5>1. pending' = [pending EXCEPT ![c] =
                            IF Head(s).late THEN Tail(s)
                            ELSE <<[Head(s) EXCEPT !.epoch = IF evicted THEN e ELSE @]>>
                                   \o Tail(s)]
          BY <1>1, <4>3 DEF Recheck
        <5> HIDE DEF evicted, e
        <5>2. \/ r = Tail(s)
              \/ r = <<[Head(s) EXCEPT !.epoch = IF evicted THEN e ELSE @]>> \o Tail(s)
          BY <1>1, <5>1
        <5> QED
          BY <3>2, <4>3, <5>2
      <4>4. CASE Expire(c)
        BY <1>1, <3>2, <4>4 DEF Expire
      <4> QED
        BY <1>3, <2>2, <4>1, <4>2, <4>3, <4>4
    <3>4. Recheck(c) => e \in Nat
      <4> SUFFICES ASSUME Recheck(c) PROVE e \in Nat
        OBVIOUS
      <4>1. cache[c] \in Handles /\ cache \in [Connections -> Handles]
        BY <1>1, ConnectionTypes DEF TypeOK
      <4>2. cache'[c] = Refreshed(cache[c])
        BY <4>1 DEF Recheck
      <4> QED
        BY <1>1, <4>1, <4>2, RefreshedTyped
    <3> HIDE DEF r, s, e, evicted
    <3> DEFINE h == s[1]
               e2 == IF evicted THEN e ELSE h.epoch
    <3>5. /\ [h EXCEPT !.late = TRUE] \in Reads /\ [h EXCEPT !.late = TRUE].keys = h.keys
          /\ [h EXCEPT !.unseen = FALSE] \in Reads /\ [h EXCEPT !.unseen = FALSE].keys = h.keys
      <4> HIDE DEF h
      <4> QED
        BY <3>2 DEF Reads, h
    <3>6. Recheck(c) => [h EXCEPT !.epoch = e2] \in Reads /\ [h EXCEPT !.epoch = e2].keys = h.keys
      <4>1. Recheck(c) => e2 \in Nat
        BY <3>2, <3>4 DEF Reads
      <4> HIDE DEF h, e2
      <4> QED
        BY <3>2, <4>1 DEF Reads, h
    <3>7. CASE r = s
      BY <3>7 DEF KeysFrom
    <3>8. CASE r = Tail(s)
      BY <1>1, <3>1, <3>2, <3>8, HeadKeysFrom
    <3>9. ASSUME NEW x \in Reads, x.keys = h.keys, r = <<x>> \o Tail(s) PROVE KeysFrom(r, s)
      BY <1>1, <3>1, <3>9, HeadKeysFrom
    <3>10. Recheck(c) /\ r = <<[s[1] EXCEPT !.epoch = IF evicted THEN e ELSE @]>> \o Tail(s) =>
             r = <<[h EXCEPT !.epoch = e2]>> \o Tail(s)
      OBVIOUS
    <3> QED
      BY <3>3, <3>5, <3>6, <3>7, <3>8, <3>9, <3>10
  <2> QED
    BY <2>1, <2>2
<1>4. ASSUME notify_readers PROVE KeysFrom(r, s)
  <2>1. r = [i \in DOMAIN s |-> [s[i] EXCEPT !.unseen = s[i].receiver]]
    BY <1>4 DEF notify_readers
  <2>2. DOMAIN s = 1 .. Len(s) /\ Len(s) \in Nat /\ \A i \in 1 .. Len(s) : s[i] \in Reads
    BY <1>1, SMTT(30)
  <2> HIDE DEF r, s
  <2>3. ASSUME NEW x \in Reads
        PROVE  [x EXCEPT !.unseen = x.receiver] \in Reads
               /\ [x EXCEPT !.unseen = x.receiver].keys = x.keys
    BY DEF Reads
  <2>4. r \in [1 .. Len(s) -> Reads] /\ \A i \in 1 .. Len(s) : r[i].keys = s[i].keys
    BY <2>1, <2>2, <2>3
  <2>5. Len(r) = Len(s)
    BY <2>2, <2>4, SMTT(30)
  <2> QED
    BY <2>4, <2>5 DEF KeysFrom
<1>5. ASSUME NEW d \in Connections, Enqueue(d) PROVE r = s
  <2>1. d # c
    BY <1>5
  <2> QED
    BY <1>1, <1>5, <2>1 DEF Enqueue
<1>6. ASSUME NEW d, Lookup(d) \/ Subscribe(d) \/ Trigger(d) \/ Check(d) \/ \E q : Call(d, q)
      PROVE  r = s
  BY <1>6 DEF Lookup, Subscribe, Trigger, Check, Call
<1>7. ASSUME \/ Ready \/ Timestamp \/ RemoveNodes \/ RequestReaderReplay \/ UNCHANGED vars
             \/ TimedPurge \/ \E K : Fill(K) \/ Evict(K)
      PROVE  r = s
  BY <1>7 DEF Ready, Timestamp, RemoveNodes, RequestReaderReplay, vars, TimedPurge, Fill,
        Evict
<1> QED
  BY <1>2, <1>3, <1>4, <1>5, <1>6, <1>7
     DEF Next, Environment, HandlerStep, TaskStep, Replay

LEMMA RequestsInductive ==
  ASSUME Requests, [Next]_vars PROVE Requests'
<1>1. Wakeups /\ Wakeups'
  BY WakeupsInductive DEF Requests
<1>2. TypeOK
  BY <1>1 DEF Wakeups
<1>3. ~workload'.frontier => purges' = <<>>
  <2>1. CASE UNCHANGED <<workload, purges>>
    BY <2>1 DEF Requests
  <2>2. ASSUME NEW K, Fill(K) PROVE ~workload'.frontier => purges' = <<>>
    BY <2>2 DEF Fill, Requests
  <2>3. CASE TimedPurge
    BY <2>3 DEF TimedPurge, Requests
  <2>4. ASSUME NEW c, HandlerStep(c) \/ TaskStep(c) \/ Expire(c) \/ \E q : Call(c, q)
        PROVE  UNCHANGED <<workload, purges>>
    BY <2>4 DEF HandlerStep, TaskStep, Expire, Lookup, Subscribe, Trigger, Enqueue,
          Wake, Check, CheckLookup, Recheck, Call, domainVars
  <2>5. ASSUME \/ Ready \/ Timestamp \/ RemoveNodes \/ RequestReaderReplay \/ notify_readers
               \/ UNCHANGED vars \/ \E K : Evict(K)
        PROVE  UNCHANGED <<workload, purges>>
    BY <2>5 DEF Ready, Timestamp, RemoveNodes, RequestReaderReplay, notify_readers,
          vars, domainVars, Evict
  <2> QED
    BY <2>1, <2>2, <2>3, <2>4, <2>5 DEF Next, Environment, Replay
<1>4. ASSUME Undisturbed', NEW c \in Connections
      PROVE  CallAsks(call[c])' /\ ReadsAsked(pending[c])'
  <2> DEFINE u == call[c]
             v == call'[c]
  <2>1. Undisturbed /\ filled \subseteq filled' /\ OnTheWay \subseteq OnTheWay'
    BY <1>4, OnTheWayGrows
  <2>2. CallAsks(u) /\ ReadsAsked(pending[c])
    BY <2>1 DEF Requests
  <2>3. /\ v.pc \in {"subscribe", "trigger"} => v.query.keys \subseteq filled' \cup v.misses
        /\ v.pc = "enqueue" => v.query.keys \subseteq OnTheWay'
    <3>1. CallSteps(u, v)
      BY <1>1, CallsStep
    <3>2. ASSUME u.pc = "trigger", v.pc = "enqueue", v.query = u.query,
                 asked' = Request(u.misses)
          PROVE  v.query.keys \subseteq OnTheWay'
      <4>1. u.misses \in SUBSET Keys
        BY <1>2, ConnectionTypes DEF Calls
      <4>2. UNION Range(asked') = (UNION Range(asked)) \cup u.misses
        BY <1>2, <3>2, <4>1, RequestRange
      <4>3. u.misses \subseteq OnTheWay'
        BY <4>2 DEF OnTheWay
      <4>4. u.query.keys \subseteq filled \cup u.misses /\ filled \subseteq OnTheWay
        BY <2>2, <3>2 DEF CallAsks, OnTheWay
      <4> QED
        BY <2>1, <3>2, <4>3, <4>4
    <3>3. CASE v.pc \in {"idle", "lookup"}
      BY <3>3
    <3>4. CASE v.pc = u.pc /\ v.query = u.query /\ v.misses = u.misses
      BY <2>1, <2>2, <3>4 DEF CallAsks
    <3>5. CASE v.pc = "subscribe" /\ v.misses = v.query.keys \ filled
      BY <2>1, <3>5
    <3>6. CASE u.pc = "subscribe" /\ v.pc = "trigger" /\ v.query = u.query /\ v.misses = u.misses
      BY <2>1, <2>2, <3>6 DEF CallAsks
    <3> HIDE DEF u, v
    <3> QED
      BY <3>1, <3>2, <3>3, <3>4, <3>5, <3>6 DEF CallSteps
  <2>4. CallAsks(call[c])'
    BY <2>3 DEF CallAsks
  <2>5. ReadsAsked(pending[c])'
    <3>1. CASE Enqueue(c)
      <4> DEFINE s == pending[c]
                 r == pending'[c]
      <4>1. s \in Seq(Reads) /\ u \in Calls /\ pending \in [Connections -> Seq(Reads)]
        BY <1>2, ConnectionTypes DEF TypeOK
      <4>2. r \in Seq(Reads)
        BY <1>1, ConnectionTypes DEF Wakeups, TypeOK
      <4>3. PICK p : r = Append(s, p) /\ p.keys = u.query.keys /\ u.pc = "enqueue"
        BY <3>1, <4>1 DEF Enqueue
      <4>4. ASSUME NEW i \in 1 .. Len(r) PROVE r[i].keys \subseteq OnTheWay
        <5>1. Len(s) \in Nat /\ Len(r) = Len(s) + 1
          BY <4>1, <4>3, SMTT(30)
        <5>2. r[i] = IF i = Len(s) + 1 THEN p ELSE s[i]
          BY <4>1, <4>3, <4>4, <5>1, SMTT(30)
        <5>3. CASE i = Len(s) + 1
          BY <2>2, <4>3, <5>2, <5>3 DEF CallAsks
        <5>4. CASE i # Len(s) + 1
          <6>1. i \in 1 .. Len(s)
            BY <4>4, <5>1, <5>4, SMTT(30)
          <6> QED
            BY <2>2, <5>2, <5>4, <6>1 DEF ReadsAsked
        <5> QED
          BY <5>3, <5>4
      <4> QED
        BY <2>1, <4>4 DEF ReadsAsked
    <3>2. CASE ~Enqueue(c)
      <4>1. KeysFrom(pending'[c], pending[c])
        BY <1>1, <3>2, ReadsStep
      <4>2. ASSUME NEW i \in 1 .. Len(pending'[c]) PROVE pending'[c][i].keys \subseteq OnTheWay'
        <5>1. PICK j \in 1 .. Len(pending[c]) : pending'[c][i].keys = pending[c][j].keys
          BY <4>1 DEF KeysFrom
        <5> QED
          BY <2>1, <2>2, <5>1 DEF ReadsAsked
      <4> QED
        BY <4>2 DEF ReadsAsked
    <3> QED
      BY <3>1, <3>2
  <2> QED
    BY <2>4, <2>5
<1> QED
  BY <1>1, <1>3, <1>4 DEF Requests

\* As long as no key is taken from the reader, every key that a blocked read waits
\* for is filled, requested or asked for.  With NoWakeupLost: such a read is
\* answered if the domain handles its requests and the replays arrive.
THEOREM MissingKeysOnTheWay == Spec => []MissingKeysRequested
<1>1. Init => Requests
  <2> SUFFICES ASSUME Init PROVE Requests
    OBVIOUS
  <2>1. ASSUME NEW c \in Connections PROVE CallAsks(call[c]) /\ ReadsAsked(pending[c])
    <3>1. call[c] = NoCall /\ pending[c] = <<>>
      <4>1. call = [d \in Connections |-> NoCall] /\ pending = [d \in Connections |-> <<>>]
        BY DEF Init
      <4> QED
        BY <4>1
    <3> QED
      BY <3>1, NoCallFields, SMTT(30) DEF CallAsks, ReadsAsked
  <2> QED
    BY <2>1, WakeupsInit DEF Requests, Init
<1>2. Requests => MissingKeysRequested
  <2> SUFFICES ASSUME Requests, Undisturbed, NEW c \in Connections, NEW i \in DOMAIN pending[c]
               PROVE  pending[c][i].keys \subseteq OnTheWay
    BY DEF MissingKeysRequested, OnTheWay
  <2>1. pending[c] \in Seq(Reads) /\ ReadsAsked(pending[c])
    BY ConnectionTypes DEF Requests, Wakeups
  <2>2. i \in 1 .. Len(pending[c])
    BY <2>1, SMTT(30)
  <2> QED
    BY <2>1, <2>2 DEF ReadsAsked
<1> QED
  BY <1>1, <1>2, RequestsInductive, PTL DEF Spec
=============================================================================
