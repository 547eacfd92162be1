---------------------------- MODULE AdapterProofs ----------------------------
(***************************************************************************)
(* Proofs about Adapter for any connections, queries and deployments and   *)
(* any number of statements: what a client is answered by ReadySet is what *)
(* it prepared, and only when it may be; and a query found to be           *)
(* unsupported stays so.                                                   *)
(***************************************************************************)
EXTENDS Adapter, TLAPS

\* Zenon proves the leaves that do not name the SMT solver.
USE ZenonT(30)

(* The status cache.                                                       *)

Caches == [Queries -> Status \cup {None}]

KnownIn(cache) == {q \in Queries : cache[q] # None}

AlwaysIn(cache) == {q \in Queries : cache[q] # None /\ cache[q].always}

UnsupportedIn(cache) == {q \in Queries : IsUnsupported(cache, q)}

\* A cache becomes another one: it forgets no query and is told of the queries in
\* new alone that ReadySet is always to answer.
Becomes(cache, next, new) ==
  /\ next \in Caches
  /\ KnownIn(cache) \subseteq KnownIn(next)
  /\ AlwaysIn(next) \subseteq AlwaysIn(cache) \cup new

\* It also forgets no verdict.
Keeps(cache, next, new) ==
  Becomes(cache, next, new) /\ UnsupportedIn(cache) \subseteq UnsupportedIn(next)

\* One entry of a cache is replaced.
LEMMA EntryReplaced ==
  ASSUME NEW cache \in Caches, NEW q, NEW s, NEW new,
         q \in Queries => s \in Status,
         q \in Queries /\ s.always =>
           q \in new \/ (cache[q] # None /\ cache[q].always)
  PROVE  /\ Becomes(cache, [cache EXCEPT ![q] = s], new)
         /\ q \in Queries => q \in KnownIn([cache EXCEPT ![q] = s])
<1> DEFINE next == [cache EXCEPT ![q] = s]
<1>1. next \in Caches
  BY DEF Caches
<1>2. \A p \in Queries : next[p] = IF p = q THEN s ELSE cache[p]
  BY DEF Caches
<1>3. q \in Queries => s # None
  BY AdapterAssumption
<1> HIDE DEF next
<1>4. Becomes(cache, next, new)
  BY <1>1, <1>2, <1>3 DEF Becomes, KnownIn, AlwaysIn
<1>5. q \in Queries => q \in KnownIn(next)
  BY <1>2, <1>3 DEF KnownIn
<1> QED
  BY <1>4, <1>5 DEF next

\* One entry of a cache is replaced, and not a verdict.
LEMMA EntryKept ==
  ASSUME NEW cache \in Caches, NEW q, NEW s, NEW new,
         q \in Queries => s \in Status,
         q \in Queries /\ s.always =>
           q \in new \/ (cache[q] # None /\ cache[q].always),
         q \in Queries /\ IsUnsupported(cache, q) => s.migration_state = "Unsupported"
  PROVE  /\ Keeps(cache, [cache EXCEPT ![q] = s], new)
         /\ q \in Queries => q \in KnownIn([cache EXCEPT ![q] = s])
<1> DEFINE next == [cache EXCEPT ![q] = s]
<1>1. Becomes(cache, next, new) /\ (q \in Queries => q \in KnownIn(next))
  BY EntryReplaced
<1>2. \A p \in Queries : next[p] = IF p = q THEN s ELSE cache[p]
  BY DEF Caches
<1>3. q \in Queries => s # None
  BY AdapterAssumption
<1> HIDE DEF next
<1>4. UnsupportedIn(cache) \subseteq UnsupportedIn(next)
  BY <1>2, <1>3 DEF UnsupportedIn, IsUnsupported
<1> QED
  BY <1>1, <1>4 DEF next, Keeps

\* A cache that is left alone.
LEMMA KeepsItself ==
  ASSUME NEW cache \in Caches, NEW new
  PROVE  Keeps(cache, cache, new)
BY DEF Keeps, Becomes

\* A fresh status.
LEMMA FreshStatus ==
  ASSUME NEW m \in MigrationState
  PROVE  /\ with_migration_state(m) \in Status
         /\ ~with_migration_state(m).always
         /\ with_migration_state(m).migration_state = m
BY DEF with_migration_state, Status

\* insert.
LEMMA InsertKeeps ==
  ASSUME NEW cache \in Caches, NEW q \in Queries
  PROVE  /\ Becomes(cache, insert(cache, q), {})
         /\ q \in KnownIn(insert(cache, q))
         /\ \A p \in Queries \ {q} : IsUnsupported(cache, p) => IsUnsupported(insert(cache, q), p)
<1>1. "Pending" \in MigrationState
  BY DEF MigrationState
<1>2. \A p \in Queries \ {q} : insert(cache, q)[p] = cache[p]
  BY DEF Caches, insert
<1> QED
  BY <1>1, <1>2, FreshStatus, EntryReplaced DEF insert, IsUnsupported

\* update_query_migration_state.
LEMMA MigrationStateKeeps ==
  ASSUME NEW cache \in Caches, NEW q, NEW m \in MigrationState
  PROVE  /\ Keeps(cache, update_query_migration_state(cache, q, m), {})
         /\ q \in Queries => q \in KnownIn(update_query_migration_state(cache, q, m))
<1> DEFINE old == cache[q]
           s == IF old = None THEN with_migration_state(m)
                ELSE IF old.migration_state = "Unsupported" THEN old
                ELSE [old EXCEPT !.migration_state = m]
           none == {}
<1>1. update_query_migration_state(cache, q, m) = [cache EXCEPT ![q] = s]
  BY DEF update_query_migration_state
<1>2. q \in Queries => old \in Status \cup {None}
  BY DEF Caches
<1> HIDE DEF old
<1>3. ASSUME q \in Queries
      PROVE  /\ s \in Status /\ (s.always => old # None /\ old.always)
             /\ old # None /\ old.migration_state = "Unsupported" =>
                  s.migration_state = "Unsupported"
  <2>1. CASE old = None
    BY <2>1, FreshStatus
  <2>2. CASE old # None
    BY <1>2, <1>3, <2>2 DEF Status
  <2> QED
    BY <2>1, <2>2
<1> HIDE DEF s, none
<1>4. /\ q \in Queries => s \in Status
      /\ q \in Queries /\ s.always => q \in none \/ (cache[q] # None /\ cache[q].always)
      /\ q \in Queries /\ IsUnsupported(cache, q) => s.migration_state = "Unsupported"
  BY <1>3 DEF old, IsUnsupported
<1>5. /\ Keeps(cache, [cache EXCEPT ![q] = s], none)
      /\ q \in Queries => q \in KnownIn([cache EXCEPT ![q] = s])
  BY <1>4, EntryKept
<1> QED
  BY <1>1, <1>5 DEF none

\* always_attempt_readyset.
LEMMA AlwaysAttemptKeeps ==
  ASSUME NEW cache \in Caches, NEW q \in Queries, NEW always \in BOOLEAN
  PROVE  Keeps(cache, always_attempt_readyset(cache, q, always), IF always THEN {q} ELSE {})
<1> DEFINE old == cache[q]
           s == IF old = None THEN old
                ELSE IF old.migration_state = "Unsupported" THEN old
                ELSE [old EXCEPT !.always = always]
           new == IF always THEN {q} ELSE {}
<1>1. always_attempt_readyset(cache, q, always) = [cache EXCEPT ![q] = s]
  BY DEF always_attempt_readyset
<1>2. old \in Status \cup {None}
  BY DEF Caches
<1> HIDE DEF old
<1>3. CASE old = None
  <2>1. [cache EXCEPT ![q] = s] = cache
    <3>1. s = cache[q]
      BY <1>3 DEF old
    <3> HIDE DEF s
    <3> QED
      BY <3>1 DEF Caches
  <2> HIDE DEF new
  <2>2. Keeps(cache, cache, new)
    BY KeepsItself
  <2> QED
    BY <1>1, <2>1, <2>2 DEF new
<1>4. CASE old # None
  <2>1. /\ s \in Status /\ (s.always => q \in new \/ old.always)
        /\ old.migration_state = "Unsupported" => s.migration_state = "Unsupported"
    BY <1>2, <1>4 DEF Status
  <2> HIDE DEF s, new
  <2>2. /\ s.always => q \in new \/ (cache[q] # None /\ cache[q].always)
        /\ IsUnsupported(cache, q) => s.migration_state = "Unsupported"
    BY <1>4, <2>1 DEF old, IsUnsupported
  <2>3. Keeps(cache, [cache EXCEPT ![q] = s], new)
    BY <2>1, <2>2, EntryKept
  <2> QED
    BY <1>1, <2>3 DEF new
<1> QED
  BY <1>3, <1>4

\* update_query_status.
LEMMA StatusKeeps ==
  ASSUME NEW cache \in Caches, NEW q \in Queries, NEW status \in Status
  PROVE  Keeps(cache, update_query_status(cache, q, status), IF status.always THEN {q} ELSE {})
<1> DEFINE old == cache[q]
           both == [old EXCEPT !.migration_state = status.migration_state,
                               !.execution_info = status.execution_info]
           s == IF old = None THEN status
                ELSE IF old.migration_state = "Unsupported"
                     THEN [old EXCEPT !.execution_info = status.execution_info]
                ELSE both
           new == IF status.always THEN {q} ELSE {}
<1>1. update_query_status(cache, q, status) = [cache EXCEPT ![q] = s]
  BY DEF update_query_status
<1>2. old \in Status \cup {None}
  BY DEF Caches
<1> HIDE DEF old
<1>3. old \in Status => both \in Status /\ both.always = old.always
  BY DEF Status
<1> HIDE DEF both
<1>4. /\ s \in Status /\ (s.always => q \in new \/ (old # None /\ old.always))
      /\ old # None /\ old.migration_state = "Unsupported" => s.migration_state = "Unsupported"
  <2>1. CASE old = None
    BY <2>1
  <2>2. CASE old # None /\ old.migration_state = "Unsupported"
    BY <1>2, <2>2 DEF Status
  <2>3. CASE old # None /\ old.migration_state # "Unsupported"
    BY <1>2, <1>3, <2>3
  <2> QED
    BY <2>1, <2>2, <2>3
<1> HIDE DEF s, new
<1>5. /\ s.always => q \in new \/ (cache[q] # None /\ cache[q].always)
      /\ IsUnsupported(cache, q) => s.migration_state = "Unsupported"
  BY <1>4 DEF old, IsUnsupported
<1>6. Keeps(cache, [cache EXCEPT ![q] = s], new)
  BY <1>4, <1>5, EntryKept
<1> QED
  BY <1>1, <1>6 DEF new

\* clear.
LEMMA ClearKeeps ==
  ASSUME NEW cache \in Caches
  PROVE  Keeps(cache, clear(cache), {})
<1>1. ASSUME NEW q \in Queries
      PROVE  /\ clear(cache)[q] \in Status \cup {None}
             /\ cache[q] # None => clear(cache)[q] # None
             /\ clear(cache)[q] # None /\ clear(cache)[q].always =>
                  cache[q] # None /\ cache[q].always
             /\ IsUnsupported(cache, q) => IsUnsupported(clear(cache), q)
  <2> DEFINE old == cache[q]
             s == [old EXCEPT !.migration_state = "Pending", !.always = FALSE]
             t == IF old = None THEN None
                  ELSE IF old.migration_state = "Successful" THEN s ELSE old
  <2>1. clear(cache)[q] = t
    BY DEF clear
  <2>2. old \in Status \cup {None} /\ None \notin Status
    BY AdapterAssumption DEF Caches
  <2> HIDE DEF old
  <2>3. old \in Status => s \in Status /\ ~s.always
    BY DEF Status, MigrationState
  <2> HIDE DEF s
  <2>4. /\ t \in Status \cup {None}
        /\ old # None => t # None
        /\ t # None /\ t.always => old # None /\ old.always
        /\ old # None /\ old.migration_state = "Unsupported" => t = old
    BY <2>2, <2>3
  <2> HIDE DEF t
  <2> QED
    BY <2>1, <2>4 DEF old, IsUnsupported
<1>2. clear(cache) \in Caches
  BY <1>1 DEF clear, Caches
<1> QED
  BY <1>1, <1>2 DEF Keeps, Becomes, KnownIn, AlwaysIn, UnsupportedIn

\* One call after the other.
LEMMA KeepsTwice ==
  ASSUME NEW a, NEW b, NEW c, NEW A, NEW B, Keeps(a, b, A), Keeps(b, c, B)
  PROVE  Keeps(a, c, A \cup B)
BY DEF Keeps, Becomes

\* What a change of the cache needs to say.
LEMMA KeepsWithin ==
  ASSUME NEW cache, NEW next, NEW new, NEW more, Keeps(cache, next, new), new \subseteq more
  PROVE  Keeps(cache, next, more)
BY DEF Keeps, Becomes

-----------------------------------------------------------------------------
(* The operations in flight.                                               *)

Dos == {"idle", "panicked", "query", "prepare", "update", "execute", "create", "drop",
        "drop_all", "migrate", "dry_run"}
Ats == {"start", "insert", "view", "getter", "read", "request", "done"}
Gots == Failures \cup {"ok", "skipped"}

\* What an operation in flight holds.
Fields(o, do, at, q, id, create, status, reset, always, got) ==
  /\ o.do = do /\ o.at = at /\ o.query = q /\ o.id = id /\ o.create = create
  /\ o.status = status /\ o.reset = reset /\ o.always = always /\ o.got = got

LEMMA IdleFields ==
  Idle \in OpType /\ Fields(Idle, "idle", "start", None, 0, FALSE, None, FALSE, FALSE, "ok")
BY AdapterAssumption, SMTT(30) DEF Idle, OpType, Fields

\* An operation begins.
LEMMA GoFields ==
  ASSUME NEW do \in Dos, NEW at \in Ats, NEW q \in Queries \cup {None}
  PROVE  /\ Go(do, at, q) \in OpType
         /\ Fields(Go(do, at, q), do, at, q, 0, FALSE, None, FALSE, FALSE, "ok")
<1> DEFINE o == Idle
           g == [o EXCEPT !.do = do, !.at = at, !.query = q]
<1>1. o \in OpType /\ Fields(o, "idle", "start", None, 0, FALSE, None, FALSE, FALSE, "ok")
  BY IdleFields
<1>2. Go(do, at, q) = g
  BY DEF Go
<1> HIDE DEF o
<1>3. g \in OpType
  <2> DEFINE a == [o EXCEPT !.do = do]
             b == [a EXCEPT !.at = at]
  <2>1. a \in OpType
    BY <1>1 DEF OpType, Dos
  <2> HIDE DEF a
  <2>2. b \in OpType
    BY <2>1 DEF OpType, Ats
  <2> HIDE DEF b
  <2>3. [b EXCEPT !.query = q] \in OpType
    BY <2>2 DEF OpType
  <2> QED
    BY <2>3 DEF a, b
<1>4. Fields(g, do, at, q, o.id, o.create, o.status, o.reset, o.always, o.got)
  BY <1>1 DEF OpType, Fields
<1> HIDE DEF g
<1> QED
  BY <1>1, <1>2, <1>3, <1>4 DEF Fields

\* query_adhoc_select.
LEMMA GoQuery ==
  ASSUME NEW q \in Queries, NEW create \in BOOLEAN, NEW status \in Status,
         NEW reset \in BOOLEAN
  PROVE  LET o == [Go("query", "view", q) EXCEPT !.create = create, !.status = status,
                                                 !.reset = reset]
         IN  /\ o \in OpType
             /\ Fields(o, "query", "view", q, 0, create, status, reset, FALSE, "ok")
<1> DEFINE g == Go("query", "view", q)
           o == [g EXCEPT !.create = create, !.status = status, !.reset = reset]
<1>1. g \in OpType /\ Fields(g, "query", "view", q, 0, FALSE, None, FALSE, FALSE, "ok")
  BY GoFields DEF Dos, Ats
<1> HIDE DEF g
<1>2. o \in OpType
  BY <1>1 DEF OpType
<1>3. Fields(o, g.do, g.at, g.query, g.id, create, status, reset, g.always, g.got)
  BY <1>1 DEF OpType, Fields
<1> HIDE DEF o
<1> QED
  BY <1>1, <1>2, <1>3 DEF Fields, o, g

\* plan_prepare_select and mirror_prepare.
LEMMA GoPrepare ==
  ASSUME NEW at \in Ats, NEW q \in Queries, NEW id \in 0..MaxPrepared,
         NEW create \in BOOLEAN, NEW always \in BOOLEAN, NEW got \in Gots
  PROVE  LET o == [Go("prepare", at, q) EXCEPT !.id = id, !.create = create,
                                               !.always = always, !.got = got]
         IN  /\ o \in OpType
             /\ Fields(o, "prepare", at, q, id, create, None, FALSE, always, got)
<1> DEFINE g == Go("prepare", at, q)
           o == [g EXCEPT !.id = id, !.create = create, !.always = always, !.got = got]
<1>1. g \in OpType /\ Fields(g, "prepare", at, q, 0, FALSE, None, FALSE, FALSE, "ok")
  BY GoFields DEF Dos
<1> HIDE DEF g
<1>2. o \in OpType
  BY <1>1 DEF OpType, Gots
<1>3. Fields(o, g.do, g.at, g.query, id, create, g.status, g.reset, always, got)
  BY <1>1 DEF OpType, Fields
<1> HIDE DEF o
<1> QED
  BY <1>1, <1>2, <1>3 DEF Fields, o, g

\* The other operations.
LEMMA GoOthers ==
  ASSUME NEW do \in Dos, NEW at \in Ats, NEW q \in Queries \cup {None},
         NEW id \in 0..MaxPrepared, NEW flag \in BOOLEAN
  PROVE  /\ [Go(do, at, q) EXCEPT !.id = id] \in OpType
         /\ Fields([Go(do, at, q) EXCEPT !.id = id],
                   do, at, q, id, FALSE, None, FALSE, FALSE, "ok")
         /\ [Go(do, at, q) EXCEPT !.always = flag] \in OpType
         /\ Fields([Go(do, at, q) EXCEPT !.always = flag],
                   do, at, q, 0, FALSE, None, FALSE, flag, "ok")
         /\ [Go(do, at, q) EXCEPT !.create = flag] \in OpType
         /\ Fields([Go(do, at, q) EXCEPT !.create = flag],
                   do, at, q, 0, flag, None, FALSE, FALSE, "ok")
<1> DEFINE g == Go(do, at, q)
           a == [g EXCEPT !.id = id]
           b == [g EXCEPT !.always = flag]
           c == [g EXCEPT !.create = flag]
<1>1. g \in OpType /\ Fields(g, do, at, q, 0, FALSE, None, FALSE, FALSE, "ok")
  BY GoFields
<1> HIDE DEF g
<1>2. a \in OpType /\ b \in OpType /\ c \in OpType
  BY <1>1 DEF OpType
<1>3. /\ Fields(a, g.do, g.at, g.query, id, g.create, g.status, g.reset, g.always, g.got)
      /\ Fields(b, g.do, g.at, g.query, g.id, g.create, g.status, g.reset, flag, g.got)
      /\ Fields(c, g.do, g.at, g.query, g.id, flag, g.status, g.reset, g.always, g.got)
  BY <1>1 DEF OpType, Fields
<1> HIDE DEF a, b, c
<1>4. /\ Fields(a, do, at, q, id, FALSE, None, FALSE, FALSE, "ok")
      /\ Fields(b, do, at, q, 0, FALSE, None, FALSE, flag, "ok")
      /\ Fields(c, do, at, q, 0, flag, None, FALSE, FALSE, "ok")
  BY <1>1, <1>3 DEF Fields
<1> QED
  BY <1>2, <1>4 DEF g, a, b, c

\* The places an operation goes through.
LEMMA Places ==
  /\ "getter" \in Ats /\ "read" \in Ats /\ "done" \in Ats
  /\ "ok" \in Gots /\ Failures \subseteq Gots
  /\ "network" \in Failures /\ "unsupported" \in Failures /\ "not_found" \in Failures
BY DEF Ats, Gots, Failures

\* An operation goes on.
LEMMA GoesOn ==
  ASSUME NEW o \in OpType, NEW at \in Ats
  PROVE  /\ [o EXCEPT !.at = at] \in OpType
         /\ Fields([o EXCEPT !.at = at],
                   o.do, at, o.query, o.id, o.create, o.status, o.reset, o.always, o.got)
<1>1. [o EXCEPT !.at = at] \in OpType
  BY DEF OpType, Ats
<1>2. Fields([o EXCEPT !.at = at],
             o.do, at, o.query, o.id, o.create, o.status, o.reset, o.always, o.got)
  BY DEF OpType, Fields
<1> QED
  BY <1>1, <1>2

\* An operation goes on with an answer.
LEMMA GoesOnWith ==
  ASSUME NEW o \in OpType, NEW at \in Ats, NEW got \in Gots
  PROVE  /\ [o EXCEPT !.at = at, !.got = got] \in OpType
         /\ Fields([o EXCEPT !.at = at, !.got = got],
                   o.do, at, o.query, o.id, o.create, o.status, o.reset, o.always, got)
<1>1. [o EXCEPT !.at = at, !.got = got] \in OpType
  BY DEF OpType, Ats, Gots
<1>2. Fields([o EXCEPT !.at = at, !.got = got],
             o.do, at, o.query, o.id, o.create, o.status, o.reset, o.always, got)
  BY DEF OpType, Fields
<1> QED
  BY <1>1, <1>2

-----------------------------------------------------------------------------
(* What holds of one connection.                                           *)

ConnectorType ==
  [local : SUBSET Queries, handles : [Queries -> {"none", "live", "dead"}],
   failed : SUBSET Queries, stored : [1..MaxPrepared -> Queries \cup {None}]]

\* What a read of a query can end in.
Outcomes == {"ok", "network", "destroyed", "not_found", "unsupported", "missing_key"}

Statements == Seq(StatementType)

\* Every statement has its type.
LEMMA StatementTyped ==
  ASSUME NEW ss \in Statements, NEW i \in DOMAIN ss PROVE ss[i] \in StatementType
BY SMTT(30) DEF Statements

\* A statement that can be executed on ReadySet has its query stored under its
\* identifier, and its query is known; one that always is was declared so.
StatementsOk(ss, st, known, dc) ==
  \A i \in DOMAIN ss :
    /\ ss[i].query # None => ss[i].query \in known
    /\ ss[i].prep = "Both" => ss[i].query # None /\ st[i] = ss[i].query
    /\ ss[i].always => ss[i].query \in dc

\* A prepare in flight goes to the identifier behind the last, an update to one
\* there is, and where either succeeded the connector has stored its query.
PreparesOk(o, ss, st, known, dc) ==
  /\ Len(ss) <= MaxPrepared
  /\ o.do = "prepare" => Len(ss) + 1 <= MaxPrepared
  /\ o.do = "prepare" /\ o.at # "insert" =>
       o.id = Len(ss) + 1 /\ o.query \in known /\ (o.always => o.query \in dc)
  /\ o.do = "update" => o.id \in DOMAIN ss /\ ss[o.id].query = o.query /\ o.query # None
  /\ o.do \in {"prepare", "update"} /\ o.at = "done" /\ o.got = "ok" =>
       st[o.id] = o.query

\* A read in flight has a status that was true of the cache, and is of a query
\* declared ALWAYS if everything else is proxied.
ReadsOk(o, ss, px, dc) ==
  /\ o.do = "execute" => o.id \in DOMAIN ss
  /\ o.do = "query" /\ o.at # "insert" =>
       o.status \in Status /\ (o.status.always => o.query \in dc)
  /\ o.do = "query" /\ o.at = "done" => o.got \in Outcomes
  /\ o.do \in Reads /\ o.at # "insert" /\ should_proxy(px) => o.query \in dc
  /\ o.at = "read" => o.do \in Reads
  /\ o.do \notin {"migrate", "dry_run"}

ConnOk(o, ss, st, px, known, dc) ==
  /\ StatementsOk(ss, st, known, dc)
  /\ PreparesOk(o, ss, st, known, dc)
  /\ ReadsOk(o, ss, px, dc)

\* More queries may become known and declared.
LEMMA ConnOkMonotone ==
  ASSUME NEW o, NEW ss, NEW st, NEW px, NEW known, NEW dc, NEW known2, NEW dc2,
         known \subseteq known2, dc \subseteq dc2, ConnOk(o, ss, st, px, known, dc)
  PROVE  ConnOk(o, ss, st, px, known2, dc2)
<1>1. StatementsOk(ss, st, known2, dc2)
  BY DEF ConnOk, StatementsOk
<1>2. PreparesOk(o, ss, st, known2, dc2)
  BY DEF ConnOk, PreparesOk
<1>3. ReadsOk(o, ss, px, dc2)
  BY DEF ConnOk, ReadsOk
<1> QED
  BY <1>1, <1>2, <1>3 DEF ConnOk

\* The connection is free again, or begins something that neither prepares nor
\* reads.
LEMMA ConnOkPlain ==
  ASSUME NEW o, NEW ss, NEW st, NEW px, NEW known, NEW dc,
         StatementsOk(ss, st, known, dc), Len(ss) <= MaxPrepared,
         o.do \in {"idle", "panicked", "create", "drop", "drop_all"},
         o.at \in {"start", "done"}
  PROVE  ConnOk(o, ss, st, px, known, dc)
BY DEF ConnOk, PreparesOk, ReadsOk, Reads

\* The identifier of a prepare or an update.
LEMMA PreparesAt ==
  ASSUME NEW o, NEW ss \in Statements, NEW st, NEW px, NEW known, NEW dc,
         ConnOk(o, ss, st, px, known, dc), o.at # "insert", o.do \in {"prepare", "update"}
  PROVE  o.id \in 1..MaxPrepared
<1>1. DOMAIN ss = 1..Len(ss) /\ Len(ss) \in Nat /\ Len(ss) <= MaxPrepared /\ MaxPrepared \in Nat
  BY AdapterAssumption, SMTT(30) DEF ConnOk, PreparesOk, Statements
<1>2. CASE o.do = "prepare"
  <2>1. o.id = Len(ss) + 1 /\ Len(ss) + 1 <= MaxPrepared
    BY <1>2 DEF ConnOk, PreparesOk
  <2> QED
    BY <1>1, <2>1, SMTT(30)
<1>3. CASE o.do = "update"
  <2>1. o.id \in DOMAIN ss
    BY <1>3 DEF ConnOk, PreparesOk
  <2> QED
    BY <1>1, <2>1, SMTT(30)
<1> QED
  BY <1>2, <1>3

\* A request of an operation is answered.
LEMMA ConnOkAdvances ==
  ASSUME NEW o, NEW p, NEW ss, NEW st, NEW new, NEW px, NEW known, NEW dc,
         ConnOk(o, ss, st, px, known, dc), o.at \in {"view", "getter", "read"},
         Fields(p, o.do, p.at, o.query, o.id, o.create, o.status, o.reset, o.always, p.got),
         p.at \in {"getter", "read", "done"}, p.at = "read" => o.do \in Reads,
         o.do = "query" /\ p.at = "done" => p.got \in Outcomes,
         o.do \in {"prepare", "update"} /\ p.at = "done" /\ p.got = "ok" =>
           new[o.id] = o.query,
         \A i \in DOMAIN ss : ss[i].prep = "Both" => new[i] = st[i]
  PROVE  ConnOk(p, ss, new, px, known, dc)
<1>1. StatementsOk(ss, new, known, dc)
  BY DEF ConnOk, StatementsOk
<1>2. PreparesOk(p, ss, new, known, dc)
  BY DEF ConnOk, PreparesOk, Fields
<1>3. ReadsOk(p, ss, px, dc)
  BY DEF ConnOk, ReadsOk, Fields
<1> QED
  BY <1>1, <1>2, <1>3 DEF ConnOk

-----------------------------------------------------------------------------
(* The invariant.                                                          *)

Asks(o) == o.at \in {"view", "getter", "read"}

\* An operation is about a query, unless it is none or about all of them.
Named(o) == (o.do \in {"idle", "panicked", "drop_all"} /\ ~Asks(o)) \/ o.query # None

OpTypes ==
  /\ op \in [Actors -> OpType]
  /\ \A a \in Actors : Named(op[a])

Types ==
  /\ deployment \in Deployments
  /\ statuses \in Caches
  /\ global \subseteq Queries /\ views \subseteq Queries
  /\ connector \in [Actors -> ConnectorType]
  /\ statements \in [Conns -> Statements]
  /\ proxy_state \in [Conns -> ProxyState]
  /\ OpTypes
  /\ to_process \subseteq Queries
  /\ start_time \in [Queries -> {None, "recent", "exceeded"}]

Own(c) == ConnOk(op[c], statements[c], connector[c].stored, proxy_state[c],
                 KnownIn(statuses), declared)

\* The adapter declares what it serves.
Declares ==
  /\ Types
  /\ AlwaysIn(statuses) \subseteq declared
  /\ \A c \in Conns : Own(c)

\* What a step leaves alone of a connection.
SameOwn(c) ==
  /\ op'[c] = op[c] /\ statements'[c] = statements[c]
  /\ connector'[c].stored = connector[c].stored /\ proxy_state'[c] = proxy_state[c]

\* A step that leaves a connection alone keeps what holds of it.
LEMMA OwnKept ==
  ASSUME Declares, NEW c \in Conns, SameOwn(c), KnownIn(statuses) \subseteq KnownIn(statuses'),
         declared \subseteq declared'
  PROVE  Own(c)'
<1>1. Own(c)
  BY DEF Declares
<1>2. ConnOk(op[c], statements[c], connector[c].stored, proxy_state[c],
             KnownIn(statuses'), declared')
  BY <1>1, ConnOkMonotone DEF Own
<1> QED
  BY <1>2 DEF Own, SameOwn

\* A step of one connection.
LEMMA ConnectionStep ==
  ASSUME Declares, NEW c \in Conns, \A b \in Conns \ {c} : SameOwn(b), Types', Own(c)',
         Becomes(statuses, statuses', declared'), declared \subseteq declared'
  PROVE  Declares'
<1>1. KnownIn(statuses) \subseteq KnownIn(statuses') /\ AlwaysIn(statuses') \subseteq declared'
  BY DEF Declares, Becomes
<1>2. \A b \in Conns : Own(b)'
  BY <1>1, OwnKept
<1> QED
  BY <1>1, <1>2 DEF Declares

\* A step that leaves every connection alone.
LEMMA BackgroundStep ==
  ASSUME Declares, \A b \in Conns : SameOwn(b), Types',
         Becomes(statuses, statuses', declared'), declared' = declared
  PROVE  Declares'
<1>1. KnownIn(statuses) \subseteq KnownIn(statuses') /\ AlwaysIn(statuses') \subseteq declared'
  BY DEF Declares, Becomes
<1>2. \A b \in Conns : Own(b)'
  BY <1>1, OwnKept
<1> QED
  BY <1>1, <1>2 DEF Declares

\* The operation of one actor changes.
LEMMA OpReplaced ==
  ASSUME OpTypes, NEW a \in Actors, NEW o \in OpType, Named(o),
         op' = [op EXCEPT ![a] = o]
  PROVE  OpTypes' /\ op'[a] = o /\ \A b \in Actors \ {a} : op'[b] = op[b]
<1>1. /\ op' \in [Actors -> OpType]
      /\ op'[a] = o /\ \A b \in Actors \ {a} : op'[b] = op[b]
  BY DEF OpTypes
<1> QED
  BY <1>1 DEF OpTypes

\* The connector of one actor changes.
LEMMA ConnectorReplaced ==
  ASSUME connector \in [Actors -> ConnectorType], NEW a \in Actors, NEW k \in ConnectorType,
         connector' = [connector EXCEPT ![a] = k]
  PROVE  /\ connector' \in [Actors -> ConnectorType]
         /\ connector'[a] = k /\ \A b \in Actors \ {a} : connector'[b] = connector[b]
OBVIOUS

\* What the connector stores under an identifier disturbs no other statement.
LEMMA StoredElsewhere ==
  ASSUME NEW o, NEW ss \in Statements, NEW st \in [1..MaxPrepared -> Queries \cup {None}],
         NEW px, NEW known, NEW dc, ConnOk(o, ss, st, px, known, dc),
         o.at # "insert", o.do \in {"prepare", "update", "migrate"},
         NEW new, new = [st EXCEPT ![o.id] = o.query]
  PROVE  \A i \in DOMAIN ss : ss[i].prep = "Both" => new[i] = st[i]
<1>1. o.do \in {"prepare", "update"}
  BY DEF ConnOk, ReadsOk
<1>2. DOMAIN ss = 1..Len(ss) /\ Len(ss) \in Nat /\ Len(ss) <= MaxPrepared /\ MaxPrepared \in Nat
  BY AdapterAssumption, SMTT(30) DEF ConnOk, PreparesOk, Statements
<1>3. CASE o.do = "prepare"
  <2>1. o.id = Len(ss) + 1 /\ Len(ss) + 1 <= MaxPrepared
    BY <1>3 DEF ConnOk, PreparesOk
  <2> QED
    BY <1>2, <2>1, SMTT(30)
<1>4. CASE o.do = "update"
  <2>1. o.id \in DOMAIN ss /\ ss[o.id].query = o.query
    BY <1>4 DEF ConnOk, PreparesOk
  <2>2. \A i \in DOMAIN ss : ss[i].prep = "Both" => st[i] = ss[i].query
    BY DEF ConnOk, StatementsOk
  <2> QED
    BY <1>2, <2>1, <2>2, SMTT(30)
<1> QED
  BY <1>1, <1>3, <1>4

\* The operation of an actor goes on as p, and its connector is k.
Advances(a, p, k) ==
  LET o == op[a] IN
  /\ Asks(o) /\ p.at \in {"getter", "read", "done"} /\ (p.at = "read" => o.do \in Reads)
  /\ Fields(p, o.do, p.at, o.query, o.id, o.create, o.status, o.reset, o.always, p.got)
  /\ o.do = "query" /\ p.at = "done" => p.got \in Outcomes
  /\ a \in Conns /\ o.do \in {"prepare", "update"} /\ p.at = "done" /\ p.got = "ok" =>
       k.stored[o.id] = o.query
  /\ \/ k.stored = connector[a].stored
     \/ Stored(a) /\ k.stored = [connector[a].stored EXCEPT ![o.id] = o.query]

Unmoved == <<env, statuses, statements, proxy_state, declared, to_process,
             start_time, migrated, requests>>

\* A request of an actor is answered.
LEMMA ConnectorStep ==
  ASSUME Declares, NEW a \in Actors, NEW p \in OpType, NEW k \in ConnectorType,
         op' = [op EXCEPT ![a] = p], connector' = [connector EXCEPT ![a] = k],
         Advances(a, p, k), global' \subseteq Queries, views' \subseteq Queries,
         UNCHANGED Unmoved
  PROVE  Declares'
<1>01. Asks(op[a]) /\ p.at \in {"getter", "read", "done"} /\ (p.at = "read" => op[a].do \in Reads)
  BY DEF Advances
<1>02. Fields(p, op[a].do, p.at, op[a].query, op[a].id, op[a].create, op[a].status,
              op[a].reset, op[a].always, p.got)
  BY DEF Advances
<1>03. op[a].do = "query" /\ p.at = "done" => p.got \in Outcomes
  BY DEF Advances
<1>04. a \in Conns /\ op[a].do \in {"prepare", "update"} /\ p.at = "done" /\ p.got = "ok" =>
         k.stored[op[a].id] = op[a].query
  BY DEF Advances
<1>05. \/ k.stored = connector[a].stored
       \/ /\ Stored(a)
          /\ k.stored = [connector[a].stored EXCEPT ![op[a].id] = op[a].query]
  BY DEF Advances
<1>0. /\ op[a] \in OpType /\ op[a].query # None /\ OpTypes
      /\ connector \in [Actors -> ConnectorType] /\ statuses \in Caches
      /\ statements \in [Conns -> Statements]
  BY <1>01 DEF Declares, Types, OpTypes, Named
<1>1. OpTypes' /\ op'[a] = p /\ \A b \in Actors \ {a} : op'[b] = op[b]
  <2>1. Named(p)
    BY <1>0, <1>02 DEF Fields, Named
  <2> QED
    BY <1>0, <2>1, OpReplaced
<1>2. /\ connector' \in [Actors -> ConnectorType]
      /\ connector'[a] = k /\ \A b \in Actors \ {a} : connector'[b] = connector[b]
  BY <1>0, ConnectorReplaced
<1>3. /\ deployment' = deployment /\ statuses' = statuses /\ statements' = statements
      /\ proxy_state' = proxy_state /\ declared' = declared
      /\ to_process' = to_process /\ start_time' = start_time
  BY DEF env, Unmoved
<1>4. Types'
  BY <1>1, <1>2, <1>3 DEF Declares, Types
<1>5. Conns \subseteq Actors
  BY DEF Actors
<1>6. \A b \in Conns \ {a} : SameOwn(b)
  BY <1>1, <1>2, <1>3, <1>5 DEF SameOwn
<1>7. Becomes(statuses, statuses', declared')
  <2>1. Becomes(statuses, statuses, declared)
    BY <1>0, KeepsItself DEF Keeps
  <2> QED
    BY <1>3, <2>1 DEF Declares
<1>8. CASE a \in Conns
  <2>1. ConnOk(op[a], statements[a], connector[a].stored, proxy_state[a], KnownIn(statuses), declared)
    BY <1>8 DEF Declares, Own
  <2>2. \A i \in DOMAIN statements[a] :
          statements[a][i].prep = "Both" => k.stored[i] = connector[a].stored[i]
    <3>1. CASE k.stored = connector[a].stored
      BY <3>1
    <3>2. CASE /\ Stored(a)
               /\ k.stored = [connector[a].stored EXCEPT ![op[a].id] = op[a].query]
      <4>1. /\ statements[a] \in Statements
            /\ connector[a].stored \in [1..MaxPrepared -> Queries \cup {None}]
            /\ op[a].at # "insert" /\ op[a].do \in {"prepare", "update", "migrate"}
        BY <1>0, <1>01, <1>8, <3>2 DEF ConnectorType, Stored, Asks
      <4> QED
        BY <2>1, <3>2, <4>1, StoredElsewhere, SMTT(30)
    <3> QED
      BY <1>05, <3>1, <3>2
  <2>3. ConnOk(p, statements[a], k.stored, proxy_state[a], KnownIn(statuses), declared)
    <3>1. op[a].at \in {"view", "getter", "read"}
      BY <1>01 DEF Asks
    <3> QED
      BY <1>01, <1>02, <1>03, <1>04, <1>8, <2>1, <2>2, <3>1, ConnOkAdvances, SMTT(30)
  <2>4. Own(a)'
    BY <1>1, <1>2, <1>3, <2>3 DEF Own
  <2> QED
    BY <1>3, <1>4, <1>6, <1>7, <1>8, <2>4, ConnectionStep
<1>9. CASE a \notin Conns
  <2>1. \A b \in Conns : SameOwn(b)
    BY <1>6, <1>9
  <2> QED
    BY <1>3, <1>4, <1>7, <2>1, BackgroundStep
<1> QED
  BY <1>8, <1>9

-----------------------------------------------------------------------------
(* The connector.                                                          *)

\* What requests answer.
LEMMA Answers ==
  ASSUME NEW q
  PROVE  /\ Migrate(q) \subseteq {"network", "ok", "unsupported"}
         /\ Find(q) \subseteq {"network", "ok", "not_found"}
BY DEF Migrate, Find

\* A migration adds the query's view, or none.
LEMMA MigrateViews ==
  ASSUME NEW q \in Queries, NEW got, AfterMigrate(q, got), views \subseteq Queries
  PROVE  views' \subseteq Queries
BY DEF AfterMigrate

LEMMA get_view_Declares ==
  ASSUME Declares, NEW a \in Actors, get_view(a)
  PROVE  Declares'
<1> DEFINE q == op[a].query
           o == op[a]
           k == connector[a]
<1>1. /\ Asks(o) /\ q \in Queries /\ o \in OpType /\ k \in ConnectorType
      /\ op \in [Actors -> OpType] /\ connector \in [Actors -> ConnectorType]
      /\ global \subseteq Queries /\ views \subseteq Queries
  <2>1. o.at = "view"
    BY DEF get_view
  <2>2. /\ op \in [Actors -> OpType] /\ Named(o) /\ o \in OpType
        /\ connector \in [Actors -> ConnectorType] /\ k \in ConnectorType
        /\ global \subseteq Queries /\ views \subseteq Queries
    BY DEF Declares, Types, OpTypes
  <2> QED
    BY <2>1, <2>2 DEF Asks, Named, OpType
<1>2. UNCHANGED Unmoved
  BY DEF get_view, Unmoved
<1>3. CASE /\ connector' = [connector EXCEPT ![a].local = @ \cup {q}]
           /\ op' = [op EXCEPT ![a].at = "getter"]
           /\ UNCHANGED <<global, views>>
  <2> DEFINE p == [o EXCEPT !.at = "getter"]
             n == [k EXCEPT !.local = @ \cup {q}]
  <2>1. op' = [op EXCEPT ![a] = p] /\ connector' = [connector EXCEPT ![a] = n]
    BY <1>1, <1>3
  <2>2. /\ p \in OpType
        /\ Fields(p, o.do, "getter", o.query, o.id, o.create, o.status, o.reset, o.always, o.got)
    BY <1>1, Places, GoesOn
  <2>3. n \in ConnectorType /\ n.stored = k.stored
    BY <1>1 DEF ConnectorType
  <2>4. p.at = "getter" /\ p.got = o.got
    BY <2>2 DEF Fields
  <2>5. global' \subseteq Queries /\ views' \subseteq Queries
    BY <1>1, <1>3
  <2> HIDE DEF p, n
  <2>6. Advances(a, p, n)
    BY <1>1, <2>2, <2>3, <2>4 DEF Advances
  <2> QED
    BY <1>2, <2>1, <2>2, <2>3, <2>5, <2>6, ConnectorStep
<1>4. CASE /\ views' \subseteq Queries
           /\ global' = global \cup {q}
           /\ connector' = [connector EXCEPT ![a].local = @ \cup {q},
                              ![a].handles[q] = IF op[a].create THEN @ ELSE "live"]
           /\ op' = [op EXCEPT ![a].at = "getter"]
  <2> DEFINE p == [o EXCEPT !.at = "getter"]
             n == [k EXCEPT !.local = @ \cup {q},
                            !.handles[q] = IF op[a].create THEN @ ELSE "live"]
  <2>1. op' = [op EXCEPT ![a] = p]
    BY <1>1, <1>4
  <2>11. connector' = [connector EXCEPT ![a] = n]
    BY <1>1, <1>4
  <2>2. /\ p \in OpType
        /\ Fields(p, o.do, "getter", o.query, o.id, o.create, o.status, o.reset, o.always, o.got)
    BY <1>1, Places, GoesOn
  <2>3. n \in ConnectorType /\ n.stored = k.stored
    <3> HIDE DEF k, q
    <3> QED
      BY <1>1 DEF ConnectorType
  <2>4. p.at = "getter" /\ p.got = o.got
    BY <2>2 DEF Fields
  <2>5. global' \subseteq Queries /\ views' \subseteq Queries
    BY <1>1, <1>4
  <2> HIDE DEF p, n
  <2>6. Advances(a, p, n)
    BY <1>1, <2>2, <2>3, <2>4 DEF Advances
  <2> QED
    BY <1>2, <2>1, <2>11, <2>2, <2>3, <2>5, <2>6, ConnectorStep
<1>5. ASSUME NEW got \in {"network", "unsupported", "not_found"},
             op' = [op EXCEPT ![a].at = "done", ![a].got = got],
             views' \subseteq Queries, UNCHANGED <<connector, global>>
      PROVE  Declares'
  <2> DEFINE p == [o EXCEPT !.at = "done", !.got = got]
  <2>1. op' = [op EXCEPT ![a] = p] /\ connector' = [connector EXCEPT ![a] = k]
    BY <1>1, <1>5
  <2>2. /\ p \in OpType
        /\ Fields(p, o.do, "done", o.query, o.id, o.create, o.status, o.reset, o.always, got)
    <3>1. got \in Gots
      BY <1>5, Places
    <3> QED
      BY <1>1, <3>1, Places, GoesOnWith
  <2>3. p.at = "done" /\ p.got = got
    BY <2>2 DEF Fields
  <2>4. global' \subseteq Queries /\ views' \subseteq Queries
    BY <1>1, <1>5
  <2> HIDE DEF p
  <2>5. Advances(a, p, k)
    BY <1>1, <1>5, <2>2, <2>3 DEF Advances, Outcomes
  <2> QED
    BY <1>1, <1>2, <2>1, <2>2, <2>4, <2>5, ConnectorStep
<1>6. \/ /\ connector' = [connector EXCEPT ![a].local = @ \cup {q}]
         /\ op' = [op EXCEPT ![a].at = "getter"]
         /\ UNCHANGED <<global, views>>
      \/ \E got \in Migrate(q) \cup Find(q) :
           /\ AfterMigrate(q, got) \/ views' = views
           /\ IF got = "ok"
              THEN /\ global' = global \cup {q}
                   /\ connector' = [connector EXCEPT ![a].local = @ \cup {q},
                                      ![a].handles[q] = IF op[a].create THEN @ ELSE "live"]
                   /\ op' = [op EXCEPT ![a].at = "getter"]
              ELSE /\ op' = [op EXCEPT ![a].at = "done", ![a].got = got]
                   /\ UNCHANGED <<connector, global>>
  BY DEF get_view
<1> HIDE DEF o, k
<1>7. ASSUME NEW got \in Migrate(q) \cup Find(q),
             AfterMigrate(q, got) \/ views' = views,
             IF got = "ok"
             THEN /\ global' = global \cup {q}
                  /\ connector' = [connector EXCEPT ![a].local = @ \cup {q},
                                     ![a].handles[q] = IF op[a].create THEN @ ELSE "live"]
                  /\ op' = [op EXCEPT ![a].at = "getter"]
             ELSE /\ op' = [op EXCEPT ![a].at = "done", ![a].got = got]
                  /\ UNCHANGED <<connector, global>>
      PROVE  Declares'
  <2>0. views' \subseteq Queries
    <3> HIDE DEF q
    <3> QED
      BY <1>1, <1>7, MigrateViews
  <2>1. CASE got = "ok"
    BY <1>4, <1>7, <2>0, <2>1
  <2>2. CASE got # "ok"
    <3>1. got \in {"network", "unsupported", "not_found"}
      BY <1>7, <2>2, Answers
    <3> QED
      BY <1>5, <1>7, <2>0, <2>2, <3>1
  <2> QED
    BY <2>1, <2>2
<1> QED
  BY <1>3, <1>6, <1>7

LEMMA get_noria_view_Declares ==
  ASSUME Declares, NEW a \in Actors, get_noria_view(a)
  PROVE  Declares'
<1> DEFINE q == op[a].query
           o == op[a]
           k == connector[a]
           cached == connector[a].handles[q] # "none" /\ q \notin connector[a].failed
<1>1. /\ Asks(o) /\ q \in Queries /\ o \in OpType /\ k \in ConnectorType
      /\ op \in [Actors -> OpType] /\ connector \in [Actors -> ConnectorType]
      /\ global \subseteq Queries /\ views \subseteq Queries
  <2>1. o.at = "getter"
    BY DEF get_noria_view
  <2>2. /\ op \in [Actors -> OpType] /\ Named(o) /\ o \in OpType
        /\ connector \in [Actors -> ConnectorType] /\ k \in ConnectorType
        /\ global \subseteq Queries /\ views \subseteq Queries
    BY DEF Declares, Types, OpTypes
  <2> QED
    BY <2>1, <2>2 DEF Asks, Named, OpType
<1>2. UNCHANGED Unmoved /\ global' = global /\ views' = views
  BY DEF get_noria_view, Unmoved
<1>3. PICK got \in {"ok"} \cup Find(q) :
        /\ connector' =
             [connector EXCEPT
               ![a].failed = @ \ {q},
               ![a].handles[q] = IF cached THEN @
                                 ELSE IF got = "ok" THEN "live" ELSE "none",
               ![a].stored = IF got = "ok" /\ Stored(a)
                             THEN [@ EXCEPT ![op[a].id] = q] ELSE @]
        /\ op' = [op EXCEPT
             ![a].at = IF got = "ok" /\ op[a].do \in Reads THEN "read" ELSE "done",
             ![a].got = got]
  BY DEF get_noria_view
<1>4. got \in {"ok", "network", "not_found"}
  BY <1>3, Answers
<1> DEFINE at == IF got = "ok" /\ o.do \in Reads THEN "read" ELSE "done"
           p == [o EXCEPT !.at = at, !.got = got]
           stores == got = "ok" /\ Stored(a)
           n == [k EXCEPT !.failed = @ \ {q},
                          !.handles[q] = IF cached THEN @
                                         ELSE IF got = "ok" THEN "live" ELSE "none",
                          !.stored = IF stores THEN [@ EXCEPT ![o.id] = q] ELSE @]
<1>5. op' = [op EXCEPT ![a] = p]
  BY <1>1, <1>3
<1>6. connector' = [connector EXCEPT ![a] = n]
  BY <1>1, <1>3
<1>7. /\ p \in OpType
      /\ Fields(p, o.do, at, o.query, o.id, o.create, o.status, o.reset, o.always, got)
  <2>1. got \in Gots /\ at \in Ats
    BY <1>4, Places
  <2> HIDE DEF at
  <2> QED
    BY <1>1, <2>1, GoesOnWith
<1>8. /\ n \in ConnectorType
      /\ n.stored = IF stores THEN [k.stored EXCEPT ![o.id] = q] ELSE k.stored
  <2> HIDE DEF k, q, cached, stores, o
  <2> QED
    BY <1>1 DEF ConnectorType
<1>9. p.at = at /\ p.got = got
  BY <1>7 DEF Fields
<1> HIDE DEF p, n
<1>10. Advances(a, p, n)
  <2>1. a \in Conns /\ o.do \in {"prepare", "update"} /\ p.got = "ok" => n.stored[o.id] = q
    <3>1. SUFFICES ASSUME a \in Conns, o.do \in {"prepare", "update"}, p.got = "ok"
                   PROVE  n.stored[o.id] = q
      OBVIOUS
    <3>2. stores
      BY <1>9, <3>1 DEF Stored
    <3>3. o.id \in 1..MaxPrepared
      <4>1. ConnOk(o, statements[a], k.stored, proxy_state[a], KnownIn(statuses), declared)
        BY <3>1 DEF Declares, Own
      <4>2. statements[a] \in Statements /\ o.at # "insert"
        BY <1>1, <3>1 DEF Declares, Types, Asks
      <4> QED
        BY <3>1, <4>1, <4>2, PreparesAt
    <3>4. k.stored \in [1..MaxPrepared -> Queries \cup {None}]
      BY <1>1 DEF ConnectorType
    <3> QED
      BY <1>8, <3>2, <3>3, <3>4
  <2>2. p.at \in {"read", "done"} /\ p.got \in Outcomes /\ (p.at = "read" => o.do \in Reads)
    BY <1>4, <1>9 DEF Outcomes
  <2>3. \/ n.stored = k.stored
        \/ Stored(a) /\ n.stored = [k.stored EXCEPT ![o.id] = q]
    BY <1>8
  <2>4. Fields(p, o.do, p.at, o.query, o.id, o.create, o.status, o.reset, o.always, p.got)
    BY <1>7, <1>9
  <2> QED
    BY <1>1, <2>1, <2>2, <2>3, <2>4 DEF Advances
<1> QED
  BY <1>1, <1>2, <1>5, <1>6, <1>7, <1>8, <1>10, ConnectorStep

LEMMA do_read_Declares ==
  ASSUME Declares, NEW a \in Actors, do_read(a)
  PROVE  Declares'
<1> DEFINE q == op[a].query
           o == op[a]
           k == connector[a]
<1>1. /\ Asks(o) /\ q \in Queries /\ o \in OpType /\ k \in ConnectorType
      /\ op \in [Actors -> OpType] /\ connector \in [Actors -> ConnectorType]
      /\ global \subseteq Queries /\ views \subseteq Queries
  <2>1. o.at = "read"
    BY DEF do_read
  <2>2. /\ op \in [Actors -> OpType] /\ Named(o) /\ o \in OpType
        /\ connector \in [Actors -> ConnectorType] /\ k \in ConnectorType
        /\ global \subseteq Queries /\ views \subseteq Queries
    BY DEF Declares, Types, OpTypes
  <2> QED
    BY <2>1, <2>2 DEF Asks, Named, OpType
<1>2. UNCHANGED Unmoved /\ global' = global /\ views' = views
  BY DEF do_read, Unmoved
<1>3. PICK got \in Readable(a) :
        /\ op' = [op EXCEPT ![a].at = "done", ![a].got = got]
        /\ connector' = [connector EXCEPT ![a].failed =
             IF got \in {"network", "destroyed"} THEN @ \cup {q} ELSE @]
  BY DEF do_read
<1>4. got \in Gots /\ (o.do = "query" => got \in Outcomes)
  BY <1>3 DEF Readable, Gots, Failures, Outcomes
<1> DEFINE p == [o EXCEPT !.at = "done", !.got = got]
           n == [k EXCEPT !.failed = IF got \in {"network", "destroyed"} THEN @ \cup {q} ELSE @]
<1>5. op' = [op EXCEPT ![a] = p] /\ connector' = [connector EXCEPT ![a] = n]
  BY <1>1, <1>3
<1>6. /\ p \in OpType
      /\ Fields(p, o.do, "done", o.query, o.id, o.create, o.status, o.reset, o.always, got)
  BY <1>1, <1>4, Places, GoesOnWith
<1>7. n \in ConnectorType /\ n.stored = k.stored
  <2> HIDE DEF k, q
  <2> QED
    BY <1>1 DEF ConnectorType
<1>8. p.at = "done" /\ p.got = got
  BY <1>6 DEF Fields
<1> HIDE DEF p, n
<1>9. a \in Conns => o.do \notin {"prepare", "update"}
  <2>1. ASSUME a \in Conns PROVE ReadsOk(o, statements[a], proxy_state[a], declared)
    BY <2>1 DEF Declares, Own, ConnOk
  <2>2. o.at = "read"
    BY DEF do_read
  <2> QED
    BY <2>1, <2>2 DEF ReadsOk, Reads
<1>10. Advances(a, p, n)
  BY <1>1, <1>4, <1>6, <1>7, <1>8, <1>9 DEF Advances
<1> QED
  BY <1>1, <1>2, <1>5, <1>6, <1>7, <1>10, ConnectorStep

-----------------------------------------------------------------------------
(* The statements of a client.                                             *)

\* A step of a client: its operation becomes o, its statements ss.
LEMMA ClientStep ==
  ASSUME Declares, NEW c \in Conns, NEW o \in OpType, NEW ss \in Statements,
         op' = [op EXCEPT ![c] = o], statements' = [statements EXCEPT ![c] = ss],
         Named(o),
         connector' \in [Actors -> ConnectorType],
         \A b \in Conns : connector'[b].stored = connector[b].stored,
         Becomes(statuses, statuses', declared'), declared \subseteq declared',
         global' \subseteq Queries, views' \subseteq Queries,
         UNCHANGED <<env, proxy_state, Background>>,
         ConnOk(o, ss, connector[c].stored, proxy_state[c], KnownIn(statuses'), declared')
  PROVE  Declares'
<1>0. /\ OpTypes /\ statements \in [Conns -> Statements] /\ c \in Actors /\ Conns \subseteq Actors
  BY DEF Declares, Types, Actors
<1>1. OpTypes' /\ op'[c] = o /\ \A b \in Actors \ {c} : op'[b] = op[b]
  BY <1>0, OpReplaced
<1>2. /\ statements' \in [Conns -> Statements]
      /\ statements'[c] = ss /\ \A b \in Conns \ {c} : statements'[b] = statements[b]
  BY <1>0
<1>3. /\ deployment' = deployment /\ proxy_state' = proxy_state
      /\ to_process' = to_process /\ start_time' = start_time
  BY DEF env, Background
<1>4. Types'
  <2>1. statuses' \in Caches
    BY DEF Becomes
  <2> QED
    BY <1>1, <1>2, <1>3, <2>1 DEF Declares, Types
<1>5. \A b \in Conns \ {c} : SameOwn(b)
  BY <1>0, <1>1, <1>2, <1>3 DEF SameOwn
<1>6. Own(c)'
  BY <1>1, <1>2, <1>3 DEF Own
<1> QED
  BY <1>4, <1>5, <1>6, ConnectionStep

\* What holds of a connection that is free to send, or whose operation ends.
LEMMA OwnStatements ==
  ASSUME Declares, NEW c \in Conns
  PROVE  /\ c \in Actors /\ op \in [Actors -> OpType] /\ op[c] \in OpType
         /\ statements \in [Conns -> Statements] /\ statements[c] \in Statements
         /\ connector \in [Actors -> ConnectorType] /\ connector[c] \in ConnectorType
         /\ connector[c].stored \in [1..MaxPrepared -> Queries \cup {None}]
         /\ statuses \in Caches /\ global \subseteq Queries /\ views \subseteq Queries
         /\ deployment.queries \subseteq Queries
         /\ op[c].do \notin {"idle", "panicked", "drop_all"} => op[c].query \in Queries
         /\ StatementsOk(statements[c], connector[c].stored, KnownIn(statuses), declared)
         /\ PreparesOk(op[c], statements[c], connector[c].stored, KnownIn(statuses), declared)
         /\ ReadsOk(op[c], statements[c], proxy_state[c], declared)
         /\ DOMAIN statements[c] = 1..Len(statements[c]) /\ Len(statements[c]) \in Nat
         /\ Len(statements[c]) <= MaxPrepared
         /\ [statements EXCEPT ![c] = statements[c]] = statements
         /\ [op EXCEPT ![c] = op[c]] = op
<1>1. /\ c \in Actors /\ op \in [Actors -> OpType] /\ op[c] \in OpType
      /\ statements \in [Conns -> Statements] /\ statements[c] \in Statements
      /\ connector \in [Actors -> ConnectorType] /\ connector[c] \in ConnectorType
      /\ statuses \in Caches /\ global \subseteq Queries /\ views \subseteq Queries
      /\ deployment \in Deployments
  BY DEF Declares, Types, OpTypes, Actors
<1>2. connector[c].stored \in [1..MaxPrepared -> Queries \cup {None}]
  BY <1>1 DEF ConnectorType
<1>3. deployment.queries \subseteq Queries
  BY <1>1, AdapterAssumption
<1>4. /\ StatementsOk(statements[c], connector[c].stored, KnownIn(statuses), declared)
      /\ PreparesOk(op[c], statements[c], connector[c].stored, KnownIn(statuses), declared)
      /\ ReadsOk(op[c], statements[c], proxy_state[c], declared)
  BY DEF Declares, Own, ConnOk
<1>5. /\ DOMAIN statements[c] = 1..Len(statements[c]) /\ Len(statements[c]) \in Nat
      /\ Len(statements[c]) <= MaxPrepared
  BY <1>1, <1>4, SMTT(30) DEF PreparesOk, Statements
<1>6. [statements EXCEPT ![c] = statements[c]] = statements /\ [op EXCEPT ![c] = op[c]] = op
  BY <1>1
<1>7. op[c].do \notin {"idle", "panicked", "drop_all"} => op[c].query \in Queries
  <2>1. Named(op[c]) /\ op[c].query \in Queries \cup {None}
    BY <1>1 DEF Declares, Types, OpTypes, OpType
  <2> QED
    BY <2>1 DEF Named
<1> QED
  BY <1>1, <1>2, <1>3, <1>4, <1>5, <1>6, <1>7

\* query_adhoc_select up to its request.
LEMMA AdHocSelectBegins ==
  ASSUME Declares, NEW c \in Conns, NEW q \in Queries, NEW status \in Status, NEW elapsed,
         AdHocSelect(c, q, status, elapsed), NEW known, NEW dc,
         status.always => q \in dc,
         StatementsOk(statements[c], connector[c].stored, known, dc)
  PROVE  \E o \in OpType :
           /\ op' = [op EXCEPT ![c] = o] /\ Named(o) /\ o.at # "insert"
           /\ ConnOk(o, statements[c], connector[c].stored, proxy_state[c], known, dc)
<1>0. Len(statements[c]) <= MaxPrepared
  BY OwnStatements
<1> DEFINE o == [Go("query", "view", q) EXCEPT
                   !.create = style = "InRequestPath",
                   !.status = status, !.reset = elapsed = "recovered"]
           create == style = "InRequestPath"
           reset == elapsed = "recovered"
<1>1. CASE op' = [op EXCEPT ![c] = o] /\ (should_proxy(proxy_state[c]) => status.always)
  <2>1. o \in OpType /\ Fields(o, "query", "view", q, 0, create, status, reset, FALSE, "ok")
    BY GoQuery
  <2>2. q # None
    BY AdapterAssumption
  <2> HIDE DEF o
  <2>3. ConnOk(o, statements[c], connector[c].stored, proxy_state[c], known, dc)
    BY <1>0, <1>1, <2>1 DEF ConnOk, PreparesOk, ReadsOk, Fields, Reads
  <2> QED
    BY <1>1, <2>1, <2>2, <2>3 DEF Fields, Named
<1>2. CASE op' = [op EXCEPT ![c] = Idle]
  <2>1. /\ Idle \in OpType /\ Idle.do = "idle" /\ Idle.at = "start"
    BY IdleFields DEF Fields
  <2>2. ConnOk(Idle, statements[c], connector[c].stored, proxy_state[c], known, dc)
    BY <1>0, <2>1, ConnOkPlain
  <2> QED
    BY <1>2, <2>1, <2>2 DEF Asks, Named
<1> QED
  BY <1>1, <1>2 DEF AdHocSelect

\* A query whose status says so was declared.
LEMMA StatusDeclared ==
  ASSUME Declares, NEW q \in Queries, statuses[q] # None
  PROVE  statuses[q] \in Status /\ (statuses[q].always => q \in declared)
BY DEF Declares, Types, Caches, AlwaysIn

\* Nothing is said of any status.
LEMMA StatusesSame ==
  ASSUME Declares, statuses' = statuses, declared' = declared
  PROVE  /\ Becomes(statuses, statuses', declared') /\ KnownIn(statuses') = KnownIn(statuses)
         /\ declared \subseteq declared'
<1>1. statuses \in Caches
  BY DEF Declares, Types
<1>2. Becomes(statuses, statuses, declared)
  BY <1>1, KeepsItself DEF Keeps
<1> QED
  BY <1>1, <1>2

LEMMA Query_Declares ==
  ASSUME Declares, NEW c \in Conns, NEW q \in Queries, Query(c, q)
  PROVE  Declares'
<1>1. /\ UNCHANGED <<env, proxy_state, Background>>
      /\ statuses' = statuses /\ global' = global /\ views' = views /\ connector' = connector
      /\ statements' = statements /\ declared' = declared
  BY DEF Query
<1>2. \E o \in OpType :
        /\ op' = [op EXCEPT ![c] = o] /\ Named(o)
        /\ ConnOk(o, statements[c], connector[c].stored, proxy_state[c],
                  KnownIn(statuses), declared)
  <2>1. CASE statuses[q] = None
    <3> DEFINE o == Go("query", "insert", q)
    <3>1. op' = [op EXCEPT ![c] = o]
      BY <2>1 DEF Query
    <3>2. o \in OpType /\ Fields(o, "query", "insert", q, 0, FALSE, None, FALSE, FALSE, "ok")
      BY GoFields DEF Dos, Ats
    <3> HIDE DEF o
    <3>3. ConnOk(o, statements[c], connector[c].stored, proxy_state[c], KnownIn(statuses), declared)
      <4>1. o.do = "query" /\ o.at = "insert"
        BY <3>2 DEF Fields
      <4> QED
        BY <4>1, OwnStatements DEF ConnOk, PreparesOk, ReadsOk
    <3>4. Named(o)
      BY <3>2, AdapterAssumption DEF Named, Fields
    <3> QED
      BY <3>1, <3>2, <3>3, <3>4
  <2>2. CASE statuses[q] # None
    <3>1. PICK elapsed \in Elapsed(statuses[q].execution_info) :
            AdHocSelect(c, q, statuses[q], elapsed)
      BY <2>2 DEF Query
    <3>2. statuses[q] \in Status /\ (statuses[q].always => q \in declared)
      BY <2>2, StatusDeclared
    <3>3. StatementsOk(statements[c], connector[c].stored, KnownIn(statuses), declared)
      BY OwnStatements
    <3> QED
      BY <3>1, <3>2, <3>3, AdHocSelectBegins
  <2> QED
    BY <2>1, <2>2
<1>3. PICK o \in OpType :
        /\ op' = [op EXCEPT ![c] = o] /\ Named(o)
        /\ ConnOk(o, statements[c], connector[c].stored, proxy_state[c],
                  KnownIn(statuses), declared)
  BY <1>2
<1>4. /\ Becomes(statuses, statuses', declared') /\ KnownIn(statuses') = KnownIn(statuses)
      /\ declared \subseteq declared'
  BY <1>1, StatusesSame
<1>5. /\ statements[c] \in Statements /\ statements' = [statements EXCEPT ![c] = statements[c]]
      /\ connector' \in [Actors -> ConnectorType]
      /\ global' \subseteq Queries /\ views' \subseteq Queries
  BY <1>1, OwnStatements
<1> QED
  BY <1>1, <1>3, <1>4, <1>5, ClientStep

LEMMA QueryInserts_Declares ==
  ASSUME Declares, NEW c \in Conns, QueryInserts(c)
  PROVE  Declares'
<1> DEFINE q == op[c].query
<1>1. /\ UNCHANGED <<env, proxy_state, Background>>
      /\ global' = global /\ views' = views /\ connector' = connector
      /\ statements' = statements /\ declared' = declared
      /\ statuses' = insert(statuses, q)
      /\ AdHocSelect(c, q, with_migration_state("Pending"), "failing")
  BY DEF QueryInserts
<1>2. q \in Queries
  <2>1. op[c].do = "query"
    BY DEF QueryInserts, Busy
  <2> QED
    BY <2>1, OwnStatements
<1>3. Becomes(statuses, statuses', {}) /\ q \in KnownIn(statuses')
  BY <1>1, <1>2, InsertKeeps, OwnStatements
<1>4. Becomes(statuses, statuses', declared')
  BY <1>1, <1>3 DEF Becomes, Declares
<1>5. StatementsOk(statements[c], connector[c].stored, KnownIn(statuses'), declared')
  BY <1>1, <1>3, OwnStatements DEF Becomes, StatementsOk
<1>6. with_migration_state("Pending") \in Status /\ ~with_migration_state("Pending").always
  BY FreshStatus DEF MigrationState
<1>7. PICK o \in OpType :
        /\ op' = [op EXCEPT ![c] = o] /\ Named(o)
        /\ ConnOk(o, statements[c], connector[c].stored, proxy_state[c],
                  KnownIn(statuses'), declared')
  <2> DEFINE known == KnownIn(statuses')
             dc == declared'
             s == with_migration_state("Pending")
  <2>1. s \in Status /\ (s.always => q \in dc)
    BY <1>6
  <2>2. AdHocSelect(c, q, s, "failing") /\ StatementsOk(statements[c], connector[c].stored, known, dc)
    BY <1>1, <1>5
  <2> HIDE DEF known, dc, s
  <2>3. \E o \in OpType :
          /\ op' = [op EXCEPT ![c] = o] /\ Named(o)
          /\ ConnOk(o, statements[c], connector[c].stored, proxy_state[c], known, dc)
    BY <1>2, <2>1, <2>2, AdHocSelectBegins
  <2> QED
    BY <2>3 DEF known, dc
<1>8. /\ statements[c] \in Statements /\ statements' = [statements EXCEPT ![c] = statements[c]]
      /\ connector' \in [Actors -> ConnectorType]
      /\ global' \subseteq Queries /\ views' \subseteq Queries /\ declared \subseteq declared'
  BY <1>1, OwnStatements
<1> QED
  BY <1>1, <1>4, <1>7, <1>8, ClientStep

\* The status as the outcome of the read changes it.
LEMMA AfterReadType ==
  ASSUME NEW status \in Status, NEW got \in Outcomes
  PROVE  AfterRead(status, got) \in Status /\ AfterRead(status, got).always = status.always
<1> DEFINE info == IF status.execution_info = None THEN "Failed" ELSE status.execution_info
<1>1. info \in ExecutionState \cup {None}
  BY DEF Status, ExecutionState
<1> HIDE DEF info
<1>2. CASE got = "ok"
  <2>1. AfterRead(status, got) = [status EXCEPT !.migration_state = "Successful",
                                                !.execution_info = "Successful"]
    BY <1>2 DEF AfterRead
  <2> QED
    BY <2>1 DEF Status, MigrationState, ExecutionState
<1>3. CASE got = "network"
  <2>1. AfterRead(status, got) = [status EXCEPT !.execution_info = "NetworkFailure"]
    BY <1>3 DEF AfterRead
  <2> QED
    BY <2>1 DEF Status, MigrationState, ExecutionState
<1>4. CASE got = "destroyed"
  <2>1. AfterRead(status, got) = [status EXCEPT !.execution_info = "Dropped"]
    BY <1>4 DEF AfterRead
  <2> QED
    BY <2>1 DEF Status, MigrationState, ExecutionState
<1>5. CASE got = "not_found"
  <2>1. AfterRead(status, got) = [status EXCEPT !.migration_state = "Pending",
                                                !.execution_info = info]
    BY <1>5 DEF AfterRead, info
  <2> QED
    BY <1>1, <2>1 DEF Status, MigrationState
<1>6. CASE got = "unsupported"
  <2>1. AfterRead(status, got) = [status EXCEPT !.migration_state = "Unsupported",
                                                !.execution_info = info]
    BY <1>6 DEF AfterRead, info
  <2> QED
    BY <1>1, <2>1 DEF Status, MigrationState
<1>7. CASE got = "missing_key"
  <2>1. AfterRead(status, got) = [status EXCEPT !.execution_info = info]
    BY <1>7 DEF AfterRead, info
  <2> QED
    BY <1>1, <2>1 DEF Status, MigrationState
<1> QED
  BY <1>2, <1>3, <1>4, <1>5, <1>6, <1>7 DEF Outcomes

\* A connection whose operation ends is free.
LEMMA FreeAgain ==
  ASSUME NEW ss, NEW st, NEW px, NEW known, NEW dc,
         StatementsOk(ss, st, known, dc), Len(ss) <= MaxPrepared
  PROVE  Idle \in OpType /\ Named(Idle) /\ ConnOk(Idle, ss, st, px, known, dc)
<1>1. Idle \in OpType /\ Idle.do = "idle" /\ Idle.at = "start"
  BY IdleFields DEF Fields
<1> QED
  BY <1>1, ConnOkPlain DEF Named, Asks

\* Statements stay good while queries become known and declared.
LEMMA StatementsMonotone ==
  ASSUME Declares, NEW c \in Conns, KnownIn(statuses) \subseteq KnownIn(statuses'),
         declared \subseteq declared'
  PROVE  /\ StatementsOk(statements[c], connector[c].stored, KnownIn(statuses'), declared')
         /\ Len(statements[c]) <= MaxPrepared
BY OwnStatements DEF StatementsOk

LEMMA QueryReturns_Keeps ==
  ASSUME Declares, NEW c \in Conns, QueryReturns(c)
  PROVE  Keeps(statuses, statuses', declared')
<1> DEFINE q == op[c].query
           old == op[c].status
           status == AfterRead(op[c].status, op[c].got)
           none == {}
           new == IF status.always THEN {q} ELSE {}
<1>1. /\ op[c].do = "query" /\ op[c].at = "done" /\ declared' = declared
      /\ statuses' = IF status # old \/ op[c].reset
                     THEN update_query_status(statuses, q, status) ELSE statuses
  BY DEF QueryReturns, Busy
<1>2. /\ q \in Queries /\ old \in Status /\ (old.always => q \in declared)
      /\ op[c].got \in Outcomes /\ statuses \in Caches
  BY <1>1, OwnStatements DEF ReadsOk
<1>3. status \in Status /\ status.always = old.always
  BY <1>2, AfterReadType
<1> HIDE DEF q, old, status
<1>4. Keeps(statuses, update_query_status(statuses, q, status), new)
  BY <1>2, <1>3, StatusKeeps
<1>5. Keeps(statuses, statuses, none)
  BY <1>2, KeepsItself
<1>6. none \subseteq declared' /\ new \subseteq declared'
  BY <1>1, <1>2, <1>3
<1> HIDE DEF none, new
<1>7. /\ Keeps(statuses, update_query_status(statuses, q, status), declared')
      /\ Keeps(statuses, statuses, declared')
  BY <1>4, <1>5, <1>6, KeepsWithin
<1> QED
  BY <1>1, <1>7

LEMMA QueryReturns_Declares ==
  ASSUME Declares, NEW c \in Conns, QueryReturns(c)
  PROVE  Declares'
<1> DEFINE q == op[c].query
           old == op[c].status
<1>1. /\ UNCHANGED <<env, proxy_state, Background>>
      /\ global' = global /\ views' = views /\ connector' = connector
      /\ statements' = statements /\ declared' = declared
      /\ op' = [op EXCEPT ![c] = Idle]
      /\ op[c].do = "query" /\ op[c].at = "done"
  BY DEF QueryReturns, Busy
<1>4. Becomes(statuses, statuses', declared')
  BY QueryReturns_Keeps DEF Keeps
<1>5. declared \subseteq declared'
  BY <1>1
<1>6. /\ Idle \in OpType /\ Named(Idle)
      /\ ConnOk(Idle, statements[c], connector[c].stored, proxy_state[c],
                KnownIn(statuses'), declared')
  BY <1>4, <1>5, StatementsMonotone, FreeAgain DEF Becomes
<1>7. /\ statements[c] \in Statements /\ statements' = [statements EXCEPT ![c] = statements[c]]
      /\ connector' \in [Actors -> ConnectorType]
      /\ global' \subseteq Queries /\ views' \subseteq Queries
  BY <1>1, OwnStatements
<1> QED
  BY <1>1, <1>4, <1>5, <1>6, <1>7, ClientStep

-----------------------------------------------------------------------------
(* Prepared statements.                                                    *)

\* A client's step that changes its operation and its statements alone.
LEMMA StatementStep ==
  ASSUME Declares, NEW c \in Conns, NEW o \in OpType, NEW ss \in Statements,
         op' = [op EXCEPT ![c] = o], statements' = [statements EXCEPT ![c] = ss],
         Named(o), views' \subseteq Queries,
         UNCHANGED <<env, statuses, global, connector, proxy_state, declared,
                     Background>>,
         ConnOk(o, ss, connector[c].stored, proxy_state[c], KnownIn(statuses), declared)
  PROVE  Declares'
<1>1. /\ UNCHANGED <<env, proxy_state, Background>>
      /\ statuses' = statuses /\ global' = global /\ connector' = connector
      /\ declared' = declared
  OBVIOUS
<1>2. /\ Becomes(statuses, statuses', declared') /\ KnownIn(statuses') = KnownIn(statuses)
      /\ declared \subseteq declared'
  BY <1>1, StatusesSame
<1>3. connector' \in [Actors -> ConnectorType] /\ global' \subseteq Queries
  BY <1>1, OwnStatements
<1> QED
  BY <1>1, <1>2, <1>3, ClientStep

\* What StatementsOk says of one statement.
Sound(s, stored, known, dc) ==
  /\ s.query # None => s.query \in known
  /\ s.prep = "Both" => s.query # None /\ stored = s.query
  /\ s.always => s.query \in dc

\* A statement is added.
LEMMA StatementAdded ==
  ASSUME NEW ss \in Statements, NEW s \in StatementType, NEW st, NEW known, NEW dc,
         StatementsOk(ss, st, known, dc), Sound(s, st[Len(ss) + 1], known, dc)
  PROVE  /\ Append(ss, s) \in Statements /\ Len(Append(ss, s)) = Len(ss) + 1
         /\ StatementsOk(Append(ss, s), st, known, dc)
<1>1. Append(ss, s) \in Statements /\ Len(Append(ss, s)) = Len(ss) + 1
  BY SMTT(30) DEF Statements
<1>2. /\ DOMAIN Append(ss, s) = 1..Len(ss) + 1 /\ Len(ss) \in Nat /\ DOMAIN ss = 1..Len(ss)
      /\ \A i \in DOMAIN Append(ss, s) :
           Append(ss, s)[i] = IF i = Len(ss) + 1 THEN s ELSE ss[i]
  BY SMTT(30) DEF Statements
<1> DEFINE new == Append(ss, s)
<1> HIDE DEF new
<1>3. /\ DOMAIN new = 1..Len(ss) + 1 /\ Len(ss) \in Nat /\ DOMAIN ss = 1..Len(ss)
      /\ \A i \in DOMAIN new : new[i] = IF i = Len(ss) + 1 THEN s ELSE ss[i]
  BY <1>2 DEF new
<1>4. \A i \in DOMAIN new : i = Len(ss) + 1 \/ i \in DOMAIN ss
  BY <1>3, SMTT(30)
<1>5. StatementsOk(new, st, known, dc)
  BY <1>3, <1>4 DEF StatementsOk, Sound
<1> QED
  BY <1>1, <1>5 DEF new

\* A statement is replaced.
LEMMA StatementReplaced ==
  ASSUME NEW ss \in Statements, NEW s \in StatementType, NEW i \in DOMAIN ss,
         NEW st, NEW known, NEW dc,
         StatementsOk(ss, st, known, dc), Sound(s, st[i], known, dc)
  PROVE  /\ [ss EXCEPT ![i] = s] \in Statements /\ Len([ss EXCEPT ![i] = s]) = Len(ss)
         /\ DOMAIN [ss EXCEPT ![i] = s] = DOMAIN ss
         /\ StatementsOk([ss EXCEPT ![i] = s], st, known, dc)
<1> DEFINE new == [ss EXCEPT ![i] = s]
<1>1. new \in Statements /\ Len(new) = Len(ss) /\ DOMAIN new = DOMAIN ss
  BY SMTT(30) DEF Statements
<1>2. \A j \in DOMAIN ss : new[j] = IF j = i THEN s ELSE ss[j]
  OBVIOUS
<1> HIDE DEF new
<1>3. StatementsOk(new, st, known, dc)
  BY <1>1, <1>2 DEF StatementsOk, Sound
<1> QED
  BY <1>1, <1>3 DEF new

LEMMA PrepareUpstream_Declares ==
  ASSUME Declares, NEW c \in Conns, PrepareUpstream(c)
  PROVE  Declares'
<1> DEFINE ss == Append(statements[c], NoStatement)
<1>1. /\ UNCHANGED <<env, statuses, global, connector, proxy_state, declared, Background>>
      /\ views' = views /\ op' = op /\ statements' = [statements EXCEPT ![c] = ss]
      /\ op[c].do = "idle" /\ Len(statements[c]) + 1 <= MaxPrepared
  BY DEF PrepareUpstream, Push, Sends, next_prepared_id
<1>2. /\ NoStatement \in StatementType /\ NoStatement.query = None
      /\ NoStatement.prep # "Both" /\ ~NoStatement.always
  BY DEF NoStatement, StatementType, MigrationState
<1>3. /\ ss \in Statements /\ Len(ss) = Len(statements[c]) + 1
      /\ StatementsOk(ss, connector[c].stored, KnownIn(statuses), declared)
  <2> DEFINE s == NoStatement
             st == connector[c].stored
             known == KnownIn(statuses)
  <2>1. s \in StatementType /\ Sound(s, st[Len(statements[c]) + 1], known, declared)
    BY <1>2 DEF Sound
  <2>2. statements[c] \in Statements /\ StatementsOk(statements[c], st, known, declared)
    BY OwnStatements
  <2> HIDE DEF s, st, known
  <2>3. /\ Append(statements[c], s) \in Statements
        /\ Len(Append(statements[c], s)) = Len(statements[c]) + 1
        /\ StatementsOk(Append(statements[c], s), st, known, declared)
    BY <2>1, <2>2, StatementAdded
  <2> QED
    BY <2>3 DEF s, st, known
<1> HIDE DEF ss
<1>4. /\ op[c] \in OpType /\ op' = [op EXCEPT ![c] = op[c]] /\ Named(op[c])
      /\ views' \subseteq Queries
  BY <1>1, OwnStatements DEF Declares, Types, OpTypes
<1>5. ConnOk(op[c], ss, connector[c].stored, proxy_state[c], KnownIn(statuses), declared)
  BY <1>1, <1>3, OwnStatements DEF ConnOk, PreparesOk, ReadsOk, Reads
<1> QED
  BY <1>1, <1>3, <1>4, <1>5, StatementStep

\* plan_prepare_select and mirror_prepare up to their requests.
LEMMA PlanPrepareBegins ==
  ASSUME Declares, NEW c \in Conns, NEW q \in Queries, NEW status \in Status,
         PlanPrepare(c, q, status), Len(statements[c]) + 1 <= MaxPrepared,
         NEW known, NEW dc, status.always => q \in dc, q \in known,
         StatementsOk(statements[c], connector[c].stored, known, dc)
  PROVE  \E o \in OpType :
           /\ op' = [op EXCEPT ![c] = o] /\ Named(o) /\ o.at # "insert"
           /\ ConnOk(o, statements[c], connector[c].stored, proxy_state[c], known, dc)
<1> DEFINE do_noria == status.migration_state # "Unsupported"
           at == IF do_noria THEN "view" ELSE "done"
           id == next_prepared_id(c)
           create == style = "InRequestPath"
           always == status.always
           got == IF do_noria THEN "ok" ELSE "skipped"
           o == [Go("prepare", at, q) EXCEPT !.id = id, !.create = create,
                                             !.always = always, !.got = got]
<1>1. op' = [op EXCEPT ![c] = o]
  BY DEF PlanPrepare
<1>2. /\ at \in Ats /\ at \in {"view", "done"} /\ got \in Gots /\ (at = "done" => got # "ok")
      /\ create \in BOOLEAN /\ always \in BOOLEAN
  BY DEF Ats, Gots, Status
<1>3. id = Len(statements[c]) + 1 /\ id \in 0..MaxPrepared /\ Len(statements[c]) <= MaxPrepared
  BY OwnStatements, AdapterAssumption, SMTT(30) DEF next_prepared_id
<1>4. always => q \in dc
  OBVIOUS
<1> HIDE DEF do_noria, at, id, create, always, got
<1>5. o \in OpType /\ Fields(o, "prepare", at, q, id, create, None, FALSE, always, got)
  BY <1>2, <1>3, GoPrepare
<1> HIDE DEF o
<1>6. PreparesOk(o, statements[c], connector[c].stored, known, dc)
  BY <1>2, <1>3, <1>4, <1>5 DEF PreparesOk, Fields
<1>7. ReadsOk(o, statements[c], proxy_state[c], dc)
  BY <1>2, <1>5 DEF ReadsOk, Fields, Reads
<1>8. Named(o) /\ o.at # "insert"
  BY <1>2, <1>5, AdapterAssumption DEF Named, Fields
<1> QED
  BY <1>1, <1>5, <1>6, <1>7, <1>8 DEF ConnOk

LEMMA Prepare_Declares ==
  ASSUME Declares, NEW c \in Conns, NEW q \in Queries, Prepare(c, q)
  PROVE  Declares'
<1>1. /\ UNCHANGED <<env, statuses, global, connector, proxy_state, declared, Background>>
      /\ views' = views /\ statements' = statements
      /\ Len(statements[c]) + 1 <= MaxPrepared
  BY DEF Prepare, next_prepared_id
<1>2. PICK o \in OpType :
        /\ op' = [op EXCEPT ![c] = o] /\ Named(o)
        /\ ConnOk(o, statements[c], connector[c].stored, proxy_state[c],
                  KnownIn(statuses), declared)
  <2>1. CASE statuses[q] = None
    <3> DEFINE o == Go("prepare", "insert", q)
    <3>1. op' = [op EXCEPT ![c] = o]
      BY <2>1 DEF Prepare
    <3>2. o \in OpType /\ Fields(o, "prepare", "insert", q, 0, FALSE, None, FALSE, FALSE, "ok")
      BY GoFields DEF Dos, Ats
    <3> HIDE DEF o
    <3>3. ConnOk(o, statements[c], connector[c].stored, proxy_state[c], KnownIn(statuses), declared)
      <4>1. o.do = "prepare" /\ o.at = "insert"
        BY <3>2 DEF Fields
      <4> QED
        BY <1>1, <4>1, OwnStatements DEF ConnOk, PreparesOk, ReadsOk, Reads
    <3>4. Named(o)
      BY <3>2, AdapterAssumption DEF Named, Fields
    <3> QED
      BY <3>1, <3>2, <3>3, <3>4
  <2>2. CASE statuses[q] # None
    <3>1. PlanPrepare(c, q, statuses[q])
      BY <2>2 DEF Prepare
    <3>2. statuses[q] \in Status /\ (statuses[q].always => q \in declared)
      BY <2>2, StatusDeclared
    <3>3. /\ StatementsOk(statements[c], connector[c].stored, KnownIn(statuses), declared)
          /\ q \in KnownIn(statuses)
      BY <2>2, OwnStatements DEF KnownIn
    <3> QED
      BY <1>1, <3>1, <3>2, <3>3, PlanPrepareBegins
  <2> QED
    BY <2>1, <2>2
<1>3. /\ statements[c] \in Statements /\ statements' = [statements EXCEPT ![c] = statements[c]]
      /\ views' \subseteq Queries
  BY <1>1, OwnStatements
<1> QED
  BY <1>1, <1>2, <1>3, StatementStep

LEMMA PrepareInserts_Declares ==
  ASSUME Declares, NEW c \in Conns, PrepareInserts(c)
  PROVE  Declares'
<1> DEFINE q == op[c].query
<1>1. /\ UNCHANGED <<env, proxy_state, Background>>
      /\ global' = global /\ views' = views /\ connector' = connector
      /\ statements' = statements /\ declared' = declared
      /\ statuses' = insert(statuses, q)
      /\ PlanPrepare(c, q, with_migration_state("Pending"))
      /\ op[c].do = "prepare"
  BY DEF PrepareInserts, Busy
<1>2. q \in Queries /\ Len(statements[c]) + 1 <= MaxPrepared
  BY <1>1, OwnStatements DEF PreparesOk
<1>3. Becomes(statuses, statuses', {}) /\ q \in KnownIn(statuses')
  BY <1>1, <1>2, InsertKeeps, OwnStatements
<1>4. Becomes(statuses, statuses', declared')
  BY <1>1, <1>3 DEF Becomes, Declares
<1>5. StatementsOk(statements[c], connector[c].stored, KnownIn(statuses'), declared')
  BY <1>1, <1>3, OwnStatements DEF Becomes, StatementsOk
<1>6. with_migration_state("Pending") \in Status /\ ~with_migration_state("Pending").always
  BY FreshStatus DEF MigrationState
<1>7. PICK o \in OpType :
        /\ op' = [op EXCEPT ![c] = o] /\ Named(o)
        /\ ConnOk(o, statements[c], connector[c].stored, proxy_state[c],
                  KnownIn(statuses'), declared')
  <2> DEFINE known == KnownIn(statuses')
             dc == declared'
             s == with_migration_state("Pending")
  <2>1. s \in Status /\ (s.always => q \in dc)
    BY <1>6
  <2>2. /\ PlanPrepare(c, q, s) /\ StatementsOk(statements[c], connector[c].stored, known, dc)
        /\ q \in known
    BY <1>1, <1>3, <1>5
  <2> HIDE DEF known, dc, s
  <2>3. \E o \in OpType :
          /\ op' = [op EXCEPT ![c] = o] /\ Named(o)
          /\ ConnOk(o, statements[c], connector[c].stored, proxy_state[c], known, dc)
    BY <1>2, <2>1, <2>2, PlanPrepareBegins
  <2> QED
    BY <2>3 DEF known, dc
<1>8. /\ statements[c] \in Statements /\ statements' = [statements EXCEPT ![c] = statements[c]]
      /\ connector' \in [Actors -> ConnectorType]
      /\ global' \subseteq Queries /\ views' \subseteq Queries /\ declared \subseteq declared'
  BY <1>1, OwnStatements
<1> QED
  BY <1>1, <1>4, <1>7, <1>8, ClientStep

\* A verdict on one query, or none.
LEMMA VerdictKeeps ==
  ASSUME Declares, NEW q, NEW dc,
         \/ statuses' = statuses
         \/ \E m \in MigrationState : statuses' = update_query_migration_state(statuses, q, m)
  PROVE  Keeps(statuses, statuses', dc)
<1> DEFINE none == {}
<1>1. statuses \in Caches
  BY DEF Declares, Types
<1>2. \A m \in MigrationState : Keeps(statuses, update_query_migration_state(statuses, q, m), none)
  BY <1>1, MigrationStateKeeps
<1>3. Keeps(statuses, statuses, none)
  BY <1>1, KeepsItself
<1>4. Keeps(statuses, statuses', none)
  BY <1>2, <1>3
<1> QED
  BY <1>4 DEF Keeps, Becomes

LEMMA PrepareReturns_Keeps ==
  ASSUME Declares, NEW c \in Conns, PrepareReturns(c)
  PROVE  Keeps(statuses, statuses', declared')
<1>1. statuses' = statuses \/ \E prepared \in BOOLEAN : statuses' = AfterPrepare(c, prepared)
  BY DEF PrepareReturns
<1>2. \/ statuses' = statuses
      \/ \E m \in MigrationState :
           statuses' = update_query_migration_state(statuses, op[c].query, m)
  <2>1. ASSUME NEW prepared \in BOOLEAN, statuses' = AfterPrepare(c, prepared)
        PROVE  \/ statuses' = statuses
               \/ \E m \in MigrationState :
                    statuses' = update_query_migration_state(statuses, op[c].query, m)
    BY <2>1 DEF AfterPrepare, MigrationState
  <2> QED
    BY <1>1, <2>1
<1> QED
  BY <1>2, VerdictKeeps

LEMMA PrepareReturns_Declares ==
  ASSUME Declares, NEW c \in Conns, PrepareReturns(c)
  PROVE  Declares'
<1> DEFINE q == op[c].query
           s == Prepared(c, statuses'[q].migration_state)
           st == connector[c].stored
           known == KnownIn(statuses')
           dc == declared'
<1>1. /\ UNCHANGED <<env, proxy_state, Background>>
      /\ global' = global /\ views' = views /\ connector' = connector
      /\ declared' = declared
      /\ \/ statements' = statements
         \/ statements' = [statements EXCEPT ![c] = Append(statements[c], s)]
      /\ op' = [op EXCEPT ![c] = Idle]
      /\ op[c].do = "prepare" /\ op[c].at = "done"
  BY DEF PrepareReturns, Busy, Push
<1>2. Becomes(statuses, statuses', declared')
  BY PrepareReturns_Keeps DEF Keeps
<1>3. /\ declared \subseteq declared'
      /\ global' \subseteq Queries /\ views' \subseteq Queries
      /\ connector' \in [Actors -> ConnectorType]
  BY <1>1, OwnStatements DEF Declares
<1>4. StatementsOk(statements[c], st, known, dc) /\ Len(statements[c]) <= MaxPrepared
  BY <1>2, <1>3, StatementsMonotone DEF Becomes
<1>5. /\ q \in KnownIn(statuses) /\ op[c].id = Len(statements[c]) + 1
      /\ (op[c].always => q \in dc) /\ Len(statements[c]) + 1 <= MaxPrepared
      /\ op[c].got = "ok" => st[Len(statements[c]) + 1] = q
  BY <1>1, OwnStatements DEF PreparesOk
<1>6. q \in known /\ q \in Queries /\ q # None
  BY <1>2, <1>5, AdapterAssumption DEF Becomes, KnownIn
<1>7. PICK ss \in Statements :
        /\ statements' = [statements EXCEPT ![c] = ss] /\ Len(ss) <= MaxPrepared
        /\ StatementsOk(ss, st, known, dc)
  <2>1. CASE statements' = statements
    BY <1>4, <2>1, OwnStatements
  <2>2. CASE statements' = [statements EXCEPT ![c] = Append(statements[c], s)]
    <3>1. op[c].always \in BOOLEAN
      BY OwnStatements DEF OpType
    <3>2. statuses'[q].migration_state \in MigrationState
      <4>1. statuses'[q] \in Status
        BY <1>2, <1>6 DEF Becomes, Caches, KnownIn
      <4> QED
        BY <4>1 DEF Status
    <3>3. s \in StatementType
      BY <1>6, <3>1, <3>2 DEF StatementType, Prepared
    <3>4. Sound(s, st[Len(statements[c]) + 1], known, dc)
      BY <1>5, <1>6 DEF Sound, Prepared
    <3> HIDE DEF s, st, known, dc
    <3>5. /\ Append(statements[c], s) \in Statements
          /\ Len(Append(statements[c], s)) = Len(statements[c]) + 1
          /\ StatementsOk(Append(statements[c], s), st, known, dc)
      BY <1>4, <3>3, <3>4, OwnStatements, StatementAdded
    <3> QED
      BY <1>5, <2>2, <3>5
  <2> QED
    BY <1>1, <2>1, <2>2
<1>8. Idle \in OpType /\ Named(Idle) /\ ConnOk(Idle, ss, st, proxy_state[c], known, dc)
  <2> HIDE DEF st, known, dc
  <2> QED
    BY <1>7, FreeAgain
<1> QED
  BY <1>1, <1>2, <1>3, <1>7, <1>8, ClientStep

\* execute reads a query that is not proxied, or that was declared.
LEMMA NotFallback ==
  ASSUME Declares, NEW c \in Conns, NEW s \in StatementType, NEW elapsed,
         Sound(s, s.query, KnownIn(statuses), declared), s.query # None,
         ~should_fallback(c, s, elapsed), should_proxy(proxy_state[c])
  PROVE  s.query \in declared
<1>1. CASE s.always
  BY <1>1 DEF Sound
<1>2. CASE ~s.always
  <2>1. statuses[s.query].always
    BY <1>2 DEF should_fallback
  <2>2. s.query \in KnownIn(statuses)
    BY DEF Sound
  <2>3. s.query \in AlwaysIn(statuses)
    BY <2>1, <2>2 DEF AlwaysIn, KnownIn
  <2> QED
    BY <2>3 DEF Declares
<1> QED
  BY <1>1, <1>2

\* execute, once the statement is as good as it will get.
LEMMA ExecuteBegins ==
  ASSUME Declares, NEW c \in Conns, NEW i \in DOMAIN statements[c], NEW s \in StatementType,
         Sound(s, connector[c].stored[i], KnownIn(statuses), declared), Execute(c, i, s)
  PROVE  \E o \in OpType, ss \in Statements :
           /\ op' = [op EXCEPT ![c] = o] /\ statements' = [statements EXCEPT ![c] = ss]
           /\ Named(o)
           /\ ConnOk(o, ss, connector[c].stored, proxy_state[c], KnownIn(statuses), declared)
<1> DEFINE st == connector[c].stored
           known == KnownIn(statuses)
           info == IF s.execution_info = None THEN "Failed" ELSE s.execution_info
           t == [s EXCEPT !.execution_info = info]
           old == statements[c]
<1>0. /\ old \in Statements /\ StatementsOk(old, st, known, declared) /\ Len(old) <= MaxPrepared
      /\ DOMAIN old = 1..Len(old) /\ Len(old) \in Nat
      /\ statements \in [Conns -> Statements]
  BY OwnStatements
<1>1. PICK elapsed \in Elapsed(s.execution_info) :
        IF s.prep = "Upstream" \/ should_fallback(c, s, elapsed)
        THEN /\ op' = [op EXCEPT ![c] = Idle]
             /\ statements' = [statements EXCEPT ![c][i] = s]
        ELSE /\ op' = [op EXCEPT ![c] = [Go("execute", "getter", st[i]) EXCEPT !.id = i]]
             /\ statements' = [statements EXCEPT ![c][i] =
                  [s EXCEPT !.execution_info = IF @ = None THEN "Failed" ELSE @]]
  BY DEF Execute
<1>2. CASE s.prep = "Upstream" \/ should_fallback(c, s, elapsed)
  <2>1. op' = [op EXCEPT ![c] = Idle] /\ statements' = [statements EXCEPT ![c] = [old EXCEPT ![i] = s]]
    BY <1>1, <1>2
  <2>2. /\ [old EXCEPT ![i] = s] \in Statements /\ Len([old EXCEPT ![i] = s]) = Len(old)
        /\ StatementsOk([old EXCEPT ![i] = s], st, known, declared)
    <3> HIDE DEF st, known
    <3>1. Sound(s, st[i], known, declared)
      BY DEF st, known
    <3> QED
      BY <1>0, <3>1, StatementReplaced
  <2> DEFINE ss == [old EXCEPT ![i] = s]
  <2> HIDE DEF ss
  <2>3. ss \in Statements /\ Len(ss) <= MaxPrepared /\ StatementsOk(ss, st, known, declared)
    BY <1>0, <2>2 DEF ss
  <2>4. Idle \in OpType /\ Named(Idle) /\ ConnOk(Idle, ss, st, proxy_state[c], known, declared)
    <3> HIDE DEF st, known
    <3> QED
      BY <2>3, FreeAgain
  <2> QED
    BY <2>1, <2>3, <2>4 DEF ss
<1>3. CASE ~(s.prep = "Upstream" \/ should_fallback(c, s, elapsed))
  <2> DEFINE o == [Go("execute", "getter", st[i]) EXCEPT !.id = i]
             ss == [old EXCEPT ![i] = t]
  <2>1. op' = [op EXCEPT ![c] = o] /\ statements' = [statements EXCEPT ![c] = ss]
    BY <1>1, <1>3
  <2>2. s.prep = "Both" /\ st[i] = s.query /\ s.query # None /\ s.query \in Queries
    BY <1>3 DEF StatementType, Sound
  <2>3. info \in ExecutionState \cup {None}
    BY DEF StatementType, ExecutionState
  <2> HIDE DEF info
  <2>4. t \in StatementType /\ t.query = s.query /\ t.prep = s.prep /\ t.always = s.always
    BY <2>3 DEF StatementType
  <2> HIDE DEF t
  <2>5. Sound(t, st[i], known, declared)
    BY <2>4 DEF Sound
  <2>6. ss \in Statements /\ Len(ss) = Len(old) /\ StatementsOk(ss, st, known, declared)
        /\ DOMAIN ss = DOMAIN old
    <3> HIDE DEF st, known
    <3> QED
      BY <1>0, <2>4, <2>5, StatementReplaced
  <2>7. i \in 0..MaxPrepared
    BY <1>0, AdapterAssumption, SMTT(30)
  <2>8. o \in OpType /\ Fields(o, "execute", "getter", s.query, i, FALSE, None, FALSE, FALSE, "ok")
    <3> DEFINE flag == FALSE
    <3>1. flag \in BOOLEAN
      OBVIOUS
    <3> HIDE DEF flag
    <3> QED
      BY <2>2, <2>7, <3>1, GoOthers DEF Dos, Ats
  <2>9. should_proxy(proxy_state[c]) => s.query \in declared
    <3>1. Sound(s, s.query, known, declared)
      BY <2>2 DEF Sound
    <3> QED
      BY <1>3, <2>2, <3>1, NotFallback
  <2> HIDE DEF o, ss
  <2>10. PreparesOk(o, ss, st, known, declared)
    BY <1>0, <2>6, <2>8 DEF PreparesOk, Fields
  <2>11. ReadsOk(o, ss, proxy_state[c], declared)
    BY <2>6, <2>8, <2>9 DEF ReadsOk, Fields
  <2>12. Named(o)
    BY <2>2, <2>8 DEF Named, Fields
  <2> QED
    BY <2>1, <2>6, <2>8, <2>10, <2>11, <2>12 DEF ConnOk
<1> QED
  BY <1>2, <1>3

LEMMA ExecuteStatement_Declares ==
  ASSUME Declares, NEW c \in Conns, NEW i \in 1..MaxPrepared, ExecuteStatement(c, i)
  PROVE  Declares'
<1> DEFINE s == statements[c][i]
           st == connector[c].stored
           known == KnownIn(statuses)
<1>1. /\ UNCHANGED <<env, statuses, global, connector, proxy_state, declared, Background>>
      /\ views' = views /\ i <= Len(statements[c])
  BY DEF ExecuteStatement
<1>2. /\ i \in DOMAIN statements[c] /\ s \in StatementType
      /\ statements[c] \in Statements /\ [statements EXCEPT ![c] = statements[c]] = statements
      /\ StatementsOk(statements[c], st, known, declared) /\ Len(statements[c]) <= MaxPrepared
      /\ views' \subseteq Queries
  BY <1>1, OwnStatements, AdapterAssumption, SMTT(30) DEF Statements
<1>3. Sound(s, st[i], known, declared)
  BY <1>2 DEF StatementsOk, Sound
<1>4. \/ op' = [op EXCEPT ![c] = Go("panicked", "start", None)] /\ statements' = statements
      \/ /\ s.query # None /\ statements' = statements
         /\ op' = [op EXCEPT ![c] = [Go("update", "view", s.query) EXCEPT !.id = i]]
      \/ Execute(c, i, s)
  BY DEF ExecuteStatement
<1> HIDE DEF s, st, known
<1>5. \E o \in OpType, ss \in Statements :
        /\ op' = [op EXCEPT ![c] = o] /\ statements' = [statements EXCEPT ![c] = ss]
        /\ Named(o)
        /\ ConnOk(o, ss, st, proxy_state[c], known, declared)
  <2>1. CASE /\ op' = [op EXCEPT ![c] = Go("panicked", "start", None)]
             /\ statements' = statements
    <3> DEFINE o == Go("panicked", "start", None)
    <3>0. o \in OpType /\ Fields(o, "panicked", "start", None, 0, FALSE, None, FALSE, FALSE, "ok")
      <4>1. "panicked" \in Dos /\ "start" \in Ats /\ None \in Queries \cup {None}
        BY DEF Dos, Ats
      <4> QED
        BY <4>1, GoFields
    <3>1. o \in OpType /\ o.do = "panicked" /\ o.at = "start"
      BY <3>0 DEF Fields
    <3> HIDE DEF o
    <3>2. ConnOk(o, statements[c], st, proxy_state[c], known, declared)
      BY <1>2, <3>1, ConnOkPlain
    <3>3. Named(o)
      BY <3>1 DEF Named, Asks
    <3> QED
      BY <1>2, <2>1, <3>1, <3>2, <3>3 DEF o
  <2>2. CASE /\ s.query # None /\ statements' = statements
             /\ op' = [op EXCEPT ![c] = [Go("update", "view", s.query) EXCEPT !.id = i]]
    <3> DEFINE o == [Go("update", "view", s.query) EXCEPT !.id = i]
               flag == FALSE
    <3>1. flag \in BOOLEAN /\ i \in 0..MaxPrepared /\ s.query \in Queries \cup {None}
      BY <1>2, AdapterAssumption, SMTT(30) DEF StatementType
    <3> HIDE DEF flag
    <3>2. o \in OpType /\ Fields(o, "update", "view", s.query, i, FALSE, None, FALSE, FALSE, "ok")
      BY <3>1, GoOthers DEF Dos, Ats
    <3> HIDE DEF o
    <3>3. PreparesOk(o, statements[c], st, known, declared)
      BY <1>2, <2>2, <3>2 DEF PreparesOk, Fields, s
    <3>4. ReadsOk(o, statements[c], proxy_state[c], declared)
      BY <3>2 DEF ReadsOk, Fields, Reads
    <3>5. Named(o)
      BY <2>2, <3>2 DEF Named, Fields
    <3> QED
      BY <1>2, <2>2, <3>2, <3>3, <3>4, <3>5 DEF o, ConnOk
  <2>3. CASE Execute(c, i, s)
    BY <1>2, <1>3, <2>3, ExecuteBegins DEF st, known
  <2> QED
    BY <1>4, <2>1, <2>2, <2>3
<1>6. PICK o \in OpType, ss \in Statements :
        /\ op' = [op EXCEPT ![c] = o] /\ statements' = [statements EXCEPT ![c] = ss]
        /\ Named(o)
        /\ ConnOk(o, ss, st, proxy_state[c], known, declared)
  BY <1>5
<1> QED
  BY <1>1, <1>2, <1>6, StatementStep DEF st, known

LEMMA UpdateReturns_Declares ==
  ASSUME Declares, NEW c \in Conns, UpdateReturns(c)
  PROVE  Declares'
<1> DEFINE i == op[c].id
           old == statements[c][i]
           both == [old EXCEPT !.prep = "Both", !.migration_state = "Successful"]
           s == IF op[c].got = "ok" THEN both ELSE old
           st == connector[c].stored
           known == KnownIn(statuses)
<1>1. /\ UNCHANGED <<env, statuses, global, connector, proxy_state, declared, Background>>
      /\ views' = views /\ op[c].do = "update" /\ op[c].at = "done" /\ Execute(c, i, s)
  BY DEF UpdateReturns, Busy
<1>2. /\ i \in DOMAIN statements[c] /\ old \in StatementType
      /\ old.query = op[c].query /\ old.query # None
      /\ op[c].got = "ok" => st[i] = op[c].query
      /\ StatementsOk(statements[c], st, known, declared)
      /\ views' \subseteq Queries
  <2>1. i \in DOMAIN statements[c] /\ statements[c] \in Statements
    BY <1>1, OwnStatements DEF PreparesOk
  <2>2. old \in StatementType
    BY <2>1, SMTT(30) DEF Statements
  <2>3. /\ old.query = op[c].query /\ old.query # None
        /\ op[c].got = "ok" => st[i] = op[c].query
        /\ StatementsOk(statements[c], st, known, declared)
        /\ views' \subseteq Queries
    BY <1>1, OwnStatements DEF PreparesOk
  <2> QED
    BY <2>1, <2>2, <2>3
<1>3. Sound(old, st[i], known, declared)
  BY <1>2 DEF StatementsOk, Sound
<1> HIDE DEF i, old, st, known
<1>4. /\ both \in StatementType /\ both.query = old.query /\ both.prep = "Both"
      /\ both.always = old.always
  BY <1>2 DEF StatementType, MigrationState
<1> HIDE DEF both
<1>5. s \in StatementType /\ Sound(s, st[i], known, declared)
  BY <1>2, <1>3, <1>4 DEF Sound
<1> HIDE DEF s
<1>6. PICK o \in OpType, ss \in Statements :
        /\ op' = [op EXCEPT ![c] = o] /\ statements' = [statements EXCEPT ![c] = ss]
        /\ Named(o)
        /\ ConnOk(o, ss, st, proxy_state[c], known, declared)
  BY <1>1, <1>2, <1>5, ExecuteBegins DEF st, known
<1> QED
  BY <1>1, <1>2, <1>6, StatementStep DEF st, known

LEMMA ExecuteReturns_Keeps ==
  ASSUME Declares, NEW c \in Conns, ExecuteReturns(c)
  PROVE  Keeps(statuses, statuses', declared')
<1>1. "Unsupported" \in MigrationState
  BY DEF MigrationState
<1>2. \/ statuses' = statuses
      \/ \E m \in MigrationState :
           statuses' = update_query_migration_state(
                         statuses, statements[c][op[c].id].query, m)
  BY <1>1 DEF ExecuteReturns
<1> QED
  BY <1>2, VerdictKeeps

LEMMA ExecuteReturns_Declares ==
  ASSUME Declares, NEW c \in Conns, ExecuteReturns(c)
  PROVE  Declares'
<1> DEFINE i == op[c].id
           got == op[c].got
           old == statements[c][i]
           info == CASE got = "ok" -> "Successful"
                     [] got = "network" -> "NetworkFailure"
                     [] got = "conversion" -> "Unsupported"
                     [] OTHER -> old.execution_info
           prep == IF got = "not_found" THEN "Upstream" ELSE old.prep
           s == [old EXCEPT !.execution_info = info, !.prep = prep]
           ss == [statements[c] EXCEPT ![i] = s]
           st == connector[c].stored
           known == KnownIn(statuses')
           dc == declared'
<1>1. /\ UNCHANGED <<env, proxy_state, Background>>
      /\ global' = global /\ views' = views /\ connector' = connector
      /\ declared' = declared
      /\ op' = [op EXCEPT ![c] = Idle]
      /\ op[c].do = "execute" /\ op[c].at = "done"
  BY DEF ExecuteReturns, Busy
<1>2. statements' = [statements EXCEPT ![c] = ss]
  BY DEF ExecuteReturns
<1>3. Becomes(statuses, statuses', declared')
  BY ExecuteReturns_Keeps DEF Keeps
<1>4. /\ declared \subseteq declared'
      /\ global' \subseteq Queries /\ views' \subseteq Queries
      /\ connector' \in [Actors -> ConnectorType]
  BY <1>1, OwnStatements DEF Declares
<1>5. StatementsOk(statements[c], st, known, dc) /\ Len(statements[c]) <= MaxPrepared
  BY <1>3, <1>4, StatementsMonotone DEF Becomes
<1>6. i \in DOMAIN statements[c] /\ statements[c] \in Statements
  BY <1>1, OwnStatements DEF ReadsOk
<1>7. old \in StatementType /\ Sound(old, st[i], known, dc)
  BY <1>5, <1>6, SMTT(30) DEF Statements, StatementsOk, Sound
<1> HIDE DEF i, got, old, st, known, dc
<1>8. info \in ExecutionState \cup {None}
  <2>1. old.execution_info \in ExecutionState \cup {None}
    BY <1>7 DEF StatementType
  <2> QED
    BY <2>1 DEF ExecutionState
<1>9. prep \in {"Upstream", "Both"} /\ (prep = "Both" => old.prep = "Both")
  BY <1>7 DEF StatementType
<1> HIDE DEF info, prep
<1>10. s \in StatementType /\ s.query = old.query /\ s.prep = prep /\ s.always = old.always
  BY <1>7, <1>8, <1>9 DEF StatementType
<1> HIDE DEF s
<1>11. Sound(s, st[i], known, dc)
  BY <1>7, <1>9, <1>10 DEF Sound
<1>12. ss \in Statements /\ Len(ss) = Len(statements[c]) /\ StatementsOk(ss, st, known, dc)
  BY <1>5, <1>6, <1>10, <1>11, StatementReplaced
<1> HIDE DEF ss
<1>13. Idle \in OpType /\ Named(Idle) /\ ConnOk(Idle, ss, st, proxy_state[c], known, dc)
  BY <1>5, <1>12, FreeAgain
<1> QED
  BY <1>1, <1>2, <1>3, <1>4, <1>12, <1>13, ClientStep DEF st, known, dc

-----------------------------------------------------------------------------
(* CREATE CACHE, DROP CACHE and DROP ALL CACHES.                           *)

LEMMA CreateCache_Declares ==
  ASSUME Declares, NEW c \in Conns, NEW q \in Queries, NEW always \in BOOLEAN,
         CreateCache(c, q, always)
  PROVE  Declares'
<1> DEFINE o == [Go("create", "done", q) EXCEPT !.always = always]
<1>1. /\ UNCHANGED <<env, statuses, global, connector, proxy_state, declared, Background>>
      /\ statements' = statements /\ op[c].do = "idle"
      /\ views' \subseteq Queries
      /\ op' = [op EXCEPT ![c] = o] \/ op' = op
  BY OwnStatements, MigrateViews DEF CreateCache, Sends
<1>2. o \in OpType /\ Fields(o, "create", "done", q, 0, FALSE, None, FALSE, always, "ok")
  <2> DEFINE id == 0
  <2>1. id \in 0..MaxPrepared /\ "create" \in Dos /\ "done" \in Ats /\ q \in Queries \cup {None}
    BY AdapterAssumption, SMTT(30) DEF Dos, Ats
  <2> HIDE DEF id
  <2> QED
    BY <2>1, GoOthers
<1> HIDE DEF o
<1>3. /\ statements[c] \in Statements /\ statements' = [statements EXCEPT ![c] = statements[c]]
      /\ views' \subseteq Queries /\ Len(statements[c]) <= MaxPrepared
      /\ StatementsOk(statements[c], connector[c].stored, KnownIn(statuses), declared)
  BY <1>1, OwnStatements
<1>4. CASE op' = [op EXCEPT ![c] = o]
  <2>1. ConnOk(o, statements[c], connector[c].stored, proxy_state[c], KnownIn(statuses), declared)
    <3>1. o.do = "create" /\ o.at = "done"
      BY <1>2 DEF Fields
    <3> QED
      BY <1>3, <3>1, ConnOkPlain
  <2>2. Named(o)
    BY <1>2, AdapterAssumption DEF Named, Fields
  <2> QED
    BY <1>1, <1>2, <1>3, <1>4, <2>1, <2>2, StatementStep
<1>5. CASE op' = op
  <2>1. op[c] \in OpType /\ op' = [op EXCEPT ![c] = op[c]] /\ Named(op[c])
    BY <1>5, OwnStatements DEF Declares, Types, OpTypes
  <2>2. ConnOk(op[c], statements[c], connector[c].stored, proxy_state[c], KnownIn(statuses), declared)
    BY DEF Declares, Own
  <2> QED
    BY <1>1, <1>3, <2>1, <2>2, StatementStep
<1> QED
  BY <1>1, <1>4, <1>5

\* The connector's view names change.
LEMMA LocalReplaced ==
  ASSUME connector \in [Actors -> ConnectorType], NEW a \in Actors, NEW l \in SUBSET Queries,
         connector' = [connector EXCEPT ![a].local = l]
  PROVE  /\ connector' \in [Actors -> ConnectorType]
         /\ \A b \in Actors : connector'[b].stored = connector[b].stored
<1> DEFINE k == [connector[a] EXCEPT !.local = l]
<1>1. connector' = [connector EXCEPT ![a] = k]
  OBVIOUS
<1>2. k \in ConnectorType /\ k.stored = connector[a].stored
  <2>1. connector[a] \in ConnectorType
    OBVIOUS
  <2> QED
    BY <2>1 DEF ConnectorType
<1> HIDE DEF k
<1> QED
  BY <1>1, <1>2, ConnectorReplaced

\* Handles are destroyed.
LEMMA DestroyedHandles ==
  ASSUME connector \in [Actors -> ConnectorType], NEW qs, connector' = Destroyed(qs)
  PROVE  /\ connector' \in [Actors -> ConnectorType]
         /\ \A b \in Actors : connector'[b].stored = connector[b].stored
<1>1. ASSUME NEW b \in Actors
      PROVE  connector'[b] \in ConnectorType /\ connector'[b].stored = connector[b].stored
  <2> DEFINE k == connector[b]
             h == [q \in Queries |->
                     IF q \in qs /\ k.handles[q] = "live" THEN "dead" ELSE k.handles[q]]
  <2>1. k \in ConnectorType
    OBVIOUS
  <2>2. connector'[b] = [k EXCEPT !.handles = h]
    BY DEF Destroyed
  <2> HIDE DEF k
  <2>3. h \in [Queries -> {"none", "live", "dead"}]
    BY <2>1 DEF ConnectorType
  <2> HIDE DEF h
  <2>4. [k EXCEPT !.handles = h] \in ConnectorType /\ [k EXCEPT !.handles = h].stored = k.stored
    BY <2>1, <2>3 DEF ConnectorType
  <2> QED
    BY <2>2, <2>4 DEF k
<1>2. connector' = [b \in Actors |-> connector'[b]]
  BY DEF Destroyed
<1> QED
  BY <1>1, <1>2

LEMMA CreateReturns_Keeps ==
  ASSUME Declares, NEW c \in Conns, CreateReturns(c)
  PROVE  Keeps(statuses, statuses', declared')
<1> DEFINE q == op[c].query
           always == op[c].always
           m == "Successful"
           next == update_query_migration_state(statuses, q, m)
           last == always_attempt_readyset(next, q, always)
           none == {}
           new == IF always THEN {q} ELSE {}
<1>1. /\ op[c].do = "create" /\ statuses' = last
      /\ declared' = IF always THEN declared \cup {q} ELSE declared
  BY DEF CreateReturns, Busy
<1>2. q \in Queries /\ statuses \in Caches /\ always \in BOOLEAN /\ m \in MigrationState
  BY <1>1, OwnStatements DEF OpType, MigrationState
<1>3. Keeps(statuses, next, none)
  BY <1>2, MigrationStateKeeps
<1>4. next \in Caches
  BY <1>3 DEF Keeps, Becomes
<1>5. Keeps(next, last, new)
  <2> HIDE DEF next
  <2> QED
    BY <1>2, <1>4, AlwaysAttemptKeeps
<1> HIDE DEF next, last
<1>6. Keeps(statuses, last, none \cup new)
  BY <1>3, <1>5, KeepsTwice
<1>7. none \cup new \subseteq declared'
  BY <1>1
<1> HIDE DEF none, new
<1> QED
  BY <1>1, <1>6, <1>7, KeepsWithin

LEMMA CreateReturns_Declares ==
  ASSUME Declares, NEW c \in Conns, CreateReturns(c)
  PROVE  Declares'
<1> DEFINE q == op[c].query
           l == connector[c].local \cup {q}
<1>1. /\ UNCHANGED <<env, proxy_state, Background>>
      /\ op[c].do = "create" /\ global' = global \cup {q} /\ views' = views
      /\ statements' = statements
      /\ declared' = IF op[c].always THEN declared \cup {q} ELSE declared
      /\ op' = [op EXCEPT ![c] = Idle]
  BY DEF CreateReturns, Busy, Registered
<1>2. connector' = [connector EXCEPT ![c].local = l]
  BY DEF CreateReturns, Registered
<1>3. Becomes(statuses, statuses', declared')
  BY CreateReturns_Keeps DEF Keeps
<1>4. q \in Queries /\ l \in SUBSET Queries /\ Conns \subseteq Actors /\ c \in Actors
  <2>1. q \in Queries /\ c \in Actors /\ connector[c] \in ConnectorType
    BY <1>1, OwnStatements
  <2>2. connector[c].local \in SUBSET Queries
    BY <2>1 DEF ConnectorType
  <2> QED
    BY <2>1, <2>2 DEF Actors
<1> HIDE DEF l
<1>5. /\ connector' \in [Actors -> ConnectorType]
      /\ \A b \in Conns : connector'[b].stored = connector[b].stored
  BY <1>2, <1>4, OwnStatements, LocalReplaced
<1>6. /\ declared \subseteq declared'
      /\ global' \subseteq Queries /\ views' \subseteq Queries
      /\ statements[c] \in Statements /\ statements' = [statements EXCEPT ![c] = statements[c]]
  BY <1>1, <1>4, OwnStatements DEF Declares
<1>7. /\ Idle \in OpType /\ Named(Idle)
      /\ ConnOk(Idle, statements[c], connector[c].stored, proxy_state[c],
                KnownIn(statuses'), declared')
  BY <1>3, <1>6, StatementsMonotone, FreeAgain DEF Becomes
<1> QED
  BY <1>1, <1>3, <1>5, <1>6, <1>7, ClientStep

\* The server has dropped caches, whether the client's connection heard of it or not.
LEMMA DropSent ==
  ASSUME Declares, NEW c \in Conns, NEW qs, NEW o \in OpType,
         o = op[c] \/ (o.do \in {"drop", "drop_all"} /\ o.at = "done"), Named(o),
         UNCHANGED <<env, statuses, global, statements, proxy_state, declared, Background>>,
         views' \subseteq Queries, op' = [op EXCEPT ![c] = o], connector' = Destroyed(qs)
  PROVE  Declares'
<1>1. /\ UNCHANGED <<env, proxy_state, Background>>
      /\ statuses' = statuses /\ global' = global /\ statements' = statements
      /\ declared' = declared
  OBVIOUS
<1>2. /\ Becomes(statuses, statuses', declared') /\ KnownIn(statuses') = KnownIn(statuses)
      /\ declared \subseteq declared'
  BY <1>1, StatusesSame
<1>3. /\ statements[c] \in Statements /\ statements' = [statements EXCEPT ![c] = statements[c]]
      /\ global' \subseteq Queries /\ Conns \subseteq Actors
      /\ connector \in [Actors -> ConnectorType] /\ Len(statements[c]) <= MaxPrepared
      /\ StatementsOk(statements[c], connector[c].stored, KnownIn(statuses), declared)
  BY <1>1, OwnStatements DEF Actors
<1>4. /\ connector' \in [Actors -> ConnectorType]
      /\ \A b \in Conns : connector'[b].stored = connector[b].stored
  BY <1>3, DestroyedHandles
<1>5. ConnOk(o, statements[c], connector[c].stored, proxy_state[c], KnownIn(statuses'), declared')
  <2>1. ConnOk(o, statements[c], connector[c].stored, proxy_state[c], KnownIn(statuses), declared)
    <3>1. CASE o = op[c]
      BY <3>1 DEF Declares, Own
    <3>2. CASE o.do \in {"drop", "drop_all"} /\ o.at = "done"
      BY <1>3, <3>2, ConnOkPlain
    <3> QED
      BY <3>1, <3>2
  <2> QED
    BY <1>1, <2>1
<1> QED
  BY <1>1, <1>2, <1>3, <1>4, <1>5, ClientStep

\* The request to drop failed.
LEMMA DropFails ==
  ASSUME Declares, NEW c \in Conns, op' = op, connector' = connector, views' = views,
         UNCHANGED <<env, statuses, global, statements, proxy_state, declared, Background>>
  PROVE  Declares'
<1>1. UNCHANGED <<env, statuses, global, connector, proxy_state, declared, Background>>
      /\ statements' = statements
  OBVIOUS
<1>2. /\ statements[c] \in Statements /\ statements' = [statements EXCEPT ![c] = statements[c]]
      /\ op[c] \in OpType /\ op' = [op EXCEPT ![c] = op[c]] /\ views' \subseteq Queries
  BY <1>1, OwnStatements
<1>3. Named(op[c])
  BY OwnStatements DEF Declares, Types, OpTypes
<1>4. ConnOk(op[c], statements[c], connector[c].stored, proxy_state[c], KnownIn(statuses), declared)
  BY DEF Declares, Own
<1> QED
  BY <1>1, <1>2, <1>3, <1>4, StatementStep

LEMMA DropCache_Declares ==
  ASSUME Declares, NEW c \in Conns, NEW q \in Queries, DropCache(c, q)
  PROVE  Declares'
<1> DEFINE known == q \in connector[c].local \cup global
           o == [Go("drop", "done", q) EXCEPT !.create = known]
           qs == {q}
<1>1. /\ UNCHANGED <<env, statuses, global, statements, proxy_state, declared, Background>>
      /\ \/ views' = views /\ op' = op /\ connector' = connector
         \/ /\ views' = views \ {q} /\ connector' = Destroyed(qs)
            /\ op' = op \/ op' = [op EXCEPT ![c] = o]
  BY DEF DropCache
<1>2. o \in OpType /\ Fields(o, "drop", "done", q, 0, known, None, FALSE, FALSE, "ok")
  <2> DEFINE id == 0
  <2>1. /\ id \in 0..MaxPrepared /\ "drop" \in Dos /\ "done" \in Ats /\ q \in Queries \cup {None}
        /\ known \in BOOLEAN
    BY AdapterAssumption, SMTT(30) DEF Dos, Ats
  <2> HIDE DEF id, known
  <2> QED
    BY <2>1, GoOthers
<1> HIDE DEF o, qs, known
<1>3. /\ o.do \in {"drop", "drop_all"} /\ o.at = "done" /\ Named(o)
      /\ views' \subseteq Queries
  BY <1>1, <1>2, AdapterAssumption, OwnStatements DEF Fields, Named
<1>4. op[c] \in OpType /\ op = [op EXCEPT ![c] = op[c]] /\ Named(op[c])
  BY OwnStatements DEF Declares, Types, OpTypes
<1> QED
  BY <1>1, <1>2, <1>3, <1>4, DropSent, DropFails

LEMMA DropAllCaches_Declares ==
  ASSUME Declares, NEW c \in Conns, DropAllCaches(c)
  PROVE  Declares'
<1> DEFINE o == Go("drop_all", "done", None)
<1>1. /\ UNCHANGED <<env, statuses, global, statements, proxy_state, declared, Background>>
      /\ \/ views' = views /\ op' = op /\ connector' = connector
         \/ /\ views' = {} /\ connector' = Destroyed(Queries)
            /\ op' = op \/ op' = [op EXCEPT ![c] = o]
  BY DEF DropAllCaches
<1>2. o \in OpType /\ Fields(o, "drop_all", "done", None, 0, FALSE, None, FALSE, FALSE, "ok")
  <2>1. "drop_all" \in Dos /\ "done" \in Ats /\ None \in Queries \cup {None}
    BY DEF Dos, Ats
  <2> QED
    BY <2>1, GoFields
<1> HIDE DEF o
<1>3. /\ o.do \in {"drop", "drop_all"} /\ o.at = "done" /\ Named(o)
      /\ views' \subseteq Queries
  BY <1>1, <1>2, OwnStatements DEF Fields, Named, Asks
<1>4. op[c] \in OpType /\ op = [op EXCEPT ![c] = op[c]] /\ Named(op[c])
  BY OwnStatements DEF Declares, Types, OpTypes
<1> QED
  BY <1>1, <1>2, <1>3, <1>4, DropSent, DropFails

\* Statements that lose their views.
LEMMA StatementsDemoted ==
  ASSUME NEW ss \in Statements, NEW new, NEW st, NEW known, NEW dc,
         StatementsOk(ss, st, known, dc),
         new = [i \in DOMAIN ss |-> new[i]],
         \A i \in DOMAIN ss :
           \/ new[i] = ss[i]
           \/ /\ new[i] \in StatementType /\ new[i].prep # "Both"
              /\ new[i].query = ss[i].query /\ new[i].always = ss[i].always
  PROVE  new \in Statements /\ Len(new) = Len(ss) /\ StatementsOk(new, st, known, dc)
<1>1. /\ DOMAIN ss = 1..Len(ss) /\ Len(ss) \in Nat /\ DOMAIN new = DOMAIN ss
      /\ \A i \in DOMAIN ss : ss[i] \in StatementType
  BY SMTT(30) DEF Statements
<1>2. \A i \in 1..Len(ss) : new[i] \in StatementType
  BY <1>1
<1>3. new = [i \in 1..Len(ss) |-> new[i]]
  BY <1>1
<1>4. new \in Seq(StatementType) /\ Len(new) = Len(ss)
  BY <1>1, <1>2, <1>3, SMTT(30)
<1>5. StatementsOk(new, st, known, dc)
  BY <1>1 DEF StatementsOk
<1> QED
  BY <1>4, <1>5 DEF Statements

LEMMA DropReturns_Keeps ==
  ASSUME Declares, NEW c \in Conns, DropReturns(c)
  PROVE  Keeps(statuses, statuses', declared')
<1> DEFINE q == op[c].query
           m == "Pending"
           flag == FALSE
           next == update_query_migration_state(statuses, q, m)
           last == always_attempt_readyset(next, q, flag)
           none == {}
           new == IF flag THEN {q} ELSE {}
<1>1. op[c].do = "drop" /\ (statuses' = last \/ statuses' = statuses)
  BY DEF DropReturns, Busy
<1>2. q \in Queries /\ statuses \in Caches /\ flag \in BOOLEAN /\ m \in MigrationState
  BY <1>1, OwnStatements DEF MigrationState
<1>3. Keeps(statuses, next, none) /\ Keeps(statuses, statuses, none)
  BY <1>2, MigrationStateKeeps, KeepsItself
<1>4. next \in Caches
  BY <1>3 DEF Keeps, Becomes
<1>5. Keeps(next, last, new)
  <2> HIDE DEF next, flag
  <2> QED
    BY <1>2, <1>4, AlwaysAttemptKeeps
<1> HIDE DEF next, last
<1>6. Keeps(statuses, last, none \cup new)
  BY <1>3, <1>5, KeepsTwice
<1>7. none \cup new \subseteq declared' /\ none \subseteq declared'
  OBVIOUS
<1> HIDE DEF none, new
<1>8. Keeps(statuses, last, declared') /\ Keeps(statuses, statuses, declared')
  BY <1>3, <1>6, <1>7, KeepsWithin
<1> QED
  BY <1>1, <1>8

\* The statements a DROP CACHE invalidates.
LEMMA InvalidatedStatements ==
  ASSUME Declares, NEW c \in Conns, NEW q, NEW known, NEW dc,
         StatementsOk(statements[c], connector[c].stored, known, dc)
  PROVE  /\ Invalidated(c, q) \in Statements
         /\ Len(Invalidated(c, q)) = Len(statements[c])
         /\ StatementsOk(Invalidated(c, q), connector[c].stored, known, dc)
<1> DEFINE ss == statements[c]
           new == Invalidated(c, q)
           st == connector[c].stored
<1>1. ss \in Statements
  BY OwnStatements
<1>2. new = [i \in DOMAIN ss |-> new[i]]
  BY DEF Invalidated
<1>3. ASSUME NEW i \in DOMAIN ss
      PROVE  \/ new[i] = ss[i]
             \/ /\ new[i] \in StatementType /\ new[i].prep # "Both"
                /\ new[i].query = ss[i].query /\ new[i].always = ss[i].always
  <2> DEFINE s == ss[i]
             t == [s EXCEPT !.migration_state = "Pending", !.prep = "Upstream"]
  <2>1. s \in StatementType
    BY <1>1, StatementTyped
  <2>2. new[i] = s \/ new[i] = t
    BY DEF Invalidated
  <2> HIDE DEF s
  <2>3. t \in StatementType /\ t.prep # "Both" /\ t.query = s.query /\ t.always = s.always
    BY <2>1 DEF StatementType, MigrationState
  <2> HIDE DEF t
  <2> QED
    BY <2>2, <2>3 DEF s
<1> HIDE DEF ss, new, st
<1>4. StatementsOk(ss, st, known, dc)
  BY DEF ss, st
<1> QED
  BY <1>1, <1>2, <1>3, <1>4, StatementsDemoted DEF ss, new, st

\* The statements DROP ALL CACHES demotes.
LEMMA DemotedStatements ==
  ASSUME NEW ss \in Statements, NEW st, NEW known, NEW dc, StatementsOk(ss, st, known, dc)
  PROVE  /\ Demoted(ss) \in Statements /\ Len(Demoted(ss)) = Len(ss)
         /\ StatementsOk(Demoted(ss), st, known, dc)
<1> DEFINE new == Demoted(ss)
<1>2. new = [i \in DOMAIN ss |-> new[i]]
  BY DEF Demoted
<1>3. ASSUME NEW i \in DOMAIN ss
      PROVE  /\ new[i] \in StatementType /\ new[i].prep # "Both"
             /\ new[i].query = ss[i].query /\ new[i].always = ss[i].always
  <2> DEFINE s == ss[i]
             m == IF s.migration_state = "Successful" THEN "Pending" ELSE s.migration_state
             t == [s EXCEPT !.prep = "Upstream", !.migration_state = m]
  <2>1. s \in StatementType
    BY SMTT(30) DEF Statements
  <2>2. new[i] = t
    BY DEF Demoted
  <2> HIDE DEF s
  <2>3. m \in MigrationState
    BY <2>1 DEF StatementType, MigrationState
  <2> HIDE DEF m
  <2>4. t \in StatementType /\ t.prep # "Both" /\ t.query = s.query /\ t.always = s.always
    BY <2>1, <2>3 DEF StatementType
  <2> HIDE DEF t
  <2> QED
    BY <2>2, <2>4 DEF s
<1> HIDE DEF new
<1> QED
  BY <1>2, <1>3, StatementsDemoted DEF new

LEMMA DropReturns_Declares ==
  ASSUME Declares, NEW c \in Conns, DropReturns(c)
  PROVE  Declares'
<1> DEFINE q == op[c].query
           l == connector[c].local \ {q}
           st == connector[c].stored
           known == KnownIn(statuses')
           dc == declared'
<1>1. /\ UNCHANGED <<env, proxy_state, Background>>
      /\ op[c].do = "drop" /\ global' = global \ {q} /\ views' = views
      /\ declared' = declared
      /\ \/ statements' = statements
         \/ statements' = [statements EXCEPT ![c] = Invalidated(c, q)]
      /\ op' = [op EXCEPT ![c] = Idle]
  BY DEF DropReturns, Busy
<1>2. connector' = [connector EXCEPT ![c].local = l]
  BY DEF DropReturns
<1>3. Becomes(statuses, statuses', declared')
  BY DropReturns_Keeps DEF Keeps
<1>4. l \in SUBSET Queries /\ Conns \subseteq Actors /\ c \in Actors
  <2>1. c \in Actors /\ connector[c] \in ConnectorType
    BY OwnStatements
  <2>2. connector[c].local \in SUBSET Queries
    BY <2>1 DEF ConnectorType
  <2> QED
    BY <2>1, <2>2 DEF Actors
<1> HIDE DEF l
<1>5. /\ connector' \in [Actors -> ConnectorType]
      /\ \A b \in Conns : connector'[b].stored = connector[b].stored
  BY <1>2, <1>4, OwnStatements, LocalReplaced
<1>6. /\ declared \subseteq declared'
      /\ global' \subseteq Queries /\ views' \subseteq Queries
      /\ statements[c] \in Statements /\ [statements EXCEPT ![c] = statements[c]] = statements
  BY <1>1, OwnStatements DEF Declares
<1>7. StatementsOk(statements[c], st, known, dc) /\ Len(statements[c]) <= MaxPrepared
  BY <1>3, <1>6, StatementsMonotone DEF Becomes
<1>8. PICK ss \in Statements :
        /\ statements' = [statements EXCEPT ![c] = ss] /\ Len(ss) <= MaxPrepared
        /\ StatementsOk(ss, st, known, dc)
  <2>1. /\ Invalidated(c, q) \in Statements /\ Len(Invalidated(c, q)) = Len(statements[c])
        /\ StatementsOk(Invalidated(c, q), st, known, dc)
    <3> HIDE DEF known, dc
    <3> QED
      BY <1>7, InvalidatedStatements
  <2> HIDE DEF st, known, dc
  <2> QED
    BY <1>1, <1>6, <1>7, <2>1
<1>9. Idle \in OpType /\ Named(Idle) /\ ConnOk(Idle, ss, st, proxy_state[c], known, dc)
  <2> HIDE DEF st, known, dc
  <2> QED
    BY <1>8, FreeAgain
<1> QED
  BY <1>1, <1>3, <1>5, <1>6, <1>8, <1>9, ClientStep

LEMMA DropAllReturns_Keeps ==
  ASSUME Declares, NEW c \in Conns, DropAllReturns(c)
  PROVE  Keeps(statuses, statuses', declared')
<1> DEFINE none == {}
<1>1. statuses \in Caches /\ statuses' = clear(statuses)
  BY OwnStatements DEF DropAllReturns
<1>2. Keeps(statuses, statuses', none)
  BY <1>1, ClearKeeps
<1> QED
  BY <1>2 DEF Keeps, Becomes

LEMMA DropAllReturns_Declares ==
  ASSUME Declares, NEW c \in Conns, DropAllReturns(c)
  PROVE  Declares'
<1> DEFINE l == {}
           st == connector[c].stored
           known == KnownIn(statuses')
           dc == declared'
           ss == Demoted(statements[c])
<1>1. /\ UNCHANGED <<env, proxy_state, Background>>
      /\ global' = {} /\ views' = views
      /\ declared' = declared
      /\ op' = [op EXCEPT ![c] = Idle]
  BY DEF DropAllReturns
<1>2. connector' = [connector EXCEPT ![c].local = l]
  BY DEF DropAllReturns
<1>3. statements' = [statements EXCEPT ![c] = ss]
  BY DEF DropAllReturns
<1>4. Becomes(statuses, statuses', declared')
  BY DropAllReturns_Keeps DEF Keeps
<1>5. l \in SUBSET Queries /\ Conns \subseteq Actors /\ c \in Actors
  BY DEF Actors
<1> HIDE DEF l
<1>6. /\ connector' \in [Actors -> ConnectorType]
      /\ \A b \in Conns : connector'[b].stored = connector[b].stored
  BY <1>2, <1>5, OwnStatements, LocalReplaced
<1>7. /\ declared \subseteq declared'
      /\ global' \subseteq Queries /\ views' \subseteq Queries /\ statements[c] \in Statements
  BY <1>1, OwnStatements DEF Declares
<1>8. StatementsOk(statements[c], st, known, dc) /\ Len(statements[c]) <= MaxPrepared
  BY <1>4, <1>7, StatementsMonotone DEF Becomes
<1>9. ss \in Statements /\ Len(ss) <= MaxPrepared /\ StatementsOk(ss, st, known, dc)
  <2> HIDE DEF st, known, dc
  <2> QED
    BY <1>7, <1>8, DemotedStatements
<1> HIDE DEF ss
<1>10. Idle \in OpType /\ Named(Idle) /\ ConnOk(Idle, ss, st, proxy_state[c], known, dc)
  <2> HIDE DEF st, known, dc
  <2> QED
    BY <1>9, FreeAgain
<1> QED
  BY <1>1, <1>3, <1>4, <1>6, <1>7, <1>9, <1>10, ClientStep

-----------------------------------------------------------------------------
(* BEGIN, COMMIT, ROLLBACK and SET.                                        *)

\* A connection changes its proxy state between two statements.
LEMMA Boundary_Declares ==
  ASSUME Declares, NEW c \in Conns, Boundary(c)
  PROVE  Declares'
<1>1. /\ UNCHANGED <<env, Background>>
      /\ statuses' = statuses /\ global' = global /\ views' = views /\ connector' = connector
      /\ statements' = statements /\ op' = op /\ declared' = declared
      /\ op[c].do = "idle"
  BY DEF Boundary, Sends
<1>2. PICK to : proxy_state' = [proxy_state EXCEPT ![c] = to] /\ to \in ProxyState
  <2>1. proxy_state[c] \in ProxyState
    BY DEF Declares, Types
  <2> QED
    BY <2>1 DEF Boundary, ProxyState, end_transaction, set_autocommit, start_transaction
<1>3. /\ proxy_state' \in [Conns -> ProxyState]
      /\ \A b \in Conns \ {c} : proxy_state'[b] = proxy_state[b]
  BY <1>2 DEF Declares, Types
<1>4. Types'
  <2>1. deployment' = deployment /\ to_process' = to_process /\ start_time' = start_time
    BY <1>1 DEF env, Background
  <2>2. OpTypes'
    BY <1>1 DEF Declares, Types, OpTypes
  <2> QED
    BY <1>1, <1>3, <2>1, <2>2 DEF Declares, Types
<1>5. /\ Becomes(statuses, statuses', declared') /\ KnownIn(statuses') = KnownIn(statuses)
      /\ declared \subseteq declared'
  BY <1>1, StatusesSame
<1>6. \A b \in Conns \ {c} : SameOwn(b)
  BY <1>1, <1>3 DEF SameOwn
<1>7. Own(c)'
  <2> DEFINE px == proxy_state'[c]
  <2>1. ConnOk(op[c], statements[c], connector[c].stored, px, KnownIn(statuses), declared)
    BY <1>1, OwnStatements DEF ConnOk, ReadsOk, Reads
  <2> QED
    BY <1>1, <2>1 DEF Own
<1> QED
  BY <1>4, <1>5, <1>6, <1>7, ConnectionStep

-----------------------------------------------------------------------------
(* The migration handler, the views synchronizer and other adapters.       *)

\* A step that is not a client's: o is what the handler does next.
LEMMA HandlerStep ==
  ASSUME Declares, NEW o \in OpType, Named(o), op' = [op EXCEPT ![Handler] = o],
         connector' \in [Actors -> ConnectorType],
         \A b \in Conns : connector'[b].stored = connector[b].stored,
         Keeps(statuses, statuses', declared),
         UNCHANGED <<env, global, statements, proxy_state, declared>>,
         views' \subseteq Queries, to_process' \subseteq Queries,
         start_time' \in [Queries -> {None, "recent", "exceeded"}]
  PROVE  Declares'
<1>1. /\ deployment' = deployment /\ global' = global /\ statements' = statements
      /\ proxy_state' = proxy_state /\ declared' = declared
  BY DEF env
<1>2. OpTypes /\ Handler \in Actors /\ Conns \subseteq Actors /\ Handler \notin Conns
  BY AdapterAssumption DEF Declares, Types, Actors
<1>3. OpTypes' /\ \A b \in Actors \ {Handler} : op'[b] = op[b]
  BY <1>2, OpReplaced
<1>4. Becomes(statuses, statuses', declared') /\ statuses' \in Caches
  BY <1>1 DEF Keeps, Becomes
<1>5. Types'
  BY <1>1, <1>3, <1>4 DEF Declares, Types
<1>6. \A b \in Conns : SameOwn(b)
  BY <1>1, <1>2, <1>3 DEF SameOwn
<1> QED
  BY <1>1, <1>4, <1>5, <1>6, BackgroundStep

\* What a step of the handler starts from.
LEMMA HandlerTypes ==
  ASSUME Declares
  PROVE  /\ op[Handler] \in OpType /\ Named(op[Handler])
         /\ [op EXCEPT ![Handler] = op[Handler]] = op
         /\ connector \in [Actors -> ConnectorType]
         /\ statuses \in Caches /\ Keeps(statuses, statuses, declared)
         /\ global \subseteq Queries /\ views \subseteq Queries /\ to_process \subseteq Queries
         /\ start_time \in [Queries -> {None, "recent", "exceeded"}]
         /\ deployment.queries \subseteq Queries
         /\ \A b \in Conns : connector[b].stored = connector[b].stored
<1>1. /\ op \in [Actors -> OpType] /\ (\A a \in Actors : Named(op[a])) /\ Handler \in Actors
      /\ connector \in [Actors -> ConnectorType] /\ statuses \in Caches
      /\ global \subseteq Queries /\ views \subseteq Queries /\ to_process \subseteq Queries
      /\ start_time \in [Queries -> {None, "recent", "exceeded"}]
      /\ deployment \in Deployments
  BY DEF Declares, Types, OpTypes, Actors
<1>2. Keeps(statuses, statuses, declared)
  BY <1>1, KeepsItself
<1> QED
  BY <1>1, <1>2, AdapterAssumption

\* The handler is done with a query.
LEMMA HandlerFree == Idle \in OpType /\ Named(Idle)
<1>1. Idle \in OpType /\ Idle.do = "idle" /\ Idle.at = "start"
  BY IdleFields DEF Fields
<1> QED
  BY <1>1 DEF Named, Asks

LEMMA Tick_Declares ==
  ASSUME Declares, Tick
  PROVE  Declares'
<1>1. /\ UNCHANGED <<env, global, statements, proxy_state, declared>>
      /\ statuses' = statuses /\ views' = views /\ connector' = connector /\ op' = op
      /\ start_time' = start_time /\ to_process' = pending_migration(statuses)
  BY DEF Tick
<1>2. to_process' \subseteq Queries
  BY <1>1 DEF pending_migration
<1> QED
  BY <1>1, <1>2, HandlerTypes, HandlerStep

LEMMA Process_Declares ==
  ASSUME Declares, NEW q \in Queries, Process(q)
  PROVE  Declares'
<1> DEFINE one == 1
           yes == TRUE
           migrate == [Go("migrate", "view", q) EXCEPT !.create = yes, !.id = one]
           dry == Go("dry_run", "request", q)
<1>1. /\ UNCHANGED <<env, global, statements, proxy_state, declared>>
      /\ statuses' = statuses /\ views' = views /\ connector' = connector
      /\ to_process' = to_process \ {q}
      /\ start_time' = [start_time EXCEPT ![q] = IF @ = None THEN "recent" ELSE @]
      /\ \/ op' = [op EXCEPT ![Handler] = migrate]
         \/ op' = [op EXCEPT ![Handler] = Idle]
         \/ op' = [op EXCEPT ![Handler] = dry]
         \/ op' = op
  BY DEF Process
<1>2. /\ to_process' \subseteq Queries /\ views' \subseteq Queries
      /\ start_time' \in [Queries -> {None, "recent", "exceeded"}]
  BY <1>1, HandlerTypes
<1>3. q \in Queries \cup {None} /\ q # None
  BY AdapterAssumption
<1>4. dry \in OpType /\ Named(dry)
  <2>1. "dry_run" \in Dos /\ "request" \in Ats
    BY DEF Dos, Ats
  <2>2. dry \in OpType /\ Fields(dry, "dry_run", "request", q, 0, FALSE, None, FALSE, FALSE, "ok")
    BY <1>3, <2>1, GoFields
  <2> HIDE DEF dry
  <2> QED
    BY <1>3, <2>2 DEF Fields, Named
<1>5. migrate \in OpType /\ Named(migrate)
  <2> DEFINE g == Go("migrate", "view", q)
  <2>1. "migrate" \in Dos /\ "view" \in Ats
    BY DEF Dos, Ats
  <2>2. g \in OpType /\ Fields(g, "migrate", "view", q, 0, FALSE, None, FALSE, FALSE, "ok")
    BY <1>3, <2>1, GoFields
  <2>3. one \in 0..MaxPrepared /\ yes \in BOOLEAN
    BY AdapterAssumption, SMTT(30)
  <2> HIDE DEF g, one, yes
  <2>4. /\ [g EXCEPT !.create = yes, !.id = one] \in OpType
        /\ [g EXCEPT !.create = yes, !.id = one].query = g.query
    BY <2>2, <2>3 DEF OpType
  <2>5. g.query = q
    BY <2>2 DEF Fields
  <2> QED
    BY <1>3, <2>4, <2>5 DEF g, Named
<1> HIDE DEF migrate, dry
<1>6. PICK o \in OpType : Named(o) /\ op' = [op EXCEPT ![Handler] = o]
  BY <1>1, <1>4, <1>5, HandlerFree, HandlerTypes
<1>7. /\ connector' \in [Actors -> ConnectorType] /\ Keeps(statuses, statuses', declared)
      /\ \A b \in Conns : connector'[b].stored = connector[b].stored
  BY <1>1, HandlerTypes
<1> QED
  BY <1>1, <1>2, <1>6, <1>7, HandlerStep

LEMMA DryRun_Declares ==
  ASSUME Declares, DryRun
  PROVE  Declares'
<1>1. /\ UNCHANGED <<env, global, statements, proxy_state, declared>>
      /\ statuses' = statuses /\ views' = views /\ connector' = connector
      /\ to_process' = to_process /\ start_time' = start_time
      /\ op[Handler].do = "dry_run"
  BY DEF DryRun, Background, Busy
<1>2. PICK got \in Migrate(op[Handler].query) :
        op' = [op EXCEPT ![Handler].at = "done", ![Handler].got = got]
  BY DEF DryRun
<1> DEFINE o == op[Handler]
           p == [o EXCEPT !.at = "done", !.got = got]
<1>3. op' = [op EXCEPT ![Handler] = p]
  BY <1>2, HandlerTypes DEF Declares, Types, OpTypes
<1>4. p \in OpType /\ Named(p)
  <2>1. got \in Gots /\ "done" \in Ats
    BY <1>2, Answers DEF Gots, Ats, Failures
  <2>2. o \in OpType /\ o.query # None
    BY <1>1, HandlerTypes DEF Named
  <2> HIDE DEF o
  <2>3. p \in OpType /\ Fields(p, o.do, "done", o.query, o.id, o.create, o.status, o.reset, o.always, got)
    BY <2>1, <2>2, GoesOnWith
  <2> HIDE DEF p
  <2> QED
    BY <2>2, <2>3 DEF Fields, Named
<1> HIDE DEF p
<1>5. /\ connector' \in [Actors -> ConnectorType] /\ Keeps(statuses, statuses', declared)
      /\ \A b \in Conns : connector'[b].stored = connector[b].stored
      /\ to_process' \subseteq Queries /\ views' \subseteq Queries
      /\ start_time' \in [Queries -> {None, "recent", "exceeded"}]
  BY <1>1, HandlerTypes
<1> QED
  BY <1>1, <1>3, <1>4, <1>5, HandlerStep

LEMMA HandlerReturns_Keeps ==
  ASSUME Declares, MigrateReturns \/ DryRunReturns
  PROVE  Keeps(statuses, statuses', declared)
<1>1. /\ "Successful" \in MigrationState /\ "Unsupported" \in MigrationState
      /\ "DryRunSucceeded" \in MigrationState
  BY DEF MigrationState
<1>2. \/ statuses' = statuses
      \/ \E m \in MigrationState :
           statuses' = update_query_migration_state(statuses, op[Handler].query, m)
  <2>1. CASE MigrateReturns
    BY <1>1, <2>1 DEF MigrateReturns, Decided
  <2>2. CASE DryRunReturns
    BY <1>1, <2>2 DEF DryRunReturns, Decided
  <2> QED
    BY <2>1, <2>2
<1> QED
  BY <1>2, VerdictKeeps

LEMMA HandlerReturns_Declares ==
  ASSUME Declares, MigrateReturns \/ DryRunReturns
  PROVE  Declares'
<1> DEFINE q == op[Handler].query
<1>1. /\ UNCHANGED <<env, global, statements, proxy_state, declared>>
      /\ views' = views /\ connector' = connector /\ to_process' = to_process
      /\ op' = [op EXCEPT ![Handler] = Idle]
      /\ start_time' = start_time \/ start_time' = [start_time EXCEPT ![q] = None]
  <2>1. CASE MigrateReturns
    BY <2>1 DEF MigrateReturns, Decided
  <2>2. CASE DryRunReturns
    BY <2>2 DEF DryRunReturns, Decided
  <2> QED
    BY <2>1, <2>2
<1>2. /\ connector' \in [Actors -> ConnectorType]
      /\ \A b \in Conns : connector'[b].stored = connector[b].stored
      /\ to_process' \subseteq Queries /\ views' \subseteq Queries
      /\ start_time' \in [Queries -> {None, "recent", "exceeded"}]
  BY <1>1, HandlerTypes
<1> QED
  BY <1>1, <1>2, HandlerReturns_Keeps, HandlerFree, HandlerStep

LEMMA RetriesExceeded_Declares ==
  ASSUME Declares, NEW q \in Queries, RetriesExceeded(q)
  PROVE  Declares'
<1>1. /\ UNCHANGED <<env, global, statements, proxy_state, declared>>
      /\ statuses' = statuses /\ views' = views /\ connector' = connector /\ op' = op
      /\ to_process' = to_process /\ start_time' = [start_time EXCEPT ![q] = "exceeded"]
  BY DEF RetriesExceeded
<1>2. start_time' \in [Queries -> {None, "recent", "exceeded"}]
  BY <1>1, HandlerTypes
<1> QED
  BY <1>1, <1>2, HandlerTypes, HandlerStep

LEMMA Poll_Declares ==
  ASSUME Declares, Poll
  PROVE  Declares'
<1>1. /\ UNCHANGED <<env, global, statements, proxy_state, declared>>
      /\ statuses' = statuses /\ views' = views /\ connector' = connector /\ op' = op
      /\ to_process' = to_process /\ start_time' = start_time
  BY DEF Poll
<1> QED
  BY <1>1, HandlerTypes, HandlerStep

LEMMA PollReturns_Keeps ==
  ASSUME Declares, PollReturns
  PROVE  Keeps(statuses, statuses', declared)
<1> DEFINE update(q) == update_query_migration_state(statuses, q, "Successful")
           none == {}
<1>1. statuses' = [q \in Queries |-> IF q \in migrated THEN update(q)[q] ELSE statuses[q]]
  BY DEF PollReturns
<1>2. statuses \in Caches /\ "Successful" \in MigrationState
  BY HandlerTypes DEF MigrationState
<1>3. ASSUME NEW q \in Queries
      PROVE  /\ statuses'[q] \in Status \cup {None}
             /\ q \in KnownIn(statuses) => statuses'[q] # None
             /\ statuses'[q] # None /\ statuses'[q].always => q \in AlwaysIn(statuses)
             /\ q \in UnsupportedIn(statuses) => IsUnsupported(statuses', q)
  <2>1. CASE q \in migrated
    <3>1. Keeps(statuses, update(q), none)
      BY <1>2, MigrationStateKeeps
    <3>2. statuses'[q] = update(q)[q]
      BY <1>1, <2>1
    <3> DEFINE new == update(q)
    <3> HIDE DEF new
    <3>3. Keeps(statuses, new, none) /\ statuses'[q] = new[q]
      BY <3>1, <3>2 DEF new
    <3> QED
      BY <3>3 DEF Keeps, Becomes, Caches, KnownIn, AlwaysIn, UnsupportedIn, IsUnsupported
  <2>2. CASE q \notin migrated
    <3>1. statuses'[q] = statuses[q]
      BY <1>1, <2>2
    <3> QED
      BY <1>2, <3>1 DEF Caches, KnownIn, AlwaysIn, UnsupportedIn, IsUnsupported
  <2> QED
    BY <2>1, <2>2
<1>4. statuses' \in Caches
  <2>1. statuses' = [q \in Queries |-> statuses'[q]]
    BY <1>1
  <2> QED
    BY <1>3, <2>1 DEF Caches
<1> QED
  BY <1>3, <1>4 DEF Keeps, Becomes, KnownIn, AlwaysIn, UnsupportedIn

LEMMA PollReturns_Declares ==
  ASSUME Declares, PollReturns
  PROVE  Declares'
<1>1. /\ UNCHANGED <<env, global, statements, proxy_state, declared>>
      /\ views' = views /\ connector' = connector /\ op' = op
      /\ to_process' = to_process /\ start_time' = start_time
  BY DEF PollReturns
<1> QED
  BY <1>1, PollReturns_Keeps, HandlerTypes, HandlerStep

LEMMA Elsewhere_Declares ==
  ASSUME Declares, NEW q \in Queries, Elsewhere(q)
  PROVE  Declares'
<1> DEFINE qs == {q}
<1>1. /\ UNCHANGED <<env, global, statements, proxy_state, declared>>
      /\ statuses' = statuses /\ op' = op
      /\ to_process' = to_process /\ start_time' = start_time
      /\ \/ views' = views \cup {q} /\ connector' = connector
         \/ views' = views \ {q} /\ connector' = Destroyed(qs)
  BY DEF Elsewhere, Background
<1>2. views' \subseteq Queries /\ Conns \subseteq Actors
  BY <1>1, HandlerTypes DEF Actors
<1> HIDE DEF qs
<1>3. /\ connector' \in [Actors -> ConnectorType]
      /\ \A b \in Conns : connector'[b].stored = connector[b].stored
  <2>1. CASE connector' = connector
    BY <2>1, HandlerTypes
  <2>2. CASE connector' = Destroyed(qs)
    BY <1>2, <2>2, HandlerTypes, DestroyedHandles
  <2> QED
    BY <1>1, <2>1, <2>2
<1> QED
  BY <1>1, <1>2, <1>3, HandlerTypes, HandlerStep

-----------------------------------------------------------------------------
(* The invariant holds.                                                    *)

LEMMA Init_Declares ==
  ASSUME Init
  PROVE  Declares
<1>1. /\ deployment \in Deployments /\ statuses = [q \in Queries |-> None]
      /\ global = {} /\ views = {} /\ declared = {} /\ to_process = {}
      /\ connector = [a \in Actors |->
           [local |-> {}, handles |-> [q \in Queries |-> "none"], failed |-> {},
            stored |-> [i \in 1..MaxPrepared |-> None]]]
      /\ statements = [c \in Conns |-> <<>>]
      /\ proxy_state = [c \in Conns |-> "Fallback"]
      /\ op = [a \in Actors |-> Idle]
      /\ start_time = [q \in Queries |-> None]
  BY DEF Init
<1>2. statuses \in Caches /\ AlwaysIn(statuses) = {}
  BY <1>1 DEF Caches, AlwaysIn
<1>3. connector \in [Actors -> ConnectorType]
  BY <1>1 DEF ConnectorType
<1>4. <<>> \in Statements /\ statements \in [Conns -> Statements]
  BY <1>1, SMTT(30) DEF Statements
<1>5. proxy_state \in [Conns -> ProxyState] /\ start_time \in [Queries -> {None, "recent", "exceeded"}]
  BY <1>1 DEF ProxyState
<1>6. OpTypes
  <2>1. op \in [Actors -> OpType] /\ \A a \in Actors : op[a] = Idle
    BY <1>1, HandlerFree
  <2> QED
    BY <2>1, HandlerFree DEF OpTypes
<1>7. Types
  BY <1>1, <1>2, <1>3, <1>4, <1>5, <1>6 DEF Types
<1>8. ASSUME NEW c \in Conns
      PROVE  Own(c)
  <2> DEFINE ss == statements[c]
             st == connector[c].stored
             px == proxy_state[c]
             known == KnownIn(statuses)
  <2>1. c \in Actors /\ op[c] = Idle /\ ss = <<>>
    BY <1>1 DEF Actors
  <2>2. StatementsOk(ss, st, known, declared) /\ Len(ss) <= MaxPrepared
    BY <2>1, AdapterAssumption, SMTT(30) DEF StatementsOk
  <2> HIDE DEF ss, st, px, known
  <2>3. ConnOk(Idle, ss, st, px, known, declared)
    BY <2>2, FreeAgain
  <2> QED
    BY <2>1, <2>3 DEF Own, ss, st, px, known
<1> QED
  BY <1>1, <1>2, <1>7, <1>8 DEF Declares

\* A step that changes nothing.
LEMMA Stutter_Declares ==
  ASSUME Declares, UNCHANGED vars
  PROVE  Declares'
BY DEF Declares, Types, OpTypes, Own, vars

LEMMA Next_Declares ==
  ASSUME Declares, Next
  PROVE  Declares'
<1>1. deployment.queries \subseteq Queries /\ Conns \subseteq Actors /\ Handler \in Actors
  BY HandlerTypes DEF Actors
<1>2. ASSUME NEW a \in Actors, Connector(a)
      PROVE  Declares'
  BY <1>2, get_view_Declares, get_noria_view_Declares, do_read_Declares DEF Connector
<1>3. ASSUME NEW c \in Conns, Sent(c)
      PROVE  Declares'
  <2>1. CASE \E q \in deployment.queries :
               \/ Query(c, q) \/ Prepare(c, q) \/ DropCache(c, q)
               \/ \E always \in BOOLEAN : CreateCache(c, q, always)
    <3>1. PICK q \in Queries : \/ Query(c, q) \/ Prepare(c, q) \/ DropCache(c, q)
                               \/ \E always \in BOOLEAN : CreateCache(c, q, always)
      BY <1>1, <2>1
    <3> QED
      BY <3>1, Query_Declares, Prepare_Declares, DropCache_Declares, CreateCache_Declares
  <2>2. CASE \E i \in 1..MaxPrepared : ExecuteStatement(c, i)
    BY <2>2, ExecuteStatement_Declares
  <2>3. CASE PrepareUpstream(c) \/ DropAllCaches(c) \/ Boundary(c)
    BY <2>3, PrepareUpstream_Declares, DropAllCaches_Declares, Boundary_Declares
  <2> QED
    BY <1>3, <2>1, <2>2, <2>3 DEF Sent
<1>4. ASSUME NEW c \in Conns, Returns(c)
      PROVE  Declares'
  BY <1>4, QueryInserts_Declares, QueryReturns_Declares, PrepareInserts_Declares,
     PrepareReturns_Declares, UpdateReturns_Declares, ExecuteReturns_Declares,
     CreateReturns_Declares, DropReturns_Declares, DropAllReturns_Declares DEF Returns
<1>5. CASE Handles
  <2>1. CASE Tick \/ \E q \in Queries : Process(q)
    BY <2>1, Tick_Declares, Process_Declares
  <2>2. CASE DryRun \/ MigrateReturns \/ DryRunReturns
    BY <2>2, DryRun_Declares, HandlerReturns_Declares
  <2>3. CASE Connector(Handler)
    BY <1>1, <1>2, <2>3
  <2> QED
    BY <1>5, <2>1, <2>2, <2>3 DEF Handles
<1>6. CASE Synchronizes
  BY <1>6, Poll_Declares, PollReturns_Declares DEF Synchronizes
<1>7. CASE \E q \in Queries : RetriesExceeded(q)
  BY <1>7, RetriesExceeded_Declares
<1>8. CASE \E q \in deployment.queries : Elsewhere(q)
  <2>1. PICK q \in Queries : Elsewhere(q)
    BY <1>1, <1>8
  <2> QED
    BY <2>1, Elsewhere_Declares
<1>9. \A c \in Conns : c \in Actors
  BY <1>1
<1> QED
  BY <1>2, <1>3, <1>4, <1>5, <1>6, <1>7, <1>8, <1>9 DEF Next

LEMMA DeclaresInvariant == Spec => []Declares
<1>1. Init => Declares
  BY Init_Declares
<1>2. Declares /\ [Next]_vars => Declares'
  BY Next_Declares, Stutter_Declares
<1> QED
  BY <1>1, <1>2, PTL DEF Spec

-----------------------------------------------------------------------------
(* What it means.                                                          *)

(* Every variable of the adapter has its type, whatever the interleaving   *)
(* of connections, migration handler and synchronizer.                     *)
THEOREM AdapterTyped == Spec => []TypeOK
<1>1. ASSUME Declares
      PROVE  TypeOK
  <2>1. /\ statuses \in [Queries -> Status \cup {None}]
        /\ global \subseteq Queries /\ views \subseteq Queries
        /\ proxy_state \in [Conns -> ProxyState]
        /\ op \in [Actors -> OpType]
        /\ to_process \subseteq Queries
        /\ start_time \in [Queries -> {None, "recent", "exceeded"}]
    BY <1>1 DEF Declares, Types, OpTypes, Caches
  <2>2. ASSUME NEW a \in Actors
        PROVE  /\ connector[a].local \subseteq Queries
               /\ connector[a].handles \in [Queries -> {"none", "live", "dead"}]
               /\ connector[a].failed \subseteq Queries
               /\ connector[a].stored \in [1..MaxPrepared -> Queries \cup {None}]
    <3>1. connector[a] \in ConnectorType
      BY <1>1 DEF Declares, Types
    <3> QED
      BY <3>1 DEF ConnectorType
  <2>3. ASSUME NEW c \in Conns
        PROVE  /\ Len(statements[c]) <= MaxPrepared
               /\ \A i \in DOMAIN statements[c] : statements[c][i] \in StatementType
    BY <1>1, OwnStatements, SMTT(30) DEF Statements
  <2>4. ASSUME NEW a \in Actors, op[a].at \in {"view", "getter", "read"}
        PROVE  op[a].query # None
    BY <1>1, <2>4 DEF Declares, Types, OpTypes, Named, Asks
  <2> QED
    BY <2>1, <2>2, <2>3, <2>4 DEF TypeOK
<1> QED
  BY <1>1, DeclaresInvariant, PTL

(* Executing a statement on ReadySet reads the query the client prepared   *)
(* under its identifier, also after a prepare the upstream refused has     *)
(* left the connector's entry behind for the next one (backend.rs and      *)
(* noria_connector.rs, whose maps of statements are kept apart).           *)
THEOREM ExecutesWhatWasPrepared == Spec => []ReadsWhatWasPrepared
<1>1. Declares => ReadsWhatWasPrepared
  BY DEF Declares, Own, ConnOk, StatementsOk, ReadsWhatWasPrepared
<1> QED
  BY <1>1, DeclaresInvariant, PTL

(* While a connection proxies, ReadySet serves it only queries that some   *)
(* client created a cache for with ALWAYS, whatever happened to the status *)
(* or to the prepared statement in between.                                *)
THEOREM ProxiesUnlessAlways == Spec => []ProxiedUnlessAlways
<1>1. Declares => ProxiedUnlessAlways
  BY DEF Declares, Own, ConnOk, ReadsOk, ProxiedUnlessAlways
<1> QED
  BY <1>1, DeclaresInvariant, PTL

\* A step of a client that says nothing about a status.
LEMMA SentStatuses ==
  ASSUME NEW c, Sent(c)
  PROVE  statuses' = statuses
<1>1. CASE \E q \in deployment.queries :
             \/ Query(c, q) \/ Prepare(c, q) \/ DropCache(c, q)
             \/ \E always \in BOOLEAN : CreateCache(c, q, always)
  BY <1>1 DEF Query, Prepare, DropCache, CreateCache
<1>2. CASE \E i \in 1..MaxPrepared : ExecuteStatement(c, i)
  BY <1>2 DEF ExecuteStatement
<1>3. CASE PrepareUpstream(c) \/ DropAllCaches(c) \/ Boundary(c)
  BY <1>3 DEF PrepareUpstream, DropAllCaches, Boundary
<1> QED
  BY <1>1, <1>2, <1>3 DEF Sent

\* A step of a connector says nothing either.
LEMMA ConnectorStatuses ==
  ASSUME NEW a, Connector(a)
  PROVE  statuses' = statuses
BY DEF Connector, get_view, get_noria_view, do_read

\* An insertion can cost the query it inserts its verdict, and no other.
LEMMA InsertionStatuses ==
  ASSUME Declares, NEW c \in Conns, QueryInserts(c) \/ PrepareInserts(c), NEW p \in Queries,
         IsUnsupported(statuses, p)
  PROVE  IsUnsupported(statuses', p) \/ LateInsert(p)
<1> DEFINE q == op[c].query
<1>1. op[c].at = "insert" /\ statuses' = insert(statuses, q) /\ op[c].do \in {"query", "prepare"}
  <2>1. CASE QueryInserts(c)
    BY <2>1 DEF QueryInserts, Busy
  <2>2. CASE PrepareInserts(c)
    BY <2>2 DEF PrepareInserts, Busy
  <2> QED
    BY <2>1, <2>2
<1>2. q \in Queries /\ statuses \in Caches
  BY <1>1, OwnStatements
<1>3. CASE p # q
  BY <1>1, <1>2, <1>3, InsertKeeps
<1>4. CASE p = q
  <2>1. op'[c].at # "insert"
    <3>1. op \in [Actors -> OpType] /\ c \in Actors
      BY OwnStatements
    <3>3. CASE QueryInserts(c)
      <4> DEFINE s == with_migration_state("Pending")
                 known == KnownIn(statuses')
                 dc == declared
      <4>1. AdHocSelect(c, q, s, "failing")
        BY <3>3 DEF QueryInserts
      <4>2. s \in Status /\ (s.always => q \in dc)
        BY FreshStatus DEF MigrationState
      <4>3. Becomes(statuses, statuses', {})
        BY <1>1, <1>2, InsertKeeps
      <4>4. StatementsOk(statements[c], connector[c].stored, known, dc)
        BY <4>3, OwnStatements DEF Becomes, StatementsOk
      <4> HIDE DEF s, known, dc
      <4>5. \E o \in OpType :
              /\ op' = [op EXCEPT ![c] = o] /\ Named(o) /\ o.at # "insert"
              /\ ConnOk(o, statements[c], connector[c].stored, proxy_state[c], known, dc)
        BY <1>2, <4>1, <4>2, <4>4, AdHocSelectBegins
      <4> QED
        BY <3>1, <4>5
    <3>4. CASE PrepareInserts(c)
      <4> DEFINE s == with_migration_state("Pending")
                 known == KnownIn(statuses')
                 dc == declared
      <4>1. PlanPrepare(c, q, s)
        BY <3>4 DEF PrepareInserts
      <4>2. s \in Status /\ ~s.always
        BY FreshStatus DEF MigrationState
      <4>3. op[c].do = "prepare"
        BY <3>4 DEF PrepareInserts, Busy
      <4>4. Becomes(statuses, statuses', {}) /\ q \in known
        BY <1>1, <1>2, InsertKeeps
      <4>5. /\ Len(statements[c]) + 1 <= MaxPrepared
            /\ StatementsOk(statements[c], connector[c].stored, known, dc)
        BY <4>3, <4>4, OwnStatements DEF Becomes, PreparesOk, StatementsOk
      <4> HIDE DEF s, known, dc
      <4>6. \E o \in OpType :
              /\ op' = [op EXCEPT ![c] = o] /\ Named(o) /\ o.at # "insert"
              /\ ConnOk(o, statements[c], connector[c].stored, proxy_state[c], known, dc)
        <5>1. s.always => q \in dc
          BY <4>2
        <5> QED
          BY <1>2, <4>1, <4>2, <4>4, <4>5, <5>1, PlanPrepareBegins
      <4> QED
        BY <3>1, <4>6
    <3> QED
      BY <3>3, <3>4
  <2> QED
    BY <1>1, <1>4, <2>1 DEF LateInsert
<1> QED
  BY <1>3, <1>4

(* A query found to be unsupported stays so: every way to change its       *)
(* status (query_status_cache.rs) keeps the verdict, except the insertion  *)
(* by a lookup that had found nothing.                                     *)
THEOREM UnsupportedRemains == Spec => UnsupportedStays
<1> DEFINE Stays == \A q \in Queries :
                      IsUnsupported(statuses, q) => IsUnsupported(statuses', q) \/ LateInsert(q)
<1>1. ASSUME Declares, [Next]_vars
      PROVE  Stays
  <2>1. ASSUME statuses' = statuses PROVE Stays
    BY <2>1 DEF IsUnsupported
  <2>2. ASSUME NEW dc, Keeps(statuses, statuses', dc) PROVE Stays
    BY <2>2 DEF Keeps, UnsupportedIn
  <2>3. ASSUME NEW c \in Conns, Returns(c) PROVE Stays
    <3>1. CASE QueryInserts(c) \/ PrepareInserts(c)
      BY <1>1, <3>1, InsertionStatuses
    <3>2. CASE \/ QueryReturns(c) \/ PrepareReturns(c) \/ ExecuteReturns(c)
               \/ CreateReturns(c) \/ DropReturns(c) \/ DropAllReturns(c)
      <4>1. Keeps(statuses, statuses', declared')
        BY <1>1, <3>2, QueryReturns_Keeps, PrepareReturns_Keeps, ExecuteReturns_Keeps,
           CreateReturns_Keeps, DropReturns_Keeps, DropAllReturns_Keeps
      <4> QED
        BY <2>2, <4>1
    <3>3. CASE UpdateReturns(c)
      BY <2>1, <3>3 DEF UpdateReturns
    <3> QED
      BY <2>3, <3>1, <3>2, <3>3 DEF Returns
  <2>4. CASE Handles
    <3>1. CASE MigrateReturns \/ DryRunReturns
      <4>1. Keeps(statuses, statuses', declared)
        BY <1>1, <3>1, HandlerReturns_Keeps
      <4> QED
        BY <2>2, <4>1
    <3>2. CASE Tick \/ (\E q \in Queries : Process(q)) \/ DryRun \/ Connector(Handler)
      <4>1. statuses' = statuses
        BY <3>2, ConnectorStatuses DEF Tick, Process, DryRun
      <4> QED
        BY <2>1, <4>1
    <3> QED
      BY <2>4, <3>1, <3>2 DEF Handles
  <2>5. CASE Synchronizes
    <3>1. CASE Poll
      BY <2>1, <3>1 DEF Poll
    <3>2. CASE PollReturns
      <4>1. Keeps(statuses, statuses', declared)
        BY <1>1, <3>2, PollReturns_Keeps
      <4> QED
        BY <2>2, <4>1
    <3> QED
      BY <2>5, <3>1, <3>2 DEF Synchronizes
  <2>6. CASE (\E q \in Queries : RetriesExceeded(q)) \/ \E q \in deployment.queries : Elsewhere(q)
    <3>1. statuses' = statuses
      BY <2>6 DEF RetriesExceeded, Elsewhere
    <3> QED
      BY <2>1, <3>1
  <2>7. ASSUME NEW c \in Conns, Sent(c) \/ Connector(c) PROVE Stays
    <3>1. statuses' = statuses
      BY <2>7, SentStatuses, ConnectorStatuses
    <3> QED
      BY <2>1, <3>1
  <2>8. CASE UNCHANGED vars
    BY <2>1, <2>8 DEF vars
  <2> HIDE DEF Stays
  <2> QED
    BY <1>1, <2>3, <2>4, <2>5, <2>6, <2>7, <2>8 DEF Next
<1> QED
  BY <1>1, DeclaresInvariant, PTL DEF Spec, UnsupportedStays
=============================================================================
