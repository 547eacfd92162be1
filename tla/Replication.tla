----------------------------- MODULE Replication -----------------------------
(***************************************************************************)
(* The replicator (NoriaAdapter): it copies the tables of an upstream      *)
(* MySQL or PostgreSQL database into base tables and then follows the      *)
(* upstream log, remembering in each base table, and in the controller for *)
(* the schema, how far it got.  An ALTER TABLE is an entry of its table    *)
(* that only a snapshot can bring in.                                      *)
(***************************************************************************)
EXTENDS UpstreamLog, Functions

CONSTANTS
  Databases,   \* subset of {"MySQL", "PostgreSQL"}
  Kinds,       \* the kinds of log entries each of them writes
  Before,      \* the log of each of them when replication begins
  InstanceLock,\* whether MySQL grants LOCK INSTANCE FOR BACKUP
  AnyCrash,    \* whether the replicator may fail in every phase
  MaxFaults    \* bound on failures of the replicator

None == -1      \* a replication offset that is not there
NoWrite == 0

VARIABLES
  db,          \* which database is upstream
  log,         \* its log
  rejected,    \* tables whose CREATE TABLE ReadySet cannot execute
  (* What survives a failure of the replicator.                            *)
  schema,      \* offset of the schema, kept by the controller
  present,     \* the base tables that exist
  marked,      \* tables known not to be replicated
  body,        \* the definition of each base table
  offset,      \* replication offset of each base table
  rows,        \* what was applied to each base table
  wire,        \* writes on their way to a base table: <<table, position>>
  (* The replicator.                                                       *)
  phase,       \* "down", "recipe", "schema", "tables", "connect", "catchup", "stream"
  resnapshot,
  mem,         \* replication_offsets
  cache,       \* mutator_map: for a table in it, whether the table was found
  denied,      \* tables taken out by the table filter
  point,       \* position of the snapshot (PostgreSQL)
  todo,        \* tables still to be copied
  taken,       \* position at which a table being copied is read
  read,        \* the connector's position in the log
  position,    \* main_loop's position
  until,       \* where the catch-up ends
  sending,     \* position of the write main_loop waits for
  forward,     \* handle_log_position under way: <<>> or <<its state>>
  faults

upstream == <<db, log, rejected>>
durable == <<schema, present, marked, body, offset, rows>>
start == <<resnapshot, denied, point>>
copying == <<todo, taken>>
reading == <<read, position, until>>
handling == <<mem, cache, sending, forward>>
vars == <<upstream, durable, wire, phase, start, copying, reading, handling, faults>>

Offset == 0..MaxLog \cup {None}
End == Len(log)
Entries == [kind : (UNION Range(Kinds)) \cup {"create"}, table : Tables \cup {"none"}]

-----------------------------------------------------------------------------
(* The upstream database.                                                  *)

(* While MySQL tables are copied, a transaction that has read them keeps   *)
(* their definition from changing, and the lock on the instance, if it is  *)
(* granted, any definition.                                                *)
Locked(t) ==
  /\ db = "MySQL" /\ phase \in {"schema", "tables"}
  /\ InstanceLock \/ t \in present

Write(kind, t) ==
  /\ Len(log) < MaxLog
  /\ kind \in Kinds[db]
  /\ CASE kind = "create" -> ~Exists(log, t, End) /\ ~Locked(t)
       [] kind \in {"alter", "drop"} -> Exists(log, t, End) /\ ~Locked(t)
       [] kind = "unsupported" -> Exists(log, t, End) /\ db = "PostgreSQL"
       [] OTHER -> Exists(log, t, End)
  /\ log' = Append(log, [kind |-> kind, table |-> t])
  /\ UNCHANGED <<db, rejected, durable, wire, phase, start, copying, reading, handling, faults>>

(* The binlog moves on without touching a table.                           *)
Rotate ==
  /\ Len(log) < MaxLog
  /\ db = "MySQL" /\ "rotate" \in Kinds[db]
  /\ log' = Append(log, [kind |-> "rotate", table |-> "none"])
  /\ UNCHANGED <<db, rejected, durable, wire, phase, start, copying, reading, handling, faults>>

-----------------------------------------------------------------------------
(* Sets of replication offsets.                                            *)

replication_offsets ==
  [schema |-> schema, tables |-> [t \in present |-> offset[t]]]

max_offset(o) ==
  IF o.schema = None \/ None \in Range(o.tables)
  THEN None ELSE Max({o.schema} \cup Range(o.tables))

min_present_offset(o) == Min(({o.schema} \cup Range(o.tables)) \ {None})

advance_offset(o, p) ==
  [schema |-> Max({o.schema, p}),
   tables |-> [t \in DOMAIN o.tables |-> Max({o.tables[t], p})]]

Empty == [t \in {} |-> None]

-----------------------------------------------------------------------------
(* Starting: load the offsets, and take a snapshot if one is missing.      *)

Start ==
  /\ phase = "down"
  /\ LET pos == max_offset(replication_offsets)
         snapshot == pos = None \/ resnapshot
     IN /\ phase' = IF snapshot THEN "recipe" ELSE "connect"
        /\ point' = IF db = "PostgreSQL" /\ snapshot THEN End ELSE None
        /\ read' = IF db = "PostgreSQL" /\ pos = None THEN End ELSE pos
  /\ mem' = replication_offsets
  /\ denied' = {}
  /\ UNCHANGED <<upstream, durable, wire, resnapshot, copying, position, until,
                 cache, sending, forward, faults>>

(* The tables of the database at the position that is being copied.        *)
SnapshotAt == IF db = "PostgreSQL" THEN point ELSE End
Listed == {t \in Tables : Exists(log, t, SnapshotAt)}

(* Tables that are new, and tables whose definition has changed, are       *)
(* created empty; those ReadySet rejects are marked as not replicated.     *)
(* PostgreSQL also drops the ones that are gone.  What an earlier          *)
(* replicator had sent has arrived by then.                                *)
LoadRecipe ==
  /\ phase = "recipe" /\ wire = {}
  /\ LET fresh == {t \in Listed \ rejected :
                     t \notin present \/ body[t] # Body(log, t, SnapshotAt)}
         kept == IF db = "PostgreSQL" THEN present \cap Listed ELSE present
     IN /\ present' = kept \cup fresh
        /\ marked' = (marked \ fresh) \cup (Listed \cap rejected)
        /\ body' = [t \in Tables |->
                      IF t \in fresh THEN Body(log, t, SnapshotAt) ELSE body[t]]
        /\ offset' = [t \in Tables |->
                        IF t \in fresh \/ t \notin present' THEN None ELSE offset[t]]
        /\ rows' = [t \in Tables |->
                      IF t \in fresh \/ t \notin present' THEN NoRows ELSE rows[t]]
        /\ todo' = Listed \ rejected
  /\ phase' = "schema"
  /\ UNCHANGED <<upstream, schema, wire, start, taken, reading, handling, faults>>

(* The offset of the schema is read, and set, after the tables are there.  *)
SetSchema ==
  /\ phase = "schema"
  /\ schema' = SnapshotAt
  /\ todo' = {t \in todo : offset[t] = None}
  /\ phase' = "tables"
  /\ UNCHANGED <<upstream, present, marked, body, offset, rows, wire, start, taken,
                 reading, handling, faults>>

(* A table is locked, the position is read, and a transaction that sees    *)
(* the table there is opened.                                              *)
TakeTable(t) ==
  /\ phase = "tables"
  /\ t \in todo /\ taken[t] = None
  /\ taken' = [taken EXCEPT ![t] = SnapshotAt]
  /\ UNCHANGED <<upstream, durable, wire, phase, start, todo, reading, handling, faults>>

(* Copying failed: MySQL starts over with that table at a new position,    *)
(* PostgreSQL gives the table up.                                          *)
RetryTable(t) ==
  /\ phase = "tables"
  /\ t \in todo /\ taken[t] # None
  /\ faults < MaxFaults
  /\ faults' = faults + 1
  /\ taken' = [taken EXCEPT ![t] = None]
  /\ IF db = "MySQL"
     THEN UNCHANGED <<todo, present, marked>>
     ELSE /\ todo' = todo \ {t}
          /\ present' = present \ {t} /\ marked' = marked \cup {t}
  /\ UNCHANGED <<upstream, schema, body, offset, rows, wire, phase, start, reading, handling>>

(* All rows are copied and the table gets the position they were read at.  *)
FinishTable(t) ==
  /\ phase = "tables"
  /\ t \in todo /\ taken[t] # None
  /\ rows' = [rows EXCEPT ![t] = Content(log, t, taken[t])]
  /\ offset' = [offset EXCEPT ![t] = taken[t]]
  /\ taken' = [taken EXCEPT ![t] = None]
  /\ todo' = todo \ {t}
  /\ UNCHANGED <<upstream, schema, present, marked, body, wire, phase, start, reading,
                 handling, faults>>

\* Mutant: readiness is announced before the tables are level.
Connect_AlwaysReady ==
  /\ phase = "connect" \/ (phase = "tables" /\ todo = {})
  /\ LET offsets == IF phase = "connect" /\ db = "MySQL" THEN mem ELSE replication_offsets
         low == min_present_offset(offsets)
         top == max_offset(offsets)
         from == IF phase = "connect" /\ db = "MySQL" THEN read ELSE low
     IN /\ db = "PostgreSQL" => top # None
        /\ mem' = offsets
        /\ position' = from
        /\ read' = IF db = "MySQL" THEN from ELSE read
        /\ until' = None
        /\ phase' = "stream"
  /\ point' = None
  /\ cache' = Empty
  /\ UNCHANGED <<upstream, durable, wire, resnapshot, denied, copying, sending, forward, faults>>

(* The snapshot is done, or none was needed: load the offsets again,       *)
(* connect, and catch up if the tables are at different positions.         *)
Connect ==
  /\ phase = "connect" \/ (phase = "tables" /\ todo = {})
  /\ LET offsets == IF phase = "connect" /\ db = "MySQL" THEN mem ELSE replication_offsets
         low == min_present_offset(offsets)
         top == max_offset(offsets)
         from == IF phase = "connect" /\ db = "MySQL" THEN read ELSE low
     IN /\ db = "PostgreSQL" => top # None
        /\ mem' = offsets
        /\ position' = from
        /\ read' = IF db = "MySQL" THEN from ELSE read
        /\ until' = IF top > from THEN top ELSE None
        /\ phase' = IF top > from THEN "catchup" ELSE "stream"
  /\ point' = None
  /\ cache' = Empty
  /\ UNCHANGED <<upstream, durable, wire, resnapshot, denied, copying, sending, forward, faults>>

-----------------------------------------------------------------------------
(* main_loop: take the next action off the log and handle it.              *)

Listening == phase \in {"catchup", "stream"} /\ sending = NoWrite /\ forward = <<>>

\* Mutant: the catch-up waits for an entry after its end.
CaughtUp_Beyond ==
  /\ Listening /\ phase = "catchup" /\ position > until
  /\ phase' = "stream" /\ until' = None
  /\ UNCHANGED <<upstream, durable, wire, start, copying, read, position, handling, faults>>

CaughtUp ==
  /\ Listening /\ phase = "catchup" /\ position >= until
  /\ phase' = "stream" /\ until' = None
  /\ UNCHANGED <<upstream, durable, wire, start, copying, read, position, handling, faults>>

Receive(kinds) ==
  /\ Listening
  /\ phase = "catchup" => position < until
  /\ read < End
  /\ log[read + 1].kind \in kinds
  /\ read' = read + 1
  /\ until' = until

(* handle_action skips what a table, or the schema, has seen already.      *)
SeenByTable(t, pos) == t \in DOMAIN mem.tables /\ pos <= mem.tables[t]
SeenBySchema(pos) == pos <= mem.schema

(* mutator_for_table: whether the table is found, from the cache or not.   *)
Found(t) == IF t \in DOMAIN cache THEN cache[t] ELSE t \in present
Cached(t) == [u \in DOMAIN cache \cup {t} |-> IF u = t THEN Found(t) ELSE cache[u]]

SkipTableAction ==
  /\ Receive({"write"})
  /\ LET t == log[read + 1].table
     IN SeenByTable(t, read + 1) \/ t \in denied
  /\ position' = read + 1
  /\ UNCHANGED <<upstream, durable, wire, phase, start, copying, handling, faults>>

handle_table_actions ==
  /\ Receive({"write"})
  /\ LET t == log[read + 1].table
     IN /\ ~SeenByTable(t, read + 1) /\ t \notin denied
        /\ cache' = Cached(t)
        /\ IF Found(t)
           THEN sending' = read + 1 /\ wire' = wire \cup {<<t, read + 1>>}
           ELSE UNCHANGED <<sending, wire>>
  /\ position' = read + 1
  /\ UNCHANGED <<upstream, durable, phase, start, copying, mem, forward, faults>>

(* A write reaches the base table, which drops it if it has seen it, and   *)
(* the replicator, if it still waits, gets the answer.                     *)
Deliver(t, pos) ==
  /\ <<t, pos>> \in wire
  /\ wire' = wire \ {<<t, pos>>}
  /\ IF t \in present /\ offset[t] < pos
     THEN /\ rows' = [rows EXCEPT ![t][pos] = @ + 1]
          /\ offset' = [offset EXCEPT ![t] = pos]
     ELSE UNCHANGED <<rows, offset>>
  /\ IF sending = pos
     THEN /\ sending' = NoWrite
          /\ mem' = [mem EXCEPT !.tables =
                       [u \in DOMAIN @ \cup {t} |-> IF u = t THEN pos ELSE @[u]]]
     ELSE UNCHANGED <<sending, mem>>
  /\ UNCHANGED <<upstream, schema, present, marked, body, phase, start, copying, reading,
                 cache, forward, faults>>

(* handle_log_position: the schema first, then the tables behind, one by   *)
(* one, and the offsets in memory last.                                    *)
LogPosition(pos, after) ==
  /\ schema' = pos
  /\ forward' = <<[to |-> pos, after |-> after,
                   left |-> {t \in DOMAIN mem.tables : mem.tables[t] < pos}]>>

\* Mutant: the tables are moved to the entry being handled.
ForwardTable_ToHere(t) ==
  /\ forward # <<>> /\ t \in forward[1].left
  /\ cache' = Cached(t)
  /\ offset' = IF Found(t) /\ t \in present
               THEN [offset EXCEPT ![t] = Max({@, position})] ELSE offset
  /\ forward' = <<[forward[1] EXCEPT !.left = @ \ {t}]>>
  /\ UNCHANGED <<upstream, schema, present, marked, body, rows, wire, phase, start, copying,
                 reading, mem, sending, faults>>

ForwardTable(t) ==
  /\ forward # <<>> /\ t \in forward[1].left
  /\ cache' = Cached(t)
  /\ offset' = IF Found(t) /\ t \in present
               THEN [offset EXCEPT ![t] = Max({@, forward[1].to})] ELSE offset
  /\ forward' = <<[forward[1] EXCEPT !.left = @ \ {t}]>>
  /\ UNCHANGED <<upstream, schema, present, marked, body, rows, wire, phase, start, copying,
                 reading, mem, sending, faults>>

ForwardDone ==
  /\ forward # <<>> /\ forward[1].left = {}
  /\ mem' = advance_offset(mem, forward[1].to)
  /\ forward' = <<>>
  /\ IF forward[1].after = "resnapshot"
     THEN phase' = "down" /\ resnapshot' = TRUE
     ELSE UNCHANGED <<phase, resnapshot>>
  /\ UNCHANGED <<upstream, durable, wire, denied, point, copying, reading, cache,
                 sending, faults>>

SkipSchemaAction ==
  /\ Receive({"create", "drop", "alter", "rotate"})
  /\ SeenBySchema(read + 1)
  /\ position' = read + 1
  /\ UNCHANGED <<upstream, durable, wire, phase, start, copying, handling, faults>>

HandleRotate ==
  /\ Receive({"rotate"})
  /\ ~SeenBySchema(read + 1)
  /\ position' = read + 1
  /\ LogPosition(read + 1, "continue")
  /\ UNCHANGED <<upstream, present, marked, body, offset, rows, wire, phase, start, copying,
                 mem, cache, sending, faults>>

\* Mutant: the schema moves past the ALTER TABLE before the snapshot.
HandleAlter_PastIt ==
  /\ Receive({"alter"})
  /\ ~SeenBySchema(read + 1)
  /\ log[read + 1].table \notin denied
  /\ position' = read + 1
  /\ IF max_offset(mem) = None
     THEN phase' = "down" /\ resnapshot' = TRUE /\ UNCHANGED <<schema, forward>>
     ELSE LogPosition(read + 1, "resnapshot") /\ UNCHANGED <<phase, resnapshot>>
  /\ UNCHANGED <<upstream, present, marked, body, offset, rows, wire, denied, point, copying,
                 mem, cache, sending, faults>>

(* ALTER TABLE: forward everything to the position before it, and go back  *)
(* to Start for a new snapshot.                                            *)
HandleAlter ==
  /\ Receive({"alter"})
  /\ ~SeenBySchema(read + 1)
  /\ log[read + 1].table \notin denied
  /\ position' = read + 1
  /\ IF max_offset(mem) = None
     THEN phase' = "down" /\ resnapshot' = TRUE /\ UNCHANGED <<schema, forward>>
     ELSE LogPosition(max_offset(mem), "resnapshot") /\ UNCHANGED <<phase, resnapshot>>
  /\ UNCHANGED <<upstream, present, marked, body, offset, rows, wire, denied, point, copying,
                 mem, cache, sending, faults>>

(* Other DDL: extend_recipe with the offset.  DROP TABLE of a table that   *)
(* is marked only takes the mark away.                                     *)
ExtendRecipe(t, kind) ==
  LET gone == IF kind = "drop" /\ t \notin marked THEN {t} ELSE {}
      new == IF kind = "create" /\ t \notin denied /\ (t \in present => body[t] # 0)
             THEN {t} ELSE {}
      filtered == IF kind = "create" THEN {t} \cap denied ELSE {}
      unmarked == new \cup (IF kind = "drop" THEN {t} ELSE {})
  IN /\ schema' = Max({schema, read + 1})
     /\ present' = (present \ gone) \cup new
     /\ marked' = (marked \ unmarked) \cup filtered
     /\ body' = [u \in Tables |-> IF u \in new THEN 0 ELSE body[u]]
     /\ offset' = [u \in Tables |-> IF u \in new \cup gone THEN None ELSE offset[u]]
     /\ rows' = [u \in Tables |-> IF u \in new \cup gone THEN NoRows ELSE rows[u]]
     /\ wire' = {w \in wire : w[1] \notin new \cup gone}

(* If ReadySet cannot do it, the table is marked as not replicated, and    *)
(* only the offset in memory moves.                                        *)
handle_ddl_change ==
  /\ Receive({"create", "drop", "alter"})
  /\ ~SeenBySchema(read + 1)
  /\ LET t == log[read + 1].table
         kind == log[read + 1].kind
         fails == \/ kind = "create" /\ t \in rejected \ denied
                  \/ kind = "drop" /\ t \notin present \cup marked
     IN /\ kind = "alter" => t \in denied
        /\ IF fails
           THEN /\ marked' = IF kind = "create" THEN marked \cup {t} ELSE marked
                /\ UNCHANGED <<schema, present, body, offset, rows, wire>>
           ELSE ExtendRecipe(t, kind)
  /\ position' = read + 1
  /\ mem' = [mem EXCEPT !.schema = read + 1]
  /\ cache' = Empty
  /\ UNCHANGED <<upstream, phase, start, copying, sending, forward, faults>>

(* A change the connector cannot read: the table is taken out, and the     *)
(* loop goes on without moving its position.                               *)
deny_replication_for_table ==
  /\ Receive({"unsupported"})
  /\ LET t == log[read + 1].table
     IN /\ present' = present \ {t}
        /\ marked' = marked \cup {t}
        /\ offset' = [offset EXCEPT ![t] = None]
        /\ rows' = [rows EXCEPT ![t] = NoRows]
        /\ wire' = {w \in wire : w[1] # t}
        /\ mem' = [mem EXCEPT !.tables = [u \in DOMAIN @ \ {t} |-> @[u]]]
        /\ cache' = [u \in DOMAIN cache \ {t} |-> cache[u]]
        /\ denied' = denied \cup {t}
  /\ position' = position
  /\ UNCHANGED <<upstream, schema, body, phase, resnapshot, point, copying, sending,
                 forward, faults>>

-----------------------------------------------------------------------------
(* The replicator fails and starts again.  What it had sent is still on    *)
(* its way.  SafeToFail leaves out the failures that lose log entries, and *)
(* AnyCrash lifts it: where a restart resumes at the newest of different   *)
(* offsets, and where PostgreSQL's restart makes its slot anew, at the end *)
(* of the log, although a table has been copied at an older position.      *)
SafeToFail ==
  IF db = "MySQL"
  THEN phase \in {"tables", "catchup"} => max_offset(replication_offsets) = None
  ELSE \/ /\ phase \in {"down", "recipe", "schema", "connect", "stream"}
          /\ max_offset(replication_offsets) # None
       \/ /\ phase \in {"recipe", "schema", "tables"}
          /\ \A t \in present : offset[t] = None

Crash ==
  /\ phase # "down" \/ resnapshot
  /\ faults < MaxFaults
  /\ AnyCrash \/ SafeToFail
  /\ faults' = faults + 1
  /\ phase' = "down"
  /\ resnapshot' = FALSE
  /\ denied' = {}
  /\ point' = None
  /\ todo' = {} /\ taken' = [t \in Tables |-> None]
  /\ read' = 0 /\ position' = 0 /\ until' = None
  /\ mem' = [schema |-> None, tables |-> Empty]
  /\ cache' = Empty /\ sending' = NoWrite /\ forward' = <<>>
  /\ UNCHANGED <<upstream, durable, wire>>

Init ==
  /\ db \in Databases
  /\ log = Before[db]
  /\ rejected \in SUBSET {t \in Tables : ~Exists(log, t, End)}
  /\ schema = None
  /\ present = {} /\ marked = {} /\ body = [t \in Tables |-> 0]
  /\ offset = [t \in Tables |-> None] /\ rows = [t \in Tables |-> NoRows]
  /\ wire = {}
  /\ phase = "down" /\ resnapshot = FALSE /\ denied = {} /\ point = None
  /\ todo = {} /\ taken = [t \in Tables |-> None]
  /\ read = 0 /\ position = 0 /\ until = None
  /\ mem = [schema |-> None, tables |-> Empty]
  /\ cache = Empty /\ sending = NoWrite /\ forward = <<>>
  /\ faults = 0

Replicate ==
  \/ Start \/ LoadRecipe \/ SetSchema \/ Connect \/ CaughtUp
  \/ \E t \in Tables : TakeTable(t) \/ FinishTable(t) \/ ForwardTable(t)
  \/ SkipTableAction \/ handle_table_actions \/ SkipSchemaAction
  \/ HandleRotate \/ HandleAlter \/ handle_ddl_change \/ ForwardDone
  \/ deny_replication_for_table
  \/ \E w \in wire : Deliver(w[1], w[2])

Next ==
  \/ \E kind \in Kinds[db] \ {"rotate"}, t \in Tables : Write(kind, t)
  \/ Rotate
  \/ Replicate
  \/ \E t \in Tables : RetryTable(t)
  \/ Crash

(* The replicator and the base tables keep running; nothing is assumed of  *)
(* the upstream database.                                                  *)
Spec == Init /\ [][Next]_vars /\ WF_vars(Replicate)

-----------------------------------------------------------------------------
OffsetsOf(S) == [schema : Offset, tables : [S -> Offset]]

(* Every piece of state has its type; in particular no table holds an      *)
(* entry of the log twice, however often a batch is resent.                *)
TypeOK ==
  /\ db \in Databases
  /\ log \in Seq(Entries) /\ Len(log) <= MaxLog
  /\ schema \in Offset
  /\ present \subseteq Tables /\ marked \subseteq Tables /\ rejected \subseteq Tables
  /\ body \in [Tables -> 0..MaxLog]
  /\ offset \in [Tables -> Offset]
  /\ rows \in [Tables -> [Positions -> 0..1]]
  /\ wire \subseteq Tables \X Positions
  /\ phase \in {"down", "recipe", "schema", "tables", "connect", "catchup", "stream"}
  /\ resnapshot \in BOOLEAN
  /\ DOMAIN mem.tables \subseteq Tables /\ mem \in OffsetsOf(DOMAIN mem.tables)
  /\ DOMAIN cache \subseteq Tables
  /\ denied \subseteq Tables
  /\ point \in Offset
  /\ todo \subseteq Tables /\ taken \in [Tables -> Offset]
  /\ read \in Offset /\ position \in Offset /\ until \in Offset
  /\ sending \in 0..MaxLog
  /\ Len(forward) <= 1
  /\ faults \in 0..MaxFaults

(* A base table that has a replication offset holds what the upstream      *)
(* table held there: every log entry up to it once, and no other.          *)
TablesExact ==
  \A t \in present : offset[t] # None => rows[t] = Content(log, t, offset[t])

(* Once the replicator has caught up, the tables together are what the     *)
(* upstream database was at a single position, whichever log entry it is   *)
(* handling.                                                               *)
ConsistentCut ==
  phase = "stream" =>
    \E p \in 0..End : \A t \in present : rows[t] = Content(log, t, p)

(* DDL is skipped up to the offset of the schema, so a table in ReadySet   *)
(* has the definition it has upstream there, or a later one.               *)
NoDdlSkipped ==
  schema # None => \A t \in present : body[t] >= Body(log, t, schema)

(* Each base table follows the log of its upstream table.                  *)
Replica ==
  INSTANCE UpstreamReplica WITH
    Absent <- [at |-> None, rows |-> NoRows],
    replica <- [t \in Tables |->
                  IF t \in present /\ offset[t] # None
                  THEN [at |-> offset[t], rows |-> rows[t]]
                  ELSE [at |-> None, rows |-> NoRows]]

Follows == Replica!Spec

(* When the failures and the upstream writes end, the replicator reads the *)
(* log to its end and every table holds what its upstream table holds.     *)
(* MySQL also leaves the catch-up, and tells those that wait for it.       *)
CatchesUp ==
  <>[]( /\ phase \in {"catchup", "stream"} /\ read = End
        /\ db = "MySQL" => phase = "stream"
        /\ \A t \in present : rows[t] = Content(log, t, End) )

=============================================================================
