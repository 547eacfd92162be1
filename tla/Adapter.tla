------------------------------ MODULE Adapter -------------------------------
(***************************************************************************)
(* The adapter: client connections that prepare, execute and query         *)
(* (backend.rs) through their connector to the server                      *)
(* (backend/noria_connector.rs), the migration handler that tries the      *)
(* queries nobody has decided yet (migration_handler.rs) and the views     *)
(* synchronizer that asks the server which of them exist                   *)
(* (views_synchronizer.rs).  They share the query status cache and the     *)
(* global view cache; every one of them stops at an await while the others *)
(* run, so an operation is a sequence of steps: what it does up to a       *)
(* request, the request, and what it does with the answer.                 *)
(*                                                                         *)
(* An upstream database is configured and answers every statement, except  *)
(* that it may refuse to prepare one.  A query has one cache name, the     *)
(* generated one, so the view caches are sets of queries.                  *)
(***************************************************************************)
EXTENDS QueryStatusCache, Sequences, FiniteSets

CONSTANTS
  Conns,         \* client connections
  Handler,       \* the migration handler, which has a connector of its own
  Deployments,   \* the values of --query-caching, --validate-queries and
                 \* --fail-invalidated-queries, the connections and the
                 \* queries in use; bound: the statements the clients send
  MaxPrepared    \* bound: prepared statements of a connection

ASSUME AdapterAssumption ==
  /\ Handler \notin Conns
  /\ None \notin Queries /\ None \notin Status /\ None \notin ExecutionState
  /\ MaxPrepared \in Nat \ {0}
  /\ \A d \in Deployments : d.queries \subseteq Queries

Actors == Conns \cup {Handler}

VARIABLES
  deployment,  \* the one of Deployments that runs
  supported,   \* the queries the server can migrate
  schema,      \* per query: how the schema of its view compares with that of
               \* the upstream's prepared statement
  statuses,    \* QueryStatusCache
  global,      \* ViewCache.global: queries with a known cache name
  views,       \* the caches that exist on the server
  connector,   \* per actor: its NoriaConnector
  statements,  \* per connection: BackendState.prepared_statements
  proxy_state, \* per connection
  op,          \* per actor: the operation in flight
  dubious,     \* history: queries perform_migration has returned early for,
               \* because the upstream did not confirm them
  declared,    \* the queries somebody created a cache for with ALWAYS
  to_process,  \* the migration handler's list
  start_time,  \* per query: None, or whether max_retry has passed since
  migrated,    \* None, or the answer the synchronizer got from the server
  requests     \* the statements sent

vars == <<deployment, supported, schema, statuses, global, views, connector,
          statements, proxy_state, op, dubious, declared, to_process,
          start_time, migrated, requests>>

env == <<deployment, supported, schema>>

style == deployment.style

ProxyState == {"Fallback", "InTransaction", "AutocommitOff", "ProxyAlways"}

should_proxy(p) == p \in {"AutocommitOff", "InTransaction", "ProxyAlways"}

start_transaction(p) == IF p = "Fallback" THEN "InTransaction" ELSE p

end_transaction(p) ==
  IF p \in {"ProxyAlways", "AutocommitOff"} THEN p ELSE "Fallback"

set_autocommit(p, on) ==
  IF on THEN IF p = "AutocommitOff" THEN "Fallback" ELSE p
        ELSE IF p = "ProxyAlways" THEN p ELSE "AutocommitOff"

(* A borrowed view has no schema to compare.                               *)
Schemas == {"same", "differs", "borrowed"}

(* The outcomes of a request other than success: the connection to the     *)
(* server failed, the view does not exist, the reader is gone, ReadySet    *)
(* does not support the query, a value could not be converted, the key is  *)
(* not in the reader.                                                      *)
Failures == {"network", "not_found", "destroyed", "unsupported",
             "conversion", "missing_key"}

Idle == [do |-> "idle", at |-> "start", query |-> None, id |-> 0,
         create |-> FALSE, status |-> None, reset |-> FALSE,
         always |-> FALSE, got |-> "ok"]

Go(do, at, q) == [Idle EXCEPT !.do = do, !.at = at, !.query = q]

NoStatement == [query |-> None, prep |-> "Upstream",
                migration_state |-> "Successful", always |-> FALSE,
                execution_info |-> None]

Busy(a, do, at) == op[a].do = do /\ op[a].at = at

-----------------------------------------------------------------------------
(* The connector                                                           *)

(* Requests reach the server one at a time and may fail on the way, there  *)
(* or back.                                                                *)
Migrate(q) == {"network", IF supported[q] THEN "ok" ELSE "unsupported"}
Find(q) == {"network", IF q \in views THEN "ok" ELSE "not_found"}

(* The views after a request to migrate, whose answer may have been lost.  *)
AfterMigrate(q, got) ==
  \/ got # "ok" /\ views' = views
  \/ got \in {"ok", "network"} /\ supported[q] /\ views' = views \cup {q}

(* register_statement                                                      *)
Registered(a, q) ==
  /\ connector' = [connector EXCEPT ![a].local = @ \cup {q}]
  /\ global' = global \cup {q}

(* The handles of every connector to a dropped view are destroyed.         *)
Destroyed(qs) ==
  [a \in Actors |->
    [connector[a] EXCEPT !.handles =
      [q \in Queries |-> IF q \in qs /\ @[q] = "live" THEN "dead" ELSE @[q]]]]

(* get_view: the name of the query's view, from the view caches or from    *)
(* the server, where it may have to be created.                            *)
get_view(a) ==
  LET q == op[a].query IN
  /\ op[a].at = "view"
  /\ \/ /\ q \in connector[a].local \cup global
        /\ connector' = [connector EXCEPT ![a].local = @ \cup {q}]
        /\ op' = [op EXCEPT ![a].at = "getter"]
        /\ UNCHANGED <<global, views>>
     \/ /\ q \notin connector[a].local \cup global
        /\ \E got \in IF op[a].create THEN Migrate(q) ELSE Find(q) :
             /\ IF op[a].create THEN AfterMigrate(q, got) ELSE UNCHANGED views
             /\ IF got = "ok"
                THEN /\ global' = global \cup {q}
                     /\ connector' =
                          [connector EXCEPT ![a].local = @ \cup {q},
                             ![a].handles[q] = IF op[a].create THEN @ ELSE "live"]
                     /\ op' = [op EXCEPT ![a].at = "getter"]
                ELSE /\ op' = [op EXCEPT ![a].at = "done", ![a].got = got]
                     /\ UNCHANGED <<connector, global>>
  /\ UNCHANGED <<env, statuses, statements, proxy_state, dubious, declared,
                 to_process, start_time, migrated, requests>>

Reads == {"query", "execute"}

(* The statement prepare_select stores once it has the view.               *)
Stored(a) == op[a].do \in {"prepare", "update", "migrate"}

(* get_noria_view: a cached handle, unless the view failed, else the       *)
(* server's.  prepare_select ends here and execute_select goes on.         *)
get_noria_view(a) ==
  LET q == op[a].query
      cached == connector[a].handles[q] # "none" /\ q \notin connector[a].failed
  IN
  /\ op[a].at = "getter"
  /\ \E got \in IF cached THEN {"ok"} ELSE Find(q) :
       /\ connector' =
            [connector EXCEPT
              ![a].failed = @ \ {q},
              ![a].handles[q] = IF cached THEN @
                                ELSE IF got = "ok" THEN "live" ELSE "none",
              ![a].stored = IF got = "ok" /\ Stored(a)
                            THEN [@ EXCEPT ![op[a].id] = q] ELSE @]
       /\ op' = [op EXCEPT
            ![a].at = IF got = "ok" /\ op[a].do \in Reads THEN "read" ELSE "done",
            ![a].got = got]
  /\ UNCHANGED <<env, statuses, global, views, statements, proxy_state, dubious,
                 declared, to_process, start_time, migrated, requests>>

(* What a read of the view can return.                                     *)
Readable(a) ==
  IF connector[a].handles[op[a].query] = "dead"
  THEN {"network", "destroyed"}
  ELSE {"ok", "network", "missing_key", "unsupported"} \cup
       (IF op[a].do = "execute" THEN {"conversion"} ELSE {})

(* The read of execute_select: a view that failed is looked up again by    *)
(* the next request.                                                       *)
do_read(a) ==
  LET q == op[a].query IN
  /\ op[a].at = "read"
  /\ \E got \in Readable(a) :
       /\ op' = [op EXCEPT ![a].at = "done", ![a].got = got]
       /\ connector' = [connector EXCEPT ![a].failed =
            IF got \in {"network", "destroyed"} THEN @ \cup {q} ELSE @]
  /\ UNCHANGED <<env, statuses, global, views, statements, proxy_state, dubious,
                 declared, to_process, start_time, migrated, requests>>

-----------------------------------------------------------------------------
(* A SELECT sent as text                                                   *)

(* A connection that is free sends a statement.                            *)
Sends(c) ==
  /\ c \in deployment.conns
  /\ op[c].do = "idle"
  /\ requests < deployment.requests
  /\ requests' = requests + 1

Background == <<to_process, start_time, migrated>>

(* query_adhoc_select up to its request: with the status read, the query   *)
(* goes upstream at once or ReadySet is tried.                             *)
AdHocSelect(c, q, status, elapsed) ==
  LET should_try == should_proxy(proxy_state[c]) => status.always
      fallback == /\ ~status.always
                  /\ \/ /\ style # "InRequestPath"
                        /\ status.migration_state # "Successful"
                     \/ status.migration_state = "Unsupported"
                     \/ NetworkFailureExceeded(elapsed)
  IN IF should_try /\ ~fallback
     THEN op' = [op EXCEPT ![c] = [Go("query", "view", q) EXCEPT
                   !.create = style = "InRequestPath",
                   !.status = status, !.reset = elapsed = "recovered"]]
     ELSE op' = [op EXCEPT ![c] = Idle]

(* query, for a SELECT: the status is looked up, and a query seen for the  *)
(* first time is inserted by a separate call.                              *)
Query(c, q) ==
  /\ Sends(c)
  /\ IF statuses[q] = None
     THEN op' = [op EXCEPT ![c] = Go("query", "insert", q)]
     ELSE \E elapsed \in Elapsed(statuses[q].execution_info) :
            AdHocSelect(c, q, statuses[q], elapsed)
  /\ UNCHANGED <<env, statuses, global, views, connector, statements,
                 proxy_state, dubious, declared, Background>>

QueryInserts(c) ==
  LET q == op[c].query IN
  /\ Busy(c, "query", "insert")
  /\ statuses' = insert(statuses, q)
  /\ AdHocSelect(c, q, with_migration_state("Pending"), "failing")
  /\ UNCHANGED <<env, global, views, connector, statements, proxy_state,
                 dubious, declared, Background, requests>>

(* The status as the outcome of the read changes it.                       *)
AfterRead(status, got) ==
  LET info == IF status.execution_info = None THEN "Failed"
              ELSE status.execution_info
  IN CASE got = "ok" -> [status EXCEPT !.migration_state = "Successful",
                                       !.execution_info = "Successful"]
       [] got = "network" -> [status EXCEPT !.execution_info = "NetworkFailure"]
       [] got = "destroyed" -> [status EXCEPT !.execution_info = "Dropped"]
       [] got = "not_found" -> [status EXCEPT !.migration_state = "Pending",
                                              !.execution_info = info]
       [] got = "unsupported" ->
            [status EXCEPT !.migration_state = "Unsupported",
                           !.execution_info = info]
       [] got = "missing_key" -> [status EXCEPT !.execution_info = info]

(* query_adhoc_select with the outcome: the status read before the request *)
(* is written back when it changed.  A read that failed is sent upstream,  *)
(* unless ReadySet must always be attempted: then the client gets the      *)
(* error.                                                                  *)
QueryReturns(c) ==
  LET q == op[c].query
      status == AfterRead(op[c].status, op[c].got)
  IN
  /\ Busy(c, "query", "done")
  /\ statuses' = IF status # op[c].status \/ op[c].reset
                 THEN update_query_status(statuses, q, status) ELSE statuses
  /\ op' = [op EXCEPT ![c] = Idle]
  /\ UNCHANGED <<env, global, views, connector, statements, proxy_state,
                 dubious, declared, Background, requests>>

-----------------------------------------------------------------------------
(* Prepared statements                                                     *)

next_prepared_id(c) == Len(statements[c]) + 1

Push(c, stmt) == statements' = [statements EXCEPT ![c] = Append(@, stmt)]

(* prepare, of a write, or of anything while everything is proxied: the    *)
(* statement is prepared upstream alone.                                   *)
PrepareUpstream(c) ==
  /\ Sends(c)
  /\ next_prepared_id(c) <= MaxPrepared
  /\ Push(c, NoStatement)
  /\ UNCHANGED <<env, statuses, global, views, connector, proxy_state, op,
                 dubious, declared, Background>>

(* plan_prepare_select and mirror_prepare up to their requests.            *)
PlanPrepare(c, q, status) ==
  LET do_noria == status.migration_state # "Unsupported" IN
  op' = [op EXCEPT ![c] =
    [Go("prepare", IF do_noria THEN "view" ELSE "done", q) EXCEPT
       !.id = next_prepared_id(c), !.create = style = "InRequestPath",
       !.always = status.always, !.got = IF do_noria THEN "ok" ELSE "skipped"]]

Prepare(c, q) ==
  /\ Sends(c)
  /\ next_prepared_id(c) <= MaxPrepared
  /\ proxy_state[c] # "ProxyAlways"
  /\ IF statuses[q] = None THEN op' = [op EXCEPT ![c] = Go("prepare", "insert", q)]
     ELSE PlanPrepare(c, q, statuses[q])
  /\ UNCHANGED <<env, statuses, global, views, connector, statements,
                 proxy_state, dubious, declared, Background>>

PrepareInserts(c) ==
  LET q == op[c].query IN
  /\ Busy(c, "prepare", "insert")
  /\ statuses' = insert(statuses, q)
  /\ PlanPrepare(c, q, with_migration_state("Pending"))
  /\ UNCHANGED <<env, global, views, connector, statements, proxy_state, dubious,
                 declared, Background, requests>>

(* What mirror_prepare makes of the comparison with validate_queries.      *)
Compares(q) == deployment.validate_queries => schema[q] = "same"

(* The status cache after mirror_prepare.  The connector was not asked     *)
(* about a query known to be unsupported; its schema is compared with the  *)
(* upstream's when both prepared the statement.                            *)
AfterPrepare(c, prepared) ==
  LET q == op[c].query
      got == op[c].got
  IN CASE got = "ok" ->
            update_query_migration_state(statuses, q,
              IF prepared /\ ~Compares(q) THEN "Unsupported" ELSE "Successful")
       [] got = "not_found" ->
            update_query_migration_state(statuses, q, "Pending")
       [] got = "unsupported" ->
            update_query_migration_state(statuses, q, "Unsupported")
       [] OTHER -> statuses

\* Mutant: a statement the connector could not prepare is kept as if it had.
Prepared_Mirrored(c, migration_state) ==
  [query |-> op[c].query,
   prep |-> IF op[c].got # "skipped" THEN "Both" ELSE "Upstream",
   migration_state |-> migration_state,
   always |-> op[c].always, execution_info |-> None]

(* The statement prepare keeps: with the schemas compared or not, it is    *)
(* executed on ReadySet when the connector could prepare it.               *)
Prepared(c, migration_state) ==
  [query |-> op[c].query,
   prep |-> IF op[c].got = "ok" THEN "Both" ELSE "Upstream",
   migration_state |-> migration_state,
   always |-> op[c].always, execution_info |-> None]

(* mirror_prepare with both results, and the rest of prepare: a statement  *)
(* the upstream refuses is not kept, though the connector may have stored  *)
(* it under the identifier the next statement will get, and neither is one *)
(* that does not compare when that is to fail.                             *)
PrepareReturns(c) ==
  LET q == op[c].query IN
  /\ Busy(c, "prepare", "done")
  /\ \/ UNCHANGED statements /\ statuses' = AfterPrepare(c, FALSE)
     \/ /\ op[c].got = "ok" /\ ~Compares(q) /\ deployment.fail_invalidated_queries
        /\ UNCHANGED <<statements, statuses>>
     \/ /\ deployment.fail_invalidated_queries /\ op[c].got = "ok" => Compares(q)
        /\ statuses' = AfterPrepare(c, TRUE)
        /\ Push(c, Prepared(c, statuses'[q].migration_state))
  /\ op' = [op EXCEPT ![c] = Idle]
  /\ UNCHANGED <<env, global, views, connector, proxy_state, dubious, declared,
                 Background, requests>>

\* Mutant: executions do not look at the proxy state.
should_fallback_NoProxy(c, stmt, elapsed) ==
  /\ ~stmt.always
  /\ \/ stmt.execution_info = "Unsupported"
     \/ ~statuses[stmt.query].always /\ NetworkFailureExceeded(elapsed)

(* Whether execute sends a statement prepared on both sides upstream.      *)
should_fallback(c, stmt, elapsed) ==
  /\ ~stmt.always
  /\ \/ stmt.execution_info = "Unsupported"
     \/ /\ ~statuses[stmt.query].always
        /\ NetworkFailureExceeded(elapsed) \/ should_proxy(proxy_state[c])

(* execute, once the statement is as good as it will get: go upstream or   *)
(* read the view the connector stored for it.                              *)
Execute(c, i, stmt) ==
  \E elapsed \in Elapsed(stmt.execution_info) :
    IF stmt.prep = "Upstream" \/ should_fallback(c, stmt, elapsed)
    THEN /\ op' = [op EXCEPT ![c] = Idle]
         /\ statements' = [statements EXCEPT ![c][i] = stmt]
    ELSE /\ op' = [op EXCEPT ![c] =
              [Go("execute", "getter", connector[c].stored[i]) EXCEPT !.id = i]]
         /\ statements' = [statements EXCEPT ![c][i] =
              [stmt EXCEPT !.execution_info = IF @ = None THEN "Failed" ELSE @]]

(* execute: a statement whose migration was pending looks whether it has   *)
(* succeeded by now.  One without a view request makes the connection      *)
(* panic on "Pending must have view_request set".                          *)
ExecuteStatement(c, i) ==
  LET stmt == statements[c][i]
      pending == is_pending(stmt.migration_state)
  IN
  /\ Sends(c)
  /\ i <= Len(statements[c])
  /\ \/ /\ pending /\ stmt.query = None
        /\ op' = [op EXCEPT ![c] = Go("panicked", "start", None)]
        /\ UNCHANGED statements
     \/ /\ pending /\ stmt.query # None /\ stmt.prep = "Upstream"
        /\ statuses[stmt.query].migration_state = "Successful"
        /\ op' = [op EXCEPT ![c] = [Go("update", "view", stmt.query) EXCEPT !.id = i]]
        /\ UNCHANGED statements
     \/ /\ pending => /\ stmt.query # None
                      /\ \/ stmt.prep # "Upstream"
                         \/ statuses[stmt.query].migration_state # "Successful"
        /\ Execute(c, i, stmt)
  /\ UNCHANGED <<env, statuses, global, views, connector, proxy_state, dubious,
                 declared, Background>>

(* update_noria_prepare returns: only a success changes the statement.     *)
UpdateReturns(c) ==
  LET i == op[c].id
      stmt == statements[c][i]
  IN
  /\ Busy(c, "update", "done")
  /\ Execute(c, i, IF op[c].got = "ok"
                   THEN [stmt EXCEPT !.prep = "Both",
                                     !.migration_state = "Successful"]
                   ELSE stmt)
  /\ UNCHANGED <<env, statuses, global, views, connector, proxy_state, dubious,
                 declared, Background, requests>>

(* execute_cascade with the outcome of the read, and the rest of execute.  *)
ExecuteReturns(c) ==
  LET i == op[c].id
      got == op[c].got
      stmt == statements[c][i]
  IN
  /\ Busy(c, "execute", "done")
  /\ statements' = [statements EXCEPT ![c][i] =
       [stmt EXCEPT
         !.execution_info = CASE got = "ok" -> "Successful"
                              [] got = "network" -> "NetworkFailure"
                              [] got = "conversion" -> "Unsupported"
                              [] OTHER -> @,
         !.prep = IF got = "not_found" THEN "Upstream" ELSE @]]
  /\ statuses' =
       IF got = "unsupported"
       THEN update_query_migration_state(statuses, stmt.query, "Unsupported")
       ELSE statuses
  /\ op' = [op EXCEPT ![c] = Idle]
  /\ UNCHANGED <<env, global, views, connector, proxy_state, dubious, declared,
                 Background, requests>>

-----------------------------------------------------------------------------
(* CREATE CACHE, DROP CACHE, DROP ALL CACHES                               *)

CreateCache(c, q, always) ==
  /\ Sends(c)
  /\ \E got \in Migrate(q) :
       /\ AfterMigrate(q, got)
       /\ op' = IF got = "ok"
                THEN [op EXCEPT ![c] =
                       [Go("create", "done", q) EXCEPT !.always = always]]
                ELSE op
  /\ UNCHANGED <<env, statuses, global, connector, statements, proxy_state,
                 dubious, declared, Background>>

CreateReturns(c) ==
  LET q == op[c].query IN
  /\ Busy(c, "create", "done")
  /\ Registered(c, q)
  /\ statuses' = always_attempt_readyset(
                   update_query_migration_state(statuses, q, "Successful"),
                   q, op[c].always)
  /\ declared' = IF op[c].always THEN declared \cup {q} ELSE declared
  /\ op' = [op EXCEPT ![c] = Idle]
  /\ UNCHANGED <<env, views, statements, proxy_state, dubious, Background,
                 requests>>

(* invalidate_prepared_statements_cache: the statements of this connection *)
(* that read the dropped view.                                             *)
Invalidated(c, q) ==
  [i \in DOMAIN statements[c] |->
    LET stmt == statements[c][i] IN
    IF stmt.query = q /\ stmt.migration_state = "Successful"
    THEN [stmt EXCEPT !.migration_state = "Pending", !.prep = "Upstream"]
    ELSE stmt]

(* drop_cached_query: whether the name belongs to a known query is looked  *)
(* up before the request (kept in op.create).                              *)
DropCache(c, q) ==
  /\ Sends(c)
  /\ \/ UNCHANGED <<views, op, connector>>     \* the request fails
     \/ /\ views' = views \ {q}
        /\ connector' = Destroyed({q})
        /\ \/ UNCHANGED op                       \* the answer is lost
           \/ op' = [op EXCEPT ![c] = [Go("drop", "done", q) EXCEPT
                       !.create = q \in connector[c].local \cup global]]
  /\ UNCHANGED <<env, statuses, global, statements, proxy_state, dubious,
                 declared, Background>>

DropReturns(c) ==
  LET q == op[c].query IN
  /\ Busy(c, "drop", "done")
  /\ connector' = [connector EXCEPT ![c].local = @ \ {q}]
  /\ global' = global \ {q}
  /\ IF op[c].create
     THEN /\ statuses' = always_attempt_readyset(
                update_query_migration_state(statuses, q, "Pending"), q, FALSE)
          /\ statements' = [statements EXCEPT ![c] = Invalidated(c, q)]
     ELSE UNCHANGED <<statuses, statements>>
  /\ op' = [op EXCEPT ![c] = Idle]
  /\ UNCHANGED <<env, views, proxy_state, dubious, declared, Background, requests>>

DropAllCaches(c) ==
  /\ Sends(c)
  /\ \/ UNCHANGED <<views, op, connector>>
     \/ /\ views' = {}
        /\ connector' = Destroyed(Queries)
        /\ \/ UNCHANGED op
           \/ op' = [op EXCEPT ![c] = Go("drop_all", "done", None)]
  /\ UNCHANGED <<env, statuses, global, statements, proxy_state, dubious,
                 declared, Background>>

(* The statements of this connection once all caches are gone: every one,  *)
(* also one that reads no view.                                            *)
Demoted(ss) ==
  [i \in DOMAIN ss |->
    [ss[i] EXCEPT !.prep = "Upstream",
                  !.migration_state = IF @ = "Successful" THEN "Pending" ELSE @]]

(* drop_all_caches with the answer.                                        *)
DropAllReturns(c) ==
  /\ Busy(c, "drop_all", "done")
  /\ connector' = [connector EXCEPT ![c].local = {}]
  /\ global' = {}
  /\ statuses' = clear(statuses)
  /\ statements' = [statements EXCEPT ![c] = Demoted(@)]
  /\ op' = [op EXCEPT ![c] = Idle]
  /\ UNCHANGED <<env, views, proxy_state, dubious, declared, Background, requests>>

-----------------------------------------------------------------------------
(* BEGIN, COMMIT, ROLLBACK and SET, with unsupported statements proxied.   *)
(* BEGIN, SET autocommit=0 and an unsupported SET are themselves proxied   *)
(* when everything is, and then change nothing.                            *)
Boundary(c) ==
  LET p == proxy_state[c] IN
  /\ Sends(c)
  /\ proxy_state' \in
       {[proxy_state EXCEPT ![c] = to] : to \in
          {end_transaction(p), set_autocommit(p, TRUE)} \cup
          (IF should_proxy(p) THEN {}
           ELSE {start_transaction(p), set_autocommit(p, FALSE), "ProxyAlways"})}
  /\ UNCHANGED <<env, statuses, global, views, connector, statements, op,
                 dubious, declared, Background>>

-----------------------------------------------------------------------------
(* The migration handler                                                   *)

Runs == style \in {"Async", "Explicit"}

(* run, at a tick: the list is read once and worked off query by query.    *)
Tick ==
  /\ Runs
  /\ op[Handler].do = "idle"
  /\ to_process = {}
  /\ pending_migration(statuses) # {}
  /\ to_process' = pending_migration(statuses)
  /\ UNCHANGED <<env, statuses, global, views, connector, statements,
                 proxy_state, op, dubious, declared, start_time, migrated,
                 requests>>

(* perform_migration up to its request, or the dry run when the adapter    *)
(* runs with explicit migrations.  With validate_queries the upstream      *)
(* prepares the query first; if it refuses, or cannot be reached again,    *)
(* the query is left as it is.                                             *)
Process(q) ==
  /\ op[Handler].do = "idle"
  /\ q \in to_process
  /\ to_process' = to_process \ {q}
  /\ start_time' = [start_time EXCEPT ![q] = IF @ = None THEN "recent" ELSE @]
  /\ \/ /\ op' = [op EXCEPT ![Handler] =
               IF style = "Async"
               THEN [Go("migrate", "view", q) EXCEPT !.create = TRUE, !.id = 1]
               ELSE IF start_time[q] = "exceeded" THEN Idle
               ELSE Go("dry_run", "request", q)]
        /\ UNCHANGED dubious
     \/ /\ style = "Async" /\ deployment.validate_queries
        /\ dubious' = dubious \cup {q}
        /\ UNCHANGED op
  /\ UNCHANGED <<env, statuses, global, views, connector, statements,
                 proxy_state, declared, migrated, requests>>

DryRun ==
  /\ Busy(Handler, "dry_run", "request")
  /\ \E got \in Migrate(op[Handler].query) :
       op' = [op EXCEPT ![Handler].at = "done", ![Handler].got = got]
  /\ UNCHANGED <<env, statuses, global, views, connector, statements,
                 proxy_state, dubious, declared, Background, requests>>

Decided(q, m) ==
  /\ statuses' = update_query_migration_state(statuses, q, m)
  /\ start_time' = [start_time EXCEPT ![q] = None]

(* The handler takes a view without a schema as it is.                     *)
Differs(q) == deployment.validate_queries /\ schema[q] = "differs"

\* Mutant: a migration that keeps failing is retried for ever.
MigrateReturns_Retry ==
  LET q == op[Handler].query
      got == op[Handler].got
  IN
  /\ Busy(Handler, "migrate", "done")
  /\ \/ got = "ok" /\ ~Differs(q) /\ Decided(q, "Successful") /\ UNCHANGED dubious
     \/ /\ got = "ok" /\ Differs(q)
        /\ dubious' = dubious \cup {q}
        /\ UNCHANGED <<statuses, start_time>>
     \/ got = "unsupported" /\ Decided(q, "Unsupported") /\ UNCHANGED dubious
     \/ /\ got \notin {"ok", "unsupported"}
        /\ UNCHANGED <<statuses, start_time, dubious>>
  /\ op' = [op EXCEPT ![Handler] = Idle]
  /\ UNCHANGED <<env, global, views, connector, statements, proxy_state,
                 declared, to_process, migrated, requests>>

(* perform_migration with the outcome of prepare_select.  A query whose    *)
(* schemas differ is left as it is, and so is the time of its first try.   *)
MigrateReturns ==
  LET q == op[Handler].query
      got == op[Handler].got
  IN
  /\ Busy(Handler, "migrate", "done")
  /\ \/ got = "ok" /\ ~Differs(q) /\ Decided(q, "Successful") /\ UNCHANGED dubious
     \/ /\ got = "ok" /\ Differs(q)
        /\ dubious' = dubious \cup {q}
        /\ UNCHANGED <<statuses, start_time>>
     \/ got = "unsupported" /\ Decided(q, "Unsupported") /\ UNCHANGED dubious
     \/ /\ got \notin {"ok", "unsupported"}
        /\ statuses' =
             IF start_time[q] = "exceeded"
             THEN update_query_migration_state(statuses, q, "Unsupported")
             ELSE statuses
        /\ UNCHANGED <<start_time, dubious>>
  /\ op' = [op EXCEPT ![Handler] = Idle]
  /\ UNCHANGED <<env, global, views, connector, statements, proxy_state,
                 declared, to_process, migrated, requests>>

DryRunReturns ==
  LET q == op[Handler].query
      got == op[Handler].got
  IN
  /\ Busy(Handler, "dry_run", "done")
  /\ \/ got = "ok" /\ Decided(q, "DryRunSucceeded")
     \/ got = "unsupported" /\ Decided(q, "Unsupported")
     \/ got = "network" /\ UNCHANGED <<statuses, start_time>>
  /\ op' = [op EXCEPT ![Handler] = Idle]
  /\ UNCHANGED <<env, global, views, connector, statements, proxy_state,
                 dubious, declared, to_process, migrated, requests>>

(* max_retry passes since the first attempt.                               *)
RetriesExceeded(q) ==
  /\ start_time[q] = "recent"
  /\ start_time' = [start_time EXCEPT ![q] = "exceeded"]
  /\ UNCHANGED <<env, statuses, global, views, connector, statements,
                 proxy_state, op, dubious, declared, to_process, migrated,
                 requests>>

-----------------------------------------------------------------------------
(* The views synchronizer, started with explicit migrations only           *)

\* Mutant: the answer is for queries that have no view yet.
Poll_Missing ==
  /\ style = "Explicit"
  /\ migrated = None
  /\ pending_migration(statuses) # {}
  /\ migrated' = pending_migration(statuses) \ views
  /\ UNCHANGED <<env, statuses, global, views, connector, statements,
                 proxy_state, op, dubious, declared, to_process, start_time,
                 requests>>

(* poll up to the server's answer.                                         *)
Poll ==
  /\ style = "Explicit"
  /\ migrated = None
  /\ pending_migration(statuses) # {}
  /\ migrated' = pending_migration(statuses) \cap views
  /\ UNCHANGED <<env, statuses, global, views, connector, statements,
                 proxy_state, op, dubious, declared, to_process, start_time,
                 requests>>

(* poll with the answer: update_query_migration_state for each query.      *)
PollReturns ==
  /\ migrated # None
  /\ statuses' = [q \in Queries |->
       IF q \in migrated
       THEN update_query_migration_state(statuses, q, "Successful")[q]
       ELSE statuses[q]]
  /\ migrated' = None
  /\ UNCHANGED <<env, global, views, connector, statements, proxy_state, op,
                 dubious, declared, to_process, start_time, requests>>

-----------------------------------------------------------------------------
(* Another adapter of the same deployment creates and drops caches.        *)
Elsewhere(q) ==
  /\ requests < deployment.requests
  /\ requests' = requests + 1
  /\ \/ supported[q] /\ views' = views \cup {q} /\ UNCHANGED connector
     \/ views' = views \ {q} /\ connector' = Destroyed({q})
  /\ UNCHANGED <<env, statuses, global, statements, proxy_state, op, dubious,
                 declared, Background>>

-----------------------------------------------------------------------------
Init ==
  /\ deployment \in Deployments
  /\ supported \in [Queries -> BOOLEAN]
  /\ \A q \in Queries \ deployment.queries : ~supported[q]
  /\ schema \in [Queries -> Schemas]
  /\ \A q \in Queries : schema[q] # "same" =>
       supported[q] /\ deployment.validate_queries
  /\ statuses = [q \in Queries |-> None]
  /\ global = {}
  /\ views = {}
  /\ connector = [a \in Actors |->
       [local |-> {}, handles |-> [q \in Queries |-> "none"], failed |-> {},
        stored |-> [i \in 1..MaxPrepared |-> None]]]
  /\ statements = [c \in Conns |-> <<>>]
  /\ proxy_state = [c \in Conns |-> "Fallback"]
  /\ op = [a \in Actors |-> Idle]
  /\ dubious = {}
  /\ declared = {}
  /\ to_process = {}
  /\ start_time = [q \in Queries |-> None]
  /\ migrated = None
  /\ requests = 0

Sent(c) ==
  \/ \E q \in deployment.queries :
       \/ Query(c, q) \/ Prepare(c, q) \/ DropCache(c, q)
       \/ \E always \in BOOLEAN : CreateCache(c, q, always)
  \/ \E i \in 1..MaxPrepared : ExecuteStatement(c, i)
  \/ PrepareUpstream(c) \/ DropAllCaches(c) \/ Boundary(c)

Returns(c) ==
  \/ QueryInserts(c) \/ QueryReturns(c)
  \/ PrepareInserts(c) \/ PrepareReturns(c)
  \/ UpdateReturns(c) \/ ExecuteReturns(c)
  \/ CreateReturns(c) \/ DropReturns(c) \/ DropAllReturns(c)

Connector(a) == get_view(a) \/ get_noria_view(a) \/ do_read(a)

Handles == Tick \/ (\E q \in Queries : Process(q)) \/ Connector(Handler)
             \/ DryRun \/ MigrateReturns \/ DryRunReturns

Synchronizes == Poll \/ PollReturns

Next ==
  \/ \E c \in Conns : Sent(c) \/ Returns(c) \/ Connector(c)
  \/ Handles
  \/ Synchronizes
  \/ \E q \in Queries : RetriesExceeded(q)
  \/ \E q \in deployment.queries : Elsewhere(q)

(* The handler and the synchronizer run at every tick of their timers,     *)
(* requests are answered and time passes; clients owe nobody a statement.  *)
Spec == /\ Init /\ [][Next]_vars
        /\ WF_vars(Handles)
        /\ WF_vars(Synchronizes)
        /\ \A c \in Conns : WF_vars(Returns(c) \/ Connector(c))
        /\ \A q \in Queries : WF_vars(RetriesExceeded(q))

-----------------------------------------------------------------------------
(* Properties                                                              *)

OpType ==
  [do : {"idle", "panicked", "query", "prepare", "update", "execute", "create",
         "drop", "drop_all", "migrate", "dry_run"},
   at : {"start", "insert", "view", "getter", "read", "request", "done"},
   query : Queries \cup {None}, id : 0..MaxPrepared, create : BOOLEAN,
   status : Status \cup {None}, reset : BOOLEAN, always : BOOLEAN,
   got : Failures \cup {"ok", "skipped"}]

StatementType ==
  [query : Queries \cup {None}, prep : {"Upstream", "Both"},
   migration_state : MigrationState, always : BOOLEAN,
   execution_info : ExecutionState \cup {None}]

(* Every variable has its type: in particular a status is a status and an  *)
(* execution always finds the statement the connector stored for it.       *)
TypeOK ==
  /\ statuses \in [Queries -> Status \cup {None}]
  /\ global \subseteq Queries /\ views \subseteq Queries
  /\ \A a \in Actors :
       /\ connector[a].local \subseteq Queries
       /\ connector[a].handles \in [Queries -> {"none", "live", "dead"}]
       /\ connector[a].failed \subseteq Queries
       /\ connector[a].stored \in [1..MaxPrepared -> Queries \cup {None}]
  /\ \A c \in Conns : /\ Len(statements[c]) <= MaxPrepared
                      /\ \A i \in DOMAIN statements[c] :
                           statements[c][i] \in StatementType
  /\ proxy_state \in [Conns -> ProxyState]
  /\ op \in [Actors -> OpType]
  /\ \A a \in Actors : op[a].at \in {"view", "getter", "read"} =>
                         op[a].query # None
  /\ to_process \subseteq Queries
  /\ start_time \in [Queries -> {None, "recent", "exceeded"}]

(* The connector keeps its prepared statements under identifiers of its    *)
(* own map, which a refused prepare leaves filled and the next prepare     *)
(* reuses: executing statement i on ReadySet still reads the query the     *)
(* client prepared as statement i.                                         *)
ReadsWhatWasPrepared ==
  \A c \in Conns : \A i \in DOMAIN statements[c] :
    statements[c][i].prep = "Both" =>
      connector[c].stored[i] = statements[c][i].query

(* Inside a transaction, with autocommit off or once a SET could not be    *)
(* honoured, ReadySet serves a read only of a query that some client       *)
(* created a cache for with ALWAYS: through the status, through the flag   *)
(* copied into a prepared statement, or not at all.                        *)
ProxiedUnlessAlways ==
  \A c \in Conns :
    /\ op[c].do \in Reads /\ op[c].at # "insert"
    /\ should_proxy(proxy_state[c])
    => op[c].query \in declared

(* "Pending must have view_request set" (execute's expect).                *)
(* It does not hold, and no run checks it: DROP ALL CACHES makes prepared  *)
(* statements pending that were never given one.                           *)
PendingHasViewRequest ==
  \A c \in Conns : \A i \in DOMAIN statements[c] :
    is_pending(statements[c][i].migration_state) =>
      statements[c][i].query # None

(* A lookup that found no status inserts one: query_status and             *)
(* query_migration_state read the cache and insert in two calls.           *)
LateInsert(q) ==
  \E c \in Conns : op[c].at = "insert" /\ op[c].query = q /\ op'[c] # op[c]

IsUnsupported(cache, q) ==
  cache[q] # None /\ cache[q].migration_state = "Unsupported"

(* "Once a query is determined to be unsupported, there is currently no    *)
(* going back": no outcome that arrives late, of a read, a prepare, a      *)
(* migration, a poll or a DROP ALL CACHES, revives the query.  The one     *)
(* exception is the insertion of a lookup that found nothing.              *)
UnsupportedStays ==
  [][\A q \in Queries :
       IsUnsupported(statuses, q) => IsUnsupported(statuses', q) \/ LateInsert(q)
    ]_vars

IsPending(q) == q \in pending_migration(statuses)

(* With asynchronous migrations every pending query is decided: the        *)
(* handler reaches it, and gives up on one that keeps failing after        *)
(* max_retry.  The exception is a query that validate_queries has found    *)
(* fault with once.                                                        *)
Decides ==
  \A q \in Queries :
    (style = "Async" /\ IsPending(q)) ~> (~IsPending(q) \/ q \in dubious)

(* "The maximum amount of time the migration handler will retry a query    *)
(* for before marking it as Unsupported", for every query.                 *)
(* It does not hold, and no run checks it: a query the upstream does not   *)
(* confirm returns before max_retry is looked at, and is tried for ever.   *)
AllDecided ==
  \A q \in Queries : (style = "Async" /\ IsPending(q)) ~> ~IsPending(q)

(* With explicit migrations a cache created anywhere is noticed: a query   *)
(* whose view stays does not stay pending.                                 *)
Noticed ==
  \A q \in Queries :
    (style = "Explicit" /\ IsPending(q) /\ q \in views)
      ~> (~IsPending(q) \/ q \notin views)

Settled(q) == statuses[q] # None /\ statuses[q].migration_state
                                      \in {"Successful", "Unsupported"}

(* What the synchronizer promises ("the query status cache is updated      *)
(* according to which queries exist in noria"), whatever the handler       *)
(* found out about the query before.                                       *)
(* It does not hold, and no run checks it: the synchronizer asks about     *)
(* pending queries only, not about those whose dry run succeeded.          *)
AlwaysNoticed ==
  \A q \in Queries :
    (style = "Explicit" /\ statuses[q] # None /\ q \in views)
      ~> (Settled(q) \/ q \notin views)
=============================================================================
