-------------------------- MODULE QueryStatusCache --------------------------
(***************************************************************************)
(* The status cache the connections, the migration handler and the views   *)
(* synchronizer of an adapter share (query_status_cache.rs), and the       *)
(* record of how a query's executions went (query.rs).                     *)
(*                                                                         *)
(* A cache maps every query to its status, or to None before it is seen.   *)
(* Each operator is one method: it takes the cache and returns it as the   *)
(* method leaves it.  Transition times are left out: how long ago a        *)
(* network failure was noted is chosen where it is read (Elapsed).         *)
(***************************************************************************)
EXTENDS Naturals

CONSTANTS
  Queries,
  None      \* no status, no query, no execution information

MigrationState == {"Pending", "DryRunSucceeded", "Successful", "Unsupported"}
ExecutionState ==
  {"Successful", "NetworkFailure", "Failed", "Unsupported", "Dropped"}

Status == [migration_state : MigrationState,
           execution_info : ExecutionState \cup {None},
           always : BOOLEAN]

with_migration_state(m) ==
  [migration_state |-> m, execution_info |-> None, always |-> FALSE]

(* insert: the query is parsed, so its initial state is Pending.           *)
insert(cache, q) == [cache EXCEPT ![q] = with_migration_state("Pending")]

\* Mutant: an unsupported query takes the new state as any other.
update_query_migration_state_Any(cache, q, m) ==
  [cache EXCEPT ![q] = IF @ = None THEN with_migration_state(m)
                       ELSE [@ EXCEPT !.migration_state = m]]

update_query_migration_state(cache, q, m) ==
  [cache EXCEPT ![q] =
    IF @ = None THEN with_migration_state(m)
    ELSE IF @.migration_state = "Unsupported" THEN @
    ELSE [@ EXCEPT !.migration_state = m]]

always_attempt_readyset(cache, q, always) ==
  [cache EXCEPT ![q] =
    IF @ = None THEN @
    ELSE IF @.migration_state = "Unsupported" THEN @
    ELSE [@ EXCEPT !.always = always]]

update_query_status(cache, q, status) ==
  [cache EXCEPT ![q] =
    IF @ = None THEN status
    ELSE IF @.migration_state = "Unsupported"
         THEN [@ EXCEPT !.execution_info = status.execution_info]
    ELSE [@ EXCEPT !.migration_state = status.migration_state,
                   !.execution_info = status.execution_info]]

(* clear: every query marked as successful waits for a migration again.    *)
clear(cache) ==
  [q \in Queries |->
    IF cache[q] = None THEN None
    ELSE IF cache[q].migration_state = "Successful"
         THEN [cache[q] EXCEPT !.migration_state = "Pending", !.always = FALSE]
    ELSE cache[q]]

(* Only Pending: a query whose dry run succeeded is not in the list.       *)
pending_migration(cache) ==
  {q \in Queries : cache[q] # None /\ cache[q].migration_state = "Pending"}

(* MigrationState::is_pending, which a prepared statement asks.            *)
is_pending(m) == m \in {"Pending", "DryRunSucceeded"}

(* How long a network failure has lasted: within the failure period, past  *)
(* it, or past the recovery period that follows it.                        *)
Elapsed(info) == IF info = "NetworkFailure"
                 THEN {"failing", "recovering", "recovered"} ELSE {"failing"}

(* execute_network_failure_exceeded, after reset_if_exceeded_recovery has  *)
(* set the transition time to now when the recovery period is over.        *)
NetworkFailureExceeded(elapsed) == elapsed = "recovering"
=============================================================================
