--------------------------- MODULE ConsulAuthority ---------------------------
(***************************************************************************)
(* The authority that a cluster of servers shares through Consul           *)
(* (readyset-client/src/consensus/consul.rs): the leader key, the          *)
(* controller state kept under /state - in the key itself, or split into   *)
(* chunks under one of two versions - and the workers' keys, each locked   *)
(* by the session of the server that wrote it.                             *)
(*                                                                         *)
(* A server process opens one session, so a server stands for its session. *)
(* Every HTTP request to Consul is a step of its own.  A controller state  *)
(* is the set of changes it holds, and NumChunks[s] the number of chunks   *)
(* its compressed bytes are cut into.                                      *)
(***************************************************************************)
EXTENDS Naturals, FiniteSets, FiniteSetsExt

CONSTANTS
    Servers,    \* server processes, each with a session of its own
    Changes,    \* what a client may ask of the controller state
    NumChunks,  \* [SUBSET Changes -> Nat \ {0}]
    Threads,    \* the tasks of a server that update the controller state
    None

ASSUME NumChunksAssumption == NumChunks \in [SUBSET Changes -> Nat \ {0}]

VARIABLES
    live,        \* the servers whose session Consul holds valid
    controller,  \* CONTROLLER_KEY: session, the leader it names, ModifyIndex
    state,       \* STATE_KEY: session and StateValue
    chunks,      \* /state/<version>/<n>: session and the state it is cut from
    registered,  \* the servers whose worker key was written
    updates      \* the call of update_controller_state in each thread

store == <<live, controller, state, chunks, registered>>
authorityVars == <<live, controller, state, chunks, registered, updates>>

Versions == {"0", "1"}
\* The numbers of chunks a state may take, and the numbers that chunks have.
Sizes == {NumChunks[s] : s \in SUBSET Changes}
ChunkIds == UNION {0 .. n - 1 : n \in Sizes}

Data(s) == [kind |-> "Data", state |-> s]
Version(v, n) == [kind |-> "Version", version |-> v, num_chunks |-> n]
VersionValue == [kind : {"Version"}, version : Versions, num_chunks : Sizes]
StateValue == [kind : {"Data"}, state : SUBSET Changes] \cup VersionValue

\* None stands for nothing else.
ASSUME NoneAssumption ==
  /\ None \notin Servers \cup Nat \cup StateValue
  /\ \A s \in SUBSET Changes : None # s

-----------------------------------------------------------------------------
(* Consul itself: what a session holds, loses and may write. *)

\* A write with `acquire`: it takes effect when the session is valid and no
\* other session holds the key.
MayAcquire(key, p) == p \in live /\ key.session \in {None, p}

\* A session that ends releases every key it holds ("release" behaviour) and
\* leaves their values.
Unlocked(key, p) == IF key.session = p THEN [key EXCEPT !.session = None] ELSE key

\* The leader key's ModifyIndex grows with every change, a released lock too.
Modified(key) == [key EXCEPT !.index = @ + 1]

Expire(p) ==
  /\ p \in live
  /\ live' = live \ {p}
  /\ controller' = IF controller.session = p
                     THEN Modified(Unlocked(controller, p)) ELSE controller
  /\ state' = Unlocked(state, p)
  /\ chunks' = [k \in DOMAIN chunks |-> Unlocked(chunks[k], p)]
  /\ UNCHANGED <<registered, updates>>

\* A server opens its session and writes its worker key, which counts while
\* the session lives.
register_worker(p) ==
  /\ live' = live \cup {p}
  /\ registered' = registered \cup {p}
  /\ UNCHANGED <<controller, state, chunks, updates>>

get_workers == registered \cap live

-----------------------------------------------------------------------------
(* The leader key. *)

is_new_index(index) == index = None \/ controller.index > index

\* What try_get_leader answers a server that last saw `index`.
try_get_leader(index) ==
  IF controller.leader = None \/ (is_new_index(index) /\ controller.session = None)
    THEN "NoLeader"
    ELSE IF is_new_index(index) THEN "NewLeader" ELSE "Unchanged"

\* become_leader's write of the payload.
AcquireLeadership(p) ==
  /\ MayAcquire(controller, p)
  /\ controller' = Modified([controller EXCEPT !.session = p, !.leader = p])
  /\ UNCHANGED <<live, state, chunks, registered>>

\* Only this key is released: the session stays, and so do its other locks.
surrender_leadership(p) ==
  /\ controller' = IF p \in live /\ controller.session = p
                     THEN Modified(Unlocked(controller, p)) ELSE controller
  /\ UNCHANGED <<live, state, chunks, registered>>

-----------------------------------------------------------------------------
(* update_controller_state: check the leader key, read the state, apply f,  *)
(* write the chunks of the version that is not in use, check again, and     *)
(* switch the state key to what was written.                                *)

Idle == [stage |-> "idle"]

\* f keeps the stored state (asked = None: a new leader) or replaces it.
Begin(asked) == [stage |-> "check", asked |-> asked]

Returned(s) == [stage |-> "returned", state |-> s]
LostLeader == [stage |-> "failed", error |-> "WriteIssuedFromLostLeader"]
RequestFailed == [stage |-> "failed", error |-> "RequestFailed"]

Becomes(p, t, u) == updates' = [updates EXCEPT ![p][t] = u]

next_state_version(v) == IF v = "0" THEN "1" ELSE "0"

\* The numbers of the chunks that a state's bytes are cut into.
ChunksOf_ButLast(s) == 0 .. NumChunks[s] - 2
ChunksOf(s) == 0 .. NumChunks[s] - 1

\* write_controller_state, up to its requests: the new state goes to the other
\* version when it takes more than one chunk, else into the state key.
Write(asked, stored, value) ==
  LET s == IF asked # None THEN asked ELSE IF stored = None THEN {} ELSE stored
  IN  IF NumChunks[s] = 1
        THEN [stage |-> "set", state |-> s, value |-> Data(s)]
        ELSE [stage |-> "write", state |-> s, refused |-> {},
              left |-> ChunksOf(s),
              value |-> Version(IF value # None /\ value.kind = "Version"
                                  THEN next_state_version(value.version)
                                  ELSE "0", NumChunks[s])]

CheckLeader(p, t) ==
  /\ updates[p][t].stage = "check"
  /\ Becomes(p, t, IF controller.session = p
                     THEN [stage |-> "value", asked |-> updates[p][t].asked]
                     ELSE LostLeader)
  /\ UNCHANGED store

get_controller_state_value(p, t) ==
  LET u == updates[p][t] IN
  /\ u.stage = "value"
  /\ Becomes(p, t,
       CASE state.value = None -> Write(u.asked, None, None)
         [] state.value # None /\ state.value.kind = "Data" ->
              Write(u.asked, state.value.state, None)
         [] OTHER ->
              [stage |-> "read", asked |-> u.asked, value |-> state.value,
               left |-> 0 .. state.value.num_chunks - 1, seen |-> {}])
  /\ UNCHANGED store

\* Chunks stitch together when all were cut from one state, and none is missing.
Stitched(seen, n) == \E s \in SUBSET Changes : seen = {s} /\ NumChunks[s] = n

\* The chunks are read in order; as they are written in any order, reading them
\* in another would only exchange their numbers.
get_controller_state(p, t) ==
  LET u == updates[p][t]
      i == Min(u.left)
      seen == u.seen \cup {chunks[<<u.value.version, i>>].value}
  IN  /\ u.stage = "read"
      /\ Becomes(p, t,
           CASE u.left # {i} -> [u EXCEPT !.left = @ \ {i}, !.seen = seen]
             [] u.left = {i} /\ Stitched(seen, u.value.num_chunks) ->
                  Write(u.asked, CHOOSE s \in seen : TRUE, u.value)
             [] OTHER -> RequestFailed)
      /\ UNCHANGED store

\* All the chunk writes are awaited before a refusal is reported.
write_controller_state(p, t) ==
  LET u == updates[p][t] IN
  /\ u.stage = "write"
  /\ \E i \in u.left :
       LET key == <<u.value.version, i>>
           taken == MayAcquire(chunks[key], p)
           refused == u.refused \cup (IF taken THEN {}
                                      ELSE IF p \in live THEN {"locked"} ELSE {"invalid"})
       IN  /\ chunks' = IF taken
                THEN [chunks EXCEPT ![key] = [session |-> p, value |-> u.state]]
                ELSE chunks
           /\ Becomes(p, t,
                CASE u.left # {i} -> [u EXCEPT !.left = @ \ {i}, !.refused = refused]
                  [] u.left = {i} /\ refused = {} ->
                       [stage |-> "set", state |-> u.state, value |-> u.value]
                  [] OTHER -> IF refused = {"locked"} THEN LostLeader ELSE RequestFailed)
  /\ UNCHANGED <<live, controller, state, registered>>

\* Who may write the state key: write_controller_state_value's `acquire`.
MaySetState_Anyone(p) == p \in Servers
MaySetState(p) == MayAcquire(state, p)

\* The leader key is read once more, and a read that fails is passed over;
\* then the lock on the state key decides.  (Nothing that happens between the
\* two requests changes what they lead to: a session that ends there is one
\* that ended before a read that failed.)
write_controller_state_value(p, t) ==
  LET u == updates[p][t] IN
  /\ u.stage = "set"
  /\ \E answered \in BOOLEAN :
       IF answered /\ controller.session # p
         THEN /\ Becomes(p, t, LostLeader)
              /\ UNCHANGED state
         ELSE IF MaySetState(p)
         THEN /\ state' = [session |-> p, value |-> u.value]
              /\ Becomes(p, t, Returned(u.state))
         ELSE /\ Becomes(p, t, IF p \in live THEN LostLeader ELSE RequestFailed)
              /\ UNCHANGED state
  /\ UNCHANGED <<live, controller, chunks, registered>>

update_controller_state(p, t) ==
  \/ CheckLeader(p, t)
  \/ get_controller_state_value(p, t)
  \/ get_controller_state(p, t)
  \/ write_controller_state(p, t)
  \/ write_controller_state_value(p, t)

\* A write that fails: it never reached Consul, or only its answer is lost.  (A
\* read that fails ends the call with nothing done, as if it had not been made.)
RequestFails(p, t) ==
  LET u == updates[p][t] IN
  /\ u.stage \in {"write", "set"}
  /\ Becomes(p, t, RequestFailed)
  /\ \/ UNCHANGED store
     \/ /\ u.stage = "set"
        /\ MaySetState(p)
        /\ state' = [session |-> p, value |-> u.value]
        /\ UNCHANGED <<live, controller, chunks, registered>>

AuthorityInit ==
  /\ live = {}
  /\ controller = [session |-> None, leader |-> None, index |-> 0]
  /\ state = [session |-> None, value |-> None]
  /\ chunks = [k \in Versions \X ChunkIds |-> [session |-> None, value |-> None]]
  /\ registered = {}
  /\ updates = [p \in Servers |-> [t \in Threads |-> Idle]]

-----------------------------------------------------------------------------
\* The state that a reader of the state key makes out of it.
Stored ==
  CASE state.value = None -> {}
    [] state.value # None /\ state.value.kind = "Data" -> state.value.state
    [] OTHER -> chunks[<<state.value.version, 0>>].value

=============================================================================
