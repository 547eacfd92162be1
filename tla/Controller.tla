------------------------------ MODULE Controller ------------------------------
(***************************************************************************)
(* The servers of a cluster and their leader                               *)
(* (readyset-server/src/controller/{mod,inner,state}.rs).  A server runs   *)
(*                                                                         *)
(*   - the authority task (authority_inner): it looks for a leader, stands *)
(*     for election, renews the server's session and, while it leads,      *)
(*     tells the controller which workers came and went;                   *)
(*   - the controller (Controller::run): it takes the authority task's     *)
(*     updates in order, and owns the Leader;                              *)
(*   - the write task: it runs the clients' requests against the Leader.   *)
(*                                                                         *)
(* The controller and the write task exclude each other (both hold the     *)
(* Leader's lock while they work), so one thread, "leader", stands for the *)
(* two; the authority task runs beside it.  A server that fails aborts its *)
(* process (abort_on_task_failure); a process that is started again is     *)
(* another element of Servers.                                             *)
(***************************************************************************)
EXTENDS ConsulAuthority, Sequences

CONSTANTS
    Order,      \* the order in which the servers are started
    Uris,       \* the addresses that servers are configured with
    worker_uri, \* the address of each server; one started again may keep it
    Eligible,   \* the servers with leader_eligible
    Quorum,     \* workers a leader needs before it serves requests
    MaxFaults,  \* bound: crashes, lost sessions and shutdowns
    MaxFailed,  \* bound: requests to Consul that fail
    Failures    \* the requests to Consul that may fail: "request",
                \* "get_leader", "readback"

ASSUME ControllerAssumption ==
  /\ Order \in [Servers -> Nat]
  /\ worker_uri \in [Servers -> Uris]
  /\ Quorum \in Nat \ {0}
  /\ MaxFaults \in Nat /\ MaxFailed \in Nat
  /\ Threads = {"authority", "leader"}

VARIABLES
    status,     \* the process: "new", "up", "stopping", "down", "lost"
    authority,  \* the authority task: pc, controller_index, is_leader,
                \* last_leader_state, active_workers
    events,     \* authority_tx: the updates on their way to the controller
    leader,     \* the Leader: its dataflow state and workers, or None
    task,       \* what the leader thread is committing, or None
    acked,      \* the changes whose request was answered with success
    faults,     \* what was spent of MaxFaults
    failed,     \* what was spent of MaxFailed
    reused,     \* history: addresses taken again while the session of the
                \* server that had them before was still valid
    misread     \* history: a server took the failed read of the leader key
                \* that it holds for the absence of a leader

\* What a Leader holds, and what it may be committing.
LeaderState == [state : SUBSET Changes, workers : SUBSET Uris]
Commit == [kind : {"workers", "request"}, state : SUBSET Changes, workers : SUBSET Uris]

ASSUME LeaderAssumption == None \notin LeaderState \cup Commit

serverVars == <<status, authority, events, leader, task, acked>>
history == <<reused, misread>>
bounds == <<faults, failed, history>>
vars == <<authorityVars, serverVars, bounds>>

WonLeaderElection(s) == [kind |-> "WonLeaderElection", state |-> s]
FailedWorkers(ws) == [kind |-> "FailedWorkers", workers |-> ws]
NewWorkers(ws) == [kind |-> "NewWorkers", workers |-> ws]

At(p, pc) == status[p] = "up" /\ authority[p].pc = pc

Goto(p, pc) == authority' = [authority EXCEPT ![p].pc = pc]

\* What the authority task holds before its loop, and once it is gone.
AuthorityTaskAt(pc) ==
  [pc |-> pc, controller_index |-> None, is_leader |-> FALSE,
   last_leader_state |-> FALSE, active_workers |-> {}]

\* The process ends; what its tasks were doing ends with it.
Down(p, how) ==
  /\ status' = [status EXCEPT ![p] = how]
  /\ authority' = [authority EXCEPT ![p] = AuthorityTaskAt("ended")]
  /\ events' = [events EXCEPT ![p] = <<>>]
  /\ leader' = [leader EXCEPT ![p] = None]
  /\ task' = [task EXCEPT ![p] = None]
  /\ updates' = [updates EXCEPT ![p] = [t \in Threads |-> Idle]]

-----------------------------------------------------------------------------
(* authority_inner *)

\* create_session and register_worker, before the loop.  A server is started
\* when those that come before it in Order were, and no other process listens
\* at its address.
Start(p) ==
  /\ status[p] = "new"
  /\ \A q \in Servers : status[q] = "new" => Order[p] <= Order[q]
  /\ \A q \in Servers : worker_uri[q] = worker_uri[p] =>
                          status[q] \in {"new", "down", "lost"}
  /\ register_worker(p)
  /\ status' = [status EXCEPT ![p] = "up"]
  /\ Goto(p, "get_leader")
  /\ reused' = reused \cup {worker_uri[q] : q \in {q \in live : worker_uri[q] = worker_uri[p]}}
  /\ UNCHANGED <<events, leader, task, acked, faults, failed, misread>>

Sends(p, updated) == events' = [events EXCEPT ![p] = @ \o updated]

\* update_leader_state's first half.  A read that fails counts as NoLeader.
\* The LeaderChange it sends for a new leader only reaches the worker's
\* election_state, which nothing reads: a Leader this server still has stays.
GetLeader(p, answered) ==
  LET a == authority[p]
      found == IF answered THEN try_get_leader(a.controller_index) ELSE "NoLeader"
  IN  /\ At(p, "get_leader")
      /\ CASE found = "NewLeader" ->
                authority' = [authority EXCEPT
                  ![p].controller_index = controller.index,
                  ![p].is_leader = FALSE, ![p].pc = "heartbeat"]
           [] found = "NoLeader" ->
                Goto(p, IF p \in Eligible THEN "become_leader" ELSE "heartbeat")
           [] OTHER -> Goto(p, "heartbeat")
      /\ UNCHANGED <<authorityVars, status, events, leader, task, acked>>

BecomeLeader(p) ==
  /\ At(p, "become_leader")
  /\ \/ /\ AcquireLeadership(p)
        /\ Goto(p, "readback")
        /\ UNCHANGED <<updates, status, events, leader, task>>
     \/ /\ p \in live /\ ~MayAcquire(controller, p)
        /\ Goto(p, "heartbeat")
        /\ UNCHANGED <<authorityVars, status, events, leader, task>>
     \/ /\ p \notin live
        /\ Down(p, "down")
        /\ UNCHANGED store
  /\ UNCHANGED <<acked, bounds>>

\* become_leader reads the key back for its index.  When that read fails it
\* answers None, as if another server had won.
ReadBack(p, answered) ==
  /\ At(p, "readback")
  /\ IF answered
       THEN /\ authority' = [authority EXCEPT
                 ![p].pc = "update",
                 ![p].controller_index = IF controller.session = p
                                           THEN controller.index ELSE @]
            /\ Becomes(p, "authority", Begin(None))
       ELSE /\ Goto(p, "heartbeat")
            /\ UNCHANGED updates
  /\ UNCHANGED <<store, status, events, leader, task, acked>>

\* The new leader has read, and written back, the controller state.
Elected(p) ==
  LET u == updates[p]["authority"] IN
  /\ At(p, "update")
  /\ \/ /\ u.stage = "returned"
        /\ authority' = [authority EXCEPT ![p].pc = "heartbeat", ![p].is_leader = TRUE]
        /\ Sends(p, <<WonLeaderElection(u.state)>>)
        /\ Becomes(p, "authority", Idle)
        /\ UNCHANGED <<status, leader, task>>
     \/ /\ u.stage = "failed"
        /\ Down(p, IF u.error = "WriteIssuedFromLostLeader" THEN "lost" ELSE "down")
  /\ UNCHANGED <<store, acked, bounds>>

Heartbeat(p) ==
  LET a == authority[p] IN
  /\ At(p, "heartbeat")
  /\ IF p \in live
       THEN /\ authority' = [authority EXCEPT
                 ![p].pc = IF a.is_leader THEN "workers" ELSE "get_leader",
                 ![p].last_leader_state = a.is_leader,
                 ![p].active_workers =
                    IF a.is_leader /\ ~a.last_leader_state THEN {} ELSE @]
            /\ UNCHANGED <<updates, status, events, leader, task>>
       ELSE Down(p, "down")
  /\ UNCHANGED <<store, acked, bounds>>

\* The workers that update_worker_state reports as gone, and keeps track of.
Gone_Never(active, workers) == {}
Gone(active, workers) == active \ workers

update_worker_state(p) ==
  LET active == authority[p].active_workers
      workers == get_workers
      lost == Gone(active, workers)
      new == workers \ (active \ lost)
  IN  /\ At(p, "workers")
      /\ authority' = [authority EXCEPT ![p].pc = "get_leader",
                         ![p].active_workers = (active \ lost) \cup new]
      /\ Sends(p, (IF lost = {} THEN <<>> ELSE <<FailedWorkers(lost)>>)
                  \o (IF new = {} THEN <<>> ELSE <<NewWorkers(new)>>))
      /\ UNCHANGED <<authorityVars, status, leader, task, acked, bounds>>

-----------------------------------------------------------------------------
(* The controller and its Leader *)

Free(p) == status[p] = "up" /\ task[p] = None

Arrives(p, kind) == Free(p) /\ events[p] # <<>> /\ Head(events[p]).kind = kind

\* Leader::new over the state that the election read back; workers are not
\* part of what is stored.
HandleWonLeaderElection(p) ==
  /\ Arrives(p, "WonLeaderElection")
  /\ events' = [events EXCEPT ![p] = Tail(@)]
  /\ leader' = [leader EXCEPT ![p] = [state |-> Head(events[p]).state, workers |-> {}]]
  /\ UNCHANGED <<authorityVars, status, authority, task, acked, bounds>>

uris(workers) == {worker_uri[w] : w \in workers}

\* handle_register_from_authority and handle_failed_workers change a copy of
\* the dataflow state and commit it; without a Leader the server fails.  A
\* Leader knows its workers by their address, not by their session.
HandleWorkers(p, kind) ==
  LET ws == uris(Head(events[p]).workers) IN
  /\ Arrives(p, kind)
  /\ IF leader[p] = None
       THEN Down(p, "down")
       ELSE /\ task' = [task EXCEPT ![p] =
                 [kind |-> "workers", state |-> leader[p].state,
                  workers |-> IF kind = "NewWorkers" THEN leader[p].workers \cup ws
                              ELSE leader[p].workers \ ws]]
            /\ Becomes(p, "leader", Begin(leader[p].state))
            /\ events' = [events EXCEPT ![p] = Tail(@)]
            /\ UNCHANGED <<status, authority, leader>>
  /\ UNCHANGED <<store, acked, bounds>>

\* external_request: a write needs a quorum of workers.
Request(p, c) ==
  /\ Free(p) /\ leader[p] # None
  /\ Cardinality(leader[p].workers) >= Quorum
  /\ c \notin leader[p].state
  /\ task' = [task EXCEPT ![p] =
       [kind |-> "request", state |-> leader[p].state \cup {c},
        workers |-> leader[p].workers]]
  /\ Becomes(p, "leader", Begin(leader[p].state \cup {c}))
  /\ UNCHANGED <<store, status, authority, events, leader, acked, bounds>>

\* DfStateHandle::commit returns.  A failed request is answered with the error
\* and its copy dropped; a failed commit of the controller ends the server.
Committed(p) ==
  LET u == updates[p]["leader"]
      done == task[p]
  IN  /\ status[p] \in {"up", "stopping"}
      /\ \/ /\ u.stage = "returned"
            /\ leader' = [leader EXCEPT ![p] = [state |-> done.state,
                                                workers |-> done.workers]]
            /\ task' = [task EXCEPT ![p] = None]
            /\ acked' = IF done.kind = "request" THEN acked \cup done.state ELSE acked
            /\ Becomes(p, "leader", Idle)
            /\ UNCHANGED <<status, authority, events>>
         \/ /\ u.stage = "failed"
            /\ IF done.kind = "request"
                 THEN /\ task' = [task EXCEPT ![p] = None]
                      /\ Becomes(p, "leader", Idle)
                      /\ UNCHANGED <<status, authority, events, leader>>
                 ELSE Down(p, IF u.error = "WriteIssuedFromLostLeader"
                                THEN "lost" ELSE "down")
            /\ UNCHANGED acked
      /\ UNCHANGED <<store, bounds>>

\* What either task has under way at Consul.  The authority task is aborted at
\* once when the server stops; a request of the write task runs to its end.
Running(p, t) ==
  IF t = "authority" THEN status[p] = "up" ELSE status[p] \in {"up", "stopping"}

Updating(p, t) ==
  /\ Running(p, t)
  /\ update_controller_state(p, t)
  /\ UNCHANGED <<serverVars, bounds>>

\* The commits that the controller makes itself, in a handler it does not leave.
Handling == [kind : {"workers"}, state : SUBSET Changes, workers : SUBSET Uris]

\* Controller::run leaves its loop, then stops the tasks, then surrenders.
Stop(p) ==
  /\ status[p] = "up" /\ task[p] \notin Handling
  /\ status' = [status EXCEPT ![p] = "stopping"]
  /\ authority' = [authority EXCEPT ![p] = AuthorityTaskAt("ended")]
  /\ events' = [events EXCEPT ![p] = <<>>]
  /\ Becomes(p, "authority", Idle)
  /\ UNCHANGED <<store, leader, task, acked>>

\* stop_background_tasks has joined the write task.
Stopped_Anyway(p) == p \in Servers
Stopped(p) == task[p] = None

Surrender(p) ==
  /\ status[p] = "stopping" /\ Stopped(p)
  /\ IF leader[p] # None THEN surrender_leadership(p) ELSE UNCHANGED store
  /\ status' = [status EXCEPT ![p] = IF task[p] = None THEN "down" ELSE @]
  /\ leader' = [leader EXCEPT ![p] = None]
  /\ UNCHANGED <<updates, authority, events, task, acked, bounds>>

-----------------------------------------------------------------------------
(* Faults *)

Crash(p) ==
  /\ status[p] = "up"
  /\ Down(p, "down")
  /\ UNCHANGED <<store, acked>>

\* Missed heartbeats: Consul ends the session of a server that still runs.
LoseSession(p) == status[p] \in {"up", "stopping"} /\ Expire(p) /\ UNCHANGED serverVars

\* The session of a server that is gone runs out its TTL.
TimeOut(p) ==
  status[p] \in {"down", "lost"} /\ Expire(p) /\ UNCHANGED <<serverVars, bounds>>

FailedRequest(p) ==
  \/ /\ "request" \in Failures
     /\ task[p] # None /\ task[p].kind = "request"
     /\ RequestFails(p, "leader")
     /\ UNCHANGED <<serverVars, misread>>
  \/ /\ "get_leader" \in Failures
     /\ GetLeader(p, FALSE)
     /\ misread' = (misread \/ controller.session = p)
  \/ /\ "readback" \in Failures
     /\ ReadBack(p, FALSE)
     /\ UNCHANGED misread

Fault(p) ==
  \/ /\ faults < MaxFaults /\ faults' = faults + 1
     /\ Crash(p) \/ LoseSession(p) \/ Stop(p)
     /\ UNCHANGED <<failed, history>>
  \/ /\ failed < MaxFailed /\ failed' = failed + 1
     /\ FailedRequest(p)
     /\ UNCHANGED <<faults, reused>>

-----------------------------------------------------------------------------
Init ==
  /\ AuthorityInit
  /\ status = [p \in Servers |-> "new"]
  /\ authority = [p \in Servers |-> AuthorityTaskAt("init")]
  /\ events = [p \in Servers |-> <<>>]
  /\ leader = [p \in Servers |-> None]
  /\ task = [p \in Servers |-> None]
  /\ acked = {}
  /\ faults = 0 /\ failed = 0
  /\ reused = {} /\ misread = FALSE

AuthorityTask(p) ==
  \/ GetLeader(p, TRUE) /\ UNCHANGED bounds
  \/ BecomeLeader(p)
  \/ ReadBack(p, TRUE) /\ UNCHANGED bounds
  \/ Updating(p, "authority")
  \/ Elected(p)
  \/ Heartbeat(p)
  \/ update_worker_state(p)

LeaderTask(p) ==
  \/ HandleWonLeaderElection(p)
  \/ HandleWorkers(p, "NewWorkers")
  \/ HandleWorkers(p, "FailedWorkers")
  \/ Updating(p, "leader")
  \/ Committed(p)
  \/ Surrender(p)

Next ==
  \E p \in Servers :
    \/ Start(p)
    \/ AuthorityTask(p)
    \/ LeaderTask(p)
    \/ \E c \in Changes : Request(p, c)
    \/ TimeOut(p)
    \/ Fault(p)

\* The tasks of the servers that may lead are scheduled, and a session that
\* nobody renews ends.
Fairness ==
  /\ \A p \in Eligible : WF_vars(AuthorityTask(p)) /\ WF_vars(LeaderTask(p))
  /\ WF_vars(\E p \in Servers : TimeOut(p))

Spec == Init /\ [][Next]_vars /\ Fairness

-----------------------------------------------------------------------------
(* Properties *)

\* Sessions, keys and tasks have their types; a task commits only for a server
\* that has a Leader, and a call to Consul only runs for a server that is up.
TypeOK ==
  /\ live \subseteq Servers /\ registered \subseteq Servers
  /\ controller.session \in live \cup {None} /\ controller.leader \in Servers \cup {None}
  /\ state.session \in live \cup {None} /\ state.value \in StateValue \cup {None}
  /\ \A k \in DOMAIN chunks : /\ chunks[k].session \in live \cup {None}
                            /\ chunks[k].value \in (SUBSET Changes) \cup {None}
  /\ \A p \in Servers :
       /\ status[p] \in {"new", "up", "stopping", "down", "lost"}
       /\ authority[p].active_workers \subseteq Servers
       /\ leader[p] # None => leader[p].state \subseteq Changes /\ leader[p].workers \subseteq uris(registered)
       /\ task[p] = None <=> updates[p]["leader"].stage = "idle"
       /\ task[p] # None => status[p] \in {"up", "stopping"} /\ leader[p] # None
  /\ reused \subseteq Uris /\ misread \in BOOLEAN
  /\ acked \subseteq Changes /\ faults \in 0 .. MaxFaults /\ failed \in 0 .. MaxFailed

Readable ==
  state.value # None /\ state.value.kind = "Version" =>
    Stitched({chunks[<<state.value.version, i>>].value : i \in 0 .. state.value.num_chunks - 1},
             state.value.num_chunks)

\* The state key never names a version that cannot be read back: its chunks
\* are all there, and all cut from one state (consul.rs: updates are atomic,
\* although they take a request per chunk and two versions share the keys).
\* The exception is a leader that misread its own key: it is elected again and
\* its two tasks update the state at once, under one session.
StateReadable == misread \/ Readable

\* A change whose request was answered is in the stored state, whatever servers
\* crash, lose their session or take over in the middle of an update, until a
\* leader misreads its own key.
AcknowledgedIsDurable == misread \/ acked \subseteq Stored

\* The state key is only written by the server that holds the leader key at
\* that moment ("*if* we successfully update the dataflow state ..., we are
\* still the leader").
OnlyTheLeaderStores ==
  [][state'.value # state.value => state'.session = controller.session]_vars

Leading(p) ==
  /\ status[p] = "up" /\ p \in live
  /\ controller.session = p /\ leader[p] # None

\* The Leader has the addresses of the workers whose sessions live, and no
\* others; it may err about an address that was taken again too early, which
\* it drops when the old session ends.
KnowsWorkers(p) == leader[p].workers \ reused = uris(get_workers) \ reused

\* As long as a server that may lead is up there is, again and again, a leader,
\* and it knows the workers: elections end, a dead leader's lock does not
\* outlive it, and no worker that came or went is missed.  A leader that
\* misread its own key starts over without telling its new Leader the workers.
AlwaysLed ==
  []<>( \/ \E p \in Servers : Leading(p) /\ KnowsWorkers(p)
        \/ \A p \in Eligible : status[p] # "up"
        \/ misread )

\* A write refused with WriteIssuedFromLostLeader was "due to loss of
\* leadership": the server does not hold the leader key.
\* It does not hold, and no run checks it: a server that surrenders keeps its
\* session, and with it the locks on the state keys.
RefusedHasLostLeadership ==
  \A p \in Servers : status[p] = "lost" => controller.session # p

=============================================================================
