----------------------- MODULE ControllerStateProofs ------------------------
(***************************************************************************)
(* What is stored of the controller state, for any servers, changes and    *)
(* numbers of chunks: it can be read back, the chunks that the state key   *)
(* names being all there and cut from one state, and it holds every change *)
(* that was acknowledged.                                                  *)
(***************************************************************************)
EXTENDS ControllerProofs

\* Zenon proves the leaves that do not name the SMT solver.
USE ZenonT(30)

(* The stored state can be read back.                                      *)

\* A server that leads has seen its own election and stands for no other.
LeadsOnceOf(p) ==
  /\ HasWon(p) => leader[p] = None
  /\ \A i, j \in Nat : Won(events[p], i) /\ Won(events[p], j) => i = j
  /\ leader[p] # None \/ HasWon(p) =>
       ~Elects(p) /\ authority[p].pc # "become_leader"
  /\ status[p] = "up" /\ Leads(p) =>
       /\ controller.leader # None
       /\ authority[p].pc # "readback" => authority[p].controller_index = controller.index

LeadsOnce == \A p \in live : LeadsOnceOf(p)

WritesElsewhere == \A p \in live, t \in Threads : Elsewhere(updates[p][t])

RInv == KInv /\ LeadsOnce /\ WritesElsewhere /\ Readable

-----------------------------------------------------------------------------
(* One leader task, and a state that can be read.                           *)

\* No server stands for election while it leads, or leads twice.
LEMMA LeadsOnceStep ==
  ASSUME KInv, LeadsOnce, ~misread', NEW p \in Servers, Step(p)
  PROVE  LeadsOnce'
<1>1. Types /\ Tasks /\ HoldsKey /\ TasksOf(p)
  BY DEF KInv, Tasks
<1>2. /\ ServerTypes /\ StoreTypes /\ authority[p] \in AuthorityState
      /\ events[p] \in Seq(Event) /\ leader[p] \in LeaderState \cup {None}
  BY <1>1 DEF Types, Calls, ServerTypes
<1>3. ASSUME NEW q \in live', q # p PROVE LeadsOnceOf(q)'
  <2>1. q \in Servers /\ q \in live
    BY <1>1, <1>3, StepTypes, KeyStep DEF Types, Calls, StoreTypes
  <2>2. /\ updates'[q] = updates[q] /\ status'[q] = status[q] /\ authority'[q] = authority[q]
        /\ events'[q] = events[q] /\ leader'[q] = leader[q] /\ task'[q] = task[q]
    BY <1>1, <1>3, <2>1, StepTypes DEF Own
  <2>3. Leads(q) => controller' = controller
    BY <1>1, <1>3, <2>1, KeyStep DEF HoldsKey
  <2>4. LeadsOnceOf(q)
    BY <2>1 DEF LeadsOnce
  <2> QED
    BY <2>2, <2>3, <2>4 DEF LeadsOnceOf, HasWon, Leads, Elects
<1>4. SUFFICES ASSUME p \in live' PROVE LeadsOnceOf(p)'
  BY <1>3 DEF LeadsOnce
<1>5. \A i \in Nat : ~Won(<<>>, i)
  BY NothingWon
<1>6. ASSUME NEW how \in {"down", "lost"}, Down(p, how) PROVE LeadsOnceOf(p)'
  <2>1. /\ status'[p] = how /\ authority'[p].pc = "ended" /\ events'[p] = <<>>
        /\ leader'[p] = None
    BY <1>1, <1>6, DownOnly
  <2> QED
    BY <1>5, <2>1 DEF LeadsOnceOf, HasWon, Leads, Elects
<1>7. ASSUME NEW pc, Goto(p, pc)
      PROVE  authority'[p].pc = pc
             /\ authority'[p].controller_index = authority[p].controller_index
  BY <1>2, <1>7 DEF Goto, ServerTypes, AuthorityState
<1>8. CASE Start(p)
  <2>1. UNCHANGED <<events, leader>> /\ events[p] = <<>> /\ leader[p] = None
        /\ authority'[p].pc = "get_leader"
    BY <1>1, <1>7, <1>8 DEF Start, TasksOf
  <2> QED
    BY <1>5, <2>1 DEF LeadsOnceOf, HasWon, Leads, Elects
<1>9. ASSUME ~Start(p) PROVE p \in live /\ LeadsOnceOf(p) /\ (Leads(p) => controller.session = p)
  BY <1>1, <1>4, <1>9, KeyStep DEF LeadsOnce, HoldsKey
<1>10. ASSUME NEW b \in BOOLEAN, b \/ (controller.session = p => misread'), GetLeader(p, b)
       PROVE  LeadsOnceOf(p)'
  <2>1. /\ At(p, "get_leader") /\ UNCHANGED <<controller, status, events, leader>>
    BY <1>10 DEF GetLeader, authorityVars
  <2>2. LeadsOnceOf(p) /\ ~Elects(p)
    BY <1>9, <2>1 DEF Start, At, Elects
  <2>3. CASE Leads(p)
    <3>0. b
      BY <1>9, <1>10, <2>1, <2>3 DEF Start, At
    <3>1. controller.leader # None /\ authority[p].controller_index = controller.index
      BY <2>1, <2>2, <2>3 DEF LeadsOnceOf, At
    <3>2. ~is_new_index(authority[p].controller_index)
      BY <1>2, <3>1, NoneAssumption, SMTT(30) DEF is_new_index, StoreTypes
    <3>3. Goto(p, "heartbeat")
      BY <1>10, <3>0, <3>1, <3>2 DEF GetLeader, try_get_leader
    <3>4. authority'[p].pc = "heartbeat" /\ authority'[p].controller_index = controller.index
      BY <1>7, <3>1, <3>3
    <3> QED
      BY <2>1, <2>2, <3>1, <3>4 DEF LeadsOnceOf, HasWon, Leads, Elects
  <2>4. CASE ~Leads(p)
    <3>1. ~Elects(p)'
      <4>1. ~BecomeLeader(p)
        BY <2>1 DEF BecomeLeader, At
      <4> QED
        BY <1>1, <2>2, <4>1, ElectsStep
    <3> QED
      BY <2>1, <2>4, <3>1 DEF LeadsOnceOf, HasWon, Leads
  <2> QED
    BY <2>3, <2>4
<1>11. CASE BecomeLeader(p)
  <2>1. At(p, "become_leader") /\ LeadsOnceOf(p)
    BY <1>9, <1>11 DEF BecomeLeader, Start, At
  <2>2. leader[p] = None /\ ~HasWon(p)
    BY <2>1 DEF LeadsOnceOf, At
  <2>3. CASE AcquireLeadership(p) /\ Goto(p, "readback") /\ UNCHANGED <<status, events, leader>>
    <3>1. authority'[p].pc = "readback"
      BY <1>7, <2>3
    <3>2. controller'.leader = p
      <4> DEFINE c == [controller EXCEPT !.session = p, !.leader = p]
      <4>1. c \in [session : Sessions, leader : Sessions, index : Nat] /\ c.leader = p
        BY <1>2 DEF StoreTypes, Sessions
      <4>2. controller' = [c EXCEPT !.index = @ + 1]
        BY <2>3 DEF AcquireLeadership, Modified
      <4> HIDE DEF c
      <4> QED
        BY <4>1, <4>2
    <3> QED
      BY <2>2, <2>3, <3>1, <3>2, NoneAssumption DEF LeadsOnceOf, HasWon, Leads
  <2>4. CASE Goto(p, "heartbeat") /\ UNCHANGED <<status, events, leader>>
    <3>1. authority'[p].pc = "heartbeat"
      BY <1>7, <2>4
    <3> QED
      BY <2>2, <2>4, <3>1 DEF LeadsOnceOf, HasWon, Leads, Elects
  <2> QED
    BY <1>6, <1>11, <2>3, <2>4 DEF BecomeLeader
<1>12. ASSUME NEW b \in BOOLEAN, ReadBack(p, b) PROVE LeadsOnceOf(p)'
  <2>1. At(p, "readback") /\ LeadsOnceOf(p) /\ (Leads(p) => controller.session = p)
        /\ UNCHANGED <<controller, status, events, leader>>
    BY <1>9, <1>12 DEF ReadBack, Start, At, store
  <2>2. leader[p] = None /\ ~HasWon(p) /\ controller.session = p /\ controller.leader # None
    BY <2>1 DEF LeadsOnceOf, At, Leads, Elects
  <2>3. CASE b
    <3>1. authority' = [authority EXCEPT ![p].pc = "update",
            ![p].controller_index = IF controller.session = p THEN controller.index ELSE @]
      BY <1>12, <2>3 DEF ReadBack
    <3>2. authority' = [authority EXCEPT ![p] =
            [authority[p] EXCEPT !.pc = "update", !.controller_index = controller.index]]
      BY <1>2, <2>2, <3>1 DEF ServerTypes
    <3>3. authority'[p] =
            [authority[p] EXCEPT !.pc = "update", !.controller_index = controller.index]
      BY <1>2, <3>2 DEF ServerTypes
    <3>4. authority'[p].pc = "update" /\ authority'[p].controller_index = controller.index
      BY <1>2, <3>3 DEF AuthorityState
    <3> QED
      BY <2>1, <2>2, <3>4 DEF LeadsOnceOf, HasWon, Leads, Elects
  <2>4. CASE ~b
    <3>1. authority'[p].pc = "heartbeat"
      BY <1>7, <1>12, <2>4 DEF ReadBack
    <3> QED
      BY <2>1, <2>2, <3>1 DEF LeadsOnceOf, HasWon, Leads, Elects
  <2> QED
    BY <2>3, <2>4
<1>13. CASE Elected(p)
  <2>1. At(p, "update") /\ LeadsOnceOf(p) /\ UNCHANGED controller
    BY <1>9, <1>13 DEF Elected, Start, At, store
  <2>2. /\ leader[p] = None /\ ~HasWon(p) /\ controller.leader # None
        /\ authority[p].controller_index = controller.index
    BY <2>1 DEF LeadsOnceOf, At, Leads, Elects
  <2>3. CASE updates[p]["authority"].stage = "returned"
    <3> DEFINE s == updates[p]["authority"].state
    <3>1. /\ authority' = [authority EXCEPT ![p].pc = "heartbeat", ![p].is_leader = TRUE]
          /\ Sends(p, <<WonLeaderElection(s)>>) /\ UNCHANGED <<status, leader>>
      BY <1>13, <2>3 DEF Elected
    <3>2. authority' = [authority EXCEPT ![p] =
            [authority[p] EXCEPT !.pc = "heartbeat", !.is_leader = TRUE]]
      BY <1>2, <3>1 DEF ServerTypes
    <3>3. authority'[p].pc = "heartbeat"
          /\ authority'[p].controller_index = authority[p].controller_index
      BY <1>2, <3>2 DEF ServerTypes, AuthorityState
    <3>4. s \in States
      <4>1. updates[p]["authority"] \in Update
        BY <1>2, ControllerAssumption, SMTT(30) DEF StoreTypes
      <4> QED
        BY <2>3, <4>1, Stages DEF Ended
    <3> HIDE DEF s
    <3>5. events'[p] = events[p] \o <<WonLeaderElection(s)>>
      BY <1>2, <3>1 DEF Sends, ServerTypes
    <3>6. \A i \in Nat : Won(events'[p], i) => i = Len(events[p]) + 1
      BY <1>2, <2>2, <3>4, <3>5, WonAfterElection, SMTT(30) DEF HasWon
    <3> QED
      BY <2>1, <2>2, <3>1, <3>3, <3>6 DEF LeadsOnceOf, HasWon, Leads, Elects
  <2>4. CASE updates[p]["authority"].stage # "returned"
    BY <1>6, <1>13, <2>4 DEF Elected
  <2> QED
    BY <2>3, <2>4
<1>14. CASE Heartbeat(p)
  <2>1. At(p, "heartbeat") /\ LeadsOnceOf(p) /\ UNCHANGED controller
    BY <1>9, <1>14 DEF Heartbeat, Start, At, store
  <2>2. CASE p \in live
    <3>1. authority' = [authority EXCEPT
            ![p].pc = IF authority[p].is_leader THEN "workers" ELSE "get_leader",
            ![p].last_leader_state = authority[p].is_leader,
            ![p].active_workers =
               IF authority[p].is_leader /\ ~authority[p].last_leader_state THEN {} ELSE @]
          /\ UNCHANGED <<status, events, leader>>
      BY <1>14, <2>2 DEF Heartbeat
    <3>2. authority'[p].pc \in {"workers", "get_leader"}
          /\ authority'[p].controller_index = authority[p].controller_index
      BY <1>2, <3>1 DEF ServerTypes, AuthorityState
    <3> QED
      BY <2>1, <3>1, <3>2 DEF LeadsOnceOf, HasWon, Leads, Elects, At
  <2>3. CASE p \notin live
    BY <1>6, <1>14, <2>3 DEF Heartbeat
  <2> QED
    BY <2>2, <2>3
<1>15. ASSUME ~Elected(p), ~Start(p)
       PROVE  /\ HasWon(p)' => HasWon(p)
              /\ \A i, j \in Nat : Won(events'[p], i) /\ Won(events'[p], j) => i = j
  <2>1. LeadsOnceOf(p)
    BY <1>9, <1>15
  <2>2. \A i, j \in Nat : Won(events[p], i) /\ Won(events[p], j) => i = j
    BY <2>1 DEF LeadsOnceOf
  <2>3. CASE \A i \in Nat : Won(events'[p], i) => Won(events[p], i)
    BY <2>2, <2>3 DEF HasWon
  <2>4. CASE \A i \in Nat : Won(events'[p], i) => Won(events[p], i + 1)
    <3>1. \A i \in Nat : i + 1 \in Nat /\ \A j \in Nat : i + 1 = j + 1 => i = j
      BY SMTT(30)
    <3> QED
      BY <2>2, <2>4, <3>1 DEF HasWon
  <2>5. \/ \A i \in Nat : Won(events'[p], i) => Won(events[p], i)
        \/ \A i \in Nat : Won(events'[p], i) => Won(events[p], i + 1)
    BY <1>1, <1>5, <1>15, EventsStep
  <2> QED
    BY <2>3, <2>4, <2>5
<1>16. ASSUME ~Elected(p), ~Start(p), leader'[p] = None => leader[p] = None,
              leader[p] = None => leader'[p] = None, UNCHANGED <<controller, status>>,
              authority'[p].pc = authority[p].pc,
              authority'[p].controller_index = authority[p].controller_index
       PROVE  LeadsOnceOf(p)'
  <2>1. LeadsOnceOf(p)
    BY <1>9, <1>16
  <2> QED
    BY <1>15, <1>16, <2>1 DEF LeadsOnceOf, Leads, Elects
<1>17. CASE update_worker_state(p)
  <2>1. ~Elected(p) /\ ~Start(p) /\ At(p, "workers") /\ UNCHANGED <<controller, status, leader>>
    BY <1>17 DEF update_worker_state, Elected, Start, At, authorityVars
  <2>2. authority'[p].pc = "get_leader"
        /\ authority'[p].controller_index = authority[p].controller_index
    BY <1>2, <1>17 DEF update_worker_state, ServerTypes, AuthorityState
  <2>3. LeadsOnceOf(p)
    BY <1>9, <2>1
  <2> QED
    BY <1>15, <2>1, <2>2, <2>3 DEF LeadsOnceOf, Leads, Elects, At
<1>18. CASE HandleWonLeaderElection(p)
  <2>1. /\ events' = [events EXCEPT ![p] = Tail(@)] /\ events[p] # <<>>
        /\ Head(events[p]).kind = "WonLeaderElection" /\ status[p] = "up"
        /\ UNCHANGED <<controller, status, authority>>
    BY <1>18 DEF HandleWonLeaderElection, Arrives, Free, authorityVars
  <2>2. events'[p] = Tail(events[p])
    BY <1>2, <2>1 DEF ServerTypes
  <2>3. Won(events[p], 1) /\ \A i \in Nat : Won(events'[p], i) => Won(events[p], i + 1)
    BY <1>2, <2>1, <2>2, WonAfterTail
  <2>4. LeadsOnceOf(p)
    BY <1>9, <2>1 DEF Start
  <2>5. \A i \in Nat : ~Won(events'[p], i)
    <3>1. ASSUME NEW i \in Nat, Won(events'[p], i) PROVE FALSE
      <4>1. i + 1 \in Nat /\ 1 \in Nat /\ Won(events[p], i + 1)
        BY <2>3, <3>1, SMTT(30)
      <4>2. i + 1 = 1
        BY <2>3, <2>4, <4>1 DEF LeadsOnceOf
      <4>3. i \in 1 .. Len(events'[p])
        BY <3>1 DEF Won
      <4> QED
        BY <4>2, <4>3, SMTT(30)
    <3> QED
      BY <3>1
  <2>6. HasWon(p)
    BY <2>3 DEF HasWon
  <2> QED
    BY <2>1, <2>4, <2>5, <2>6 DEF LeadsOnceOf, HasWon, Leads, Elects
<1>19. ASSUME NEW kind \in {"NewWorkers", "FailedWorkers"}, HandleWorkers(p, kind)
       PROVE  LeadsOnceOf(p)'
  <2>1. CASE leader[p] = None
    BY <1>6, <1>19, <2>1 DEF HandleWorkers
  <2>2. CASE leader[p] # None
    <3>1. UNCHANGED <<controller, status, authority, leader>> /\ ~Start(p)
      BY <1>19, <2>2 DEF HandleWorkers, store, Arrives, Free, Start
    <3>2. ~Elected(p)
      BY <1>9, <2>2, <3>1 DEF LeadsOnceOf, Elected, At, Elects
    <3> QED
      BY <1>16, <3>1, <3>2
  <2> QED
    BY <2>1, <2>2
<1>20. CASE Committed(p)
  <2>1. CASE \E how \in {"down", "lost"} : Down(p, how)
    BY <1>6, <2>1
  <2>2. CASE ~\E how \in {"down", "lost"} : Down(p, how)
    <3>1. UNCHANGED <<controller, status, authority, events>> /\ ~Start(p)
      BY <1>20, <2>2 DEF Committed, store, Start
    <3>2. task[p] # None /\ leader[p] # None
      BY <1>1, <1>20 DEF Committed, TasksOf
    <3>3. ~Elected(p)
      BY <1>9, <3>1, <3>2 DEF LeadsOnceOf, Elected, At, Elects
    <3>4. leader'[p] # None
      <4>1. CASE updates[p]["leader"].stage = "returned"
        <5>1. task[p] \in Commit
          BY <1>2, <3>2 DEF ServerTypes
        <5>2. leader'[p] = [state |-> task[p].state, workers |-> task[p].workers]
          BY <1>2, <1>20, <4>1 DEF Committed, ServerTypes
        <5>3. leader'[p] \in LeaderState
          BY <5>1, <5>2, SMTT(30) DEF LeaderState, Commit
        <5> QED
          BY <5>3, LeaderAssumption
      <4>2. CASE updates[p]["leader"].stage # "returned"
        BY <1>20, <2>2, <3>2, <4>2 DEF Committed
      <4> QED
        BY <4>1, <4>2
    <3> QED
      BY <1>16, <3>1, <3>2, <3>3, <3>4
  <2> QED
    BY <2>1, <2>2
<1>21. CASE Surrender(p)
  <2>1. status[p] = "stopping" /\ UNCHANGED <<events, authority>> /\ leader'[p] = None
    BY <1>2, <1>21 DEF Surrender, ServerTypes
  <2>2. events'[p] = <<>> /\ ~Elects(p)'
    BY <1>1, <2>1 DEF TasksOf, Elects
  <2> QED
    BY <1>5, <2>1, <2>2 DEF LeadsOnceOf, HasWon, Leads
<1>22. ASSUME NEW c \in Changes, Request(p, c) PROVE LeadsOnceOf(p)'
  <2>1. UNCHANGED <<controller, status, authority, leader>> /\ ~Start(p) /\ leader[p] # None
    BY <1>22 DEF Request, store, Free, Start
  <2>2. ~Elected(p)
    BY <1>9, <2>1 DEF LeadsOnceOf, Elected, At, Elects
  <2> QED
    BY <1>16, <2>1, <2>2
<1>23. CASE Expire(p)
  BY <1>4, <1>23 DEF Expire
<1>24. CASE Crash(p)
  BY <1>6, <1>24 DEF Crash
<1>25. CASE Stop(p)
  <2>1. status'[p] = "stopping" /\ events'[p] = <<>> /\ authority'[p].pc = "ended"
    BY <1>2, <1>25, StopEnds
  <2> QED
    BY <1>5, <2>1 DEF LeadsOnceOf, HasWon, Leads, Elects
<1>26. CASE (\E t \in Threads : Updating(p, t))
            \/ (RequestFails(p, "leader") /\ UNCHANGED serverVars)
  <2>1. UNCHANGED <<controller, status, authority, leader, events>>
    BY <1>1, <1>26, CallStages DEF Types, Updating, RequestFails, serverVars, store
  <2>2. ~Start(p)
    BY <1>2, <2>1 DEF Start, ServerTypes
  <2>3. LeadsOnceOf(p)
    BY <1>9, <2>2
  <2> QED
    BY <2>1, <2>3 DEF LeadsOnceOf, HasWon, Leads, Elects
<1> QED
  BY <1>8, <1>10, <1>11, <1>12, <1>13, <1>14, <1>17, <1>18, <1>19,
     <1>20, <1>21, <1>22, <1>23, <1>24, <1>25, <1>26 DEF Step

\* At most one call is under way among the servers whose session is valid.
LEMMA OneCall ==
  ASSUME KInv, LeadsOnce, NEW p \in live, NEW q \in live, NEW t \in Threads, NEW r \in Threads,
         updates[p][t].stage # "idle", updates[q][r].stage # "idle"
  PROVE  p = q /\ t = r
<1>1. p \in Servers /\ q \in Servers /\ Tasks /\ HoldsKey
  BY DEF KInv, Types, Calls, StoreTypes
<1>2. p = q
  BY <1>1, CallLeads DEF HoldsKey
<1>3. TasksOf(p) /\ LeadsOnceOf(p) /\ t \in {"authority", "leader"} /\ r \in {"authority", "leader"}
  BY <1>1, ControllerAssumption DEF Tasks, LeadsOnce
<1>4. ~(updates[p]["authority"].stage # "idle" /\ updates[p]["leader"].stage # "idle")
  BY <1>3 DEF TasksOf, LeadsOnceOf, Elects
<1> QED
  BY <1>2, <1>3, <1>4

\* Only a call of update_controller_state gets past its beginning.
LEMMA UpdatesStep ==
  ASSUME Types, Tasks, NEW p \in Servers, Step(p), NEW q \in Servers, NEW r \in Threads
  PROVE  \/ updates'[q][r] = updates[q][r]
         \/ updates'[q][r].stage \in {"idle", "check", "failed"}
         \/ q = p /\ Updating(p, r)
<1>1. /\ updates \in [Servers -> [Threads -> Update]]
      /\ "authority" \in Threads /\ "leader" \in Threads
  BY ControllerAssumption DEF Types, Calls, StoreTypes
<1>2. CASE UNCHANGED updates
  BY <1>2
<1>3. CASE q # p
  BY <1>3, StepTypes DEF Own
<1>4. ASSUME NEW how \in {"down", "lost"}, Down(p, how), q = p
      PROVE  updates'[q][r].stage = "idle"
  <2>1. updates'[p][r] = Idle
    BY <1>4, DownOnly
  <2> QED
    BY <1>4, <2>1, RestingTypes
<1>5. ASSUME NEW t \in Threads, NEW u, Becomes(p, t, u), u.stage \in {"idle", "check", "failed"}
      PROVE  updates'[q][r] = updates[q][r]
             \/ updates'[q][r].stage \in {"idle", "check", "failed"}
  BY <1>1, <1>5 DEF Becomes
<1>6. /\ Idle.stage = "idle" /\ RequestFailed.stage = "failed"
      /\ \A a : Begin(a).stage = "check"
  BY DEF Idle, RequestFailed, Begin
<1>7. ASSUME NEW t \in Threads, Updating(p, t), q = p
      PROVE  updates'[q][r] = updates[q][r] \/ Updating(p, r)
  BY <1>7, CallTypes DEF Types, Updating
<1>8. CASE Start(p) \/ (\E b \in BOOLEAN : GetLeader(p, b)) \/ update_worker_state(p)
           \/ HandleWonLeaderElection(p) \/ Surrender(p) \/ Expire(p)
  BY <1>2, <1>8 DEF Start, register_worker, GetLeader, update_worker_state,
       HandleWonLeaderElection, Surrender, Expire, authorityVars
<1>9. CASE BecomeLeader(p) \/ Heartbeat(p) \/ Crash(p)
  <2>1. UNCHANGED updates \/ Down(p, "down")
    BY <1>9 DEF BecomeLeader, Heartbeat, Crash, authorityVars
  <2> QED
    BY <1>2, <1>3, <1>4, <2>1
<1>10. CASE \/ (\E b \in BOOLEAN : ReadBack(p, b)) \/ Elected(p) \/ Committed(p) \/ Stop(p)
            \/ (\E kind \in {"NewWorkers", "FailedWorkers"} : HandleWorkers(p, kind))
            \/ (\E c \in Changes : Request(p, c)) \/ RequestFails(p, "leader")
  <2>1. \/ UNCHANGED updates \/ Down(p, "down") \/ Down(p, "lost")
        \/ \E t \in Threads : Becomes(p, t, Idle) \/ Becomes(p, t, RequestFailed)
                              \/ \E a : Becomes(p, t, Begin(a))
    BY <1>1, <1>10
       DEF ReadBack, Elected, Committed, Stop, HandleWorkers, Request, RequestFails
  <2> QED
    BY <1>2, <1>3, <1>4, <1>5, <1>6, <2>1
<1> QED
  BY <1>3, <1>7, <1>8, <1>9, <1>10 DEF Step

\* The chunks only change in a write of a server whose session is valid.
LEMMA ChunkStep ==
  ASSUME Types, NEW p \in Servers, Step(p), NEW k \in Versions \X ChunkIds,
         chunks'[k].value # chunks[k].value
  PROVE  /\ p \in live
         /\ \E t \in Threads : Updating(p, t) /\ write_controller_state(p, t)
<1>1. ~UNCHANGED chunks
  OBVIOUS
<1>2. ~Expire(p)
  BY SMTT(30) DEF Expire, Unlocked, Types, Calls, StoreTypes
<1>3. ASSUME NEW t \in Threads, Updating(p, t)
      PROVE  write_controller_state(p, t)
  <2>1. \/ CheckLeader(p, t) \/ get_controller_state_value(p, t)
        \/ get_controller_state(p, t) \/ write_controller_state(p, t)
        \/ write_controller_state_value(p, t)
    BY <1>3 DEF Updating, update_controller_state
  <2>2. Calls
    BY DEF Types
  <2>3. ~CheckLeader(p, t) /\ ~get_controller_state_value(p, t)
        /\ ~get_controller_state(p, t) /\ ~write_controller_state_value(p, t)
    BY <1>1 DEF CheckLeader, get_controller_state_value, get_controller_state,
         write_controller_state_value, store
  <2> QED
    BY <2>1, <2>3
<1>4. ASSUME NEW t \in Threads, write_controller_state(p, t)
      PROVE  p \in live
  BY <1>1, <1>4, WriteOutcome DEF Types
<1>5. \E t \in Threads : Updating(p, t)
  <2>1. ~Start(p) /\ ~Surrender(p)
    BY <1>1 DEF Start, register_worker, Surrender, surrender_leadership, store
  <2>2. ~BecomeLeader(p)
    BY <1>1 DEF BecomeLeader, AcquireLeadership, authorityVars, store
  <2>3. ~RequestFails(p, "leader")
    BY <1>1 DEF RequestFails, store
  <2>4. ~Elected(p) /\ ~Heartbeat(p) /\ ~update_worker_state(p) /\ ~HandleWonLeaderElection(p)
        /\ ~Committed(p) /\ ~Crash(p) /\ ~Stop(p)
    BY <1>1 DEF Elected, Heartbeat, update_worker_state, HandleWonLeaderElection,
         Committed, Crash, Stop, authorityVars, store
  <2>5. \A b : ~GetLeader(p, b) /\ ~ReadBack(p, b) /\ ~HandleWorkers(p, b) /\ ~Request(p, b)
    BY <1>1 DEF GetLeader, ReadBack, HandleWorkers, Request, authorityVars, store
  <2> QED
    BY <1>2, <2>1, <2>2, <2>3, <2>4, <2>5 DEF Step
<1> QED
  BY <1>3, <1>4, <1>5

\* A live leader never writes to the version in use: the only call that could
\* move the state key, or touch the chunks, is its own.
LEMMA WritesElsewhereStep ==
  ASSUME KInv, LeadsOnce, WritesElsewhere, NEW p \in Servers, Step(p)
  PROVE  WritesElsewhere'
<1>1. Types /\ Tasks /\ live \subseteq Servers
  BY DEF KInv, Types, Calls, StoreTypes
<1>2. SUFFICES ASSUME NEW q \in live', NEW r \in Threads,
                      updates'[q][r].stage \in {"read", "write", "set"}
               PROVE  Elsewhere(updates[q][r])'
  <2>1. \A q \in live', r \in Threads :
          updates'[q][r].stage \notin {"read", "write", "set"} => Elsewhere(updates[q][r])'
    BY DEF Elsewhere
  <2> QED
    BY <2>1 DEF WritesElsewhere
<1>3. q \in live \/ (q = p /\ Start(p))
  BY <1>1, KeyStep
<1>4. q \in Servers
  BY <1>1, <1>3
<1>5. ASSUME Updating(p, r), q = p
      PROVE  Elsewhere(updates[q][r])'
  <2>1. update_controller_state(p, r)
    BY <1>5 DEF Updating
  <2>2. p \in live
    BY <1>1, <1>5, <2>1, CallStages DEF Types
  <2> QED
    BY <1>1, <1>5, <2>1, <2>2, CallElsewhere DEF Types, WritesElsewhere
<1>6. ASSUME ~(q = p /\ Updating(p, r))
      PROVE  Elsewhere(updates[q][r])'
  <2>1. updates'[q][r] = updates[q][r]
    BY <1>1, <1>2, <1>4, <1>6, UpdatesStep, SMTT(30)
  <2>2. updates[q][r].stage \in {"read", "write", "set"}
    BY <1>2, <2>1
  <2>3. q \in live
    <3>1. ASSUME Start(p), q = p PROVE FALSE
      <4>1. status[p] = "new" /\ TasksOf(p) /\ r \in {"authority", "leader"}
        BY <1>1, <3>1, ControllerAssumption DEF Start, Tasks
      <4> QED
        BY <4>1, <2>2, <3>1 DEF TasksOf
    <3> QED
      BY <1>3, <3>1
  <2>4. state'.value = state.value
    <3>1. SUFFICES ASSUME state'.value # state.value PROVE FALSE
      OBVIOUS
    <3>2. PICK t \in Threads :
            /\ updates[p][t].stage = "set" /\ p \in live
            /\ \/ updates'[p][t] = Returned(updates[p][t].state)
               \/ updates'[p][t] = RequestFailed
      BY <1>1, <3>1, StateStep
    <3>3. p = q /\ t = r
      BY <2>2, <2>3, <3>2, OneCall, SMTT(30)
    <3> QED
      BY <1>2, <3>2, <3>3, SMTT(30) DEF Returned, RequestFailed
  <2>5. \A k \in Versions \X ChunkIds : chunks'[k].value = chunks[k].value
    <3>1. SUFFICES ASSUME NEW k \in Versions \X ChunkIds, chunks'[k].value # chunks[k].value
                   PROVE  FALSE
      OBVIOUS
    <3>2. PICK t \in Threads : Updating(p, t) /\ p \in live
      BY <1>1, <3>1, ChunkStep
    <3>3. updates[p][t].stage # "idle"
      BY <1>1, <3>2, CallStages DEF Types, Updating
    <3> QED
      BY <1>6, <2>2, <2>3, <3>2, <3>3, OneCall, SMTT(30)
  <2> DEFINE u == updates[q][r]
  <2>6. Elsewhere(u) /\ u \in Update
    BY <1>1, <1>4, <2>3 DEF WritesElsewhere, Types, Calls, StoreTypes
  <2>7. u.stage \in {"write", "set"} => u.state \in States
    BY <2>6, Stages DEF Writing, Setting
  <2>8. u.stage \in {"write", "set"} /\ u.value.kind = "Version" =>
          \A i \in ChunksOf(u.state) : <<u.value.version, i>> \in Versions \X ChunkIds
    <3>1. u.stage \in {"write", "set"} => u.value \in StateValue
      BY <2>6, Stages DEF Writing, Setting, StateValue
    <3>2. u.stage \in {"write", "set"} /\ u.value.kind = "Version" => u.value.version \in Versions
      BY <3>1 DEF StateValue, VersionValue
    <3> QED
      BY <3>2, <2>7, ChunksOfType
  <2> HIDE DEF u
  <2>9. /\ u.stage = "read" => u.value = state'.value
        /\ u.stage \in {"write", "set"} /\ u.value.kind = "Version" =>
             /\ state'.value # None /\ state'.value.kind = "Version" =>
                  u.value.version # state'.value.version
             /\ u.stage = "write" /\ u.refused = {} =>
                  \A i \in ChunksOf(u.state) \ u.left :
                    chunks'[<<u.value.version, i>>].value = u.state
             /\ u.stage = "set" =>
                  \A i \in ChunksOf(u.state) : chunks'[<<u.value.version, i>>].value = u.state
        /\ u.stage = "set" /\ u.value.kind = "Data" => u.value.state = u.state
    BY <2>4, <2>5, <2>6, <2>8 DEF Elsewhere
  <2>10. updates'[q][r] = u
    BY <2>1 DEF u
  <2> QED
    BY <2>9, <2>10 DEF Elsewhere
<1> QED
  BY <1>5, <1>6

\* No step changes a chunk of the version in use.
LEMMA ChunksInUse ==
  ASSUME KInv, WritesElsewhere, NEW p \in Servers, Step(p),
         state.value # None, state.value.kind = "Version",
         NEW i \in 0 .. state.value.num_chunks - 1
  PROVE  chunks'[<<state.value.version, i>>].value = chunks[<<state.value.version, i>>].value
<1> DEFINE v == state.value.version
<1>1. Types /\ state.value \in VersionValue
  BY DEF KInv, Types, Calls, StoreTypes, StateValue
<1>2. <<v, i>> \in Versions \X ChunkIds
  BY <1>1, SizesType DEF VersionValue
<1>3. SUFFICES ASSUME chunks'[<<v, i>>].value # chunks[<<v, i>>].value PROVE FALSE
  OBVIOUS
<1>4. PICK t \in Threads : write_controller_state(p, t) /\ p \in live
  BY <1>1, <1>2, <1>3, ChunkStep
<1> DEFINE u == updates[p][t]
<1>5. u \in Update /\ Elsewhere(u)
  BY <1>1, <1>4 DEF Types, Calls, StoreTypes, WritesElsewhere
<1>6. u.stage = "write"
  BY <1>4 DEF write_controller_state
<1>7. u.value \in VersionValue
  BY <1>5, <1>6, Stages DEF Writing
<1>8. u.value.version # v
  BY <1>5, <1>6, <1>7 DEF Elsewhere, VersionValue
<1>9. PICK j \in u.left :
        \/ chunks' = [chunks EXCEPT ![<<u.value.version, j>>] =
                        [session |-> p, value |-> u.state]]
        \/ chunks' = chunks
  BY <1>1, <1>4, WriteOutcome DEF Types, Put
<1> HIDE DEF u, v
<1>10. <<v, i>> # <<u.value.version, j>>
  BY <1>8
<1> QED
  BY <1>1, <1>2, <1>3, <1>9, <1>10 DEF Types, Calls, StoreTypes

\* The version in use stays whole.
LEMMA StateReadableStep ==
  ASSUME KInv, LeadsOnce, WritesElsewhere, Readable, NEW p \in Servers, Step(p)
  PROVE  Readable'
<1>1. Types /\ Tasks /\ state.value \in StateValue \cup {None}
  BY DEF KInv, Types, Calls, StoreTypes
<1>2. SUFFICES ASSUME state'.value # None /\ state'.value.kind = "Version"
               PROVE  Stitched({chunks'[<<state'.value.version, i>>].value :
                                  i \in 0 .. state'.value.num_chunks - 1},
                               state'.value.num_chunks)
  BY DEF Readable, Stitched
<1>3. CASE state'.value # state.value
  <2>1. PICK t \in Threads :
          /\ updates[p][t].stage = "set" /\ p \in live
          /\ state' = [session |-> p, value |-> updates[p][t].value]
          /\ UNCHANGED chunks
    BY <1>1, <1>3, StateStep
  <2> DEFINE u == updates[p][t]
  <2>2. u \in Update /\ Remaining(u) /\ Elsewhere(u)
    BY <1>1, <2>1 DEF Types, Calls, StoreTypes, WritesElsewhere
  <2>3. /\ u.stage = "set" /\ state'.value = u.value /\ u.value.kind = "Version"
        /\ u.state \in States
    BY <1>2, <2>1, <2>2, Stages DEF Setting
  <2>4. /\ u.value.num_chunks = NumChunks[u.state]
        /\ \A i \in ChunksOf(u.state) : chunks[<<u.value.version, i>>].value = u.state
    BY <2>2, <2>3 DEF Remaining, Elsewhere
  <2> HIDE DEF u
  <2>5. 0 \in ChunksOf(u.state)
    BY <2>3, ChunksOfType
  <2>6. {chunks[<<u.value.version, i>>].value : i \in ChunksOf(u.state)} = {u.state}
    BY <2>4, <2>5
  <2>7. Stitched({chunks[<<u.value.version, i>>].value : i \in ChunksOf(u.state)},
                 NumChunks[u.state])
    BY <2>3, <2>6 DEF Stitched, States
  <2>8. ChunksOf(u.state) = 0 .. u.value.num_chunks - 1
    BY <2>4 DEF ChunksOf
  <2>9. Stitched({chunks[<<u.value.version, i>>].value : i \in 0 .. u.value.num_chunks - 1},
                 u.value.num_chunks)
    BY <2>4, <2>7, <2>8
  <2> QED
    BY <2>1, <2>3, <2>9
<1>4. CASE state'.value = state.value
  <2> DEFINE v == state.value.version
             n == state.value.num_chunks
  <2>1. state.value # None /\ state.value.kind = "Version" /\ v \in Versions /\ n \in Sizes
    BY <1>1, <1>2, <1>4 DEF StateValue, VersionValue
  <2>2. Stitched({chunks[<<v, i>>].value : i \in 0 .. n - 1}, n)
    BY <2>1 DEF Readable
  <2>4. \A i \in 0 .. n - 1 : chunks'[<<v, i>>].value = chunks[<<v, i>>].value
    BY <2>1, ChunksInUse
  <2> HIDE DEF v, n
  <2>5. {chunks'[<<v, i>>].value : i \in 0 .. n - 1} = {chunks[<<v, i>>].value : i \in 0 .. n - 1}
    BY <2>4
  <2>6. Stitched({chunks'[<<v, i>>].value : i \in 0 .. n - 1}, n)
    BY <2>2, <2>5
  <2> QED
    BY <1>4, <2>6 DEF v, n
<1> QED
  BY <1>3, <1>4

\* It holds initially: nothing is stored and no server has started.
LEMMA RInvInit ==
  ASSUME Init PROVE RInv
<1>1. KInv
  BY KInvInit
<1>2. live = {} /\ state.value = None
  BY DEF Init, AuthorityInit
<1> QED
  BY <1>1, <1>2 DEF RInv, LeadsOnce, WritesElsewhere, Readable

\* Every step keeps it, unless a leader takes the failed read of its own key for
\* an absent leader.
LEMMA RInvInductive ==
  ASSUME RInv, ~misread', [Next]_vars PROVE RInv'
<1>1. KInv'
  BY KInvInductive DEF RInv
<1>2. CASE Next
  <2>1. PICK p \in Servers : Step(p)
    BY <1>2, NextIsStep
  <2> QED
    BY <1>1, <2>1, LeadsOnceStep, WritesElsewhereStep, StateReadableStep DEF RInv
<1>3. CASE UNCHANGED vars
  <2>1. LeadsOnce'
    BY <1>3 DEF RInv, LeadsOnce, LeadsOnceOf, HasWon, Won, Leads, Elects, vars,
         authorityVars, serverVars
  <2>2. UNCHANGED <<live, state, chunks, updates>>
    BY <1>3 DEF vars, authorityVars
  <2>3. WritesElsewhere'
    <3>1. ASSUME NEW q \in live, NEW t \in Threads PROVE Elsewhere(updates[q][t])'
      <4>1. Elsewhere(updates[q][t]) /\ updates'[q][t] = updates[q][t]
        BY <2>2 DEF RInv, WritesElsewhere
      <4> QED
        BY <2>2, <4>1 DEF Elsewhere
    <3> QED
      BY <2>2, <3>1 DEF WritesElsewhere
  <2>4. Readable'
    <3>1. state.value # None /\ state.value.kind = "Version" =>
            Stitched({chunks[<<state.value.version, i>>].value :
                        i \in 0 .. state.value.num_chunks - 1}, state.value.num_chunks)
      BY DEF RInv, Readable
    <3> QED
      BY <2>2, <3>1 DEF Readable, Stitched
  <2> QED
    BY <1>1, <2>1, <2>3, <2>4 DEF RInv
<1> QED
  BY <1>2, <1>3

\* The stored controller state can be read at every moment, for any number of
\* servers, changes and chunks, crashes, lost sessions and failed requests
\* included: an update that is under way, given up or cut short never touches
\* the chunks that the state key names.  It holds until a leader takes the
\* failed read of its own key for an absent leader, as StateReadable says.
THEOREM StateIsReadable == Spec => []StateReadable
<1> DEFINE Inv == KInv /\ (misread \/ RInv)
<1>1. ASSUME Inv, [Next]_vars PROVE Inv'
  <2>1. KInv'
    BY <1>1, KInvInductive
  <2>2. misread' \/ RInv'
    BY <1>1, MisreadStays, RInvInductive
  <2> QED
    BY <2>1, <2>2
<1>2. Inv => StateReadable
  BY DEF RInv, StateReadable
<1>3. Init => Inv
  BY KInvInit, RInvInit
<1> QED
  BY <1>1, <1>2, <1>3, PTL DEF Spec

-----------------------------------------------------------------------------
(* The stored state holds what was acknowledged.                           *)

\* The changes that were acknowledged, or are about to be.
Promised ==
  acked \cup UNION {task[p].state :
                      p \in {q \in Servers : updates[q]["leader"].stage = "returned"}}

\* The leader task commits the state it holds; an election keeps what is stored.
CommitsOf(p) ==
  LET u == updates[p]["leader"]
      a == updates[p]["authority"]
  IN  /\ u.stage \in {"check", "value", "read"} => u.asked = task[p].state
      /\ u.stage \in {"write", "set", "returned"} => u.state = task[p].state
      /\ a.stage \in {"check", "value", "read"} => a.asked = None

Commits == \A p \in Servers : CommitsOf(p)

\* Whatever a live server may still store holds what was promised.
KeepsOf(p) ==
  LET a == updates[p]["authority"] IN
  /\ leader[p] # None /\ updates[p]["leader"].stage # "returned" =>
       Promised \subseteq leader[p].state
  /\ \A i \in Nat : Won(events[p], i) => Promised \subseteq events[p][i].state
  /\ task[p] # None => Promised \subseteq task[p].state
  /\ a.stage \in {"write", "set", "returned"} => Promised \subseteq a.state
  /\ a.stage = "read" => a.seen \subseteq {Stored}

Keeps == \A p \in live : KeepsOf(p)

AInv == RInv /\ Commits /\ Keeps /\ Promised \subseteq Stored

-----------------------------------------------------------------------------
(* What was acknowledged.                                                   *)

\* A state that can be read is what each of its chunks was cut from.
LEMMA StoredIsRead ==
  ASSUME Types, Readable
  PROVE  /\ Stored \in States
         /\ state.value # None /\ state.value.kind = "Version" =>
              \A i \in 0 .. state.value.num_chunks - 1 :
                chunks[<<state.value.version, i>>].value = Stored
<1>1. state.value \in StateValue \cup {None}
  BY DEF Types, Calls, StoreTypes
<1>2. CASE state.value = None
  BY <1>2 DEF Stored, States
<1>3. CASE state.value # None /\ state.value.kind = "Data"
  BY <1>1, <1>3 DEF Stored, States, StateValue, VersionValue
<1>4. CASE state.value # None /\ state.value.kind # "Data"
  <2>1. state.value \in VersionValue /\ state.value.kind = "Version"
    BY <1>1, <1>4 DEF StateValue, VersionValue
  <2>2. state.value.num_chunks \in Nat \ {0}
    BY <2>1, SizesType DEF VersionValue
  <2>3. PICK s \in SUBSET Changes :
          {chunks[<<state.value.version, i>>].value : i \in 0 .. state.value.num_chunks - 1} = {s}
    BY <2>1, <1>4 DEF Readable, Stitched
  <2>4. \A i \in 0 .. state.value.num_chunks - 1 :
          chunks[<<state.value.version, i>>].value = s
    BY <2>3
  <2>5. Stored = chunks[<<state.value.version, 0>>].value
    BY <1>4 DEF Stored
  <2> QED
    BY <2>2, <2>4, <2>5, SMTT(30) DEF States
<1> QED
  BY <1>2, <1>3, <1>4

\* The stored state changes only when a live server sets the state key.
LEMMA StoredStep ==
  ASSUME RInv, NEW p \in Servers, Step(p)
  PROVE  \/ Stored' = Stored
         \/ \E t \in Threads : /\ p \in live
                               /\ updates[p][t].stage = "set"
                               /\ Stored' = updates[p][t].state
                               /\ UNCHANGED serverVars
                               /\ updates'[p][t].stage \in {"returned", "failed"}
<1>1. Types /\ Tasks /\ KInv /\ WritesElsewhere /\ state.value \in StateValue \cup {None}
  BY DEF RInv, KInv, Types, Calls, StoreTypes
<1>2. CASE state'.value # state.value
  <2>1. PICK t \in Threads :
          /\ updates[p][t].stage = "set" /\ p \in live
          /\ state' = [session |-> p, value |-> updates[p][t].value]
          /\ UNCHANGED chunks /\ UNCHANGED serverVars
          /\ \/ updates'[p][t] = Returned(updates[p][t].state)
             \/ updates'[p][t] = RequestFailed
    BY <1>1, <1>2, StateStep
  <2>2. state'.value = updates[p][t].value
    BY <2>1
  <2>3. Stored' = updates[p][t].state
    BY <1>1, <2>1, <2>2, SetStored DEF Types, WritesElsewhere
  <2> QED
    BY <2>1, <2>3, SMTT(30) DEF Returned, RequestFailed
<1>3. CASE state'.value = state.value
  <2>1. CASE state.value # None /\ state.value.kind # "Data"
    <3>1. state.value \in VersionValue /\ state.value.kind = "Version"
      BY <1>1, <2>1 DEF StateValue, VersionValue
    <3>2. 0 \in 0 .. state.value.num_chunks - 1
      BY <3>1, SizesType, SMTT(30) DEF VersionValue
    <3>3. chunks'[<<state.value.version, 0>>].value = chunks[<<state.value.version, 0>>].value
      BY <1>1, <2>1, <3>1, <3>2, ChunksInUse
    <3> QED
      BY <1>3, <2>1, <3>3 DEF Stored
  <2>2. CASE state.value = None \/ state.value.kind = "Data"
    BY <1>3, <2>2 DEF Stored
  <2> QED
    BY <2>1, <2>2
<1> QED
  BY <1>2, <1>3

\* A live server that reads the state, with no other in mind, writes what is
\* stored.
LEMMA ReadsStored ==
  ASSUME Types, Readable, NEW p \in live, NEW t \in Threads, Elsewhere(updates[p][t]),
         updates[p][t].stage \in {"value", "read"}, update_controller_state(p, t),
         updates[p][t].stage = "read" => updates[p][t].seen \subseteq {Stored}
  PROVE  /\ updates'[p][t].stage = "read" => updates'[p][t].seen \subseteq {Stored}
         /\ updates'[p][t].stage \in {"write", "set"} /\ updates[p][t].asked = None =>
              updates'[p][t].state = Stored
         /\ UNCHANGED store
<1> DEFINE u == updates[p][t]
           w == updates'[p][t]
<1>1. Calls /\ p \in Servers
  BY DEF Types, Calls, StoreTypes
<1>2. Stored \in Asked /\ Stored # None
  BY StoredIsRead, NoneAssumption DEF Asked, States
<1>3. ASSUME NEW asked \in Asked, NEW stored \in Asked, NEW value \in VersionValue \cup {None},
             NEW x, x = Write(asked, stored, value),
             Stored = IF stored = None THEN {} ELSE stored
      PROVE  x.stage # "read" /\ (asked = None => x.state = Stored)
  <2>1. /\ x \in Writing \cup Setting
        /\ x.state = IF asked # None THEN asked ELSE IF stored = None THEN {} ELSE stored
    BY <1>3, WriteStarts, SMTT(30)
  <2> QED
    BY <1>3, <2>1 DEF Writing, Setting
<1>4. CASE get_controller_state_value(p, t)
  <2>1. /\ u \in Checking /\ UNCHANGED store
        /\ \/ state.value = None /\ w = Write(u.asked, None, None)
           \/ /\ state.value # None /\ state.value.kind = "Data"
              /\ w = Write(u.asked, state.value.state, None)
           \/ w.seen = {} /\ w \in Reading
    BY <1>1, <1>4, ValueOutcome
  <2> HIDE DEF u, w
  <2>2. u.asked \in Asked /\ None \in Asked
    BY <2>1, Fields DEF Asked
  <2>3. CASE state.value = None /\ w = Write(u.asked, None, None)
    <3>1. Stored = {}
      BY <2>3 DEF Stored
    <3>2. w.stage # "read" /\ (u.asked = None => w.state = Stored)
      BY <1>3, <2>2, <2>3, <3>1, SMTT(30)
    <3> QED
      BY <2>1, <3>2 DEF u, w
  <2>4. CASE state.value # None /\ state.value.kind = "Data"
             /\ w = Write(u.asked, state.value.state, None)
    <3>1. Stored = state.value.state
      BY <2>4 DEF Stored
    <3>2. w.stage # "read" /\ (u.asked = None => w.state = Stored)
      BY <1>2, <1>3, <2>2, <2>4, <3>1, SMTT(30)
    <3> QED
      BY <2>1, <3>2 DEF u, w
  <2>5. CASE w.seen = {} /\ w \in Reading
    <3>1. w.stage = "read"
      BY <2>5, Fields
    <3> QED
      BY <2>1, <2>5, <3>1 DEF u, w
  <2> QED
    BY <2>1, <2>3, <2>4, <2>5
<1>5. CASE get_controller_state(p, t)
  <2> DEFINE i == Min(u.left)
             seen == u.seen \cup {chunks[<<u.value.version, i>>].value}
  <2>1. /\ u \in Reading /\ u.stage = "read" /\ UNCHANGED store
        /\ i \in 0 .. u.value.num_chunks - 1
        /\ \/ w \in Reading /\ w.seen = seen
           \/ \E s \in seen : w = Write(u.asked, s, u.value)
           \/ w = RequestFailed
    BY <1>1, <1>5, ReadOutcome
  <2>2. u.asked \in Asked /\ u.value \in VersionValue
    BY <2>1, Fields
  <2>3. u.value = state.value /\ state.value # None /\ state.value.kind = "Version"
    BY <2>1, <2>2, NoneAssumption DEF Elsewhere, VersionValue, StateValue
  <2>4. chunks[<<u.value.version, i>>].value = Stored
    BY <2>1, <2>3, StoredIsRead
  <2>5. seen = {Stored}
    BY <2>1, <2>4
  <2> HIDE DEF i, seen, u, w
  <2>6. CASE w \in Reading /\ w.seen = seen
    <3>1. w.stage = "read"
      BY <2>6, Fields
    <3> QED
      BY <2>1, <2>5, <2>6, <3>1 DEF u, w
  <2>7. CASE \E s \in seen : w = Write(u.asked, s, u.value)
    <3>1. w = Write(u.asked, Stored, u.value)
      BY <2>5, <2>7
    <3>2. w.stage # "read" /\ (u.asked = None => w.state = Stored)
      BY <1>2, <1>3, <2>2, <3>1, SMTT(30)
    <3> QED
      BY <2>1, <3>2 DEF u, w
  <2>8. CASE w = RequestFailed
    BY <2>1, <2>8, RestingTypes DEF w
  <2> QED
    BY <2>1, <2>6, <2>7, <2>8
<1>6. get_controller_state_value(p, t) \/ get_controller_state(p, t)
  BY DEF update_controller_state, CheckLeader, write_controller_state,
       write_controller_state_value
<1> QED
  BY <1>4, <1>5, <1>6

\* What the leader thread commits changes between two commits only.
LEMMA TaskStep ==
  ASSUME Types, Tasks, NEW p \in Servers, Step(p)
  PROVE  \/ task'[p] = task[p]
         \/ task[p] = None /\ leader[p] # None
            /\ ((\E kind \in {"NewWorkers", "FailedWorkers"} : HandleWorkers(p, kind))
                \/ \E c \in Changes : Request(p, c))
         \/ task'[p] = None /\ updates'[p]["leader"].stage = "idle"
<1>1. /\ updates \in [Servers -> [Threads -> Update]] /\ task \in [Servers -> Commit \cup {None}]
      /\ "leader" \in Threads
  BY ControllerAssumption DEF Types, Calls, StoreTypes, ServerTypes
<1>2. ASSUME NEW how \in {"down", "lost"}, Down(p, how)
      PROVE  task'[p] = None /\ updates'[p]["leader"].stage = "idle"
  <2>1. task'[p] = None /\ updates'[p]["leader"] = Idle
    BY <1>1, <1>2, DownOnly
  <2> QED
    BY <2>1, RestingTypes
<1>3. CASE UNCHANGED task
  BY <1>3
<1>4. CASE \E kind \in {"NewWorkers", "FailedWorkers"} : HandleWorkers(p, kind)
  <2>1. PICK kind \in {"NewWorkers", "FailedWorkers"} : HandleWorkers(p, kind)
    BY <1>4
  <2>2. CASE leader[p] = None
    BY <1>2, <2>1, <2>2 DEF HandleWorkers
  <2>3. CASE leader[p] # None
    BY <1>4, <2>1, <2>3 DEF HandleWorkers, Arrives, Free
  <2> QED
    BY <2>2, <2>3
<1>5. CASE \E c \in Changes : Request(p, c)
  BY <1>5 DEF Request, Free
<1>6. CASE Committed(p)
  <2>1. \/ task' = [task EXCEPT ![p] = None] /\ Becomes(p, "leader", Idle)
        \/ \E how \in {"down", "lost"} : Down(p, how)
    BY <1>6 DEF Committed
  <2>2. task' = [task EXCEPT ![p] = None] /\ Becomes(p, "leader", Idle) =>
          task'[p] = None /\ updates'[p]["leader"].stage = "idle"
    BY <1>1, SMTT(30) DEF Becomes, Idle
  <2> QED
    BY <1>2, <2>1, <2>2
<1>7. CASE BecomeLeader(p) \/ Heartbeat(p) \/ Crash(p) \/ Elected(p)
  <2>1. UNCHANGED task \/ \E how \in {"down", "lost"} : Down(p, how)
    BY <1>7 DEF BecomeLeader, Heartbeat, Crash, Elected
  <2> QED
    BY <1>2, <1>3, <2>1
<1>8. CASE \/ Start(p) \/ (\E b \in BOOLEAN : GetLeader(p, b)) \/ Stop(p)
           \/ (\E b \in BOOLEAN : ReadBack(p, b)) \/ (\E t \in Threads : Updating(p, t))
           \/ update_worker_state(p) \/ HandleWonLeaderElection(p) \/ Surrender(p)
           \/ UNCHANGED serverVars
  <2>1. UNCHANGED task
    BY <1>8 DEF Start, GetLeader, Stop, ReadBack, Updating, update_worker_state,
         HandleWonLeaderElection, Surrender, serverVars
  <2> QED
    BY <1>3, <2>1
<1> QED
  BY <1>4, <1>5, <1>6, <1>7, <1>8 DEF Step

\* A change is acknowledged when the commit that holds it has returned.
LEMMA AckedStep ==
  ASSUME Types, Tasks, NEW p \in Servers, Step(p)
  PROVE  \/ acked' = acked
         \/ /\ updates[p]["leader"].stage = "returned"
            /\ acked' \subseteq acked \cup task[p].state
<1>1. CASE Committed(p)
  BY <1>1 DEF Committed
<1>2. CASE ~Committed(p)
  <2>1. ~Committed(p) /\ Step(p)
    BY <1>2
  <2>2. CASE \/ Start(p) \/ (\E b \in BOOLEAN : GetLeader(p, b)) \/ Stop(p)
             \/ (\E b \in BOOLEAN : ReadBack(p, b)) \/ (\E t \in Threads : Updating(p, t))
             \/ update_worker_state(p) \/ HandleWonLeaderElection(p) \/ Surrender(p)
             \/ UNCHANGED serverVars
    BY <2>2 DEF Start, GetLeader, Stop, ReadBack, Updating, update_worker_state,
         HandleWonLeaderElection, Surrender, serverVars
  <2>3. CASE \/ BecomeLeader(p) \/ Heartbeat(p) \/ Crash(p) \/ Elected(p)
             \/ (\E kind \in {"NewWorkers", "FailedWorkers"} : HandleWorkers(p, kind))
             \/ \E c \in Changes : Request(p, c)
    BY <2>3 DEF BecomeLeader, Heartbeat, Crash, Elected, HandleWorkers, Request
  <2> QED
    BY <2>1, <2>2, <2>3 DEF Step
<1> QED
  BY <1>1, <1>2

\* A call begins with the state that is to be committed, or with none.
LEMMA CheckStep ==
  ASSUME Types, Tasks, NEW p \in Servers, Step(p), NEW r \in Threads,
         updates'[p][r].stage = "check"
  PROVE  \/ updates'[p][r] = updates[p][r]
         \/ r = "leader" /\ updates'[p][r].asked = task'[p].state
         \/ r = "authority" /\ updates'[p][r].asked = None
<1>1. /\ updates \in [Servers -> [Threads -> Update]] /\ task \in [Servers -> Commit \cup {None}]
      /\ Threads = {"authority", "leader"}
  BY ControllerAssumption DEF Types, Calls, StoreTypes, ServerTypes
<1>2. \A how \in {"down", "lost"} : ~Down(p, how)
  BY <1>1, DownOnly, SMTT(30) DEF Idle
<1>3. CASE UNCHANGED updates
  BY <1>3
<1>4. ASSUME NEW t \in Threads, NEW u, Becomes(p, t, u)
      PROVE  /\ t = r => updates'[p][r] = u
             /\ t # r => updates'[p][r] = updates[p][r]
  BY <1>1, <1>4 DEF Becomes
<1>5. \A a : Begin(a).asked = a
  BY DEF Begin
<1>6. Idle.stage # "check" /\ RequestFailed.stage # "check"
  BY DEF Idle, RequestFailed
<1>7. ASSUME NEW t \in Threads, Updating(p, t) PROVE updates'[p][r] = updates[p][r]
  <2>1. update_controller_state(p, t)
    BY <1>7 DEF Updating
  <2>2. t # r
    BY <2>1, CallStages DEF Types
  <2> QED
    BY <2>1, <2>2, CallTypes DEF Types
<1>8. ASSUME NEW b \in BOOLEAN, ReadBack(p, b)
      PROVE  updates'[p][r] = updates[p][r] \/ (r = "authority" /\ updates'[p][r].asked = None)
  <2>1. UNCHANGED updates \/ Becomes(p, "authority", Begin(None))
    BY <1>8 DEF ReadBack
  <2> QED
    BY <1>1, <1>4, <1>5, <2>1
<1>9. ASSUME NEW s, Becomes(p, "leader", Begin(s)), NEW d, d.state = s,
             task' = [task EXCEPT ![p] = d]
      PROVE  \/ updates'[p][r] = updates[p][r]
             \/ r = "leader" /\ updates'[p][r].asked = task'[p].state
  <2>1. task'[p] = d
    BY <1>1, <1>9
  <2> QED
    BY <1>1, <1>4, <1>5, <1>9, <2>1, SMTT(30)
<1>10. ASSUME NEW kind \in {"NewWorkers", "FailedWorkers"}, HandleWorkers(p, kind)
       PROVE  \/ updates'[p][r] = updates[p][r]
              \/ r = "leader" /\ updates'[p][r].asked = task'[p].state
  <2>1. PICK ws :
          /\ task' = [task EXCEPT ![p] = [kind |-> "workers", state |-> leader[p].state,
                                          workers |-> ws]]
          /\ Becomes(p, "leader", Begin(leader[p].state))
    BY <1>2, <1>10 DEF HandleWorkers
  <2> QED
    BY <1>9, <2>1
<1>11. ASSUME NEW c \in Changes, Request(p, c)
       PROVE  \/ updates'[p][r] = updates[p][r]
              \/ r = "leader" /\ updates'[p][r].asked = task'[p].state
  <2>1. /\ task' = [task EXCEPT ![p] = [kind |-> "request", state |-> leader[p].state \cup {c},
                                        workers |-> leader[p].workers]]
        /\ Becomes(p, "leader", Begin(leader[p].state \cup {c}))
    BY <1>11 DEF Request
  <2> QED
    BY <1>9, <2>1
<1>12. CASE Elected(p) \/ Committed(p) \/ Stop(p) \/ RequestFails(p, "leader")
  <2>1. \E t \in Threads : Becomes(p, t, Idle) \/ Becomes(p, t, RequestFailed)
    BY <1>1, <1>2, <1>12 DEF Elected, Committed, Stop, RequestFails
  <2> QED
    BY <1>4, <1>6, <2>1
<1>13. CASE \/ Start(p) \/ (\E b \in BOOLEAN : GetLeader(p, b)) \/ update_worker_state(p)
            \/ HandleWonLeaderElection(p) \/ Surrender(p) \/ Expire(p)
  BY <1>3, <1>13 DEF Start, register_worker, GetLeader, update_worker_state,
       HandleWonLeaderElection, Surrender, Expire, authorityVars
<1>14. CASE BecomeLeader(p) \/ Heartbeat(p) \/ Crash(p)
  <2>1. UNCHANGED updates
    BY <1>2, <1>14 DEF BecomeLeader, Heartbeat, Crash, authorityVars
  <2> QED
    BY <1>3, <2>1
<1> QED
  BY <1>7, <1>8, <1>10, <1>11, <1>12, <1>13, <1>14 DEF Step

\* The leader thread stores what it holds, and an election what it read.
LEMMA CommitsStep ==
  ASSUME Types, Tasks, Commits, NEW p \in Servers, Step(p)
  PROVE  Commits'
<1>1. /\ "authority" \in Threads /\ "leader" \in Threads /\ Tasks'
      /\ task \in [Servers -> Commit \cup {None}]
  BY ControllerAssumption, TasksStep DEF Types, Calls, ServerTypes
<1>2. ASSUME NEW q \in Servers, q # p PROVE CommitsOf(q)'
  <2>1. UNCHANGED <<updates[q], task[q]>>
    BY <1>2, StepTypes DEF Own
  <2> QED
    BY <1>2, <2>1 DEF Commits, CommitsOf
<1>3. CommitsOf(p)'
  <2> DEFINE u == updates[p]["leader"]
             w == updates'[p]["leader"]
             a == updates[p]["authority"]
             b == updates'[p]["authority"]
  <2>1. CommitsOf(p) /\ TasksOf(p)
    BY DEF Commits, Tasks
  <2>2. ASSUME w.stage \in {"check", "value", "read", "write", "set", "returned"}
        PROVE  /\ w.stage \in {"check", "value", "read"} => w.asked = task'[p].state
               /\ w.stage \in {"write", "set", "returned"} => w.state = task'[p].state
    <3>1. CASE w = u
      <4>1. task[p] # None
        BY <2>1, <2>2, <3>1 DEF TasksOf
      <4>2. task'[p] = task[p]
        BY <2>2, <4>1, TaskStep
      <4> QED
        BY <2>1, <3>1, <4>2 DEF CommitsOf
    <3>2. CASE Updating(p, "leader")
      <4>1. update_controller_state(p, "leader") /\ task' = task
        BY <3>2 DEF Updating, serverVars
      <4>2. u.stage \in {"check", "value", "read", "write", "set"} /\ w.stage # "check"
        BY <1>1, <4>1, CallStages DEF Types
      <4>3. /\ w.stage \in {"value", "read"} =>
                 u.stage \in {"check", "value", "read"} /\ w.asked = u.asked
            /\ w.stage \in {"write", "set", "returned"} =>
                 \/ u.stage \in {"write", "set"} /\ w.state = u.state
                 \/ u.stage \in {"value", "read"} /\ (u.asked # None => w.state = u.asked)
        BY <1>1, <4>1, CallStates DEF Types
      <4>4. task[p].state # None
        <5>1. task[p] \in Commit
          BY <1>1, <2>1, <4>2 DEF TasksOf
        <5> QED
          BY <5>1, NoneAssumption DEF Commit
      <4> QED
        BY <2>1, <4>1, <4>2, <4>3, <4>4 DEF CommitsOf
    <3>3. CASE w # u /\ ~Updating(p, "leader")
      <4>1. w.stage = "check"
        BY <1>1, <2>2, <3>3, UpdatesStep, SMTT(30)
      <4>2. w.asked = task'[p].state
        BY <1>1, <3>3, <4>1, CheckStep
      <4> QED
        BY <4>1, <4>2
    <3> QED
      BY <3>1, <3>2, <3>3
  <2>3. ASSUME b.stage \in {"check", "value", "read"}
        PROVE  b.asked = None
    <3>1. CASE b = a
      BY <2>1, <2>3, <3>1 DEF CommitsOf
    <3>2. CASE Updating(p, "authority")
      <4>1. update_controller_state(p, "authority")
        BY <3>2 DEF Updating
      <4>2. b.stage # "check"
        BY <1>1, <4>1, CallStages DEF Types
      <4>3. a.stage \in {"check", "value", "read"} /\ b.asked = a.asked
        BY <1>1, <2>3, <4>1, <4>2, CallStates DEF Types
      <4> QED
        BY <2>1, <4>3 DEF CommitsOf
    <3>3. CASE b # a /\ ~Updating(p, "authority")
      <4>1. b.stage = "check"
        BY <1>1, <2>3, <3>3, UpdatesStep, SMTT(30)
      <4> QED
        BY <1>1, <3>3, <4>1, CheckStep
    <3> QED
      BY <3>1, <3>2, <3>3
  <2> QED
    BY <2>2, <2>3 DEF CommitsOf
<1> QED
  BY <1>2, <1>3 DEF Commits

\* Promises grow only when a live server's commit reaches the state key, and
\* then all that was committed is stored.
LEMMA PromisedStep ==
  ASSUME RInv, Commits, NEW p \in Servers, Step(p)
  PROVE  \/ Promised' \subseteq Promised
         \/ /\ Promised' \subseteq Promised \cup task[p].state
            /\ p \in live /\ updates[p]["leader"].stage = "set"
            /\ Stored' = task[p].state
            /\ updates'[p]["leader"].stage = "returned"
            /\ UNCHANGED <<live, serverVars>> /\ updates'[p]["authority"] = updates[p]["authority"]
<1>1. /\ Types /\ Tasks /\ TasksOf(p) /\ CommitsOf(p) /\ WritesElsewhere
      /\ "leader" \in Threads /\ "authority" \in Threads
  BY ControllerAssumption DEF RInv, KInv, Tasks, Commits
<1>2. \A x : x \in Promised <=>
        x \in acked \/ \E q \in Servers : updates[q]["leader"].stage = "returned"
                                          /\ x \in task[q].state
  BY DEF Promised
<1>3. \A x : x \in Promised' <=>
        x \in acked' \/ \E q \in Servers : updates'[q]["leader"].stage = "returned"
                                           /\ x \in task'[q].state
  BY DEF Promised
<1>4. \A q \in Servers \ {p} : UNCHANGED <<updates[q], task[q]>>
  BY <1>1, StepTypes DEF Own
<1>5. acked' \subseteq Promised
  BY <1>1, <1>2, AckedStep
<1>6. CASE Updating(p, "leader") /\ updates'[p]["leader"].stage = "returned"
  <2>1. update_controller_state(p, "leader") /\ UNCHANGED serverVars
    BY <1>6 DEF Updating
  <2>2. /\ updates[p]["leader"].stage = "set" /\ p \in live
        /\ state'.value = updates[p]["leader"].value /\ UNCHANGED chunks
    BY <1>1, <1>6, <2>1, CallStates DEF Types
  <2>3. Stored' = updates[p]["leader"].state
    BY <1>1, <2>2, SetStored DEF Types, WritesElsewhere
  <2>4. updates[p]["leader"].state = task[p].state
    BY <1>1, <2>2 DEF CommitsOf
  <2>5. UNCHANGED live /\ updates'[p]["authority"] = updates[p]["authority"]
    BY <1>1, <2>1, CallStages, CallTypes, SMTT(30) DEF Types
  <2>6. task' = task
    BY <2>1 DEF serverVars
  <2>7. Promised' \subseteq Promised \cup task[p].state
    BY <1>2, <1>3, <1>4, <1>5, <2>6
  <2> QED
    BY <1>6, <2>1, <2>2, <2>3, <2>4, <2>5, <2>7
<1>7. CASE ~(Updating(p, "leader") /\ updates'[p]["leader"].stage = "returned")
  <2>1. updates'[p]["leader"].stage = "returned" =>
          updates[p]["leader"].stage = "returned" /\ task'[p] = task[p]
    <3>1. SUFFICES ASSUME updates'[p]["leader"].stage = "returned"
                   PROVE  updates[p]["leader"].stage = "returned" /\ task'[p] = task[p]
      OBVIOUS
    <3>2. updates'[p]["leader"] = updates[p]["leader"]
      BY <1>1, <1>7, <3>1, UpdatesStep
    <3>3. task[p] # None
      BY <1>1, <3>1, <3>2 DEF TasksOf
    <3> QED
      BY <1>1, <3>1, <3>2, <3>3, TaskStep
  <2> QED
    BY <1>2, <1>3, <1>4, <1>5, <2>1
<1> QED
  BY <1>6, <1>7

\* What a Leader holds after a step: what it held, what an election read, or
\* what it has committed.
LEMMA LeaderStep ==
  ASSUME Types, Tasks, NEW p \in Servers, Step(p), leader'[p] # None,
         updates'[p]["leader"].stage # "returned"
  PROVE  \/ leader[p] # None /\ leader'[p] = leader[p] /\ updates[p]["leader"].stage # "returned"
         \/ Won(events[p], 1) /\ leader'[p].state = events[p][1].state
         \/ task[p] # None /\ leader'[p].state = task[p].state
<1>1. /\ leader \in [Servers -> LeaderState \cup {None}] /\ TasksOf(p)
      /\ events[p] \in Seq(Event) /\ "leader" \in Threads /\ "authority" \in Threads
  BY ControllerAssumption DEF Types, Calls, ServerTypes, Tasks
<1>2. \A how \in {"down", "lost"} : ~Down(p, how)
  BY DownOnly
<1>3. CASE HandleWonLeaderElection(p)
  <2>1. /\ events[p] # <<>> /\ Head(events[p]).kind = "WonLeaderElection"
        /\ leader' = [leader EXCEPT ![p] = [state |-> Head(events[p]).state, workers |-> {}]]
    BY <1>3 DEF HandleWonLeaderElection, Arrives
  <2>2. Won(events[p], 1) /\ Head(events[p]) = events[p][1]
    BY <1>1, <2>1, WonAfterTail
  <2>3. leader'[p] = [state |-> Head(events[p]).state, workers |-> {}]
    BY <1>1, <2>1
  <2> QED
    BY <2>2, <2>3, SMTT(30)
<1>4. CASE Committed(p)
  <2>1. CASE updates[p]["leader"].stage = "returned"
    <3>1. task[p] # None
      BY <1>1, <2>1 DEF TasksOf
    <3>2. leader' = [leader EXCEPT ![p] = [state |-> task[p].state, workers |-> task[p].workers]]
      BY <1>4, <2>1 DEF Committed
    <3>3. leader'[p] = [state |-> task[p].state, workers |-> task[p].workers]
      BY <1>1, <3>2
    <3> QED
      BY <3>1, <3>3, SMTT(30)
  <2>2. CASE updates[p]["leader"].stage # "returned"
    BY <1>2, <1>4, <2>2 DEF Committed
  <2> QED
    BY <2>1, <2>2
<1>5. ASSUME UNCHANGED leader, updates[p]["leader"].stage # "returned"
      PROVE  leader[p] # None /\ leader'[p] = leader[p]
  BY <1>5
<1>6. ASSUME UNCHANGED leader,
             updates'[p]["leader"] = updates[p]["leader"]
      PROVE  leader[p] # None /\ leader'[p] = leader[p] /\ updates[p]["leader"].stage # "returned"
  BY <1>6
<1>7. ASSUME NEW t \in Threads, Updating(p, t)
      PROVE  leader[p] # None /\ leader'[p] = leader[p] /\ updates[p]["leader"].stage # "returned"
  <2>1. UNCHANGED leader /\ update_controller_state(p, t)
    BY <1>7 DEF Updating, serverVars
  <2>2. CASE t = "leader"
    BY <1>5, <2>1, <2>2, CallStages DEF Types
  <2>3. CASE t # "leader"
    <3>1. updates'[p]["leader"] = updates[p]["leader"]
      BY <1>1, <2>1, <2>3, CallTypes DEF Types
    <3> QED
      BY <1>6, <2>1, <3>1
  <2> QED
    BY <2>2, <2>3
<1>8. CASE \/ (\E kind \in {"NewWorkers", "FailedWorkers"} : HandleWorkers(p, kind))
           \/ (\E c \in Changes : Request(p, c))
           \/ RequestFails(p, "leader") /\ UNCHANGED serverVars
  <2>1. UNCHANGED leader
    BY <1>2, <1>8 DEF HandleWorkers, Request, serverVars
  <2>2. task[p] = None \/ updates[p]["leader"].stage \in {"write", "set"}
    BY <1>8 DEF HandleWorkers, Request, Arrives, Free, RequestFails
  <2>3. updates[p]["leader"].stage # "returned"
    BY <1>1, <2>2 DEF TasksOf
  <2> QED
    BY <1>5, <2>1, <2>3
<1>9. ASSUME NEW u, Becomes(p, "authority", u)
      PROVE  updates'[p]["leader"] = updates[p]["leader"]
  BY <1>1, <1>9 DEF Becomes, Types, Calls, StoreTypes
<1>10. CASE Elected(p) \/ Stop(p) \/ (\E b \in BOOLEAN : ReadBack(p, b))
  <2>1. UNCHANGED leader /\ (UNCHANGED updates \/ \E u : Becomes(p, "authority", u))
    BY <1>2, <1>10 DEF Elected, Stop, ReadBack
  <2> QED
    BY <1>6, <1>9, <2>1
<1>11. CASE \/ Start(p) \/ (\E b \in BOOLEAN : GetLeader(p, b)) \/ update_worker_state(p)
            \/ Expire(p) /\ UNCHANGED serverVars
  BY <1>6, <1>11 DEF Start, register_worker, GetLeader, update_worker_state, Expire,
       authorityVars, serverVars
<1>12. CASE BecomeLeader(p) \/ Heartbeat(p) \/ Crash(p)
  <2>1. UNCHANGED <<updates, leader>>
    BY <1>2, <1>12 DEF BecomeLeader, Heartbeat, Crash, authorityVars
  <2> QED
    BY <1>6, <2>1
<1>13. ~Surrender(p)
  BY <1>1 DEF Surrender
<1> QED
  BY <1>3, <1>4, <1>7, <1>8, <1>10, <1>11, <1>12, <1>13 DEF Step

\* Whatever a server that is not taking the step may store, it keeps.
LEMMA OthersKeep ==
  ASSUME AInv, NEW p \in Servers, Step(p), NEW q \in live, q # p, Promised' \subseteq Promised
  PROVE  KeepsOf(q)'
<1>1. /\ Types /\ Tasks /\ KInv /\ LeadsOnce /\ q \in Servers /\ KeepsOf(q)
      /\ "authority" \in Threads
  BY ControllerAssumption DEF AInv, RInv, KInv, Types, Calls, StoreTypes, Keeps
<1>2. UNCHANGED <<updates[q], events[q], leader[q], task[q]>>
  BY <1>1, StepTypes DEF Own
<1>3. ASSUME updates[q]["authority"].stage = "read" PROVE Stored' = Stored
  <2>1. SUFFICES ASSUME NEW t \in Threads, p \in live, updates[p][t].stage = "set" PROVE FALSE
    BY StoredStep DEF AInv
  <2> QED
    BY <1>1, <1>3, <2>1, OneCall
<1> QED
  BY <1>1, <1>2, <1>3 DEF KeepsOf

\* The server that takes the step keeps what was promised in what it holds.
LEMMA HoldersKeep ==
  ASSUME AInv, NEW p \in Servers, Step(p), p \in live, Promised' \subseteq Promised
  PROVE  /\ leader'[p] # None /\ updates'[p]["leader"].stage # "returned" =>
              Promised' \subseteq leader'[p].state
         /\ task'[p] # None => Promised' \subseteq task'[p].state
         /\ \A i \in Nat : Won(events'[p], i) => Promised' \subseteq events'[p][i].state
<1>1. /\ Types /\ Tasks /\ KeepsOf(p) /\ TasksOf(p) /\ events[p] \in Seq(Event)
      /\ task \in [Servers -> Commit \cup {None}] /\ events \in [Servers -> Seq(Event)]
  BY DEF AInv, RInv, KInv, Types, ServerTypes, Tasks, Keeps
<1>2. ASSUME leader'[p] # None, updates'[p]["leader"].stage # "returned"
      PROVE  Promised \subseteq leader'[p].state
  BY <1>1, <1>2, LeaderStep DEF KeepsOf
<1>3. ASSUME task'[p] # None
      PROVE  Promised \subseteq task'[p].state
  <2>1. CASE task'[p] = task[p]
    BY <1>1, <1>3, <2>1 DEF KeepsOf
  <2>2. CASE task'[p] # task[p]
    <3>1. /\ task[p] = None /\ leader[p] # None
          /\ \/ \E kind \in {"NewWorkers", "FailedWorkers"} : HandleWorkers(p, kind)
             \/ \E c \in Changes : Request(p, c)
      BY <1>1, <1>3, <2>2, TaskStep
    <3>2. \E s : task'[p].state = s /\ leader[p].state \subseteq s
      <4>1. ASSUME NEW kind, HandleWorkers(p, kind)
            PROVE  task'[p].state = leader[p].state
        <5>1. PICK ws : task' = [task EXCEPT ![p] =
                [kind |-> "workers", state |-> leader[p].state, workers |-> ws]]
          BY <3>1, <4>1 DEF HandleWorkers
        <5>2. task'[p] = [kind |-> "workers", state |-> leader[p].state, workers |-> ws]
          BY <1>1, <5>1
        <5> QED
          BY <5>2, SMTT(30)
      <4>2. ASSUME NEW c, Request(p, c)
            PROVE  task'[p].state = leader[p].state \cup {c}
        <5>1. task' = [task EXCEPT ![p] =
                [kind |-> "request", state |-> leader[p].state \cup {c},
                 workers |-> leader[p].workers]]
          BY <4>2 DEF Request
        <5>2. task'[p] = [kind |-> "request", state |-> leader[p].state \cup {c},
                          workers |-> leader[p].workers]
          BY <1>1, <5>1
        <5>3. \A r, ws : [kind |-> "request", state |-> r, workers |-> ws].state = r
          OBVIOUS
        <5> QED
          BY <5>2, <5>3
      <4> QED
        BY <3>1, <4>1, <4>2
    <3>3. Promised \subseteq leader[p].state
      BY <1>1, <3>1 DEF KeepsOf, TasksOf
    <3> QED
      BY <3>2, <3>3
  <2> QED
    BY <2>1, <2>2
<1>4. ASSUME NEW i \in Nat, Won(events'[p], i)
      PROVE  Promised \subseteq events'[p][i].state
  <2>1. \A j \in Nat : Won(events[p], j) => Promised \subseteq events[p][j].state
    BY <1>1 DEF KeepsOf
  <2>2. CASE Elected(p)
    <3> DEFINE s == updates[p]["authority"].state
    <3>1. \A j : ~Won(<<>>, j)
      BY NothingWon
    <3>2. ~Down(p, "down") /\ ~Down(p, "lost")
      BY <1>1, <1>4, <3>1, DownOnly
    <3>3. /\ updates[p]["authority"].stage = "returned"
          /\ events' = [events EXCEPT ![p] = @ \o <<WonLeaderElection(s)>>]
      BY <2>2, <3>2 DEF Elected, Sends
    <3>4. s \in States /\ Promised \subseteq s
      <4>1. updates[p]["authority"] \in Update
        BY <1>1, ControllerAssumption, SMTT(30) DEF Types, Calls, StoreTypes
      <4>2. updates[p]["authority"] \in Ended
        BY <3>3, <4>1, Stages
      <4> QED
        BY <1>1, <3>3, <4>2 DEF Ended, KeepsOf
    <3> HIDE DEF s
    <3>5. events'[p] = events[p] \o <<WonLeaderElection(s)>>
      BY <1>1, <3>3
    <3>6. \/ Won(events[p], i) /\ events'[p][i] = events[p][i]
          \/ events'[p][i] = WonLeaderElection(s)
      BY <1>1, <1>4, <3>4, <3>5, WonAfterElection
    <3>7. WonLeaderElection(s).state = s
      BY DEF WonLeaderElection
    <3> QED
      BY <2>1, <3>4, <3>6, <3>7
  <2>3. CASE ~Elected(p)
    <3>1. \A j : ~Won(<<>>, j)
      BY NothingWon
    <3>2. \/ Won(events[p], i) /\ events'[p][i] = events[p][i]
          \/ Won(events[p], i + 1) /\ events'[p][i] = events[p][i + 1]
      BY <1>1, <1>4, <2>3, <3>1, EventsStep
    <3>3. i + 1 \in Nat
      BY SMTT(30)
    <3> QED
      BY <2>1, <3>2, <3>3
  <2> QED
    BY <2>2, <2>3
<1> QED
  BY <1>2, <1>3, <1>4

\* An election that reads the state keeps what was promised.
LEMMA ElectionKeeps ==
  ASSUME AInv, NEW p \in Servers, Step(p), p \in live, Promised' \subseteq Promised
  PROVE  LET a == updates'[p]["authority"] IN
         /\ a.stage \in {"write", "set", "returned"} => Promised' \subseteq a.state
         /\ a.stage = "read" => a.seen \subseteq {Stored'}
<1> DEFINE a == updates[p]["authority"]
           b == updates'[p]["authority"]
<1>1. /\ Types /\ Tasks /\ KInv /\ LeadsOnce /\ KeepsOf(p) /\ CommitsOf(p) /\ RInv
      /\ Readable /\ Elsewhere(a) /\ Promised \subseteq Stored
      /\ "authority" \in Threads
  BY ControllerAssumption DEF AInv, RInv, KInv, Keeps, Commits, WritesElsewhere
<1>2. CASE Updating(p, "authority")
  <2>1. update_controller_state(p, "authority")
    BY <1>2 DEF Updating
  <2>2. CASE a.stage \in {"value", "read"}
    <3>1. a.asked = None /\ (a.stage = "read" => a.seen \subseteq {Stored})
      BY <1>1, <2>2 DEF CommitsOf, KeepsOf
    <3>2. /\ b.stage = "read" => b.seen \subseteq {Stored}
          /\ b.stage \in {"write", "set"} => b.state = Stored
          /\ UNCHANGED store
      BY <1>1, <2>1, <2>2, <3>1, ReadsStored
    <3>3. Stored' = Stored
      BY <3>2 DEF store, Stored
    <3>4. b.stage # "returned"
      BY <1>1, <2>1, <2>2, CallStates DEF Types
    <3> QED
      BY <1>1, <3>2, <3>3, <3>4
  <2>3. CASE a.stage \notin {"value", "read"}
    <3>1. a.stage \in {"check", "write", "set"}
      BY <1>1, <2>1, <2>3, CallStages DEF Types
    <3>2. b.stage \in {"write", "set", "returned"} =>
            a.stage \in {"write", "set"} /\ b.state = a.state
      BY <1>1, <2>1, <2>3, CallStates DEF Types
    <3>3. b.stage # "read"
      BY <1>1, <2>1, <3>1, CallStates DEF Types
    <3> QED
      BY <1>1, <3>2, <3>3 DEF KeepsOf
  <2> QED
    BY <2>2, <2>3
<1>3. CASE ~Updating(p, "authority")
  <2>1. b = a \/ b.stage \in {"idle", "check", "failed"}
    BY <1>1, <1>3, UpdatesStep
  <2>2. ASSUME b = a, a.stage = "read" PROVE Stored' = Stored
    <3>1. SUFFICES ASSUME NEW t \in Threads, updates[p][t].stage = "set" PROVE FALSE
      BY <1>1, StoredStep
    <3>2. t = "authority"
      BY <1>1, <2>2, <3>1, OneCall
    <3> QED
      BY <2>2, <3>1, <3>2
  <2> QED
    BY <1>1, <2>1, <2>2 DEF KeepsOf
<1> QED
  BY <1>2, <1>3

\* When the commit of a live server reaches the state key, no other live server
\* leads, and what the server holds is what it has stored.
LEMMA CommitKeeps ==
  ASSUME AInv, NEW p \in live, Promised' \subseteq Promised \cup task[p].state,
         updates[p]["leader"].stage = "set", updates'[p]["leader"].stage = "returned",
         UNCHANGED <<live, serverVars>>,
         \A q \in Servers \ {p} : UNCHANGED Own(q),
         updates'[p]["authority"] = updates[p]["authority"], NEW q \in live
  PROVE  KeepsOf(q)' /\ Promised' \subseteq task[p].state
<1>1. /\ Types /\ Tasks /\ KInv /\ HoldsKey /\ LeadsOnce /\ KeepsOf(p) /\ TasksOf(p) /\ TasksOf(q)
      /\ LeadsOnceOf(p) /\ p \in Servers /\ q \in Servers
      /\ "leader" \in Threads /\ "authority" \in Threads
  BY ControllerAssumption DEF AInv, RInv, KInv, Tasks, Types, Calls, StoreTypes, Keeps, LeadsOnce
<1>2. task[p] # None /\ leader[p] # None
  BY <1>1 DEF TasksOf
<1>3. Promised' \subseteq task[p].state
  BY <1>1, <1>2 DEF KeepsOf
<1>4. events' = events /\ leader' = leader /\ task' = task
  BY DEF serverVars
<1>5. CASE q = p
  <2>1. \A i \in Nat : ~Won(events[p], i)
    BY <1>1, <1>2 DEF LeadsOnceOf, HasWon
  <2>2. updates[p]["authority"].stage = "idle"
    BY <1>1, OneCall
  <2>3. updates'[p]["authority"].stage \notin {"write", "set", "returned", "read"}
    BY <2>2
  <2>4. /\ updates'[p]["leader"].stage = "returned" /\ Promised' \subseteq task'[p].state
        /\ \A i \in Nat : ~Won(events'[p], i)
    BY <1>3, <1>4, <2>1
  <2>5. KeepsOf(p)'
    BY <2>3, <2>4 DEF KeepsOf
  <2> QED
    BY <1>3, <1>5, <2>5
<1>6. CASE q # p
  <2>1. ~Leads(q)
    BY <1>1, <1>2, <1>6 DEF HoldsKey, Leads
  <2>2. leader[q] = None /\ task[q] = None /\ \A i \in Nat : ~Won(events[q], i)
    BY <1>1, <2>1 DEF Leads, HasWon, TasksOf
  <2>3. updates[q]["authority"].stage = "idle"
    BY <1>1, <2>1, CallLeads
  <2>4. updates'[q] = updates[q]
    BY <1>1, <1>6 DEF Own
  <2>5. /\ leader'[q] = None /\ task'[q] = None /\ updates'[q]["authority"].stage = "idle"
        /\ \A i \in Nat : ~Won(events'[q], i)
    BY <1>4, <2>2, <2>3, <2>4
  <2>6. updates'[q]["authority"].stage \notin {"write", "set", "returned", "read"}
    BY <2>5
  <2> QED
    BY <1>3, <2>5, <2>6 DEF KeepsOf
<1> QED
  BY <1>3, <1>5, <1>6

\* What was promised stays in what is stored, and in whatever a live server may
\* still store.
LEMMA KeepsStep ==
  ASSUME AInv, NEW p \in Servers, Step(p)
  PROVE  Keeps' /\ (Promised \subseteq Stored)'
<1>1. /\ Types /\ Tasks /\ KInv /\ RInv /\ Commits /\ Keeps /\ Promised \subseteq Stored
      /\ TasksOf(p) /\ CommitsOf(p) /\ Threads = {"authority", "leader"}
  BY ControllerAssumption DEF AInv, RInv, KInv, Tasks, Commits
<1>2. CASE Promised' \subseteq Promised
  <2>1. ASSUME NEW q \in live' PROVE KeepsOf(q)'
    <3>1. CASE q # p
      BY <1>1, <1>2, <2>1, <3>1, KeyStep, OthersKeep
    <3>2. CASE q = p /\ p \in live
      <4>1. KeepsOf(p)'
        BY <1>2, <3>2, HoldersKeep, ElectionKeeps DEF KeepsOf
      <4> QED
        BY <3>2, <4>1
    <3>3. CASE q = p /\ Start(p)
      <4>1. status[p] = "new" /\ UNCHANGED <<events, leader, task, updates>>
        BY <3>3 DEF Start, register_worker
      <4>2. /\ leader[p] = None /\ task[p] = None /\ events[p] = <<>>
            /\ updates[p]["authority"].stage = "idle"
        BY <1>1, <4>1 DEF TasksOf
      <4>3. \A i \in Nat : ~Won(events[p], i)
        BY <4>2, NothingWon
      <4> QED
        BY <3>3, <4>1, <4>2, <4>3 DEF KeepsOf
    <3> QED
      BY <1>1, <2>1, <3>1, <3>2, <3>3, KeyStep
  <2>2. CASE Stored' = Stored
    BY <1>1, <1>2, <2>1, <2>2 DEF Keeps
  <2>3. ASSUME NEW t \in Threads, p \in live, updates[p][t].stage = "set",
               Stored' = updates[p][t].state
        PROVE  Promised \subseteq Stored'
    <3>1. KeepsOf(p)
      BY <1>1, <2>3 DEF Keeps
    <3>2. CASE t = "authority"
      BY <2>3, <3>1, <3>2 DEF KeepsOf
    <3>3. CASE t = "leader"
      <4>1. task[p] # None /\ updates[p]["leader"].state = task[p].state
        BY <1>1, <2>3, <3>3 DEF TasksOf, CommitsOf
      <4> QED
        BY <2>3, <3>1, <3>3, <4>1 DEF KeepsOf
    <3> QED
      BY <1>1, <3>2, <3>3
  <2>4. Promised \subseteq Stored'
    BY <1>1, <2>2, <2>3, StoredStep
  <2> QED
    BY <1>2, <2>1, <2>4 DEF Keeps
<1>3. CASE /\ Promised' \subseteq Promised \cup task[p].state
           /\ p \in live /\ updates[p]["leader"].stage = "set"
           /\ Stored' = task[p].state
           /\ updates'[p]["leader"].stage = "returned"
           /\ UNCHANGED <<live, serverVars>> /\ updates'[p]["authority"] = updates[p]["authority"]
  <2>1. \A q \in Servers \ {p} : UNCHANGED Own(q)
    BY <1>1, StepTypes
  <2>2. \A q \in live : KeepsOf(q)' /\ Promised' \subseteq task[p].state
    BY <1>3, <2>1, CommitKeeps
  <2> QED
    BY <1>3, <2>2 DEF Keeps
<1> QED
  BY <1>1, <1>2, <1>3, PromisedStep

\* Nothing is promised or stored at the start.
LEMMA AInvInit ==
  ASSUME Init PROVE AInv
<1>1. RInv
  BY RInvInit
<1>2. /\ live = {} /\ state.value = None /\ acked = {}
      /\ updates = [p \in Servers |-> [t \in Threads |-> Idle]]
  BY DEF Init, AuthorityInit
<1>3. ASSUME NEW p \in Servers, NEW t \in Threads PROVE updates[p][t].stage = "idle"
  BY <1>2, RestingTypes
<1>4. Commits
  BY <1>3, ControllerAssumption DEF Commits, CommitsOf
<1>5. Promised = {}
  BY <1>2, <1>3, ControllerAssumption DEF Promised
<1> QED
  BY <1>1, <1>2, <1>4, <1>5 DEF AInv, Keeps

\* Every step keeps it, unless a leader takes the failed read of its own key for
\* an absent leader.
LEMMA AInvInductive ==
  ASSUME AInv, ~misread', [Next]_vars PROVE AInv'
<1>1. RInv'
  BY RInvInductive DEF AInv
<1>2. CASE Next
  <2>1. PICK p \in Servers : Step(p)
    BY <1>2, NextIsStep
  <2>2. Commits'
    BY <2>1, CommitsStep DEF AInv, RInv, KInv
  <2> QED
    BY <1>1, <2>1, <2>2, KeepsStep DEF AInv
<1>3. CASE UNCHANGED vars
  <2>1. UNCHANGED <<live, state, chunks, updates, events, leader, task, acked>>
    BY <1>3 DEF vars, authorityVars, serverVars
  <2>2. Promised' = Promised /\ Stored' = Stored
    BY <2>1 DEF Promised, Stored
  <2>3. Commits'
    BY <2>1 DEF AInv, Commits, CommitsOf
  <2>4. Keeps'
    BY <2>1, <2>2 DEF AInv, Keeps, KeepsOf, Won
  <2> QED
    BY <1>1, <2>2, <2>3, <2>4 DEF AInv
<1> QED
  BY <1>2, <1>3

\* Every change whose request was answered is in the stored controller state
\* for good, for any number of servers, changes and chunks, whatever servers
\* crash, lose their session or take over in the middle of an update, and
\* whatever requests fail, until a leader takes the failed read of its own key
\* for an absent leader, as AcknowledgedIsDurable says.
THEOREM AcknowledgedStaysStored == Spec => []AcknowledgedIsDurable
<1> DEFINE Inv == KInv /\ (misread \/ AInv)
<1>1. ASSUME Inv, [Next]_vars PROVE Inv'
  <2>1. KInv'
    BY <1>1, KInvInductive
  <2>2. misread' \/ AInv'
    BY <1>1, MisreadStays, AInvInductive
  <2> QED
    BY <2>1, <2>2
<1>2. Inv => AcknowledgedIsDurable
  BY DEF AInv, Promised, AcknowledgedIsDurable
<1>3. Init => Inv
  BY KInvInit, AInvInit
<1> QED
  BY <1>1, <1>2, <1>3, PTL DEF Spec
=============================================================================
