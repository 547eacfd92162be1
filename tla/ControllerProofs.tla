-------------------------- MODULE ControllerProofs --------------------------
(***************************************************************************)
(* Proofs about Controller for any servers, changes and numbers of chunks, *)
(* and without bounds on faults: what a call of update_controller_state    *)
(* does, request by request; what the steps of one server leave alone, and *)
(* that every variable keeps its type; and that the leader key guards the  *)
(* controller state, which only the server whose session holds the key     *)
(* replaces.                                                               *)
(***************************************************************************)
EXTENDS Controller, TLAPS

\* Zenon proves the leaves that do not name the SMT solver.
USE ZenonT(30)

(* A call of update_controller_state: what each request answers, what it   *)
(* leaves of the types of the store, and where a call writes.              *)

States == SUBSET Changes
Sessions == Servers \cup {None}
Asked == States \cup {None}

\* The stages of a call of update_controller_state.
Checking == [stage : {"check", "value"}, asked : Asked]
Reading == [stage : {"read"}, asked : Asked, value : VersionValue,
            left : SUBSET ChunkIds, seen : SUBSET (States \cup {None})]
Writing == [stage : {"write"}, state : States, refused : SUBSET {"locked", "invalid"},
            left : SUBSET ChunkIds, value : VersionValue]
Setting == [stage : {"set"}, state : States, value : StateValue]
Ended == [stage : {"returned"}, state : States]
           \cup [stage : {"failed"}, error : {"WriteIssuedFromLostLeader", "RequestFailed"}]
Update == {Idle} \cup Checking \cup Reading \cup Writing \cup Setting \cup Ended

StoreTypes ==
  /\ live \in SUBSET Servers /\ registered \in SUBSET Servers
  /\ controller \in [session : Sessions, leader : Sessions, index : Nat]
  /\ state \in [session : Sessions, value : StateValue \cup {None}]
  /\ chunks \in [Versions \X ChunkIds -> [session : Sessions, value : States \cup {None}]]
  /\ updates \in [Servers -> [Threads -> Update]]

\* The chunks that a call has still to read or to write.
Remaining(u) ==
  /\ u.stage = "read" =>
       \E k \in Nat : k < u.value.num_chunks /\ u.left = k .. u.value.num_chunks - 1
  /\ u.stage = "write" =>
       /\ u.value.num_chunks = NumChunks[u.state]
       /\ u.left \subseteq ChunksOf(u.state)
  /\ u.stage = "set" /\ u.value.kind = "Version" =>
       u.value.num_chunks = NumChunks[u.state]

\* The store and the calls under way.
Calls == StoreTypes /\ \A p \in Servers, t \in Threads : Remaining(updates[p][t])

\* The version that a live leader writes is not the one in use, and what it
\* wrote of it, unless a write was refused, was cut from the new state.
Elsewhere(u) ==
  /\ u.stage = "read" => u.value = state.value
  /\ u.stage \in {"write", "set"} /\ u.value.kind = "Version" =>
       /\ state.value # None /\ state.value.kind = "Version" =>
            u.value.version # state.value.version
       /\ u.stage = "write" /\ u.refused = {} =>
            \A i \in ChunksOf(u.state) \ u.left : chunks[<<u.value.version, i>>].value = u.state
       /\ u.stage = "set" =>
            \A i \in ChunksOf(u.state) : chunks[<<u.value.version, i>>].value = u.state
  /\ u.stage = "set" /\ u.value.kind = "Data" => u.value.state = u.state

-----------------------------------------------------------------------------
(* Operators.                                                               *)

\* A number of chunks is positive, and chunks have the numbers below it.
LEMMA SizesType ==
  ASSUME NEW n \in Sizes
  PROVE  n \in Nat \ {0} /\ 0 .. n - 1 \subseteq ChunkIds
BY NumChunksAssumption DEF Sizes, ChunkIds

\* A state is cut into a number of chunks that Sizes lists.
LEMMA ChunksOfType ==
  ASSUME NEW s \in States
  PROVE  /\ NumChunks[s] \in Sizes
         /\ ChunksOf(s) \subseteq ChunkIds
         /\ 0 \in ChunksOf(s)
<1>1. NumChunks[s] \in Sizes
  BY DEF Sizes, States
<1> QED
  BY <1>1, SizesType, SMTT(30) DEF ChunksOf

\* An interval begins with its least number.
LEMMA MinOfInterval ==
  ASSUME NEW k \in Nat, NEW n \in Nat, k <= n
  PROVE  Min(k .. n) = k
<1>1. k \in k .. n /\ \A y \in k .. n : k <= y
  BY SMTT(30)
<1>2. ASSUME NEW x \in k .. n, \A y \in k .. n : x <= y PROVE x = k
  BY <1>1, <1>2, SMTT(30)
<1> QED
  BY <1>1, <1>2 DEF Min

\* What write_controller_state is about to do: it stores what was asked for, or
\* what was stored before, in the version that was not read.
LEMMA WriteStarts ==
  ASSUME NEW asked \in Asked, NEW stored \in Asked,
         NEW value \in VersionValue \cup {None}
  PROVE  LET u == Write(asked, stored, value) IN
         /\ u \in Writing \cup Setting
         /\ Remaining(u)
         /\ u.state = IF asked # None THEN asked ELSE IF stored = None THEN {} ELSE stored
         /\ u.stage = "write" =>
              /\ u.left = ChunksOf(u.state) /\ u.refused = {}
              /\ value # None => u.value.version # value.version
         /\ u.stage = "set" => u.value = Data(u.state)
<1> DEFINE s == IF asked # None THEN asked ELSE IF stored = None THEN {} ELSE stored
           v == IF value # None /\ value.kind = "Version"
                  THEN next_state_version(value.version) ELSE "0"
<1>1. s \in States
  BY DEF Asked, States
<1>2. NumChunks[s] \in Sizes /\ ChunksOf(s) \subseteq ChunkIds
  BY <1>1, ChunksOfType
<1>3. v \in Versions /\ (value # None => v # value.version)
  BY NoneAssumption DEF VersionValue, Versions, next_state_version
<1>4. Version(v, NumChunks[s]) \in VersionValue /\ Data(s) \in StateValue
  BY <1>1, <1>2, <1>3 DEF Version, Data, VersionValue, StateValue, States
<1> HIDE DEF s, v
<1>5. CASE NumChunks[s] = 1
  <2>1. Write(asked, stored, value) = [stage |-> "set", state |-> s, value |-> Data(s)]
    BY <1>5 DEF Write, s
  <2> QED
    BY <2>1, <1>1, <1>4, SMTT(30) DEF s, Setting, Remaining, Data
<1>6. CASE NumChunks[s] # 1
  <2>1. Write(asked, stored, value) =
          [stage |-> "write", state |-> s, refused |-> {}, left |-> ChunksOf(s),
           value |-> Version(v, NumChunks[s])]
    BY <1>6 DEF Write, s, v
  <2>2. Write(asked, stored, value) \in Writing
    BY <2>1, <1>1, <1>2, <1>4, SMTT(30) DEF Writing
  <2> QED
    BY <2>1, <2>2, <1>1, <1>3, SMTT(30) DEF s, Remaining, Version
<1> QED
  BY <1>5, <1>6
-----------------------------------------------------------------------------
(* One request of a call.                                                   *)

\* A call of update_controller_state goes on, and no other does.
LEMMA BecomesOnly ==
  ASSUME Calls, NEW p \in Servers, NEW t \in Threads,
         NEW u \in Update, Remaining(u), Becomes(p, t, u)
  PROVE  /\ updates' \in [Servers -> [Threads -> Update]]
         /\ \A q \in Servers, r \in Threads : Remaining(updates'[q][r])
         /\ updates'[p][t] = u
         /\ \A q \in Servers, r \in Threads :
              q # p \/ r # t => updates'[q][r] = updates[q][r]
<1>1. updates \in [Servers -> [Threads -> Update]]
  BY DEF Calls, StoreTypes
<1>2. updates' = [updates EXCEPT ![p][t] = u]
  BY DEF Becomes
<1>3. /\ updates' \in [Servers -> [Threads -> Update]]
      /\ updates'[p][t] = u
      /\ \A q \in Servers, r \in Threads :
           q # p \/ r # t => updates'[q][r] = updates[q][r]
  BY <1>1, <1>2
<1>4. \A q \in Servers, r \in Threads : Remaining(updates'[q][r])
  BY <1>3 DEF Calls
<1> QED
  BY <1>3, <1>4

\* A call that goes on becomes what Becomes says.
LEMMA BecomesIs ==
  ASSUME Calls, NEW p \in Servers, NEW t \in Threads
  PROVE  /\ updates[p][t] \in Update /\ Remaining(updates[p][t])
         /\ \A u : Becomes(p, t, u) =>
              /\ updates'[p][t] = u
              /\ \A q \in Servers, r \in Threads :
                   q # p \/ r # t => updates'[q][r] = updates[q][r]
<1>1. updates \in [Servers -> [Threads -> Update]]
  BY DEF Calls, StoreTypes
<1>2. updates[p][t] \in Update /\ Remaining(updates[p][t])
  BY <1>1 DEF Calls
<1>3. ASSUME NEW u, Becomes(p, t, u)
      PROVE  /\ updates'[p][t] = u
             /\ \A q \in Servers, r \in Threads :
                  q # p \/ r # t => updates'[q][r] = updates[q][r]
  BY <1>1, <1>3 DEF Becomes
<1> QED
  BY <1>2, <1>3

\* What ends without chunks to read or to write.
LEMMA RestingTypes ==
  /\ Idle \in Update /\ Remaining(Idle) /\ Idle.stage = "idle"
  /\ LostLeader \in Update /\ Remaining(LostLeader) /\ LostLeader.stage = "failed"
  /\ RequestFailed \in Update /\ Remaining(RequestFailed) /\ RequestFailed.stage = "failed"
  /\ \A s \in States : /\ Returned(s) \in Update /\ Remaining(Returned(s))
                       /\ Returned(s).stage = "returned" /\ Returned(s).state = s
  /\ \A a \in Asked : /\ Begin(a) \in Update /\ Remaining(Begin(a))
                      /\ Begin(a).stage = "check" /\ Begin(a).asked = a
BY DEF Idle, LostLeader, RequestFailed, Returned, Begin, Update, Ended, Checking, Remaining

\* The stage of a call says which fields it has.
LEMMA Stages ==
  ASSUME NEW u \in Update
  PROVE  /\ u.stage \in {"check", "value"} => u \in Checking
         /\ u.stage = "read" => u \in Reading
         /\ u.stage = "write" => u \in Writing
         /\ u.stage = "set" => u \in Setting
         /\ u.stage \in {"returned", "failed"} => u \in Ended
         /\ u.stage = "idle" => u = Idle
BY SMTT(30) DEF Update, Idle, Checking, Reading, Writing, Setting, Ended

\* The fields of a call, by what it is doing.
LEMMA Fields ==
  /\ \A u \in Checking : u \in Update /\ u.asked \in Asked
  /\ \A u \in Reading :
       u \in Update /\ u.stage = "read" /\ u.asked \in Asked /\ u.value \in VersionValue
  /\ \A u \in Writing :
       /\ u \in Update /\ u.stage = "write" /\ u.state \in States
       /\ u.value \in VersionValue /\ u.value.kind = "Version" /\ u.value.version \in Versions
  /\ \A u \in Setting : u \in Update /\ u.stage = "set" /\ u.state \in States
                        /\ u.value \in StateValue
<1>1. \A u \in Checking : u \in Update /\ u.asked \in Asked
  BY DEF Checking, Update
<1>2. \A u \in Reading :
        u \in Update /\ u.stage = "read" /\ u.asked \in Asked /\ u.value \in VersionValue
  BY DEF Reading, Update
<1>3. \A u \in Writing :
        u \in Update /\ u.stage = "write" /\ u.state \in States /\ u.value \in VersionValue
  BY DEF Writing, Update
<1>4. \A v \in VersionValue : v.kind = "Version" /\ v.version \in Versions
  BY DEF VersionValue
<1>5. \A u \in Setting : u \in Update /\ u.stage = "set" /\ u.state \in States
                         /\ u.value \in StateValue
  BY DEF Setting, Update
<1> QED
  BY <1>1, <1>2, <1>3, <1>4, <1>5

\* The chunk that get_controller_state reads next.
LEMMA NextChunk ==
  ASSUME NEW u \in Reading, Remaining(u)
  PROVE  LET i == Min(u.left) IN
         /\ i \in 0 .. u.value.num_chunks - 1 /\ i \in ChunkIds
         /\ u.left # {i} =>
              \E k \in Nat : k < u.value.num_chunks
                             /\ u.left \ {i} = k .. u.value.num_chunks - 1
<1>1. PICK k \in Nat : k < u.value.num_chunks /\ u.left = k .. u.value.num_chunks - 1
  BY DEF Reading, Remaining
<1> DEFINE n == u.value.num_chunks
<1>2. n \in Nat \ {0} /\ 0 .. n - 1 \subseteq ChunkIds
  BY SizesType DEF Reading, VersionValue
<1> HIDE DEF n
<1>3. k <= n - 1 /\ n - 1 \in Nat
  BY <1>1, <1>2, SMTT(30) DEF n
<1>4. Min(u.left) = k
  BY <1>1, <1>3, MinOfInterval DEF n
<1>5. ASSUME u.left # {k} PROVE k + 1 < n /\ u.left \ {k} = k + 1 .. n - 1
  <2>1. k # n - 1
    BY <1>1, <1>2, <1>5, SMTT(30) DEF n
  <2>2. u.left = k .. n - 1
    BY <1>1 DEF n
  <2> QED
    BY <1>2, <1>3, <2>1, <2>2, SMTT(30)
<1> QED
  BY <1>2, <1>3, <1>4, <1>5, SMTT(30) DEF n
\* The leader key is read: the call goes on, or the leadership is lost.
LEMMA CheckOutcome ==
  ASSUME Calls, NEW p \in Servers, NEW t \in Threads, CheckLeader(p, t)
  PROVE  /\ updates[p][t] \in Checking /\ updates[p][t].stage = "check" /\ UNCHANGED store
         /\ \/ updates'[p][t] = [stage |-> "value", asked |-> updates[p][t].asked]
            \/ updates'[p][t] = LostLeader
<1>1. /\ updates[p][t].stage = "check" /\ UNCHANGED store
      /\ \/ Becomes(p, t, [stage |-> "value", asked |-> updates[p][t].asked])
         \/ Becomes(p, t, LostLeader)
  BY DEF CheckLeader
<1>2. updates[p][t] \in Checking
  BY <1>1, BecomesIs, Stages
<1> QED
  BY <1>1, <1>2, BecomesIs, SMTT(30)

\* The state key is read: nothing is stored, or the state itself, or a version
\* whose chunks are to be read.
LEMMA ValueOutcome ==
  ASSUME Calls, NEW p \in Servers, NEW t \in Threads, get_controller_state_value(p, t)
  PROVE  LET u == updates[p][t]
             w == updates'[p][t]
         IN  /\ u \in Checking /\ u.stage = "value" /\ UNCHANGED store
             /\ \/ state.value = None /\ w = Write(u.asked, None, None)
                \/ /\ state.value # None /\ state.value.kind = "Data"
                   /\ state.value.state \in States
                   /\ w = Write(u.asked, state.value.state, None)
                \/ /\ state.value # None /\ state.value \in VersionValue
                   /\ w \in Reading /\ Remaining(w)
                   /\ w.asked = u.asked /\ w.value = state.value /\ w.seen = {}
<1> DEFINE u == updates[p][t]
           w == updates'[p][t]
<1>1. u.stage = "value" /\ UNCHANGED store
  BY DEF get_controller_state_value
<1>2. u \in Checking /\ u.asked \in Asked
  BY <1>1, BecomesIs, Stages, Fields
<1>3. state.value \in StateValue \cup {None}
  BY DEF Calls, StoreTypes
<1>4. CASE state.value = None
  <2>1. Becomes(p, t, Write(u.asked, None, None))
    BY <1>4 DEF get_controller_state_value
  <2> QED
    BY <1>1, <1>2, <1>4, <2>1, BecomesIs, SMTT(30)
<1>5. CASE state.value # None /\ state.value.kind = "Data"
  <2>1. Becomes(p, t, Write(u.asked, state.value.state, None))
    BY <1>5 DEF get_controller_state_value
  <2>2. state.value.state \in States
    BY <1>3, <1>5 DEF StateValue, VersionValue, States
  <2> QED
    BY <1>1, <1>2, <1>5, <2>1, <2>2, BecomesIs, SMTT(30)
<1>6. CASE state.value # None /\ state.value.kind # "Data"
  <2> DEFINE v == [stage |-> "read", asked |-> u.asked, value |-> state.value,
                   left |-> 0 .. state.value.num_chunks - 1, seen |-> {}]
  <2>1. Becomes(p, t, v)
    BY <1>6 DEF get_controller_state_value
  <2>2. state.value \in VersionValue /\ state.value.num_chunks \in Sizes
    BY <1>3, <1>6 DEF StateValue, VersionValue
  <2>3. 0 < state.value.num_chunks /\ 0 .. state.value.num_chunks - 1 \subseteq ChunkIds
    BY <2>2, SizesType, SMTT(30)
  <2>4. v \in Reading
    BY <1>2, <2>2, <2>3 DEF Reading
  <2>5. Remaining(v)
    BY <2>3 DEF Remaining
  <2>6. v.asked = u.asked /\ v.value = state.value /\ v.seen = {}
    OBVIOUS
  <2> HIDE DEF v
  <2>7. w = v
    BY <2>1, BecomesIs
  <2> QED
    BY <1>1, <1>2, <1>6, <2>2, <2>4, <2>5, <2>6, <2>7
<1> QED
  BY <1>4, <1>5, <1>6

\* A chunk is read: others are left, or the chunks are one state, or they are not.
LEMMA ReadOutcome ==
  ASSUME Calls, NEW p \in Servers, NEW t \in Threads, get_controller_state(p, t)
  PROVE  LET u == updates[p][t]
             w == updates'[p][t]
             seen == u.seen \cup {chunks[<<u.value.version, Min(u.left)>>].value}
         IN  /\ u \in Reading /\ u.stage = "read" /\ UNCHANGED store
             /\ Min(u.left) \in 0 .. u.value.num_chunks - 1
             /\ \/ /\ w \in Reading /\ Remaining(w)
                   /\ w.asked = u.asked /\ w.value = u.value /\ w.seen = seen
                \/ \E s \in seen : s \in States /\ w = Write(u.asked, s, u.value)
                \/ w = RequestFailed
<1> DEFINE u == updates[p][t]
           w == updates'[p][t]
           i == Min(u.left)
           seen == u.seen \cup {chunks[<<u.value.version, i>>].value}
<1>1. u.stage = "read" /\ UNCHANGED store
  BY DEF get_controller_state
<1>2. u \in Reading /\ Remaining(u)
  BY <1>1, BecomesIs, Stages
<1>3. /\ i \in 0 .. u.value.num_chunks - 1 /\ i \in ChunkIds
      /\ u.left # {i} => \E k \in Nat : /\ k < u.value.num_chunks
                                        /\ u.left \ {i} = k .. u.value.num_chunks - 1
  BY <1>2, NextChunk
<1>4. CASE u.left # {i}
  <2> DEFINE v == [u EXCEPT !.left = @ \ {i}, !.seen = seen]
  <2>1. Becomes(p, t, v)
    BY <1>4 DEF get_controller_state
  <2>2. seen \in SUBSET (States \cup {None})
    <3>1. <<u.value.version, i>> \in Versions \X ChunkIds
      BY <1>2, <1>3 DEF Reading, VersionValue
    <3>2. chunks[<<u.value.version, i>>] \in [session : Sessions, value : States \cup {None}]
      BY <3>1 DEF Calls, StoreTypes
    <3> QED
      BY <1>2, <3>2 DEF Reading
  <2> HIDE DEF i, seen
  <2>3. v \in Reading /\ v.left = u.left \ {i} /\ v.value = u.value /\ v.stage = "read"
        /\ v.asked = u.asked /\ v.seen = seen
    BY <1>2, <2>2 DEF Reading
  <2>4. Remaining(v)
    BY <1>3, <1>4, <2>3 DEF Remaining
  <2>5. w = v
    BY <2>1, BecomesIs, SMTT(30)
  <2> HIDE DEF v
  <2> QED
    BY <1>1, <1>2, <1>3, <2>3, <2>4, <2>5 DEF i, seen
<1>5. CASE u.left = {i} /\ Stitched(seen, u.value.num_chunks)
  <2> DEFINE s == CHOOSE x \in seen : TRUE
  <2>1. Becomes(p, t, Write(u.asked, s, u.value))
    BY <1>5 DEF get_controller_state
  <2>2. s \in seen /\ s \in States
    BY <1>5 DEF Stitched, States
  <2> HIDE DEF s
  <2>3. w = Write(u.asked, s, u.value)
    BY <2>1, BecomesIs, SMTT(30)
  <2> QED
    BY <1>1, <1>2, <1>3, <2>2, <2>3
<1>6. CASE u.left = {i} /\ ~Stitched(seen, u.value.num_chunks)
  <2>1. Becomes(p, t, RequestFailed)
    BY <1>6 DEF get_controller_state
  <2> QED
    BY <1>1, <1>2, <1>3, <2>1, BecomesIs
<1> QED
  BY <1>4, <1>5, <1>6

\* The chunk that a write of a call takes, and what it then holds.
Put(p, u, i) == [chunks EXCEPT ![<<u.value.version, i>>] = [session |-> p, value |-> u.state]]

\* A chunk is written or refused: others are left, or all were written and the
\* state key is next, or one was refused and the call ends.
LEMMA WriteOutcome ==
  ASSUME Calls, NEW p \in Servers, NEW t \in Threads, write_controller_state(p, t)
  PROVE  LET u == updates[p][t]
             w == updates'[p][t]
         IN  /\ u \in Writing /\ u.stage = "write" /\ u.left \subseteq ChunksOf(u.state)
             /\ UNCHANGED <<live, controller, state, registered>>
             /\ \E i \in u.left :
                  /\ chunks' = chunks \/ (p \in live /\ chunks' = Put(p, u, i))
                  /\ \/ /\ w \in Writing /\ Remaining(w)
                        /\ w.state = u.state /\ w.value = u.value /\ w.left = u.left \ {i}
                        /\ w.refused = {} => u.refused = {} /\ chunks' = Put(p, u, i)
                     \/ /\ w = [stage |-> "set", state |-> u.state, value |-> u.value]
                        /\ u.left = {i} /\ u.refused = {} /\ chunks' = Put(p, u, i)
                     \/ w \in {LostLeader, RequestFailed}
<1> DEFINE u == updates[p][t]
           w == updates'[p][t]
<1>1. u.stage = "write" /\ UNCHANGED <<live, controller, state, registered>>
  BY DEF write_controller_state
<1>2. u \in Writing /\ Remaining(u)
  BY <1>1, BecomesIs, Stages
<1>3. u.left \subseteq ChunksOf(u.state) /\ u.value.num_chunks = NumChunks[u.state]
  BY <1>1, <1>2 DEF Remaining
<1>4. PICK i \in u.left :
        LET taken == MayAcquire(chunks[<<u.value.version, i>>], p)
            refused == u.refused \cup (IF taken THEN {}
                                       ELSE IF p \in live THEN {"locked"} ELSE {"invalid"})
        IN  /\ chunks' = IF taken THEN Put(p, u, i) ELSE chunks
            /\ Becomes(p, t,
                 CASE u.left # {i} -> [u EXCEPT !.left = @ \ {i}, !.refused = refused]
                   [] u.left = {i} /\ refused = {} ->
                        [stage |-> "set", state |-> u.state, value |-> u.value]
                   [] OTHER -> IF refused = {"locked"} THEN LostLeader ELSE RequestFailed)
  BY DEF write_controller_state, Put
<1> DEFINE taken == MayAcquire(chunks[<<u.value.version, i>>], p)
           refused == u.refused \cup (IF taken THEN {}
                                      ELSE IF p \in live THEN {"locked"} ELSE {"invalid"})
<1>5. chunks' = IF taken THEN Put(p, u, i) ELSE chunks
  BY <1>4
<1>6. Becomes(p, t,
        CASE u.left # {i} -> [u EXCEPT !.left = @ \ {i}, !.refused = refused]
          [] u.left = {i} /\ refused = {} ->
               [stage |-> "set", state |-> u.state, value |-> u.value]
          [] OTHER -> IF refused = {"locked"} THEN LostLeader ELSE RequestFailed)
  BY <1>4
<1>7. taken => p \in live
  BY DEF MayAcquire
<1> HIDE DEF taken
<1>8. /\ refused = {} => taken /\ u.refused = {}
      /\ refused \in SUBSET {"locked", "invalid"}
  BY <1>2 DEF Writing
<1>9. /\ chunks' = chunks \/ (p \in live /\ chunks' = Put(p, u, i))
      /\ refused = {} => u.refused = {} /\ chunks' = Put(p, u, i)
  BY <1>5, <1>7, <1>8
<1> HIDE DEF refused
<1>10. \A v : Becomes(p, t, v) => w = v
  BY BecomesIs
<1> HIDE DEF u, w
<1>11. CASE u.left # {i}
  <2>1. w = [u EXCEPT !.left = @ \ {i}, !.refused = refused]
    BY <1>6, <1>10, <1>11
  <2>2. /\ w \in Writing /\ w.state = u.state /\ w.value = u.value
        /\ w.left = u.left \ {i} /\ w.refused = refused /\ w.stage = "write"
    BY <1>2, <1>8, <2>1 DEF Writing
  <2>3. Remaining(w)
    BY <1>3, <2>2 DEF Remaining
  <2> QED
    BY <1>1, <1>2, <1>3, <1>9, <2>2, <2>3 DEF u, w
<1>12. CASE u.left = {i} /\ refused = {}
  <2>1. w = [stage |-> "set", state |-> u.state, value |-> u.value]
    BY <1>6, <1>10, <1>12
  <2> QED
    BY <1>1, <1>2, <1>3, <1>9, <1>12, <2>1 DEF u, w
<1>13. CASE u.left = {i} /\ refused # {}
  <2>1. w \in {LostLeader, RequestFailed}
    BY <1>6, <1>10, <1>13
  <2> QED
    BY <1>1, <1>2, <1>3, <1>9, <2>1 DEF u, w
<1> QED
  BY <1>11, <1>12, <1>13

\* The state key is set, by a live server, or it is not and the call fails.
LEMMA SetOutcome ==
  ASSUME Calls, NEW p \in Servers, NEW t \in Threads, write_controller_state_value(p, t)
  PROVE  LET u == updates[p][t]
             w == updates'[p][t]
         IN  /\ u \in Setting /\ u.stage = "set"
             /\ UNCHANGED <<live, controller, chunks, registered>>
             /\ \/ /\ p \in live /\ state' = [session |-> p, value |-> u.value]
                   /\ w = Returned(u.state)
                \/ UNCHANGED state /\ w \in {LostLeader, RequestFailed}
<1> DEFINE u == updates[p][t]
<1>1. u.stage = "set" /\ UNCHANGED <<live, controller, chunks, registered>>
  BY DEF write_controller_state_value
<1>2. u \in Setting
  BY <1>1, BecomesIs, Stages
<1>3. \/ /\ MaySetState(p) /\ state' = [session |-> p, value |-> u.value]
         /\ Becomes(p, t, Returned(u.state))
      \/ UNCHANGED state /\ (Becomes(p, t, LostLeader) \/ Becomes(p, t, RequestFailed))
  BY DEF write_controller_state_value
<1>4. MaySetState(p) => p \in live
  BY DEF MaySetState, MayAcquire
<1> QED
  BY <1>1, <1>2, <1>3, <1>4, BecomesIs, SMTT(30)

-----------------------------------------------------------------------------
(* A call, whatever its next request.                                       *)

\* One lemma for the five requests of a call.
LEMMA Requests ==
  ASSUME Calls, NEW p \in Servers, NEW t \in Threads, update_controller_state(p, t)
  PROVE  /\ \E v : Becomes(p, t, v)
         /\ UNCHANGED <<live, controller, registered>>
         /\ updates[p][t].stage \in {"check", "value", "read", "write", "set"}
<1> DEFINE RequestOf(v) == /\ Becomes(p, t, v)
                         /\ UNCHANGED <<live, controller, registered>>
                         /\ updates[p][t].stage \in {"check", "value", "read", "write", "set"}
<1> SUFFICES \E v : RequestOf(v)
  OBVIOUS
<1>1. CASE CheckLeader(p, t)
  <2>1. \E v : Becomes(p, t, v)
    BY <1>1 DEF CheckLeader
  <2>2. /\ UNCHANGED <<live, controller, registered>>
        /\ updates[p][t].stage \in {"check", "value", "read", "write", "set"}
    BY <1>1 DEF CheckLeader, store
  <2> QED
    BY <2>1, <2>2
<1>2. CASE get_controller_state_value(p, t)
  <2>1. \E v : Becomes(p, t, v)
    BY <1>2 DEF get_controller_state_value
  <2>2. /\ UNCHANGED <<live, controller, registered>>
        /\ updates[p][t].stage \in {"check", "value", "read", "write", "set"}
    BY <1>2 DEF get_controller_state_value, store
  <2> QED
    BY <2>1, <2>2
<1>3. CASE get_controller_state(p, t)
  <2>1. \E v : Becomes(p, t, v)
    BY <1>3 DEF get_controller_state
  <2>2. /\ UNCHANGED <<live, controller, registered>>
        /\ updates[p][t].stage \in {"check", "value", "read", "write", "set"}
    BY <1>3 DEF get_controller_state, store
  <2> QED
    BY <2>1, <2>2
<1>4. CASE write_controller_state(p, t)
  <2>1. \E v : Becomes(p, t, v)
    BY <1>4 DEF write_controller_state
  <2>2. /\ UNCHANGED <<live, controller, registered>>
        /\ updates[p][t].stage \in {"check", "value", "read", "write", "set"}
    BY <1>4 DEF write_controller_state
  <2> QED
    BY <2>1, <2>2
<1>5. CASE write_controller_state_value(p, t)
  <2>1. \E v : Becomes(p, t, v)
    BY <1>5 DEF write_controller_state_value
  <2>2. /\ UNCHANGED <<live, controller, registered>>
        /\ updates[p][t].stage \in {"check", "value", "read", "write", "set"}
    BY <1>5 DEF write_controller_state_value
  <2> QED
    BY <2>1, <2>2
<1> QED
  BY <1>1, <1>2, <1>3, <1>4, <1>5 DEF update_controller_state

\* What becomes of a call: it goes on with what it was asked for, it writes the
\* state it was asked for or the one it read, or it ends.
LEMMA CallStates ==
  ASSUME Calls, NEW p \in Servers, NEW t \in Threads, update_controller_state(p, t)
  PROVE  LET u == updates[p][t]
             w == updates'[p][t]
         IN  /\ w \in Update /\ Remaining(w)
             /\ w.stage \in {"value", "read", "write", "set", "returned", "failed"}
             /\ w.stage \in {"value", "read"} =>
                  u.stage \in {"check", "value", "read"} /\ w.asked = u.asked
             /\ w.stage = "read" => u.stage \in {"value", "read"}
             /\ w.stage \in {"write", "set", "returned"} =>
                  \/ u.stage \in {"write", "set"} /\ w.state = u.state
                  \/ /\ u.stage \in {"value", "read"} /\ w.stage # "returned"
                     /\ u.asked # None => w.state = u.asked
             /\ w.stage = "returned" =>
                  u.stage = "set" /\ p \in live /\ state'.value = u.value /\ UNCHANGED chunks
<1> DEFINE u == updates[p][t]
           w == updates'[p][t]
<1>1. u \in Update /\ Remaining(u)
  BY BecomesIs
<1>2. ASSUME NEW s \in Asked, NEW v \in VersionValue \cup {None},
             u.asked \in Asked, w = Write(u.asked, s, v)
      PROVE  /\ w \in Update /\ Remaining(w) /\ w.stage \in {"write", "set"}
             /\ u.asked # None => w.state = u.asked
  <2>1. /\ w \in Writing \cup Setting /\ Remaining(w)
        /\ w.state = IF u.asked # None THEN u.asked ELSE IF s = None THEN {} ELSE s
    BY <1>2, WriteStarts, SMTT(30)
  <2> QED
    BY <2>1, Fields
<1> HIDE DEF u, w
<1>3. CASE CheckLeader(p, t)
  <2>1. /\ u \in Checking /\ u.stage = "check"
        /\ w = [stage |-> "value", asked |-> u.asked] \/ w = LostLeader
    BY <1>3, CheckOutcome DEF u, w
  <2>2. CASE w = [stage |-> "value", asked |-> u.asked]
    <3>1. w \in Checking /\ Remaining(w) /\ w.stage = "value" /\ w.asked = u.asked
      BY <2>1, <2>2, Fields DEF Checking, Remaining
    <3> QED
      BY <2>1, <3>1, Fields DEF u, w
  <2>3. CASE w = LostLeader
    BY <2>3, RestingTypes DEF u, w
  <2> QED
    BY <2>1, <2>2, <2>3
<1>4. CASE get_controller_state_value(p, t)
  <2>1. /\ u \in Checking /\ u.stage = "value" /\ u.asked \in Asked
        /\ \/ \E s \in Asked : w = Write(u.asked, s, None)
           \/ w \in Reading /\ Remaining(w) /\ w.asked = u.asked
    <3>1. /\ u \in Checking /\ u.stage = "value"
          /\ \/ w = Write(u.asked, None, None)
             \/ \E s \in States : w = Write(u.asked, s, None)
             \/ w \in Reading /\ Remaining(w) /\ w.asked = u.asked
      BY <1>4, ValueOutcome DEF u, w
    <3> QED
      BY <3>1, Fields DEF Asked
  <2>2. CASE \E s \in Asked : w = Write(u.asked, s, None)
    BY <2>1, <2>2, <1>2 DEF u, w
  <2>3. CASE w \in Reading /\ Remaining(w) /\ w.asked = u.asked
    BY <2>1, <2>3, Fields DEF u, w
  <2> QED
    BY <2>1, <2>2, <2>3
<1>5. CASE get_controller_state(p, t)
  <2>1. /\ u \in Reading /\ u.stage = "read" /\ u.asked \in Asked /\ u.value \in VersionValue
        /\ \/ \E s \in Asked : w = Write(u.asked, s, u.value)
           \/ w \in Reading /\ Remaining(w) /\ w.asked = u.asked
           \/ w = RequestFailed
    <3>1. /\ u \in Reading /\ u.stage = "read"
          /\ \/ \E s \in States : w = Write(u.asked, s, u.value)
             \/ w \in Reading /\ Remaining(w) /\ w.asked = u.asked
             \/ w = RequestFailed
      BY <1>5, ReadOutcome DEF u, w
    <3> QED
      BY <3>1, Fields DEF Asked
  <2>2. CASE \E s \in Asked : w = Write(u.asked, s, u.value)
    BY <2>1, <2>2, <1>2 DEF u, w
  <2>3. CASE w \in Reading /\ Remaining(w) /\ w.asked = u.asked
    BY <2>1, <2>3, Fields DEF u, w
  <2>4. CASE w = RequestFailed
    BY <2>4, RestingTypes DEF u, w
  <2> QED
    BY <2>1, <2>2, <2>3, <2>4
<1>6. CASE write_controller_state(p, t)
  <2>1. /\ u \in Writing /\ u.stage = "write"
        /\ \/ w \in Writing /\ Remaining(w) /\ w.state = u.state
           \/ w = [stage |-> "set", state |-> u.state, value |-> u.value]
           \/ w \in {LostLeader, RequestFailed}
    BY <1>6, WriteOutcome DEF u, w
  <2>2. CASE w \in Writing /\ Remaining(w) /\ w.state = u.state
    BY <2>1, <2>2, Fields DEF u, w
  <2>3. CASE w = [stage |-> "set", state |-> u.state, value |-> u.value]
    <3>1. w \in Setting /\ w.state = u.state
      BY <2>1, <2>3, Fields DEF Setting, StateValue
    <3>2. Remaining(w)
      BY <1>1, <2>1, <2>3 DEF Remaining
    <3> QED
      BY <2>1, <3>1, <3>2, Fields DEF u, w
  <2>4. CASE w \in {LostLeader, RequestFailed}
    BY <2>4, RestingTypes DEF u, w
  <2> QED
    BY <2>1, <2>2, <2>3, <2>4
<1>7. CASE write_controller_state_value(p, t)
  <2>1. /\ u \in Setting /\ u.stage = "set" /\ u.state \in States /\ UNCHANGED chunks
        /\ \/ /\ p \in live /\ state' = [session |-> p, value |-> u.value]
              /\ w = Returned(u.state)
           \/ w \in {LostLeader, RequestFailed}
    BY <1>7, SetOutcome, Fields DEF u, w
  <2>2. CASE p \in live /\ state' = [session |-> p, value |-> u.value] /\ w = Returned(u.state)
    <3>1. /\ state'.value = u.value /\ w \in Update /\ Remaining(w)
          /\ w.stage = "returned" /\ w.state = u.state
      BY <2>1, <2>2, RestingTypes
    <3> QED
      BY <2>1, <2>2, <3>1 DEF u, w
  <2>3. CASE w \in {LostLeader, RequestFailed}
    BY <2>3, RestingTypes DEF u, w
  <2> QED
    BY <2>1, <2>2, <2>3
<1> QED
  BY <1>3, <1>4, <1>5, <1>6, <1>7 DEF update_controller_state

\* A call that goes on was under way and still is, or has ended.
LEMMA CallStages ==
  ASSUME Calls, NEW p \in Servers, NEW t \in Threads, update_controller_state(p, t)
  PROVE  /\ updates[p][t].stage \in {"check", "value", "read", "write", "set"}
         /\ updates'[p][t].stage \in {"value", "read", "write", "set", "returned", "failed"}
         /\ UNCHANGED <<live, controller, registered>>
<1>1. updates'[p][t].stage \in {"value", "read", "write", "set", "returned", "failed"}
  BY CallStates
<1> QED
  BY <1>1, Requests

\* Every request of a call keeps the types of the store and of the calls.
LEMMA CallTypes ==
  ASSUME Calls, NEW p \in Servers, NEW t \in Threads, update_controller_state(p, t)
  PROVE  /\ Calls'
         /\ \A q \in Servers, r \in Threads :
              q # p \/ r # t => updates'[q][r] = updates[q][r]
<1> DEFINE u == updates[p][t]
           KeyType == [session : Sessions, value : States \cup {None}]
<1>1. PICK v : Becomes(p, t, v)
  BY Requests
<1>2. updates'[p][t] = v
  BY <1>1, BecomesIs
<1>3. v \in Update /\ Remaining(v)
  BY <1>2, CallStates
<1>4. /\ updates' \in [Servers -> [Threads -> Update]]
      /\ \A q \in Servers, r \in Threads : Remaining(updates'[q][r])
      /\ \A q \in Servers, r \in Threads :
           q # p \/ r # t => updates'[q][r] = updates[q][r]
  BY <1>1, <1>3, BecomesOnly, SMTT(30)
<1>5. UNCHANGED <<live, controller, registered>>
  BY Requests
<1>6. StoreTypes
  BY DEF Calls
<1>7. /\ state' \in [session : Sessions, value : StateValue \cup {None}]
      /\ chunks' \in [Versions \X ChunkIds -> KeyType]
  <2>1. CASE CheckLeader(p, t) \/ get_controller_state_value(p, t) \/ get_controller_state(p, t)
    <3>1. UNCHANGED store
      BY <2>1, CheckOutcome, ValueOutcome, ReadOutcome
    <3> QED
      BY <1>6, <3>1 DEF store, StoreTypes
  <2>2. CASE write_controller_state(p, t)
    <3>1. /\ UNCHANGED state /\ u \in Writing
          /\ chunks' = chunks \/ \E i : chunks' = Put(p, u, i)
      BY <2>2, WriteOutcome
    <3>2. [session |-> p, value |-> u.state] \in KeyType
      BY <3>1, Fields DEF Sessions
    <3>3. chunks \in [Versions \X ChunkIds -> KeyType]
      BY <1>6 DEF StoreTypes
    <3> HIDE DEF u, KeyType
    <3>4. chunks' \in [Versions \X ChunkIds -> KeyType]
      BY <3>1, <3>2, <3>3 DEF Put
    <3> QED
      BY <1>6, <3>1, <3>4 DEF StoreTypes
  <2>3. CASE write_controller_state_value(p, t)
    <3>1. /\ u \in Setting /\ UNCHANGED chunks
          /\ UNCHANGED state \/ state' = [session |-> p, value |-> u.value]
      BY <2>3, SetOutcome
    <3>2. [session |-> p, value |-> u.value] \in [session : Sessions, value : StateValue \cup {None}]
      BY <3>1, Fields DEF Sessions
    <3> QED
      BY <1>6, <3>1, <3>2 DEF StoreTypes
  <2> QED
    BY <2>1, <2>2, <2>3 DEF update_controller_state
<1> QED
  BY <1>4, <1>5, <1>6, <1>7 DEF Calls, StoreTypes

\* A key that its session releases keeps its type.
LEMMA ExpireTypes ==
  ASSUME Calls, NEW p \in Servers, Expire(p)
  PROVE  Calls'
<1>1. StoreTypes
  BY DEF Calls
<1>2. ASSUME NEW T, NEW key \in [session : Sessions, value : T]
      PROVE  Unlocked(key, p) \in [session : Sessions, value : T]
  BY DEF Unlocked, Sessions
<1>3. controller' \in [session : Sessions, leader : Sessions, index : Nat]
  <2>1. Unlocked(controller, p) \in [session : Sessions, leader : Sessions, index : Nat]
    BY <1>1 DEF Unlocked, Sessions, StoreTypes
  <2>2. Modified(Unlocked(controller, p)) \in [session : Sessions, leader : Sessions, index : Nat]
    BY <2>1, SMTT(30) DEF Modified
  <2> QED
    BY <1>1, <2>2 DEF Expire, StoreTypes
<1>4. state' \in [session : Sessions, value : StateValue \cup {None}]
  BY <1>1, <1>2 DEF Expire, StoreTypes
<1>5. chunks' \in [Versions \X ChunkIds -> [session : Sessions, value : States \cup {None}]]
  BY <1>1, <1>2 DEF Expire, StoreTypes
<1>6. live' \subseteq Servers /\ UNCHANGED <<registered, updates>>
  BY <1>1 DEF Expire, StoreTypes
<1> QED
  BY <1>1, <1>3, <1>4, <1>5, <1>6 DEF StoreTypes, Calls

\* What a call of a live server becomes when it writes a new state: `value` is
\* the version in use, if one is.
LEMMA WriteElsewhere ==
  ASSUME NEW asked \in Asked, NEW stored \in Asked, NEW value \in VersionValue \cup {None},
         state.value # None /\ state.value.kind = "Version" => value = state.value,
         NEW u, u = Write(asked, stored, value)
  PROVE  Elsewhere(u)
<1>1. /\ u \in Writing \cup Setting
      /\ u.stage = "write" => /\ u.left = ChunksOf(u.state)
                              /\ value # None => u.value.version # value.version
      /\ u.stage = "set" => u.value = Data(u.state)
  BY WriteStarts, SMTT(30)
<1>2. u.stage \in {"write", "set"}
  BY <1>1 DEF Writing, Setting
<1>3. u.stage = "set" => u.value.kind = "Data" /\ u.value.state = u.state
  BY <1>1, SMTT(30) DEF Data
<1>4. u.stage = "write" =>
        /\ state.value # None /\ state.value.kind = "Version" =>
             u.value.version # state.value.version
        /\ ChunksOf(u.state) \ u.left = {}
  BY <1>1
<1> QED
  BY <1>2, <1>3, <1>4 DEF Elsewhere

\* Every request of a call of a live server leaves what it is doing elsewhere.
LEMMA CallElsewhere ==
  ASSUME Calls, NEW p \in live, NEW t \in Threads, Elsewhere(updates[p][t]),
         update_controller_state(p, t)
  PROVE  Elsewhere(updates[p][t])'
<1> DEFINE u == updates[p][t]
           w == updates'[p][t]
<1>1. /\ p \in Servers /\ u \in Update /\ Remaining(u)
      /\ chunks \in [Versions \X ChunkIds -> [session : Sessions, value : States \cup {None}]]
      /\ state.value \in StateValue \cup {None}
  BY BecomesIs DEF Calls, StoreTypes
<1>2. w.stage \notin {"read", "write", "set"} => Elsewhere(updates[p][t])'
  BY DEF Elsewhere
<1>3. ASSUME UNCHANGED store, Elsewhere(w) PROVE Elsewhere(updates[p][t])'
  BY <1>3 DEF Elsewhere, store
<1> HIDE DEF u, w
<1>4. CASE CheckLeader(p, t)
  <2>1. w.stage \in {"value", "failed"}
    <3>1. \/ w = [stage |-> "value", asked |-> u.asked]
          \/ w = LostLeader
      BY <1>1, <1>4, CheckOutcome DEF u, w
    <3> QED
      BY <3>1, RestingTypes, SMTT(30)
  <2> QED
    BY <2>1, <1>2 DEF w
<1>5. CASE get_controller_state_value(p, t)
  <2>1. /\ u.asked \in Asked /\ UNCHANGED store
        /\ \/ state.value = None /\ w = Write(u.asked, None, None)
           \/ /\ state.value # None /\ state.value.kind = "Data"
              /\ state.value.state \in States
              /\ w = Write(u.asked, state.value.state, None)
           \/ w \in Reading /\ w.value = state.value
    BY <1>1, <1>5, ValueOutcome, Fields DEF u, w
  <2>2. CASE state.value = None /\ w = Write(u.asked, None, None)
    BY <1>3, <2>1, <2>2, WriteElsewhere DEF Asked
  <2>3. CASE /\ state.value # None /\ state.value.kind = "Data"
             /\ state.value.state \in States
             /\ w = Write(u.asked, state.value.state, None)
    BY <1>3, <2>1, <2>3, WriteElsewhere DEF Asked
  <2>4. CASE w \in Reading /\ w.value = state.value
    <3>1. Elsewhere(w)
      BY <2>4, Fields DEF Elsewhere
    <3> QED
      BY <1>3, <2>1, <3>1
  <2> QED
    BY <2>1, <2>2, <2>3, <2>4
<1>6. CASE get_controller_state(p, t)
  <2>1. /\ u.stage = "read" /\ u \in Reading /\ UNCHANGED store
        /\ \/ w \in Reading /\ w.value = u.value
           \/ \E s \in States : w = Write(u.asked, s, u.value)
           \/ w = RequestFailed
    BY <1>1, <1>6, ReadOutcome DEF u, w
  <2>2. u.value = state.value
    BY <2>1 DEF Elsewhere, u
  <2>3. CASE w \in Reading /\ w.value = u.value
    <3>1. Elsewhere(w)
      BY <2>2, <2>3, Fields DEF Elsewhere
    <3> QED
      BY <1>3, <2>1, <3>1
  <2>4. CASE \E s \in States : w = Write(u.asked, s, u.value)
    <3>1. PICK s \in States : w = Write(u.asked, s, u.value)
      BY <2>4
    <3>2. s \in Asked /\ u.asked \in Asked /\ u.value \in VersionValue
      BY <2>1, Fields DEF Asked
    <3> QED
      BY <1>3, <2>1, <2>2, <3>1, <3>2, WriteElsewhere
  <2>5. CASE w = RequestFailed
    BY <1>2, <2>5, RestingTypes DEF w
  <2> QED
    BY <2>1, <2>3, <2>4, <2>5
<1>7. CASE write_controller_state_value(p, t)
  <2>1. w.stage \in {"failed", "returned"}
    <3>1. u \in Setting /\ w \in {Returned(u.state), LostLeader, RequestFailed}
      BY <1>1, <1>7, SetOutcome DEF u, w
    <3> QED
      BY <3>1, Fields, RestingTypes, SMTT(30)
  <2> QED
    BY <2>1, <1>2 DEF w
<1>8. CASE write_controller_state(p, t)
  <2>1. /\ u \in Writing /\ u.stage = "write" /\ u.left \subseteq ChunksOf(u.state)
        /\ UNCHANGED state
        /\ \E i \in u.left :
             \/ /\ w \in Writing /\ w.state = u.state /\ w.value = u.value
                /\ w.left = u.left \ {i}
                /\ w.refused = {} => u.refused = {} /\ chunks' = Put(p, u, i)
             \/ /\ w = [stage |-> "set", state |-> u.state, value |-> u.value]
                /\ u.left = {i} /\ u.refused = {} /\ chunks' = Put(p, u, i)
             \/ w \in {LostLeader, RequestFailed}
    BY <1>1, <1>8, WriteOutcome DEF u, w
  <2>2. /\ u.state \in States /\ u.value \in VersionValue /\ u.value.kind = "Version"
        /\ u.value.version \in Versions
    BY <2>1, Fields
  <2>3. PICK i \in u.left :
          \/ /\ w \in Writing /\ w.state = u.state /\ w.value = u.value
             /\ w.left = u.left \ {i}
             /\ w.refused = {} => u.refused = {} /\ chunks' = Put(p, u, i)
          \/ /\ w = [stage |-> "set", state |-> u.state, value |-> u.value]
             /\ u.left = {i} /\ u.refused = {} /\ chunks' = Put(p, u, i)
          \/ w \in {LostLeader, RequestFailed}
    BY <2>1
  <2>4. ASSUME u.refused = {}, chunks' = Put(p, u, i)
        PROVE  \A j \in (ChunksOf(u.state) \ u.left) \cup {i} :
                 chunks'[<<u.value.version, j>>].value = u.state
    <3>1. \A j \in ChunksOf(u.state) : <<u.value.version, j>> \in Versions \X ChunkIds
      BY <2>2, ChunksOfType
    <3>2. chunks' = [chunks EXCEPT ![<<u.value.version, i>>] =
                       [session |-> p, value |-> u.state]]
      BY <2>4 DEF Put
    <3>3. \A j \in ChunksOf(u.state) \ u.left : chunks[<<u.value.version, j>>].value = u.state
      BY <2>1, <2>2, <2>4 DEF Elsewhere, u
    <3>4. TAKE j \in (ChunksOf(u.state) \ u.left) \cup {i}
    <3>5. <<u.value.version, j>> \in Versions \X ChunkIds
      BY <2>1, <3>1
    <3>6. CASE j = i
      BY <1>1, <3>2, <3>5, <3>6
    <3>7. CASE j # i
      <4>1. chunks'[<<u.value.version, j>>] = chunks[<<u.value.version, j>>]
        BY <1>1, <3>2, <3>5, <3>7
      <4>2. chunks[<<u.value.version, j>>].value = u.state
        BY <3>3, <3>7
      <4> QED
        BY <4>1, <4>2
    <3> QED
      BY <3>6, <3>7
  <2>5. state.value # None /\ state.value.kind = "Version" =>
          u.value.version # state.value.version
    BY <2>1, <2>2 DEF Elsewhere, u
  <2>6. CASE /\ w \in Writing /\ w.state = u.state /\ w.value = u.value
             /\ w.left = u.left \ {i}
             /\ w.refused = {} => u.refused = {} /\ chunks' = Put(p, u, i)
    <3>1. w.refused = {} => \A j \in ChunksOf(w.state) \ w.left :
                              chunks'[<<w.value.version, j>>].value = w.state
      BY <2>4, <2>6
    <3>2. w.stage = "write"
      BY <2>6, Fields
    <3> QED
      BY <2>1, <2>5, <2>6, <3>1, <3>2 DEF Elsewhere, w
  <2>7. CASE /\ w = [stage |-> "set", state |-> u.state, value |-> u.value]
             /\ u.left = {i} /\ u.refused = {} /\ chunks' = Put(p, u, i)
    <3>1. w.stage = "set" /\ w.value = u.value /\ w.state = u.state
      BY <2>7
    <3>2. \A j \in ChunksOf(w.state) : chunks'[<<w.value.version, j>>].value = w.state
      BY <2>4, <2>7, <3>1
    <3> QED
      BY <2>1, <2>2, <2>5, <3>1, <3>2 DEF Elsewhere, w
  <2>8. CASE w \in {LostLeader, RequestFailed}
    BY <1>2, <2>8, RestingTypes DEF w
  <2> QED
    BY <2>3, <2>6, <2>7, <2>8
<1> QED
  BY <1>4, <1>5, <1>6, <1>7, <1>8 DEF update_controller_state

\* When a live server sets the state key, its new state is the stored one.
LEMMA SetStored ==
  ASSUME Calls, NEW p \in live, NEW t \in Threads, Elsewhere(updates[p][t]),
         updates[p][t].stage = "set", state'.value = updates[p][t].value, UNCHANGED chunks
  PROVE  Stored' = updates[p][t].state
<1> DEFINE u == updates[p][t]
<1>1. u \in Setting /\ u.value \in StateValue /\ u.state \in States
  BY Stages, SMTT(30) DEF Calls, StoreTypes, Setting
<1>2. u.value # None
  BY <1>1, NoneAssumption
<1>3. CASE u.value.kind = "Data"
  <2>1. u.value.state = u.state
    BY <1>3 DEF Elsewhere
  <2> QED
    BY <1>2, <1>3, <2>1 DEF Stored
<1>4. CASE u.value.kind # "Data"
  <2>1. u.value.kind = "Version"
    BY <1>1, <1>4 DEF StateValue, VersionValue
  <2>2. \A i \in ChunksOf(u.state) : chunks[<<u.value.version, i>>].value = u.state
    BY <2>1 DEF Elsewhere
  <2>3. chunks[<<u.value.version, 0>>].value = u.state
    BY <1>1, <2>2, ChunksOfType
  <2> QED
    BY <1>2, <1>4, <2>3 DEF Stored
<1> QED
  BY <1>3, <1>4 DEF u

-----------------------------------------------------------------------------
(* The steps of a server, and the types.                                   *)

Event == [kind : {"WonLeaderElection"}, state : States]
           \cup [kind : {"FailedWorkers", "NewWorkers"}, workers : SUBSET Servers]

Places == {"init", "get_leader", "become_leader", "readback", "update", "heartbeat",
           "workers", "ended"}

AuthorityState ==
  [pc : Places, controller_index : Nat \cup {None}, is_leader : BOOLEAN,
   last_leader_state : BOOLEAN, active_workers : SUBSET Servers]

ServerTypes ==
  /\ status \in [Servers -> {"new", "up", "stopping", "down", "lost"}]
  /\ authority \in [Servers -> AuthorityState]
  /\ events \in [Servers -> Seq(Event)]
  /\ leader \in [Servers -> LeaderState \cup {None}]
  /\ task \in [Servers -> Commit \cup {None}]
  /\ acked \in SUBSET Changes

Types == Calls /\ ServerTypes

Elects(p) == authority[p].pc \in {"readback", "update"}

\* Which calls a server has under way, and what its tasks hold meanwhile.
TasksOf(p) ==
  /\ task[p] = None <=> updates[p]["leader"].stage = "idle"
  /\ task[p] # None => leader[p] # None
  /\ updates[p]["authority"].stage # "idle" =>
       status[p] = "up" /\ authority[p].pc = "update"
  /\ status[p] # "up" => events[p] = <<>> /\ ~Elects(p)
  /\ status[p] \notin {"up", "stopping"} => leader[p] = None

Tasks == \A p \in Servers : TasksOf(p)

\* Two sequences one after the other.
LEMMA ConcatProperties ==
  ASSUME NEW S, NEW s1 \in Seq(S), NEW s2 \in Seq(S)
  PROVE  /\ s1 \o s2 \in Seq(S)
         /\ Len(s1 \o s2) = Len(s1) + Len(s2)
         /\ \A i \in 1 .. Len(s1) + Len(s2) :
              (s1 \o s2)[i] = IF i <= Len(s1) THEN s1[i] ELSE s2[i - Len(s1)]
BY SMTT(30)

\* The length and the elements of a sequence.
LEMMA LenProperties ==
  ASSUME NEW S, NEW seq \in Seq(S)
  PROVE  /\ Len(seq) \in Nat
         /\ seq \in [1 .. Len(seq) -> S]
         /\ DOMAIN seq = 1 .. Len(seq)
BY SMTT(30)

-----------------------------------------------------------------------------
(* Steps.                                                                   *)

\* The steps of Next, without its bounds.
Step(p) ==
  \/ Start(p)
  \/ \E b \in BOOLEAN : (b \/ (controller.session = p => misread')) /\ GetLeader(p, b)
  \/ BecomeLeader(p)
  \/ \E b \in BOOLEAN : ReadBack(p, b)
  \/ \E t \in Threads : Updating(p, t)
  \/ Elected(p)
  \/ Heartbeat(p)
  \/ update_worker_state(p)
  \/ HandleWonLeaderElection(p)
  \/ \E kind \in {"NewWorkers", "FailedWorkers"} : HandleWorkers(p, kind)
  \/ Committed(p)
  \/ Surrender(p)
  \/ \E c \in Changes : Request(p, c)
  \/ Expire(p) /\ UNCHANGED serverVars
  \/ Crash(p)
  \/ Stop(p)
  \/ RequestFails(p, "leader") /\ UNCHANGED serverVars

\* Every step is a step of one server.
LEMMA NextIsStep ==
  ASSUME Next PROVE \E p \in Servers : Step(p)
<1>1. PICK p \in Servers : \/ Start(p) \/ AuthorityTask(p) \/ LeaderTask(p)
                           \/ (\E c \in Changes : Request(p, c))
                           \/ TimeOut(p) \/ Fault(p)
  BY DEF Next
<1>2. "authority" \in Threads /\ "leader" \in Threads
  BY ControllerAssumption
<1>3. ASSUME AuthorityTask(p) PROVE Step(p)
  BY <1>2, <1>3 DEF AuthorityTask, Step
<1>4. ASSUME LeaderTask(p) PROVE Step(p)
  BY <1>2, <1>4 DEF LeaderTask, Step
<1>5. ASSUME TimeOut(p) PROVE Step(p)
  BY <1>5 DEF TimeOut, Step
<1>6. ASSUME Fault(p) PROVE Step(p)
  <2>1. Crash(p) \/ LoseSession(p) \/ Stop(p) \/ FailedRequest(p)
    BY <1>6 DEF Fault
  <2>2. ASSUME FailedRequest(p) PROVE Step(p)
    <3>1. CASE GetLeader(p, FALSE) /\ misread' = (misread \/ controller.session = p)
      BY <3>1 DEF Step
    <3> QED
      BY <2>2, <3>1 DEF FailedRequest, Step
  <2> QED
    BY <2>1, <2>2 DEF LoseSession, Step
<1> QED
  BY <1>1, <1>3, <1>4, <1>5, <1>6 DEF Step

\* The authority task where it starts or ends.
LEMMA TaskAtTypes ==
  ASSUME NEW pc \in Places
  PROVE  AuthorityTaskAt(pc) \in AuthorityState /\ AuthorityTaskAt(pc).pc = pc
BY DEF AuthorityTaskAt, AuthorityState

\* That a leader misread its key is not forgotten.
LEMMA MisreadStays ==
  ASSUME [Next]_vars PROVE misread => misread'
<1>1. CASE UNCHANGED vars
  BY <1>1 DEF vars, bounds, history
<1>2. CASE Next
  <2>1. PICK p \in Servers : \/ Start(p) \/ AuthorityTask(p) \/ LeaderTask(p)
                             \/ (\E c \in Changes : Request(p, c))
                             \/ TimeOut(p) \/ Fault(p)
    BY <1>2 DEF Next
  <2>2. CASE UNCHANGED bounds
    BY <2>2 DEF bounds, history
  <2>3. ASSUME AuthorityTask(p) PROVE UNCHANGED bounds
    BY <2>3 DEF AuthorityTask, BecomeLeader, Updating, Elected, Heartbeat,
         update_worker_state
  <2>4. ASSUME LeaderTask(p) PROVE UNCHANGED bounds
    BY <2>4 DEF LeaderTask, HandleWonLeaderElection, HandleWorkers, Updating, Committed,
         Surrender
  <2>5. ASSUME (\E c \in Changes : Request(p, c)) \/ TimeOut(p) PROVE UNCHANGED bounds
    BY <2>5 DEF Request, TimeOut
  <2>6. CASE Start(p)
    BY <2>6 DEF Start
  <2>7. CASE Fault(p)
    BY <2>7 DEF Fault, FailedRequest, history
  <2> QED
    BY <2>1, <2>2, <2>3, <2>4, <2>5, <2>6, <2>7
<1> QED
  BY <1>1, <1>2

\* The process ends: its state is reset, and that of no other.
LEMMA DownOnly ==
  ASSUME Types, NEW p \in Servers, NEW how \in {"down", "lost"}, Down(p, how)
  PROVE  /\ updates' \in [Servers -> [Threads -> Update]]
         /\ \A q \in Servers, r \in Threads : Remaining(updates'[q][r])
         /\ \A r \in Threads : updates'[p][r] = Idle
         /\ status' \in [Servers -> {"new", "up", "stopping", "down", "lost"}]
         /\ authority' \in [Servers -> AuthorityState]
         /\ events' \in [Servers -> Seq(Event)]
         /\ leader' \in [Servers -> LeaderState \cup {None}]
         /\ task' \in [Servers -> Commit \cup {None}]
         /\ status'[p] = how /\ authority'[p].pc = "ended" /\ events'[p] = <<>>
         /\ leader'[p] = None /\ task'[p] = None
         /\ \A q \in Servers \ {p} :
              /\ updates'[q] = updates[q] /\ status'[q] = status[q]
              /\ authority'[q] = authority[q] /\ events'[q] = events[q]
              /\ leader'[q] = leader[q] /\ task'[q] = task[q]
<1>1. ServerTypes /\ updates \in [Servers -> [Threads -> Update]]
  BY DEF Types, Calls, StoreTypes
<1>2. updates' = [updates EXCEPT ![p] = [t \in Threads |-> Idle]]
  BY DEF Down
<1>3. /\ updates' \in [Servers -> [Threads -> Update]]
      /\ \A r \in Threads : updates'[p][r] = Idle
      /\ \A q \in Servers \ {p} : updates'[q] = updates[q]
  BY <1>1, <1>2, RestingTypes
<1>4. \A q \in Servers, r \in Threads : Remaining(updates'[q][r])
  BY <1>3, RestingTypes, SMTT(30) DEF Types, Calls
<1>5. /\ status' \in [Servers -> {"new", "up", "stopping", "down", "lost"}]
      /\ status'[p] = how
      /\ \A q \in Servers \ {p} : status'[q] = status[q]
  BY <1>1 DEF Down, ServerTypes
<1>6. /\ authority' \in [Servers -> AuthorityState]
      /\ authority'[p].pc = "ended"
      /\ \A q \in Servers \ {p} : authority'[q] = authority[q]
  <2>1. authority \in [Servers -> AuthorityState] /\ "ended" \in Places
    BY <1>1 DEF ServerTypes, Places
  <2>2. authority' = [authority EXCEPT ![p] = AuthorityTaskAt("ended")]
    BY DEF Down
  <2> QED
    BY <2>1, <2>2, TaskAtTypes
<1>7. /\ events' \in [Servers -> Seq(Event)]
      /\ events'[p] = <<>>
      /\ \A q \in Servers \ {p} : events'[q] = events[q]
  BY <1>1, SMTT(30) DEF Down, ServerTypes
<1>8. /\ leader' \in [Servers -> LeaderState \cup {None}]
      /\ task' \in [Servers -> Commit \cup {None}]
      /\ leader'[p] = None /\ task'[p] = None
      /\ \A q \in Servers \ {p} : leader'[q] = leader[q] /\ task'[q] = task[q]
  BY <1>1 DEF Down, ServerTypes
<1> QED
  BY <1>3, <1>4, <1>5, <1>6, <1>7, <1>8

\* The authority task ends when the server stops.
LEMMA StopEnds ==
  ASSUME ServerTypes, NEW p \in Servers, Stop(p)
  PROVE  status'[p] = "stopping" /\ events'[p] = <<>> /\ authority'[p].pc = "ended"
<1>1. /\ status' = [status EXCEPT ![p] = "stopping"]
      /\ authority' = [authority EXCEPT ![p] = AuthorityTaskAt("ended")]
      /\ events' = [events EXCEPT ![p] = <<>>]
  BY DEF Stop
<1>2. authority'[p] = AuthorityTaskAt("ended")
  BY <1>1 DEF ServerTypes
<1> QED
  BY <1>1, <1>2, TaskAtTypes DEF ServerTypes, Places

\* The addresses of servers.
LEMMA UriTypes == \A ws \in SUBSET Servers : uris(ws) \in SUBSET Uris
BY ControllerAssumption DEF uris

\* What belongs to one server.
Own(p) == <<updates[p], status[p], authority[p], events[p], leader[p], task[p]>>

\* The authority task's variables keep their types one by one.
LEMMA AuthorityTypes ==
  ASSUME NEW a \in AuthorityState
  PROVE  /\ \A pc \in Places : [a EXCEPT !.pc = pc] \in AuthorityState
         /\ \A i \in Nat \cup {None} : [a EXCEPT !.controller_index = i] \in AuthorityState
         /\ \A b \in BOOLEAN : /\ [a EXCEPT !.is_leader = b] \in AuthorityState
                               /\ [a EXCEPT !.last_leader_state = b] \in AuthorityState
         /\ \A ws \in SUBSET Servers : [a EXCEPT !.active_workers = ws] \in AuthorityState
<1>1. ASSUME NEW pc \in Places PROVE [a EXCEPT !.pc = pc] \in AuthorityState
  BY DEF AuthorityState
<1>2. ASSUME NEW i \in Nat \cup {None}
      PROVE  [a EXCEPT !.controller_index = i] \in AuthorityState
  BY DEF AuthorityState
<1>3. ASSUME NEW b \in BOOLEAN PROVE [a EXCEPT !.is_leader = b] \in AuthorityState
  BY DEF AuthorityState
<1>4. ASSUME NEW b \in BOOLEAN PROVE [a EXCEPT !.last_leader_state = b] \in AuthorityState
  BY DEF AuthorityState
<1>5. ASSUME NEW ws \in SUBSET Servers
      PROVE  [a EXCEPT !.active_workers = ws] \in AuthorityState
  BY DEF AuthorityState
<1> QED
  BY <1>1, <1>2, <1>3, <1>4, <1>5

\* A step of one server keeps all types, and leaves the other servers alone.
LEMMA StepTypes ==
  ASSUME Types, Tasks, NEW p \in Servers, Step(p)
  PROVE  Types' /\ \A q \in Servers \ {p} : UNCHANGED Own(q)
<1> USE DEF Own
<1>1. StoreTypes /\ ServerTypes
  BY DEF Types, Calls
<1>2. "authority" \in Threads /\ "leader" \in Threads
  BY ControllerAssumption
<1>3. ASSUME UNCHANGED <<live, controller, state, chunks, registered, acked>>,
             NEW how \in {"down", "lost"}, Down(p, how)
      PROVE  Types' /\ \A q \in Servers \ {p} : UNCHANGED Own(q)
  <2>1. /\ StoreTypes' /\ ServerTypes'
        /\ \A q \in Servers, r \in Threads : Remaining(updates'[q][r])
    BY <1>1, <1>3, DownOnly, SMTT(30) DEF StoreTypes, ServerTypes
  <2>2. Types'
    BY <2>1 DEF Types, Calls
  <2>3. \A q \in Servers \ {p} : UNCHANGED Own(q)
    BY <1>3, DownOnly, SMTT(30)
  <2> QED
    BY <2>2, <2>3
<1>4. ASSUME UNCHANGED updates, StoreTypes', ServerTypes' PROVE Types'
  BY <1>4 DEF Types, Calls
<1>5. ASSUME NEW pc \in Places, Goto(p, pc)
      PROVE  /\ authority' \in [Servers -> AuthorityState]
             /\ \A q \in Servers \ {p} : authority'[q] = authority[q]
  <2>1. authority \in [Servers -> AuthorityState]
    BY <1>1 DEF ServerTypes
  <2>2. [authority[p] EXCEPT !.pc = pc] \in AuthorityState
    BY <2>1, SMTT(30) DEF AuthorityState
  <2>3. authority' = [authority EXCEPT ![p] = [authority[p] EXCEPT !.pc = pc]]
    BY <1>5, <2>1 DEF Goto
  <2> QED
    BY <2>1, <2>2, <2>3
<1>6. CASE Start(p)
  <2>1. status' = [status EXCEPT ![p] = "up"]
        /\ UNCHANGED <<events, leader, task, acked, controller, state, chunks, updates>>
        /\ live' = live \cup {p} /\ registered' = registered \cup {p}
        /\ Goto(p, "get_leader")
    BY <1>6 DEF Start, register_worker
  <2>2. authority' \in [Servers -> AuthorityState]
        /\ \A q \in Servers \ {p} : authority'[q] = authority[q]
    BY <1>5, <2>1 DEF Places
  <2> QED
    BY <1>1, <1>4, <2>1, <2>2 DEF StoreTypes, ServerTypes
<1>7. ASSUME NEW b \in BOOLEAN, GetLeader(p, b)
      PROVE  Types' /\ \A q \in Servers \ {p} : UNCHANGED Own(q)
  <2>1. UNCHANGED <<live, controller, state, chunks, registered, updates,
                    status, events, leader, task, acked>>
    BY <1>7 DEF GetLeader, authorityVars
  <2>2. \/ Goto(p, "become_leader") \/ Goto(p, "heartbeat")
        \/ authority' = [authority EXCEPT ![p].controller_index = controller.index,
                           ![p].is_leader = FALSE, ![p].pc = "heartbeat"]
    BY <1>7 DEF GetLeader
  <2>3. CASE authority' = [authority EXCEPT ![p].controller_index = controller.index,
                             ![p].is_leader = FALSE, ![p].pc = "heartbeat"]
    <3>1. authority \in [Servers -> AuthorityState] /\ controller.index \in Nat
      BY <1>1 DEF ServerTypes, StoreTypes
    <3>2. [authority[p] EXCEPT !.controller_index = controller.index,
             !.is_leader = FALSE, !.pc = "heartbeat"] \in AuthorityState
      <4>1. "heartbeat" \in Places /\ authority[p] \in AuthorityState
        BY <3>1 DEF Places
      <4>2. [authority[p] EXCEPT !.controller_index = controller.index] \in AuthorityState
        BY <3>1, <4>1, AuthorityTypes
      <4>3. [authority[p] EXCEPT !.controller_index = controller.index,
               !.is_leader = FALSE] \in AuthorityState
        BY <4>2, AuthorityTypes
      <4> QED
        BY <4>1, <4>3, AuthorityTypes
    <3>3. authority' = [authority EXCEPT ![p] =
            [authority[p] EXCEPT !.controller_index = controller.index,
               !.is_leader = FALSE, !.pc = "heartbeat"]]
      BY <2>3, <3>1
    <3>4. authority' \in [Servers -> AuthorityState]
          /\ \A q \in Servers \ {p} : authority'[q] = authority[q]
      BY <3>1, <3>2, <3>3
    <3> QED
      BY <1>1, <1>4, <2>1, <3>4 DEF StoreTypes, ServerTypes
  <2>4. CASE Goto(p, "become_leader") \/ Goto(p, "heartbeat")
    <3>1. authority' \in [Servers -> AuthorityState]
          /\ \A q \in Servers \ {p} : authority'[q] = authority[q]
      BY <1>5, <2>4 DEF Places
    <3> QED
      BY <1>1, <1>4, <2>1, <3>1 DEF StoreTypes, ServerTypes
  <2> QED
    BY <2>2, <2>3, <2>4
<1>8. CASE BecomeLeader(p)
  <2>1. CASE AcquireLeadership(p) /\ Goto(p, "readback")
             /\ UNCHANGED <<updates, status, events, leader, task, acked>>
    <3>1. authority' \in [Servers -> AuthorityState]
          /\ \A q \in Servers \ {p} : authority'[q] = authority[q]
      BY <1>5, <2>1 DEF Places
    <3>2. controller' \in [session : Sessions, leader : Sessions, index : Nat]
      <4> DEFINE c == [controller EXCEPT !.session = p, !.leader = p]
      <4>1. c \in [session : Sessions, leader : Sessions, index : Nat]
        BY <1>1 DEF StoreTypes, Sessions
      <4>2. controller' = [c EXCEPT !.index = @ + 1]
        BY <2>1 DEF AcquireLeadership, Modified
      <4> HIDE DEF c
      <4> QED
        BY <4>1, <4>2, SMTT(30)
    <3> QED
      BY <1>1, <1>4, <2>1, <3>1, <3>2 DEF AcquireLeadership, StoreTypes, ServerTypes
  <2>2. CASE Goto(p, "heartbeat")
             /\ UNCHANGED <<authorityVars, status, events, leader, task, acked>>
    <3>1. authority' \in [Servers -> AuthorityState]
          /\ \A q \in Servers \ {p} : authority'[q] = authority[q]
      BY <1>5, <2>2 DEF Places
    <3> QED
      BY <1>1, <1>4, <2>2, <3>1 DEF authorityVars, StoreTypes, ServerTypes
  <2>3. CASE Down(p, "down") /\ UNCHANGED <<store, acked>>
    BY <1>3, <2>3 DEF store
  <2> QED
    BY <1>8, <2>1, <2>2, <2>3 DEF BecomeLeader
<1>9. ASSUME NEW b \in BOOLEAN, ReadBack(p, b)
      PROVE  Types' /\ \A q \in Servers \ {p} : UNCHANGED Own(q)
  <2>1. UNCHANGED <<live, controller, state, chunks, registered,
                    status, events, leader, task, acked>>
    BY <1>9 DEF ReadBack, store
  <2>2. CASE b
    <3> DEFINE index == IF controller.session = p THEN controller.index
                        ELSE authority[p].controller_index
    <3>1. authority \in [Servers -> AuthorityState]
      BY <1>1 DEF ServerTypes
    <3>2. authority' = [authority EXCEPT ![p] =
            [authority[p] EXCEPT !.pc = "update", !.controller_index = index]]
      BY <1>9, <2>2, <3>1 DEF ReadBack
    <3>3. index \in Nat \cup {None}
      BY <1>1, <3>1 DEF AuthorityState, StoreTypes
    <3> HIDE DEF index
    <3>4. [authority[p] EXCEPT !.pc = "update", !.controller_index = index] \in AuthorityState
      <4>1. "update" \in Places /\ authority[p] \in AuthorityState
        BY <3>1 DEF Places
      <4>2. [authority[p] EXCEPT !.pc = "update"] \in AuthorityState
        BY <4>1, AuthorityTypes
      <4> QED
        BY <3>3, <4>2, AuthorityTypes
    <3>5. authority' \in [Servers -> AuthorityState]
          /\ \A q \in Servers \ {p} : authority'[q] = authority[q]
      BY <3>1, <3>2, <3>4
    <3>6. Becomes(p, "authority", Begin(None))
      BY <1>9, <2>2 DEF ReadBack
    <3>7. /\ updates' \in [Servers -> [Threads -> Update]]
          /\ \A q \in Servers, r \in Threads : Remaining(updates'[q][r])
          /\ \A q \in Servers \ {p} : updates'[q] = updates[q]
      <4>1. Begin(None) \in Update /\ Remaining(Begin(None))
        BY RestingTypes DEF Asked
      <4>2. updates' = [updates EXCEPT ![p]["authority"] = Begin(None)]
        BY <3>6 DEF Becomes
      <4> QED
        BY <1>1, <1>2, <3>6, <4>1, <4>2, BecomesOnly, SMTT(30) DEF Types, StoreTypes
    <3> QED
      BY <1>1, <2>1, <3>5, <3>7 DEF Types, Calls, StoreTypes, ServerTypes
  <2>3. CASE ~b
    <3>1. Goto(p, "heartbeat") /\ UNCHANGED updates
      BY <1>9, <2>3 DEF ReadBack
    <3>2. authority' \in [Servers -> AuthorityState]
          /\ \A q \in Servers \ {p} : authority'[q] = authority[q]
      BY <1>5, <3>1 DEF Places
    <3> QED
      BY <1>1, <1>4, <2>1, <3>1, <3>2 DEF StoreTypes, ServerTypes
  <2> QED
    BY <2>2, <2>3
<1>10. ASSUME NEW t \in Threads, Updating(p, t)
       PROVE  Types' /\ \A q \in Servers \ {p} : UNCHANGED Own(q)
  <2>1. update_controller_state(p, t) /\ UNCHANGED serverVars
    BY <1>10 DEF Updating
  <2>2. StoreTypes' /\ (\A q \in Servers, r \in Threads : Remaining(updates'[q][r]))
        /\ \A q \in Servers, r \in Threads :
             q # p \/ r # t => updates'[q][r] = updates[q][r]
    BY <2>1, CallTypes DEF Types, Calls
  <2>3. \A q \in Servers \ {p} : updates'[q] = updates[q]
    BY <1>1, <2>2, SMTT(30) DEF StoreTypes
  <2> QED
    BY <1>1, <2>1, <2>2, <2>3 DEF serverVars, Types, Calls, ServerTypes
<1>11. ASSUME NEW t \in Threads, NEW u \in Update, Remaining(u), Becomes(p, t, u)
       PROVE  /\ updates' \in [Servers -> [Threads -> Update]]
              /\ \A q \in Servers, r \in Threads : Remaining(updates'[q][r])
              /\ \A q \in Servers \ {p} : updates'[q] = updates[q]
  <2>1. updates' = [updates EXCEPT ![p][t] = u]
    BY <1>11 DEF Becomes
  <2> QED
    BY <1>1, <1>11, <2>1, BecomesOnly, SMTT(30) DEF Types, StoreTypes
<1>12. CASE Elected(p)
  <2> DEFINE u == updates[p]["authority"]
  <2>1. UNCHANGED <<live, controller, state, chunks, registered, acked>>
    BY <1>12 DEF Elected, store
  <2>2. u \in Update
    BY <1>1, <1>2 DEF StoreTypes
  <2>3. CASE u.stage = "returned"
    <3>1. u.state \in States
      BY <2>2, <2>3, Stages DEF Ended
    <3>2. /\ authority' = [authority EXCEPT ![p].pc = "heartbeat", ![p].is_leader = TRUE]
          /\ Sends(p, <<WonLeaderElection(u.state)>>)
          /\ Becomes(p, "authority", Idle)
          /\ UNCHANGED <<status, leader, task>>
      BY <1>12, <2>3 DEF Elected
    <3>3. authority' \in [Servers -> AuthorityState]
          /\ \A q \in Servers \ {p} : authority'[q] = authority[q]
      <4>1. authority[p] \in AuthorityState /\ "heartbeat" \in Places
        BY <1>1 DEF ServerTypes, Places
      <4>2. [authority[p] EXCEPT !.pc = "heartbeat"] \in AuthorityState
        BY <4>1, AuthorityTypes
      <4>3. [authority[p] EXCEPT !.pc = "heartbeat", !.is_leader = TRUE] \in AuthorityState
        BY <4>2, AuthorityTypes
      <4>4. authority' = [authority EXCEPT ![p] =
              [authority[p] EXCEPT !.pc = "heartbeat", !.is_leader = TRUE]]
        BY <1>1, <3>2 DEF ServerTypes
      <4> QED
        BY <1>1, <4>3, <4>4 DEF ServerTypes
    <3>4. events' \in [Servers -> Seq(Event)]
          /\ \A q \in Servers \ {p} : events'[q] = events[q]
      <4>1. <<WonLeaderElection(u.state)>> \in Seq(Event)
        BY <3>1, SMTT(30) DEF WonLeaderElection, Event
      <4>2. events[p] \in Seq(Event)
        BY <1>1 DEF ServerTypes
      <4>3. events[p] \o <<WonLeaderElection(u.state)>> \in Seq(Event)
        BY <4>1, <4>2, ConcatProperties
      <4> QED
        BY <1>1, <3>2, <4>3 DEF Sends, ServerTypes
    <3>5. /\ updates' \in [Servers -> [Threads -> Update]]
          /\ \A q \in Servers, r \in Threads : Remaining(updates'[q][r])
          /\ \A q \in Servers \ {p} : updates'[q] = updates[q]
      BY <1>2, <1>11, <3>2, RestingTypes
    <3> QED
      BY <1>1, <2>1, <3>2, <3>3, <3>4, <3>5 DEF Types, Calls, StoreTypes, ServerTypes
  <2>4. CASE u.stage # "returned"
    <3>1. Down(p, "lost") \/ Down(p, "down")
      BY <1>12, <2>4 DEF Elected
    <3> QED
      BY <1>3, <2>1, <3>1
  <2> QED
    BY <2>3, <2>4
<1>13. CASE Heartbeat(p)
  <2>1. UNCHANGED <<live, controller, state, chunks, registered, acked>>
    BY <1>13 DEF Heartbeat, store
  <2>2. CASE p \in live
    <3> DEFINE a == authority[p]
               pc == IF a.is_leader THEN "workers" ELSE "get_leader"
               ws == IF a.is_leader /\ ~a.last_leader_state THEN {} ELSE a.active_workers
    <3>1. a \in AuthorityState
      BY <1>1 DEF ServerTypes
    <3>2. authority' = [authority EXCEPT ![p] =
            [a EXCEPT !.pc = pc, !.last_leader_state = a.is_leader, !.active_workers = ws]]
      BY <1>1, <1>13, <2>2 DEF Heartbeat, ServerTypes
    <3>3. pc \in Places /\ ws \in SUBSET Servers /\ a.is_leader \in BOOLEAN
      BY <3>1 DEF AuthorityState, Places
    <3> HIDE DEF a, pc, ws
    <3>4. [a EXCEPT !.pc = pc] \in AuthorityState
      BY <3>1, <3>3, AuthorityTypes
    <3>5. [a EXCEPT !.pc = pc, !.last_leader_state = a.is_leader] \in AuthorityState
      BY <3>3, <3>4, AuthorityTypes
    <3>6. [a EXCEPT !.pc = pc, !.last_leader_state = a.is_leader, !.active_workers = ws]
            \in AuthorityState
      BY <3>3, <3>5, AuthorityTypes
    <3>7. authority' \in [Servers -> AuthorityState]
          /\ \A q \in Servers \ {p} : authority'[q] = authority[q]
      BY <1>1, <3>2, <3>6 DEF ServerTypes
    <3>8. UNCHANGED <<updates, status, events, leader, task>>
      BY <1>13, <2>2 DEF Heartbeat
    <3> QED
      BY <1>1, <1>4, <2>1, <3>7, <3>8 DEF StoreTypes, ServerTypes
  <2>3. CASE p \notin live
    BY <1>3, <1>13, <2>1, <2>3 DEF Heartbeat
  <2> QED
    BY <2>2, <2>3
<1>14. CASE update_worker_state(p)
  <2> DEFINE active == authority[p].active_workers
             lost == Gone(active, get_workers)
             new == get_workers \ (active \ lost)
             gone == IF lost = {} THEN <<>> ELSE <<FailedWorkers(lost)>>
             came == IF new = {} THEN <<>> ELSE <<NewWorkers(new)>>
  <2>1. UNCHANGED <<live, controller, state, chunks, registered, updates,
                    status, leader, task, acked>>
    BY <1>14 DEF update_worker_state, authorityVars
  <2>2. active \in SUBSET Servers /\ authority[p] \in AuthorityState
    BY <1>1 DEF ServerTypes, AuthorityState
  <2>3. lost \in SUBSET Servers /\ new \in SUBSET Servers
    BY <1>1, <2>2 DEF Gone, get_workers, StoreTypes
  <2>4. /\ authority' = [authority EXCEPT ![p].pc = "get_leader",
                           ![p].active_workers = (active \ lost) \cup new]
        /\ events' = [events EXCEPT ![p] = @ \o (gone \o came)]
    BY <1>14 DEF update_worker_state, Sends
  <2> HIDE DEF lost, new, active
  <2>5. gone \in Seq(Event) /\ came \in Seq(Event)
    <3>1. FailedWorkers(lost) \in Event /\ NewWorkers(new) \in Event
      BY <2>3 DEF FailedWorkers, NewWorkers, Event
    <3>2. <<FailedWorkers(lost)>> \in Seq(Event) /\ <<NewWorkers(new)>> \in Seq(Event)
      BY <3>1, SMTT(30)
    <3>3. <<>> \in Seq(Event)
      BY SMTT(30)
    <3> QED
      BY <3>2, <3>3
  <2> HIDE DEF gone, came
  <2>6. events[p] \in Seq(Event)
    BY <1>1 DEF ServerTypes
  <2>7. events[p] \o (gone \o came) \in Seq(Event)
    BY <2>5, <2>6, ConcatProperties
  <2>8. events' \in [Servers -> Seq(Event)]
        /\ \A q \in Servers \ {p} : events'[q] = events[q]
    BY <1>1, <2>4, <2>7 DEF ServerTypes
  <2>9. [authority[p] EXCEPT !.pc = "get_leader"] \in AuthorityState
    BY <2>2, AuthorityTypes DEF Places
  <2>10. [authority[p] EXCEPT !.pc = "get_leader",
            !.active_workers = (active \ lost) \cup new] \in AuthorityState
    <3>1. (active \ lost) \cup new \in SUBSET Servers
      BY <2>2, <2>3
    <3> QED
      BY <2>9, <3>1, AuthorityTypes
  <2>11. authority' \in [Servers -> AuthorityState]
         /\ \A q \in Servers \ {p} : authority'[q] = authority[q]
    <3>1. authority' = [authority EXCEPT ![p] = [authority[p] EXCEPT !.pc = "get_leader",
            !.active_workers = (active \ lost) \cup new]]
      BY <1>1, <2>4 DEF ServerTypes
    <3> QED
      BY <1>1, <2>10, <3>1 DEF ServerTypes
  <2> QED
    BY <1>1, <1>4, <2>1, <2>8, <2>11 DEF StoreTypes, ServerTypes
<1>15. CASE HandleWonLeaderElection(p)
  <2>1. UNCHANGED <<live, controller, state, chunks, registered, updates,
                    status, authority, task, acked>>
    BY <1>15 DEF HandleWonLeaderElection, authorityVars
  <2>2. events[p] \in Seq(Event) /\ events[p] # <<>> /\ Head(events[p]).kind = "WonLeaderElection"
    BY <1>1, <1>15 DEF HandleWonLeaderElection, Arrives, ServerTypes
  <2>3. Head(events[p]) \in Event /\ Tail(events[p]) \in Seq(Event)
    BY <2>2, SMTT(30)
  <2>4. Head(events[p]).state \in States
    BY <2>2, <2>3 DEF Event
  <2>5. /\ events' = [events EXCEPT ![p] = Tail(@)]
        /\ leader' = [leader EXCEPT ![p] = [state |-> Head(events[p]).state, workers |-> {}]]
    BY <1>15 DEF HandleWonLeaderElection
  <2>6. events' \in [Servers -> Seq(Event)]
        /\ \A q \in Servers \ {p} : events'[q] = events[q]
    BY <1>1, <2>3, <2>5 DEF ServerTypes
  <2>7. [state |-> Head(events[p]).state, workers |-> {}] \in LeaderState
    BY <2>4 DEF LeaderState, States
  <2>8. leader' \in [Servers -> LeaderState \cup {None}]
        /\ \A q \in Servers \ {p} : leader'[q] = leader[q]
    BY <1>1, <2>5, <2>7 DEF ServerTypes
  <2> QED
    BY <1>1, <1>4, <2>1, <2>6, <2>8 DEF StoreTypes, ServerTypes
<1>16. ASSUME NEW kind \in {"NewWorkers", "FailedWorkers"}, HandleWorkers(p, kind)
       PROVE  Types' /\ \A q \in Servers \ {p} : UNCHANGED Own(q)
  <2>1. UNCHANGED <<live, controller, state, chunks, registered, acked>>
    BY <1>16 DEF HandleWorkers, store
  <2>2. CASE leader[p] = None
    BY <1>3, <1>16, <2>1, <2>2 DEF HandleWorkers
  <2>3. CASE leader[p] # None
    <3> DEFINE ws == uris(Head(events[p]).workers)
               c == [kind |-> "workers", state |-> leader[p].state,
                     workers |-> IF kind = "NewWorkers" THEN leader[p].workers \cup ws
                                 ELSE leader[p].workers \ ws]
    <3>1. events[p] \in Seq(Event) /\ events[p] # <<>> /\ Head(events[p]).kind = kind
      BY <1>1, <1>16 DEF HandleWorkers, Arrives, ServerTypes
    <3>2. Head(events[p]) \in Event /\ Tail(events[p]) \in Seq(Event)
      BY <3>1, SMTT(30)
    <3>3. ws \in SUBSET Uris
      <4>1. Head(events[p]).workers \in SUBSET Servers
        BY <3>1, <3>2 DEF Event
      <4> QED
        BY <4>1, UriTypes
    <3>4. leader[p] \in LeaderState
      BY <1>1, <2>3 DEF ServerTypes
    <3>5. /\ task' = [task EXCEPT ![p] = c]
          /\ Becomes(p, "leader", Begin(leader[p].state))
          /\ events' = [events EXCEPT ![p] = Tail(@)]
          /\ UNCHANGED <<status, authority, leader>>
      BY <1>16, <2>3 DEF HandleWorkers
    <3> HIDE DEF ws
    <3>6. c \in Commit
      BY <3>3, <3>4 DEF Commit, LeaderState
    <3> HIDE DEF c
    <3>7. leader[p].state \in Asked
      BY <3>4 DEF LeaderState, Asked, States
    <3>8. /\ updates' \in [Servers -> [Threads -> Update]]
          /\ \A q \in Servers, r \in Threads : Remaining(updates'[q][r])
          /\ \A q \in Servers \ {p} : updates'[q] = updates[q]
      BY <1>2, <1>11, <3>5, <3>7, RestingTypes
    <3>9. /\ events' \in [Servers -> Seq(Event)]
          /\ task' \in [Servers -> Commit \cup {None}]
          /\ \A q \in Servers \ {p} : events'[q] = events[q] /\ task'[q] = task[q]
      BY <1>1, <3>2, <3>5, <3>6 DEF ServerTypes
    <3> QED
      BY <1>1, <2>1, <3>5, <3>8, <3>9 DEF Types, Calls, StoreTypes, ServerTypes
  <2> QED
    BY <2>2, <2>3
<1>17. CASE Committed(p)
  <2> DEFINE u == updates[p]["leader"]
  <2>1. UNCHANGED <<live, controller, state, chunks, registered>>
    BY <1>17 DEF Committed, store
  <2>2. CASE u.stage = "returned"
    <3>1. task[p] \in Commit
      BY <1>1, <2>2 DEF Tasks, TasksOf, ServerTypes
    <3>2. /\ leader' = [leader EXCEPT ![p] = [state |-> task[p].state,
                                              workers |-> task[p].workers]]
          /\ task' = [task EXCEPT ![p] = None]
          /\ acked' = IF task[p].kind = "request" THEN acked \cup task[p].state ELSE acked
          /\ Becomes(p, "leader", Idle)
          /\ UNCHANGED <<status, authority, events>>
      BY <1>17, <2>2 DEF Committed
    <3>3. [state |-> task[p].state, workers |-> task[p].workers] \in LeaderState
      BY <3>1 DEF LeaderState, Commit
    <3>4. acked' \in SUBSET Changes
      BY <1>1, <3>1, <3>2 DEF Commit, ServerTypes
    <3>5. /\ leader' \in [Servers -> LeaderState \cup {None}]
          /\ task' \in [Servers -> Commit \cup {None}]
          /\ \A q \in Servers \ {p} : leader'[q] = leader[q] /\ task'[q] = task[q]
      BY <1>1, <3>2, <3>3 DEF ServerTypes
    <3>6. /\ updates' \in [Servers -> [Threads -> Update]]
          /\ \A q \in Servers, r \in Threads : Remaining(updates'[q][r])
          /\ \A q \in Servers \ {p} : updates'[q] = updates[q]
      BY <1>2, <1>11, <3>2, RestingTypes
    <3> QED
      BY <1>1, <2>1, <3>2, <3>4, <3>5, <3>6
         DEF Types, Calls, StoreTypes, ServerTypes
  <2>3. CASE u.stage # "returned" /\ task[p].kind = "request"
    <3>1. /\ task' = [task EXCEPT ![p] = None]
          /\ Becomes(p, "leader", Idle)
          /\ UNCHANGED <<status, authority, events, leader, acked>>
      BY <1>17, <2>3 DEF Committed
    <3>2. task' \in [Servers -> Commit \cup {None}]
          /\ \A q \in Servers \ {p} : task'[q] = task[q]
      BY <1>1, <3>1 DEF ServerTypes
    <3>3. /\ updates' \in [Servers -> [Threads -> Update]]
          /\ \A q \in Servers, r \in Threads : Remaining(updates'[q][r])
          /\ \A q \in Servers \ {p} : updates'[q] = updates[q]
      BY <1>2, <1>11, <3>1, RestingTypes
    <3> QED
      BY <1>1, <2>1, <3>1, <3>2, <3>3 DEF Types, Calls, StoreTypes, ServerTypes
  <2>4. CASE u.stage # "returned" /\ task[p].kind # "request"
    <3>1. (Down(p, "lost") \/ Down(p, "down")) /\ UNCHANGED acked
      BY <1>17, <2>4 DEF Committed
    <3> QED
      BY <1>3, <2>1, <3>1
  <2> QED
    BY <2>2, <2>3, <2>4
<1>18. CASE Surrender(p)
  <2>1. UNCHANGED <<updates, authority, events, task, acked, live, state, chunks, registered>>
    BY <1>18 DEF Surrender, surrender_leadership, store
  <2>2. controller' \in {controller, Modified(Unlocked(controller, p))}
    BY <1>18 DEF Surrender, surrender_leadership, store
  <2>3. controller' \in [session : Sessions, leader : Sessions, index : Nat]
    <3>1. Unlocked(controller, p) \in [session : Sessions, leader : Sessions, index : Nat]
      BY <1>1 DEF Unlocked, Sessions, StoreTypes
    <3>2. Modified(Unlocked(controller, p)) \in [session : Sessions, leader : Sessions, index : Nat]
      BY <3>1, SMTT(30) DEF Modified
    <3> QED
      BY <1>1, <2>2, <3>2 DEF StoreTypes
  <2>4. status' = [status EXCEPT ![p] = IF task[p] = None THEN "down" ELSE @]
        /\ leader' = [leader EXCEPT ![p] = None]
    BY <1>18 DEF Surrender
  <2>5. /\ status' \in [Servers -> {"new", "up", "stopping", "down", "lost"}]
        /\ leader' \in [Servers -> LeaderState \cup {None}]
        /\ \A q \in Servers \ {p} : status'[q] = status[q] /\ leader'[q] = leader[q]
    BY <1>1, <2>4 DEF ServerTypes
  <2> QED
    BY <1>1, <1>4, <2>1, <2>3, <2>5 DEF StoreTypes, ServerTypes
<1>19. ASSUME NEW c \in Changes, Request(p, c)
       PROVE  Types' /\ \A q \in Servers \ {p} : UNCHANGED Own(q)
  <2> DEFINE s == leader[p].state \cup {c}
  <2>1. UNCHANGED <<live, controller, state, chunks, registered,
                    status, authority, events, leader, acked>>
    BY <1>19 DEF Request, store
  <2>2. leader[p] \in LeaderState
    BY <1>1, <1>19 DEF Request, ServerTypes
  <2>3. s \in SUBSET Changes /\ leader[p].workers \in SUBSET Uris
    BY <2>2 DEF LeaderState
  <2>4. /\ task' = [task EXCEPT ![p] = [kind |-> "request", state |-> s,
                                        workers |-> leader[p].workers]]
        /\ Becomes(p, "leader", Begin(s))
    BY <1>19 DEF Request
  <2> HIDE DEF s
  <2>5. task' \in [Servers -> Commit \cup {None}]
        /\ \A q \in Servers \ {p} : task'[q] = task[q]
    BY <1>1, <2>3, <2>4 DEF ServerTypes, Commit
  <2>6. /\ updates' \in [Servers -> [Threads -> Update]]
        /\ \A q \in Servers, r \in Threads : Remaining(updates'[q][r])
        /\ \A q \in Servers \ {p} : updates'[q] = updates[q]
    BY <1>2, <1>11, <2>3, <2>4, RestingTypes DEF Asked, States
  <2> QED
    BY <1>1, <2>1, <2>5, <2>6 DEF Types, Calls, StoreTypes, ServerTypes
<1>20. CASE Expire(p) /\ UNCHANGED serverVars
  BY <1>1, <1>20, ExpireTypes DEF Types, Calls, ServerTypes, serverVars, Expire
<1>21. CASE Crash(p)
  BY <1>3, <1>21 DEF Crash, store
<1>22. CASE Stop(p)
  <2>1. /\ status' = [status EXCEPT ![p] = "stopping"]
        /\ authority' = [authority EXCEPT ![p] = AuthorityTaskAt("ended")]
        /\ events' = [events EXCEPT ![p] = <<>>]
        /\ Becomes(p, "authority", Idle)
        /\ UNCHANGED <<live, controller, state, chunks, registered, leader, task, acked>>
    BY <1>22 DEF Stop, store
  <2>2. /\ authority' \in [Servers -> AuthorityState]
        /\ \A q \in Servers \ {p} : authority'[q] = authority[q]
    <3>1. AuthorityTaskAt("ended") \in AuthorityState
      BY TaskAtTypes DEF Places
    <3> QED
      BY <1>1, <2>1, <3>1 DEF ServerTypes
  <2>3. /\ updates' \in [Servers -> [Threads -> Update]]
        /\ \A q \in Servers, r \in Threads : Remaining(updates'[q][r])
        /\ \A q \in Servers \ {p} : updates'[q] = updates[q]
    BY <1>2, <1>11, <2>1, RestingTypes
  <2>4. /\ status' \in [Servers -> {"new", "up", "stopping", "down", "lost"}]
        /\ events' \in [Servers -> Seq(Event)]
        /\ \A q \in Servers \ {p} : status'[q] = status[q] /\ events'[q] = events[q]
    BY <1>1, <2>1, SMTT(30) DEF ServerTypes
  <2> QED
    BY <1>1, <2>1, <2>2, <2>3, <2>4 DEF Types, Calls, StoreTypes, ServerTypes
<1>23. CASE RequestFails(p, "leader") /\ UNCHANGED serverVars
  <2> DEFINE u == updates[p]["leader"]
  <2>1. /\ Becomes(p, "leader", RequestFailed)
        /\ UNCHANGED <<live, controller, chunks, registered>>
        /\ \/ UNCHANGED state
           \/ u.stage = "set" /\ state' = [session |-> p, value |-> u.value]
    BY <1>23 DEF RequestFails, store
  <2>2. /\ updates' \in [Servers -> [Threads -> Update]]
        /\ \A q \in Servers, r \in Threads : Remaining(updates'[q][r])
        /\ \A q \in Servers \ {p} : updates'[q] = updates[q]
    BY <1>2, <1>11, <2>1, RestingTypes
  <2>3. u \in Update
    BY <1>1, <1>2 DEF StoreTypes
  <2>4. u.stage = "set" => u.value \in StateValue
    BY <2>3, Stages DEF Setting
  <2>5. state' \in [session : Sessions, value : StateValue \cup {None}]
    BY <1>1, <2>1, <2>4, SMTT(30) DEF StoreTypes, Sessions
  <2> QED
    BY <1>1, <1>23, <2>1, <2>2, <2>5
       DEF Types, Calls, StoreTypes, ServerTypes, serverVars
<1> QED
  BY <1>6, <1>7, <1>8, <1>9, <1>10, <1>12, <1>13, <1>14, <1>15, <1>16, <1>17, <1>18,
     <1>19, <1>20, <1>21, <1>22, <1>23 DEF Step

-----------------------------------------------------------------------------
(* The leader key.                                                         *)

\* An election whose result is on its way to the controller.
Won(es, i) == i \in 1 .. Len(es) /\ es[i].kind = "WonLeaderElection"

HasWon(p) == \E i \in Nat : Won(events[p], i)

\* A live server that leads, or is about to, holds the leader key.
Leads(p) == Elects(p) \/ leader[p] # None \/ HasWon(p)

HoldsKey == \A p \in live : Leads(p) => controller.session = p

KInv == Types /\ Tasks /\ HoldsKey

\* No election is on its way in an empty channel.
LEMMA NothingWon == \A i : ~Won(<<>>, i)
BY SMTT(30) DEF Won

\* Updates about workers add no election to those on their way.
LEMMA WonAfterWorkers ==
  ASSUME NEW es \in Seq(Event), NEW ws \in Seq(Event),
         \A i \in 1 .. Len(ws) : ws[i].kind # "WonLeaderElection"
  PROVE  \A i \in Nat : Won(es \o ws, i) => Won(es, i) /\ (es \o ws)[i] = es[i]
<1>1. Len(es) \in Nat /\ Len(ws) \in Nat /\ Len(es \o ws) = Len(es) + Len(ws)
  BY ConcatProperties, LenProperties
<1>2. \A i \in 1 .. Len(es) + Len(ws) :
        (es \o ws)[i] = IF i <= Len(es) THEN es[i] ELSE ws[i - Len(es)]
  BY ConcatProperties
<1>3. ASSUME NEW i \in Nat, Won(es \o ws, i) PROVE i <= Len(es)
  <2>1. i \in 1 .. Len(es) + Len(ws) /\ (es \o ws)[i].kind = "WonLeaderElection"
    BY <1>1, <1>3 DEF Won
  <2>2. SUFFICES ASSUME i > Len(es) PROVE FALSE
    BY <1>1, SMTT(30)
  <2>3. i - Len(es) \in 1 .. Len(ws) /\ (es \o ws)[i] = ws[i - Len(es)]
    BY <1>1, <1>2, <2>1, <2>2, SMTT(30)
  <2> QED
    BY <2>1, <2>3
<1> QED
  BY <1>1, <1>2, <1>3, SMTT(30) DEF Won

\* The result of an election is the last update and the only new one.
LEMMA WonAfterElection ==
  ASSUME NEW es \in Seq(Event), NEW s \in States
  PROVE  LET new == es \o <<WonLeaderElection(s)>> IN
         \A i \in Nat : Won(new, i) =>
           \/ Won(es, i) /\ new[i] = es[i]
           \/ i = Len(es) + 1 /\ new[i] = WonLeaderElection(s)
<1> DEFINE e == WonLeaderElection(s)
<1>1. e \in Event
  BY DEF WonLeaderElection, Event
<1> HIDE DEF e
<1>2. <<e>> \in Seq(Event) /\ Len(<<e>>) = 1 /\ <<e>>[1] = e
  BY <1>1, SMTT(30)
<1>3. Len(es) \in Nat /\ Len(es \o <<e>>) = Len(es) + 1
  BY <1>2, ConcatProperties, LenProperties
<1>4. \A i \in 1 .. Len(es) + 1 :
        (es \o <<e>>)[i] = IF i <= Len(es) THEN es[i] ELSE <<e>>[i - Len(es)]
  BY <1>2, ConcatProperties
<1>5. ASSUME NEW i \in Nat, Won(es \o <<e>>, i)
      PROVE  \/ Won(es, i) /\ (es \o <<e>>)[i] = es[i]
             \/ i = Len(es) + 1 /\ (es \o <<e>>)[i] = e
  <2>1. i \in 1 .. Len(es) + 1 /\ (es \o <<e>>)[i].kind = "WonLeaderElection"
    BY <1>3, <1>5 DEF Won
  <2>2. CASE i <= Len(es)
    BY <1>3, <1>4, <2>1, <2>2, SMTT(30) DEF Won
  <2>3. CASE i > Len(es)
    <3>1. i = Len(es) + 1 /\ i - Len(es) = 1
      BY <1>3, <2>1, <2>3, SMTT(30)
    <3> QED
      BY <1>2, <1>3, <1>4, <2>1, <3>1, SMTT(30)
  <2>4. i <= Len(es) \/ i > Len(es)
    BY <1>3, SMTT(30)
  <2> QED
    BY <2>2, <2>3, <2>4
<1> QED
  BY <1>5 DEF e

\* Taking the first update moves the others up.
LEMMA WonAfterTail ==
  ASSUME NEW es \in Seq(Event), es # <<>>
  PROVE  /\ \A i \in Nat : Won(Tail(es), i) => Won(es, i + 1) /\ Tail(es)[i] = es[i + 1]
         /\ Head(es).kind = "WonLeaderElection" => Won(es, 1) /\ Head(es) = es[1]
<1>1. Len(es) \in Nat /\ Len(es) > 0 /\ Len(Tail(es)) = Len(es) - 1 /\ Head(es) = es[1]
  BY SMTT(30)
<1>2. \A i \in 1 .. Len(Tail(es)) : Tail(es)[i] = es[i + 1]
  BY SMTT(30)
<1> QED
  BY <1>1, <1>2, SMTT(30) DEF Won

\* A step keeps each server's tasks and calls in agreement.
LEMMA TasksStep ==
  ASSUME Types, Tasks, NEW p \in Servers, Step(p) PROVE Tasks'
<1>1. Types' /\ \A q \in Servers \ {p} : UNCHANGED Own(q)
  BY StepTypes
<1>2. ASSUME NEW q \in Servers \ {p} PROVE TasksOf(q)'
  <2>1. TasksOf(q)
    BY DEF Tasks
  <2>2. /\ updates'[q] = updates[q] /\ status'[q] = status[q] /\ authority'[q] = authority[q]
        /\ events'[q] = events[q] /\ leader'[q] = leader[q] /\ task'[q] = task[q]
    BY <1>1 DEF Own
  <2> QED
    BY <2>1, <2>2 DEF TasksOf, Elects
<1>3. SUFFICES TasksOf(p)'
  BY <1>2 DEF Tasks
<1>4. /\ TasksOf(p) /\ ServerTypes /\ updates \in [Servers -> [Threads -> Update]]
      /\ authority[p] \in AuthorityState
  BY DEF Tasks, Types, Calls, StoreTypes, ServerTypes
<1>5. /\ "authority" \in Threads /\ "leader" \in Threads /\ "authority" \in Threads \ {"leader"}
      /\ Idle.stage = "idle" /\ RequestFailed.stage = "failed" /\ \A s : Begin(s).stage = "check"
  BY ControllerAssumption DEF Idle, RequestFailed, Begin
<1>6. ASSUME NEW how \in {"down", "lost"}, Down(p, how) PROVE TasksOf(p)'
  <2>1. /\ \A r \in Threads : updates'[p][r] = Idle
        /\ status'[p] = how /\ authority'[p].pc = "ended" /\ events'[p] = <<>>
        /\ leader'[p] = None /\ task'[p] = None
    BY <1>6, DownOnly
  <2> QED
    BY <1>5, <2>1 DEF TasksOf, Elects
<1>7. ASSUME NEW t \in Threads, NEW u, Becomes(p, t, u)
      PROVE  updates'[p][t] = u /\ \A r \in Threads \ {t} : updates'[p][r] = updates[p][r]
  BY <1>4, <1>7 DEF Becomes
<1>8. ASSUME NEW pc, Goto(p, pc) PROVE authority'[p].pc = pc
  BY <1>4, <1>8 DEF Goto, ServerTypes, AuthorityState
<1>9. CASE Start(p)
  <2>1. authority'[p].pc = "get_leader" /\ status'[p] = "up" /\ status[p] = "new"
    BY <1>4, <1>8, <1>9 DEF Start, ServerTypes
  <2>2. UNCHANGED <<updates, events, leader, task>>
    BY <1>9 DEF Start, register_worker
  <2> QED
    BY <1>4, <2>1, <2>2 DEF TasksOf
<1>10. ASSUME NEW b \in BOOLEAN, GetLeader(p, b) PROVE TasksOf(p)'
  <2>1. UNCHANGED <<updates, status, events, leader, task>> /\ At(p, "get_leader")
    BY <1>10 DEF GetLeader, authorityVars
  <2> QED
    BY <1>4, <2>1 DEF TasksOf, At
<1>11. CASE BecomeLeader(p)
  <2>1. CASE UNCHANGED <<updates, status, events, leader, task>>
    BY <1>4, <1>11, <2>1 DEF TasksOf, At, BecomeLeader
  <2> QED
    BY <1>6, <1>11, <2>1 DEF BecomeLeader, authorityVars
<1>12. ASSUME NEW b \in BOOLEAN, ReadBack(p, b) PROVE TasksOf(p)'
  <2>1. UNCHANGED <<status, events, leader, task>> /\ At(p, "readback")
    BY <1>12 DEF ReadBack
  <2>2. CASE b
    <3>1. authority' = [authority EXCEPT ![p].pc = "update",
            ![p].controller_index = IF controller.session = p THEN controller.index ELSE @]
          /\ Becomes(p, "authority", Begin(None))
      BY <1>12, <2>2 DEF ReadBack
    <3>2. authority'[p].pc = "update"
      BY <1>4, <3>1 DEF ServerTypes, AuthorityState
    <3>3. updates'[p]["leader"] = updates[p]["leader"]
      BY <1>5, <1>7, <3>1
    <3> QED
      BY <1>4, <2>1, <3>2, <3>3 DEF TasksOf, At
  <2>3. CASE ~b
    BY <1>4, <1>12, <2>1, <2>3 DEF TasksOf, At, ReadBack
  <2> QED
    BY <2>2, <2>3
<1>13. ASSUME NEW t \in Threads, Updating(p, t) PROVE TasksOf(p)'
  <2>1. update_controller_state(p, t) /\ UNCHANGED serverVars
    BY <1>13 DEF Updating
  <2>2. updates[p][t].stage # "idle" /\ updates'[p][t].stage # "idle"
    BY <2>1, CallStages DEF Types
  <2>3. \A r \in Threads \ {t} : updates'[p][r] = updates[p][r]
    BY <2>1, CallTypes DEF Types
  <2>4. t \in {"authority", "leader"}
    BY ControllerAssumption
  <2> QED
    BY <1>4, <1>5, <2>1, <2>2, <2>3, <2>4 DEF TasksOf, Elects, serverVars
<1>14. CASE Elected(p)
  <2>1. CASE updates[p]["authority"].stage = "returned"
    <3>1. Becomes(p, "authority", Idle) /\ UNCHANGED <<status, leader, task>> /\ At(p, "update")
      BY <1>14, <2>1 DEF Elected
    <3>2. updates'[p]["authority"] = Idle /\ updates'[p]["leader"] = updates[p]["leader"]
      BY <1>5, <1>7, <3>1
    <3> QED
      BY <1>4, <1>5, <3>1, <3>2 DEF TasksOf, At
  <2> QED
    BY <1>6, <1>14, <2>1 DEF Elected
<1>15. CASE Heartbeat(p)
  <2>1. At(p, "heartbeat")
    BY <1>15 DEF Heartbeat
  <2>2. CASE UNCHANGED <<updates, status, events, leader, task>>
    BY <1>4, <2>1, <2>2 DEF TasksOf, At
  <2> QED
    BY <1>6, <1>15, <2>2 DEF Heartbeat
<1>16. CASE update_worker_state(p)
  <2>1. At(p, "workers") /\ UNCHANGED <<updates, status, leader, task>>
    BY <1>16 DEF update_worker_state, authorityVars
  <2> QED
    BY <1>4, <2>1 DEF TasksOf, At
<1>17. CASE HandleWonLeaderElection(p)
  <2>1. Free(p) /\ UNCHANGED <<updates, status, authority, task>>
    BY <1>17 DEF HandleWonLeaderElection, authorityVars, Arrives
  <2> QED
    BY <1>4, <2>1 DEF TasksOf, Free
<1>18. ASSUME NEW kind \in {"NewWorkers", "FailedWorkers"}, HandleWorkers(p, kind)
       PROVE  TasksOf(p)'
  <2>1. CASE leader[p] = None
    BY <1>6, <1>18, <2>1 DEF HandleWorkers
  <2>2. CASE leader[p] # None
    <3>1. Free(p) /\ Becomes(p, "leader", Begin(leader[p].state))
          /\ UNCHANGED <<status, authority, leader>>
      BY <1>18, <2>2 DEF HandleWorkers, Arrives
    <3>2. updates'[p]["leader"].stage = "check"
          /\ updates'[p]["authority"] = updates[p]["authority"]
      <4>1. /\ updates'[p]["leader"] = Begin(leader[p].state)
            /\ updates'[p]["authority"] = updates[p]["authority"]
        BY <1>5, <1>7, <3>1
      <4> QED
        BY <1>5, <4>1
    <3>3. task'[p] # None
      <4> DEFINE c == [kind |-> "workers", state |-> leader[p].state,
                       workers |-> IF kind = "NewWorkers"
                                   THEN leader[p].workers \cup uris(Head(events[p]).workers)
                                   ELSE leader[p].workers \ uris(Head(events[p]).workers)]
      <4>1. task' = [task EXCEPT ![p] = c]
        BY <1>18, <2>2 DEF HandleWorkers
      <4>2. task'[p] = c
        BY <1>4, <4>1 DEF ServerTypes
      <4>3. c.kind = "workers"
        OBVIOUS
      <4> HIDE DEF c
      <4>4. task'[p] \in Commit \cup {None}
        BY <1>1 DEF Types, Calls, ServerTypes
      <4>5. CASE c \in Commit
        BY <4>2, <4>5, LeaderAssumption
      <4>6. CASE c = None
        <5>1. /\ events[p] \in Seq(Event) /\ events[p] # <<>>
              /\ Head(events[p]).kind = kind /\ leader[p] \in LeaderState
          BY <1>4, <1>18, <2>2 DEF HandleWorkers, Arrives, ServerTypes
        <5>2. Head(events[p]) \in Event
          BY <5>1, SMTT(30)
        <5>3. uris(Head(events[p]).workers) \in SUBSET Uris
          <6>1. Head(events[p]).workers \in SUBSET Servers
            BY <5>1, <5>2 DEF Event
          <6> QED
            BY <6>1, UriTypes
        <5>4. c \in Commit
          BY <5>1, <5>3 DEF c, Commit, LeaderState
        <5> QED
          BY <4>6, <5>4, LeaderAssumption
      <4> QED
        BY <4>2, <4>4, <4>5, <4>6
    <3> QED
      BY <1>4, <2>2, <3>1, <3>2, <3>3 DEF TasksOf, Free
  <2> QED
    BY <2>1, <2>2
<1>19. CASE Committed(p)
  <2> DEFINE u == updates[p]["leader"]
  <2>1. status[p] \in {"up", "stopping"}
    BY <1>19 DEF Committed
  <2>2. CASE u.stage = "returned" \/ task[p].kind = "request"
    <3>1. /\ task' = [task EXCEPT ![p] = None]
          /\ Becomes(p, "leader", Idle)
          /\ UNCHANGED <<status, authority, events>>
      BY <1>19, <2>2 DEF Committed
    <3>2. task'[p] = None /\ updates'[p]["leader"] = Idle
          /\ updates'[p]["authority"] = updates[p]["authority"]
      BY <1>4, <1>5, <1>7, <3>1 DEF ServerTypes
    <3> QED
      BY <1>4, <1>5, <2>1, <3>1, <3>2 DEF TasksOf, Elects
  <2>3. CASE ~(u.stage = "returned" \/ task[p].kind = "request")
    BY <1>6, <1>19, <2>3 DEF Committed
  <2> QED
    BY <2>2, <2>3
<1>20. CASE Surrender(p)
  <2>1. /\ UNCHANGED <<updates, authority, events, task>> /\ status[p] = "stopping"
        /\ task[p] = None
    BY <1>20 DEF Surrender, Stopped
  <2>2. status'[p] = "down" /\ leader'[p] = None
    BY <1>4, <1>20, <2>1 DEF Surrender, ServerTypes
  <2> QED
    BY <1>4, <2>1, <2>2 DEF TasksOf, Elects
<1>21. ASSUME NEW c \in Changes, Request(p, c) PROVE TasksOf(p)'
  <2> DEFINE s == leader[p].state \cup {c}
             n == [kind |-> "request", state |-> s, workers |-> leader[p].workers]
  <2>1. /\ UNCHANGED <<status, authority, events, leader>>
        /\ Becomes(p, "leader", Begin(s)) /\ Free(p) /\ leader[p] # None
        /\ task' = [task EXCEPT ![p] = n]
    BY <1>21 DEF Request
  <2>2. updates'[p]["leader"].stage = "check"
        /\ updates'[p]["authority"] = updates[p]["authority"]
    <3>1. /\ updates'[p]["leader"] = Begin(s)
          /\ updates'[p]["authority"] = updates[p]["authority"]
      BY <1>5, <1>7, <2>1
    <3> QED
      BY <1>5, <3>1
  <2>3. leader[p] \in LeaderState
    BY <1>4, <2>1 DEF ServerTypes
  <2>4. n \in Commit
    BY <2>3 DEF Commit, LeaderState
  <2> HIDE DEF n
  <2>5. task'[p] # None
    BY <1>4, <2>1, <2>4, LeaderAssumption DEF ServerTypes
  <2> QED
    BY <1>4, <2>1, <2>2, <2>5 DEF TasksOf, Free
<1>22. CASE Expire(p) /\ UNCHANGED serverVars
  BY <1>4, <1>22 DEF Expire, serverVars, TasksOf, Elects
<1>23. CASE Crash(p)
  BY <1>6, <1>23 DEF Crash
<1>24. CASE Stop(p)
  <2>1. /\ status' = [status EXCEPT ![p] = "stopping"]
        /\ events' = [events EXCEPT ![p] = <<>>]
        /\ Becomes(p, "authority", Idle)
        /\ UNCHANGED <<leader, task>>
    BY <1>24 DEF Stop
  <2>2. /\ status'[p] = "stopping" /\ events'[p] = <<>> /\ authority'[p].pc = "ended"
        /\ updates'[p]["authority"] = Idle /\ updates'[p]["leader"] = updates[p]["leader"]
    BY <1>4, <1>5, <1>7, <1>24, <2>1, StopEnds
  <2> QED
    BY <1>4, <1>5, <2>1, <2>2 DEF TasksOf, Elects
<1>25. CASE RequestFails(p, "leader") /\ UNCHANGED serverVars
  <2>1. Becomes(p, "leader", RequestFailed) /\ updates[p]["leader"].stage \in {"write", "set"}
    BY <1>25 DEF RequestFails
  <2>2. updates'[p]["leader"].stage = "failed"
        /\ updates'[p]["authority"] = updates[p]["authority"]
    BY <1>5, <1>7, <2>1
  <2> QED
    BY <1>4, <1>25, <2>1, <2>2 DEF serverVars, TasksOf, Elects
<1> QED
  BY <1>9, <1>10, <1>11, <1>12, <1>13, <1>14, <1>15, <1>16, <1>17, <1>18, <1>19,
     <1>20, <1>21, <1>22, <1>23, <1>24, <1>25 DEF Step

\* Sessions begin with their server, and only its own steps change its lock.
LEMMA KeyStep ==
  ASSUME Types, NEW p \in Servers, Step(p)
  PROVE  /\ \A q \in live' : q \in live \/ (q = p /\ Start(p))
         /\ \A q \in Servers \ {p} : controller.session = q => controller' = controller
<1>1. CASE UNCHANGED <<live, controller>>
  BY <1>1
<1>2. CASE Start(p)
  BY <1>2 DEF Start, register_worker
<1>3. CASE BecomeLeader(p)
  <2>1. CASE AcquireLeadership(p)
    <3>1. controller.session \in {None, p} /\ UNCHANGED live
      BY <2>1 DEF AcquireLeadership, MayAcquire
    <3> QED
      BY <3>1, NoneAssumption
  <2> QED
    BY <1>1, <1>3, <2>1 DEF BecomeLeader, authorityVars, store
<1>4. CASE Surrender(p)
  BY <1>1, <1>4 DEF Surrender, surrender_leadership, store
<1>5. CASE Expire(p)
  BY <1>5 DEF Expire
<1>6. ASSUME NEW t \in Threads, Updating(p, t) PROVE UNCHANGED <<live, controller>>
  BY <1>6, CallStages DEF Types, Updating
<1>7. CASE \/ \E b \in BOOLEAN : GetLeader(p, b)
           \/ \E b \in BOOLEAN : ReadBack(p, b)
           \/ Elected(p) \/ Heartbeat(p) \/ update_worker_state(p)
           \/ HandleWonLeaderElection(p)
           \/ \E kind \in {"NewWorkers", "FailedWorkers"} : HandleWorkers(p, kind)
           \/ Committed(p) \/ (\E c \in Changes : Request(p, c))
           \/ Crash(p) \/ Stop(p)
  <2>1. UNCHANGED <<live, controller>>
    BY <1>7 DEF GetLeader, ReadBack, Elected, Heartbeat, update_worker_state,
                HandleWonLeaderElection, HandleWorkers, Committed, Request, Crash, Stop,
                authorityVars, store
  <2> QED
    BY <1>1, <2>1
<1>8. CASE RequestFails(p, "leader")
  BY <1>1, <1>8 DEF RequestFails, store
<1> QED
  BY <1>1, <1>2, <1>3, <1>4, <1>5, <1>6, <1>7, <1>8 DEF Step

\* At most one update, and not of an election.
LEMMA OneUpdate ==
  ASSUME NEW e \in Event, e.kind # "WonLeaderElection", NEW es \in {<<>>, <<e>>}
  PROVE  es \in Seq(Event) /\ \A i \in 1 .. Len(es) : es[i].kind # "WonLeaderElection"
<1>1. CASE es = <<>>
  BY <1>1, SMTT(30)
<1>2. CASE es = <<e>>
  <2>1. Len(es) = 1 /\ es[1] = e /\ es \in Seq(Event)
    BY <1>2, SMTT(30)
  <2>2. ASSUME NEW i \in 1 .. Len(es) PROVE i = 1
    BY <2>1, SMTT(30)
  <2> QED
    BY <2>1, <2>2
<1> QED
  BY <1>1, <1>2

\* The events of p after a step hold no election that was not there before,
\* unless p was just elected.
LEMMA EventsStep ==
  ASSUME Types, NEW p \in Servers, Step(p), ~Elected(p)
  PROVE  \/ UNCHANGED <<events[p], leader[p]>>
         \/ events'[p] = <<>> /\ leader'[p] \in {leader[p], None}
         \/ /\ \A i \in Nat : Won(events'[p], i) =>
                 Won(events[p], i) /\ events'[p][i] = events[p][i]
            /\ leader'[p] = leader[p]
         \/ /\ events[p] # <<>> /\ events'[p] = Tail(events[p])
            /\ \A i \in Nat : Won(events'[p], i) =>
                 Won(events[p], i + 1) /\ events'[p][i] = events[p][i + 1]
            /\ \/ leader'[p] = leader[p]
               \/ /\ Won(events[p], 1)
                  /\ leader'[p] = [state |-> events[p][1].state, workers |-> {}]
         \/ UNCHANGED events[p] /\ (Committed(p) \/ Surrender(p))
<1>1. ServerTypes /\ events[p] \in Seq(Event)
  BY DEF Types, Calls, ServerTypes
<1>2. ASSUME NEW how \in {"down", "lost"}, Down(p, how)
      PROVE  events'[p] = <<>> /\ leader'[p] = None
  BY <1>1, <1>2 DEF Down, ServerTypes
<1>3. CASE update_worker_state(p)
  <2> DEFINE active == authority[p].active_workers
             lost == Gone(active, get_workers)
             new == get_workers \ (active \ lost)
             gone == IF lost = {} THEN <<>> ELSE <<FailedWorkers(lost)>>
             came == IF new = {} THEN <<>> ELSE <<NewWorkers(new)>>
  <2>1. events' = [events EXCEPT ![p] = @ \o (gone \o came)] /\ UNCHANGED leader
    BY <1>3 DEF update_worker_state, Sends
  <2>2. lost \in SUBSET Servers /\ new \in SUBSET Servers
    <3>1. active \in SUBSET Servers
      BY <1>1 DEF ServerTypes, AuthorityState
    <3> QED
      BY <3>1 DEF Types, Calls, StoreTypes, Gone, get_workers
  <2> HIDE DEF lost, new, active
  <2> DEFINE e == FailedWorkers(lost)
             f == NewWorkers(new)
  <2>3. /\ e \in Event /\ f \in Event
        /\ e.kind # "WonLeaderElection" /\ f.kind # "WonLeaderElection"
    BY <2>2 DEF FailedWorkers, NewWorkers, Event
  <2>4. gone \in {<<>>, <<e>>} /\ came \in {<<>>, <<f>>}
    OBVIOUS
  <2> HIDE DEF e, f, gone, came
  <2>5. gone \o came \in Seq(Event)
        /\ \A i \in 1 .. Len(gone \o came) : (gone \o came)[i].kind # "WonLeaderElection"
    <3>1. gone \in Seq(Event) /\ \A i \in 1 .. Len(gone) : gone[i].kind # "WonLeaderElection"
      BY <2>3, <2>4, OneUpdate
    <3>2. came \in Seq(Event) /\ \A i \in 1 .. Len(came) : came[i].kind # "WonLeaderElection"
      BY <2>3, <2>4, OneUpdate
    <3>3. /\ gone \o came \in Seq(Event)
          /\ Len(gone) \in Nat /\ Len(came) \in Nat
          /\ Len(gone \o came) = Len(gone) + Len(came)
          /\ \A i \in 1 .. Len(gone) + Len(came) :
               (gone \o came)[i] = IF i <= Len(gone) THEN gone[i] ELSE came[i - Len(gone)]
      BY <3>1, <3>2, ConcatProperties, LenProperties
    <3>4. ASSUME NEW i \in 1 .. Len(gone \o came)
          PROVE  (gone \o came)[i].kind # "WonLeaderElection"
      <4>1. i \in 1 .. Len(gone) \/ (i - Len(gone) \in 1 .. Len(came) /\ ~(i <= Len(gone)))
        BY <3>3, SMTT(30)
      <4> QED
        BY <3>1, <3>2, <3>3, <4>1, SMTT(30)
    <3> QED
      BY <3>3, <3>4
  <2>6. events'[p] = events[p] \o (gone \o came) /\ leader'[p] = leader[p]
    BY <1>1, <2>1 DEF ServerTypes
  <2> QED
    <3> DEFINE ws == gone \o came
    <3>1. /\ ws \in Seq(Event) /\ events'[p] = events[p] \o ws
          /\ \A i \in 1 .. Len(ws) : ws[i].kind # "WonLeaderElection"
      BY <2>5, <2>6
    <3> HIDE DEF ws
    <3>2. \A i \in Nat : Won(events[p] \o ws, i) =>
            Won(events[p], i) /\ (events[p] \o ws)[i] = events[p][i]
      BY <1>1, <3>1, WonAfterWorkers
    <3> QED
      BY <2>6, <3>1, <3>2
<1>4. ASSUME events' = [events EXCEPT ![p] = Tail(@)], events[p] # <<>>
      PROVE  /\ events'[p] = Tail(events[p])
             /\ \A i \in Nat : Won(events'[p], i) =>
                  Won(events[p], i + 1) /\ events'[p][i] = events[p][i + 1]
  BY <1>1, <1>4, WonAfterTail DEF ServerTypes
<1>5. CASE HandleWonLeaderElection(p)
  <2>1. /\ events' = [events EXCEPT ![p] = Tail(@)] /\ events[p] # <<>>
        /\ Head(events[p]).kind = "WonLeaderElection"
        /\ leader' = [leader EXCEPT ![p] = [state |-> Head(events[p]).state, workers |-> {}]]
    BY <1>5 DEF HandleWonLeaderElection, Arrives
  <2>2. Won(events[p], 1) /\ Head(events[p]) = events[p][1]
    BY <1>1, <2>1, WonAfterTail
  <2>3. leader'[p] = [state |-> events[p][1].state, workers |-> {}]
    BY <1>1, <2>1, <2>2 DEF ServerTypes
  <2> QED
    BY <1>4, <2>1, <2>2, <2>3
<1>6. ASSUME NEW kind \in {"NewWorkers", "FailedWorkers"}, HandleWorkers(p, kind), leader[p] # None
      PROVE  /\ events' = [events EXCEPT ![p] = Tail(@)] /\ events[p] # <<>>
             /\ UNCHANGED leader
  BY <1>6 DEF HandleWorkers, Arrives
<1>7. ASSUME NEW kind \in {"NewWorkers", "FailedWorkers"}, HandleWorkers(p, kind), leader[p] = None
      PROVE  events'[p] = <<>> /\ leader'[p] = None
  BY <1>2, <1>7 DEF HandleWorkers
<1>8. CASE Stop(p)
  BY <1>1, <1>8 DEF Stop, ServerTypes
<1>9. CASE Committed(p)
  <2>1. UNCHANGED events \/ \E how \in {"down", "lost"} : Down(p, how)
    BY <1>9 DEF Committed
  <2> QED
    BY <1>2, <1>9, <2>1
<1>10. CASE Surrender(p)
  BY <1>10 DEF Surrender
<1>11. CASE BecomeLeader(p) \/ Heartbeat(p) \/ Crash(p)
  <2>1. UNCHANGED <<events, leader>> \/ Down(p, "down")
    BY <1>11 DEF BecomeLeader, Heartbeat, Crash
  <2> QED
    BY <1>2, <2>1
<1>12. CASE \/ Start(p) \/ (\E b \in BOOLEAN : GetLeader(p, b))
            \/ (\E b \in BOOLEAN : ReadBack(p, b)) \/ (\E t \in Threads : Updating(p, t))
            \/ (\E c \in Changes : Request(p, c))
            \/ UNCHANGED serverVars
  <2>1. UNCHANGED <<events, leader>>
    BY <1>12 DEF Start, GetLeader, ReadBack, Updating, Request, serverVars
  <2> QED
    BY <2>1
<1> QED
  BY <1>3, <1>4, <1>5, <1>6, <1>7, <1>8, <1>9, <1>10, <1>11, <1>12 DEF Step

\* A server elects only after it took the key.
LEMMA ElectsStep ==
  ASSUME Types, NEW p \in Servers, Step(p), Elects(p)'
  PROVE  Elects(p) \/ (AcquireLeadership(p) /\ BecomeLeader(p))
<1>1. ServerTypes /\ authority[p] \in AuthorityState
  BY DEF Types, Calls, ServerTypes
<1>2. ASSUME NEW how \in {"down", "lost"}, Down(p, how) PROVE FALSE
  BY <1>2, DownOnly DEF Elects
<1>3. ASSUME NEW pc, Goto(p, pc) PROVE authority'[p].pc = pc
  BY <1>1, <1>3 DEF Goto, ServerTypes, AuthorityState
<1>4. CASE UNCHANGED authority
  BY <1>4 DEF Elects
<1>5. CASE Start(p)
  BY <1>3, <1>5 DEF Start, Elects
<1>6. ASSUME NEW b \in BOOLEAN, GetLeader(p, b) PROVE FALSE
  <2>1. \/ Goto(p, "become_leader") \/ Goto(p, "heartbeat")
        \/ authority' = [authority EXCEPT ![p].controller_index = controller.index,
                           ![p].is_leader = FALSE, ![p].pc = "heartbeat"]
    BY <1>6 DEF GetLeader
  <2>2. authority'[p].pc \in {"become_leader", "heartbeat"}
    BY <1>1, <1>3, <2>1, SMTT(30) DEF ServerTypes, AuthorityState
  <2> QED
    BY <2>2 DEF Elects
<1>7. CASE BecomeLeader(p)
  BY <1>2, <1>3, <1>7 DEF BecomeLeader, Elects
<1>8. ASSUME NEW b \in BOOLEAN, ReadBack(p, b) PROVE Elects(p)
  BY <1>8 DEF ReadBack, At, Elects
<1>9. CASE Elected(p)
  BY <1>9 DEF Elected, At, Elects
<1>10. CASE Heartbeat(p)
  <2>1. CASE p \in live
    <3>1. authority' = [authority EXCEPT
            ![p].pc = IF authority[p].is_leader THEN "workers" ELSE "get_leader",
            ![p].last_leader_state = authority[p].is_leader,
            ![p].active_workers =
               IF authority[p].is_leader /\ ~authority[p].last_leader_state THEN {} ELSE @]
      BY <1>10, <2>1 DEF Heartbeat
    <3>2. authority'[p].pc \in {"workers", "get_leader"}
      BY <1>1, <3>1 DEF ServerTypes, AuthorityState
    <3> QED
      BY <3>2 DEF Elects
  <2> QED
    BY <1>2, <1>10, <2>1 DEF Heartbeat
<1>11. CASE update_worker_state(p)
  <2>1. authority'[p].pc = "get_leader"
    BY <1>1, <1>11 DEF update_worker_state, ServerTypes, AuthorityState
  <2> QED
    BY <2>1 DEF Elects
<1>12. ASSUME NEW kind \in {"NewWorkers", "FailedWorkers"}, HandleWorkers(p, kind)
       PROVE  Elects(p)
  BY <1>2, <1>12 DEF HandleWorkers, Elects
<1>13. CASE Committed(p)
  BY <1>2, <1>4, <1>13 DEF Committed
<1>14. CASE Crash(p)
  BY <1>2, <1>14 DEF Crash
<1>15. CASE Stop(p)
  BY <1>1, <1>15, StopEnds DEF Elects
<1>16. CASE \/ (\E t \in Threads : Updating(p, t)) \/ HandleWonLeaderElection(p)
            \/ Surrender(p) \/ (\E c \in Changes : Request(p, c)) \/ UNCHANGED serverVars
  <2>1. UNCHANGED authority
    BY <1>16 DEF Updating, HandleWonLeaderElection, Surrender, Request, serverVars
  <2> QED
    BY <1>4, <2>1
<1> QED
  BY <1>5, <1>6, <1>7, <1>8, <1>9, <1>10, <1>11, <1>12, <1>13, <1>14, <1>15, <1>16 DEF Step

\* A live server with a call under way leads.
LEMMA CallLeads ==
  ASSUME Tasks, NEW p \in Servers, NEW t \in Threads, updates[p][t].stage # "idle"
  PROVE  Leads(p)
<1>1. TasksOf(p) /\ t \in {"authority", "leader"}
  BY ControllerAssumption DEF Tasks
<1> QED
  BY <1>1 DEF TasksOf, Leads, Elects

\* A server that leads after a step led before it or has just taken the key.
LEMMA LeadsStep ==
  ASSUME Types, Tasks, NEW p \in Servers, Step(p), Leads(p)'
  PROVE  ~Start(p) /\ ~Surrender(p)
         /\ (Leads(p) \/ (AcquireLeadership(p) /\ BecomeLeader(p)))
<1>1. TasksOf(p) /\ Tasks'
  BY TasksStep DEF Tasks
<1>2. CASE Start(p)
  <2>1. status[p] = "new" /\ UNCHANGED <<events, leader>> /\ ~Elects(p)
    BY <1>1, <1>2 DEF Start, TasksOf
  <2>2. leader[p] = None /\ events[p] = <<>>
    BY <1>1, <2>1 DEF TasksOf
  <2>3. ~BecomeLeader(p)
    BY <2>1 DEF BecomeLeader, At
  <2>4. ~HasWon(p)'
    <3>1. events'[p] = <<>>
      BY <2>1, <2>2
    <3> QED
      BY <3>1, NothingWon DEF HasWon
  <2> QED
    BY <2>1, <2>2, <2>3, <2>4, ElectsStep DEF Leads
<1>3. CASE Surrender(p)
  <2>1. /\ status[p] = "stopping" /\ UNCHANGED <<events, authority>>
    BY <1>3 DEF Surrender
  <2>2. ~Elects(p)' /\ events'[p] = <<>> /\ leader'[p] = None
    BY <1>1, <1>3, <2>1 DEF Surrender, TasksOf, Elects, Types, Calls, ServerTypes
  <2>3. ~HasWon(p)'
    BY <2>2, NothingWon DEF HasWon
  <2> QED
    BY <2>2, <2>3 DEF Leads
<1>4. CASE Elected(p)
  BY <1>2, <1>3, <1>4 DEF Elected, At, Leads, Elects
<1>5. CASE ~Elected(p) /\ (leader[p] # None \/ HasWon(p))
  BY <1>2, <1>3, <1>5 DEF Leads
<1>6. CASE ~Elected(p) /\ leader[p] = None /\ ~HasWon(p)
  <2>1. ~HasWon(p)' /\ leader'[p] = None
    <3>1. task[p] = None
      BY <1>1, <1>6 DEF TasksOf
    <3>2. ~Committed(p)
      BY <1>1, <3>1 DEF Committed, TasksOf
    <3>3. \A i \in Nat : ~Won(<<>>, i)
      BY NothingWon
    <3>4. \A i \in Nat : ~Won(events[p], i)
      BY <1>6 DEF HasWon
    <3>5. \A i \in Nat : i + 1 \in Nat
      BY SMTT(30)
    <3>6. \A i \in Nat : ~Won(events'[p], i)
      BY <1>3, <1>6, <3>2, <3>3, <3>4, <3>5, EventsStep
    <3>7. leader'[p] = None
      BY <1>3, <1>6, <3>2, <3>4, EventsStep
    <3> QED
      BY <3>6, <3>7 DEF HasWon
  <2> QED
    BY <1>2, <1>3, <2>1, ElectsStep DEF Leads
<1> QED
  BY <1>4, <1>5, <1>6

\* A step leaves the leader key with the live server that leads.
LEMMA HoldsKeyStep ==
  ASSUME KInv, NEW p \in Servers, Step(p) PROVE HoldsKey'
<1>1. Types /\ Tasks /\ HoldsKey
  BY DEF KInv
<1>2. SUFFICES ASSUME NEW q \in live', Leads(q)' PROVE controller'.session = q
  BY DEF HoldsKey
<1>3. q \in Servers
  BY <1>1, StepTypes DEF Types, Calls, StoreTypes
<1>4. CASE q # p
  <2>1. UNCHANGED Own(q)
    BY <1>1, <1>3, <1>4, StepTypes
  <2>2. Leads(q)
    BY <2>1, <1>2 DEF Own, Leads, Elects, HasWon
  <2>3. q \in live
    BY <1>1, <1>4, KeyStep
  <2> QED
    BY <1>1, <1>3, <1>4, <2>2, <2>3, KeyStep DEF HoldsKey
<1>5. CASE q = p
  <2>1. ~Start(p) /\ ~Surrender(p) /\ (Leads(p) \/ AcquireLeadership(p))
    BY <1>1, <1>2, <1>5, LeadsStep
  <2>2. CASE AcquireLeadership(p)
    <3>1. controller' = Modified([controller EXCEPT !.session = p, !.leader = p])
      BY <2>2 DEF AcquireLeadership
    <3>2. controller'.session = p
      BY <1>1, <3>1 DEF Modified, Types, Calls, StoreTypes
    <3> QED
      BY <1>5, <3>2
  <2>3. CASE ~AcquireLeadership(p)
    <3>1. p \in live /\ controller.session = p
      BY <1>1, <1>5, <2>1, <2>3, KeyStep DEF HoldsKey
    <3>2. ~Expire(p)
      BY <1>2, <1>5 DEF Expire
    <3>3. UNCHANGED controller
      <4>1. ASSUME NEW t \in Threads, Updating(p, t) PROVE UNCHANGED controller
        BY <1>1, <4>1, CallStages DEF Types, Updating
      <4>2. CASE BecomeLeader(p)
        BY <2>3, <4>2 DEF BecomeLeader, authorityVars, store
      <4>3. CASE RequestFails(p, "leader")
        BY <4>3 DEF RequestFails, store
      <4> QED
        BY <2>1, <3>2, <4>1, <4>2, <4>3
        DEF Step, GetLeader, ReadBack, Elected, Heartbeat, update_worker_state,
            HandleWonLeaderElection, HandleWorkers, Committed, Request, Crash, Stop,
            authorityVars, store
    <3> QED
      BY <1>5, <3>1, <3>3
  <2> QED
    BY <2>2, <2>3
<1> QED
  BY <1>4, <1>5

\* What belongs to the store's value of the state: only a call that sets it, of
\* a server whose session is valid, changes it.
LEMMA StateStep ==
  ASSUME Types, Tasks, NEW p \in Servers, Step(p), state'.value # state.value
  PROVE  \E t \in Threads :
           /\ updates[p][t].stage = "set"
           /\ p \in live
           /\ state' = [session |-> p, value |-> updates[p][t].value]
           /\ UNCHANGED <<live, controller, chunks>>
           /\ \/ write_controller_state_value(p, t)
                 /\ updates'[p][t] = Returned(updates[p][t].state)
              \/ t = "leader" /\ RequestFails(p, "leader")
                 /\ updates'[p][t] = RequestFailed
           /\ UNCHANGED serverVars
<1>1. /\ StoreTypes /\ updates \in [Servers -> [Threads -> Update]]
      /\ "leader" \in Threads
  BY ControllerAssumption DEF Types, Calls, StoreTypes
<1>2. ASSUME NEW t \in Threads, NEW u, Becomes(p, t, u) PROVE updates'[p][t] = u
  BY <1>1, <1>2 DEF Becomes
<1>3. ~UNCHANGED state
  OBVIOUS
<1>4. ~Expire(p)
  BY <1>1 DEF Expire, Unlocked, StoreTypes
<1>5. ASSUME NEW t \in Threads, Updating(p, t)
      PROVE  write_controller_state_value(p, t) /\ UNCHANGED serverVars
  BY <1>3, <1>5 DEF Updating, update_controller_state, CheckLeader,
       get_controller_state_value, get_controller_state, write_controller_state, store
<1>6. ASSUME NEW t \in Threads, write_controller_state_value(p, t)
      PROVE  /\ updates[p][t].stage = "set" /\ p \in live
             /\ state' = [session |-> p, value |-> updates[p][t].value]
             /\ UNCHANGED <<live, controller, chunks>>
             /\ updates'[p][t] = Returned(updates[p][t].state)
  BY <1>2, <1>3, <1>6 DEF write_controller_state_value, MaySetState, MayAcquire
<1>7. ASSUME RequestFails(p, "leader")
      PROVE  /\ updates[p]["leader"].stage = "set" /\ p \in live
             /\ state' = [session |-> p, value |-> updates[p]["leader"].value]
             /\ UNCHANGED <<live, controller, chunks>>
             /\ updates'[p]["leader"] = RequestFailed
  BY <1>1, <1>2, <1>3, <1>7 DEF RequestFails, MaySetState, MayAcquire, store
<1>8. \/ \E t \in Threads : Updating(p, t)
      \/ RequestFails(p, "leader") /\ UNCHANGED serverVars
  <2>1. ~Start(p)
    BY <1>3 DEF Start, register_worker
  <2>2. ~BecomeLeader(p)
    BY <1>3 DEF BecomeLeader, AcquireLeadership, authorityVars, store
  <2>3. ~Surrender(p)
    BY <1>3 DEF Surrender, surrender_leadership, store
  <2>4. ~Elected(p) /\ ~Heartbeat(p) /\ ~update_worker_state(p) /\ ~HandleWonLeaderElection(p)
        /\ ~Committed(p) /\ ~Crash(p) /\ ~Stop(p)
    BY <1>3 DEF Elected, Heartbeat, update_worker_state, HandleWonLeaderElection,
         Committed, Crash, Stop, authorityVars, store
  <2>5. \A b : ~GetLeader(p, b) /\ ~ReadBack(p, b) /\ ~HandleWorkers(p, b) /\ ~Request(p, b)
    BY <1>3 DEF GetLeader, ReadBack, HandleWorkers, Request, authorityVars, store
  <2> QED
    BY <1>4, <2>1, <2>2, <2>3, <2>4, <2>5 DEF Step
<1>9. CASE \E t \in Threads : Updating(p, t)
  <2>1. PICK t \in Threads : Updating(p, t)
    BY <1>9
  <2> QED
    BY <1>5, <1>6, <2>1
<1>10. CASE RequestFails(p, "leader") /\ UNCHANGED serverVars
  BY <1>1, <1>7, <1>10
<1> QED
  BY <1>8, <1>9, <1>10

\* KInv holds initially.
LEMMA KInvInit ==
  ASSUME Init PROVE KInv
<1>1. StoreTypes
  <2>1. Idle \in Update
    BY RestingTypes
  <2> QED
    BY <2>1 DEF Init, AuthorityInit, StoreTypes, Sessions
<1>2. ServerTypes
  <2>1. AuthorityTaskAt("init") \in AuthorityState
    BY TaskAtTypes DEF Places
  <2> QED
    BY <2>1, SMTT(30) DEF Init, ServerTypes
<1>3. "authority" \in Threads /\ "leader" \in Threads
  BY ControllerAssumption
<1>4. \A p \in Servers, t \in Threads : updates[p][t] = Idle
  BY DEF Init, AuthorityInit
<1>5. Types
  <2>1. Remaining(Idle)
    BY RestingTypes
  <2> QED
    BY <1>1, <1>2, <1>4, <2>1 DEF Types, Calls
<1>6. Tasks
  <2>1. Idle.stage = "idle"
    BY RestingTypes
  <2>2. ASSUME NEW p \in Servers
        PROVE  TasksOf(p)
    <3>1. /\ task[p] = None /\ status[p] = "new" /\ events[p] = <<>> /\ leader[p] = None
          /\ authority[p].pc \notin {"readback", "update"}
      BY DEF Init, AuthorityTaskAt
    <3>2. updates[p]["leader"].stage = "idle" /\ updates[p]["authority"].stage = "idle"
      BY <1>3, <1>4, <2>1
    <3> QED
      BY <3>1, <3>2 DEF TasksOf, Elects
  <2> QED
    BY <2>2 DEF Tasks
<1>7. HoldsKey
  BY DEF HoldsKey, Init, AuthorityInit
<1> QED
  BY <1>5, <1>6, <1>7 DEF KInv

\* Every step keeps KInv.
LEMMA KInvInductive ==
  ASSUME KInv, [Next]_vars PROVE KInv'
<1>1. CASE Next
  <2>1. PICK p \in Servers : Step(p)
    BY <1>1, NextIsStep
  <2> QED
    BY <2>1, StepTypes, TasksStep, HoldsKeyStep DEF KInv
<1>2. CASE UNCHANGED vars
  BY <1>2 DEF vars, authorityVars, serverVars, KInv, Types, Calls, StoreTypes, ServerTypes,
              Tasks, TasksOf, Elects, HoldsKey, Leads, HasWon
<1> QED
  BY <1>1, <1>2

\* The state key is only written by the server that holds the leader key, for
\* any servers, changes and failures of requests (update_controller_state).
THEOREM LeaderKeyGuardsState == Spec => OnlyTheLeaderStores
<1>1. ASSUME KInv, [Next]_vars
      PROVE  [state'.value # state.value => state'.session = controller.session]_vars
  <2>1. SUFFICES ASSUME Next, state'.value # state.value
                 PROVE  state'.session = controller.session
    BY <1>1
  <2>2. PICK p \in Servers : Step(p)
    BY <2>1, NextIsStep
  <2>3. PICK t \in Threads :
          /\ updates[p][t].stage = "set" /\ p \in live
          /\ state' = [session |-> p, value |-> updates[p][t].value]
    BY <1>1, <2>1, <2>2, StateStep DEF KInv
  <2>4. controller.session = p
    BY <1>1, <2>3, CallLeads DEF KInv, HoldsKey
  <2> QED
    BY <2>3, <2>4
<1> QED
  BY <1>1, KInvInit, KInvInductive, PTL DEF Spec, OnlyTheLeaderStores
=============================================================================
