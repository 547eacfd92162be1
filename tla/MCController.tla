----------------------------- MODULE MCController -----------------------------
(***************************************************************************)
(* Two servers over one Consul, the second of which may be started again   *)
(* at its address, as s3; one change of the state, which makes it too      *)
(* large for one key.                                                      *)
(***************************************************************************)
EXTENDS Controller, TLC

CONSTANTS s1, s2, s3

MCServers == {s1, s2, s3}
MCOrder == s1 :> 1 @@ s2 :> 2 @@ s3 :> 3
MCworker_uri == s1 :> "a" @@ s2 :> "b" @@ s3 :> "b"

\* The first state fits in a key; with the change it takes two chunks.
MCNumChunks == [s \in SUBSET Changes |-> IF s = {} THEN 1 ELSE 2]

\* A behaviour is not followed once a leader has misread its own key: all that
\* is asked of it from there on is OnlyTheLeaderStores, which is proved.
BeforeMisread == ~misread

MCThreads == {"authority", "leader"}

=============================================================================
