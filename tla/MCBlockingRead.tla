--------------------------- MODULE MCBlockingRead ---------------------------
(* Instances of BlockingRead for TLC.                                       *)
EXTENDS BlockingRead

CONSTANTS k1, k2

Query(keys, stamped, block) == [keys |-> keys, stamped |-> stamped, block |-> block]

\* No key is taken away: lookups of all keys that wait, for a timestamp or
\* not, and lookups of one key that do not block.
Undisturbing ==
  [queries |-> {Query(Keys, s, TRUE) : s \in BOOLEAN}
                 \cup {Query({k}, FALSE, FALSE) : k \in Keys},
   frontier |-> FALSE, evictions |-> 0]

\* Keys are evicted and purged: lookups of one key, that block or not.
Disturbing ==
  [queries |-> {Query({k1}, FALSE, b) : b \in BOOLEAN},
   frontier |-> TRUE, evictions |-> 1]

MCWorkloads == {Undisturbing, Disturbing}
=============================================================================
