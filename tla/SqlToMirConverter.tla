------------------------- MODULE SqlToMirConverter --------------------------
(***************************************************************************)
(* The graph of the middle representation the server compiles queries to   *)
(* (controller/sql/mir/mod.rs).  A table is one node.  The nodes of one    *)
(* compilation of a query or a view stand together as one: its `name` is   *)
(* the owner the code gives each of them, `copy` tells two compilations    *)
(* under one name, or two tables of one name, apart, `reads` names the     *)
(* nodes below it and `flow` says whether dataflow nodes were made for it. *)
(* The owners of a node are its own name and the names of the nodes that   *)
(* read it.                                                                *)
(*                                                                         *)
(* `relations` maps a name to the node that stands for it.                 *)
(***************************************************************************)
EXTENDS Naturals, FiniteSets, Functions, TLC

EmptyGraph == [relations |-> <<>>, nodes |-> {}]

NodeOf(mir, name) == CHOOSE n \in mir.nodes :
  n.name = name /\ n.copy = mir.relations[name]

Copies(mir, name) ==
  {n.copy : n \in {x \in mir.nodes : x.name = name}}
    \cup {k[2] : k \in {x \in UNION {n.reads : n \in mir.nodes} : x[1] = name}}
FreshCopy(mir, name) == CHOOSE c \in 1..(1 + Cardinality(Copies(mir, name))) :
  c \notin Copies(mir, name)

Key(n) == <<n.name, n.copy>>

Readers(mir, S) == {n \in mir.nodes : \E m \in S : Key(m) \in n.reads}
Sources(mir, S) == {m \in mir.nodes : \E n \in S : Key(m) \in n.reads}

(* The nodes a breadth-first search visits from one.                       *)
Downstream(mir, node) ==
  LET within[d \in Nat] == IF d = 0 THEN {node}
                           ELSE LET near == within[d - 1]
                                IN  near \cup Readers(mir, near)
  IN  within[Cardinality(mir.nodes)]

Upstream(mir, leaves) ==
  LET within[d \in Nat] == IF d = 0 THEN leaves
                           ELSE LET near == within[d - 1]
                                IN  near \cup Sources(mir, near)
  IN  within[Cardinality(mir.nodes)]

(* A table that is there is reused if it has the same columns; the name    *)
(* cannot be had otherwise.                                                *)
BaseRefused(mir, name, columns) ==
  /\ name \in DOMAIN mir.relations
  /\ ~NodeOf(mir, name).base \/ NodeOf(mir, name).statement.columns # columns

MakeBase(mir, name, columns) ==
  IF name \in DOMAIN mir.relations THEN mir
  ELSE [relations |-> (name :> FreshCopy(mir, name)) @@ mir.relations,
        nodes |-> mir.nodes \cup
          {[name |-> name, copy |-> FreshCopy(mir, name), base |-> TRUE,
            reads |-> {}, flow |-> TRUE, statement |-> [columns |-> columns],
            unreplicated |-> {}]}]

(* The nodes of a query are made afresh every time; only tables and views  *)
(* are shared.  `statement` remembers what was asked for, and              *)
(* `unreplicated` the relations known then not to be replicated.           *)
AddQueryNodes(mir, name, reads, statement, unreplicated) ==
  [mir EXCEPT !.nodes = @ \cup
     {[name |-> name, copy |-> FreshCopy(mir, name), base |-> FALSE,
       reads |-> {Key(NodeOf(mir, r)) : r \in reads}, flow |-> FALSE,
       statement |-> statement, unreplicated |-> unreplicated]}]

named_query_to_mir(mir, name, reads, statement, unreplicated) ==
  [AddQueryNodes(mir, name, reads, statement, unreplicated) EXCEPT
    !.relations = (name :> FreshCopy(mir, name)) @@ @]

MakeFlow(mir, name) ==
  [mir EXCEPT !.nodes =
     {IF n = NodeOf(mir, name) THEN [n EXCEPT !.flow = TRUE] ELSE n : n \in @}]

\* Mutant: the removal stops at the queries that read the node itself.
OwnersToRemove_Readers(mir, node) ==
  {n.name : n \in {x \in mir.nodes : ~x.base /\ (x = node \/ Key(node) \in x.reads)}}

(* Everything that owns a node downstream of the one to remove.            *)
OwnersToRemove(mir, node) ==
  {n.name : n \in {x \in Downstream(mir, node) : ~x.base}}

(* Backwards from the leaves, the nodes left without an owner go; a name   *)
(* whose owner goes no longer stands for anything.                         *)
remove_dependent_nodes(mir, node) ==
  LET down == Downstream(mir, node)
      owners == OwnersToRemove(mir, node)
      leaves == {n \in down : Readers(mir, {n}) = {}}
      behind == Upstream(mir, leaves)
  IN  [relations |-> Restrict(mir.relations, DOMAIN mir.relations \ owners),
       nodes |-> mir.nodes \ {n \in behind : ~n.base /\ n.name \in owners}]

remove_query(mir, name) == remove_dependent_nodes(mir, NodeOf(mir, name))

remove_base(mir, name) ==
  LET root == NodeOf(mir, name)
      rest == remove_dependent_nodes(mir, root)
  IN  [relations |-> Restrict(rest.relations, DOMAIN rest.relations \ {name}),
       nodes |-> rest.nodes \ {root}]

(* The table stays; only what reads it goes.                               *)
remove_dependent_queries(mir, name) ==
  remove_dependent_nodes(mir, NodeOf(mir, name))
=============================================================================
