---------------------------- MODULE ExprRegistry ----------------------------
(***************************************************************************)
(* The server's registry of installed expressions                          *)
(* (controller/sql/registry.rs): every table, compiled view and cache by   *)
(* its id, the names that stand for an id, and what must go when something *)
(* else goes.  Each operator is one method of ExprRegistry: it takes the   *)
(* registry and returns it as the method leaves it.                        *)
(*                                                                         *)
(* A statement is what rewriting leaves of it: the relations of its FROM,  *)
(* those of its JOINs, the custom types it casts to, one literal, and a    *)
(* shape for the rest of its text.                                         *)
(* The body of a table is the custom type of one of its columns, or None.  *)
(* An id is the hashed content itself.                                     *)
(***************************************************************************)
EXTENDS Naturals, FiniteSets, Functions, TLC

CONSTANTS
  None,
  Placeholder   \* the literal of a statement that leaves it open

Table(name, body) == [kind |-> "Table", name |-> name, body |-> body]
View(name, definition) ==
  [kind |-> "View", name |-> name, definition |-> definition]
Cache(name, statement) ==
  [kind |-> "Cache", name |-> name, statement |-> statement]

EmptyRegistry ==
  [expressions |-> <<>>, skeletons |-> {}, dependencies |-> {},
   custom_type_dependencies |-> <<>>, table_to_invalidated_queries |-> {},
   aliases |-> <<>>, reused_caches |-> <<>>]

(* Only the tables of FROM: a joined relation is not a reference.          *)
table_references(e) ==
  CASE e.kind = "Table" -> {}
    [] e.kind = "View"  -> e.definition.from
    [] e.kind = "Cache" -> e.statement.from

custom_type_references(e) ==
  CASE e.kind = "Table" -> {e.body} \ {None}
    [] e.kind = "View"  -> e.definition.types
    [] e.kind = "Cache" -> e.statement.types

(* A cache is hashed without its name, so that another name for the same   *)
(* statement is an alias.                                                  *)
calculate_hash(e) ==
  IF e.kind = "Cache" THEN [kind |-> "Cache", statement |-> e.statement] ELSE e

Without(f, S) == Restrict(f, DOMAIN f \ S)

get(reg, name) ==
  IF name \in DOMAIN reg.aliases THEN reg.expressions[reg.aliases[name]] ELSE None

(* Indexing the expressions is what panics on a dangling alias.            *)
resolve_alias(reg, name) ==
  IF name \in DOMAIN reg.aliases
  THEN reg.expressions[reg.aliases[name]].name ELSE None

cache_names(reg) ==
  {e.name : e \in {x \in Range(reg.expressions) : x.kind = "Cache"}}

Skeleton(statement) ==
  [shape |-> statement.shape, from |-> statement.from, join |-> statement.join]

(* Two literals match when they differ and one of them is a placeholder.   *)
caches_for_query(reg, statement) ==
  {s.name : s \in {x \in reg.skeletons :
     /\ x.skeleton = Skeleton(statement)
     /\ x.literal # statement.literal
     /\ Placeholder \in {x.literal, statement.literal}}}

add_reused_caches(reg, name, caches) ==
  [reg EXCEPT !.reused_caches = (name :> caches) @@ @]

(* assign_alias refuses a name that stands for another expression; its     *)
(* caller returns the error.                                               *)
NameTaken(reg, e) ==
  /\ e.name \in DOMAIN reg.aliases
  /\ reg.aliases[e.name] # calculate_hash(e)

IsNew(reg, e) == calculate_hash(e) \notin DOMAIN reg.expressions

add_query(reg, e) ==
  LET id == calculate_hash(e)
      named == [reg EXCEPT !.aliases = (e.name :> id) @@ @]
      referenced == table_references(e) \cap DOMAIN named.aliases
      types == custom_type_references(e)
  IN  IF ~IsNew(reg, e) THEN named
      ELSE [named EXCEPT
             !.expressions = (id :> e) @@ @,
             !.skeletons =
               IF e.kind # "Cache" THEN @
               ELSE @ \cup {[skeleton |-> Skeleton(e.statement), name |-> e.name,
                             literal |-> e.statement.literal]},
             !.dependencies =
               @ \cup {<<named.aliases[r], id>> : r \in referenced},
             !.custom_type_dependencies =
               [t \in DOMAIN @ |-> IF t \in types THEN @[t] \cup {id} ELSE @[t]]]

insert_invalidating_tables(reg, name, tables) ==
  [reg EXCEPT !.table_to_invalidated_queries =
     @ \cup {<<t, name>> : t \in tables}]

queries_to_invalidate_for_table(reg, table) ==
  {p[2] : p \in {x \in reg.table_to_invalidated_queries : x[1] = table}}

AliasesOf(reg, name) ==
  IF name \in DOMAIN reg.aliases
  THEN {a \in DOMAIN reg.aliases : reg.aliases[a] = reg.aliases[name]} ELSE {}

(* What remove_expression returns: nothing for an unknown name, and        *)
(* nothing for a query that reuses another's cache.                        *)
Removed(reg, name) ==
  IF AliasesOf(reg, name) \cap DOMAIN reg.reused_caches # {} THEN None
  ELSE get(reg, name)

\* Mutant: the aliases of a table's dependents stay behind.
remove_expression_KeepAliases(reg, name) ==
  LET mine == AliasesOf(reg, name)
      id == reg.aliases[name]
      dependents ==
        {p[2] : p \in {x \in reg.dependencies : x[1] = id /\ id.kind = "Table"}}
  IN  IF mine = {} THEN reg
      ELSE [reg EXCEPT
             !.aliases = Without(@, mine),
             !.expressions = Without(@, {id} \cup dependents)]

(* A table takes the queries recorded as its dependents along: their       *)
(* aliases and expressions, but neither their skeletons nor their entries  *)
(* among the reused caches.                                                *)
remove_expression(reg, name) ==
  LET mine == AliasesOf(reg, name)
      id == reg.aliases[name]
      dependents ==
        {p[2] : p \in {x \in reg.dependencies : x[1] = id /\ id.kind = "Table"}}
      gone == {id} \cup dependents
      Reuses(k) == k \notin mine /\ reg.reused_caches[k] \ mine # {}
      reusing == {k \in DOMAIN reg.reused_caches : Reuses(k)}
  IN  IF mine = {} THEN reg
      ELSE [reg EXCEPT
             !.aliases = RestrictValues(@, LAMBDA i : i \notin gone),
             !.reused_caches = [k \in reusing |-> @[k] \ mine],
             !.skeletons = {s \in @ : s.name \notin mine},
             !.expressions = Without(@, gone),
             !.dependencies =
               {p \in @ : IF id.kind = "Table" THEN p[1] # id ELSE p[2] # id}]

add_custom_type(reg, type) ==
  [reg EXCEPT !.custom_type_dependencies = @ @@ (type :> {})]

remove_custom_type(reg, type) ==
  [reg EXCEPT !.custom_type_dependencies = Without(@, {type})]

rename_custom_type(reg, old, new) ==
  LET deps == reg.custom_type_dependencies
  IN  IF old \notin DOMAIN deps THEN reg
      ELSE [reg EXCEPT !.custom_type_dependencies =
              (new :> deps[old]) @@ Without(deps, {old})]

(* The ids recorded for a type; one that is no longer an expression is     *)
(* what `expect("Documented invariant")` panics on.                        *)
IdsReferencing(reg, type) ==
  IF type \in DOMAIN reg.custom_type_dependencies
  THEN reg.custom_type_dependencies[type] ELSE {}

ReferencesDangle(reg, type) ==
  ~(IdsReferencing(reg, type) \subseteq DOMAIN reg.expressions)

expressions_referencing_custom_type(reg, type) ==
  {reg.expressions[i] : i \in IdsReferencing(reg, type)}
=============================================================================
