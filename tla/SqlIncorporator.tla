-------------------------- MODULE SqlIncorporator ---------------------------
(***************************************************************************)
(* The server's recipe: what CREATE TABLE, CREATE VIEW, CREATE CACHE,      *)
(* CREATE TYPE, ALTER TYPE and DROP do to the schema, the registry of      *)
(* expressions and the graph of compiled queries                           *)
(* (controller/sql/mod.rs, called from controller/state.rs).               *)
(*                                                                         *)
(* A change is applied to a copy of the recipe, which replaces the recipe  *)
(* only if every step of it succeeds (apply_recipe); a panic on the way    *)
(* leaves it unchanged too.  So an operator here returns a recipe, or      *)
(* Failed.                                                                 *)
(*                                                                         *)
(* A reference to a relation is the sequence of the qualified names it may *)
(* stand for, in the order of the search path; a reference qualified in    *)
(* the text has one.  A statement, before rewriting, gives the references  *)
(* of its FROM and of its JOINs, the custom types it casts to, whether it  *)
(* selects a star, and whether compiling it fails once its relations have  *)
(* been found.                                                             *)
(***************************************************************************)
EXTENDS ExprRegistry, SequencesExt

CONSTANTS
  Tables,       \* qualified names of tables
  Views,        \* name of a view -> the statement that defines it
  Caches,       \* names for caches
  Types,        \* names for the one custom type the model has
  Unqualified,  \* name of a table or view -> the name without its schema
  Sorted,       \* the names of tables and views, in their order
  MaxCopies,    \* compilations of one name that exist at a time
  Scopes        \* what clients and the replicator ask for: records of
                \* bodies (table -> those it may be created with; a body is
                \* the custom type of a column, or None), views, statements,
                \* types and whether relations may be left unreplicated

VARIABLES
  recipe,
  scope,        \* the member of Scopes this behaviour is about
  replaced,     \* history: the views in the graph that were created again
                \* after they had been compiled
  orphaned      \* history: the caches whose custom type was dropped

vars == <<recipe, scope, replaced, orphaned>>

M == INSTANCE SqlToMirConverter

Failed == [failed |-> TRUE]

EmptyRecipe ==
  [registry |-> EmptyRegistry,
   mir |-> M!EmptyGraph,
   leaf_addresses |-> <<>>,      \* table or cache -> the copy with its dataflow
   uncompiled_views |-> <<>>,    \* name -> the view whose definition it has
   view_schemas |-> {},          \* the relations whose columns are known
   non_replicated_relations |-> {},
   custom_types |-> {},
   custom_type_by_oid |-> None]

Relations(r) == DOMAIN r.mir.relations
Registered(r) == DOMAIN r.registry.aliases

-----------------------------------------------------------------------------
(* Rewriting: resolve_schemas, then expand_stars.                          *)

(* A name is there to be found once its columns are known, even after the  *)
(* relation is dropped, or when it is known not to be replicated.          *)
Visible(r) == r.view_schemas \cup r.non_replicated_relations

Hits(r, ref) == {i \in DOMAIN ref : ref[i] \in Visible(r)}
First(S) == CHOOSE i \in S : \A j \in S : i <= j

(* What no schema of the search path has is left without one.              *)
Bare(ref) == Unqualified[ref[1]]

Resolve(r, ref) ==
  IF Len(ref) = 1 THEN ref[1]
  ELSE IF Hits(r, ref) = {} THEN Bare(ref)
  ELSE ref[First(Hits(r, ref))]

(* The candidates an unqualified reference passed over.                    *)
Skipped(r, ref) ==
  IF Len(ref) = 1 THEN {}
  ELSE {ref[i] : i \in {j \in DOMAIN ref : \A h \in Hits(r, ref) : j < h}}

References(s) == s.from \cup s.join

Resolved(r, s) ==
  [shape |-> s.shape, literal |-> s.literal, types |-> s.types,
   from |-> {Resolve(r, ref) : ref \in s.from},
   join |-> {Resolve(r, ref) : ref \in s.join}]

Reads(statement) == statement.from \cup statement.join

(* A reference once qualified passes nothing over.                         *)
Qualify(r, ref) ==
  IF Len(ref) > 1 /\ Hits(r, ref) = {} THEN ref ELSE <<Resolve(r, ref)>>

Qualified(r, s) ==
  [s EXCEPT !.from = {Qualify(r, ref) : ref \in @},
            !.join = {Qualify(r, ref) : ref \in @}]

(* An unqualified reference fails on a relation that is not replicated.    *)
ResolveFails(r, s) ==
  \E ref \in References(s) :
    Len(ref) > 1 /\ Resolve(r, ref) \in r.non_replicated_relations

(* expand_stars needs the columns of every relation.                       *)
Unexpanded(r, s) == IF s.star THEN Reads(Resolved(r, s)) \ r.view_schemas ELSE {}

-----------------------------------------------------------------------------
(* Compiling                                                               *)

Outcome(r, ok, statement, invalidating) ==
  [recipe |-> r, ok |-> ok, statement |-> statement, invalidating |-> invalidating]

RECURSIVE select_query_to_mir(_, _, _, _)

(* The uncompiled view that a relation which is not found stands for; one  *)
(* without a schema is looked for along the search path.                   *)
take_uncompiled_view(r, s, x) ==
  LET paths == {ref \in References(s) : Len(ref) > 1 /\ Bare(ref) = x}
      names == IF paths = {} THEN <<x>> ELSE <<x>> \o (CHOOSE ref \in paths : TRUE)
      there == {i \in DOMAIN names : names[i] \in DOMAIN r.uncompiled_views}
  IN  IF there = {} \/ x \in r.non_replicated_relations THEN None
      ELSE names[First(there)]

(* compile_uncompiled_view, with what its caller does around it: the view  *)
(* leaves the uncompiled ones, and is put back if it does not compile,     *)
(* under the name `x` it was asked for by.                                 *)
compile_uncompiled_view(r, x, taken) ==
  LET v == r.uncompiled_views[taken]
      rest == [r EXCEPT !.uncompiled_views = Without(@, {taken})]
      compiled == select_query_to_mir(rest, x, Views[v], Views[v])
      e == View(x, compiled.statement)
      reg == compiled.recipe.registry
      added == [compiled.recipe EXCEPT !.registry = add_query(@, e)]
      PutBack(q) == [failed |-> [q EXCEPT !.uncompiled_views = (x :> v) @@ @]]
  IN  IF ~compiled.ok \/ NameTaken(reg, e) THEN PutBack(compiled.recipe)
      ELSE IF ~IsNew(reg, e) THEN added
      ELSE IF ~(Views[v].types \subseteq r.custom_types) THEN PutBack(added)
      ELSE [added EXCEPT !.mir = M!MakeFlow(@, x),
                         !.view_schemas = @ \cup {x}]

(* A relation that is not found is compiled if it is a view that was put   *)
(* off, and the statement, as far as it was rewritten, is tried again.     *)
CompileAndRetry(r, name, x, s, asked, statement) ==
  LET taken == take_uncompiled_view(r, s, x)
      next == compile_uncompiled_view(r, x, taken)
  IN  IF taken = None THEN Outcome(r, FALSE, statement, {})
      ELSE IF "failed" \in DOMAIN next
           THEN Outcome(next.failed, FALSE, statement, {})
      ELSE select_query_to_mir(next, name, s, asked)

Before(S, x) == {y \in S : First({i \in DOMAIN Sorted : Sorted[i] \in {x, y}})
                           < First({i \in DOMAIN Sorted : Sorted[i] = x})}
FirstOf(S) == CHOOSE x \in S : Before(S, x) = {}

(* The nodes over the relations found before one that is missing stay.     *)
LeaveNodes(r, name, reads, s) ==
  IF reads = {} THEN r
  ELSE [r EXCEPT !.mir =
          M!AddQueryNodes(@, name, reads, s, r.non_replicated_relations)]

(* What the retries so far passed over is forgotten: only the rewriting    *)
(* that precedes the successful attempt counts.  `asked` is the statement  *)
(* as it was before any rewriting, for the properties.                     *)
select_query_to_mir(r, name, s, asked) ==
  LET statement == Resolved(r, s)
      missing == Reads(statement) \ Relations(r)
  IN  IF ResolveFails(r, s) THEN Outcome(r, FALSE, None, {})
      ELSE IF Unexpanded(r, s) # {}
           THEN CompileAndRetry(r, name, FirstOf(Unexpanded(r, s)), s, asked, None)
      ELSE IF missing # {}
           THEN LET x == FirstOf(missing)
                    found == Before(Reads(statement), x)
                IN  CompileAndRetry(LeaveNodes(r, name, found, asked), name, x,
                                    Qualified(r, s), asked, statement)
      ELSE IF s.fails
           THEN Outcome(LeaveNodes(r, name, Reads(statement), asked),
                        FALSE, statement, {})
      ELSE Outcome([r EXCEPT !.mir =
                      M!named_query_to_mir(@, name, Reads(statement), asked,
                                           r.non_replicated_relations)],
                   TRUE, statement, UNION {Skipped(r, ref) : ref \in References(s)})

Reusable(r, statement) ==
  IF statement = None THEN {} ELSE caches_for_query(r.registry, statement)

(* add_query: a statement that does not compile may reuse caches that      *)
(* match it; one that is there already gets another name.  A cast to a     *)
(* type that is not known fails last.                                      *)
AddCache(r, name, s) ==
  LET compiled == select_query_to_mir(r, name, s, s)
      reusable == Reusable(compiled.recipe, compiled.statement)
      e == Cache(name, compiled.statement)
      found == IF compiled.ok THEN compiled.recipe
               ELSE [compiled.recipe EXCEPT !.registry =
                       add_reused_caches(@, name, reusable)]
      added == [found EXCEPT !.registry =
                 insert_invalidating_tables(add_query(@, e), name,
                                            compiled.invalidating)]
  IN  IF ~compiled.ok /\ reusable = {} THEN Failed
      ELSE IF NameTaken(found.registry, e) THEN Failed
      ELSE IF ~IsNew(found.registry, e) \/ ~compiled.ok THEN added
      ELSE IF ~(s.types \subseteq r.custom_types) THEN Failed
      ELSE [added EXCEPT
             !.mir = M!MakeFlow(@, name),
             !.leaf_addresses = (name :> added.mir.relations[name]) @@ @]

-----------------------------------------------------------------------------
(* Removing                                                                *)

process_removal(r, names) ==
  [r EXCEPT
    !.leaf_addresses = Without(@, names),
    !.registry = FoldSet(LAMBDA n, reg : remove_expression(reg, n), @, names)]

RemoveQuery(r, name) ==
  IF name \in DOMAIN r.uncompiled_views
  THEN [r EXCEPT !.uncompiled_views = Without(@, {name})]
  ELSE IF name \notin Relations(r) THEN Failed
  ELSE process_removal([r EXCEPT !.mir = M!remove_query(@, name)],
                       M!OwnersToRemove(r.mir, M!NodeOf(r.mir, name)))

RemoveBase(r, name) ==
  IF name \notin Relations(r) THEN Failed
  ELSE process_removal([r EXCEPT !.mir = M!remove_base(@, name)],
                       {name} \cup M!OwnersToRemove(r.mir, M!NodeOf(r.mir, name)))

RemoveDependentQueries(r, name) ==
  IF r = Failed \/ name \notin Relations(r) THEN Failed
  ELSE process_removal([r EXCEPT !.mir = M!remove_dependent_queries(@, name)],
                       M!OwnersToRemove(r.mir, M!NodeOf(r.mir, name)))

(* remove_expression of the incorporator; whether it found anything is     *)
(* IsFound.                                                                *)
RemoveExpression(r, name) ==
  LET e == Removed(r.registry, name)
      rest == [r EXCEPT !.registry = remove_expression(@, name)]
  IN  IF e = None THEN [rest EXCEPT !.uncompiled_views = Without(@, {name})]
      ELSE IF e.kind = "Table" THEN RemoveBase(rest, name)
      ELSE RemoveQuery(rest, e.name)

IsFound(r, name) ==
  Removed(r.registry, name) # None \/ name \in DOMAIN r.uncompiled_views

(* A list of removals; the first that fails fails them all.                *)
RemoveEach(r, names) ==
  FoldLeft(LAMBDA x, n : IF x = Failed THEN Failed ELSE RemoveExpression(x, n),
           r, names)

-----------------------------------------------------------------------------
(* The changes                                                             *)

(* apply_recipe.  What is gone from the graph is no part of the history.   *)
Apply(r) ==
  /\ recipe' = IF r = Failed THEN recipe ELSE r
  /\ replaced' = replaced \cap Relations(recipe')
  /\ orphaned' = orphaned \cap DOMAIN recipe'.leaf_addresses
  /\ UNCHANGED scope

(* add_table, and the registration that follows it wherever it is called.  *)
AddTable(r, t, body) ==
  IF r = Failed \/ body \notin r.custom_types \cup {None} THEN Failed
  ELSE IF M!BaseRefused(r.mir, t, body) THEN Failed
  ELSE [r EXCEPT
         !.mir = M!MakeBase(@, t, body),
         !.view_schemas = @ \cup {t},
         !.non_replicated_relations = @ \ {t},
         !.leaf_addresses = (t :> M!MakeBase(r.mir, t, body).relations[t]) @@ @,
         !.registry = add_query(@, Table(t, body))]

drop_and_recreate_table(r, t, body) ==
  IF r = Failed \/ ~IsFound(r, t) THEN Failed
  ELSE AddTable(RemoveExpression(r, t), t, body)

\* Mutant: a table that is created leaves the queries that passed it over.
Invalidated_None(t) == {}

Invalidated(t) == queries_to_invalidate_for_table(recipe.registry, t)

CreateTable(t, body) ==
  LET current == get(recipe.registry, t)
  IN  CASE current # None /\ current.kind \in {"Table", "View"} ->
             Apply(IF current.kind = "View" THEN Failed
                   ELSE IF current.body = body THEN recipe
                   ELSE drop_and_recreate_table(recipe, t, body))
        [] OTHER ->
             \E order \in SetToSeqs(Invalidated(t)) :
               Apply(AddTable(RemoveEach(recipe, order), t, body))

(* Sent for a relation the replicator found upstream and does not          *)
(* replicate; it has dropped one it replicated before.                     *)
AddNonReplicatedRelation(n) ==
  /\ scope.unreplicated
  /\ n \notin Registered(recipe)
  /\ Apply([recipe EXCEPT !.non_replicated_relations = @ \cup {n}])

(* A view is compiled when a query first selects from it.                  *)
CreateView(v) ==
  /\ recipe' = [recipe EXCEPT !.non_replicated_relations = @ \ {v},
                              !.uncompiled_views = (v :> v) @@ @]
  /\ replaced' = replaced \cup ({v} \cap Relations(recipe))
  /\ UNCHANGED <<scope, orphaned>>

CreateCache(c, s) ==
  /\ Cardinality(M!Copies(recipe.mir, c)) < MaxCopies
  /\ Apply(AddCache(recipe, c, s))

(* `rebuild`: the type is there with other variants, and not just more.    *)
CreateType(type, rebuild) ==
  LET reg == add_custom_type(recipe.registry, type)
      added == [recipe EXCEPT !.registry = reg,
                              !.custom_types = @ \cup {type},
                              !.custom_type_by_oid = type]
      Recreate(r, e) == IF r = Failed THEN Failed
                        ELSE IF e.kind = "Table"
                             THEN drop_and_recreate_table(r, e.name, e.body)
                        ELSE RemoveExpression(r, e.name)
  IN  /\ recipe.custom_types \subseteq {type}
      /\ rebuild => type \in recipe.custom_types
      /\ IF ~rebuild THEN Apply(added)
         ELSE IF ReferencesDangle(reg, type) THEN Apply(Failed)
         ELSE \E order \in SetToSeqs(expressions_referencing_custom_type(reg, type)) :
                Apply(FoldLeft(Recreate, added, order))

(* The type is found by its oid when the name is new.                      *)
alter_custom_type(r, type) ==
  IF type \in r.custom_types THEN r
  ELSE [r EXCEPT
         !.registry = rename_custom_type(@, r.custom_type_by_oid, type),
         !.custom_types = (@ \ {r.custom_type_by_oid}) \cup {type},
         !.custom_type_by_oid = type]

\* Mutant: an altered type leaves the queries over its tables alone.
ReadersOfType_None(reg, type) == {}

ReadersOfType(reg, type) == expressions_referencing_custom_type(reg, type)

(* The tables keep their rows and get the column's new type; what reads    *)
(* them is removed, then what casts to the type.                           *)
AlterType(type) ==
  LET altered == alter_custom_type(recipe, type)
      readers == ReadersOfType(altered.registry, type)
      tables == {e.name : e \in {x \in readers : x.kind = "Table"}}
      queries == {e.name : e \in {x \in readers : x.kind # "Table"}}
      rest == FoldSet(LAMBDA t, r : RemoveDependentQueries(r, t), altered, tables)
  IN  /\ recipe.custom_types # {}
      /\ IF ReferencesDangle(altered.registry, type) THEN Apply(Failed)
         ELSE \E order \in SetToSeqs(queries) : Apply(RemoveEach(rest, order))

(* Drop: a relation that is not replicated, else a custom type, else an    *)
(* expression.  The type's dependents are looked up after its entry went.  *)
Drop(r, name, if_exists) ==
  IF name \in r.non_replicated_relations
  THEN [r EXCEPT !.non_replicated_relations = @ \ {name}]
  ELSE IF name \in DOMAIN r.registry.custom_type_dependencies
  THEN [r EXCEPT !.registry = remove_custom_type(@, name),
                 !.custom_types = @ \ {name}]
  ELSE IF ~IsFound(r, name) /\ ~if_exists THEN Failed
  ELSE RemoveExpression(r, name)

DropRelation(name) == Apply(Drop(recipe, name, FALSE))

(* PostgreSQL refuses to drop a type a table or a view still has.  A cache *)
(* that casts to it is not removed.                                        *)
DropType(type) ==
  LET casting == {e \in Range(recipe.registry.expressions) :
                    custom_type_references(e) # {}}
      dropped == Drop(recipe, type, FALSE)
  IN  /\ type \in recipe.custom_types
      /\ \A e \in casting : e.kind = "Cache"
      /\ \A v \in Range(recipe.uncompiled_views) : Views[v].types = {}
      /\ recipe' = dropped
      /\ orphaned' = (orphaned \cup {e.name : e \in casting})
                       \cap DOMAIN dropped.leaf_addresses
      /\ UNCHANGED <<scope, replaced>>

(* remove_query of the controller                                          *)
DropCache(c) ==
  LET name == resolve_alias(recipe.registry, c)
  IN  name # None /\ Apply(Drop(recipe, name, FALSE))

(* remove_all_queries: the caches in no particular order.                  *)
DropAllCaches ==
  \E order \in SetToSeqs(cache_names(recipe.registry)) :
    Apply(FoldLeft(LAMBDA r, c : IF r = Failed THEN Failed ELSE Drop(r, c, TRUE),
                   recipe, order))

Init ==
  /\ recipe = EmptyRecipe /\ scope \in Scopes
  /\ replaced = {} /\ orphaned = {}

Next ==
  \/ \E t \in DOMAIN scope.bodies : \E body \in scope.bodies[t] : CreateTable(t, body)
  \/ \E t \in DOMAIN scope.bodies : AddNonReplicatedRelation(t)
  \/ \E v \in scope.views : CreateView(v)
  \/ \E c \in Caches : \E s \in scope.statements : CreateCache(c, s)
  \/ \E type \in scope.types : \E rebuild \in BOOLEAN : CreateType(type, rebuild)
  \/ \E type \in scope.types : AlterType(type)
  \/ \E type \in scope.types : DropType(type)
  \/ \E n \in DOMAIN scope.bodies \cup scope.views : DropRelation(n)
  \/ \E c \in Caches : DropCache(c)
  \/ DropAllCaches

Spec == Init /\ [][Next]_vars

-----------------------------------------------------------------------------
(* Properties                                                              *)

Names == Tables \cup DOMAIN Views \cup Range(Unqualified) \cup Caches

NodeAt(name, copy) ==
  {n \in recipe.mir.nodes : n.name = name /\ n.copy = copy}

(* The names of the graph, and the leaves clients read from, stand for     *)
(* nodes that are there; a leaf's dataflow was made, and is not that of    *)
(* another compilation of its name.                                        *)
TypeOK ==
  /\ Registered(recipe) \subseteq Names
  /\ \A n \in Relations(recipe) : NodeAt(n, recipe.mir.relations[n]) # {}
  /\ \A n \in DOMAIN recipe.leaf_addresses :
       \E m \in NodeAt(n, recipe.leaf_addresses[n]) : m.flow

(* The registry and the graph agree: every table and cache a client can    *)
(* reach (leaf_addresses) is an expression registered under that name.     *)
(* remove_expression is documented to fail when they do not, and a leaf    *)
(* without an expression cannot be dropped.                                *)
(* It does not hold, and no run checks it: a statement that is issued      *)
(* again under another name is built a second time and not registered.     *)
LeavesAreRegistered ==
  \A n \in DOMAIN recipe.leaf_addresses : resolve_alias(recipe.registry, n) = n

(* The caches that are registered and have dataflow of their own.          *)
Served == {c \in Caches \cap DOMAIN recipe.leaf_addresses :
             resolve_alias(recipe.registry, c) = c}

(* The documented invariant of the registry's aliases: each names an       *)
(* expression that is there.  resolve_alias indexes the expressions, so a  *)
(* dangling alias would panic whoever asks for the view.                   *)
AliasesResolve ==
  Range(recipe.registry.aliases) \subseteq DOMAIN recipe.registry.expressions

Leaf(c) == CHOOSE n \in NodeAt(c, recipe.leaf_addresses[c]) : TRUE

(* A node a query reads is there, is the one its name stands for, and its  *)
(* relation was not dropped.                                               *)
Stands(key) ==
  /\ NodeAt(key[1], key[2]) # {}
  /\ key[1] \in Relations(recipe) /\ recipe.mir.relations[key[1]] = key[2]
  /\ key[1] \in Registered(recipe) \cup replaced

(* Nothing outlives what it reads: when a table or a view goes, by DROP or *)
(* by being recreated, so do the caches that read it, joined or through    *)
(* views, however the registry records them.  The exception is a view that *)
(* was created again after a query had made it compile: dropping it takes  *)
(* the new definition, which is not compiled, and leaves the old one.      *)
NoneOutlivesItsTables ==
  \A c \in Served : \A n \in M!Upstream(recipe.mir, {Leaf(c)}) :
    \A key \in n.reads : Stands(key)

(* The same of every view.                                                 *)
(* It does not hold, and no run checks it: see the exception above.        *)
NoneOutlivesItsViews ==
  \A c \in Served : \A n \in M!Upstream(recipe.mir, {Leaf(c)}) :
    \A key \in n.reads : key[1] \in Registered(recipe)

(* What a reference stands for upstream: the first candidate that there    *)
(* is, be it replicated or not.                                            *)
ReadsAsNamed(n, unreplicated) ==
  \A ref \in References(n.statement) :
    LET there == {i \in DOMAIN ref : ref[i] \in Relations(recipe) \cup unreplicated}
    IN  /\ there # {}
        /\ \E key \in n.reads : key[1] = ref[First(there)]

OverTables(n) ==
  \A ref \in References(n.statement) : Range(ref) \cap DOMAIN Views = {}

(* A cache over tables reads what its names stand for now: an unqualified  *)
(* reference was resolved to the first schema of the search path that had  *)
(* the table, replicated or not, and creating the table in an earlier      *)
(* schema drops the cache.  The exception is a table in an earlier schema  *)
(* that is recorded as not replicated after the cache was made.            *)
ReadsWhatNamesMean ==
  \A c \in Served :
    OverTables(Leaf(c)) =>
      ReadsAsNamed(Leaf(c), Leaf(c).unreplicated \cap recipe.non_replicated_relations)

(* A relation is recorded as not replicated "to ensure we don't skip over  *)
(* these tables during schema resolution, resulting in queries that read   *)
(* from tables in the wrong schema".                                       *)
(* It does not hold, and no run checks it: the record does not invalidate  *)
(* the caches that passed the relation over before.                        *)
UnreplicatedAreNotSkipped ==
  \A c \in Served :
    OverTables(Leaf(c)) => ReadsAsNamed(Leaf(c), recipe.non_replicated_relations)

(* The same of every cache, also one that reads a view besides the table:  *)
(* any schema "skipped over" marks the query as one to invalidate.         *)
(* It does not hold, and no run checks it: the skipped schemas are those   *)
(* of the last attempt to compile, after the view it needed was there.     *)
AllReadWhatNamesMean ==
  \A c \in Served :
    ReadsAsNamed(Leaf(c), Leaf(c).unreplicated \cap recipe.non_replicated_relations)

(* What the adapter is told has been migrated can be read: a statement the *)
(* registry contains has a view of its own or reuses one that is there.    *)
(* view_builder finds nothing otherwise, and says so for good.             *)
(* It does not hold, and no run checks it: what a statement reused may be  *)
(* dropped before it.                                                      *)
ContainedCanBeRead ==
  \A e \in Range(recipe.registry.expressions) :
    e.kind = "Cache" =>
      \/ e.name \in DOMAIN recipe.leaf_addresses
      \/ /\ e.name \in DOMAIN recipe.registry.reused_caches
         /\ \E c \in recipe.registry.reused_caches[e.name] :
              c \in DOMAIN recipe.leaf_addresses

Typed(n) == \E e \in Range(recipe.registry.expressions) :
  e.kind = "Table" /\ e.name = n /\ e.body # None

(* What is computed with the custom type: everything over a table with a   *)
(* column of it, and every cache that casts to it, itself or in a view.    *)
UsesType(c) ==
  \/ \E t \in Tables :
       /\ Typed(t)
       /\ \E n \in M!Downstream(recipe.mir, M!NodeOf(recipe.mir, t)) : n.name = c
  \/ /\ c \in Served
     /\ \E n \in M!Upstream(recipe.mir, {Leaf(c)}) :
          ~n.base /\ n.name \notin replaced /\ n.statement.types # {}

(* When a custom type is altered, no cache made before lives on over a     *)
(* table with a column of that type, be it under another name of the type, *)
(* joined or through a view, nor one that casts to the type, itself or in  *)
(* a view.  The exceptions are a cache whose type was dropped and made     *)
(* anew, and a view that was created again after it had been compiled.     *)
AlteredTypeDropsReaders ==
  [][\A type \in Types :
       AlterType(type) /\ recipe' # recipe =>
         \A c \in Caches \ orphaned :
           UsesType(c) => c \notin DOMAIN recipe.leaf_addresses']_vars

(* "Documented invariant": what is recorded for a custom type is an        *)
(* expression of the registry.                                             *)
(* It does not hold, and no run checks it: removing an expression leaves   *)
(* its record, and every later change of the type panics.                  *)
TypeReferencesResolve ==
  \A type \in Types : ~ReferencesDangle(recipe.registry, type)

(* A type that is dropped takes along the caches that cast to it ("we      *)
(* might as well be more permissive here").                                *)
(* It does not hold, and no run checks it: they are looked up after the    *)
(* record of them was removed.                                             *)
DroppedTypeDropsReaders == orphaned = {}
=============================================================================
