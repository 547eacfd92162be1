------------------------- MODULE MCSqlIncorporator --------------------------
(***************************************************************************)
(* Instances of SqlIncorporator: a table name that two schemas may have, a *)
(* view and a query that joins it, a table with a column of a custom type, *)
(* a query and a view that cast to one, and a statement that does not      *)
(* compile but matches one that does.                                      *)
(***************************************************************************)
EXTENDS SqlIncorporator

Statement(shape, from, join, literal) ==
  [shape |-> shape, from |-> from, join |-> join, literal |-> literal,
   types |-> {}, star |-> TRUE, fails |-> FALSE]

T == <<"s1.t", "s2.t">>
U == <<"s1.u">>
V == <<"s1.v", "s2.v">>

MCTables == {"s1.t", "s2.t", "s1.u"}
CastU == [Statement("cu", {U}, {}, Placeholder) EXCEPT !.types = {"ty"}]
MCViews == "s1.v" :> Statement("v", {U}, {}, Placeholder) @@ "s1.w" :> CastU
MCSorted == <<"s1.t", "s1.u", "s1.v", "s1.w", "s2.t", "t", "v">>
MCUnqualified ==
  "s1.t" :> "t" @@ "s2.t" :> "t" @@ "s1.u" :> "u" @@ "s1.v" :> "v" @@ "s2.v" :> "v"
    @@ "s1.w" :> "w"

OverT == Statement("t", {T}, {}, Placeholder)
OverV == Statement("vt", {T}, {V}, Placeholder)
OnlyV == Statement("v", {<<"s1.v">>}, {}, Placeholder)
OnlyW == Statement("w", {<<"s1.w">>}, {}, Placeholder)
OverU == Statement("u", {U}, {}, Placeholder)
OneU == [Statement("u", {U}, {}, 1) EXCEPT !.fails = TRUE, !.star = FALSE]

Scope(bodies, statements, views, types, unreplicated) ==
  [bodies |-> bodies, statements |-> statements, views |-> views,
   types |-> types, unreplicated |-> unreplicated]

SearchPath ==
  Scope("s1.t" :> {None} @@ "s2.t" :> {None}, {OverT}, {}, {}, TRUE)
JoinedView ==
  Scope("s2.t" :> {None} @@ "s1.t" :> {None} @@ "s1.u" :> {None}, {OverV},
        {"s1.v"}, {}, FALSE)
TypedTable ==
  Scope("s1.u" :> {None, "ty", "tz"}, {OnlyV}, {"s1.v"}, {"ty", "tz"}, FALSE)
CastQuery ==
  Scope("s1.u" :> {None, "ty"}, {CastU}, {}, {"ty", "tz"}, FALSE)
CastView ==
  Scope("s1.u" :> {None}, {OnlyW}, {"s1.w"}, {"ty", "tz"}, FALSE)
Reuse == Scope("s1.u" :> {None}, {OverU, OneU}, {}, {}, FALSE)

MCScopes == {SearchPath, JoinedView, TypedTable, CastQuery, CastView, Reuse}
=============================================================================
