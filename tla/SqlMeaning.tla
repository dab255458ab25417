----------------------------- MODULE SqlMeaning -----------------------------
(***************************************************************************)
(* What a database does with the statements of SqlRules: which columns a     *)
(* result is made of, which columns decide what rows it has and in which     *)
(* order, and what runs besides a read. It is the reference SqlRules is      *)
(* checked against, and knows nothing of nyet's rules.                       *)
(*                                                                          *)
(* A column of a relation is [label, from, origin]: the stored columns its    *)
(* values are computed from, and what a driver says of where it is from.     *)
(***************************************************************************)
EXTENDS SqlRules

CONSTANTS
    Tables,     \* base tables: name -> sequence of column names
    Views       \* views: name -> sequence of [label, t, c] over base columns

Expression == [k |-> "expression"]

\* How a driver reports origins. It "resolves" through views to the base table
\* (SQLite), names the relation as the query does ("names": PostgreSQL, MySQL),
\* or says of nothing but plain base columns where it is from ("shy").
Drivers == {"resolves", "names", "shy"}

BaseColumn(t, c) == [label |-> c, from |-> {<<t, c>>}, origin |-> [k |-> "table", t |-> t, c |-> c]]

ViewColumn(d, v, x) ==
    [label  |-> x.label,
     from   |-> {<<v, x.label>>, <<x.t, x.c>>},
     origin |-> CASE d = "resolves" -> [k |-> "table", t |-> x.t, c |-> x.c]
                  [] d = "names"    -> [k |-> "table", t |-> v, c |-> x.label]
                  [] d = "shy"      -> Expression]

\* A catalog of sampled values holds something of every protected column.
Relation(p, d, t) ==
    IF t \in Sampling[p.engine]
    THEN <<[label |-> "vals", from |-> p.rules, origin |-> [k |-> "table", t |-> t, c |-> "vals"]]>>
    ELSE IF t \in DOMAIN Views
    THEN [i \in DOMAIN Views[t] |-> ViewColumn(d, t, Views[t][i])]
    ELSE IF t \in DOMAIN Tables
    THEN [i \in DOMAIN Tables[t] |-> BaseColumn(t, Tables[t][i])]
    ELSE << >>

Froms(columns) == UNION {c.from : c \in ToSet(columns)}

Computed(label, from) == [label |-> label, from |-> from, origin |-> Expression]

\* The same column under another name.
Called(x, label) == [label |-> label, from |-> x.from, origin |-> x.origin]

(***************************************************************************)
(* Names: a source in scope is [factor, name, columns], a scope a sequence of   *)
(* them, and innermost scopes come first.                                    *)
(***************************************************************************)
Hits(scope, q, c) ==
    {x \in UNION {ToSet(n.columns) : n \in {m \in ToSet(scope) : q \in {None, m.name}}} : x.label = c}

\* The columns that q.c means: those of the first scope that has it.
Meant(scopes, q, c) ==
    UNION {Hits(scopes[i], q, c) :
        i \in {k \in DOMAIN scopes : \A j \in 1 .. (k - 1) : Hits(scopes[j], q, c) = {}}}

\* Every column of the relation named q: what q.*, or q as a value, stands for.
Row(scopes, q) ==
    LET sources == FlattenSeq(scopes)
    IN  FlattenSeq([i \in DOMAIN sources |->
                       IF sources[i].name = q THEN sources[i].columns ELSE << >>])

ColumnFrom(scopes, e) ==
    LET meant == Meant(scopes, e.q, e.c)
    IN  UNION {x.from : x \in IF meant = {} /\ e.q = None THEN ToSet(Row(scopes, e.c)) ELSE meant}

ArgFrom(scopes, a) ==
    CASE a.k = "star"  -> {}
      [] a.k = "qstar" -> Froms(Row(scopes, a.q))
      [] a.k = "arg"   -> IF a.e.k = "col" THEN ColumnFrom(scopes, a.e) ELSE {}

\* The stored columns a value is computed from; `sub` is what queries[2] gives.
From(scopes, sub, e) ==
    CASE e.k = "col"     -> ColumnFrom(scopes, e)
      [] e.k = "call"    -> UNION {ArgFrom(scopes, a) : a \in ToSet(e.args)}
      [] e.k = "sub"     -> sub
      [] e.k = "ordinal" -> {}

(***************************************************************************)
(* Sources                                                                  *)
(***************************************************************************)
NameOf(f) ==
    IF f.alias # None THEN f.alias ELSE IF RelationName(f) # None THEN RelationName(f) ELSE f.name

Labelled(f, columns) ==
    IF f.renames THEN [i \in DOMAIN columns |-> Called(columns[i], "renamed")] ELSE columns

\* What t names; `inner` gives the columns of a common table expression.
Known(p, d, s, inner, t) ==
    IF s.role = "cte" /\ t = s.cte /\ inner # << >> THEN inner ELSE Relation(p, d, t)

IsCall(f) == f.k = "function" \/ (f.k = "table" /\ RelationName(f) = None)

SourceColumns(p, d, s, inner, scopes, f) ==
    IF f.k = "derived" THEN inner
    ELSE IF IsCall(f) THEN <<Computed(f.name, UNION {ArgFrom(scopes, a) : a \in ToSet(f.args)})>>
    ELSE IF f.op = "array" /\ ~f.call
    THEN <<Computed(f.name, UNION {x.from : x \in Meant(scopes, None, f.name)})>>
    ELSE Known(p, d, s, inner, RelationName(f))

\* The factors of a level, each with the name around it, if any: those of a
\* parenthesised join stand in its place, and answer to its alias alone.
Laid(level) ==
    FlattenSeq([i \in DOMAIN level |->
        IF level[i].k = "nested"
        THEN [j \in DOMAIN level[i].inner |-> [factor |-> level[i].inner[j], around |-> level[i].alias]]
        ELSE <<[factor |-> level[i], around |-> None]>>])

Source(p, d, s, inner, scopes, place) ==
    [factor  |-> place.factor,
     name    |-> IF place.around # None THEN place.around ELSE NameOf(place.factor),
     columns |-> Labelled(place.factor, SourceColumns(p, d, s, inner, scopes, place.factor))]

\* The sources of a level, left to right, each seeing those before it; `inner`
\* gives the columns of a derived table.
Sources(p, d, s, level, inner, outer) ==
    LET places == Laid(level)
        seen[n \in 0 .. Len(places)] ==
            IF n = 0 THEN << >>
            ELSE Append(seen[n - 1], Source(p, d, s, inner, <<seen[n - 1]>> \o outer, places[n]))
    IN  seen[Len(places)]

(***************************************************************************)
(* Queries                                                                  *)
(***************************************************************************)

\* The columns two sources have in common, which NATURAL compares.
Shared(sources) ==
    UNION {x.from : x \in {y \in UNION {ToSet(n.columns) : n \in sources} :
        Cardinality({n \in sources : \E z \in ToSet(n.columns) : z.label = y.label}) > 1}}

\* What a factor of a level is joined by, and what the level's joins compare.
Compared(scopes, sub, level, f) ==
    IF f.op = "using" THEN UNION {x.from : x \in Meant(scopes, None, f.using)}
    ELSE IF f.op = "natural" THEN Shared({n \in ToSet(Head(scopes)) : n.factor \in Inside(level)})
    ELSE UNION {From(scopes, sub, e) : e \in f.on}

JoinFrom(scopes, sub, level) == UNION {Compared(scopes, sub, level, f) : f \in ToSet(level)}

ItemLabel(item) ==
    IF item.alias # None THEN item.alias ELSE IF item.e.k = "col" THEN item.e.c ELSE "expr"

Value(scopes, sub, item) ==
    LET meant == IF item.e.k = "col" THEN Meant(scopes, item.e.q, item.e.c) ELSE {}
    IN  IF Cardinality(meant) = 1
        THEN Called(CHOOSE x \in meant : TRUE, ItemLabel(item))
        ELSE Computed(ItemLabel(item), From(scopes, sub, item.e))

Item(scopes, sub, item) ==
    CASE item.k = "star"  -> FlattenSeq([i \in DOMAIN scopes[1] |-> scopes[1][i].columns])
      [] item.k = "qstar" -> Row(scopes, item.q)
      [] item.k = "item"  -> <<Value(scopes, sub, item)>>

\* The columns of a query.
Outputs(p, d, s, q, inner, sub, scopes) ==
    IF q.body = "table" THEN Known(p, d, s, inner, q.table)
    ELSE FlattenSeq([i \in DOMAIN q.items |-> Item(scopes, sub, q.items[i])])

\* A key is a position or an expression; a plain name may be that of an output.
KeyFrom(scopes, sub, columns, e) ==
    IF e.k = "ordinal" THEN IF columns = << >> THEN {} ELSE columns[1].from
    ELSE From(scopes, sub, e)
         \cup UNION {x.from : x \in {y \in ToSet(columns) : e.k = "col" /\ e.q = None /\ y.label = e.c}}

\* With them, the stored columns that decide which rows it returns, how many, and
\* in which order.
Selected(q, sub, scopes, columns) ==
    [columns |-> columns,
     decides |-> (UNION {From(scopes, sub, e) : e \in q.where})
                 \cup (UNION {KeyFrom(scopes, sub, columns, e) : e \in ToSet(q.group) \cup ToSet(q.order)})
                 \cup (UNION {JoinFrom(scopes, sub, level) : level \in Levels(q)})
                 \cup (IF q.distinct \/ q.orderAll \/ q.groupAll THEN Froms(columns) ELSE {})]

Select(p, d, s, q, inner, sub, outer) ==
    LET scopes == <<Sources(p, d, s, q.from, inner, outer)>> \o outer
    IN  Selected(q, sub, scopes, Outputs(p, d, s, q, inner, sub, scopes))

\* A derived table or subquery may refer to the sources around it.
Beneath(p, d, s) ==
    IF Len(s.queries) = 1 THEN [columns |-> << >>, decides |-> {}]
    ELSE Select(p, d, s, s.queries[2], << >>, {},
                IF s.role \in {"derived", "sub"}
                THEN <<Sources(p, d, s, s.queries[1].from, << >>, << >>)>> ELSE << >>)

\* Where the second query is the arm of a UNION, it adds to each column; and
\* UNION removes duplicates.
Combined(s, outer, nested) ==
    IF s.role # "arm" THEN [columns |-> outer.columns, decides |-> outer.decides \cup nested.decides]
    ELSE [columns |-> [i \in DOMAIN outer.columns \cap DOMAIN nested.columns |->
                          Computed(outer.columns[i].label, outer.columns[i].from \cup nested.columns[i].from)],
          decides |-> outer.decides \cup nested.decides \cup Froms(outer.columns) \cup Froms(nested.columns)]

Around(p, d, s, nested) ==
    Combined(s, Select(p, d, s, s.queries[1], nested.columns, Froms(nested.columns), << >>), nested)

Result(p, d, s) == Around(p, d, s, Beneath(p, d, s))

\* No server explains a SHOW or DESCRIBE, nor another EXPLAIN.
Metadata == {"show", "explain_table", "explain"}

\* What the server does besides reading when it is given the text.
ServerRuns(p, s) ==
    {<<"call", e.f>> : e \in Calls(s)}
    \cup {<<"call", f.name>> : f \in {g \in SourceCalls(s) : g.name # "only"}}
    \cup (IF p.engine = "mysql" /\ s.opener # {} THEN {<<"comment", None>>} ELSE {})
    \cup {<<"lock", None>> : q \in {x \in ToSet(s.queries) : x.locks}}
    \cup {<<"setting", None>> : q \in {x \in ToSet(s.queries) : x.settings}}
    \cup {<<"write", None>> : q \in {x \in ToSet(s.queries) : x.into \/ x.body = "write"}}
    \cup (IF s.count > 1 THEN {<<"second statement", None>>} ELSE {})
    \cup (IF s.kind = "explain" /\ ExplainExecutes(s) /\ s.inner \notin Metadata THEN {<<"execution", None>>} ELSE {})
    \cup (IF {s.kind, s.inner} \subseteq Reads THEN {} ELSE {<<"statement", s.kind>>})

=============================================================================
