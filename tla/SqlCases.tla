------------------------------ MODULE SqlCases ------------------------------
(***************************************************************************)
(* SQL connections and statements to check Verdicts with: two tables, a view   *)
(* over one of them and a catalog of sampled values, and over them statements  *)
(* of every shape the rules tell apart.                                        *)
(***************************************************************************)
EXTENDS SqlMeaning

TheTables == [users |-> <<"id", "email">>, orders |-> <<"id", "note">>]
TheViews == [v |-> << [label |-> "id", t |-> "users", c |-> "id"],
                      [label |-> "contact", t |-> "users", c |-> "email"] >>]
TheBuiltin == [e \in SqlEngines |-> {"sleep"}]
TheFamily == [e \in SqlEngines |-> {"dblink"}]
TheSampling == [e \in SqlEngines |-> {"stats"}]

Base == {<<"users", "email">>}
Both == Base \cup {<<"v", "contact">>}

SqlPolicy(engine, mode, rules) ==
    [engine |-> engine, mode |-> mode, rules |-> rules, allow |-> {}, deny |-> {}]

TheSqlPolicies ==
    {SqlPolicy("postgres", "deny", {}), SqlPolicy("postgres", "deny", Both),
     SqlPolicy("mysql", "mask", Both), SqlPolicy("sqlite", "mask", Base),
     SqlPolicy("clickhouse", "mask", Both),
     [SqlPolicy("mysql", "deny", Base) EXCEPT !.allow = {"sleep"}, !.deny = {"upper"}]}

(***************************************************************************)
(* Building blocks                                                          *)
(***************************************************************************)
Col(c) == [k |-> "col", q |-> None, c |-> c]
QCol(q, c) == [k |-> "col", q |-> q, c |-> c]
Call(f, args) == [k |-> "call", f |-> f, args |-> args]
Arg(e) == [k |-> "arg", e |-> e]
Star == [k |-> "star"]
QStar(q) == [k |-> "qstar", q |-> q]
Sub == [k |-> "sub"]
Ordinal == [k |-> "ordinal"]
The(e) == [k |-> "item", e |-> e, alias |-> None]
As(item, alias) == [item EXCEPT !.alias = alias]

Table(t) ==
    [k |-> "table", name |-> t, call |-> FALSE, args |-> << >>, alias |-> None,
     renames |-> FALSE, op |-> "first", using |-> None, on |-> {}, inner |-> << >>]
CallOf(f, args) == [Table(f) EXCEPT !.call = TRUE, !.args = args]
Derived(alias) == As([Table(None) EXCEPT !.k = "derived"], alias)
Users == Table("users")
U == As(Users, "u")

Plain(items, from) ==
    [body |-> "select", table |-> None, items |-> items, from |-> from, where |-> {},
     group |-> << >>, groupAll |-> FALSE, rollup |-> FALSE, order |-> << >>, orderAll |-> FALSE,
     distinct |-> FALSE, into |-> FALSE, settings |-> FALSE, format |-> FALSE, locks |-> FALSE]
Whole(t) == [Plain(<< >>, << >>) EXCEPT !.body = "table", !.table = t]

Statement(queries, role, cte) ==
    [kind |-> "query", inner |-> "query", analyze |-> FALSE, options |-> {}, opener |-> {},
     parse |-> "ok", count |-> 1, role |-> role, cte |-> cte, queries |-> queries]
One(q) == Statement(<<q>>, "none", None)

(***************************************************************************)
(* The statements                                                           *)
(***************************************************************************)
Items ==
    {The(e) : e \in {Col("id"), Col("email"), Col("contact"), QCol("u", "email"),
                     QCol("orders", "email"), Col("users"), Col("u"), Ordinal,
                     Call("sleep", << >>), Call("count", <<Star>>),
                     Call("json", <<QStar("u")>>), Call("upper", <<Arg(Col("email"))>>)}}
    \cup {As(The(Col("email")), "e"), Star, QStar("u"), QStar("orders")}

Projections ==
    {<<i>> : i \in Items} \cup {<<i, The(Col("email"))>> : i \in {Star, QStar("orders"), The(Col("id"))}}

Sources1 ==
    {Users, U, Table("orders"), As(Table("orders"), "users"), Table("v"), Table("stats"),
     As(Table("only"), "users"), CallOf("only", <<Arg(Col("users"))>>),
     [U EXCEPT !.renames = TRUE], CallOf("f", <<Arg(Call("sleep", << >>))>>),
     CallOf("sleep", << >>), [CallOf("dblink", << >>) EXCEPT !.k = "function"]}

Joined(t, op) == [Table(t) EXCEPT !.op = op]
Joins ==
    {<<f, g>> : f \in {Table("orders"), U},
                g \in {Joined("users", "comma"), Joined("orders", "comma"), Joined("v", "natural"),
                       Joined("users", "natural"), Joined("email", "array"),
                       [CallOf("f", <<QStar("u")>>) EXCEPT !.op = "comma"]}
                      \cup {[Joined("users", "using") EXCEPT !.using = c] : c \in {"id", "email"}}
                      \cup {[Joined("users", "on") EXCEPT !.on = {Col(c)}] : c \in {"id", "email"}}}
Nested == {<<[Table(None) EXCEPT !.k = "nested", !.inner = j]>> : j \in Joins}

Simple == {Plain(p, f) : p \in Projections, f \in {<<s>> : s \in Sources1} \cup Joins}
          \cup {Plain(p, f) : p \in {<<The(Col("id"))>>, <<The(Col("email"))>>, <<Star>>}, f \in Nested}

Filtered ==
    {[Plain(p, <<f>>) EXCEPT !.where = w, !.order = o] :
        p \in {<<The(Col("id"))>>, <<The(Col("email"))>>, <<The(Col("contact"))>>, <<Star>>},
        f \in {Users, Table("orders"), Table("v")},
        w \in {{}, {Col("email")}}, o \in {<<Col("id")>>, <<Ordinal>>, <<Col("contact")>>}}

Grouped ==
    {[Plain(<<The(Col("email")), The(Col("id"))>>, <<Users>>) EXCEPT
        !.distinct = d, !.group = g, !.order = o, !.orderAll = oa, !.groupAll = ga, !.rollup = r] :
        d \in BOOLEAN, g \in {<<Col("id")>>, << >>, <<Ordinal>>}, o \in {<<Col("id")>>, << >>},
        oa \in BOOLEAN, ga \in BOOLEAN, r \in BOOLEAN}

\* Keys that name a column of the result.
Relabelled ==
    {[Plain(<<As(The(Col(c)), "e"), The(Col("email"))>>, <<f>>) EXCEPT !.order = <<o>>] :
        c \in {"id", "email", "contact"}, f \in {Users, Table("orders"), Table("v")},
        o \in {Col("e"), Col("email"), QCol("orders", "email")}}

Second ==
    {Plain(<<i>>, f) : i \in {The(Col("id")), The(Col("email")), The(QCol("u", "email")), Star, QStar("u")},
                       f \in {<<Users>>, <<Table("orders")>>, <<U>>, << >>}}
    \cup {Whole("users"), Whole("orders"), Whole("stats")}

Narrow == {<<The(Col("id"))>>, <<The(Col("email"))>>, <<Star>>}

TwoQueries ==
    {Statement(<<Plain(p, <<Derived(a)>>), b>>, "derived", None) :
        p \in Narrow, a \in {"s", "users"}, b \in Second}
    \cup {Statement(<<Plain(p, <<U, [Derived("s") EXCEPT !.op = "comma"]>>), b>>, "derived", None) :
        p \in {<<The(Col("id"))>>, <<The(QCol("s", "email"))>>, <<QStar("s")>>}, b \in Second}
    \cup {Statement(<<Plain(p, <<Table(t)>>), b>>, "cte", c) :
        p \in Narrow, t \in {"orders", "c"}, b \in Second, c \in {"c", "users"}}
    \cup {Statement(<<[Plain(p, <<Table(t)>>) EXCEPT !.where = {Sub}], b>>, "sub", None) :
        p \in Narrow, t \in {"users", "orders"}, b \in Second}
    \cup {Statement(<<a, b>>, "arm", None) :
        a \in {Plain(p, <<Users>>) : p \in Narrow} \cup {Whole("orders")}, b \in Second}

Quiet == One(Plain(<<The(Col("id"))>>, <<Table("orders")>>))
Alone(q) == [Quiet EXCEPT !.queries = <<q>>]
QuietQuery == Quiet.queries[1]

Unusual ==
    {Alone([QuietQuery EXCEPT !.locks = TRUE]), Alone([QuietQuery EXCEPT !.into = TRUE]),
     Alone([QuietQuery EXCEPT !.format = TRUE]), Alone([QuietQuery EXCEPT !.settings = TRUE]),
     Alone([Whole(None) EXCEPT !.body = "write"]), [Quiet EXCEPT !.opener = {"escapes"}],
     [Quiet EXCEPT !.opener = {"plain"}], [Quiet EXCEPT !.parse = "deep"], [Quiet EXCEPT !.parse = "panic"],
     [Quiet EXCEPT !.count = 2], [Quiet EXCEPT !.count = 0]}
    \cup {[Quiet EXCEPT !.kind = k] : k \in Reads \cup Control \cup {"pragma", "insert"}}
    \cup {[Quiet EXCEPT !.kind = "explain", !.analyze = a, !.options = o, !.inner = i] :
            a \in BOOLEAN, o \in {{}, {"analyse"}, {"format"}}, i \in {"query", "insert", "set", "show"}}

\* Parenthesised joins with a name of their own.
Aliased ==
    {One([Plain(<<The(QCol("j", "id"))>>, <<As(n[1], "j")>>) EXCEPT !.where = w]) :
        n \in Nested, w \in {{}, {QCol("j", "email")}}}

TheStatements ==
    {One(q) : q \in Simple \cup Filtered \cup Grouped \cup Relabelled}
    \cup TwoQueries \cup Unusual \cup Aliased

=============================================================================
